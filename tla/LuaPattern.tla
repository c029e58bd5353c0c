----------------------------- MODULE LuaPattern -----------------------------
(***************************************************************************)
(* The backtracking matcher of lua_pattern.rs (MatchState, Pattern::find).  *)
(* A pattern is the sequence of its items: what the code reads from bytes   *)
(* again at every attempt.  Subject positions are 0-based, as in the code.  *)
(* The captures are the code's mutable slots, passed along and handed back, *)
(* so that what a failed attempt leaves in them is what the code leaves.    *)
(***************************************************************************)
EXTENDS Integers, Sequences, FiniteSets, SequencesExt

CONSTANTS MaxCaptures,   \* MAX_CAPTURES
          MaxCalls       \* MAX_CALLS, the depth of do_match

LimitsAssumption == MaxCaptures \in Nat /\ MaxCalls \in Nat

--------------------------------- (* Patterns *) -----------------------------
NUL == "nul"                                    \* the byte beyond either end
One(set, rep) == [item |-> "one", set |-> set, rep |-> rep]
Opening == [item |-> "open"]
Closing == [item |-> "close"]
Position == [item |-> "position"]
EndAnchor == [item |-> "end"]                   \* the last item only
Balance(x, y) == [item |-> "balance", opens |-> x, closes |-> y]
Frontier(set) == [item |-> "frontier", set |-> set]
Back(n) == [item |-> "back", n |-> n]

Count(items, name, upto) == Cardinality({i \in 1..upto : items[i].item = name})

\* validate: captures are balanced, and not too many.
Valid(items) ==
    LET n == Len(items) IN
    /\ \A i \in 1..n : Count(items, "close", i) <= Count(items, "open", i)
    /\ Count(items, "close", n) = Count(items, "open", n)
    /\ Count(items, "open", n) + Count(items, "position", n) <= MaxCaptures

--------------------------------- (* do_match *) -----------------------------
None == -1                \* Ok(None)
Raised == -2              \* Err

Result(end, caps) == [end |-> end, caps |-> caps]
With(m, r) == [m EXCEPT !.caps = r.caps]

At(src, s) == IF s \in 0..Len(src) - 1 THEN src[s + 1] ELSE NUL

SingleMatch(m, s, p) == s < Len(m.src) /\ At(m.src, s) \in m.items[p].set

\* match_balance: the first place where as many have closed as opened.
MatchBalance(m, s, it) ==
    LET depth[i \in s..Len(m.src)] ==           \* count before src[i] is read
            IF i = s THEN 0
            ELSE depth[i - 1] + (IF At(m.src, i - 1) = it.closes /\ i - 1 > s THEN -1
                                 ELSE IF At(m.src, i - 1) = it.opens THEN 1 ELSE 0)
        ends == {i \in s + 1..Len(m.src) : depth[i] = 0}
    IN IF s >= Len(m.src) \/ At(m.src, s) # it.opens \/ ends = {} THEN None
       ELSE CHOOSE i \in ends : \A j \in ends : i <= j

\* match_capture: a position capture matches nothing, an open one raises.
MatchCapture(m, s, n) ==
    IF n \notin DOMAIN m.caps \/ m.caps[n].is = "unfinished" THEN Raised
    ELSE IF m.caps[n].is = "position" THEN None
    ELSE LET text == SubSeq(m.src, m.caps[n].start + 1, m.caps[n].end) IN
         IF s + Len(text) <= Len(m.src) /\ SubSeq(m.src, s + 1, s + Len(text)) = text
         THEN s + Len(text) ELSE None

RECURSIVE DoMatch(_, _, _), Body(_, _, _), MaxExpand(_, _, _, _), MinExpand(_, _, _)

DoMatch(m, s, p) == IF m.depth = 0 THEN Result(Raised, m.caps)
                    ELSE Body([m EXCEPT !.depth = @ - 1], s, p)

\* start_capture and start_position_capture; a failure gives the level back.
StartCapture(m, s, p, slot) ==
    LET r == DoMatch([m EXCEPT !.caps = Append(@, slot)], s, p) IN
    IF Len(m.caps) >= MaxCaptures THEN Result(Raised, m.caps)
    ELSE IF r.end = None THEN Result(None, Front(r.caps)) ELSE r

\* Fault variant of EndCapture: a failure leaves the capture closed.
EndCaptureKept(m, s, p) ==
    LET open == {i \in DOMAIN m.caps : m.caps[i].is = "unfinished"}
        idx == CHOOSE i \in open : \A j \in open : j <= i
        closed == [is |-> "finished", start |-> m.caps[idx].start, end |-> s]
    IN IF open = {} THEN Result(Raised, m.caps)
       ELSE DoMatch([m EXCEPT !.caps[idx] = closed], s, p)

\* end_capture: closes the last unfinished one; a failure opens it again.
EndCapture(m, s, p) ==
    LET open == {i \in DOMAIN m.caps : m.caps[i].is = "unfinished"}
        idx == CHOOSE i \in open : \A j \in open : j <= i
        closed == [is |-> "finished", start |-> m.caps[idx].start, end |-> s]
        r == DoMatch([m EXCEPT !.caps[idx] = closed], s, p)
    IN IF open = {} THEN Result(Raised, m.caps)
       ELSE IF r.end = None THEN Result(None, [r.caps EXCEPT ![idx] = m.caps[idx]])
       ELSE r

\* max_expand, from i repetitions down.
MaxExpand(m, s, p, i) ==
    LET r == DoMatch(m, s + i, p + 1) IN
    IF r.end # None \/ i = 0 THEN r ELSE MaxExpand(With(m, r), s, p, i - 1)

Repetitions(m, s, p) ==
    CHOOSE n \in 0..Len(m.src) - s :
        /\ \A i \in 0..n - 1 : SingleMatch(m, s + i, p)
        /\ ~SingleMatch(m, s + n, p)

\* min_expand, one more repetition at a time.
MinExpand(m, s, p) ==
    LET r == DoMatch(m, s, p + 1) IN
    IF r.end # None THEN r
    ELSE IF SingleMatch(m, s, p) THEN MinExpand(With(m, r), s + 1, p) ELSE r

\* match_single_or_expand.
Single(m, s, p) ==
    LET rep == m.items[p].rep
        once == DoMatch(m, s + 1, p + 1)
    IN CASE ~SingleMatch(m, s, p) ->
              IF rep \in {"?", "*", "-"} THEN Body(m, s, p + 1) ELSE Result(None, m.caps)
         [] SingleMatch(m, s, p) /\ rep = "?" ->
              IF once.end # None THEN once ELSE Body(With(m, once), s, p + 1)
         [] SingleMatch(m, s, p) /\ rep = "+" ->
              MaxExpand(m, s + 1, p, Repetitions(m, s + 1, p))
         [] SingleMatch(m, s, p) /\ rep = "*" -> MaxExpand(m, s, p, Repetitions(m, s, p))
         [] SingleMatch(m, s, p) /\ rep = "-" -> MinExpand(m, s, p)
         [] SingleMatch(m, s, p) /\ rep = "" -> Body(m, s + 1, p + 1)

\* do_match_body: the loop over the items that need no choice.
Body(m, s, p) ==
    IF p > Len(m.items) THEN Result(s, m.caps)
    ELSE LET it == m.items[p]
             continue(e) == IF e < 0 THEN Result(e, m.caps) ELSE Body(m, e, p + 1)
         IN CASE it.item = "open" -> StartCapture(m, s, p + 1, [is |-> "unfinished", start |-> s])
              [] it.item = "position" -> StartCapture(m, s, p + 1, [is |-> "position", at |-> s])
              [] it.item = "close" -> EndCapture(m, s, p + 1)
              [] it.item = "end" -> Result(IF s = Len(m.src) THEN s ELSE None, m.caps)
              [] it.item = "balance" -> continue(MatchBalance(m, s, it))
              [] it.item = "back" -> continue(MatchCapture(m, s, it.n))
              [] it.item = "frontier" ->
                   continue(IF /\ At(m.src, s - 1) \notin it.set
                               /\ At(m.src, s) \in it.set THEN s ELSE None)
              [] it.item = "one" -> Single(m, s, p)

--------------------------------- (* Pattern::find *) ------------------------
NoMatch == [start |-> None, end |-> None, caps |-> <<>>]

RECURSIVE FindFrom(_, _, _)
FindFrom(pat, src, s) ==
    LET r == DoMatch([src |-> src, items |-> pat.items, caps |-> <<>>, depth |-> MaxCalls],
                     s, 1)
    IN IF r.end # None THEN [start |-> s, end |-> r.end, caps |-> r.caps]
       ELSE IF pat.anchored \/ s >= Len(src) THEN NoMatch
       ELSE FindFrom(pat, src, s + 1)

Find(pat, src, init) == FindFrom(pat, src, IF init <= Len(src) THEN init ELSE Len(src))

--------------------------------- (* What a match is *) ----------------------
\* Of the ways to cut the subject from s on into pieces, one per item and
\* fitting it, the first by the items' preferences, the earlier items first:
\* "-" prefers shorter pieces, everything else longer ones.  A cut c gives the
\* place where each item's piece begins; the last one ends at c[n + 1].
Mate(items, i) == CHOOSE j \in i + 1..Len(items) :
    /\ Count(items, "open", j) - Count(items, "open", i - 1)
         = Count(items, "close", j) - Count(items, "close", i - 1)
    /\ \A k \in i..j - 1 : Count(items, "open", k) - Count(items, "open", i - 1)
                             > Count(items, "close", k) - Count(items, "close", i - 1)

\* The captures are numbered by where they begin.
Groups(items) == SetToSortSeq({i \in DOMAIN items : items[i].item \in {"open", "position"}}, <)

Group(items, c, n) ==
    LET i == Groups(items)[n] IN
    IF items[i].item = "position" THEN [is |-> "position", at |-> c[i]]
    ELSE [is |-> "finished", start |-> c[i], end |-> c[Mate(items, i)]]

Balanced(text, x, y) ==
    LET excess(n) == Cardinality({i \in 1..n : text[i] = x}) - Cardinality({i \in 1..n : text[i] = y})
    IN /\ text # <<>> /\ Last(text) = y
       /\ excess(Len(text)) = 0 /\ \A n \in 1..Len(text) - 1 : excess(n) > 0

Fits(items, src, c, i) ==
    LET it == items[i]
        text == SubSeq(src, c[i] + 1, c[i + 1])
    IN CASE it.item = "one" ->
              /\ ToSet(text) \subseteq it.set
              /\ it.rep = "" => Len(text) = 1
              /\ it.rep = "?" => Len(text) <= 1
              /\ it.rep = "+" => Len(text) >= 1
         [] it.item \in {"open", "close", "position"} -> text = <<>>
         [] it.item = "end" -> text = <<>> /\ c[i] = Len(src)
         [] it.item = "balance" -> Balanced(text, it.opens, it.closes)
         [] it.item = "frontier" ->
              text = <<>> /\ At(src, c[i] - 1) \notin it.set /\ At(src, c[i]) \in it.set
         [] it.item = "back" ->
              LET g == Group(items, c, it.n) IN
              g.is = "finished" /\ text = SubSeq(src, g.start + 1, g.end)

Cuts(items, src, s) ==
    LET upTo[n \in 0..Len(items)] ==
            IF n = 0 THEN {<<s>>}
            ELSE {c \in {Append(b, e) : b \in upTo[n - 1], e \in s..Len(src)} :
                    c[n] <= c[n + 1] /\ Fits(items, src, c, n)}
    IN upTo[Len(items)]

Preferred(items, c, d) ==
    c = d \/ \E i \in DOMAIN items :
        /\ \A j \in 1..i : c[j] = d[j]
        /\ IF items[i].item = "one" /\ items[i].rep = "-" THEN c[i + 1] < d[i + 1]
           ELSE c[i + 1] > d[i + 1]

\* The leftmost place that has a match, and its preferred one.
Meaning(pat, src, init) ==
    LET from == IF init <= Len(src) THEN init ELSE Len(src)
        tried == IF pat.anchored THEN {from} ELSE from..Len(src)
        starts == {s \in tried : Cuts(pat.items, src, s) # {}}
        start == CHOOSE s \in starts : \A t \in starts : s <= t
        cuts == Cuts(pat.items, src, start)
        best == CHOOSE c \in cuts : \A d \in cuts : Preferred(pat.items, c, d)
    IN IF starts = {} THEN NoMatch
       ELSE [start |-> start, end |-> best[Len(pat.items) + 1],
             caps |-> [n \in DOMAIN Groups(pat.items) |-> Group(pat.items, best, n)]]
=============================================================================
