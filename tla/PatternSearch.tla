---------------------------- MODULE PatternSearch ----------------------------
(***************************************************************************)
(* string.gmatch and string.gsub of string_lib.rs, which look for one match *)
(* after another with the matcher of LuaPattern.  Each is called once with  *)
(* the same pattern and subject; gsub has a replacement that cannot fail,   *)
(* and its result is the list of the bytes it copied and the matches it     *)
(* replaced.                                                                *)
(***************************************************************************)
EXTENDS LuaPattern

CONSTANTS Patterns, Subjects,
          Inits,        \* the init of gmatch, 1 where it is left out
          MaxCounts     \* the n of gsub

ASSUME LibraryAssumption == LimitsAssumption

VARIABLES pat, src,
          init,         \* the argument
          gm,           \* GmatchIter: offset, last_match_end, what it has given
          gs            \* gsub: offset, last_match_end, count, n, result

vars == <<pat, src, init, gm, gs>>

\* The offset of a Lua position for gmatch: not clamped to the length.
GmatchOffset(i, len) == IF i > 0 THEN i - 1
                        ELSE IF i = 0 \/ i < -len THEN 0 ELSE len + i

Init == /\ pat \in Patterns /\ Valid(pat.items)
        /\ src \in Subjects
        /\ init \in Inits
        /\ gm = [offset |-> GmatchOffset(init, Len(src)), last |-> None, found |-> <<>>]
        /\ \E n \in MaxCounts : gs = [offset |-> 0, last |-> None, count |-> 0, n |-> n,
                                      result |-> <<>>, done |-> FALSE]

Empty(m) == m.start = m.end

\* Fault variant of GmatchNext: an empty match right after a match counts.
GmatchNextAdjacent ==
    LET m == Find(pat, src, gm.offset) IN
    /\ gm.offset <= Len(src)
    /\ gm' = IF m.end < 0 THEN [gm EXCEPT !.offset = Len(src) + 1]
             ELSE [offset |-> IF Empty(m) THEN m.end + 1 ELSE m.end, last |-> m.end,
                   found |-> Append(gm.found, m)]
    /\ UNCHANGED <<pat, src, init, gs>>

\* One turn of the loop of GmatchIter::next; errors end the iteration.
GmatchNext ==
    LET m == Find(pat, src, gm.offset) IN
    /\ gm.offset <= Len(src)
    /\ gm' = IF m.end < 0 THEN [gm EXCEPT !.offset = Len(src) + 1]
             ELSE IF Empty(m) /\ m.end = gm.last THEN [gm EXCEPT !.offset = @ + 1]
             ELSE [offset |-> IF Empty(m) THEN m.end + 1 ELSE m.end, last |-> m.end,
                   found |-> Append(gm.found, m)]
    /\ UNCHANGED <<pat, src, init, gs>>

Byte(i) == [copied |-> i]
Bytes(from, to) == [i \in 1..to - from |-> Byte(from + i - 1)]

\* One turn of the loop of gsub, with the remainder after the last one.
GsubTurn ==
    LET m == Find(pat, src, gs.offset)
        repeats == m.end >= 0 /\ Empty(m) /\ m.end = gs.last
        anchoredOnce == pat.anchored /\ gs.count > 0
        rest == Bytes(gs.offset, Len(src))
    IN
    /\ ~gs.done
    /\ gs' = CASE \/ anchoredOnce \/ gs.count >= gs.n \/ m.end < 0
                  \/ repeats /\ gs.offset >= Len(src) ->
                    [gs EXCEPT !.done = TRUE, !.offset = Len(src), !.result = @ \o rest]
               [] OTHER ->
                    IF repeats THEN [gs EXCEPT !.offset = @ + 1,
                                               !.result = Append(@, Byte(gs.offset))]
                    ELSE [gs EXCEPT !.offset = m.end, !.last = m.end, !.count = @ + 1,
                                    !.result = Append(@ \o Bytes(gs.offset, m.start), m)]
    /\ UNCHANGED <<pat, src, init, gm>>

Next == GmatchNext \/ GsubTurn

Spec == Init /\ [][Next]_vars

-----------------------------------------------------------------------------
\* A byte that is read again has been copied or replaced once.
Extent(piece) == IF "copied" \in DOMAIN piece THEN <<piece.copied, piece.copied + 1>>
                 ELSE <<piece.start, piece.end>>

\* The backtracking matcher finds the leftmost match and, of the ways to make
\* it, the preferred one, with its captures: no attempt that failed leaves
\* anything behind.  It never gives up, whatever the subject, when the pattern
\* has fewer items than MAX_CALLS.
MatchIsPreferred ==
    gm.found = <<>> /\ gs.result = <<>>
        => Find(pat, src, gm.offset) = Meaning(pat, src, gm.offset)

\* gsub loses and repeats no byte: what it copied and what it replaced are the
\* subject from end to end.
TilesSubject ==
    LET n == Len(gs.result) IN
    /\ \A i \in 1..n - 1 : Extent(gs.result[i])[2] = Extent(gs.result[i + 1])[1]
    /\ n > 0 => Extent(gs.result[1])[1] = 0
    /\ gs.done => IF n = 0 THEN src = <<>> ELSE Extent(gs.result[n])[2] = Len(src)

Replaced == SelectSeq(gs.result, LAMBDA piece : "start" \in DOMAIN piece)

\* gsub replaces what gmatch gives: the matches that do not overlap, an empty
\* one only where none has just ended, the first n of them.
ReplacesMatches ==
    gs.done /\ gm.offset > Len(src) /\ init = 1 /\ ~pat.anchored
        => Replaced = SubSeq(gm.found, 1, IF gs.n <= Len(gm.found) THEN gs.n ELSE Len(gm.found))

\* Two loops written apart, gmatch's and gsub's, agree on where one match ends
\* and the next may begin, and between the matches nothing is lost.
GsubFollowsGmatch == TilesSubject /\ ReplacesMatches
=============================================================================
