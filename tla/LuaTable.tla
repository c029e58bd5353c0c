------------------------------ MODULE LuaTable ------------------------------
(***************************************************************************)
(* Table of table.rs with the functions of the table library that change   *)
(* it: an array for the keys 1..n and an insertion-ordered hash for the     *)
(* rest, with integer keys that move from the hash to the array when the    *)
(* array reaches them; and next, the function under pairs.                  *)
(*                                                                          *)
(* A traversal runs between the changes.  The program changes no table      *)
(* whose sort is in progress, and adds no key during a traversal.           *)
(***************************************************************************)
EXTENDS Integers, Sequences, FiniteSets, SequencesExt

CONSTANTS MaxPosition,      \* bound: the integer keys are 1..MaxPosition
          Names, Values, Nil,
          ClearsCurrent     \* whether a traversal clears the key it is at

TableAssumption ==
    /\ MaxPosition \in Nat \ {0} /\ ClearsCurrent \in BOOLEAN
    /\ Names \cap Int = {} /\ Nil \notin Values \cup Names \cup Int

VARIABLES array,            \* TableInner.array
          hash,             \* TableInner.hash: pairs <<key, value>> in order
          frozen,
          taken,            \* the array while table.sort has it, else NotTaken
          trav              \* a traversal: its state, the keys it has given and
                            \* those it owes: there from the start, not cleared

vars == <<array, hash, frozen, taken, trav>>

Keys == 1..MaxPosition \cup Names
NotTaken == <<Nil>>                 \* not an array: arrays end with a value

--------------------------------- (* raw_get, raw_set *) ---------------------
HashKeys(h) == {h[i][1] : i \in DOMAIN h}
HashIndex(h, k) == CHOOSE i \in DOMAIN h : h[i][1] = k
HashGet(h, k) == IF k \in HashKeys(h) THEN h[HashIndex(h, k)][2] ELSE Nil
HashPut(h, k, v) == IF k \in HashKeys(h) THEN [h EXCEPT ![HashIndex(h, k)] = <<k, v>>]
                    ELSE Append(h, <<k, v>>)

\* Fault: swap_remove, which puts the last entry where the removed one was.
HashSwapRemove(h, k) ==
    IF k \notin HashKeys(h) THEN h
    ELSE SubSeq([h EXCEPT ![HashIndex(h, k)] = h[Len(h)]], 1, Len(h) - 1)

HashRemove(h, k) ==                                       \* shift_remove
    IF k \in HashKeys(h) THEN RemoveAt(h, HashIndex(h, k)) ELSE h

Here == [array |-> array, hash |-> hash]
Entry(t, k) == IF k \in DOMAIN t.array THEN t.array[k] ELSE HashGet(t.hash, k)
Get(k) == Entry(Here, k)

\* The longest prefix that does not end with nil.
Trim(a) == LET full == {n \in DOMAIN a : a[n] # Nil} IN
           SubSeq(a, 1, CHOOSE n \in {0} \cup full : \A m \in full : m <= n)

\* Fault: keys of the hash stay there when the array reaches them.
AbsorbNothing(t) == t

\* The entries of the hash that follow the array move to it, one per turn.
AbsorbNext(t) ==
    LET next == Len(t.array) + 1 IN
    IF next \in HashKeys(t.hash)
    THEN [array |-> Append(t.array, HashGet(t.hash, next)), hash |-> HashRemove(t.hash, next)]
    ELSE t

Absorb(t) ==
    LET Turn[n \in 0..Len(t.hash)] == IF n = 0 THEN t ELSE AbsorbNext(Turn[n - 1])
    IN Turn[Len(t.hash)]

RawSet(t, k, v) ==
    CASE k \in DOMAIN t.array ->
            [t EXCEPT !.array = IF v = Nil THEN Trim([@ EXCEPT ![k] = Nil])
                                ELSE [@ EXCEPT ![k] = v]]
      [] k \notin DOMAIN t.array /\ v = Nil -> [t EXCEPT !.hash = HashRemove(@, k)]
      [] k = Len(t.array) + 1 /\ v # Nil -> Absorb([t EXCEPT !.array = Append(@, v)])
      [] OTHER -> [t EXCEPT !.hash = HashPut(@, k, v)]

--------------------------------- (* next *) ---------------------------------
End == [key |-> Nil]

FirstAfter(n) ==
    LET later == {m \in DOMAIN array : m > n /\ array[m] # Nil} IN
    IF later # {} THEN [key |-> CHOOSE m \in later : \A o \in later : m <= o]
    ELSE IF hash # <<>> THEN [key |-> hash[1][1]] ELSE End

\* A key that is not there has no successor.
NextKey(k) ==
    IF k = Nil THEN FirstAfter(0)
    ELSE IF k \in DOMAIN array THEN FirstAfter(k)
    ELSE LET after == {i \in DOMAIN hash : i > 1 /\ hash[i - 1][1] = k} IN
         IF after = {} THEN End ELSE [key |-> hash[CHOOSE i \in after : TRUE][1]]

--------------------------------- (* table.sort *) ---------------------------
\* The comparator may answer anything: a sort can give every order.
Orders(S) == {f \in [S -> S] : \A p \in S : \E q \in S : f[q] = p}

\* What an error in the comparison of the merge of 1..h and h + 1..n leaves: some
\* first elements of both, merged, and after them what was in their place.
IsBrokenMerge(f, h, n) ==
    \E l \in Orders(1..h), r \in Orders(h + 1..n), i \in 0..h - 1, j \in 0..n - h - 1 :
        LET sorted == [p \in 1..n |-> IF p <= h THEN l[p] ELSE r[p]]
            firsts == 1..i \cup h + 1..h + j
        IN /\ \A p \in i + j + 1..n : f[p] = sorted[p]
           /\ \E m \in [1..i + j -> firsts] :
                /\ \A p \in firsts : \E q \in 1..i + j : m[q] = p
                /\ \A p, q \in 1..i + j :
                     p < q /\ (m[p] <= h <=> m[q] <= h) => m[p] < m[q]
                /\ \A p \in 1..i + j : f[p] = sorted[m[p]]

\* Where the elements of n positions are when a comparison has failed: position p
\* has the element that was at f[p].
BrokenOrders[n \in 0..MaxPosition] ==
    LET h == n \div 2
        Left(f) == [p \in 1..h |-> f[p]]
        Right(f) == [p \in 1..n - h |-> f[h + p] - h]
    IN IF n <= 1 THEN {}
       ELSE {f \in [1..n -> 1..n] :
               \/ Left(f) \in BrokenOrders[h] /\ \A p \in h + 1..n : f[p] = p
               \/ Left(f) \in Orders(1..h) /\ Right(f) \in BrokenOrders[n - h]
               \/ IsBrokenMerge(f, h, n)}

--------------------------------- (* Steps *) --------------------------------
NoTraversal == [at |-> "none", seen |-> <<>>, owed |-> {}]

Init == array = <<>> /\ hash = <<>> /\ frozen = FALSE /\ taken = NotTaken /\ trav = NoTraversal

Becomes(t) == array' = t.array /\ hash' = t.hash

\* check_writable; and no sort is in progress.
Writable == ~frozen /\ taken = NotTaken

Current == IF trav.seen = <<>> THEN Nil ELSE Last(trav.seen)

Set(k, v) ==
    /\ Writable
    /\ trav.at = "on" => Get(k) # Nil /\ (v = Nil => ClearsCurrent \/ k # Current)
    /\ Becomes(RawSet(Here, k, v))
    /\ trav' = [trav EXCEPT !.owed = IF v = Nil THEN @ \ {k} ELSE @]
    /\ UNCHANGED <<frozen, taken>>

\* table.insert: one raw_set per element that moves up, from the length down to
\* pos, and one for v.
MoveUp(t, i) == RawSet(t, i + 1, Entry(t, i))

Insert(pos, v) ==
    LET len == Len(array)
        Shift[n \in 0..len] == IF n = 0 THEN Here ELSE MoveUp(Shift[n - 1], len + 1 - n)
    IN
    /\ Writable /\ trav.at # "on"
    /\ len < MaxPosition
    /\ pos <= len + 1
    /\ Becomes(RawSet(Shift[len + 1 - pos], pos, v))
    /\ UNCHANGED <<frozen, taken, trav>>

\* table.remove: raw_remove of a position up to the length.
TableRemove(pos) ==
    /\ Writable /\ trav.at # "on"
    /\ pos \in DOMAIN array
    /\ array' = Trim(RemoveAt(array, pos))
    /\ UNCHANGED <<hash, frozen, taken, trav>>

Clear == /\ Writable /\ trav.at # "on"
         /\ array' = <<>> /\ hash' = <<>>
         /\ UNCHANGED <<frozen, taken, trav>>

Freeze == frozen' = TRUE /\ UNCHANGED <<array, hash, taken, trav>>

\* table.sort swaps the array out and calls the comparator on what it took.
\* The comparator is one that refuses nil, as < does: the array has no holes.
SortBegin == /\ Writable /\ trav.at # "on"
             /\ Nil \notin ToSet(array)
             /\ taken' = array
             /\ array' = <<>>
             /\ UNCHANGED <<hash, frozen, trav>>

SortEnd == /\ taken # NotTaken /\ ~frozen
           /\ \E f \in [DOMAIN taken -> DOMAIN taken] :
                /\ f \in Orders(DOMAIN taken) \cup BrokenOrders[Len(taken)]
                /\ array' = [p \in DOMAIN taken |-> taken[f[p]]]
           /\ taken' = NotTaken
           /\ UNCHANGED <<hash, frozen, trav>>

\* The task is dropped inside the comparator, or the table was frozen by then.
SortDropped == /\ taken # NotTaken
               /\ taken' = NotTaken
               /\ UNCHANGED <<array, hash, frozen, trav>>

BeginTraversal == /\ trav.at = "none" /\ taken = NotTaken
                  /\ trav' = [at |-> "on", seen |-> <<>>,
                              owed |-> {k \in Keys : Get(k) # Nil}]
                  /\ UNCHANGED <<array, hash, frozen, taken>>

Step == LET next == NextKey(Current) IN
        /\ trav.at = "on"
        /\ trav' = IF next = End THEN [trav EXCEPT !.at = "ended"]
                   ELSE [trav EXCEPT !.seen = Append(@, next.key)]
        /\ UNCHANGED <<array, hash, frozen, taken>>

EndTraversal == /\ trav.at # "none"
                /\ trav' = NoTraversal
                /\ UNCHANGED <<array, hash, frozen, taken>>

Next == \/ \E k \in Keys, v \in Values \cup {Nil} : Set(k, v)
        \/ \E pos \in 1..MaxPosition, v \in Values \cup {Nil} : Insert(pos, v)
        \/ \E pos \in 1..MaxPosition : TableRemove(pos)
        \/ Clear \/ Freeze \/ SortBegin \/ SortEnd \/ SortDropped
        \/ BeginTraversal \/ Step \/ EndTraversal

Spec == Init /\ [][Next]_vars

-----------------------------------------------------------------------------
Map == INSTANCE TableMap WITH
    Positions <- 1..MaxPosition,
    content <- [k \in Keys |-> Get(k)],
    length <- Len(array),
    held <- IF taken = NotTaken THEN [p \in {} |-> Nil] ELSE taken

\* The two parts are one map: an entry is where raw_get looks for it, never in
\* both; raw_len is a border, whatever the hash holds after the array; and the
\* sequence functions move exactly the entries they name.
IsMap == Map!Spec

\* "Setting an existing key to nil during traversal is allowed" (next): every
\* entry that is there from the start to its turn is given, and no key twice.
TraversalIsComplete ==
    /\ trav.at = "ended" => trav.owed \subseteq ToSet(trav.seen)
    /\ IsInjective(trav.seen)
=============================================================================
