------------------------------ MODULE TableMap ------------------------------
(***************************************************************************)
(* What a Lua table is: a partial map from keys to values.  table.insert,   *)
(* table.remove and table.sort see it as a sequence up to a border, a       *)
(* position that holds a value and is followed by one that does not.        *)
(***************************************************************************)
EXTENDS Integers

CONSTANTS Positions,    \* the integer keys 1..n
          Names,        \* other keys
          Values, Nil

VARIABLES content,      \* Nil where there is no entry
          length,       \* what # gives
          held,         \* the entries table.sort has taken out, if it runs
          frozen

vars == <<content, length, held, frozen>>

Keys == Positions \cup Names
NoSort == [p \in {} |-> Nil]

Borders == {n \in {0} \cup Positions :
              /\ n = 0 \/ content[n] # Nil
              /\ n + 1 \in Positions => content[n + 1] = Nil}

Init == /\ content = [k \in Keys |-> Nil] /\ length = 0
        /\ held = NoSort /\ frozen = FALSE

Set == \E k \in Keys, v \in Values \cup {Nil} :
    content' = [content EXCEPT ![k] = v] /\ UNCHANGED held

Insert == LET n == length IN \E pos \in Positions, v \in Values \cup {Nil} :
    /\ pos <= n + 1
    /\ content' = [k \in Keys |-> IF k = pos THEN v
                                  ELSE IF k \in pos + 1..n + 1 THEN content[k - 1]
                                  ELSE content[k]]
    /\ UNCHANGED held

Remove == LET n == length IN \E pos \in Positions :
    /\ pos <= n
    /\ content' = [k \in Keys |-> IF k = n THEN Nil
                                  ELSE IF k \in pos..n - 1 THEN content[k + 1]
                                  ELSE content[k]]
    /\ UNCHANGED held

Clear == content' = [k \in Keys |-> Nil] /\ UNCHANGED held

\* The sequence is out of the table while table.sort compares.
SortBegin == LET n == length IN
    /\ held = NoSort
    /\ held' = [p \in 1..n |-> content[p]]
    /\ content' = [k \in Keys |-> IF k \in 1..n THEN Nil ELSE content[k]]

\* A sort that ends puts the same values back in some order.
SortEnd == \E f \in [DOMAIN held -> DOMAIN held] :
    /\ \A p \in DOMAIN held : \E q \in DOMAIN held : f[q] = p
    /\ content' = [k \in Keys |-> IF k \in DOMAIN held THEN held[f[k]] ELSE content[k]]
    /\ held' = NoSort

\* A comparator that fails may leave a value twice and another one nowhere.
SortFails == \E f \in [DOMAIN held -> DOMAIN held] :
    /\ content' = [k \in Keys |-> IF k \in DOMAIN held THEN held[f[k]] ELSE content[k]]
    /\ held' = NoSort

\* A sort whose task is dropped does not put the sequence back.
SortDropped == held' = NoSort /\ UNCHANGED content

Change == Set \/ Insert \/ Remove \/ Clear \/ SortBegin

\* Dropping a sort and freezing keep the length; otherwise it is one of the borders.
Next == \/ SortDropped /\ UNCHANGED <<length, frozen>>
        \/ frozen' = TRUE /\ UNCHANGED <<content, length, held>>
        \/ /\ ~frozen /\ (Change \/ SortEnd \/ SortFails)
           /\ length' \in Borders' /\ UNCHANGED frozen

Spec == Init /\ [][Next]_vars
=============================================================================
