---------------------------- MODULE ScopeGuards ----------------------------
(***************************************************************************)
(* What <close> locals promise: resources are closed in the reverse of the *)
(* order in which they were opened, each of them once.  A resource is the  *)
(* number under which it was opened.                                       *)
(***************************************************************************)
EXTENDS Naturals, Sequences, SequencesExt

CONSTANT Resources

VARIABLES
  open,  \* the resources that are open
  log    \* the resources that have been closed, in that order

Init == open = {} /\ log = <<>>

Open(r) ==
  /\ \A s \in open \cup Range(log) : s < r
  /\ open' = open \cup {r}
  /\ UNCHANGED log

Close(r) ==
  /\ r \in open
  /\ \A s \in open : s <= r
  /\ open' = open \ {r}
  /\ log' = Append(log, r)

Next == \E r \in Resources : Open(r) \/ Close(r)

Spec == Init /\ [][Next]_<<open, log>>
=============================================================================
