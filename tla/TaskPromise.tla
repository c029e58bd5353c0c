----------------------------- MODULE TaskPromise -----------------------------
(***************************************************************************)
(* What a spawned task promises to those who hold its handle: it ends with *)
(* one outcome, which never changes, and every answer about it is given    *)
(* after it has ended.                                                     *)
(***************************************************************************)
CONSTANTS Producers, Consumers, Endings, Undecided

VARIABLES
  outcome,  \* producer -> how it ended, or Undecided
  told      \* consumer -> the producers whose outcome it has been told

Init ==
  /\ outcome = [p \in Producers |-> Undecided]
  /\ told = [c \in Consumers |-> {}]

Decide(p) ==
  /\ outcome[p] = Undecided
  /\ \E e \in Endings : outcome' = [outcome EXCEPT ![p] = e]
  /\ UNCHANGED told

Tell(c) ==
  /\ told[c] = {}
  /\ \E ps \in SUBSET {p \in Producers : outcome[p] # Undecided} :
       told' = [told EXCEPT ![c] = ps]
  /\ UNCHANGED outcome

Next == (\E p \in Producers : Decide(p)) \/ (\E c \in Consumers : Tell(c))

Spec == Init /\ [][Next]_<<outcome, told>>
=============================================================================
