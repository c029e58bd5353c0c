---------------------------- MODULE ClosableQueue ----------------------------
(***************************************************************************)
(* What a channel promises to those who use it: a first-in first-out queue *)
(* that holds at most its capacity, and an end that is announced only when *)
(* the queue is empty and will stay so.                                    *)
(***************************************************************************)
EXTENDS Naturals, Sequences

CONSTANTS Values, Capacities

VARIABLES
  capacity,  \* how much the queue holds; 0 stands for no limit
  queue,     \* what was put and not taken, in the order it was put
  ended      \* a consumer was told that nothing will come any more

HasRoom == capacity = 0 \/ Len(queue) < capacity

Init == capacity \in Capacities /\ queue = <<>> /\ ended = FALSE

Put(v) == /\ ~ended /\ HasRoom
          /\ queue' = Append(queue, v)
          /\ UNCHANGED <<capacity, ended>>

Take == /\ queue # <<>>
        /\ queue' = Tail(queue)
        /\ UNCHANGED <<capacity, ended>>

End == /\ queue = <<>>
       /\ ended' = TRUE
       /\ UNCHANGED <<capacity, queue>>

Next == (\E v \in Values : Put(v)) \/ Take \/ End

Spec == Init /\ [][Next]_<<capacity, queue, ended>>
=============================================================================
