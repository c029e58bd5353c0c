------------------------------ MODULE TaskQueues ------------------------------
(***************************************************************************)
(* The two objects through which tasks hand values on: channels (Channel)  *)
(* and task sets (TaskSet), each a tokio channel that is received from     *)
(* under an async mutex.  They share nothing, so a behaviour uses one of   *)
(* them, object says which, while the other stays as it was made.          *)
(***************************************************************************)
EXTENDS Naturals

CONSTANTS
  Tasks,       \* the tasks that send; each adds to the set and calls next once
  Others,      \* the tasks that receive, or are put into the set
  Capacities,  \* the capacities of channels, 0 for none
  Nobody       \* no task

VARIABLES
  object,
  capacity, open, free, sendLine, buffer, recvLine, sendPc, recvPc, got,
  outcome, told, added, inFlight, completions, rxLine, nextPc, answer

Chan == INSTANCE Channel
          WITH Sends <- Tasks, Receives <- Others, None <- Nobody
Set == INSTANCE TaskSet
         WITH Tasks <- Others, Adds <- Tasks, Calls <- Tasks,
              Endings <- {"ended"}, None <- Nobody, channel <- completions,
              line <- rxLine, pc <- nextPc

ASSUME QueuesAssumption ==
  Chan!NoneAssumption /\ Chan!CapacityAssumption /\ Set!NoneAssumption

chanVars == <<capacity, open, free, sendLine, buffer, recvLine, sendPc, recvPc, got>>
setVars == <<outcome, told, added, inFlight, completions, rxLine, nextPc, answer>>
vars == <<object, chanVars, setVars>>

Init ==
  /\ object \in {"channel", "set"}
  /\ Chan!Init /\ (object # "channel" => capacity = 0)
  /\ Set!Init

Next ==
  \/ object = "channel" /\ Chan!Next /\ UNCHANGED <<object, setVars>>
  \/ object = "set" /\ Set!Next /\ UNCHANGED <<object, chanVars>>

(* Neither fairness asks anything of an object that is not used. *)
FairSpec == Init /\ [][Next]_vars /\ Chan!Fairness /\ Set!Fairness
-----------------------------------------------------------------------------
(* Each value of a channel is in it or with one recv, and each permit is   *)
(* free, with a send, or stands for a value: cancelled calls keep neither. *)
DeliveredOnce == Chan!TypeOK /\ Chan!ExactlyOnce /\ Chan!PermitsAccounted

(* A channel is a bounded queue whose end is announced when it is empty    *)
(* and will stay so.                                                       *)
IsClosableQueue == Chan!IsClosableQueue

(* close ends every recv that waits, and a send and a recv of one channel  *)
(* do not wait for each other for ever.                                    *)
ChannelAnswers == Chan!CloseEndsReceives /\ Chan!NoStandoff

(* in_flight of a task set loses and invents no task, and each completion  *)
(* is given to one call of next.                                           *)
CompletedOnce == Set!TypeOK /\ Set!CountIsExact /\ Set!ExactlyOnce

(* next says that a task set is empty only when nothing is left to come.   *)
EmptyMeansEmpty == Set!EmptyMeansEmpty

(* A call of next for which there is a completion gets one, whoever is     *)
(* cancelled in front of it.                                               *)
CoveredNextReturns == Set!CoveredNextReturns
=============================================================================
