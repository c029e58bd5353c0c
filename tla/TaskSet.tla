------------------------------- MODULE TaskSet -------------------------------
(***************************************************************************)
(* task.taskset: LuaTaskSet in crates/shingetsu/src/task/lua_task_set.rs.  *)
(*                                                                         *)
(* Each task added to the set gets a watcher, a tokio task that waits for  *)
(* it and sends (task, result) over an unbounded channel; next receives    *)
(* from the channel under an async mutex.  The tasks themselves are those  *)
(* of TaskPromise, which TaskLifecycle implements; a watcher is named by   *)
(* the add that spawned it, so that a task added twice has two.            *)
(***************************************************************************)
EXTENDS Naturals, Sequences, FiniteSets, WaitLine

CONSTANTS
  Tasks,    \* the tasks that can be added
  Adds,     \* the calls of add, each made at most once
  Calls,    \* the calls of next (or of the set itself), each made at most once
  Endings,  \* how a task can end
  None      \* no task, no outcome, no completion

NoneAssumption == None \notin Tasks \cup Adds \cup Endings

VARIABLES
  outcome,   \* task -> its ending, or None while it runs
  told,      \* add -> the tasks whose ending its watcher has been told
  added,     \* add -> the task it added, or None
  inFlight,  \* LuaTaskSet.in_flight
  channel,   \* the completions sent and not received, as adds
  line,      \* the calls that hold (first) or await (rest) the rx mutex
  pc,        \* call -> where it is
  answer     \* call -> the completion it received, or None

promiseVars == <<outcome, told>>
vars == <<outcome, told, added, inFlight, channel, line, pc, answer>>

Promise == INSTANCE TaskPromise
             WITH Producers <- Tasks, Consumers <- Adds, Undecided <- None

Watching(a) == added[a] # None /\ told[a] = {}

Init ==
  /\ Promise!Init
  /\ added = [a \in Adds |-> None]
  /\ inFlight = 0
  /\ channel = <<>>
  /\ line = <<>>
  /\ pc = [c \in Calls |-> "idle"]
  /\ answer = [c \in Calls |-> None]

(* A task ends, whether or not it is in the set. *)
End(t) ==
  /\ Promise!Decide(t)
  /\ UNCHANGED <<added, inFlight, channel, line, pc, answer>>

(* add: count the task, then spawn its watcher. *)
Watch(a, t) ==
  /\ added[a] = None
  /\ added' = [added EXCEPT ![a] = t]
  /\ inFlight' = inFlight + 1
  /\ UNCHANGED <<promiseVars, channel, line, pc, answer>>

(* The watcher's wait returns and it sends. *)
Forward(a) ==
  /\ Watching(a) /\ outcome[added[a]] # None
  /\ told' = [told EXCEPT ![a] = {added[a]}]
  /\ channel' = Append(channel, a)
  /\ UNCHANGED <<outcome, added, inFlight, line, pc, answer>>

(* Fault variant of Enter: the set is empty when the channel is. *)
EnterByChannel(c) ==
  /\ pc[c] = "idle"
  /\ \/ channel = <<>> /\ pc' = [pc EXCEPT ![c] = "empty"] /\ UNCHANGED line
     \/ /\ channel # <<>>
        /\ pc' = [pc EXCEPT ![c] = "waiting"]
        /\ line' = Append(line, c)
  /\ UNCHANGED <<promiseVars, added, inFlight, channel, answer>>

(* next looks at the counter, then queues for the mutex, which is fair. *)
Enter(c) ==
  /\ pc[c] = "idle"
  /\ \/ /\ inFlight = 0
        /\ pc' = [pc EXCEPT ![c] = "empty"]
        /\ UNCHANGED line
     \/ /\ inFlight # 0
        /\ pc' = [pc EXCEPT ![c] = "waiting"]
        /\ line' = Append(line, c)
  /\ UNCHANGED <<promiseVars, added, inFlight, channel, answer>>

(* Fault variant of Receive: the completion stays in the channel. *)
Peek(c) ==
  /\ line # <<>> /\ Head(line) = c /\ pc[c] = "waiting"
  /\ channel # <<>>
  /\ answer' = [answer EXCEPT ![c] = Head(channel)]
  /\ pc' = [pc EXCEPT ![c] = "counting"]
  /\ UNCHANGED <<promiseVars, added, inFlight, channel, line>>

(* The holder of the mutex receives ... *)
Receive(c) ==
  /\ line # <<>> /\ Head(line) = c /\ pc[c] = "waiting"
  /\ channel # <<>>
  /\ answer' = [answer EXCEPT ![c] = Head(channel)]
  /\ channel' = Tail(channel)
  /\ pc' = [pc EXCEPT ![c] = "counting"]
  /\ UNCHANGED <<promiseVars, added, inFlight, line>>

(* ... then counts the completion and unlocks. *)
Count(c) ==
  /\ pc[c] = "counting"
  /\ inFlight' = inFlight - 1
  /\ line' = Tail(line)
  /\ pc' = [pc EXCEPT ![c] = "done"]
  /\ UNCHANGED <<promiseVars, added, channel, answer>>

(* Fault variant of DropCall: the call keeps its turn at the mutex. *)
DropCallInLine(c) ==
  /\ pc[c] = "waiting"
  /\ pc' = [pc EXCEPT ![c] = "dropped"]
  /\ UNCHANGED <<promiseVars, added, inFlight, channel, line, answer>>

(* The caller of next is cancelled or aborted while it waits. *)
DropCall(c) ==
  /\ pc[c] = "waiting"
  /\ line' = Leave(line, c)
  /\ pc' = [pc EXCEPT ![c] = "dropped"]
  /\ UNCHANGED <<promiseVars, added, inFlight, channel, answer>>

Next ==
  \/ \E t \in Tasks : End(t) \/ \E a \in Adds : Watch(a, t)
  \/ \E a \in Adds : Forward(a)
  \/ \E c \in Calls : Enter(c) \/ Receive(c) \/ Count(c) \/ DropCall(c)

Spec == Init /\ [][Next]_vars

(* Watchers are polled when they can go on, and so are callers; a task may *)
(* run for ever.                                                           *)
Fairness ==
  /\ \A a \in Adds : WF_vars(Forward(a))
  /\ \A c \in Calls : WF_vars(Receive(c)) /\ WF_vars(Count(c))

FairSpec == Spec /\ Fairness

-----------------------------------------------------------------------------
TypeOK ==
  /\ outcome \in [Tasks -> Endings \cup {None}]
  /\ told \in [Adds -> SUBSET Tasks]
  /\ added \in [Adds -> Tasks \cup {None}]
  /\ inFlight \in Nat
  /\ channel \in Seq(Adds)
  /\ line \in Seq(Calls)
  /\ pc \in [Calls -> {"idle", "waiting", "counting", "empty", "done", "dropped"}]
  /\ answer \in [Calls -> Adds \cup {None}]

(* The watchers that have not sent, and the completions not yet received. *)
Outstanding == {a \in Adds : Watching(a)} \cup {channel[i] : i \in DOMAIN channel}

Uncounted == {c \in Calls : pc[c] = "counting"}

(* The counter never loses or invents a task: it is the completions still  *)
(* to come, plus the one a call has received and not yet counted.          *)
CountIsExact == inFlight = Cardinality(Outstanding) + Cardinality(Uncounted)

(* "yields each completion exactly once": no completion is given to two    *)
(* calls, or given and still in the channel, and each is of a task that    *)
(* has ended.                                                              *)
ExactlyOnce ==
  /\ \A i, j \in DOMAIN channel : channel[i] = channel[j] => i = j
  /\ \A c \in Calls : answer[c] # None =>
       /\ answer[c] \notin Outstanding
       /\ outcome[added[answer[c]]] # None
       /\ \A d \in Calls \ {c} : answer[d] # answer[c]

(* next says the set is empty only when nothing is left to be received. *)
EmptyMeansEmpty ==
  [][\A c \in Calls : pc[c] = "idle" /\ pc'[c] = "empty" => Outstanding = {}]_vars

(* The calls in front of c in the line, and c. *)
UpTo(c) == {line[i] : i \in {j \in DOMAIN line :
                               \E k \in DOMAIN line : line[k] = c /\ j <= k}}

(* The completions of tasks that have ended. *)
Ready == {a \in Outstanding : outcome[added[a]] # None}

(* No more calls are waiting in front of c than there are completions. *)
Covered(c) ==
  /\ pc[c] = "waiting"
  /\ Cardinality(UpTo(c) \ Uncounted) <= Cardinality(Ready)

(* A call of next for which a completion is left over when those in front  *)
(* of it in the line have been served gets one.                            *)
CoveredNextReturns ==
  \A c \in Calls : Covered(c) ~> pc[c] # "waiting"
=============================================================================
