---------------------------- MODULE TaskLifecycle ----------------------------
(***************************************************************************)
(* The life of a task started by task.spawn, and the methods of its handle: *)
(* crates/shingetsu/src/task/mod.rs (TaskState, AbortGuard, run_inner,     *)
(* spawn, join, await_all, select) and lua_task.rs.                        *)
(*                                                                         *)
(* A task is a tokio task that polls a wrapper future, which polls the VM; *)
(* a call is one invocation of a method of a handle, made by some other    *)
(* task.  Executor threads run in parallel: a step is what one of them     *)
(* does between two accesses to state that another one can see.            *)
(***************************************************************************)
EXTENDS Naturals, Sequences, FiniteSets

CONSTANTS
  Tasks,     \* the tasks a program can spawn
  Calls,     \* the method calls, each made at most once
  Requests   \* the [op, on] records of the calls, on being a list of tasks

Ops == {"await", "cancel", "abort", "try_result", "join", "select"}

ASSUME RequestsAssumption ==
  \A r \in Requests :
    /\ r.op \in Ops
    /\ r.on \in Seq(Tasks)
    /\ r.on # <<>>
    /\ r.op \notin {"join", "select"} => Len(r.on) = 1

VARIABLES
  phase,      \* task -> where the tokio task is
  disposing,  \* task -> run_inner's cancelling
  permit,     \* task -> a stored notify_one on TaskState.cancel
  aborted,    \* task -> abort took the JoinHandle and called abort on it
  verdict,    \* task -> the outcome run_inner or the guard is about to publish
  result,     \* task -> TaskState.result
  reports,    \* task -> how often on_complete has been fired
  upset,      \* task -> an observer panicked in run_inner's on_complete
  handle,     \* task -> the LuaTask userdata
  consumed,   \* task -> TaskState.consumed
  abandoned,  \* task -> on_handle_abandoned has been fired
  req,        \* call -> its request
  pc,         \* call -> where it is
  at,         \* call -> how many tasks of a join are done with
  waiter,     \* call -> task -> where its TaskState::wait is
  woken,      \* call -> the tasks whose notify_waiters has reached its Notified
  seen        \* call -> the tasks whose result it returned or raised

taskVars ==
  <<phase, disposing, permit, aborted, verdict, result, reports, upset>>
handleVars == <<handle, consumed, abandoned>>
callVars == <<req, pc, at, waiter, woken, seen>>
vars == <<phase, disposing, permit, aborted, verdict, result, reports, upset,
          handle, consumed, abandoned, req, pc, at, waiter, woken, seen>>

Outcomes == {"Success", "Failure", "Cancelled", "Aborted"}

Phases ==
  {"new",        \* not spawned
   "queued",     \* spawned, the wrapper future has never been polled
   "running",    \* being polled, the AbortGuard exists
   "pending",    \* between two polls
   "report",     \* run_inner has its outcome, on_complete is to fire
   "publish",    \* publish is to write the result
   "notify",     \* publish is to wake the waiters
   "dropping",   \* the guard is being dropped armed
   "dropNotify", \* the guard is to wake the waiters
   "dropReport", \* the guard is to fire on_complete
   "gone"}

Waiting == {"off", "armed", "asleep"}

TargetsOf(c) == {req[c].on[i] : i \in DOMAIN req[c].on}

(* The tasks whose wait the call is polling. *)
Awaited(c) ==
  IF pc[c] # "waiting" THEN {}
  ELSE IF req[c].op = "select" THEN TargetsOf(c) ELSE {req[c].on[at[c] + 1]}

(* A call holds the handles it was given; join drops each as it passes it. *)
InUse(t) ==
  \E c \in Calls :
    /\ pc[c] = "waiting"
    /\ \E i \in DOMAIN req[c].on : req[c].on[i] = t /\ i > at[c]

Goto(t, p) == phase' = [phase EXCEPT ![t] = p]

Init ==
  /\ phase = [t \in Tasks |-> "new"]
  /\ disposing = [t \in Tasks |-> FALSE]
  /\ permit = [t \in Tasks |-> FALSE]
  /\ aborted = [t \in Tasks |-> FALSE]
  /\ verdict = [t \in Tasks |-> "none"]
  /\ result = [t \in Tasks |-> "none"]
  /\ reports = [t \in Tasks |-> 0]
  /\ upset = [t \in Tasks |-> FALSE]
  /\ handle = [t \in Tasks |-> "none"]
  /\ consumed = [t \in Tasks |-> FALSE]
  /\ abandoned = [t \in Tasks |-> FALSE]
  /\ req \in [Calls -> Requests]
  /\ pc = [c \in Calls |-> "idle"]
  /\ at = [c \in Calls |-> 0]
  /\ waiter = [c \in Calls |-> [t \in Tasks |-> "off"]]
  /\ woken = [c \in Calls |-> {}]
  /\ seen = [c \in Calls |-> {}]

-----------------------------------------------------------------------------
(* The tokio task.                                                         *)

(* task.spawn: on_spawn, tokio::spawn, and a handle for Lua. *)
Spawn(t) ==
  /\ phase[t] = "new"
  /\ Goto(t, "queued")
  /\ handle' = [handle EXCEPT ![t] = "live"]
  /\ UNCHANGED <<upset, disposing, permit, aborted, verdict, result, reports,
                 consumed, abandoned, callVars>>

(* Fault variant of Poll: select! is not biased, and may poll the VM first. *)
PollUnbiased(t) ==
  /\ phase[t] \in {"queued", "pending"} /\ ~aborted[t]
  /\ Goto(t, "running")
  /\ \/ /\ permit[t] /\ ~disposing[t]
        /\ permit' = [permit EXCEPT ![t] = FALSE]
        /\ disposing' = [disposing EXCEPT ![t] = TRUE]
     \/ UNCHANGED <<permit, disposing>>
  /\ UNCHANGED <<upset, aborted, verdict, result, reports, handleVars, callVars>>

(* The executor polls the wrapper; select! looks at cancel first, and a    *)
(* cancel that is taken turns the VM task to disposing its frames.         *)
Poll(t) ==
  /\ phase[t] \in {"queued", "pending"} /\ ~aborted[t]
  /\ Goto(t, "running")
  /\ IF permit[t] /\ ~disposing[t]
     THEN /\ permit' = [permit EXCEPT ![t] = FALSE]
          /\ disposing' = [disposing EXCEPT ![t] = TRUE]
     ELSE UNCHANGED <<permit, disposing>>
  /\ UNCHANGED <<upset, aborted, verdict, result, reports, handleVars, callVars>>

(* The VM awaits something: the poll returns Pending. *)
Yield(t) ==
  /\ phase[t] = "running"
  /\ Goto(t, "pending")
  /\ UNCHANGED <<upset, disposing, permit, aborted, verdict, result, reports,
                 handleVars, callVars>>

(* Fault variant of Finish: it ends without going by on_complete. *)
FinishUnreported(t, o) ==
  /\ phase[t] = "running"
  /\ Goto(t, "publish")
  /\ verdict' = [verdict EXCEPT ![t] = IF disposing[t] THEN "Cancelled" ELSE o]
  /\ UNCHANGED <<upset, disposing, permit, aborted, result, reports,
                 handleVars, callVars>>

(* The VM task ends; whatever it ended with, a disposed one is Cancelled. *)
Finish(t, o) ==
  /\ phase[t] = "running"
  /\ Goto(t, "report")
  /\ verdict' = [verdict EXCEPT ![t] = IF disposing[t] THEN "Cancelled" ELSE o]
  /\ UNCHANGED <<upset, disposing, permit, aborted, result, reports,
                 handleVars, callVars>>

(* A native function panics: the wrapper's future is unwound. *)
Panic(t) ==
  /\ phase[t] = "running"
  /\ Goto(t, "dropping")
  /\ UNCHANGED <<upset, disposing, permit, aborted, verdict, result, reports,
                 handleVars, callVars>>

(* run_inner fires on_complete ... *)
Report(t) ==
  /\ phase[t] = "report"
  /\ Goto(t, "publish")
  /\ reports' = [reports EXCEPT ![t] = @ + 1]
  /\ UNCHANGED <<upset, disposing, permit, aborted, verdict, result,
                 handleVars, callVars>>

(* ... unless an observer panics in it, before or after the others have    *)
(* seen the outcome: the wrapper is unwound with the guard armed.          *)
ObserverPanics(t) ==
  /\ phase[t] = "report"
  /\ Goto(t, "dropping")
  /\ reports' = [reports EXCEPT ![t] = @ + 1]
  /\ upset' = [upset EXCEPT ![t] = TRUE]
  /\ UNCHANGED <<disposing, permit, aborted, verdict, result,
                 handleVars, callVars>>

(* ... and publishes: the first result stays ... *)
Publish(t) ==
  /\ phase[t] = "publish"
  /\ \/ /\ result[t] = "none"
        /\ result' = [result EXCEPT ![t] = verdict[t]]
        /\ Goto(t, "notify")
     \/ /\ result[t] # "none"
        /\ Goto(t, "gone")
        /\ UNCHANGED result
  /\ UNCHANGED <<upset, disposing, permit, aborted, verdict, reports,
                 handleVars, callVars>>

(* notify_waiters completes every Notified that exists at that moment. *)
WakeWaiters(t) ==
  woken' = [c \in Calls |-> IF waiter[c][t] # "off" THEN woken[c] \cup {t}
                            ELSE woken[c]]

(* ... and the waiters are woken, before the guard is disarmed. *)
Notify(t) ==
  /\ phase[t] = "notify"
  /\ Goto(t, "gone")
  /\ WakeWaiters(t)
  /\ UNCHANGED <<upset, disposing, permit, aborted, verdict, result, reports,
                 handleVars, req, pc, at, waiter, seen>>

(* The executor honours an abort between two polls by dropping the future; *)
(* one that was never polled has no AbortGuard yet.                        *)
DropFuture(t) ==
  /\ aborted[t]
  /\ \/ phase[t] = "pending" /\ Goto(t, "dropping")
     \/ phase[t] = "queued" /\ Goto(t, "gone")
  /\ UNCHANGED <<upset, disposing, permit, aborted, verdict, result, reports,
                 handleVars, callVars>>

(* AbortGuard::drop writes Aborted unless there is a result, ... *)
GuardWrite(t) ==
  /\ phase[t] = "dropping"
  /\ IF result[t] = "none"
     THEN /\ result' = [result EXCEPT ![t] = "Aborted"]
          /\ verdict' = [verdict EXCEPT ![t] = "Aborted"]
     ELSE UNCHANGED <<result, verdict>>
  /\ Goto(t, "dropNotify")
  /\ UNCHANGED <<upset, disposing, permit, aborted, reports, handleVars, callVars>>

(* Fault variant of GuardNotify: the guard does not fire on_complete. *)
GuardUnreported(t) ==
  /\ phase[t] = "dropNotify"
  /\ Goto(t, "gone")
  /\ WakeWaiters(t)
  /\ UNCHANGED <<upset, disposing, permit, aborted, verdict, result, reports,
                 handleVars, req, pc, at, waiter, seen>>

(* Fault variant of GuardNotify: the guard wakes nobody. *)
GuardSilent(t) ==
  /\ phase[t] = "dropNotify"
  /\ Goto(t, IF verdict[t] = "Aborted" THEN "dropReport" ELSE "gone")
  /\ UNCHANGED <<upset, disposing, permit, aborted, verdict, result, reports,
                 handleVars, callVars>>

(* ... wakes the waiters, ... *)
GuardNotify(t) ==
  /\ phase[t] = "dropNotify"
  /\ Goto(t, IF verdict[t] = "Aborted" THEN "dropReport" ELSE "gone")
  /\ WakeWaiters(t)
  /\ UNCHANGED <<upset, disposing, permit, aborted, verdict, result, reports,
                 handleVars, req, pc, at, waiter, seen>>

(* ... and fires on_complete if the outcome is its own. *)
GuardReport(t) ==
  /\ phase[t] = "dropReport"
  /\ Goto(t, "gone")
  /\ reports' = [reports EXCEPT ![t] = @ + 1]
  /\ UNCHANGED <<upset, disposing, permit, aborted, verdict, result,
                 handleVars, callVars>>

(* The LuaTask is dropped, which no method call on it allows. *)
DropHandle(t) ==
  /\ handle[t] = "live" /\ ~InUse(t)
  /\ handle' = [handle EXCEPT ![t] = "dropped"]
  /\ abandoned' = [abandoned EXCEPT ![t] = ~consumed[t]]
  /\ UNCHANGED <<taskVars, consumed, callVars>>

-----------------------------------------------------------------------------
(* The methods of the handle.                                              *)

Consume(ts) == consumed' = [t \in Tasks |-> consumed[t] \/ t \in ts]

(* The synchronous part of a method that goes on to wait. *)
Begin(c) ==
  LET t == req[c].on[1] IN
  /\ pc[c] = "idle" /\ req[c].op # "try_result"
  /\ \A u \in TargetsOf(c) : handle[u] = "live"
  /\ pc' = [pc EXCEPT ![c] = "waiting"]
  /\ IF req[c].op = "select" THEN UNCHANGED consumed ELSE Consume(TargetsOf(c))
  /\ permit' = IF req[c].op = "cancel" THEN [permit EXCEPT ![t] = TRUE]
               ELSE permit
  /\ aborted' = IF req[c].op = "abort" THEN [aborted EXCEPT ![t] = TRUE]
                ELSE aborted
  /\ UNCHANGED <<upset, phase, disposing, verdict, result, reports,
                 handle, abandoned, req, at, waiter, woken, seen>>

(* Fault variant of TryResult: it answers before the task is finished. *)
TryUnfinished(c) ==
  LET t == req[c].on[1] IN
  /\ pc[c] = "idle" /\ req[c].op = "try_result" /\ handle[t] = "live"
  /\ pc' = [pc EXCEPT ![c] = "done"]
  /\ Consume({t}) /\ seen' = [seen EXCEPT ![c] = {t}]
  /\ UNCHANGED <<taskVars, handle, abandoned, req, at, waiter, woken>>

(* try_result consumes the task only if it is finished. *)
TryResult(c) ==
  LET t == req[c].on[1] IN
  /\ pc[c] = "idle" /\ req[c].op = "try_result" /\ handle[t] = "live"
  /\ pc' = [pc EXCEPT ![c] = "done"]
  /\ IF result[t] # "none"
     THEN Consume({t}) /\ seen' = [seen EXCEPT ![c] = {t}]
     ELSE UNCHANGED <<consumed, seen>>
  /\ UNCHANGED <<taskVars, handle, abandoned, req, at, waiter, woken>>

(* TaskState::wait creates its Notified ... *)
Arm(c, t) ==
  /\ t \in Awaited(c) /\ waiter[c][t] = "off"
  /\ waiter' = [waiter EXCEPT ![c][t] = "armed"]
  /\ woken' = [woken EXCEPT ![c] = @ \ {t}]
  /\ UNCHANGED <<taskVars, handleVars, req, pc, at, seen>>

(* Fault variant of Deliver: the winner of a select is not consumed. *)
DeliverUnconsumed(c, t) ==
  /\ waiter' = [waiter EXCEPT ![c] = [u \in Tasks |-> "off"]]
  /\ pc' = [pc EXCEPT ![c] = "done"]
  /\ seen' = [seen EXCEPT ![c] = {t}]
  /\ UNCHANGED <<at, consumed>>

(* Fault variant of Deliver: a join counts one task too many. *)
DeliverPastEnd(c, t) ==
  LET more == req[c].op = "join" /\ at[c] < Len(req[c].on) IN
  /\ waiter' = [waiter EXCEPT ![c] = [u \in Tasks |-> "off"]]
  /\ at' = [at EXCEPT ![c] = IF more THEN @ + 1 ELSE @]
  /\ pc' = [pc EXCEPT ![c] = IF more THEN @ ELSE "done"]
  /\ seen' = [seen EXCEPT ![c] = IF more THEN {} ELSE {t}]
  /\ UNCHANGED consumed

(* The wait on t is over: select returns the winner, join goes on to its   *)
(* next task unless this one raises, the others return.                    *)
Deliver(c, t) ==
  LET more == /\ req[c].op = "join"
              /\ result[t] = "Success"
              /\ at[c] + 1 < Len(req[c].on)
  IN
  /\ waiter' = [waiter EXCEPT ![c] = IF more THEN [@ EXCEPT ![t] = "off"]
                                     ELSE [u \in Tasks |-> "off"]]
  /\ at' = [at EXCEPT ![c] = IF more THEN @ + 1 ELSE @]
  /\ pc' = [pc EXCEPT ![c] = IF more THEN @ ELSE "done"]
  /\ seen' = [seen EXCEPT ![c] =
               IF more THEN {}
               ELSE IF req[c].op = "join" /\ result[t] = "Success"
                    THEN TargetsOf(c) ELSE {t}]
  /\ IF req[c].op = "select" THEN Consume({t}) ELSE UNCHANGED consumed

(* ... then looks at the result, and sleeps if there is none. *)
Check(c, t) ==
  /\ t \in Awaited(c) /\ waiter[c][t] = "armed"
  /\ \/ /\ result[t] # "none"
        /\ Deliver(c, t)
     \/ /\ result[t] = "none"
        /\ waiter' = [waiter EXCEPT ![c][t] = "asleep"]
        /\ UNCHANGED <<at, pc, seen, consumed>>
  /\ UNCHANGED <<taskVars, handle, abandoned, req, woken>>

(* The sleeper's Notified completes and the loop is entered again. *)
Resume(c, t) ==
  /\ waiter[c][t] = "asleep" /\ t \in woken[c]
  /\ waiter' = [waiter EXCEPT ![c][t] = "off"]
  /\ UNCHANGED <<taskVars, handleVars, req, pc, at, woken, seen>>

(* The caller is itself cancelled or aborted while it waits. *)
DropCall(c) ==
  /\ pc[c] = "waiting"
  /\ \A t \in Awaited(c) : waiter[c][t] = "asleep"
  /\ pc' = [pc EXCEPT ![c] = "dropped"]
  /\ waiter' = [waiter EXCEPT ![c] = [t \in Tasks |-> "off"]]
  /\ UNCHANGED <<taskVars, handleVars, req, at, woken, seen>>

-----------------------------------------------------------------------------
(* The VM makes progress whenever it is polled. *)
Settle(t) ==
  \/ \E o \in {"Success", "Failure"} : Finish(t, o)
  \/ Panic(t)

(* What an executor thread does for the task once it has something to do. *)
Drive(t) ==
  \/ Poll(t) \/ Report(t) \/ Publish(t) \/ Notify(t)
  \/ DropFuture(t) \/ GuardWrite(t) \/ GuardNotify(t) \/ GuardReport(t)

Await(c) == \E t \in Tasks : Arm(c, t) \/ Check(c, t) \/ Resume(c, t)

Next ==
  \/ \E t \in Tasks : Spawn(t) \/ Drive(t) \/ Yield(t) \/ Settle(t)
                       \/ ObserverPanics(t) \/ DropHandle(t)
  \/ \E c \in Calls : Begin(c) \/ TryResult(c) \/ Await(c) \/ DropCall(c)

Spec == Init /\ [][Next]_vars

(* The executor polls every task again and again, a task that is polled    *)
(* often enough ends, and a caller that can go on does.                    *)
Fairness ==
  /\ \A t \in Tasks : WF_vars(Drive(t)) /\ SF_vars(Settle(t))
  /\ \A c \in Calls : WF_vars(Await(c))

FairSpec == Spec /\ Fairness

-----------------------------------------------------------------------------
TypeOK ==
  /\ phase \in [Tasks -> Phases]
  /\ disposing \in [Tasks -> BOOLEAN]
  /\ permit \in [Tasks -> BOOLEAN]
  /\ aborted \in [Tasks -> BOOLEAN]
  /\ verdict \in [Tasks -> Outcomes \cup {"none"}]
  /\ result \in [Tasks -> Outcomes \cup {"none"}]
  /\ reports \in [Tasks -> Nat]
  /\ upset \in [Tasks -> BOOLEAN]
  /\ handle \in [Tasks -> {"none", "live", "dropped"}]
  /\ consumed \in [Tasks -> BOOLEAN]
  /\ abandoned \in [Tasks -> BOOLEAN]
  /\ req \in [Calls -> Requests]
  /\ pc \in [Calls -> {"idle", "waiting", "done", "dropped"}]
  /\ at \in [Calls -> Nat]
  /\ \A c \in Calls : pc[c] = "waiting" => at[c] < Len(req[c].on)
  /\ waiter \in [Calls -> [Tasks -> Waiting]]
  /\ woken \in [Calls -> SUBSET Tasks]
  /\ seen \in [Calls -> SUBSET Tasks]

(* on_complete fires at most once per task, and by the time the task is    *)
(* gone it has fired if and only if there is a result.  Where an observer  *)
(* panicked in it, the guard reports a second time, and the task's own     *)
(* outcome is lost: the result is Aborted.                                 *)
CompletesOnce ==
  \A t \in Tasks :
    /\ reports[t] <= IF upset[t] THEN 2 ELSE 1
    /\ phase[t] = "gone" =>
         /\ reports[t] >= 1 <=> result[t] # "none"
         /\ upset[t] => result[t] = "Aborted"

(* The documentation's "called once when the task's execution finishes,    *)
(* regardless of outcome", which does not survive a panic of an observer.  *)
ReportsOnce == \A t \in Tasks : reports[t] <= 1

(* Observers learn of an outcome the task produced itself before any call   *)
(* on a handle can return with it.                                         *)
ObserversFirst ==
  \A c \in Calls : \A t \in seen[c] :
    result[t] \in {"Success", "Failure", "Cancelled"} => reports[t] = 1

(* A handle is reported abandoned only if no call returned the task's       *)
(* result to Lua and none asked the task to stop.                          *)
AbandonedUncollected ==
  \A t \in Tasks : abandoned[t] =>
    \A c \in Calls :
      /\ t \notin seen[c]
      /\ pc[c] # "idle" /\ t \in TargetsOf(c) => req[c].op \in {"try_result", "select"}

(* A cancel that reaches a task between two polls is never overtaken: the   *)
(* task does not go on to end as if it had not been cancelled.             *)
CancelHonoured ==
  \A t \in Tasks :
    [](permit[t] /\ phase[t] \in {"queued", "pending"}
         => [](result[t] \notin {"Success", "Failure"}))

(* The task has been polled, so its AbortGuard has existed. *)
Started(t) ==
  phase[t] \notin {"new", "queued"} /\ (phase[t] = "gone" => result[t] # "none")

(* Every call that waits for a task that has started gets its answer. *)
StartedTasksAnswer ==
  \A c \in Calls, t \in Tasks :
    t \in Awaited(c) /\ Started(t) ~> t \notin Awaited(c)

(* abort "resolves once the underlying tokio task has been dropped". *)
AbortReturns ==
  \A c \in Calls :
    pc[c] = "waiting" /\ req[c].op = "abort" ~> pc[c] # "waiting"

Promise == INSTANCE TaskPromise
             WITH Producers <- Tasks, Consumers <- Calls, Endings <- Outcomes,
                  Undecided <- "none", outcome <- result, told <- seen

(* Tasks and the methods of their handles keep the promise: an outcome     *)
(* never changes, and none is returned before it is there.                 *)
IsPromise == Promise!Spec
=============================================================================
