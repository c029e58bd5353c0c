------------------------ MODULE TaskLifecycle_proofs ------------------------
(***************************************************************************)
(* Proofs about spawned tasks and their handles, for any number of tasks   *)
(* and of calls on them.                                                   *)
(***************************************************************************)
EXTENDS TaskLifecycle, TLAPS

(* The lists that calls are given are not empty. *)
LEMMA RequestLists ==
  ASSUME NEW r \in Requests
  PROVE  r.on \in Seq(Tasks) /\ Len(r.on) \in Nat \ {0}
  BY RequestsAssumption

(* A call that has not begun is at the start of its list. *)
AtStart == \A c \in Calls : pc[c] = "idle" => at[c] = 0

TypeInv == TypeOK /\ AtStart

(* A step that moves a task on, and at most publishes, keeps the types. *)
LEMMA PhaseTyping ==
  ASSUME TypeInv,
         phase' \in [Tasks -> Phases], result' \in [Tasks -> Outcomes \cup {"none"}],
         UNCHANGED <<disposing, permit, aborted, verdict, reports, upset,
                     handleVars, callVars>>
  PROVE  TypeInv'
  BY DEF TypeInv, TypeOK, AtStart, handleVars, callVars

LEMMA TaskTyping ==
  ASSUME TypeInv, NEW t \in Tasks,
         Spawn(t) \/ Drive(t) \/ Yield(t) \/ Settle(t) \/ ObserverPanics(t)
                 \/ DropHandle(t)
  PROVE  TypeInv'
<1> USE DEF TypeInv, TypeOK, AtStart, Phases, Outcomes, Goto,
            taskVars, handleVars, callVars
<1>1. CASE Spawn(t)
  BY <1>1 DEF Spawn
<1>2. CASE Poll(t)
  BY <1>2 DEF Poll
<1>3. CASE Report(t)
  BY <1>3 DEF Report
<1>4. CASE Publish(t)
  <2>1. phase' = [phase EXCEPT ![t] = "notify"] \/ phase' = [phase EXCEPT ![t] = "gone"]
    BY <1>4 DEF Publish
  <2>2. result' = [result EXCEPT ![t] = verdict[t]] \/ result' = result
    BY <1>4 DEF Publish
  <2>3. phase' \in [Tasks -> Phases]
    BY <2>1
  <2>4. result' \in [Tasks -> Outcomes \cup {"none"}]
    <3>1. result \in [Tasks -> Outcomes \cup {"none"}]
      OBVIOUS
    <3>2. verdict[t] \in Outcomes \cup {"none"}
      OBVIOUS
    <3> HIDE DEF TypeInv, TypeOK, Outcomes
    <3> QED
      BY <2>2, <3>1, <3>2
  <2> HIDE DEF TypeInv, TypeOK
  <2> QED
    BY <1>4, <2>3, <2>4, PhaseTyping DEF Publish
<1>5. CASE Notify(t)
  BY <1>5 DEF Notify, WakeWaiters
<1>6. CASE DropFuture(t)
  <2>1. phase' = [phase EXCEPT ![t] = "dropping"] \/ phase' = [phase EXCEPT ![t] = "gone"]
    BY <1>6 DEF DropFuture
  <2>2. phase' \in [Tasks -> Phases]
    BY <2>1
  <2>3. result' \in [Tasks -> Outcomes \cup {"none"}]
    BY <1>6 DEF DropFuture
  <2> HIDE DEF TypeInv, TypeOK
  <2> QED
    BY <1>6, <2>2, <2>3, PhaseTyping DEF DropFuture
<1>7. CASE GuardWrite(t)
  BY <1>7 DEF GuardWrite
<1>8. CASE GuardNotify(t)
  BY <1>8 DEF GuardNotify, WakeWaiters
<1>9. CASE GuardReport(t)
  BY <1>9 DEF GuardReport
<1>10. CASE Yield(t)
  BY <1>10 DEF Yield
<1>11. CASE Settle(t)
  <2>1. ASSUME NEW o \in {"Success", "Failure"}, Finish(t, o) PROVE TypeInv'
    BY <2>1 DEF Finish
  <2>2. CASE Panic(t)
    BY <2>2 DEF Panic
  <2> QED
    BY <1>11, <2>1, <2>2 DEF Settle
<1>12. CASE DropHandle(t)
  BY <1>12 DEF DropHandle
<1>13. CASE ObserverPanics(t)
  BY <1>13 DEF ObserverPanics
<1> HIDE DEF TypeInv, TypeOK, AtStart, Phases, Outcomes, Goto,
            taskVars, handleVars, callVars
<1> QED
  BY <1>1, <1>2, <1>3, <1>4, <1>5, <1>6, <1>7, <1>8, <1>9, <1>10, <1>11, <1>12,
     <1>13 DEF Drive

LEMMA Consumption ==
  ASSUME NEW ts, Consume(ts) PROVE consumed' \in [Tasks -> BOOLEAN]
  BY Zenon DEF Consume

LEMMA CallTyping ==
  ASSUME TypeInv, NEW c \in Calls,
         Begin(c) \/ TryResult(c) \/ Await(c) \/ DropCall(c)
  PROVE  TypeInv'
<1> USE DEF TypeInv, TypeOK, AtStart, Waiting,
            taskVars, handleVars, callVars
<1>1. /\ req[c].on \in Seq(Tasks) /\ Len(req[c].on) \in Nat \ {0}
      /\ req[c].on[1] \in Tasks
  <2>1. req[c] \in Requests
    OBVIOUS
  <2>2. req[c].on \in Seq(Tasks) /\ Len(req[c].on) \in Nat \ {0}
    BY <2>1, RequestLists
  <2> QED
    BY <2>2
<1>2. CASE Begin(c)
  <2>1. consumed' \in [Tasks -> BOOLEAN]
    BY <1>2, Consumption DEF Begin
  <2>2. permit' \in [Tasks -> BOOLEAN] /\ aborted' \in [Tasks -> BOOLEAN]
    BY <1>1, <1>2 DEF Begin
  <2>3. /\ pc' \in [Calls -> {"idle", "waiting", "done", "dropped"}]
        /\ \A d \in Calls : pc'[d] = "waiting" => at[d] < Len(req[d].on)
        /\ \A d \in Calls : pc'[d] = "idle" => at[d] = 0
    BY <1>1, <1>2 DEF Begin
  <2> QED
    BY <1>2, <2>1, <2>2, <2>3 DEF Begin
<1>3. CASE TryResult(c)
  <2>1. consumed' \in [Tasks -> BOOLEAN]
    BY <1>3, Consumption DEF TryResult
  <2>2. seen' = [seen EXCEPT ![c] = {req[c].on[1]}] \/ seen' = seen
    BY <1>3, Zenon DEF TryResult
  <2>3. seen' \in [Calls -> SUBSET Tasks]
    <3>1. {req[c].on[1]} \in SUBSET Tasks
      BY <1>1
    <3>2. seen \in [Calls -> SUBSET Tasks]
      OBVIOUS
    <3> HIDE DEF TypeInv, TypeOK
    <3> QED
      BY <2>2, <3>1, <3>2
  <2> QED
    BY <1>3, <2>1, <2>3 DEF TryResult
<1>4. ASSUME NEW t \in Tasks, Arm(c, t) PROVE TypeInv'
  BY <1>4 DEF Arm
<1>5. ASSUME NEW t \in Tasks, Check(c, t) PROVE TypeInv'
  <2>1. consumed' \in [Tasks -> BOOLEAN]
    BY <1>5, Consumption DEF Check, Deliver
  <2>2. pc[c] = "waiting"
    BY <1>5 DEF Check, Awaited
  <2>3. CASE result[t] # "none"
    <3> DEFINE more == /\ req[c].op = "join"
                       /\ result[t] = "Success"
                       /\ at[c] + 1 < Len(req[c].on)
               idle == [u \in Tasks |-> "off"]
    <3>1. /\ waiter' = [waiter EXCEPT ![c] = IF more THEN [@ EXCEPT ![t] = "off"]
                                             ELSE idle]
          /\ at' = [at EXCEPT ![c] = IF more THEN @ + 1 ELSE @]
          /\ pc' = [pc EXCEPT ![c] = IF more THEN @ ELSE "done"]
          /\ \E ts \in {{}, TargetsOf(c), {t}} : seen' = [seen EXCEPT ![c] = ts]
      BY <1>5, <2>3 DEF Check, Deliver
    <3>2. waiter' \in [Calls -> [Tasks -> {"off", "armed", "asleep"}]]
      BY <3>1
    <3>3. /\ at' \in [Calls -> Nat]
          /\ pc' \in [Calls -> {"idle", "waiting", "done", "dropped"}]
          /\ \A d \in Calls : pc'[d] = "waiting" => at'[d] < Len(req[d].on)
          /\ \A d \in Calls : pc'[d] = "idle" => at'[d] = 0
      BY <1>1, <2>2, <3>1
    <3>4. TargetsOf(c) \subseteq Tasks
      BY <1>1 DEF TargetsOf
    <3>5. seen' \in [Calls -> SUBSET Tasks]
      BY <3>1, <3>4
    <3> QED
      BY <1>5, <2>1, <3>2, <3>3, <3>5 DEF Check
  <2>4. CASE result[t] = "none"
    <3>1. /\ waiter' = [waiter EXCEPT ![c][t] = "asleep"]
          /\ UNCHANGED <<at, pc, seen>>
      BY <1>5, <2>4 DEF Check
    <3> QED
      BY <1>5, <2>1, <3>1 DEF Check
  <2> QED
    BY <2>3, <2>4
<1>6. ASSUME NEW t \in Tasks, Resume(c, t) PROVE TypeInv'
  BY <1>6 DEF Resume
<1>7. CASE DropCall(c)
  BY <1>7 DEF DropCall
<1> HIDE DEF TypeInv, TypeOK, AtStart, Waiting,
            taskVars, handleVars, callVars
<1> QED
  BY <1>2, <1>3, <1>4, <1>5, <1>6, <1>7 DEF Await

(* Every variable keeps its type, and a call that waits for a list of      *)
(* tasks is never past its end (join, await_all).                          *)
THEOREM Typing == Spec => []TypeOK
<1>1. Init => TypeInv
  BY RequestsAssumption
     DEF Init, TypeInv, TypeOK, AtStart, Phases, Outcomes, Waiting
<1>2. TypeInv /\ [Next]_vars => TypeInv'
  <2>1. TypeInv /\ UNCHANGED vars => TypeInv'
    BY DEF TypeInv, TypeOK, AtStart, vars
  <2> QED
    BY <2>1, TaskTyping, CallTyping DEF Next
<1>3. TypeInv => TypeOK
  BY DEF TypeInv
<1> QED
  BY <1>1, <1>2, <1>3, PTL DEF Spec

-----------------------------------------------------------------------------
Own == {"Success", "Failure", "Cancelled"}

(* What is reported and published by the time a task is in its phase; a     *)
(* task whose observers panicked is one report ahead of its guard.         *)
Progress(t) ==
  /\ phase[t] \in {"new", "queued", "running", "pending", "report"}
       => result[t] = "none" /\ reports[t] = 0 /\ ~upset[t]
  /\ phase[t] = "publish" => result[t] = "none" /\ reports[t] = 1 /\ ~upset[t]
  /\ phase[t] \in {"report", "publish"} => verdict[t] \in Own
  /\ phase[t] = "notify" => result[t] \in Own /\ reports[t] = 1 /\ ~upset[t]
  /\ phase[t] = "dropping" => result[t] = "none"
  /\ phase[t] = "dropNotify" => verdict[t] = "Aborted"
  /\ phase[t] \in {"dropNotify", "dropReport"} => result[t] = "Aborted"
  /\ phase[t] \in {"dropping", "dropNotify", "dropReport"}
       => reports[t] = IF upset[t] THEN 1 ELSE 0
  /\ phase[t] = "gone" =>
       IF upset[t] THEN result[t] = "Aborted" /\ reports[t] = 2
       ELSE \/ result[t] = "none" /\ reports[t] = 0
            \/ result[t] # "none" /\ reports[t] = 1

InProgress == \A t \in Tasks : Progress(t)

(* Nobody but the thread that drives a task changes these. *)
LEMMA Undisturbed ==
  ASSUME InProgress, UNCHANGED <<phase, verdict, result, reports, upset>>
  PROVE  InProgress'
  BY DEF InProgress, Progress

LEMMA Driven ==
  ASSUME TypeOK, InProgress, NEW t \in Tasks,
         Spawn(t) \/ Drive(t) \/ Yield(t) \/ Settle(t) \/ ObserverPanics(t)
  PROVE  InProgress'
<1> USE DEF InProgress, Progress, Own, TypeOK, Goto
<1>1. CASE Spawn(t)
  BY <1>1 DEF Spawn
<1>2. CASE Poll(t)
  BY <1>2 DEF Poll
<1>3. CASE Report(t)
  BY <1>3 DEF Report
<1>4. CASE Publish(t)
  <2>1. result[t] = "none" /\ reports[t] = 1 /\ ~upset[t] /\ verdict[t] \in Own
    BY <1>4 DEF Publish
  <2>2. /\ phase' = [phase EXCEPT ![t] = "notify"]
        /\ result' = [result EXCEPT ![t] = verdict[t]]
        /\ UNCHANGED <<verdict, reports, upset>>
    BY <1>4, <2>1 DEF Publish
  <2>3. Progress(t)'
    BY <2>1, <2>2
  <2>4. ASSUME NEW u \in Tasks \ {t} PROVE Progress(u)'
    BY <2>2
  <2> QED
    BY <2>3, <2>4
<1>5. CASE Notify(t)
  BY <1>5 DEF Notify
<1>6. CASE DropFuture(t)
  BY <1>6 DEF DropFuture
<1>7. CASE GuardWrite(t)
  BY <1>7 DEF GuardWrite
<1>8. CASE GuardNotify(t)
  BY <1>8 DEF GuardNotify
<1>9. CASE GuardReport(t)
  BY <1>9 DEF GuardReport
<1>10. CASE Yield(t)
  BY <1>10 DEF Yield
<1>11. CASE Settle(t)
  <2>1. ASSUME NEW o \in {"Success", "Failure"}, Finish(t, o) PROVE InProgress'
    BY <2>1 DEF Finish
  <2>2. CASE Panic(t)
    BY <2>2 DEF Panic
  <2> QED
    BY <1>11, <2>1, <2>2 DEF Settle
<1>12. CASE ObserverPanics(t)
  BY <1>12 DEF ObserverPanics
<1> HIDE DEF InProgress, Progress, Own, TypeOK, Goto
<1> QED
  BY <1>1, <1>2, <1>3, <1>4, <1>5, <1>6, <1>7, <1>8, <1>9, <1>10, <1>11,
     <1>12 DEF Drive

LEMMA Phasing == Spec => []InProgress
<1>1. Init => InProgress
  BY DEF Init, InProgress, Progress
<1>2. TypeOK /\ InProgress /\ [Next]_vars => InProgress'
  <2> SUFFICES ASSUME TypeOK, InProgress, [Next]_vars PROVE InProgress'
    OBVIOUS
  <2>1. ASSUME NEW t \in Tasks, DropHandle(t) PROVE InProgress'
    BY <2>1, Undisturbed DEF DropHandle, taskVars
  <2>2. ASSUME NEW c \in Calls, Begin(c) PROVE InProgress'
    BY <2>2, Undisturbed DEF Begin
  <2>3. ASSUME NEW c \in Calls, TryResult(c) \/ DropCall(c) PROVE InProgress'
    BY <2>3, Undisturbed DEF TryResult, DropCall, taskVars
  <2>4. ASSUME NEW c \in Calls, Await(c) PROVE InProgress'
    BY <2>4, Undisturbed DEF Await, Arm, Check, Resume, taskVars
  <2>5. CASE UNCHANGED vars
    BY <2>5, Undisturbed DEF vars
  <2> QED
    BY <2>1, <2>2, <2>3, <2>4, <2>5, Driven DEF Next
<1> QED
  BY <1>1, <1>2, Typing, PTL DEF Spec

(* on_complete fires once per task, and exactly if there is a result,      *)
(* however completion, cancel, abort and panics of the polled code         *)
(* interleave; a second time only after an observer panicked in the first, *)
(* and then the result is Aborted (run_inner, AbortGuard::drop).           *)
THEOREM CompletionObservedOnce == Spec => []CompletesOnce
<1>1. TypeOK /\ InProgress => CompletesOnce
  <2> SUFFICES ASSUME TypeOK, InProgress, NEW t \in Tasks
               PROVE  /\ reports[t] <= IF upset[t] THEN 2 ELSE 1
                      /\ phase[t] = "gone" =>
                           /\ reports[t] >= 1 <=> result[t] # "none"
                           /\ upset[t] => result[t] = "Aborted"
    BY DEF CompletesOnce
  <2>1. Progress(t) /\ phase[t] \in Phases
    BY DEF TypeOK, InProgress
  <2>2. CASE phase[t] = "gone"
    BY <2>1, <2>2 DEF Progress
  <2>3. CASE phase[t] \in {"dropping", "dropNotify", "dropReport"}
    BY <2>1, <2>3 DEF Progress
  <2>4. CASE phase[t] \notin {"dropping", "dropNotify", "dropReport", "gone"}
    BY <2>1, <2>4 DEF Progress, Phases
  <2> QED
    BY <2>2, <2>3, <2>4
<1> QED
  BY <1>1, Typing, Phasing, PTL

(* An outcome that the task produced itself has been reported to the       *)
(* observers before any handle can return it (run_inner).                  *)
THEOREM ObserversHearFirst == Spec => []ObserversFirst
<1>1. TypeOK /\ InProgress => ObserversFirst
  BY DEF TypeOK, Phases, Own, InProgress, Progress, ObserversFirst
<1> QED
  BY <1>1, Typing, Phasing, PTL

-----------------------------------------------------------------------------
(* A call that has not returned has told nothing, and one that waits for a *)
(* list has only passed tasks that have a result.                          *)
Untold(c) ==
  /\ pc[c] \in {"idle", "waiting"} => seen[c] = {}
  /\ at[c] <= Len(req[c].on)
  /\ \A i \in 1..at[c] : result[req[c].on[i]] # "none"

AllUntold == \A c \in Calls : Untold(c)

(* The effect of the end of a wait, for the tasks it tells about. *)
LEMMA Delivery ==
  ASSUME TypeOK, AllUntold, NEW c \in Calls, NEW t \in Tasks, Check(c, t),
         seen' # seen
  PROVE  \E ts \in SUBSET {u \in Tasks : result[u] # "none"} :
           /\ seen' = [seen EXCEPT ![c] = ts]
           /\ seen[c] = {} /\ pc'[c] = "done"
<1>1. pc[c] = "waiting" /\ result[t] # "none"
  BY DEF Check, Awaited
<1>2. seen[c] = {}
  BY <1>1 DEF AllUntold, Untold
<1>3. at[c] \in Nat /\ at[c] < Len(req[c].on)
  BY <1>1 DEF TypeOK
<1>4. req[c].on \in Seq(Tasks) /\ Len(req[c].on) \in Nat
  <2>1. req[c] \in Requests
    BY DEF TypeOK
  <2> QED
    BY <2>1, RequestLists
<1> DEFINE more == /\ req[c].op = "join"
                   /\ result[t] = "Success"
                   /\ at[c] + 1 < Len(req[c].on)
<1>5. /\ seen' = [seen EXCEPT ![c] =
                    IF more THEN {}
                    ELSE IF req[c].op = "join" /\ result[t] = "Success"
                         THEN TargetsOf(c) ELSE {t}]
      /\ pc' = [pc EXCEPT ![c] = IF more THEN @ ELSE "done"]
  BY <1>1 DEF Check, Deliver
<1>6. ~more
  BY <1>2, <1>5 DEF TypeOK
<1>7. pc'[c] = "done"
  BY <1>5, <1>6 DEF TypeOK
<1>8. CASE req[c].op = "join" /\ result[t] = "Success"
  <2>1. at[c] + 1 = Len(req[c].on)
    BY <1>3, <1>4, <1>6, <1>8
  <2>2. t = req[c].on[Len(req[c].on)]
    BY <1>1, <1>8, <2>1 DEF Check, Awaited
  <2>3. \A i \in 1..at[c] : result[req[c].on[i]] # "none"
    BY DEF AllUntold, Untold
  <2>4. \A i \in 1..Len(req[c].on) : result[req[c].on[i]] # "none"
    BY <1>1, <1>3, <1>4, <2>1, <2>2, <2>3
  <2>5. TargetsOf(c) \in SUBSET {u \in Tasks : result[u] # "none"}
    BY <1>4, <2>4 DEF TargetsOf
  <2>6. seen' = [seen EXCEPT ![c] = TargetsOf(c)]
    BY <1>5, <1>6, <1>8
  <2> QED
    BY <1>2, <1>7, <2>5, <2>6
<1>9. CASE ~(req[c].op = "join" /\ result[t] = "Success")
  <2>1. seen' = [seen EXCEPT ![c] = {t}]
    BY <1>5, <1>6, <1>9
  <2>2. {t} \in SUBSET {u \in Tasks : result[u] # "none"}
    BY <1>1
  <2> QED
    BY <1>2, <1>7, <2>1, <2>2
<1> QED
  BY <1>8, <1>9

(* A result, once there, is never replaced, by publish or by the guard. *)
LEMMA ResultStays ==
  ASSUME TypeOK, [Next]_vars, NEW t \in Tasks, result[t] # "none"
  PROVE  result'[t] = result[t]
<1> USE DEF TypeOK
<1>1. ASSUME NEW u \in Tasks, Publish(u) \/ GuardWrite(u) PROVE result'[t] = result[t]
  BY <1>1 DEF Publish, GuardWrite
<1>2. ASSUME NEW u \in Tasks,
             \/ Spawn(u) \/ Yield(u) \/ Settle(u) \/ ObserverPanics(u) \/ DropHandle(u)
             \/ Poll(u) \/ Report(u) \/ Notify(u)
             \/ DropFuture(u) \/ GuardNotify(u) \/ GuardReport(u)
      PROVE  UNCHANGED result
  BY <1>2 DEF Spawn, Yield, Settle, Finish, Panic, ObserverPanics,
              DropHandle, Poll, Report, Notify,
              DropFuture, GuardNotify, GuardReport, taskVars
<1>3. ASSUME NEW c \in Calls, Begin(c) \/ TryResult(c) \/ Await(c) \/ DropCall(c)
      PROVE  UNCHANGED result
  BY <1>3 DEF Begin, TryResult, Await, Arm, Check, Resume, DropCall, taskVars
<1> HIDE DEF TypeOK
<1> QED
  BY <1>1, <1>2, <1>3 DEF Next, Drive, vars

(* A list that a call has passed stays passed. *)
LEMMA PassedStays ==
  ASSUME TypeOK, AllUntold, [Next]_vars, NEW c \in Calls,
         NEW i \in 1..at[c]
  PROVE  result'[req[c].on[i]] # "none"
<1>1. req[c] \in Requests /\ at[c] \in Nat /\ at[c] <= Len(req[c].on)
  BY DEF TypeOK, AllUntold, Untold
<1>2. req[c].on \in Seq(Tasks) /\ Len(req[c].on) \in Nat
  BY <1>1, RequestLists
<1>3. req[c].on[i] \in Tasks
  BY <1>1, <1>2
<1>4. result[req[c].on[i]] # "none"
  BY DEF AllUntold, Untold
<1> QED
  BY <1>3, <1>4, ResultStays

LEMMA Telling == Spec => []AllUntold
<1>1. Init => AllUntold
  <2> SUFFICES ASSUME Init, NEW c \in Calls PROVE Untold(c)
    BY DEF AllUntold
  <2>1. req[c] \in Requests
    BY DEF Init
  <2> QED
    BY <2>1, RequestLists DEF Init, Untold
<1>2. TypeOK /\ AllUntold /\ [Next]_vars => AllUntold'
  <2> SUFFICES ASSUME TypeOK, AllUntold, [Next]_vars, NEW d \in Calls
               PROVE  Untold(d)'
    BY DEF AllUntold
  <2>1. /\ \A i \in 1..at[d] : result'[req[d].on[i]] # "none"
        /\ Untold(d)
    BY PassedStays DEF AllUntold
  <2>2. CASE UNCHANGED <<req, pc, at, seen>>
    BY <2>1, <2>2 DEF Untold
  <2>3. ASSUME NEW t \in Tasks,
               Spawn(t) \/ Drive(t) \/ Yield(t) \/ Settle(t) \/ ObserverPanics(t)
                 \/ DropHandle(t)
        PROVE  UNCHANGED <<req, pc, at, seen>>
    BY <2>3 DEF Spawn, Drive, Yield, Settle, Finish, Panic, ObserverPanics,
              DropHandle, Poll, Report,
                Publish, Notify, DropFuture, GuardWrite, GuardNotify, GuardReport, callVars
  <2>4. ASSUME NEW c \in Calls, Begin(c) PROVE Untold(d)'
    BY <2>1, <2>4 DEF Begin, Untold, TypeOK
  <2>5. ASSUME NEW c \in Calls, TryResult(c) PROVE Untold(d)'
    <3>1. /\ pc' = [pc EXCEPT ![c] = "done"] /\ UNCHANGED <<req, at>>
          /\ seen' = seen \/ seen' = [seen EXCEPT ![c] = {req[c].on[1]}]
      BY <2>5, Zenon DEF TryResult
    <3> QED
      BY <2>1, <3>1 DEF Untold, TypeOK
  <2>6. ASSUME NEW c \in Calls, DropCall(c) PROVE Untold(d)'
    BY <2>1, <2>6 DEF DropCall, Untold, TypeOK, taskVars
  <2>7. ASSUME NEW c \in Calls, NEW t \in Tasks, Arm(c, t) \/ Resume(c, t)
        PROVE  UNCHANGED <<req, pc, at, seen>>
    BY <2>7 DEF Arm, Resume
  <2>8. ASSUME NEW c \in Calls, NEW t \in Tasks, Check(c, t) PROVE Untold(d)'
    <3>1. pc[c] = "waiting"
      BY <2>8 DEF Check, Awaited
    <3>2. CASE result[t] = "none"
      BY <2>2, <2>8, <3>2 DEF Check
    <3>3. CASE result[t] # "none"
      <4>1. UNCHANGED <<req, result>>
        BY <2>8 DEF Check, taskVars
      <4>2. CASE /\ req[c].op = "join"
                 /\ result[t] = "Success"
                 /\ at[c] + 1 < Len(req[c].on)
        <5>1. /\ at' = [at EXCEPT ![c] = @ + 1] /\ pc' = pc
              /\ seen' = [seen EXCEPT ![c] = {}]
          BY <2>8, <3>3, <4>2 DEF Check, Deliver, TypeOK
        <5>2. t = req[c].on[at[c] + 1]
          BY <2>8, <4>2 DEF Check, Awaited
        <5>3. \A i \in 1..(at[c] + 1) :
                i \in 1..at[c] \/ req[c].on[i] = t
          BY <5>2 DEF TypeOK
        <5> QED
          BY <2>1, <3>1, <3>3, <4>1, <4>2, <5>1, <5>3 DEF Untold, TypeOK
      <4>3. CASE ~(/\ req[c].op = "join"
                   /\ result[t] = "Success"
                   /\ at[c] + 1 < Len(req[c].on))
        <5>1. /\ at' = at /\ pc' = [pc EXCEPT ![c] = "done"]
              /\ \E ts : seen' = [seen EXCEPT ![c] = ts]
          BY <2>8, <3>3, <4>3 DEF Check, Deliver, TypeOK
        <5> QED
          BY <2>1, <4>1, <5>1 DEF Untold, TypeOK
      <4> QED
        BY <4>2, <4>3
    <3> QED
      BY <3>2, <3>3
  <2>9. CASE UNCHANGED vars
    BY <2>2, <2>9 DEF vars
  <2> QED
    BY <2>2, <2>3, <2>4, <2>5, <2>6, <2>7, <2>8, <2>9 DEF Next, Await
<1> QED
  BY <1>1, <1>2, Typing, PTL DEF Spec

-----------------------------------------------------------------------------
(* Tasks and handles implement TaskPromise: one outcome per task, which    *)
(* never changes, and no call on a handle (await, pawait, cancel, abort,   *)
(* try_result, join, await_all, select) returns one that is not there.     *)
THEOREM PromiseKept == Spec => IsPromise
<1>1. Init => Promise!Init
  BY DEF Init, Promise!Init
<1>2. TypeOK /\ InProgress /\ AllUntold /\ [Next]_vars => [Promise!Next]_<<result, seen>>
  <2> SUFFICES ASSUME TypeOK, InProgress, AllUntold, [Next]_vars,
                      ~ UNCHANGED <<result, seen>>
               PROVE  Promise!Next
    OBVIOUS
  <2>1. ASSUME NEW t \in Tasks, Publish(t) PROVE Promise!Next
    <3>1. result[t] = "none" /\ verdict[t] \in Outcomes
      BY <2>1 DEF Publish, InProgress, Progress, Own, Outcomes
    <3> QED
      BY <2>1, <3>1 DEF Publish, callVars, Promise!Next, Promise!Decide
  <2>2. ASSUME NEW t \in Tasks, GuardWrite(t) PROVE Promise!Next
    <3>1. result[t] = "none" /\ "Aborted" \in Outcomes
      BY <2>2 DEF GuardWrite, InProgress, Progress, Outcomes
    <3> QED
      BY <2>2, <3>1 DEF GuardWrite, callVars, Promise!Next, Promise!Decide
  <2>3. ASSUME NEW t \in Tasks,
               \/ Spawn(t) \/ Yield(t) \/ Settle(t) \/ ObserverPanics(t) \/ DropHandle(t)
               \/ Poll(t) \/ Report(t) \/ Notify(t)
               \/ DropFuture(t) \/ GuardNotify(t) \/ GuardReport(t)
        PROVE  FALSE
    BY <2>3 DEF Spawn, Yield, Settle, Finish, Panic, ObserverPanics,
              DropHandle, Poll, Report, Notify,
                DropFuture, GuardNotify, GuardReport, taskVars, callVars
  <2>4. ASSUME NEW c \in Calls, TryResult(c) PROVE Promise!Next
    <3>1. req[c].on[1] \in Tasks
      <4>1. req[c] \in Requests
        BY DEF TypeOK
      <4> QED
        BY <4>1, RequestLists
    <3>2. seen[c] = {}
      BY <2>4 DEF TryResult, AllUntold, Untold
    <3>3. UNCHANGED result
      BY <2>4 DEF TryResult, taskVars
    <3>4. result[req[c].on[1]] # "none" /\ seen' = [seen EXCEPT ![c] = {req[c].on[1]}]
      BY <2>4, <3>3, Zenon DEF TryResult
    <3>5. {req[c].on[1]} \in SUBSET {u \in Tasks : result[u] # "none"}
      BY <3>1, <3>4
    <3> QED
      BY <3>2, <3>3, <3>4, <3>5 DEF Promise!Next, Promise!Tell
  <2>5. ASSUME NEW c \in Calls, NEW t \in Tasks, Check(c, t) PROVE Promise!Next
    <3>1. UNCHANGED result
      BY <2>5 DEF Check, taskVars
    <3>2. \E ts \in SUBSET {u \in Tasks : result[u] # "none"} :
            seen' = [seen EXCEPT ![c] = ts] /\ seen[c] = {}
      BY <2>5, <3>1, Delivery
    <3> QED
      BY <3>1, <3>2 DEF Promise!Next, Promise!Tell
  <2>6. ASSUME NEW c \in Calls, Begin(c) \/ DropCall(c) PROVE FALSE
    BY <2>6 DEF Begin, DropCall, taskVars
  <2>7. ASSUME NEW c \in Calls, NEW t \in Tasks, Arm(c, t) \/ Resume(c, t) PROVE FALSE
    BY <2>7 DEF Arm, Resume, taskVars
  <2> QED
    BY <2>1, <2>2, <2>3, <2>4, <2>5, <2>6, <2>7 DEF Next, Drive, Await, vars
<1> QED
  BY <1>1, <1>2, Typing, Phasing, Telling, PTL DEF Spec, IsPromise, Promise!Spec

-----------------------------------------------------------------------------
(* What a handle knows of the calls on it: it is live while one waits, and *)
(* those that will hand the result on have marked the task as consumed.    *)
HandleOf(t) ==
  /\ handle[t] = "none" <=> phase[t] = "new"
  /\ abandoned[t] => handle[t] = "dropped" /\ ~consumed[t]
  /\ \A c \in Calls :
       /\ pc[c] = "waiting" =>
            \A i \in DOMAIN req[c].on : req[c].on[i] = t /\ i > at[c] => handle[t] = "live"
       /\ pc[c] # "idle" /\ t \in TargetsOf(c) /\ req[c].op \notin {"try_result", "select"}
            => consumed[t]
       /\ t \in seen[c] => consumed[t]

Collected ==
  /\ \A t \in Tasks : HandleOf(t)
  /\ \A c \in Calls :
       /\ req[c].op = "select" => at[c] = 0
       /\ pc[c] = "waiting" => req[c].op # "try_result"

LEMMA HandlesUndisturbed ==
  ASSUME Collected, UNCHANGED <<handleVars, req, pc, at, seen>>,
         \A t \in Tasks : phase'[t] = "new" <=> phase[t] = "new"
  PROVE  Collected'
  BY DEF Collected, HandleOf, TargetsOf, handleVars

(* The thread that drives a task has no business with its handle. *)
LEMMA DrivingKeepsHandles ==
  ASSUME TypeOK, Collected, NEW t \in Tasks,
         Drive(t) \/ Yield(t) \/ Settle(t) \/ ObserverPanics(t)
  PROVE  Collected'
<1>1. UNCHANGED <<handleVars, req, pc, at, seen>>
  BY DEF Drive, Poll, Report, Publish, Notify, DropFuture, GuardWrite, GuardNotify,
         GuardReport, Yield, Settle, Finish, Panic, ObserverPanics, callVars
<1>2. \A u \in Tasks : phase'[u] = "new" <=> phase[u] = "new"
  BY DEF Drive, Poll, Report, Publish, Notify, DropFuture, GuardWrite, GuardNotify,
         GuardReport, Yield, Settle, Finish, Panic, ObserverPanics, Goto, TypeOK
<1> QED
  BY <1>1, <1>2, HandlesUndisturbed

LEMMA SpawningMakesAHandle ==
  ASSUME TypeOK, Collected, NEW t \in Tasks, Spawn(t) PROVE Collected'
<1>1. handle[t] = "none" /\ ~abandoned[t]
  BY DEF Spawn, Collected, HandleOf
<1>2. /\ phase' = [phase EXCEPT ![t] = "queued"] /\ handle' = [handle EXCEPT ![t] = "live"]
      /\ UNCHANGED <<consumed, abandoned, req, pc, at, seen>>
  BY DEF Spawn, Goto, callVars
<1>3. ASSUME NEW u \in Tasks PROVE HandleOf(u)'
  BY <1>1, <1>2, <1>3 DEF TypeOK, Collected, HandleOf, TargetsOf
<1> QED
  BY <1>2, <1>3 DEF Collected

LEMMA DroppingAHandle ==
  ASSUME TypeOK, Collected, NEW t \in Tasks, DropHandle(t) PROVE Collected'
<1>1. /\ handle[t] = "live" /\ ~InUse(t)
      /\ handle' = [handle EXCEPT ![t] = "dropped"]
      /\ abandoned' = [abandoned EXCEPT ![t] = ~consumed[t]]
      /\ UNCHANGED <<phase, consumed, req, pc, at, seen>>
  BY DEF DropHandle, taskVars, callVars
<1>2. phase[t] # "new"
  BY <1>1 DEF Collected, HandleOf
<1>3. ASSUME NEW u \in Tasks PROVE HandleOf(u)'
  <2>1. HandleOf(u)
    BY DEF Collected
  <2>2. CASE u = t
    <3>1. handle'[t] = "dropped" /\ (abandoned'[t] <=> ~consumed[t])
      BY <1>1 DEF TypeOK
    <3>2. \A c \in Calls : pc[c] = "waiting" =>
            \A i \in DOMAIN req[c].on : ~(req[c].on[i] = t /\ i > at[c])
      BY <1>1 DEF InUse
    <3> QED
      BY <1>1, <1>2, <2>1, <2>2, <3>1, <3>2 DEF HandleOf, TargetsOf
  <2>3. CASE u # t
    <3>1. handle'[u] = handle[u] /\ abandoned'[u] = abandoned[u]
      BY <1>1, <2>3 DEF TypeOK
    <3> QED
      BY <1>1, <2>1, <3>1 DEF HandleOf, TargetsOf
  <2> QED
    BY <2>2, <2>3
<1> QED
  BY <1>1, <1>3 DEF Collected

(* A call disturbs only its own entries, consumes only live handles, and   *)
(* leaves its own part of what a handle knows true.                        *)
Keeps(c, ts) ==
  /\ UNCHANGED <<phase, handle, abandoned, req>>
  /\ \A u \in Tasks : consumed'[u] <=> consumed[u] \/ u \in ts
  /\ \A u \in Tasks : u \in ts => handle[u] = "live"
  /\ \A d \in Calls : d # c => pc'[d] = pc[d] /\ at'[d] = at[d] /\ seen'[d] = seen[d]
  /\ pc'[c] = "waiting" =>
       /\ req[c].op # "try_result"
       /\ \A u \in Tasks, i \in DOMAIN req[c].on :
            req[c].on[i] = u /\ i > at'[c] => handle[u] = "live"
  /\ pc'[c] # "idle" /\ req[c].op \notin {"try_result", "select"} =>
       \A u \in Tasks : u \in TargetsOf(c) => consumed'[u]
  /\ \A u \in Tasks : u \in seen'[c] => consumed'[u]
  /\ req[c].op = "select" => at'[c] = 0

LEMMA CallKeepsHandles ==
  ASSUME Collected, NEW c \in Calls, NEW ts, Keeps(c, ts)
  PROVE  Collected'
<1>1. ASSUME NEW u \in Tasks PROVE HandleOf(u)'
  <2>1. HandleOf(u)
    BY DEF Collected
  <2>2. /\ handle'[u] = "none" <=> phase'[u] = "new"
        /\ abandoned'[u] => handle'[u] = "dropped" /\ ~consumed'[u]
    BY <2>1 DEF HandleOf, Keeps
  <2>3. ASSUME NEW d \in Calls
        PROVE  /\ pc'[d] = "waiting" =>
                    \A i \in DOMAIN req'[d].on :
                      req'[d].on[i] = u /\ i > at'[d] => handle'[u] = "live"
               /\ pc'[d] # "idle" /\ u \in TargetsOf(d)' /\ req'[d].op \notin {"try_result", "select"}
                    => consumed'[u]
               /\ u \in seen'[d] => consumed'[u]
    <3>1. CASE d = c
      BY <3>1 DEF TargetsOf, Keeps
    <3>2. CASE d # c
      BY <2>1, <3>2 DEF HandleOf, TargetsOf, Keeps
    <3> QED
      BY <3>1, <3>2
  <2> QED
    BY <2>2, <2>3 DEF HandleOf
<1>2. \A d \in Calls :
        /\ req'[d].op = "select" => at'[d] = 0
        /\ pc'[d] = "waiting" => req'[d].op # "try_result"
  BY DEF Collected, Keeps
<1> QED
  BY <1>1, <1>2 DEF Collected

LEMMA Consuming ==
  ASSUME TypeOK, NEW ts, Consume(ts)
  PROVE  \A u \in Tasks : consumed'[u] <=> consumed[u] \/ u \in ts
<1>1. consumed' = [u \in Tasks |-> consumed[u] \/ u \in ts]
  BY DEF Consume
<1> QED
  BY <1>1, Zenon

LEMMA BeginningConsumes ==
  ASSUME TypeInv, Collected, NEW c \in Calls, Begin(c) PROVE Collected'
<1>1. /\ pc' = [pc EXCEPT ![c] = "waiting"] /\ pc[c] = "idle"
      /\ UNCHANGED <<phase, handle, abandoned, req, at, seen>>
      /\ req[c].op # "try_result"
      /\ \A u \in TargetsOf(c) : handle[u] = "live"
  BY DEF Begin
<1>2. pc'[c] = "waiting" /\ \A d \in Calls : d # c => pc'[d] = pc[d]
  BY <1>1 DEF TypeInv, TypeOK
<1>3. \A u \in Tasks : u \in seen'[c] => consumed[u]
  BY <1>1 DEF Collected, HandleOf
<1>4. \A u \in Tasks, i \in DOMAIN req[c].on :
        req[c].on[i] = u /\ i > at'[c] => handle[u] = "live"
  BY <1>1 DEF TargetsOf
<1>5. req[c].op = "select" => at'[c] = 0
  BY <1>1 DEF Collected
<1>6. CASE req[c].op = "select"
  <2>1. \A u \in Tasks : consumed'[u] <=> consumed[u] \/ u \in {}
    BY <1>6 DEF Begin
  <2>2. \A u \in Tasks : u \in {} => handle[u] = "live"
    OBVIOUS
  <2> QED
    <3>1. Keeps(c, {})
      BY <1>1, <1>2, <1>3, <1>4, <1>5, <1>6, <2>1, <2>2 DEF Keeps
    <3> QED
      BY <3>1, CallKeepsHandles
<1>7. CASE req[c].op # "select"
  <2>1. \A u \in Tasks : consumed'[u] <=> consumed[u] \/ u \in TargetsOf(c)
    BY <1>7, Consuming DEF Begin, TypeInv
  <2> QED
    <3>1. Keeps(c, TargetsOf(c))
      BY <1>1, <1>2, <1>3, <1>4, <1>5, <1>7, <2>1 DEF Keeps
    <3> QED
      BY <3>1, CallKeepsHandles
<1> QED
  BY <1>6, <1>7

LEMMA TryingConsumes ==
  ASSUME TypeInv, Collected, NEW c \in Calls, TryResult(c) PROVE Collected'
<1> DEFINE t == req[c].on[1]
<1>1. /\ pc' = [pc EXCEPT ![c] = "done"] /\ handle[t] = "live"
      /\ req[c].op = "try_result"
      /\ UNCHANGED <<phase, handle, abandoned, req, at>>
  BY DEF TryResult, taskVars
<1>2. pc'[c] = "done" /\ \A d \in Calls : d # c => pc'[d] = pc[d]
  BY <1>1 DEF TypeInv, TypeOK
<1>3. \A u \in Tasks : u \in seen[c] => consumed[u]
  BY DEF Collected, HandleOf
<1>4. CASE result[t] # "none"
  <2>1. \A u \in Tasks : consumed'[u] <=> consumed[u] \/ u \in {t}
    BY <1>4, Consuming DEF TryResult, TypeInv
  <2>2. seen' = [seen EXCEPT ![c] = {t}]
    BY <1>4 DEF TryResult
  <2>3. seen'[c] = {t} /\ \A d \in Calls : d # c => seen'[d] = seen[d]
    BY <2>2 DEF TypeInv, TypeOK
  <2>4. \A u \in Tasks : u \in seen'[c] => consumed'[u]
    BY <2>1, <2>3
  <2>5. \A u \in Tasks : u \in {t} => handle[u] = "live"
    BY <1>1
  <2> HIDE DEF t
  <2> QED
    <3>1. Keeps(c, {t})
      BY <1>1, <1>2, <2>1, <2>3, <2>4, <2>5 DEF Keeps
    <3> QED
      BY <3>1, CallKeepsHandles
<1>5. CASE result[t] = "none"
  <2>1. UNCHANGED <<consumed, seen>>
    BY <1>5 DEF TryResult
  <2>2. \A u \in Tasks : consumed'[u] <=> consumed[u] \/ u \in {}
    BY <2>1
  <2>3. \A u \in Tasks : u \in {} => handle[u] = "live"
    OBVIOUS
  <2> QED
    <3>1. Keeps(c, {})
      BY <1>1, <1>2, <1>3, <2>1, <2>2, <2>3 DEF Keeps
    <3> QED
      BY <3>1, CallKeepsHandles
<1> QED
  BY <1>4, <1>5

(* A wait that goes on, or is given up, hands nothing over. *)
LEMMA WaitingKeepsHandles ==
  ASSUME TypeInv, Collected, NEW c \in Calls,
         \/ \E t \in Tasks : Arm(c, t) \/ Resume(c, t)
         \/ \E t \in Tasks : Check(c, t) /\ result[t] = "none"
         \/ DropCall(c)
  PROVE  Collected'
<1>1. CASE \/ \E t \in Tasks : Arm(c, t) \/ Resume(c, t)
           \/ \E t \in Tasks : Check(c, t) /\ result[t] = "none"
  <2>1. UNCHANGED <<handleVars, req, pc, at, seen, phase>>
    BY <1>1 DEF Arm, Resume, Check, taskVars, handleVars
  <2> QED
    BY <2>1, HandlesUndisturbed
<1>2. CASE DropCall(c)
  <2>1. /\ pc' = [pc EXCEPT ![c] = "dropped"] /\ pc[c] = "waiting"
        /\ UNCHANGED <<phase, handle, consumed, abandoned, req, at, seen>>
    BY <1>2 DEF DropCall, taskVars, handleVars
  <2>2. pc'[c] = "dropped" /\ \A d \in Calls : d # c => pc'[d] = pc[d]
    BY <2>1 DEF TypeInv, TypeOK
  <2>3. /\ \A u \in Tasks : consumed'[u] <=> consumed[u] \/ u \in {}
        /\ \A u \in Tasks : u \in {} => handle[u] = "live"
    BY <2>1
  <2>4. /\ \A u \in Tasks : u \in seen'[c] => consumed'[u]
        /\ req[c].op = "select" => at'[c] = 0
        /\ req[c].op \notin {"try_result", "select"} =>
             \A u \in Tasks : u \in TargetsOf(c) => consumed'[u]
    BY <2>1 DEF Collected, HandleOf
  <2> QED
    <3>1. Keeps(c, {})
      BY <2>1, <2>2, <2>3, <2>4 DEF Keeps
    <3> QED
      BY <3>1, CallKeepsHandles
<1> QED
  BY <1>1, <1>2

(* What a wait delivers is a task its call has consumed, or now consumes.  *)
LEMMA DeliveringConsumes ==
  ASSUME TypeInv, Collected, NEW c \in Calls, NEW t \in Tasks,
         Check(c, t), result[t] # "none"
  PROVE  Collected'
<1> DEFINE more == /\ req[c].op = "join"
                   /\ result[t] = "Success"
                   /\ at[c] + 1 < Len(req[c].on)
           told == IF more THEN {}
                   ELSE IF req[c].op = "join" /\ result[t] = "Success"
                        THEN TargetsOf(c) ELSE {t}
<1>1. /\ at' = [at EXCEPT ![c] = IF more THEN @ + 1 ELSE @]
      /\ pc' = [pc EXCEPT ![c] = IF more THEN @ ELSE "done"]
      /\ seen' = [seen EXCEPT ![c] = told]
      /\ UNCHANGED <<phase, handle, abandoned, req>>
  BY DEF Check, Deliver, taskVars
<1>2. IF req[c].op = "select" THEN Consume({t}) ELSE UNCHANGED consumed
  BY DEF Check, Deliver
<1>3. t \in Awaited(c) /\ pc[c] = "waiting"
  BY DEF Check, Awaited
<1>4. /\ req[c].on \in Seq(Tasks) /\ at[c] \in Nat /\ at[c] < Len(req[c].on)
  <2>1. req[c] \in Requests
    BY DEF TypeInv, TypeOK
  <2> QED
    BY <1>3, <2>1, RequestLists DEF TypeInv, TypeOK
<1>5. \A d \in Calls : d # c => pc'[d] = pc[d] /\ at'[d] = at[d] /\ seen'[d] = seen[d]
  BY <1>1, Zenon DEF TypeInv, TypeOK
<1>6. /\ at'[c] = (IF more THEN at[c] + 1 ELSE at[c])
      /\ pc'[c] = (IF more THEN pc[c] ELSE "done")
      /\ seen'[c] = told
  BY <1>1 DEF TypeInv, TypeOK
<1>7. pc'[c] = "waiting" =>
        \A u \in Tasks, i \in DOMAIN req[c].on :
          req[c].on[i] = u /\ i > at'[c] => handle[u] = "live"
  <2>1. \A u \in Tasks, i \in DOMAIN req[c].on :
          req[c].on[i] = u /\ i > at[c] => handle[u] = "live"
    BY <1>3 DEF Collected, HandleOf
  <2>2. at'[c] = at[c] \/ at'[c] = at[c] + 1
    BY <1>6
  <2> HIDE DEF more
  <2> QED
    BY <1>4, <2>1, <2>2
<1>8. req[c].op = "select" => at'[c] = 0 /\ at[c] = 0
  BY <1>6 DEF Collected
<1>9. t \in TargetsOf(c)
  BY <1>3, <1>4 DEF Awaited, TargetsOf
<1>10. CASE req[c].op = "select"
  <2>1. \A u \in Tasks : consumed'[u] <=> consumed[u] \/ u \in {t}
    BY <1>2, <1>10, Consuming DEF TypeInv
  <2>2. handle[t] = "live"
    <3>1. PICK i \in DOMAIN req[c].on : req[c].on[i] = t
      BY <1>9 DEF TargetsOf
    <3>2. i > at[c]
      BY <1>4, <1>8, <1>10
    <3> QED
      BY <1>3, <3>1, <3>2 DEF Collected, HandleOf
  <2>3. seen'[c] = {t}
    BY <1>6, <1>10
  <2>4. /\ \A u \in Tasks : u \in seen'[c] => consumed'[u]
        /\ \A u \in Tasks : u \in {t} => handle[u] = "live"
    BY <2>1, <2>2, <2>3
  <2> HIDE DEF told, more
  <2> QED
    <3>1. Keeps(c, {t})
      BY <1>1, <1>5, <1>7, <1>8, <1>10, <2>1, <2>4 DEF Keeps
    <3> QED
      BY <3>1, CallKeepsHandles
<1>11. CASE req[c].op # "select"
  <2>1. \A u \in Tasks : consumed'[u] <=> consumed[u] \/ u \in {}
    BY <1>2, <1>11
  <2>2. \A u \in Tasks : u \in {} => handle[u] = "live"
    OBVIOUS
  <2>3. req[c].op # "try_result"
    BY <1>3 DEF Collected
  <2>4. \A u \in Tasks : u \in TargetsOf(c) => consumed'[u]
    BY <1>3, <1>11, <2>1, <2>3 DEF Collected, HandleOf
  <2>5. \A u \in Tasks : u \in seen'[c] => consumed'[u]
    BY <1>6, <1>9, <2>4
  <2> HIDE DEF told, more
  <2> QED
    <3>1. Keeps(c, {})
      BY <1>1, <1>5, <1>7, <1>11, <2>1, <2>2, <2>3, <2>4, <2>5 DEF Keeps
    <3> QED
      BY <3>1, CallKeepsHandles
<1> QED
  BY <1>10, <1>11

LEMMA Collecting == Spec => [](TypeInv /\ Collected)
<1>1. Init => TypeInv /\ Collected
  <2>1. Init => TypeInv
    BY RequestsAssumption
       DEF Init, TypeInv, TypeOK, AtStart, Phases, Outcomes, Waiting
  <2>2. Init => Collected
    BY DEF Init, Collected, HandleOf
  <2> QED
    BY <2>1, <2>2
<1>2. TypeInv /\ Collected /\ [Next]_vars => (TypeInv /\ Collected)'
  <2> SUFFICES ASSUME TypeInv, Collected, [Next]_vars PROVE (TypeInv /\ Collected)'
    OBVIOUS
  <2>1. TypeOK
    BY DEF TypeInv
  <2>2. ASSUME NEW t \in Tasks, Spawn(t) \/ Drive(t) \/ Yield(t) \/ Settle(t) \/ ObserverPanics(t)
                 \/ DropHandle(t)
        PROVE  (TypeInv /\ Collected)'
    BY <2>1, <2>2, TaskTyping, SpawningMakesAHandle, DrivingKeepsHandles, DroppingAHandle
  <2>3. ASSUME NEW c \in Calls, Begin(c) \/ TryResult(c) \/ Await(c) \/ DropCall(c)
        PROVE  (TypeInv /\ Collected)'
    <3>1. CASE Await(c)
      <4>1. PICK t \in Tasks : Arm(c, t) \/ Check(c, t) \/ Resume(c, t)
        BY <3>1 DEF Await
      <4>2. Collected'
        BY <4>1, WaitingKeepsHandles, DeliveringConsumes
      <4> QED
        BY <2>3, <4>2, CallTyping
    <3> QED
      BY <2>3, <3>1, CallTyping, BeginningConsumes, TryingConsumes, WaitingKeepsHandles
  <2>4. CASE UNCHANGED vars
    <3>1. UNCHANGED <<handleVars, req, pc, at, seen, phase>>
      BY <2>4 DEF vars, handleVars
    <3>2. TypeInv'
      BY <2>4 DEF TypeInv, TypeOK, AtStart, vars
    <3> QED
      BY <3>1, <3>2, HandlesUndisturbed
  <2> QED
    BY <2>2, <2>3, <2>4 DEF Next
<1> QED
  BY <1>1, <1>2, PTL DEF Spec

(* A handle that is dropped is reported abandoned only if no call returned  *)
(* the task's result and none asked the task to stop (AbandonGuard::drop).  *)
THEOREM AbandonedOnlyUncollected == Spec => []AbandonedUncollected
<1>1. TypeInv /\ Collected => AbandonedUncollected
  BY DEF Collected, HandleOf, AbandonedUncollected
<1> QED
  BY <1>1, Collecting, PTL

-----------------------------------------------------------------------------
(* A cancel has reached the task, and nothing that can still happen lets   *)
(* it end as if it had not.                                                *)
Doomed(t) ==
  /\ phase[t] # "new"
  /\ phase[t] \in {"queued", "pending"} => permit[t] \/ disposing[t]
  /\ phase[t] = "running" => disposing[t]
  /\ phase[t] \in {"report", "publish"} => verdict[t] \notin {"Success", "Failure"}
  /\ result[t] \notin {"Success", "Failure"}

(* Only a step of the task itself takes its permit or moves it on. *)
LEMMA DoomUndisturbed ==
  ASSUME NEW t \in Tasks, Doomed(t),
         UNCHANGED <<phase[t], disposing[t], verdict[t], result[t]>>,
         permit[t] => permit'[t]
  PROVE  Doomed(t)'
  BY DEF Doomed

LEMMA DoomDriven ==
  ASSUME TypeOK, InProgress, NEW t \in Tasks, Doomed(t), NEW u \in Tasks,
         Spawn(u) \/ Drive(u) \/ Yield(u) \/ Settle(u) \/ ObserverPanics(u) \/ DropHandle(u)
  PROVE  Doomed(t)'
<1> USE DEF TypeOK, Doomed, Goto, taskVars
<1>1. CASE Spawn(u)
  BY <1>1 DEF Spawn
<1>2. CASE Poll(u)
  <2>1. CASE permit[u] /\ ~disposing[u]
    BY <1>2, <2>1 DEF Poll
  <2>2. CASE ~(permit[u] /\ ~disposing[u])
    BY <1>2, <2>2 DEF Poll
  <2> QED
    BY <2>1, <2>2
<1>3. CASE Report(u)
  BY <1>3 DEF Report
<1>4. CASE Publish(u)
  <2>1. result[u] = "none"
    BY <1>4 DEF Publish, InProgress, Progress
  <2>2. /\ phase' = [phase EXCEPT ![u] = "notify"]
        /\ result' = [result EXCEPT ![u] = verdict[u]]
        /\ UNCHANGED <<disposing, permit, verdict>>
    BY <1>4, <2>1 DEF Publish
  <2>3. phase[u] = "publish"
    BY <1>4 DEF Publish
  <2> QED
    BY <2>2, <2>3
<1>5. CASE Notify(u)
  BY <1>5 DEF Notify
<1>6. CASE DropFuture(u)
  BY <1>6 DEF DropFuture
<1>7. CASE GuardWrite(u)
  BY <1>7 DEF GuardWrite
<1>8. CASE GuardNotify(u)
  BY <1>8 DEF GuardNotify
<1>9. CASE GuardReport(u)
  BY <1>9 DEF GuardReport
<1>10. CASE Yield(u)
  BY <1>10 DEF Yield
<1>11. CASE Settle(u)
  <2>1. ASSUME NEW o \in {"Success", "Failure"}, Finish(u, o) PROVE Doomed(t)'
    BY <2>1 DEF Finish
  <2>2. CASE Panic(u)
    BY <2>2 DEF Panic
  <2> QED
    BY <1>11, <2>1, <2>2 DEF Settle
<1>12. CASE DropHandle(u)
  BY <1>12 DEF DropHandle
<1>13. CASE ObserverPanics(u)
  BY <1>13 DEF ObserverPanics
<1> HIDE DEF TypeOK, Doomed, Goto, taskVars
<1> QED
  BY <1>1, <1>2, <1>3, <1>4, <1>5, <1>6, <1>7, <1>8, <1>9, <1>10, <1>11, <1>12,
     <1>13 DEF Drive

LEMMA DoomStays ==
  ASSUME TypeOK, InProgress, [Next]_vars, NEW t \in Tasks, Doomed(t)
  PROVE  Doomed(t)'
<1>1. ASSUME NEW c \in Calls, Begin(c) PROVE Doomed(t)'
  <2>1. permit' = permit \/ \E u \in Tasks : permit' = [permit EXCEPT ![u] = TRUE]
    <3>1. req[c] \in Requests
      BY DEF TypeOK
    <3>2. req[c].on[1] \in Tasks
      BY <3>1, RequestLists
    <3> QED
      BY <1>1, <3>2 DEF Begin
  <2>2. permit[t] => permit'[t]
    BY <2>1 DEF TypeOK
  <2> QED
    BY <1>1, <2>2, DoomUndisturbed DEF Begin
<1>2. ASSUME NEW c \in Calls, TryResult(c) \/ DropCall(c) PROVE Doomed(t)'
  BY <1>2, DoomUndisturbed DEF TryResult, DropCall, taskVars
<1>3. ASSUME NEW c \in Calls, Await(c) PROVE Doomed(t)'
  BY <1>3, DoomUndisturbed DEF Await, Arm, Check, Resume, taskVars
<1>4. CASE UNCHANGED vars
  BY <1>4, DoomUndisturbed DEF vars
<1> QED
  BY <1>1, <1>2, <1>3, <1>4, DoomDriven DEF Next

(* A cancel that finds a task between two polls, or not polled yet, is not *)
(* overtaken: select! looks at it first, and a disposed task never ends in *)
(* success or failure (run_inner).                                         *)
THEOREM CancelNotOvertaken == Spec => CancelHonoured
<1>1. ASSUME NEW t \in Tasks
      PROVE  Spec => [](permit[t] /\ phase[t] \in {"queued", "pending"}
                          => [](result[t] \notin {"Success", "Failure"}))
  <2>1. InProgress /\ permit[t] /\ phase[t] \in {"queued", "pending"} => Doomed(t)
    BY DEF InProgress, Progress, Doomed
  <2>2. TypeOK /\ InProgress /\ [Next]_vars /\ Doomed(t) => Doomed(t)'
    BY DoomStays
  <2>3. Doomed(t) => result[t] \notin {"Success", "Failure"}
    BY DEF Doomed
  <2> QED
    BY <2>1, <2>2, <2>3, Typing, Phasing, PTL DEF Spec
<1> QED
  BY <1>1 DEF CancelHonoured

=============================================================================
