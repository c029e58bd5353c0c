------------------------------ MODULE NotifyCell ------------------------------
(***************************************************************************)
(* task.notify: LuaNotify in crates/shingetsu/src/task/notify.rs, over     *)
(* tokio's Notify.                                                         *)
(*                                                                         *)
(* The programs modelled use it as a condition variable: a notifier makes  *)
(* the condition true, then notifies; wait_until's predicate looks at the  *)
(* condition.  wait_notified waits for any notification.                   *)
(***************************************************************************)
EXTENDS Sequences, SequencesExt

CONSTANTS
  Waits,     \* the calls of wait_notified and wait_until
  Notifiers  \* the tasks that notify, each once

Hows == {"one", "last", "all"}

VARIABLES
  cond,      \* what the predicates look at
  stored,    \* Notify holds a permit
  waiters,   \* the registered waits, the oldest first
  note,      \* wait -> the notification it has: "none", "stored", or a how
  waitPc,    \* wait -> where it is
  notifyPc   \* notifier -> "idle", "set", or how it has notified

vars == <<cond, stored, waiters, note, waitPc, notifyPc>>

Without(w) == SelectSeq(waiters, LAMBDA v : v # w)

Init ==
  /\ cond = FALSE /\ stored = FALSE /\ waiters = <<>>
  /\ note = [w \in Waits |-> "none"]
  /\ waitPc = [w \in Waits |-> "idle"]
  /\ notifyPc = [n \in Notifiers |-> "idle"]

SetCond(n) ==
  /\ notifyPc[n] = "idle"
  /\ cond' = TRUE
  /\ notifyPc' = [notifyPc EXCEPT ![n] = "set"]
  /\ UNCHANGED <<stored, waiters, note, waitPc>>

(* notify_one takes the oldest of the line, notify_last the newest; with   *)
(* nobody there they store a permit.  n is what the notes are otherwise.   *)
NotifyOne(how, line, n) ==
  \/ /\ line = <<>>
     /\ stored' = TRUE
     /\ waiters' = line /\ note' = n
  \/ /\ line # <<>>
     /\ LET w == IF how = "one" THEN Head(line) ELSE Last(line)
        IN  /\ waiters' = SelectSeq(line, LAMBDA v : v # w)
            /\ note' = [n EXCEPT ![w] = how]
     /\ UNCHANGED stored

(* notify_one, notify_last and notify_all, which stores nothing. *)
Notify(n) ==
  /\ notifyPc[n] = "set"
  /\ \E how \in Hows :
       /\ notifyPc' = [notifyPc EXCEPT ![n] = how]
       /\ \/ how # "all" /\ NotifyOne(how, waiters, note)
          \/ /\ how = "all"
             /\ waiters' = <<>>
             /\ note' = [w \in Waits |-> IF w \in ToSet(waiters) THEN "all" ELSE note[w]]
             /\ UNCHANGED stored
  /\ UNCHANGED <<cond, waitPc>>

(* A Notified is enabled, by wait_until or by the first poll of            *)
(* wait_notified: it takes the stored permit, which is all wait_notified   *)
(* needs, or registers.                                                    *)
Register(w) ==
  /\ \/ waitPc[w] \in {"idle", "looping"} /\ waitPc' = [waitPc EXCEPT ![w] = "checking"]
     \/ /\ waitPc[w] = "idle"
        /\ waitPc' = [waitPc EXCEPT ![w] = IF stored THEN "returned" ELSE "notified"]
  /\ stored' = FALSE
  /\ note' = [note EXCEPT ![w] = IF stored /\ waitPc'[w] = "checking" THEN "stored" ELSE "none"]
  /\ waiters' = IF stored THEN waiters ELSE Append(waiters, w)
  /\ UNCHANGED <<cond, notifyPc>>

(* Fault variant of DropNotified: the notification goes with the waiter. *)
DropNotifiedAlone(w) ==
  /\ waiters' = Without(w)
  /\ note' = [note EXCEPT ![w] = "none"]
  /\ UNCHANGED stored

(* A Notified is dropped: a notification for one, not yet used, goes to    *)
(* another waiter; a stored permit that was taken does not come back.      *)
DropNotified(w) ==
  LET rest == [note EXCEPT ![w] = "none"]
  IN  \/ note[w] \in {"one", "last"} /\ NotifyOne(note[w], waiters, rest)
      \/ /\ note[w] \notin {"one", "last"}
         /\ waiters' = Without(w) /\ note' = rest
         /\ UNCHANGED stored

(* wait_until's predicate is called, and looks at the condition. *)
Check(w) ==
  /\ waitPc[w] = "checking"
  /\ waitPc' = [waitPc EXCEPT ![w] = IF cond THEN "true" ELSE "false"]
  /\ UNCHANGED <<cond, stored, waiters, note, notifyPc>>

(* Fault variant of Decide: the Notified is created after the predicate. *)
DecideUnregistered(w) ==
  /\ \/ /\ waitPc[w] = "true"
        /\ waitPc' = [waitPc EXCEPT ![w] = "returned"]
        /\ DropNotified(w)
     \/ /\ waitPc[w] = "false"
        /\ waitPc' = [waitPc EXCEPT ![w] = "waiting"]
        /\ waiters' = Append(Without(w), w)
        /\ note' = [note EXCEPT ![w] = "none"]
        /\ UNCHANGED stored
  /\ UNCHANGED <<cond, notifyPc>>

(* The predicate returns true, raises, or returns false. *)
Decide(w) ==
  /\ \/ /\ waitPc[w] = "true"
        /\ waitPc' = [waitPc EXCEPT ![w] = "returned"]
        /\ DropNotified(w)
     \/ /\ waitPc[w] = "checking"
        /\ waitPc' = [waitPc EXCEPT ![w] = "raised"]
        /\ DropNotified(w)
     \/ /\ waitPc[w] = "false"
        /\ waitPc' = [waitPc EXCEPT ![w] = "waiting"]
        /\ UNCHANGED <<stored, waiters, note>>
  /\ UNCHANGED <<cond, notifyPc>>

(* The await returns: wait_notified is done, wait_until looks again. *)
Wake(w) ==
  /\ note[w] # "none"
  /\ \/ /\ waitPc[w] = "notified"
        /\ waitPc' = [waitPc EXCEPT ![w] = "returned"]
     \/ /\ waitPc[w] = "waiting"
        /\ waitPc' = [waitPc EXCEPT ![w] = "looping"]
  /\ note' = [note EXCEPT ![w] = "none"]
  /\ UNCHANGED <<cond, stored, waiters, notifyPc>>

(* The caller is cancelled or aborted, at an await or in the predicate. *)
DropWait(w) ==
  /\ waitPc[w] \in {"checking", "true", "false", "notified", "waiting"}
  /\ waitPc' = [waitPc EXCEPT ![w] = "dropped"]
  /\ DropNotified(w)
  /\ UNCHANGED <<cond, notifyPc>>

Next ==
  \/ \E n \in Notifiers : SetCond(n) \/ Notify(n)
  \/ \E w \in Waits : Register(w) \/ Check(w) \/ Decide(w) \/ Wake(w) \/ DropWait(w)

(* Who has set the condition notifies, and waits are polled. *)
Fairness ==
  /\ \A n \in Notifiers : WF_vars(Notify(n))
  /\ \A w \in Waits : /\ WF_vars(waitPc[w] = "looping" /\ Register(w))
                      /\ WF_vars(Check(w)) /\ WF_vars(Decide(w)) /\ WF_vars(Wake(w))

-----------------------------------------------------------------------------
NotifiedAll == \E n \in Notifiers : notifyPc[n] = "all"

Parked == {w \in Waits : waitPc[w] \in {"notified", "waiting"}}

(* "register-before-check ... makes the classic lost-wakeup bug not        *)
(* expressible": after the condition was set and everybody notified, no    *)
(* wait_until stays asleep, wherever the notification met it.              *)
UntilWakes ==
  \A w \in Waits : NotifiedAll /\ waitPc[w] = "waiting" ~> waitPc[w] # "waiting"

(* A notify_one or notify_last that has chosen a waiter wakes somebody, or *)
(* stays for who comes next: it is not lost with a waiter that is          *)
(* cancelled, or whose predicate was true already, after it was chosen.    *)
(* (A wait_until that woke and is cancelled in its predicate did lose it.) *)
OneWakes ==
  \A w \in Waits :
    note[w] \in {"one", "last"}
      ~> \/ stored \/ Parked = {}
         \/ \E v \in Waits : waitPc[v] \in {"looping", "returned", "raised"}
=============================================================================
