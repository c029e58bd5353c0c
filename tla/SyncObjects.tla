----------------------------- MODULE SyncObjects -----------------------------
(***************************************************************************)
(* The objects tasks synchronise with, side by side: locks and semaphores  *)
(* (Guards), notifications (NotifyCell), watches (WatchCell) and oneshots  *)
(* (Oneshot).  They share nothing, so a behaviour uses one of them, object *)
(* says which, while the others stay as they were made.                    *)
(***************************************************************************)
EXTENDS Naturals

CONSTANTS
  Tasks,         \* the tasks that lock, or wait for a notification
  Others,        \* the tasks that notify, grow, set, watch and hand over
  MaxReads,      \* the permits of an rwlock
  PermitCounts,  \* the numbers of permits asked for
  Nobody         \* no task

CellValues == {"bad", "good"}

VARIABLES
  object,
  kind, permits, avail, line, has, want, guardPc, growth, growers,
  cond, stored, waiters, note, waitPc, notifyPc,
  cell, version, setters, seen, taken, watchPc,
  tx, rx, slot, sendPc, recvPc, got

Locks == INSTANCE Guards
           WITH Callers <- Tasks, Growers <- Others, pc <- guardPc
Notes == INSTANCE NotifyCell WITH Waits <- Tasks, Notifiers <- Others
Cells == INSTANCE WatchCell
           WITH Setters <- Others, Watchers <- Others, Good <- {"good"}
Shots == INSTANCE Oneshot
           WITH Senders <- Others, Receivers <- Others, NoCall <- Nobody

ASSUME SyncAssumption ==
  Locks!PermitsAssumption /\ Cells!GoodAssumption /\ Shots!NoCallAssumption

lockVars == <<kind, permits, avail, line, has, want, guardPc, growth, growers>>
noteVars == <<cond, stored, waiters, note, waitPc, notifyPc>>
cellVars == <<cell, version, setters, seen, taken, watchPc>>
shotVars == <<tx, rx, slot, sendPc, recvPc, got>>
vars == <<object, lockVars, noteVars, cellVars, shotVars>>

Init ==
  /\ object \in {"lock", "notify", "watch", "oneshot"}
  /\ Locks!Init /\ (object # "lock" => kind = "mutex")
  /\ Notes!Init
  /\ Cells!Init /\ (object # "watch" => cell = "bad")
  /\ Shots!Init

Next ==
  \/ /\ object = "lock" /\ Locks!Next
     /\ UNCHANGED <<object, noteVars, cellVars, shotVars>>
  \/ /\ object = "notify" /\ Notes!Next
     /\ UNCHANGED <<object, lockVars, cellVars, shotVars>>
  \/ /\ object = "watch" /\ Cells!Next
     /\ UNCHANGED <<object, lockVars, noteVars, shotVars>>
  \/ /\ object = "oneshot" /\ Shots!Next
     /\ UNCHANGED <<object, lockVars, noteVars, cellVars>>

(* None of the three asks anything of an object that is not used. *)
Fairness == Locks!Fairness /\ Notes!Fairness /\ Cells!Fairness

FairSpec == Init /\ [][Next]_vars /\ Fairness
-----------------------------------------------------------------------------
(* Locks and semaphores: no permit is lost or invented by cancelled calls, *)
(* repeated releases and concurrent growth, a mutex has one holder, a      *)
(* writer is alone, and a semaphore is not exceeded.                       *)
PermitsConserved == Locks!PermitsConserved /\ Locks!Exclusion

(* Every call that waits for a lock or a permit gets it when guards are    *)
(* released, and a writer is not passed over for readers.                  *)
WaitersServed == Locks!WaitersServed

(* wait_until does not miss a notify_all, wherever it meets it, and a      *)
(* notify_one or notify_last is not lost with a waiter that goes away.     *)
NotifyWakes == Notes!UntilWakes /\ Notes!OneWakes

(* wait_for and wait_change do not miss a set.                             *)
ChangeWakes == Cells!ChangeWakes

(* A value that was accepted by a oneshot is not lost behind a nil; the    *)
(* exception is a receiver that is dropped with the value in it.           *)
HandsOver == Shots!HandsOver
=============================================================================
