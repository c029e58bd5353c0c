--------------------------- MODULE SharedRegistry ---------------------------
(***************************************************************************)
(* The process-wide registry of named values, SharedRegistry in            *)
(* crates/shingetsu-vm/src/shared_registry.rs.                             *)
(*                                                                         *)
(* A call is one invocation of get, get_or_create or get_or_create_async.  *)
(* The two maps are each behind a mutex of their own, so one critical      *)
(* section is one step and everything between two critical sections is a   *)
(* point where another thread can run.  Since a call makes at most one     *)
(* value and reserves at most one in-flight marker, the Arc a call makes   *)
(* and the Notify it puts in the marker are both named by the call.  The   *)
(* one critical section that runs code of the caller, the factory of       *)
(* get_or_create, is two steps, and "make" is the place between them.      *)
(***************************************************************************)
EXTENDS Naturals, FiniteSets

CONSTANTS
  Calls,       \* the invocations, each of which happens at most once
  Names,       \* the registry's keys
  Types,       \* the TypeIds a value can be asked for under
  Kinds,       \* which of the three entry points the calls use
  Preemptive,  \* TRUE: multi-threaded executor; FALSE: a call that is not at
               \* an await point keeps the only thread
  None         \* no call

ASSUME CallsAssumption == None \notin Calls
ASSUME KindsAssumption == Kinds \subseteq {"get", "sync", "async"}
ASSUME PreemptiveAssumption == Preemptive \in BOOLEAN

VARIABLES
  entries,   \* name -> the call whose value is stored under it, or None
  inFlight,  \* name -> the call whose Notify is the marker, or None
  req,       \* call -> what it asks for
  pc,        \* call -> where it is
  on,        \* call -> the reservation whose Notify it holds, or None
  outcome,   \* call -> how it returned
  value      \* call -> the call that made the Arc it returned, or None

vars == <<entries, inFlight, req, pc, on, outcome, value>>

Requests == [kind : Kinds, name : Names, type : Types]

(* Suspended: the call's future is not being polled, or does not exist. *)
Suspended == {"idle", "parked", "woken", "create", "done"}
Location ==
  Suspended \cup {"make", "lookup", "reserve", "join", "clear", "notify"}

Outcomes == {"pending", "value", "absent", "mismatch", "failed", "cancelled"}

(* The call holds an InFlightGuard whose drop has not removed the marker. *)
HoldsMarker(c) == pc[c] \in {"create", "clear"}

(* No get_or_create holds the mutex of entries while its factory runs.      *)
Unlocked == \A d \in Calls : pc[d] # "make"

MayRun(c) == Preemptive \/ \A d \in Calls \ {c} : pc[d] \in Suspended

Goto(c, l) == pc' = [pc EXCEPT ![c] = l]

Return(c, o, v) ==
  /\ outcome' = [outcome EXCEPT ![c] = o]
  /\ value' = [value EXCEPT ![c] = v]

TypeMatches(c) == req[entries[req[c].name]].type = req[c].type

Hit(c) == entries[req[c].name] # None

(* Fault variant of ReturnHit: the stored Arc is returned unchecked. *)
UncheckedHit(c) == Hit(c) /\ Return(c, "value", entries[req[c].name])

(* A hit returns the stored Arc if the type is the stored one, else fails. *)
ReturnHit(c) ==
  /\ Hit(c)
  /\ IF TypeMatches(c) THEN Return(c, "value", entries[req[c].name])
                       ELSE Return(c, "mismatch", None)

Init ==
  /\ entries = [n \in Names |-> None]
  /\ inFlight = [n \in Names |-> None]
  /\ req \in [Calls -> Requests]
  /\ pc = [c \in Calls |-> "idle"]
  /\ on = [c \in Calls |-> None]
  /\ outcome = [c \in Calls |-> "pending"]
  /\ value = [c \in Calls |-> None]

-----------------------------------------------------------------------------
(* get: one critical section on entries. *)
Get(c) ==
  /\ pc[c] = "idle" /\ req[c].kind = "get" /\ MayRun(c) /\ Unlocked
  /\ \/ ReturnHit(c)
     \/ ~Hit(c) /\ Return(c, "absent", None)
  /\ Goto(c, "done")
  /\ UNCHANGED <<entries, inFlight, req, on>>

(* get_or_create locks entries and looks the name up; on a miss it starts  *)
(* the factory with the lock held, without a look at in_flight.            *)
GetOrCreate(c) ==
  /\ pc[c] = "idle" /\ req[c].kind = "sync" /\ MayRun(c) /\ Unlocked
  /\ \/ ReturnHit(c) /\ Goto(c, "done")
     \/ ~Hit(c) /\ Goto(c, "make") /\ UNCHANGED <<outcome, value>>
  /\ UNCHANGED <<entries, inFlight, req, on>>

(* That factory returns, its value is inserted and the lock is released.   *)
Make(c) ==
  /\ pc[c] = "make" /\ MayRun(c)
  /\ entries' = [entries EXCEPT ![req[c].name] = c]
  /\ Return(c, "value", c)
  /\ Goto(c, "done")
  /\ UNCHANGED <<inFlight, req, on>>

(* get_or_create_async is first polled, or polled again after a wake-up. *)
Poll(c) ==
  /\ \/ pc[c] = "idle" /\ req[c].kind = "async"
     \/ pc[c] = "woken"
  /\ MayRun(c)
  /\ Goto(c, "lookup")
  /\ on' = [on EXCEPT ![c] = None]
  /\ UNCHANGED <<entries, inFlight, req, outcome, value>>

(* Fault variant of Lookup: there is no fast path at the head of the loop. *)
SkipLookup(c) ==
  /\ pc[c] = "lookup" /\ MayRun(c)
  /\ Goto(c, "reserve")
  /\ UNCHANGED <<entries, inFlight, req, on, outcome, value>>

(* The fast path at the head of the loop. *)
Lookup(c) ==
  /\ pc[c] = "lookup" /\ MayRun(c) /\ Unlocked
  /\ \/ ReturnHit(c) /\ Goto(c, "done")
     \/ ~Hit(c) /\ Goto(c, "reserve") /\ UNCHANGED <<outcome, value>>
  /\ UNCHANGED <<entries, inFlight, req, on>>

(* Fault variant of Reserve: a marker that is there already is replaced. *)
ReserveAnyway(c) ==
  /\ pc[c] = "reserve" /\ MayRun(c)
  /\ inFlight' = [inFlight EXCEPT ![req[c].name] = c]
  /\ Goto(c, "create")
  /\ UNCHANGED <<entries, req, on, outcome, value>>

(* Join the reservation of another call, or make one and start the factory. *)
Reserve(c) ==
  LET n == req[c].name IN
  /\ pc[c] = "reserve" /\ MayRun(c)
  /\ \/ /\ inFlight[n] # None
        /\ on' = [on EXCEPT ![c] = inFlight[n]]
        /\ Goto(c, "join")
        /\ UNCHANGED inFlight
     \/ /\ inFlight[n] = None
        /\ inFlight' = [inFlight EXCEPT ![n] = c]
        /\ Goto(c, "create")
        /\ UNCHANGED on
  /\ UNCHANGED <<entries, req, outcome, value>>

(* notified().await: from here on a notify_waiters of that Notify is seen,  *)
(* an earlier one is not.                                                  *)
Park(c) ==
  /\ pc[c] = "join" /\ MayRun(c)
  /\ Goto(c, "parked")
  /\ UNCHANGED <<entries, inFlight, req, on, outcome, value>>

(* The factory returns Ok and the value is inserted, whatever is there. *)
FactoryOk(c) ==
  /\ pc[c] = "create" /\ MayRun(c) /\ Unlocked
  /\ entries' = [entries EXCEPT ![req[c].name] = c]
  /\ Return(c, "value", c)
  /\ Goto(c, "clear")
  /\ UNCHANGED <<inFlight, req, on>>

(* Fault variant of FactoryErr: the error is dropped. *)
FactoryErrLost(c) ==
  /\ pc[c] = "create" /\ MayRun(c)
  /\ Goto(c, "clear")
  /\ UNCHANGED <<entries, inFlight, req, on, outcome, value>>

(* The factory returns Err. *)
FactoryErr(c) ==
  /\ pc[c] = "create" /\ MayRun(c)
  /\ Return(c, "failed", None)
  /\ Goto(c, "clear")
  /\ UNCHANGED <<entries, inFlight, req, on>>

(* Fault variant of Cancel: there is no guard to remove the marker. *)
CancelUnguarded(c) ==
  /\ pc[c] \in {"parked", "woken", "create"} /\ MayRun(c)
  /\ Return(c, "cancelled", None)
  /\ Goto(c, "done")
  /\ UNCHANGED <<entries, inFlight, req, on>>

(* The call's future is dropped at one of its two await points, or its     *)
(* factory panics, which releases the lock of get_or_create.               *)
Cancel(c) ==
  /\ pc[c] \in {"parked", "woken", "create", "make"} /\ MayRun(c)
  /\ Return(c, "cancelled", None)
  /\ Goto(c, IF pc[c] = "create" THEN "clear" ELSE "done")
  /\ UNCHANGED <<entries, inFlight, req, on>>

(* InFlightGuard::drop, first the marker ... *)
ClearMarker(c) ==
  /\ pc[c] = "clear" /\ MayRun(c)
  /\ inFlight' = [inFlight EXCEPT ![req[c].name] = None]
  /\ Goto(c, "notify")
  /\ UNCHANGED <<entries, req, on, outcome, value>>

(* Fault variant of NotifyWaiters: notify_one, which wakes one of them. *)
NotifyOne(c) ==
  LET parked == {d \in Calls : pc[d] = "parked" /\ on[d] = c} IN
  /\ pc[c] = "notify" /\ MayRun(c)
  /\ \/ parked = {} /\ Goto(c, "done")
     \/ \E d \in parked : pc' = [pc EXCEPT ![c] = "done", ![d] = "woken"]
  /\ UNCHANGED <<entries, inFlight, req, on, outcome, value>>

(* ... then notify_waiters, which wakes the calls that are parked already. *)
NotifyWaiters(c) ==
  /\ pc[c] = "notify" /\ MayRun(c)
  /\ pc' = [d \in Calls |-> IF d = c THEN "done"
                            ELSE IF pc[d] = "parked" /\ on[d] = c THEN "woken"
                            ELSE pc[d]]
  /\ UNCHANGED <<entries, inFlight, req, on, outcome, value>>

CallStep(c) ==
  \/ Get(c) \/ GetOrCreate(c) \/ Poll(c) \/ Lookup(c) \/ Reserve(c) \/ Park(c)
  \/ ClearMarker(c) \/ NotifyWaiters(c)

FactoryStep(c) == Make(c) \/ FactoryOk(c) \/ FactoryErr(c)

(* Every call has returned, or sleeps on a Notify. *)
Quiescent == \A c \in Calls : pc[c] \in {"done", "parked"}

Terminating == Quiescent /\ UNCHANGED vars

Next ==
  \/ \E c \in Calls : CallStep(c) \/ FactoryStep(c) \/ Cancel(c)
  \/ Terminating

Spec == Init /\ [][Next]_vars

(* The executor polls every runnable future again, and factories finish. *)
Fairness == \A c \in Calls : WF_vars(CallStep(c)) /\ WF_vars(FactoryStep(c))

FairSpec == Spec /\ Fairness

-----------------------------------------------------------------------------
TypeOK ==
  /\ entries \in [Names -> Calls \cup {None}]
  /\ inFlight \in [Names -> Calls \cup {None}]
  /\ req \in [Calls -> Requests]
  /\ pc \in [Calls -> Location]
  /\ on \in [Calls -> Calls \cup {None}]
  /\ outcome \in [Calls -> Outcomes]
  /\ value \in [Calls -> Calls \cup {None}]
  /\ \A c \in Calls :
       /\ outcome[c] = "value" <=> value[c] # None
       /\ pc[c] \in {"clear", "notify", "done"} <=> outcome[c] # "pending"
       /\ pc[c] = "make" => req[c].kind = "sync"

(* A marker is in the map exactly while the call that reserved it holds    *)
(* its guard: no error or cancellation path leaves one behind, and no      *)
(* guard removes the marker of a later reservation.                        *)
MarkerIffGuard ==
  \A n \in Names, c \in Calls :
    inFlight[n] = c <=> HoldsMarker(c) /\ req[c].name = n

(* A factory is running, or waiting for something, for this call. *)
InFactory(c) == pc[c] \in {"make", "create"}

(* Two factories of get_or_create_async for one name never overlap, and    *)
(* two factories of get_or_create never overlap, whatever their names.     *)
(* Nothing keeps a factory of one kind from running beside one of the      *)
(* other: get_or_create does not look at in_flight.                        *)
SingleFlight ==
  /\ \A c, d \in Calls :
       pc[c] = "create" /\ pc[d] = "create" /\ req[c].name = req[d].name => c = d
  /\ \A c, d \in Calls : pc[c] = "make" /\ pc[d] = "make" => c = d

(* The documentation's "exactly one factory invocation" for callers that   *)
(* race on a name, of whichever entry point.  The code does not keep it    *)
(* when the two entry points are mixed.                                    *)
OneFactory ==
  \A c, d \in Calls :
    InFactory(c) /\ InFactory(d) /\ req[c].name = req[d].name => c = d

(* An Arc that a call returns, or that is stored, was made under the same  *)
(* name, and the caller's downcast to the type it asked for succeeds.      *)
DowncastSucceeds ==
  /\ \A n \in Names : entries[n] # None => req[entries[n]].name = n
  /\ \A c \in Calls : value[c] # None =>
       /\ req[value[c]].name = req[c].name
       /\ req[value[c]].type = req[c].type

(* No two calls both return a value that they made under one name: the     *)
(* "factory runs at most once per name" of the documentation, failed and   *)
(* cancelled factories set aside.                                          *)
OneMaker ==
  \A c, d \in Calls :
    value[c] = c /\ value[d] = d /\ req[c].name = req[d].name => c = d

(* Every call returns: the winner of a reservation wakes all who joined it. *)
CallsReturn == \A c \in Calls : pc[c] \notin {"idle", "done"} ~> pc[c] = "done"

Map == INSTANCE WriteOnceMap
         WITH Callers <- Calls, Keys <- Names, Unbound <- None,
              bound <- entries, answer <- value

(* The registry behaves as an atomic write-once map, which it does when    *)
(* get_or_create_async has it to itself, on one thread.                    *)
IsWriteOnceMap == Map!Spec
=============================================================================
