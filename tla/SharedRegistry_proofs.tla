------------------------ MODULE SharedRegistry_proofs ------------------------
(***************************************************************************)
(* Proofs about the registry, for any number of calls, names and types.    *)
(***************************************************************************)
EXTENDS SharedRegistry, TLAPS

(* Every variable keeps its type, a call has a value exactly when it        *)
(* returned one, and it has an outcome exactly from the step that decides  *)
(* it on (the return paths of get, get_or_create, get_or_create_async).    *)
THEOREM Typing == Spec => []TypeOK
<1>1. Init => TypeOK
  BY CallsAssumption DEF Init, TypeOK, Requests, Location, Suspended, Outcomes
<1>2. TypeOK /\ [Next]_vars => TypeOK'
  <2> SUFFICES ASSUME TypeOK, [Next]_vars PROVE TypeOK'
    OBVIOUS
  <2> USE CallsAssumption
          DEF TypeOK, Location, Suspended, Outcomes, Return, Goto, Hit, ReturnHit
  <2>1. ASSUME NEW c \in Calls, Get(c) PROVE TypeOK'
    <3>1. req[c].name \in Names
      BY DEF Requests
    <3>2. CASE Hit(c) /\ TypeMatches(c)
      BY <2>1, <3>1, <3>2 DEF Get
    <3>3. CASE Hit(c) /\ ~TypeMatches(c)
      BY <2>1, <3>1, <3>3 DEF Get
    <3>4. CASE ~Hit(c)
      BY <2>1, <3>1, <3>4 DEF Get
    <3> QED
      BY <3>2, <3>3, <3>4
  <2>2. ASSUME NEW c \in Calls, GetOrCreate(c) PROVE TypeOK'
    <3>1. req[c].name \in Names
      BY DEF Requests
    <3>2. CASE Hit(c) /\ TypeMatches(c)
      BY <2>2, <3>1, <3>2 DEF GetOrCreate
    <3>3. CASE Hit(c) /\ ~TypeMatches(c)
      BY <2>2, <3>1, <3>3 DEF GetOrCreate
    <3>4. CASE ~Hit(c)
      BY <2>2, <3>1, <3>4 DEF GetOrCreate
    <3> QED
      BY <3>2, <3>3, <3>4
  <2>13. ASSUME NEW c \in Calls, Make(c) PROVE TypeOK'
    BY <2>13 DEF Make, Requests
  <2>3. ASSUME NEW c \in Calls, Poll(c) PROVE TypeOK'
    BY <2>3 DEF Poll
  <2>4. ASSUME NEW c \in Calls, Lookup(c) PROVE TypeOK'
    <3>1. req[c].name \in Names
      BY DEF Requests
    <3>2. CASE Hit(c) /\ TypeMatches(c)
      BY <2>4, <3>1, <3>2 DEF Lookup
    <3>3. CASE Hit(c) /\ ~TypeMatches(c)
      BY <2>4, <3>1, <3>3 DEF Lookup
    <3>4. CASE ~Hit(c)
      BY <2>4, <3>1, <3>4 DEF Lookup
    <3> QED
      BY <3>2, <3>3, <3>4
  <2>5. ASSUME NEW c \in Calls, Reserve(c) PROVE TypeOK'
    <3>1. req[c].name \in Names
      BY DEF Requests
    <3>2. CASE inFlight[req[c].name] # None
      BY <2>5, <3>1, <3>2 DEF Reserve
    <3>3. CASE inFlight[req[c].name] = None
      BY <2>5, <3>1, <3>3 DEF Reserve
    <3> QED
      BY <3>2, <3>3
  <2>6. ASSUME NEW c \in Calls, Park(c) PROVE TypeOK'
    BY <2>6 DEF Park
  <2>7. ASSUME NEW c \in Calls, FactoryOk(c) PROVE TypeOK'
    BY <2>7 DEF FactoryOk, Requests
  <2>8. ASSUME NEW c \in Calls, FactoryErr(c) PROVE TypeOK'
    BY <2>8 DEF FactoryErr
  <2>9. ASSUME NEW c \in Calls, Cancel(c) PROVE TypeOK'
    BY <2>9 DEF Cancel
  <2>10. ASSUME NEW c \in Calls, ClearMarker(c) PROVE TypeOK'
    BY <2>10 DEF ClearMarker, Requests
  <2>11. ASSUME NEW c \in Calls, NotifyWaiters(c) PROVE TypeOK'
    BY <2>11 DEF NotifyWaiters
  <2>12. CASE UNCHANGED vars
    BY <2>12 DEF vars
  <2> QED
    BY <2>1, <2>2, <2>3, <2>4, <2>5, <2>6, <2>7, <2>8, <2>9, <2>10, <2>11, <2>12,
       <2>13
       DEF Next, CallStep, FactoryStep, Terminating
<1> QED
  BY <1>1, <1>2, PTL DEF Spec

-----------------------------------------------------------------------------
(* No error or cancellation path leaves a marker behind, and no guard       *)
(* removes a marker that is not its own: the reservation in                *)
(* get_or_create_async and InFlightGuard::drop.                            *)
THEOREM Markers == Spec => []MarkerIffGuard
<1>1. Init => MarkerIffGuard
  BY CallsAssumption DEF Init, MarkerIffGuard, HoldsMarker
<1>2. TypeOK /\ MarkerIffGuard /\ [Next]_vars => MarkerIffGuard'
  <2> SUFFICES ASSUME TypeOK, MarkerIffGuard, [Next]_vars PROVE MarkerIffGuard'
    OBVIOUS
  <2> USE CallsAssumption DEF TypeOK, MarkerIffGuard, HoldsMarker, Goto
  <2>1. ASSUME NEW c \in Calls,
               Get(c) \/ GetOrCreate(c) \/ Make(c) \/ Poll(c) \/ Lookup(c) \/ Park(c)
        PROVE MarkerIffGuard'
    BY <2>1 DEF Get, GetOrCreate, Make, Poll, Lookup, Park
  <2>2. ASSUME NEW c \in Calls, Reserve(c) PROVE MarkerIffGuard'
    <3>1. req[c].name \in Names
      BY DEF Requests
    <3>2. CASE inFlight[req[c].name] # None
      BY <2>2, <3>1, <3>2 DEF Reserve
    <3>3. CASE inFlight[req[c].name] = None
      BY <2>2, <3>1, <3>3 DEF Reserve
    <3> QED
      BY <3>2, <3>3
  <2>3. ASSUME NEW c \in Calls, FactoryOk(c) \/ FactoryErr(c) \/ Cancel(c)
        PROVE MarkerIffGuard'
    BY <2>3 DEF FactoryOk, FactoryErr, Cancel
  <2>4. ASSUME NEW c \in Calls, ClearMarker(c) PROVE MarkerIffGuard'
    BY <2>4 DEF ClearMarker, Requests
  <2>5. ASSUME NEW c \in Calls, NotifyWaiters(c) PROVE MarkerIffGuard'
    BY <2>5 DEF NotifyWaiters
  <2>6. CASE UNCHANGED vars
    BY <2>6 DEF vars
  <2> QED
    BY <2>1, <2>2, <2>3, <2>4, <2>5, <2>6
       DEF Next, CallStep, FactoryStep, Terminating
<1> QED
  BY <1>1, <1>2, Typing, PTL DEF Spec

(* At most one call holds the mutex of entries over its factory.           *)
OneHolder == \A c, d \in Calls : pc[c] = "make" /\ pc[d] = "make" => c = d

LEMMA LockHeld == Spec => []OneHolder
<1>1. Init => OneHolder
  BY DEF Init, OneHolder
<1>2. TypeOK /\ OneHolder /\ [Next]_vars => OneHolder'
  <2> SUFFICES ASSUME TypeOK, OneHolder, [Next]_vars PROVE OneHolder'
    OBVIOUS
  <2> USE DEF TypeOK, OneHolder, Goto
  <2>1. ASSUME NEW c \in Calls, GetOrCreate(c) PROVE OneHolder'
    BY <2>1 DEF GetOrCreate, Unlocked
  <2>2. ASSUME NEW c \in Calls,
               Get(c) \/ Make(c) \/ Poll(c) \/ Lookup(c) \/ Reserve(c) \/ Park(c)
        PROVE OneHolder'
    BY <2>2 DEF Get, Make, Poll, Lookup, Reserve, Park
  <2>3. ASSUME NEW c \in Calls,
               FactoryOk(c) \/ FactoryErr(c) \/ Cancel(c) \/ ClearMarker(c)
                 \/ NotifyWaiters(c)
        PROVE OneHolder'
    BY <2>3 DEF FactoryOk, FactoryErr, Cancel, ClearMarker, NotifyWaiters
  <2>4. CASE UNCHANGED vars
    BY <2>4 DEF vars
  <2> QED
    BY <2>1, <2>2, <2>3, <2>4 DEF Next, CallStep, FactoryStep, Terminating
<1> QED
  BY <1>1, <1>2, Typing, PTL DEF Spec

(* Two factories of get_or_create_async for one name never overlap, and two *)
(* of get_or_create never do, on any executor and whatever fails, panics   *)
(* or is cancelled.  One of each kind may overlap: see OneFactory.         *)
THEOREM OneFactoryAtATime == Spec => []SingleFlight
<1>1. TypeOK /\ MarkerIffGuard /\ OneHolder => SingleFlight
  BY DEF TypeOK, Requests, MarkerIffGuard, HoldsMarker, OneHolder, SingleFlight
<1> QED
  BY <1>1, Typing, Markers, LockHeld, PTL

-----------------------------------------------------------------------------
(* A stored or returned Arc has the name and the type it was asked for     *)
(* under: the expect("TypeId match guarantees downcast succeeds") in get    *)
(* and get_or_create never fails.                                          *)
THEOREM Downcasts == Spec => []DowncastSucceeds
<1>1. Init => DowncastSucceeds
  BY CallsAssumption DEF Init, DowncastSucceeds
<1>2. TypeOK /\ DowncastSucceeds /\ [Next]_vars => DowncastSucceeds'
  <2> SUFFICES ASSUME TypeOK, DowncastSucceeds, [Next]_vars PROVE DowncastSucceeds'
    OBVIOUS
  <2> USE CallsAssumption DEF TypeOK, DowncastSucceeds, Requests, Return
  <2>1. ASSUME NEW c \in Calls, Get(c) \/ Lookup(c) PROVE DowncastSucceeds'
    BY <2>1 DEF Get, Lookup, ReturnHit, Hit, TypeMatches
  <2>2. ASSUME NEW c \in Calls, GetOrCreate(c) PROVE DowncastSucceeds'
    BY <2>2 DEF GetOrCreate, ReturnHit, Hit, TypeMatches
  <2>3. ASSUME NEW c \in Calls, Make(c) \/ FactoryOk(c) PROVE DowncastSucceeds'
    BY <2>3 DEF Make, FactoryOk
  <2>4. ASSUME NEW c \in Calls, FactoryErr(c) \/ Cancel(c) PROVE DowncastSucceeds'
    BY <2>4 DEF FactoryErr, Cancel
  <2>5. ASSUME NEW c \in Calls,
               Poll(c) \/ Reserve(c) \/ Park(c) \/ ClearMarker(c) \/ NotifyWaiters(c)
        PROVE DowncastSucceeds'
    BY <2>5 DEF Poll, Reserve, Park, ClearMarker, NotifyWaiters
  <2>6. CASE UNCHANGED vars
    BY <2>6 DEF vars
  <2> QED
    BY <2>1, <2>2, <2>3, <2>4, <2>5, <2>6
       DEF Next, CallStep, FactoryStep, Terminating
<1> QED
  BY <1>1, <1>2, Typing, PTL DEF Spec

-----------------------------------------------------------------------------
(* Between the lookup that missed and the insert nothing is inserted.      *)
StillAbsent ==
  \A c \in Calls : pc[c] \in {"reserve", "create"} => entries[req[c].name] = None

(* This holds on one thread, where the lookup and the reservation are not  *)
(* interrupted, and without get_or_create, which heeds no marker.          *)
LEMMA Absence ==
  ASSUME ~Preemptive, "sync" \notin Kinds PROVE Spec => []StillAbsent
<1>1. Init => StillAbsent
  BY DEF Init, StillAbsent
<1>2. TypeOK /\ SingleFlight /\ StillAbsent /\ [Next]_vars => StillAbsent'
  <2> SUFFICES ASSUME TypeOK, SingleFlight, StillAbsent, [Next]_vars
               PROVE StillAbsent'
    OBVIOUS
  <2> USE CallsAssumption DEF TypeOK, StillAbsent, Requests, Location, Goto
  <2>1. ASSUME NEW c \in Calls, Get(c) \/ Poll(c) \/ Park(c) \/ ClearMarker(c)
        PROVE StillAbsent'
    BY <2>1 DEF Get, Poll, Park, ClearMarker
  <2>2. ASSUME NEW c \in Calls, Lookup(c) PROVE StillAbsent'
    BY <2>2 DEF Lookup, Hit
  <2>3. ASSUME NEW c \in Calls, Reserve(c) PROVE StillAbsent'
    BY <2>3 DEF Reserve
  <2>4. ASSUME NEW c \in Calls, FactoryOk(c) PROVE StillAbsent'
    <3>1. \A d \in Calls \ {c} : pc[d] # "reserve"
      BY <2>4 DEF FactoryOk, MayRun, Suspended
    <3>2. \A d \in Calls \ {c} : pc[d] = "create" => req[d].name # req[c].name
      BY <2>4 DEF FactoryOk, SingleFlight
    <3> QED
      BY <2>4, <3>1, <3>2 DEF FactoryOk
  <2>5. ASSUME NEW c \in Calls, FactoryErr(c) \/ Cancel(c) PROVE StillAbsent'
    BY <2>5 DEF FactoryErr, Cancel
  <2>6. ASSUME NEW c \in Calls, NotifyWaiters(c) PROVE StillAbsent'
    BY <2>6 DEF NotifyWaiters
  <2>7. ASSUME NEW c \in Calls, GetOrCreate(c) \/ Make(c) PROVE FALSE
    BY <2>7 DEF GetOrCreate, Make
  <2>8. CASE UNCHANGED vars
    BY <2>8 DEF vars
  <2> QED
    BY <2>1, <2>2, <2>3, <2>4, <2>5, <2>6, <2>7, <2>8
       DEF Next, CallStep, FactoryStep, Terminating
<1> QED
  BY <1>1, <1>2, Typing, OneFactoryAtATime, PTL DEF Spec

(* On one thread, get_or_create_async and get implement an atomic          *)
(* write-once map: what is stored under a name is never replaced, and each *)
(* answer is the value stored at the moment it is given.                   *)
THEOREM OneThreadRefinement ==
  ASSUME ~Preemptive, "sync" \notin Kinds PROVE Spec => IsWriteOnceMap
<1>1. Init => Map!Init
  BY DEF Init, Map!Init
<1>2. TypeOK /\ StillAbsent /\ [Next]_vars => [Map!Next]_<<entries, value>>
  <2> SUFFICES ASSUME TypeOK, StillAbsent, [Next]_vars
               PROVE Map!Next \/ UNCHANGED <<entries, value>>
    BY DEF Map!Next
  <2> USE CallsAssumption DEF TypeOK, Requests, Return
  <2>1. ASSUME NEW c \in Calls, ReturnHit(c), pc[c] \in {"idle", "lookup"},
               UNCHANGED entries
        PROVE Map!Next \/ UNCHANGED <<entries, value>>
    <3>1. value[c] = None /\ req[c].name \in Names
      BY <2>1
    <3>2. CASE TypeMatches(c)
      BY <2>1, <3>1, <3>2 DEF ReturnHit, Hit, Map!Next, Map!Reuse
    <3>3. CASE ~TypeMatches(c)
      BY <2>1, <3>1, <3>3 DEF ReturnHit
    <3> QED
      BY <3>2, <3>3
  <2>2. ASSUME NEW c \in Calls, Get(c) PROVE Map!Next \/ UNCHANGED <<entries, value>>
    BY <2>1, <2>2 DEF Get
  <2>3. ASSUME NEW c \in Calls, Lookup(c) PROVE Map!Next \/ UNCHANGED <<entries, value>>
    BY <2>1, <2>3 DEF Lookup
  <2>4. ASSUME NEW c \in Calls, FactoryOk(c)
        PROVE Map!Next \/ UNCHANGED <<entries, value>>
    <3>1. value[c] = None /\ req[c].name \in Names
      BY <2>4 DEF FactoryOk
    <3>2. entries[req[c].name] = None
      BY <2>4 DEF FactoryOk, StillAbsent
    <3> QED
      BY <2>4, <3>1, <3>2 DEF FactoryOk, Map!Next, Map!Bind
  <2>5. ASSUME NEW c \in Calls, FactoryErr(c) \/ Cancel(c)
        PROVE UNCHANGED <<entries, value>>
    BY <2>5 DEF FactoryErr, Cancel
  <2>6. ASSUME NEW c \in Calls,
               Poll(c) \/ Reserve(c) \/ Park(c) \/ ClearMarker(c) \/ NotifyWaiters(c)
        PROVE UNCHANGED <<entries, value>>
    BY <2>6 DEF Poll, Reserve, Park, ClearMarker, NotifyWaiters
  <2>7. ASSUME NEW c \in Calls, GetOrCreate(c) \/ Make(c) PROVE FALSE
    BY <2>7 DEF GetOrCreate, Make
  <2>8. CASE UNCHANGED vars
    BY <2>8 DEF vars
  <2> QED
    BY <2>2, <2>3, <2>4, <2>5, <2>6, <2>7, <2>8
       DEF Next, CallStep, FactoryStep, Terminating
<1> QED
  BY <1>1, <1>2, Typing, Absence, PTL DEF Spec, IsWriteOnceMap, Map!Spec
=============================================================================
