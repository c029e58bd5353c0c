------------------------------ MODULE WatchCell ------------------------------
(***************************************************************************)
(* task.watch: LuaWatch in crates/shingetsu/src/task/watch.rs, over        *)
(* tokio's watch channel.  A cell with a version; each call subscribes and *)
(* remembers the version it has seen.  The predicates of wait_for accept   *)
(* the values in Good.                                                     *)
(***************************************************************************)
EXTENDS Naturals

CONSTANTS
  Setters,    \* the calls of set
  Watchers,   \* the calls of wait_change and wait_for
  CellValues, \* what set stores
  Good        \* the values a wait_for waits for

GoodAssumption == Good \subseteq CellValues

VARIABLES
  cell,     \* the stored value
  version,  \* how often it was set
  setters,  \* the calls of set that have been made
  seen,     \* watcher -> the version its receiver has seen
  taken,    \* watcher -> the value it has read last
  watchPc   \* watcher -> where it is

vars == <<cell, version, setters, seen, taken, watchPc>>

Init ==
  /\ cell \in CellValues /\ version = 0 /\ setters = {}
  /\ seen = [w \in Watchers |-> 0]
  /\ taken = [w \in Watchers |-> cell]
  /\ watchPc = [w \in Watchers |-> "idle"]

(* set: send_replace, whoever listens and whatever was there. *)
Set(s) ==
  /\ s \notin setters
  /\ setters' = setters \cup {s}
  /\ cell' \in CellValues
  /\ version' = version + 1
  /\ UNCHANGED <<seen, taken, watchPc>>

(* wait_change waits at once; wait_for reads the value first. *)
Subscribe(w) ==
  /\ watchPc[w] = "idle"
  /\ seen' = [seen EXCEPT ![w] = version]
  /\ \E p \in {"changing", "reading"} : watchPc' = [watchPc EXCEPT ![w] = p]
  /\ UNCHANGED <<cell, version, setters, taken>>

(* borrow_and_update. *)
Read(w) ==
  /\ watchPc[w] = "reading"
  /\ taken' = [taken EXCEPT ![w] = cell]
  /\ seen' = [seen EXCEPT ![w] = version]
  /\ watchPc' = [watchPc EXCEPT ![w] = "checking"]
  /\ UNCHANGED <<cell, version, setters>>

(* Fault variant of Check: what came during the predicate counts as seen. *)
CheckThenUpdate(w) ==
  /\ watchPc[w] = "checking"
  /\ watchPc' = [watchPc EXCEPT ![w] = IF taken[w] \in Good THEN "returned" ELSE "waiting"]
  /\ seen' = [seen EXCEPT ![w] = version]
  /\ UNCHANGED <<cell, version, setters, taken>>

(* The predicate says yes or no, or raises, as rebuilding the value may. *)
Check(w) ==
  /\ watchPc[w] = "checking"
  /\ \/ watchPc' = [watchPc EXCEPT
                      ![w] = IF taken[w] \in Good THEN "returned" ELSE "waiting"]
     \/ watchPc' = [watchPc EXCEPT ![w] = "raised"]
  /\ UNCHANGED <<cell, version, setters, seen, taken>>

(* changed() returns: there is a version the receiver has not seen. *)
Changed(w) ==
  /\ seen[w] # version
  /\ seen' = [seen EXCEPT ![w] = version]
  /\ \/ /\ watchPc[w] = "changing"
        /\ watchPc' = [watchPc EXCEPT ![w] = "borrowing"]
     \/ /\ watchPc[w] = "waiting"
        /\ watchPc' = [watchPc EXCEPT ![w] = "reading"]
  /\ UNCHANGED <<cell, version, setters, taken>>

(* wait_change returns the value there is by then. *)
Borrow(w) ==
  /\ watchPc[w] = "borrowing"
  /\ taken' = [taken EXCEPT ![w] = cell]
  /\ \E p \in {"returned", "raised"} : watchPc' = [watchPc EXCEPT ![w] = p]
  /\ UNCHANGED <<cell, version, setters, seen>>

(* The caller is cancelled or aborted, at an await or in the predicate. *)
DropWatcher(w) ==
  /\ watchPc[w] \in {"changing", "checking", "waiting"}
  /\ watchPc' = [watchPc EXCEPT ![w] = "dropped"]
  /\ UNCHANGED <<cell, version, setters, seen, taken>>

Next ==
  \/ \E s \in Setters : Set(s)
  \/ \E w \in Watchers : \/ Subscribe(w) \/ Read(w) \/ Check(w) \/ Changed(w)
                         \/ Borrow(w) \/ DropWatcher(w)

Fairness ==
  \A w \in Watchers : WF_vars(Read(w) \/ Check(w) \/ Changed(w) \/ Borrow(w))

-----------------------------------------------------------------------------
Awake == {"returned", "raised", "dropped"}

(* No change is missed: a wait_for returns when the value has become, and  *)
(* stays, one its predicate accepts, even if it was set while the          *)
(* predicate of an earlier value ran; a wait_change returns after a set.   *)
ChangeWakes ==
  \A w \in Watchers :
    /\ (setters = Setters /\ cell \in Good /\ watchPc[w] = "waiting")
         ~> watchPc[w] \in Awake
    /\ (watchPc[w] = "changing" /\ seen[w] # version) ~> watchPc[w] \in Awake
=============================================================================
