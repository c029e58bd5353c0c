---------------------------- MODULE ModuleLoading ----------------------------
(***************************************************************************)
(* require: GlobalEnv::require, and set_loaded, in crates/shingetsu-vm/    *)
(* src/global_env.rs.                                                      *)
(*                                                                         *)
(* A module is looked for among the loaded ones, among the preloaded ones  *)
(* and in files, which a loader loads asynchronously.  Its chunk runs in a *)
(* task of its own, which the requiring one awaits, and may require other  *)
(* modules, or the same.  Several tasks require at once, on any threads.   *)
(***************************************************************************)
EXTENDS Naturals, Sequences, FiniteSets, SequencesExt

CONSTANTS
  Tasks,       \* those that require
  Names,       \* the names of modules
  Candidates,  \* how many files a name may stand for
  MaxMade,     \* bound: module values that are made
  MaxRuns,     \* bound: runs of one module's chunk or opener
  None         \* not loaded

BoundsAssumption == {Candidates, MaxMade, MaxRuns} \subseteq Nat /\ None \notin Nat

Sentinel == 0    \* the value true

VARIABLES
  preload,   \* the names with an opener
  loaded,    \* name -> None, the sentinel or the module's value
  calls,     \* task -> the requires that are under way, each from the chunk before it
  made,      \* the modules' values so far: the name each was made for
  ran,       \* name -> how often its chunk or its opener has been run
  given,     \* name -> the values require has returned for it
  shared     \* names for which two requires, or one and set_loaded, overlapped

vars == <<preload, loaded, calls, made, ran, given, shared>>

Asking(name) == [name |-> name, at |-> "start", file |-> 0]

Init ==
  /\ preload \in SUBSET Names
  /\ loaded = [n \in Names |-> None]
  /\ calls = [t \in Tasks |-> <<>>]
  /\ made = <<>>
  /\ ran = [n \in Names |-> 0]
  /\ given = [n \in Names |-> {}]
  /\ shared = {}

At(t, at) == calls[t] # <<>> /\ Last(calls[t]).at = at
Name(t) == Last(calls[t]).name

(* The task's innermost require is over, and its chunk goes on. *)
Pop(t) == calls' = [calls EXCEPT ![t] = Front(@)]
Become(t, at, file) ==
  calls' = [calls EXCEPT ![t] = Append(Front(@), [Last(@) EXCEPT !.at = at, !.file = file])]

Give(n, v) == given' = [given EXCEPT ![n] = @ \cup {v}]

(* Requires of n that are past the lookup and have put nothing in loaded. *)
Pending(n) ==
  {t \in Tasks : \E i \in DOMAIN calls[t] : /\ calls[t][i].name = n
                                           /\ calls[t][i].at \in {"opening", "loading"}}

(* A program, or a chunk that is being run, calls require. *)
Require(t, n) ==
  /\ calls[t] = <<>> \/ At(t, "running")
  /\ calls' = [calls EXCEPT ![t] = Append(@, Asking(n))]
  /\ UNCHANGED <<preload, loaded, made, ran, given, shared>>

(* The loaded modules, then the openers, then the files. *)
Lookup(t) ==
  LET n == Name(t) IN
  /\ At(t, "start")
  /\ \/ /\ loaded[n] # None
        /\ Give(n, loaded[n])
        /\ Pop(t)
        /\ UNCHANGED shared
     \/ /\ loaded[n] = None
        /\ IF n \in preload THEN Become(t, "opening", 0) ELSE Become(t, "loading", 1)
        /\ shared' = IF Pending(n) = {} THEN shared ELSE shared \cup {n}
        /\ UNCHANGED given
  /\ UNCHANGED <<preload, loaded, made, ran>>

(* The value v is cached for the name and returned. *)
Answer(t, n, v) ==
  /\ loaded' = [loaded EXCEPT ![n] = v]
  /\ Give(n, v)
  /\ Pop(t)

(* The opener makes the module's table, or fails. *)
Open(t) ==
  LET n == Name(t) IN
  /\ At(t, "opening") /\ Len(made) < MaxMade /\ ran[n] < MaxRuns
  /\ ran' = [ran EXCEPT ![n] = @ + 1]
  /\ \/ /\ made' = Append(made, n)
        /\ Answer(t, n, Len(made'))
     \/ /\ Pop(t)
        /\ UNCHANGED <<loaded, made, given>>
  /\ UNCHANGED <<preload, shared>>

(* Fault variant of Load: the sentinel is left out. *)
LoadUnmarked(t) ==
  /\ At(t, "loading")
  /\ Last(calls[t]).file <= Candidates /\ ran[Name(t)] < MaxRuns
  /\ ran' = [ran EXCEPT ![Name(t)] = @ + 1]
  /\ Become(t, "running", 0)
  /\ UNCHANGED <<preload, loaded, made, given, shared>>

(* The loader has loaded a file, and the chunk begins, or has failed, and  *)
(* the next file is tried; behind the last one require fails.              *)
Load(t) ==
  LET n == Name(t)
      file == Last(calls[t]).file
  IN
  /\ At(t, "loading")
  /\ \/ /\ file <= Candidates
        /\ loaded' = [loaded EXCEPT ![n] = Sentinel]
        /\ ran' = [ran EXCEPT ![n] = @ + 1]
        /\ Become(t, "running", 0)
     \/ /\ file < Candidates
        /\ Become(t, "loading", file + 1)
        /\ UNCHANGED <<loaded, ran>>
     \/ /\ file >= Candidates
        /\ Pop(t)
        /\ UNCHANGED <<loaded, ran>>
  /\ UNCHANGED <<preload, made, given, shared>>

(* The chunk returns the module's value ... *)
Finish(t) ==
  LET n == Name(t) IN
  /\ At(t, "running") /\ Len(made) < MaxMade
  /\ made' = Append(made, n)
  /\ Answer(t, n, Len(made'))
  /\ UNCHANGED <<preload, ran, shared>>

(* ... or fails, and what it has left in loaded stays there. *)
Fail(t) ==
  /\ At(t, "running")
  /\ Pop(t)
  /\ UNCHANGED <<preload, loaded, made, ran, given, shared>>

(* The task is cancelled or aborted where it awaits. *)
Cancel(t) ==
  /\ At(t, "loading") \/ At(t, "running")
  /\ calls' = [calls EXCEPT ![t] = <<>>]
  /\ UNCHANGED <<preload, loaded, made, ran, given, shared>>

(* set_loaded: the host puts a value there. *)
SetLoaded(n) ==
  /\ Len(made) < MaxMade
  /\ made' = Append(made, n)
  /\ loaded' = [loaded EXCEPT ![n] = Len(made')]
  /\ shared' = IF given[n] = {} /\ ran[n] = 0 /\ Pending(n) = {} THEN shared
               ELSE shared \cup {n}
  /\ UNCHANGED <<preload, calls, ran, given>>

Next ==
  \/ \E t \in Tasks, n \in Names : Require(t, n)
  \/ \E t \in Tasks : Lookup(t) \/ Open(t) \/ Load(t) \/ Finish(t) \/ Fail(t) \/ Cancel(t)
  \/ \E n \in Names : SetLoaded(n)

Spec == Init /\ [][Next]_vars

-----------------------------------------------------------------------------
(* Circular requires end: a chunk that is being run is not run again by    *)
(* what it requires, directly or through others.                           *)
NoReentry ==
  \A t \in Tasks : \A i, j \in DOMAIN calls[t] :
    calls[t][i].name = calls[t][j].name /\ i < j => calls[t][j].at = "start"

(* The chunk of a module runs once, and all who require the module get the *)
(* one value it returned (or the sentinel, while it runs or after it has   *)
(* failed); so do they when it has an opener, until that has not failed.   *)
(* Names that two tasks began to load at the same time, which the code     *)
(* does not prevent, are left out.                                         *)
OneModule ==
  \A n \in Names \ shared :
    /\ n \notin preload => ran[n] <= 1
    /\ Cardinality(given[n] \ {Sentinel}) <= 1
    /\ \A v \in given[n] \ {Sentinel} : made[v] = n /\ loaded[n] = v
=============================================================================
