------------------------------- MODULE VmState -------------------------------
(***************************************************************************)
(* What a virtual machine keeps for its programs: the variables closures   *)
(* share (Upvalues), the modules that were loaded (ModuleLoading), tables  *)
(* (LuaTable) and the registers of a numeric for (NumericFor).  None is a  *)
(* part of another's state, so a behaviour uses one of them, and part says *)
(* which.                                                                  *)
(***************************************************************************)
EXTENDS Naturals

CONSTANTS
  Parts,                                    \* those a behaviour may use
  Cells, Values, Nil, Sizes, MaxResults, MaxDepth, MaxVars, Arrays, PoolCap,
  Tasks, Names, Candidates, MaxMade, MaxRuns, None,
  MaxPosition, Fields,                      \* Fields: Names of LuaTable
  MaxInt

VARIABLES
  part,
  heap, pool, stack, cell, captured, value,
  preload, loaded, calls, made, ran, given, shared,
  array, hash, frozen, taken, trav,
  counter, limit, step, phase, start, seen

Captures == INSTANCE Upvalues
Modules == INSTANCE ModuleLoading
Table == INSTANCE LuaTable WITH Names <- Fields, ClearsCurrent <- FALSE
Loop == INSTANCE NumericFor WITH Overflows <- FALSE

ASSUME VmAssumption ==
  /\ Captures!SizesAssumption /\ Modules!BoundsAssumption
  /\ Table!TableAssumption /\ Loop!ForAssumption

captureVars == <<heap, pool, stack, cell, captured, value>>
moduleVars == <<preload, loaded, calls, made, ran, given, shared>>
tableVars == <<array, hash, frozen, taken, trav>>
loopVars == <<counter, limit, step, phase, start, seen>>
vars == <<part, captureVars, moduleVars, tableVars, loopVars>>

NoCaptures ==
  /\ heap = Nil /\ pool = Nil /\ stack = Nil
  /\ cell = Nil /\ captured = Nil /\ value = Nil

NoModules ==
  /\ preload = Nil /\ loaded = Nil /\ calls = Nil /\ made = Nil
  /\ ran = Nil /\ given = Nil /\ shared = Nil

NoLoop ==
  /\ counter = Nil /\ limit = Nil /\ step = Nil
  /\ phase = Nil /\ start = Nil /\ seen = Nil

(* A table that is not used is empty. *)
Init ==
  /\ part \in Parts
  /\ Table!Init
  /\ \/ part = "captures" /\ Captures!Init /\ NoModules /\ NoLoop
     \/ part = "modules" /\ Modules!Init /\ NoCaptures /\ NoLoop
     \/ part = "table" /\ NoCaptures /\ NoModules /\ NoLoop
     \/ part = "for" /\ Loop!Init /\ NoCaptures /\ NoModules

Next ==
  \/ part = "captures" /\ Captures!Next /\ UNCHANGED <<part, moduleVars, tableVars, loopVars>>
  \/ part = "modules" /\ Modules!Next /\ UNCHANGED <<part, captureVars, tableVars, loopVars>>
  \/ part = "table" /\ Table!Next /\ UNCHANGED <<part, captureVars, moduleVars, loopVars>>
  \/ part = "for" /\ Loop!Next /\ UNCHANGED <<part, captureVars, moduleVars, tableVars>>

Spec == Init /\ [][Next]_vars
-----------------------------------------------------------------------------
(* A captured variable is one variable for all who can reach it, whatever  *)
(* happens to the frame and the registers it lives in.                     *)
OneVariable == part = "captures" => Captures!OneVariable

(* A register box in the pool is empty and out of everybody's reach.       *)
PoolIsClean == part = "captures" => Captures!PoolIsClean

(* A module is loaded once, and never from within itself.                  *)
OneModule == part = "modules" => Modules!NoReentry /\ Modules!OneModule

(* A table is a map whose length is a border, through raw_set, insert,     *)
(* remove, clear and sort.                                                 *)
IsMap == Table!IsMap

(* next gives every entry that stays, once, while others are cleared.      *)
TraversalIsComplete == Table!TraversalIsComplete

(* A numeric for steps its variable through the range, and ends.           *)
CountsTheRange == part = "for" => Loop!CountsTheRange
=============================================================================
