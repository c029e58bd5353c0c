----------------------------- MODULE MCVmState -----------------------------
(* The symmetries under which the state of the virtual machine is model-   *)
(* checked.                                                                *)
EXTENDS VmState, TLC

(* Cells and tasks are chosen freely, values only compared, and modules    *)
(* require each other in any way.                                          *)
Symmetry ==
  Permutations(Cells) \cup Permutations(Values)
    \cup Permutations(Tasks) \cup Permutations(Names)
=============================================================================
