------------------------------- MODULE Upvalues -------------------------------
(***************************************************************************)
(* Captured variables: the register arrays of the Lua frames of a task,    *)
(* their pool, and the upvalue cells that point into them (UpvalueInner in *)
(* crates/shingetsu-vm/src/upvalue.rs, LuaFrame, exec_new_closure and      *)
(* recycle_registers in task.rs).                                          *)
(*                                                                         *)
(* A cell is open, a raw pointer to a register, or closed, and has its own *)
(* value.  A closure may outlive the frame, and other tasks of the thread  *)
(* may call it; so cells are written at any time.  An instruction is one   *)
(* step, and so is the end of a block, whose instructions await nothing.   *)
(***************************************************************************)
EXTENDS Naturals, Sequences, FiniteSetsExt, SequencesExt

CONSTANTS
  Cells,      \* the cells that can be made
  Values,     \* the values of variables
  Nil,
  Sizes,      \* the max_stack_size of functions
  MaxResults, \* bound: results of a call
  MaxDepth,   \* bound: frames
  MaxVars,    \* bound: variables that are declared
  Arrays,     \* the addresses of register arrays, numbers
  PoolCap     \* REGISTER_POOL_CAP

SizesAssumption == Sizes \subseteq Nat \ {0} /\ Arrays \subseteq Nat

VARIABLES
  heap,      \* address -> the registers there, <<>> when it is not allocated
  pool,      \* register_pool
  stack,     \* the frames of the task, the running one last
  cell,      \* cell -> [arr, slot] when open, [value] when closed, NoValue before
  captured,  \* the variables and cells that closures were made with
  value      \* the value last given to each variable, in order of declaration

vars == <<heap, pool, stack, cell, captured, value>>

NoValue == [none |-> TRUE]
Dangling == "dangling"

Top == stack[Len(stack)]
Pop == SubSeq(stack, 1, Len(stack) - 1)
WithTop(f) == Append(Pop, f)

Least(addresses) == {a \in addresses : \A b \in addresses : a <= b}

(* Where a new box is allocated. *)
Fresh == Least({a \in Arrays : heap[a] = <<>>})

(* What a cell's read returns. *)
Deref(u) ==
  IF "value" \in DOMAIN u THEN u.value
  ELSE IF u.slot \in DOMAIN heap[u.arr] THEN heap[u.arr][u.slot] ELSE Dangling

Nils(n) == [s \in 1..n |-> Nil]

(* The boxes the pool has room for. *)
Pooled(boxes) ==
  {boxes[i] : i \in {j \in DOMAIN boxes : Cardinality(pool) + j <= PoolCap}}

(* acquire_registers: the shortest box of the pool that is long enough, as *)
(* it is, or a new one.                                                    *)
Acquirable(size) ==
  LET fits == {a \in pool : Len(heap[a]) >= size}
  IN  IF fits = {} THEN Fresh
      ELSE {a \in fits : \A b \in fits : Len(heap[a]) <= Len(heap[b])}

(* The cells of the given slots and up are closed: they copy the register. *)
CloseCells(open, from) ==
  [c \in Cells |-> IF \E e \in open : e.cell = c /\ e.slot >= from
                   THEN [value |-> Deref(cell[c])] ELSE cell[c]]

(* Fault variant of Recycled: the registers are not cleared. *)
RecycledAsIs(h, boxes) ==
  [a \in Arrays |-> IF a \in Range(boxes) \ Pooled(boxes) THEN <<>> ELSE h[a]]

(* recycle_registers: boxes are cleared and kept, or dropped when the pool *)
(* is full.                                                                *)
Recycled(h, boxes) ==
  [a \in Arrays |-> IF a \in Pooled(boxes) THEN Nils(Len(h[a]))
                    ELSE IF a \in Range(boxes) THEN <<>> ELSE h[a]]

(* Fault variant of Reopened: the cells stay closed. *)
NotReopened(cells, open, a) == cells

(* The cells of a frame whose registers have been moved to a. *)
Reopened(cells, open, a) ==
  [c \in Cells |-> IF \E e \in open : e.cell = c
                   THEN [arr |-> a, slot |-> (CHOOSE e \in open : e.cell = c).slot]
                   ELSE cells[c]]

Frame(a, size, locals) ==
  [arr |-> a, size |-> size, locals |-> locals, blocks |-> <<>>, open |-> {}]

Init ==
  \E size \in Sizes, first \in Least(Arrays) :
    /\ heap = [a \in Arrays |-> IF a = first THEN Nils(size) ELSE <<>>]
    /\ pool = {}
    /\ stack = <<Frame(first, size, <<>>)>>
    /\ cell = [c \in Cells |-> NoValue]
    /\ captured = {}
    /\ value = <<>>

-----------------------------------------------------------------------------
Running == stack # <<>>

(* A local is declared in the next slot. *)
Declare(x) ==
  LET slot == Len(Top.locals) + 1 IN
  /\ Running /\ slot <= Top.size /\ Len(value) < MaxVars
  /\ value' = Append(value, x)
  /\ heap' = [heap EXCEPT ![Top.arr][slot] = x]
  /\ stack' = WithTop([Top EXCEPT !.locals = Append(@, Len(value'))])
  /\ UNCHANGED <<pool, cell, captured>>

(* The function assigns to a local of its own. *)
SetLocal(x) ==
  /\ Running
  /\ \E slot \in DOMAIN Top.locals :
       /\ heap' = [heap EXCEPT ![Top.arr][slot] = x]
       /\ value' = [value EXCEPT ![Top.locals[slot]] = x]
  /\ UNCHANGED <<pool, stack, cell, captured>>

(* The value of a <close> local is about to be closed: its slot is nil.    *)
CloseVar == SetLocal(Nil)

(* SetUpval, by any function that has the cell. *)
SetUpval(x) ==
  \E cap \in captured :
    LET u == cell[cap.cell] IN
    /\ value' = [value EXCEPT ![cap.var] = x]
    /\ \/ /\ "value" \in DOMAIN u
          /\ cell' = [cell EXCEPT ![cap.cell] = [value |-> x]]
          /\ UNCHANGED heap
       \/ /\ "slot" \in DOMAIN u /\ Deref(u) # Dangling
          /\ heap' = [heap EXCEPT ![u.arr][u.slot] = x]
          /\ UNCHANGED cell
    /\ UNCHANGED <<pool, stack, captured>>

(* exec_new_closure captures a local: the slot's cell, or a new one. *)
NewClosure ==
  /\ Running
  /\ \E slot \in DOMAIN Top.locals :
       LET var == Top.locals[slot]
           there == {e \in Top.open : e.slot = slot}
       IN  \/ /\ there # {}
              /\ captured' = captured \cup {[var |-> var, cell |-> e.cell] : e \in there}
              /\ UNCHANGED <<stack, cell>>
           \/ /\ there = {}
              /\ \E c \in Cells :
                   /\ cell[c] = NoValue
                   /\ cell' = [cell EXCEPT ![c] = [arr |-> Top.arr, slot |-> slot]]
                   /\ captured' = captured \cup {[var |-> var, cell |-> c]}
                   /\ stack' = WithTop([Top EXCEPT !.open = @ \cup {[slot |-> slot, cell |-> c]}])
  /\ UNCHANGED <<heap, pool, value>>

(* A block begins; one that would begin where another did is left out. *)
EnterBlock ==
  /\ Running
  /\ Len(Top.locals) > 0
  /\ Top.blocks # <<>> => Last(Top.blocks) < Len(Top.locals)
  /\ stack' = WithTop([Top EXCEPT !.blocks = Append(@, Len(Top.locals))])
  /\ UNCHANGED <<heap, pool, cell, captured, value>>

(* The end of a block or of an iteration: CloseUpvalues for its slots, and *)
(* LoadNil for them unless the block is the body of a while.               *)
LeaveBlock ==
  /\ Running /\ Top.blocks # <<>>
  /\ LET level == Last(Top.blocks)
         mine == level + 1..Len(Top.locals)
     IN  /\ cell' = CloseCells(Top.open, level + 1)
         /\ \E clears \in BOOLEAN :
              heap' = [heap EXCEPT ![Top.arr] =
                         [s \in DOMAIN @ |-> IF clears /\ s \in mine THEN Nil ELSE @[s]]]
         /\ stack' = WithTop([Top EXCEPT !.blocks = Front(@),
                                         !.locals = SubSeq(@, 1, level),
                                         !.open = {e \in @ : e.slot <= level}])
  /\ UNCHANGED <<pool, captured, value>>

(* A Lua function is called, with an argument or without one. *)
Call ==
  /\ Running /\ Len(stack) < MaxDepth
  /\ \E size \in Sizes : \E a \in Acquirable(size) :
       LET regs == IF a \in pool THEN heap[a] ELSE Nils(size) IN
       /\ pool' = pool \ {a}
       /\ \/ /\ heap' = [heap EXCEPT ![a] = regs]
             /\ stack' = Append(stack, Frame(a, size, <<>>))
             /\ UNCHANGED value
          \/ \E x \in Values :
               /\ Len(value) < MaxVars
               /\ value' = Append(value, x)
               /\ heap' = [heap EXCEPT ![a] = [regs EXCEPT ![1] = x]]
               /\ stack' = Append(stack, Frame(a, size, <<Len(value')>>))
  /\ UNCHANGED <<cell, captured>>

(* exec_return: the results go behind the caller's locals, for which       *)
(* ensure_registers moves its registers when there are too few.            *)
Return ==
  /\ Running
  /\ pool' = pool \cup Pooled(<<Top.arr>>)
  /\ LET closed == CloseCells(Top.open, 1) IN
     \/ /\ Len(stack) = 1
        /\ cell' = closed
        /\ heap' = Recycled(heap, <<Top.arr>>)
        /\ stack' = <<>>
     \/ /\ Len(stack) > 1
        /\ \E n \in 0..MaxResults, x \in Values :
             LET caller == Last(Pop)
                 first == Len(caller.locals)
                 old == heap[caller.arr]
                 moves == first + n > Len(old)
                 regs == [s \in 1..Max({first + n, Len(old)}) |->
                            IF s > first + n \/ s <= first
                            THEN IF s <= Len(old) THEN old[s] ELSE Nil
                            ELSE x]
                 freed == IF moves THEN [heap EXCEPT ![caller.arr] = <<>>] ELSE heap
             IN  \E at \in IF moves THEN Fresh ELSE {caller.arr} :
                 /\ heap' = Recycled([freed EXCEPT ![at] = regs], <<Top.arr>>)
                 /\ cell' = IF moves THEN Reopened(closed, caller.open, at) ELSE closed
                 /\ stack' = Append(Front(Pop), [caller EXCEPT !.arr = at])
  /\ UNCHANGED <<captured, value>>

OpenCells == UNION {stack[i].open : i \in DOMAIN stack}

(* begin_unwind: collect_close_vals sets the <close> locals to nil, which  *)
(* any locals may be; then all frames close their cells, give back their   *)
(* registers and are dropped.                                              *)
Unwind ==
  LET boxes == [i \in DOMAIN stack |-> stack[i].arr]
      closed == CloseCells(OpenCells, 1)
      inScope == UNION {{<<i, slot>> : slot \in DOMAIN stack[i].locals} : i \in DOMAIN stack}
  IN
  /\ Running
  /\ \E toClose \in SUBSET inScope :
       /\ value' = [v \in DOMAIN value |->
                      IF \E l \in toClose : stack[l[1]].locals[l[2]] = v
                      THEN Nil ELSE value[v]]
       /\ cell' = [c \in Cells |->
                     IF \E l \in toClose : [slot |-> l[2], cell |-> c] \in stack[l[1]].open
                     THEN [value |-> Nil] ELSE closed[c]]
  /\ heap' = Recycled(heap, boxes)
  /\ pool' = pool \cup Pooled(boxes)
  /\ stack' = <<>>
  /\ UNCHANGED captured

(* The task's future is dropped, with its frames and its pool. *)
DropTask ==
  /\ Running
  /\ cell' = CloseCells(OpenCells, 1)
  /\ heap' = [a \in Arrays |-> <<>>]
  /\ pool' = {} /\ stack' = <<>>
  /\ UNCHANGED <<captured, value>>

Next ==
  \/ \E x \in Values : Declare(x) \/ SetLocal(x) \/ SetUpval(x)
  \/ CloseVar \/ NewClosure \/ EnterBlock \/ LeaveBlock \/ Call \/ Return
  \/ Unwind \/ DropTask

Spec == Init /\ [][Next]_vars

-----------------------------------------------------------------------------
(* However blocks and frames end, registers move and boxes are reused, a   *)
(* captured variable is one variable: its frame, while that is in its      *)
(* scope, and every closure that captured it find the value last given to  *)
(* it.                                                                     *)
OneVariable ==
  /\ \A i \in DOMAIN stack : \A s \in DOMAIN stack[i].locals :
       heap[stack[i].arr][s] = value[stack[i].locals[s]]
  /\ \A cap \in captured : Deref(cell[cap.cell]) = value[cap.var]

(* "pooled register box must be all-Nil"; and nobody uses one: no frame    *)
(* has it, and no cell points into it.                                     *)
PoolIsClean ==
  /\ \A a \in pool : heap[a] = Nils(Len(heap[a]))
  /\ \A i \in DOMAIN stack : stack[i].arr \notin pool
  /\ \A c \in Cells : "arr" \in DOMAIN cell[c] => cell[c].arr \notin pool
=============================================================================
