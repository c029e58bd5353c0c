------------------------------ MODULE CloseVars ------------------------------
(***************************************************************************)
(* How a VM task runs the __close handlers of its <close> locals: at the   *)
(* exits of their scopes, when an error unwinds the task, and when a host  *)
(* disposes it (Task, step, begin_unwind, begin_dispose and                *)
(* collect_close_vals in crates/shingetsu-vm/src/task.rs).                 *)
(*                                                                         *)
(* A value is the number of the Make or Open that produced it, and all of  *)
(* them have a __close handler, which counts as called once the future of  *)
(* close_future exists.  Executing one instruction is one step; awaiting,  *)
(* and what the awaited future comes to, are steps of their own.           *)
(***************************************************************************)
EXTENDS Naturals, Sequences, FiniteSets, SequencesExt

CONSTANTS
  Programs,   \* compiled ones: [function name -> [code, descs]], see Lowering
  Slots,      \* registers per frame
  MaxValues,  \* bound: values a run makes
  MaxDepth    \* MAX_STACK_DEPTH

ASSUME BoundsAssumption ==
  Slots \in Nat /\ MaxValues \in Nat /\ MaxDepth \in Nat \ {0}

VARIABLES
  prog,     \* the program the task runs
  frames,   \* the frames, outermost first: [fn, pc, regs]
  pending,  \* the awaited future: [kind, slot, desc]
  queue,    \* unwind_close_vals: each value with its frame and <close> local
  error,    \* unwind_error
  status,   \* what the task's future has come to
  owner,    \* value -> the frame and the <close> local it was put in
  log       \* the values whose handler has been called, in that order

vars == <<prog, frames, pending, queue, error, status, owner, log>>

Nil == 0
Native == "native"
NotPending == [kind |-> "none", slot |-> 0, desc |-> 0]

Values == 1..Len(owner)

Enter(fn) == [fn |-> fn, pc |-> 1, regs |-> [s \in 1..Slots |-> Nil]]
NativeFrame == [fn |-> Native, pc |-> 0, regs |-> <<>>]

Init ==
  /\ prog \in Programs
  /\ frames = <<Enter("main")>>
  /\ pending = NotPending
  /\ queue = {}
  /\ error = "none"
  /\ status = "running"
  /\ owner = <<>>
  /\ log = <<>>

-----------------------------------------------------------------------------
Top == frames[Len(frames)]
Code(f) == prog[f.fn].code
Descs(f) == prog[f.fn].descs

(* The next instruction, fetched without a bounds check. *)
Instr == Code(Top)[Top.pc]

(* The task's future steps the VM: nothing is awaited, nothing unwinds.    *)
Steps(op) ==
  /\ status = "running" /\ pending = NotPending /\ error = "none"
  /\ Top.pc \in DOMAIN Code(Top) /\ Instr.op = op

Advance(pc, regs) ==
  [frames EXCEPT ![Len(frames)] = [@ EXCEPT !.pc = pc, !.regs = regs]]

Goto(pc) == frames' = Advance(pc, Top.regs)

(* The live <close> locals of a frame, by its table of them: those declared *)
(* before pc whose slots are not nil.                                      *)
LiveIn(f) ==
  IF f.fn = Native THEN {}
  ELSE {d \in DOMAIN Descs(f) :
          f.pc >= Descs(f)[d].start /\ f.regs[Descs(f)[d].slot] # Nil}

(* Their values.  The code collects the frames outermost first, and those  *)
(* of a frame in the order of the table.                                   *)
Collect(fs) ==
  UNION {{[depth |-> i, desc |-> d, value |-> fs[i].regs[Descs(fs[i])[d].slot]] :
             d \in LiveIn(fs[i])} : i \in DOMAIN fs}

Before(a, b) == a.depth < b.depth \/ (a.depth = b.depth /\ a.desc < b.desc)

(* Fault variant of Unwind: the innermost frame is forgotten. *)
UnwindCallers(fs, e) ==
  /\ queue' = Collect(Front(fs))
  /\ frames' = <<>>
  /\ pending' = NotPending
  /\ error' = e

(* begin_unwind: all live values are queued, all frames are dropped. *)
Unwind(fs, e) ==
  /\ queue' = Collect(fs)
  /\ frames' = <<>>
  /\ pending' = NotPending
  /\ error' = e

(* close_future, then the poll loop awaits it. *)
CallHandler(v, kind) ==
  /\ log' = Append(log, v)
  /\ pending' = [kind |-> kind, slot |-> 0, desc |-> 0]

-----------------------------------------------------------------------------
(* Instructions.                                                           *)

Own(desc, depth) == owner' = Append(owner, [depth |-> depth, desc |-> desc])

(* A local is initialised with a value at hand. *)
Make ==
  /\ Steps("Make") /\ Len(owner) < MaxValues
  /\ frames' = Advance(Top.pc + 1, [Top.regs EXCEPT ![Instr.slot] = Len(owner) + 1])
  /\ Own(Instr.desc, Len(frames))
  /\ UNCHANGED <<prog, pending, queue, error, status, log>>

(* A native function is called and awaited. *)
Await ==
  /\ Steps("Await")
  /\ frames' = Append(Advance(Top.pc + 1, Top.regs), NativeFrame)
  /\ pending' = [kind |-> "NativeCall", slot |-> 0, desc |-> 0]
  /\ UNCHANGED <<prog, queue, error, status, owner, log>>

(* The receiver of a method call that initialises a local, or the function *)
(* that is called, waits in the slot that the result is to go to.          *)
Callee ==
  [Top.regs EXCEPT
     ![Instr.slot] = IF Instr.from = 0 THEN Nil ELSE Top.regs[Instr.from]]

(* Such a call is made and awaited. *)
Open ==
  /\ Steps("Open") /\ Len(owner) < MaxValues
  /\ frames' = Append(Advance(Top.pc + 1, Callee), NativeFrame)
  /\ pending' = [kind |-> "NativeCall", slot |-> Instr.slot, desc |-> Instr.desc]
  /\ UNCHANGED <<prog, queue, error, status, owner, log>>

(* A Lua function is called, if the stack allows. *)
Call ==
  /\ Steps("Call")
  /\ \/ /\ Len(frames) < MaxDepth
        /\ frames' = Append(Advance(Top.pc + 1, Top.regs), Enter(Instr.fn))
        /\ UNCHANGED <<pending, queue, error>>
     \/ /\ Len(frames) >= MaxDepth
        /\ Unwind(Advance(Top.pc + 1, Top.regs), "overflow")
  /\ UNCHANGED <<prog, status, owner, log>>

(* A call fails without having awaited anything. *)
Raise ==
  /\ \/ Steps("Await") /\ Unwind(Advance(Top.pc + 1, Top.regs), "raised")
     \/ Steps("Open") /\ Unwind(Advance(Top.pc + 1, Callee), "raised")
  /\ UNCHANGED <<prog, status, owner, log>>

Jump ==
  /\ Steps("Jump")
  /\ Goto(Instr.to)
  /\ UNCHANGED <<prog, pending, queue, error, status, owner, log>>

Branch ==
  /\ Steps("Branch")
  /\ Goto(Top.pc + 1) \/ Goto(Instr.to)
  /\ UNCHANGED <<prog, pending, queue, error, status, owner, log>>

(* The instructions that write a number, or nil, to a slot. *)
Clear ==
  /\ Steps("LoadNil") \/ Steps("Count")
  /\ frames' = Advance(Top.pc + 1, [Top.regs EXCEPT ![Instr.slot] = Nil])
  /\ UNCHANGED <<prog, pending, queue, error, status, owner, log>>

(* Fault variant of CloseVar: the slot keeps its value. *)
CloseVarKept ==
  LET v == Top.regs[Instr.slot] IN
  /\ Steps("CloseVar")
  /\ Goto(Top.pc + 1)
  /\ IF v = Nil THEN UNCHANGED <<pending, log>> ELSE CallHandler(v, "CloseVar")
  /\ UNCHANGED <<prog, queue, error, status, owner>>

(* CloseVar clears the slot before it calls the handler. *)
CloseVar ==
  LET v == Top.regs[Instr.slot] IN
  /\ Steps("CloseVar")
  /\ frames' = Advance(Top.pc + 1, [Top.regs EXCEPT ![Instr.slot] = Nil])
  /\ IF v = Nil THEN UNCHANGED <<pending, log>> ELSE CallHandler(v, "CloseVar")
  /\ UNCHANGED <<prog, queue, error, status, owner>>

(* exec_return: the last frame's return ends the task. *)
Return ==
  /\ Steps("Return")
  /\ frames' = Front(frames)
  /\ status' = IF Len(frames) = 1 THEN "returned" ELSE status
  /\ UNCHANGED <<prog, pending, queue, error, owner, log>>

-----------------------------------------------------------------------------
(* The awaited future is ready.                                            *)

(* A native call returns; the result goes to the caller's slot, if any.    *)
NativeOk ==
  LET caller == frames[Len(frames) - 1]
      regs == IF pending.slot = 0 THEN caller.regs
              ELSE [caller.regs EXCEPT ![pending.slot] = Len(owner) + 1]
  IN
  /\ pending.kind = "NativeCall"
  /\ frames' = Append(SubSeq(frames, 1, Len(frames) - 2), [caller EXCEPT !.regs = regs])
  /\ IF pending.slot = 0 THEN UNCHANGED owner ELSE Own(pending.desc, Len(frames) - 1)
  /\ pending' = NotPending
  /\ UNCHANGED <<prog, queue, error, status, log>>

(* A native call fails. *)
NativeErr ==
  /\ pending.kind = "NativeCall"
  /\ Unwind(Front(frames), "raised")
  /\ UNCHANGED <<prog, status, owner, log>>

(* A handler returns, or fails while the task is unwinding anyway. *)
HandlerDone ==
  /\ pending.kind \in {"CloseVar", "UnwindClose"}
  /\ pending' = NotPending
  /\ UNCHANGED <<prog, frames, queue, error, status, owner, log>>

(* A userdata's handler fails at the end of a scope. *)
HandlerErr ==
  /\ pending.kind = "CloseVar"
  /\ Unwind(frames, "handler")
  /\ UNCHANGED <<prog, status, owner, log>>

(* The poll loop calls the queued handlers from the end of the queue ... *)
UnwindNext ==
  /\ status = "running" /\ error # "none" /\ pending = NotPending
  /\ \E last \in queue :
       /\ \A other \in queue : ~Before(last, other)
       /\ queue' = queue \ {last}
       /\ CallHandler(last.value, "UnwindClose")
  /\ UNCHANGED <<prog, frames, error, status, owner>>

(* ... and then fails with the error. *)
UnwindEnd ==
  /\ status = "running" /\ error # "none" /\ pending = NotPending
  /\ queue = {}
  /\ status' = "failed"
  /\ UNCHANGED <<prog, frames, pending, queue, error, owner, log>>

(* begin_dispose, which the host may call before the first poll or between *)
(* two; what is awaited is dropped, be it a native call or a handler.      *)
Dispose ==
  /\ frames = <<Enter("main")>> \/ pending # NotPending
  /\ error = "none"
  /\ Unwind(frames, "cancelled")
  /\ UNCHANGED <<prog, status, owner, log>>

Next ==
  \/ Make \/ Await \/ Open \/ Call \/ Raise \/ Jump \/ Branch \/ Clear
  \/ CloseVar \/ Return
  \/ NativeOk \/ NativeErr \/ HandlerDone \/ HandlerErr
  \/ UnwindNext \/ UnwindEnd \/ Dispose

Spec == Init /\ [][Next]_vars

-----------------------------------------------------------------------------
(* The value was put in a <close> local, and its handler not called yet. *)
Unclosed(v) == owner[v].desc # 0 /\ v \notin Range(log)

(* The frame of the value's local is in the local's scope. *)
InScope(v) ==
  LET o == owner[v] IN
  /\ o.depth \in DOMAIN frames
  /\ LET d == Descs(frames[o.depth])[o.desc]
     IN d.start <= frames[o.depth].pc /\ frames[o.depth].pc < d.stop

(* "a <close> local has its __close metamethod called when the surrounding *)
(* block ends, including when the block ends because of an error": a value *)
(* whose handler has not been called is in a local whose block is being    *)
(* executed, or in the queue of the unwinding task.                        *)
ClosedInTime ==
  \A v \in Values : Unclosed(v) => InScope(v) \/ \E e \in queue : e.value = v

(* No handler is called twice, and none of a value that was only ever in   *)
(* plain locals.                                                           *)
ClosedOnce ==
  /\ \A i, j \in DOMAIN log : log[i] = log[j] => i = j
  /\ \A i \in DOMAIN log : owner[log[i]].desc # 0

Guards == INSTANCE ScopeGuards
            WITH Resources <- 1..MaxValues, open <- {v \in Values : Unclosed(v)}

(* Handlers are called in the reverse order of the declarations, once for  *)
(* each value.                                                             *)
IsScopeGuards == Guards!Spec

-----------------------------------------------------------------------------
(* What the compiler owes the VM.  An account of a function says which of  *)
(* its <close> locals may hold an unclosed value before each instruction;  *)
(* it is kept if ...                                                       *)

Successors(code, pc) ==
  CASE code[pc].op = "Jump" -> {code[pc].to}
    [] code[pc].op = "Branch" -> {pc + 1, code[pc].to}
    [] code[pc].op = "Return" -> {}
    [] OTHER -> {pc + 1}

Opens(i) == i.op \in {"Make", "Open"} /\ i.desc # 0

(* ... an instruction adds and removes what it opens and closes; ...       *)
Held(f, held, pc) ==
  LET i == f.code[pc] IN
  IF Opens(i) THEN held[pc] \cup {i.desc}
  ELSE IF i.op = "CloseVar" THEN {d \in held[pc] : f.descs[d].slot # i.slot}
  ELSE held[pc]

(* ... a local that may hold a value is in its scope, and none does when   *)
(* the function returns; ...                                               *)
InScopes(f, held, pc) ==
  /\ \A d \in held[pc] : f.descs[d].start <= pc /\ pc < f.descs[d].stop
  /\ f.code[pc].op = "Return" => held[pc] = {}

(* ... the last one that was opened is the first one that is closed; ...   *)
InOrder(f, held, pc) ==
  LET i == f.code[pc] IN
  /\ Opens(i) => \A d \in held[pc] : d < i.desc
  /\ i.op = "CloseVar" =>
       \A d \in DOMAIN f.descs : f.descs[d].slot = i.slot =>
         \A e \in held[pc] : e <= d

(* ... and the slot of a <close> local has nothing else.                   *)
SlotsApart(f, held, pc) ==
  LET i == f.code[pc]
      slots == {f.descs[d].slot : d \in DOMAIN f.descs}
  IN CASE Opens(i) -> /\ i.desc \in DOMAIN f.descs /\ i.slot = f.descs[i.desc].slot
                      /\ i.from = 0
       [] i.op \in {"Make", "Open"} /\ i.desc = 0 -> i.slot \notin slots
       [] i.op \in {"LoadNil", "Count"} -> \A d \in held[pc] : i.slot # f.descs[d].slot
       [] i.op = "CloseVar" -> i.slot \in slots
       [] OTHER -> TRUE

IsAccount(f, held) ==
  /\ 1 \in DOMAIN f.code /\ held[1] = {}
  /\ \A pc \in DOMAIN f.code :
       /\ \A next \in Successors(f.code, pc) :
            next \in DOMAIN f.code /\ Held(f, held, pc) \subseteq held[next]
       /\ InScopes(f, held, pc)
       /\ InOrder(f, held, pc)
       /\ SlotsApart(f, held, pc)

Accounts(f) == {held \in [DOMAIN f.code -> SUBSET (DOMAIN f.descs)] : IsAccount(f, held)}

(* The slots of a table of <close> locals are registers, each of one local. *)
OneSlotEach(f) ==
  /\ \A d \in DOMAIN f.descs : f.descs[d].slot \in 1..Slots
  /\ \A d, e \in DOMAIN f.descs : f.descs[d].slot = f.descs[e].slot => d = e

Calls(f) == {f.code[pc].fn : pc \in {q \in DOMAIN f.code : f.code[q].op = "Call"}}

Functions ==
  [code : Seq([op : STRING, slot : Nat, desc : Nat, from : 0..Slots, to : Nat, fn : STRING]),
   descs : Seq([slot : Nat, start : Nat, stop : Nat])]

IsProgram(p) ==
  /\ "main" \in DOMAIN p /\ Native \notin DOMAIN p
  /\ \A fn \in DOMAIN p : p[fn] \in Functions /\ Calls(p[fn]) \subseteq DOMAIN p

WellClosed(p) ==
  IsProgram(p) /\ \A fn \in DOMAIN p : OneSlotEach(p[fn]) /\ Accounts(p[fn]) # {}

(* "The compiler guarantees every chunk ends with a Return opcode, so we   *)
(* can fetch without a bounds guard."                                      *)
FetchInBounds ==
  status = "running" /\ pending = NotPending /\ error = "none"
    => Top.pc \in DOMAIN Code(Top)
=============================================================================
