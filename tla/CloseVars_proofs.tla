-------------------------- MODULE CloseVars_proofs --------------------------
(***************************************************************************)
(* Proofs about the execution of <close> locals, for every program whose   *)
(* functions keep an account (WellClosed), of any size and depth: every    *)
(* value is closed in time, once, and the last opened first.               *)
(***************************************************************************)
EXTENDS CloseVars, TLAPS

Instructions == [op : STRING, slot : Nat, desc : Nat, from : 0..Slots, to : Nat, fn : STRING]
Descriptors == [slot : Nat, start : Nat, stop : Nat]

(* The account of a function of program P. *)
Account(P, fn) == CHOOSE held : held \in Accounts(P[fn])

(* The <close> locals of a frame, and what one of them holds. *)
Locals(P, f) == DOMAIN P[f.fn].descs
Holds(P, f, d) == f.regs[P[f.fn].descs[d].slot]

(* The values that are to be closed. *)
IsOpen(own, lg, v) == v \in 1..Len(own) /\ own[v].desc # 0 /\ v \notin Range(lg)

LuaFrames(P) == [fn : DOMAIN P, pc : Nat, regs : [1..Slots -> Nat]]

(* A <close> local holds what is to be closed, or nothing, ... *)
HoldsItsOwn(P, fs, own, lg) ==
  \A i \in DOMAIN fs : fs[i].fn # Native =>
    \A d \in Locals(P, fs[i]) : Holds(P, fs[i], d) # Nil =>
      LET v == Holds(P, fs[i], d) IN
      /\ d \in Account(P, fs[i].fn)[fs[i].pc]
      /\ IsOpen(own, lg, v) /\ own[v].depth = i /\ own[v].desc = d

(* ... and what is to be closed is held by the local it was put in. *)
IsHeld(P, fs, own, lg) ==
  \A v : IsOpen(own, lg, v) =>
    LET o == own[v] IN
    /\ o.depth \in DOMAIN fs /\ fs[o.depth].fn # Native
    /\ o.desc \in Locals(P, fs[o.depth])
    /\ Holds(P, fs[o.depth], o.desc) = v

IsStack(P, fs, own, lg) ==
  /\ fs \in Seq(LuaFrames(P) \cup {NativeFrame})
  /\ \A i \in DOMAIN fs : fs[i].fn # Native => fs[i].pc \in DOMAIN P[fs[i].fn].code
  /\ HoldsItsOwn(P, fs, own, lg)
  /\ IsHeld(P, fs, own, lg)

(* What was opened in an inner frame, or in a later local, was opened later. *)
Ordered(own, lg) ==
  \A v, w : IsOpen(own, lg, v) /\ IsOpen(own, lg, w) =>
    /\ Before(own[v], own[w]) => v < w
    /\ own[v] = own[w] => v = w

(* A value of f that is awaited finds its local ready. *)
Awaits(P, f, slot, desc) ==
  IF desc = 0 THEN \A d \in Locals(P, f) : P[f.fn].descs[d].slot # slot
  ELSE /\ desc \in Locals(P, f) /\ slot = P[f.fn].descs[desc].slot
       /\ desc \in Account(P, f.fn)[f.pc]
       /\ \A d \in Locals(P, f) : Holds(P, f, d) # Nil => d < desc

(* The queue of an unwinding task has what is to be closed. *)
Entry(own, v) == [depth |-> own[v].depth, desc |-> own[v].desc, value |-> v]

IsQueue(q, own, lg) ==
  /\ \A e \in q : IsOpen(own, lg, e.value) /\ e = Entry(own, e.value)
  /\ \A v : IsOpen(own, lg, v) => \E e \in q : e.value = v

Made(own, lg) ==
  /\ own \in Seq([depth : Nat, desc : Nat]) /\ lg \in Seq(Nat)
  /\ Range(lg) \subseteq 1..Len(own)

OnlyTopIsNative(fs, kind) ==
  \A i \in DOMAIN fs : fs[i].fn = Native <=> i = Len(fs) /\ kind = "NativeCall"

Waits ==
  /\ pending.kind = "none" => pending = NotPending
  /\ pending.kind = "NativeCall" =>
       /\ error = "none" /\ Len(frames) >= 2
       /\ pending.slot \in Nat /\ pending.desc \in Nat
       /\ pending.slot # 0 =>
            /\ Len(owner) < MaxValues
            /\ Awaits(prog, frames[Len(frames) - 1], pending.slot, pending.desc)
  /\ pending.kind = "CloseVar" => error = "none"
  /\ pending.kind = "UnwindClose" => error # "none"
  /\ pending.kind \in {"none", "NativeCall", "CloseVar", "UnwindClose"}

(* The task executes a program, ... *)
Executes ==
  /\ IsStack(prog, frames, owner, log)
  /\ OnlyTopIsNative(frames, pending.kind)
  /\ queue = {}
  /\ status = "running" => frames # <<>>

(* ... or unwinds. *)
Unwinds == frames = <<>> /\ IsQueue(queue, owner, log)

CloseInv ==
  /\ prog \in Programs
  /\ Made(owner, log) /\ Ordered(owner, log)
  /\ error = "none" => Executes
  /\ error # "none" => Unwinds
  /\ status # "running" => frames = <<>> /\ pending = NotPending
  /\ Waits

--------------------------- (* Programs *) ----------------------------------
LEMMA OfAProgram ==
  ASSUME NEW P, WellClosed(P), NEW fn \in DOMAIN P
  PROVE  /\ P[fn].code \in Seq(Instructions) /\ P[fn].descs \in Seq(Descriptors)
         /\ Account(P, fn) \in [DOMAIN P[fn].code -> SUBSET (DOMAIN P[fn].descs)]
         /\ IsAccount(P[fn], Account(P, fn))
         /\ OneSlotEach(P[fn]) /\ Calls(P[fn]) \subseteq DOMAIN P
         /\ fn # Native
<1>1. /\ P[fn] \in Functions /\ Calls(P[fn]) \subseteq DOMAIN P /\ fn # Native
      /\ OneSlotEach(P[fn]) /\ Accounts(P[fn]) # {}
  BY DEF WellClosed, IsProgram
<1>2. P[fn].code \in Seq(Instructions) /\ P[fn].descs \in Seq(Descriptors)
  BY <1>1 DEF Functions, Instructions, Descriptors
<1>3. Account(P, fn) \in Accounts(P[fn])
  BY <1>1 DEF Account
<1> QED
  BY <1>1, <1>2, <1>3 DEF Accounts

(* What may be held before an instruction may be before the next. *)
LEMMA Flows ==
  ASSUME NEW P, WellClosed(P), NEW fn \in DOMAIN P, NEW pc \in DOMAIN P[fn].code,
         NEW next \in Successors(P[fn].code, pc)
  PROVE  /\ next \in DOMAIN P[fn].code
         /\ Held(P[fn], Account(P, fn), pc) \subseteq Account(P, fn)[next]
  BY OfAProgram DEF IsAccount

--------------------------- (* Stacks *) -------------------------------------
(* The stack fs after the top frame has moved to pc, with regs. *)
Moved(fs, pc, regs) == [fs EXCEPT ![Len(fs)] = [@ EXCEPT !.pc = pc, !.regs = regs]]

LEMMA MovedFrames ==
  ASSUME NEW P, NEW fs \in Seq(LuaFrames(P) \cup {NativeFrame}), fs # <<>>,
         fs[Len(fs)].fn # Native, NEW pc \in Nat, NEW regs \in [1..Slots -> Nat]
  PROVE  LET gs == Moved(fs, pc, regs) IN
         /\ gs \in Seq(LuaFrames(P) \cup {NativeFrame})
         /\ Len(gs) = Len(fs) /\ DOMAIN gs = 1..Len(fs) /\ DOMAIN fs = 1..Len(fs)
         /\ Len(fs) \in 1..Len(fs)
         /\ gs[Len(fs)] \in LuaFrames(P) /\ gs[Len(fs)].fn = fs[Len(fs)].fn
         /\ gs[Len(fs)].pc = pc /\ gs[Len(fs)].regs = regs
         /\ \A i \in 1..Len(fs) : i # Len(fs) => gs[i] = fs[i]
         /\ fs[Len(fs)] \in LuaFrames(P)
<1> DEFINE S == LuaFrames(P) \cup {NativeFrame}
           n == Len(fs)
           top == fs[n]
           new == [top EXCEPT !.pc = pc, !.regs = regs]
<1>1. n \in 1..n /\ DOMAIN fs = 1..n
  OBVIOUS
<1>2. top \in LuaFrames(P)
  <2>1. top \in LuaFrames(P) \cup {NativeFrame}
    BY <1>1
  <2> QED
    BY <2>1 DEF NativeFrame
<1>3. new \in LuaFrames(P) /\ new.fn = top.fn /\ new.pc = pc /\ new.regs = regs
  <2> HIDE DEF top
  <2> QED
    BY <1>2 DEF LuaFrames
<1>4. Moved(fs, pc, regs) = [fs EXCEPT ![n] = new]
  BY DEF Moved
<1>5. fs \in Seq(S) /\ new \in S
  BY <1>3
<1> HIDE DEF new, S
<1>6. Moved(fs, pc, regs) \in Seq(S)
  BY <1>1, <1>4, <1>5
<1>7. Len(Moved(fs, pc, regs)) = n /\ DOMAIN Moved(fs, pc, regs) = 1..n
  BY <1>1, <1>4, <1>5
<1>8. /\ Moved(fs, pc, regs)[n] = new
      /\ \A i \in 1..n : i # n => Moved(fs, pc, regs)[i] = fs[i]
  BY <1>1, <1>4
<1>9. Moved(fs, pc, regs) \in Seq(LuaFrames(P) \cup {NativeFrame})
  BY <1>6 DEF S
<1> HIDE DEF n, top
<1>10. /\ n = Len(fs) /\ top = fs[Len(fs)]
  BY DEF n, top
<1> QED
  BY <1>1, <1>2, <1>3, <1>7, <1>8, <1>9, <1>10

(* A frame moves on and its <close> locals keep what they hold. *)
LEMMA Moves ==
  ASSUME NEW P, NEW fs, NEW own, NEW lg, IsStack(P, fs, own, lg), fs # <<>>,
         fs[Len(fs)].fn # Native,
         NEW pc \in Nat, NEW regs \in [1..Slots -> Nat],
         pc \in DOMAIN P[fs[Len(fs)].fn].code,
         \A d \in Locals(P, fs[Len(fs)]) :
           LET slot == P[fs[Len(fs)].fn].descs[d].slot IN
           /\ regs[slot] = fs[Len(fs)].regs[slot]
           /\ regs[slot] # Nil => d \in Account(P, fs[Len(fs)].fn)[pc]
  PROVE  IsStack(P, Moved(fs, pc, regs), own, lg)
<1> DEFINE top == fs[Len(fs)]
           gs == Moved(fs, pc, regs)
<1>1. fs \in Seq(LuaFrames(P) \cup {NativeFrame})
  BY DEF IsStack
<1>2. /\ gs \in Seq(LuaFrames(P) \cup {NativeFrame}) /\ Len(gs) = Len(fs)
      /\ DOMAIN gs = 1..Len(fs) /\ DOMAIN fs = 1..Len(fs) /\ Len(fs) \in 1..Len(fs)
      /\ gs[Len(fs)].fn = top.fn /\ gs[Len(fs)].pc = pc /\ gs[Len(fs)].regs = regs
      /\ \A i \in 1..Len(fs) : i # Len(fs) => gs[i] = fs[i]
  BY <1>1, MovedFrames
<1> HIDE DEF gs
<1>3. ASSUME NEW i \in 1..Len(fs)
      PROVE  /\ gs[i].fn = fs[i].fn /\ Locals(P, gs[i]) = Locals(P, fs[i])
             /\ \A d \in Locals(P, fs[i]) : Holds(P, gs[i], d) = Holds(P, fs[i], d)
  <2>1. CASE i # Len(fs)
    BY <1>2, <2>1
  <2>2. CASE i = Len(fs)
    BY <1>2, <2>2 DEF Locals, Holds
  <2> QED
    BY <2>1, <2>2
<1>4. \A i \in DOMAIN gs : gs[i].fn # Native => gs[i].pc \in DOMAIN P[gs[i].fn].code
  <2> SUFFICES ASSUME NEW i \in 1..Len(fs), gs[i].fn # Native
               PROVE  gs[i].pc \in DOMAIN P[gs[i].fn].code
    BY <1>2
  <2>1. CASE i # Len(fs)
    BY <1>2, <2>1 DEF IsStack
  <2>2. CASE i = Len(fs)
    BY <1>2, <2>2
  <2> QED
    BY <2>1, <2>2
<1>5. HoldsItsOwn(P, gs, own, lg)
  <2> SUFFICES ASSUME NEW i \in 1..Len(fs), gs[i].fn # Native,
                      NEW d \in Locals(P, gs[i]), Holds(P, gs[i], d) # Nil
               PROVE  /\ d \in Account(P, gs[i].fn)[gs[i].pc]
                      /\ IsOpen(own, lg, Holds(P, gs[i], d))
                      /\ own[Holds(P, gs[i], d)].depth = i /\ own[Holds(P, gs[i], d)].desc = d
    BY <1>2 DEF HoldsItsOwn
  <2>1. /\ fs[i].fn # Native /\ d \in Locals(P, fs[i])
        /\ Holds(P, gs[i], d) = Holds(P, fs[i], d)
    BY <1>3
  <2>2. /\ d \in Account(P, fs[i].fn)[fs[i].pc]
        /\ IsOpen(own, lg, Holds(P, fs[i], d))
        /\ own[Holds(P, fs[i], d)].depth = i /\ own[Holds(P, fs[i], d)].desc = d
    BY <1>2, <2>1 DEF IsStack, HoldsItsOwn
  <2>3. d \in Account(P, gs[i].fn)[gs[i].pc]
    <3>1. CASE i # Len(fs)
      BY <1>2, <2>2, <3>1
    <3>2. CASE i = Len(fs)
      BY <1>2, <2>1, <3>2 DEF Holds
    <3> QED
      BY <3>1, <3>2
  <2> QED
    BY <2>1, <2>2, <2>3
<1>6. IsHeld(P, gs, own, lg)
  <2> SUFFICES ASSUME NEW v, IsOpen(own, lg, v)
               PROVE  LET o == own[v] IN
                      /\ o.depth \in DOMAIN gs /\ gs[o.depth].fn # Native
                      /\ o.desc \in Locals(P, gs[o.depth])
                      /\ Holds(P, gs[o.depth], o.desc) = v
    BY DEF IsHeld
  <2>1. LET o == own[v] IN
        /\ o.depth \in DOMAIN fs /\ fs[o.depth].fn # Native
        /\ o.desc \in Locals(P, fs[o.depth])
        /\ Holds(P, fs[o.depth], o.desc) = v
    BY DEF IsStack, IsHeld
  <2> QED
    BY <1>2, <1>3, <2>1
<1> QED
  BY <1>2, <1>4, <1>5, <1>6 DEF IsStack, gs

(* Outside the frame n the same values are open. *)
SameBelow(own, lg, own2, lg2, n) ==
  /\ \A v : IsOpen(own, lg, v) /\ own[v].depth # n
              => IsOpen(own2, lg2, v) /\ own2[v] = own[v]
  /\ \A v : IsOpen(own2, lg2, v) /\ own2[v].depth # n
              => IsOpen(own, lg, v) /\ own2[v] = own[v]

(* The function fn at pc, in frame n, with its <close> locals in regs, holds *)
(* its values.                                                              *)
HoldsInRegs(P, fn, pc, regs, own, lg, n) ==
  /\ \A d \in DOMAIN P[fn].descs :
       LET v == regs[P[fn].descs[d].slot] IN
       v # Nil => /\ d \in Account(P, fn)[pc]
                  /\ IsOpen(own, lg, v) /\ own[v].depth = n /\ own[v].desc = d
  /\ \A v : IsOpen(own, lg, v) /\ own[v].depth = n
              => /\ own[v].desc \in DOMAIN P[fn].descs
                 /\ regs[P[fn].descs[own[v].desc].slot] = v

(* The same with other values: those of the other frames are as they were. *)
LEMMA Replaced ==
  ASSUME NEW P, NEW fs, NEW own, NEW lg, IsStack(P, fs, own, lg), fs # <<>>,
         fs[Len(fs)].fn # Native,
         NEW pc \in Nat, NEW regs \in [1..Slots -> Nat],
         pc \in DOMAIN P[fs[Len(fs)].fn].code,
         NEW own2, NEW lg2,
         SameBelow(own, lg, own2, lg2, Len(fs)),
         HoldsInRegs(P, fs[Len(fs)].fn, pc, regs, own2, lg2, Len(fs))
  PROVE  IsStack(P, Moved(fs, pc, regs), own2, lg2)
<1> DEFINE top == fs[Len(fs)]
           gs == Moved(fs, pc, regs)
<1>1. fs \in Seq(LuaFrames(P) \cup {NativeFrame})
  BY DEF IsStack
<1>2. /\ gs \in Seq(LuaFrames(P) \cup {NativeFrame}) /\ Len(gs) = Len(fs)
      /\ DOMAIN gs = 1..Len(fs) /\ DOMAIN fs = 1..Len(fs) /\ Len(fs) \in 1..Len(fs)
      /\ gs[Len(fs)].fn = top.fn /\ gs[Len(fs)].pc = pc /\ gs[Len(fs)].regs = regs
      /\ \A i \in 1..Len(fs) : i # Len(fs) => gs[i] = fs[i]
  BY <1>1, MovedFrames
<1> HIDE DEF gs
<1>3. /\ Locals(P, gs[Len(fs)]) = DOMAIN P[top.fn].descs
      /\ \A d : Holds(P, gs[Len(fs)], d) = regs[P[top.fn].descs[d].slot]
  BY <1>2 DEF Locals, Holds
<1>4. \A i \in DOMAIN gs : gs[i].fn # Native => gs[i].pc \in DOMAIN P[gs[i].fn].code
  <2> SUFFICES ASSUME NEW i \in 1..Len(fs), gs[i].fn # Native
               PROVE  gs[i].pc \in DOMAIN P[gs[i].fn].code
    BY <1>2
  <2>1. CASE i # Len(fs)
    BY <1>2, <2>1 DEF IsStack
  <2>2. CASE i = Len(fs)
    BY <1>2, <2>2
  <2> QED
    BY <2>1, <2>2
<1>5. HoldsItsOwn(P, gs, own2, lg2)
  <2> SUFFICES ASSUME NEW i \in 1..Len(fs), gs[i].fn # Native,
                      NEW d \in Locals(P, gs[i]), Holds(P, gs[i], d) # Nil
               PROVE  /\ d \in Account(P, gs[i].fn)[gs[i].pc]
                      /\ IsOpen(own2, lg2, Holds(P, gs[i], d))
                      /\ own2[Holds(P, gs[i], d)].depth = i
                      /\ own2[Holds(P, gs[i], d)].desc = d
    BY <1>2 DEF HoldsItsOwn
  <2>1. CASE i # Len(fs)
    <3>1. gs[i] = fs[i] /\ i \in DOMAIN fs
      BY <1>2, <2>1
    <3>2. /\ d \in Account(P, fs[i].fn)[fs[i].pc]
          /\ IsOpen(own, lg, Holds(P, fs[i], d))
          /\ own[Holds(P, fs[i], d)].depth = i /\ own[Holds(P, fs[i], d)].desc = d
      BY <3>1 DEF IsStack, HoldsItsOwn
    <3>3. /\ IsOpen(own2, lg2, Holds(P, fs[i], d))
          /\ own2[Holds(P, fs[i], d)] = own[Holds(P, fs[i], d)]
      BY <2>1, <3>2 DEF SameBelow
    <3> QED
      BY <3>1, <3>2, <3>3
  <2>2. CASE i = Len(fs)
    <3> DEFINE v == Holds(P, gs[i], d)
    <3>1. v = regs[P[top.fn].descs[d].slot] /\ v # Nil /\ d \in DOMAIN P[top.fn].descs
      BY <1>3, <2>2
    <3> HIDE DEF v
    <3>2. /\ d \in Account(P, top.fn)[pc]
          /\ IsOpen(own2, lg2, v) /\ own2[v].depth = Len(fs) /\ own2[v].desc = d
      BY <3>1 DEF HoldsInRegs
    <3>3. gs[i].fn = top.fn /\ gs[i].pc = pc
      BY <1>2, <2>2
    <3> QED
      BY <2>2, <3>2, <3>3 DEF v
  <2> QED
    BY <2>1, <2>2
<1>6. IsHeld(P, gs, own2, lg2)
  <2> SUFFICES ASSUME NEW v, IsOpen(own2, lg2, v)
               PROVE  LET o == own2[v] IN
                      /\ o.depth \in DOMAIN gs /\ gs[o.depth].fn # Native
                      /\ o.desc \in Locals(P, gs[o.depth])
                      /\ Holds(P, gs[o.depth], o.desc) = v
    BY DEF IsHeld
  <2>1. CASE own2[v].depth # Len(fs)
    <3>1. IsOpen(own, lg, v) /\ own2[v] = own[v]
      BY <2>1 DEF SameBelow
    <3> DEFINE i == own[v].depth
    <3>2. /\ i \in DOMAIN fs /\ fs[i].fn # Native
          /\ own[v].desc \in Locals(P, fs[i]) /\ Holds(P, fs[i], own[v].desc) = v
      BY <3>1 DEF IsStack, IsHeld
    <3>3. gs[i] = fs[i] /\ i \in DOMAIN gs
      BY <1>2, <2>1, <3>1, <3>2
    <3> QED
      BY <3>1, <3>2, <3>3
  <2>2. CASE own2[v].depth = Len(fs)
    <3>1. /\ own2[v].desc \in DOMAIN P[top.fn].descs
          /\ regs[P[top.fn].descs[own2[v].desc].slot] = v
      BY <2>2 DEF HoldsInRegs
    <3> QED
      BY <1>2, <1>3, <2>2, <3>1
  <2> QED
    BY <2>1, <2>2
<1> QED
  BY <1>2, <1>4, <1>5, <1>6 DEF IsStack, gs

(* A frame that holds nothing that is to be closed. *)
Idle(P, f) == f.fn # Native => \A d \in Locals(P, f) : Holds(P, f, d) = Nil

(* Frames that hold nothing come and go. *)
LEMMA Reshaped ==
  ASSUME NEW P, NEW fs, NEW own, NEW lg, IsStack(P, fs, own, lg),
         NEW gs \in Seq(LuaFrames(P) \cup {NativeFrame}),
         \A i \in DOMAIN gs : i \in DOMAIN fs => gs[i] = fs[i],
         \A i \in DOMAIN gs : i \notin DOMAIN fs =>
           /\ Idle(P, gs[i])
           /\ gs[i].fn # Native => gs[i].pc \in DOMAIN P[gs[i].fn].code,
         \A i \in DOMAIN fs : i \notin DOMAIN gs => Idle(P, fs[i])
  PROVE  IsStack(P, gs, own, lg)
<1>1. \A i \in DOMAIN gs : gs[i].fn # Native => gs[i].pc \in DOMAIN P[gs[i].fn].code
  BY DEF IsStack
<1>2. HoldsItsOwn(P, gs, own, lg)
  <2> SUFFICES ASSUME NEW i \in DOMAIN gs, gs[i].fn # Native,
                      NEW d \in Locals(P, gs[i]), Holds(P, gs[i], d) # Nil
               PROVE  /\ d \in Account(P, gs[i].fn)[gs[i].pc]
                      /\ IsOpen(own, lg, Holds(P, gs[i], d))
                      /\ own[Holds(P, gs[i], d)].depth = i
                      /\ own[Holds(P, gs[i], d)].desc = d
    BY DEF HoldsItsOwn
  <2>1. i \in DOMAIN fs /\ gs[i] = fs[i]
    BY DEF Idle
  <2> QED
    BY <2>1 DEF IsStack, HoldsItsOwn
<1>3. IsHeld(P, gs, own, lg)
  <2> SUFFICES ASSUME NEW v, IsOpen(own, lg, v)
               PROVE  LET o == own[v] IN
                      /\ o.depth \in DOMAIN gs /\ gs[o.depth].fn # Native
                      /\ o.desc \in Locals(P, gs[o.depth])
                      /\ Holds(P, gs[o.depth], o.desc) = v
    BY DEF IsHeld
  <2>1. LET o == own[v] IN
        /\ o.depth \in DOMAIN fs /\ fs[o.depth].fn # Native
        /\ o.desc \in Locals(P, fs[o.depth])
        /\ Holds(P, fs[o.depth], o.desc) = v
    BY DEF IsStack, IsHeld
  <2>2. v # Nil
    BY DEF IsOpen, Nil
  <2>3. own[v].depth \in DOMAIN gs
    BY <2>1, <2>2 DEF Idle
  <2> QED
    BY <2>1, <2>3
<1> QED
  BY <1>1, <1>2, <1>3 DEF IsStack

LEMMA Pushed ==
  ASSUME NEW P, NEW fs, NEW own, NEW lg, IsStack(P, fs, own, lg),
         NEW g \in LuaFrames(P) \cup {NativeFrame}, Idle(P, g),
         g.fn # Native => g.pc \in DOMAIN P[g.fn].code
  PROVE  LET gs == Append(fs, g) IN
         /\ IsStack(P, gs, own, lg)
         /\ Len(gs) = Len(fs) + 1 /\ DOMAIN gs = 1..(Len(fs) + 1) /\ Len(fs) \in Nat
         /\ gs[Len(fs) + 1] = g /\ \A i \in 1..Len(fs) : gs[i] = fs[i]
<1> DEFINE S == LuaFrames(P) \cup {NativeFrame}
<1>1. fs \in Seq(S) /\ g \in S
  BY DEF IsStack
<1> HIDE DEF S
<1>2. /\ Append(fs, g) \in Seq(S) /\ DOMAIN fs = 1..Len(fs) /\ Len(fs) \in Nat
      /\ DOMAIN Append(fs, g) = 1..(Len(fs) + 1) /\ Len(Append(fs, g)) = Len(fs) + 1
      /\ Append(fs, g)[Len(fs) + 1] = g
      /\ \A i \in 1..Len(fs) : Append(fs, g)[i] = fs[i]
  BY <1>1
<1>3. Append(fs, g) \in Seq(LuaFrames(P) \cup {NativeFrame})
  BY <1>2 DEF S
<1> DEFINE gs == Append(fs, g)
<1> HIDE DEF gs
<1>4. /\ DOMAIN fs = 1..Len(fs) /\ Len(fs) \in Nat /\ DOMAIN gs = 1..(Len(fs) + 1)
      /\ Len(gs) = Len(fs) + 1
      /\ gs[Len(fs) + 1] = g /\ \A i \in 1..Len(fs) : gs[i] = fs[i]
      /\ gs \in Seq(LuaFrames(P) \cup {NativeFrame})
  BY <1>2, <1>3 DEF gs
<1>5. \A i \in DOMAIN gs : i \in DOMAIN fs \/ (i \notin DOMAIN fs /\ gs[i] = g)
  BY <1>4
<1>6. IsStack(P, gs, own, lg)
  <2>1. \A i \in DOMAIN gs : i \in DOMAIN fs => gs[i] = fs[i]
    BY <1>4
  <2>2. \A i \in DOMAIN gs : i \notin DOMAIN fs =>
           /\ Idle(P, gs[i])
           /\ gs[i].fn # Native => gs[i].pc \in DOMAIN P[gs[i].fn].code
    BY <1>5
  <2>3. \A i \in DOMAIN fs : i \notin DOMAIN gs => Idle(P, fs[i])
    BY <1>4
  <2> QED
    BY <1>4, <2>1, <2>2, <2>3, Reshaped
<1> QED
  BY <1>4, <1>6 DEF gs

LEMMA Popped ==
  ASSUME NEW P, NEW fs, NEW own, NEW lg, IsStack(P, fs, own, lg), fs # <<>>,
         Idle(P, fs[Len(fs)])
  PROVE  /\ IsStack(P, Front(fs), own, lg)
         /\ Len(Front(fs)) = Len(fs) - 1 /\ DOMAIN Front(fs) = 1..(Len(fs) - 1)
         /\ \A i \in 1..(Len(fs) - 1) : Front(fs)[i] = fs[i]
<1> DEFINE S == LuaFrames(P) \cup {NativeFrame}
           gs == Front(fs)
<1>1. fs \in Seq(S)
  BY DEF IsStack
<1> HIDE DEF S
<1>2. /\ DOMAIN fs = 1..Len(fs) /\ Len(fs) \in Nat \ {0}
      /\ gs \in Seq(S) /\ Len(gs) = Len(fs) - 1 /\ DOMAIN gs = 1..(Len(fs) - 1)
      /\ \A i \in 1..(Len(fs) - 1) : gs[i] = fs[i]
  <2>1. DOMAIN fs = 1..Len(fs) /\ Len(fs) \in Nat \ {0}
    BY <1>1
  <2>2. gs = SubSeq(fs, 1, Len(fs) - 1)
    BY DEF Front
  <2>3. Len(gs) = Len(fs) - 1 /\ DOMAIN gs = 1..(Len(fs) - 1)
    BY <1>1, <2>1, <2>2
  <2>4. \A i \in 1..(Len(fs) - 1) : gs[i] = fs[i]
    BY <1>1, <2>1, <2>2
  <2>5. gs \in Seq(S)
    BY <1>1, <2>1, <2>2
  <2> QED
    BY <2>1, <2>3, <2>4, <2>5
<1>3. gs \in Seq(LuaFrames(P) \cup {NativeFrame})
  BY <1>2 DEF S
<1> HIDE DEF gs
<1>4. \A i \in DOMAIN fs : i \in DOMAIN gs \/ (i \notin DOMAIN gs /\ i = Len(fs))
  BY <1>2
<1>5. IsStack(P, gs, own, lg)
  <2>1. \A i \in DOMAIN gs : i \in DOMAIN fs /\ gs[i] = fs[i]
    BY <1>2
  <2>2. \A i \in DOMAIN fs : i \notin DOMAIN gs => Idle(P, fs[i])
    BY <1>4
  <2> QED
    BY <1>3, <2>1, <2>2, Reshaped
<1> QED
  BY <1>2, <1>5 DEF gs

--------------------------- (* Values *) -------------------------------------
(* A value is put in a local, or in something that is not to be closed. *)
LEMMA Owned ==
  ASSUME NEW own, NEW lg, Made(own, lg), NEW depth \in Nat, NEW desc \in Nat
  PROVE  LET n == Len(own) + 1
             own2 == Append(own, [depth |-> depth, desc |-> desc]) IN
         /\ Made(own2, lg) /\ n \in Nat
         /\ \A v : IsOpen(own, lg, v) => v \in Nat /\ v < n /\ v # n /\ own2[v] = own[v]
         /\ own2[n].depth = depth /\ own2[n].desc = desc
         /\ \A v : IsOpen(own2, lg, v) <=> IsOpen(own, lg, v) \/ (v = n /\ desc # 0)
<1> DEFINE T == [depth : Nat, desc : Nat]
           o == [depth |-> depth, desc |-> desc]
           n == Len(own) + 1
           own2 == Append(own, o)
<1>1. own \in Seq(T) /\ lg \in Seq(Nat) /\ Range(lg) \subseteq 1..Len(own)
  BY DEF Made
<1>2. o \in T /\ o.depth = depth /\ o.desc = desc
  OBVIOUS
<1> HIDE DEF T, o
<1>3. /\ own2 \in Seq(T) /\ Len(own2) = n /\ Len(own) \in Nat /\ n \in Nat
      /\ own2[n] = o /\ \A v \in 1..Len(own) : own2[v] = own[v]
  BY <1>1, <1>2
<1> HIDE DEF own2
<1>4. 1..Len(own2) = 1..Len(own) \cup {n} /\ n \notin 1..Len(own)
  BY <1>3
<1>5. \A v : IsOpen(own, lg, v) => v \in Nat /\ v < n /\ v # n /\ own2[v] = own[v]
  BY <1>3 DEF IsOpen
<1>6. \A v : IsOpen(own2, lg, v) <=> IsOpen(own, lg, v) \/ (v = n /\ desc # 0)
  <2> HIDE DEF n
  <2> QED
    BY <1>1, <1>2, <1>3, <1>4 DEF IsOpen
<1>7. Made(own2, lg)
  BY <1>1, <1>3, <1>4 DEF Made, T
<1> QED
  BY <1>2, <1>3, <1>5, <1>6, <1>7 DEF own2, o

LEMMA OpenIsOwned ==
  ASSUME NEW own, NEW lg, Made(own, lg), NEW v, IsOpen(own, lg, v)
  PROVE  /\ v \in Nat /\ v # Nil /\ own[v].depth \in Nat /\ own[v].desc \in Nat
         /\ own[v] = [depth |-> own[v].depth, desc |-> own[v].desc]
<1> DEFINE T == [depth : Nat, desc : Nat]
<1>1. own \in Seq(T) /\ v \in 1..Len(own)
  BY DEF Made, IsOpen
<1> HIDE DEF T
<1>2. own[v] \in T /\ Len(own) \in Nat
  BY <1>1
<1> QED
  BY <1>1, <1>2 DEF Nil, T

(* A value is put in a register of the top frame. *)
LEMMA Placed ==
  ASSUME NEW P, WellClosed(P), NEW fs, NEW own, NEW lg, IsStack(P, fs, own, lg),
         fs # <<>>, fs[Len(fs)].fn # Native, Made(own, lg), Ordered(own, lg),
         NEW slot \in Nat, NEW desc \in Nat, Awaits(P, fs[Len(fs)], slot, desc)
  PROVE  LET top == fs[Len(fs)]
             n == Len(own) + 1
             own2 == Append(own, [depth |-> Len(fs), desc |-> desc]) IN
         /\ IsStack(P, Moved(fs, top.pc, [top.regs EXCEPT ![slot] = n]), own2, lg)
         /\ Made(own2, lg) /\ Ordered(own2, lg)
<1> DEFINE top == fs[Len(fs)]
           n == Len(own) + 1
           own2 == Append(own, [depth |-> Len(fs), desc |-> desc])
           regs == [top.regs EXCEPT ![slot] = n]
<1>1. /\ top \in LuaFrames(P) /\ Len(fs) \in DOMAIN fs /\ Len(fs) \in Nat
      /\ DOMAIN fs = 1..Len(fs)
  <2> DEFINE S == LuaFrames(P) \cup {NativeFrame}
  <2>1. fs \in Seq(S)
    BY DEF IsStack
  <2> HIDE DEF S
  <2>2. Len(fs) \in DOMAIN fs /\ Len(fs) \in Nat /\ DOMAIN fs = 1..Len(fs) /\ top \in S
    BY <2>1
  <2> QED
    BY <2>2 DEF S, NativeFrame
<1>2. top.fn \in DOMAIN P /\ top.pc \in Nat /\ top.regs \in [1..Slots -> Nat]
  BY <1>1 DEF LuaFrames
<1>3. /\ Made(own2, lg) /\ n \in Nat
      /\ \A v : IsOpen(own, lg, v) => v \in Nat /\ v < n /\ v # n /\ own2[v] = own[v]
      /\ own2[n].depth = Len(fs) /\ own2[n].desc = desc
      /\ \A v : IsOpen(own2, lg, v) <=> IsOpen(own, lg, v) \/ (v = n /\ desc # 0)
  BY <1>1, Owned
<1> HIDE DEF own2
<1>4. top.pc \in DOMAIN P[top.fn].code
  BY <1>1 DEF IsStack
<1>5. regs \in [1..Slots -> Nat] /\ n # Nil
  <2>1. Len(own) \in Nat
    BY DEF Made
  <2>2. n # Nil
    BY <2>1 DEF Nil
  <2> HIDE DEF n, top
  <2> QED
    BY <1>2, <1>3, <2>2
<1>6. \A d \in Locals(P, top) :
        /\ P[top.fn].descs[d].slot \in 1..Slots
        /\ \A e \in Locals(P, top) :
              P[top.fn].descs[d].slot = P[top.fn].descs[e].slot => d = e
  BY <1>2, OfAProgram DEF OneSlotEach, Locals
<1>7. ASSUME NEW d \in Locals(P, top)
      PROVE  /\ P[top.fn].descs[d].slot = slot => desc = d /\ regs[P[top.fn].descs[d].slot] = n
             /\ P[top.fn].descs[d].slot # slot =>
                  desc # d /\ regs[P[top.fn].descs[d].slot] = Holds(P, top, d)
  <2>1. P[top.fn].descs[d].slot \in DOMAIN top.regs
    BY <1>2, <1>6
  <2>2. (P[top.fn].descs[d].slot = slot => regs[P[top.fn].descs[d].slot] = n)
        /\ (P[top.fn].descs[d].slot # slot
             => regs[P[top.fn].descs[d].slot] = Holds(P, top, d))
    BY <2>1 DEF Holds
  <2>3. P[top.fn].descs[d].slot = slot <=> desc = d
    <3>1. CASE desc = 0
      <4>1. P[top.fn].descs[d].slot # slot
        BY <3>1 DEF Awaits
      <4>2. d # 0
        BY <1>2, OfAProgram DEF Locals
      <4> QED
        BY <3>1, <4>1, <4>2
    <3>2. CASE desc # 0
      BY <1>6, <3>2 DEF Awaits
    <3> QED
      BY <3>1, <3>2
  <2> QED
    BY <2>2, <2>3
<1>8. \A v : IsOpen(own, lg, v) /\ own[v].depth = Len(fs) =>
        /\ own[v].desc \in Locals(P, top) /\ Holds(P, top, own[v].desc) = v
        /\ v # Nil /\ own[v].desc \in Nat /\ own[v].desc # 0
  BY OpenIsOwned DEF IsStack, IsHeld, IsOpen
<1>9. \A d \in Locals(P, top) : Holds(P, top, d) # Nil =>
        /\ d \in Account(P, top.fn)[top.pc] /\ IsOpen(own, lg, Holds(P, top, d))
        /\ own[Holds(P, top, d)].depth = Len(fs) /\ own[Holds(P, top, d)].desc = d
  BY <1>1 DEF IsStack, HoldsItsOwn
<1>10. desc # 0 => /\ desc \in Locals(P, top) /\ desc \in Account(P, top.fn)[top.pc]
                   /\ P[top.fn].descs[desc].slot = slot
                   /\ \A d \in Locals(P, top) : Holds(P, top, d) # Nil => d < desc
  BY DEF Awaits
<1> HIDE DEF n, regs, top
<1>11. SameBelow(own, lg, own2, lg, Len(fs))
  BY <1>3 DEF SameBelow
<1>12. HoldsInRegs(P, top.fn, top.pc, regs, own2, lg, Len(fs))
  <2>1. ASSUME NEW d \in Locals(P, top), regs[P[top.fn].descs[d].slot] # Nil
        PROVE  /\ d \in Account(P, top.fn)[top.pc]
               /\ IsOpen(own2, lg, regs[P[top.fn].descs[d].slot])
               /\ own2[regs[P[top.fn].descs[d].slot]].depth = Len(fs)
               /\ own2[regs[P[top.fn].descs[d].slot]].desc = d
    <3>1. CASE P[top.fn].descs[d].slot = slot
      <4>1. d # 0
        BY <1>2, OfAProgram DEF Locals
      <4>2. desc = d /\ regs[P[top.fn].descs[d].slot] = n
        BY <1>7, <3>1
      <4> QED
        BY <1>3, <1>10, <4>1, <4>2
    <3>2. CASE P[top.fn].descs[d].slot # slot
      <4>1. regs[P[top.fn].descs[d].slot] = Holds(P, top, d)
        BY <1>7, <3>2
      <4> QED
        BY <1>3, <1>9, <2>1, <4>1
    <3> QED
      BY <3>1, <3>2
  <2>2. ASSUME NEW v, IsOpen(own2, lg, v), own2[v].depth = Len(fs)
        PROVE  /\ own2[v].desc \in Locals(P, top)
               /\ regs[P[top.fn].descs[own2[v].desc].slot] = v
    <3>1. CASE v = n /\ desc # 0
      BY <1>3, <1>7, <1>10, <3>1
    <3>2. CASE IsOpen(own, lg, v)
      <4>1. /\ own2[v] = own[v] /\ own[v].desc \in Locals(P, top)
            /\ Holds(P, top, own[v].desc) = v /\ v # Nil
            /\ own[v].desc \in Nat /\ own[v].desc # 0
        BY <1>3, <1>8, <2>2, <3>2
      <4>2. own[v].desc # desc
        BY <1>10, <4>1
      <4> QED
        BY <1>7, <4>1, <4>2
    <3> QED
      BY <1>3, <2>2, <3>1, <3>2
  <2>3. Locals(P, top) = DOMAIN P[top.fn].descs
    BY DEF Locals
  <2> QED
    BY <2>1, <2>2, <2>3 DEF HoldsInRegs
<1>13. IsStack(P, Moved(fs, top.pc, regs), own2, lg)
  BY <1>2, <1>4, <1>5, <1>11, <1>12, Replaced DEF top
<1>14. Ordered(own2, lg)
  <2> SUFFICES ASSUME NEW v, NEW w, IsOpen(own2, lg, v), IsOpen(own2, lg, w)
               PROVE  /\ Before(own2[v], own2[w]) => v < w
                      /\ own2[v] = own2[w] => v = w
    BY DEF Ordered
  <2>1. CASE IsOpen(own, lg, v) /\ IsOpen(own, lg, w)
    BY <1>3, <2>1 DEF Ordered
  <2>2. CASE v = n /\ w = n
    BY <1>1, <1>3, <2>2 DEF Before
  <2>3. ASSUME NEW u, IsOpen(own, lg, u), desc # 0
        PROVE  ~Before(own2[n], own2[u]) /\ own2[n] # own2[u]
    <3>1. own2[u] = own[u] /\ own[u].depth \in Nat /\ own[u].desc \in Nat
      BY <1>3, <2>3, OpenIsOwned
    <3>2. own[u].depth \in 1..Len(fs)
      BY <1>1, <2>3 DEF IsStack, IsHeld
    <3>3. own[u].depth = Len(fs) => own[u].desc < desc
      BY <1>8, <1>10, <2>3
    <3> QED
      BY <1>1, <1>3, <3>1, <3>2, <3>3 DEF Before
  <2> QED
    BY <1>3, <2>1, <2>2, <2>3
<1> QED
  BY <1>3, <1>13, <1>14 DEF top, n, own2, regs

(* The handler of a value is called. *)
LEMMA Called ==
  ASSUME NEW own, NEW lg, Made(own, lg), Ordered(own, lg), NEW v, IsOpen(own, lg, v)
  PROVE  /\ Made(own, Append(lg, v)) /\ Ordered(own, Append(lg, v))
         /\ \A w : IsOpen(own, Append(lg, v), w) <=> IsOpen(own, lg, w) /\ w # v
<1>1. lg \in Seq(Nat) /\ Range(lg) \subseteq 1..Len(own) /\ v \in 1..Len(own) /\ v \in Nat
  BY OpenIsOwned DEF Made, IsOpen
<1>2. Append(lg, v) \in Seq(Nat)
  BY <1>1
<1>3. Range(Append(lg, v)) = Range(lg) \cup {v}
  <2> DEFINE lg2 == Append(lg, v)
  <2>1. /\ DOMAIN lg = 1..Len(lg) /\ DOMAIN lg2 = 1..(Len(lg) + 1) /\ Len(lg) \in Nat
        /\ lg2[Len(lg) + 1] = v /\ \A i \in 1..Len(lg) : lg2[i] = lg[i]
    BY <1>1
  <2> HIDE DEF lg2
  <2>2. /\ DOMAIN lg2 = DOMAIN lg \cup {Len(lg) + 1}
        /\ lg2[Len(lg) + 1] = v /\ \A i \in DOMAIN lg : lg2[i] = lg[i]
    BY <2>1
  <2>3. Range(lg2) = Range(lg) \cup {v}
    BY <2>2 DEF Range
  <2> QED
    BY <2>3 DEF lg2
<1>4. \A w : IsOpen(own, Append(lg, v), w) <=> IsOpen(own, lg, w) /\ w # v
  BY <1>3 DEF IsOpen
<1> QED
  BY <1>1, <1>2, <1>3, <1>4 DEF Made, Ordered

(* CloseVar calls the handler of the value that was opened last. *)
LEMMA TakenIsLast ==
  ASSUME NEW P, WellClosed(P), NEW fs, NEW own, NEW lg, IsStack(P, fs, own, lg),
         fs # <<>>, fs[Len(fs)].fn # Native, Made(own, lg), Ordered(own, lg),
         NEW d \in Locals(P, fs[Len(fs)]), Holds(P, fs[Len(fs)], d) # Nil,
         \A e \in Account(P, fs[Len(fs)].fn)[fs[Len(fs)].pc] : e <= d
  PROVE  /\ IsOpen(own, lg, Holds(P, fs[Len(fs)], d))
         /\ \A w : IsOpen(own, lg, w) => w <= Holds(P, fs[Len(fs)], d)
<1> DEFINE top == fs[Len(fs)]
           v == Holds(P, top, d)
<1>1. DOMAIN fs = 1..Len(fs) /\ Len(fs) \in DOMAIN fs /\ Len(fs) \in Nat
  <2> DEFINE S == LuaFrames(P) \cup {NativeFrame}
  <2>1. fs \in Seq(S)
    BY DEF IsStack
  <2> HIDE DEF S
  <2> QED
    BY <2>1
<1>2. IsOpen(own, lg, v) /\ own[v].depth = Len(fs) /\ own[v].desc = d
  BY <1>1 DEF IsStack, HoldsItsOwn
<1>3. v \in Nat /\ d \in Nat
  <2> HIDE DEF v
  <2> QED
    BY <1>2, OpenIsOwned
<1>4. ASSUME NEW w, IsOpen(own, lg, w) PROVE w <= v
  <2>1. /\ w \in Nat /\ own[w].depth \in Nat /\ own[w].desc \in Nat
        /\ own[w] = [depth |-> own[w].depth, desc |-> own[w].desc]
        /\ own[v] = [depth |-> own[v].depth, desc |-> own[v].desc]
    BY <1>2, <1>4, OpenIsOwned
  <2>2. /\ own[w].depth \in DOMAIN fs
        /\ own[w].depth = Len(fs) =>
             own[w].desc \in Locals(P, top) /\ Holds(P, top, own[w].desc) = w /\ w # Nil
    BY <1>4, OpenIsOwned DEF IsStack, IsHeld
  <2>3. own[w].depth = Len(fs) => own[w].desc \in Account(P, top.fn)[top.pc]
    BY <1>1, <2>2 DEF IsStack, HoldsItsOwn
  <2>4. own[w].depth = Len(fs) => own[w].desc <= d
    BY <2>3
  <2> HIDE DEF v
  <2>5. Before(own[w], own[v]) \/ own[w] = own[v]
    BY <1>1, <1>2, <1>3, <2>1, <2>2, <2>4 DEF Before
  <2>6. w < v \/ w = v
    BY <1>2, <1>4, <2>5 DEF Ordered
  <2> QED
    BY <1>3, <2>1, <2>6
<1> QED
  BY <1>2, <1>4

(* ... and its local is free. *)
LEMMA Taken ==
  ASSUME NEW P, WellClosed(P), NEW fs, NEW own, NEW lg, IsStack(P, fs, own, lg),
         fs # <<>>, fs[Len(fs)].fn # Native, Made(own, lg), Ordered(own, lg),
         NEW d \in Locals(P, fs[Len(fs)]), Holds(P, fs[Len(fs)], d) # Nil,
         NEW pc \in DOMAIN P[fs[Len(fs)].fn].code,
         \A e \in Account(P, fs[Len(fs)].fn)[fs[Len(fs)].pc] :
           e # d => e \in Account(P, fs[Len(fs)].fn)[pc]
  PROVE  LET top == fs[Len(fs)]
             regs == [top.regs EXCEPT ![P[top.fn].descs[d].slot] = Nil] IN
         IsStack(P, Moved(fs, pc, regs), own, Append(lg, Holds(P, top, d)))
<1> DEFINE top == fs[Len(fs)]
           v == Holds(P, top, d)
           regs == [top.regs EXCEPT ![P[top.fn].descs[d].slot] = Nil]
           lg2 == Append(lg, v)
<1>1. /\ Len(fs) \in DOMAIN fs /\ top.fn \in DOMAIN P
      /\ top.regs \in [1..Slots -> Nat] /\ pc \in Nat
  <2> DEFINE S == LuaFrames(P) \cup {NativeFrame}
  <2>1. fs \in Seq(S)
    BY DEF IsStack
  <2> HIDE DEF S
  <2>2. Len(fs) \in DOMAIN fs /\ top \in S
    BY <2>1
  <2>3. Len(fs) \in DOMAIN fs /\ top \in LuaFrames(P)
    BY <2>2 DEF S, NativeFrame
  <2>4. top.fn \in DOMAIN P /\ top.regs \in [1..Slots -> Nat]
    BY <2>3 DEF LuaFrames
  <2> QED
    BY <2>3, <2>4, OfAProgram
<1>2. IsOpen(own, lg, v) /\ own[v].depth = Len(fs) /\ own[v].desc = d
  BY <1>1 DEF IsStack, HoldsItsOwn
<1>3. \A w : IsOpen(own, lg2, w) <=> IsOpen(own, lg, w) /\ w # v
  BY <1>2, Called
<1>4. /\ regs \in [1..Slots -> Nat]
      /\ \A e \in Locals(P, top) :
           regs[P[top.fn].descs[e].slot] = IF e = d THEN Nil ELSE Holds(P, top, e)
  <2> DEFINE slot(e) == P[top.fn].descs[e].slot
  <2>1. /\ \A e \in Locals(P, top) : slot(e) \in 1..Slots /\ (slot(e) = slot(d) => e = d)
        /\ \A e : Holds(P, top, e) = top.regs[slot(e)]
    BY <1>1, OfAProgram DEF OneSlotEach, Locals, Holds
  <2>2. regs = [top.regs EXCEPT ![slot(d)] = Nil] /\ Nil \in Nat
    BY DEF Nil
  <2> HIDE DEF top, slot, regs
  <2>3. /\ regs \in [1..Slots -> Nat]
        /\ \A e \in Locals(P, top) : regs[slot(e)] = IF e = d THEN Nil ELSE top.regs[slot(e)]
    BY <1>1, <2>1, <2>2
  <2> QED
    BY <2>1, <2>3 DEF slot
<1> HIDE DEF lg2, regs
<1>5. SameBelow(own, lg, own, lg2, Len(fs))
  BY <1>2, <1>3 DEF SameBelow
<1>6. HoldsInRegs(P, top.fn, pc, regs, own, lg2, Len(fs))
  <2>1. ASSUME NEW e \in Locals(P, top), regs[P[top.fn].descs[e].slot] # Nil
        PROVE  /\ e \in Account(P, top.fn)[pc]
               /\ IsOpen(own, lg2, regs[P[top.fn].descs[e].slot])
               /\ own[regs[P[top.fn].descs[e].slot]].depth = Len(fs)
               /\ own[regs[P[top.fn].descs[e].slot]].desc = e
    <3>1. e # d /\ regs[P[top.fn].descs[e].slot] = Holds(P, top, e)
      BY <1>4, <2>1
    <3>2. /\ e \in Account(P, top.fn)[top.pc] /\ IsOpen(own, lg, Holds(P, top, e))
          /\ own[Holds(P, top, e)].depth = Len(fs) /\ own[Holds(P, top, e)].desc = e
      BY <1>1, <2>1, <3>1 DEF IsStack, HoldsItsOwn
    <3>3. Holds(P, top, e) # v
      BY <1>2, <3>1, <3>2
    <3> QED
      BY <1>3, <3>1, <3>2, <3>3
  <2>2. ASSUME NEW w, IsOpen(own, lg2, w), own[w].depth = Len(fs)
        PROVE  /\ own[w].desc \in Locals(P, top)
               /\ regs[P[top.fn].descs[own[w].desc].slot] = w
    <3>1. own[w].desc \in Locals(P, top) /\ Holds(P, top, own[w].desc) = w /\ w # v
      BY <1>3, <2>2 DEF IsStack, IsHeld
    <3> QED
      BY <1>4, <3>1
  <2>3. Locals(P, top) = DOMAIN P[top.fn].descs
    BY DEF Locals
  <2> QED
    BY <2>1, <2>2, <2>3 DEF HoldsInRegs
<1> QED
  BY <1>1, <1>4, <1>5, <1>6, Replaced DEF regs, lg2

--------------------------- (* Unwinding *) ----------------------------------
(* begin_unwind finds every value that is to be closed. *)
LEMMA Collected ==
  ASSUME WellClosed(prog), NEW fs, IsStack(prog, fs, owner, log), Made(owner, log)
  PROVE  IsQueue(Collect(fs), owner, log)
<1>0. \A i \in DOMAIN fs : fs[i].fn # Native => fs[i].fn \in DOMAIN prog /\ fs[i].pc \in Nat
  <2> SUFFICES ASSUME NEW i \in DOMAIN fs, fs[i].fn # Native
               PROVE  fs[i].fn \in DOMAIN prog /\ fs[i].pc \in Nat
    OBVIOUS
  <2> DEFINE S == LuaFrames(prog) \cup {NativeFrame}
  <2>1. fs \in Seq(S)
    BY DEF IsStack
  <2> HIDE DEF S
  <2>2. fs[i] \in S
    BY <2>1
  <2>3. fs[i] \in LuaFrames(prog)
    BY <2>2 DEF S, NativeFrame
  <2> QED
    BY <2>3 DEF LuaFrames
<1>1. ASSUME NEW i \in DOMAIN fs, fs[i].fn # Native, NEW d \in Locals(prog, fs[i]),
             Holds(prog, fs[i], d) # Nil
      PROVE  d \in LiveIn(fs[i])
  <2>1. d \in Account(prog, fs[i].fn)[fs[i].pc] /\ fs[i].pc \in DOMAIN prog[fs[i].fn].code
    BY <1>1 DEF IsStack, HoldsItsOwn
  <2>2. IsAccount(prog[fs[i].fn], Account(prog, fs[i].fn))
    BY <1>0, <1>1, OfAProgram
  <2>3. prog[fs[i].fn].descs[d].start <= fs[i].pc
    BY <2>1, <2>2 DEF IsAccount, InScopes
  <2>4. prog[fs[i].fn].descs[d].start \in Nat /\ fs[i].pc \in Nat
    <3>1. prog[fs[i].fn].descs \in Seq(Descriptors) /\ d \in DOMAIN prog[fs[i].fn].descs
      BY <1>0, <1>1, OfAProgram DEF Locals
    <3> DEFINE descs == prog[fs[i].fn].descs
    <3> HIDE DEF descs
    <3>2. descs \in Seq(Descriptors) /\ d \in DOMAIN descs
      BY <3>1 DEF descs
    <3>3. descs[d] \in Descriptors
      BY <3>2
    <3>4. descs[d].start \in Nat
      BY <3>3 DEF Descriptors
    <3> QED
      BY <1>0, <1>1, <3>4 DEF descs
  <2> QED
    BY <1>1, <2>3, <2>4 DEF LiveIn, Descs, Locals, Holds
<1>2. ASSUME NEW e \in Collect(fs)
      PROVE  IsOpen(owner, log, e.value) /\ e = Entry(owner, e.value)
  <2>1. PICK i \in DOMAIN fs : \E d \in LiveIn(fs[i]) :
          e = [depth |-> i, desc |-> d, value |-> fs[i].regs[Descs(fs[i])[d].slot]]
    BY <1>2 DEF Collect
  <2>2. PICK d \in LiveIn(fs[i]) :
          e = [depth |-> i, desc |-> d, value |-> fs[i].regs[Descs(fs[i])[d].slot]]
    BY <2>1
  <2>3. /\ fs[i].fn # Native /\ d \in Locals(prog, fs[i])
        /\ Holds(prog, fs[i], d) # Nil /\ e.value = Holds(prog, fs[i], d)
        /\ e = [depth |-> i, desc |-> d, value |-> e.value]
    BY <2>2 DEF LiveIn, Descs, Locals, Holds
  <2>4. /\ IsOpen(owner, log, e.value)
        /\ owner[e.value].depth = i /\ owner[e.value].desc = d
    BY <2>3 DEF IsStack, HoldsItsOwn
  <2> QED
    BY <2>3, <2>4 DEF Entry
<1>3. ASSUME NEW v, IsOpen(owner, log, v)
      PROVE  \E e \in Collect(fs) : e.value = v
  <2> DEFINE i == owner[v].depth
             d == owner[v].desc
             e == [depth |-> i, desc |-> d, value |-> fs[i].regs[Descs(fs[i])[d].slot]]
  <2>1. /\ i \in DOMAIN fs /\ fs[i].fn # Native /\ d \in Locals(prog, fs[i])
        /\ Holds(prog, fs[i], d) = v /\ v # Nil
    BY <1>3, OpenIsOwned DEF IsStack, IsHeld
  <2>2. d \in LiveIn(fs[i])
    BY <1>1, <2>1
  <2>3. e.value = v
    BY <2>1 DEF Holds, Descs
  <2>4. e \in Collect(fs)
    BY <2>1, <2>2 DEF Collect
  <2> QED
    BY <2>3, <2>4
<1> QED
  BY <1>2, <1>3 DEF IsQueue

(* The last entry of the queue is the value that was opened last. *)
LEMMA LastIsLast ==
  ASSUME NEW q, NEW own, NEW lg, IsQueue(q, own, lg), Made(own, lg), Ordered(own, lg),
         NEW last \in q, \A other \in q : ~Before(last, other)
  PROVE  /\ IsOpen(own, lg, last.value)
         /\ \A w : IsOpen(own, lg, w) => w <= last.value
         /\ IsQueue(q \ {last}, own, Append(lg, last.value))
<1> DEFINE v == last.value
<1>1. \A e \in q : /\ IsOpen(own, lg, e.value) /\ e = Entry(own, e.value)
                   /\ own[e.value].depth = e.depth /\ own[e.value].desc = e.desc
  BY DEF IsQueue, Entry
<1>2. ASSUME NEW e \in q
      PROVE  e.value < v \/ e.value = v
  <2>1. /\ e.value \in Nat /\ own[e.value].depth \in Nat /\ own[e.value].desc \in Nat
        /\ own[e.value] = [depth |-> own[e.value].depth, desc |-> own[e.value].desc]
        /\ v \in Nat /\ own[v].depth \in Nat /\ own[v].desc \in Nat
        /\ own[v] = [depth |-> own[v].depth, desc |-> own[v].desc]
    BY <1>1, OpenIsOwned
  <2>2. ~Before(own[v], own[e.value])
    BY <1>1 DEF Before
  <2>3. Before(own[e.value], own[v]) \/ own[e.value] = own[v]
    BY <2>1, <2>2 DEF Before
  <2> QED
    BY <1>1, <2>1, <2>3 DEF Ordered
<1>3. \A w : IsOpen(own, lg, w) => w <= v
  <2> SUFFICES ASSUME NEW w, IsOpen(own, lg, w) PROVE w <= v
    OBVIOUS
  <2>1. PICK e \in q : e.value = w
    BY DEF IsQueue
  <2>2. v \in Nat /\ w \in Nat
    BY <1>1, OpenIsOwned
  <2>3. w < v \/ w = v
    BY <1>2, <2>1
  <2> QED
    BY <2>2, <2>3
<1>4. \A w : IsOpen(own, Append(lg, v), w) <=> IsOpen(own, lg, w) /\ w # v
  BY <1>1, Called
<1>5. IsQueue(q \ {last}, own, Append(lg, v))
  <2>1. ASSUME NEW w, IsOpen(own, Append(lg, v), w)
        PROVE  \E e \in q \ {last} : e.value = w
    BY <1>4, <2>1 DEF IsQueue
  <2>2. ASSUME NEW e \in q \ {last}
        PROVE  e.value # v
    BY <1>1
  <2> QED
    BY <1>1, <1>4, <2>1, <2>2 DEF IsQueue
<1> QED
  BY <1>1, <1>3, <1>5

--------------------------- (* Steps *) --------------------------------------
(* What a step may do to the values. *)
MakesNext ==
  \E depth, desc \in Nat :
    /\ owner' = Append(owner, [depth |-> depth, desc |-> desc])
    /\ Len(owner) < MaxValues /\ log' = log

ClosesLast ==
  \E v : /\ IsOpen(owner, log, v) /\ \A w : IsOpen(owner, log, w) => w <= v
        /\ log' = Append(log, v) /\ owner' = owner

Handles == UNCHANGED <<owner, log>> \/ MakesNext \/ ClosesLast

AllWellClosed == \A p \in Programs : WellClosed(p)

LEMMA Stepping ==
  ASSUME AllWellClosed, CloseInv, NEW op, Steps(op)
  PROVE  /\ prog \in Programs /\ WellClosed(prog) /\ Executes
         /\ Made(owner, log) /\ Ordered(owner, log)
         /\ status = "running" /\ error = "none" /\ pending = NotPending /\ frames # <<>>
         /\ IsStack(prog, frames, owner, log)
         /\ DOMAIN frames = 1..Len(frames) /\ Len(frames) \in Nat \ {0}
         /\ \A i \in DOMAIN frames : frames[i].fn # Native
         /\ Top \in LuaFrames(prog)
         /\ Top.fn \in DOMAIN prog /\ Top.pc \in Nat /\ Top.regs \in [1..Slots -> Nat]
         /\ Top.pc \in DOMAIN prog[Top.fn].code
         /\ Instr \in Instructions /\ Instr.op = op
         /\ Instr = prog[Top.fn].code[Top.pc]
         /\ IsAccount(prog[Top.fn], Account(prog, Top.fn))
<1>1. /\ prog \in Programs /\ WellClosed(prog) /\ Executes
      /\ Made(owner, log) /\ Ordered(owner, log)
      /\ status = "running" /\ error = "none" /\ pending = NotPending
      /\ Top.pc \in DOMAIN Code(Top) /\ Instr.op = op
  BY DEF CloseInv, Steps, AllWellClosed
<1>2. /\ frames # <<>> /\ IsStack(prog, frames, owner, log)
      /\ OnlyTopIsNative(frames, "none")
  BY <1>1 DEF Executes, NotPending
<1> DEFINE S == LuaFrames(prog) \cup {NativeFrame}
<1>3. frames \in Seq(S)
  BY <1>2 DEF IsStack
<1> HIDE DEF S
<1>4. /\ DOMAIN frames = 1..Len(frames) /\ Len(frames) \in Nat \ {0}
      /\ Len(frames) \in DOMAIN frames /\ Top \in S
  BY <1>2, <1>3 DEF Top
<1>5. \A i \in DOMAIN frames : frames[i].fn # Native
  BY <1>2 DEF OnlyTopIsNative
<1>6. Top \in LuaFrames(prog)
  BY <1>4, <1>5 DEF S, Top, NativeFrame
<1>7. Top.fn \in DOMAIN prog /\ Top.pc \in Nat /\ Top.regs \in [1..Slots -> Nat]
  BY <1>6 DEF LuaFrames
<1>8. /\ prog[Top.fn].code \in Seq(Instructions)
      /\ IsAccount(prog[Top.fn], Account(prog, Top.fn))
  BY <1>1, <1>7, OfAProgram
<1>9. Instr \in Instructions /\ Instr = prog[Top.fn].code[Top.pc]
      /\ Top.pc \in DOMAIN prog[Top.fn].code
  <2> DEFINE code == prog[Top.fn].code
  <2>1. Instr = code[Top.pc] /\ Top.pc \in DOMAIN code
    BY <1>1 DEF Instr, Code
  <2>2. code \in Seq(Instructions)
    BY <1>8
  <2> HIDE DEF code
  <2>3. code[Top.pc] \in Instructions
    BY <2>1, <2>2
  <2> QED
    BY <2>1, <2>3 DEF code
<1> QED
  BY <1>1, <1>2, <1>4, <1>5, <1>6, <1>7, <1>8, <1>9

(* Where the execution goes on. *)
LEMMA NextPc ==
  ASSUME AllWellClosed, CloseInv, NEW op, Steps(op), op \notin {"Jump", "Branch", "Return"}
  PROVE  Top.pc + 1 \in Successors(prog[Top.fn].code, Top.pc)
<1>1. prog[Top.fn].code[Top.pc].op = op
  BY Stepping
<1> QED
  BY <1>1 DEF Successors

(* The <close> locals of the top frame hold the same in regs. *)
KeepsLocals(regs) ==
  \A d \in Locals(prog, Top) :
    regs[prog[Top.fn].descs[d].slot] = Top.regs[prog[Top.fn].descs[d].slot]

LEMMA Advanced ==
  ASSUME AllWellClosed, CloseInv, NEW op, Steps(op),
         NEW next \in Successors(prog[Top.fn].code, Top.pc),
         NEW regs \in [1..Slots -> Nat],
         op = "CloseVar" => Top.regs[Instr.slot] = Nil,
         KeepsLocals(regs)
  PROVE  /\ IsStack(prog, Moved(frames, next, regs), owner, log)
         /\ next \in Nat /\ next \in DOMAIN prog[Top.fn].code
         /\ Opens(Instr) => Instr.desc \in Account(prog, Top.fn)[next]
<1>1. /\ next \in DOMAIN prog[Top.fn].code
      /\ Held(prog[Top.fn], Account(prog, Top.fn), Top.pc) \subseteq Account(prog, Top.fn)[next]
  BY Stepping, Flows
<1>2. next \in Nat
  <2>1. prog[Top.fn].code \in Seq(Instructions)
    BY Stepping, OfAProgram
  <2> QED
    BY <1>1, <2>1
<1>3. ASSUME NEW d \in Locals(prog, Top), regs[prog[Top.fn].descs[d].slot] # Nil
      PROVE  d \in Account(prog, Top.fn)[next]
  <2>1. Holds(prog, Top, d) # Nil
    BY <1>3 DEF Holds, KeepsLocals
  <2>2. d \in Account(prog, Top.fn)[Top.pc]
    BY <2>1, Stepping DEF IsStack, HoldsItsOwn, Top
  <2>3. Instr.op = "CloseVar" => prog[Top.fn].descs[d].slot # Instr.slot
    BY <2>1, Stepping DEF Holds
  <2>4. d \in Held(prog[Top.fn], Account(prog, Top.fn), Top.pc)
    BY <2>2, <2>3, Stepping DEF Held
  <2> QED
    BY <1>1, <2>4
<1>4. Opens(Instr) => Instr.desc \in Account(prog, Top.fn)[next]
  BY <1>1, Stepping DEF Held
<1>5. IsStack(prog, Moved(frames, next, regs), owner, log)
  <2>1. \A d \in Locals(prog, frames[Len(frames)]) :
          LET slot == prog[frames[Len(frames)].fn].descs[d].slot IN
          /\ regs[slot] = frames[Len(frames)].regs[slot]
          /\ regs[slot] # Nil => d \in Account(prog, frames[Len(frames)].fn)[next]
    BY <1>3 DEF Top, KeepsLocals
  <2>2. /\ IsStack(prog, frames, owner, log) /\ frames # <<>>
        /\ frames[Len(frames)].fn # Native
        /\ next \in DOMAIN prog[frames[Len(frames)].fn].code
    BY <1>1, Stepping DEF Top
  <2> QED
    BY <1>2, <2>1, <2>2, Moves
<1> QED
  BY <1>1, <1>2, <1>4, <1>5

AllLua(fs) == \A i \in DOMAIN fs : fs[i].fn # Native

LEMMA MovedTop ==
  ASSUME NEW P, NEW fs, fs \in Seq(LuaFrames(P) \cup {NativeFrame}), fs # <<>>,
         AllLua(fs), NEW pc \in Nat, NEW regs \in [1..Slots -> Nat]
  PROVE  LET gs == Moved(fs, pc, regs) IN
         /\ gs # <<>> /\ Len(gs) = Len(fs) /\ AllLua(gs) /\ DOMAIN gs = 1..Len(fs)
         /\ gs[Len(fs)].fn = fs[Len(fs)].fn /\ gs[Len(fs)].pc = pc /\ gs[Len(fs)].regs = regs
         /\ Len(fs) \in Nat \ {0}
         /\ \A pc2 \in Nat : \A regs2 \in [1..Slots -> Nat] :
              Moved(gs, pc2, regs2) = Moved(fs, pc2, regs2)
<1> DEFINE S == LuaFrames(P) \cup {NativeFrame}
           gs == Moved(fs, pc, regs)
<1>1. fs \in Seq(S)
  OBVIOUS
<1> HIDE DEF S
<1>2. DOMAIN fs = 1..Len(fs) /\ Len(fs) \in Nat \ {0} /\ Len(fs) \in DOMAIN fs
  BY <1>1
<1>3. fs[Len(fs)].fn # Native
  BY <1>2 DEF AllLua
<1>5. /\ Len(gs) = Len(fs) /\ DOMAIN gs = 1..Len(fs)
      /\ gs[Len(fs)].fn = fs[Len(fs)].fn /\ gs[Len(fs)].pc = pc /\ gs[Len(fs)].regs = regs
      /\ \A i \in 1..Len(fs) : i # Len(fs) => gs[i] = fs[i]
      /\ gs[Len(fs)] \in LuaFrames(P) /\ fs[Len(fs)] \in LuaFrames(P)
  <2>1. /\ Len(gs) = Len(fs) /\ DOMAIN gs = 1..Len(fs)
        /\ \A i \in 1..Len(fs) : i # Len(fs) => gs[i] = fs[i]
    BY <1>3, MovedFrames
  <2>2. gs[Len(fs)] \in LuaFrames(P) /\ fs[Len(fs)] \in LuaFrames(P)
    BY <1>3, MovedFrames
  <2>3. /\ gs[Len(fs)].fn = fs[Len(fs)].fn /\ gs[Len(fs)].pc = pc
        /\ gs[Len(fs)].regs = regs
    BY <1>3, MovedFrames
  <2> QED
    BY <2>1, <2>2, <2>3
<1>6. AllLua(gs)
  BY <1>2, <1>5 DEF AllLua
<1>7. gs # <<>>
  BY <1>2, <1>5
<1>8. ASSUME NEW pc2 \in Nat, NEW regs2 \in [1..Slots -> Nat]
      PROVE  Moved(gs, pc2, regs2) = Moved(fs, pc2, regs2)
  <2>1. [gs[Len(fs)] EXCEPT !.pc = pc2, !.regs = regs2]
          = [fs[Len(fs)] EXCEPT !.pc = pc2, !.regs = regs2]
    BY <1>5 DEF LuaFrames
  <2> DEFINE top2 == [fs[Len(fs)] EXCEPT !.pc = pc2, !.regs = regs2]
  <2>2. /\ Moved(gs, pc2, regs2) = [gs EXCEPT ![Len(fs)] = top2]
        /\ Moved(fs, pc2, regs2) = [fs EXCEPT ![Len(fs)] = top2]
    BY <1>5, <2>1 DEF Moved
  <2>3. /\ gs = [i \in DOMAIN fs |-> gs[i]]
        /\ [gs EXCEPT ![Len(fs)] = top2]
             = [i \in DOMAIN fs |-> IF i = Len(fs) THEN top2 ELSE gs[i]]
        /\ [fs EXCEPT ![Len(fs)] = top2]
             = [i \in DOMAIN fs |-> IF i = Len(fs) THEN top2 ELSE fs[i]]
    <3> HIDE DEF top2
    <3>1. gs = [i \in DOMAIN fs |-> gs[i]]
      <4>1. gs = [i \in DOMAIN fs |->
                   IF i = Len(fs) THEN [fs[Len(fs)] EXCEPT !.pc = pc, !.regs = regs]
                   ELSE fs[i]]
        BY <1>2 DEF Moved
      <4> HIDE DEF gs
      <4> QED
        BY <4>1
    <3> HIDE DEF gs
    <3> QED
      BY <1>1, <1>2, <3>1
  <2>4. \A i \in DOMAIN fs : (IF i = Len(fs) THEN top2 ELSE gs[i])
                              = (IF i = Len(fs) THEN top2 ELSE fs[i])
    BY <1>2, <1>5
  <2> HIDE DEF gs, top2
  <2> QED
    BY <2>2, <2>3, <2>4
<1> QED
  BY <1>2, <1>5, <1>6, <1>7, <1>8

(* Steps that keep the task running. *)
LEMMA StillRuns ==
  ASSUME prog \in Programs, prog' = prog, Made(owner', log'), Ordered(owner', log'),
         IsStack(prog, frames', owner', log'), queue' = {}, error' = "none",
         status' = "running", frames' # <<>>, OnlyTopIsNative(frames', pending'.kind), Waits'
  PROVE  CloseInv'
<1>1. Executes'
  BY DEF Executes
<1> QED
  BY <1>1 DEF CloseInv

(* A value that a call is to put in a local, or that is at hand, finds the *)
(* local ready, once the execution is at the next instruction.             *)
LEMMA ReadyLocal ==
  ASSUME AllWellClosed, CloseInv, NEW op \in {"Make", "Open"}, Steps(op),
         NEW f, f.fn = Top.fn, f.pc = Top.pc + 1,
         \A d \in Locals(prog, Top) : Holds(prog, f, d) = Holds(prog, Top, d)
  PROVE  Awaits(prog, f, Instr.slot, Instr.desc)
<1>1. SlotsApart(prog[Top.fn], Account(prog, Top.fn), Top.pc)
  BY Stepping DEF IsAccount
<1>2. Locals(prog, f) = Locals(prog, Top)
  BY DEF Locals
<1>3. Instr = prog[Top.fn].code[Top.pc] /\ Instr.op = op
  BY Stepping
<1>4. CASE Instr.desc = 0
  <2>1. Instr.slot \notin {prog[Top.fn].descs[d].slot : d \in DOMAIN prog[Top.fn].descs}
    BY <1>1, <1>3, <1>4 DEF SlotsApart, Opens
  <2> QED
    BY <1>2, <1>4, <2>1 DEF Awaits, Locals
<1>5. CASE Instr.desc # 0
  <2>1. Opens(Instr)
    BY <1>3, <1>5 DEF Opens
  <2>2. /\ Instr.desc \in Locals(prog, Top)
        /\ Instr.slot = prog[Top.fn].descs[Instr.desc].slot
    BY <1>1, <1>3, <1>5, <2>1 DEF SlotsApart, Locals, Opens
  <2>3. Instr.desc \in Account(prog, Top.fn)[Top.pc + 1]
    <3>1. Top.regs \in [1..Slots -> Nat] /\ KeepsLocals(Top.regs)
      BY Stepping DEF KeepsLocals
    <3>2. Top.pc + 1 \in Successors(prog[Top.fn].code, Top.pc)
      BY NextPc
    <3> QED
      BY <2>1, <3>1, <3>2, Advanced
  <2>4. \A d \in Account(prog, Top.fn)[Top.pc] : d < Instr.desc
    BY <1>3, <2>1, Stepping DEF IsAccount, InOrder
  <2>5. \A d \in Locals(prog, Top) : Holds(prog, f, d) # Nil => d < Instr.desc
    BY <2>4, Stepping DEF IsStack, HoldsItsOwn, Top
  <2> QED
    BY <1>2, <1>5, <2>2, <2>3, <2>5 DEF Awaits
<1> QED
  BY <1>4, <1>5

LEMMA MakeOk ==
  ASSUME AllWellClosed, CloseInv, Make
  PROVE  CloseInv' /\ Handles
<1> DEFINE slot == Instr.slot
           desc == Instr.desc
           pc == Top.pc + 1
           n == Len(owner) + 1
           fs == Moved(frames, pc, Top.regs)
           f == fs[Len(fs)]
           regs == [Top.regs EXCEPT ![slot] = n]
           own2 == Append(owner, [depth |-> Len(frames), desc |-> desc])
<1>1. /\ Steps("Make") /\ Len(owner) < MaxValues
      /\ frames' = Moved(frames, pc, regs) /\ owner' = own2
      /\ prog' = prog /\ pending' = pending /\ queue' = queue /\ error' = error
      /\ status' = status /\ log' = log
  BY DEF Make, Own, Advance, Moved
<1>2. slot \in Nat /\ desc \in Nat
  BY <1>1, Stepping DEF Instructions
<1>3. pc \in Successors(prog[Top.fn].code, Top.pc)
  BY <1>1, NextPc
<1>4. IsStack(prog, fs, owner, log) /\ pc \in Nat
  <2>1. Top.regs \in [1..Slots -> Nat] /\ KeepsLocals(Top.regs)
    BY <1>1, Stepping DEF KeepsLocals
  <2> QED
    BY <1>1, <1>3, <2>1, Advanced
<1>5. /\ frames \in Seq(LuaFrames(prog) \cup {NativeFrame}) /\ AllLua(frames)
      /\ frames # <<>> /\ Top.regs \in [1..Slots -> Nat]
  BY <1>1, Stepping DEF IsStack, AllLua
<1>6. /\ fs # <<>> /\ Len(fs) = Len(frames) /\ AllLua(fs) /\ DOMAIN fs = 1..Len(frames)
      /\ f.fn = Top.fn /\ f.pc = pc /\ f.regs = Top.regs /\ Len(frames) \in Nat \ {0}
      /\ regs \in [1..Slots -> Nat] => Moved(fs, pc, regs) = Moved(frames, pc, regs)
  <2> DEFINE r == Top.regs
  <2> HIDE DEF r
  <2>1. r \in [1..Slots -> Nat] /\ fs = Moved(frames, pc, r) /\ pc \in Nat
    BY <1>4, <1>5 DEF r
  <2> HIDE DEF fs, pc, regs
  <2>2. fs # <<>> /\ Len(fs) = Len(frames) /\ AllLua(fs) /\ DOMAIN fs = 1..Len(frames)
    BY <1>5, <2>1, MovedTop
  <2>3. /\ fs[Len(frames)].fn = frames[Len(frames)].fn /\ fs[Len(frames)].pc = pc
        /\ fs[Len(frames)].regs = r /\ Len(frames) \in Nat \ {0}
    BY <1>5, <2>1, MovedTop, SMTT(30)
  <2>4. regs \in [1..Slots -> Nat] => Moved(fs, pc, regs) = Moved(frames, pc, regs)
    BY <1>5, <2>1, MovedTop
  <2> QED
    BY <2>2, <2>3, <2>4 DEF Top, r
<1> HIDE DEF fs
<1>7. Awaits(prog, f, slot, desc)
  <2>1. \A d : Holds(prog, f, d) = Holds(prog, Top, d)
    BY <1>6 DEF Holds
  <2> HIDE DEF f
  <2> QED
    BY <1>1, <1>6, <2>1, ReadyLocal
<1>8. f.fn # Native
  BY <1>6 DEF AllLua
<1>9. /\ IsStack(prog, Moved(fs, pc, regs), own2, log)
      /\ Made(own2, log) /\ Ordered(own2, log)
  BY <1>1, <1>2, <1>4, <1>6, <1>7, <1>8, Stepping, Placed
<1>10. n \in Nat /\ regs \in [1..Slots -> Nat]
  <2>1. n \in Nat
    BY <1>1, Stepping DEF Made
  <2> HIDE DEF n
  <2> QED
    BY <1>5, <2>1
<1>11. /\ IsStack(prog, frames', own2, log)
       /\ frames' # <<>> /\ AllLua(frames')
  <2>1. IsStack(prog, frames', own2, log)
    BY <1>1, <1>6, <1>9, <1>10
  <2> HIDE DEF pc, regs, own2
  <2>2. frames' # <<>> /\ AllLua(frames')
    BY <1>1, <1>4, <1>5, <1>10, MovedTop
  <2> QED
    BY <2>1, <2>2
<1> HIDE DEF own2
<1>12. OnlyTopIsNative(frames', pending'.kind) /\ Waits'
  BY <1>1, <1>11, Stepping DEF OnlyTopIsNative, AllLua, Waits, NotPending
<1>13. CloseInv'
  BY <1>1, <1>9, <1>11, <1>12, Stepping, StillRuns DEF Executes
<1>14. MakesNext
  BY <1>1, <1>2, <1>6 DEF MakesNext, own2
<1> QED
  BY <1>13, <1>14 DEF Handles

(* The frame moves on and its <close> locals keep what they hold. *)
LEMMA Goes ==
  ASSUME AllWellClosed, CloseInv, NEW op, Steps(op),
         NEW next \in Successors(prog[Top.fn].code, Top.pc),
         NEW regs \in [1..Slots -> Nat],
         op = "CloseVar" => Top.regs[Instr.slot] = Nil,
         KeepsLocals(regs)
  PROVE  LET fs == Moved(frames, next, regs) IN
         /\ IsStack(prog, fs, owner, log) /\ fs # <<>> /\ AllLua(fs)
         /\ Len(fs) = Len(frames) /\ DOMAIN fs = 1..Len(frames)
         /\ fs[Len(frames)].fn = Top.fn /\ fs[Len(frames)].pc = next
         /\ fs[Len(frames)].regs = regs /\ Len(frames) \in Nat \ {0}
<1> DEFINE fs == Moved(frames, next, regs)
<1>1. IsStack(prog, fs, owner, log) /\ next \in Nat
  BY Advanced
<1>2. /\ frames \in Seq(LuaFrames(prog) \cup {NativeFrame}) /\ AllLua(frames)
      /\ frames # <<>>
  BY Stepping DEF IsStack, AllLua
<1>3. fs # <<>> /\ Len(fs) = Len(frames) /\ AllLua(fs) /\ DOMAIN fs = 1..Len(frames)
  <2>1. fs # <<>> /\ Len(fs) = Len(frames)
    BY <1>1, <1>2, MovedTop
  <2>2. AllLua(fs) /\ DOMAIN fs = 1..Len(frames)
    BY <1>1, <1>2, MovedTop
  <2> QED
    BY <2>1, <2>2
<1>4. /\ fs[Len(frames)].fn = frames[Len(frames)].fn /\ fs[Len(frames)].pc = next
      /\ fs[Len(frames)].regs = regs /\ Len(frames) \in Nat \ {0}
  BY <1>1, <1>2, MovedTop
<1> QED
  BY <1>1, <1>3, <1>4 DEF Top

LEMMA GoesOn ==
  ASSUME AllWellClosed, CloseInv, NEW op, Steps(op),
         NEW next \in Successors(prog[Top.fn].code, Top.pc),
         NEW regs \in [1..Slots -> Nat],
         op = "CloseVar" => Top.regs[Instr.slot] = Nil,
         KeepsLocals(regs),
         frames' = Moved(frames, next, regs),
         UNCHANGED <<prog, pending, queue, error, status, owner, log>>
  PROVE  CloseInv' /\ Handles
<1>1. IsStack(prog, frames', owner, log) /\ frames' # <<>> /\ AllLua(frames')
  BY Goes
<1>2. OnlyTopIsNative(frames', pending'.kind) /\ Waits'
  BY <1>1, Stepping DEF OnlyTopIsNative, AllLua, Waits, NotPending
<1>3. CloseInv'
  BY <1>1, <1>2, Stepping, StillRuns DEF Executes
<1> QED
  BY <1>3 DEF Handles

LEMMA JumpOk ==
  ASSUME AllWellClosed, CloseInv, Jump
  PROVE  CloseInv' /\ Handles
<1>1. Steps("Jump") /\ frames' = Moved(frames, Instr.to, Top.regs)
  BY DEF Jump, Goto, Advance, Moved
<1>2. Instr.to \in Successors(prog[Top.fn].code, Top.pc)
  <2>1. Instr = prog[Top.fn].code[Top.pc] /\ Instr.op = "Jump"
    BY <1>1, Stepping
  <2> QED
    BY <2>1 DEF Successors
<1>3. Top.regs \in [1..Slots -> Nat] /\ KeepsLocals(Top.regs)
  BY <1>1, Stepping DEF KeepsLocals
<1> QED
  BY <1>1, <1>2, <1>3, GoesOn DEF Jump

LEMMA BranchOk ==
  ASSUME AllWellClosed, CloseInv, Branch
  PROVE  CloseInv' /\ Handles
<1>1. Steps("Branch")
  BY DEF Branch
<1>2. PICK next \in {Top.pc + 1, Instr.to} : frames' = Moved(frames, next, Top.regs)
  BY DEF Branch, Goto, Advance, Moved
<1>3. next \in Successors(prog[Top.fn].code, Top.pc)
  <2>1. Instr = prog[Top.fn].code[Top.pc] /\ Instr.op = "Branch"
    BY <1>1, Stepping
  <2> QED
    BY <1>2, <2>1 DEF Successors
<1>4. Top.regs \in [1..Slots -> Nat] /\ KeepsLocals(Top.regs)
  BY <1>1, Stepping DEF KeepsLocals
<1> QED
  BY <1>1, <1>2, <1>3, <1>4, GoesOn DEF Branch

(* A register that holds nothing that is to be closed gets another value. *)
LEMMA ClearOk ==
  ASSUME AllWellClosed, CloseInv, Clear
  PROVE  CloseInv' /\ Handles
<1>1. PICK op \in {"LoadNil", "Count"} : Steps(op)
  BY DEF Clear
<1> DEFINE regs == [Top.regs EXCEPT ![Instr.slot] = Nil]
<1>2. frames' = Moved(frames, Top.pc + 1, regs)
  BY DEF Clear, Advance, Moved
<1>3. Top.pc + 1 \in Successors(prog[Top.fn].code, Top.pc)
  BY <1>1, NextPc
<1>4. regs \in [1..Slots -> Nat]
  BY <1>1, Stepping DEF Nil
<1>5. ASSUME NEW d \in Locals(prog, Top)
      PROVE  regs[prog[Top.fn].descs[d].slot] = Top.regs[prog[Top.fn].descs[d].slot]
  <2>1. CASE prog[Top.fn].descs[d].slot # Instr.slot
    BY <1>1, <2>1, Stepping
  <2>2. CASE prog[Top.fn].descs[d].slot = Instr.slot
    <3>1. \A e \in Account(prog, Top.fn)[Top.pc] : Instr.slot # prog[Top.fn].descs[e].slot
      <4>1. SlotsApart(prog[Top.fn], Account(prog, Top.fn), Top.pc)
        BY <1>1, Stepping DEF IsAccount
      <4>2. Instr = prog[Top.fn].code[Top.pc] /\ Instr.op = op
        BY <1>1, Stepping
      <4> QED
        BY <1>1, <4>1, <4>2 DEF SlotsApart, Opens
    <3>2. Holds(prog, Top, d) = Nil
      BY <1>1, <2>2, <3>1, Stepping DEF IsStack, HoldsItsOwn, Top
    <3>3. Top.regs[Instr.slot] = Nil
      BY <2>2, <3>2 DEF Holds
    <3>4. regs[Instr.slot] = Nil
      <4>1. Instr.slot \in 1..Slots
        BY <1>1, <2>2, Stepping, OfAProgram DEF OneSlotEach, Locals
      <4> QED
        BY <1>1, <4>1, Stepping
    <3> QED
      BY <2>2, <3>3, <3>4
  <2> QED
    BY <2>1, <2>2
<1> HIDE DEF regs
<1>6. UNCHANGED <<prog, pending, queue, error, status, owner, log>>
  BY DEF Clear
<1>7. KeepsLocals(regs)
  BY <1>5 DEF KeepsLocals
<1> QED
  BY <1>1, <1>2, <1>3, <1>4, <1>6, <1>7, GoesOn

(* A frame is left for one that is pushed. *)
LEMMA PushedOn ==
  ASSUME NEW P, NEW fs, NEW own, NEW lg, IsStack(P, fs, own, lg), fs # <<>>, AllLua(fs),
         NEW g \in LuaFrames(P) \cup {NativeFrame}, Idle(P, g),
         g.fn # Native => g.pc \in DOMAIN P[g.fn].code
  PROVE  LET gs == Append(fs, g) IN
         /\ IsStack(P, gs, own, lg) /\ gs # <<>> /\ Len(gs) = Len(fs) + 1 /\ Len(gs) >= 2
         /\ Len(gs) - 1 = Len(fs) /\ gs[Len(fs)] = fs[Len(fs)]
         /\ g.fn # Native => AllLua(gs)
         /\ g.fn = Native => OnlyTopIsNative(gs, "NativeCall")
<1> DEFINE gs == Append(fs, g)
<1>1. /\ IsStack(P, gs, own, lg) /\ Len(gs) = Len(fs) + 1 /\ DOMAIN gs = 1..(Len(fs) + 1)
      /\ Len(fs) \in Nat /\ gs[Len(fs) + 1] = g /\ \A i \in 1..Len(fs) : gs[i] = fs[i]
  BY Pushed
<1>2. DOMAIN fs = 1..Len(fs) /\ Len(fs) # 0
  <2> DEFINE S == LuaFrames(P) \cup {NativeFrame}
  <2>1. fs \in Seq(S)
    BY DEF IsStack
  <2> HIDE DEF S
  <2> QED
    BY <2>1
<1> HIDE DEF gs
<1>3. \A i \in DOMAIN gs : (i = Len(gs) /\ gs[i] = g) \/ (i # Len(gs) /\ gs[i].fn # Native)
  BY <1>1, <1>2 DEF AllLua
<1>4. gs # <<>> /\ Len(gs) >= 2 /\ Len(gs) - 1 = Len(fs) /\ gs[Len(fs)] = fs[Len(fs)]
  BY <1>1, <1>2
<1> QED
  BY <1>1, <1>3, <1>4 DEF AllLua, OnlyTopIsNative, gs

(* What a function holds when it is entered. *)
LEMMA Entered ==
  ASSUME NEW P, WellClosed(P), NEW fn \in DOMAIN P
  PROVE  LET g == Enter(fn) IN
         /\ g \in LuaFrames(P) \cup {NativeFrame} /\ g.fn = fn /\ fn # Native
         /\ Idle(P, g) /\ g.pc \in DOMAIN P[g.fn].code
<1>1. fn # Native /\ OneSlotEach(P[fn]) /\ IsAccount(P[fn], Account(P, fn))
  BY OfAProgram
<1>2. 1 \in DOMAIN P[fn].code
  BY <1>1 DEF IsAccount
<1>3. Enter(fn) \in LuaFrames(P) /\ Enter(fn).fn = fn /\ Enter(fn).pc = 1
      /\ Enter(fn).regs = [s \in 1..Slots |-> Nil]
  BY DEF Enter, LuaFrames, Nil
<1>4. Idle(P, Enter(fn))
  BY <1>1, <1>3 DEF Idle, Locals, Holds, OneSlotEach
<1> QED
  BY <1>1, <1>2, <1>3, <1>4

LEMMA NativeIsIdle ==
  ASSUME NEW P
  PROVE  /\ NativeFrame \in LuaFrames(P) \cup {NativeFrame} /\ NativeFrame.fn = Native
         /\ Idle(P, NativeFrame)
BY DEF NativeFrame, Idle

(* All frames are dropped. *)
LEMMA Unwound ==
  ASSUME AllWellClosed, CloseInv, NEW fs, IsStack(prog, fs, owner, log),
         status = "running", NEW e, e # "none", Unwind(fs, e),
         UNCHANGED <<prog, status, owner, log>>
  PROVE  CloseInv' /\ Handles
<1>1. /\ prog \in Programs /\ WellClosed(prog) /\ Made(owner, log) /\ Ordered(owner, log)
  BY DEF CloseInv, AllWellClosed
<1>2. IsQueue(Collect(fs), owner, log)
  BY <1>1, Collected
<1>3. Unwinds' /\ error' # "none"
  BY <1>2 DEF Unwind, Unwinds
<1>4. Waits'
  BY DEF Unwind, Waits, NotPending
<1>5. CloseInv'
  BY <1>1, <1>3, <1>4 DEF CloseInv
<1> QED
  BY <1>5 DEF Handles

LEMMA CallOk ==
  ASSUME AllWellClosed, CloseInv, Call
  PROVE  CloseInv' /\ Handles
<1> DEFINE fs == Moved(frames, Top.pc + 1, Top.regs)
           g == Enter(Instr.fn)
<1>1. Steps("Call") /\ UNCHANGED <<prog, status, owner, log>>
  BY DEF Call
<1>2. /\ Top.pc + 1 \in Successors(prog[Top.fn].code, Top.pc) /\ Top.regs \in [1..Slots -> Nat]
      /\ KeepsLocals(Top.regs)
  BY <1>1, NextPc, Stepping DEF KeepsLocals
<1>3. IsStack(prog, fs, owner, log) /\ fs # <<>> /\ AllLua(fs)
  BY <1>1, <1>2, Goes
<1> HIDE DEF fs
<1>4. CASE /\ frames' = Append(fs, g)
           /\ UNCHANGED <<pending, queue, error>>
  <2>1. Instr.fn \in DOMAIN prog
    <3>1. /\ Instr = prog[Top.fn].code[Top.pc] /\ Top.pc \in DOMAIN prog[Top.fn].code
          /\ Instr.op = "Call" /\ Top.fn \in DOMAIN prog /\ WellClosed(prog)
      BY <1>1, Stepping
    <3>2. Instr.fn \in Calls(prog[Top.fn])
      BY <3>1 DEF Calls
    <3> QED
      BY <3>1, <3>2, OfAProgram
  <2>2. /\ g \in LuaFrames(prog) \cup {NativeFrame} /\ g.fn # Native /\ Idle(prog, g)
        /\ g.pc \in DOMAIN prog[g.fn].code
    BY <1>1, <2>1, Entered, Stepping
  <2> HIDE DEF g
  <2>3. IsStack(prog, frames', owner, log) /\ frames' # <<>> /\ AllLua(frames')
    BY <1>3, <1>4, <2>2, PushedOn
  <2>4. OnlyTopIsNative(frames', pending'.kind) /\ Waits'
    BY <1>1, <1>4, <2>3, Stepping DEF OnlyTopIsNative, AllLua, Waits, NotPending
  <2>5. CloseInv'
    BY <1>1, <1>4, <2>3, <2>4, Stepping, StillRuns DEF Executes
  <2> QED
    BY <1>1, <2>5 DEF Handles
<1>5. CASE Unwind(fs, "overflow")
  BY <1>1, <1>3, <1>5, Stepping, Unwound
<1> QED
  BY <1>4, <1>5 DEF Call, Advance, Moved, fs

LEMMA AwaitOk ==
  ASSUME AllWellClosed, CloseInv, Await
  PROVE  CloseInv' /\ Handles
<1> DEFINE fs == Moved(frames, Top.pc + 1, Top.regs)
<1>1. /\ Steps("Await") /\ UNCHANGED <<prog, queue, error, status, owner, log>>
      /\ frames' = Append(fs, NativeFrame)
      /\ pending' = [kind |-> "NativeCall", slot |-> 0, desc |-> 0]
  BY DEF Await, Advance, Moved
<1>2. /\ Top.pc + 1 \in Successors(prog[Top.fn].code, Top.pc) /\ Top.regs \in [1..Slots -> Nat]
      /\ KeepsLocals(Top.regs)
  BY <1>1, NextPc, Stepping DEF KeepsLocals
<1>3. IsStack(prog, fs, owner, log) /\ fs # <<>> /\ AllLua(fs)
  BY <1>1, <1>2, Goes
<1> HIDE DEF fs
<1>4. /\ IsStack(prog, frames', owner, log) /\ frames' # <<>> /\ Len(frames') >= 2
      /\ OnlyTopIsNative(frames', "NativeCall")
  BY <1>1, <1>3, NativeIsIdle, PushedOn
<1>5. OnlyTopIsNative(frames', pending'.kind) /\ Waits'
  BY <1>1, <1>4, Stepping DEF Waits
<1>6. CloseInv'
  BY <1>1, <1>4, <1>5, Stepping, StillRuns DEF Executes
<1> QED
  BY <1>1, <1>6 DEF Handles

(* The receiver or the function that waits in the slot changes no local. *)
LEMMA CalleeKeeps ==
  ASSUME AllWellClosed, CloseInv, Steps("Open")
  PROVE  Callee \in [1..Slots -> Nat] /\ KeepsLocals(Callee)
<1>1. /\ Top.regs \in [1..Slots -> Nat] /\ Instr \in Instructions /\ Instr.op = "Open"
      /\ Instr = prog[Top.fn].code[Top.pc] /\ Top.pc \in DOMAIN prog[Top.fn].code
      /\ Top.fn \in DOMAIN prog /\ WellClosed(prog)
  BY Stepping
<1> DEFINE x == IF Instr.from = 0 THEN Nil ELSE Top.regs[Instr.from]
<1>2. x \in Nat
  <2>1. Instr.from \in 0..Slots
    BY <1>1 DEF Instructions
  <2>2. Instr.from # 0 => Instr.from \in 1..Slots
    BY <2>1, BoundsAssumption
  <2> QED
    BY <1>1, <2>2 DEF Nil
<1>3. Callee = [Top.regs EXCEPT ![Instr.slot] = x]
  BY DEF Callee
<1> HIDE DEF x
<1>4. Callee \in [1..Slots -> Nat]
  BY <1>1, <1>2, <1>3
<1>5. ASSUME NEW d \in Locals(prog, Top)
      PROVE  Callee[prog[Top.fn].descs[d].slot] = Top.regs[prog[Top.fn].descs[d].slot]
  <2> DEFINE slot == prog[Top.fn].descs[d].slot
  <2>1. /\ slot \in 1..Slots
        /\ \A e \in Locals(prog, Top) : slot = prog[Top.fn].descs[e].slot => d = e
    BY <1>1, OfAProgram DEF OneSlotEach, Locals
  <2>2. CASE slot # Instr.slot
    BY <1>1, <1>3, <2>1, <2>2
  <2>3. CASE slot = Instr.slot
    <3>1. SlotsApart(prog[Top.fn], Account(prog, Top.fn), Top.pc)
      BY <1>1, OfAProgram DEF IsAccount
    <3>2. Instr.desc # 0
      <4>1. Instr.slot \in {prog[Top.fn].descs[e].slot : e \in DOMAIN prog[Top.fn].descs}
        BY <2>3 DEF Locals
      <4> QED
        BY <1>1, <3>1, <4>1 DEF SlotsApart, Opens
    <3>3. /\ Instr.from = 0 /\ Instr.desc \in DOMAIN prog[Top.fn].descs
          /\ Instr.slot = prog[Top.fn].descs[Instr.desc].slot
      BY <1>1, <3>1, <3>2 DEF SlotsApart, Opens
    <3>4. d = Instr.desc
      BY <2>1, <2>3, <3>3 DEF Locals
    <3>5. \A e \in Account(prog, Top.fn)[Top.pc] : e < Instr.desc
      BY <1>1, <3>2, OfAProgram DEF IsAccount, InOrder, Opens
    <3>6. Instr.desc \in Nat
      BY <1>1 DEF Instructions
    <3>7. Holds(prog, Top, d) = Nil
      BY <3>4, <3>5, <3>6, Stepping DEF IsStack, HoldsItsOwn, Top
    <3>8. Callee[slot] = x /\ x = Nil
      BY <1>1, <1>3, <2>1, <2>3, <3>3 DEF x
    <3> QED
      BY <3>7, <3>8 DEF Holds
  <2> QED
    BY <2>2, <2>3
<1> QED
  BY <1>4, <1>5 DEF KeepsLocals

LEMMA OpenOk ==
  ASSUME AllWellClosed, CloseInv, Open
  PROVE  CloseInv' /\ Handles
<1> DEFINE fs == Moved(frames, Top.pc + 1, Callee)
           f == fs[Len(frames)]
<1>1. /\ Steps("Open") /\ UNCHANGED <<prog, queue, error, status, owner, log>>
      /\ Len(owner) < MaxValues
      /\ frames' = Append(fs, NativeFrame)
      /\ pending' = [kind |-> "NativeCall", slot |-> Instr.slot, desc |-> Instr.desc]
  BY DEF Open, Advance, Moved
<1>2. /\ Top.pc + 1 \in Successors(prog[Top.fn].code, Top.pc)
      /\ Callee \in [1..Slots -> Nat] /\ KeepsLocals(Callee)
  BY <1>1, NextPc, CalleeKeeps
<1>3. /\ IsStack(prog, fs, owner, log) /\ fs # <<>> /\ AllLua(fs) /\ Len(fs) = Len(frames)
      /\ f.fn = Top.fn /\ f.pc = Top.pc + 1 /\ f.regs = Callee
  BY <1>1, <1>2, Goes
<1> HIDE DEF fs
<1>4. /\ IsStack(prog, frames', owner, log) /\ frames' # <<>> /\ Len(frames') >= 2
      /\ OnlyTopIsNative(frames', "NativeCall")
      /\ Len(frames') - 1 = Len(fs) /\ frames'[Len(fs)] = fs[Len(fs)]
  BY <1>1, <1>3, NativeIsIdle, PushedOn
<1>5. Awaits(prog, f, Instr.slot, Instr.desc)
  <2>1. \A d \in Locals(prog, Top) : Holds(prog, f, d) = Holds(prog, Top, d)
    BY <1>2, <1>3 DEF Holds, KeepsLocals
  <2> HIDE DEF f
  <2> QED
    BY <1>1, <1>3, <2>1, ReadyLocal
<1>6. Instr.slot \in Nat /\ Instr.desc \in Nat
  BY <1>1, Stepping DEF Instructions
<1>7. Awaits(prog, frames'[Len(frames') - 1], Instr.slot, Instr.desc)
  BY <1>3, <1>4, <1>5
<1>8. OnlyTopIsNative(frames', pending'.kind) /\ Waits'
  BY <1>1, <1>4, <1>6, <1>7, Stepping DEF Waits
<1>9. CloseInv'
  BY <1>1, <1>4, <1>8, Stepping, StillRuns DEF Executes
<1> QED
  BY <1>1, <1>9 DEF Handles

LEMMA RaiseOk ==
  ASSUME AllWellClosed, CloseInv, Raise
  PROVE  CloseInv' /\ Handles
<1>1. UNCHANGED <<prog, status, owner, log>>
  BY DEF Raise
<1>2. CASE Steps("Await") /\ Unwind(Advance(Top.pc + 1, Top.regs), "raised")
  <2> DEFINE fs == Moved(frames, Top.pc + 1, Top.regs)
  <2>1. IsStack(prog, fs, owner, log)
    BY <1>2, NextPc, Stepping, Goes DEF KeepsLocals
  <2> HIDE DEF fs
  <2>2. Unwind(fs, "raised")
    BY <1>2 DEF Advance, Moved, fs
  <2> QED
    BY <1>1, <1>2, <2>1, <2>2, Stepping, Unwound
<1>3. CASE Steps("Open") /\ Unwind(Advance(Top.pc + 1, Callee), "raised")
  <2> DEFINE fs == Moved(frames, Top.pc + 1, Callee)
  <2>1. IsStack(prog, fs, owner, log)
    BY <1>3, NextPc, CalleeKeeps, Goes
  <2> HIDE DEF fs
  <2>2. Unwind(fs, "raised")
    BY <1>3 DEF Advance, Moved, fs
  <2> QED
    BY <1>1, <1>3, <2>1, <2>2, Stepping, Unwound
<1> QED
  BY <1>2, <1>3 DEF Raise

LEMMA CloseVarOk ==
  ASSUME AllWellClosed, CloseInv, CloseVar
  PROVE  CloseInv' /\ Handles
<1> DEFINE regs == [Top.regs EXCEPT ![Instr.slot] = Nil]
           v == Top.regs[Instr.slot]
           held == Account(prog, Top.fn)
<1>1. /\ Steps("CloseVar") /\ UNCHANGED <<prog, queue, error, status, owner>>
      /\ frames' = Moved(frames, Top.pc + 1, regs)
      /\ v = Nil => UNCHANGED <<pending, log>>
      /\ v # Nil => CallHandler(v, "CloseVar")
  BY DEF CloseVar, Advance, Moved
<1>2. Top.pc + 1 \in Successors(prog[Top.fn].code, Top.pc)
  BY <1>1, NextPc
<1>3. /\ Top.regs \in [1..Slots -> Nat] /\ Top.fn \in DOMAIN prog /\ WellClosed(prog)
      /\ Instr = prog[Top.fn].code[Top.pc] /\ Instr.op = "CloseVar"
      /\ Top.pc \in DOMAIN prog[Top.fn].code /\ IsAccount(prog[Top.fn], held)
  BY <1>1, Stepping
<1>4. regs \in [1..Slots -> Nat]
  BY <1>3 DEF Nil
<1>5. PICK d \in Locals(prog, Top) : prog[Top.fn].descs[d].slot = Instr.slot
  <2>1. Instr.slot \in {prog[Top.fn].descs[d].slot : d \in DOMAIN prog[Top.fn].descs}
    BY <1>3 DEF IsAccount, SlotsApart, Opens
  <2> QED
    BY <2>1 DEF Locals
<1>6. v = Holds(prog, Top, d)
  BY <1>5 DEF Holds
<1>7. CASE v = Nil
  <2>1. KeepsLocals(regs)
    BY <1>3, <1>7 DEF KeepsLocals
  <2> HIDE DEF regs
  <2>2. UNCHANGED <<prog, pending, queue, error, status, owner, log>>
    BY <1>1, <1>7
  <2> QED
    BY <1>1, <1>2, <1>4, <1>7, <2>1, <2>2, GoesOn
<1>8. CASE v # Nil
  <2>1. /\ log' = Append(log, v) /\ pending' = [kind |-> "CloseVar", slot |-> 0, desc |-> 0]
    BY <1>1, <1>8 DEF CallHandler
  <2>2. /\ IsStack(prog, frames, owner, log) /\ frames # <<>> /\ frames[Len(frames)].fn # Native
        /\ Made(owner, log) /\ Ordered(owner, log)
    BY <1>1, Stepping DEF Top
  <2>3. \A e \in held[Top.pc] : e <= d
    BY <1>3, <1>5 DEF IsAccount, InOrder, Locals
  <2>4. /\ Top.pc + 1 \in DOMAIN prog[Top.fn].code
        /\ \A e \in held[Top.pc] : e # d => e \in held[Top.pc + 1]
    <3>1. /\ Top.pc + 1 \in DOMAIN prog[Top.fn].code
          /\ Held(prog[Top.fn], held, Top.pc) \subseteq held[Top.pc + 1]
      BY <1>2, <1>3, Flows
    <3>2. Held(prog[Top.fn], held, Top.pc)
            = {e \in held[Top.pc] : prog[Top.fn].descs[e].slot # Instr.slot}
      BY <1>3 DEF Held, Opens
    <3>3. held[Top.pc] \subseteq Locals(prog, Top)
      BY <1>3, OfAProgram DEF Locals
    <3>4. \A e \in Locals(prog, Top) : prog[Top.fn].descs[e].slot = Instr.slot => e = d
      BY <1>3, <1>5, OfAProgram DEF OneSlotEach, Locals
    <3> QED
      BY <3>1, <3>2, <3>3, <3>4
  <2>5. IsOpen(owner, log, v) /\ \A w : IsOpen(owner, log, w) => w <= v
    BY <1>3, <1>5, <1>6, <1>8, <2>2, <2>3, TakenIsLast DEF Top
  <2>6. IsStack(prog, frames', owner', log')
    <3>1. IsStack(prog, Moved(frames, Top.pc + 1, regs), owner, Append(log, v))
      BY <1>3, <1>5, <1>6, <1>8, <2>2, <2>4, Taken DEF Top
    <3> QED
      BY <1>1, <2>1, <3>1
  <2>7. Made(owner', log') /\ Ordered(owner', log')
    BY <1>1, <2>1, <2>2, <2>5, Called
  <2>8. frames' # <<>> /\ AllLua(frames')
    <3>1. /\ frames \in Seq(LuaFrames(prog) \cup {NativeFrame}) /\ AllLua(frames)
          /\ Top.pc + 1 \in Nat
      BY <1>1, <2>2, Stepping DEF IsStack, AllLua
    <3> HIDE DEF regs
    <3>2. frames' # <<>>
      BY <1>1, <1>4, <2>2, <3>1, MovedTop
    <3>3. AllLua(frames')
      BY <1>1, <1>4, <2>2, <3>1, MovedTop
    <3> QED
      BY <3>2, <3>3
  <2>9. OnlyTopIsNative(frames', pending'.kind) /\ Waits'
    BY <1>1, <2>1, <2>8, Stepping DEF OnlyTopIsNative, AllLua, Waits
  <2>10. CloseInv'
    BY <1>1, <2>6, <2>7, <2>8, <2>9, Stepping, StillRuns DEF Executes
  <2>11. ClosesLast
    BY <1>1, <2>1, <2>5 DEF ClosesLast
  <2> QED
    BY <2>10, <2>11 DEF Handles
<1> QED
  BY <1>7, <1>8

LEMMA ReturnOk ==
  ASSUME AllWellClosed, CloseInv, Return
  PROVE  CloseInv' /\ Handles
<1>1. /\ Steps("Return") /\ UNCHANGED <<prog, pending, queue, error, owner, log>>
      /\ frames' = Front(frames)
      /\ status' = IF Len(frames) = 1 THEN "returned" ELSE status
  BY DEF Return
<1>2. Account(prog, Top.fn)[Top.pc] = {}
  BY <1>1, Stepping DEF IsAccount, InScopes
<1>3. Idle(prog, Top)
  BY <1>1, <1>2, Stepping DEF Idle, IsStack, HoldsItsOwn, Top
<1>4. /\ IsStack(prog, frames', owner, log) /\ Len(frames') = Len(frames) - 1
      /\ DOMAIN frames' = 1..(Len(frames) - 1)
      /\ \A i \in 1..(Len(frames) - 1) : frames'[i] = frames[i]
  BY <1>1, <1>3, Stepping, Popped DEF Top
<1>5. AllLua(frames')
  BY <1>1, <1>4, Stepping DEF AllLua
<1>6. OnlyTopIsNative(frames', pending'.kind) /\ Waits' /\ pending' = NotPending
  BY <1>1, <1>5, Stepping DEF OnlyTopIsNative, AllLua, Waits, NotPending
<1>7. CASE Len(frames) = 1
  <2>1. frames' = <<>>
    <3>1. frames' \in Seq(LuaFrames(prog) \cup {NativeFrame}) /\ Len(frames') = 0
      BY <1>4, <1>7 DEF IsStack
    <3> QED
      BY <3>1
  <2>2. Executes' /\ error' = "none" /\ status' # "running"
    BY <1>1, <1>4, <1>6, <1>7, Stepping DEF Executes
  <2>3. CloseInv'
    BY <1>1, <1>6, <2>1, <2>2, Stepping DEF CloseInv
  <2> QED
    BY <1>1, <2>3 DEF Handles
<1>8. CASE Len(frames) # 1
  <2>1. frames' # <<>>
    BY <1>1, <1>4, <1>8, Stepping
  <2>2. CloseInv'
    BY <1>1, <1>4, <1>6, <1>8, <2>1, Stepping, StillRuns DEF Executes
  <2> QED
    BY <1>1, <2>2 DEF Handles
<1> QED
  BY <1>7, <1>8

--------------------------- (* What is awaited *) ----------------------------
(* The frames below a native call. *)
LEMMA BelowNative ==
  ASSUME AllWellClosed, CloseInv, pending.kind = "NativeCall"
  PROVE  LET fs == Front(frames) IN
         /\ prog \in Programs /\ WellClosed(prog) /\ Made(owner, log) /\ Ordered(owner, log)
         /\ status = "running" /\ error = "none" /\ queue = {}
         /\ IsStack(prog, fs, owner, log) /\ fs # <<>> /\ AllLua(fs)
         /\ Len(fs) = Len(frames) - 1 /\ Len(fs) \in Nat \ {0}
         /\ DOMAIN fs = 1..(Len(frames) - 1)
         /\ \A i \in 1..(Len(frames) - 1) : fs[i] = frames[i]
<1> DEFINE fs == Front(frames)
<1>1. /\ prog \in Programs /\ WellClosed(prog) /\ Made(owner, log) /\ Ordered(owner, log)
      /\ status = "running" /\ error = "none" /\ Executes /\ Len(frames) >= 2
  BY DEF CloseInv, AllWellClosed, Waits, NotPending
<1>2. /\ IsStack(prog, frames, owner, log) /\ OnlyTopIsNative(frames, "NativeCall")
      /\ queue = {} /\ frames # <<>>
  BY <1>1 DEF Executes
<1> DEFINE S == LuaFrames(prog) \cup {NativeFrame}
<1>3. frames \in Seq(S)
  BY <1>2 DEF IsStack
<1> HIDE DEF S
<1>4. DOMAIN frames = 1..Len(frames) /\ Len(frames) \in Nat \ {0} /\ Len(frames) \in DOMAIN frames
  BY <1>2, <1>3
<1>5. Idle(prog, frames[Len(frames)])
  BY <1>2, <1>4 DEF OnlyTopIsNative, Idle
<1>6. /\ IsStack(prog, fs, owner, log) /\ Len(fs) = Len(frames) - 1
      /\ DOMAIN fs = 1..(Len(frames) - 1)
      /\ \A i \in 1..(Len(frames) - 1) : fs[i] = frames[i]
  BY <1>2, <1>5, Popped
<1> HIDE DEF fs
<1>7. AllLua(fs)
  BY <1>2, <1>4, <1>6 DEF AllLua, OnlyTopIsNative
<1>8. fs # <<>> /\ Len(fs) \in Nat \ {0}
  BY <1>1, <1>4, <1>6
<1> QED
  BY <1>1, <1>2, <1>6, <1>7, <1>8 DEF fs

LEMMA NativeErrOk ==
  ASSUME AllWellClosed, CloseInv, NativeErr
  PROVE  CloseInv' /\ Handles
BY BelowNative, Unwound DEF NativeErr

LEMMA HandlerErrOk ==
  ASSUME AllWellClosed, CloseInv, HandlerErr
  PROVE  CloseInv' /\ Handles
<1>1. status = "running" /\ IsStack(prog, frames, owner, log)
  BY DEF CloseInv, Waits, Executes, HandlerErr, NotPending
<1> QED
  BY <1>1, Unwound DEF HandlerErr

LEMMA DisposeOk ==
  ASSUME AllWellClosed, CloseInv, Dispose
  PROVE  CloseInv' /\ Handles
<1>1. frames = <<Enter("main")>> => frames # <<>>
  OBVIOUS
<1>2. status = "running" /\ IsStack(prog, frames, owner, log)
  BY <1>1 DEF CloseInv, Executes, Dispose
<1> QED
  BY <1>2, Unwound DEF Dispose

LEMMA HandlerDoneOk ==
  ASSUME AllWellClosed, CloseInv, HandlerDone
  PROVE  CloseInv' /\ Handles
<1>1. /\ pending.kind \in {"CloseVar", "UnwindClose"} /\ pending' = NotPending
      /\ UNCHANGED <<prog, frames, queue, error, status, owner, log>>
  BY DEF HandlerDone
<1>2. Executes => Executes'
  BY <1>1 DEF Executes, OnlyTopIsNative, NotPending
<1>3. Unwinds => Unwinds'
  BY <1>1 DEF Unwinds
<1>4. Waits'
  BY <1>1 DEF Waits, NotPending
<1>5. CloseInv'
  BY <1>1, <1>2, <1>3, <1>4 DEF CloseInv
<1> QED
  BY <1>1, <1>5 DEF Handles

LEMMA UnwindNextOk ==
  ASSUME AllWellClosed, CloseInv, UnwindNext
  PROVE  CloseInv' /\ Handles
<1>1. /\ status = "running" /\ error # "none" /\ pending = NotPending
      /\ UNCHANGED <<prog, frames, error, status, owner>>
  BY DEF UnwindNext
<1>2. PICK last \in queue : /\ \A other \in queue : ~Before(last, other)
                           /\ queue' = queue \ {last}
                           /\ CallHandler(last.value, "UnwindClose")
  BY DEF UnwindNext
<1>3. /\ prog \in Programs /\ Made(owner, log) /\ Ordered(owner, log) /\ Unwinds
  BY <1>1 DEF CloseInv
<1>4. /\ IsOpen(owner, log, last.value)
      /\ \A w : IsOpen(owner, log, w) => w <= last.value
      /\ IsQueue(queue \ {last}, owner, Append(log, last.value))
  BY <1>2, <1>3, LastIsLast DEF Unwinds
<1>5. /\ log' = Append(log, last.value)
      /\ pending' = [kind |-> "UnwindClose", slot |-> 0, desc |-> 0]
  BY <1>2 DEF CallHandler
<1>6. Made(owner', log') /\ Ordered(owner', log')
  BY <1>1, <1>3, <1>4, <1>5, Called
<1>7. Unwinds'
  BY <1>1, <1>2, <1>3, <1>4, <1>5 DEF Unwinds
<1>8. Waits'
  BY <1>1, <1>5 DEF Waits
<1>9. CloseInv'
  BY <1>1, <1>3, <1>6, <1>7, <1>8 DEF CloseInv
<1>10. ClosesLast
  BY <1>1, <1>4, <1>5 DEF ClosesLast
<1> QED
  BY <1>9, <1>10 DEF Handles

LEMMA UnwindEndOk ==
  ASSUME AllWellClosed, CloseInv, UnwindEnd
  PROVE  CloseInv' /\ Handles
<1>1. /\ error # "none" /\ pending = NotPending
      /\ UNCHANGED <<prog, frames, pending, queue, error, owner, log>>
  BY DEF UnwindEnd
<1>2. Unwinds' /\ Waits'
  BY <1>1 DEF CloseInv, Unwinds, Waits
<1>3. CloseInv'
  BY <1>1, <1>2 DEF CloseInv, Unwinds
<1> QED
  BY <1>1, <1>3 DEF Handles

LEMMA NativeOkOk ==
  ASSUME AllWellClosed, CloseInv, NativeOk
  PROVE  CloseInv' /\ Handles
<1> DEFINE fs == Front(frames)
           n == Len(owner) + 1
           caller == frames[Len(frames) - 1]
           regs == IF pending.slot = 0 THEN caller.regs
                   ELSE [caller.regs EXCEPT ![pending.slot] = n]
           own2 == Append(owner, [depth |-> Len(fs), desc |-> pending.desc])
<1>1. /\ pending.kind = "NativeCall" /\ pending' = NotPending
      /\ frames' = Append(SubSeq(frames, 1, Len(frames) - 2), [caller EXCEPT !.regs = regs])
      /\ pending.slot = 0 => owner' = owner
      /\ pending.slot # 0 =>
           owner' = Append(owner, [depth |-> Len(frames) - 1, desc |-> pending.desc])
      /\ UNCHANGED <<prog, queue, error, status, log>>
  BY DEF NativeOk, Own
<1>2. /\ prog \in Programs /\ WellClosed(prog) /\ Made(owner, log) /\ Ordered(owner, log)
      /\ status = "running" /\ error = "none" /\ queue = {}
      /\ IsStack(prog, fs, owner, log) /\ fs # <<>> /\ AllLua(fs)
      /\ Len(fs) = Len(frames) - 1 /\ Len(fs) \in Nat \ {0}
      /\ DOMAIN fs = 1..(Len(frames) - 1)
      /\ \A i \in 1..(Len(frames) - 1) : fs[i] = frames[i]
  BY <1>1, BelowNative
<1>3. /\ pending.slot \in Nat /\ pending.desc \in Nat
      /\ pending.slot # 0 => /\ Len(owner) < MaxValues
                             /\ Awaits(prog, caller, pending.slot, pending.desc)
  BY <1>1 DEF CloseInv, Waits
<1> DEFINE S == LuaFrames(prog) \cup {NativeFrame}
<1>4. fs \in Seq(S) /\ frames \in Seq(S)
  <2>1. error = "none"
    BY <1>2
  <2> QED
    BY <1>2, <2>1 DEF IsStack, CloseInv, Executes
<1>5. caller = fs[Len(fs)]
  BY <1>2
<1>6. /\ caller \in LuaFrames(prog) /\ caller.fn \in DOMAIN prog /\ caller.pc \in Nat
      /\ caller.regs \in [1..Slots -> Nat] /\ caller.fn # Native
      /\ caller.pc \in DOMAIN prog[caller.fn].code
  <2> HIDE DEF S, caller, fs
  <2>1. caller \in S /\ Len(fs) \in DOMAIN fs
    BY <1>2, <1>4, <1>5
  <2>2. caller.fn # Native /\ caller.pc \in DOMAIN prog[caller.fn].code
    BY <1>2, <1>5, <2>1 DEF AllLua, IsStack
  <2>3. caller \in LuaFrames(prog)
    BY <2>1, <2>2 DEF S, NativeFrame
  <2> QED
    BY <2>2, <2>3 DEF LuaFrames
<1>7. n \in Nat /\ regs \in [1..Slots -> Nat]
  <2>1. n \in Nat
    BY <1>2 DEF Made
  <2> HIDE DEF n, caller
  <2> QED
    BY <1>6, <2>1
<1>8. frames' = Moved(fs, caller.pc, regs)
  <2> DEFINE new == [caller EXCEPT !.regs = regs]
  <2>1. new = [caller EXCEPT !.pc = caller.pc, !.regs = regs]
    <3> HIDE DEF caller, regs
    <3> QED
      BY <1>6 DEF LuaFrames
  <2>2. Moved(fs, caller.pc, regs) = [fs EXCEPT ![Len(fs)] = new]
    BY <1>5, <2>1 DEF Moved
  <2>3. new \in S
    <3> HIDE DEF caller, regs
    <3> QED
      BY <1>6, <1>7 DEF LuaFrames
  <2> DEFINE m == Len(frames) - 2
             low == SubSeq(frames, 1, m)
  <2>4. m \in Nat /\ m + 1 = Len(fs) /\ m <= Len(frames)
    BY <1>2
  <2> HIDE DEF m, new, S, fs
  <2>5. /\ low \in Seq(S) /\ Len(low) = m /\ \A i \in 1..m : low[i] = frames[i]
    BY <1>4, <2>4
  <2> HIDE DEF low
  <2>6. /\ Append(low, new) \in Seq(S) /\ Len(Append(low, new)) = m + 1
        /\ Append(low, new)[m + 1] = new /\ \A i \in 1..m : Append(low, new)[i] = low[i]
    BY <2>3, <2>4, <2>5
  <2> DEFINE gs == [fs EXCEPT ![Len(fs)] = new]
  <2>7. gs \in Seq(S) /\ Len(gs) = Len(fs)
    BY <1>2, <1>4, <2>3
  <2>8. gs[Len(fs)] = new /\ \A i \in 1..m : gs[i] = fs[i]
    BY <1>2, <1>4, <2>4
  <2> HIDE DEF gs
  <2>9. \A i \in 1..m : low[i] = fs[i]
    BY <1>2, <2>4, <2>5
  <2>10. \A i \in 1..(m + 1) : Append(low, new)[i] = gs[i]
    BY <2>4, <2>6, <2>8, <2>9
  <2> DEFINE hs == Append(low, new)
  <2> HIDE DEF hs
  <2>11. hs = gs
    <3>1. /\ hs \in Seq(S) /\ gs \in Seq(S) /\ Len(hs) = m + 1 /\ Len(gs) = m + 1
          /\ \A i \in 1..(m + 1) : hs[i] = gs[i]
      BY <2>4, <2>6, <2>7, <2>10 DEF hs
    <3> QED
      BY <3>1
  <2>12. frames' = hs
    BY <1>1 DEF hs, low, m, new
  <2> QED
    BY <2>2, <2>11, <2>12 DEF gs
<1>9. Waits' /\ pending'.kind = "none"
  BY <1>1 DEF Waits, NotPending
<1>10. frames' # <<>> /\ AllLua(frames')
  <2>1. fs \in Seq(LuaFrames(prog) \cup {NativeFrame}) /\ caller.pc \in Nat
    BY <1>4, <1>6
  <2> HIDE DEF fs, regs, caller
  <2>2. frames' # <<>>
    BY <1>2, <1>7, <1>8, <2>1, MovedTop
  <2>3. AllLua(frames')
    BY <1>2, <1>7, <1>8, <2>1, MovedTop
  <2> QED
    BY <2>2, <2>3
<1>11. OnlyTopIsNative(frames', pending'.kind)
  BY <1>9, <1>10 DEF OnlyTopIsNative, AllLua
<1>12. CASE pending.slot = 0
  <2>1. regs = caller.regs
    BY <1>12
  <2> HIDE DEF fs, caller, regs
  <2>2. \A d \in Locals(prog, fs[Len(fs)]) :
          LET slot == prog[fs[Len(fs)].fn].descs[d].slot IN
          /\ regs[slot] = fs[Len(fs)].regs[slot]
          /\ regs[slot] # Nil => d \in Account(prog, fs[Len(fs)].fn)[caller.pc]
    <3>1. Len(fs) \in DOMAIN fs /\ fs[Len(fs)].fn # Native
      BY <1>2 DEF AllLua
    <3> QED
      BY <1>2, <1>5, <2>1, <3>1 DEF IsStack, HoldsItsOwn, Holds
  <2>3. IsStack(prog, frames', owner, log)
    BY <1>2, <1>5, <1>6, <1>7, <1>8, <2>2, Moves
  <2>4. CloseInv'
    BY <1>1, <1>2, <1>9, <1>10, <1>11, <1>12, <2>3, StillRuns
  <2> QED
    BY <1>1, <1>12, <2>4 DEF Handles
<1>13. CASE pending.slot # 0
  <2>1. /\ owner' = own2 /\ regs = [caller.regs EXCEPT ![pending.slot] = n]
    BY <1>1, <1>2, <1>13
  <2>2. /\ IsStack(prog, Moved(fs, caller.pc, regs), own2, log)
        /\ Made(own2, log) /\ Ordered(own2, log)
    <3> DEFINE r2 == [caller.regs EXCEPT ![pending.slot] = n]
    <3>1. /\ IsStack(prog, Moved(fs, caller.pc, r2), own2, log)
          /\ Made(own2, log) /\ Ordered(own2, log)
      <4> HIDE DEF fs, caller
      <4> QED
        BY <1>2, <1>3, <1>5, <1>6, <1>13, Placed
    <3>2. regs = r2
      BY <2>1
    <3> QED
      BY <3>1, <3>2
  <2>3. CloseInv'
    BY <1>1, <1>2, <1>8, <1>9, <1>10, <1>11, <2>1, <2>2, StillRuns
  <2>4. MakesNext
    BY <1>1, <1>2, <1>3, <1>13, <2>1 DEF MakesNext
  <2> QED
    BY <2>3, <2>4 DEF Handles
<1> QED
  BY <1>12, <1>13

-----------------------------------------------------------------------------
LEMMA InitOk ==
  ASSUME AllWellClosed, Init
  PROVE  CloseInv
<1>1. /\ prog \in Programs /\ WellClosed(prog) /\ frames = <<Enter("main")>>
      /\ pending = NotPending /\ queue = {} /\ error = "none" /\ status = "running"
      /\ owner = <<>> /\ log = <<>>
  BY DEF Init, AllWellClosed
<1>2. \A v : ~IsOpen(<<>>, <<>>, v)
  BY DEF IsOpen
<1>3. Made(owner, log) /\ Ordered(owner, log)
  BY <1>1, <1>2 DEF Made, Ordered, Range
<1>4. "main" \in DOMAIN prog
  BY <1>1 DEF WellClosed, IsProgram
<1> DEFINE g == Enter("main")
<1>5. /\ g \in LuaFrames(prog) \cup {NativeFrame} /\ g.fn # Native
      /\ Idle(prog, g) /\ g.pc \in DOMAIN prog[g.fn].code
  BY <1>1, <1>4, Entered
<1> HIDE DEF g
<1>6. /\ frames \in Seq(LuaFrames(prog) \cup {NativeFrame}) /\ DOMAIN frames = {1}
      /\ frames[1] = g /\ Len(frames) = 1 /\ frames # <<>>
  BY <1>1, <1>5 DEF g
<1>7. IsStack(prog, frames, owner, log)
  BY <1>1, <1>2, <1>5, <1>6 DEF IsStack, HoldsItsOwn, IsHeld, Idle
<1>8. Executes
  BY <1>1, <1>5, <1>6, <1>7 DEF Executes, OnlyTopIsNative, NotPending
<1>9. Waits
  BY <1>1 DEF Waits, NotPending
<1> QED
  BY <1>1, <1>3, <1>8, <1>9 DEF CloseInv

LEMMA StepOk ==
  ASSUME AllWellClosed, CloseInv, [Next]_vars
  PROVE  CloseInv' /\ Handles
<1>1. CASE UNCHANGED vars
  <2>1. CloseInv'
    BY <1>1 DEF vars, CloseInv, Executes, Unwinds, Waits
  <2> QED
    BY <1>1, <2>1 DEF vars, Handles
<1>2. CASE Next
  BY <1>2, MakeOk, AwaitOk, OpenOk, CallOk, RaiseOk, JumpOk, BranchOk, ClearOk, CloseVarOk,
     ReturnOk, NativeOkOk, NativeErrOk, HandlerDoneOk, HandlerErrOk, UnwindNextOk,
     UnwindEndOk, DisposeOk DEF Next
<1> QED
  BY <1>1, <1>2

LEMMA Inductive ==
  ASSUME AllWellClosed
  PROVE  Spec => []CloseInv
<1>1. Init => CloseInv
  BY InitOk
<1>2. CloseInv /\ [Next]_vars => CloseInv'
  BY StepOk
<1> QED
  BY <1>1, <1>2, PTL DEF Spec

FewValues == Len(owner) <= MaxValues

LEMMA ValuesAreFew ==
  ASSUME AllWellClosed
  PROVE  Spec => []FewValues
<1>1. Init => FewValues
  BY BoundsAssumption DEF Init, FewValues
<1>2. CloseInv /\ FewValues /\ [Next]_vars => FewValues'
  <2> SUFFICES ASSUME CloseInv, FewValues, [Next]_vars PROVE FewValues'
    OBVIOUS
  <2>1. Handles
    BY StepOk
  <2>2. ASSUME MakesNext PROVE FewValues'
    <3>1. PICK depth \in Nat, desc \in Nat :
            /\ owner' = Append(owner, [depth |-> depth, desc |-> desc])
            /\ Len(owner) < MaxValues
      BY <2>2 DEF MakesNext
    <3>2. owner \in Seq([depth : Nat, desc : Nat])
      BY DEF CloseInv, Made
    <3>3. Len(owner') = Len(owner) + 1 /\ Len(owner) \in Nat
      BY <3>1, <3>2
    <3> QED
      BY <3>1, <3>3, BoundsAssumption DEF FewValues
  <2> QED
    BY <2>1, <2>2 DEF Handles, ClosesLast, FewValues
<1> QED
  BY <1>1, <1>2, Inductive, PTL DEF Spec

LEMMA UnclosedIsOpen ==
  \A v : v \in Values /\ Unclosed(v) <=> IsOpen(owner, log, v)
BY DEF Values, Unclosed, IsOpen

(* In every program whose functions keep an account, whatever fails, calls *)
(* or is disposed of when, a value that is to be closed is in a local whose *)
(* block is being executed, or in the queue of the unwinding task          *)
(* (CloseVar, begin_unwind).                                               *)
THEOREM ClosesInTime ==
  ASSUME \A p \in Programs : WellClosed(p)
  PROVE  Spec => []ClosedInTime
<1>1. AllWellClosed
  BY DEF AllWellClosed
<1>2. CloseInv => ClosedInTime
  <2> SUFFICES ASSUME CloseInv, NEW v \in Values, Unclosed(v)
               PROVE  InScope(v) \/ \E e \in queue : e.value = v
    BY DEF ClosedInTime
  <2>1. IsOpen(owner, log, v)
    BY UnclosedIsOpen
  <2>2. CASE error # "none"
    BY <2>1, <2>2 DEF CloseInv, Unwinds, IsQueue
  <2>3. CASE error = "none"
    <3> DEFINE i == owner[v].depth
               d == owner[v].desc
    <3>1. /\ IsStack(prog, frames, owner, log) /\ WellClosed(prog) /\ Made(owner, log)
      BY <1>1, <2>3 DEF CloseInv, Executes, AllWellClosed
    <3>2. /\ i \in DOMAIN frames /\ frames[i].fn # Native /\ d \in Locals(prog, frames[i])
          /\ Holds(prog, frames[i], d) = v /\ v # Nil
      BY <2>1, <3>1, OpenIsOwned DEF IsStack, IsHeld
    <3>3. /\ d \in Account(prog, frames[i].fn)[frames[i].pc]
          /\ frames[i].pc \in DOMAIN prog[frames[i].fn].code
      BY <3>1, <3>2 DEF IsStack, HoldsItsOwn
    <3>4. frames[i].fn \in DOMAIN prog
      <4> DEFINE S == LuaFrames(prog) \cup {NativeFrame}
      <4>1. frames \in Seq(S)
        BY <3>1 DEF IsStack
      <4> HIDE DEF S
      <4>2. frames[i] \in S
        BY <3>2, <4>1
      <4>3. frames[i] \in LuaFrames(prog)
        BY <3>2, <4>2 DEF S, NativeFrame
      <4> QED
        BY <4>3 DEF LuaFrames
    <3>5. LET l == prog[frames[i].fn].descs[d] IN
          l.start <= frames[i].pc /\ frames[i].pc < l.stop
      BY <3>1, <3>3, <3>4, OfAProgram DEF IsAccount, InScopes
    <3> QED
      BY <3>2, <3>5 DEF InScope, Descs
  <2> QED
    BY <2>2, <2>3
<1> QED
  BY <1>1, <1>2, Inductive, PTL

(* In the same programs the handlers are called in the reverse order of    *)
(* the openings, across frames, scope exits and an unwinding, and each of  *)
(* them once: the execution implements ScopeGuards.                        *)
THEOREM GuardsScopes ==
  ASSUME \A p \in Programs : WellClosed(p)
  PROVE  Spec => IsScopeGuards
<1> DEFINE open == {v \in Values : Unclosed(v)}
<1>0. AllWellClosed
  BY DEF AllWellClosed
<1>1. Init => Guards!Init
  BY DEF Init, Guards!Init, Values
<1>2. CloseInv /\ FewValues /\ [Next]_vars => [Guards!Next]_<<open, log>>
  <2> SUFFICES ASSUME CloseInv, FewValues, [Next]_vars
               PROVE  Guards!Next \/ UNCHANGED <<open, log>>
    OBVIOUS
  <2>1. Handles /\ CloseInv'
    BY <1>0, StepOk
  <2>2. Made(owner, log) /\ open = {v \in 1..Len(owner) : IsOpen(owner, log, v)}
    BY DEF CloseInv, Values, Unclosed, IsOpen
  <2>3. open' = {v \in 1..Len(owner') : IsOpen(owner', log', v)}
    BY DEF Values, Unclosed, IsOpen
  <2>4. CASE UNCHANGED <<owner, log>>
    BY <2>2, <2>3, <2>4
  <2>5. CASE MakesNext
    <3> DEFINE n == Len(owner) + 1
    <3>1. PICK depth \in Nat, desc \in Nat :
            /\ owner' = Append(owner, [depth |-> depth, desc |-> desc])
            /\ Len(owner) < MaxValues /\ log' = log
      BY <2>5 DEF MakesNext
    <3>2. \A v : IsOpen(owner', log, v) <=> IsOpen(owner, log, v) \/ (v = n /\ desc # 0)
      BY <2>2, <3>1, Owned
    <3>3. \A v : v \in open' <=> IsOpen(owner', log', v)
      BY <2>3 DEF IsOpen
    <3>4. \A v : v \in open <=> IsOpen(owner, log, v)
      BY <2>2 DEF IsOpen
    <3>5. Len(owner) \in Nat /\ Range(log) \subseteq 1..Len(owner) /\ open \subseteq 1..Len(owner)
      BY <2>2 DEF Made
    <3> HIDE DEF open
    <3>6. CASE desc = 0
      <4>1. open' = open
        BY <3>1, <3>2, <3>3, <3>4, <3>6
      <4> QED
        BY <3>1, <4>1
    <3>7. CASE desc # 0
      <4>1. open' = open \cup {n}
        BY <3>1, <3>2, <3>3, <3>4, <3>7
      <4>2. \A s \in open \cup Range(log) : s < n
        BY <3>5
      <4>3. n \in 1..MaxValues
        BY <3>1, <3>5, BoundsAssumption
      <4>4. Guards!Open(n)
        BY <3>1, <4>1, <4>2 DEF Guards!Open, Guards!Range, Range, open
      <4> QED
        BY <4>3, <4>4 DEF Guards!Next
    <3> QED
      BY <3>6, <3>7
  <2>6. CASE ClosesLast
    <3>1. PICK v : /\ IsOpen(owner, log, v) /\ \A w : IsOpen(owner, log, w) => w <= v
                   /\ log' = Append(log, v) /\ owner' = owner
      BY <2>6 DEF ClosesLast
    <3>2. \A w : IsOpen(owner, Append(log, v), w) <=> IsOpen(owner, log, w) /\ w # v
      BY <3>1, Called DEF CloseInv
    <3>3. \A w : w \in open' <=> IsOpen(owner', log', w)
      BY <2>3 DEF IsOpen
    <3>4. \A w : w \in open <=> IsOpen(owner, log, w)
      BY <2>2 DEF IsOpen
    <3> HIDE DEF open
    <3>5. open' = open \ {v}
      BY <3>1, <3>2, <3>3, <3>4
    <3>6. v \in 1..MaxValues
      BY <2>2, <3>1, BoundsAssumption DEF IsOpen, Made, FewValues
    <3>7. Guards!Close(v)
      BY <3>1, <3>4, <3>5 DEF Guards!Close, open
    <3> QED
      BY <3>6, <3>7 DEF Guards!Next
  <2> QED
    BY <2>1, <2>4, <2>5, <2>6 DEF Handles
<1> QED
  BY <1>0, <1>1, <1>2, Inductive, ValuesAreFew, PTL DEF Spec, Guards!Spec, IsScopeGuards
=============================================================================
