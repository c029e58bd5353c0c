----------------------------- MODULE MCCloseVars -----------------------------
(***************************************************************************)
(* The programs on which the scopes of <close> locals are checked.         *)
(***************************************************************************)
EXTENDS CloseVars

L == INSTANCE Lowering

Local(attr, init, from) == [k |-> "local", attr |-> attr, init |-> init, from |-> from]

Close == Local("close", "Make", 0)
Acquire == Local("close", "Open", 0)
AcquireFrom(slot) == Local("close", "Open", slot)
Plain == Local("none", "Make", 0)
Wait == [k |-> "await"]
CallF == [k |-> "call", fn |-> "f"]
Brk == [k |-> "break"]
Cont == [k |-> "continue"]
Ret == [k |-> "return"]
Do(body) == [k |-> "do", body |-> body]
If(body, els) == [k |-> "if", body |-> body, els |-> els]
Loop(k, body) == [k |-> k, body |-> body]

Compile(sources) ==
  {[main |-> L!CompileChunk(s.main), f |-> L!CompileFunction(s.f)] : s \in sources}

(* Blocks whose locals are <close> locals, with every way to leave them.   *)
Inner ==
  {<<Close, Wait>>, <<Plain, Close, Close, CallF>>, <<Acquire>>, <<Close, Do(<<Acquire>>)>>}

Leaving == {<<>>, <<Brk>>, <<Cont>>, <<Ret>>}

Blocks ==
  {Do(b) : b \in Inner} \cup {If(b, e) : b \in Inner, e \in {<<>>, <<Wait>>}}
    \cup {Loop("while", b \o e) : b \in Inner, e \in Leaving}
    \cup {Loop(k, <<Plain, Do(b \o e)>>) :
            k \in {"fornum", "forgen", "repeat"}, b \in Inner, e \in Leaving}

(* Each slot belongs to one <close> local of its function, and bodies of   *)
(* functions, of for loops and of repeat loops have none that they do not  *)
(* end with a return.                                                      *)
WellScoped ==
  Compile({[main |-> <<Close, b, Ret>>, f |-> f] :
             b \in Blocks, f \in {<<If(<<Wait>>, <<Ret>>)>>, <<Close, CallF, Ret>>}})

(* Two blocks one after the other, or an acquisition through another       *)
(* <close> local: a slot of a <close> local holds another value.           *)
SlotReuse ==
  Compile({[main |-> <<Do(<<Close>>), Do(<<Close, Wait>>), Ret>>, f |-> <<>>],
           [main |-> <<Close, AcquireFrom(1), Ret>>, f |-> <<>>]})

(* A function that falls off its end. *)
FallOff == Compile({[main |-> <<CallF, Ret>>, f |-> <<Close, Wait>>]})

(* A chunk one of whose branches falls off the end. *)
ChunkEnd == Compile({[main |-> <<If(<<Wait>>, <<Ret>>)>>, f |-> <<>>]})

(* The smallest account of a function: what is held flows on from every    *)
(* instruction to those that may follow it.                                *)
RECURSIVE Flow(_, _)
Flow(f, held) ==
  LET on == [n \in DOMAIN f.code |->
               held[n] \cup UNION {Held(f, held, pc) :
                  pc \in {q \in DOMAIN f.code : n \in Successors(f.code, q)}}]
  IN IF on = held THEN held ELSE Flow(f, on)

Keeps(p) ==
  /\ IsProgram(p)
  /\ \A fn \in DOMAIN p :
       /\ OneSlotEach(p[fn])
       /\ Flow(p[fn], [pc \in DOMAIN p[fn].code |-> {}]) \in Accounts(p[fn])

(* The compiler's part: on every path through a function, however it       *)
(* leaves its blocks, what a <close> local may hold is closed before the   *)
(* local's scope ends, last opened first, its slot has no other use, and   *)
(* no path leads out of the code (emit_close_for_scope,                    *)
(* emit_close_for_exit).  Keeps(p) implies WellClosed(p).                  *)
ASSUME CompilerKeepsAccounts == \A p \in WellScoped : Keeps(p)
=============================================================================
