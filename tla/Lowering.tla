------------------------------ MODULE Lowering ------------------------------
(***************************************************************************)
(* How the compiler lays out the scopes of a function body: the slot each  *)
(* local gets, the CloseVar and LoadNil instructions at the exits of its   *)
(* scope, and the LocalDesc table from which the VM finds the live <close> *)
(* locals when it unwinds (ScopeStack in scope.rs and FnCompiler in        *)
(* lower.rs, crates/shingetsu-compiler/src).                               *)
(*                                                                         *)
(* A statement is a record whose k is one of                               *)
(*   local (attr, init, from), await, call (fn), do (body),                *)
(*   if (body, els), while (body), repeat (body), fornum (body),           *)
(*   forgen (body), break, continue, return.                               *)
(* The init of a local is Make, a value at hand, or Open, the result of a  *)
(* method call on the value in slot from (0: on a value without __close).  *)
(* An instruction is a record [op, slot, desc, from, to, fn]: op says      *)
(* which fields mean something.  Other expressions leave no trace in the   *)
(* scopes and are left out.                                                *)
(***************************************************************************)
EXTENDS Naturals, Sequences, SequencesExt

(* A FnCompiler before its first statement: one open scope, no code.       *)
Fresh ==
  [code |-> <<>>, descs |-> <<>>, scopes |-> <<<<>>>>, next |-> 1,
   loops |-> <<>>, exited |-> FALSE]

Pc(c) == Len(c.code) + 1

Emit(c, op, args) ==
  [c EXCEPT !.code =
     Append(@, args @@ [op |-> op, slot |-> 0, desc |-> 0, from |-> 0, to |-> 0,
                        fn |-> "-"])]

(* The jumps at the given places of the code go to pc. *)
Patch(c, places, pc) ==
  [c EXCEPT !.code = [i \in DOMAIN c.code |->
     IF i \in places THEN [c.code[i] EXCEPT !.to = pc] ELSE c.code[i]]]

-----------------------------------------------------------------------------
(* Scopes.                                                                 *)

PushScope(c) == [c EXCEPT !.scopes = Append(@, <<>>)]

(* A scope gives its slots back, and its <close> locals end here.          *)
PopScope(c) ==
  LET scope == Last(c.scopes)
      ended == {scope[i].desc : i \in DOMAIN scope}
  IN [c EXCEPT !.scopes = Front(@),
               !.next = IF scope = <<>> THEN @ ELSE scope[1].slot,
               !.descs = [i \in DOMAIN c.descs |->
                  IF i \in ended THEN [c.descs[i] EXCEPT !.stop = Pc(c)]
                                 ELSE c.descs[i]]]

(* The local is given the next slot; a <close> local is described from the *)
(* instruction after the one that initialises it.                          *)
Declare(c, attr, init, args) ==
  LET close == attr = "close"
      desc == IF close THEN Len(c.descs) + 1 ELSE 0
      d == Emit(c, init, args @@ [slot |-> c.next, desc |-> desc])
      local == [slot |-> c.next, desc |-> desc]
  IN [d EXCEPT
        !.next = @ + 1,
        !.scopes = Append(Front(@), Append(Last(@), local)),
        !.descs = IF close
                  THEN Append(@, [slot |-> c.next, start |-> Pc(d), stop |-> 0])
                  ELSE @]

(* The locals of the scopes above the first depth ones, innermost scope    *)
(* and latest declaration first.                                           *)
LocalsAbove(c, depth) ==
  Reverse(FlattenSeq(SubSeq(c.scopes, depth + 1, Len(c.scopes))))

EmitEach(c, op, locals) ==
  FoldLeft(LAMBDA d, l : Emit(d, op, [slot |-> l.slot]), c, locals)

(* emit_close_for_scope and emit_close_for_exit *)
EmitClose(c, depth) ==
  EmitEach(c, "CloseVar", SelectSeq(LocalsAbove(c, depth), LAMBDA l : l.desc # 0))

(* emit_clear_for_scope and emit_clear_for_exit *)
EmitClear(c, depth) ==
  EmitEach(c, "LoadNil", SelectSeq(LocalsAbove(c, depth), LAMBDA l : l.desc = 0))

-----------------------------------------------------------------------------
(* Statements.                                                             *)

EnterLoop(c, depth) ==
  [c EXCEPT !.loops =
     Append(@, [depth |-> depth, breaks |-> {}, continues |-> {}])]

(* The loop ends here: break comes here, continue goes to pc.              *)
LeaveLoop(c, pc) ==
  LET loop == Last(c.loops)
      d == Patch(Patch(c, loop.breaks, Pc(c)), loop.continues, pc)
  IN [d EXCEPT !.loops = Front(@), !.exited = FALSE]

(* break and continue close and clear the scopes they leave, then jump. *)
LeaveScopes(c, kind) ==
  LET depth == Last(c.loops).depth
      d == EmitClear(EmitClose(c, depth), depth)
      loop == IF kind = "break"
              THEN [Last(d.loops) EXCEPT !.breaks = @ \cup {Pc(d)}]
              ELSE [Last(d.loops) EXCEPT !.continues = @ \cup {Pc(d)}]
  IN [Emit(d, "Jump", <<>>) EXCEPT
        !.loops = Append(Front(@), loop), !.exited = TRUE]

RECURSIVE Statement(_, _)

(* compile_block_stmts *)
Statements(c, body) == FoldLeft(Statement, c, body)

(* compile_block_with_clears *)
Block(c, body, clears) ==
  LET d == Statements(PushScope(c), body)
      depth == Len(c.scopes)
      e == EmitClose(d, depth)
  IN PopScope(IF d.exited THEN d
              ELSE IF clears THEN EmitClear(e, depth)
              ELSE e)

(* compile_if: there is always a jump from the end of the first branch.    *)
If(c, s) ==
  LET a == Block([Emit(c, "Branch", <<>>) EXCEPT !.exited = FALSE], s.body, TRUE)
      b == Patch(Emit(a, "Jump", <<>>), {Pc(c)}, Pc(a) + 1)
      d == IF s.els = <<>> THEN b
           ELSE Block([b EXCEPT !.exited = FALSE], s.els, TRUE)
      e == Patch(d, {Pc(a)}, Pc(d))
  IN [e EXCEPT !.exited = s.els # <<>> /\ a.exited /\ d.exited]

(* compile_while: the body's locals are closed but not cleared. *)
While(c, s) ==
  LET a == EnterLoop(Emit(c, "Branch", <<>>), Len(c.scopes))
      b == Emit(Block(a, s.body, FALSE), "Jump", [to |-> Pc(c)])
  IN LeaveLoop(Patch(b, {Pc(c)}, Pc(b)), Pc(c))

(* compile_repeat: the body's scope is closed after the jump back.         *)
Repeat(c, s) ==
  LET a == Statements(PushScope(EnterLoop(c, Len(c.scopes))), s.body)
      b == Emit(a, "Branch", [to |-> Pc(c)])
      d == IF a.exited THEN b
           ELSE EmitClear(EmitClose(b, Len(c.scopes)), Len(c.scopes))
  IN LeaveLoop(PopScope(d), Pc(a))

(* compile_numeric_for: the body shares the scope of the loop variable,    *)
(* which is popped without a CloseVar.                                     *)
NumericFor(c, s) ==
  LET a == Declare(PushScope(c), "none", "Count", <<>>)
      prep == Pc(a)
      b == Declare(PushScope(Emit(a, "Branch", <<>>)), "none", "Count", <<>>)
      d == PopScope(Statements(EnterLoop(b, Len(a.scopes)), s.body))
      e == Emit(d, "Branch", [to |-> prep + 1])
      f == LeaveLoop(Patch(e, {prep}, Pc(e)), Pc(d))
  IN PopScope(EmitClear(f, Len(c.scopes)))

(* compile_generic_for: the same, around a hidden <close> local that is    *)
(* closed when the loop ends.                                              *)
GenericFor(c, s) ==
  LET a == Declare(PushScope(c), "close", "Make", <<>>)
      top == Pc(a)
      b == Emit(Declare(Emit(PushScope(a), "Await", <<>>), "none", "Count", <<>>),
                "Branch", <<>>)
      d == Statements(EnterLoop(b, Len(a.scopes)), s.body)
      e == Emit(d, "Jump", [to |-> top])
      f == PopScope(LeaveLoop(Patch(e, {top + 2}, Pc(e)), top))
      g == EmitClear(EmitClose(f, Len(c.scopes)), Len(c.scopes))
  IN PopScope(g)

Statement(c, s) ==
  CASE s.k = "local" -> Declare(c, s.attr, s.init, [from |-> s.from])
    [] s.k = "await" -> Emit(c, "Await", <<>>)
    [] s.k = "call" -> Emit(c, "Call", [fn |-> s.fn])
    [] s.k = "do" -> Block(c, s.body, TRUE)
    [] s.k = "if" -> If(c, s)
    [] s.k = "while" -> While(c, s)
    [] s.k = "repeat" -> Repeat(c, s)
    [] s.k = "fornum" -> NumericFor(c, s)
    [] s.k = "forgen" -> GenericFor(c, s)
    [] s.k \in {"break", "continue"} -> LeaveScopes(c, s.k)
    [] s.k = "return" ->
         [Emit(EmitClose(c, 0), "Return", <<>>) EXCEPT !.exited = TRUE]

-----------------------------------------------------------------------------
(* Whole functions.  The root scope ends with the code.                    *)

Proto(c) == LET d == PopScope(c) IN [code |-> d.code, descs |-> d.descs]

(* A nested function returns at its end if some path falls off it.         *)
CompileFunction(body) ==
  LET c == Statements(Fresh, body)
  IN Proto(IF c.exited THEN c ELSE Emit(c, "Return", <<>>))

(* finish: the main chunk does unless its last instruction is a Return.    *)
CompileChunk(body) ==
  LET c == Statements(Fresh, body)
  IN Proto(IF c.code # <<>> /\ Last(c.code).op = "Return" THEN c
           ELSE Emit(c, "Return", <<>>))
=============================================================================
