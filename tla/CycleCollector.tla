--------------------------- MODULE CycleCollector ---------------------------
(***************************************************************************)
(* collect_cycles: tables and closures are reference counted, and a         *)
(* registry holds every one of them.  A pass marks what the globals reach,  *)
(* then takes from the registry what is not marked and that nothing but the *)
(* registry holds: a table with a __gc function is kept and queued for its  *)
(* finalizer, another is cleared, a closure gives up the cells it alone     *)
(* has.  The program runs between the steps of a pass, and a second pass    *)
(* may start before the finalizers of the first have run.                   *)
(*                                                                          *)
(* A table has one field here and may have a metatable, whose field is then *)
(* its __gc; a closure has cells, which several closures may share and      *)
(* which stay open while the frame of their variable runs.                  *)
(***************************************************************************)
EXTENDS Integers, FiniteSets

CONSTANTS Tables, Closures, Cells,
          Metatables,   \* bound: the tables that serve as metatables; their field
                        \* is a closure, and neither fields nor cells hold them
          Publishable,  \* bound: what set_global may be given, each once
          Passes,       \* the calls of collect_cycles that may overlap
          None

Objects == Tables \cup Closures

ASSUME ObjectsAssumption ==
  /\ Tables \cap Closures = {}
  /\ Cells \cap Objects = {}
  /\ None \notin Objects
  /\ Metatables \subseteq Tables
  /\ Publishable \subseteq Objects

VARIABLES field,        \* the field of each table
          meta,         \* its metatable
          cell,         \* what each upvalue cell holds
          upvalues,     \* the cells each closure captured
          born,         \* the objects that exist
          registry,     \* how often gc_tables and gc_functions hold each object
          global,       \* a global variable
          local,        \* a register of the program's frames
          openCells,    \* the cells of variables whose frame still runs
          pending,      \* pending_finalizers
          black,        \* the objects that are not white, their colour being shared
          pass,         \* each pass: where it is and its local variables
          published,    \* ghost: what the host gave to GlobalEnv::set_global
          damaged       \* ghost: what a pass cleared

heapVars == <<field, meta, cell, upvalues, born>>
rootVars == <<global, local, openCells>>
ghosts == <<published, damaged>>
vars == <<heapVars, registry, rootVars, pending, black, pass, ghosts>>

NoPass == [at |-> "idle", white |-> {}, found |-> {}, unseen |-> {},
           queue |-> {}, running |-> {}]

Init == /\ field = [t \in Tables |-> None]
        /\ meta = [t \in Tables |-> None]
        /\ cell = [c \in Cells |-> None]
        /\ upvalues = [f \in Closures |-> {}]
        /\ born = {}
        /\ registry = [o \in Objects |-> 0]
        /\ global = None
        /\ local = None
        /\ openCells = Cells
        /\ pending = {}
        /\ black = {}
        /\ pass = [p \in Passes |-> NoPass]
        /\ published = {} /\ damaged = {}

--------------------------------- (* References *) --------------------------
\* What an object holds.
Children(o) == (IF o \in Tables THEN {field[o], meta[o]}
                ELSE {cell[c] : c \in upvalues[o]}) \ {None}

Closed(C) == \A o \in C : Children(o) \subseteq C

\* What is in every closed set that has S in it.
Reach(S) == {o \in Objects : \A C \in SUBSET Objects :
                                 S \ {None} \subseteq C /\ Closed(C) => o \in C}

\* The pairs of a table and its finalizer that wait for their call, or have it.
Queued == pending \cup UNION {pass[p].found \cup pass[p].queue \cup pass[p].running :
                              p \in Passes}
QueuedObjects == {q[1] : q \in Queued} \cup {q[2] : q \in Queued}

Capturers(c) == {f \in born \cap Closures : c \in upvalues[f]}
LiveCells == {c \in Cells : c \in openCells \/ Capturers(c) # {}}

\* Something other than the registry holds o.
Held(o) == o \in {global} \cup {local} \cup QueuedObjects
                 \cup {field[t] : t \in born \cap Tables}
                 \cup {meta[t] : t \in born \cap Tables}
                 \cup {cell[c] : c \in LiveCells}

\* Fault: the colour alone decides what is garbage.
Registered(o) == o \in born /\ registry[o] = 1

\* Arc::strong_count(o) == 1, seen from the registry.
OnlyRegistered(o) == o \in born /\ registry[o] = 1 /\ ~Held(o)

Gc(t) == IF meta[t] = None THEN None ELSE field[meta[t]]
Finalizable(t) == Gc(t) \in Closures

-------------------------------- (* The program *) --------------------------
\* What a few instructions, of the program or of a running finalizer, can load
\* and store: the registers in between are not kept, local is what stays.
Args == UNION {{q[1], q[2]} : q \in UNION {pass[p].running : p \in Passes}}
Hand == Args \cup (({local, global} \cup {cell[c] : c \in openCells}) \ {None})
Usable == Hand \cup UNION {Children(o) : o \in Hand}

NewTable(t) == /\ t \notin born /\ t \notin damaged
               /\ born' = born \cup {t}
               /\ registry' = [registry EXCEPT ![t] = 1]
               /\ local' = t
               /\ UNCHANGED <<field, meta, cell, upvalues, global, openCells,
                              pending, pass, ghosts, black>>

\* It captures variables of the frame that makes it, and of the closure which
\* that frame runs, whose cells may be closed.
NewClosure(f) == /\ f \notin born /\ f \notin damaged
                 /\ born' = born \cup {f}
                 /\ \E C \in {{}} \cup {upvalues[g] : g \in Closures \cap Usable} :
                        upvalues' = [upvalues EXCEPT ![f] = openCells \cup C]
                 /\ registry' = [registry EXCEPT ![f] = 1]
                 /\ local' = f
                 /\ UNCHANGED <<field, meta, cell, global, openCells, pending,
                                pass, ghosts, black>>

Keep(v) == /\ v \in Usable \cup {None}
           /\ local' = v
           /\ UNCHANGED <<heapVars, registry, global, openCells, pending, pass, ghosts, black>>

SetField(t, v) == /\ t \in Usable /\ v \in (Usable \ Metatables) \cup {None}
                  /\ t \in Metatables => v \in Closures
                  /\ field' = [field EXCEPT ![t] = v]
                  /\ UNCHANGED <<meta, cell, upvalues, born, registry, rootVars,
                                 pending, pass, ghosts, black>>

SetMetatable(t, m) == /\ {t, m} \subseteq Usable /\ t # m
                      /\ m \in Metatables /\ t \notin Metatables
                      /\ meta' = [meta EXCEPT ![t] = m]
                      /\ UNCHANGED <<field, cell, upvalues, born, registry, rootVars,
                                     pending, pass, ghosts, black>>

\* A global is assigned by Lua code: a store in the table of the globals.
SetGlobal(v) == /\ v \in Usable \cup {None}
                /\ global' = v
                /\ UNCHANGED <<heapVars, registry, local, openCells, pending, pass, ghosts, black>>

\* GlobalEnv::set_global, which a native or the host calls: the registry gets
\* the value once more.
PublishGlobal(v) == /\ v \in Usable \ published
                    /\ global' = v
                    /\ registry' = [registry EXCEPT ![v] = @ + 1]
                    /\ published' = published \cup {v}
                    /\ UNCHANGED <<heapVars, local, openCells, pending, pass, damaged, black>>

SetUpvalue(c, v) == /\ c \in openCells \/ c \in UNION {upvalues[f] : f \in Closures \cap Usable}
                    /\ v \in (Usable \ Metatables) \cup {None}
                    /\ cell' = [cell EXCEPT ![c] = v]
                    /\ UNCHANGED <<field, meta, upvalues, born, registry, rootVars,
                                   pending, pass, ghosts, black>>

\* The frame of the captured variables returns and closes their cells; a cell
\* that nobody captured goes with the frame.
CloseCells == /\ openCells # {}
              /\ openCells' = {}
              /\ cell' = [c \in Cells |-> IF Capturers(c) = {} THEN None ELSE cell[c]]
              /\ UNCHANGED <<field, meta, upvalues, born, registry, global, local,
                             pending, pass, ghosts, black>>

Program == \/ \E t \in Tables : NewTable(t)
           \/ \E f \in Closures : NewClosure(f)
           \/ \E v \in Objects \cup {None} : Keep(v)
           \/ \E t \in Tables, v \in Objects \cup {None} : SetField(t, v)
           \/ \E t, m \in Tables : SetMetatable(t, m)
           \/ \E v \in Objects \cup {None} : SetGlobal(v)
           \/ \E v \in Publishable : PublishGlobal(v)
           \/ \E c \in Cells, v \in Objects \cup {None} : SetUpvalue(c, v)
           \/ CloseCells

-------------------------------- (* A pass *) -------------------------------
\* Phases 1 and 2: everything white, then black what the globals reach.
Mark(p) == /\ pass[p].at = "idle"
           /\ black' = Reach({global})
           /\ pass' = [pass EXCEPT ![p] = [NoPass EXCEPT !.at = "sweep"]]
           /\ UNCHANGED <<heapVars, registry, rootVars, pending, ghosts>>

\* The retain over gc_tables, under its lock.
SweepTables(p) ==
    LET white == {t \in Tables \ black : OnlyRegistered(t)} IN
    /\ pass[p].at = "sweep"
    /\ registry' = [o \in Objects |-> IF o \in white THEN 0 ELSE registry[o]]
    /\ pass' = [pass EXCEPT ![p].at = "tables", ![p].white = white]
    /\ UNCHANGED <<heapVars, rootVars, pending, ghosts, black>>

\* Fault: the registry does not get the table back.
ResurrectForgotten(p, t) ==
    /\ pass[p].at = "tables"
    /\ t \in pass[p].white
    /\ Finalizable(t)
    /\ black' = black \cup {t} \cup Reach({Gc(t)})
    /\ pass' = [pass EXCEPT ![p].white = @ \ {t},
                            ![p].found = @ \cup {<<t, Gc(t)>>}]
    /\ UNCHANGED <<heapVars, registry, rootVars, pending, ghosts>>

\* A white table with a finalizer: it and what the finalizer reaches are black
\* again, and the registry holds it for a later pass.
Resurrect(p, t) ==
    /\ pass[p].at = "tables"
    /\ t \in pass[p].white
    /\ Finalizable(t)
    /\ registry' = [registry EXCEPT ![t] = 1]
    /\ black' = black \cup {t} \cup Reach({Gc(t)})
    /\ pass' = [pass EXCEPT ![p].white = @ \ {t},
                            ![p].found = @ \cup {<<t, Gc(t)>>}]
    /\ UNCHANGED <<heapVars, rootVars, pending, ghosts>>

Clear(p, t) ==
    /\ pass[p].at = "tables"
    /\ t \in pass[p].white
    /\ ~Finalizable(t)
    /\ pass' = [pass EXCEPT ![p].white = @ \ {t}]
    /\ field' = [field EXCEPT ![t] = None]
    /\ meta' = [meta EXCEPT ![t] = None]
    /\ born' = born \ {t}
    /\ damaged' = damaged \cup {t}
    /\ UNCHANGED <<cell, upvalues, registry, rootVars, pending, black, published>>

Enqueue(p) ==
    /\ pass[p].at = "tables" /\ pass[p].white = {}
    /\ pending' = pending \cup pass[p].found
    /\ pass' = [pass EXCEPT ![p].at = "closures", ![p].found = {},
                            ![p].unseen = born \cap Closures]
    /\ UNCHANGED <<heapVars, registry, rootVars, ghosts, black>>

\* Fault: all the cells of a dying closure are emptied.
EmptiedAll(f) == upvalues[f]

\* The cells nothing but f has: Arc::strong_count(cell) == 1.
Emptied(f) == {c \in upvalues[f] : Capturers(c) = {f} /\ c \notin openCells}

\* The retain over gc_functions comes to f.  A closure that only the registry
\* holds goes, and the cells that no other closure and no frame has are emptied.
SweepClosure(p, f) ==
    LET dies == f \notin black /\ OnlyRegistered(f)
        emptied == Emptied(f)
    IN
    /\ pass[p].at = "closures"
    /\ f \in pass[p].unseen
    /\ pass' = [pass EXCEPT ![p].unseen = @ \ {f}]
    /\ IF dies
         THEN /\ born' = born \ {f}
              /\ registry' = [registry EXCEPT ![f] = 0]
              /\ cell' = [c \in Cells |-> IF c \in emptied THEN None ELSE cell[c]]
              /\ upvalues' = [upvalues EXCEPT ![f] = {}]
              /\ damaged' = damaged \cup {f} \cup emptied
         ELSE UNCHANGED <<born, registry, cell, upvalues, damaged>>
    /\ UNCHANGED <<field, meta, rootVars, pending, black, published>>

\* collectgarbage and dispose take the whole queue after a pass, dispose before
\* its first pass too, and call the finalizers one after the other.
TakePending(p) ==
    /\ \/ pass[p].at = "closures" /\ pass[p].unseen = {}
       \/ pass[p].at = "idle" /\ pending # {}
    /\ pass' = [pass EXCEPT ![p] = [NoPass EXCEPT !.at = "finalizers", !.queue = pending]]
    /\ pending' = {}
    /\ UNCHANGED <<heapVars, registry, rootVars, ghosts, black>>

CallFinalizer(p, q) ==
    /\ pass[p].at = "finalizers" /\ pass[p].running = {}
    /\ q \in pass[p].queue
    /\ pass' = [pass EXCEPT ![p].queue = @ \ {q}, ![p].running = {q}]
    /\ UNCHANGED <<heapVars, registry, rootVars, pending, ghosts, black>>

FinalizerReturns(p) ==
    /\ pass[p].running # {}
    /\ pass' = [pass EXCEPT ![p].running = {}]
    /\ UNCHANGED <<heapVars, registry, rootVars, pending, ghosts, black>>

EndPass(p) ==
    /\ pass[p].at = "finalizers" /\ pass[p].running = {} /\ pass[p].queue = {}
    /\ pass' = [pass EXCEPT ![p] = NoPass]
    /\ UNCHANGED <<heapVars, registry, rootVars, pending, ghosts, black>>

\* The task that called collectgarbage is dropped at a finalizer, with the rest
\* of the queue.
CancelPass(p) ==
    /\ pass[p].running # {}
    /\ pass' = [pass EXCEPT ![p] = NoPass]
    /\ UNCHANGED <<heapVars, registry, rootVars, pending, ghosts, black>>

Progress(p) == \/ Mark(p) \/ SweepTables(p) \/ Enqueue(p) \/ TakePending(p)
               \/ \E t \in Tables : Resurrect(p, t) \/ Clear(p, t)
               \/ \E f \in Closures : SweepClosure(p, f)
               \/ \E q \in Tables \X Closures : CallFinalizer(p, q)
               \/ FinalizerReturns(p) \/ EndPass(p)

Collector == \E p \in Passes : Progress(p) \/ CancelPass(p)

Next == Program \/ Collector

Spec == Init /\ [][Next]_vars

-----------------------------------------------------------------------------
Roots == {global} \cup {local} \cup QueuedObjects
                  \cup {cell[c] : c \in openCells}

\* A pass never clears what a frame, a global or a finalizer that has not run
\* yet can still reach: no table, no closure and no shared cell, whatever the
\* program moves around between the marking and the sweep.
ReachableIsIntact ==
    LET live == Reach(Roots) IN
    /\ live \subseteq born
    /\ (openCells \cup UNION {upvalues[f] : f \in live \cap Closures}) \cap damaged = {}

\* A table is in one queue of finalizers at most, and there once: a pass that
\* starts while another one's finalizers still wait does not queue them again.
QueuedOnce ==
    LET n(t, queue) == Cardinality({q \in queue : q[1] = t})
        in(p, t) == n(t, pass[p].found) + n(t, pass[p].queue) + n(t, pass[p].running)
    IN \A t \in Tables, p, o \in Passes :
           n(t, pending) + in(p, t) + (IF o = p THEN 0 ELSE in(o, t)) <= 1

\* A table with a finalizer never leaves the collector's sight, so that a
\* cancelled collectgarbage, which drops its queue, only delays the finalizer:
\* a pass has it in hand, or the registry holds it, and that once, as a later
\* pass requires of what it takes, unless set_global was given the table.
FinalizableIsTracked ==
    \A t \in born \cap Tables : Finalizable(t) =>
        \/ \E p \in Passes : t \in pass[p].white
        \/ registry[t] = 1
        \/ registry[t] > 1 /\ t \in published

\* A pass that starts later can find every table with a finalizer, once nothing
\* else refers to it.  The code does not keep this: what set_global was given
\* is in the registry twice, and its strong count is never one again.
FinalizableIsFound ==
    \A t \in born \cap Tables : Finalizable(t) =>
        registry[t] = 1 \/ \E p \in Passes : t \in pass[p].white
=============================================================================
