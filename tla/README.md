# Formal models of shingetsu

shingetsu is an asynchronous Lua virtual machine in Rust: a compiler lowers Lua
source to register bytecode, a VM runs it as a future on the tokio executor, and
a standard library offers tasks, channels, locks, files and processes to Lua
code. This directory holds TLA+ models of the parts where concurrency, failure,
cancellation, the order of events or a boundary decide whether the program is
right, the TLC configurations that check them, and TLAPS proofs about twelve of them.

    tlc -workers 2 -config task_safety.cfg MCTaskLifecycle     # one run
    tlapm TaskLifecycle_proofs.tla                             # one module's proofs

`PROJECT.json` maps every definition to the lines it models and lists the runs,
the finding, the hazards and, for each property, a fault variant (an operator
commented "Fault" or "Fault variant of ...") with which the property fails.

## 1. The system

| component | source (under `crates/`) | state | operations | modelled by |
|---|---|---|---|---|
| Registry of named values | `shingetsu-vm/src/shared_registry.rs` | two maps, each behind a mutex: entries (name → Arc and TypeId), in-flight markers (name → Notify) | `get`, `get_or_create`, `get_or_create_async`, drop of `InFlightGuard` | `SharedRegistry`, `WriteOnceMap` |
| Task lifecycle | `shingetsu/src/task/{mod,lua_task}.rs` | per task: `TaskState` (result, two Notifys, JoinHandle, consumed flag), `AbortGuard`, the userdata handle | `task.spawn`, `await`, `pawait`, `cancel`, `abort`, `try_result`, `join`, `await_all`, `select`, observers, drop of the handle | `TaskLifecycle`, `TaskPromise` |
| Task sets | `shingetsu/src/task/lua_task_set.rs` | in-flight counter, unbounded channel, receiver behind an async mutex | `add`, `next`, watchers | `TaskSet` |
| Channels | `shingetsu/src/task/channel.rs` | optional sender, queue, receiver behind an async mutex | `send`, `try_send`, `recv`, `try_recv`, `close` | `Channel`, `ClosableQueue` |
| Locks | `shingetsu/src/task/{mutex,rwlock,semaphore}.rs` | a tokio batch semaphore each; guards with an optional permit | acquire, try, `unlock`, `release`, `__close`, `try_grow_to` | `Guards` |
| Notify, Watch, oneshot | `shingetsu/src/task/{notify,watch,oneshot}.rs` | waiters and a permit; a versioned value; two halves | notify, wait, `wait_until`; `set`, `wait_change`, `wait_for`; send, recv, close | `NotifyCell`, `WatchCell`, `Oneshot` |
| Scopes in the compiler | `shingetsu-compiler/src/{scope,lower}.rs` | scope stack, slots, code, `LocalDesc` table, loop exits, `exited` flag | one per kind of statement | `Lowering` |
| `<close>` locals in the VM | `shingetsu-vm/src/task.rs` | frames with registers, the awaited future, queue of values to close, unwinding error | `step`, calls and returns, `CloseVar`, unwinding, `begin_dispose` | `CloseVars`, `ScopeGuards` |
| Upvalues, register recycling | `shingetsu-vm/src/{upvalue,task}.rs` | cells that point into a frame or own their value; pool of register arrays | capture, read, write, close, reopen, grow, recycle | `Upvalues` |
| Cycle collector | `shingetsu-vm/src/{gc,global_env}.rs` | colours, registry of tables and functions, queue of finalizers | `collect_cycles`, `dispose`, `collectgarbage` | `CycleCollector` |
| `require` | `shingetsu-vm/src/global_env.rs` | `loaded` (with a sentinel during a load), `preload`, loader | `require`, `set_loaded` | `ModuleLoading` |
| Files | `shingetsu/src/{tokio_file,io}.rs`, `shingetsu-vm/src/file.rs` | file position, read-ahead window, write buffer, buffering mode; tokio's background write | read, write, seek, flush, `setvbuf`, close, `__gc` | `BufferedFile`, `ByteFile` |
| Tables | `shingetsu-vm/src/table.rs`, `shingetsu/src/table_lib.rs` | array part, ordered hash part, frozen flag | raw access, `next`, `insert`, `remove`, `clear`, `freeze`, `sort` | `LuaTable`, `TableMap` |
| Patterns | `shingetsu/src/{lua_pattern,string_lib}.rs` | captures on a stack; an iterator's offset and last match | match, `gmatch`, `gsub` | `LuaPattern`, `PatternSearch` |
| Numeric `for` | `shingetsu-vm/src/task.rs`, `shingetsu-compiler/src/lower.rs` | counter, limit, step | `for_prep`, `for_step` | `NumericFor` |
| Callbacks | `shingetsu-vm/src/callback.rs` | declared names, handlers in registration order | declare, register, dispatch | not modelled |
| Processes, pipes | `shingetsu/src/{process,popen}.rs` | child handles and pipes | start, wait, kill, read, write | not modelled |
| Bytecode, packing, formatting, JSON, snapshots | `shingetsu-vm/src`, `shingetsu/src` | none | conversions | not modelled |
| Type checker, lints, CLI, REPL, docgen, macros | `shingetsu-compiler`, other crates | none that outlives a call | | not modelled |

How they interact:

- A Lua task is a tokio task that polls a wrapper future (`run_inner`), which
  polls the VM (`Task::poll`), which awaits native functions. Cancelling a task
  tells the VM to dispose: it queues the values of all live `<close>` locals and
  calls their handlers. Aborting a task drops the futures at their await points:
  every model of an awaiting call therefore has an action that drops it.
- Task sets, `join` and `select` wait on `TaskState::wait`, the only way to learn
  the end of a task. `TaskPromise` says what they may rely on: `TaskLifecycle`
  is shown to implement it, and `TaskSet` is built on it.
- `task.watch`, `task.mutex` and the other named objects come from the registry,
  whose factory may be Lua code, and may fail or be cancelled.
- The compiler decides where `CloseVar` stands and what the `LocalDesc` table
  says; the VM believes both. So `CloseVars` runs what `Lowering` emits.
- Frames give their register arrays to a pool that later frames take from, while
  closures keep cells that pointed into them: `Upvalues` has both.
- Finalizers run in tasks that can use, move and revive what is being collected,
  and can start another collection: `CycleCollector` interleaves them.

Hard behaviours, and what correctness means for each part:

- *Registry*: two maps, two locks, await points and cancellation between them.
  Factories of one entry point exclude each other, a name keeps its value, markers
  do not outlive their guards, sleepers are woken, downcasts succeed.
- *Tasks*: completion, cancel, abort, panic, collection of the handle and waits
  of other tasks race. One outcome, reported once, before anybody is told it; a
  cancel is not overtaken; waits return.
- *Task sets and channels*: counters and permits read before a wait and written
  after it; a close that races a send which has cloned its sender. Nothing is
  lost, duplicated, reordered or miscounted when callers are cancelled, and the
  end is seen only after the last value.
- *Synchronisation objects*: permits that a cancelled waiter has in part, or has
  been given and not taken; predicates that await between registration and wait.
  Permits are conserved, waiters served in order, wake-ups not lost.
- *`<close>` locals*: every exit of a scope, including errors, stack overflow and
  disposal in the middle of a handler, closes the right values once, in reverse.
- *Upvalues*: a raw pointer into a register array that grows, is recycled or goes.
- *Collector*: colours and strong counts looked at while references move.
- *`require`*: circular, failing, cancelled and concurrent loads of one name.
- *Files*: two buffers over one position, short reads, a buffer that is handed over
  in chunks, a write in the background that goes on when its call is dropped and
  fails when nobody looks.
- *Tables, patterns, loops*: entries that move between two representations under
  a traversal; backtracking that must undo; empty matches; wrapping counters.

## 2. The modules

- `SharedRegistry` — one action per critical section of one call, because
  everything between two critical sections is a point where another thread can
  run, except the section of `get_or_create`, which runs a factory and is two steps
  (`GetOrCreate` and `Make`) with the mutex held in between (`Unlocked`).
  `pc` names the place in the code; `Preemptive = FALSE` restricts steps to
  one thread, which switches only at await points. A call makes at most one value
  and one marker, so both are named by the call. What it takes from
  tokio, that a `Notified` created late misses `notify_waiters`, is in `Park` and
  `NotifyWaiters`. `Map` is the refinement mapping to `WriteOnceMap`.
- `TaskLifecycle` — `phase` is where the tokio task is in `run_inner` or in the
  drop of its `AbortGuard`; the three steps of publishing (report, write, wake)
  are three steps, since another thread can look in between. `waiter[c][t]` is
  the wait of call `c` on task `t`: `armed` when it has its `Notified` and has
  not looked at the result, `asleep` after. `pawait` and `await` differ in how
  an error is returned, `await_all` and `join` in the shape of the list: each
  pair is one `op`. `Panic` and `ObserverPanics` are the two places where the wrapper
  can be unwound; `reports` counts how often the observers' loop was run, whole or
  in part, and `upset` is history: an observer panicked in it.
  `Promise` is the refinement mapping to `TaskPromise`.
- `TaskSet` — a watcher is named by the `add` that spawned it, so that a task
  added twice has two. `line` is the async mutex of the receiver, which is fair.
- `Channel` — a value is named by the call that sends it. tokio's permits are
  counted: a bounded send that has been given one and is dropped gives it back
  (`Release`). `line` is the mutex around the receiver. Capacity 0 stands for the
  unbounded channel. `Queue` is the mapping to `ClosableQueue`, whose `End` can
  be seen only when no send that began before the close is under way.
- `WaitLine` — the line of those who wait for one of tokio's fair locks, and
  leaving it from any place; both modules above use it.
- `TaskQueues` — the composition: task sets and channels share the shape of their
  receivers, so that one set of calls uses either.
- `Guards` — mutex, rwlock and semaphore are one batch semaphore with weights: a
  writer asks for all permits. A waiter keeps what it has been given so far.
  `Grow` and `AddGrowth` are the two halves of `try_grow_to`.
- `NotifyCell`, `WatchCell`, `Oneshot` — the calls of each object between their
  awaits; `Decide` is the answer of a predicate, which may take as long as it
  likes. `SyncObjects` composes the four; its tasks use one object at a time.
- `Lowering` — the statement compilers as operators on a record that stands for
  `FnCompiler`: code, descriptors, scopes, next slot, loops, `exited`.
- `CloseVars` — executing an instruction is a step; so is what an awaited future
  comes to. `Unwind` is `begin_unwind` with `collect_close_vals`; the queue is the
  set of its entries, which `Before` orders. `owner` and `log` are history: which
  `<close>` local a value was put in, and the handlers called so far. An *account*
  of a function (`IsAccount`) says which of its `<close>` locals may hold an unclosed
  value before each instruction; a program is `WellClosed` if each of its functions
  has one. `MCCloseVars` holds the programs.
- `Upvalues` — `heap` holds the register arrays, `pool` those that wait for a
  frame, `cell` either an address or a value. `value` is history: what each
  variable of the program holds, whoever wrote it last. The VM writes too: it sets a
  `<close>` local to nil before it closes it, at the end of a block (`CloseVar`) and
  in an unwinding (`Unwind`), and a closure that captured it then reads nil.
- `ModuleLoading` — per task a stack of requires, one for each chunk that is
  being run. `made` numbers the modules' values and says which name each is for.
- `VmState` — these two, `LuaTable` and `NumericFor` below: what a virtual machine
  keeps for its programs. They share no state, so a behaviour uses one of them
  (`part`), and a configuration says which it may use. `MCVmState` has the symmetries
  of cells, values, tasks and names.
- `CycleCollector` — the steps of a pass are those between which another thread
  can run; colours are shared by all passes, as they are in the objects. `Held`
  is what `Arc::strong_count` sees besides the registry, which may hold an object
  more than once. The program (also a finalizer) moves
  references between a register, a global, a field, a metatable and a cell.
  `SetGlobal` is Lua's assignment; `PublishGlobal` is `GlobalEnv::set_global`, by which
  the host, or a native function, registers what it is given once more (so does
  `require` for a preloaded module).
- `BufferedFile` — a call runs from await to await. `busy`, `inflight` and `werr`
  are tokio's `File`: the write in the background, and the failure it keeps for
  the next write or flush. It takes at most `Chunk` bytes at once (2 MiB in tokio), so
  `write_all` is several writes with awaits between; `handed` is what of the buffer
  it has had, which `write_buf` still has and gets back if the call ends there
  (`KeepBuffer`). `Content` and `Position`, of what is on disk and in
  the buffers, are the mapping to `ByteFile`, which knows no buffer.
- `LuaTable` — array and ordered hash part; `taken` is the array while `sort` has
  it. A comparator may answer anything, so a sort may give any order (`Orders`), and
  a merge sort whose comparator fails any of `BrokenOrders`. The loops of `raw_set` and
  `table.insert` are recursive functions of the number of turns. `TableMap` is a map
  with a border. `LuaPattern` — `do_match` over patterns
  that are sequences of items, and next to it `Preferred`, a definition of the
  match Lua prefers that never backtracks. `PatternSearch` — the loops of `gmatch`
  and `gsub`, in step. `NumericFor` — integers that wrap at `MaxInt`, and floats.

What is abstracted:

- *Everywhere*: values are names without contents. Lists given to `join` and
  `select` are not empty: the code returns or raises before it waits on anything.
  A task set adds a task by awaiting it in the watcher, which `Watching` stands for.
- *`<close>`*: expressions leave no instructions; an instruction is one word, while
  the code compares an index of IR instructions (`LocalDesc.start_pc`) with an
  index of words; all values have a `__close` handler, whose failure is one for a
  userdata (the failure of a table's is swallowed by the VM, which is
  `HandlerDone`); `goto` and `elseif` are left out; the VM tasks that `pcall` nests
  are not modelled.
- *Upvalues*: the tasks share a thread. The code lets a closure that was given to
  `task.spawn` use an open cell of a frame that runs on another thread, without
  synchronisation (`UpvalueCell` is declared `Send` and `Sync`); the model does not.
- *Collector*: marking is one step; a table has one field; a metatable's field is
  its `__gc`. Tables that natives make and never register are left out: no pass
  looks at them. What `set_global` may be given is a bound (`Publishable`), each once.
- *Tasks*: a panic of an observer in the guard's own report, while the thread
  unwinds already, ends the process and is left out.
- *Files*: the bytes are digits, carriage returns and newlines; number syntax,
  `lines`, standard streams and pipes are left out. The program keeps C's rule for
  switching between reading and writing (`turn`) and seeks inside the file.
- *Tables*: no metamethods; a comparator does not write the table it sorts and
  refuses nil; `raw_insert`, `concat` and `move` are left out.
- *Patterns*: a class is the set of the bytes it matches.

## 3. The runs

| run | question | bounds | result |
|---|---|---|---|
| `registry_threads` | Do markers, factories and types stay consistent with threads in parallel, failing factories and dropped futures? | 3 calls of any entry point, 2 names, 2 types | holds, 24 157 states |
| `registry_one_thread` | Is it an atomic write-once map on one thread, and does every call return? | 3 calls of `get` or `get_or_create_async`, 2 names, 2 types | holds, 118 208 |
| `task_safety` | Do result, observers, handles and waiting calls agree, and is the promise kept? | 2 tasks, 2 calls of any method | holds, 2 227 731 |
| `task_liveness` | Is a cancel honoured, and does every wait on a started task return? | 1 task, 2 calls | holds, 61 508 |
| `task_queues` | Is each value and completion delivered once, in order, and is nobody left waiting who could be answered? | capacity 0 (unbounded), 1 and 2, 3 sends, 2 receives; 2 tasks, 3 adds, 3 calls of `next` | holds, 121 049 |
| `sync_objects` | Are permits conserved and waiters served; are wake-ups, changes and values not lost? | 3 tasks using 1 object, 2 others that grow, notify or set; 0 to 2 permits, 3 for an rwlock | holds, 113 517 |
| `close_vars` | Are values closed when their block ends, in reverse, once, and does the compiler emit what that takes? | 152 programs, 6 values, 3 frames | holds, 9 008 |
| `buffered_file` | Do buffers, short reads, failures and cancellation stay invisible, or come to light? | buffers of 2 bytes, chunks of 1, files of up to 5 bytes, 1 failed write, 1 repetition | holds, 4 100 050 |
| `cycle_collector` | Is what can be reached left alone, and each finalizer queued once and not forgotten? | 1 table, 1 metatable, 1 closure, 1 cell, 1 global, 1 register, 2 passes; the table and the closure may be published | holds, 1 876 111 |
| `pattern_search` | Is a match the preferred one, and does `gsub` replace what `gmatch` gives? | 635 patterns, 18 subjects | holds, 382 124 |
| `vm_state` | Is a captured variable one variable, a pooled array clean, a module loaded once, a table one map, a traversal complete, a loop as long as its operands say? | 2 cells, 3 variables, 4 arrays, 2 frames; 2 tasks, 2 modules, 2 files each; 3 positions and 1 other key, 2 values; integers from -4 to 3 and floats | holds, 1 015 663 |
| `task_abort_hangs` | Does `abort` return? | 1 task, 1 call | violated |

Why the bounds are enough to see the interesting cases:

- *Registry*: the races are between a holder of the marker, one that joined it,
  and one that comes after; three calls have one of each. Two names show that
  markers and entries do not mix, two types the mismatch.
- *Tasks*: a call interacts with another only through one task's state, and
  with a second task only in `join` and `select`; two of each give a select that
  loses one of two tasks, a join that fails in its middle, a cancel that races an
  abort, and a handle that is dropped after the select that used it. A task named twice
  in a list, and liveness, are checked with one task.
- *Task sets and channels*: three calls give a holder of the mutex, a next in
  line, and one that is cancelled between them; three adds of two tasks a task
  with two watchers. Three sends fill a channel of capacity 1 or 2 and leave
  senders waiting in line, of which any can be cancelled with its permit.
- *Synchronisation objects*: three callers give a holder, a writer that collects
  permits, and a reader behind it; two growers a `try_grow_to` in the middle of
  another; two notifiers a `notify_one` and a `notify_all` in either order.
- *`<close>`*: `WellScoped` has every kind of block around every way to leave
  it, over four bodies (a nested block with a local of its own among them), with a
  function that falls off its end on one path only, or has a `<close>` local, and recursion up to the
  stack limit of 3 frames. Errors, disposal and branches are free at every point.
  The limit of 6 values ends loops; the two actions that make values wait there.
- *Files*: two-byte buffers against writes of one to three bytes have a write that
  fits, fills, overflows and bypasses the buffer, and lines that straddle it; with
  chunks of one byte a full buffer is handed over in two. One
  failure is enough, because the promise after it is only that it is reported.
- *Collector*: the smallest heap with a finalizer, a table that the finalizer's
  closure can revive, and a shared cell; two passes overlap in every way two can.
- *Tables*: three positions give an array that has a hole, is trimmed, and
  absorbs an entry of the hash. *Patterns*: all sequences of two items of five
  kinds, with captures, back-references, balances, frontiers and anchors around
  them. *Loops*: with `MaxInt = 3`, every bound and step is tried, those at the ends
  of the range included.
- *Upvalues*: two frames give a caller whose array grows on return, two cells two
  variables of one block, a pool of one box a box that is kept and one that goes.
  *Modules*: two modules that require each other, from two tasks.

Deadlock is checked in the `registry_*` runs, in whose end states every call has
returned or sleeps (`Terminating`), in `buffered_file` (`Idle`) and in
`cycle_collector`, where the program can always go on. In the other models the
system may stop: tasks end, programs return, queues are closed.

Fairness, and why the code justifies it:

- `SharedRegistry`: weak fairness of each call's steps (the executor polls a
  future that was woken; a mutex is held for a bounded time) and of its factory
  (a factory that never ends makes its joiners wait, as documented).
- `TaskLifecycle`: weak fairness of what an executor thread does for a task that
  has something to do, and of each waiting call. Strong fairness of `Settle`: a
  task that is polled again and again ends; this is an assumption about the Lua
  program, without which no wait need return. Nothing is assumed of `Spawn`,
  `Begin`, `DropHandle`, `DropCall` or `Yield`.
- `TaskSet`: tasks end, watchers and callers that can go on do.
- `Channel`: sends and receives that were woken are polled. Nothing makes a
  program send, receive or close.
- `SyncObjects`: calls that were woken are polled, predicates answer, and guards
  are released in the end: a guard that is never released keeps the others
  waiting, and that is the program's doing (or `<close>`'s, see below). In
  `NotifyWakes` the notifiers notify.
- The other models have no liveness property and no fairness.

### What the passing runs show

`SharedRegistry`. `MarkerIffGuard` is the heart of the design: a marker is there
exactly while the call that put it there holds its guard, in every interleaving
with errors and dropped futures. `SingleFlight` is what it gives: two factories of
`get_or_create_async` for one name never overlap. Nor do two of `get_or_create`, under
its lock; but one of each kind may (known divergences). `DowncastSucceeds` is the
`expect` in `get` and `get_or_create`. `IsWriteOnceMap` holds on one thread and if
no call uses the synchronous `get_or_create`, which heeds no marker: a factory's
value may otherwise replace one inserted meanwhile.

`TaskLifecycle`. `CompletesOnce`: `on_complete` fires at most once, and by the
time the task is gone it has fired exactly if there is a result; unless an observer
panics in it, where the guard fires it a second time and publishes `Aborted`.
`ObserversFirst`: no call returns an outcome which the task produced itself and
observers do not know. (For an aborted task the guard wakes the waiters first; the
property says so by leaving it out.) `AbandonedUncollected`: the "abandoned"
observer does not fire for a task whose result was collected or whose end was
asked for. `CancelHonoured`: a cancel that arrives between two polls decides the
outcome. `StartedTasksAnswer`: whoever waits for a task that was polled at least
once gets an answer, whatever happens to the task.

`TaskQueues`. `CompletedOnce`: the counter of a task set is the completions to
come, plus those received and not yet counted, and each goes to one call;
`EmptyMeansEmpty`. A call of `next` that saw a non-zero counter can still wait for
ever when another call takes the last completion, so `CoveredNextReturns` states
the sound part: a call returns if there are as many completions outstanding as
calls up to it in the line. `DeliveredOnce`: a value is in the channel or with one
receive, and a permit is free, with a send, or stands for a value.
`IsClosableQueue` (refinement): order, capacity, and an end that is announced only
when nothing will come, although `close` does not stop a send that cloned the
sender before it. `ChannelAnswers`: after a close every receive is answered, and a
send and a receive never wait for each other.

`SyncObjects`. `PermitsConserved` with mutual exclusion, `WaitersServed` (a
writer among readers too), `NotifyWakes`, `ChangeWakes` and `HandsOver`: a value
that a oneshot accepted is returned, unless the receiver was dropped with it.

`CloseVars`. `ClosedInTime`: a value whose handler has not been called is in a
local whose block is being executed, or in the queue of the unwinding task.
`IsScopeGuards` (refinement of `ScopeGuards`): closing is last-in, first-out, once
per value. Both need programs in which a slot belongs to one `<close>` local of
its function and whose function bodies, `for` bodies and `repeat` bodies have no
`<close>` local that they do not leave by a `return` (`WellScoped`); section
"Known divergences" shows why. The assumption `CompilerKeepsAccounts`, which TLC evaluates
first, is the compiler's part: the code of each such function has an account, on all
of its paths, and none of them leads out of the code; a nested function one of whose
branches returns while another falls off the end gets its `Return`.

`BufferedFile`. `IsByteFile` (refinement): reads, writes and seeks through the
two buffers are those of one sequence of bytes with one position, until a write
fails, an open handle is dropped, or a call is cancelled between two chunks of a
buffer. `SuccessMeansOnDisk`: a flush or close that
succeeds has waited for everything, the write a cancelled call left in the
background included. `NoSilentLoss`: an error is kept until a call returns it.

`CycleCollector`. `ReachableIsIntact` in spite of a program that moves references
between marking and sweep: it is the strong count, not the colour, that protects
what only a register or a running finalizer has. `QueuedOnce`: a table is in one
queue at most while it waits. `FinalizableIsTracked`: a collection that is
cancelled with its queue delays finalizers and loses none. A pass has the table in
hand, or the registry has it, once: only then can a later pass take it. What was
given to `set_global` is the exception (known divergences).

`VmState`. `OneVariable`: everybody who captured a variable, and the frame that
owns it, see one value, through growth of the registers, per-iteration copies,
errors and dropped tasks, also of a `<close>` local that is nil after its end. `PoolIsClean`: an array in the pool is all nil, and no
open cell or frame points to it. `OneModule`: a chunk is never entered while it
runs in the same task, and a name that one task at a time requires gets one value. `IsMap`
(refinement): whatever moves between array and hash, a table is one map whose
length is a border, and `insert`, `remove` and `sort` do what they say.
`TraversalIsComplete`: a traversal gives each entry that is there throughout, once.
`CountsTheRange`: a loop runs the turns its operands say, on the values they say, if
its end is an integer.

`PatternSearch`. `MatchIsPreferred`: the backtracking matcher finds the match
that the declarative order of preferences names, with its captures.
`GsubFollowsGmatch`: `gsub` replaces exactly the matches `gmatch` gives, empty ones
included.

### Finding

`task_abort_hangs`: the `AbortGuard` is made inside the spawned future, so a task
aborted before its first poll publishes nothing and `abort` waits for ever.

### Known divergences

Where the code does not do what its documentation says, the passing runs state
what does hold. Each line of the table is reproduced by the configuration it
names, changed as it says and with the property in the place of its own
properties: TLC reports the property as violated.

| configuration and module | property | what happens |
|---|---|---|
| `registry_threads`, `MCSharedRegistry`, with `Kinds = {"async"}` and no symmetry | invariant `OneMaker` | Two calls miss; the first reserves, inserts and clears its marker before the second reserves; the second runs its factory too and replaces the entry, though `shared_registry.rs:153` says "at most once per name". |
| the same with two calls, one name, one type and `FairSpec` | property `CallsReturn` | A call clones the `Notify` under the lock and creates its `Notified` after it; a `notify_waiters` in between is lost and the call sleeps for ever. `TaskState::wait` creates it before it looks, which is why `StartedTasksAnswer` holds. |
| `registry_threads`, `MCSharedRegistry` | invariant `OneFactory` | `get_or_create` runs its factory without a look at `in_flight`, while one of `get_or_create_async` for the name is suspended (or the other way round), though `shared_registry.rs:72` has callers "racing to create the same name see exactly one factory invocation". |
| `task_safety`, `MCTaskLifecycle` | invariant `ReportsOnce` | An observer that panics in `on_complete` unwinds the wrapper before it has published; the guard publishes `Aborted` and tells all observers again, though `task/mod.rs:130` says "called once when the task's execution finishes, regardless of outcome". |
| `close_vars`, `MCCloseVars`, with `Programs <- SlotReuse` | invariant `ClosedOnce` | Unwinding reads the slot of every `<close>` local declared so far in the frame, also of those that have ended. A slot that is used again is read twice, and so is a receiver that waits in the slot of the local it is to initialise. |
| `close_vars`, `MCCloseVars`, with `Programs <- FallOff` | invariant `ClosedInTime` | No `CloseVar` is emitted where control falls off the end of a function or chunk, though `docs/syntax/error-handling.md:77` says the handler is called "when the surrounding block ends". |
| `close_vars`, `MCCloseVars`, with `Programs <- ChunkEnd` | invariant `FetchInBounds` | Whether a chunk needs a final `Return` is decided by its last instruction, even if something jumps behind it; `task.rs:2678` relies on it. |
| `buffered_file`, `MCBufferedFile` | property `CloseSurfacesErrors` | `close` discards the failure of the flush it begins with and succeeds. |
| `buffered_file`, `MCBufferedFile` | invariant `NoneTwice` | A call that is cancelled between two chunks of a buffer (more than 2 MiB, which `setvbuf` can ask for) leaves the first chunk in `write_buf`, although tokio has it; the next flush writes it again. |
| `cycle_collector`, `CycleCollector` | invariant `FinalizableIsFound` | `set_global` registers a table that `NewTable` has registered already. Its strong count is then never one, so no collection takes it: its finalizer does not run, and it is not freed. |
| `pairs_clear`, `LuaTable` (a file of its own) | invariant `TraversalIsComplete` | Clearing the entry a traversal is at, which `next` and `pairs` allow, ends the traversal early when it is the last of the array, or in the hash: `next` does not find the key any more. |
| `for_wraps`, `NumericFor` (a file of its own) | invariant `CountsTheRange` | `for_step` adds with wrap-around: a loop that ends near the largest integer starts again at the smallest, though `docs/syntax/control-flow.md:82` has it step "through a range". |

Divergences seen while modelling that no property states:

- `require` of one name by two tasks at once runs the chunk twice, or returns the
  sentinel `true`; the sentinel stays after a chunk that failed
  (`global_env.rs:176-191`); `set_loaded(name, Nil)` makes `require` return nil.
- A `notify_one` that has chosen a `wait_until` which then ends without waiting,
  or is cancelled in its predicate after it woke, is lost.
- A `sort` that is cancelled, or whose table is frozen, in its comparator loses the
  sequence; one whose comparator fails may duplicate and lose elements.
- A write after a buffered read, without a seek between (which C's `fread` and
  `fwrite` leave undefined), goes behind what was read ahead: `write_bytes` does not
  look at the read buffer.
- A cancelled read, or a seek that fails or is cancelled, has thrown the
  read-ahead away and moved the position; a handle that is dropped loses its buffer.
- A finalizer runs again at each later collection of its table; `dispose` makes two
  passes and misses finalizers in cycles and of tables found later.
- The comment at `global_env.rs:883`, that cells of a closure are always closed, is
  false while the frame runs; the read is sound, since the frame is alive.
- `to_hashable` maps the float 2^63 to the largest integer; `find` and `match` give
  the matcher the subject from `init` on, so that `()` and `%f` count from there.

## 4. The proofs

TLAPS proves, for every number of calls, names, types, tasks, modules and passes,
every set of capacities, sizes and weights, every heap, table and file, and every
width of integers:

| theorem | says |
|---|---|
| `SharedRegistry_proofs!Typing` | `Spec => []TypeOK` |
| `Markers` | `Spec => []MarkerIffGuard` |
| `OneFactoryAtATime` | `Spec => []SingleFlight` |
| `Downcasts` | `Spec => []DowncastSucceeds` |
| `OneThreadRefinement` | `Spec => IsWriteOnceMap` if `~Preemptive` and `"sync" \notin Kinds` |
| `TaskLifecycle_proofs!Typing` | `Spec => []TypeOK` |
| `CompletionObservedOnce` | `Spec => []CompletesOnce` |
| `ObserversHearFirst` | `Spec => []ObserversFirst` |
| `PromiseKept` | `Spec => IsPromise`, the refinement of `TaskPromise` |
| `AbandonedOnlyUncollected` | `Spec => []AbandonedUncollected` |
| `CancelNotOvertaken` | `Spec => CancelHonoured` |
| `TaskQueues_proofs!ValuesAndPermits` | `FairSpec => []DeliveredOnce` |
| `ChannelImplementsQueue` | `FairSpec => IsClosableQueue`, the refinement of `ClosableQueue` |
| `CompletionsCounted` | `FairSpec => []CompletedOnce` |
| `EmptyIsFinal` | `FairSpec => EmptyMeansEmpty` |
| `CycleCollector_proofs!FinalizersKept` | `Spec => []FinalizableIsTracked` |
| `FinalizersQueuedOnce` | `Spec => []QueuedOnce` |
| `LiveIsUntouched` | `Spec => []ReachableIsIntact` |
| `SyncObjects_proofs!PermitsAndExclusion` | `FairSpec => []PermitsConserved` |
| `OneshotHandsOver` | `FairSpec => []HandsOver` |
| `VmState_proofs!VariablesShared` | `Spec => []OneVariable` |
| `PoolStaysClean` | `Spec => []PoolIsClean` |
| `ModulesLoadOnce` | `Spec => []OneModule` |
| `TablesAreMaps` | `Spec => IsMap`, the refinement of `TableMap` |
| `TraversalsComplete` | `Spec => []TraversalIsComplete` |
| `CountsEveryRange` | `Spec => []CountsTheRange` |
| `CloseVars_proofs!ClosesInTime` | `Spec => []ClosedInTime` if the programs are `WellClosed` |
| `GuardsScopes` | `Spec => IsScopeGuards`, likewise: the refinement of `ScopeGuards` |
| `BufferedFile_proofs!FailuresSurface` | `Spec => []NoSilentLoss` |
| `SuccessIsDurable` | `Spec => SuccessMeansOnDisk` |
| `BuffersDoNotShow` | `Spec => IsByteFile`, the refinement of `ByteFile` |

Assumptions: those of the modules, which TLC evaluates in every run (`None` is not
a call; kinds are among the three entry points; requests name an operation and a
non-empty list of tasks; capacities and permits are numbers; tables, closures, cells
and `None` are different things; addresses are numbers and a frame has at least
one register; `None`, the value of no module, is no number; the other keys of a table
are no integers, and nil is neither a key nor a value; `MaxInt` is a natural number; what is published
are objects; a chunk is not empty; files hold bytes, and
what is written is not empty), and in `OneThreadRefinement` the two in its
statement. Both are needed: with threads the refinement fails as the first of the
known divergences shows; with `get_or_create`, a factory that is awaiting replaces
what was inserted meanwhile. The theorems of `CloseVars_proofs` assume that every
program is `WellClosed`. That is the compiler's part of the contract with the VM, and
`CompilerKeepsAccounts` shows that the compiler keeps it for the programs of the run, with
a `Flow` that computes the smallest account. The proofs hold for all programs, also
ones with more locals, deeper calls and other code than the run has.

Arguments:

- *Registry*. `MarkerIffGuard` is inductive together with the type invariant: only
  the holder of the guard removes the marker, and a reservation is made only if
  there is none. The first half of `SingleFlight` is a consequence: two awaited
  factories for one name would both own the one marker. The second is inductive
  by itself, since `GetOrCreate` waits for the lock (`Unlocked`). For the refinement, `StillAbsent` (a call
  between its lookup and its insert sees no entry under its name) is needed so
  that an insert is a `Bind` of the map and not a replacement. It is inductive on
  one thread, because there no other call can be between lookup and reservation
  while one inserts, and because `SingleFlight` excludes a second factory.
- *Tasks*. `Progress` says, for each phase, what has been reported and published;
  only the thread that drives a task changes any of it (`Undisturbed`), and each
  of its steps moves the phase on (`Driven`). An observer that panicked (`upset`) has
  left no result, so the guard writes one. `CompletesOnce` and
  `ObserversFirst` are read off it. For the promise, `Untold` says that a call
  that has not returned has told nothing and that a join has only passed tasks
  with a result; `Delivery` then shows that what a call tells at the end is a set
  of tasks with results. `ResultStays` gives that a result is decided once.
- *Handles*. `Collected` says what a handle knows of the calls on it: it is live
  while a call that was given it waits and has not passed it, and a task that some
  call told the result of, or that some call other than `select` and `try_result`
  began on, is consumed. Each step of a call keeps that (`Keeps`) because it
  consumes live handles only; an abandoned handle is dropped and was not consumed.
- *Channels*. `ChanInv` has the lines (a send or receive stands in its line, once,
  exactly while it waits), the permits (free ones, those with sends and those that
  stand for a queued value add up to the capacity, and nobody waits while one is
  free), the delivery (a value that was sent is queued or with one receive) and the end. The last
  is what the refinement needs: when the code sees the end there is no cloned
  sender left, so no send can come after it (`EndIsFinal`). The lemmas at the start
  say what joining and leaving a line does to it.
- *Task sets*. `SetInv`: a completion is of a task that was added and has ended,
  and is in the channel or with one call (`Completed`); the counter is the number of
  completions that are to come, plus those received and not counted (`Counted`). So
  a call that reads zero finds nothing left to come.
- *Cancelling*. `CancelHonoured` speaks of a task that has a permit to cancel and
  is between two polls, or is being disposed of (`Doomed`). It stays so until it ends
  (`DoomStays`): a poll looks at the permit first and starts the disposal, calls can
  only give a permit, and a task that is being disposed of ends in neither success
  nor failure.
- *Collector*. `PassInv`: a white table is in no queue and in no other pass, since
  the sweep takes only what nothing but the registry holds and takes it out of the
  registry; a table that exists is white or registered, once unless it was published
  (`Tracked`); no two pairs in the queues
  are for one table. What the marking reaches plays no part, so these two hold for
  any colours. For `ReachableIsIntact`, `HeapInv` adds that whatever has a reference
  exists and that nobody has one to a white table (`WhiteIsFree`). A pass empties
  white tables and cells of closures that it alone holds; so what is emptied has no
  reference, what has none is given none, and the program's reach, the least
  set closed under references, keeps off it.
- *Locks*. `LockInv`: the line has the waiting calls, once each; who waits lacks
  something, who was let in has all it wants, others have nothing. Permits are counted as
  the elements of sets (`Units`), so that dealing them out is a sum of
  cardinalities of disjoint sets (`DealingMore` and the lemmas before it).
  Mutual exclusion follows: a mutex has one permit, and a writer wants all.
- *Oneshot*. `ShotInv`: of several sends one gets the sender and of several receives
  one the receiver, because each takes its half out of the object before it goes on.
- *Variables*. `CaptureInv`: each frame has a box of its own and the pool the
  others, all nil (`Boxes`); a frame's list of open cells and the cells that point to
  its box are the same (`Pointers`); a local is one variable and has its value
  (`Locals`); and a captured variable is, while its cell is open, the local the
  cell points to, and when it is closed, no local of any frame (`CapturedOnce`).
  The last conjunct is what makes writing through one of the two ways safe: there
  is never a second copy. Growing moves the box and its open cells together; a
  frame that goes closes its cells before its box goes to the pool.
- *`<close>`*. `CloseInv` says that what is to be closed and the `<close>` locals that
  are not nil are the same (`HoldsItsOwn`, `IsHeld`): in the frame and local of
  its `owner`, at a place where the account of the frame's function has the local. So every
  value to be closed is in the scope of its local, and collecting the
  locals of all frames collects all of them, each once (`IsQueue`). For the order,
  `Ordered`: what was opened in an inner frame, or in a later local of a frame,
  was opened later. Then the entry that no other is behind is the one opened last, and so is
  what `CloseVar` finds, since the account has no later local there and the
  frame is the innermost. `Waits` keeps, across the await, what an `Open` found when it
  began: a free slot and no later local open. `ScopeGuards` is read off the steps: each
  either makes the next value (`MakesNext`) or calls the last one's handler (`ClosesLast`).
- *Modules*. `ModuleInv`: only the innermost require of a task is not at its
  chunk, and the name of a chunk that runs is marked (`Marked`), which excludes
  re-entry. For a name that tasks have not required at once, `Alone` has its loads
  one at a time, and what was given is what is loaded.
- *Tables*. `TableInv` has the two parts (`Shape`): the array is trimmed, the keys of
  the hash are distinct, and none of them is a position of the array or the next one.
  The last is what absorbing entries after an append is for (`Absorbing`), and
  it makes the length a border; with it `raw_set` changes the map at one key
  (`RawSetting`), and what `insert` moves up goes through it element by element
  (`Inserting`). For a traversal, `Underway`: keys it has given are not ahead of
  it, keys it owes and has not given are. Clearing a key other than the one it is at moves
  none across it (`KeepsOrder`), because `shift_remove` keeps the order of the hash, and
  `next` answers the first key ahead (`Answers`). What the recursive functions of a
  number of turns compute follows from their equations and a least counterexample
  (`Iterating`, from the well-foundedness of the order on numbers), not from an induction theorem.
- *Loops*. `LoopInv`: the counter is `start.n + (Len(seen) - 1) * step.n`, and the
  turns so far are among the `Turns` of the operands. An index between the first and one
  past the last lies between two integers, so it does not wrap (`Wrapping`); and one
  is within the limit exactly if it is among the turns (`AnotherTurn`, from `Dividing`).
- *Files*. `FileInv`: a call at its last stage has emptied the buffer
  (`Emptied`), the only bytes outside disk and buffer are the background's, and a
  failure is with tokio until a call returns it (`Kept`). `SuccessMeansOnDisk`
  needs besides which calls can be at which stage, so that the only steps that
  end a flush well are `FlushDone`, which waits for an idle `File`, and
  `CloseAnyway`, which comes after a failed write.
- *Files, the refinement*. `ByteInv` holds until a write fails, the handle is
  dropped or bytes are in the buffer a second time (`Lost`), where `ByteFile` promises no more. Bytes wait to be written only
  while the program writes and are read ahead only while it reads (`Turns`, from the rule
  of C streams); what was read ahead is what the file has before the system's
  position (`ReadAhead`); a read that waits has emptied the buffer and holds a beginning of
  its answer (`InProgress` with `Partial`). One lemma per read loop says that a turn of
  it (`Reading`) either ends with the answer that the whole rest of the file gives or takes the
  buffer and goes on with a longer beginning: `ReadsBytes`, `ReadsLine`, `ReadsNumber`,
  `ReadsAll`, and `AtEnd` for the end of the file. They need no induction, since
  the length of a span is characterised by the bytes before and at its end (`SpanFound`,
  `SpanIs`). For writes, bytes laid over the file in two parts are laid over it at once
  (`OverlayTwice`), so the background may write any part at any time.

Only model-checked:

- Liveness under fairness, which TLAPS cannot prove: `CallsReturn`,
  `StartedTasksAnswer`, `CoveredNextReturns`, `ChannelAnswers`, `WaitersServed`,
  `NotifyWakes`, `ChangeWakes`.
- What rests on definitions that are recursive over data: that compiled programs are
  `WellClosed` (`CompilerKeepsAccounts`), since `Lowering` walks the statements; and
  `MatchIsPreferred` and `GsubFollowsGmatch`, since the matcher of `LuaPattern`
  calls itself. They are checked on the programs and patterns of their runs.

## 5. Not modelled

- *Callbacks* (`callback.rs`): declaring, registering and looking up handlers are
  single steps under a lock, and dispatch calls the handlers of a list that was
  copied; there is no state between steps to get wrong.
- *Processes and pipes*: what can go wrong is in the operating system's calls.
- *Type checker, lints, docgen, CLI, REPL, derive macros*: pure functions of
  source text, or generators of code, without state that outlives a call.
- *Bytecode encoding, packing, formatting, JSON, UTF-8, snapshots*: conversions
  of one value to another; unit tests compare them with the expected bytes.

## 6. The plan

In the order of their weight:

1. Extensions: nested VM tasks of `pcall` and `goto` in `CloseVars`; a composition of
   `CloseVars` with `Guards`; `lines` and pipes in `BufferedFile`.
