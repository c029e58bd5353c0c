-------------------------------- MODULE Guards --------------------------------
(***************************************************************************)
(* task.mutex, task.rwlock and task.semaphore: LuaMutex, LuaRwLock,        *)
(* LuaSemaphore and their guards, in crates/shingetsu/src/task/mutex.rs,   *)
(* rwlock.rs and semaphore.rs.  Each is a tokio semaphore: a mutex has one *)
(* permit, a reader of an rwlock takes one and a writer takes all.         *)
(*                                                                         *)
(* The permits go to the calls in the order in which they came; a writer   *)
(* collects its own while it waits.  Whoever drops a guard, or a wait that *)
(* has some permits already, gives them back.                              *)
(***************************************************************************)
EXTENDS Naturals, Sequences, FiniteSets, WaitLine

CONSTANTS
  Callers,      \* the calls that lock, each made at most once
  Growers,      \* the calls of task.semaphore(n, name) on a semaphore there is
  MaxReads,     \* the permits of an rwlock
  PermitCounts  \* the numbers of permits asked for, at first and later

PermitsAssumption == MaxReads \in Nat \ {0} /\ PermitCounts \subseteq Nat

Kinds == {"mutex", "rwlock", "semaphore"}

VARIABLES
  kind,     \* what the object is
  permits,  \* LuaSemaphore.permits, and the like of the other two
  avail,    \* permits that nobody has
  line,     \* the calls that wait for permits
  has,      \* call -> the permits it has
  want,     \* call -> the permits it asked for
  pc,       \* call -> where it, or the guard it returned, is
  growth,   \* grower -> the permits it has still to add
  growers   \* the growers that have looked at the configured count

vars == <<kind, permits, avail, line, has, want, pc, growth, growers>>

Weights == IF kind = "rwlock" THEN {1, MaxReads} ELSE {1}

Init ==
  /\ kind \in Kinds
  /\ permits \in CASE kind = "mutex" -> {1}
                   [] kind = "rwlock" -> {MaxReads}
                   [] kind = "semaphore" -> PermitCounts
  /\ avail = permits
  /\ line = <<>>
  /\ has = [c \in Callers |-> 0]
  /\ want = [c \in Callers |-> 0]
  /\ pc = [c \in Callers |-> "idle"]
  /\ growth = [g \in Growers |-> 0]
  /\ growers = {}

(* The permits that f deals out, told apart. *)
Units(f) == UNION {{x} \X (1..f[x]) : x \in DOMAIN f}

Total(f) == Cardinality(Units(f))

(* What the calls cs, which have h, are short of. *)
Lacking(cs, h) == UNION {{c} \X (h[c] + 1 .. want[c]) : c \in cs}

(* n permits come free, and h are had: as many as can of the line q fill   *)
(* up, the next gets what is left, and what nobody waits for stays free.   *)
AddPermits(n, q, h, p) ==
  \E k \in 0..Len(q) :
    LET full == {q[i] : i \in 1..k}
        used == Cardinality(Lacking(full, h))
        left == n - used
        filled == [c \in Callers |-> IF c \in full THEN want[c] ELSE h[c]]
    IN  /\ used <= n
        /\ \/ /\ k = Len(q)
              /\ avail' = avail + left
              /\ has' = filled
           \/ /\ k < Len(q)
              /\ h[q[k + 1]] + left < want[q[k + 1]]
              /\ avail' = avail
              /\ has' = [filled EXCEPT ![q[k + 1]] = @ + left]
        /\ line' = SubSeq(q, k + 1, Len(q))
        /\ pc' = [c \in Callers |-> IF c \in full THEN "granted" ELSE p[c]]

(* lock, read, write, acquire and their try_ forms. *)
Acquire(c) ==
  /\ pc[c] = "idle"
  /\ \E w \in Weights :
       /\ want' = [want EXCEPT ![c] = w]
       /\ \/ /\ avail >= w
             /\ avail' = avail - w
             /\ has' = [has EXCEPT ![c] = w]
             /\ pc' = [pc EXCEPT ![c] = "held"]
             /\ UNCHANGED line
          \/ /\ avail < w                     \* wait, with what there is
             /\ has' = [has EXCEPT ![c] = avail]
             /\ avail' = 0
             /\ line' = Append(line, c)
             /\ pc' = [pc EXCEPT ![c] = "waiting"]
          \/ /\ avail < w                     \* try_
             /\ pc' = [pc EXCEPT ![c] = "refused"]
             /\ UNCHANGED <<avail, line, has>>
  /\ UNCHANGED <<kind, permits, growth, growers>>

(* A call that was given its permits is polled, and returns the guard. *)
Poll(c) ==
  /\ pc[c] = "granted"
  /\ pc' = [pc EXCEPT ![c] = "held"]
  /\ UNCHANGED <<kind, permits, avail, line, has, want, growth, growers>>

(* The line when c goes, which is out of it once it has its permits. *)
Without(c) == IF pc[c] = "waiting" THEN Leave(line, c) ELSE line

(* Fault variant of DropCall: permits collected so far are forgotten. *)
DropCallWithPermits(c) ==
  /\ pc[c] \in {"waiting", "granted"}
  /\ line' = Without(c)
  /\ has' = [has EXCEPT ![c] = 0]
  /\ pc' = [pc EXCEPT ![c] = "dropped"]
  /\ UNCHANGED <<kind, permits, avail, want, growth, growers>>

(* The caller is cancelled or aborted while it waits. *)
DropCall(c) ==
  /\ pc[c] \in {"waiting", "granted"}
  /\ AddPermits(has[c], Without(c),
                [has EXCEPT ![c] = 0], [pc EXCEPT ![c] = "dropped"])
  /\ UNCHANGED <<kind, permits, want, growth, growers>>

(* unlock and release: give the permits back, or raise the second time. *)
Unlock(c) ==
  /\ \/ /\ pc[c] = "held"
        /\ AddPermits(has[c], line, [has EXCEPT ![c] = 0],
                      [pc EXCEPT ![c] = "released"])
     \/ /\ pc[c] = "released"
        /\ pc' = [pc EXCEPT ![c] = "raised"]
        /\ UNCHANGED <<avail, line, has>>
  /\ UNCHANGED <<kind, permits, want, growth, growers>>

(* The last reference to the guard goes. *)
DropGuard(c) ==
  /\ pc[c] = "held"
  /\ AddPermits(has[c], line, [has EXCEPT ![c] = 0], [pc EXCEPT ![c] = "gone"])
  /\ UNCHANGED <<kind, permits, want, growth, growers>>

(* Fault variant of Grow: what is to be added is not what was claimed. *)
GrowByRequest(g) ==
  /\ kind = "semaphore" /\ g \notin growers
  /\ growers' = growers \cup {g}
  /\ \E n \in PermitCounts :
       /\ n > permits
       /\ permits' = n
       /\ growth' = [growth EXCEPT ![g] = n]
  /\ UNCHANGED <<kind, avail, line, has, want, pc>>

(* try_grow_to: claim the difference by raising the configured count ...   *)
Grow(g) ==
  /\ kind = "semaphore" /\ g \notin growers
  /\ growers' = growers \cup {g}
  /\ \E n \in PermitCounts :
       \/ /\ n > permits
          /\ permits' = n
          /\ growth' = [growth EXCEPT ![g] = n - permits]
       \/ n <= permits /\ UNCHANGED <<permits, growth>>
  /\ UNCHANGED <<kind, avail, line, has, want, pc>>

(* ... then add it. *)
AddGrowth(g) ==
  /\ growth[g] > 0
  /\ AddPermits(growth[g], line, has, pc)
  /\ growth' = [growth EXCEPT ![g] = 0]
  /\ UNCHANGED <<kind, permits, want, growers>>

Next ==
  \/ \E c \in Callers : \/ Acquire(c) \/ Poll(c) \/ DropCall(c)
                        \/ Unlock(c) \/ DropGuard(c)
  \/ \E g \in Growers : Grow(g) \/ AddGrowth(g)

(* Calls are polled, and whoever holds a guard releases it some day. *)
Fairness ==
  /\ \A c \in Callers : WF_vars(Poll(c)) /\ WF_vars(Unlock(c))
  /\ \A g \in Growers : WF_vars(AddGrowth(g))

-----------------------------------------------------------------------------
Holders == {c \in Callers : pc[c] = "held"}

(* However calls are cancelled, guards released twice, or semaphores grown *)
(* by several callers at once, no permit is lost or invented, and none is  *)
(* left lying while calls wait.                                            *)
PermitsConserved ==
  /\ permits = avail + Total(has) + Total(growth)
  /\ line # <<>> => avail = 0

(* What the objects are for: a mutex has one holder, a writer is alone, a  *)
(* semaphore has as many holders as its configured permits at most.        *)
Exclusion ==
  CASE kind = "mutex" -> Cardinality(Holders) <= 1
    [] kind = "rwlock" ->
         (\E c \in Holders : want[c] = MaxReads) => Cardinality(Holders) = 1
    [] kind = "semaphore" -> Cardinality(Holders) <= permits

(* When guards are released, every call that waits is served, a writer     *)
(* among readers too.                                                      *)
WaitersServed ==
  \A c \in Callers : (permits > 0 /\ pc[c] = "waiting") ~> pc[c] # "waiting"
=============================================================================
