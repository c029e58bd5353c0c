------------------------ MODULE CycleCollector_proofs ------------------------
(***************************************************************************)
(* Proofs about the queues of finalizers: overlapping passes of             *)
(* collect_cycles never queue a finalizer twice and never lose a table.     *)
(***************************************************************************)
EXTENDS CycleCollector, FiniteSetTheorems, TLAPS

Pairs == Tables \X Closures

PassType == [at : {"idle", "sweep", "tables", "closures", "finalizers"},
             white : SUBSET Tables, found : SUBSET Pairs, unseen : SUBSET Closures,
             queue : SUBSET Pairs, running : SUBSET Pairs]

PassTyped ==
  /\ pass \in [Passes -> PassType]
  /\ pending \subseteq Pairs
  /\ registry \in [Objects -> Nat]
  /\ born \subseteq Objects

(* What a pass has in hand depends on where it is. *)
InStep(p) ==
  /\ pass[p].at # "tables" => pass[p].white = {} /\ pass[p].found = {}
  /\ pass[p].at # "finalizers" => pass[p].queue = {} /\ pass[p].running = {}

(* A pass has the white tables to itself: the registry gave them up, and    *)
(* none of them is queued.                                                  *)
WhiteIsTaken ==
  \A p \in Passes : \A t \in pass[p].white :
    /\ t \in born /\ registry[t] = 0
    /\ \A q \in Queued : q[1] # t
    /\ \A o \in Passes : t \in pass[o].white => o = p

(* Every table is white in some pass, or in the registry, once unless the   *)
(* host published it.                                                       *)
Tracked ==
  \A t \in born \cap Tables :
    \/ registry[t] = 1
    \/ registry[t] > 1 /\ t \in published
    \/ \E p \in Passes : t \in pass[p].white

(* The places of a pair in pass p. *)
Kinds == {"found", "queue", "running"}
Place(p, k) == IF k = "found" THEN pass[p].found
               ELSE IF k = "queue" THEN pass[p].queue ELSE pass[p].running

(* No table is queued at two places, or at one with two finalizers. *)
Apart ==
  /\ \A q, r \in pending : q[1] = r[1] => q = r
  /\ \A p \in Passes, k \in Kinds : \A q \in Place(p, k), r \in pending : q[1] # r[1]
  /\ \A p, o \in Passes, k, l \in Kinds : \A q \in Place(p, k), r \in Place(o, l) :
       q[1] = r[1] => p = o /\ k = l /\ q = r

PassInv ==
  /\ PassTyped
  /\ \A p \in Passes : InStep(p)
  /\ WhiteIsTaken
  /\ Tracked
  /\ Apart

(* A step of a pass that queues nothing and takes no table: the pairs that  *)
(* wait, and the white tables, only become fewer.                           *)
Fewer ==
  /\ Queued' \subseteq Queued
  /\ \A p \in Passes : pass'[p].white \subseteq pass[p].white

LEMMA QueuedPlaces ==
  Queued = pending \cup UNION {Place(p, k) : p \in Passes, k \in Kinds}
  BY DEF Queued, Place, Kinds

-----------------------------------------------------------------------------
(* A step that moves pairs on, or forgets them, disturbs no white table.    *)
LEMMA Moving ==
  ASSUME PassInv, UNCHANGED <<registry, born, published>>, Queued' \subseteq Queued,
         \A p \in Passes : pass'[p].white = pass[p].white
  PROVE  WhiteIsTaken' /\ Tracked'
  BY DEF PassInv, WhiteIsTaken, Tracked

(* A step that leaves a table as it is, or registers it once, keeps it      *)
(* tracked.                                                                 *)
LEMMA StillTracked ==
  ASSUME Tracked, published \subseteq published',
         \A t \in born' \cap Tables :
           \/ registry'[t] = 1
           \/ /\ t \in born /\ registry'[t] = registry[t]
              /\ \A p \in Passes : t \in pass[p].white => t \in pass'[p].white
  PROVE  Tracked'
<1> SUFFICES ASSUME NEW t \in born' \cap Tables
             PROVE  \/ registry'[t] = 1
                    \/ registry'[t] > 1 /\ t \in published'
                    \/ \E p \in Passes : t \in pass'[p].white
  BY DEF Tracked
<1>1. CASE registry'[t] = 1
  BY <1>1
<1>2. CASE /\ t \in born /\ registry'[t] = registry[t]
           /\ \A p \in Passes : t \in pass[p].white => t \in pass'[p].white
  <2>1. \/ registry[t] = 1
        \/ registry[t] > 1 /\ t \in published
        \/ \E p \in Passes : t \in pass[p].white
    BY <1>2 DEF Tracked
  <2> QED
    BY <1>2, <2>1
<1> QED
  BY <1>1, <1>2

(* The other passes keep what they have. *)
LEMMA OthersKeep ==
  ASSUME PassTyped, NEW p \in Passes, NEW r \in PassType, pass' = [pass EXCEPT ![p] = r]
  PROVE  /\ pass' \in [Passes -> PassType]
         /\ pass'[p] = r
         /\ \A o \in Passes : o # p => pass'[o] = pass[o]
         /\ \A o \in Passes, k \in Kinds : o # p => Place(o, k)' = Place(o, k)
  BY DEF PassTyped, Place

(* Pairs that leave, within a pass or from it, stay apart. *)
LEMMA Leaving ==
  ASSUME Apart, NEW p \in Passes, pending' = pending,
         \A o \in Passes, k \in Kinds : o # p => Place(o, k)' = Place(o, k),
         \A k \in Kinds : Place(p, k)' \subseteq Place(p, k)
  PROVE  Apart' /\ Queued' \subseteq Queued
<1>1. \A o \in Passes, k \in Kinds : Place(o, k)' \subseteq Place(o, k)
  OBVIOUS
<1>2. Apart'
  BY <1>1 DEF Apart
<1>3. Queued' \subseteq Queued
  <2>1. Queued' = pending' \cup UNION {Place(o, k)' : o \in Passes, k \in Kinds}
    BY DEF Queued, Place, Kinds
  <2> QED
    BY <1>1, <2>1, QueuedPlaces
<1> QED
  BY <1>2, <1>3

LEMMA ForgettingKeeps ==
  ASSUME PassInv, NEW p \in Passes,
         Mark(p) \/ FinalizerReturns(p) \/ EndPass(p) \/ CancelPass(p)
  PROVE  PassInv' /\ Fewer
<1>1. pass[p] \in PassType /\ InStep(p)
  BY DEF PassInv, PassTyped
<1>2. PICK r \in PassType :
        /\ pass' = [pass EXCEPT ![p] = r]
        /\ r.white = pass[p].white /\ r.found = pass[p].found
        /\ r.queue \subseteq pass[p].queue /\ r.running = {}
        /\ r.at # "tables" => r.white = {} /\ r.found = {}
        /\ r.at # "finalizers" => r.queue = {}
  <2>1. CASE Mark(p)
    <3> DEFINE r == [NoPass EXCEPT !.at = "sweep"]
    <3>1. r \in PassType /\ pass' = [pass EXCEPT ![p] = r]
      BY <2>1 DEF Mark, NoPass, PassType
    <3>2. pass[p].white = {} /\ pass[p].found = {}
      BY <1>1, <2>1 DEF Mark, InStep
    <3>3. r.white = {} /\ r.found = {} /\ r.queue = {} /\ r.running = {} /\ r.at = "sweep"
      BY DEF NoPass
    <3> QED
      BY <3>1, <3>2, <3>3
  <2>2. CASE FinalizerReturns(p)
    <3> DEFINE r == [pass[p] EXCEPT !.running = {}]
    <3>1. r \in PassType /\ pass' = [pass EXCEPT ![p] = r]
      BY <1>1, <2>2 DEF FinalizerReturns, PassType
    <3>2. /\ r.white = pass[p].white /\ r.found = pass[p].found /\ r.at = pass[p].at
          /\ r.queue = pass[p].queue /\ r.running = {}
      BY <1>1 DEF PassType
    <3> QED
      BY <1>1, <3>1, <3>2 DEF InStep
  <2>3. CASE EndPass(p) \/ CancelPass(p)
    <3>1. NoPass \in PassType /\ pass' = [pass EXCEPT ![p] = NoPass]
      BY <2>3 DEF EndPass, CancelPass, NoPass, PassType
    <3>2. pass[p].white = {} /\ pass[p].found = {}
      BY <1>1, <2>3 DEF EndPass, CancelPass, InStep
    <3>3. NoPass.white = {} /\ NoPass.found = {} /\ NoPass.queue = {} /\ NoPass.running = {}
      BY DEF NoPass
    <3> QED
      BY <3>1, <3>2, <3>3
  <2> QED
    BY <2>1, <2>2, <2>3
<1>3. UNCHANGED <<registry, born, pending, published>>
  BY DEF Mark, FinalizerReturns, EndPass, CancelPass, heapVars, ghosts
<1>4. /\ pass' \in [Passes -> PassType] /\ pass'[p] = r
      /\ \A o \in Passes : o # p => pass'[o] = pass[o]
      /\ \A o \in Passes, k \in Kinds : o # p => Place(o, k)' = Place(o, k)
  BY <1>2, OthersKeep DEF PassInv
<1>5. PassTyped' /\ \A o \in Passes : InStep(o)'
  BY <1>2, <1>3, <1>4 DEF PassInv, PassTyped, InStep
<1>6. \A k \in Kinds : Place(p, k)' \subseteq Place(p, k)
  BY <1>2, <1>4 DEF Place
<1>7. Apart' /\ Queued' \subseteq Queued
  BY <1>3, <1>4, <1>6, Leaving DEF PassInv
<1>8. WhiteIsTaken' /\ Tracked'
  BY <1>2, <1>3, <1>4, <1>7, Moving
<1>9. \A o \in Passes : pass'[o].white = pass[o].white
  BY <1>2, <1>4
<1> QED
  BY <1>5, <1>7, <1>8, <1>9 DEF PassInv, Fewer

(* Pairs that move to a place that was empty stay apart. *)
LEMMA TakingKeeps ==
  ASSUME PassInv, NEW p \in Passes, TakePending(p) PROVE PassInv' /\ Fewer
<1> DEFINE r == [NoPass EXCEPT !.at = "finalizers", !.queue = pending]
<1>1. /\ pass' = [pass EXCEPT ![p] = r] /\ pending' = {}
      /\ UNCHANGED <<registry, born, published>>
      /\ pass[p].at \notin {"tables", "finalizers"}
  BY DEF TakePending, heapVars, ghosts
<1>2. /\ r \in PassType /\ r.at = "finalizers"
      /\ r.white = {} /\ r.found = {} /\ r.queue = pending /\ r.running = {}
  BY DEF NoPass, PassType, PassInv, PassTyped
<1> HIDE DEF r
<1>3. /\ pass' \in [Passes -> PassType] /\ pass'[p] = r
      /\ \A o \in Passes : o # p => pass'[o] = pass[o]
      /\ \A o \in Passes, k \in Kinds : o # p => Place(o, k)' = Place(o, k)
  BY <1>1, <1>2, OthersKeep DEF PassInv
<1>4. pass[p].white = {}
  BY <1>1 DEF PassInv, InStep
<1>5. PassTyped' /\ \A o \in Passes : InStep(o)'
  BY <1>1, <1>2, <1>3 DEF PassInv, PassTyped, InStep
<1>6. \A k \in Kinds : Place(p, k)' = IF k = "queue" THEN pending ELSE {}
  BY <1>2, <1>3 DEF Place, Kinds
<1>7. Apart'
  <2>1. Apart
    BY DEF PassInv
  <2>2. \A o \in Passes, k \in Kinds : o # p => Place(o, k)' = Place(o, k)
    BY <1>3
  <2> QED
    BY <1>1, <1>6, <2>1, <2>2 DEF Apart
<1>8. Queued' \subseteq Queued
  <2>1. Queued' = pending' \cup UNION {Place(o, k)' : o \in Passes, k \in Kinds}
    BY DEF Queued, Place, Kinds
  <2>2. \A o \in Passes, k \in Kinds : Place(o, k)' \subseteq pending \cup Place(o, k)
    BY <1>3, <1>6
  <2> QED
    BY <1>1, <2>1, <2>2, QueuedPlaces
<1>9. WhiteIsTaken' /\ Tracked'
  BY <1>1, <1>2, <1>3, <1>4, <1>8, Moving
<1>10. \A o \in Passes : pass'[o].white = pass[o].white
  BY <1>2, <1>3, <1>4
<1> QED
  BY <1>5, <1>7, <1>8, <1>9, <1>10 DEF PassInv, Fewer

LEMMA CallingKeeps ==
  ASSUME PassInv, NEW p \in Passes, NEW q \in Pairs, CallFinalizer(p, q) PROVE PassInv' /\ Fewer
<1> DEFINE r == [pass[p] EXCEPT !.queue = @ \ {q}, !.running = {q}]
<1>1. /\ pass' = [pass EXCEPT ![p] = r]
      /\ UNCHANGED <<registry, born, pending, published>>
      /\ pass[p].at = "finalizers" /\ pass[p].running = {} /\ q \in pass[p].queue
  BY DEF CallFinalizer, heapVars, ghosts
<1>2. /\ r \in PassType /\ r.at = "finalizers"
      /\ r.white = pass[p].white /\ r.found = pass[p].found
      /\ r.queue = pass[p].queue \ {q} /\ r.running = {q}
  BY <1>1 DEF PassType, PassInv, PassTyped
<1> HIDE DEF r
<1>3. /\ pass' \in [Passes -> PassType] /\ pass'[p] = r
      /\ \A o \in Passes : o # p => pass'[o] = pass[o]
      /\ \A o \in Passes, k \in Kinds : o # p => Place(o, k)' = Place(o, k)
  BY <1>1, <1>2, OthersKeep DEF PassInv
<1>4. PassTyped' /\ \A o \in Passes : InStep(o)'
  BY <1>1, <1>2, <1>3 DEF PassInv, PassTyped, InStep
<1>5. \A k \in Kinds : Place(p, k)' = IF k = "queue" THEN Place(p, "queue") \ {q}
                                      ELSE IF k = "running" THEN {q}
                                      ELSE Place(p, k)
  BY <1>2, <1>3 DEF Place, Kinds
<1>6. q \in Place(p, "queue") /\ Place(p, "running") = {} /\ {"queue", "running"} \subseteq Kinds
  BY <1>1 DEF Place, Kinds
<1>7. Apart'
  <2>1. Apart
    BY DEF PassInv
  <2>2. \A k \in Kinds : \A x \in Place(p, k)' :
          \/ k # "running" /\ x \in Place(p, k) /\ (k = "queue" => x # q)
          \/ k = "running" /\ x = q
    BY <1>5, <1>6
  <2>3. \A o \in Passes, k \in Kinds : o # p => Place(o, k)' = Place(o, k)
    BY <1>3
  <2>4. \A k \in Kinds : \A x \in Place(p, k)' : \E l \in Kinds : x \in Place(p, l)
    BY <1>6, <2>2
  <2>5. \A o \in Passes, k \in Kinds : \A x \in Place(o, k)', y \in pending : x[1] # y[1]
    BY <2>1, <2>3, <2>4 DEF Apart
  <2>6. \A o \in Passes, k, l \in Kinds : o # p =>
          \A x \in Place(p, k)', y \in Place(o, l)' : x[1] # y[1]
    BY <2>1, <2>3, <2>4 DEF Apart
  <2>7. \A k, l \in Kinds : \A x \in Place(p, k)', y \in Place(p, l)' :
          x[1] = y[1] => k = l /\ x = y
    BY <1>6, <2>1, <2>2 DEF Apart
  <2> QED
    BY <1>1, <2>1, <2>3, <2>5, <2>6, <2>7 DEF Apart
<1>8. Queued' \subseteq Queued
  <2>1. Queued' = pending' \cup UNION {Place(o, k)' : o \in Passes, k \in Kinds}
    BY DEF Queued, Place, Kinds
  <2>2. \A o \in Passes, k \in Kinds : \A x \in Place(o, k)' :
          x \in Place(o, k) \/ x \in Place(p, "queue")
    BY <1>3, <1>5, <1>6
  <2> QED
    BY <1>1, <1>6, <2>1, <2>2, QueuedPlaces
<1>9. WhiteIsTaken' /\ Tracked'
  BY <1>1, <1>2, <1>3, <1>8, Moving
<1>10. \A o \in Passes : pass'[o].white = pass[o].white
  BY <1>2, <1>3
<1> QED
  BY <1>4, <1>7, <1>8, <1>9, <1>10 DEF PassInv, Fewer

LEMMA EnqueueingKeeps ==
  ASSUME PassInv, NEW p \in Passes, Enqueue(p) PROVE PassInv' /\ Fewer
<1> DEFINE r == [pass[p] EXCEPT !.at = "closures", !.found = {},
                                !.unseen = born \cap Closures]
<1>1. /\ pass' = [pass EXCEPT ![p] = r] /\ pending' = pending \cup pass[p].found
      /\ UNCHANGED <<registry, born, published>>
      /\ pass[p].at = "tables" /\ pass[p].white = {}
  BY DEF Enqueue, heapVars, ghosts
<1>2. /\ r \in PassType /\ r.at = "closures"
      /\ r.white = pass[p].white /\ r.found = {}
      /\ r.queue = pass[p].queue /\ r.running = pass[p].running
  BY <1>1 DEF PassType, PassInv, PassTyped
<1> HIDE DEF r
<1>3. /\ pass' \in [Passes -> PassType] /\ pass'[p] = r
      /\ \A o \in Passes : o # p => pass'[o] = pass[o]
      /\ \A o \in Passes, k \in Kinds : o # p => Place(o, k)' = Place(o, k)
  BY <1>1, <1>2, OthersKeep DEF PassInv
<1>4. pass[p].found \subseteq Pairs /\ pass[p].queue = {} /\ pass[p].running = {}
  BY <1>1 DEF PassInv, PassTyped, PassType, InStep
<1>5. PassTyped' /\ \A o \in Passes : InStep(o)'
  BY <1>1, <1>2, <1>3, <1>4 DEF PassInv, PassTyped, InStep
<1>6. /\ pass[p].found = Place(p, "found") /\ "found" \in Kinds
      /\ \A k \in Kinds : Place(p, k)' = {}
  BY <1>2, <1>3, <1>4 DEF Place, Kinds
<1>7. Apart'
  <2>1. Apart
    BY DEF PassInv
  <2>2. \A o \in Passes, k \in Kinds : o # p => Place(o, k)' = Place(o, k)
    BY <1>3
  <2>3. \A x, y \in pending' : x[1] = y[1] => x = y
    BY <1>1, <1>6, <2>1 DEF Apart
  <2>4. \A o \in Passes, k \in Kinds : \A x \in Place(o, k)', y \in pending' : x[1] # y[1]
    BY <1>1, <1>6, <2>1, <2>2 DEF Apart
  <2>5. \A o, v \in Passes, k, l \in Kinds : \A x \in Place(o, k)', y \in Place(v, l)' :
          x[1] = y[1] => o = v /\ k = l /\ x = y
    BY <1>6, <2>1, <2>2 DEF Apart
  <2> QED
    BY <2>3, <2>4, <2>5 DEF Apart
<1>8. Queued' \subseteq Queued
  <2>1. Queued' = pending' \cup UNION {Place(o, k)' : o \in Passes, k \in Kinds}
    BY DEF Queued, Place, Kinds
  <2>2. \A o \in Passes, k \in Kinds : Place(o, k)' \subseteq Place(o, k)
    BY <1>3, <1>6
  <2> QED
    BY <1>1, <1>6, <2>1, <2>2, QueuedPlaces
<1>9. WhiteIsTaken' /\ Tracked'
  BY <1>1, <1>2, <1>3, <1>8, Moving
<1>10. \A o \in Passes : pass'[o].white = pass[o].white
  BY <1>2, <1>3
<1> QED
  BY <1>5, <1>7, <1>8, <1>9, <1>10 DEF PassInv, Fewer

-----------------------------------------------------------------------------
(* The sweep takes only tables that are in the registry and not queued.     *)
LEMMA SweepingKeeps ==
  ASSUME PassInv, NEW p \in Passes, SweepTables(p)
  PROVE  /\ PassInv'
         /\ Queued' \subseteq Queued
         /\ \A o \in Passes : \A t \in pass'[o].white : t \in pass[o].white \/ ~Held(t)
<1> DEFINE white == {t \in Tables \ black : OnlyRegistered(t)}
           r == [pass[p] EXCEPT !.at = "tables", !.white = white]
<1>1. /\ pass' = [pass EXCEPT ![p] = r]
      /\ registry' = [o \in Objects |-> IF o \in white THEN 0 ELSE registry[o]]
      /\ UNCHANGED <<born, pending, published>>
      /\ pass[p].at = "sweep"
  BY DEF SweepTables, heapVars, ghosts
<1>2. /\ r \in PassType /\ r.at = "tables" /\ r.white = white
      /\ r.found = pass[p].found /\ r.queue = pass[p].queue /\ r.running = pass[p].running
  BY <1>1 DEF PassType, PassInv, PassTyped
<1>3. \A t \in white : t \in Tables /\ t \in born /\ registry[t] = 1
  BY DEF OnlyRegistered
<1>4. \A t \in white : \A q \in Queued : q[1] # t
  BY DEF OnlyRegistered, Held, QueuedObjects
<1>15. \A t \in white : ~Held(t)
  BY DEF OnlyRegistered
<1> HIDE DEF r, white
<1>5. /\ pass' \in [Passes -> PassType] /\ pass'[p] = r
      /\ \A o \in Passes : o # p => pass'[o] = pass[o]
      /\ \A o \in Passes, k \in Kinds : o # p => Place(o, k)' = Place(o, k)
  BY <1>1, <1>2, OthersKeep DEF PassInv
<1>6. PassTyped' /\ \A o \in Passes : InStep(o)'
  BY <1>1, <1>2, <1>5 DEF PassInv, PassTyped, InStep
<1>7. \A k \in Kinds : Place(p, k)' = Place(p, k)
  BY <1>2, <1>5 DEF Place
<1>8. Apart' /\ Queued' \subseteq Queued
  BY <1>1, <1>5, <1>7, Leaving DEF PassInv
<1>9. pass[p].white = {}
  BY <1>1 DEF PassInv, InStep
<1>10. \A t \in Tables : registry'[t] = IF t \in white THEN 0 ELSE registry[t]
  BY <1>1 DEF Objects
<1>11. \A o \in Passes : o # p => pass'[o].white = pass[o].white
  BY <1>5
<1>12. \A o \in Passes : pass[o].white \subseteq Tables
  BY DEF PassInv, PassTyped, PassType
<1>13. WhiteIsTaken'
  <2>1. WhiteIsTaken
    BY DEF PassInv
  <2>2. ASSUME NEW t \in white, NEW o \in Passes, t \in pass'[o].white PROVE o = p
    BY <1>3, <1>11, <2>1, <2>2 DEF WhiteIsTaken
  <2>3. ASSUME NEW t \in white
        PROVE  t \in born' /\ registry'[t] = 0 /\ \A q \in Queued' : q[1] # t
    BY <1>1, <1>3, <1>4, <1>8, <1>10
  <2>4. ASSUME NEW o \in Passes, o # p, NEW t \in pass'[o].white
        PROVE  /\ t \in born' /\ registry'[t] = 0 /\ \A q \in Queued' : q[1] # t
               /\ t \notin white
               /\ \A v \in Passes : v # p /\ t \in pass'[v].white => v = o
    BY <1>1, <1>3, <1>8, <1>10, <1>11, <1>12, <2>1, <2>4 DEF WhiteIsTaken
  <2> QED
    BY <1>2, <1>5, <2>2, <2>3, <2>4 DEF WhiteIsTaken
<1>14. Tracked'
  BY <1>1, <1>2, <1>5, <1>9, <1>10, <1>11 DEF PassInv, Tracked
<1>16. \A o \in Passes : \A t \in pass'[o].white : t \in pass[o].white \/ ~Held(t)
  BY <1>2, <1>5, <1>11, <1>15
<1> QED
  BY <1>6, <1>8, <1>13, <1>14, <1>16 DEF PassInv

LEMMA ClearingKeeps ==
  ASSUME PassInv, NEW p \in Passes, NEW t \in Tables, Clear(p, t) PROVE PassInv' /\ Fewer
<1> DEFINE r == [pass[p] EXCEPT !.white = @ \ {t}]
<1>1. /\ pass' = [pass EXCEPT ![p] = r] /\ born' = born \ {t}
      /\ UNCHANGED <<registry, pending, published>>
      /\ pass[p].at = "tables" /\ t \in pass[p].white
  BY DEF Clear
<1>2. /\ r \in PassType /\ r.at = "tables" /\ r.white = pass[p].white \ {t}
      /\ r.found = pass[p].found /\ r.queue = pass[p].queue /\ r.running = pass[p].running
  BY <1>1 DEF PassType, PassInv, PassTyped
<1> HIDE DEF r
<1>3. /\ pass' \in [Passes -> PassType] /\ pass'[p] = r
      /\ \A o \in Passes : o # p => pass'[o] = pass[o]
      /\ \A o \in Passes, k \in Kinds : o # p => Place(o, k)' = Place(o, k)
  BY <1>1, <1>2, OthersKeep DEF PassInv
<1>4. PassTyped' /\ \A o \in Passes : InStep(o)'
  BY <1>1, <1>2, <1>3 DEF PassInv, PassTyped, InStep
<1>5. \A k \in Kinds : Place(p, k)' = Place(p, k)
  BY <1>2, <1>3 DEF Place
<1>6. Apart' /\ Queued' \subseteq Queued
  BY <1>1, <1>3, <1>5, Leaving DEF PassInv
<1>7. \A o \in Passes : pass'[o].white = pass[o].white \ {t}
  BY <1>1, <1>2, <1>3 DEF PassInv, WhiteIsTaken
<1>8. WhiteIsTaken' /\ Tracked'
  BY <1>1, <1>6, <1>7 DEF PassInv, WhiteIsTaken, Tracked
<1> QED
  BY <1>4, <1>6, <1>7, <1>8 DEF PassInv, Fewer

(* The table goes back to the registry, and its finalizer into the queue.   *)
LEMMA ResurrectingKeeps ==
  ASSUME PassInv, NEW p \in Passes, NEW t \in Tables, Resurrect(p, t)
  PROVE  /\ PassInv'
         /\ Queued' \subseteq Queued \cup {<<t, Gc(t)>>}
         /\ \A o \in Passes : pass'[o].white = pass[o].white \ {t}
<1> DEFINE g == <<t, Gc(t)>>
           r == [pass[p] EXCEPT !.white = @ \ {t}, !.found = @ \cup {g}]
<1>1. /\ pass' = [pass EXCEPT ![p] = r] /\ registry' = [registry EXCEPT ![t] = 1]
      /\ UNCHANGED <<born, pending, published>>
      /\ pass[p].at = "tables" /\ t \in pass[p].white
  BY DEF Resurrect, heapVars, ghosts
<1>2. g \in Pairs /\ g[1] = t
  BY DEF Resurrect, Finalizable, Pairs
<1> HIDE DEF g
<1>3. /\ r \in PassType /\ r.at = "tables" /\ r.white = pass[p].white \ {t}
      /\ r.found = pass[p].found \cup {g}
      /\ r.queue = pass[p].queue /\ r.running = pass[p].running
  BY <1>1, <1>2 DEF PassType, PassInv, PassTyped
<1> HIDE DEF r
<1>4. /\ pass' \in [Passes -> PassType] /\ pass'[p] = r
      /\ \A o \in Passes : o # p => pass'[o] = pass[o]
      /\ \A o \in Passes, k \in Kinds : o # p => Place(o, k)' = Place(o, k)
  BY <1>1, <1>3, OthersKeep DEF PassInv
<1>5. PassTyped' /\ \A o \in Passes : InStep(o)'
  BY <1>1, <1>3, <1>4 DEF PassInv, PassTyped, InStep
<1>6. "found" \in Kinds /\ \A k \in Kinds :
        Place(p, k)' = IF k = "found" THEN Place(p, "found") \cup {g} ELSE Place(p, k)
  BY <1>3, <1>4 DEF Place, Kinds
<1>7. \A q \in Queued : q[1] # t
  BY <1>1 DEF PassInv, WhiteIsTaken
<1>8. \A o \in Passes, k \in Kinds : \A x \in Place(o, k)' :
        \/ x \in Place(o, k)
        \/ x = g /\ o = p /\ k = "found"
  BY <1>4, <1>6
<1>9. /\ \A x \in pending : x[1] # g[1]
      /\ \A o \in Passes, k \in Kinds : \A x \in Place(o, k) : x[1] # g[1]
  BY <1>2, <1>7, QueuedPlaces
<1>10. Apart'
  <2>1. Apart
    BY DEF PassInv
  <2>2. \A o, v \in Passes, k, l \in Kinds : \A x \in Place(o, k)', y \in Place(v, l)' :
          x[1] = y[1] => o = v /\ k = l /\ x = y
    BY <1>8, <1>9, <2>1 DEF Apart
  <2>3. \A o \in Passes, k \in Kinds : \A x \in Place(o, k)', y \in pending' : x[1] # y[1]
    BY <1>1, <1>8, <1>9, <2>1 DEF Apart
  <2> QED
    BY <1>1, <2>1, <2>2, <2>3 DEF Apart
<1>11. Queued' \subseteq Queued \cup {g}
  <2>1. Queued' = pending' \cup UNION {Place(o, k)' : o \in Passes, k \in Kinds}
    BY DEF Queued, Place, Kinds
  <2> QED
    BY <1>1, <1>8, <2>1, QueuedPlaces
<1>12. \A o \in Passes : pass'[o].white = pass[o].white \ {t}
  BY <1>1, <1>3, <1>4 DEF PassInv, WhiteIsTaken
<1>13. \A u \in Tables : registry'[u] = IF u = t THEN 1 ELSE registry[u]
  BY <1>1 DEF PassInv, PassTyped, Objects
<1>14. \A o \in Passes : pass[o].white \subseteq Tables
  BY DEF PassInv, PassTyped, PassType
<1>15. WhiteIsTaken'
  BY <1>1, <1>2, <1>11, <1>12, <1>13, <1>14 DEF PassInv, WhiteIsTaken
<1>16. Tracked'
  BY <1>1, <1>12, <1>13, StillTracked DEF PassInv
<1> QED
  BY <1>5, <1>10, <1>11, <1>12, <1>15, <1>16 DEF PassInv, g

LEMMA SweepingAClosureKeeps ==
  ASSUME PassInv, NEW p \in Passes, NEW f \in Closures, SweepClosure(p, f) PROVE PassInv' /\ Fewer
<1> DEFINE r == [pass[p] EXCEPT !.unseen = @ \ {f}]
<1>1. /\ pass' = [pass EXCEPT ![p] = r] /\ UNCHANGED <<pending, published>>
      /\ \/ UNCHANGED <<born, registry>>
         \/ born' = born \ {f} /\ registry' = [registry EXCEPT ![f] = 0]
  BY DEF SweepClosure
<1>2. /\ r \in PassType /\ r.at = pass[p].at /\ r.white = pass[p].white
      /\ r.found = pass[p].found /\ r.queue = pass[p].queue /\ r.running = pass[p].running
  BY <1>1 DEF PassType, PassInv, PassTyped
<1> HIDE DEF r
<1>3. /\ pass' \in [Passes -> PassType] /\ pass'[p] = r
      /\ \A o \in Passes : o # p => pass'[o] = pass[o]
      /\ \A o \in Passes, k \in Kinds : o # p => Place(o, k)' = Place(o, k)
  BY <1>1, <1>2, OthersKeep DEF PassInv
<1>4. PassTyped' /\ \A o \in Passes : InStep(o)'
  BY <1>1, <1>2, <1>3 DEF PassInv, PassTyped, InStep
<1>5. \A k \in Kinds : Place(p, k)' = Place(p, k)
  BY <1>2, <1>3 DEF Place
<1>6. Apart' /\ Queued' \subseteq Queued
  BY <1>1, <1>3, <1>5, Leaving DEF PassInv
<1>7. \A o \in Passes : pass'[o].white = pass[o].white /\ pass[o].white \subseteq Tables
  BY <1>2, <1>3 DEF PassInv, PassTyped, PassType
<1>8. f \notin Tables
  BY ObjectsAssumption
<1>9. \A t \in Tables : registry'[t] = registry[t] /\ (t \in born' <=> t \in born)
  BY <1>1, <1>8 DEF PassInv, PassTyped, Objects
<1>10. WhiteIsTaken' /\ Tracked'
  <2>1. WhiteIsTaken'
    BY <1>6, <1>7, <1>9 DEF PassInv, WhiteIsTaken
  <2>2. Tracked'
    BY <1>1, <1>7, <1>9, StillTracked DEF PassInv
  <2> QED
    BY <2>1, <2>2
<1> QED
  BY <1>4, <1>6, <1>7, <1>10 DEF PassInv, Fewer

-----------------------------------------------------------------------------
(* What a pass clears nothing can reach, whatever the marks say.            *)
HeapTyped ==
  /\ field \in [Tables -> Objects \cup {None}]
  /\ meta \in [Tables -> Tables \cup {None}]
  /\ cell \in [Cells -> Objects \cup {None}]
  /\ upvalues \in [Closures -> SUBSET Cells]
  /\ openCells \subseteq Cells
  /\ {global, local} \subseteq Objects \cup {None}

(* Whatever has a reference exists. *)
HeldExists == \A o : Held(o) => o \in born \cup {None}

(* A white table has none: the registry gave it up, and nobody else has it. *)
WhiteIsFree == \A p \in Passes : \A t \in pass[p].white : ~Held(t)

UnbornIsEmpty == \A t \in Tables \ born : field[t] = None /\ meta[t] = None

HeapInv ==
  /\ HeapTyped
  /\ HeldExists
  /\ WhiteIsFree
  /\ UnbornIsEmpty
  /\ LiveCells \cap damaged = {}

HeldBy(o) ==
  \/ o = global \/ o = local
  \/ \E q \in Queued : o = q[1] \/ o = q[2]
  \/ \E t \in born \cap Tables : o = field[t] \/ o = meta[t]
  \/ \E c \in LiveCells : o = cell[c]

LEMMA HeldWhere == \A o : Held(o) <=> HeldBy(o)
  BY DEF Held, HeldBy, QueuedObjects

LEMMA HeldWhereNext == \A o : Held(o)' <=> HeldBy(o)'
  BY DEF Held, HeldBy, QueuedObjects

LEMMA Living ==
  /\ LiveCells = {c \in Cells : c \in openCells \/ \E f \in born \cap Closures : c \in upvalues[f]}
  /\ LiveCells' = {c \in Cells : c \in openCells' \/ \E f \in born' \cap Closures : c \in upvalues'[f]}
  BY DEF LiveCells, Capturers

(* What the objects that have a reference refer to has one. *)
LEMMA ChildrenAreHeld ==
  ASSUME HeapInv, NEW o \in Objects, Held(o), NEW v \in Children(o)
  PROVE  Held(v) /\ v \in Objects
<1>1. o \in born /\ v # None
  BY ObjectsAssumption DEF HeapInv, HeldExists, Children
<1>2. CASE o \in Tables
  <2>1. v = field[o] \/ v = meta[o]
    BY <1>2 DEF Children
  <2> QED
    BY <1>1, <1>2, <2>1, HeldWhere DEF HeapInv, HeapTyped, HeldBy, Objects
<1>3. CASE o \notin Tables
  <2>1. o \in Closures
    BY <1>3 DEF Objects
  <2>2. PICK c \in upvalues[o] : v = cell[c]
    BY <1>3 DEF Children
  <2>3. c \in Cells /\ c \in LiveCells
    BY <1>1, <2>1, <2>2, Living DEF HeapInv, HeapTyped
  <2> QED
    BY <1>1, <2>2, <2>3, HeldWhere DEF HeapInv, HeapTyped, HeldBy
<1> QED
  BY <1>2, <1>3

LEMMA UsableIsHeld ==
  ASSUME HeapInv, PassTyped
  PROVE  \A v \in Usable : Held(v) /\ v \in Objects /\ v \in born
<1>1. ASSUME NEW v \in Hand PROVE Held(v) /\ v \in Objects
  <2>1. CASE v \in Args
    <3>1. PICK p \in Passes : \E q \in pass[p].running : v = q[1] \/ v = q[2]
      BY <2>1 DEF Args
    <3>2. PICK q \in pass[p].running : v = q[1] \/ v = q[2]
      BY <3>1
    <3>3. q \in Queued /\ q \in Pairs
      BY <3>2 DEF Queued, PassTyped, PassType
    <3> QED
      BY <3>2, <3>3, HeldWhere DEF HeldBy, Pairs, Objects
  <2>2. CASE v \notin Args
    <3>1. v # None /\ (v = local \/ v = global \/ \E c \in openCells : v = cell[c])
      BY <1>1, <2>2 DEF Hand
    <3>2. openCells \subseteq LiveCells
      BY Living DEF HeapInv, HeapTyped
    <3> QED
      BY <3>1, <3>2, HeldWhere DEF HeapInv, HeapTyped, HeldBy
  <2> QED
    BY <2>1, <2>2
<1>2. ASSUME NEW v \in Usable PROVE Held(v) /\ v \in Objects
  <2>1. CASE v \in Hand
    BY <1>1, <2>1
  <2>2. ASSUME NEW o \in Hand, v \in Children(o) PROVE Held(v) /\ v \in Objects
    BY <1>1, <2>2, ChildrenAreHeld
  <2> QED
    BY <1>2, <2>1, <2>2 DEF Usable
<1> QED
  BY <1>2, ObjectsAssumption DEF HeapInv, HeldExists

(* The program makes objects and moves references; it does not touch what   *)
(* the passes have in hand.                                                 *)
LEMMA ProgramKeeps ==
  ASSUME PassInv, HeapInv, Program PROVE PassInv'
<1>1. UNCHANGED <<pass, pending>>
  BY DEF Program, NewTable, NewClosure, Keep, SetField, SetMetatable, SetGlobal,
         PublishGlobal, SetUpvalue, CloseCells
<1>2. \/ UNCHANGED <<born, registry, published>>
      \/ \E o \in Objects : /\ o \notin born
                            /\ born' = born \cup {o}
                            /\ registry' = [registry EXCEPT ![o] = 1]
                            /\ published' = published
      \/ \E v \in Publishable : PublishGlobal(v)
  BY DEF Program, NewTable, NewClosure, Keep, SetField, SetMetatable, SetGlobal,
         SetUpvalue, CloseCells, heapVars, rootVars, ghosts, Objects
<1>3. Queued' = Queued /\ \A p \in Passes, k \in Kinds : Place(p, k)' = Place(p, k)
  BY <1>1 DEF Queued, Place
<1>4. Apart' /\ \A p \in Passes : InStep(p)'
  BY <1>1, <1>3 DEF PassInv, Apart, InStep
<1>5. CASE UNCHANGED <<born, registry, published>>
  BY <1>1, <1>3, <1>4, <1>5 DEF PassInv, PassTyped, WhiteIsTaken, Tracked
<1>6. ASSUME NEW o \in Objects, o \notin born, born' = born \cup {o},
             registry' = [registry EXCEPT ![o] = 1], published' = published
      PROVE  PassInv'
  <2>1. PassTyped'
    BY <1>1, <1>6 DEF PassInv, PassTyped
  <2>2. \A t \in Objects : registry'[t] = IF t = o THEN 1 ELSE registry[t]
    BY <1>6 DEF PassInv, PassTyped
  <2>3. WhiteIsTaken'
    BY <1>1, <1>3, <1>6, <2>2 DEF PassInv, PassTyped, PassType, WhiteIsTaken, Objects
  <2>4. Tracked'
    BY <1>1, <1>6, <2>2, StillTracked DEF PassInv, Objects
  <2> QED
    BY <1>4, <2>1, <2>3, <2>4 DEF PassInv
<1>7. ASSUME NEW v \in Publishable, PublishGlobal(v) PROVE PassInv'
  <2>1. /\ v \in Objects /\ born' = born /\ published' = published \cup {v}
        /\ registry' = [registry EXCEPT ![v] = registry[v] + 1]
    BY <1>7, ObjectsAssumption DEF PublishGlobal, heapVars
  <2>2. Held(v) /\ v \in born
    BY <1>7, UsableIsHeld DEF PublishGlobal, PassInv
  <2>3. \A t \in Objects : registry'[t] = IF t = v THEN registry[v] + 1 ELSE registry[t]
    BY <2>1 DEF PassInv, PassTyped
  <2>4. PassTyped'
    BY <1>1, <2>1 DEF PassInv, PassTyped
  <2>5. \A p \in Passes : pass[p].white \subseteq Tables /\ v \notin pass[p].white
    BY <2>2 DEF HeapInv, WhiteIsFree, PassInv, PassTyped, PassType
  <2>6. WhiteIsTaken'
    <3>1. ASSUME NEW p \in Passes, NEW t \in pass[p].white
          PROVE  t \in born' /\ registry'[t] = 0
      BY <2>1, <2>3, <2>5 DEF PassInv, WhiteIsTaken, Objects
    <3> QED
      BY <1>1, <1>3, <3>1 DEF PassInv, WhiteIsTaken
  <2>7. Tracked'
    <3>1. v \in Tables => registry[v] >= 1 /\ registry[v] \in Nat
      BY <2>1, <2>2, <2>5 DEF PassInv, PassTyped, Tracked
    <3>2. v \in Tables => registry'[v] > 1
      BY <2>1, <2>3, <3>1
    <3> QED
      BY <1>1, <2>1, <2>3, <3>2 DEF PassInv, Tracked, Objects
  <2> QED
    BY <1>4, <2>4, <2>6, <2>7 DEF PassInv
<1> QED
  BY <1>2, <1>5, <1>6, <1>7

(* The program gives a reference only to what has one, or to what it makes. *)
Rehold ==
  /\ HeapTyped' /\ UnbornIsEmpty'
  /\ born \subseteq born' /\ LiveCells' \subseteq LiveCells
  /\ \A o : Held(o)' => Held(o) \/ o = None \/ o \in born' \ born

LEMMA ProgramReholds == ASSUME HeapInv, PassInv, Program PROVE Rehold
<1>1. \A v \in Usable : Held(v) /\ v \in Objects /\ v \in born
  BY UsableIsHeld DEF PassInv
<1>2. UNCHANGED <<pass, pending>>
  BY DEF Program, NewTable, NewClosure, Keep, SetField, SetMetatable, SetGlobal,
         PublishGlobal, SetUpvalue, CloseCells
<1>3. Queued' = Queued
  BY <1>2 DEF Queued
<1>4. HeapTyped /\ UnbornIsEmpty /\ born \subseteq Objects
  BY DEF HeapInv, PassInv, PassTyped
<1>5. ASSUME NEW t \in Tables, NewTable(t) PROVE Rehold
  <2>1. /\ t \notin born /\ born' = born \cup {t} /\ local' = t
        /\ UNCHANGED <<field, meta, cell, upvalues, global, openCells>>
    BY <1>5 DEF NewTable
  <2>2. LiveCells' = LiveCells
    BY <2>1, Living, ObjectsAssumption
  <2>3. \A o : HeldBy(o)' => HeldBy(o) \/ o = None \/ o = t
    BY <1>3, <1>4, <2>1, <2>2 DEF HeldBy, UnbornIsEmpty
  <2>4. HeapTyped' /\ UnbornIsEmpty'
    BY <1>4, <2>1 DEF HeapTyped, UnbornIsEmpty, Objects
  <2> QED
    BY <2>1, <2>2, <2>3, <2>4, HeldWhere, HeldWhereNext DEF Rehold
<1>6. ASSUME NEW f \in Closures, NewClosure(f) PROVE Rehold
  <2>1. /\ f \notin born /\ born' = born \cup {f} /\ local' = f
        /\ UNCHANGED <<field, meta, cell, global, openCells>>
    BY <1>6 DEF NewClosure
  <2>2. PICK C \in {{}} \cup {upvalues[g] : g \in Closures \cap Usable} :
            upvalues' = [upvalues EXCEPT ![f] = openCells \cup C]
    BY <1>6 DEF NewClosure
  <2>3. C \subseteq LiveCells
    <3>1. ASSUME NEW g \in Closures \cap Usable PROVE upvalues[g] \subseteq LiveCells
      BY <1>1, <1>4, Living DEF HeapTyped
    <3> QED
      BY <3>1
  <2>4. /\ upvalues'[f] = openCells \cup C
        /\ \A g \in Closures : g # f => upvalues'[g] = upvalues[g]
    BY <1>4, <2>2 DEF HeapTyped
  <2>5. LiveCells' = LiveCells /\ LiveCells \subseteq Cells
    BY <2>1, <2>3, <2>4, Living
  <2>6. \A o : HeldBy(o)' => HeldBy(o) \/ o = f
    BY <1>3, <2>1, <2>5, ObjectsAssumption DEF HeldBy
  <2>7. HeapTyped' /\ UnbornIsEmpty'
    <3>1. upvalues' \in [Closures -> SUBSET Cells]
      BY <1>4, <2>2, <2>3, <2>5 DEF HeapTyped
    <3> QED
      BY <1>4, <2>1, <3>1 DEF HeapTyped, UnbornIsEmpty, Objects
  <2> QED
    BY <2>1, <2>5, <2>6, <2>7, HeldWhere, HeldWhereNext DEF Rehold
<1>7. ASSUME NEW v \in Usable \cup {None},
             UNCHANGED <<heapVars, openCells>>,
             \/ local' = v /\ global' = global
             \/ global' = v /\ local' = local
      PROVE  Rehold
  <2>1. UNCHANGED <<field, meta, cell, upvalues, born, openCells>>
    BY <1>7 DEF heapVars
  <2>2. LiveCells' = LiveCells
    BY <2>1, Living
  <2>3. \A o : HeldBy(o)' => HeldBy(o) \/ o = v
    BY <1>3, <1>7, <2>1, <2>2 DEF HeldBy
  <2>4. HeapTyped' /\ UnbornIsEmpty'
    BY <1>1, <1>4, <1>7, <2>1 DEF HeapTyped, UnbornIsEmpty
  <2> QED
    BY <1>1, <2>1, <2>2, <2>3, <2>4, HeldWhere, HeldWhereNext DEF Rehold
<1>8. ASSUME NEW t \in Tables, NEW v \in Objects \cup {None}, SetField(t, v) PROVE Rehold
  <2>1. /\ t \in Usable /\ v \in Usable \cup {None}
        /\ field' = [field EXCEPT ![t] = v]
        /\ UNCHANGED <<meta, cell, upvalues, born, global, local, openCells>>
    BY <1>8 DEF SetField, rootVars
  <2>2. \A u \in Tables : field'[u] = IF u = t THEN v ELSE field[u]
    BY <1>4, <2>1 DEF HeapTyped
  <2>3. LiveCells' = LiveCells
    BY <2>1, Living
  <2>4. \A o : HeldBy(o)' => HeldBy(o) \/ o = v
    BY <1>3, <2>1, <2>2, <2>3 DEF HeldBy
  <2>5. HeapTyped' /\ UnbornIsEmpty'
    BY <1>1, <1>4, <2>1, <2>2 DEF HeapTyped, UnbornIsEmpty
  <2> QED
    BY <1>1, <2>1, <2>3, <2>4, <2>5, HeldWhere, HeldWhereNext DEF Rehold
<1>9. ASSUME NEW t \in Tables, NEW m \in Tables, SetMetatable(t, m) PROVE Rehold
  <2>1. /\ t \in Usable /\ m \in Usable
        /\ meta' = [meta EXCEPT ![t] = m]
        /\ UNCHANGED <<field, cell, upvalues, born, global, local, openCells>>
    BY <1>9 DEF SetMetatable, rootVars
  <2>2. \A u \in Tables : meta'[u] = IF u = t THEN m ELSE meta[u]
    BY <1>4, <2>1 DEF HeapTyped
  <2>3. LiveCells' = LiveCells
    BY <2>1, Living
  <2>4. \A o : HeldBy(o)' => HeldBy(o) \/ o = m
    BY <1>3, <2>1, <2>2, <2>3 DEF HeldBy
  <2>5. HeapTyped' /\ UnbornIsEmpty'
    BY <1>1, <1>4, <2>1, <2>2 DEF HeapTyped, UnbornIsEmpty
  <2> QED
    BY <1>1, <2>1, <2>3, <2>4, <2>5, HeldWhere, HeldWhereNext DEF Rehold
<1>10. ASSUME NEW c \in Cells, NEW v \in Objects \cup {None}, SetUpvalue(c, v) PROVE Rehold
  <2>1. /\ v \in Usable \cup {None}
        /\ cell' = [cell EXCEPT ![c] = v]
        /\ UNCHANGED <<field, meta, upvalues, born, global, local, openCells>>
    BY <1>10 DEF SetUpvalue, rootVars
  <2>2. \A d \in Cells : cell'[d] = IF d = c THEN v ELSE cell[d]
    BY <1>4, <2>1 DEF HeapTyped
  <2>3. LiveCells' = LiveCells /\ LiveCells \subseteq Cells
    BY <2>1, Living
  <2>4. \A o : HeldBy(o)' => HeldBy(o) \/ o = v
    BY <1>3, <2>1, <2>2, <2>3 DEF HeldBy
  <2>5. HeapTyped' /\ UnbornIsEmpty'
    BY <1>1, <1>4, <2>1, <2>2 DEF HeapTyped, UnbornIsEmpty
  <2> QED
    BY <1>1, <2>1, <2>3, <2>4, <2>5, HeldWhere, HeldWhereNext DEF Rehold
<1>11. ASSUME CloseCells PROVE Rehold
  <2>1. /\ openCells' = {}
        /\ cell' = [c \in Cells |-> IF Capturers(c) = {} THEN None ELSE cell[c]]
        /\ UNCHANGED <<field, meta, upvalues, born, global, local>>
    BY <1>11 DEF CloseCells
  <2>2. \A d \in Cells : cell'[d] = cell[d] \/ cell'[d] = None
    BY <2>1
  <2>3. LiveCells' \subseteq LiveCells /\ LiveCells \subseteq Cells
    BY <2>1, Living
  <2>4. \A o : HeldBy(o)' => HeldBy(o) \/ o = None
    BY <1>3, <2>1, <2>2, <2>3 DEF HeldBy
  <2>5. HeapTyped' /\ UnbornIsEmpty'
    BY <1>4, <2>1 DEF HeapTyped, UnbornIsEmpty
  <2> QED
    BY <2>1, <2>3, <2>4, <2>5, HeldWhere, HeldWhereNext DEF Rehold
<1> QED
  BY <1>5, <1>6, <1>7, <1>8, <1>9, <1>10, <1>11 DEF Program, Keep, SetGlobal,
     PublishGlobal

LEMMA ProgramKeepsHeap ==
  ASSUME HeapInv, PassInv, Program PROVE HeapInv'
<1>1. Rehold
  BY ProgramReholds
<1>2. UNCHANGED <<pass, damaged>>
  BY DEF Program, NewTable, NewClosure, Keep, SetField, SetMetatable, SetGlobal,
         PublishGlobal, SetUpvalue, CloseCells, ghosts
<1>3. /\ HeldExists /\ WhiteIsFree /\ LiveCells \cap damaged = {}
      /\ WhiteIsTaken /\ \A p \in Passes : pass[p].white \subseteq Tables
  BY DEF HeapInv, PassInv, PassTyped, PassType
<1>4. HeldExists'
  BY <1>1, <1>3 DEF HeldExists, Rehold
<1>5. WhiteIsFree'
  <2>1. ASSUME NEW p \in Passes, NEW t \in pass[p].white PROVE ~Held(t)'
    <3>1. ~Held(t) /\ t # None /\ t \in born
      BY <1>3, ObjectsAssumption DEF WhiteIsFree, WhiteIsTaken, Objects
    <3> QED
      BY <1>1, <3>1 DEF Rehold
  <2> QED
    BY <1>2, <2>1 DEF WhiteIsFree
<1> QED
  BY <1>1, <1>2, <1>3, <1>4, <1>5 DEF HeapInv, Rehold

-----------------------------------------------------------------------------
(* A step of a pass that leaves the objects alone. *)
LEMMA LookingKeepsHeap ==
  ASSUME HeapInv, UNCHANGED <<heapVars, rootVars, damaged>>, Queued' \subseteq Queued,
         \A p \in Passes : \A t \in pass'[p].white : t \in pass[p].white \/ ~Held(t)
  PROVE  HeapInv'
<1>1. UNCHANGED <<field, meta, cell, upvalues, born, global, local, openCells>>
  BY DEF heapVars, rootVars
<1>2. HeapTyped' /\ UnbornIsEmpty' /\ LiveCells' = LiveCells
  BY <1>1, Living DEF HeapInv, HeapTyped, UnbornIsEmpty
<1>3. \A o : HeldBy(o)' => HeldBy(o)
  BY <1>1, <1>2 DEF HeldBy
<1>4. \A o : Held(o)' => Held(o)
  BY <1>3, HeldWhere, HeldWhereNext
<1>5. HeldExists' /\ WhiteIsFree'
  BY <1>1, <1>4 DEF HeapInv, HeldExists, WhiteIsFree
<1> QED
  BY <1>1, <1>2, <1>5 DEF HeapInv

(* The finalizer of a white table, and the table itself, get a reference;   *)
(* the table is no longer white, and a closure never was.                   *)
LEMMA ResurrectingKeepsHeap ==
  ASSUME HeapInv, PassInv, NEW p \in Passes, NEW t \in Tables, Resurrect(p, t)
  PROVE  HeapInv'
<1>1. /\ UNCHANGED <<field, meta, cell, upvalues, born, global, local, openCells, damaged>>
      /\ t \in pass[p].white /\ Gc(t) \in Closures
  BY DEF Resurrect, heapVars, rootVars, ghosts, Finalizable
<1>2. /\ Queued' \subseteq Queued \cup {<<t, Gc(t)>>}
      /\ \A o \in Passes : pass'[o].white = pass[o].white \ {t}
  BY ResurrectingKeeps
<1>3. HeapTyped' /\ UnbornIsEmpty' /\ LiveCells' = LiveCells
  BY <1>1, Living DEF HeapInv, HeapTyped, UnbornIsEmpty
<1>4. t \in born
  BY <1>1 DEF PassInv, WhiteIsTaken
<1>5. Gc(t) \in born
  <2>1. meta[t] \in Tables /\ Gc(t) = field[meta[t]]
    BY <1>1, ObjectsAssumption DEF Gc, HeapInv, HeapTyped, Objects
  <2>2. HeldBy(meta[t])
    BY <1>4 DEF HeldBy
  <2>3. meta[t] \in born
    BY <2>1, <2>2, HeldWhere, ObjectsAssumption DEF HeapInv, HeldExists, Objects
  <2>4. HeldBy(Gc(t))
    BY <2>1, <2>3 DEF HeldBy
  <2> QED
    BY <1>1, <2>4, HeldWhere, ObjectsAssumption DEF HeapInv, HeldExists, Objects
<1>6. \A o : HeldBy(o)' => HeldBy(o) \/ o = t \/ o = Gc(t)
  BY <1>1, <1>2, <1>3 DEF HeldBy
<1>7. \A o : Held(o)' => Held(o) \/ o = t \/ o = Gc(t)
  BY <1>6, HeldWhere, HeldWhereNext
<1>8. HeldExists'
  BY <1>1, <1>4, <1>5, <1>7 DEF HeapInv, HeldExists
<1>9. WhiteIsFree'
  <2>1. ASSUME NEW o \in Passes, NEW u \in pass'[o].white PROVE ~Held(u)'
    <3>1. u \in Tables /\ u # t /\ u \in pass[o].white
      BY <1>2 DEF PassInv, PassTyped, PassType
    <3>2. u # Gc(t) /\ ~Held(u)
      BY <1>1, <3>1, ObjectsAssumption DEF HeapInv, WhiteIsFree
    <3> QED
      BY <1>7, <3>1, <3>2
  <2> QED
    BY <2>1 DEF WhiteIsFree
<1> QED
  BY <1>1, <1>3, <1>8, <1>9 DEF HeapInv

(* Nothing has a reference to the table that is cleared. *)
LEMMA ClearingKeepsHeap ==
  ASSUME HeapInv, PassInv, NEW p \in Passes, NEW t \in Tables, Clear(p, t)
  PROVE  HeapInv'
<1>1. /\ field' = [field EXCEPT ![t] = None] /\ meta' = [meta EXCEPT ![t] = None]
      /\ born' = born \ {t} /\ damaged' = damaged \cup {t}
      /\ UNCHANGED <<cell, upvalues, global, local, openCells>>
      /\ t \in pass[p].white
  BY DEF Clear, rootVars
<1>2. Fewer
  BY ClearingKeeps
<1>3. ~Held(t)
  BY <1>1 DEF HeapInv, WhiteIsFree
<1>4. /\ HeapTyped /\ HeldExists /\ UnbornIsEmpty /\ LiveCells \cap damaged = {}
      /\ t \notin Closures /\ t \notin Cells
  BY ObjectsAssumption DEF HeapInv, Objects
<1>5. /\ \A u \in Tables : field'[u] = IF u = t THEN None ELSE field[u]
      /\ \A u \in Tables : meta'[u] = IF u = t THEN None ELSE meta[u]
  BY <1>1, <1>4 DEF HeapTyped
<1>6. HeapTyped' /\ UnbornIsEmpty'
  BY <1>1, <1>4, <1>5 DEF HeapTyped, UnbornIsEmpty
<1>7. LiveCells' = LiveCells /\ LiveCells \subseteq Cells
  BY <1>1, <1>4, Living
<1>8. \A o : HeldBy(o)' => HeldBy(o)
  BY <1>1, <1>2, <1>5, <1>7 DEF HeldBy, Fewer
<1>9. \A o : Held(o)' => Held(o)
  BY <1>8, HeldWhere, HeldWhereNext
<1>10. HeldExists'
  BY <1>1, <1>3, <1>4, <1>9 DEF HeldExists
<1>11. WhiteIsFree'
  BY <1>2, <1>9 DEF HeapInv, WhiteIsFree, Fewer
<1> QED
  BY <1>1, <1>4, <1>6, <1>7, <1>10, <1>11 DEF HeapInv

(* Nor to the closure that goes, and its emptied cells had only that one.   *)
LEMMA SweepingAClosureKeepsHeap ==
  ASSUME HeapInv, PassInv, NEW p \in Passes, NEW f \in Closures, SweepClosure(p, f)
  PROVE  HeapInv'
<1>1. Fewer
  BY SweepingAClosureKeeps
<1>2. UNCHANGED <<field, meta, global, local, openCells>>
  BY DEF SweepClosure, rootVars
<1>3. CASE ~(f \notin black /\ OnlyRegistered(f))
  <2>1. UNCHANGED <<heapVars, rootVars, damaged>>
    BY <1>2, <1>3 DEF SweepClosure, heapVars, rootVars
  <2> QED
    BY <1>1, <2>1, LookingKeepsHeap DEF Fewer
<1>4. CASE f \notin black /\ OnlyRegistered(f)
  <2>1. /\ born' = born \ {f}
        /\ cell' = [c \in Cells |-> IF c \in Emptied(f) THEN None ELSE cell[c]]
        /\ upvalues' = [upvalues EXCEPT ![f] = {}]
        /\ damaged' = damaged \cup {f} \cup Emptied(f)
    BY <1>4 DEF SweepClosure
  <2>2. ~Held(f)
    BY <1>4 DEF OnlyRegistered
  <2>3. /\ HeapTyped /\ HeldExists /\ UnbornIsEmpty /\ LiveCells \cap damaged = {}
        /\ f \notin Tables /\ f \notin Cells
    BY ObjectsAssumption DEF HeapInv, Objects
  <2>4. \A g \in Closures : upvalues'[g] = IF g = f THEN {} ELSE upvalues[g]
    BY <2>1, <2>3 DEF HeapTyped
  <2>5. /\ \A c \in Emptied(f) : c \notin openCells
        /\ \A c \in Emptied(f), g \in born \cap Closures : c \in upvalues[g] => g = f
    BY DEF Emptied, Capturers
  <2>6. LiveCells' \subseteq LiveCells \ Emptied(f) /\ LiveCells \subseteq Cells
    BY <1>2, <2>1, <2>4, <2>5, Living
  <2>7. \A c \in LiveCells' : cell'[c] = cell[c]
    BY <2>1, <2>6
  <2>8. HeapTyped' /\ UnbornIsEmpty'
    BY <1>2, <2>1, <2>3 DEF HeapTyped, UnbornIsEmpty
  <2>9. \A o : HeldBy(o)' => HeldBy(o)
    BY <1>1, <1>2, <2>1, <2>6, <2>7 DEF HeldBy, Fewer
  <2>10. \A o : Held(o)' => Held(o)
    BY <2>9, HeldWhere, HeldWhereNext
  <2>11. HeldExists' /\ WhiteIsFree'
    BY <1>1, <2>1, <2>2, <2>3, <2>10 DEF HeapInv, HeldExists, WhiteIsFree, Fewer
  <2>12. LiveCells' \cap damaged' = {}
    BY <2>1, <2>3, <2>6
  <2> QED
    BY <2>8, <2>11, <2>12 DEF HeapInv
<1> QED
  BY <1>3, <1>4

-----------------------------------------------------------------------------
LEMMA Holding == Spec => [](PassInv /\ HeapInv)
<1>1. Init => PassInv
  <2> SUFFICES ASSUME Init PROVE PassInv
    OBVIOUS
  <2>1. /\ NoPass \in PassType /\ NoPass.at = "idle" /\ NoPass.white = {}
        /\ NoPass.found = {} /\ NoPass.queue = {} /\ NoPass.running = {}
    BY DEF NoPass, PassType
  <2>2. \A p \in Passes : pass[p] = NoPass
    BY DEF Init
  <2>3. PassTyped
    BY <2>1 DEF Init, PassTyped
  <2>4. \A p \in Passes : InStep(p)
    BY <2>1, <2>2 DEF InStep
  <2>5. WhiteIsTaken /\ Tracked
    BY <2>1, <2>2 DEF Init, WhiteIsTaken, Tracked
  <2>6. \A p \in Passes, k \in Kinds : Place(p, k) = {}
    BY <2>1, <2>2 DEF Place
  <2>7. Apart
    BY <2>6 DEF Init, Apart
  <2> QED
    BY <2>3, <2>4, <2>5, <2>7 DEF PassInv
<1>2. Init => HeapInv
  <2> SUFFICES ASSUME Init PROVE HeapInv
    OBVIOUS
  <2>1. HeapTyped /\ UnbornIsEmpty
    BY DEF Init, HeapTyped, UnbornIsEmpty
  <2>2. Queued = {} /\ WhiteIsFree
    BY DEF Init, Queued, NoPass, WhiteIsFree
  <2>3. \A o : HeldBy(o) => o = None
    BY <2>2, Living DEF Init, HeldBy
  <2>4. HeldExists
    BY <2>3, HeldWhere DEF HeldExists
  <2> QED
    BY <2>1, <2>2, <2>4 DEF Init, HeapInv
<1>3. PassInv /\ HeapInv /\ [Next]_vars => PassInv'
  <2> SUFFICES ASSUME PassInv, HeapInv, [Next]_vars PROVE PassInv'
    OBVIOUS
  <2>1. CASE Program
    BY <2>1, ProgramKeeps
  <2>2. ASSUME NEW p \in Passes, Progress(p) \/ CancelPass(p) PROVE PassInv'
    <3>1. CASE \E t \in Tables : Resurrect(p, t) \/ Clear(p, t)
      BY <3>1, ResurrectingKeeps, ClearingKeeps
    <3>2. CASE \E f \in Closures : SweepClosure(p, f)
      BY <3>2, SweepingAClosureKeeps
    <3>3. CASE \E q \in Tables \X Closures : CallFinalizer(p, q)
      BY <3>3, CallingKeeps DEF Pairs
    <3> QED
      BY <2>2, <3>1, <3>2, <3>3, ForgettingKeeps, SweepingKeeps, EnqueueingKeeps, TakingKeeps
         DEF Progress
  <2>3. CASE UNCHANGED vars
    <3>1. UNCHANGED <<pass, pending, registry, born, published>>
      BY <2>3 DEF vars, heapVars, ghosts
    <3>2. Queued' = Queued /\ \A p \in Passes, k \in Kinds : Place(p, k)' = Place(p, k)
      BY <3>1 DEF Queued, Place
    <3> QED
      BY <3>1, <3>2 DEF PassInv, PassTyped, InStep, WhiteIsTaken, Tracked, Apart
  <2> QED
    BY <2>1, <2>2, <2>3 DEF Next, Collector
<1>4. PassInv /\ HeapInv /\ [Next]_vars => HeapInv'
  <2> SUFFICES ASSUME PassInv, HeapInv, [Next]_vars PROVE HeapInv'
    OBVIOUS
  <2>1. CASE Program
    BY <2>1, ProgramKeepsHeap
  <2>2. ASSUME NEW p \in Passes, Progress(p) \/ CancelPass(p) PROVE HeapInv'
    <3>1. CASE \E t \in Tables : Resurrect(p, t) \/ Clear(p, t)
      BY <3>1, ResurrectingKeepsHeap, ClearingKeepsHeap
    <3>2. CASE \E f \in Closures : SweepClosure(p, f)
      BY <3>2, SweepingAClosureKeepsHeap
    <3>3. CASE \/ Mark(p) \/ FinalizerReturns(p) \/ EndPass(p) \/ CancelPass(p)
               \/ Enqueue(p) \/ TakePending(p)
               \/ \E q \in Tables \X Closures : CallFinalizer(p, q)
      <4>1. UNCHANGED <<heapVars, rootVars, damaged>>
        BY <3>3 DEF Mark, FinalizerReturns, EndPass, CancelPass, Enqueue, TakePending,
                    CallFinalizer, ghosts
      <4>2. Fewer
        BY <3>3, ForgettingKeeps, EnqueueingKeeps, TakingKeeps, CallingKeeps DEF Pairs
      <4> QED
        BY <4>1, <4>2, LookingKeepsHeap DEF Fewer
    <3>4. CASE SweepTables(p)
      <4>1. UNCHANGED <<heapVars, rootVars, damaged>>
        BY <3>4 DEF SweepTables, ghosts
      <4> QED
        BY <3>4, <4>1, SweepingKeeps, LookingKeepsHeap
    <3> QED
      BY <2>2, <3>1, <3>2, <3>3, <3>4 DEF Progress
  <2>3. CASE UNCHANGED vars
    <3>1. UNCHANGED <<pass, pending, heapVars, rootVars, damaged>>
      BY <2>3 DEF vars, ghosts
    <3>2. Queued' = Queued
      BY <3>1 DEF Queued
    <3> QED
      BY <3>1, <3>2, LookingKeepsHeap
  <2> QED
    BY <2>1, <2>2, <2>3 DEF Next, Collector
<1> QED
  BY <1>1, <1>2, <1>3, <1>4, PTL DEF Spec

(* A table with a finalizer stays in the hands of the pass that found it,   *)
(* or in gc_tables, and there once, as a later pass needs it, unless the    *)
(* host gave it to set_global; whatever is cancelled (the retain of         *)
(* collect_cycles, GlobalEnv::set_global).                                  *)
THEOREM FinalizersKept == Spec => []FinalizableIsTracked
<1>1. PassInv => FinalizableIsTracked
  BY DEF PassInv, Tracked, FinalizableIsTracked
<1> QED
  BY <1>1, Holding, PTL

LEMMA AtMostOne ==
  ASSUME NEW S, \A x, y \in S : x = y
  PROVE  Cardinality(S) \in {0, 1} /\ (Cardinality(S) = 1 => S # {})
<1>1. CASE S = {}
  BY <1>1, FS_EmptySet
<1>2. CASE S # {}
  <2>1. PICK x : x \in S
    BY <1>2
  <2>2. S = {x}
    BY <2>1
  <2> QED
    BY <2>2, FS_Singleton
<1> QED
  BY <1>1, <1>2

(* However passes overlap, a table waits for its finalizer at one place     *)
(* (pending_finalizers, found_finalizers, the queue of call_finalizers).    *)
THEOREM FinalizersQueuedOnce == Spec => []QueuedOnce
<1>1. PassInv => QueuedOnce
  <2> SUFFICES ASSUME PassInv, NEW t \in Tables, NEW p \in Passes, NEW o \in Passes
               PROVE  LET n(queue) == Cardinality({q \in queue : q[1] = t})
                          in(x) == n(pass[x].found) + n(pass[x].queue) + n(pass[x].running)
                      IN n(pending) + in(p) + (IF o = p THEN 0 ELSE in(o)) <= 1
    BY DEF QueuedOnce
  <2> DEFINE Of(S) == {q \in S : q[1] = t}
             n(S) == Cardinality(Of(S))
  <2>1. Apart
    BY DEF PassInv
  <2>2. \A x \in Passes : /\ Place(x, "found") = pass[x].found
                          /\ Place(x, "queue") = pass[x].queue
                          /\ Place(x, "running") = pass[x].running
    BY DEF Place
  <2>3. {"found", "queue", "running"} \subseteq Kinds
    BY DEF Kinds
  <2>4. n(pending) \in {0, 1} /\ (n(pending) = 1 => Of(pending) # {})
    <3>1. \A x, y \in Of(pending) : x = y
      BY <2>1 DEF Apart
    <3> QED
      BY <3>1, AtMostOne
  <2>5. ASSUME NEW x \in Passes, NEW k \in Kinds
        PROVE  n(Place(x, k)) \in {0, 1} /\ (n(Place(x, k)) = 1 => Of(Place(x, k)) # {})
    <3>1. \A y, z \in Of(Place(x, k)) : y = z
      BY <2>1 DEF Apart
    <3> QED
      BY <3>1, AtMostOne
  <2>6. \A x \in Passes, k \in Kinds : Of(Place(x, k)) # {} => Of(pending) = {}
    BY <2>1 DEF Apart
  <2>7. \A x, y \in Passes, k, l \in Kinds :
          Of(Place(x, k)) # {} /\ Of(Place(y, l)) # {} => x = y /\ k = l
    BY <2>1 DEF Apart
  <2> DEFINE in(x) == n(pass[x].found) + n(pass[x].queue) + n(pass[x].running)
  <2>8. ASSUME NEW x \in Passes
        PROVE  in(x) \in {0, 1} /\ (in(x) = 1 => \E k \in Kinds : n(Place(x, k)) = 1)
    <3> HIDE DEF n, Of
    <3>1. \A k, l \in Kinds : n(Place(x, k)) = 1 /\ n(Place(x, l)) = 1 => k = l
      BY <2>5, <2>7
    <3> QED
      BY <2>2, <2>3, <2>5, <3>1
  <2> HIDE DEF in, n, Of
  <2>9. in(p) = 1 => n(pending) = 0
    BY <2>4, <2>5, <2>6, <2>8
  <2>10. in(o) = 1 => n(pending) = 0
    BY <2>4, <2>5, <2>6, <2>8
  <2>11. in(p) = 1 /\ in(o) = 1 => o = p
    BY <2>5, <2>7, <2>8
  <2>12. n(pending) + in(p) + (IF o = p THEN 0 ELSE in(o)) <= 1
    BY <2>4, <2>8, <2>9, <2>10, <2>11
  <2> QED
    BY <2>12 DEF in, n, Of
<1> QED
  BY <1>1, Holding, PTL

(* No sequence of stores between the marking and the sweeps makes           *)
(* collect_cycles clear what the program or a finalizer can still reach:    *)
(* what is born holds its children, so a set of what is born is closed.     *)
THEOREM LiveIsUntouched == Spec => []ReachableIsIntact
<1>1. PassInv /\ HeapInv => ReachableIsIntact
  <2> SUFFICES ASSUME PassInv, HeapInv PROVE ReachableIsIntact
    OBVIOUS
  <2>1. /\ HeapTyped /\ HeldExists /\ LiveCells \cap damaged = {} /\ born \subseteq Objects
    BY DEF HeapInv, PassInv, PassTyped
  <2>2. Closed(born)
    <3> SUFFICES ASSUME NEW o \in born, NEW v \in Children(o) PROVE v \in born
      BY DEF Closed
    <3>1. v # None
      BY DEF Children
    <3>2. CASE o \in Tables
      <4>1. HeldBy(v)
        BY <3>2 DEF Children, HeldBy
      <4> QED
        BY <2>1, <3>1, <4>1, HeldWhere DEF HeldExists
    <3>3. CASE o \notin Tables
      <4>1. o \in Closures
        BY <2>1, <3>3 DEF Objects
      <4>2. PICK c \in upvalues[o] : v = cell[c]
        BY <3>3 DEF Children
      <4>3. c \in LiveCells
        BY <2>1, <4>1, <4>2, Living DEF HeapTyped
      <4>4. HeldBy(v)
        BY <4>2, <4>3 DEF HeldBy
      <4> QED
        BY <2>1, <3>1, <4>4, HeldWhere DEF HeldExists
    <3> QED
      BY <3>2, <3>3
  <2>3. Roots \ {None} \subseteq born
    <3>1. openCells \subseteq LiveCells
      BY <2>1, Living DEF HeapTyped
    <3>2. \A o \in Roots : HeldBy(o)
      BY <3>1 DEF Roots, QueuedObjects, HeldBy
    <3> QED
      BY <2>1, <3>2, HeldWhere DEF HeldExists
  <2>4. Reach(Roots) \subseteq born
    BY <2>1, <2>2, <2>3 DEF Reach
  <2>5. \A f \in Reach(Roots) \cap Closures : upvalues[f] \subseteq LiveCells
    BY <2>1, <2>4, Living DEF HeapTyped
  <2>6. openCells \subseteq LiveCells
    BY <2>1, Living DEF HeapTyped
  <2> QED
    BY <2>1, <2>4, <2>5, <2>6 DEF ReachableIsIntact
<1> QED
  BY <1>1, Holding, PTL

=============================================================================
