-------------------------- MODULE SyncObjects_proofs --------------------------
(***************************************************************************)
(* Proofs about locks, semaphores and oneshots, for any number of tasks,   *)
(* any number of permits and any growth.                                   *)
(***************************************************************************)
EXTENDS SyncObjects, WaitLine, FiniteSets, FiniteSetTheorems,
        SequenceTheorems, TLAPS

-------------------------------- (* Lines *) ---------------------------------
(* Who leaves a line is gone from it, and nobody else is. *)
LEMMA LeavingALine ==
  ASSUME NEW S, NEW row \in Seq(S), IsLine(row), NEW c, StandsIn(c, row)
  PROVE  /\ Leave(row, c) \in Seq(S)
         /\ IsLine(Leave(row, c))
         /\ ~StandsIn(c, Leave(row, c))
         /\ \A d : d # c => (StandsIn(d, Leave(row, c)) <=> StandsIn(d, row))
         /\ \A i \in DOMAIN Leave(row, c) : StandsIn(Leave(row, c)[i], row)
         /\ row[1] # c => Leave(row, c) # <<>> /\ Leave(row, c)[1] = row[1]
<1> DEFINE place == CHOOSE i \in DOMAIN row : row[i] = c
           left == [i \in 1..Len(row) - 1 |-> row[IF i < place THEN i ELSE i + 1]]
<1>1. place \in 1..Len(row) /\ row[place] = c
  BY DEF StandsIn
<1>2. \A i \in 1..Len(row) : row[i] = c => i = place
  BY <1>1 DEF IsLine
<1> HIDE DEF place
<1>3. /\ left \in Seq(S) /\ Len(left) = Len(row) - 1
      /\ DOMAIN left = 1..Len(row) - 1
      /\ \A i \in 1..Len(row) - 1 : left[i] = row[IF i < place THEN i ELSE i + 1]
  <2>1. \A i \in 1..Len(row) - 1 : row[IF i < place THEN i ELSE i + 1] \in S
    BY <1>1
  <2> QED
    BY <1>1, <2>1
<1>4. Leave(row, c) = left
  BY DEF Leave, place
<1> HIDE DEF left
<1>5. IsLine(left) /\ ~StandsIn(c, left)
  <2>1. ASSUME NEW i \in DOMAIN left
        PROVE  \/ i < place /\ left[i] = row[i]
               \/ i >= place /\ left[i] = row[i + 1]
    BY <1>1, <1>3
  <2>2. ASSUME NEW i \in DOMAIN left, NEW j \in DOMAIN left, left[i] = left[j] PROVE i = j
    <3>1. \A k, l \in 1..Len(row) : row[k] = row[l] => k = l
      BY DEF IsLine
    <3>2. /\ i \in 1..Len(row) /\ i + 1 \in 1..Len(row)
          /\ j \in 1..Len(row) /\ j + 1 \in 1..Len(row)
      BY <1>3
    <3> QED
      BY <1>1, <2>1, <2>2, <3>1, <3>2
  <2>3. ASSUME NEW i \in DOMAIN left PROVE left[i] # c
    BY <1>1, <1>2, <1>3, <2>1
  <2> QED
    BY <2>2, <2>3 DEF IsLine, StandsIn
<1>6. ASSUME NEW d, d # c, StandsIn(d, row) PROVE StandsIn(d, left)
  <2>1. PICK i \in 1..Len(row) : row[i] = d
    BY <1>6 DEF StandsIn
  <2>2. i # place
    BY <1>1, <1>6, <2>1
  <2>3. CASE i < place
    <3>1. i \in 1..Len(left) /\ left[i] = row[i]
      BY <1>1, <1>3, <2>1, <2>3
    <3> QED
      BY <2>1, <3>1 DEF StandsIn
  <2>4. CASE i > place
    <3>1. i - 1 \in 1..Len(row) - 1 /\ left[i - 1] = row[i]
      BY <1>1, <1>3, <2>4
    <3> QED
      BY <1>3, <2>1, <3>1 DEF StandsIn
  <2> QED
    BY <1>1, <2>2, <2>3, <2>4
<1>7. \A i \in DOMAIN left : StandsIn(left[i], row)
  BY <1>1, <1>3 DEF StandsIn
<1>8. row[1] # c => left # <<>> /\ left[1] = row[1]
  BY <1>1, <1>3
<1>9. \A d : d # c => (StandsIn(d, left) <=> StandsIn(d, row))
  BY <1>6, <1>7 DEF StandsIn
<1> QED
  BY <1>3, <1>4, <1>5, <1>7, <1>8, <1>9

(* Who joins a line stands at its end. *)
LEMMA JoiningALine ==
  ASSUME NEW S, NEW row \in Seq(S), IsLine(row), NEW c \in S, ~StandsIn(c, row)
  PROVE  /\ Append(row, c) \in Seq(S) /\ Len(Append(row, c)) = Len(row) + 1
         /\ IsLine(Append(row, c))
         /\ \A d : StandsIn(d, Append(row, c)) <=> StandsIn(d, row) \/ d = c
         /\ Head(Append(row, c)) = IF row = <<>> THEN c ELSE Head(row)
<1>1. /\ Append(row, c) \in Seq(S) /\ Len(Append(row, c)) = Len(row) + 1
      /\ \A i \in 1..Len(row) : Append(row, c)[i] = row[i]
      /\ Append(row, c)[Len(row) + 1] = c
  OBVIOUS
<1>2. IsLine(Append(row, c))
  BY <1>1 DEF IsLine, StandsIn
<1>3. ASSUME NEW d PROVE StandsIn(d, Append(row, c)) <=> StandsIn(d, row) \/ d = c
  BY <1>1 DEF StandsIn
<1> QED
  BY <1>1, <1>2, <1>3

-------------------------------- (* Oneshots *) ------------------------------
(* The sender is used once: the send that has taken it is the only one     *)
(* that can have a value accepted, and it leaves no sender behind.         *)
OneSender ==
  /\ tx = "kept" => slot = Nobody
  /\ \A s \in Others :
       /\ sendPc[s] = "sending" => tx = "taken" /\ slot = Nobody
       /\ sendPc[s] = "sent" => tx = "dropped"
  /\ \A s, u \in Others :
       sendPc[s] \in {"sending", "sent"} /\ sendPc[u] \in {"sending", "sent"} => s = u

(* So is the receiver, and it is gone once a recv has an answer.           *)
OneReceiver ==
  /\ \A r \in Others :
       /\ recvPc[r] = "waiting" => rx = "taken"
       /\ recvPc[r] \in {"value", "nil"} => rx = "dropped"
       /\ recvPc[r] = "nil" => tx = "dropped"
  /\ \A r, q \in Others : recvPc[r] = "waiting" /\ recvPc[q] = "waiting" => r = q

ShotTypes ==
  /\ tx \in {"kept", "taken", "dropped"} /\ rx \in {"kept", "taken", "dropped"}
  /\ slot \in Others \cup {Nobody}
  /\ sendPc \in [Others -> {"idle", "sending", "sent", "closed", "raised"}]
  /\ recvPc \in [Others -> {"idle", "waiting", "value", "nil", "dropped", "raised"}]
  /\ got \in [Others -> Others \cup {Nobody}]

ShotInv == ShotTypes /\ OneSender /\ OneReceiver /\ HandsOver

LEMMA NobodyCalls == Nobody \notin Others
  BY SyncAssumption DEF Shots!NoCallAssumption

LEMMA ShotStart == ASSUME Shots!Init PROVE ShotInv
  BY DEF Shots!Init, ShotInv, ShotTypes, OneSender, OneReceiver, HandsOver,
         Shots!HandsOver

LEMMA ShotSteps == ASSUME ShotInv, Shots!Next PROVE ShotInv'
<1> USE NobodyCalls DEF ShotInv, ShotTypes, OneSender, OneReceiver, HandsOver,
                        Shots!HandsOver
<1>1. CASE Shots!DropHalf
  BY <1>1 DEF Shots!DropHalf
<1>2. ASSUME NEW s \in Others, Shots!TakeSender(s) PROVE ShotInv'
  BY <1>2 DEF Shots!TakeSender
<1>3. ASSUME NEW s \in Others, Shots!Send(s) PROVE ShotInv'
  BY <1>3 DEF Shots!Send
<1>4. ASSUME NEW r \in Others, Shots!TakeReceiver(r) PROVE ShotInv'
  BY <1>4 DEF Shots!TakeReceiver
<1>5. ASSUME NEW r \in Others, Shots!Receive(r) PROVE ShotInv'
  BY <1>5 DEF Shots!Receive
<1>6. ASSUME NEW r \in Others, Shots!DropReceive(r) PROVE ShotInv'
  BY <1>6 DEF Shots!DropReceive
<1> QED
  BY <1>1, <1>2, <1>3, <1>4, <1>5, <1>6 DEF Shots!Next

LEMMA ShotStutters == ASSUME ShotInv, UNCHANGED shotVars PROVE ShotInv'
  BY DEF ShotInv, ShotTypes, OneSender, OneReceiver, HandsOver, Shots!HandsOver, shotVars

--------------------------------- (* Permits *) ------------------------------
LEMMA LockCardinality ==
  ASSUME NEW S PROVE Locks!Cardinality(S) = Cardinality(S)
  BY DEF Locks!Cardinality, Cardinality

LEMMA UnitsOf ==
  ASSUME NEW S, NEW f \in [S -> Nat]
  PROVE  \A u : u \in Locks!Units(f) <=> \E x \in S : \E i \in 1..f[x] : u = <<x, i>>
  BY DEF Locks!Units

(* The permits of one, from the a-th to the b-th. *)
LEMMA UnitsOfOne ==
  ASSUME NEW x, NEW a \in Nat, NEW b \in Nat, a <= b
  PROVE  /\ IsFiniteSet({x} \X (a + 1 .. b))
         /\ Cardinality({x} \X (a + 1 .. b)) = b - a
<1>1. IsFiniteSet({x}) /\ Cardinality({x}) = 1
  BY FS_Singleton
<1>2. IsFiniteSet(a + 1 .. b) /\ Cardinality(a + 1 .. b) = b - a
  <2>1. /\ IsFiniteSet(a + 1 .. b)
        /\ Cardinality(a + 1 .. b) = IF a + 1 > b THEN 0 ELSE b - (a + 1) + 1
    BY FS_Interval
  <2> QED
    BY <2>1
<1>3. /\ IsFiniteSet({x} \X (a + 1 .. b))
      /\ Cardinality({x} \X (a + 1 .. b)) = Cardinality({x}) * Cardinality(a + 1 .. b)
  BY <1>1, <1>2, FS_Product
<1> QED
  BY <1>1, <1>2, <1>3

(* Whoever deals out more deals out the difference on top. *)
LEMMA DealingMore ==
  ASSUME NEW S, NEW f \in [S -> Nat], NEW g \in [S -> Nat],
         IsFiniteSet(Locks!Units(f)),
         NEW more, IsFiniteSet(more),
         \A u : u \in more <=> \E x \in S : \E i \in f[x] + 1 .. g[x] : u = <<x, i>>,
         \A x \in S : f[x] <= g[x]
  PROVE  /\ IsFiniteSet(Locks!Units(g))
         /\ Locks!Total(g) = Locks!Total(f) + Cardinality(more)
         /\ Locks!Total(f) \in Nat /\ Locks!Total(g) \in Nat
<1>1. \A u : u \in Locks!Units(f) <=> \E x \in S : \E i \in 1..f[x] : u = <<x, i>>
  BY UnitsOf
<1>2. \A u : u \in Locks!Units(g) <=> \E x \in S : \E i \in 1..g[x] : u = <<x, i>>
  BY UnitsOf
<1>3. Locks!Units(g) = Locks!Units(f) \cup more
  <2>1. ASSUME NEW x \in S, NEW i \in 1..g[x]
        PROVE  i \in 1..f[x] \/ i \in f[x] + 1 .. g[x]
    OBVIOUS
  <2>2. ASSUME NEW x \in S
        PROVE  1..f[x] \subseteq 1..g[x] /\ f[x] + 1 .. g[x] \subseteq 1..g[x]
    OBVIOUS
  <2> QED
    BY <1>1, <1>2, <2>1, <2>2
<1>4. Locks!Units(f) \cap more = {}
  <2>1. ASSUME NEW x \in S, NEW i \in 1..f[x] PROVE i \notin f[x] + 1 .. g[x]
    OBVIOUS
  <2> QED
    BY <1>1, <2>1
<1>5. /\ IsFiniteSet(Locks!Units(f) \cup more)
      /\ Cardinality(Locks!Units(f) \cup more)
           = Cardinality(Locks!Units(f)) + Cardinality(more) - Cardinality({})
  BY <1>4, FS_Union
<1>6. /\ Cardinality({}) = 0
      /\ Cardinality(Locks!Units(f)) \in Nat /\ Cardinality(Locks!Units(g)) \in Nat
      /\ Cardinality(more) \in Nat
  BY <1>3, <1>5, FS_EmptySet, FS_CardinalityType
<1>7. /\ Locks!Total(g) = Cardinality(Locks!Units(g))
      /\ Locks!Total(f) = Cardinality(Locks!Units(f))
  BY LockCardinality DEF Locks!Total
<1> QED
  BY <1>3, <1>5, <1>6, <1>7

(* What one gets or gives back, the sum gains or loses. *)
LEMMA DealingToOne ==
  ASSUME NEW S, NEW f \in [S -> Nat], IsFiniteSet(Locks!Units(f)),
         NEW x \in S, NEW n \in Nat,
         NEW g \in [S -> Nat], g[x] = n, \A y \in S \ {x} : g[y] = f[y]
  PROVE  /\ IsFiniteSet(Locks!Units(g))
         /\ Locks!Total(g) = Locks!Total(f) - f[x] + n
         /\ Locks!Total(f) \in Nat /\ Locks!Total(g) \in Nat
<1>1. g \in [S -> Nat] /\ g[x] = n /\ \A y \in S \ {x} : g[y] = f[y]
  OBVIOUS
<1>2. f[x] \in Nat
  OBVIOUS
<1>3. CASE f[x] <= n
  <2> DEFINE more == {x} \X (f[x] + 1 .. n)
  <2>1. IsFiniteSet(more) /\ Cardinality(more) = n - f[x]
    BY <1>2, <1>3, UnitsOfOne
  <2>2. \A u : u \in more <=> \E y \in S : \E i \in f[y] + 1 .. g[y] : u = <<y, i>>
    <3>1. \A u : u \in more <=> \E i \in f[x] + 1 .. g[x] : u = <<x, i>>
      BY <1>1
    <3>2. \A y \in S \ {x} : f[y] + 1 .. g[y] = {}
      BY <1>1
    <3> QED
      BY <3>1, <3>2
  <2>3. \A y \in S : f[y] <= g[y]
    BY <1>1, <1>3
  <2> HIDE DEF more
  <2>4. /\ IsFiniteSet(Locks!Units(g))
        /\ Locks!Total(g) = Locks!Total(f) + Cardinality(more)
        /\ Locks!Total(f) \in Nat /\ Locks!Total(g) \in Nat
    BY <1>1, <2>1, <2>2, <2>3, DealingMore
  <2> QED
    BY <1>1, <1>2, <2>1, <2>4
<1>4. CASE n < f[x]
  <2> DEFINE more == {x} \X (n + 1 .. f[x])
  <2>1. IsFiniteSet(more) /\ Cardinality(more) = f[x] - n
    <3>1. n <= f[x]
      BY <1>2, <1>4
    <3> QED
      BY <1>2, <3>1, UnitsOfOne
  <2>2. \A u : u \in more <=> \E y \in S : \E i \in g[y] + 1 .. f[y] : u = <<y, i>>
    <3>1. \A u : u \in more <=> \E i \in g[x] + 1 .. f[x] : u = <<x, i>>
      BY <1>1
    <3>2. \A y \in S \ {x} : g[y] + 1 .. f[y] = {}
      BY <1>1
    <3> QED
      BY <3>1, <3>2
  <2>3. \A y \in S : g[y] <= f[y]
    BY <1>1, <1>4
  <2> HIDE DEF more
  <2>4. IsFiniteSet(Locks!Units(g))
    <3>1. \A u : u \in Locks!Units(f) <=> \E y \in S : \E i \in 1..f[y] : u = <<y, i>>
      BY UnitsOf
    <3>2. \A u : u \in Locks!Units(g) <=> \E y \in S : \E i \in 1..g[y] : u = <<y, i>>
      BY <1>1, UnitsOf
    <3>3. \A y \in S : 1..g[y] \subseteq 1..f[y]
      BY <1>1, <2>3
    <3>4. Locks!Units(g) \in SUBSET Locks!Units(f)
      BY <3>1, <3>2, <3>3
    <3> QED
      BY <3>4, FS_Subset
  <2>5. /\ Locks!Total(f) = Locks!Total(g) + Cardinality(more)
        /\ Locks!Total(f) \in Nat /\ Locks!Total(g) \in Nat
    BY <1>1, <2>1, <2>2, <2>3, <2>4, DealingMore
  <2> QED
    BY <1>1, <1>2, <2>1, <2>4, <2>5
<1> QED
  BY <1>2, <1>3, <1>4

---------------------------------- (* Locks *) -------------------------------
LockStates ==
  {"idle", "waiting", "granted", "held", "refused", "dropped", "released", "raised", "gone"}

(* The calls in the line are those that wait. *)
Lined(q, p) == IsLine(q) /\ \A c \in Tasks : p[c] = "waiting" <=> StandsIn(c, q)

(* Who waits still lacks something, who is through has all, others nothing. *)
Settled(h, p, w) ==
  \A c \in Tasks :
    /\ p[c] \in {"waiting", "granted", "held"} => w[c] >= 1
    /\ p[c] = "waiting" => h[c] < w[c]
    /\ p[c] \in {"granted", "held"} => h[c] = w[c]
    /\ p[c] \notin {"waiting", "granted", "held"} => h[c] = 0

Dealt(q, h, p, w) ==
  /\ q \in Seq(Tasks) /\ h \in [Tasks -> Nat] /\ w \in [Tasks -> Nat]
  /\ p \in [Tasks -> LockStates]
  /\ Lined(q, p) /\ Settled(h, p, w)
  /\ IsFiniteSet(Locks!Units(h))

LEMMA FirstsOfALine ==
  ASSUME NEW q \in Seq(Tasks), NEW k \in 0..Len(q)
  PROVE  {q[i] : i \in 1..k} \in SUBSET Tasks /\ IsFiniteSet({q[i] : i \in 1..k})
<1> DEFINE firsts == {q[i] : i \in 1..k}
           f == [i \in 1..k |-> q[i]]
<1>1. firsts \in SUBSET Tasks
  OBVIOUS
<1>2. f \in Surjection(1..k, firsts)
  BY DEF Surjection
<1>3. IsFiniteSet(1..k)
  BY FS_Interval
<1>4. IsFiniteSet(firsts)
  BY <1>2, <1>3, FS_Surjection
<1> QED
  BY <1>1, <1>4

LEMMA LackingIsFinite ==
  ASSUME NEW cs \in SUBSET Tasks, IsFiniteSet(cs), NEW h \in [Tasks -> Nat],
         want \in [Tasks -> Nat]
  PROVE  IsFiniteSet(Locks!Lacking(cs, h))
<1> DEFINE part(c) == {c} \X (h[c] + 1 .. want[c])
           parts == {part(c) : c \in cs}
           f == [c \in cs |-> part(c)]
<1>1. f \in Surjection(cs, parts)
  BY DEF Surjection
<1>2. IsFiniteSet(parts)
  BY <1>1, FS_Surjection
<1>3. ASSUME NEW c \in cs PROVE IsFiniteSet(part(c))
  <2>1. IsFiniteSet({c}) /\ IsFiniteSet(h[c] + 1 .. want[c])
    <3>1. h[c] + 1 \in Int /\ want[c] \in Int
      OBVIOUS
    <3> QED
      BY <3>1, FS_Singleton, FS_Interval
  <2> QED
    BY <2>1, FS_Product
<1>4. \A T \in parts : IsFiniteSet(T)
  BY <1>3
<1>5. IsFiniteSet(UNION parts)
  BY <1>2, <1>4, FS_UNION
<1> QED
  BY <1>5 DEF Locks!Lacking

(* What is left of a line when the first k are through. *)
LEMMA RestOfALine ==
  ASSUME NEW q \in Seq(Tasks), IsLine(q), NEW k \in 0..Len(q)
  PROVE  /\ SubSeq(q, k + 1, Len(q)) \in Seq(Tasks)
         /\ IsLine(SubSeq(q, k + 1, Len(q)))
         /\ SubSeq(q, k + 1, Len(q)) # <<>> => k < Len(q)
         /\ \A c : StandsIn(c, SubSeq(q, k + 1, Len(q)))
                     <=> StandsIn(c, q) /\ c \notin {q[i] : i \in 1..k}
         /\ k < Len(q) => q[k + 1] \notin {q[i] : i \in 1..k}
<1> DEFINE rest == SubSeq(q, k + 1, Len(q))
<1>1. /\ rest \in Seq(Tasks) /\ Len(rest) = Len(q) - k /\ DOMAIN rest = 1 .. Len(q) - k
      /\ \A i \in 1 .. Len(q) - k : rest[i] = q[k + i]
  <2>1. \A i \in k + 1 .. Len(q) : q[i] \in Tasks
    OBVIOUS
  <2>2. /\ rest \in Seq(Tasks)
        /\ Len(rest) = IF k + 1 <= Len(q) THEN Len(q) - (k + 1) + 1 ELSE 0
        /\ \A i \in 1 .. Len(q) - (k + 1) + 1 : rest[i] = q[k + 1 + i - 1]
    BY <2>1, SubSeqProperties
  <2> QED
    BY <2>2
<1> HIDE DEF rest
<1>2. \A i, j \in 1..Len(q) : q[i] = q[j] => i = j
  BY DEF IsLine
<1>3. IsLine(rest)
  <2>1. ASSUME NEW i \in 1 .. Len(q) - k, NEW j \in 1 .. Len(q) - k, rest[i] = rest[j]
        PROVE  i = j
    <3>1. k + i \in 1..Len(q) /\ k + j \in 1..Len(q) /\ q[k + i] = q[k + j]
      BY <1>1, <2>1
    <3>2. k + i = k + j
      BY <1>2, <3>1
    <3> QED
      BY <3>2
  <2> QED
    BY <1>1, <2>1 DEF IsLine
<1>4. ASSUME NEW c, StandsIn(c, rest) PROVE StandsIn(c, q) /\ c \notin {q[i] : i \in 1..k}
  <2>1. PICK i \in 1 .. Len(q) - k : c = q[k + i]
    BY <1>1, <1>4 DEF StandsIn
  <2>2. k + i \in 1..Len(q) /\ \A j \in 1..k : j \in 1..Len(q) /\ j # k + i
    OBVIOUS
  <2> QED
    BY <1>2, <2>1, <2>2 DEF StandsIn
<1>5. ASSUME NEW c, StandsIn(c, q), c \notin {q[i] : i \in 1..k} PROVE StandsIn(c, rest)
  <2>1. PICK i \in 1..Len(q) : c = q[i]
    BY <1>5 DEF StandsIn
  <2>2. i > k
    BY <1>5, <2>1
  <2>3. i - k \in 1 .. Len(q) - k /\ k + (i - k) = i
    BY <2>1, <2>2
  <2>4. rest[i - k] = c
    BY <1>1, <2>1, <2>3
  <2> QED
    BY <1>1, <2>3, <2>4 DEF StandsIn
<1>6. k < Len(q) => q[k + 1] \notin {q[i] : i \in 1..k}
  BY <1>2
<1>7. rest # <<>> => k < Len(q)
  BY <1>1
<1> QED
  BY <1>1, <1>3, <1>4, <1>5, <1>6, <1>7 DEF rest

(* n permits come free for the line q of calls that have h. *)
Frees(n, q, h, p) ==
  /\ n \in Nat /\ Dealt(q, h, p, want)
  /\ avail \in Nat /\ (q # <<>> => avail = 0)
  /\ Locks!AddPermits(n, q, h, p)

(* Permits that come free go to the line and, if it is satisfied, to the   *)
(* free ones: none is lost.                                                *)
LEMMA Freeing ==
  ASSUME NEW n, NEW q, NEW h, NEW p, Frees(n, q, h, p)
  PROVE  /\ Dealt(line', has', guardPc', want)
         /\ avail' \in Nat
         /\ avail' + Locks!Total(has') = avail + Locks!Total(h) + n
         /\ Locks!Total(has') \in Nat /\ Locks!Total(h) \in Nat
         /\ line' # <<>> => avail' = 0
<1>0. /\ n \in Nat /\ avail \in Nat /\ (q # <<>> => avail = 0)
      /\ Dealt(q, h, p, want) /\ Locks!AddPermits(n, q, h, p)
  BY DEF Frees
<1> USE <1>0 DEF Dealt
<1>1. PICK k \in 0..Len(q) :
        LET full == {q[i] : i \in 1..k}
            used == Locks!Cardinality(Locks!Lacking(full, h))
            left == n - used
            filled == [c \in Tasks |-> IF c \in full THEN want[c] ELSE h[c]]
        IN  /\ used <= n
            /\ \/ /\ k = Len(q)
                  /\ avail' = avail + left
                  /\ has' = filled
               \/ /\ k < Len(q)
                  /\ h[q[k + 1]] + left < want[q[k + 1]]
                  /\ avail' = avail
                  /\ has' = [filled EXCEPT ![q[k + 1]] = @ + left]
            /\ line' = SubSeq(q, k + 1, Len(q))
            /\ guardPc' = [c \in Tasks |-> IF c \in full THEN "granted" ELSE p[c]]
  BY Zenon DEF Locks!AddPermits
<1> DEFINE full == {q[i] : i \in 1..k}
           lacking == Locks!Lacking(full, h)
           left == n - Cardinality(lacking)
           filled == [c \in Tasks |-> IF c \in full THEN want[c] ELSE h[c]]
<1>2. /\ Cardinality(lacking) <= n
      /\ \/ /\ k = Len(q)
            /\ avail' = avail + left
            /\ has' = filled
         \/ /\ k < Len(q)
            /\ h[q[k + 1]] + left < want[q[k + 1]]
            /\ avail' = avail
            /\ has' = [filled EXCEPT ![q[k + 1]] = @ + left]
      /\ line' = SubSeq(q, k + 1, Len(q))
      /\ guardPc' = [c \in Tasks |-> IF c \in full THEN "granted" ELSE p[c]]
  BY <1>1, LockCardinality, Zenon
<1>3. /\ full \in SUBSET Tasks /\ IsFiniteSet(full)
      /\ \A c \in full : StandsIn(c, q)
  <2>1. \A c \in full : StandsIn(c, q)
    BY DEF StandsIn
  <2> QED
    BY <2>1, FirstsOfALine
<1> DEFINE rest == SubSeq(q, k + 1, Len(q))
<1>4. /\ rest \in Seq(Tasks)
      /\ IsLine(rest)
      /\ rest # <<>> => k < Len(q)
      /\ \A c : StandsIn(c, rest) <=> StandsIn(c, q) /\ c \notin full
      /\ k < Len(q) => q[k + 1] \in Tasks /\ q[k + 1] \notin full /\ StandsIn(q[k + 1], q)
  <2>1. IsLine(q) /\ q \in Seq(Tasks)
    BY DEF Lined
  <2>2. k < Len(q) => q[k + 1] \in Tasks /\ StandsIn(q[k + 1], q)
    BY DEF StandsIn
  <2> QED
    BY <2>1, <2>2, RestOfALine
<1> HIDE DEF full, rest
<1>5. \A c \in full : p[c] = "waiting" /\ h[c] < want[c]
  BY <1>3 DEF Lined, Settled
<1>6. IsFiniteSet(lacking) /\ Cardinality(lacking) \in Nat /\ left \in Nat
  <2>1. IsFiniteSet(lacking)
    BY <1>3, LackingIsFinite
  <2>2. Cardinality(lacking) \in Nat
    BY <2>1, FS_CardinalityType
  <2> QED
    BY <1>2, <2>1, <2>2
<1>7. filled \in [Tasks -> Nat] /\ \A c \in Tasks : h[c] <= filled[c]
  BY <1>5
<1>8. \A u : u \in lacking <=> \E x \in Tasks : \E i \in h[x] + 1 .. filled[x] : u = <<x, i>>
  <2>1. \A u : u \in lacking <=> \E x \in full : \E i \in h[x] + 1 .. want[x] : u = <<x, i>>
    BY DEF Locks!Lacking
  <2>2. \A x \in full : x \in Tasks /\ filled[x] = want[x]
    BY <1>3
  <2>3. \A x \in Tasks \ full : h[x] + 1 .. filled[x] = {}
    OBVIOUS
  <2> HIDE DEF filled, lacking
  <2> QED
    BY <2>1, <2>2, <2>3
<1> HIDE DEF filled, lacking
<1>9. /\ IsFiniteSet(Locks!Units(filled))
      /\ Locks!Total(filled) = Locks!Total(h) + Cardinality(lacking)
      /\ Locks!Total(h) \in Nat /\ Locks!Total(filled) \in Nat
  BY <1>6, <1>7, <1>8, DealingMore
<1>10. /\ guardPc' \in [Tasks -> LockStates]
       /\ Lined(rest, guardPc')
       /\ \A c \in full : guardPc'[c] = "granted"
       /\ \A c \in Tasks \ full : guardPc'[c] = p[c]
  <2>1. guardPc' \in [Tasks -> LockStates]
    BY <1>2 DEF LockStates
  <2>2. /\ \A c \in full : guardPc'[c] = "granted"
        /\ \A c \in Tasks \ full : guardPc'[c] = p[c]
    BY <1>2, <1>3
  <2>3. \A c \in Tasks : guardPc'[c] = "waiting" <=> StandsIn(c, rest)
    BY <1>3, <1>4, <2>2 DEF Lined
  <2> QED
    BY <1>4, <2>1, <2>2, <2>3 DEF Lined
<1>11. CASE k = Len(q)
  <2>1. avail' = avail + left /\ has' = filled /\ line' = rest
    BY <1>2, <1>11 DEF rest
  <2>2. rest = <<>>
    BY <1>4, <1>11
  <2>3. Settled(has', guardPc', want)
    BY <1>3, <1>5, <1>10, <2>1 DEF Settled, filled
  <2>4. Dealt(line', has', guardPc', want)
    BY <1>4, <1>7, <1>9, <1>10, <2>1, <2>3
  <2>5. avail' + Locks!Total(has') = avail + Locks!Total(h) + n /\ avail' \in Nat
    BY <1>6, <1>9, <2>1
  <2> QED
    BY <1>9, <2>1, <2>2, <2>4, <2>5
<1>12. CASE k < Len(q)
  <2> DEFINE d == q[k + 1]
  <2>1. /\ avail' = avail /\ line' = rest
        /\ has' = [filled EXCEPT ![d] = filled[d] + left]
        /\ h[d] + left < want[d]
    BY <1>2, <1>12 DEF rest
  <2>2. d \in Tasks /\ d \notin full /\ p[d] = "waiting" /\ filled[d] = h[d]
    BY <1>4, <1>12 DEF Lined, filled
  <2> HIDE DEF d
  <2>3. filled[d] + left \in Nat
    BY <1>6, <1>7, <2>2
  <2>4. /\ has' \in [Tasks -> Nat] /\ IsFiniteSet(Locks!Units(has'))
        /\ Locks!Total(has') = Locks!Total(filled) - filled[d] + (filled[d] + left)
        /\ Locks!Total(has') \in Nat
    <3> DEFINE m == filled[d] + left
    <3>1. /\ m \in Nat /\ has' \in [Tasks -> Nat]
          /\ has'[d] = m /\ \A c \in Tasks \ {d} : has'[c] = filled[c]
      BY <1>7, <2>1, <2>2, <2>3
    <3> HIDE DEF m, Dealt
    <3>2. filled \in [Tasks -> Nat] /\ IsFiniteSet(Locks!Units(filled)) /\ d \in Tasks
      BY <1>7, <1>9, <2>2
    <3>3. /\ IsFiniteSet(Locks!Units(has'))
          /\ Locks!Total(has') = Locks!Total(filled) - filled[d] + m
          /\ Locks!Total(has') \in Nat
      BY <3>1, <3>2, DealingToOne
    <3> QED
      BY <3>1, <3>3 DEF m
  <2>5. Settled(has', guardPc', want)
    <3>1. /\ has'[d] = h[d] + left
          /\ \A c \in Tasks \ {d} : has'[c] = filled[c]
      BY <1>7, <2>1, <2>2
    <3>2. /\ \A c \in full : filled[c] = want[c] /\ want[c] >= 1
          /\ \A c \in Tasks \ full : filled[c] = h[c]
      BY <1>3, <1>5 DEF filled, Settled
    <3> QED
      BY <1>10, <2>1, <2>2, <3>1, <3>2 DEF Settled
  <2>6. Dealt(line', has', guardPc', want)
    BY <1>4, <1>10, <2>1, <2>4, <2>5
  <2>7. avail' + Locks!Total(has') = avail + Locks!Total(h) + n
    <3>1. filled[d] \in Nat
      BY <1>7, <2>2
    <3>2. Locks!Total(has') = Locks!Total(h) + Cardinality(lacking) + left
      BY <1>6, <1>9, <2>4, <3>1
    <3>3. Locks!Total(has') = Locks!Total(h) + n
      BY <1>6, <1>9, <3>2
    <3> QED
      BY <1>9, <2>1, <3>3
  <2>8. avail = 0
    <3>1. q # <<>>
      BY <1>12
    <3> QED
      BY <3>1
  <2> QED
    BY <1>9, <2>1, <2>4, <2>6, <2>7, <2>8
<1>13. k = Len(q) \/ k < Len(q)
  BY <1>2, Zenon
<1> QED
  BY <1>11, <1>12, <1>13, Zenon

(* Every permit is free, with a call, or still to be added.                *)
LockInv ==
  /\ kind \in Locks!Kinds /\ permits \in Nat /\ avail \in Nat
  /\ growth \in [Others -> Nat]
  /\ \A g \in Others : g \notin growers => growth[g] = 0
  /\ Dealt(line, has, guardPc, want)
  /\ IsFiniteSet(Locks!Units(growth))
  /\ Locks!PermitsConserved
  /\ kind = "mutex" => permits = 1
  /\ kind = "rwlock" => permits = MaxReads

LEMMA LockConstants == MaxReads \in Nat \ {0} /\ PermitCounts \subseteq Nat
  BY SyncAssumption DEF Locks!PermitsAssumption

LEMMA LockLeave ==
  ASSUME NEW q, NEW c PROVE Locks!Leave(q, c) = Leave(q, c)
  BY DEF Locks!Leave, Leave

LEMMA NothingDealt ==
  ASSUME NEW S PROVE /\ IsFiniteSet(Locks!Units([x \in S |-> 0]))
                     /\ Locks!Total([x \in S |-> 0]) = 0
<1>1. Locks!Units([x \in S |-> 0]) = {}
  BY DEF Locks!Units
<1> QED
  BY <1>1, LockCardinality, FS_EmptySet DEF Locks!Total

LEMMA TotalIsNat ==
  ASSUME NEW f, IsFiniteSet(Locks!Units(f)) PROVE Locks!Total(f) \in Nat
  BY LockCardinality, FS_CardinalityType DEF Locks!Total

LEMMA LockStart == ASSUME Locks!Init PROVE LockInv
<1>1. /\ kind \in Locks!Kinds /\ permits \in Nat /\ avail = permits
      /\ kind = "mutex" => permits = 1
      /\ kind = "rwlock" => permits = MaxReads
  BY LockConstants DEF Locks!Init, Locks!Kinds
<1>2. /\ line = <<>> /\ has = [c \in Tasks |-> 0] /\ want = [c \in Tasks |-> 0]
      /\ guardPc = [c \in Tasks |-> "idle"] /\ growth = [g \in Others |-> 0]
  BY DEF Locks!Init
<1>3. /\ IsFiniteSet(Locks!Units(has)) /\ Locks!Total(has) = 0
      /\ IsFiniteSet(Locks!Units(growth)) /\ Locks!Total(growth) = 0
  BY <1>2, NothingDealt
<1>4. Lined(line, guardPc)
  BY <1>2 DEF Lined, IsLine, StandsIn
<1>5. Settled(has, guardPc, want)
  BY <1>2 DEF Settled
<1>6. Dealt(line, has, guardPc, want)
  BY <1>2, <1>3, <1>4, <1>5 DEF Dealt, LockStates
<1>7. Locks!PermitsConserved
  BY <1>1, <1>2, <1>3 DEF Locks!PermitsConserved
<1> QED
  BY <1>1, <1>2, <1>3, <1>6, <1>7 DEF LockInv

LEMMA AcquiringALock ==
  ASSUME LockInv, NEW c \in Tasks, Locks!Acquire(c)
  PROVE  LockInv'
<1> USE DEF LockInv
<1>1. /\ guardPc[c] = "idle" /\ has[c] = 0 /\ ~StandsIn(c, line)
      /\ has \in [Tasks -> Nat] /\ want \in [Tasks -> Nat]
      /\ IsFiniteSet(Locks!Units(has))
      /\ guardPc \in [Tasks -> LockStates] /\ line \in Seq(Tasks)
      /\ Lined(line, guardPc) /\ Settled(has, guardPc, want)
  BY DEF Locks!Acquire, Dealt, Lined, Settled
<1>2. PICK w \in Locks!Weights :
        /\ want' = [want EXCEPT ![c] = w]
        /\ \/ /\ avail >= w
              /\ avail' = avail - w
              /\ has' = [has EXCEPT ![c] = w]
              /\ guardPc' = [guardPc EXCEPT ![c] = "held"]
              /\ UNCHANGED line
           \/ /\ avail < w
              /\ has' = [has EXCEPT ![c] = avail]
              /\ avail' = 0
              /\ line' = Append(line, c)
              /\ guardPc' = [guardPc EXCEPT ![c] = "waiting"]
           \/ /\ avail < w
              /\ guardPc' = [guardPc EXCEPT ![c] = "refused"]
              /\ UNCHANGED <<avail, line, has>>
  BY DEF Locks!Acquire
<1>3. w \in Nat \ {0} /\ want' \in [Tasks -> Nat]
  BY <1>1, <1>2, LockConstants DEF Locks!Weights
<1>4. UNCHANGED <<kind, permits, growth, growers>>
  BY DEF Locks!Acquire
<1>5. /\ permits = avail + Locks!Total(has) + Locks!Total(growth)
      /\ line # <<>> => avail = 0
      /\ Locks!Total(has) \in Nat /\ Locks!Total(growth) \in Nat
  BY <1>1, TotalIsNat DEF Locks!PermitsConserved
<1>6. CASE /\ avail >= w
           /\ avail' = avail - w
           /\ has' = [has EXCEPT ![c] = w]
           /\ guardPc' = [guardPc EXCEPT ![c] = "held"]
           /\ UNCHANGED line
  <2>1. has' \in [Tasks -> Nat] /\ has'[c] = w /\ \A d \in Tasks \ {c} : has'[d] = has[d]
    BY <1>1, <1>3, <1>6
  <2>2. /\ IsFiniteSet(Locks!Units(has'))
        /\ Locks!Total(has') = Locks!Total(has) - has[c] + w
        /\ Locks!Total(has') \in Nat
    <3>1. has \in [Tasks -> Nat] /\ IsFiniteSet(Locks!Units(has)) /\ w \in Nat
      BY <1>1, <1>3
    <3> HIDE DEF LockInv
    <3> QED
      BY <2>1, <3>1, DealingToOne
  <2>3. Dealt(line, has, guardPc, want)'
    <3>1. guardPc' \in [Tasks -> LockStates] /\ Lined(line, guardPc)'
      BY <1>1, <1>6 DEF Lined, LockStates
    <3>2. Settled(has, guardPc, want)'
      BY <1>1, <1>2, <1>3, <1>6 DEF Settled
    <3> QED
      BY <1>1, <1>3, <1>6, <2>1, <2>2, <3>1, <3>2 DEF Dealt
  <2>4. avail' \in Nat /\ avail' + Locks!Total(has') = avail + Locks!Total(has)
    BY <1>1, <1>3, <1>5, <1>6, <2>2
  <2>5. line' # <<>> => avail' = 0
    BY <1>3, <1>5, <1>6
  <2> QED
    BY <1>4, <1>5, <2>3, <2>4, <2>5 DEF Locks!PermitsConserved
<1>7. CASE /\ avail < w
           /\ has' = [has EXCEPT ![c] = avail]
           /\ avail' = 0
           /\ line' = Append(line, c)
           /\ guardPc' = [guardPc EXCEPT ![c] = "waiting"]
  <2>1. /\ has' \in [Tasks -> Nat] /\ has'[c] = avail
        /\ \A d \in Tasks \ {c} : has'[d] = has[d]
    BY <1>1, <1>7
  <2>2. /\ IsFiniteSet(Locks!Units(has'))
        /\ Locks!Total(has') = Locks!Total(has) - has[c] + avail
        /\ Locks!Total(has') \in Nat
    <3>1. has \in [Tasks -> Nat] /\ IsFiniteSet(Locks!Units(has)) /\ avail \in Nat
      BY <1>1
    <3> HIDE DEF LockInv
    <3> QED
      BY <2>1, <3>1, DealingToOne
  <2>3. Dealt(line, has, guardPc, want)'
    <3>1. /\ line' \in Seq(Tasks) /\ IsLine(line')
          /\ \A d : StandsIn(d, line') <=> StandsIn(d, line) \/ d = c
      BY <1>1, <1>7, JoiningALine DEF Lined
    <3>2. guardPc' \in [Tasks -> LockStates] /\ Lined(line, guardPc)'
      BY <1>1, <1>7, <3>1 DEF Lined, LockStates
    <3>3. Settled(has, guardPc, want)'
      BY <1>1, <1>2, <1>3, <1>7 DEF Settled
    <3> QED
      BY <1>3, <2>1, <2>2, <3>1, <3>2, <3>3 DEF Dealt
  <2>4. avail' \in Nat /\ avail' + Locks!Total(has') = avail + Locks!Total(has)
    BY <1>1, <1>5, <1>7, <2>2
  <2> QED
    BY <1>4, <1>5, <1>7, <2>3, <2>4 DEF Locks!PermitsConserved
<1>8. CASE /\ avail < w
           /\ guardPc' = [guardPc EXCEPT ![c] = "refused"]
           /\ UNCHANGED <<avail, line, has>>
  <2>1. Dealt(line, has, guardPc, want)'
    <3>1. guardPc' \in [Tasks -> LockStates] /\ Lined(line, guardPc)'
      BY <1>1, <1>8 DEF Lined, LockStates
    <3>2. Settled(has, guardPc, want)'
      BY <1>1, <1>2, <1>3, <1>8 DEF Settled
    <3> QED
      BY <1>1, <1>3, <1>8, <3>1, <3>2 DEF Dealt
  <2> QED
    BY <1>4, <1>5, <1>8, <2>1 DEF Locks!PermitsConserved
<1> QED
  BY <1>2, <1>6, <1>7, <1>8

LEMMA PollingALock ==
  ASSUME LockInv, NEW c \in Tasks, Locks!Poll(c)
  PROVE  LockInv'
<1>1. /\ guardPc[c] = "granted" /\ guardPc' = [guardPc EXCEPT ![c] = "held"]
      /\ UNCHANGED <<kind, permits, avail, line, has, want, growth, growers>>
  BY DEF Locks!Poll
<1>2. Dealt(line, has, guardPc, want)'
  BY <1>1 DEF LockInv, Dealt, Lined, Settled, LockStates
<1> QED
  BY <1>1, <1>2 DEF LockInv, Locks!PermitsConserved

(* A call that gives up, or a guard that goes, gives back what it had.     *)
LEMMA GivingBack ==
  ASSUME LockInv, NEW c \in Tasks, guardPc[c] \in {"waiting", "granted", "held"},
         NEW s \in {"dropped", "released", "gone"},
         Locks!AddPermits(has[c], Locks!Without(c), [has EXCEPT ![c] = 0],
                          [guardPc EXCEPT ![c] = s]),
         UNCHANGED <<kind, permits, want, growth, growers>>
  PROVE  LockInv'
<1> DEFINE q == Locks!Without(c)
           h == [has EXCEPT ![c] = 0]
           p == [guardPc EXCEPT ![c] = s]
           n == has[c]
<1>1. /\ has \in [Tasks -> Nat] /\ want \in [Tasks -> Nat]
      /\ guardPc \in [Tasks -> LockStates] /\ line \in Seq(Tasks)
      /\ Lined(line, guardPc) /\ Settled(has, guardPc, want)
      /\ IsFiniteSet(Locks!Units(has))
  BY DEF LockInv, Dealt
<1>2. /\ q \in Seq(Tasks) /\ IsLine(q) /\ ~StandsIn(c, q)
      /\ \A d : d # c => (StandsIn(d, q) <=> StandsIn(d, line))
      /\ q # <<>> => line # <<>>
  <2>1. CASE guardPc[c] = "waiting"
    <3>1. StandsIn(c, line) /\ IsLine(line)
      BY <1>1, <2>1 DEF Lined
    <3>2. q = Leave(line, c)
      BY <2>1, LockLeave DEF Locks!Without
    <3>3. line # <<>>
      BY <3>1 DEF StandsIn
    <3> HIDE DEF q
    <3> QED
      BY <1>1, <3>1, <3>2, <3>3, LeavingALine
  <2>2. CASE guardPc[c] # "waiting"
    <3>1. q = line
      BY <2>2 DEF Locks!Without
    <3> HIDE DEF q
    <3> QED
      BY <1>1, <2>2, <3>1 DEF Lined
  <2> QED
    BY <2>1, <2>2
<1>3. /\ h \in [Tasks -> Nat] /\ h[c] = 0 /\ \A d \in Tasks \ {c} : h[d] = has[d]
      /\ p \in [Tasks -> LockStates] /\ p[c] = s
      /\ \A d \in Tasks \ {c} : p[d] = guardPc[d]
      /\ n \in Nat
  BY <1>1 DEF LockStates
<1> HIDE DEF q, h, p, n
<1>4. /\ IsFiniteSet(Locks!Units(h))
      /\ Locks!Total(h) = Locks!Total(has) - n
      /\ Locks!Total(has) \in Nat
  <2>1. has \in [Tasks -> Nat] /\ IsFiniteSet(Locks!Units(has)) /\ 0 \in Nat
    BY <1>1
  <2>2. /\ h \in [Tasks -> Nat] /\ h[c] = 0 /\ \A d \in Tasks \ {c} : h[d] = has[d]
    BY <1>3
  <2>3. /\ IsFiniteSet(Locks!Units(h))
        /\ Locks!Total(h) = Locks!Total(has) - has[c] + 0
        /\ Locks!Total(has) \in Nat
    BY <2>1, <2>2, DealingToOne
  <2> QED
    BY <1>3, <2>3 DEF n
<1>5. Dealt(q, h, p, want)
  <2>1. Lined(q, p)
    BY <1>1, <1>2, <1>3 DEF Lined
  <2>2. Settled(h, p, want)
    BY <1>1, <1>3 DEF Settled
  <2> QED
    BY <1>1, <1>2, <1>3, <1>4, <2>1, <2>2 DEF Dealt
<1>6. Locks!AddPermits(n, q, h, p)
  BY DEF n, q, h, p
<1>7. /\ avail \in Nat /\ (q # <<>> => avail = 0)
      /\ permits = avail + Locks!Total(has) + Locks!Total(growth)
      /\ Locks!Total(growth) \in Nat
  BY <1>2, TotalIsNat DEF LockInv, Locks!PermitsConserved
<1>8. /\ Dealt(line', has', guardPc', want)
      /\ avail' \in Nat
      /\ avail' + Locks!Total(has') = avail + Locks!Total(h) + n
      /\ Locks!Total(has') \in Nat /\ Locks!Total(h) \in Nat
      /\ line' # <<>> => avail' = 0
  <2>1. Frees(n, q, h, p)
    BY <1>3, <1>5, <1>6, <1>7 DEF Frees
  <2> QED
    BY <2>1, Freeing
<1>9. permits = avail' + Locks!Total(has') + Locks!Total(growth)
  <2>1. n \in Nat /\ avail' + Locks!Total(has') = avail + (Locks!Total(has) - n) + n
    BY <1>3, <1>4, <1>8
  <2> QED
    BY <1>4, <1>7, <1>8, <2>1
<1> QED
  BY <1>8, <1>9 DEF LockInv, Locks!PermitsConserved

LEMMA ReleasingALock ==
  ASSUME LockInv, NEW c \in Tasks,
         Locks!DropCall(c) \/ Locks!Unlock(c) \/ Locks!DropGuard(c)
  PROVE  LockInv'
<1>1. CASE Locks!DropCall(c)
  BY <1>1, GivingBack DEF Locks!DropCall
<1>2. CASE guardPc[c] = "held" /\ (Locks!Unlock(c) \/ Locks!DropGuard(c))
  <2>1. Locks!Without(c) = line
    BY <1>2 DEF Locks!Without
  <2>2. \E s \in {"released", "gone"} :
          /\ Locks!AddPermits(has[c], line, [has EXCEPT ![c] = 0],
                              [guardPc EXCEPT ![c] = s])
          /\ UNCHANGED <<kind, permits, want, growth, growers>>
    BY <1>2 DEF Locks!Unlock, Locks!DropGuard
  <2> QED
    BY <1>2, <2>1, <2>2, GivingBack
<1>3. CASE guardPc[c] # "held" /\ Locks!Unlock(c)
  <2>1. /\ guardPc[c] = "released" /\ guardPc' = [guardPc EXCEPT ![c] = "raised"]
        /\ UNCHANGED <<kind, permits, avail, line, has, want, growth, growers>>
    BY <1>3 DEF Locks!Unlock
  <2>2. Dealt(line, has, guardPc, want)'
    BY <2>1 DEF LockInv, Dealt, Lined, Settled, LockStates
  <2> QED
    BY <2>1, <2>2 DEF LockInv, Locks!PermitsConserved
<1> QED
  BY <1>1, <1>2, <1>3 DEF Locks!DropGuard

(* What a grower claims by raising the count is what is still to be added. *)
LEMMA GrowingASemaphore ==
  ASSUME LockInv, NEW g \in Others, Locks!Grow(g)
  PROVE  LockInv'
<1>1. /\ kind = "semaphore" /\ g \notin growers /\ growers' = growers \cup {g}
      /\ UNCHANGED <<kind, avail, line, has, want, guardPc>>
  BY DEF Locks!Grow
<1>2. PICK n \in PermitCounts :
        \/ n > permits /\ permits' = n /\ growth' = [growth EXCEPT ![g] = n - permits]
        \/ UNCHANGED <<permits, growth>>
  BY DEF Locks!Grow
<1>3. CASE UNCHANGED <<permits, growth>>
  BY <1>1, <1>3 DEF LockInv, Locks!PermitsConserved
<1>4. CASE n > permits /\ permits' = n /\ growth' = [growth EXCEPT ![g] = n - permits]
  <2>1. /\ n \in Nat /\ permits \in Nat /\ n - permits \in Nat
        /\ growth \in [Others -> Nat] /\ IsFiniteSet(Locks!Units(growth))
    BY <1>4, LockConstants DEF LockInv
  <2>2. /\ growth' \in [Others -> Nat] /\ growth'[g] = n - permits
        /\ \A f \in Others \ {g} : growth'[f] = growth[f]
    BY <1>4, <2>1
  <2>3. /\ IsFiniteSet(Locks!Units(growth'))
        /\ Locks!Total(growth') = Locks!Total(growth) - growth[g] + (n - permits)
        /\ Locks!Total(growth) \in Nat /\ Locks!Total(growth') \in Nat
    BY <2>1, <2>2, DealingToOne
  <2>4. /\ permits = avail + Locks!Total(has) + Locks!Total(growth)
        /\ Locks!Total(has) \in Nat /\ avail \in Nat
    BY TotalIsNat DEF LockInv, Locks!PermitsConserved, Dealt
  <2>5. permits' = avail + Locks!Total(has) + Locks!Total(growth')
    <3>1. growth[g] = 0
      BY <1>1 DEF LockInv
    <3> QED
      BY <1>4, <2>1, <2>3, <2>4, <3>1
  <2>6. permits' \in Nat
    BY <1>4, <2>1
  <2> QED
    BY <1>1, <2>2, <2>3, <2>5, <2>6 DEF LockInv, Locks!PermitsConserved
<1> QED
  BY <1>2, <1>3, <1>4

LEMMA AddingGrowth ==
  ASSUME LockInv, NEW g \in Others, Locks!AddGrowth(g)
  PROVE  LockInv'
<1>1. /\ Locks!AddPermits(growth[g], line, has, guardPc)
      /\ growth' = [growth EXCEPT ![g] = 0]
      /\ UNCHANGED <<kind, permits, want, growers>>
  BY DEF Locks!AddGrowth
<1>2. /\ growth \in [Others -> Nat] /\ growth[g] \in Nat
      /\ IsFiniteSet(Locks!Units(growth)) /\ 0 \in Nat
  BY DEF LockInv
<1>3. /\ growth' \in [Others -> Nat] /\ growth'[g] = 0
      /\ \A f \in Others \ {g} : growth'[f] = growth[f]
  BY <1>1, <1>2
<1>4. /\ IsFiniteSet(Locks!Units(growth'))
      /\ Locks!Total(growth') = Locks!Total(growth) - growth[g] + 0
      /\ Locks!Total(growth) \in Nat /\ Locks!Total(growth') \in Nat
  BY <1>2, <1>3, DealingToOne
<1>5. /\ Dealt(line, has, guardPc, want)
      /\ avail \in Nat /\ (line # <<>> => avail = 0)
      /\ permits = avail + Locks!Total(has) + Locks!Total(growth)
  BY DEF LockInv, Locks!PermitsConserved
<1>6. /\ Dealt(line', has', guardPc', want)
      /\ avail' \in Nat
      /\ avail' + Locks!Total(has') = avail + Locks!Total(has) + growth[g]
      /\ Locks!Total(has') \in Nat /\ Locks!Total(has) \in Nat
      /\ line' # <<>> => avail' = 0
  <2>1. Frees(growth[g], line, has, guardPc)
    BY <1>1, <1>2, <1>5 DEF Frees
  <2> QED
    BY <2>1, Freeing
<1>7. permits = avail' + Locks!Total(has') + Locks!Total(growth')
  <2>1. Locks!Total(growth') = Locks!Total(growth) - growth[g]
    BY <1>2, <1>4
  <2> QED
    BY <1>2, <1>4, <1>5, <1>6, <2>1
<1> QED
  BY <1>1, <1>3, <1>4, <1>6, <1>7 DEF LockInv, Locks!PermitsConserved

LEMMA LockSteps == ASSUME LockInv, Locks!Next PROVE LockInv'
  BY AcquiringALock, PollingALock, ReleasingALock, GrowingASemaphore, AddingGrowth
     DEF Locks!Next

LEMMA LockStutters == ASSUME LockInv, UNCHANGED lockVars PROVE LockInv'
  BY DEF LockInv, lockVars, Dealt, Locks!PermitsConserved

(* Each holder has a permit of its own. *)
LEMMA HoldersHavePermits ==
  ASSUME LockInv
  PROVE  /\ IsFiniteSet(Locks!Holders)
         /\ Cardinality(Locks!Holders) <= Locks!Total(has)
         /\ Locks!Total(has) <= permits
<1>1. /\ has \in [Tasks -> Nat] /\ IsFiniteSet(Locks!Units(has))
      /\ \A c \in Locks!Holders : c \in Tasks /\ has[c] = want[c] /\ has[c] >= 1
  BY DEF LockInv, Dealt, Settled, Locks!Holders
<1> DEFINE f == [c \in Locks!Holders |-> <<c, 1>>]
<1>2. \A c \in Locks!Holders : <<c, 1>> \in Locks!Units(has)
  <2>1. \A c \in Locks!Holders : 1 \in 1..has[c]
    BY <1>1
  <2> QED
    BY <1>1, <2>1, UnitsOf
<1>3. f \in Injection(Locks!Holders, Locks!Units(has))
  <2>1. f \in [Locks!Holders -> Locks!Units(has)]
    BY <1>2
  <2>2. \A c, d \in Locks!Holders : f[c] = f[d] => c = d
    OBVIOUS
  <2>3. DOMAIN f = Locks!Holders
    OBVIOUS
  <2> HIDE DEF f
  <2> QED
    BY <2>1, <2>2, <2>3 DEF Injection, IsInjective
<1>4. /\ IsFiniteSet(Locks!Holders)
      /\ Cardinality(Locks!Holders) <= Cardinality(Locks!Units(has))
  BY <1>1, <1>3, FS_Injection
<1>5. /\ permits = avail + Locks!Total(has) + Locks!Total(growth) /\ avail \in Nat
      /\ Locks!Total(growth) \in Nat /\ Locks!Total(has) \in Nat
  BY <1>1, TotalIsNat DEF LockInv, Locks!PermitsConserved
<1>6. Locks!Total(has) = Cardinality(Locks!Units(has))
  BY LockCardinality DEF Locks!Total
<1> QED
  BY <1>4, <1>5, <1>6

(* A writer has all the permits, which leaves none for another holder.     *)
LEMMA WriterIsAlone ==
  ASSUME LockInv, kind = "rwlock", NEW c \in Locks!Holders, want[c] = MaxReads
  PROVE  Locks!Holders = {c}
<1> SUFFICES ASSUME NEW d \in Locks!Holders, d # c PROVE FALSE
  OBVIOUS
<1>1. /\ has \in [Tasks -> Nat] /\ IsFiniteSet(Locks!Units(has))
      /\ c \in Tasks /\ has[c] = MaxReads /\ d \in Tasks /\ has[d] >= 1
  BY DEF LockInv, Dealt, Settled, Locks!Holders
<1> DEFINE own == {c} \X (0 + 1 .. MaxReads)
<1>2. IsFiniteSet(own) /\ Cardinality(own) = MaxReads - 0
  <2>1. 0 \in Nat /\ MaxReads \in Nat /\ 0 <= MaxReads
    BY LockConstants
  <2> QED
    BY <2>1, UnitsOfOne
<1>3. own \cup {<<d, 1>>} \in SUBSET Locks!Units(has)
  <2>1. 1 \in 1..has[d] /\ 0 + 1 .. MaxReads = 1..has[c]
    BY <1>1
  <2>2. \A u : u \in Locks!Units(has) <=> \E x \in Tasks : \E i \in 1..has[x] : u = <<x, i>>
    BY <1>1, UnitsOf
  <2>3. \A i \in 1..has[c] : <<c, i>> \in Locks!Units(has)
    BY <1>1, <2>2
  <2>4. <<d, 1>> \in Locks!Units(has)
    BY <1>1, <2>1, <2>2
  <2>5. \A u \in own : \E i \in 1..has[c] : u = <<c, i>>
    <3>1. own = {c} \X (1..has[c])
      BY <2>1
    <3> HIDE DEF own
    <3>2. \A u \in {c} \X (1..has[c]) : u[2] \in 1..has[c] /\ u = <<c, u[2]>>
      OBVIOUS
    <3> QED
      BY <3>1, <3>2
  <2> HIDE DEF own
  <2> QED
    BY <2>3, <2>4, <2>5
<1>4. <<d, 1>> \notin own
  OBVIOUS
<1>5. Cardinality(own \cup {<<d, 1>>}) = MaxReads + 1
  <2>1. Cardinality(own \cup {<<d, 1>>}) = Cardinality(own) + 1
    BY <1>2, <1>4, FS_AddElement
  <2> QED
    BY <1>2, <2>1, LockConstants
<1>6. MaxReads + 1 <= Cardinality(Locks!Units(has))
  BY <1>1, <1>3, <1>5, FS_Subset
<1>7. Locks!Total(has) = Cardinality(Locks!Units(has))
  BY LockCardinality DEF Locks!Total
<1>8. permits = MaxReads /\ Locks!Total(has) <= permits /\ Locks!Total(has) \in Nat
  BY <1>1, HoldersHavePermits, TotalIsNat DEF LockInv
<1> QED
  BY <1>6, <1>7, <1>8, LockConstants

LEMMA HoldersExclude == ASSUME LockInv PROVE PermitsConserved
<1>1. /\ IsFiniteSet(Locks!Holders) /\ Cardinality(Locks!Holders) \in Nat
      /\ Cardinality(Locks!Holders) <= permits /\ permits \in Nat
  <2>1. /\ IsFiniteSet(Locks!Holders) /\ Cardinality(Locks!Holders) \in Nat
        /\ Locks!Total(has) \in Nat /\ permits \in Nat
    BY HoldersHavePermits, TotalIsNat, FS_CardinalityType DEF LockInv, Dealt
  <2> QED
    BY <2>1, HoldersHavePermits
<1>2. CASE kind = "mutex"
  BY <1>1, <1>2, LockCardinality DEF LockInv, PermitsConserved, Locks!Exclusion
<1>3. CASE kind = "rwlock"
  <2>1. ASSUME NEW c \in Locks!Holders, want[c] = MaxReads
        PROVE  Locks!Cardinality(Locks!Holders) = 1
    <3>1. Locks!Holders = {c}
      BY <1>3, <2>1, WriterIsAlone
    <3> QED
      BY <3>1, LockCardinality, FS_Singleton
  <2> QED
    BY <1>3, <2>1 DEF LockInv, PermitsConserved, Locks!Exclusion
<1>4. CASE kind = "semaphore"
  BY <1>1, <1>4, LockCardinality DEF LockInv, PermitsConserved, Locks!Exclusion
<1> QED
  BY <1>2, <1>3, <1>4 DEF LockInv, Locks!Kinds

LEMMA ObjectsInvariant == FairSpec => [](LockInv /\ ShotInv)
<1>1. Init => LockInv /\ ShotInv
  BY LockStart, ShotStart DEF Init
<1>2. LockInv /\ ShotInv /\ [Next]_vars => (LockInv /\ ShotInv)'
  <2> SUFFICES ASSUME LockInv, ShotInv, [Next]_vars PROVE (LockInv /\ ShotInv)'
    OBVIOUS
  <2>1. Locks!Next \/ UNCHANGED lockVars
    BY DEF Next, vars
  <2>2. Shots!Next \/ UNCHANGED shotVars
    BY DEF Next, vars
  <2> QED
    BY <2>1, <2>2, LockSteps, LockStutters, ShotSteps, ShotStutters
<1> QED
  BY <1>1, <1>2, PTL DEF FairSpec

(* No permit is lost or invented, however calls are cancelled, guards      *)
(* released twice and semaphores grown by several at once; so a mutex has  *)
(* one holder, a writer is alone, and a semaphore is not exceeded          *)
(* (LuaMutexGuard, LuaSemaphore::try_grow_to).                             *)
THEOREM PermitsAndExclusion == FairSpec => []PermitsConserved
  BY ObjectsInvariant, HoldersExclude, PTL

(* A value for which send returned is not lost behind a nil                *)
(* (LuaOneshotSender, LuaOneshotReceiver).                                 *)
THEOREM OneshotHandsOver == FairSpec => []HandsOver
<1>1. ShotInv => HandsOver
  BY DEF ShotInv
<1> QED
  BY <1>1, ObjectsInvariant, PTL

=============================================================================
