-------------------------- MODULE TaskQueues_proofs --------------------------
(***************************************************************************)
(* Proofs about channels and task sets, for any number of tasks, calls and *)
(* values, and any capacity.                                               *)
(***************************************************************************)
EXTENDS TaskQueues, WaitLine, FiniteSets, FiniteSetTheorems, TLAPS

-------------------------------- (* Lines *) ---------------------------------
(* Who leaves a line is gone from it, and nobody else is. *)
LEMMA LeavingALine ==
  ASSUME NEW S, NEW line \in Seq(S), IsLine(line), NEW c, StandsIn(c, line)
  PROVE  /\ Leave(line, c) \in Seq(S)
         /\ IsLine(Leave(line, c))
         /\ ~StandsIn(c, Leave(line, c))
         /\ \A d : d # c => (StandsIn(d, Leave(line, c)) <=> StandsIn(d, line))
         /\ \A i \in DOMAIN Leave(line, c) : StandsIn(Leave(line, c)[i], line)
         /\ line[1] # c => Leave(line, c) # <<>> /\ Leave(line, c)[1] = line[1]
<1> DEFINE place == CHOOSE i \in DOMAIN line : line[i] = c
           left == [i \in 1..Len(line) - 1 |-> line[IF i < place THEN i ELSE i + 1]]
<1>1. place \in 1..Len(line) /\ line[place] = c
  BY DEF StandsIn
<1>2. \A i \in 1..Len(line) : line[i] = c => i = place
  BY <1>1 DEF IsLine
<1> HIDE DEF place
<1>3. /\ left \in Seq(S) /\ Len(left) = Len(line) - 1
      /\ DOMAIN left = 1..Len(line) - 1
      /\ \A i \in 1..Len(line) - 1 : left[i] = line[IF i < place THEN i ELSE i + 1]
  <2>1. \A i \in 1..Len(line) - 1 : line[IF i < place THEN i ELSE i + 1] \in S
    BY <1>1
  <2> QED
    BY <1>1, <2>1
<1>4. Leave(line, c) = left
  BY DEF Leave, place
<1> HIDE DEF left
<1>5. IsLine(left) /\ ~StandsIn(c, left)
  <2>1. ASSUME NEW i \in DOMAIN left
        PROVE  \/ i < place /\ left[i] = line[i]
               \/ i >= place /\ left[i] = line[i + 1]
    BY <1>1, <1>3
  <2>2. ASSUME NEW i \in DOMAIN left, NEW j \in DOMAIN left, left[i] = left[j] PROVE i = j
    <3>1. \A k, l \in 1..Len(line) : line[k] = line[l] => k = l
      BY DEF IsLine
    <3>2. /\ i \in 1..Len(line) /\ i + 1 \in 1..Len(line)
          /\ j \in 1..Len(line) /\ j + 1 \in 1..Len(line)
      BY <1>3
    <3> QED
      BY <1>1, <2>1, <2>2, <3>1, <3>2
  <2>3. ASSUME NEW i \in DOMAIN left PROVE left[i] # c
    BY <1>1, <1>2, <1>3, <2>1
  <2> QED
    BY <2>2, <2>3 DEF IsLine, StandsIn
<1>6. ASSUME NEW d, d # c, StandsIn(d, line) PROVE StandsIn(d, left)
  <2>1. PICK i \in 1..Len(line) : line[i] = d
    BY <1>6 DEF StandsIn
  <2>2. i # place
    BY <1>1, <1>6, <2>1
  <2>3. CASE i < place
    <3>1. i \in 1..Len(left) /\ left[i] = line[i]
      BY <1>1, <1>3, <2>1, <2>3
    <3> QED
      BY <2>1, <3>1 DEF StandsIn
  <2>4. CASE i > place
    <3>1. i - 1 \in 1..Len(line) - 1 /\ left[i - 1] = line[i]
      BY <1>1, <1>3, <2>4
    <3> QED
      BY <1>3, <2>1, <3>1 DEF StandsIn
  <2> QED
    BY <1>1, <2>2, <2>3, <2>4
<1>7. \A i \in DOMAIN left : StandsIn(left[i], line)
  BY <1>1, <1>3 DEF StandsIn
<1>8. line[1] # c => left # <<>> /\ left[1] = line[1]
  BY <1>1, <1>3
<1>9. \A d : d # c => (StandsIn(d, left) <=> StandsIn(d, line))
  BY <1>6, <1>7 DEF StandsIn
<1> QED
  BY <1>3, <1>4, <1>5, <1>7, <1>8, <1>9

(* The same of the first, whose turn is over. *)
LEMMA FirstLeaves ==
  ASSUME NEW S, NEW line \in Seq(S), IsLine(line), line # <<>>
  PROVE  /\ Tail(line) \in Seq(S) /\ Len(Tail(line)) = Len(line) - 1
         /\ Head(line) \in S /\ StandsIn(Head(line), line)
         /\ IsLine(Tail(line))
         /\ ~StandsIn(Head(line), Tail(line))
         /\ \A d : d # Head(line) => (StandsIn(d, Tail(line)) <=> StandsIn(d, line))
         /\ \A i \in DOMAIN Tail(line) : StandsIn(Tail(line)[i], line)
<1>1. /\ Tail(line) \in Seq(S) /\ Len(Tail(line)) = Len(line) - 1 /\ Len(line) > 0
      /\ \A i \in 1..Len(line) - 1 : Tail(line)[i] = line[i + 1]
      /\ Head(line) = line[1] /\ Head(line) \in S
  OBVIOUS
<1>2. IsLine(Tail(line)) /\ ~StandsIn(Head(line), Tail(line))
  BY <1>1 DEF IsLine, StandsIn
<1>3. ASSUME NEW d, d # Head(line), StandsIn(d, line) PROVE StandsIn(d, Tail(line))
  <2>1. PICK i \in 1..Len(line) : line[i] = d
    BY <1>3 DEF StandsIn
  <2>2. i # 1
    BY <1>1, <1>3, <2>1
  <2>3. PICK k \in 1..Len(line) - 1 : i = k + 1
    <3>1. i - 1 \in 1..Len(line) - 1 /\ i = (i - 1) + 1
      BY <1>1, <2>1, <2>2
    <3> QED
      BY <3>1
  <2>4. Tail(line)[k] = d /\ k \in DOMAIN Tail(line)
    BY <1>1, <2>1, <2>3
  <2> QED
    BY <2>4 DEF StandsIn
<1>4. \A i \in DOMAIN Tail(line) : StandsIn(Tail(line)[i], line)
  BY <1>1 DEF StandsIn
<1> QED
  BY <1>1, <1>2, <1>3, <1>4 DEF StandsIn

(* Who joins a line stands at its end. *)
LEMMA JoiningALine ==
  ASSUME NEW S, NEW line \in Seq(S), IsLine(line), NEW c \in S, ~StandsIn(c, line)
  PROVE  /\ Append(line, c) \in Seq(S) /\ Len(Append(line, c)) = Len(line) + 1
         /\ IsLine(Append(line, c))
         /\ \A d : StandsIn(d, Append(line, c)) <=> StandsIn(d, line) \/ d = c
         /\ Head(Append(line, c)) = IF line = <<>> THEN c ELSE Head(line)
<1>1. /\ Append(line, c) \in Seq(S) /\ Len(Append(line, c)) = Len(line) + 1
      /\ \A i \in 1..Len(line) : Append(line, c)[i] = line[i]
      /\ Append(line, c)[Len(line) + 1] = c
  OBVIOUS
<1>2. IsLine(Append(line, c))
  BY <1>1 DEF IsLine, StandsIn
<1>3. ASSUME NEW d PROVE StandsIn(d, Append(line, c)) <=> StandsIn(d, line) \/ d = c
  BY <1>1 DEF StandsIn
<1> QED
  BY <1>1, <1>2, <1>3

-------------------------------- (* Channels *) ------------------------------
(* The sends in the line are those that wait. *)
SendsLined ==
  /\ IsLine(sendLine)
  /\ \A s \in Tasks : sendPc[s] = "waiting" <=> StandsIn(s, sendLine)

(* The receives in the line are those that have the mutex or wait for it;  *)
(* one that is past the wait has it.                                       *)
ReceivesLined ==
  /\ IsLine(recvLine)
  /\ \A r \in Others :
       /\ recvPc[r] \in {"queued", "trying", "taken"} <=> StandsIn(r, recvLine)
       /\ recvPc[r] \in {"trying", "taken"} => recvLine # <<>> /\ Head(recvLine) = r

PermitsCounted ==
  /\ IsFiniteSet(Chan!Permitted)
  /\ Chan!Bounded => /\ free + Len(buffer) + Cardinality(Chan!Permitted) = capacity
                     /\ sendLine # <<>> => free = 0

(* What was sent is in one place, and no receive takes twice. *)
Delivery ==
  /\ IsLine(buffer)
  /\ \A s \in Tasks :
       sendPc[s] = "sent" <=> StandsIn(s, buffer) \/ \E r \in Others : got[r] = s
  /\ \A r \in Others :
       /\ got[r] # Nobody => /\ ~StandsIn(got[r], buffer)
                             /\ \A q \in Others \ {r} : got[q] # got[r]
       /\ recvPc[r] \in {"idle", "queued", "trying"} => got[r] = Nobody

(* After the end no send has a Sender. *)
EndIsFinal == Chan!Ended => ~open /\ Chan!Cloned = {}

ChanInv ==
  Chan!TypeOK /\ SendsLined /\ ReceivesLined /\ PermitsCounted /\ Delivery /\ EndIsFinal

SendStates == {"idle", "cloned", "trying", "waiting", "granted", "permitted", "sent",
               "closed", "full", "dropped"}

LEMMA ChannelConstants ==
  Nobody \notin Tasks /\ Capacities \subseteq Nat
  BY QueuesAssumption DEF Chan!NoneAssumption, Chan!CapacityAssumption

LEMMA ChannelCardinality ==
  ASSUME NEW S PROVE Chan!Cardinality(S) = Cardinality(S)
  BY DEF Chan!Cardinality, Cardinality

LEMMA ChannelLeave ==
  ASSUME NEW line, NEW c PROVE Chan!Leave(line, c) = Leave(line, c)
  BY DEF Chan!Leave, Leave

(* A permit that comes free goes to the first send in the line, and counts *)
(* one more.                                                               *)
LEMMA Releasing ==
  ASSUME Chan!TypeOK,
         NEW pc \in [Tasks -> SendStates],
         IsLine(sendLine),
         \A s \in Tasks : pc[s] = "waiting" <=> StandsIn(s, sendLine),
         IsFiniteSet({s \in Tasks : pc[s] \in {"granted", "permitted"}}),
         Chan!Release(pc)
  PROVE  /\ sendPc' \in [Tasks -> SendStates]
         /\ sendLine' \in Seq(Tasks)
         /\ SendsLined'
         /\ \A s \in Tasks : \/ sendPc'[s] = pc[s]
                             \/ pc[s] = "waiting" /\ sendPc'[s] = "granted"
         /\ IsFiniteSet(Chan!Permitted')
         /\ Chan!Bounded =>
              free' + Cardinality(Chan!Permitted')
                = free + Cardinality({s \in Tasks : pc[s] \in {"granted", "permitted"}}) + 1
         /\ Cardinality(Chan!Permitted') \in Nat
         /\ sendLine # <<>> => free' = free
         /\ sendLine = <<>> => sendLine' = <<>> /\ free' = IF Chan!Bounded THEN free + 1 ELSE free
<1> DEFINE granted == {s \in Tasks : pc[s] \in {"granted", "permitted"}}
<1> USE DEF Chan!Permitted
<1>1. sendLine \in Seq(Tasks) /\ free \in Int
  BY ChannelConstants DEF Chan!TypeOK
<1>2. Cardinality(granted) \in Nat
  BY FS_CardinalityType
<1>3. CASE sendLine # <<>>
  <2> DEFINE s == Head(sendLine)
  <2>1. /\ sendPc' = [pc EXCEPT ![s] = "granted"]
        /\ sendLine' = Tail(sendLine) /\ free' = free
    BY <1>3 DEF Chan!Release
  <2>2. s \in Tasks /\ pc[s] = "waiting"
    BY <1>1, <1>3, FirstLeaves
  <2>3. sendLine' \in Seq(Tasks) /\ SendsLined'
    BY <1>1, <1>3, <2>1, <2>2, FirstLeaves DEF SendsLined
  <2>4. Chan!Permitted' = granted \cup {s} /\ s \notin granted
    BY <2>1, <2>2
  <2>5. /\ IsFiniteSet(Chan!Permitted')
        /\ Cardinality(Chan!Permitted') = Cardinality(granted) + 1
    BY <2>4, FS_AddElement
  <2>6. \A u \in Tasks : \/ sendPc'[u] = pc[u]
                         \/ pc[u] = "waiting" /\ sendPc'[u] = "granted"
    BY <2>1, <2>2
  <2>7. sendPc' \in [Tasks -> SendStates]
    BY <2>1, <2>2 DEF SendStates
  <2> QED
    BY <1>1, <1>2, <1>3, <2>1, <2>3, <2>5, <2>6, <2>7
<1>4. CASE sendLine = <<>>
  <2>1. /\ sendPc' = pc /\ sendLine' = sendLine
        /\ free' = IF Chan!Bounded THEN free + 1 ELSE free
    BY <1>4 DEF Chan!Release
  <2>2. SendsLined'
    BY <2>1 DEF SendsLined
  <2>3. Chan!Permitted' = granted
    BY <2>1
  <2> QED
    BY <1>1, <1>2, <1>4, <2>1, <2>2, <2>3
<1> QED
  BY <1>3, <1>4

LEMMA ChannelStart == ASSUME Chan!Init PROVE ChanInv
<1> USE DEF Chan!Init
<1>1. Chan!TypeOK
  BY ChannelConstants DEF Chan!TypeOK
<1>2. SendsLined /\ ReceivesLined /\ Delivery
  BY ChannelConstants DEF SendsLined, ReceivesLined, Delivery, IsLine, StandsIn
<1>3. Chan!Permitted = {} /\ Chan!Cloned = {}
  BY DEF Chan!Permitted, Chan!Cloned
<1>4. PermitsCounted
  <2>1. capacity \in Nat /\ free = capacity /\ buffer = <<>> /\ Len(<<>>) = 0 /\ sendLine = <<>>
    BY ChannelConstants
  <2> HIDE DEF Chan!Init
  <2> QED
    BY <1>3, <2>1, FS_EmptySet DEF PermitsCounted, Chan!Bounded
<1>5. EndIsFinal
  BY DEF EndIsFinal, Chan!Ended
<1> QED
  BY <1>1, <1>2, <1>4, <1>5 DEF ChanInv

LEMMA CloningASender ==
  ASSUME ChanInv, NEW s \in Tasks, Chan!CloneSender(s) PROVE ChanInv'
<1> USE DEF ChanInv, Chan!CloneSender, Chan!recvVars
<1>1. sendPc[s] = "idle" /\ sendPc \in [Tasks -> SendStates]
  BY DEF Chan!TypeOK, SendStates
<1>2. \A u \in Tasks : \/ sendPc'[u] = sendPc[u]
                       \/ u = s /\ sendPc'[u] \in {"cloned", "trying", "closed"}
  BY <1>1
<1>3. Chan!TypeOK'
  BY <1>1 DEF Chan!TypeOK
<1>4. SendsLined'
  BY <1>1, <1>2 DEF SendsLined
<1>5. ReceivesLined'
  BY DEF ReceivesLined
<1>6. Chan!Permitted' = Chan!Permitted
  BY <1>1, <1>2 DEF Chan!Permitted
<1>7. PermitsCounted'
  BY <1>6 DEF PermitsCounted, Chan!Bounded
<1>8. Delivery'
  BY <1>1, <1>2 DEF Delivery
<1>9. EndIsFinal'
  BY <1>1, <1>2 DEF EndIsFinal, Chan!Ended, Chan!Cloned
<1> QED
  BY <1>3, <1>4, <1>5, <1>7, <1>8, <1>9

LEMMA AcquiringAPermit ==
  ASSUME ChanInv, NEW s \in Tasks, Chan!Acquire(s) PROVE ChanInv'
<1> USE DEF ChanInv, Chan!recvVars
<1>1. /\ sendPc[s] \in {"cloned", "trying"} /\ sendPc \in [Tasks -> SendStates]
      /\ sendLine \in Seq(Tasks) /\ capacity \in Nat /\ free \in 0..capacity
  BY ChannelConstants DEF Chan!TypeOK, SendStates, Chan!Acquire
<1>2. /\ UNCHANGED <<capacity, open, buffer, recvLine, recvPc, got>>
  BY DEF Chan!Acquire
<1>3. \A u \in Tasks : \/ sendPc'[u] = sendPc[u]
                       \/ u = s /\ sendPc'[u] \in {"permitted", "waiting", "full"}
  BY <1>1 DEF Chan!Acquire
<1>4. ReceivesLined'
  BY <1>2 DEF ReceivesLined
<1>5. Delivery'
  BY <1>1, <1>2, <1>3 DEF Delivery
<1>6. EndIsFinal'
  BY <1>1, <1>2, <1>3 DEF EndIsFinal, Chan!Ended, Chan!Cloned
<1>7. CASE /\ ~Chan!Bounded \/ free > 0
           /\ free' = IF Chan!Bounded THEN free - 1 ELSE free
           /\ sendPc' = [sendPc EXCEPT ![s] = "permitted"]
           /\ UNCHANGED sendLine
  <2>1. Chan!TypeOK'
    BY <1>1, <1>2, <1>7 DEF Chan!TypeOK, Chan!Bounded
  <2>2. SendsLined'
    BY <1>1, <1>7 DEF SendsLined
  <2>3. Chan!Permitted' = Chan!Permitted \cup {s} /\ s \notin Chan!Permitted
    BY <1>1, <1>7 DEF Chan!Permitted
  <2>4. /\ IsFiniteSet(Chan!Permitted') /\ Cardinality(Chan!Permitted) \in Nat
        /\ Cardinality(Chan!Permitted') = Cardinality(Chan!Permitted) + 1
    BY <2>3, FS_AddElement, FS_CardinalityType DEF PermitsCounted
  <2>5. buffer \in Seq(Tasks)
    BY DEF Chan!TypeOK
  <2>6. PermitsCounted'
    BY <1>1, <1>2, <1>7, <2>4, <2>5 DEF PermitsCounted, Chan!Bounded
  <2> QED
    BY <1>4, <1>5, <1>6, <2>1, <2>2, <2>6
<1>8. CASE /\ Chan!Bounded /\ free = 0 /\ sendPc[s] = "cloned"
           /\ sendPc' = [sendPc EXCEPT ![s] = "waiting"]
           /\ sendLine' = Append(sendLine, s)
           /\ UNCHANGED free
  <2>1. ~StandsIn(s, sendLine)
    BY <1>8 DEF SendsLined
  <2>2. /\ sendLine' \in Seq(Tasks) /\ IsLine(sendLine')
        /\ \A d : StandsIn(d, sendLine') <=> StandsIn(d, sendLine) \/ d = s
    BY <1>1, <1>8, <2>1, JoiningALine DEF SendsLined
  <2>3. Chan!TypeOK'
    BY <1>1, <1>2, <1>8, <2>2 DEF Chan!TypeOK
  <2>4. SendsLined'
    BY <1>1, <1>8, <2>2 DEF SendsLined
  <2>5. Chan!Permitted' = Chan!Permitted
    BY <1>1, <1>8 DEF Chan!Permitted
  <2>6. PermitsCounted'
    BY <1>2, <1>8, <2>5 DEF PermitsCounted, Chan!Bounded
  <2> QED
    BY <1>4, <1>5, <1>6, <2>3, <2>4, <2>6
<1>9. CASE /\ sendPc' = [sendPc EXCEPT ![s] = "full"]
           /\ UNCHANGED <<sendLine, free>>
  <2>1. Chan!TypeOK'
    BY <1>1, <1>2, <1>9 DEF Chan!TypeOK
  <2>2. SendsLined'
    BY <1>1, <1>9 DEF SendsLined
  <2>3. Chan!Permitted' = Chan!Permitted
    BY <1>1, <1>9 DEF Chan!Permitted
  <2>4. PermitsCounted'
    BY <1>2, <1>9, <2>3 DEF PermitsCounted, Chan!Bounded
  <2> QED
    BY <1>4, <1>5, <1>6, <2>1, <2>2, <2>4
<1> QED
  BY <1>7, <1>8, <1>9 DEF Chan!Acquire

LEMMA PushingAValue ==
  ASSUME ChanInv, NEW s \in Tasks, Chan!Push(s) PROVE ChanInv'
<1> USE DEF ChanInv, Chan!recvVars, Chan!Push
<1>1. /\ sendPc[s] \in {"granted", "permitted"} /\ sendPc \in [Tasks -> SendStates]
      /\ buffer \in Seq(Tasks) /\ capacity \in Nat /\ free \in 0..capacity
  BY ChannelConstants DEF Chan!TypeOK, SendStates, Chan!Permitted
<1>2. ~StandsIn(s, buffer) /\ \A r \in Others : got[r] # s
  BY <1>1 DEF Delivery
<1>3. /\ buffer' \in Seq(Tasks) /\ IsLine(buffer') /\ Len(buffer') = Len(buffer) + 1
      /\ \A d : StandsIn(d, buffer') <=> StandsIn(d, buffer) \/ d = s
  BY <1>1, <1>2, JoiningALine DEF Delivery
<1>4. Chan!TypeOK'
  BY <1>1, <1>3 DEF Chan!TypeOK
<1>5. SendsLined'
  BY <1>1 DEF SendsLined
<1>6. ReceivesLined'
  BY DEF ReceivesLined
<1>7. PermitsCounted'
  <2>1. Chan!Permitted' = Chan!Permitted \ {s} /\ s \in Chan!Permitted
    BY <1>1 DEF Chan!Permitted
  <2>2. /\ IsFiniteSet(Chan!Permitted')
        /\ Cardinality(Chan!Permitted') = Cardinality(Chan!Permitted) - 1
        /\ Cardinality(Chan!Permitted) \in Nat
    BY <2>1, FS_RemoveElement, FS_CardinalityType DEF PermitsCounted
  <2> QED
    BY <1>1, <1>3, <2>2 DEF PermitsCounted, Chan!Bounded
<1>8. Delivery'
  BY <1>1, <1>2, <1>3 DEF Delivery
<1>9. EndIsFinal'
  BY <1>1 DEF EndIsFinal, Chan!Ended, Chan!Cloned
<1> QED
  BY <1>4, <1>5, <1>6, <1>7, <1>8, <1>9

LEMMA DroppingASend ==
  ASSUME ChanInv, NEW s \in Tasks, Chan!DropSend(s) PROVE ChanInv'
<1> USE DEF ChanInv, Chan!recvVars
<1> DEFINE pc == [sendPc EXCEPT ![s] = "dropped"]
<1>1. /\ sendPc \in [Tasks -> SendStates] /\ pc \in [Tasks -> SendStates]
      /\ sendLine \in Seq(Tasks) /\ buffer \in Seq(Tasks)
      /\ capacity \in Nat /\ free \in 0..capacity
  BY ChannelConstants DEF Chan!TypeOK, SendStates
<1>2. UNCHANGED <<capacity, open, buffer, recvLine, recvPc, got>>
  BY DEF Chan!DropSend
<1>3. ReceivesLined'
  BY <1>2 DEF ReceivesLined
<1>4. CASE sendPc[s] = "waiting" /\ sendLine' = Chan!Leave(sendLine, s) /\ sendPc' = pc /\ free' = free
  <2>1. sendLine' = Leave(sendLine, s) /\ StandsIn(s, sendLine) /\ IsLine(sendLine)
    BY <1>4, ChannelLeave DEF SendsLined
  <2>2. /\ sendLine' \in Seq(Tasks) /\ IsLine(sendLine') /\ ~StandsIn(s, sendLine')
        /\ \A d : d # s => (StandsIn(d, sendLine') <=> StandsIn(d, sendLine))
    BY <1>1, <2>1, LeavingALine
  <2>3. Chan!TypeOK'
    BY <1>1, <1>2, <1>4, <2>2 DEF Chan!TypeOK, SendStates
  <2>4. SendsLined'
    BY <1>1, <1>4, <2>2 DEF SendsLined
  <2>5. Chan!Permitted' = Chan!Permitted
    BY <1>1, <1>4 DEF Chan!Permitted
  <2>6. sendLine # <<>>
    BY <2>1 DEF StandsIn
  <2>7. PermitsCounted'
    BY <1>2, <1>4, <2>5, <2>6 DEF PermitsCounted, Chan!Bounded
  <2>8. Delivery'
    BY <1>1, <1>2, <1>4 DEF Delivery
  <2>9. EndIsFinal'
    BY <1>1, <1>2, <1>4 DEF EndIsFinal, Chan!Ended, Chan!Cloned
  <2> QED
    BY <1>3, <2>3, <2>4, <2>7, <2>8, <2>9
<1>5. CASE sendPc[s] = "granted" /\ Chan!Release(pc)
  <2> DEFINE granted == {u \in Tasks : pc[u] \in {"granted", "permitted"}}
  <2>1. granted = Chan!Permitted \ {s} /\ s \in Chan!Permitted
    BY <1>1, <1>5 DEF Chan!Permitted
  <2>2. /\ IsFiniteSet(granted) /\ Cardinality(granted) = Cardinality(Chan!Permitted) - 1
        /\ Cardinality(Chan!Permitted) \in Nat
    BY <2>1, FS_RemoveElement, FS_CardinalityType DEF PermitsCounted
  <2>3. IsLine(sendLine) /\ \A u \in Tasks : pc[u] = "waiting" <=> StandsIn(u, sendLine)
    BY <1>1, <1>5 DEF SendsLined
  <2> HIDE DEF pc, granted
  <2>4. /\ sendPc' \in [Tasks -> SendStates] /\ sendLine' \in Seq(Tasks) /\ SendsLined'
        /\ \A u \in Tasks : \/ sendPc'[u] = pc[u]
                            \/ pc[u] = "waiting" /\ sendPc'[u] = "granted"
        /\ IsFiniteSet(Chan!Permitted') /\ Cardinality(Chan!Permitted') \in Nat
        /\ Chan!Bounded =>
             free' + Cardinality(Chan!Permitted') = free + Cardinality(granted) + 1
        /\ sendLine # <<>> => free' = free
        /\ sendLine = <<>> => /\ sendLine' = <<>>
                              /\ free' = IF Chan!Bounded THEN free + 1 ELSE free
    BY <1>1, <1>5, <2>2, <2>3, Releasing DEF granted
  <2>5. PermitsCounted'
    BY <1>1, <1>2, <2>2, <2>4 DEF PermitsCounted, Chan!Bounded
  <2>6. free' \in 0..capacity
    BY <1>1, <1>2, <2>2, <2>4 DEF PermitsCounted, Chan!Bounded
  <2>7. Chan!TypeOK'
    BY <1>1, <1>2, <2>4, <2>6 DEF Chan!TypeOK, SendStates
  <2>8. \A u \in Tasks : \/ sendPc'[u] = sendPc[u]
                         \/ u = s /\ sendPc'[u] = "dropped"
                         \/ sendPc[u] = "waiting" /\ sendPc'[u] = "granted"
    BY <1>1, <1>5, <2>4 DEF pc
  <2>9. Delivery'
    BY <1>1, <1>2, <1>5, <2>8 DEF Delivery
  <2>10. EndIsFinal'
    BY <1>1, <1>2, <2>8 DEF EndIsFinal, Chan!Ended, Chan!Cloned
  <2> QED
    BY <1>3, <2>4, <2>5, <2>7, <2>9, <2>10
<1> QED
  BY <1>4, <1>5 DEF Chan!DropSend

LEMMA ClosingTheChannel ==
  ASSUME ChanInv, Chan!Close PROVE ChanInv'
<1> USE DEF ChanInv, Chan!Close
<1>1. Chan!TypeOK'
  BY DEF Chan!TypeOK
<1>2. SendsLined' /\ ReceivesLined' /\ Delivery'
  BY DEF SendsLined, ReceivesLined, Delivery
<1>3. Chan!Permitted' = Chan!Permitted /\ Chan!Cloned' = Chan!Cloned
  BY DEF Chan!Permitted, Chan!Cloned
<1>4. PermitsCounted'
  BY <1>3 DEF PermitsCounted, Chan!Bounded
<1>5. EndIsFinal'
  BY <1>3 DEF EndIsFinal, Chan!Ended
<1> QED
  BY <1>1, <1>2, <1>4, <1>5

(* A receive that only moves in its line takes nothing from the channel. *)
LEMMA ReceiveMoves ==
  ASSUME ChanInv, NEW r \in Others,
         UNCHANGED <<capacity, open, free, sendLine, sendPc, buffer, got>>,
         NEW a \in {"queued", "trying", "taken", "value", "raised", "nothing", "end",
                    "dropped"},
         recvPc' = [recvPc EXCEPT ![r] = a],
         a \in {"queued", "trying"} => recvPc[r] = "idle",
         a = "taken" => recvPc[r] = "taken",
         a = "end" => Chan!Disconnected,
         recvLine' \in Seq(Others), ReceivesLined'
  PROVE  ChanInv'
<1> USE DEF ChanInv
<1>1. recvPc \in [Others -> {"idle", "queued", "trying", "taken", "value", "raised",
                             "nothing", "end", "dropped"}]
  BY DEF Chan!TypeOK
<1>2. Chan!TypeOK'
  BY <1>1 DEF Chan!TypeOK
<1>3. SendsLined'
  BY DEF SendsLined
<1>4. Chan!Permitted' = Chan!Permitted /\ Chan!Cloned' = Chan!Cloned
  BY DEF Chan!Permitted, Chan!Cloned
<1>5. PermitsCounted'
  BY <1>4 DEF PermitsCounted, Chan!Bounded
<1>6. Delivery'
  BY <1>1 DEF Delivery
<1>7. EndIsFinal'
  BY <1>1, <1>4 DEF EndIsFinal, Chan!Ended, Chan!Disconnected
<1> QED
  BY <1>2, <1>3, <1>5, <1>6, <1>7

LEMMA EnteringAReceive ==
  ASSUME ChanInv, NEW r \in Others, Chan!Enter(r) PROVE ChanInv'
<1>1. /\ recvPc[r] = "idle" /\ UNCHANGED <<capacity, open, free, sendLine, sendPc, buffer, got>>
      /\ recvLine \in Seq(Others) /\ ReceivesLined
      /\ recvPc \in [Others -> {"idle", "queued", "trying", "taken", "value", "raised",
                                "nothing", "end", "dropped"}]
  BY DEF ChanInv, Chan!TypeOK, Chan!Enter, Chan!sendVars
<1>2. IsLine(recvLine) /\ ~StandsIn(r, recvLine)
  BY <1>1 DEF ReceivesLined
<1>3. ASSUME NEW a \in {"queued", "trying"},
             recvPc' = [recvPc EXCEPT ![r] = a], recvLine' = Append(recvLine, r),
             a = "trying" => recvLine = <<>>
      PROVE  ChanInv'
  <2>1. /\ recvLine' \in Seq(Others) /\ Len(recvLine') = Len(recvLine) + 1 /\ IsLine(recvLine')
        /\ \A d : StandsIn(d, recvLine') <=> StandsIn(d, recvLine) \/ d = r
        /\ Head(recvLine') = IF recvLine = <<>> THEN r ELSE Head(recvLine)
    BY <1>1, <1>2, <1>3, JoiningALine
  <2>2. recvLine' # <<>>
    BY <1>1, <2>1
  <2>3. ReceivesLined'
    BY <1>1, <1>3, <2>1, <2>2 DEF ReceivesLined
  <2> QED
    BY <1>1, <1>3, <2>1, <2>3, ReceiveMoves
<1>4. ASSUME recvPc' = [recvPc EXCEPT ![r] = "nothing"], UNCHANGED recvLine
      PROVE  ChanInv'
  <2>1. ReceivesLined'
    BY <1>1, <1>2, <1>4 DEF ReceivesLined
  <2> QED
    BY <1>1, <1>4, <2>1, ReceiveMoves
<1>5. recvLine = <<>> => <<r>> = Append(recvLine, r)
  BY <1>1
<1> QED
  BY <1>3, <1>4, <1>5 DEF Chan!Enter

(* A receive that has its answer gives the mutex to the next in the line. *)
LEMMA LeavingTheMutex ==
  ASSUME ChanInv, NEW r \in Others, recvLine # <<>>, Head(recvLine) = r,
         UNCHANGED <<capacity, open, free, sendLine, sendPc, buffer, got>>,
         NEW a \in {"value", "raised", "nothing", "end"},
         recvPc' = [recvPc EXCEPT ![r] = a],
         a = "end" => Chan!Disconnected,
         recvLine' = Tail(recvLine)
  PROVE  ChanInv'
<1>1. /\ recvLine \in Seq(Others) /\ ReceivesLined /\ IsLine(recvLine)
      /\ recvPc \in [Others -> {"idle", "queued", "trying", "taken", "value", "raised",
                                "nothing", "end", "dropped"}]
  BY DEF ChanInv, Chan!TypeOK, ReceivesLined
<1>2. /\ recvLine' \in Seq(Others) /\ IsLine(recvLine') /\ ~StandsIn(r, recvLine')
      /\ \A d : d # r => (StandsIn(d, recvLine') <=> StandsIn(d, recvLine))
  BY <1>1, FirstLeaves
<1>3. ReceivesLined'
  BY <1>1, <1>2 DEF ReceivesLined
<1> QED
  BY <1>2, <1>3, ReceiveMoves

LEMMA DroppingAReceive ==
  ASSUME ChanInv, NEW r \in Others, Chan!DropReceive(r) PROVE ChanInv'
<1>1. /\ recvLine \in Seq(Others) /\ ReceivesLined /\ IsLine(recvLine)
      /\ recvPc \in [Others -> {"idle", "queued", "trying", "taken", "value", "raised",
                                "nothing", "end", "dropped"}]
      /\ recvPc[r] = "queued" /\ recvPc' = [recvPc EXCEPT ![r] = "dropped"]
      /\ UNCHANGED <<capacity, open, free, sendLine, sendPc, buffer, got>>
  BY DEF ChanInv, Chan!TypeOK, ReceivesLined, Chan!DropReceive, Chan!sendVars
<1>2. recvLine' = Leave(recvLine, r) /\ StandsIn(r, recvLine)
  BY <1>1, ChannelLeave DEF ReceivesLined, Chan!DropReceive
<1>3. /\ recvLine' \in Seq(Others) /\ IsLine(recvLine') /\ ~StandsIn(r, recvLine')
      /\ \A d : d # r => (StandsIn(d, recvLine') <=> StandsIn(d, recvLine))
      /\ recvLine[1] # r => recvLine' # <<>> /\ recvLine'[1] = recvLine[1]
  BY <1>1, <1>2, LeavingALine
<1>4. ASSUME NEW q \in Others, recvPc'[q] \in {"trying", "taken"}
      PROVE  recvLine' # <<>> /\ Head(recvLine') = q
  <2>1. q # r /\ recvPc'[q] = recvPc[q]
    BY <1>1, <1>4
  <2>2. recvLine # <<>> /\ Head(recvLine) = q
    BY <1>1, <1>4, <2>1 DEF ReceivesLined
  <2>3. recvLine[1] = q
    BY <1>1, <2>2
  <2> QED
    BY <1>3, <2>1, <2>3
<1>5. ReceivesLined'
  BY <1>1, <1>3, <1>4 DEF ReceivesLined
<1> QED
  BY <1>1, <1>3, <1>5, ReceiveMoves

LEMMA TakingAValue ==
  ASSUME ChanInv, NEW r \in Others, Chan!Take(r) PROVE ChanInv'
<1> USE DEF ChanInv
<1> DEFINE v == Head(buffer)
<1>1. /\ sendPc \in [Tasks -> SendStates] /\ buffer \in Seq(Tasks) /\ IsLine(buffer)
      /\ recvPc \in [Others -> {"idle", "queued", "trying", "taken", "value", "raised",
                                "nothing", "end", "dropped"}]
      /\ got \in [Others -> Tasks \cup {Nobody}]
      /\ capacity \in Nat /\ free \in 0..capacity
  BY ChannelConstants DEF Chan!TypeOK, SendStates, Delivery
<1>2. /\ recvLine # <<>> /\ Head(recvLine) = r /\ recvPc[r] \in {"queued", "trying"}
      /\ buffer # <<>> /\ got' = [got EXCEPT ![r] = v] /\ buffer' = Tail(buffer)
      /\ recvPc' = [recvPc EXCEPT ![r] = "taken"]
      /\ Chan!Release(sendPc)
      /\ UNCHANGED <<capacity, open, recvLine>>
  BY DEF Chan!Take, Chan!HoldsMutex
<1>3. /\ buffer' \in Seq(Tasks) /\ Len(buffer') = Len(buffer) - 1
      /\ v \in Tasks /\ StandsIn(v, buffer)
      /\ IsLine(buffer') /\ ~StandsIn(v, buffer')
      /\ \A d : d # v => (StandsIn(d, buffer') <=> StandsIn(d, buffer))
  BY <1>1, <1>2, FirstLeaves
<1>4. /\ sendPc' \in [Tasks -> SendStates] /\ sendLine' \in Seq(Tasks) /\ SendsLined'
      /\ \A u \in Tasks : \/ sendPc'[u] = sendPc[u]
                          \/ sendPc[u] = "waiting" /\ sendPc'[u] = "granted"
      /\ IsFiniteSet(Chan!Permitted') /\ Cardinality(Chan!Permitted') \in Nat
      /\ Chan!Bounded =>
           free' + Cardinality(Chan!Permitted') = free + Cardinality(Chan!Permitted) + 1
      /\ sendLine # <<>> => free' = free
      /\ sendLine = <<>> => /\ sendLine' = <<>>
                            /\ free' = IF Chan!Bounded THEN free + 1 ELSE free
  BY <1>1, <1>2, Releasing DEF SendsLined, PermitsCounted, Chan!Permitted
<1>5. Cardinality(Chan!Permitted) \in Nat
  BY FS_CardinalityType DEF PermitsCounted
<1>6. PermitsCounted'
  BY <1>1, <1>2, <1>3, <1>4, <1>5 DEF PermitsCounted, Chan!Bounded
<1>7. free' \in 0..capacity
  BY <1>1, <1>2, <1>3, <1>4, <1>5 DEF PermitsCounted, Chan!Bounded
<1> HIDE DEF v
<1>8. Chan!TypeOK'
  BY <1>1, <1>2, <1>3, <1>4, <1>7 DEF Chan!TypeOK, SendStates
<1>9. ReceivesLined'
  BY <1>1, <1>2 DEF ReceivesLined
<1>10. Delivery'
  <2>1. got[r] = Nobody /\ \A q \in Others : got[q] # v
    BY <1>1, <1>2, <1>3, ChannelConstants DEF Delivery
  <2>2. \A q \in Others : got'[q] = IF q = r THEN v ELSE got[q]
    BY <1>1, <1>2
  <2>3. \A u \in Tasks :
          sendPc'[u] = "sent" <=> StandsIn(u, buffer') \/ \E q \in Others : got'[q] = u
    <3>1. ASSUME NEW u \in Tasks PROVE sendPc'[u] = "sent" <=> sendPc[u] = "sent"
      BY <1>4
    <3>2. ASSUME NEW u \in Tasks
          PROVE  (StandsIn(u, buffer') \/ \E q \in Others : got'[q] = u)
                   <=> StandsIn(u, buffer) \/ \E q \in Others : got[q] = u
      BY <1>3, <2>1, <2>2, ChannelConstants
    <3> QED
      BY <3>1, <3>2 DEF Delivery
  <2>4. \A q \in Others :
          /\ got'[q] # Nobody => /\ ~StandsIn(got'[q], buffer')
                                 /\ \A x \in Others \ {q} : got'[x] # got'[q]
          /\ recvPc'[q] \in {"idle", "queued", "trying"} => got'[q] = Nobody
    BY <1>1, <1>2, <1>3, <2>1, <2>2 DEF Delivery
  <2> QED
    BY <1>3, <2>3, <2>4 DEF Delivery
<1>11. EndIsFinal'
  BY <1>1, <1>2, <1>4 DEF EndIsFinal, Chan!Ended, Chan!Cloned
<1> QED
  BY <1>4, <1>6, <1>8, <1>9, <1>10, <1>11

LEMMA ChannelSteps == ASSUME ChanInv, Chan!Next PROVE ChanInv'
<1>1. ASSUME NEW r \in Others, Chan!Return(r) PROVE ChanInv'
  <2>1. recvLine # <<>> /\ Head(recvLine) = r
    BY <1>1 DEF Chan!Return, ChanInv, ReceivesLined
  <2> QED
    BY <1>1, <2>1, LeavingTheMutex DEF Chan!Return, Chan!sendVars
<1>2. ASSUME NEW r \in Others, Chan!ReturnNil(r) PROVE ChanInv'
  BY <1>2, LeavingTheMutex DEF Chan!ReturnNil, Chan!HoldsMutex, Chan!sendVars
<1> QED
  BY <1>1, <1>2, ClosingTheChannel, CloningASender, AcquiringAPermit, PushingAValue,
     DroppingASend, EnteringAReceive, TakingAValue, DroppingAReceive
     DEF Chan!Next

LEMMA ChannelStutters == ASSUME ChanInv, UNCHANGED chanVars PROVE ChanInv'
<1> USE DEF chanVars
<1>1. Chan!Permitted' = Chan!Permitted /\ Chan!Cloned' = Chan!Cloned
  BY DEF Chan!Permitted, Chan!Cloned
<1> QED
  BY <1>1 DEF ChanInv, Chan!TypeOK, SendsLined, ReceivesLined, PermitsCounted, Chan!Bounded,
              Delivery, EndIsFinal, Chan!Ended

(* The invariant says what is promised of each value and each permit. *)
LEMMA ChannelDelivers == ASSUME ChanInv PROVE DeliveredOnce
<1> USE DEF ChanInv
<1>1. Chan!PermitsAccounted
  BY ChannelCardinality DEF PermitsCounted, Chan!PermitsAccounted
<1>2. ASSUME NEW s \in Tasks
      PROVE  Cardinality({i \in DOMAIN buffer : buffer[i] = s})
               + Cardinality({r \in Others : got[r] = s})
               = IF sendPc[s] = "sent" THEN 1 ELSE 0
  <2> DEFINE inChannel == {i \in DOMAIN buffer : buffer[i] = s}
             with == {r \in Others : got[r] = s}
  <2>1. s # Nobody
    BY ChannelConstants
  <2>2. CASE StandsIn(s, buffer)
    <3>1. PICK i \in DOMAIN buffer : buffer[i] = s
      BY <2>2 DEF StandsIn
    <3>2. inChannel = {i}
      BY <3>1 DEF Delivery, IsLine
    <3>3. sendPc[s] = "sent"
      BY <2>2 DEF Delivery
    <3>4. with = {}
      BY <2>1, <2>2 DEF Delivery
    <3>5. Cardinality(inChannel) = 1 /\ Cardinality(with) = 0
      BY <3>2, <3>4, FS_EmptySet, FS_Singleton
    <3>6. Cardinality(inChannel) + Cardinality(with) = 1
      <4> HIDE DEF inChannel, with
      <4> QED
        BY <3>5
    <3> QED
      BY <3>3, <3>6
  <2>3. CASE ~StandsIn(s, buffer) /\ \E r \in Others : got[r] = s
    <3>1. PICK r \in Others : got[r] = s
      BY <2>3
    <3>2. inChannel = {}
      BY <2>3 DEF StandsIn
    <3>3. sendPc[s] = "sent"
      BY <3>1 DEF Delivery
    <3>4. with = {r}
      BY <2>1, <3>1 DEF Delivery
    <3>5. Cardinality(inChannel) = 0 /\ Cardinality(with) = 1
      BY <3>2, <3>4, FS_EmptySet, FS_Singleton
    <3>6. Cardinality(inChannel) + Cardinality(with) = 1
      <4> HIDE DEF inChannel, with
      <4> QED
        BY <3>5
    <3> QED
      BY <3>3, <3>6
  <2>4. CASE ~StandsIn(s, buffer) /\ ~\E r \in Others : got[r] = s
    <3>1. inChannel = {} /\ with = {} /\ sendPc[s] # "sent"
      BY <2>4 DEF Delivery, StandsIn
    <3> QED
      BY <3>1, FS_EmptySet
  <2> QED
    BY <2>2, <2>3, <2>4
<1>3. Chan!ExactlyOnce
  BY <1>2, ChannelCardinality DEF Chan!ExactlyOnce
<1> QED
  BY <1>1, <1>3 DEF DeliveredOnce

(* A step on the channel is a step of the queue, or none. *)
LEMMA ChannelIsQueue ==
  ASSUME ChanInv, Chan!Next
  PROVE  [Chan!Queue!Next]_<<capacity, buffer, Chan!Ended>>
<1> USE DEF ChanInv, Chan!sendVars, Chan!recvVars
<1>1. /\ buffer \in Seq(Tasks) /\ capacity \in Nat /\ free \in 0..capacity
      /\ recvPc \in [Others -> {"idle", "queued", "trying", "taken", "value", "raised",
                                "nothing", "end", "dropped"}]
  BY ChannelConstants DEF Chan!TypeOK
<1>2. CASE Chan!Close \/ \E s \in Tasks : Chan!CloneSender(s) \/ Chan!Acquire(s) \/ Chan!DropSend(s)
  BY <1>2 DEF Chan!Close, Chan!CloneSender, Chan!Acquire, Chan!DropSend, Chan!Ended
<1>3. ASSUME NEW s \in Tasks, Chan!Push(s) PROVE Chan!Queue!Put(s)
  <2>1. s \in Chan!Permitted /\ s \in Chan!Cloned
    BY <1>3 DEF Chan!Push, Chan!Permitted, Chan!Cloned
  <2>2. ~Chan!Ended
    BY <2>1 DEF EndIsFinal
  <2>3. capacity > 0 => Len(buffer) < capacity
    <3>1. /\ IsFiniteSet(Chan!Permitted \ {s}) /\ Cardinality(Chan!Permitted \ {s}) \in Nat
          /\ Cardinality(Chan!Permitted \ {s}) = Cardinality(Chan!Permitted) - 1
          /\ Cardinality(Chan!Permitted) \in Nat
      BY <2>1, FS_RemoveElement, FS_CardinalityType DEF PermitsCounted
    <3> QED
      BY <1>1, <3>1 DEF PermitsCounted, Chan!Bounded
  <2> QED
    BY <1>1, <1>3, <2>2, <2>3
       DEF Chan!Push, Chan!Queue!Put, Chan!Queue!HasRoom, Chan!Ended
<1>4. ASSUME NEW r \in Others, Chan!Take(r) PROVE Chan!Queue!Take
  BY <1>1, <1>4 DEF Chan!Take, Chan!Queue!Take, Chan!Ended
<1>5. ASSUME NEW r \in Others, Chan!ReturnNil(r)
      PROVE  Chan!Queue!End \/ UNCHANGED <<capacity, buffer, Chan!Ended>>
  BY <1>1, <1>5 DEF Chan!ReturnNil, Chan!Queue!End, Chan!Ended
<1>6. ASSUME NEW r \in Others, Chan!Enter(r) \/ Chan!Return(r) \/ Chan!DropReceive(r)
      PROVE  UNCHANGED <<capacity, buffer, Chan!Ended>>
  BY <1>1, <1>6 DEF Chan!Enter, Chan!Return, Chan!DropReceive, Chan!Ended
<1> QED
  BY <1>2, <1>3, <1>4, <1>5, <1>6 DEF Chan!Next, Chan!Queue!Next

LEMMA ChannelInvariant == FairSpec => []ChanInv
<1>1. Init => ChanInv
  BY ChannelStart DEF Init
<1>2. ChanInv /\ [Next]_vars => ChanInv'
  BY ChannelSteps, ChannelStutters DEF Next, vars
<1> QED
  BY <1>1, <1>2, PTL DEF FairSpec

(* However many tasks send, receive and are dropped: each value that was   *)
(* sent is in the channel or with one receive, and permits are neither     *)
(* leaked nor invented.                                                    *)
THEOREM ValuesAndPermits == FairSpec => []DeliveredOnce
<1>1. ChanInv => DeliveredOnce
  BY ChannelDelivers
<1> QED
  BY <1>1, ChannelInvariant, PTL

(* A channel of any capacity implements the closable queue: nil is the     *)
(* end, and no accepted send is lost behind it.                            *)
THEOREM ChannelImplementsQueue == FairSpec => IsClosableQueue
<1>1. Init => Chan!Queue!Init
  BY DEF Init, Chan!Init, Chan!Queue!Init, Chan!Ended
<1>2. ChanInv /\ [Next]_vars => [Chan!Queue!Next]_<<capacity, buffer, Chan!Ended>>
  <2>1. ASSUME UNCHANGED chanVars PROVE UNCHANGED <<capacity, buffer, Chan!Ended>>
    BY <2>1 DEF chanVars, Chan!Ended
  <2> QED
    BY <2>1, ChannelIsQueue DEF Next, vars
<1> QED
  BY <1>1, <1>2, ChannelInvariant, PTL
     DEF FairSpec, IsClosableQueue, Chan!IsClosableQueue, Chan!Queue!Spec

------------------------------- (* Task sets *) ------------------------------
(* The calls in the line are those that have the mutex or wait for it; one *)
(* that has received has it.                                               *)
CallsLined ==
  /\ IsLine(rxLine)
  /\ \A c \in Tasks :
       /\ nextPc[c] \in {"waiting", "counting"} <=> StandsIn(c, rxLine)
       /\ nextPc[c] = "counting" => rxLine # <<>> /\ Head(rxLine) = c

(* A completion is of a task that was added and has ended, and it is in    *)
(* the channel or with one call.                                           *)
Completed ==
  /\ IsLine(completions)
  /\ \A a \in Tasks :
       /\ told[a] # {} => added[a] # Nobody /\ outcome[added[a]] # Nobody
       /\ StandsIn(a, completions) => told[a] # {}
  /\ \A c \in Tasks : answer[c] # Nobody =>
       /\ told[answer[c]] # {} /\ ~StandsIn(answer[c], completions)
       /\ \A d \in Tasks \ {c} : answer[d] # answer[c]

Counted ==
  /\ IsFiniteSet(Set!Outstanding) /\ IsFiniteSet(Set!Uncounted)
  /\ inFlight = Cardinality(Set!Outstanding) + Cardinality(Set!Uncounted)

SetInv == Set!TypeOK /\ CallsLined /\ Completed /\ Counted

CallStates == {"idle", "waiting", "counting", "empty", "done", "dropped"}

LEMMA SetTypes ==
  ASSUME Set!TypeOK
  PROVE  /\ outcome \in [Others -> {"ended", Nobody}]
         /\ told \in [Tasks -> SUBSET Others]
         /\ added \in [Tasks -> Others \cup {Nobody}]
         /\ inFlight \in Nat
         /\ completions \in Seq(Tasks) /\ rxLine \in Seq(Tasks)
         /\ nextPc \in [Tasks -> CallStates]
         /\ answer \in [Tasks -> Tasks \cup {Nobody}]
  BY DEF Set!TypeOK, CallStates

LEMMA SetConstants == Nobody \notin Others /\ Nobody \notin Tasks /\ Nobody # "ended"
  BY QueuesAssumption DEF Set!NoneAssumption

LEMMA SetCardinality ==
  ASSUME NEW S PROVE Set!Cardinality(S) = Cardinality(S)
  BY DEF Set!Cardinality, Cardinality

LEMMA SetLeave ==
  ASSUME NEW line, NEW c PROVE Set!Leave(line, c) = Leave(line, c)
  BY DEF Set!Leave, Leave

(* The two cardinalities of Counted are natural numbers. *)
LEMMA CountsAreNat ==
  ASSUME Counted
  PROVE  Cardinality(Set!Outstanding) \in Nat /\ Cardinality(Set!Uncounted) \in Nat
  BY FS_CardinalityType DEF Counted

(* Outstanding, by its members. *)
LEMMA OutstandingMembers ==
  ASSUME completions \in Seq(Tasks)
  PROVE  \A a : a \in Set!Outstanding <=>
                  \/ a \in Tasks /\ added[a] # Nobody /\ told[a] = {}
                  \/ StandsIn(a, completions)
  BY DEF Set!Outstanding, Set!Watching, StandsIn

LEMMA SetStart == ASSUME Set!Init PROVE SetInv
<1> USE DEF Set!Init, Set!Promise!Init
<1>1. Set!TypeOK
  BY DEF Set!TypeOK
<1>2. CallsLined /\ Completed
  BY DEF CallsLined, Completed, IsLine, StandsIn
<1>3. Set!Outstanding = {} /\ Set!Uncounted = {}
  BY DEF Set!Outstanding, Set!Watching, Set!Uncounted
<1>4. Counted
  BY <1>3, FS_EmptySet DEF Counted
<1> QED
  BY <1>1, <1>2, <1>4 DEF SetInv

LEMMA TaskEnds ==
  ASSUME SetInv, NEW t \in Others, Set!End(t) PROVE SetInv'
<1> USE DEF SetInv, Set!End, Set!Promise!Decide
<1>1. outcome[t] = Nobody /\ outcome' = [outcome EXCEPT ![t] = "ended"]
  BY DEF Set!TypeOK
<1>2. Set!TypeOK'
  BY <1>1 DEF Set!TypeOK
<1>3. CallsLined'
  BY DEF CallsLined
<1>4. Completed'
  BY <1>1, SetTypes, SetConstants DEF Completed
<1>5. Set!Outstanding' = Set!Outstanding /\ Set!Uncounted' = Set!Uncounted
  BY DEF Set!Outstanding, Set!Watching, Set!Uncounted
<1>6. Counted'
  BY <1>5 DEF Counted
<1> QED
  BY <1>2, <1>3, <1>4, <1>6

LEMMA AddingATask ==
  ASSUME SetInv, NEW a \in Tasks, NEW t \in Others, Set!Watch(a, t) PROVE SetInv'
<1> USE DEF SetInv, Set!Watch, Set!promiseVars
<1>1. t # Nobody /\ told[a] = {} /\ ~StandsIn(a, completions) /\ added[a] = Nobody
  BY SetConstants DEF Completed
<1>2. Set!TypeOK'
  BY DEF Set!TypeOK
<1>3. CallsLined'
  BY DEF CallsLined
<1>4. Completed'
  BY <1>1, SetTypes DEF Completed
<1>5. Set!Outstanding' = Set!Outstanding \cup {a} /\ a \notin Set!Outstanding
  <2>1. \A b : b \in Set!Outstanding' <=>
                 \/ b \in Tasks /\ added'[b] # Nobody /\ told[b] = {}
                 \/ StandsIn(b, completions)
    BY SetTypes DEF Set!Outstanding, Set!Watching, StandsIn
  <2>2. \A b \in Tasks : added'[b] = IF b = a THEN t ELSE added[b]
    BY SetTypes
  <2> QED
    BY <1>1, <2>1, <2>2, SetTypes, OutstandingMembers
<1>6. Set!Uncounted' = Set!Uncounted
  BY DEF Set!Uncounted
<1>7. /\ IsFiniteSet(Set!Outstanding')
      /\ Cardinality(Set!Outstanding') = Cardinality(Set!Outstanding) + 1
  BY <1>5, FS_AddElement DEF Counted
<1>8. Counted'
  BY <1>6, <1>7, CountsAreNat DEF Counted
<1> QED
  BY <1>2, <1>3, <1>4, <1>8

LEMMA ForwardingACompletion ==
  ASSUME SetInv, NEW a \in Tasks, Set!Forward(a) PROVE SetInv'
<1> USE DEF SetInv, Set!Forward
<1>1. /\ added[a] # Nobody /\ added[a] \in Others /\ told[a] = {}
      /\ outcome[added[a]] # Nobody
      /\ ~StandsIn(a, completions)
  BY SetTypes DEF Set!Watching, Completed
<1>2. /\ completions' \in Seq(Tasks) /\ IsLine(completions')
      /\ \A d : StandsIn(d, completions') <=> StandsIn(d, completions) \/ d = a
  BY <1>1, SetTypes, JoiningALine DEF Completed
<1>3. /\ told' \in [Tasks -> SUBSET Others]
      /\ \A b \in Tasks : told'[b] = IF b = a THEN {added[a]} ELSE told[b]
  BY <1>1, SetTypes
<1>4. Set!TypeOK'
  BY <1>2, <1>3 DEF Set!TypeOK
<1>5. CallsLined'
  BY DEF CallsLined
<1>6. Completed'
  <2>1. \A c \in Tasks : answer[c] # Nobody => answer[c] \in Tasks /\ answer[c] # a
    BY <1>1, SetTypes DEF Completed
  <2>2. \A b \in Tasks :
          /\ told'[b] # {} => added'[b] # Nobody /\ outcome'[added'[b]] # Nobody
          /\ StandsIn(b, completions') => told'[b] # {}
    BY <1>1, <1>2, <1>3 DEF Completed
  <2>3. \A c \in Tasks : answer'[c] # Nobody =>
          /\ told'[answer'[c]] # {} /\ ~StandsIn(answer'[c], completions')
          /\ \A d \in Tasks \ {c} : answer'[d] # answer'[c]
    BY <1>2, <1>3, <2>1 DEF Completed
  <2> QED
    BY <1>2, <2>2, <2>3 DEF Completed
<1>7. Set!Outstanding' = Set!Outstanding
  <2>1. \A b : b \in Set!Outstanding' <=>
                 \/ b \in Tasks /\ added[b] # Nobody /\ told'[b] = {}
                 \/ StandsIn(b, completions')
    BY <1>2 DEF Set!Outstanding, Set!Watching, StandsIn
  <2> QED
    BY <1>1, <1>2, <1>3, <2>1, SetTypes, OutstandingMembers
<1>8. Set!Uncounted' = Set!Uncounted
  BY DEF Set!Uncounted
<1>9. Counted'
  BY <1>7, <1>8 DEF Counted
<1> QED
  BY <1>4, <1>5, <1>6, <1>9

(* A call that only moves in its line changes no completion. *)
LEMMA CallMoves ==
  ASSUME SetInv, NEW c \in Tasks, NEW b \in {"waiting", "empty", "dropped"},
         nextPc[c] \in {"idle", "waiting"}, nextPc' = [nextPc EXCEPT ![c] = b],
         UNCHANGED <<outcome, told, added, inFlight, completions, answer>>,
         rxLine' \in Seq(Tasks), CallsLined'
  PROVE  SetInv'
<1> USE DEF SetInv
<1>1. Set!TypeOK'
  BY DEF Set!TypeOK
<1>2. Completed'
  BY DEF Completed
<1>3. Set!Outstanding' = Set!Outstanding /\ Set!Uncounted' = Set!Uncounted
  BY SetTypes DEF Set!Outstanding, Set!Watching, Set!Uncounted
<1>4. Counted'
  BY <1>3 DEF Counted
<1> QED
  BY <1>1, <1>2, <1>4

LEMMA EnteringNext ==
  ASSUME SetInv, NEW c \in Tasks, Set!Enter(c) PROVE SetInv'
<1>1. /\ nextPc[c] = "idle" /\ rxLine \in Seq(Tasks) /\ nextPc \in [Tasks -> CallStates]
      /\ CallsLined /\ IsLine(rxLine) /\ ~StandsIn(c, rxLine)
      /\ UNCHANGED <<outcome, told, added, inFlight, completions, answer>>
  BY SetTypes DEF SetInv, CallsLined, Set!Enter, Set!promiseVars
<1>2. CASE nextPc' = [nextPc EXCEPT ![c] = "empty"] /\ UNCHANGED rxLine
  <2>1. CallsLined'
    BY <1>1, <1>2 DEF CallsLined
  <2> QED
    BY <1>1, <1>2, <2>1, CallMoves
<1>3. CASE nextPc' = [nextPc EXCEPT ![c] = "waiting"] /\ rxLine' = Append(rxLine, c)
  <2>1. /\ rxLine' \in Seq(Tasks) /\ Len(rxLine') = Len(rxLine) + 1 /\ IsLine(rxLine')
        /\ \A d : StandsIn(d, rxLine') <=> StandsIn(d, rxLine) \/ d = c
        /\ Head(rxLine') = IF rxLine = <<>> THEN c ELSE Head(rxLine)
    BY <1>1, <1>3, JoiningALine
  <2>2. rxLine' # <<>>
    BY <1>1, <2>1
  <2>3. CallsLined'
    BY <1>1, <1>3, <2>1, <2>2 DEF CallsLined
  <2> QED
    BY <1>1, <1>3, <2>1, <2>3, CallMoves
<1> QED
  BY <1>2, <1>3 DEF Set!Enter

LEMMA DroppingNext ==
  ASSUME SetInv, NEW c \in Tasks, Set!DropCall(c) PROVE SetInv'
<1>1. /\ nextPc[c] = "waiting" /\ rxLine \in Seq(Tasks) /\ nextPc \in [Tasks -> CallStates]
      /\ nextPc' = [nextPc EXCEPT ![c] = "dropped"]
      /\ CallsLined /\ IsLine(rxLine) /\ StandsIn(c, rxLine)
      /\ rxLine' = Leave(rxLine, c)
      /\ UNCHANGED <<outcome, told, added, inFlight, completions, answer>>
  BY SetTypes, SetLeave DEF SetInv, CallsLined, Set!DropCall, Set!promiseVars
<1>2. /\ rxLine' \in Seq(Tasks) /\ IsLine(rxLine') /\ ~StandsIn(c, rxLine')
      /\ \A d : d # c => (StandsIn(d, rxLine') <=> StandsIn(d, rxLine))
      /\ rxLine[1] # c => rxLine' # <<>> /\ rxLine'[1] = rxLine[1]
  BY <1>1, LeavingALine
<1>3. ASSUME NEW d \in Tasks, nextPc'[d] = "counting"
      PROVE  rxLine' # <<>> /\ Head(rxLine') = d
  <2>1. d # c /\ nextPc[d] = "counting"
    BY <1>1, <1>3
  <2>2. rxLine # <<>> /\ Head(rxLine) = d
    BY <1>1, <2>1 DEF CallsLined
  <2>3. rxLine[1] = d
    BY <1>1, <2>2
  <2> QED
    BY <1>2, <2>1, <2>3
<1>4. CallsLined'
  BY <1>1, <1>2, <1>3 DEF CallsLined
<1> QED
  BY <1>1, <1>2, <1>4, CallMoves

LEMMA ReceivingACompletion ==
  ASSUME SetInv, NEW c \in Tasks, Set!Receive(c) PROVE SetInv'
<1> USE DEF SetInv, Set!Receive, Set!promiseVars
<1> DEFINE v == Head(completions)
<1>1. /\ v \in Tasks /\ StandsIn(v, completions)
      /\ completions' \in Seq(Tasks) /\ IsLine(completions') /\ ~StandsIn(v, completions')
      /\ \A d : d # v => (StandsIn(d, completions') <=> StandsIn(d, completions))
  BY SetTypes, FirstLeaves DEF Completed
<1>2. /\ answer' \in [Tasks -> Tasks \cup {Nobody}]
      /\ \A d \in Tasks : answer'[d] = IF d = c THEN v ELSE answer[d]
      /\ nextPc' \in [Tasks -> CallStates]
      /\ \A d \in Tasks : nextPc'[d] = IF d = c THEN "counting" ELSE nextPc[d]
  BY <1>1, SetTypes DEF CallStates
<1>3. told[v] # {} /\ \A d \in Tasks : answer[d] # v
  BY <1>1, SetConstants DEF Completed
<1>4. Set!TypeOK'
  BY <1>1, <1>2 DEF Set!TypeOK, CallStates
<1>5. CallsLined'
  BY <1>2 DEF CallsLined
<1> HIDE DEF v
<1>6. Completed'
  BY <1>1, <1>2, <1>3 DEF Completed
<1>7. Set!Outstanding' = Set!Outstanding \ {v} /\ v \in Set!Outstanding
  <2>1. \A b : b \in Set!Outstanding' <=>
                 \/ b \in Tasks /\ added[b] # Nobody /\ told[b] = {}
                 \/ StandsIn(b, completions')
    BY <1>1 DEF Set!Outstanding, Set!Watching, StandsIn
  <2> QED
    BY <1>1, <1>3, <2>1, SetTypes, OutstandingMembers
<1>8. Set!Uncounted' = Set!Uncounted \cup {c} /\ c \notin Set!Uncounted
  BY <1>2 DEF Set!Uncounted
<1>9. /\ IsFiniteSet(Set!Outstanding') /\ IsFiniteSet(Set!Uncounted')
      /\ Cardinality(Set!Outstanding') = Cardinality(Set!Outstanding) - 1
      /\ Cardinality(Set!Uncounted') = Cardinality(Set!Uncounted) + 1
  BY <1>7, <1>8, FS_AddElement, FS_RemoveElement DEF Counted
<1>10. Counted'
  BY <1>9, CountsAreNat DEF Counted
<1> QED
  BY <1>4, <1>5, <1>6, <1>10

LEMMA CountingACompletion ==
  ASSUME SetInv, NEW c \in Tasks, Set!Count(c) PROVE SetInv'
<1> USE DEF SetInv, Set!Count, Set!promiseVars
<1>1. rxLine # <<>> /\ Head(rxLine) = c /\ nextPc[c] = "counting"
  BY DEF CallsLined
<1>2. /\ rxLine' \in Seq(Tasks) /\ IsLine(rxLine') /\ ~StandsIn(c, rxLine')
      /\ \A d : d # c => (StandsIn(d, rxLine') <=> StandsIn(d, rxLine))
  BY <1>1, SetTypes, FirstLeaves DEF CallsLined
<1>3. /\ nextPc' \in [Tasks -> CallStates]
      /\ \A d \in Tasks : nextPc'[d] = IF d = c THEN "done" ELSE nextPc[d]
  BY SetTypes DEF CallStates
<1>4. Set!Uncounted' = Set!Uncounted \ {c} /\ c \in Set!Uncounted
  BY <1>1, <1>3 DEF Set!Uncounted
<1>5. Set!Outstanding' = Set!Outstanding
  BY DEF Set!Outstanding, Set!Watching
<1>6. /\ IsFiniteSet(Set!Uncounted') /\ Cardinality(Set!Uncounted') \in Nat
      /\ Cardinality(Set!Uncounted') = Cardinality(Set!Uncounted) - 1
  BY <1>4, FS_RemoveElement, FS_CardinalityType DEF Counted
<1>7. Counted' /\ inFlight' \in Nat
  BY <1>5, <1>6, CountsAreNat DEF Counted
<1>8. Set!TypeOK'
  BY <1>2, <1>3, <1>7 DEF Set!TypeOK, CallStates
<1>9. CallsLined'
  <2>1. \A d \in Tasks : nextPc'[d] # "counting"
    BY <1>1, <1>3 DEF CallsLined
  <2> QED
    BY <1>2, <1>3, <2>1 DEF CallsLined
<1>10. Completed'
  BY DEF Completed
<1> QED
  BY <1>7, <1>8, <1>9, <1>10

LEMMA SetSteps == ASSUME SetInv, Set!Next PROVE SetInv'
  BY TaskEnds, AddingATask, ForwardingACompletion, EnteringNext, ReceivingACompletion,
     CountingACompletion, DroppingNext DEF Set!Next

LEMMA SetStutters == ASSUME SetInv, UNCHANGED setVars PROVE SetInv'
<1> USE DEF setVars
<1>1. Set!Outstanding' = Set!Outstanding /\ Set!Uncounted' = Set!Uncounted
  BY DEF Set!Outstanding, Set!Watching, Set!Uncounted
<1> QED
  BY <1>1 DEF SetInv, Set!TypeOK, CallsLined, Completed, Counted

LEMMA SetInvariant == FairSpec => []SetInv
<1>1. Init => SetInv
  BY SetStart DEF Init
<1>2. SetInv /\ [Next]_vars => SetInv'
  BY SetSteps, SetStutters DEF Next, vars
<1> QED
  BY <1>1, <1>2, PTL DEF FairSpec

(* However many tasks are added and calls of next are made and dropped:    *)
(* in_flight is the number of completions that are to come or not counted, *)
(* and each is given to one call.                                          *)
THEOREM CompletionsCounted == FairSpec => []CompletedOnce
<1>1. ASSUME SetInv PROVE CompletedOnce
  <2>1. Set!CountIsExact
    BY <1>1, SetCardinality DEF SetInv, Counted, Set!CountIsExact
  <2>2. ASSUME NEW c \in Tasks, answer[c] # Nobody
        PROVE  /\ answer[c] \notin Set!Outstanding
               /\ outcome[added[answer[c]]] # Nobody
               /\ \A d \in Tasks \ {c} : answer[d] # answer[c]
    <3>1. answer[c] \in Tasks
      BY <1>1, <2>2, SetTypes DEF SetInv
    <3> QED
      BY <1>1, <2>2, <3>1, SetTypes, OutstandingMembers DEF SetInv, Completed
  <2>3. Set!ExactlyOnce
    BY <1>1, <2>2 DEF SetInv, Completed, IsLine, Set!ExactlyOnce
  <2> QED
    BY <1>1, <2>1, <2>3 DEF SetInv, CompletedOnce
<1> QED
  BY <1>1, SetInvariant, PTL

(* next says that the set is empty only when nothing is left to come. *)
THEOREM EmptyIsFinal == FairSpec => EmptyMeansEmpty
<1>1. ASSUME SetInv, [Next]_vars
      PROVE  [\A c \in Tasks : nextPc[c] = "idle" /\ nextPc'[c] = "empty"
                                 => Set!Outstanding = {}]_Set!vars
  <2>1. SUFFICES ASSUME NEW c \in Tasks, nextPc[c] = "idle", nextPc'[c] = "empty"
                 PROVE  Set!Outstanding = {}
    OBVIOUS
  <2>2. nextPc # nextPc' /\ Set!Next
    BY <1>1, <2>1 DEF Next, vars, setVars
  <2>3. ASSUME NEW d \in Tasks, Set!Enter(d) PROVE Set!Outstanding = {}
    <3>1. d = c /\ inFlight = 0
      BY <1>1, <2>1, <2>3, SetTypes DEF SetInv, Set!Enter
    <3>2. Cardinality(Set!Outstanding) = 0
      BY <1>1, <3>1, CountsAreNat DEF SetInv, Counted
    <3> QED
      BY <1>1, <3>2, FS_EmptySet DEF SetInv, Counted
  <2>4. ASSUME NEW d \in Tasks, Set!Receive(d) \/ Set!Count(d) \/ Set!DropCall(d)
        PROVE  FALSE
    BY <1>1, <2>1, <2>4, SetTypes
       DEF SetInv, Set!Receive, Set!Count, Set!DropCall
  <2>5. ASSUME NEW a \in Tasks, Set!Forward(a) \/ \E t \in Others : Set!Watch(a, t) PROVE FALSE
    BY <2>2, <2>5 DEF Set!Forward, Set!Watch
  <2>6. ASSUME NEW t \in Others, Set!End(t) PROVE FALSE
    BY <2>2, <2>6 DEF Set!End
  <2> QED
    BY <2>2, <2>3, <2>4, <2>5, <2>6 DEF Set!Next
<1> QED
  BY <1>1, SetInvariant, PTL DEF FairSpec, EmptyMeansEmpty, Set!EmptyMeansEmpty
=============================================================================
