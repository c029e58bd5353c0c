------------------------ MODULE BufferedFile_proofs ------------------------
(***************************************************************************)
(* Proofs about the file handle, for every capacity of its buffers, every  *)
(* contents and every bytes the program writes: a failed write is kept for *)
(* the next call that can return it, a flush or a close that returns       *)
(* success leaves nothing in the buffer or in the background, and a        *)
(* program that keeps the rule of C streams sees ByteFile.                 *)
(***************************************************************************)
EXTENDS BufferedFile, SequenceTheorems, WellFoundedInduction, TLAPS

\* A record of op's shape.
OpShape == op = [stage |-> op.stage, acc |-> op.acc,
                 direct |-> op.direct, keep |-> op.keep]

\* Which call is at which stage.
Stages ==
    /\ op.stage \in {"none", "out", "last", "fill"}
    /\ op.stage = "fill" => request.kind \in Reads
    /\ op.stage = "out" => request.kind \in Flushes \cup Seeks \cup {"setvbuf", "write"}
    /\ op.stage = "last" => request.kind \in Flushes \cup Seeks \cup {"setvbuf"}
    /\ op.stage # "none" => open /\ result = File!None

\* flush_write_buf is behind a call that is at its last stage, and only the
\* background write has bytes that neither the disk nor the buffer has.
Emptied ==
    /\ op.stage = "last" => writeBuf = <<>>
    /\ handed # <<>> => op.stage = "out" /\ writeBuf # <<>>
    /\ busy # "writing" => inflight = <<>>

\* write_bytes keeps nothing back in "no" mode.
Unbuffered ==
    /\ mode = "no" => writeBuf = <<>>
    /\ mode = "no" /\ op.stage = "out" /\ request.kind = "write" => op.keep = <<>>

\* tokio keeps a failure until a call returns it, and invents none.
Kept ==
    /\ open /\ owed => werr \/ busy = "failed"
    /\ werr \/ busy = "failed" => broken

FileInv == OpShape /\ Stages /\ Emptied /\ Unbuffered /\ Kept

-----------------------------------------------------------------------------
THEOREM Opening == Init => FileInv
  BY DEF Init, FileInv, OpShape, Stages, Emptied, Unbuffered, Kept, NoOp

\* What Scan leaves the call with: an answer, or a wait for more bytes.
LEMMA Scanning ==
    ASSUME NEW req, NEW acc, NEW buf, Scan(req, acc, buf)
    PROVE  \/ op' = NoOp
           \/ /\ op' = [stage |-> "fill", acc |-> op'.acc,
                         direct |-> <<>>, keep |-> <<>>]
              /\ result' = File!None
  BY DEF Scan, Return, NoOp

\* A call that returns, or that is dropped, is at no stage.
LEMMA Returning ==
    ASSUME op' = NoOp
    PROVE  OpShape' /\ Stages' /\ op'.stage = "none"
  BY DEF OpShape, Stages, NoOp

\* A write_all that does not end keeps nothing in "no" mode.
LEMMA Keeping ==
    ASSUME FileInv, KeepBuffer
    PROVE  handed' = <<>> /\ (mode = "no" => writeBuf' = <<>>)
<1>1. <<>> \o <<>> = <<>>
  OBVIOUS
<1> QED
  BY <1>1 DEF FileInv, Emptied, Unbuffered, KeepBuffer

\* Whatever the provers need of one step.
LEMMA Steps ==
    ASSUME FileInv, [Next]_vars
    PROVE  FileInv'
<1> USE DEF FileInv
<1>1. CASE ReadCall
  <2>1. PICK kind \in Reads, n \in 0..ReadCap + 1 :
            /\ request' = [kind |-> kind, n |-> n, data |-> <<>>]
            /\ Scan(request', <<>>, readBuf)
    BY <1>1 DEF ReadCall, Call
  <2>2. /\ open /\ op = NoOp
        /\ UNCHANGED <<writeBuf, mode, open, tokioVars, ghosts>>
    BY <1>1 DEF ReadCall, Call
  <2>3. request'.kind \in Reads /\ request'.kind # "write"
    BY <2>1 DEF Reads
  <2>4. Emptied' /\ Unbuffered' /\ Kept'
    <3>1. op'.stage \in {"none", "fill"}
      BY <2>1, Scanning DEF NoOp
    <3>2. handed = <<>>
      BY <2>2 DEF Emptied, NoOp
    <3> QED
      BY <2>2, <2>3, <3>1, <3>2 DEF Emptied, Unbuffered, Kept, tokioVars, ghosts
  <2>5. OpShape' /\ Stages'
    <3>1. CASE op' = NoOp
      BY <3>1, Returning
    <3>2. CASE /\ op' = [stage |-> "fill", acc |-> op'.acc, direct |-> <<>>, keep |-> <<>>]
               /\ result' = File!None
      BY <2>2, <2>3, <3>2 DEF OpShape, Stages
    <3> QED
      BY <2>1, <3>1, <3>2, Scanning
  <2> QED
    BY <2>4, <2>5
<1>2. CASE Fill
  <2>1. PICK n \in 1..Len(disk) - cursor :
            Scan(request, op.acc, SubSeq(disk, cursor + 1, cursor + n))
    BY <1>2 DEF Fill
  <2>2. /\ op.stage = "fill" /\ open
        /\ UNCHANGED <<writeBuf, mode, open, request, tokioVars, ghosts>>
    BY <1>2 DEF Fill, Stages
  <2>3. request'.kind \in Reads
    BY <2>2 DEF Stages
  <2>4. Emptied' /\ Unbuffered' /\ Kept'
    <3>1. op'.stage \in {"none", "fill"}
      BY <2>1, Scanning DEF NoOp
    <3>2. QED
      BY <2>2, <3>1 DEF Emptied, Unbuffered, Kept, tokioVars, ghosts
  <2>5. OpShape' /\ Stages'
    <3>1. CASE op' = NoOp
      BY <3>1, Returning
    <3>2. CASE /\ op' = [stage |-> "fill", acc |-> op'.acc, direct |-> <<>>, keep |-> <<>>]
               /\ result' = File!None
      BY <2>2, <2>3, <3>2 DEF OpShape, Stages
    <3> QED
      BY <2>1, <3>1, <3>2, Scanning
  <2> QED
    BY <2>4, <2>5
<1>3. CASE EndOfFile
  BY <1>3, Returning DEF EndOfFile, Return, Emptied, Unbuffered, Kept,
     bufVars, tokioVars, ghosts
<1>4. CASE WriteCall
  <2>1. PICK d \in Blocks :
            /\ Call("write", 0, d)
            /\ IF Fits(d)
                 THEN writeBuf' = writeBuf \o d /\ Return(File!Ok)
                 ELSE /\ op' = [NoOp EXCEPT !.stage = "out", !.direct = Plan(d).direct,
                                            !.keep = Plan(d).keep]
                      /\ UNCHANGED writeBuf /\ result' = File!None
            /\ UNCHANGED <<osVars, readBuf, mode, open, tokioVars, ghosts>>
    BY <1>4 DEF WriteCall
  <2>2. CASE Fits(d)
    <3>0. handed = <<>>
      BY <2>1 DEF Call, Emptied, NoOp
    <3>1. mode' # "no"
      BY <2>1, <2>2 DEF Fits
    <3>2. op' = NoOp
      BY <2>1, <2>2 DEF Return
    <3> QED
      BY <2>1, <3>0, <3>1, <3>2, Returning DEF Emptied, Unbuffered, Kept, tokioVars, ghosts
  <2>3. CASE ~Fits(d)
    <3>1. mode = "no" => Plan(d).keep = <<>>
      BY DEF Plan
    <3>2. /\ op' = [NoOp EXCEPT !.stage = "out", !.direct = Plan(d).direct,
                                !.keep = Plan(d).keep]
          /\ result' = File!None /\ writeBuf' = writeBuf
          /\ open' /\ request'.kind = "write"
      BY <2>1, <2>3 DEF Call
    <3>3. OpShape' /\ Stages' /\ op'.stage = "out" /\ op'.keep = Plan(d).keep
      BY <3>2 DEF OpShape, Stages, NoOp
    <3> QED
      BY <2>1, <3>1, <3>2, <3>3 DEF Emptied, Unbuffered, Kept, tokioVars, ghosts
  <2> QED
    BY <2>2, <2>3
<1>5. CASE HandBuffer
  BY <1>5 DEF HandBuffer, OpShape, Stages, Emptied, Unbuffered, Kept, ghosts
<1>6. CASE HandDirect
  BY <1>6 DEF HandDirect, OpShape, Stages, Emptied, Unbuffered, Kept, bufVars, ghosts
<1>7. CASE Background
  <2>1. /\ busy = "writing" /\ inflight' = <<>>
        /\ \/ busy' = "wrote" /\ UNCHANGED ghosts
           \/ busy' = "failed" /\ owed' = TRUE /\ broken' = TRUE
        /\ UNCHANGED <<append, bufVars, request, op, result, werr, handed, turn>>
    BY <1>7 DEF Background
  <2> QED
    BY <2>1 DEF OpShape, Stages, Emptied, Unbuffered, Kept, bufVars, ghosts
<1>8. CASE Settle
  BY <1>8 DEF Settle, OpShape, Stages, Emptied, Unbuffered, Kept, bufVars, ghosts
<1>9. CASE WriteFails
  BY <1>9, Returning, Keeping DEF WriteFails, Fail, Return, Failing, Emptied, Unbuffered,
     Kept
<1>10. CASE CloseAnyway
  BY <1>10, Returning, Keeping DEF CloseAnyway, Return, Failing, Emptied, Unbuffered, Kept,
     ghosts
<1>11. CASE WriteDone
  BY <1>11, Returning DEF WriteDone, Return, Emptied, Unbuffered, Kept, tokioVars, ghosts
<1>12. CASE FlushCall
  <2>1. PICK kind \in Flushes :
            /\ Call(kind, 0, <<>>)
            /\ op' = [NoOp EXCEPT !.stage = Stage]
            /\ result' = File!None
            /\ UNCHANGED <<osVars, bufVars, tokioVars, turn, ghosts>>
    BY <1>12 DEF FlushCall
  <2> QED
    BY <2>1 DEF Call, Flushes, Stage, NoOp, OpShape, Stages, Emptied, Unbuffered, Kept,
       bufVars, tokioVars, ghosts
<1>13. CASE SetvbufCall
  BY <1>13 DEF SetvbufCall, Call, Stage, NoOp, OpShape, Stages, Emptied, Unbuffered, Kept,
     bufVars, tokioVars, ghosts
<1>14. CASE SeekCall
  <2>1. PICK kind \in Seeks, n \in -1..MaxLen :
            /\ Call(kind, n, <<>>)
            /\ op' = [NoOp EXCEPT !.stage = Stage,
                                  !.acc = IF writeBuf = <<>> THEN readBuf ELSE <<>>]
            /\ result' = File!None
            /\ UNCHANGED <<osVars, writeBuf, mode, open, tokioVars, turn, ghosts>>
    BY <1>14 DEF SeekCall
  <2> QED
    BY <2>1 DEF Call, Seeks, Stage, NoOp, OpShape, Stages, Emptied, Unbuffered, Kept,
       tokioVars, ghosts
<1>15. CASE FlushedFirst
  <2>1. request.kind \in Flushes \cup Seeks \cup {"setvbuf"}
    BY <1>15 DEF FlushedFirst, Stages
  <2> QED
    BY <1>15, <2>1 DEF FlushedFirst, OpShape, Stages, Emptied, Unbuffered, Kept,
       tokioVars, ghosts
<1>16. CASE FlushDone
  <2>1. /\ op.stage = "last" /\ op' = NoOp
        /\ busy = "idle" /\ ~werr
        /\ UNCHANGED <<writeBuf, mode, busy, inflight, werr, handed, owed, broken>>
    BY <1>16 DEF FlushDone, Return, tokioVars, ghosts
  <2>2. ~owed
    BY <2>1 DEF Stages, Kept
  <2> QED
    BY <2>1, <2>2, Returning DEF Emptied, Unbuffered, Kept
<1>17. CASE SetvbufDone
  BY <1>17, Returning DEF SetvbufDone, Return, Emptied, Unbuffered, Kept, tokioVars, ghosts
<1>18. CASE SeekDone
  BY <1>18, Returning DEF SeekDone, Return, Emptied, Unbuffered, Kept,
     bufVars, tokioVars, ghosts
<1>19. CASE SeekFails
  BY <1>19, Returning DEF SeekFails, Return, Emptied, Unbuffered, Kept,
     bufVars, tokioVars, ghosts
<1>20. CASE Cancel
  BY <1>20, Returning, Keeping DEF Cancel, Emptied, Unbuffered, Kept
<1>21. CASE Drop
  BY <1>21, Returning DEF Drop, Emptied, Unbuffered, Kept, tokioVars, ghosts
<1>22. CASE Idle \/ UNCHANGED vars
  BY <1>22 DEF Idle, vars, OpShape, Stages, Emptied, Unbuffered, Kept,
     osVars, bufVars, tokioVars, ghosts
<1> QED
  BY <1>1, <1>2, <1>3, <1>4, <1>5, <1>6, <1>7, <1>8, <1>9, <1>10, <1>11, <1>12, <1>13,
     <1>14, <1>15, <1>16, <1>17, <1>18, <1>19, <1>20, <1>21, <1>22 DEF Next

LEMMA Invariance == Spec => []FileInv
  BY Opening, Steps, PTL DEF Spec

\* A failure of the system to write is not forgotten: until a call has returned
\* it, the open handle still holds it for the next one, however many calls are
\* dropped at their awaits meanwhile.  An unbuffered handle has nothing waiting.
THEOREM FailuresSurface == Spec => []NoSilentLoss
<1>1. FileInv => NoSilentLoss
  BY DEF FileInv, Emptied, Unbuffered, Kept, NoSilentLoss
<1> QED
  BY <1>1, Invariance, PTL

\* A flush or a close that returns success left nothing behind: what the buffer
\* held is with the system, and so is what an earlier call, dropped at an await,
\* had left to the background.
THEOREM SuccessIsDurable == Spec => SuccessMeansOnDisk
<1> DEFINE OnDisk == /\ op.stage # "none" /\ op' = NoOp
                     /\ request.kind \in Flushes /\ result' = File!Ok /\ ~broken'
                     => Pending' = <<>> /\ disk' = Content
<1>1. ASSUME FileInv, [Next]_vars PROVE [OnDisk]_vars
  <2> SUFFICES ASSUME op.stage # "none", op' = NoOp, request.kind \in Flushes,
                      result' = File!Ok, ~broken', vars' # vars
               PROVE  Pending' = <<>> /\ disk' = Content
    OBVIOUS
  <2>1. op # NoOp /\ result # File!Ok
    BY <1>1 DEF FileInv, Stages, NoOp, File!None, File!Ok
  <2>2. request.kind \notin Reads \cup Seeks \cup {"write", "setvbuf"}
    BY DEF Flushes, Reads, Seeks
  <2>3. op.stage \in {"out", "last"}
    BY <1>1, <2>2 DEF FileInv, Stages
  <2>4. FlushDone \/ CloseAnyway
    <3>1. ~Fill /\ ~EndOfFile
      BY <2>3 DEF Fill, EndOfFile
    <3>2. ~ReadCall /\ ~WriteCall /\ ~FlushCall /\ ~SetvbufCall /\ ~SeekCall /\ ~Drop
      BY <2>1 DEF ReadCall, WriteCall, FlushCall, SetvbufCall, SeekCall, Drop, Call
    <3>3. ~HandBuffer /\ ~Background /\ ~Settle /\ ~Cancel /\ ~Idle
      BY <2>1 DEF HandBuffer, Background, Settle, Cancel, Idle
    <3>4. ~HandDirect /\ ~FlushedFirst
      BY <2>1 DEF HandDirect, FlushedFirst, bufVars
    <3>5. ~WriteDone /\ ~SetvbufDone /\ ~SeekDone /\ ~SeekFails
      BY <2>2 DEF WriteDone, SetvbufDone, SeekDone, SeekFails
    <3>6. ~WriteFails
      BY DEF WriteFails, Fail, Return, File!Error, File!Ok
    <3> QED
      BY <1>1, <3>1, <3>2, <3>3, <3>4, <3>5, <3>6 DEF Next
  <2>5. ~CloseAnyway
    BY <1>1 DEF CloseAnyway, Failing, FileInv, Kept, ghosts
  <2>6. /\ op.stage = "last" /\ busy = "idle"
        /\ UNCHANGED <<disk, writeBuf, inflight>>
    BY <2>4, <2>5 DEF FlushDone, osVars, tokioVars
  <2>7. Pending = <<>>
    BY <1>1, <2>6 DEF FileInv, Emptied, Pending
  <2> QED
    BY <2>6, <2>7 DEF Pending, Content
<1> QED
  BY <1>1, Invariance, PTL DEF Spec, SuccessMeansOnDisk

Byte == {"D", "R", "N"}

\* --- Sequences of bytes ----------------------------------------------------

\* What a piece of a string is, and that two strings are equal if they have
\* the same bytes.
LEMMA Beginning ==
    ASSUME NEW q \in Seq(Byte), NEW n \in 0..Len(q)
    PROVE  /\ SubSeq(q, 1, n) \in Seq(Byte)
           /\ Len(SubSeq(q, 1, n)) = n
           /\ \A i \in 1..n : SubSeq(q, 1, n)[i] = q[i]
<1>1. 1 \in Int /\ n \in Int /\ n >= 0
  OBVIOUS
<1>2. \A i \in 1..n : q[i] \in Byte
  OBVIOUS
<1>3. /\ SubSeq(q, 1, n) \in Seq(Byte)
      /\ Len(SubSeq(q, 1, n)) = IF 1 <= n THEN n - 1 + 1 ELSE 0
      /\ \A i \in 1..n - 1 + 1 : SubSeq(q, 1, n)[i] = q[1 + i - 1]
  BY <1>1, <1>2, SubSeqProperties
<1> DEFINE t == SubSeq(q, 1, n)
<1> HIDE DEF t
<1>4. ASSUME NEW i \in 1..n PROVE t[i] = q[i]
  <2>1. i \in 1..n - 1 + 1 /\ 1 + i - 1 = i
    BY <1>1
  <2> QED
    BY <1>3, <2>1 DEF t
<1>5. Len(t) = n
  BY <1>1, <1>3 DEF t
<1> QED
  BY <1>3, <1>4, <1>5 DEF t

LEMMA Piece ==
    ASSUME NEW q \in Seq(Byte), NEW k \in Nat, NEW n \in 0..Len(q)
    PROVE  /\ SubSeq(q, k + 1, n) \in Seq(Byte)
           /\ Len(SubSeq(q, k + 1, n)) = IF k <= n THEN n - k ELSE 0
           /\ \A i \in 1..n - k : SubSeq(q, k + 1, n)[i] = q[k + i]
<1>1. k + 1 \in Int /\ n \in Int /\ n >= 0
  OBVIOUS
<1>2. \A i \in k + 1..n : q[i] \in Byte
  OBVIOUS
<1> DEFINE m == k + 1
           t == SubSeq(q, m, n)
<1> HIDE DEF m
<1>3. /\ t \in Seq(Byte)
      /\ Len(t) = IF m <= n THEN n - m + 1 ELSE 0
      /\ \A i \in 1..n - m + 1 : t[i] = q[m + i - 1]
  BY <1>1, <1>2, SubSeqProperties DEF m
<1> HIDE DEF t
<1>4. ASSUME NEW i \in 1..n - k PROVE t[i] = q[k + i]
  <2>1. i \in 1..n - m + 1 /\ m + i - 1 = k + i
    BY <1>1 DEF m
  <2> QED
    BY <1>3, <2>1
<1>5. Len(t) = IF k <= n THEN n - k ELSE 0
  BY <1>1, <1>3 DEF m
<1> QED
  BY <1>3, <1>4, <1>5 DEF t, m

LEMMA Joined ==
    ASSUME NEW s \in Seq(Byte), NEW t \in Seq(Byte)
    PROVE  /\ s \o t \in Seq(Byte)
           /\ Len(s \o t) = Len(s) + Len(t)
           /\ \A i \in 1..Len(s) : (s \o t)[i] = s[i]
           /\ \A i \in 1..Len(t) : (s \o t)[Len(s) + i] = t[i]
<1>1. /\ s \o t \in Seq(Byte)
      /\ Len(s \o t) = Len(s) + Len(t)
      /\ \A i \in 1 .. Len(s) + Len(t) : (s \o t)[i] =
                     IF i <= Len(s) THEN s[i] ELSE t[i - Len(s)]
  BY ConcatProperties
<1>2. Len(s) \in Nat /\ Len(t) \in Nat
  OBVIOUS
<1> HIDE DEF Byte
<1> QED
  BY <1>1, <1>2

\* A string is what is before a cut and what is after it.
LEMMA Cut ==
    ASSUME NEW q \in Seq(Byte), NEW n \in 0..Len(q)
    PROVE  SubSeq(q, 1, n) \o SubSeq(q, n + 1, Len(q)) = q
<1> DEFINE s == SubSeq(q, 1, n)
           t == SubSeq(q, n + 1, Len(q))
<1>1. Len(q) \in Nat /\ n \in Nat /\ n <= Len(q) /\ Len(q) \in 0..Len(q)
  OBVIOUS
<1>2. /\ s \in Seq(Byte) /\ Len(s) = n
      /\ \A i \in 1..n : s[i] = q[i]
  BY Beginning
<1>3. /\ t \in Seq(Byte) /\ Len(t) = IF n <= Len(q) THEN Len(q) - n ELSE 0
      /\ \A i \in 1..Len(q) - n : t[i] = q[n + i]
  BY <1>1, Piece
<1> HIDE DEF s, t
<1>4. /\ s \o t \in Seq(Byte) /\ Len(s \o t) = Len(s) + Len(t)
      /\ \A i \in 1..Len(s) : (s \o t)[i] = s[i]
      /\ \A i \in 1..Len(t) : (s \o t)[Len(s) + i] = t[i]
  BY <1>2, <1>3, Joined
<1>5. Len(t) = Len(q) - n
  BY <1>1, <1>3
<1> DEFINE st == s \o t
<1> HIDE DEF st
<1>6. /\ st \in Seq(Byte) /\ Len(st) = n + Len(t)
      /\ \A i \in 1..n : st[i] = s[i]
      /\ \A i \in 1..Len(t) : st[n + i] = t[i]
  BY <1>2, <1>4 DEF st
<1>7. ASSUME NEW i \in 1..Len(q) PROVE st[i] = q[i]
  <2>1. CASE i <= n
    <3>1. i \in 1..n
      BY <1>1, <2>1
    <3> QED
      BY <1>2, <1>6, <3>1
  <2>2. CASE i > n
    <3> DEFINE j == i - n
    <3>1. j \in 1..Len(q) - n /\ i = n + j
      BY <1>1, <2>2
    <3> HIDE DEF j
    <3>2. st[n + j] = t[j] /\ t[j] = q[n + j]
      BY <1>3, <1>5, <1>6, <3>1
    <3> QED
      BY <3>1, <3>2
  <2> QED
    BY <1>1, <2>1, <2>2
<1>8. Len(st) = Len(q)
  BY <1>1, <1>5, <1>6
<1> QED
  BY <1>6, <1>7, <1>8, SeqEqual DEF s, t, st

LEMMA Assoc ==
    ASSUME NEW s \in Seq(Byte), NEW t \in Seq(Byte), NEW u \in Seq(Byte)
    PROVE  (s \o t) \o u = s \o (t \o u)
  BY ConcatAssociative

\* Assoc for a context that speaks of many strings: AllBytes says which three.
AllBytes(s, t, u) == s \in Seq(Byte) /\ t \in Seq(Byte) /\ u \in Seq(Byte)

LEMMA AssocOf ==
    ASSUME NEW s, NEW t, NEW u, AllBytes(s, t, u)
    PROVE  (s \o t) \o u = s \o (t \o u)
  BY Assoc DEF AllBytes

LEMMA EmptyString ==
    /\ <<>> \in Seq(Byte)
    /\ \A q \in Seq(Byte) : /\ Len(q) = 0 <=> q = <<>>
                            /\ q \o <<>> = q /\ <<>> \o q = q
                            /\ SubSeq(q, 1, Len(q)) = q
                            /\ SubSeq(q, 1, 0) = <<>>
<1>1. ASSUME NEW q \in Seq(Byte)
      PROVE  /\ q \o <<>> = q /\ <<>> \o q = q
             /\ SubSeq(q, 1, Len(q)) = q
  BY ConcatEmptySeq, SubSeqFull
<1>2. ASSUME NEW q PROVE SubSeq(q, 1, 0) = <<>>
  BY SubSeqEmpty
<1> QED
  BY <1>1, <1>2, EmptySeq

\* --- Overlay ---------------------------------------------------------------

LEMMA Overlaid ==
    ASSUME NEW c \in Seq(Byte), NEW p \in 0..Len(c), NEW s \in Seq(Byte)
    PROVE  /\ Overlay(c, p, s) \in Seq(Byte)
           /\ Len(Overlay(c, p, s)) = IF p + Len(s) <= Len(c) THEN Len(c) ELSE p + Len(s)
           /\ \A i \in 1..p : Overlay(c, p, s)[i] = c[i]
           /\ \A i \in 1..Len(s) : Overlay(c, p, s)[p + i] = s[i]
           /\ \A i \in p + Len(s) + 1..Len(c) : Overlay(c, p, s)[i] = c[i]
<1> DEFINE a == SubSeq(c, 1, p)
           k == p + Len(s)
           b == SubSeq(c, k + 1, Len(c))
<1>1. /\ Len(c) \in Nat /\ Len(s) \in Nat /\ p \in Nat /\ k \in Nat
      /\ p <= Len(c) /\ Len(c) \in 0..Len(c)
  OBVIOUS
<1>2. /\ a \in Seq(Byte) /\ Len(a) = p
      /\ \A i \in 1..p : a[i] = c[i]
  BY Beginning
<1>3. /\ b \in Seq(Byte)
      /\ Len(b) = IF k <= Len(c) THEN Len(c) - k ELSE 0
      /\ \A i \in 1..Len(c) - k : b[i] = c[k + i]
  BY <1>1, Piece
<1> DEFINE as == a \o s
<1> HIDE DEF a, b
<1>4. /\ as \in Seq(Byte) /\ Len(as) = p + Len(s)
      /\ \A i \in 1..p : as[i] = a[i]
      /\ \A i \in 1..Len(s) : as[p + i] = s[i]
  BY <1>1, <1>2, Joined
<1>5. /\ as \o b \in Seq(Byte) /\ Len(as \o b) = Len(as) + Len(b)
      /\ \A i \in 1..Len(as) : (as \o b)[i] = as[i]
      /\ \A i \in 1..Len(b) : (as \o b)[Len(as) + i] = b[i]
  BY <1>3, <1>4, Joined
<1>6. Overlay(c, p, s) = as \o b
  BY DEF Overlay, a, b
<1> HIDE DEF as
<1> DEFINE o == as \o b
<1> HIDE DEF o
<1>7. /\ o \in Seq(Byte) /\ Len(o) = p + Len(s) + Len(b)
      /\ \A i \in 1..p + Len(s) : o[i] = as[i]
      /\ \A i \in 1..Len(b) : o[p + Len(s) + i] = b[i]
  BY <1>4, <1>5 DEF o
<1> HIDE DEF as
<1>8. Len(o) = IF p + Len(s) <= Len(c) THEN Len(c) ELSE p + Len(s)
  <2>1. Len(o) = k + Len(b)
    BY <1>7
  <2>2. Len(b) = IF k <= Len(c) THEN Len(c) - k ELSE 0
    BY <1>3
  <2> DEFINE n == Len(b)
  <2> HIDE DEF k, n
  <2>3. CASE k <= Len(c)
    <3>1. n = Len(c) - k /\ Len(o) = k + n
      BY <2>1, <2>2, <2>3 DEF n
    <3> QED
      BY <1>1, <2>3, <3>1 DEF k
  <2>4. CASE ~(k <= Len(c))
    <3>1. n = 0 /\ Len(o) = k + n
      BY <2>1, <2>2, <2>4 DEF n
    <3> QED
      BY <1>1, <2>4, <3>1 DEF k
  <2> QED
    BY <2>3, <2>4
<1>9. ASSUME NEW i \in 1..p PROVE o[i] = c[i]
  <2>1. i \in 1..p + Len(s)
    BY <1>1
  <2> QED
    BY <1>2, <1>4, <1>7, <2>1
<1>10. ASSUME NEW i \in 1..Len(s) PROVE o[p + i] = s[i]
  <2>1. p + i \in 1..p + Len(s)
    BY <1>1
  <2> QED
    BY <1>4, <1>7, <2>1
<1>11. ASSUME NEW i \in p + Len(s) + 1..Len(c) PROVE o[i] = c[i]
  <2> DEFINE j == i - k
  <2>1. j \in 1..Len(b) /\ i = k + j /\ j \in 1..Len(c) - k
    BY <1>1, <1>3
  <2> HIDE DEF j
  <2>2. o[k + j] = b[j] /\ b[j] = c[k + j]
    BY <1>3, <1>7, <2>1
  <2> QED
    BY <2>1, <2>2
<1> QED
  BY <1>6, <1>7, <1>8, <1>9, <1>10, <1>11 DEF o

\* Writing two strings one behind the other is writing both at once.
LEMMA OverlayTwice ==
    ASSUME NEW c \in Seq(Byte), NEW p \in 0..Len(c),
           NEW s \in Seq(Byte), NEW t \in Seq(Byte)
    PROVE  Overlay(Overlay(c, p, s), p + Len(s), t) = Overlay(c, p, s \o t)
<1> DEFINE o == Overlay(c, p, s)
           x == Overlay(o, p + Len(s), t)
           y == Overlay(c, p, s \o t)
           st == s \o t
<1>1. Len(c) \in Nat /\ Len(s) \in Nat /\ Len(t) \in Nat /\ p \in Nat
  OBVIOUS
<1>2. /\ o \in Seq(Byte)
      /\ Len(o) = IF p + Len(s) <= Len(c) THEN Len(c) ELSE p + Len(s)
      /\ \A i \in 1..p : o[i] = c[i]
      /\ \A i \in 1..Len(s) : o[p + i] = s[i]
      /\ \A i \in p + Len(s) + 1..Len(c) : o[i] = c[i]
  BY Overlaid
<1>3. /\ st \in Seq(Byte) /\ Len(st) = Len(s) + Len(t)
      /\ \A i \in 1..Len(s) : st[i] = s[i]
      /\ \A i \in 1..Len(t) : st[Len(s) + i] = t[i]
  BY Joined
<1> HIDE DEF o, st
<1>4. p + Len(s) \in 0..Len(o)
  BY <1>1, <1>2
<1> DEFINE k == p + Len(s)
<1>5. /\ x \in Seq(Byte)
      /\ Len(x) = IF k + Len(t) <= Len(o) THEN Len(o) ELSE k + Len(t)
      /\ \A i \in 1..k : x[i] = o[i]
      /\ \A i \in 1..Len(t) : x[k + i] = t[i]
      /\ \A i \in k + Len(t) + 1..Len(o) : x[i] = o[i]
  BY <1>2, <1>4, Overlaid
<1>6. /\ y \in Seq(Byte)
      /\ Len(y) = IF p + Len(st) <= Len(c) THEN Len(c) ELSE p + Len(st)
      /\ \A i \in 1..p : y[i] = c[i]
      /\ \A i \in 1..Len(st) : y[p + i] = st[i]
      /\ \A i \in p + Len(st) + 1..Len(c) : y[i] = c[i]
  BY <1>3, Overlaid DEF st
<1> HIDE DEF x, y
<1>7. Len(x) = Len(y)
  <2> HIDE DEF k
  <2>1. k = p + Len(s) /\ k \in Nat
    BY <1>1 DEF k
  <2> QED
    <3>1. Len(o) = IF k <= Len(c) THEN Len(c) ELSE k
      BY <1>2, <2>1
    <3>2. Len(x) = IF k + Len(t) <= Len(o) THEN Len(o) ELSE k + Len(t)
      BY <1>5
    <3>3. Len(y) = IF p + Len(st) <= Len(c) THEN Len(c) ELSE p + Len(st)
      BY <1>6
    <3>4. p + Len(st) = k + Len(t)
      BY <1>1, <1>3, <2>1
    <3> QED
      BY <1>1, <2>1, <3>1, <3>2, <3>3, <3>4
<1>8. ASSUME NEW i \in 1..Len(x) PROVE x[i] = y[i]
  <2>1. CASE i <= p
    <3>1. i \in 1..p /\ i \in 1..k
      BY <1>1, <2>1
    <3> QED
      BY <1>2, <1>5, <1>6, <3>1
  <2>2. CASE p < i /\ i <= k
    <3> DEFINE j == i - p
    <3>1. /\ i = p + j /\ j \in 1..Len(s) /\ i \in 1..k /\ j \in 1..Len(st)
      BY <1>1, <1>3, <2>2
    <3> HIDE DEF j, k
    <3> QED
      BY <1>2, <1>3, <1>5, <1>6, <3>1
  <2>3. CASE k < i /\ i <= k + Len(t)
    <3> DEFINE j == i - k
    <3>1. /\ i = k + j /\ j \in 1..Len(t) /\ i = p + (Len(s) + j)
          /\ Len(s) + j \in 1..Len(st)
      BY <1>1, <1>3, <2>3
    <3> HIDE DEF j, k
    <3> QED
      BY <1>3, <1>5, <1>6, <3>1
  <2>4. CASE k + Len(t) < i
    <3>1. /\ i \in k + Len(t) + 1..Len(o) /\ i \in p + Len(st) + 1..Len(c)
          /\ i \in p + Len(s) + 1..Len(c)
      BY <1>1, <1>2, <1>3, <1>5, <2>4
    <3> QED
      BY <1>2, <1>5, <1>6, <3>1
  <2>5. i \in Int /\ k \in Int /\ Len(x) \in Nat
    BY <1>1, <1>5
  <2> QED
    BY <1>1, <2>1, <2>2, <2>3, <2>4, <2>5
<1> QED
  BY <1>5, <1>6, <1>7, <1>8, SeqEqual DEF x, y, o, st

\* --- Pieces of joined strings ----------------------------------------------

LEMMA Halves ==
    ASSUME NEW a \in Seq(Byte), NEW b \in Seq(Byte)
    PROVE  /\ SubSeq(a \o b, 1, Len(a)) = a
           /\ SubSeq(a \o b, Len(a) + 1, Len(a \o b)) = b
<1> DEFINE c == a \o b
           x == SubSeq(c, 1, Len(a))
           y == SubSeq(c, Len(a) + 1, Len(c))
<1>1. /\ c \in Seq(Byte) /\ Len(c) = Len(a) + Len(b)
      /\ \A i \in 1..Len(a) : c[i] = a[i]
      /\ \A i \in 1..Len(b) : c[Len(a) + i] = b[i]
  BY Joined
<1>2. Len(a) \in Nat /\ Len(b) \in Nat
  OBVIOUS
<1> HIDE DEF c
<1>3. Len(a) \in 0..Len(c) /\ Len(c) \in 0..Len(c) /\ Len(a) <= Len(c)
      /\ Len(c) - Len(a) = Len(b)
  BY <1>1, <1>2
<1>4. /\ x \in Seq(Byte) /\ Len(x) = Len(a)
      /\ \A i \in 1..Len(a) : x[i] = c[i]
  BY <1>1, <1>3, Beginning
<1>5. /\ y \in Seq(Byte) /\ Len(y) = IF Len(a) <= Len(c) THEN Len(c) - Len(a) ELSE 0
      /\ \A i \in 1..Len(c) - Len(a) : y[i] = c[Len(a) + i]
  BY <1>1, <1>2, <1>3, Piece
<1> HIDE DEF x, y
<1>6. x = a
  BY <1>1, <1>4, SeqEqual
<1>7. y = b
  <2>1. Len(y) = Len(b) /\ \A i \in 1..Len(b) : y[i] = b[i]
    BY <1>1, <1>3, <1>5
  <2> QED
    BY <1>5, <2>1, SeqEqual
<1> QED
  BY <1>6, <1>7 DEF x, y, c

\* What begins with all of a ends within b.
LEMMA Onward ==
    ASSUME NEW a \in Seq(Byte), NEW b \in Seq(Byte), NEW n \in 0..Len(b)
    PROVE  SubSeq(a \o b, 1, Len(a) + n) = a \o SubSeq(b, 1, n)
<1> DEFINE h == SubSeq(b, 1, n)
           t == SubSeq(b, n + 1, Len(b))
<1>1. h \in Seq(Byte) /\ Len(h) = n
  BY Beginning
<1>2. t \in Seq(Byte)
  <2>1. n \in Nat /\ Len(b) \in 0..Len(b)
    OBVIOUS
  <2> QED
    BY <2>1, Piece
<1>3. b = h \o t
  BY Cut
<1> HIDE DEF h, t
<1>4. a \o b = (a \o h) \o t
  <2>1. (a \o h) \o t = a \o (h \o t)
    BY <1>1, <1>2, Assoc
  <2> QED
    BY <1>3, <2>1
<1>5. a \o h \in Seq(Byte) /\ Len(a \o h) = Len(a) + n
  BY <1>1, Joined
<1> DEFINE ah == a \o h
<1> HIDE DEF ah
<1>6. SubSeq(ah \o t, 1, Len(ah)) = ah
  BY <1>2, <1>5, Halves DEF ah
<1> QED
  BY <1>4, <1>5, <1>6 DEF ah, h

LEMMA Within ==
    ASSUME NEW a \in Seq(Byte), NEW n \in 0..Len(a), NEW k \in 0..n
    PROVE  SubSeq(SubSeq(a, 1, n), 1, k) = SubSeq(a, 1, k)
<1> DEFINE x == SubSeq(a, 1, n)
           y == SubSeq(x, 1, k)
           z == SubSeq(a, 1, k)
<1>1. /\ x \in Seq(Byte) /\ Len(x) = n
      /\ \A i \in 1..n : x[i] = a[i]
  BY Beginning
<1>2. k \in 0..Len(a) /\ n \in Nat /\ k \in Nat /\ k <= n
  OBVIOUS
<1>3. /\ z \in Seq(Byte) /\ Len(z) = k
      /\ \A i \in 1..k : z[i] = a[i]
  BY <1>2, Beginning
<1> HIDE DEF x, z
<1>4. /\ y \in Seq(Byte) /\ Len(y) = k
      /\ \A i \in 1..k : y[i] = x[i]
  BY <1>1, Beginning
<1> HIDE DEF y
<1>5. \A i \in 1..k : i \in 1..n
  BY <1>2
<1>6. Len(y) = Len(z) /\ \A i \in 1..Len(y) : y[i] = z[i]
  BY <1>1, <1>3, <1>4, <1>5
<1> QED
  BY <1>3, <1>4, <1>6, SeqEqual DEF x, y, z

\* --- Spans -----------------------------------------------------------------

LEMMA Smallest ==
    ASSUME NEW T, T \subseteq Nat, T # {}
    PROVE  \E n \in T : \A m \in T : n <= m
<1>1. \E n \in T : \A m \in T : ~(<<m, n>> \in OpToRel(<, Nat))
  BY NatLessThanWellFounded, WFMin
<1>2. PICK n \in T : \A m \in T : ~(<<m, n>> \in OpToRel(<, Nat))
  BY <1>1
<1>3. ASSUME NEW m \in T PROVE n <= m
  <2>1. n \in Nat /\ m \in Nat /\ <<m, n>> \in Nat \X Nat
    OBVIOUS
  <2>2. ~(<<m, n>>[1] < <<m, n>>[2])
    BY <1>2, <2>1 DEF OpToRel
  <2> QED
    BY <2>1, <2>2
<1> QED
  BY <1>3

LEMMA LeastIs ==
    ASSUME NEW T, T \subseteq Nat, NEW n \in T, \A m \in T : n <= m
    PROVE  File!Least(T) = n
<1>1. \A k \in T : (\A m \in T : k <= m) => k = n
  BY SMT
<1> QED
  BY <1>1 DEF File!Least

IsSpan(q, S, n) ==
    /\ n \in 0..Len(q)
    /\ \A i \in 1..n : q[i] \in S
    /\ n < Len(q) => q[n + 1] \notin S

LEMMA SpanIs ==
    ASSUME NEW q \in Seq(Byte), NEW S, NEW n, IsSpan(q, S, n)
    PROVE  File!Span(q, S) = n
<1> DEFINE T == {k \in 0..Len(q) : k = Len(q) \/ q[k + 1] \notin S}
<1>1. Len(q) \in Nat /\ n \in 0..Len(q)
  BY DEF IsSpan
<1>2. T \subseteq Nat /\ n \in T
  BY <1>1 DEF IsSpan
<1>3. ASSUME NEW m \in T PROVE n <= m
  <2>1. m \in 0..Len(q) /\ (m = Len(q) \/ q[m + 1] \notin S)
    OBVIOUS
  <2>2. CASE m < n
    <3>1. m # Len(q) /\ m + 1 \in 1..n
      BY <1>1, <2>1, <2>2
    <3> QED
      BY <2>1, <3>1 DEF IsSpan
  <2> QED
    BY <1>1, <2>1, <2>2
<1> HIDE DEF T
<1>4. File!Least(T) = n
  BY <1>2, <1>3, LeastIs
<1> QED
  BY <1>4 DEF T, File!Span

LEMMA SpanFound ==
    ASSUME NEW q \in Seq(Byte), NEW S
    PROVE  IsSpan(q, S, File!Span(q, S))
<1> DEFINE T == {k \in 0..Len(q) : k = Len(q) \/ q[k + 1] \notin S}
<1>1. Len(q) \in Nat /\ T \subseteq Nat /\ Len(q) \in T
  OBVIOUS
<1>2. PICK n \in T : \A m \in T : n <= m
  <2> HIDE DEF T
  <2>1. T # {}
    BY <1>1
  <2> QED
    BY <1>1, <2>1, Smallest
<1>3. n \in 0..Len(q) /\ (n < Len(q) => q[n + 1] \notin S)
  OBVIOUS
<1>4. ASSUME NEW i \in 1..n PROVE q[i] \in S
  <2>1. i - 1 \in 0..Len(q) /\ i - 1 # Len(q) /\ (i - 1) + 1 = i /\ ~(n <= i - 1)
    BY <1>1, <1>3
  <2>2. i - 1 \notin T
    BY <1>2, <2>1
  <2> QED
    BY <2>1, <2>2
<1>5. IsSpan(q, S, n)
  BY <1>3, <1>4 DEF IsSpan
<1> QED
  BY <1>5, SpanIs

LEMMA SpanOnward ==
    ASSUME NEW a \in Seq(Byte), NEW b \in Seq(Byte), NEW S,
           \A i \in 1..Len(a) : a[i] \in S
    PROVE  File!Span(a \o b, S) = Len(a) + File!Span(b, S)
<1> DEFINE n == File!Span(b, S)
           c == a \o b
<1>1. IsSpan(b, S, n)
  BY SpanFound
<1>2. /\ c \in Seq(Byte) /\ Len(c) = Len(a) + Len(b)
      /\ \A i \in 1..Len(a) : c[i] = a[i]
      /\ \A i \in 1..Len(b) : c[Len(a) + i] = b[i]
  BY Joined
<1>3. Len(a) \in Nat /\ Len(b) \in Nat
  OBVIOUS
<1> HIDE DEF n, c
<1>4. /\ n \in 0..Len(b) /\ \A i \in 1..n : b[i] \in S
      /\ n < Len(b) => b[n + 1] \notin S
  BY <1>1 DEF IsSpan
<1>5. Len(a) + n \in 0..Len(c)
  BY <1>2, <1>3, <1>4
<1>6. ASSUME NEW i \in 1..Len(a) + n PROVE c[i] \in S
  <2>1. CASE i <= Len(a)
    <3>1. i \in 1..Len(a)
      BY <1>3, <2>1
    <3> QED
      BY <1>2, <3>1
  <2>2. CASE i > Len(a)
    <3> DEFINE j == i - Len(a)
    <3>1. j \in 1..n /\ j \in 1..Len(b) /\ i = Len(a) + j
      BY <1>3, <1>4, <2>2
    <3> HIDE DEF j
    <3>2. c[Len(a) + j] = b[j] /\ b[j] \in S
      BY <1>2, <1>4, <3>1
    <3> QED
      BY <3>1, <3>2
  <2> QED
    BY <1>3, <1>4, <2>1, <2>2
<1>7. ASSUME Len(a) + n < Len(c) PROVE c[(Len(a) + n) + 1] \notin S
  <2>1. n < Len(b) /\ n + 1 \in 1..Len(b) /\ (Len(a) + n) + 1 = Len(a) + (n + 1)
    BY <1>2, <1>3, <1>4, <1>7
  <2>2. c[Len(a) + (n + 1)] = b[n + 1]
    BY <1>2, <2>1
  <2> QED
    BY <1>4, <2>1, <2>2
<1>8. IsSpan(c, S, Len(a) + n)
  BY <1>5, <1>6, <1>7 DEF IsSpan
<1> QED
  BY <1>2, <1>8, SpanIs DEF n, c

LEMMA SpanWithin ==
    ASSUME NEW a \in Seq(Byte), NEW b \in Seq(Byte), NEW S, File!Span(a, S) < Len(a)
    PROVE  File!Span(a \o b, S) = File!Span(a, S)
<1> DEFINE n == File!Span(a, S)
           c == a \o b
<1>1. IsSpan(a, S, n)
  BY SpanFound
<1>2. /\ c \in Seq(Byte) /\ Len(c) = Len(a) + Len(b)
      /\ \A i \in 1..Len(a) : c[i] = a[i]
  BY Joined
<1>3. Len(a) \in Nat /\ Len(b) \in Nat /\ n < Len(a)
  OBVIOUS
<1> HIDE DEF n, c
<1>4. /\ n \in 0..Len(a) /\ \A i \in 1..n : a[i] \in S
      /\ a[n + 1] \notin S
  BY <1>1, <1>3 DEF IsSpan
<1>5. n \in 0..Len(c) /\ n + 1 \in 1..Len(a) /\ \A i \in 1..n : i \in 1..Len(a)
  BY <1>2, <1>3, <1>4
<1>6. IsSpan(c, S, n)
  BY <1>2, <1>4, <1>5 DEF IsSpan
<1> QED
  BY <1>2, <1>6, SpanIs DEF n, c

\* --- The read loops --------------------------------------------------------

\* All bytes of q are among S.
Only(q, S) == \A i \in 1..Len(q) : q[i] \in S

LEMMA OnlyJoined ==
    ASSUME NEW a \in Seq(Byte), NEW b \in Seq(Byte), NEW S, Only(a, S), Only(b, S)
    PROVE  Only(a \o b, S)
<1> DEFINE c == a \o b
<1>1. /\ c \in Seq(Byte) /\ Len(c) = Len(a) + Len(b)
      /\ \A i \in 1..Len(a) : c[i] = a[i]
      /\ \A i \in 1..Len(b) : c[Len(a) + i] = b[i]
  BY Joined
<1>2. Len(a) \in Nat /\ Len(b) \in Nat
  OBVIOUS
<1> HIDE DEF c
<1>3. ASSUME NEW i \in 1..Len(c) PROVE c[i] \in S
  <2>1. CASE i <= Len(a)
    <3>1. i \in 1..Len(a)
      BY <1>2, <2>1
    <3> QED
      BY <1>1, <3>1 DEF Only
  <2>2. CASE i > Len(a)
    <3> DEFINE j == i - Len(a)
    <3>1. j \in 1..Len(b) /\ i = Len(a) + j
      BY <1>1, <1>2, <2>2
    <3> HIDE DEF j
    <3> QED
      BY <1>1, <3>1 DEF Only
  <2> QED
    BY <1>1, <1>2, <2>1, <2>2
<1> QED
  BY <1>3 DEF Only, c

\* Blanks, digits, and what comes after a number.
LEMMA NumberIs ==
    ASSUME NEW u \in Seq(Byte), NEW v \in Seq(Byte), NEW t \in Seq(Byte),
           Only(u, File!Whitespace), Only(v, {"D"}),
           t # <<>> => v # <<>> /\ t[1] # "D"
    PROVE  /\ File!Span(u \o (v \o t), File!Whitespace) = Len(u)
           /\ File!Number(u \o (v \o t)) = v
<1> DEFINE r == v \o t
           s == u \o r
<1>1. /\ r \in Seq(Byte) /\ Len(r) = Len(v) + Len(t)
      /\ \A i \in 1..Len(v) : r[i] = v[i]
  BY Joined
<1>2. Len(u) \in Nat /\ Len(v) \in Nat /\ Len(t) \in Nat
      /\ (Len(v) = 0 <=> v = <<>>) /\ (Len(t) = 0 <=> t = <<>>)
  BY EmptyString
<1> HIDE DEF r
<1>3. s \in Seq(Byte)
  BY <1>1, Joined
<1>4. File!Span(r, File!Whitespace) = 0
  <2>1. ASSUME 0 < Len(r) PROVE r[0 + 1] \notin File!Whitespace
    <3>1. 1 \in 1..Len(v)
      BY <1>1, <1>2, <2>1
    <3>2. r[1] = v[1] /\ v[1] = "D"
      BY <1>1, <3>1 DEF Only
    <3> QED
      BY <3>2 DEF File!Whitespace
  <2>2. 0 \in 0..Len(r) /\ \A i \in 1..0 : r[i] \in File!Whitespace
    BY <1>1, <1>2
  <2>3. IsSpan(r, File!Whitespace, 0)
    BY <2>1, <2>2 DEF IsSpan
  <2> QED
    BY <1>1, <2>3, SpanIs
<1>5. File!Span(s, File!Whitespace) = Len(u)
  <2>1. File!Span(u \o r, File!Whitespace) = Len(u) + File!Span(r, File!Whitespace)
    BY <1>1, SpanOnward DEF Only
  <2> QED
    BY <1>2, <1>4, <2>1
<1>6. File!Span(r, {"D"}) = Len(v)
  <2>1. IsSpan(t, {"D"}, 0)
    BY <1>2 DEF IsSpan
  <2>2. File!Span(t, {"D"}) = 0
    BY <2>1, SpanIs
  <2>3. File!Span(v \o t, {"D"}) = Len(v) + File!Span(t, {"D"})
    BY SpanOnward DEF Only
  <2> QED
    BY <1>2, <2>2, <2>3 DEF r
<1>7. SubSeq(s, Len(u) + 1, Len(s)) = r
  BY <1>1, Halves
<1>8. SubSeq(r, 1, Len(v)) = v
  BY Halves DEF r
<1> HIDE DEF s
<1>9. File!Number(s) = v
  BY <1>5, <1>6, <1>7, <1>8 DEF File!Number, File!First, File!From, File!Digit
<1> QED
  BY <1>5, <1>9 DEF s, r

LEMMA SpanCut ==
    ASSUME NEW q \in Seq(Byte), NEW S
    PROVE  LET n == File!Span(q, S)
               a == SubSeq(q, 1, n)
               b == SubSeq(q, n + 1, Len(q))
           IN  /\ n \in 0..Len(q) /\ Len(a) = n
               /\ a \in Seq(Byte) /\ b \in Seq(Byte) /\ q = a \o b
               /\ Only(a, S)
               /\ b # <<>> => b[1] \notin S
               /\ b = <<>> <=> n = Len(q)
<1> DEFINE n == File!Span(q, S)
           a == SubSeq(q, 1, n)
           b == SubSeq(q, n + 1, Len(q))
<1>1. /\ n \in 0..Len(q)
      /\ \A i \in 1..n : q[i] \in S
      /\ n < Len(q) => q[n + 1] \notin S
  BY SpanFound DEF IsSpan
<1> HIDE DEF n
<1>2. /\ a \in Seq(Byte) /\ Len(a) = n
      /\ \A i \in 1..n : a[i] = q[i]
  BY <1>1, Beginning
<1>3. Len(q) \in Nat /\ n \in Nat /\ Len(q) \in 0..Len(q) /\ n <= Len(q)
  BY <1>1
<1>4. /\ b \in Seq(Byte) /\ Len(b) = IF n <= Len(q) THEN Len(q) - n ELSE 0
      /\ \A i \in 1..Len(q) - n : b[i] = q[n + i]
  BY <1>3, Piece
<1>5. q = a \o b
  BY <1>1, Cut
<1> HIDE DEF a, b
<1>6. Only(a, S)
  BY <1>1, <1>2 DEF Only
<1>7. Len(b) = Len(q) - n
  BY <1>3, <1>4
<1>8. b = <<>> <=> n = Len(q)
  <2>1. Len(b) = 0 <=> b = <<>>
    BY <1>4, EmptyString
  <2> QED
    BY <1>3, <1>7, <2>1
<1>9. ASSUME b # <<>> PROVE b[1] \notin S
  <2>1. n < Len(q) /\ 1 \in 1..Len(q) - n
    BY <1>3, <1>8, <1>9
  <2>2. b[1] = q[n + 1]
    BY <1>4, <2>1
  <2> QED
    BY <1>1, <2>1, <2>2
<1> QED
  BY <1>1, <1>2, <1>4, <1>5, <1>6, <1>8, <1>9 DEF n, a, b

\* What a read that is not over has consumed.
Partial(req, acc) ==
    /\ req.kind = "bytes" => Len(acc) <= req.n
    /\ req.kind \in {"line", "wholeLine"} => Only(acc, {"D", "R"})
    /\ req.kind = "number" =>
         \E u \in Seq(Byte), v \in Seq(Byte) :
             acc = u \o v /\ Only(u, File!Whitespace) /\ Only(v, {"D"})

\* The reads of s that have consumed acc and have buf in the buffer: a turn of
\* the loop ends with the answer that s has, or goes on with all of buf.
Reading(req, s, acc, buf) ==
    LET n == Taken(req, acc, buf)
        got == acc \o SubSeq(buf, 1, n)
    IN  /\ n \in 0..Len(buf)
        /\ Ends(req, acc, buf) =>
             File!Answer(req.kind, req.n, s) = <<Value(req, got, FALSE), Len(got)>>
        /\ ~Ends(req, acc, buf) => n = Len(buf) /\ Partial(req, got)

\* got is the beginning of s.
LEMMA GotIsBeginning ==
    ASSUME NEW acc, NEW buf, NEW tail, AllBytes(acc, buf, tail), NEW n \in 0..Len(buf)
    PROVE  LET got == acc \o SubSeq(buf, 1, n)
               s == acc \o (buf \o tail)
           IN  /\ s \in Seq(Byte) /\ got \in Seq(Byte)
               /\ Len(s) = Len(acc) + Len(buf) + Len(tail)
               /\ Len(got) = Len(acc) + n
               /\ Len(got) \in 0..Len(s)
               /\ got = SubSeq(s, 1, Len(got))
<1> DEFINE h == SubSeq(buf, 1, n)
           bt == buf \o tail
           got == acc \o h
           s == acc \o bt
<1>0. acc \in Seq(Byte) /\ buf \in Seq(Byte) /\ tail \in Seq(Byte)
  BY DEF AllBytes
<1>1. h \in Seq(Byte) /\ Len(h) = n
  BY <1>0, Beginning
<1>2. bt \in Seq(Byte) /\ Len(bt) = Len(buf) + Len(tail)
  BY <1>0, Joined
<1>3. Len(buf) \in Nat /\ Len(tail) \in Nat /\ Len(acc) \in Nat /\ n <= Len(buf) /\ n \in Nat
  BY <1>0
<1>4. SubSeq(bt, 1, n) = h
  <2> DEFINE t == SubSeq(buf, n + 1, Len(buf))
  <2>1. t \in Seq(Byte)
    BY <1>0, <1>3, Piece
  <2>2. buf = h \o t
    BY <1>0, Cut
  <2> HIDE DEF h, t
  <2>3. bt = h \o (t \o tail)
    BY <1>0, <1>1, <2>1, <2>2, Assoc
  <2>4. t \o tail \in Seq(Byte)
    BY <1>0, <2>1, Joined
  <2> QED
    BY <1>1, <2>3, <2>4, Halves
<1> HIDE DEF h, bt
<1>5. n \in 0..Len(bt)
  BY <1>2, <1>3
<1>6. SubSeq(acc \o bt, 1, Len(acc) + n) = acc \o SubSeq(bt, 1, n)
  BY <1>0, <1>2, <1>5, Onward
<1>7. got \in Seq(Byte) /\ Len(got) = Len(acc) + n
  BY <1>0, <1>1, Joined
<1>8. s \in Seq(Byte) /\ Len(s) = Len(acc) + Len(bt)
  BY <1>0, <1>2, Joined
<1>9. got = SubSeq(s, 1, Len(got))
  BY <1>4, <1>6, <1>7
<1> HIDE DEF got, s
<1>10. Len(s) = Len(acc) + Len(buf) + Len(tail) /\ Len(got) \in 0..Len(s)
  BY <1>2, <1>3, <1>7, <1>8
<1> QED
  BY <1>7, <1>8, <1>9, <1>10 DEF got, s, h, bt

LEMMA ReadsBytes ==
    ASSUME NEW req, req.kind = "bytes", req.n \in Nat,
           NEW acc \in Seq(Byte), NEW buf \in Seq(Byte), NEW tail \in Seq(Byte),
           Partial(req, acc)
    PROVE  Reading(req, acc \o (buf \o tail), acc, buf)
<1> DEFINE s == acc \o (buf \o tail)
           n == Taken(req, acc, buf)
           got == acc \o SubSeq(buf, 1, n)
           room == req.n - Len(acc)
<1>1. Len(buf) \in Nat /\ Len(acc) \in Nat /\ Len(acc) <= req.n /\ room \in Nat
  BY DEF Partial
<1>2. n = IF room < Len(buf) THEN room ELSE Len(buf)
  BY DEF Taken
<1>3. n \in 0..Len(buf)
  <2> HIDE DEF n, room
  <2> QED
    BY <1>1, <1>2
<1>5. Ends(req, acc, buf) <=> Len(acc) + n = req.n
  BY DEF Ends
<1> HIDE DEF n
<1>4. /\ s \in Seq(Byte) /\ got \in Seq(Byte)
      /\ Len(got) = Len(acc) + n
      /\ Len(got) \in 0..Len(s)
      /\ got = SubSeq(s, 1, Len(got))
  <2>1. AllBytes(acc, buf, tail)
    BY DEF AllBytes
  <2> QED
    BY <1>3, <2>1, GotIsBeginning
<1> HIDE DEF got, s
<1>6. ASSUME Len(acc) + n = req.n
      PROVE  File!Answer(req.kind, req.n, s) = <<Value(req, got, FALSE), Len(got)>>
  <2>1. (IF req.n < Len(s) THEN req.n ELSE Len(s)) = Len(got)
    BY <1>4, <1>6
  <2>2. File!Answer(req.kind, req.n, s) =
            <<IF got = <<>> THEN File!Nil ELSE File!Bytes(got), Len(got)>>
    BY <1>4, <2>1 DEF File!Answer, File!First
  <2>3. Value(req, got, FALSE) = IF got = <<>> THEN File!Nil ELSE File!Bytes(got)
    BY DEF Value
  <2> QED
    BY <2>2, <2>3
<1>7. ASSUME Len(acc) + n # req.n PROVE n = Len(buf) /\ Partial(req, got)
  <2>1. n = Len(buf)
    BY <1>1, <1>2, <1>7
  <2>2. Len(got) <= req.n
    BY <1>1, <1>2, <1>4, <2>1
  <2> QED
    BY <2>1, <2>2 DEF Partial
<1> QED
  BY <1>3, <1>5, <1>6, <1>7 DEF Reading, n, got, s

LEMMA ReadsAll ==
    ASSUME NEW req, req.kind = "all",
           NEW acc \in Seq(Byte), NEW buf \in Seq(Byte), NEW tail \in Seq(Byte)
    PROVE  Reading(req, acc \o (buf \o tail), acc, buf)
<1>1. Taken(req, acc, buf) = Len(buf) /\ ~Ends(req, acc, buf)
  BY DEF Taken, Ends
<1>2. Len(buf) \in 0..Len(buf)
  OBVIOUS
<1> QED
  BY <1>1, <1>2 DEF Reading, Partial

\* Which bytes are in a line, but for its end.
InLine == {"D", "R"}

LEMMA LineGoesOn ==
    ASSUME NEW acc \in Seq(Byte), NEW buf \in Seq(Byte), NEW tail \in Seq(Byte),
           Only(acc, InLine)
    PROVE  LET e == File!LineEnd(buf) IN
           /\ e \in Nat /\ e >= 1
           /\ e > Len(buf) => Only(buf, InLine)
           /\ e <= Len(buf) => File!LineEnd(acc \o (buf \o tail)) = Len(acc) + e
<1> DEFINE k == File!Span(buf, InLine)
           e == File!LineEnd(buf)
<1>1. /\ k \in 0..Len(buf)
      /\ \A i \in 1..k : buf[i] \in InLine
  BY SpanFound DEF IsSpan
<1>2. e = k + 1
  BY DEF File!LineEnd, InLine
<1>3. Len(buf) \in Nat /\ Len(acc) \in Nat
  OBVIOUS
<1>4. ASSUME e > Len(buf) PROVE Only(buf, InLine)
  <2>1. k = Len(buf)
    <3> HIDE DEF k, e
    <3> QED
      BY <1>1, <1>2, <1>3, <1>4
  <2> QED
    BY <1>1, <2>1 DEF Only
<1>5. ASSUME e <= Len(buf) PROVE File!LineEnd(acc \o (buf \o tail)) = Len(acc) + e
  <2>1. k < Len(buf)
    <3> HIDE DEF k, e
    <3> QED
      BY <1>1, <1>2, <1>3, <1>5
  <2>2. File!Span(buf \o tail, InLine) = k
    BY <2>1, SpanWithin
  <2>3. buf \o tail \in Seq(Byte)
    BY Joined
  <2>4. File!Span(acc \o (buf \o tail), InLine) = Len(acc) + k
    <3>1. \A i \in 1..Len(acc) : acc[i] \in InLine
      BY DEF Only
    <3> DEFINE bt == buf \o tail
    <3> HIDE DEF bt, k
    <3>2. bt \in Seq(Byte) /\ File!Span(bt, InLine) = k
      BY <2>2, <2>3 DEF bt
    <3>3. File!Span(acc \o bt, InLine) = Len(acc) + File!Span(bt, InLine)
      BY <3>1, <3>2, SpanOnward
    <3> QED
      BY <3>2, <3>3 DEF bt
  <2>5. File!LineEnd(acc \o (buf \o tail)) = (Len(acc) + k) + 1
    BY <2>4 DEF File!LineEnd, InLine
  <2> HIDE DEF k, e
  <2> QED
    BY <1>1, <1>2, <1>3, <2>5
<1>6. e \in Nat /\ e >= 1
  <2> HIDE DEF k, e
  <2> QED
    BY <1>1, <1>2, <1>3
<1> QED
  BY <1>4, <1>5, <1>6

LEMMA ReadsLine ==
    ASSUME NEW req, req.kind \in {"line", "wholeLine"},
           NEW acc \in Seq(Byte), NEW buf \in Seq(Byte), NEW tail \in Seq(Byte),
           Partial(req, acc)
    PROVE  Reading(req, acc \o (buf \o tail), acc, buf)
<1> DEFINE s == acc \o (buf \o tail)
           n == Taken(req, acc, buf)
           got == acc \o SubSeq(buf, 1, n)
           e == File!LineEnd(buf)
<1>1. Only(acc, InLine)
  BY DEF Partial, InLine
<1>2. /\ e \in Nat /\ e >= 1
      /\ e > Len(buf) => Only(buf, InLine)
      /\ e <= Len(buf) => File!LineEnd(s) = Len(acc) + e
  BY <1>1, LineGoesOn
<1>3. /\ n = IF e < Len(buf) THEN e ELSE Len(buf)
      /\ Ends(req, acc, buf) <=> e <= Len(buf)
  BY DEF Taken, Ends
<1>4. Len(buf) \in Nat /\ Len(acc) \in Nat
  OBVIOUS
<1>5. n \in 0..Len(buf)
  <2> HIDE DEF n, e
  <2> QED
    BY <1>2, <1>3, <1>4
<1> HIDE DEF n
<1>6. /\ s \in Seq(Byte) /\ got \in Seq(Byte)
      /\ Len(got) = Len(acc) + n
      /\ Len(got) \in 0..Len(s)
      /\ got = SubSeq(s, 1, Len(got))
  <2>1. AllBytes(acc, buf, tail)
    BY DEF AllBytes
  <2> QED
    BY <1>5, <2>1, GotIsBeginning
<1> HIDE DEF s, e, got
<1>7. ASSUME e <= Len(buf)
      PROVE  File!Answer(req.kind, req.n, s) = <<Value(req, got, FALSE), Len(got)>>
  <2>1. n = e /\ File!LineEnd(s) = Len(got) /\ Len(got) >= 1
    <3>1. n = e
      BY <1>2, <1>3, <1>4, <1>7
    <3> QED
      BY <1>2, <1>4, <1>6, <1>7, <3>1
  <2>2. Len(got) <= Len(s) /\ ~(Len(got) > Len(s)) /\ got # <<>>
    BY <1>6, <2>1, EmptyString
  <2>3. CASE req.kind = "wholeLine"
    <3>1. File!Answer(req.kind, req.n, s) = <<File!Bytes(SubSeq(s, 1, Len(got))), Len(got)>>
      BY <2>1, <2>2, <2>3 DEF File!Answer, File!First
    <3>2. Value(req, got, FALSE) = File!Bytes(got)
      BY <2>2, <2>3 DEF Value
    <3> QED
      BY <1>6, <3>1, <3>2
  <2>4. CASE req.kind = "line"
    <3> DEFINE m == Len(got) - 1
    <3>1. File!Answer(req.kind, req.n, s) = <<File!Bytes(File!Chop(SubSeq(s, 1, m))), Len(got)>>
      BY <2>1, <2>2, <2>4 DEF File!Answer, File!First
    <3>2. Value(req, got, FALSE) = File!Bytes(File!Chop(SubSeq(got, 1, m)))
      BY <2>2, <2>4 DEF Value
    <3>3. m \in 0..Len(got)
      BY <1>6, <2>1
    <3> HIDE DEF m
    <3>4. SubSeq(SubSeq(s, 1, Len(got)), 1, m) = SubSeq(s, 1, m)
      BY <1>6, <3>3, Within
    <3> QED
      BY <1>6, <3>1, <3>2, <3>4
  <2> QED
    BY <2>3, <2>4
<1>8. ASSUME ~(e <= Len(buf)) PROVE n = Len(buf) /\ Partial(req, got)
  <2>1. n = Len(buf) /\ Only(buf, InLine)
    BY <1>2, <1>3, <1>4, <1>8
  <2>2. got = acc \o buf
    BY <2>1, EmptyString DEF got
  <2>3. Only(got, InLine)
    BY <1>1, <2>1, <2>2, OnlyJoined
  <2> QED
    BY <2>1, <2>3 DEF Partial, InLine
<1> QED
  BY <1>3, <1>5, <1>7, <1>8 DEF Reading, n, got, s

\* Bytes v of a number behind whitespace u, and r, which begins with what ends
\* the number or is the end of the file.
NumberStops(u, v, r) ==
    /\ u \in Seq(Byte) /\ v \in Seq(Byte) /\ r \in Seq(Byte)
    /\ Only(u, File!Whitespace)
    /\ Only(v, {"D"})
    /\ r # <<>> => (v # <<>> /\ r[1] # "D")

LEMMA NumberEnds ==
    ASSUME NEW req, req.kind = "number",
           NEW u, NEW v, NEW r, NumberStops(u, v, r)
    PROVE  /\ File!Answer(req.kind, req.n, u \o (v \o r)) =
                  <<Value(req, u \o v, FALSE), Len(u \o v)>>
           /\ Value(req, u \o v, TRUE) = Value(req, u \o v, FALSE)
<1>0. /\ u \in Seq(Byte) /\ v \in Seq(Byte) /\ r \in Seq(Byte)
      /\ Only(u, File!Whitespace) /\ Only(v, {"D"})
      /\ r # <<>> => (v # <<>> /\ r[1] # "D")
  BY DEF NumberStops
<1>1. /\ File!Span(u \o (v \o r), File!Whitespace) = Len(u)
      /\ File!Number(u \o (v \o r)) = v
  BY <1>0, NumberIs
<1>2. File!Number(u \o v) = v
  <2>1. File!Number(u \o (v \o <<>>)) = v
    BY <1>0, EmptyString, NumberIs
  <2> QED
    BY <1>0, <2>1, EmptyString
<1>3. Len(u \o v) = Len(u) + Len(v)
  BY <1>0, Joined
<1> DEFINE s == u \o (v \o r)
           got == u \o v
<1> HIDE DEF s, got
<1>4. File!Answer(req.kind, req.n, s) =
        <<IF v = <<>> THEN File!Nil ELSE File!Bytes(v), Len(u) + Len(v)>>
  BY <1>1 DEF File!Answer, s
<1>5. /\ Value(req, got, FALSE) = IF v = <<>> THEN File!Nil ELSE File!Bytes(v)
      /\ Value(req, got, TRUE) = IF v = <<>> THEN File!Nil ELSE File!Bytes(v)
  BY <1>2 DEF Value, got
<1>6. File!Answer(req.kind, req.n, s) = <<Value(req, got, FALSE), Len(u \o v)>>
  BY <1>3, <1>4, <1>5
<1>7. Value(req, got, TRUE) = Value(req, got, FALSE)
  BY DEF Value
<1> QED
  BY <1>6, <1>7 DEF s, got

\* Where a turn of read_number leaves off: whitespace b and digits w behind it,
\* and t, which begins with what ends the number, in the buffer.
NumberTurn(req, acc, buf, tail, b, w, t) ==
    LET n == Taken(req, acc, buf) IN
    /\ b \in Seq(Byte) /\ w \in Seq(Byte) /\ t \in Seq(Byte)
    /\ n \in 0..Len(buf)
    /\ n < Len(buf) <=> t # <<>>
    /\ Only(b, File!Whitespace) /\ Only(w, {"D"})
    /\ t # <<>> => (w # <<>> /\ t[1] # "D")
    /\ acc \o SubSeq(buf, 1, n) = b \o w
    /\ acc \o (buf \o tail) = b \o (w \o (t \o tail))

\* Before the first digit, whitespace is skipped.
LEMMA NumberBegins ==
    ASSUME NEW req, req.kind = "number", NEW acc \in Seq(Byte),
           NEW buf \in Seq(Byte), NEW tail \in Seq(Byte),
           Only(acc, File!Whitespace), File!Number(acc) = <<>>
    PROVE  \E b, w, t : NumberTurn(req, acc, buf, tail, b, w, t)
<1> DEFINE n == Taken(req, acc, buf)
           k == File!Span(buf, File!Whitespace)
           b1 == SubSeq(buf, 1, k)
           r == SubSeq(buf, k + 1, Len(buf))
           m == File!Span(r, {"D"})
           b2 == SubSeq(r, 1, m)
           t == SubSeq(r, m + 1, Len(r))
<1>1. /\ k \in 0..Len(buf) /\ Len(b1) = k
      /\ b1 \in Seq(Byte) /\ r \in Seq(Byte) /\ buf = b1 \o r
      /\ Only(b1, File!Whitespace)
      /\ r # <<>> => r[1] \notin File!Whitespace
  BY SpanCut
<1>2. n = k + m
  BY DEF Taken
<1> HIDE DEF n, k, b1, r
<1>3. /\ m \in 0..Len(r) /\ Len(b2) = m
      /\ b2 \in Seq(Byte) /\ t \in Seq(Byte) /\ r = b2 \o t
      /\ Only(b2, {"D"})
      /\ t # <<>> => t[1] \notin {"D"}
      /\ t = <<>> <=> m = Len(r)
  BY <1>1, SpanCut
<1>4. SubSeq(b1 \o r, 1, Len(b1) + m) = b1 \o b2
  BY <1>1, <1>3, Onward
<1> HIDE DEF m, b2, t
<1>5. b1 \in Seq(Byte) /\ r \in Seq(Byte) /\ b2 \in Seq(Byte) /\ t \in Seq(Byte)
  BY <1>1, <1>3
<1>6. n \in 0..Len(buf) /\ (n < Len(buf) <=> t # <<>>)
  <2>1. Len(buf) = k + Len(r)
    BY <1>1, <1>5, Joined
  <2>2. Len(buf) \in Nat /\ Len(r) \in Nat /\ k \in Nat /\ m \in 0..Len(r)
    BY <1>1, <1>3, <1>5
  <2> QED
    BY <1>2, <1>3, <2>1, <2>2
<1>7. acc \o SubSeq(buf, 1, n) = (acc \o b1) \o b2
  <2>1. SubSeq(buf, 1, n) = b1 \o b2
    BY <1>1, <1>2, <1>4
  <2>2. AllBytes(acc, b1, b2)
    BY <1>5 DEF AllBytes
  <2>3. (acc \o b1) \o b2 = acc \o (b1 \o b2)
    BY <2>2, AssocOf
  <2> QED
    BY <2>1, <2>3
<1>8. acc \o b1 \in Seq(Byte) /\ Only(acc \o b1, File!Whitespace)
  BY <1>1, <1>5, Joined, OnlyJoined
<1>9. acc \o (buf \o tail) = (acc \o b1) \o (b2 \o (t \o tail))
  <2>1. r \o tail \in Seq(Byte)
    BY <1>5, Joined
  <2>2. AllBytes(b1, r, tail) /\ AllBytes(b2, t, tail) /\ AllBytes(acc, b1, r \o tail)
    BY <1>5, <2>1 DEF AllBytes
  <2>3. (b1 \o r) \o tail = b1 \o (r \o tail)
    BY <2>2, AssocOf
  <2>4. (b2 \o t) \o tail = b2 \o (t \o tail)
    BY <2>2, AssocOf
  <2>5. (acc \o b1) \o (r \o tail) = acc \o (b1 \o (r \o tail))
    BY <2>2, AssocOf
  <2> QED
    BY <1>1, <1>3, <2>3, <2>4, <2>5
<1>10. ASSUME t # <<>> PROVE b2 # <<>> /\ t[1] # "D"
  <2>1. ASSUME b2 = <<>> PROVE FALSE
    <3>1. r = t
      BY <1>3, <1>5, <2>1, EmptyString
    <3>2. r[1] \in Byte
      <4>1. 1 \in 1..Len(t)
        BY <1>5, <1>10, EmptySeq
      <4> QED
        BY <1>5, <3>1, <4>1, ElementOfSeq
    <3> QED
      BY <1>1, <1>3, <1>10, <3>1, <3>2 DEF Byte, File!Whitespace
  <2> QED
    BY <1>3, <1>10, <2>1
<1>11. NumberTurn(req, acc, buf, tail, acc \o b1, b2, t)
  BY <1>3, <1>5, <1>6, <1>7, <1>8, <1>9, <1>10 DEF NumberTurn, n
<1> QED
  BY <1>11

\* After it, digits are.
LEMMA NumberGoesOn ==
    ASSUME NEW req, req.kind = "number", NEW u \in Seq(Byte), NEW v \in Seq(Byte),
           NEW buf \in Seq(Byte), NEW tail \in Seq(Byte),
           Only(u, File!Whitespace), Only(v, {"D"}), v # <<>>,
           File!Number(u \o v) = v
    PROVE  \E b, w, t : NumberTurn(req, u \o v, buf, tail, b, w, t)
<1> DEFINE acc == u \o v
           n == Taken(req, acc, buf)
           m == File!Span(buf, {"D"})
           b2 == SubSeq(buf, 1, m)
           t == SubSeq(buf, m + 1, Len(buf))
<1>0. acc \in Seq(Byte)
  BY Joined
<1>1. /\ m \in 0..Len(buf) /\ Len(b2) = m
      /\ b2 \in Seq(Byte) /\ t \in Seq(Byte) /\ buf = b2 \o t
      /\ Only(b2, {"D"})
      /\ t # <<>> => t[1] \notin {"D"}
      /\ t = <<>> <=> m = Len(buf)
  BY SpanCut
<1>2. n = m
  <2>1. n = 0 + File!Span(SubSeq(buf, 0 + 1, Len(buf)), {"D"})
    BY DEF Taken
  <2>2. SubSeq(buf, 0 + 1, Len(buf)) = buf
    BY EmptyString
  <2>3. n = 0 + m
    BY <2>1, <2>2
  <2>4. m \in Nat
    BY <1>1
  <2> HIDE DEF n, m
  <2> QED
    BY <2>3, <2>4
<1>3. acc \o SubSeq(buf, 1, n) = acc \o b2
  BY <1>2
<1> HIDE DEF n, m, b2, t
<1>4. b2 \in Seq(Byte) /\ t \in Seq(Byte) /\ t \o tail \in Seq(Byte)
  BY <1>1, Joined
<1>5. n \in 0..Len(buf) /\ (n < Len(buf) <=> t # <<>>)
  <2>1. Len(buf) \in Nat
    OBVIOUS
  <2> QED
    BY <1>1, <1>2, <2>1
<1>6. v \o b2 \in Seq(Byte) /\ Only(v \o b2, {"D"}) /\ v \o b2 # <<>>
  <2>1. v \o b2 \in Seq(Byte)
    BY <1>4, Joined
  <2>2. Only(v \o b2, {"D"})
    BY <1>1, <1>4, OnlyJoined
  <2>3. v \o b2 # <<>>
    BY <1>4, ConcatEqualIffEmpty
  <2> QED
    BY <2>1, <2>2, <2>3
<1>7. acc \o b2 = u \o (v \o b2)
  <2>1. AllBytes(u, v, b2)
    BY <1>4 DEF AllBytes
  <2> QED
    BY <2>1, AssocOf
<1>8. acc \o (buf \o tail) = u \o ((v \o b2) \o (t \o tail))
  <2>1. AllBytes(b2, t, tail) /\ AllBytes(acc, b2, t \o tail)
    BY <1>0, <1>4 DEF AllBytes
  <2>2. AllBytes(u, v \o b2, t \o tail)
    BY <1>4, <1>6 DEF AllBytes
  <2> HIDE DEF acc
  <2>3. (b2 \o t) \o tail = b2 \o (t \o tail)
    BY <2>1, AssocOf
  <2>4. (acc \o b2) \o (t \o tail) = acc \o (b2 \o (t \o tail))
    BY <2>1, AssocOf
  <2>5. (u \o (v \o b2)) \o (t \o tail) = u \o ((v \o b2) \o (t \o tail))
    BY <2>2, AssocOf
  <2> QED
    BY <1>1, <1>7, <2>3, <2>4, <2>5
<1>9. NumberTurn(req, acc, buf, tail, u, v \o b2, t)
  BY <1>1, <1>3, <1>4, <1>5, <1>6, <1>7, <1>8 DEF NumberTurn, n
<1> QED
  BY <1>9

LEMMA ReadsNumber ==
    ASSUME NEW req, req.kind = "number",
           NEW acc \in Seq(Byte), NEW buf \in Seq(Byte), NEW tail \in Seq(Byte),
           Partial(req, acc)
    PROVE  Reading(req, acc \o (buf \o tail), acc, buf)
<1> DEFINE s == acc \o (buf \o tail)
           n == Taken(req, acc, buf)
           got == acc \o SubSeq(buf, 1, n)
<1>1. PICK u, v : /\ u \in Seq(Byte) /\ v \in Seq(Byte) /\ acc = u \o v
                  /\ Only(u, File!Whitespace) /\ Only(v, {"D"})
  BY DEF Partial
<1>2. File!Number(acc) = v
  <2>1. File!Number(u \o (v \o <<>>)) = v
    BY <1>1, EmptyString, NumberIs
  <2> QED
    BY <1>1, <2>1, EmptyString
<1>3. Ends(req, acc, buf) <=> n < Len(buf)
  BY DEF Ends
<1> HIDE DEF n, got, s
<1>4. \E b, w, t : NumberTurn(req, acc, buf, tail, b, w, t)
  <2>1. CASE v = <<>>
    <3>1. acc = u
      BY <1>1, <2>1, EmptyString
    <3> QED
      BY <1>1, <1>2, <2>1, <3>1, NumberBegins
  <2>2. CASE v # <<>>
    BY <1>1, <1>2, <2>2, NumberGoesOn
  <2> QED
    BY <2>1, <2>2
<1>5. PICK b, w, t : NumberTurn(req, acc, buf, tail, b, w, t)
  BY <1>4
<1>6. /\ b \in Seq(Byte) /\ w \in Seq(Byte) /\ t \in Seq(Byte)
      /\ n \in 0..Len(buf)
      /\ n < Len(buf) <=> t # <<>>
      /\ Only(b, File!Whitespace) /\ Only(w, {"D"})
      /\ t # <<>> => (w # <<>> /\ t[1] # "D")
      /\ got = b \o w
      /\ s = b \o (w \o (t \o tail))
  BY <1>5 DEF NumberTurn, n, got, s
<1>7. ASSUME t # <<>>
      PROVE  File!Answer(req.kind, req.n, s) = <<Value(req, got, FALSE), Len(got)>>
  <2> DEFINE r == t \o tail
  <2>1. r \in Seq(Byte) /\ w # <<>> /\ r[1] # "D"
    <3>1. 1 \in 1..Len(t)
      BY <1>6, <1>7, EmptySeq
    <3> QED
      BY <1>6, <1>7, <3>1, Joined
  <2> HIDE DEF r
  <2>2. NumberStops(b, w, r)
    BY <1>6, <2>1 DEF NumberStops
  <2>3. File!Answer(req.kind, req.n, b \o (w \o r)) =
               <<Value(req, b \o w, FALSE), Len(b \o w)>>
    BY <2>2, NumberEnds
  <2> QED
    BY <1>6, <2>3 DEF r
<1>8. Partial(req, got)
  BY <1>6 DEF Partial
<1>9. n < Len(buf) \/ n = Len(buf)
  <2>1. Len(buf) \in Nat
    OBVIOUS
  <2> QED
    BY <1>6, <2>1
<1> QED
  BY <1>3, <1>6, <1>7, <1>8, <1>9 DEF Reading, n, got, s

\* One turn of the loop of any read.
LEMMA Turn ==
    ASSUME NEW req, req.kind \in Reads, req.n \in Nat,
           NEW acc \in Seq(Byte), NEW buf \in Seq(Byte), NEW tail \in Seq(Byte),
           Partial(req, acc)
    PROVE  Reading(req, acc \o (buf \o tail), acc, buf)
  BY ReadsBytes, ReadsAll, ReadsLine, ReadsNumber DEF Reads

\* At the end of the file, a read returns what it has.
LEMMA AtEnd ==
    ASSUME NEW req, req.kind \in Reads, req.n \in Nat,
           NEW acc \in Seq(Byte), Partial(req, acc)
    PROVE  File!Answer(req.kind, req.n, acc) = <<Value(req, acc, TRUE), Len(acc)>>
<1>0. Len(acc) \in Nat /\ SubSeq(acc, 1, Len(acc)) = acc
  BY EmptyString
<1>1. CASE req.kind = "bytes"
  <2>1. (IF req.n < Len(acc) THEN req.n ELSE Len(acc)) = Len(acc)
    BY <1>0, <1>1 DEF Partial
  <2>2. File!Answer(req.kind, req.n, acc) =
            <<IF acc = <<>> THEN File!Nil ELSE File!Bytes(acc), Len(acc)>>
    <3>1. File!First(acc, IF req.n < Len(acc) THEN req.n ELSE Len(acc)) = acc
      BY <1>0, <2>1 DEF File!First
    <3> QED
      BY <1>1, <3>1 DEF File!Answer
  <2>3. Value(req, acc, TRUE) = IF acc = <<>> THEN File!Nil ELSE File!Bytes(acc)
    BY <1>1 DEF Value
  <2> QED
    BY <2>2, <2>3
<1>2. CASE req.kind = "all"
  <2>1. File!Answer(req.kind, req.n, acc) = <<File!Bytes(acc), Len(acc)>>
    BY <1>2 DEF File!Answer
  <2>2. Value(req, acc, TRUE) = File!Bytes(acc)
    BY <1>2 DEF Value
  <2> QED
    BY <2>1, <2>2
<1>3. CASE req.kind \in {"line", "wholeLine"}
  <2>1. IsSpan(acc, InLine, Len(acc))
    <3>1. \A i \in 1..Len(acc) : acc[i] \in InLine
      BY <1>3 DEF Partial, Only, InLine
    <3>2. Len(acc) \in 0..Len(acc) /\ ~(Len(acc) < Len(acc))
      BY <1>0
    <3> QED
      BY <3>1, <3>2 DEF IsSpan
  <2>2. File!LineEnd(acc) = Len(acc) + 1
    BY <2>1, SpanIs DEF File!LineEnd, InLine
  <2>3. File!LineEnd(acc) > Len(acc) /\ ~(File!LineEnd(acc) <= Len(acc))
    BY <1>0, <2>2
  <2>4. File!Answer(req.kind, req.n, acc) =
            <<IF acc = <<>> THEN File!Nil ELSE File!Bytes(acc), Len(acc)>>
    BY <1>3, <2>3 DEF File!Answer
  <2>5. Value(req, acc, TRUE) = IF acc = <<>> THEN File!Nil ELSE File!Bytes(acc)
    BY <1>3 DEF Value
  <2> QED
    BY <2>4, <2>5
<1>4. CASE req.kind = "number"
  <2>1. PICK u, v : /\ u \in Seq(Byte) /\ v \in Seq(Byte) /\ acc = u \o v
                    /\ Only(u, File!Whitespace) /\ Only(v, {"D"})
    BY <1>4 DEF Partial
  <2>2. <<>> \in Seq(Byte) /\ v \o <<>> = v
    BY <2>1, EmptyString
  <2>3. NumberStops(u, v, <<>>)
    BY <2>1, <2>2 DEF NumberStops
  <2>4. /\ File!Answer(req.kind, req.n, u \o (v \o <<>>)) =
               <<Value(req, u \o v, FALSE), Len(u \o v)>>
        /\ Value(req, u \o v, TRUE) = Value(req, u \o v, FALSE)
    BY <1>4, <2>3, NumberEnds
  <2> QED
    BY <2>1, <2>2, <2>4
<1> QED
  BY <1>1, <1>2, <1>3, <1>4 DEF Reads

\* --- What a step of the file does to its bytes -----------------------------

\* The bytes before k + n are those before k, and n more.
LEMMA Extend ==
    ASSUME NEW q \in Seq(Byte), NEW k \in 0..Len(q), NEW n \in 0..Len(q) - k
    PROVE  /\ SubSeq(q, k + 1, k + n) \in Seq(Byte)
           /\ Len(SubSeq(q, k + 1, k + n)) = n
           /\ SubSeq(q, 1, k + n) = SubSeq(q, 1, k) \o SubSeq(q, k + 1, k + n)
<1> DEFINE a == SubSeq(q, 1, k)
           b == SubSeq(q, k + 1, Len(q))
           m == k + n
           x == SubSeq(q, k + 1, m)
           y == SubSeq(b, 1, n)
<1>1. Len(q) \in Nat /\ k \in Nat /\ n \in Nat /\ m \in 0..Len(q) /\ k <= m
  OBVIOUS
<1>2. a \in Seq(Byte) /\ Len(a) = k
  BY Beginning
<1>3. /\ b \in Seq(Byte) /\ Len(b) = IF k <= Len(q) THEN Len(q) - k ELSE 0
      /\ \A i \in 1..Len(q) - k : b[i] = q[k + i]
  BY <1>1, Piece
<1>4. a \o b = q
  BY Cut
<1> HIDE DEF m
<1>5. /\ x \in Seq(Byte) /\ Len(x) = IF k <= m THEN m - k ELSE 0
      /\ \A i \in 1..m - k : x[i] = q[k + i]
  BY <1>1, Piece
<1> HIDE DEF a, b, x
<1>6. Len(b) = Len(q) - k /\ n \in 0..Len(b) /\ Len(x) = n /\ m - k = n
  BY <1>1, <1>3, <1>5 DEF m
<1>7. y \in Seq(Byte) /\ Len(y) = n /\ \A i \in 1..n : y[i] = b[i]
  BY <1>3, <1>6, Beginning
<1> HIDE DEF y
<1>8. \A i \in 1..n : x[i] = y[i]
  <2> SUFFICES ASSUME NEW i \in 1..n PROVE x[i] = y[i]
    OBVIOUS
  <2>1. i \in 1..m - k /\ i \in 1..Len(q) - k
    BY <1>1, <1>6
  <2> QED
    BY <1>3, <1>5, <1>7, <2>1
<1>9. x = y
  BY <1>5, <1>6, <1>7, <1>8, SeqEqual
<1>10. SubSeq(a \o b, 1, Len(a) + n) = a \o y
  BY <1>2, <1>3, <1>6, Onward DEF y
<1> QED
  BY <1>2, <1>4, <1>5, <1>6, <1>9, <1>10 DEF a, x, m

\* A file q up to position c: what is behind the program, what a call holds,
\* the buffer; and the rest of the file.
Layout(q, c, before, acc, buf, after) ==
    /\ before \in Seq(Byte) /\ acc \in Seq(Byte)
    /\ buf \in Seq(Byte) /\ after \in Seq(Byte)
    /\ q = before \o (acc \o (buf \o after))
    /\ c = Len(before) + Len(acc) + Len(buf)

LEMMA LayoutMeans ==
    ASSUME NEW q, NEW c, NEW before, NEW acc, NEW buf, NEW after,
           Layout(q, c, before, acc, buf, after)
    PROVE  /\ q \in Seq(Byte) /\ c \in 0..Len(q) /\ Len(before) \in 0..c
           /\ Len(before) = c - Len(buf) - Len(acc)
           /\ File!From(q, Len(before)) = acc \o (buf \o after)
           /\ File!From(q, c) = after
           /\ Len(after) = Len(q) - c
<1>1. /\ before \in Seq(Byte) /\ acc \in Seq(Byte)
      /\ buf \in Seq(Byte) /\ after \in Seq(Byte)
      /\ q = before \o (acc \o (buf \o after))
      /\ c = Len(before) + Len(acc) + Len(buf)
  BY DEF Layout
<1>2. /\ Len(before) \in Nat /\ Len(acc) \in Nat
      /\ Len(buf) \in Nat /\ Len(after) \in Nat
  BY <1>1, EmptyString
<1> DEFINE t == buf \o after
<1>3. t \in Seq(Byte) /\ Len(t) = Len(buf) + Len(after)
  BY <1>1, Joined
<1> HIDE DEF t
<1> DEFINE u == acc \o t
<1>4. u \in Seq(Byte) /\ Len(u) = Len(acc) + Len(t)
  BY <1>1, <1>3, Joined
<1> HIDE DEF u
<1>5. q = before \o u
  BY <1>1 DEF t, u
<1>6. q \in Seq(Byte) /\ Len(q) = Len(before) + Len(u)
  BY <1>1, <1>4, <1>5, Joined
<1>7. /\ c \in 0..Len(q) /\ Len(before) \in 0..c
      /\ Len(before) = c - Len(buf) - Len(acc)
      /\ Len(after) = Len(q) - c
  BY <1>1, <1>2, <1>3, <1>4, <1>6
<1>8. SubSeq(q, Len(before) + 1, Len(q)) = u
  <2>1. SubSeq(before \o u, Len(before) + 1, Len(before \o u)) = u
    BY <1>1, <1>4, Halves
  <2> QED
    BY <1>5, <2>1
<1>9. SubSeq(q, c + 1, Len(q)) = after
  <2> DEFINE a == before \o acc
             h == a \o buf
  <2>1. a \in Seq(Byte) /\ Len(a) = Len(before) + Len(acc)
    BY <1>1, Joined
  <2>2. before \o u = a \o t
    BY <1>1, <1>3, Assoc DEF u
  <2> HIDE DEF a
  <2>3. h \in Seq(Byte) /\ Len(h) = Len(a) + Len(buf)
    BY <1>1, <2>1, Joined
  <2>4. a \o t = h \o after
    BY <1>1, <2>1, Assoc DEF t
  <2> HIDE DEF h
  <2>5. SubSeq(h \o after, Len(h) + 1, Len(h \o after)) = after
    BY <1>1, <2>3, Halves
  <2>6. q = h \o after /\ Len(h) = c
    BY <1>1, <1>5, <2>1, <2>2, <2>3, <2>4
  <2> QED
    BY <2>5, <2>6
<1> QED
  BY <1>6, <1>7, <1>8, <1>9 DEF t, u, File!From

LEMMA LayoutAhead ==
    ASSUME NEW q, NEW c, NEW before, NEW acc, NEW buf, NEW after,
           Layout(q, c, before, acc, buf, after)
    PROVE  File!From(q, Len(before)) = acc \o (buf \o after)
  BY LayoutMeans

\* Every position divides the file.
LEMMA LayoutAt ==
    ASSUME NEW q \in Seq(Byte), NEW c \in 0..Len(q)
    PROVE  Layout(q, c, SubSeq(q, 1, c), <<>>, <<>>, SubSeq(q, c + 1, Len(q)))
<1> DEFINE a == SubSeq(q, 1, c)
           b == SubSeq(q, c + 1, Len(q))
<1>1. c \in Nat /\ Len(q) \in 0..Len(q)
  OBVIOUS
<1>2. a \in Seq(Byte) /\ Len(a) = c /\ b \in Seq(Byte) /\ q = a \o b
  BY <1>1, Beginning, Piece, Cut
<1> HIDE DEF a, b
<1>3. <<>> \in Seq(Byte) /\ <<>> \o (<<>> \o b) = b /\ Len(<<>>) = 0
  BY <1>2, EmptyString
<1>4. c = Len(a) + Len(<<>>) + Len(<<>>)
  BY <1>1, <1>2, <1>3
<1>5. Layout(q, c, a, <<>>, <<>>, b)
  BY <1>2, <1>3, <1>4 DEF Layout
<1> QED
  BY <1>5 DEF a, b

\* What is read ahead may be held or buffered.
LEMMA Regrouped ==
    ASSUME NEW q, NEW c, NEW before, NEW acc, NEW buf, NEW after,
           Layout(q, c, before, acc, buf, after),
           NEW a \in Seq(Byte), NEW r \in Seq(Byte), a \o r = acc \o buf
    PROVE  Layout(q, c, before, a, r, after)
<1>1. /\ before \in Seq(Byte) /\ acc \in Seq(Byte)
      /\ buf \in Seq(Byte) /\ after \in Seq(Byte)
      /\ q = before \o (acc \o (buf \o after))
      /\ c = Len(before) + Len(acc) + Len(buf)
  BY DEF Layout
<1>2. acc \o (buf \o after) = (acc \o buf) \o after
  BY <1>1, Assoc
<1>3. a \o (r \o after) = (a \o r) \o after
  BY <1>1, Assoc
<1>4. Len(a \o r) = Len(a) + Len(r) /\ Len(acc \o buf) = Len(acc) + Len(buf)
  BY <1>1, Joined
<1>5. /\ Len(before) \in Nat /\ Len(acc) \in Nat /\ Len(buf) \in Nat
      /\ Len(a) \in Nat /\ Len(r) \in Nat
  BY <1>1, EmptyString
<1>6. Len(a) + Len(r) = Len(acc) + Len(buf)
  BY <1>4
<1>7. c = Len(before) + Len(a) + Len(r)
  <2>1. c = Len(before) + Len(acc) + Len(buf)
    BY <1>1
  <2> QED
    BY <1>5, <1>6, <2>1
<1> QED
  BY <1>1, <1>2, <1>3, <1>7 DEF Layout

\* What a call held is behind the program once the call is over.
LEMMA Released ==
    ASSUME NEW q, NEW c, NEW before, NEW acc, NEW buf, NEW after,
           Layout(q, c, before, acc, buf, after)
    PROVE  Layout(q, c, before \o acc, <<>>, buf, after)
<1>1. /\ before \in Seq(Byte) /\ acc \in Seq(Byte)
      /\ buf \in Seq(Byte) /\ after \in Seq(Byte)
      /\ q = before \o (acc \o (buf \o after))
      /\ c = Len(before) + Len(acc) + Len(buf)
  BY DEF Layout
<1> DEFINE t == buf \o after
           h == before \o acc
<1>2. t \in Seq(Byte) /\ <<>> \o t = t /\ <<>> \in Seq(Byte) /\ Len(<<>>) = 0
  BY <1>1, Joined, EmptyString
<1>3. h \in Seq(Byte) /\ Len(h) = Len(before) + Len(acc)
  BY <1>1, Joined
<1>4. q = h \o t
  BY <1>1, <1>2, Assoc
<1>5. Len(before) \in Nat /\ Len(acc) \in Nat /\ Len(buf) \in Nat
  BY <1>1, EmptyString
<1> HIDE DEF h, t
<1>6. c = Len(h) + Len(<<>>) + Len(buf)
  BY <1>1, <1>2, <1>3, <1>5
<1>7. q = h \o (<<>> \o t)
  BY <1>2, <1>4
<1>8. Layout(q, c, h, <<>>, buf, after)
  BY <1>1, <1>2, <1>3, <1>6, <1>7 DEF Layout, t
<1> QED
  BY <1>8 DEF h

\* The system gives n bytes more.
LEMMA Refilled ==
    ASSUME NEW q, NEW c, NEW before, NEW acc, NEW after,
           Layout(q, c, before, acc, <<>>, after), NEW n \in 0..Len(q) - c
    PROVE  /\ Layout(q, c + n, before, acc, SubSeq(q, c + 1, c + n),
                      SubSeq(after, n + 1, Len(after)))
           /\ Len(SubSeq(q, c + 1, c + n)) = n
<1> DEFINE x == SubSeq(q, c + 1, c + n)
           y == SubSeq(after, 1, n)
           z == SubSeq(after, n + 1, Len(after))
<1>1. /\ before \in Seq(Byte) /\ acc \in Seq(Byte) /\ after \in Seq(Byte)
      /\ q = before \o (acc \o (<<>> \o after))
      /\ c = Len(before) + Len(acc) + Len(<<>>)
  BY DEF Layout
<1>2. /\ q \in Seq(Byte) /\ c \in 0..Len(q) /\ SubSeq(q, c + 1, Len(q)) = after
      /\ Len(after) = Len(q) - c
  BY LayoutMeans DEF File!From
<1>3. Len(q) \in Nat /\ n \in 0..Len(after) /\ c \in Nat
  BY <1>2
<1>4. x \in Seq(Byte) /\ Len(x) = n /\ SubSeq(q, 1, c + n) = SubSeq(q, 1, c) \o x
  BY <1>2, Extend
<1>5. /\ y \in Seq(Byte) /\ Len(y) = n /\ z \in Seq(Byte) /\ y \o z = after
      /\ \A i \in 1..n : y[i] = after[i]
  <2>1. y \in Seq(Byte) /\ Len(y) = n /\ \A i \in 1..n : y[i] = after[i]
    BY <1>1, <1>3, Beginning
  <2>2. Len(after) \in 0..Len(after) /\ n \in Nat
    BY <1>1, <1>3
  <2>3. z \in Seq(Byte)
    BY <1>1, <2>2, Piece
  <2>4. y \o z = after
    BY <1>1, <1>3, Cut
  <2> QED
    BY <2>1, <2>3, <2>4
<1>6. x = y
  <2>1. c + n \in 0..Len(q) /\ Len(q) \in 0..Len(q) /\ n \in Nat
    BY <1>2, <1>3
  <2>2. \A i \in 1..(c + n) - c : x[i] = q[c + i]
    BY <1>2, <1>3, <2>1, Piece
  <2>3. \A i \in 1..Len(q) - c : after[i] = q[c + i]
    <3>1. \A i \in 1..Len(q) - c : SubSeq(q, c + 1, Len(q))[i] = q[c + i]
      BY <1>2, <1>3, <2>1, Piece
    <3> QED
      BY <1>2, <3>1
  <2> HIDE DEF x, y
  <2>4. \A i \in 1..n : x[i] = y[i]
    <3> SUFFICES ASSUME NEW i \in 1..n PROVE x[i] = y[i]
      OBVIOUS
    <3>1. i \in 1..(c + n) - c /\ i \in 1..Len(q) - c
      BY <1>2, <1>3, <2>1
    <3> QED
      BY <1>5, <2>2, <2>3, <3>1
  <2> QED
    BY <1>4, <1>5, <2>4, SeqEqual
<1> HIDE DEF x, y, z
<1>7. x \o z = after /\ <<>> \o after = after /\ Len(<<>>) = 0
  BY <1>1, <1>5, <1>6, EmptyString
<1>8. q = before \o (acc \o (x \o z))
  BY <1>1, <1>7
<1>9. Len(before) \in Nat /\ Len(acc) \in Nat /\ n \in Nat
  BY <1>1, <1>3, EmptyString
<1>10. c + n = Len(before) + Len(acc) + Len(x)
  BY <1>1, <1>4, <1>7, <1>9
<1>11. Layout(q, c + n, before, acc, x, z)
  BY <1>1, <1>4, <1>5, <1>8, <1>10 DEF Layout
<1> QED
  BY <1>4, <1>11 DEF x, z

\* What one turn of a read loop does with the buffer: the read is answered as
\* the bytes ahead say, or it has taken the whole buffer.
TurnDone(req, acc, buf, tail, got) ==
    /\ got \in Seq(Byte) /\ readBuf' \in Seq(Byte)
    /\ got \o readBuf' = acc \o buf
    /\ Len(got) + Len(readBuf') = Len(acc) + Len(buf)
    /\ \/ /\ op' = NoOp
          /\ File!Answer(req.kind, req.n, acc \o (buf \o tail)) = <<result', Len(got)>>
       \/ /\ op' = [stage |-> "fill", acc |-> got, direct |-> <<>>, keep |-> <<>>]
          /\ result' = File!None
          /\ readBuf' = <<>> /\ got = acc \o buf /\ Partial(req, got)

LEMMA Scanned ==
    ASSUME NEW req, req.kind \in Reads, req.n \in Nat,
           NEW acc \in Seq(Byte), NEW buf \in Seq(Byte), NEW tail \in Seq(Byte),
           Partial(req, acc), Scan(req, acc, buf)
    PROVE  \E got \in Seq(Byte) : TurnDone(req, acc, buf, tail, got)
<1> DEFINE s == acc \o (buf \o tail)
           n == Taken(req, acc, buf)
           a == SubSeq(buf, 1, n)
           b == SubSeq(buf, n + 1, Len(buf))
           got == acc \o a
<1>1. Reading(req, s, acc, buf)
  BY Turn
<1>2. /\ n \in 0..Len(buf)
      /\ Ends(req, acc, buf) =>
             File!Answer(req.kind, req.n, s) = <<Value(req, got, FALSE), Len(got)>>
      /\ ~Ends(req, acc, buf) => n = Len(buf) /\ Partial(req, got)
  BY <1>1 DEF Reading
<1>3. /\ readBuf' = b
      /\ Ends(req, acc, buf) => op' = NoOp /\ result' = Value(req, got, FALSE)
      /\ ~Ends(req, acc, buf) =>
             /\ op' = [NoOp EXCEPT !.stage = "fill", !.acc = got]
             /\ result' = File!None
  BY DEF Scan, Return
<1> HIDE DEF n, s
<1>4. Len(buf) \in Nat /\ n \in Nat /\ Len(buf) \in 0..Len(buf)
  BY <1>2, EmptyString
<1>5. a \in Seq(Byte) /\ Len(a) = n
  BY <1>2, Beginning
<1>6. b \in Seq(Byte)
  BY <1>4, Piece
<1>7. a \o b = buf
  BY <1>2, Cut
<1>8. n = Len(buf) => a = buf /\ b = <<>>
  <2> SUFFICES ASSUME n = Len(buf) PROVE a = buf /\ b = <<>>
    OBVIOUS
  <2>1. a = buf
    BY EmptyString
  <2>2. Len(b) = IF n <= Len(buf) THEN Len(buf) - n ELSE 0
    BY <1>4, Piece
  <2> HIDE DEF a, b
  <2>3. Len(b) = 0
    BY <1>4, <2>2
  <2> QED
    BY <1>6, <2>1, <2>3, EmptyString
<1> HIDE DEF a, b
<1>9. got \in Seq(Byte)
  BY <1>5, Joined
<1>10. got \o b = acc \o buf
  <2>1. (acc \o a) \o b = acc \o (a \o b)
    BY <1>5, <1>6, Assoc
  <2> QED
    BY <1>7, <2>1
<1> HIDE DEF got
<1>11. Len(got) + Len(b) = Len(acc) + Len(buf)
  <2>1. Len(got \o b) = Len(got) + Len(b) /\ Len(acc \o buf) = Len(acc) + Len(buf)
    BY <1>6, <1>9, Joined
  <2> QED
    BY <1>10, <2>1
<1>12. CASE Ends(req, acc, buf)
  <2>1. op' = NoOp /\ File!Answer(req.kind, req.n, s) = <<result', Len(got)>>
    BY <1>2, <1>3, <1>12 DEF got
  <2> QED
    BY <1>3, <1>6, <1>9, <1>10, <1>11, <2>1 DEF s, TurnDone
<1>13. CASE ~Ends(req, acc, buf)
  <2>1. /\ op' = [stage |-> "fill", acc |-> got, direct |-> <<>>, keep |-> <<>>]
        /\ result' = File!None
    BY <1>3, <1>13 DEF NoOp, got
  <2>2. readBuf' = <<>> /\ got = acc \o buf /\ Partial(req, got)
    BY <1>2, <1>3, <1>8, <1>13 DEF got
  <2> QED
    BY <1>3, <1>6, <1>9, <1>10, <1>11, <2>1, <2>2 DEF TurnDone
<1> QED
  BY <1>12, <1>13

\* The last newline of d exists, so Plan cuts d in two.
LEMMA LastNewlineIs ==
    ASSUME NEW d \in Seq(Byte)
    PROVE  LastNewline(d) \in 0..Len(d)
<1> DEFINE Ok(n) == /\ n = 0 \/ d[n] = "N"
                    /\ \A m \in n + 1..Len(d) : d[m] # "N"
<1>0. Len(d) \in Nat
  OBVIOUS
<1>1. \E n \in 0..Len(d) : Ok(n)
  <2> DEFINE U == {n \in 0..Len(d) : n = Len(d) \/ d[Len(d) - n] = "N"}
  <2>1. U \subseteq Nat /\ U # {}
    BY <1>0
  <2>2. PICK k \in U : \A m \in U : k <= m
    BY <2>1, Smallest
  <2> DEFINE n == Len(d) - k
  <2>3. n \in 0..Len(d) /\ (n = 0 \/ d[n] = "N")
    BY <1>0, <2>2
  <2>4. ASSUME NEW m \in n + 1..Len(d), d[m] = "N" PROVE FALSE
    <3> DEFINE j == Len(d) - m
    <3>1. j \in 0..Len(d) /\ Len(d) - j = m /\ ~(k <= j)
      BY <1>0, <2>2, <2>4
    <3>2. j \in U
      BY <2>4, <3>1
    <3> QED
      BY <2>2, <3>1, <3>2
  <2> QED
    BY <2>3, <2>4
<1> QED
  BY <1>1 DEF LastNewline

LEMMA PlanSplits ==
    ASSUME NEW d \in Seq(Byte)
    PROVE  /\ Plan(d).direct \in Seq(Byte) /\ Plan(d).keep \in Seq(Byte)
           /\ Plan(d).direct \o Plan(d).keep = d
           /\ Len(Plan(d).direct) + Len(Plan(d).keep) = Len(d)
<1> DEFINE n == LastNewline(d)
           a == SubSeq(d, 1, n)
           b == SubSeq(d, n + 1, Len(d))
<1>1. n \in 0..Len(d) /\ Len(d) \in 0..Len(d) /\ n \in Nat
  BY LastNewlineIs
<1>2. \/ Plan(d) = [direct |-> d, keep |-> <<>>]
      \/ Plan(d) = [direct |-> <<>>, keep |-> d]
      \/ Plan(d) = [direct |-> a, keep |-> b]
  BY DEF Plan
<1> HIDE DEF n
<1>3. a \in Seq(Byte) /\ b \in Seq(Byte) /\ a \o b = d
  BY <1>1, Beginning, Piece, Cut
<1> HIDE DEF a, b
<1>4. /\ Plan(d).direct \in Seq(Byte) /\ Plan(d).keep \in Seq(Byte)
      /\ Plan(d).direct \o Plan(d).keep = d
  <2>1. <<>> \in Seq(Byte) /\ d \o <<>> = d /\ <<>> \o d = d
    BY EmptyString
  <2> HIDE DEF Byte
  <2>2. CASE Plan(d) = [direct |-> d, keep |-> <<>>]
    BY <2>1, <2>2
  <2>3. CASE Plan(d) = [direct |-> <<>>, keep |-> d]
    BY <2>1, <2>3
  <2>4. CASE Plan(d) = [direct |-> a, keep |-> b]
    BY <1>3, <2>4
  <2> QED
    BY <1>2, <2>2, <2>3, <2>4
<1>5. Len(Plan(d).direct \o Plan(d).keep) = Len(Plan(d).direct) + Len(Plan(d).keep)
  BY <1>4, Joined
<1> QED
  BY <1>4, <1>5

\* --- The bytes of a file that has not failed -------------------------------

Strings ==
    /\ disk \in Seq(Byte) /\ readBuf \in Seq(Byte)
    /\ writeBuf \in Seq(Byte) /\ inflight \in Seq(Byte)
    /\ op.acc \in Seq(Byte) /\ op.direct \in Seq(Byte) /\ op.keep \in Seq(Byte)
    /\ cursor \in 0..Len(disk)

\* Bytes wait to be written only while the program writes, and have been read
\* ahead only while it reads.
Turns ==
    /\ turn # "write" => Pending = <<>>
    /\ turn # "read" => readBuf = <<>> /\ op.acc = <<>>

\* What has been read ahead is what the file has before the system's position.
ReadAhead == \E before, after : Layout(disk, cursor, before, op.acc, readBuf, after)

\* Which calls hold bytes of their own.
Holding ==
    /\ op.acc # <<>> => \/ op.stage = "fill"
                        \/ op.stage = "last" /\ request.kind \in Seeks
    /\ op.direct # <<>> \/ op.keep # <<>> => op.stage = "out" /\ request.kind = "write"
    /\ busy = "writing" => inflight # <<>>

\* A read that waits has emptied the buffer; a write has more to write than it
\* holds back; a seek stays inside the file.
InProgress ==
    /\ op.stage = "fill" =>
         /\ turn = "read" /\ readBuf = <<>>
         /\ request.n \in Nat /\ Partial(request, op.acc)
    /\ op.stage = "out" /\ request.kind = "write" =>
         /\ turn = "write" /\ request.data \in Seq(Byte)
         /\ Len(op.direct) + Len(op.keep) <= Len(request.data)
    /\ op.stage # "none" /\ request.kind \in Seeks =>
         /\ request.n \in Int
         /\ request.kind = "set" => request.n <= Len(Content)
         /\ request.kind = "cur" => Position + request.n <= Len(Content)
         /\ request.kind = "end" => request.n <= 0
         /\ op.stage = "last" => readBuf = <<>>

\* A failure to write, a repetition and a dropped handle end the promise of
\* ByteFile.
Lost == broken \/ repeated \/ request.kind = "drop"

Sound == Strings /\ Turns /\ ReadAhead /\ Holding /\ InProgress

\* A record of request's shape.
RequestShape == request = [kind |-> request.kind, n |-> request.n, data |-> request.data]

ByteInv == /\ RequestShape
           /\ request.kind = "drop" => ~open
           /\ ~Lost => Sound

\* What a step is to ByteFile.
Promised == File!Next \/ UNCHANGED File!vars

\* --- What the program sees -------------------------------------------------

LEMMA Views ==
    /\ Pending = <<>> =>
         Content = disk /\ Position = cursor - Len(readBuf) - Len(op.acc)
    /\ Pending # <<>> =>
         Content = Overlay(disk, WriteAt, Pending) /\ Position = WriteAt + Len(Pending)
  BY DEF Content, Position

LEMMA PendingIs ==
    ASSUME Strings
    PROVE  /\ Pending \in Seq(Byte)
           /\ Len(Pending) = Len(inflight) + Len(writeBuf)
           /\ inflight = <<>> => Pending = writeBuf
           /\ writeBuf = <<>> => Pending = inflight
           /\ Pending = <<>> => inflight = <<>> /\ writeBuf = <<>>
           /\ WriteAt \in 0..Len(disk)
<1>1. /\ Pending \in Seq(Byte)
      /\ Len(Pending) = Len(inflight) + Len(writeBuf)
  BY Joined DEF Strings, Pending
<1>2. /\ inflight = <<>> => Pending = writeBuf
      /\ writeBuf = <<>> => Pending = inflight
  BY EmptyString DEF Strings, Pending
<1>3. Pending = <<>> => inflight = <<>> /\ writeBuf = <<>>
  BY ConcatEqualIffEmpty DEF Strings, Pending
<1>4. WriteAt \in 0..Len(disk)
  BY DEF Strings, WriteAt
<1> QED
  BY <1>1, <1>2, <1>3, <1>4

\* More bytes after those that wait.
LEMMA Appended ==
    ASSUME Strings, readBuf = <<>>, op.acc = <<>>,
           NEW d \in Seq(Byte), d # <<>>,
           UNCHANGED osVars, Pending' = Pending \o d
    PROVE  LET at == IF append THEN Len(Content) ELSE Position IN
           /\ Content' = File!Overlay(Content, at, d)
           /\ Position' = at + Len(d)
<1> DEFINE at == IF append THEN Len(Content) ELSE Position
           p == WriteAt
           s == Pending
<1>1. /\ s \in Seq(Byte) /\ p \in 0..Len(disk) /\ disk \in Seq(Byte) /\ Len(disk) \in Nat
  BY PendingIs DEF Strings
<1>2. WriteAt' = p
  BY DEF WriteAt, osVars
<1>3. s \o d # <<>> /\ Len(s \o d) = Len(s) + Len(d)
  BY <1>1, Joined, ConcatEqualIffEmpty
<1>4. Content' = Overlay(disk, p, s \o d) /\ Position' = p + Len(s \o d)
  BY <1>2, <1>3 DEF Content, Position, osVars
<1>5. Len(s) \in Nat /\ Len(d) \in Nat /\ p \in Nat /\ Len(<<>>) = 0 /\ cursor \in Nat
  BY <1>1, EmptyString DEF Strings
<1>6. at = p + Len(s)
  <2>1. CASE s = <<>>
    <3>1. Content = disk /\ Position = cursor - Len(<<>>) - Len(<<>>)
      BY <2>1, Views
    <3>2. p = IF append THEN Len(disk) ELSE cursor
      BY DEF WriteAt
    <3>3. Position = cursor /\ Len(s) = 0
      BY <1>5, <2>1, <3>1
    <3> HIDE DEF s, p
    <3>4. at = p
      BY <3>1, <3>2, <3>3
    <3> QED
      BY <1>5, <3>3, <3>4
  <2>2. CASE s # <<>>
    <3>1. Content = Overlay(disk, p, s) /\ Position = p + Len(s)
      BY <2>2, Views
    <3>2. Len(Overlay(disk, p, s)) = IF p + Len(s) <= Len(disk) THEN Len(disk)
                                     ELSE p + Len(s)
      BY <1>1, Overlaid
    <3>3. CASE append
      <4>1. p = Len(disk)
        BY <3>3 DEF WriteAt
      <4> HIDE DEF p, s
      <4>2. Len(Content) = p + Len(s)
        <5>1. CASE Len(s) = 0
          BY <1>1, <1>5, <3>1, <3>2, <4>1, <5>1
        <5>2. CASE Len(s) > 0
          BY <1>1, <1>5, <3>1, <3>2, <4>1, <5>2
        <5> QED
          BY <1>5, <5>1, <5>2
      <4> QED
        BY <3>3, <4>2
    <3>4. CASE ~append
      BY <3>1, <3>4
    <3> QED
      BY <3>3, <3>4
  <2> QED
    BY <2>1, <2>2
<1>7. Overlay(Content, p + Len(s), d) = Overlay(disk, p, s \o d)
  <2>1. CASE s = <<>>
    <3>1. Content = disk /\ s \o d = d /\ Len(s) = 0
      BY <2>1, Views, EmptyString
    <3> HIDE DEF s, p
    <3> QED
      BY <1>5, <3>1
  <2>2. CASE s # <<>>
    <3>1. Content = Overlay(disk, p, s)
      BY <2>2, Views
    <3> QED
      BY <1>1, <3>1, OverlayTwice
  <2> QED
    BY <2>1, <2>2
<1> HIDE DEF s, p, at
<1>8. Position' = at + Len(d)
  BY <1>3, <1>4, <1>5, <1>6
<1>9. Content' = Overlay(Content, at, d)
  BY <1>4, <1>6, <1>7
<1> QED
  BY <1>8, <1>9 DEF at, Overlay, File!Overlay, File!First, File!From

\* --- Steps of a read -------------------------------------------------------

\* A program that reads is behind what its call holds and what is buffered.
LEMMA BytesAhead ==
    ASSUME Strings, Pending = <<>>,
           NEW before, NEW after, Layout(disk, cursor, before, op.acc, readBuf, after)
    PROVE  Content = disk /\ Position = Len(before)
  BY Views, LayoutMeans

\* A turn of the loop of a read that has acc, with buf in the buffer, answers
\* as ByteFile does or consumes the buffer.
Turned ==
    LET answer == File!Answer(request'.kind, request'.n, File!From(Content, Position))
    IN /\ readBuf' \in Seq(Byte) /\ op'.acc \in Seq(Byte)
       /\ op'.direct = <<>> /\ op'.keep = <<>>
       /\ ReadAhead'
       /\ Content' = Content
       /\ \/ /\ op' = NoOp
             /\ result' = answer[1]
             /\ Position' = Position + answer[2]
          \/ /\ op'.stage = "fill" /\ readBuf' = <<>>
             /\ Partial(request', op'.acc)
             /\ result' = File!None
             /\ Position' = Position

LEMMA ReadTurn ==
    ASSUME NEW before, NEW acc, NEW buf, NEW after,
           Layout(disk, cursor', before, acc, buf, after), disk' = disk,
           Content = disk, Position = Len(before), Pending' = <<>>,
           request'.kind \in Reads, request'.n \in Nat, Partial(request', acc),
           Scan(request', acc, buf)
    PROVE  Turned
<1>0. /\ before \in Seq(Byte) /\ acc \in Seq(Byte)
      /\ buf \in Seq(Byte) /\ after \in Seq(Byte)
  BY DEF Layout
<1> DEFINE c == cursor'
           answer == File!Answer(request'.kind, request'.n, File!From(Content, Position))
<1>1. /\ disk \in Seq(Byte) /\ c \in 0..Len(disk)
      /\ Len(before) = c - Len(buf) - Len(acc)
      /\ File!From(disk, Len(before)) = acc \o (buf \o after)
  <2>1. File!From(disk, Len(before)) = acc \o (buf \o after)
    BY LayoutAhead
  <2> QED
    BY <2>1, LayoutMeans
<1>2. File!From(Content, Position) = acc \o (buf \o after)
  BY <1>1
<1>3. PICK got : TurnDone(request', acc, buf, after, got)
  BY <1>0, Scanned
<1>4. /\ got \in Seq(Byte) /\ readBuf' \in Seq(Byte)
      /\ got \o readBuf' = acc \o buf
      /\ Len(got) + Len(readBuf') = Len(acc) + Len(buf)
  BY <1>3 DEF TurnDone
<1>5. \/ op' = NoOp /\ answer = <<result', Len(got)>>
      \/ /\ op' = [stage |-> "fill", acc |-> got, direct |-> <<>>, keep |-> <<>>]
         /\ result' = File!None
         /\ readBuf' = <<>> /\ got = acc \o buf /\ Partial(request', got)
  BY <1>2, <1>3 DEF TurnDone
<1>6. Content' = Content /\ Position' = c - Len(readBuf') - Len(op'.acc)
  BY DEF Content, Position
<1>7. Layout(disk, c, before, got, readBuf', after)
  BY <1>4, Regrouped
<1>8. Layout(disk, c, before \o got, <<>>, readBuf', after)
  BY <1>7, Released
<1>9. /\ Len(got) \in Nat /\ Len(readBuf') \in Nat /\ Len(acc) \in Nat
      /\ Len(buf) \in Nat /\ c \in Nat /\ Len(<<>>) = 0 /\ <<>> \in Seq(Byte)
  <2>1. /\ Len(got) \in Nat /\ Len(readBuf') \in Nat
        /\ Len(acc) \in Nat /\ Len(buf) \in Nat
    BY <1>0, <1>4
  <2>2. c \in Nat
    BY <1>0, <1>1
  <2> QED
    BY <2>1, <2>2, EmptyString
<1> HIDE DEF answer
<1>10. CASE op' = NoOp /\ answer = <<result', Len(got)>>
  <2>1. op'.acc = <<>> /\ op'.direct = <<>> /\ op'.keep = <<>>
    BY <1>10 DEF NoOp
  <2>2. Position' = Position + Len(got)
    <3> DEFINE g == Len(got)
               r == Len(readBuf')
    <3>1. /\ g \in Nat /\ r \in Nat /\ g + r = Len(acc) + Len(buf)
          /\ Position = c - Len(buf) - Len(acc)
          /\ Position' = c - r - 0
      BY <1>1, <1>4, <1>6, <1>9, <2>1
    <3> HIDE DEF c, g, r
    <3>2. Position' = Position + g
      BY <1>9, <3>1
    <3> QED
      BY <3>2 DEF g
  <2>3. ReadAhead'
    BY <1>8, <2>1 DEF ReadAhead
  <2>4. result' = answer[1] /\ Len(got) = answer[2]
    BY <1>10
  <2> QED
    BY <1>4, <1>6, <1>9, <1>10, <2>1, <2>2, <2>3, <2>4 DEF Turned, answer
<1>11. CASE /\ op' = [stage |-> "fill", acc |-> got, direct |-> <<>>, keep |-> <<>>]
            /\ result' = File!None
            /\ readBuf' = <<>> /\ got = acc \o buf /\ Partial(request', got)
  <2>1. /\ op'.stage = "fill" /\ op'.acc = got
        /\ op'.direct = <<>> /\ op'.keep = <<>>
    BY <1>11
  <2>2. Position' = Position
    <3> DEFINE g == Len(got)
               r == Len(readBuf')
    <3>1. /\ g \in Nat /\ r = 0 /\ g + r = Len(acc) + Len(buf)
          /\ Position = c - Len(buf) - Len(acc)
          /\ Position' = c - r - g
      BY <1>1, <1>4, <1>6, <1>9, <1>11, <2>1
    <3> HIDE DEF c, g, r
    <3> QED
      BY <1>9, <3>1
  <2>3. ReadAhead'
    BY <1>7, <2>1 DEF ReadAhead
  <2> QED
    BY <1>4, <1>6, <1>11, <2>1, <2>2, <2>3 DEF Turned
<1> QED
  BY <1>5, <1>10, <1>11

\* What such a turn is to ByteFile, in a new call or in one that waited.
LEMMA ReadsAreReads ==
    ASSUME FileInv, ~Lost, ~Lost',
           request'.kind \in Reads, op.direct = <<>>, op.keep = <<>>,
           append' = append,
           op.stage = "none" \/ (op.stage = "fill" /\ request' = request),
           op.stage = "none" => request'.data = <<>>,
           Turned
    PROVE  Promised
<1>1. op.direct \o op.keep = op'.direct \o op'.keep /\ op.direct \o op.keep = <<>>
  BY EmptyString DEF Turned
<1>2. (broken' \/ repeated' \/ request'.kind = "drop")
         = (broken \/ repeated \/ request.kind = "drop")
  BY DEF Lost
<1> DEFINE answer == File!Answer(request'.kind, request'.n,
                                 File!From(Content, Position))
<1>3. CASE op' = NoOp /\ result' = answer[1] /\ Position' = Position + answer[2]
  <2>1. File!Read
    BY <1>1, <1>2, <1>3 DEF Turned, File!Read, File!SameCall, File!Return, NoOp, Reads
  <2> QED
    BY <2>1 DEF Promised, File!Next
<1>4. CASE op'.stage = "fill" /\ result' = File!None /\ Position' = Position
  <2>1. CASE op.stage = "none"
    <3>1. File!Begin
      BY <1>1, <1>2, <1>4, <2>1 DEF Turned, File!Begin
    <3> QED
      BY <3>1 DEF Promised, File!Next
  <2>2. CASE op.stage = "fill" /\ request' = request
    <3>1. result = File!None
      BY <2>2 DEF FileInv, Stages
    <3>2. UNCHANGED File!vars
      BY <1>1, <1>2, <1>4, <2>2, <3>1 DEF Turned, File!vars
    <3> QED
      BY <3>2 DEF Promised
  <2> QED
    BY <2>1, <2>2
<1> QED
  BY <1>3, <1>4 DEF Turned

LEMMA ReadersSound ==
    ASSUME Turned, request'.kind \in Reads, request'.n \in Nat, turn' = "read",
           disk' \in Seq(Byte), cursor' \in 0..Len(disk'),
           writeBuf' \in Seq(Byte), inflight' \in Seq(Byte), Pending' = <<>>,
           busy' = "writing" => inflight' # <<>>
    PROVE  Sound'
<1>1. \/ op'.stage = "none" /\ op'.acc = <<>>
      \/ op'.stage = "fill" /\ readBuf' = <<>> /\ Partial(request', op'.acc)
  BY DEF Turned, NoOp
<1>2. request'.kind \notin Seeks /\ request'.kind # "write"
  BY DEF Reads, Seeks
<1>3. Strings'
  BY EmptyString DEF Turned, Strings
<1>4. Turns'
  BY DEF Turns
<1>5. ReadAhead'
  BY DEF Turned
<1>6. Holding'
  BY <1>1 DEF Holding, Turned
<1>7. InProgress'
  BY <1>1, <1>2 DEF InProgress
<1> QED
  BY <1>3, <1>4, <1>5, <1>6, <1>7 DEF Sound

LEMMA ReadCalled ==
    ASSUME FileInv, Sound, ~Lost, ~Lost', ReadCall
    PROVE  Sound' /\ Promised
<1>1. PICK kind \in Reads, n \in 0..ReadCap + 1 :
        /\ kind # "bytes" => n = 0
        /\ Call(kind, n, <<>>)
        /\ turn # "write" /\ turn' = "read"
        /\ Scan(request', <<>>, readBuf)
        /\ UNCHANGED <<osVars, writeBuf, mode, open, tokioVars, ghosts>>
  BY DEF ReadCall
<1>2. /\ request' = [kind |-> kind, n |-> n, data |-> <<>>] /\ op = NoOp
      /\ UNCHANGED <<disk, cursor, append, writeBuf, busy, inflight>>
  BY <1>1 DEF Call, osVars, tokioVars
<1>3. request'.kind \in Reads /\ request'.n \in Nat /\ request'.data = <<>>
  BY <1>2, FileAssumption
<1>4. op.stage = "none" /\ op.acc = <<>> /\ op.direct = <<>> /\ op.keep = <<>>
  BY <1>2 DEF NoOp
<1>5. Pending = <<>> /\ Pending' = <<>>
  <2>1. Pending = <<>>
    BY <1>1 DEF Sound, Turns
  <2> QED
    BY <1>2, <2>1 DEF Pending
<1>6. PICK before, after : Layout(disk, cursor, before, <<>>, readBuf, after)
  BY <1>4 DEF Sound, ReadAhead
<1>7. Content = disk /\ Position = Len(before)
  BY <1>4, <1>5, <1>6, BytesAhead DEF Sound
<1>8. Partial(request', <<>>)
  <2>1. <<>> \in Seq(Byte) /\ <<>> \o <<>> = <<>> /\ Len(<<>>) = 0
    BY EmptyString
  <2>2. Only(<<>>, {"D"}) /\ Only(<<>>, File!Whitespace) /\ Only(<<>>, {"D", "R"})
    BY DEF Only
  <2> QED
    <3>1. /\ request'.kind = "bytes" => Len(<<>>) <= request'.n
          /\ request'.kind \in {"line", "wholeLine"} => Only(<<>>, {"D", "R"})
      BY <1>3, <2>1, <2>2
    <3>2. \E u \in Seq(Byte), v \in Seq(Byte) :
             <<>> = u \o v /\ Only(u, File!Whitespace) /\ Only(v, {"D"})
      BY <2>1, <2>2
    <3> QED
      BY <3>1, <3>2 DEF Partial
<1>9. Turned
  <2>1. Layout(disk, cursor', before, <<>>, readBuf, after)
    BY <1>2, <1>6
  <2> QED
    BY <1>1, <1>2, <1>3, <1>5, <1>7, <1>8, <2>1, ReadTurn
<1>10. Sound'
  <2>1. /\ disk' \in Seq(Byte) /\ cursor' \in 0..Len(disk')
        /\ writeBuf' \in Seq(Byte) /\ inflight' \in Seq(Byte)
        /\ busy' = "writing" => inflight' # <<>>
    BY <1>2 DEF Sound, Strings, Holding
  <2> QED
    BY <1>1, <1>3, <1>5, <1>9, <2>1, ReadersSound
<1>11. Promised
  BY <1>2, <1>3, <1>4, <1>9, ReadsAreReads
<1> QED
  BY <1>10, <1>11

LEMMA Filled ==
    ASSUME FileInv, Sound, ~Lost, ~Lost', Fill
    PROVE  Sound' /\ Promised
<1>1. PICK n \in 1..Len(disk) - cursor :
        /\ op.stage = "fill"
        /\ cursor' = cursor + n
        /\ Scan(request, op.acc, SubSeq(disk, cursor + 1, cursor + n))
        /\ UNCHANGED <<disk, append, writeBuf, mode, open, request, tokioVars, turn, ghosts>>
  BY DEF Fill
<1>2. UNCHANGED <<disk, append, writeBuf, request, turn, busy, inflight>>
  BY <1>1 DEF tokioVars
<1>3. /\ request.kind \in Reads /\ request.n \in Nat /\ Partial(request, op.acc)
      /\ turn = "read" /\ readBuf = <<>> /\ op.direct = <<>> /\ op.keep = <<>>
  BY <1>1 DEF FileInv, Stages, Sound, InProgress, Holding
<1>4. Pending = <<>> /\ Pending' = <<>>
  <2>1. Pending = <<>>
    BY <1>3 DEF Sound, Turns
  <2> QED
    BY <1>2, <2>1 DEF Pending
<1>5. PICK before, after : Layout(disk, cursor, before, op.acc, <<>>, after)
  BY <1>3 DEF Sound, ReadAhead
<1>6. Content = disk /\ Position = Len(before)
  BY <1>3, <1>4, <1>5, BytesAhead DEF Sound
<1>7. disk \in Seq(Byte) /\ Len(disk) \in Nat /\ cursor \in 0..Len(disk)
  BY DEF Sound, Strings
<1>8. Layout(disk, cursor + n, before, op.acc, SubSeq(disk, cursor + 1, cursor + n),
             SubSeq(after, n + 1, Len(after)))
  <2>1. n \in 0..Len(disk) - cursor
    BY <1>1, <1>7
  <2> QED
    BY <1>5, <2>1, Refilled
<1>9. Turned
  <2> DEFINE x == SubSeq(disk, cursor + 1, cursor + n)
             z == SubSeq(after, n + 1, Len(after))
             a == op.acc
  <2>1. Layout(disk, cursor', before, a, x, z) /\ Scan(request', a, x)
    BY <1>1, <1>2, <1>8
  <2>2. request'.kind \in Reads /\ request'.n \in Nat /\ Partial(request', a)
    BY <1>2, <1>3
  <2> HIDE DEF x, z, a
  <2> QED
    BY <1>2, <1>4, <1>6, <2>1, <2>2, ReadTurn
<1>10. Sound'
  <2>1. cursor' \in 0..Len(disk')
    BY <1>1, <1>2, <1>7
  <2>2. /\ disk' \in Seq(Byte)
        /\ writeBuf' \in Seq(Byte) /\ inflight' \in Seq(Byte)
        /\ busy' = "writing" => inflight' # <<>>
    BY <1>2 DEF Sound, Strings, Holding
  <2>3. request'.kind \in Reads /\ request'.n \in Nat /\ turn' = "read"
    BY <1>2, <1>3
  <2> QED
    BY <1>4, <1>9, <2>1, <2>2, <2>3, ReadersSound
<1>11. Promised
  BY <1>1, <1>2, <1>3, <1>9, ReadsAreReads
<1> QED
  BY <1>10, <1>11

LEMMA Ended ==
    ASSUME FileInv, Sound, ~Lost, ~Lost', EndOfFile
    PROVE  Sound' /\ Promised
<1>1. /\ op.stage = "fill" /\ cursor = Len(disk)
      /\ op' = NoOp /\ result' = Value(request, op.acc, TRUE)
      /\ turn' = "any"
      /\ UNCHANGED <<disk, cursor, append, readBuf, writeBuf, request, busy, inflight, broken, repeated>>
  BY DEF EndOfFile, Return, osVars, bufVars, tokioVars, ghosts
<1>2. /\ request.kind \in Reads /\ request.n \in Nat /\ Partial(request, op.acc)
      /\ turn = "read" /\ readBuf = <<>> /\ op.direct = <<>> /\ op.keep = <<>>
  BY <1>1 DEF FileInv, Stages, Sound, InProgress, Holding
<1>3. op'.stage = "none" /\ op'.acc = <<>> /\ op'.direct = <<>> /\ op'.keep = <<>>
  BY <1>1 DEF NoOp
<1>4. Pending = <<>> /\ Pending' = <<>>
  <2>1. Pending = <<>>
    BY <1>2 DEF Sound, Turns
  <2> QED
    BY <1>1, <2>1 DEF Pending
<1>5. PICK before, after : Layout(disk, cursor, before, op.acc, <<>>, after)
  BY <1>2 DEF Sound, ReadAhead
<1>6. Content = disk /\ Position = Len(before)
  BY <1>2, <1>4, <1>5, BytesAhead DEF Sound
<1>7. op.acc \in Seq(Byte) /\ after \in Seq(Byte) /\ <<>> \in Seq(Byte)
  BY <1>5 DEF Layout
<1>8. File!From(Content, Position) = op.acc
  <2>1. Len(after) = Len(disk) - cursor /\ cursor \in 0..Len(disk)
    BY <1>5, LayoutMeans
  <2>2. after = <<>>
    BY <1>1, <1>7, <2>1, EmptyString
  <2>3. File!From(disk, Len(before)) = op.acc \o (<<>> \o after)
    <3> DEFINE a == op.acc
               e == <<>>
    <3>1. Layout(disk, cursor, before, a, e, after)
      BY <1>5
    <3> HIDE DEF a, e
    <3>2. File!From(disk, Len(before)) = a \o (e \o after)
      BY <3>1, LayoutAhead
    <3> QED
      BY <3>2 DEF a, e
  <2> QED
    BY <1>6, <1>7, <2>2, <2>3, EmptyString
<1>9. File!Answer(request.kind, request.n, op.acc) = <<result', Len(op.acc)>>
  BY <1>1, <1>2, <1>7, AtEnd
<1>10. Content' = Content /\ Position' = Position + Len(op.acc)
  <2>1. Position = cursor - Len(<<>>) - Len(op.acc) /\ Position' = cursor - Len(<<>>) - Len(<<>>)
    BY <1>1, <1>2, <1>3, <1>4 DEF Position
  <2>2. Len(op.acc) \in Nat /\ Len(<<>>) = 0 /\ cursor \in Nat
    BY <1>7, EmptyString DEF Sound, Strings
  <2>3. Position' = Position + Len(op.acc)
    BY <2>1, <2>2
  <2> QED
    BY <1>1, <1>4, <2>3 DEF Content
<1>11. Sound'
  <2>1. Strings'
    BY <1>1, <1>3, <1>7 DEF Sound, Strings
  <2>2. Turns'
    BY <1>1, <1>2, <1>3, <1>4 DEF Turns
  <2>3. ReadAhead'
    BY <1>1, <1>2, <1>3, <1>5, Released DEF ReadAhead
  <2>4. Holding' /\ InProgress'
    BY <1>1, <1>3 DEF Sound, Holding, InProgress
  <2> QED
    BY <2>1, <2>2, <2>3, <2>4 DEF Sound
<1>12. Promised
  <2>1. File!Read
    <3>1. (broken' \/ repeated' \/ request'.kind = "drop")
         = (broken \/ repeated \/ request.kind = "drop")
      BY <1>1
    <3>2. op.direct \o op.keep = op'.direct \o op'.keep
      BY <1>2, <1>3
    <3>3. /\ result' = File!Answer(request'.kind, request'.n, File!From(Content, Position))[1]
          /\ Position' = Position
                       + File!Answer(request'.kind, request'.n, File!From(Content, Position))[2]
      BY <1>1, <1>8, <1>9, <1>10
    <3> QED
      BY <1>1, <1>2, <1>3, <1>10, <3>1, <3>2, <3>3
         DEF File!Read, File!SameCall, File!Return, Reads
  <2> QED
    BY <2>1 DEF Promised, File!Next
<1> QED
  BY <1>11, <1>12

\* --- Steps of a write ------------------------------------------------------

\* Nothing moves for the program.
LEMMA Stutters ==
    ASSUME Content' = Content, Position' = Position,
           request' = request, result' = result, append' = append,
           broken' = broken, repeated' = repeated,
           (op'.stage # "none") = (op.stage # "none"),
           op'.direct \o op'.keep = op.direct \o op.keep
    PROVE  Promised
<1>1. (broken' \/ repeated' \/ request'.kind = "drop")
         = (broken \/ repeated \/ request.kind = "drop")
  OBVIOUS
<1> QED
  BY <1>1 DEF Promised, File!vars

\* A step that puts the bytes of part and leaves those of left.
LEMMA Puts ==
    ASSUME NEW part \in Seq(Byte), NEW left \in Seq(Byte),
           request'.kind = "write", op.stage # "none" => request' = request,
           (IF op.stage # "none" THEN op.direct \o op.keep ELSE request'.data) = part \o left,
           request'.data \in Seq(Byte), Len(part) <= Len(request'.data),
           part = <<>> => Content' = Content /\ Position' = Position,
           part # <<>> => LET at == IF append THEN Len(Content) ELSE Position IN
                          /\ Content' = File!Overlay(Content, at, part)
                          /\ Position' = at + Len(part),
           op'.direct \o op'.keep = left,
           IF op'.stage # "none" THEN result' = File!None
                                 ELSE left = <<>> /\ result' = File!Ok,
           append' = append, broken' = broken, repeated' = repeated, ~Lost, ~Lost'
    PROVE  Promised
<1> DEFINE n == Len(part)
           d == part \o left
<1>1. n \in 0..Len(request'.data)
  OBVIOUS
<1>2. Len(d) = n + Len(left) /\ d \in Seq(Byte)
  BY Joined
<1>3. File!First(d, n) = part /\ File!From(d, n) = left
  BY Halves DEF File!First, File!From
<1>4. n <= Len(d) /\ (n = 0 <=> part = <<>>)
  <2>1. n \in Nat /\ Len(left) \in Nat /\ (n = 0 <=> part = <<>>)
    BY EmptyString
  <2> QED
    BY <1>2, <2>1
<1>5. (broken' \/ repeated' \/ request'.kind = "drop")
         = (broken \/ repeated \/ request.kind = "drop")
  BY DEF Lost
<1> HIDE DEF d, n
<1> DEFINE at == IF append THEN Len(Content) ELSE Position
<1>6. /\ Content' = IF n = 0 THEN Content ELSE File!Overlay(Content, at, File!First(d, n))
      /\ Position' = IF n = 0 THEN Position ELSE at + n
  BY <1>3, <1>4 DEF n
<1>7. (IF op.stage # "none" THEN op.direct \o op.keep ELSE request'.data) = d
  BY DEF d
<1>8. op'.direct \o op'.keep = File!From(d, n)
  BY <1>3
<1>9. File!Put
  BY <1>1, <1>3, <1>4, <1>5, <1>6, <1>7, <1>8 DEF File!Put, File!SameCall
<1> QED
  BY <1>9 DEF Promised, File!Next

\* A step that leaves the file, the read buffer and the call alone.
LEMMA Undisturbed ==
    ASSUME Sound, UNCHANGED <<disk, cursor, append, readBuf, op, request, turn>>,
           writeBuf' \in Seq(Byte), inflight' \in Seq(Byte), Pending' = Pending,
           busy' = "writing" => inflight' # <<>>
    PROVE  Sound' /\ Content' = Content /\ Position' = Position
<1>1. WriteAt' = WriteAt
  BY DEF WriteAt
<1>2. Content' = Content /\ Position' = Position
  BY <1>1 DEF Content, Position
<1>3. Strings' /\ Turns' /\ ReadAhead' /\ Holding'
  BY DEF Sound, Strings, Turns, ReadAhead, Holding
<1>4. InProgress'
  BY <1>2 DEF Sound, InProgress
<1> QED
  BY <1>2, <1>3, <1>4 DEF Sound

LEMMA WriteCalled ==
    ASSUME FileInv, Sound, ~Lost, ~Lost', WriteCall
    PROVE  Sound' /\ Promised
<1>1. PICK d \in Blocks :
        /\ Call("write", 0, d)
        /\ turn # "read" /\ turn' = "write"
        /\ IF Fits(d)
             THEN writeBuf' = writeBuf \o d /\ Return(File!Ok)
             ELSE /\ op' = [NoOp EXCEPT !.stage = "out", !.direct = Plan(d).direct,
                                        !.keep = Plan(d).keep]
                  /\ UNCHANGED writeBuf /\ result' = File!None
        /\ UNCHANGED <<osVars, readBuf, mode, open, tokioVars, ghosts>>
  BY DEF WriteCall
<1>2. /\ d \in Seq(Byte) /\ d # <<>>
      /\ request' = [kind |-> "write", n |-> 0, data |-> d]
      /\ op = NoOp
      /\ UNCHANGED <<disk, cursor, append, readBuf, inflight, busy, broken, repeated>>
  BY <1>1, FileAssumption DEF Byte, Call, osVars, tokioVars, ghosts
<1>3. /\ op.stage = "none" /\ op.acc = <<>> /\ op.direct = <<>> /\ op.keep = <<>>
      /\ readBuf = <<>>
  BY <1>1, <1>2 DEF NoOp, Sound, Turns
<1>4. request'.kind = "write" /\ request'.data = d /\ request'.kind \notin Seeks
  BY <1>2 DEF Seeks
<1>5. Strings /\ ReadAhead /\ Holding
  BY DEF Sound
<1>6. CASE Fits(d)
  <2>1. op' = NoOp /\ result' = File!Ok /\ writeBuf' = writeBuf \o d
    BY <1>1, <1>6 DEF Return
  <2>2. Pending' = Pending \o d
    <3>1. inflight \in Seq(Byte) /\ writeBuf \in Seq(Byte)
      BY <1>5 DEF Strings
    <3>2. (inflight \o writeBuf) \o d = inflight \o (writeBuf \o d)
      BY <1>2, <3>1, Assoc
    <3> QED
      BY <1>2, <2>1, <3>2 DEF Pending
  <2>3. LET at == IF append THEN Len(Content) ELSE Position IN
        Content' = File!Overlay(Content, at, d) /\ Position' = at + Len(d)
    <3>1. UNCHANGED osVars
      BY <1>1
    <3> QED
      BY <1>2, <1>3, <1>5, <2>2, <3>1, Appended
  <2>4. Sound'
    <3>1. writeBuf' \in Seq(Byte)
      BY <1>2, <1>5, <2>1, Joined DEF Strings
    <3>2. Strings' /\ Turns' /\ ReadAhead' /\ Holding'
      BY <1>1, <1>2, <1>3, <1>5, <2>1, <3>1
         DEF Strings, Turns, ReadAhead, Holding
    <3>3. InProgress'
      BY <2>1 DEF InProgress, NoOp
    <3> QED
      BY <3>2, <3>3 DEF Sound
  <2>5. Promised
    <3> DEFINE e == <<>>
    <3>1. e \in Seq(Byte) /\ d \o e = d /\ e \o e = e /\ Len(d) <= Len(d)
      BY <1>2, EmptyString
    <3>2. op'.stage = "none" /\ op'.direct = e /\ op'.keep = e
      BY <2>1 DEF NoOp
    <3> HIDE DEF e
    <3>3. /\ (IF op.stage # "none" THEN op.direct \o op.keep ELSE request'.data) = d \o e
          /\ op'.direct \o op'.keep = e
          /\ IF op'.stage # "none" THEN result' = File!None
                                   ELSE e = <<>> /\ result' = File!Ok
      BY <1>3, <1>4, <2>1, <3>1, <3>2 DEF e
    <3> QED
      BY <1>2, <1>3, <1>4, <2>3, <3>1, <3>3, Puts
  <2> QED
    BY <2>4, <2>5
<1>7. CASE ~Fits(d)
  <2> DEFINE direct == Plan(d).direct
             keep == Plan(d).keep
  <2>1. /\ op'.stage = "out" /\ op'.acc = <<>> /\ op'.direct = direct /\ op'.keep = keep
        /\ result' = File!None /\ writeBuf' = writeBuf
    BY <1>1, <1>7 DEF NoOp
  <2>2. /\ direct \in Seq(Byte) /\ keep \in Seq(Byte) /\ direct \o keep = d
        /\ Len(direct) + Len(keep) = Len(d)
    BY <1>2, PlanSplits
  <2> HIDE DEF direct, keep
  <2>3. Pending' = Pending /\ WriteAt' = WriteAt
    BY <1>2, <2>1 DEF Pending, WriteAt
  <2>4. Content' = Content /\ Position' = Position
    BY <1>2, <1>3, <2>1, <2>3 DEF Content, Position
  <2>5. Sound'
    <3>1. Strings' /\ Turns' /\ ReadAhead' /\ Holding'
      BY <1>1, <1>2, <1>3, <1>4, <1>5, <2>1, <2>2
         DEF Strings, Turns, ReadAhead, Holding
    <3>2. InProgress'
      BY <1>1, <1>2, <1>4, <2>1, <2>2 DEF InProgress
    <3> QED
      BY <3>1, <3>2 DEF Sound
  <2>6. File!Begin
    <3>1. (broken' \/ repeated' \/ request'.kind = "drop")
         = (broken \/ repeated \/ request.kind = "drop")
      BY DEF Lost
    <3> QED
      BY <1>2, <1>3, <1>4, <2>1, <2>2, <2>4, <3>1 DEF File!Begin
  <2> QED
    BY <2>5, <2>6 DEF Promised, File!Next
<1> QED
  BY <1>6, <1>7

\* tokio takes the start of the bytes it is offered, and never nothing.
LEMMA Portions ==
    ASSUME NEW q \in Seq(Byte), q # <<>>
    PROVE  LET a == SubSeq(q, 1, Portion(q))
               b == SubSeq(q, Portion(q) + 1, Len(q))
           IN /\ a \in Seq(Byte) /\ b \in Seq(Byte) /\ a # <<>>
              /\ a \o b = q /\ Len(a) + Len(b) = Len(q)
<1> DEFINE n == Portion(q)
           a == SubSeq(q, 1, n)
           b == SubSeq(q, n + 1, Len(q))
<1>1. Len(q) \in Nat /\ Len(q) # 0
  BY EmptyString
<1>2. n \in 1..Len(q)
  BY <1>1, FileAssumption DEF Portion
<1> HIDE DEF n
<1>3. n \in Nat /\ n \in 0..Len(q) /\ Len(q) \in 0..Len(q)
  BY <1>1, <1>2
<1>4. a \in Seq(Byte) /\ Len(a) = n
  BY <1>3, Beginning
<1>5. b \in Seq(Byte) /\ Len(b) = Len(q) - n
  BY <1>1, <1>2, <1>3, Piece
<1>6. a \o b = q
  BY <1>3, Cut
<1> HIDE DEF a, b
<1>7. a # <<>>
  <2>1. Len(a) # 0
    BY <1>2, <1>4
  <2> QED
    BY <1>4, <2>1, EmptyString
<1>8. Len(a) + Len(b) = Len(q)
  BY <1>1, <1>2, <1>4, <1>5
<1> QED
  BY <1>4, <1>5, <1>6, <1>7, <1>8 DEF a, b, n

\* tokio takes the start of q, which is ahead of k in what a write has.
LEMMA PortionOf ==
    ASSUME NEW q \in Seq(Byte), q # <<>>, NEW k \in Seq(Byte), NEW w \in Seq(Byte),
           Len(q) + Len(k) <= Len(w)
    PROVE  LET a == SubSeq(q, 1, Portion(q))
               b == SubSeq(q, Portion(q) + 1, Len(q))
           IN /\ a \in Seq(Byte) /\ b \in Seq(Byte) /\ b \o k \in Seq(Byte)
              /\ a # <<>> /\ q \o k = a \o (b \o k)
              /\ Len(a) <= Len(w) /\ Len(b) + Len(k) <= Len(w)
<1> DEFINE a == SubSeq(q, 1, Portion(q))
           b == SubSeq(q, Portion(q) + 1, Len(q))
<1>1. /\ a \in Seq(Byte) /\ b \in Seq(Byte) /\ a # <<>>
      /\ a \o b = q /\ Len(a) + Len(b) = Len(q)
  BY Portions
<1> HIDE DEF a, b
<1>2. b \o k \in Seq(Byte)
  BY <1>1, Joined
<1>3. (a \o b) \o k = a \o (b \o k)
  <2>1. a \in Seq(Byte) /\ b \in Seq(Byte)
    BY <1>1
  <2> QED
    BY <2>1, Assoc
<1>4. Len(a) \in Nat /\ Len(b) \in Nat /\ Len(k) \in Nat /\ Len(w) \in Nat
  BY <1>1
<1>5. Len(a) <= Len(w) /\ Len(b) + Len(k) <= Len(w)
  BY <1>1, <1>4
<1> QED
  BY <1>1, <1>2, <1>3, <1>5 DEF a, b

LEMMA BufferHanded ==
    ASSUME FileInv, Sound, HandBuffer
    PROVE  Sound' /\ Promised
<1> DEFINE a == SubSeq(writeBuf, 1, Portion(writeBuf))
           b == SubSeq(writeBuf, Portion(writeBuf) + 1, Len(writeBuf))
<1>1. /\ writeBuf # <<>> /\ inflight' = a /\ writeBuf' = b
      /\ inflight = <<>>
      /\ UNCHANGED <<disk, cursor, append, readBuf, op, request, turn, result, broken, repeated>>
  BY DEF HandBuffer, osVars, ghosts, FileInv, Emptied
<1>2. writeBuf \in Seq(Byte)
  BY DEF Sound, Strings
<1>3. a \in Seq(Byte) /\ b \in Seq(Byte) /\ a # <<>> /\ a \o b = writeBuf
  BY <1>1, <1>2, Portions
<1> HIDE DEF a, b
<1>4. Pending = writeBuf /\ Pending' = a \o b
  BY <1>1, <1>2, EmptyString DEF Pending
<1>5. Sound' /\ Content' = Content /\ Position' = Position
  BY <1>1, <1>3, <1>4, Undisturbed
<1> QED
  BY <1>1, <1>5, Stutters

LEMMA Settled ==
    ASSUME FileInv, Sound, Settle
    PROVE  Sound' /\ Promised
<1>1. /\ busy' = "idle"
      /\ UNCHANGED <<disk, cursor, append, readBuf, writeBuf, inflight,
                     op, request, turn, result, broken, repeated>>
  BY DEF Settle, osVars, bufVars, ghosts
<1>2. writeBuf' \in Seq(Byte) /\ inflight' \in Seq(Byte) /\ Pending' = Pending
  BY <1>1 DEF Pending, Sound, Strings
<1>3. Sound' /\ Content' = Content /\ Position' = Position
  BY <1>1, <1>2, Undisturbed
<1> QED
  BY <1>1, <1>3, Stutters

LEMMA DirectHanded ==
    ASSUME FileInv, Sound, ~Lost, ~Lost', HandDirect
    PROVE  Sound' /\ Promised
<1> DEFINE part == SubSeq(op.direct, 1, Portion(op.direct))
           more == SubSeq(op.direct, Portion(op.direct) + 1, Len(op.direct))
           left == more \o op.keep
<1>1. /\ op.stage = "out" /\ writeBuf = <<>> /\ op.direct # <<>>
      /\ inflight' = part /\ inflight = <<>>
      /\ op' = [op EXCEPT !.direct = more]
      /\ UNCHANGED osVars
      /\ UNCHANGED <<disk, cursor, append, readBuf, writeBuf, request, turn, result, broken, repeated>>
  BY DEF HandDirect, osVars, bufVars, ghosts, FileInv, Emptied
<1>2. op = [stage |-> op.stage, acc |-> op.acc, direct |-> op.direct, keep |-> op.keep]
  BY DEF FileInv, OpShape
<1>3. /\ op'.stage = "out" /\ op'.acc = op.acc /\ op'.direct = more /\ op'.keep = op.keep
      /\ result' = File!None
  BY <1>1, <1>2 DEF FileInv, Stages
<1>4. Strings /\ Turns /\ ReadAhead /\ Holding /\ InProgress
  BY DEF Sound
<1>5. request.kind = "write" /\ turn = "write" /\ request.kind \notin Seeks
  BY <1>1, <1>4 DEF Holding, InProgress, Seeks
<1>6. readBuf = <<>> /\ op.acc = <<>>
  BY <1>4, <1>5 DEF Turns
<1>7. /\ op.direct \in Seq(Byte) /\ op.keep \in Seq(Byte)
      /\ request.data \in Seq(Byte) /\ Len(op.direct) + Len(op.keep) <= Len(request.data)
      /\ inflight \in Seq(Byte) /\ writeBuf \in Seq(Byte)
  BY <1>1, <1>4, <1>5 DEF Strings, InProgress
<1>8. /\ part \in Seq(Byte) /\ more \in Seq(Byte) /\ left \in Seq(Byte)
      /\ part # <<>> /\ op.direct \o op.keep = part \o left
      /\ Len(part) <= Len(request.data)
      /\ Len(more) + Len(op.keep) <= Len(request.data)
  BY <1>1, <1>7, PortionOf
<1> HIDE DEF part, more, left
<1>9. Pending = <<>> /\ Pending' = part /\ Pending' = Pending \o part
  BY <1>1, <1>7, <1>8, EmptyString DEF Pending
<1>10. LET at == IF append THEN Len(Content) ELSE Position IN
       Content' = File!Overlay(Content, at, part) /\ Position' = at + Len(part)
  BY <1>1, <1>4, <1>6, <1>8, <1>9, Appended
<1>11. Sound'
  <2>1. Strings' /\ Turns' /\ ReadAhead' /\ Holding'
    BY <1>1, <1>3, <1>4, <1>5, <1>7, <1>8, EmptyString DEF Strings, Turns, ReadAhead, Holding
  <2>2. InProgress'
    BY <1>1, <1>3, <1>5, <1>7, <1>8 DEF InProgress
  <2> QED
    BY <2>1, <2>2 DEF Sound
<1>12. Promised
  <2>1. Len(part) <= Len(request'.data) /\ request'.data \in Seq(Byte)
    BY <1>1, <1>7, <1>8
  <2>2. (IF op.stage # "none" THEN op.direct \o op.keep ELSE request'.data) = part \o left
    BY <1>1, <1>8
  <2>3. op'.direct \o op'.keep = left
    BY <1>3 DEF left
  <2>4. request'.kind = "write"
    BY <1>1, <1>5
  <2>5. IF op'.stage # "none" THEN result' = File!None
                              ELSE left = <<>> /\ result' = File!Ok
    BY <1>3
  <2> QED
    BY <1>1, <1>8, <1>10, <2>1, <2>2, <2>3, <2>4, <2>5, Puts
<1> QED
  BY <1>11, <1>12

LEMMA Written ==
    ASSUME FileInv, Sound, ~Lost, ~Lost', WriteDone
    PROVE  Sound' /\ Promised
<1>1. /\ op.stage = "out" /\ writeBuf = <<>> /\ op.direct = <<>> /\ inflight = <<>>
      /\ request.kind = "write" /\ writeBuf' = op.keep
      /\ op' = NoOp /\ result' = File!Ok
      /\ UNCHANGED osVars
      /\ UNCHANGED <<disk, cursor, append, readBuf, inflight, busy, request, turn, broken, repeated>>
  BY DEF WriteDone, Return, osVars, tokioVars, ghosts, FileInv, Emptied
<1>2. op'.stage = "none" /\ op'.acc = <<>> /\ op'.direct = <<>> /\ op'.keep = <<>>
  BY <1>1 DEF NoOp
<1>3. Strings /\ Turns /\ ReadAhead /\ Holding /\ InProgress
  BY DEF Sound
<1>4. turn = "write" /\ readBuf = <<>> /\ op.acc = <<>>
  BY <1>1, <1>3 DEF InProgress, Turns
<1> DEFINE part == op.keep
           e == <<>>
<1>5. /\ part \in Seq(Byte) /\ request.data \in Seq(Byte)
      /\ Len(<<>>) + Len(part) <= Len(request.data)
  BY <1>1, <1>3 DEF Strings, InProgress
<1>6. /\ Len(part) \in Nat /\ Len(request.data) \in Nat /\ Len(<<>>) = 0
      /\ <<>> \in Seq(Byte) /\ <<>> \o part = part /\ part \o <<>> = part
      /\ <<>> \o <<>> = <<>>
  BY <1>5, EmptyString
<1>7. Pending = <<>> /\ Pending' = part
  BY <1>1, <1>6 DEF Pending
<1> HIDE DEF part, e
<1>8. part # <<>> => LET at == IF append THEN Len(Content) ELSE Position IN
                     Content' = File!Overlay(Content, at, part) /\ Position' = at + Len(part)
  <2>1. Pending' = Pending \o part
    BY <1>6, <1>7
  <2> QED
    BY <1>1, <1>3, <1>4, <1>5, <2>1, Appended
<1>9. part = <<>> => Content' = Content /\ Position' = Position
  BY <1>1, <1>2, <1>4, <1>7 DEF Content, Position
<1>10. Sound'
  <2>1. Strings' /\ Turns' /\ ReadAhead' /\ Holding'
    BY <1>1, <1>2, <1>3, <1>4, <1>5, <1>6 DEF Strings, Turns, ReadAhead, Holding, part
  <2>2. InProgress'
    BY <1>2 DEF InProgress
  <2> QED
    BY <2>1, <2>2 DEF Sound
<1>11. Promised
  <2>1. Len(part) <= Len(request'.data) /\ request'.data \in Seq(Byte)
    BY <1>1, <1>5, <1>6
  <2>2. (IF op.stage # "none" THEN op.direct \o op.keep ELSE request'.data) = part \o e
    BY <1>1, <1>6 DEF part, e
  <2>3. op'.direct \o op'.keep = e
    BY <1>2, <1>6 DEF e
  <2>4. request'.kind = "write" /\ e \in Seq(Byte)
    BY <1>1, <1>6 DEF e
  <2>5. IF op'.stage # "none" THEN result' = File!None
                              ELSE e = <<>> /\ result' = File!Ok
    BY <1>1, <1>2 DEF e
  <2> QED
    BY <1>1, <1>5, <1>8, <1>9, <2>1, <2>2, <2>3, <2>4, <2>5, Puts
<1> QED
  BY <1>10, <1>11

LEMMA WroteInBackground ==
    ASSUME FileInv, Sound, ~Lost, ~Lost', Background
    PROVE  Sound' /\ Promised
<1>1. PICK n \in 0..Len(inflight) :
        /\ busy = "writing"
        /\ disk' = IF n = 0 THEN disk ELSE Overlay(disk, WriteAt, SubSeq(inflight, 1, n))
        /\ cursor' = WriteAt + n
        /\ inflight' = <<>>
        /\ IF n = Len(inflight)
             THEN busy' = "wrote" /\ UNCHANGED ghosts
             ELSE busy' = "failed" /\ owed' = TRUE /\ broken' = TRUE /\ UNCHANGED repeated
        /\ UNCHANGED <<append, bufVars, request, op, result, werr, handed, turn>>
  BY DEF Background
<1>2. Strings /\ Turns /\ ReadAhead /\ Holding /\ InProgress
  BY DEF Sound
<1>3. n = Len(inflight) /\ busy' = "wrote" /\ broken' = broken /\ repeated' = repeated
  BY <1>1 DEF Lost, ghosts
<1>4. UNCHANGED <<append, readBuf, writeBuf, request, op, result, turn>>
  BY <1>1 DEF bufVars
<1>5. /\ inflight # <<>> /\ inflight \in Seq(Byte) /\ writeBuf \in Seq(Byte)
      /\ disk \in Seq(Byte) /\ cursor \in Nat
  BY <1>1, <1>2 DEF Holding, Strings
<1>6. /\ Len(inflight) \in Nat /\ Len(inflight) # 0 /\ SubSeq(inflight, 1, Len(inflight)) = inflight
      /\ Len(<<>>) = 0 /\ <<>> \in Seq(Byte) /\ Len(disk) \in Nat
      /\ <<>> \o writeBuf = writeBuf /\ inflight \o <<>> = inflight
  BY <1>5, EmptyString
<1> DEFINE p == WriteAt
<1>7. /\ disk' = Overlay(disk, p, inflight) /\ cursor' = p + Len(inflight)
      /\ inflight' = <<>>
  BY <1>1, <1>3, <1>6
<1>8. /\ p \in 0..Len(disk) /\ p \in Nat
      /\ Pending # <<>> /\ Pending = inflight \o writeBuf /\ Pending' = writeBuf
  <2>1. p \in 0..Len(disk) /\ Pending # <<>>
    BY <1>2, <1>5, PendingIs
  <2> QED
    BY <1>4, <1>6, <1>7, <2>1 DEF Pending
<1>9. turn = "write" /\ readBuf = <<>> /\ op.acc = <<>>
  BY <1>2, <1>8 DEF Turns
<1>10. /\ disk' \in Seq(Byte)
       /\ Len(disk') = IF p + Len(inflight) <= Len(disk) THEN Len(disk) ELSE p + Len(inflight)
  BY <1>5, <1>7, <1>8, Overlaid
<1>11. append => p = Len(disk)
  BY DEF WriteAt
<1>12. WriteAt' = IF append THEN Len(disk') ELSE cursor'
  BY <1>4 DEF WriteAt
<1>13. Content = Overlay(disk, p, inflight \o writeBuf)
       /\ Position = p + Len(inflight \o writeBuf)
  BY <1>8, Views
<1> HIDE DEF p
<1> DEFINE k == Len(inflight)
           l == Len(disk)
           l1 == Len(disk')
           c1 == cursor'
<1>14. cursor' \in 0..Len(disk') /\ WriteAt' = p + Len(inflight)
  <2>1. /\ k \in Nat /\ l \in Nat /\ p \in 0..l /\ p \in Nat
        /\ l1 = IF p + k <= l THEN l ELSE p + k
        /\ c1 = p + k
        /\ append => p = l
    BY <1>6, <1>7, <1>8, <1>10, <1>11
  <2>2. WriteAt' = IF append THEN l1 ELSE c1
    BY <1>12
  <2> DEFINE w == WriteAt'
  <2>3. w = IF append THEN l1 ELSE c1
    BY <2>2
  <2> HIDE DEF k, l, l1, c1, w
  <2>a. k # 0
    BY <1>6 DEF k
  <2>b. CASE p + k <= l
    <3>1. l1 = l
      BY <2>1, <2>b
    <3>2. c1 \in 0..l1 /\ ~append
      BY <2>1, <2>a, <2>b, <3>1
    <3> QED
      BY <2>1, <2>3, <3>2 DEF k, l1, c1, w
  <2>c. CASE ~(p + k <= l)
    <3>1. l1 = p + k
      BY <2>1, <2>c
    <3>2. c1 \in 0..l1
      BY <2>1, <3>1
    <3>3. w = p + k
      BY <2>1, <2>3, <3>1
    <3> QED
      BY <3>2, <3>3 DEF k, l1, c1, w
  <2> QED
    BY <2>b, <2>c
<1> HIDE DEF k, l, l1, c1
<1>15. Content' = Content /\ Position' = Position
  <2>1. CASE writeBuf = <<>>
    <3>1. Content' = disk' /\ Position' = cursor' - Len(readBuf') - Len(op'.acc)
      BY <1>4, <1>8, <2>1 DEF Content, Position
    <3>2. Position' = cursor' - 0 - 0
      BY <1>4, <1>6, <1>9, <3>1
    <3>3. cursor' \in Nat
      BY <1>6, <1>7, <1>8
    <3>4. Position' = cursor'
      <4> DEFINE c == cursor'
      <4>1. c \in Nat /\ Position' = c - 0 - 0
        BY <3>2, <3>3
      <4> HIDE DEF c
      <4>2. c - 0 - 0 = c
        BY <4>1
      <4> QED
        BY <4>1, <4>2 DEF c
    <3> QED
      BY <1>6, <1>7, <1>13, <2>1, <3>1, <3>4
  <2>2. CASE writeBuf # <<>>
    <3>1. /\ Content' = Overlay(disk', WriteAt', writeBuf)
          /\ Position' = WriteAt' + Len(writeBuf)
      BY <1>8, <2>2 DEF Content, Position
    <3>2. Overlay(Overlay(disk, p, inflight), p + Len(inflight), writeBuf) =
              Overlay(disk, p, inflight \o writeBuf)
      BY <1>5, <1>8, OverlayTwice
    <3>3. Len(inflight \o writeBuf) = Len(inflight) + Len(writeBuf) /\ Len(writeBuf) \in Nat
      BY <1>5, Joined
    <3>4. Content' = Content
      BY <1>7, <1>13, <1>14, <3>1, <3>2
    <3>5. Position' = (p + Len(inflight)) + Len(writeBuf)
          /\ Position = p + (Len(inflight) + Len(writeBuf))
      BY <1>13, <1>14, <3>1, <3>3
    <3>6. (p + Len(inflight)) + Len(writeBuf) = p + (Len(inflight) + Len(writeBuf))
      BY <1>6, <1>8, <3>3
    <3> QED
      BY <3>4, <3>5, <3>6
  <2> QED
    BY <2>1, <2>2
<1>16. Sound'
  <2>1. Strings'
    BY <1>2, <1>4, <1>6, <1>7, <1>10, <1>14 DEF Strings
  <2>2. Turns'
    BY <1>4, <1>9 DEF Turns
  <2>3. ReadAhead'
    <3>1. Layout(disk', cursor', SubSeq(disk', 1, cursor'), <<>>, <<>>,
                 SubSeq(disk', cursor' + 1, Len(disk')))
      BY <1>10, <1>14, LayoutAt
    <3> QED
      BY <1>4, <1>9, <3>1 DEF ReadAhead
  <2>4. Holding'
    BY <1>2, <1>3, <1>4 DEF Holding
  <2>5. InProgress'
    BY <1>2, <1>4, <1>15 DEF InProgress
  <2> QED
    BY <2>1, <2>2, <2>3, <2>4, <2>5 DEF Sound
<1>17. Promised
  BY <1>3, <1>4, <1>15, Stutters
<1> QED
  BY <1>16, <1>17

\* --- Flushes, seeks and cancelled calls, and the whole ----------------------

LEMMA InsideFile ==
    ASSUME Strings, ReadAhead
    PROVE  /\ Content \in Seq(Byte) /\ Len(Content) \in Nat
           /\ Position \in 0..Len(Content)
           /\ Pending = <<>> => cursor <= Len(Content) /\ Content = disk
<1>1. CASE Pending = <<>>
  <2>1. PICK before, after : Layout(disk, cursor, before, op.acc, readBuf, after)
    BY DEF ReadAhead
  <2>2. Content = disk /\ Position = Len(before)
    BY <1>1, <2>1, BytesAhead
  <2>3. disk \in Seq(Byte) /\ cursor \in 0..Len(disk) /\ Len(before) \in 0..cursor
    BY <2>1, LayoutMeans
  <2>4. Len(disk) \in Nat
    BY <2>3
  <2> QED
    BY <2>2, <2>3, <2>4
<1>2. CASE Pending # <<>>
  <2> DEFINE p == WriteAt
             s == Pending
  <2>1. s \in Seq(Byte) /\ p \in 0..Len(disk) /\ disk \in Seq(Byte)
    BY PendingIs DEF Strings
  <2>2. Content = Overlay(disk, p, s) /\ Position = p + Len(s)
    BY <1>2, Views
  <2> HIDE DEF p, s
  <2>3. /\ Overlay(disk, p, s) \in Seq(Byte)
        /\ Len(Overlay(disk, p, s)) = IF p + Len(s) <= Len(disk) THEN Len(disk)
                                      ELSE p + Len(s)
    BY <2>1, Overlaid
  <2>4. Len(disk) \in Nat /\ Len(s) \in Nat
    BY <2>1, EmptyString
  <2> QED
    BY <1>2, <2>1, <2>2, <2>3, <2>4
<1> QED
  BY <1>1, <1>2

\* What is buffered may become what a call holds.
LEMMA Shifted ==
    ASSUME Strings, UNCHANGED <<disk, cursor, append, writeBuf, inflight>>,
           \/ readBuf' = readBuf /\ op'.acc = op.acc
           \/ op.acc = <<>> /\ readBuf' = <<>> /\ op'.acc = readBuf
    PROVE  Content' = Content /\ Position' = Position
<1>1. Pending' = Pending /\ WriteAt' = WriteAt
  BY DEF Pending, WriteAt
<1>2. Content' = Content
  BY <1>1 DEF Content
<1>3. CASE readBuf' = readBuf /\ op'.acc = op.acc
  BY <1>1, <1>2, <1>3 DEF Position
<1>4. CASE op.acc = <<>> /\ readBuf' = <<>> /\ op'.acc = readBuf
  <2>1. Len(readBuf) \in Nat /\ Len(<<>>) = 0 /\ cursor \in Nat
    BY EmptyString DEF Strings
  <2>2. cursor - Len(<<>>) - Len(readBuf) = cursor - Len(readBuf) - Len(<<>>)
    BY <2>1
  <2> QED
    BY <1>1, <1>2, <1>4, <2>2 DEF Position
<1> QED
  BY <1>3, <1>4

\* A call that has begun and not moved anything.
LEMMA Begins ==
    ASSUME op = NoOp, op'.stage # "none", op'.direct = <<>>, op'.keep = <<>>,
           request'.data = <<>>, result' = File!None,
           Content' = Content, Position' = Position,
           append' = append, broken' = broken, repeated' = repeated, ~Lost, ~Lost'
    PROVE  Promised
<1>1. (broken' \/ repeated' \/ request'.kind = "drop")
         = (broken \/ repeated \/ request.kind = "drop")
  BY DEF Lost
<1>2. op.stage = "none" /\ op'.direct \o op'.keep = <<>>
  BY EmptyString DEF NoOp
<1>3. File!Begin
  BY <1>1, <1>2 DEF File!Begin
<1> QED
  BY <1>3 DEF Promised, File!Next

LEMMA FlushCalled ==
    ASSUME FileInv, Sound, ~Lost, ~Lost', FlushCall \/ SetvbufCall
    PROVE  Sound' /\ Promised
<1>1. PICK kind, n :
        /\ kind \in Flushes \cup {"setvbuf"}
        /\ Call(kind, n, <<>>)
        /\ op' = [NoOp EXCEPT !.stage = Stage]
        /\ result' = File!None
        /\ UNCHANGED <<osVars, bufVars, tokioVars, turn, ghosts>>
  BY DEF FlushCall, SetvbufCall
<1>2. /\ request' = [kind |-> kind, n |-> n, data |-> <<>>] /\ op = NoOp
      /\ UNCHANGED <<disk, cursor, append, readBuf, writeBuf, inflight, busy, turn, broken, repeated>>
  BY <1>1 DEF Call, osVars, bufVars, tokioVars, ghosts
<1>3. /\ op'.stage \in {"last", "out"} /\ op'.acc = <<>>
      /\ op'.direct = <<>> /\ op'.keep = <<>>
  BY <1>1 DEF Stage, NoOp
<1>4. op.acc = <<>> /\ request'.kind \notin Seeks \cup {"write"} /\ request'.data = <<>>
  <2>1. op.acc = <<>>
    BY <1>2 DEF NoOp
  <2>2. request'.kind = kind /\ request'.data = <<>>
    BY <1>2
  <2>3. kind \notin Seeks \cup {"write"}
    BY <1>1 DEF Flushes, Seeks
  <2> QED
    BY <2>1, <2>2, <2>3
<1>5. Content' = Content /\ Position' = Position
  BY <1>2, <1>3, <1>4, Shifted DEF Sound
<1>6. Sound'
  <2>1. Strings' /\ Turns' /\ ReadAhead' /\ Holding'
    BY <1>2, <1>3, <1>4, EmptyString
       DEF Sound, Strings, Turns, Pending, ReadAhead, Holding
  <2>2. InProgress'
    BY <1>3, <1>4 DEF InProgress
  <2> QED
    BY <2>1, <2>2 DEF Sound
<1>7. Promised
  BY <1>1, <1>2, <1>3, <1>4, <1>5, Begins
<1> QED
  BY <1>6, <1>7

LEMMA SeekCalled ==
    ASSUME FileInv, Sound, ~Lost, ~Lost', SeekCall
    PROVE  Sound' /\ Promised
<1>1. PICK kind \in Seeks, n \in -1..MaxLen :
        /\ Call(kind, n, <<>>)
        /\ (CASE kind = "set" -> 0 [] kind = "cur" -> Position
              [] kind = "end" -> Len(Content)) + n \in -1..Len(Content)
        /\ op' = [NoOp EXCEPT !.stage = Stage,
                              !.acc = IF writeBuf = <<>> THEN readBuf ELSE <<>>]
        /\ readBuf' = IF writeBuf = <<>> THEN <<>> ELSE readBuf
        /\ result' = File!None
        /\ UNCHANGED <<osVars, writeBuf, mode, open, tokioVars, turn, ghosts>>
  BY DEF SeekCall
<1>2. /\ request' = [kind |-> kind, n |-> n, data |-> <<>>] /\ op = NoOp
      /\ UNCHANGED <<disk, cursor, append, writeBuf, inflight, busy, turn, broken, repeated>>
  BY <1>1 DEF Call, osVars, tokioVars, ghosts
<1>3. op'.direct = <<>> /\ op'.keep = <<>> /\ op'.stage # "none"
  BY <1>1 DEF Stage, NoOp
<1>4. \/ op'.stage = "last" /\ op'.acc = readBuf /\ readBuf' = <<>>
      \/ op'.stage = "out" /\ op'.acc = <<>> /\ readBuf' = readBuf
  BY <1>1 DEF Stage, NoOp
<1>5. op.acc = <<>> /\ request'.kind = kind /\ request'.n = n /\ request'.data = <<>>
  BY <1>2 DEF NoOp
<1>6. Strings /\ Turns /\ ReadAhead /\ Holding
  BY DEF Sound
<1>7. Content' = Content /\ Position' = Position
  BY <1>2, <1>4, <1>5, <1>6, Shifted
<1>8. Len(Content) \in Nat /\ Position \in Int /\ n \in Int
  BY <1>6, InsideFile, FileAssumption
<1>9. readBuf \in Seq(Byte) /\ <<>> \in Seq(Byte)
  BY <1>6, EmptyString DEF Strings
<1>10. Sound'
  <2>1. Strings'
    BY <1>2, <1>3, <1>4, <1>6, <1>9 DEF Strings
  <2>2. Turns'
    BY <1>2, <1>4, <1>6 DEF Turns, Pending
  <2>3. ReadAhead'
    <3>1. PICK before, after : Layout(disk, cursor, before, <<>>, readBuf, after)
      BY <1>5, <1>6 DEF ReadAhead
    <3>2. readBuf \o <<>> = <<>> \o readBuf
      BY <1>9, EmptyString
    <3>3. Layout(disk, cursor, before, readBuf, <<>>, after)
      BY <1>9, <3>1, <3>2, Regrouped
    <3> QED
      BY <1>2, <1>4, <3>1, <3>3 DEF ReadAhead
  <2>4. Holding'
    BY <1>2, <1>3, <1>4, <1>5, <1>6 DEF Holding
  <2>5. InProgress'
    <3>1. kind # "write" /\ op'.stage # "fill"
      BY <1>4 DEF Seeks
    <3>2. kind = "set" => n <= Len(Content)
      BY <1>1, <1>8
    <3>3. kind = "cur" => Position + n <= Len(Content)
      BY <1>1, <1>8
    <3>4. kind = "end" => n <= 0
      BY <1>1, <1>8
    <3> QED
      BY <1>4, <1>5, <1>7, <1>8, <3>1, <3>2, <3>3, <3>4 DEF InProgress
  <2> QED
    BY <2>1, <2>2, <2>3, <2>4, <2>5 DEF Sound
<1>11. Promised
  BY <1>1, <1>2, <1>3, <1>5, <1>7, Begins
<1> QED
  BY <1>10, <1>11

LEMMA WentOn ==
    ASSUME FileInv, Sound, FlushedFirst
    PROVE  Sound' /\ Promised
<1> DEFINE thrown == IF request.kind \in Seeks THEN readBuf ELSE <<>>
<1>1. /\ op.stage = "out" /\ request.kind # "write"
      /\ op' = [op EXCEPT !.stage = "last", !.acc = thrown]
      /\ readBuf' = IF request.kind \in Seeks THEN <<>> ELSE readBuf
      /\ UNCHANGED <<disk, cursor, append, writeBuf, inflight, busy, request, result, turn, broken, repeated>>
  BY DEF FlushedFirst, osVars, tokioVars, ghosts
<1>2. op = [stage |-> op.stage, acc |-> op.acc, direct |-> op.direct, keep |-> op.keep]
  BY DEF FileInv, OpShape
<1>3. /\ op'.stage = "last" /\ op'.acc = thrown
      /\ op'.direct = op.direct /\ op'.keep = op.keep
  BY <1>1, <1>2
<1>4. Strings /\ Turns /\ ReadAhead /\ Holding /\ InProgress
  BY DEF Sound
<1>5. op.acc = <<>> /\ op.direct = <<>> /\ op.keep = <<>>
  BY <1>1, <1>4 DEF Holding
<1>6. \/ request.kind \notin Seeks /\ op'.acc = <<>> /\ readBuf' = readBuf
      \/ request.kind \in Seeks /\ op'.acc = readBuf /\ readBuf' = <<>>
  BY <1>1, <1>3
<1>7. Content' = Content /\ Position' = Position
  BY <1>1, <1>4, <1>5, <1>6, Shifted
<1>8. readBuf \in Seq(Byte) /\ <<>> \in Seq(Byte)
  BY <1>4, EmptyString DEF Strings
<1> HIDE DEF thrown
<1>9. Sound'
  <2>1. Strings'
    BY <1>1, <1>3, <1>4, <1>6, <1>8 DEF Strings
  <2>2. Turns'
    BY <1>1, <1>4, <1>6 DEF Turns, Pending
  <2>3. ReadAhead'
    <3>1. PICK before, after : Layout(disk, cursor, before, <<>>, readBuf, after)
      BY <1>4, <1>5 DEF ReadAhead
    <3>2. readBuf \o <<>> = <<>> \o readBuf
      BY <1>8, EmptyString
    <3>3. Layout(disk, cursor, before, readBuf, <<>>, after)
      BY <1>8, <3>1, <3>2, Regrouped
    <3> QED
      BY <1>1, <1>6, <3>1, <3>3 DEF ReadAhead
  <2>4. Holding'
    BY <1>1, <1>3, <1>4, <1>5, <1>6 DEF Holding
  <2>5. InProgress'
    BY <1>1, <1>3, <1>4, <1>6, <1>7 DEF InProgress
  <2> QED
    BY <2>1, <2>2, <2>3, <2>4, <2>5 DEF Sound
<1>10. Promised
  BY <1>1, <1>3, <1>7, Stutters
<1> QED
  BY <1>9, <1>10

LEMMA FlushReturned ==
    ASSUME FileInv, Sound, ~Lost, ~Lost', FlushDone \/ SetvbufDone
    PROVE  Sound' /\ Promised
<1>1. /\ op.stage = "last" /\ request.kind \in Flushes \cup {"setvbuf"}
      /\ op' = NoOp /\ result' = File!Ok
      /\ turn' = turn \/ (turn' = "any" /\ turn # "read" /\ inflight = <<>>)
      /\ UNCHANGED <<disk, cursor, append, readBuf, writeBuf, inflight, busy, request, broken, repeated>>
  BY DEF FlushDone, SetvbufDone, Return, osVars, tokioVars, ghosts, FileInv, Emptied
<1>2. op'.stage = "none" /\ op'.acc = <<>> /\ op'.direct = <<>> /\ op'.keep = <<>>
  BY <1>1 DEF NoOp
<1>3. Strings /\ Turns /\ ReadAhead /\ Holding
  BY DEF Sound
<1>4. op.acc = <<>> /\ op.direct = <<>> /\ op.keep = <<>>
  BY <1>1, <1>3 DEF Holding, Flushes, Seeks
<1>5. Content' = Content /\ Position' = Position
  BY <1>1, <1>2, <1>3, <1>4, Shifted
<1>6. Sound'
  <2>1. Strings' /\ ReadAhead' /\ Holding'
    BY <1>1, <1>2, <1>3, <1>4 DEF Strings, ReadAhead, Holding
  <2>2. Turns'
    <3>1. Pending' = Pending
      BY <1>1 DEF Pending
    <3>2. CASE turn' = turn
      BY <1>1, <1>2, <1>3, <3>1, <3>2 DEF Turns
    <3>3. CASE turn' = "any" /\ turn # "read" /\ inflight = <<>>
      <4>1. Pending = <<>>
        BY <1>1, <3>3, EmptyString DEF FileInv, Emptied, Pending
      <4> QED
        BY <1>1, <1>2, <1>3, <3>1, <3>3, <4>1 DEF Turns
    <3> QED
      BY <1>1, <3>2, <3>3
  <2>3. InProgress'
    BY <1>2 DEF InProgress
  <2> QED
    BY <2>1, <2>2, <2>3 DEF Sound
<1>7. File!Other
  <2>1. (broken' \/ repeated' \/ request'.kind = "drop")
         = (broken \/ repeated \/ request.kind = "drop")
    BY <1>1
  <2>2. op'.direct \o op'.keep = op.direct \o op.keep
    BY <1>2, <1>4
  <2> QED
    BY <1>1, <1>2, <1>5, <2>1, <2>2 DEF File!Other, File!SameCall, File!Return, Flushes
<1> QED
  BY <1>6, <1>7 DEF Promised, File!Next

\* What a seek at its last stage knows.
LEMMA Seeking ==
    ASSUME FileInv, Sound, op.stage = "last", request.kind \in Seeks, busy = "idle"
    PROVE  /\ Pending = <<>> /\ readBuf = <<>> /\ Content = disk
           /\ op.direct = <<>> /\ op.keep = <<>> /\ op.acc \in Seq(Byte)
           /\ cursor \in Nat /\ Len(disk) \in Nat /\ cursor <= Len(disk)
           /\ Position = cursor - Len(op.acc) /\ Position \in Nat
           /\ Len(op.acc) \in Nat /\ request.n \in Int
           /\ Target = (CASE request.kind = "set" -> 0 [] request.kind = "cur" -> Position
                          [] request.kind = "end" -> Len(disk)) + request.n
           /\ Target \in Int /\ Target <= Len(disk)
<1>1. Strings /\ Turns /\ ReadAhead /\ Holding /\ InProgress
  BY DEF Sound
<1>2. Pending = <<>>
  BY EmptyString DEF FileInv, Emptied, Pending
<1>3. readBuf = <<>> /\ op.direct = <<>> /\ op.keep = <<>>
  BY <1>1 DEF InProgress, Holding
<1>4. Content = disk /\ Len(Content) \in Nat /\ Position \in 0..Len(Content)
      /\ cursor <= Len(Content)
  BY <1>1, <1>2, InsideFile
<1>5. /\ op.acc \in Seq(Byte) /\ cursor \in Nat
      /\ Len(op.acc) \in Nat /\ Len(<<>>) = 0
  BY <1>1, EmptyString DEF Strings
<1>6. Position = cursor - Len(op.acc)
  <2>1. Position = cursor - Len(<<>>) - Len(op.acc)
    BY <1>2, <1>3 DEF Position
  <2>2. cursor - Len(<<>>) - Len(op.acc) = cursor - Len(op.acc)
    BY <1>5
  <2> QED
    BY <2>1, <2>2
<1>7. /\ request.n \in Int
      /\ request.kind = "set" => request.n <= Len(disk)
      /\ request.kind = "cur" => Position + request.n <= Len(disk)
      /\ request.kind = "end" => request.n <= 0
  BY <1>1, <1>4 DEF InProgress
<1>8. Position \in Nat /\ Len(disk) \in Nat
  BY <1>4
<1>9. /\ Target = (CASE request.kind = "set" -> 0 [] request.kind = "cur" -> Position
                     [] request.kind = "end" -> Len(disk)) + request.n
      /\ Target \in Int /\ Target <= Len(disk)
  <2> DEFINE n == request.n
             a == Len(op.acc)
             l == Len(disk)
  <2>1. CASE request.kind = "set"
    <3>1. Target = n
      BY <2>1 DEF Target
    <3> QED
      BY <1>7, <2>1, <3>1
  <2>2. CASE request.kind = "cur"
    <3>1. Target = cursor + n - a
      BY <2>2 DEF Target
    <3>2. /\ n \in Int /\ a \in Nat /\ cursor \in Nat /\ Position = cursor - a
          /\ Position + n <= l
      BY <1>5, <1>6, <1>7, <2>2
    <3> HIDE DEF n, a, l
    <3>3. Target = Position + n /\ Target \in Int /\ Target <= l
      BY <3>1, <3>2
    <3> QED
      BY <2>2, <3>3 DEF n, l
  <2>3. CASE request.kind = "end"
    <3>1. Target = l + n
      BY <2>3 DEF Target
    <3>2. n \in Int /\ l \in Nat /\ n <= 0
      BY <1>7, <1>8, <2>3
    <3> HIDE DEF n, l
    <3>3. Target \in Int /\ Target <= l
      BY <3>1, <3>2
    <3> QED
      BY <2>3, <3>1, <3>3 DEF n, l
  <2> QED
    BY <2>1, <2>2, <2>3 DEF Seeks
<1> QED
  BY <1>2, <1>3, <1>4, <1>5, <1>6, <1>7, <1>8, <1>9

LEMMA Sought ==
    ASSUME FileInv, Sound, ~Lost, ~Lost', SeekDone
    PROVE  Sound' /\ Promised
<1>1. /\ op.stage = "last" /\ request.kind \in Seeks /\ busy = "idle"
      /\ Target >= 0 /\ cursor' = Target /\ turn' = "any"
      /\ op' = NoOp /\ result' = File!At(Target)
      /\ UNCHANGED <<disk, append, readBuf, writeBuf, inflight, busy, request, broken, repeated>>
  BY DEF SeekDone, Return, bufVars, tokioVars, ghosts
<1>2. op'.stage = "none" /\ op'.acc = <<>> /\ op'.direct = <<>> /\ op'.keep = <<>>
  BY <1>1 DEF NoOp
<1>3. Strings /\ Holding
  BY DEF Sound
<1>4. /\ Pending = <<>> /\ readBuf = <<>> /\ Content = disk
      /\ op.direct = <<>> /\ op.keep = <<>> /\ Len(disk) \in Nat
      /\ Target = (CASE request.kind = "set" -> 0 [] request.kind = "cur" -> Position
                     [] request.kind = "end" -> Len(disk)) + request.n
      /\ Target \in Int /\ Target <= Len(disk)
  BY <1>1, Seeking
<1>5. Len(<<>>) = 0 /\ <<>> \in Seq(Byte)
  BY EmptyString
<1>6. Pending' = <<>> /\ Content' = disk
  BY <1>1, <1>4 DEF Pending, Content
<1>7. Position' = Target
  <2>1. Position' = Target - Len(<<>>) - Len(<<>>)
    BY <1>1, <1>2, <1>4, <1>6 DEF Position
  <2>2. Target - Len(<<>>) - Len(<<>>) = Target
    <3> DEFINE t == Target
    <3>1. t \in Int
      BY <1>4
    <3> HIDE DEF t
    <3>2. t - 0 - 0 = t
      BY <3>1
    <3> QED
      BY <1>5, <3>2 DEF t
  <2> QED
    BY <2>1, <2>2
<1>8. Sound'
  <2>1. cursor' \in 0..Len(disk')
    <3> DEFINE t == Target
               l == Len(disk)
    <3>1. t \in Int /\ t >= 0 /\ l \in Nat /\ t <= l
      BY <1>1, <1>4
    <3> HIDE DEF t, l
    <3>2. t \in 0..l
      BY <3>1
    <3> QED
      BY <1>1, <3>2 DEF t, l
  <2>2. disk' \in Seq(Byte)
    BY <1>1, <1>3 DEF Strings
  <2>3. Strings'
    BY <1>1, <1>2, <1>3, <1>5, <2>1, <2>2 DEF Strings
  <2>4. Turns' /\ Holding'
    BY <1>1, <1>2, <1>3, <1>4, <1>6 DEF Turns, Holding
  <2>5. ReadAhead'
    <3>1. Layout(disk', cursor', SubSeq(disk', 1, cursor'), <<>>, <<>>,
                 SubSeq(disk', cursor' + 1, Len(disk')))
      BY <2>1, <2>2, LayoutAt
    <3> QED
      BY <1>1, <1>2, <1>4, <3>1 DEF ReadAhead
  <2>6. InProgress'
    BY <1>2 DEF InProgress
  <2> QED
    BY <2>3, <2>4, <2>5, <2>6 DEF Sound
<1>9. File!Seek
  <2>1. (broken' \/ repeated' \/ request'.kind = "drop")
         = (broken \/ repeated \/ request.kind = "drop")
    BY <1>1
  <2>2. op'.direct \o op'.keep = op.direct \o op.keep
    BY <1>2, <1>4
  <2>3. Position' = (CASE request'.kind = "set" -> 0 [] request'.kind = "cur" -> Position
                       [] request'.kind = "end" -> Len(Content)) + request'.n
    BY <1>1, <1>4, <1>7
  <2>4. result' = File!At(Position') /\ request'.kind \in {"set", "cur", "end"}
        /\ request' = request /\ op'.stage = "none" /\ Content' = Content /\ append' = append
    BY <1>1, <1>2, <1>4, <1>6, <1>7 DEF Seeks
  <2> QED
    BY <2>1, <2>2, <2>3, <2>4 DEF File!Seek, File!SameCall, File!Return
<1> QED
  BY <1>8, <1>9 DEF Promised, File!Next

\* A call that is dropped, or a seek that is refused, gives up what it holds.
LEMMA Stopped ==
    ASSUME FileInv, Sound, ~Lost, ~Lost', Cancel \/ SeekFails
    PROVE  Sound' /\ Promised
<1>1. /\ op.stage # "none" /\ op' = NoOp
      /\ result' = File!None \/ (result' = File!Error /\ request.kind \in Seeks)
      /\ UNCHANGED <<disk, cursor, append, readBuf, writeBuf, inflight, busy,
                     request, turn>>
  <2>1. CASE Cancel
    <3>1. writeBuf' = <<>> \o writeBuf
      BY <2>1 DEF Cancel, KeepBuffer, Lost
    <3>2. writeBuf' = writeBuf
      BY <3>1, EmptyString DEF Sound, Strings
    <3> QED
      BY <2>1, <3>1, <3>2 DEF Cancel, osVars, FileInv, Stages
  <2>2. CASE SeekFails
    BY <2>2 DEF SeekFails, Return, osVars, bufVars, tokioVars, ghosts
  <2> QED
    BY <2>1, <2>2
<1>2. op'.stage = "none" /\ op'.acc = <<>> /\ op'.direct = <<>> /\ op'.keep = <<>>
  BY <1>1 DEF NoOp
<1>3. Strings /\ Turns /\ ReadAhead /\ Holding
  BY DEF Sound
<1>4. Pending' = Pending /\ WriteAt' = WriteAt
  BY <1>1 DEF Pending, WriteAt
<1>5. Content' = Content
  BY <1>1, <1>4 DEF Content
<1>6. /\ Len(op.acc) \in Nat /\ Len(readBuf) \in Nat /\ Len(<<>>) = 0
      /\ cursor \in Nat /\ <<>> \in Seq(Byte)
  BY <1>3, EmptyString DEF Strings
<1>7. Position' \in Position..Len(Content)
  <2>1. /\ Len(Content) \in Nat /\ Position \in 0..Len(Content)
        /\ Pending = <<>> => cursor <= Len(Content)
    BY <1>3, InsideFile
  <2>2. CASE Pending = <<>>
    <3> DEFINE r == Len(readBuf)
               a == Len(op.acc)
               l == Len(Content)
               q == Position'
    <3>1. /\ Position = cursor - r - a /\ q = cursor - r - 0
          /\ r \in Nat /\ a \in Nat /\ cursor \in Nat /\ l \in Nat /\ cursor <= l
      BY <1>1, <1>2, <1>4, <1>6, <2>1, <2>2 DEF Position
    <3> HIDE DEF r, a, l, q
    <3>2. q \in Position..l
      BY <3>1
    <3> QED
      BY <3>2 DEF q, l
  <2>3. CASE Pending # <<>>
    <3>1. Position' = Position
      BY <1>4, <2>3 DEF Position
    <3> QED
      BY <2>1, <3>1
  <2> QED
    BY <2>2, <2>3
<1>8. ASSUME Position' # Position
      PROVE  request.kind \notin {"write", "flush", "setvbuf", "close", "gc"}
  <2>1. op.acc # <<>>
    BY <1>1, <1>2, <1>4, <1>8 DEF Position
  <2>2. request.kind \in Reads \cup Seeks
    BY <1>3, <2>1 DEF Holding, FileInv, Stages
  <2> QED
    BY <2>2 DEF Reads, Seeks
<1>9. Sound'
  <2>1. Strings' /\ Turns' /\ Holding'
    BY <1>1, <1>2, <1>3, <1>4, <1>6 DEF Strings, Turns, Holding
  <2>2. ReadAhead'
    <3>1. PICK before, after : Layout(disk, cursor, before, op.acc, readBuf, after)
      BY <1>3 DEF ReadAhead
    <3>2. Layout(disk, cursor, before \o op.acc, <<>>, readBuf, after)
      BY <3>1, Released
    <3> QED
      BY <1>1, <1>2, <3>2 DEF ReadAhead
  <2>3. InProgress'
    BY <1>2 DEF InProgress
  <2> QED
    BY <2>1, <2>2, <2>3 DEF Sound
<1>10. File!Stop
  <2>1. (broken' \/ repeated' \/ request'.kind = "drop")
         = (broken \/ repeated \/ request.kind = "drop")
    BY DEF Lost
  <2>2. op'.direct \o op'.keep = <<>>
    BY <1>2, EmptyString
  <2> QED
    BY <1>1, <1>2, <1>5, <1>7, <1>8, <2>1, <2>2 DEF File!Stop, Seeks
<1> QED
  BY <1>9, <1>10 DEF Promised, File!Next

-----------------------------------------------------------------------------
LEMMA SoundAtFirst == Init => ByteInv
<1> SUFFICES ASSUME Init PROVE ByteInv
  OBVIOUS
<1>1. /\ disk \in Seq(Byte) /\ cursor = 0 /\ readBuf = <<>> /\ writeBuf = <<>>
      /\ inflight = <<>> /\ busy = "idle" /\ request.kind = "none"
      /\ op.stage = "none" /\ op.acc = <<>> /\ op.direct = <<>> /\ op.keep = <<>>
  BY FileAssumption DEF Init, NoOp, Byte
<1>2. Strings
  <2>1. Len(disk) \in Nat
    BY <1>1
  <2> QED
    BY <1>1, <2>1, EmptyString DEF Strings
<1>3. Turns /\ Holding /\ InProgress
  BY <1>1, EmptyString DEF Turns, Pending, Holding, InProgress
<1>4. ReadAhead
  <2>1. Layout(disk, 0, SubSeq(disk, 1, 0), <<>>, <<>>, SubSeq(disk, 0 + 1, Len(disk)))
    BY <1>2, <1>1, LayoutAt DEF Strings
  <2> QED
    BY <1>1, <2>1 DEF ReadAhead
<1>5. RequestShape
  BY DEF Init, RequestShape
<1> QED
  BY <1>1, <1>2, <1>3, <1>4, <1>5 DEF ByteInv, Sound

\* The requests of the calls.
LEMMA CallsAre ==
    ASSUME ReadCall \/ WriteCall \/ FlushCall \/ SetvbufCall \/ SeekCall
    PROVE  \E kind \in Reads \cup Flushes \cup Seeks \cup {"write", "setvbuf"} : \E n, data :
             request' = [kind |-> kind, n |-> n, data |-> data]
<1>1. CASE ReadCall
  <2>1. PICK kind \in Reads, n \in 0..ReadCap + 1 :
            request' = [kind |-> kind, n |-> n, data |-> <<>>]
    BY <1>1 DEF ReadCall, Call
  <2> QED
    BY <2>1
<1>2. CASE WriteCall
  <2>1. PICK d \in Blocks : request' = [kind |-> "write", n |-> 0, data |-> d]
    BY <1>2 DEF WriteCall, Call
  <2> QED
    BY <2>1
<1>3. CASE FlushCall
  <2>1. PICK kind \in Flushes : request' = [kind |-> kind, n |-> 0, data |-> <<>>]
    BY <1>3 DEF FlushCall, Call
  <2> QED
    BY <2>1
<1>4. CASE SetvbufCall
  <2>1. PICK n : request' = [kind |-> "setvbuf", n |-> n, data |-> <<>>]
    BY <1>4 DEF SetvbufCall, Call
  <2> QED
    BY <2>1
<1>5. CASE SeekCall
  <2>1. PICK kind \in Seeks, n \in -1..MaxLen : request' = [kind |-> kind, n |-> n, data |-> <<>>]
    BY <1>5 DEF SeekCall, Call
  <2> QED
    BY <2>1
<1> QED
  BY <1>1, <1>2, <1>3, <1>4, <1>5

\* A step that ends the promise is ByteFile's Break; every other one keeps the
\* invariant and is a step of ByteFile, or none.
LEMMA StaysSound ==
    ASSUME FileInv, ByteInv, [Next]_vars
    PROVE  ByteInv' /\ (~Lost => Promised)
<1>1. (request'.kind = "drop" => ~open') /\ RequestShape'
  <2>1. CASE ReadCall \/ WriteCall \/ FlushCall \/ SetvbufCall \/ SeekCall
    <3>1. \E kind \in Reads \cup Flushes \cup Seeks \cup {"write", "setvbuf"} : \E n, data :
              request' = [kind |-> kind, n |-> n, data |-> data]
      BY <2>1, CallsAre
    <3> QED
      BY <3>1 DEF Reads, Flushes, Seeks, RequestShape
  <2>2. CASE Drop
    BY <2>2 DEF Drop, ByteInv, RequestShape
  <2>3. CASE FlushDone
    BY <2>3 DEF FlushDone, Flushes, ByteInv, RequestShape
  <2>4. CASE CloseAnyway
    BY <2>4 DEF CloseAnyway, ByteInv, RequestShape
  <2>5. CASE UNCHANGED <<open, request>>
    BY <2>5 DEF ByteInv, RequestShape
  <2>6. CASE \/ Fill \/ EndOfFile \/ HandBuffer \/ HandDirect \/ Background \/ Settle
             \/ WriteFails \/ WriteDone \/ FlushedFirst \/ SetvbufDone
             \/ SeekDone \/ SeekFails \/ Cancel \/ Idle \/ UNCHANGED vars
    BY <2>5, <2>6 DEF Fill, EndOfFile, HandBuffer, HandDirect, Background, Settle,
       WriteFails, WriteDone, FlushedFirst, SetvbufDone, SeekDone, SeekFails, Cancel,
       Idle, bufVars, vars
  <2> QED
    BY <2>1, <2>2, <2>3, <2>4, <2>6 DEF Next
<1>2. Lost => Lost'
  <2>1. broken => broken'
    BY DEF Next, vars, ghosts, ReadCall, Fill, EndOfFile, WriteCall, HandBuffer, HandDirect,
       Background, Settle, WriteFails, CloseAnyway, WriteDone, FlushCall, SetvbufCall,
       SeekCall, FlushedFirst, FlushDone, SetvbufDone, SeekDone, SeekFails, Cancel, Drop, Idle
  <2>2. request.kind = "drop" => request'.kind = "drop"
    <3> SUFFICES ASSUME request.kind = "drop" PROVE request' = request \/ Drop
      BY DEF Drop, ByteInv, RequestShape
    <3>1. ~open
      BY DEF ByteInv
    <3> QED
      BY <3>1 DEF Next, vars, Call, ReadCall, Fill, EndOfFile, WriteCall, HandBuffer,
         HandDirect, Background, Settle, WriteFails, CloseAnyway, WriteDone, FlushCall,
         SetvbufCall, SeekCall, FlushedFirst, FlushDone, SetvbufDone, SeekDone, SeekFails,
         Cancel, Idle
  <2>3. repeated => repeated'
    <3>1. CASE Cancel
      BY <3>1 DEF Cancel
    <3>2. CASE ~Cancel
      BY <3>2 DEF Next, vars, ghosts, ReadCall, Fill, EndOfFile, WriteCall, HandBuffer,
         HandDirect, Background, Settle, WriteFails, CloseAnyway, WriteDone, FlushCall,
         SetvbufCall, SeekCall, FlushedFirst, FlushDone, SetvbufDone, SeekDone, SeekFails,
         Drop, Idle
    <3> QED
      BY <3>1, <3>2
  <2> QED
    BY <2>1, <2>2, <2>3 DEF Lost
<1>3. CASE Lost'
  <2>1. File!Break
    BY <1>3 DEF File!Break, Lost
  <2> QED
    BY <1>1, <1>3, <2>1 DEF ByteInv, Promised, File!Next
<1>4. CASE ~Lost'
  <2>1. ~Lost /\ Sound
    BY <1>2, <1>4 DEF ByteInv
  <2>2. Sound' /\ Promised
    <3>1. ~WriteFails /\ ~CloseAnyway
      BY <2>1 DEF WriteFails, CloseAnyway, Failing, FileInv, Kept, Lost
    <3>2. ~Drop
      BY <1>4 DEF Drop, Lost, ByteInv, RequestShape
    <3>3. CASE Idle \/ UNCHANGED vars
      <4>1. UNCHANGED vars
        BY <3>3 DEF Idle
      <4>2. UNCHANGED <<disk, cursor, append, readBuf, writeBuf, inflight, busy,
                        op, request, result, turn, broken, repeated>>
        BY <4>1 DEF vars, osVars, bufVars, tokioVars, ghosts
      <4>3. writeBuf' \in Seq(Byte) /\ inflight' \in Seq(Byte) /\ Pending' = Pending
            /\ (busy' = "writing" => inflight' # <<>>)
        BY <2>1, <4>2 DEF Sound, Strings, Holding, Pending
      <4>4. Sound' /\ Content' = Content /\ Position' = Position
        BY <2>1, <4>2, <4>3, Undisturbed
      <4> QED
        BY <4>2, <4>4, Stutters
    <3> QED
      BY <1>4, <2>1, <3>1, <3>2, <3>3, ReadCalled, Filled, Ended, WriteCalled, BufferHanded,
         DirectHanded, WroteInBackground, Settled, Written, FlushCalled, SeekCalled,
         WentOn, FlushReturned, Sought, Stopped DEF Next
  <2> QED
    BY <1>1, <2>1, <2>2 DEF ByteInv
<1> QED
  BY <1>3, <1>4

\* A program that keeps the rule of C streams cannot tell the handle from a
\* sequence of bytes with one position, whatever the buffers, the short reads,
\* the cancelled calls and the background writes do, until the system fails to
\* write, an open handle is dropped, or a call is cancelled between two chunks
\* of a buffer that tokio does not take at once.
THEOREM BuffersDoNotShow == Spec => IsByteFile
<1>1. Init => File!Init
  <2> SUFFICES ASSUME Init PROVE File!Init
    OBVIOUS
  <2>1. /\ disk \in Seq({"D", "R", "N"}) /\ cursor = 0 /\ readBuf = <<>>
        /\ writeBuf = <<>> /\ inflight = <<>> /\ append \in BOOLEAN
        /\ request = [kind |-> "none", n |-> 0, data |-> <<>>] /\ result = File!None
        /\ op.stage = "none" /\ op.acc = <<>> /\ op.direct = <<>> /\ op.keep = <<>>
        /\ ~broken /\ ~repeated
    BY FileAssumption DEF Init, NoOp
  <2>2. Pending = <<>> /\ op.direct \o op.keep = <<>> /\ Len(<<>>) = 0
    BY <2>1, EmptyString DEF Pending
  <2>3. Content = disk /\ Position = 0
    <3>1. Content = disk /\ Position = 0 - Len(<<>>) - Len(<<>>)
      BY <2>1, <2>2 DEF Content, Position
    <3>2. 0 - 0 - 0 = 0
      OBVIOUS
    <3> QED
      BY <2>2, <3>1, <3>2
  <2>4. {"D", "R", "N"} = File!Whitespace \cup {File!Digit}
    BY DEF File!Whitespace, File!Digit
  <2>5. Content \in Seq(File!Whitespace \cup {File!Digit})
    BY <2>1, <2>3, <2>4
  <2> QED
    BY <2>1, <2>2, <2>3, <2>5 DEF File!Init
<1>2. ASSUME FileInv, ByteInv, [Next]_vars
      PROVE  [~(broken \/ repeated \/ request.kind = "drop") => File!Next]_(File!vars)
  BY <1>2, StaysSound DEF Promised, Lost
<1> QED
  BY <1>1, <1>2, SoundAtFirst, StaysSound, Invariance, PTL DEF Spec, IsByteFile, File!Spec
=============================================================================
