---------------------------- MODULE BufferedFile ----------------------------
(***************************************************************************)
(* A file handle: TokioFileOps under LuaFile's methods.  It keeps its own  *)
(* read and write buffers over a tokio File, which hands every write to a  *)
(* blocking thread and learns of its end, or of its failure, at a later    *)
(* operation.  A call runs from await to await; its task may be cancelled  *)
(* at each, and the background write then finishes by itself.              *)
(*                                                                         *)
(* LuaFile's mutex serialises the calls, so one is in progress at a time.  *)
(* The bytes are digits (D), carriage returns (R) and newlines (N).  The   *)
(* program keeps the rule of C streams (variable turn), and seeks inside   *)
(* the file.                                                               *)
(***************************************************************************)
EXTENDS Integers, Sequences

CONSTANTS Start,      \* the contents the file may have when it is opened
          Blocks,     \* the byte strings the program writes
          ReadCap,    \* DEFAULT_BUF_SIZE of the read buffer
          WriteCap,   \* the size given to setvbuf, and the default
          Chunk,      \* tokio's max_buf_size: one background write takes no more
          MaxLen      \* bound: no write is made beyond it

ASSUME FileAssumption ==
    /\ ReadCap \in Nat \ {0} /\ WriteCap \in Nat \ {0}
    /\ Chunk \in Nat \ {0} /\ MaxLen \in Nat
    /\ \A d \in Start : d \in Seq({"D", "R", "N"})
    /\ \A d \in Blocks : d \in Seq({"D", "R", "N"}) /\ d # <<>>

VARIABLES disk,       \* the file as the system has it
          cursor,     \* the system's position, after what was read ahead
          append,     \* the O_APPEND of modes "a" and "a+"
          readBuf,    \* read_buf[read_pos..read_len]
          writeBuf,   \* write_buf, without the bytes in handed
          mode,       \* buf_mode: "no", "full" or "line"
          open,       \* LuaFile.inner is Some
          request,    \* the last call
          op,         \* how far it is
          result,     \* what the last call that returned has returned
          busy,       \* tokio's File: "idle", "writing", "wrote" or "failed"
          inflight,   \* the bytes of the background write
          werr,       \* tokio's last_write_err
          handed,     \* the start of write_buf that the write_all in progress
                      \* has given to tokio, chunk by chunk
          turn,       \* which calls C allows: "any", "read" or "write"
          owed,       \* ghost: a failure no call has returned yet
          broken,     \* ghost: a write has failed
          repeated    \* ghost: bytes tokio was given are in write_buf again

osVars == <<disk, cursor, append>>
bufVars == <<readBuf, writeBuf, mode, open>>
tokioVars == <<busy, inflight, werr, handed>>
ghosts == <<owed, broken, repeated>>
vars == <<osVars, bufVars, request, op, result, tokioVars, turn, ghosts>>

Pending == inflight \o writeBuf
WriteAt == IF append THEN Len(disk) ELSE cursor

Overlay(c, p, s) == SubSeq(c, 1, p) \o s \o SubSeq(c, p + Len(s) + 1, Len(c))
Content == IF Pending = <<>> THEN disk ELSE Overlay(disk, WriteAt, Pending)
Position == IF Pending = <<>> THEN cursor - Len(readBuf) - Len(op.acc)
            ELSE WriteAt + Len(Pending)

File == INSTANCE ByteFile WITH content <- Content, pos <- Position,
                               calling <- op.stage # "none",
                               rest <- op.direct \o op.keep,
                               broken <- broken \/ repeated \/ request.kind = "drop"

Reads == {"bytes", "line", "wholeLine", "all", "number"}
Seeks == {"set", "cur", "end"}

\* stage "out" hands buffered and direct bytes to tokio, "last" is what the
\* call does after that, "fill" waits for the read buffer; acc holds the bytes
\* a read has consumed, or those a seek throws away.
NoOp == [stage |-> "none", acc |-> <<>>, direct |-> <<>>, keep |-> <<>>]

Init == /\ disk \in Start
        /\ cursor = 0
        /\ append \in BOOLEAN
        /\ readBuf = <<>> /\ writeBuf = <<>>
        /\ mode = "full"
        /\ open = TRUE
        /\ request = [kind |-> "none", n |-> 0, data |-> <<>>]
        /\ op = NoOp
        /\ result = File!None
        /\ busy = "idle" /\ inflight = <<>> /\ werr = FALSE /\ handed = <<>>
        /\ turn = "any"
        /\ owed = FALSE /\ broken = FALSE /\ repeated = FALSE

Call(kind, n, data) ==
    /\ open
    /\ op = NoOp
    /\ request' = [kind |-> kind, n |-> n, data |-> data]

Return(r) == op' = NoOp /\ result' = r
Fail == Return(File!Error) /\ owed' = FALSE

\* --- Reading -------------------------------------------------------------

\* How much of the buffer the read req, which has consumed acc, takes: all of
\* it, unless the buffer holds where it ends.
Taken(req, acc, buf) ==
    LET digits(s) == File!Span(s, {"D"})
        skipped == IF File!Number(acc) = <<>> THEN File!Span(buf, File!Whitespace) ELSE 0
        room == req.n - Len(acc)
        newline == File!LineEnd(buf)
        upTo(n) == IF n < Len(buf) THEN n ELSE Len(buf)
    IN CASE req.kind = "bytes" -> upTo(room)
         [] req.kind \in {"line", "wholeLine"} -> upTo(newline)
         [] req.kind = "all" -> Len(buf)
         [] req.kind = "number" ->
                skipped + digits(SubSeq(buf, skipped + 1, Len(buf)))

Ends(req, acc, buf) ==
    CASE req.kind = "bytes" -> Len(acc) + Taken(req, acc, buf) = req.n
      [] req.kind \in {"line", "wholeLine"} -> File!LineEnd(buf) <= Len(buf)
      [] req.kind = "all" -> FALSE
      [] req.kind = "number" -> Taken(req, acc, buf) < Len(buf)

\* What read_one makes of the bytes consumed, at the end of the file or not.
Value(req, acc, eof) ==
    LET text == CASE req.kind = "number" -> File!Number(acc)
                  [] req.kind = "line" /\ ~eof -> File!Chop(SubSeq(acc, 1, Len(acc) - 1))
                  [] OTHER -> acc
        empty == (req.kind = "line" /\ ~eof) \/ req.kind = "all"
    IN IF text = <<>> /\ ~empty THEN File!Nil ELSE File!Bytes(text)

\* One turn of the loops of read_bytes, read_line, read_all and read_number.
Scan(req, acc, buf) ==
    LET n == Taken(req, acc, buf)
        got == acc \o SubSeq(buf, 1, n)
    IN /\ readBuf' = SubSeq(buf, n + 1, Len(buf))
       /\ IF Ends(req, acc, buf)
            THEN Return(Value(req, got, FALSE))
            ELSE op' = [NoOp EXCEPT !.stage = "fill", !.acc = got] /\ result' = File!None

ReadCall == \E kind \in Reads, n \in 0..ReadCap + 1 :
    /\ kind # "bytes" => n = 0
    /\ Call(kind, n, <<>>)
    /\ turn # "write" /\ turn' = "read"
    /\ Scan(request', <<>>, readBuf)
    /\ UNCHANGED <<osVars, writeBuf, mode, open, tokioVars, ghosts>>

\* fill_buf, or one read of read_to_end: the system may return fewer bytes
\* than there are.
Fill == \E n \in 1..Len(disk) - cursor :
    /\ op.stage = "fill"
    /\ busy = "idle"
    /\ request.kind # "all" => n <= ReadCap
    /\ cursor' = cursor + n
    /\ Scan(request, op.acc, SubSeq(disk, cursor + 1, cursor + n))
    /\ UNCHANGED <<disk, append, writeBuf, mode, open, request, tokioVars, turn, ghosts>>

EndOfFile ==
    /\ op.stage = "fill"
    /\ busy = "idle"
    /\ cursor = Len(disk)
    /\ Return(Value(request, op.acc, TRUE))
    /\ turn' = "any"
    /\ UNCHANGED <<osVars, bufVars, request, tokioVars, ghosts>>

\* --- Writing -------------------------------------------------------------

LastNewline(d) == CHOOSE n \in 0..Len(d) :
    /\ n = 0 \/ d[n] = "N"
    /\ \A m \in n + 1..Len(d) : d[m] # "N"

\* write_bytes: what goes straight to tokio and what stays in the buffer.
Plan(d) ==
    LET through == LastNewline(d) IN
    CASE mode = "no" -> [direct |-> d, keep |-> <<>>]
      [] mode = "line" /\ through > 0 ->
            [direct |-> SubSeq(d, 1, through), keep |-> SubSeq(d, through + 1, Len(d))]
      [] OTHER -> IF Len(d) >= WriteCap THEN [direct |-> d, keep |-> <<>>]
                  ELSE [direct |-> <<>>, keep |-> d]

Fits(d) == /\ mode = "full" \/ (mode = "line" /\ LastNewline(d) = 0)
           /\ Len(writeBuf) + Len(d) <= WriteCap

WriteCall == \E d \in Blocks :
    /\ Call("write", 0, d)
    /\ turn # "read" /\ turn' = "write"
    /\ WriteAt + Len(Pending) + Len(d) <= MaxLen
    /\ IF Fits(d)
         THEN writeBuf' = writeBuf \o d /\ Return(File!Ok)
         ELSE /\ op' = [NoOp EXCEPT !.stage = "out", !.direct = Plan(d).direct,
                                    !.keep = Plan(d).keep]
              /\ UNCHANGED writeBuf /\ result' = File!None
    /\ UNCHANGED <<osVars, readBuf, mode, open, tokioVars, ghosts>>

\* How many bytes of d tokio's File takes at once.
Portion(d) == IF Len(d) < Chunk THEN Len(d) ELSE Chunk

\* flush_write_buf: write_all gives an idle File one chunk after the other and
\* waits for the write in between; the buffer is cleared when it has them all,
\* before the flush is awaited.
HandBuffer ==
    LET n == Portion(writeBuf) IN
    /\ op.stage = "out"
    /\ busy = "idle" /\ ~werr
    /\ writeBuf # <<>>
    /\ inflight' = SubSeq(writeBuf, 1, n)
    /\ writeBuf' = SubSeq(writeBuf, n + 1, Len(writeBuf))
    /\ handed' = IF writeBuf' = <<>> THEN <<>> ELSE handed \o inflight'
    /\ busy' = "writing"
    /\ UNCHANGED <<osVars, readBuf, mode, open, request, op, result, werr, turn, ghosts>>

\* A write_all that does not end leaves the buffer as it was.
KeepBuffer == writeBuf' = handed \o writeBuf /\ handed' = <<>>

HandDirect ==
    LET n == Portion(op.direct) IN
    /\ op.stage = "out"
    /\ busy = "idle" /\ ~werr
    /\ writeBuf = <<>> /\ op.direct # <<>>
    /\ inflight' = SubSeq(op.direct, 1, n)
    /\ op' = [op EXCEPT !.direct = SubSeq(@, n + 1, Len(@))]
    /\ busy' = "writing"
    /\ UNCHANGED <<osVars, bufVars, request, result, werr, handed, turn, ghosts>>

\* The blocking thread writes what it was given, or fails after a part of it.
Background == \E n \in 0..Len(inflight) :
    /\ busy = "writing"
    /\ n < Len(inflight) => ~broken               \* bound: one failure
    /\ disk' = IF n = 0 THEN disk
               ELSE Overlay(disk, WriteAt, SubSeq(inflight, 1, n))
    /\ cursor' = WriteAt + n
    /\ inflight' = <<>>
    /\ IF n = Len(inflight)
         THEN busy' = "wrote" /\ UNCHANGED ghosts
         ELSE busy' = "failed" /\ owed' = TRUE /\ broken' = TRUE /\ UNCHANGED repeated
    /\ UNCHANGED <<append, bufVars, request, op, result, werr, handed, turn>>

\* The call asks tokio for the end of a background write.  A seek only waits
\* for it and keeps a failure for the next write or flush; the others return it.
Flushes == {"flush", "close", "gc"}
Notices == \/ op.stage = "out"
           \/ op.stage = "last" /\ request.kind \in Flushes

\* Fault: the end of a background write is taken for success.
SettleForgetting ==
    /\ Notices => busy = "wrote"
    /\ ~Notices => op.stage = "last" /\ request.kind \in Seeks
    /\ busy \in {"wrote", "failed"}
    /\ busy' = "idle"
    /\ UNCHANGED <<osVars, bufVars, request, op, result, inflight, werr, handed, turn,
                   ghosts>>

Settle ==
    /\ busy \in {"wrote", "failed"}
    /\ Notices => busy = "wrote"
    /\ ~Notices => op.stage = "last" /\ request.kind \in Seeks
    /\ busy' = "idle"
    /\ werr' = (busy = "failed" \/ werr)
    /\ UNCHANGED <<osVars, bufVars, request, op, result, inflight, handed, turn, ghosts>>

Failing == busy = "failed" \/ (busy = "idle" /\ werr)

\* close's first flush is best-effort; gc_close ignores every failure.
Swallows == (request.kind = "close" /\ op.stage = "out") \/ request.kind = "gc"

WriteFails ==
    /\ Notices
    /\ Failing
    /\ op.stage = "out" => busy = "failed" \/ writeBuf # <<>> \/ op.direct # <<>>
    /\ ~Swallows
    /\ Fail
    /\ busy' = "idle" /\ werr' = FALSE
    /\ KeepBuffer
    /\ UNCHANGED <<osVars, readBuf, mode, open, request, inflight, turn, broken, repeated>>

CloseAnyway ==
    /\ Notices
    /\ Failing
    /\ Swallows
    /\ open' = FALSE
    /\ Return(File!Ok)
    /\ busy' = "idle" /\ werr' = FALSE
    /\ KeepBuffer
    /\ UNCHANGED <<osVars, readBuf, mode, request, inflight, turn, ghosts>>

WriteDone ==
    /\ op.stage = "out" /\ request.kind = "write"
    /\ busy = "idle" /\ writeBuf = <<>> /\ op.direct = <<>>
    /\ writeBuf' = op.keep
    /\ Return(File!Ok)
    /\ UNCHANGED <<osVars, readBuf, mode, open, request, tokioVars, turn, ghosts>>

\* --- The calls that flush first ------------------------------------------

Modes == <<"no", "full", "line">>

\* flush_write_buf does nothing when the buffer is empty.
Stage == IF writeBuf = <<>> THEN "last" ELSE "out"

FlushCall == \E kind \in Flushes :
    /\ Call(kind, 0, <<>>)
    /\ op' = [NoOp EXCEPT !.stage = Stage]
    /\ result' = File!None
    /\ UNCHANGED <<osVars, bufVars, tokioVars, turn, ghosts>>

SetvbufCall == \E n \in DOMAIN Modes :
    /\ Call("setvbuf", n, <<>>)
    /\ op' = [NoOp EXCEPT !.stage = Stage]
    /\ result' = File!None
    /\ UNCHANGED <<osVars, bufVars, tokioVars, turn, ghosts>>

SeekCall == \E kind \in Seeks, n \in -1..MaxLen :
    LET base == CASE kind = "set" -> 0 [] kind = "cur" -> Position
                  [] kind = "end" -> Len(Content)
    IN
    /\ Call(kind, n, <<>>)
    /\ base + n \in -1..Len(Content)             \* bound: inside the file, or refused
    /\ op' = [NoOp EXCEPT !.stage = Stage, !.acc = IF writeBuf = <<>> THEN readBuf ELSE <<>>]
    /\ readBuf' = IF writeBuf = <<>> THEN <<>> ELSE readBuf
    /\ result' = File!None
    /\ UNCHANGED <<osVars, writeBuf, mode, open, tokioVars, turn, ghosts>>

\* The buffer is out.  A seek goes on with the adjustment for what was read
\* ahead, and throws that away before it awaits the system.
FlushedFirst ==
    /\ op.stage = "out" /\ request.kind # "write"
    /\ busy = "idle" /\ writeBuf = <<>>
    /\ LET thrown == IF request.kind \in Seeks THEN readBuf ELSE <<>> IN
       /\ op' = [op EXCEPT !.stage = "last", !.acc = thrown]
       /\ readBuf' = IF request.kind \in Seeks THEN <<>> ELSE readBuf
    /\ UNCHANGED <<osVars, writeBuf, mode, open, request, result, tokioVars, turn, ghosts>>

\* Fault: a flush that does not wait for the write in the background.
FlushDoneEarly ==
    /\ op.stage = "last" /\ request.kind \in Flushes
    /\ open' = (request.kind = "flush")
    /\ turn' = IF turn = "read" THEN "read" ELSE "any"
    /\ Return(File!Ok)
    /\ UNCHANGED <<osVars, readBuf, writeBuf, mode, request, tokioVars, ghosts>>

FlushDone ==
    /\ op.stage = "last" /\ request.kind \in Flushes
    /\ busy = "idle" /\ ~werr
    /\ open' = (request.kind = "flush")
    /\ turn' = IF turn = "read" THEN "read" ELSE "any"
    /\ Return(File!Ok)
    /\ UNCHANGED <<osVars, readBuf, writeBuf, mode, request, tokioVars, ghosts>>

SetvbufDone ==
    /\ op.stage = "last" /\ request.kind = "setvbuf"
    /\ mode' = Modes[request.n]
    /\ Return(File!Ok)
    /\ UNCHANGED <<osVars, readBuf, writeBuf, open, request, tokioVars, turn, ghosts>>

\* Fault: a seek from the current position that forgets the read-ahead.
TargetUnadjusted == CASE request.kind = "set" -> request.n
                      [] request.kind = "cur" -> cursor + request.n
                      [] request.kind = "end" -> Len(disk) + request.n

Target == CASE request.kind = "set" -> request.n
            [] request.kind = "cur" -> cursor + request.n - Len(op.acc)
            [] request.kind = "end" -> Len(disk) + request.n

SeekDone ==
    /\ op.stage = "last" /\ request.kind \in Seeks
    /\ busy = "idle"
    /\ Target >= 0
    /\ cursor' = Target
    /\ turn' = "any"
    /\ Return(File!At(Target))
    /\ UNCHANGED <<disk, append, bufVars, request, tokioVars, ghosts>>

\* A position before the start of the file is refused.
SeekFails ==
    /\ op.stage = "last" /\ request.kind \in Seeks
    /\ busy = "idle"
    /\ Target < 0
    /\ Return(File!Error)
    /\ UNCHANGED <<osVars, bufVars, request, tokioVars, turn, ghosts>>

\* The task of the call is dropped at one of its awaits.  Between two chunks
\* of the buffer that leaves the first in write_buf, though tokio has it.
Cancel ==
    /\ op.stage # "none"
    /\ \/ op.stage = "fill"
       \/ op.stage = "last" /\ request.kind \in Seeks
       \/ busy # "idle"
    /\ handed # <<>> => ~repeated                 \* bound: one repetition
    /\ op' = NoOp
    /\ KeepBuffer
    /\ repeated' = (repeated \/ handed # <<>>)
    /\ UNCHANGED <<osVars, readBuf, mode, open, request, result, busy, inflight, werr,
                   turn, owed, broken>>

\* The last reference to an open handle goes: nothing flushes its buffer.
Drop == /\ open /\ op = NoOp
        /\ open' = FALSE
        /\ request' = [request EXCEPT !.kind = "drop"]
        /\ UNCHANGED <<osVars, readBuf, writeBuf, mode, op, result, tokioVars,
                       turn, ghosts>>

Idle == ~open /\ busy # "writing" /\ UNCHANGED vars

Next == \/ ReadCall \/ Fill \/ EndOfFile
        \/ WriteCall \/ HandBuffer \/ HandDirect \/ Background
        \/ Settle \/ WriteFails \/ CloseAnyway \/ WriteDone
        \/ FlushCall \/ SetvbufCall \/ SeekCall \/ FlushedFirst
        \/ FlushDone \/ SetvbufDone \/ SeekDone \/ SeekFails
        \/ Cancel \/ Drop \/ Idle

Spec == Init /\ [][Next]_vars

-----------------------------------------------------------------------------
\* Buffers, short reads, cancelled calls and background writes do not show: a
\* program sees one sequence of bytes and one position, until the system fails
\* to write, an open handle is dropped with bytes in its buffer, or a call is
\* cancelled between two chunks of a buffer that tokio does not take at once.
IsByteFile == File!Spec

\* Bytes that tokio was given are never in write_buf again, to be written a
\* second time.  The code keeps this only for buffers of at most Chunk bytes:
\* write_buf is cleared when all of it is handed over.
NoneTwice == ~repeated

\* A flush or a close that returns success has everything the program wrote
\* on disk, as long as no write has failed: the write a cancelled call left in
\* the background included.
SuccessMeansOnDisk ==
    [][/\ op.stage # "none" /\ op' = NoOp
       /\ request.kind \in Flushes /\ result' = File!Ok /\ ~broken'
       => Pending' = <<>> /\ disk' = Content]_vars

\* A failed write reaches the program: until a call returns the error, tokio
\* keeps it for the next one, whichever calls are cancelled in between (only a
\* close swallows it); and in "no" mode, where the write itself is to report it,
\* nothing waits in the buffer, as write_bytes asserts.
NoSilentLoss ==
    /\ open /\ owed => werr \/ busy = "failed"
    /\ mode = "no" => writeBuf = <<>> /\ handed = <<>>

\* A close that returns success has not lost anything: "surfaces errors
\* immediately", says the documentation of the handle.
CloseSurfacesErrors ==
    [][request.kind = "close" /\ op.stage # "none" /\ result' = File!Ok => ~owed]_vars
=============================================================================
