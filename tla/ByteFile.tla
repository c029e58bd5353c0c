------------------------------ MODULE ByteFile ------------------------------
(***************************************************************************)
(* What a file handle promises a program that keeps the rule of C streams  *)
(* (reposition or flush between a write and a read, reposition between a   *)
(* read and a write): one sequence of bytes and one position in it, as if  *)
(* there were no buffers.  The promise holds until the system fails to     *)
(* write bytes it was given; "broken" records that it has.                 *)
(***************************************************************************)
EXTENDS Integers, Sequences

VARIABLES content,    \* the bytes of the file, the buffered ones included
          pos,        \* the position of the next read or write
          request,    \* the last call: its kind, a number and bytes
          calling,    \* whether that call has not returned yet
          rest,       \* the bytes of that write that are not in content yet
          result,     \* what the last call that returned has returned
          append,     \* opened with "a": every write goes to the end
          broken

vars == <<content, pos, request, calling, rest, result, append, broken>>

Whitespace == {"R", "N"}            \* carriage return, newline
Digit == "D"

None == [what |-> "none", bytes |-> <<>>, at |-> 0]     \* a call that has not returned
Ok == [what |-> "ok", bytes |-> <<>>, at |-> 0]
Error == [what |-> "error", bytes |-> <<>>, at |-> 0]
Nil == [what |-> "nil", bytes |-> <<>>, at |-> 0]
Bytes(s) == [what |-> "bytes", bytes |-> s, at |-> 0]
At(p) == [what |-> "at", bytes |-> <<>>, at |-> p]

First(s, n) == SubSeq(s, 1, n)
From(s, n) == SubSeq(s, n + 1, Len(s))
Least(S) == CHOOSE n \in S : \A m \in S : n <= m

\* s written over c from position p on.
Overlay(c, p, s) == First(c, p) \o s \o From(c, p + Len(s))

\* How many bytes at the start of s are all in S.
Span(s, S) == Least({n \in 0..Len(s) : n = Len(s) \/ s[n + 1] \notin S})

\* What a read of kind k returns and how much it consumes, of all the bytes s
\* that lie ahead: this definition sees no buffer.
LineEnd(s) == Span(s, {"D", "R"}) + 1
Chop(l) == IF l # <<>> /\ l[Len(l)] = "R" THEN First(l, Len(l) - 1) ELSE l
Number(s) == LET w == Span(s, Whitespace) IN
             First(From(s, w), Span(From(s, w), {Digit}))

Answer(k, n, s) ==
    CASE k = "bytes" -> LET d == First(s, IF n < Len(s) THEN n ELSE Len(s))
                        IN <<IF d = <<>> THEN Nil ELSE Bytes(d), Len(d)>>
      [] k = "all" -> <<Bytes(s), Len(s)>>
      [] k = "number" -> <<IF Number(s) = <<>> THEN Nil ELSE Bytes(Number(s)),
                           Span(s, Whitespace) + Len(Number(s))>>
      [] k \in {"line", "wholeLine"} /\ LineEnd(s) > Len(s) ->
            <<IF s = <<>> THEN Nil ELSE Bytes(s), Len(s)>>
      [] k = "line" /\ LineEnd(s) <= Len(s) ->
            <<Bytes(Chop(First(s, LineEnd(s) - 1))), LineEnd(s)>>
      [] k = "wholeLine" /\ LineEnd(s) <= Len(s) ->
            <<Bytes(First(s, LineEnd(s))), LineEnd(s)>>

Init == /\ content \in Seq(Whitespace \cup {Digit})
        /\ pos = 0
        /\ request = [kind |-> "none", n |-> 0, data |-> <<>>]
        /\ ~calling
        /\ rest = <<>>
        /\ result = None
        /\ append \in BOOLEAN
        /\ ~broken

\* Every step below is one of the call "request'": a new one, unless a call
\* has not returned.  Return answers it with r.
SameCall == calling => request' = request
Return(r) == ~calling' /\ result' = r

Begin == /\ ~calling
         /\ calling'
         /\ rest' = request'.data
         /\ result' = None
         /\ UNCHANGED <<content, pos, append, broken>>

Read == LET answer == Answer(request'.kind, request'.n, From(content, pos)) IN
        /\ request'.kind \in {"bytes", "line", "wholeLine", "all", "number"}
        /\ SameCall
        /\ Return(answer[1])
        /\ pos' = pos + answer[2]
        /\ UNCHANGED <<content, rest, append, broken>>

\* A write puts its bytes in order, in one step or several, and returns Ok
\* only when it has put them all.
Put == \E n \in 0..Len(request'.data) :
    LET d == IF calling THEN rest ELSE request'.data
        at == IF append THEN Len(content) ELSE pos
    IN
    /\ request'.kind = "write"
    /\ SameCall
    /\ n <= Len(d)
    /\ content' = IF n = 0 THEN content ELSE Overlay(content, at, First(d, n))
    /\ pos' = IF n = 0 THEN pos ELSE at + n
    /\ rest' = From(d, n)
    /\ IF calling' THEN result' = None ELSE rest' = <<>> /\ result' = Ok
    /\ UNCHANGED <<append, broken>>

\* These change nothing of the file.
Other == /\ request'.kind \in {"flush", "setvbuf", "close", "gc"}
         /\ SameCall
         /\ Return(Ok)
         /\ UNCHANGED <<content, pos, rest, append, broken>>

Seek == LET base == CASE request'.kind = "set" -> 0
                      [] request'.kind = "cur" -> pos
                      [] request'.kind = "end" -> Len(content)
        IN
        /\ request'.kind \in {"set", "cur", "end"}
        /\ SameCall
        /\ pos' = base + request'.n
        /\ Return(At(pos'))
        /\ UNCHANGED <<content, rest, append, broken>>

\* A read that is cancelled, and a seek that is cancelled or fails, may skip
\* bytes that were read ahead; a cancelled write stops where it is.
Stop == /\ calling /\ ~calling'
        /\ request' = request
        /\ pos' \in pos..Len(content)
        /\ pos' # pos => request.kind \notin {"write", "flush", "setvbuf", "close", "gc"}
        /\ rest' = <<>>
        /\ \/ result' = None
           \/ request.kind \in {"set", "cur", "end"} /\ result' = Error
        /\ UNCHANGED <<content, append, broken>>

Break == broken'

Next == Begin \/ Read \/ Put \/ Other \/ Seek \/ Stop \/ Break

Spec == Init /\ [][~broken => Next]_vars
=============================================================================
