------------------------------- MODULE Channel -------------------------------
(***************************************************************************)
(* task.bounded_channel and task.unbounded_channel: LuaBoundedChannel and  *)
(* LuaUnboundedChannel in crates/shingetsu/src/task/channel.rs, over       *)
(* tokio's mpsc channels and async Mutex.                                  *)
(*                                                                         *)
(* The channel keeps one Sender behind a lock; a send clones it, and the   *)
(* channel's end is seen when close has taken the kept one and the clones  *)
(* are gone.  A bounded channel hands out permits, first come first        *)
(* served; a receive keeps the receiver's mutex while it waits.  Calls run *)
(* on several threads, and can be dropped where they wait.                 *)
(***************************************************************************)
EXTENDS Naturals, Sequences, FiniteSets, WaitLine

CONSTANTS
  Sends,       \* the calls of send and try_send; each sends itself
  Receives,    \* the calls of recv and try_recv
  Capacities,  \* the capacities; 0 stands for an unbounded channel
  None         \* no value

NoneAssumption == None \notin Sends
CapacityAssumption == Capacities \subseteq Nat

VARIABLES
  capacity,  \* LuaBoundedChannel.capacity, 0 when unbounded
  open,      \* the kept Sender has not been taken
  free,      \* permits that nobody has
  sendLine,  \* the sends that wait for a permit
  buffer,    \* the values in the channel
  recvLine,  \* the receives that hold (first) or await (rest) the mutex
  sendPc,    \* send -> where it is
  recvPc,    \* receive -> where it is
  got        \* receive -> the value it took, or None

vars == <<capacity, open, free, sendLine, buffer, recvLine, sendPc, recvPc, got>>
sendVars == <<capacity, open, free, sendLine, sendPc>>
recvVars == <<capacity, open, recvLine, recvPc, got>>

Bounded == capacity > 0

(* Sends that own a clone of the Sender, and those that own a permit too. *)
Cloned == {s \in Sends : sendPc[s] \in {"cloned", "trying", "waiting", "granted", "permitted"}}
Permitted == {s \in Sends : sendPc[s] \in {"granted", "permitted"}}

(* rx.recv() has nothing to wait for: every Sender has been dropped. *)
Disconnected == ~open /\ Cloned = {}

HoldsMutex(r) == recvLine # <<>> /\ Head(recvLine) = r

Init ==
  /\ capacity \in Capacities
  /\ open = TRUE
  /\ free = capacity
  /\ sendLine = <<>> /\ buffer = <<>> /\ recvLine = <<>>
  /\ sendPc = [s \in Sends |-> "idle"]
  /\ recvPc = [r \in Receives |-> "idle"]
  /\ got = [r \in Receives |-> None]

(* A permit comes free: the first send in the line gets it. *)
Release(pc) ==
  \/ /\ sendLine # <<>>
     /\ sendPc' = [pc EXCEPT ![Head(sendLine)] = "granted"]
     /\ sendLine' = Tail(sendLine)
     /\ UNCHANGED free
  \/ /\ sendLine = <<>>
     /\ sendPc' = pc
     /\ free' = IF Bounded THEN free + 1 ELSE free
     /\ UNCHANGED sendLine

(* send and try_send: clone the kept Sender, if it is there. *)
CloneSender(s) ==
  /\ sendPc[s] = "idle"
  /\ \/ open /\ sendPc' = [sendPc EXCEPT ![s] = "cloned"]
     \/ open /\ Bounded /\ sendPc' = [sendPc EXCEPT ![s] = "trying"]
     \/ ~open /\ sendPc' = [sendPc EXCEPT ![s] = "closed"]
  /\ UNCHANGED <<capacity, open, free, sendLine, buffer, recvVars>>

(* The send gets a permit, waits for one, or finds the channel full. *)
Acquire(s) ==
  /\ sendPc[s] \in {"cloned", "trying"}
  /\ \/ /\ ~Bounded \/ free > 0
        /\ free' = IF Bounded THEN free - 1 ELSE free
        /\ sendPc' = [sendPc EXCEPT ![s] = "permitted"]
        /\ UNCHANGED sendLine
     \/ /\ Bounded /\ free = 0
        /\ \/ /\ sendPc[s] = "cloned"
              /\ sendPc' = [sendPc EXCEPT ![s] = "waiting"]
              /\ sendLine' = Append(sendLine, s)
           \/ /\ sendPc[s] = "trying"
              /\ sendPc' = [sendPc EXCEPT ![s] = "full"]
              /\ UNCHANGED sendLine
        /\ UNCHANGED free
  /\ UNCHANGED <<capacity, open, buffer, recvVars>>

(* The value goes into the channel, and the clone is dropped. *)
Push(s) ==
  /\ s \in Permitted
  /\ buffer' = Append(buffer, s)
  /\ sendPc' = [sendPc EXCEPT ![s] = "sent"]
  /\ UNCHANGED <<capacity, open, free, sendLine, recvVars>>

(* Fault variant of DropSend: a permit that was granted is not returned. *)
DropSendPermitLost(s) ==
  /\ sendPc[s] \in {"waiting", "granted"}
  /\ sendPc' = [sendPc EXCEPT ![s] = "dropped"]
  /\ sendLine' = IF sendPc[s] = "waiting" THEN Leave(sendLine, s) ELSE sendLine
  /\ UNCHANGED <<capacity, open, free, buffer, recvVars>>

(* The caller of send is cancelled or aborted while it waits. *)
DropSend(s) ==
  /\ \/ /\ sendPc[s] = "waiting"
        /\ sendLine' = Leave(sendLine, s)
        /\ sendPc' = [sendPc EXCEPT ![s] = "dropped"]
        /\ UNCHANGED free
     \/ /\ sendPc[s] = "granted"
        /\ Release([sendPc EXCEPT ![s] = "dropped"])
  /\ UNCHANGED <<capacity, open, buffer, recvVars>>

(* close: take the kept Sender.  Closing again changes nothing. *)
Close ==
  /\ open' = FALSE
  /\ UNCHANGED <<capacity, free, sendLine, buffer, recvLine, sendPc, recvPc, got>>

(* recv queues for the mutex, which is fair; try_recv gives up at once. *)
Enter(r) ==
  /\ recvPc[r] = "idle"
  /\ \/ /\ recvPc' = [recvPc EXCEPT ![r] = "queued"]
        /\ recvLine' = Append(recvLine, r)
     \/ /\ recvLine = <<>>
        /\ recvPc' = [recvPc EXCEPT ![r] = "trying"]
        /\ recvLine' = <<r>>
     \/ /\ recvLine # <<>>
        /\ recvPc' = [recvPc EXCEPT ![r] = "nothing"]
        /\ UNCHANGED recvLine
  /\ UNCHANGED <<sendVars, buffer, got>>

(* Fault variant of Take: the permit does not come free. *)
TakeWithPermit(r) ==
  /\ HoldsMutex(r) /\ recvPc[r] \in {"queued", "trying"}
  /\ buffer # <<>>
  /\ got' = [got EXCEPT ![r] = Head(buffer)]
  /\ buffer' = Tail(buffer)
  /\ recvPc' = [recvPc EXCEPT ![r] = "taken"]
  /\ UNCHANGED <<sendVars, recvLine>>

(* The holder of the mutex takes a value; its permit comes free. *)
Take(r) ==
  /\ HoldsMutex(r) /\ recvPc[r] \in {"queued", "trying"}
  /\ buffer # <<>>
  /\ got' = [got EXCEPT ![r] = Head(buffer)]
  /\ buffer' = Tail(buffer)
  /\ Release(sendPc)
  /\ recvPc' = [recvPc EXCEPT ![r] = "taken"]
  /\ UNCHANGED <<capacity, open, recvLine>>

(* The value is rebuilt for the receiver's environment, which can fail. *)
Return(r) ==
  /\ recvPc[r] = "taken"
  /\ \E a \in {"value", "raised"} : recvPc' = [recvPc EXCEPT ![r] = a]
  /\ recvLine' = Tail(recvLine)
  /\ UNCHANGED <<sendVars, buffer, got>>

(* Fault variant of ReturnNil: it does not wait for the clones. *)
ReturnNilWhenClosed(r) ==
  /\ HoldsMutex(r)
  /\ buffer = <<>>
  /\ \/ /\ recvPc[r] = "queued" /\ ~open
        /\ recvPc' = [recvPc EXCEPT ![r] = "end"]
     \/ /\ recvPc[r] = "trying"
        /\ recvPc' = [recvPc EXCEPT ![r] = "nothing"]
  /\ recvLine' = Tail(recvLine)
  /\ UNCHANGED <<sendVars, buffer, got>>

(* recv returns nil at the end of the channel, try_recv when it is empty. *)
ReturnNil(r) ==
  /\ HoldsMutex(r)
  /\ buffer = <<>>
  /\ \/ /\ recvPc[r] = "queued" /\ Disconnected
        /\ recvPc' = [recvPc EXCEPT ![r] = "end"]
     \/ /\ recvPc[r] = "trying"
        /\ recvPc' = [recvPc EXCEPT ![r] = "nothing"]
  /\ recvLine' = Tail(recvLine)
  /\ UNCHANGED <<sendVars, buffer, got>>

(* Fault variant of DropReceive: the call keeps its turn at the mutex. *)
DropReceiveInLine(r) ==
  /\ recvPc[r] = "queued"
  /\ recvPc' = [recvPc EXCEPT ![r] = "dropped"]
  /\ UNCHANGED <<sendVars, buffer, recvLine, got>>

(* The caller of recv is cancelled or aborted while it waits. *)
DropReceive(r) ==
  /\ recvPc[r] = "queued"
  /\ recvLine' = Leave(recvLine, r)
  /\ recvPc' = [recvPc EXCEPT ![r] = "dropped"]
  /\ UNCHANGED <<sendVars, buffer, got>>

Next ==
  \/ Close
  \/ \E s \in Sends : CloneSender(s) \/ Acquire(s) \/ Push(s) \/ DropSend(s)
  \/ \E r \in Receives :
       Enter(r) \/ Take(r) \/ Return(r) \/ ReturnNil(r) \/ DropReceive(r)

Spec == Init /\ [][Next]_vars

(* Calls that can go on are polled; nobody has to make, or to drop, one. *)
Fairness ==
  /\ \A s \in Sends : WF_vars(Acquire(s)) /\ WF_vars(Push(s))
  /\ \A r \in Receives : /\ WF_vars(Take(r)) /\ WF_vars(Return(r))
                         /\ WF_vars(ReturnNil(r))

FairSpec == Spec /\ Fairness

-----------------------------------------------------------------------------
TypeOK ==
  /\ capacity \in Capacities
  /\ open \in BOOLEAN
  /\ free \in 0..capacity
  /\ sendLine \in Seq(Sends) /\ buffer \in Seq(Sends) /\ recvLine \in Seq(Receives)
  /\ sendPc \in [Sends -> {"idle", "cloned", "trying", "waiting", "granted",
                           "permitted", "sent", "closed", "full", "dropped"}]
  /\ recvPc \in [Receives -> {"idle", "queued", "trying", "taken", "value",
                              "raised", "nothing", "end", "dropped"}]
  /\ got \in [Receives -> Sends \cup {None}]

(* A permit is free, with a send that has yet to use it, or stands for a   *)
(* value in the channel: cancelled sends and receives neither leak nor     *)
(* invent one.  None is free while sends wait, so nothing overtakes them.  *)
PermitsAccounted ==
  Bounded => /\ free + Len(buffer) + Cardinality(Permitted) = capacity
             /\ sendLine # <<>> => free = 0

(* "each value is delivered to exactly one consumer": what was sent is in  *)
(* the channel or with one receive, and what was not sent is nowhere.      *)
ExactlyOnce ==
  LET inChannel(s) == {i \in DOMAIN buffer : buffer[i] = s}
      with(s) == {r \in Receives : got[r] = s}
  IN  \A s \in Sends : Cardinality(inChannel(s)) + Cardinality(with(s))
                         = IF sendPc[s] = "sent" THEN 1 ELSE 0

(* A recv has returned nil. *)
Ended == \E r \in Receives : recvPc[r] = "end"

Queue == INSTANCE ClosableQueue
           WITH Values <- Sends, queue <- buffer, ended <- Ended

(* Whatever the threads do, a channel is a queue that never exceeds its    *)
(* capacity and delivers in order, and recv returns nil only when nothing  *)
(* is left to be received and nothing will come: no send that was          *)
(* accepted, before or during close, is lost behind a nil.                 *)
IsClosableQueue == Queue!Spec

(* After close every recv that waits, for a value or for its turn, is      *)
(* answered: close needs no receiver's mutex to end it.                    *)
CloseEndsReceives ==
  \A r \in Receives : ~open /\ recvPc[r] = "queued" ~> recvPc[r] # "queued"

(* A send that waits for room and a recv that waits for a value do not     *)
(* wait for each other for ever.                                           *)
NoStandoff ==
  \A s \in Sends, r \in Receives :
    sendPc[s] = "waiting" /\ recvPc[r] = "queued"
      ~> sendPc[s] # "waiting" \/ recvPc[r] # "queued"
=============================================================================
