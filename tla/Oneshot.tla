-------------------------------- MODULE Oneshot --------------------------------
(***************************************************************************)
(* task.oneshot: LuaOneshotSender and LuaOneshotReceiver in                *)
(* crates/shingetsu/src/task/oneshot.rs, over tokio's oneshot channel.     *)
(* Both halves sit in an Option that the first call takes.                 *)
(***************************************************************************)
CONSTANTS
  Senders,    \* the calls of send and close
  Receivers,  \* the calls of recv
  NoCall      \* no call

NoCallAssumption == NoCall \notin Senders \cup Receivers

VARIABLES
  tx,       \* the sender: "kept", "taken", or "dropped"
  rx,       \* the receiver: "kept", "taken", or "dropped"
  slot,     \* the send whose value is in the channel, or NoCall
  sendPc,   \* send -> where it is
  recvPc,   \* recv -> where it is
  got       \* recv -> the send whose value it got, or NoCall

vars == <<tx, rx, slot, sendPc, recvPc, got>>

Init ==
  /\ tx = "kept" /\ rx = "kept" /\ slot = NoCall
  /\ sendPc = [s \in Senders |-> "idle"]
  /\ recvPc = [r \in Receivers |-> "idle"]
  /\ got = [r \in Receivers |-> NoCall]

(* send and close take the sender, or find it taken: send then raises. *)
TakeSender(s) ==
  /\ sendPc[s] = "idle"
  /\ \/ /\ tx = "kept"
        /\ \/ /\ tx' = "taken"
              /\ sendPc' = [sendPc EXCEPT ![s] = "sending"]
           \/ /\ tx' = "dropped"
              /\ sendPc' = [sendPc EXCEPT ![s] = "closed"]
     \/ /\ tx # "kept"
        /\ sendPc' = [sendPc EXCEPT ![s] = "raised"]
        /\ UNCHANGED tx
  /\ UNCHANGED <<rx, slot, recvPc, got>>

(* send: the value goes in, unless the receiver is gone; it raises then. *)
Send(s) ==
  /\ sendPc[s] = "sending"
  /\ tx' = "dropped"
  /\ \/ /\ rx # "dropped"
        /\ slot' = s
        /\ sendPc' = [sendPc EXCEPT ![s] = "sent"]
     \/ /\ rx = "dropped"
        /\ sendPc' = [sendPc EXCEPT ![s] = "raised"]
        /\ UNCHANGED slot
  /\ UNCHANGED <<rx, recvPc, got>>

(* The last reference to a half goes while the half is still in it. *)
DropHalf ==
  /\ \/ tx = "kept" /\ tx' = "dropped" /\ UNCHANGED rx
     \/ rx = "kept" /\ rx' = "dropped" /\ UNCHANGED tx
  /\ UNCHANGED <<slot, sendPc, recvPc, got>>

(* recv takes the receiver, or raises. *)
TakeReceiver(r) ==
  /\ recvPc[r] = "idle"
  /\ \/ /\ rx = "kept"
        /\ rx' = "taken"
        /\ recvPc' = [recvPc EXCEPT ![r] = "waiting"]
     \/ /\ rx # "kept"
        /\ recvPc' = [recvPc EXCEPT ![r] = "raised"]
        /\ UNCHANGED rx
  /\ UNCHANGED <<tx, slot, sendPc, got>>

(* Fault variant of Receive: a sender that was taken counts as gone. *)
ReceiveEarly(r) ==
  /\ recvPc[r] = "waiting"
  /\ tx # "kept"
  /\ got' = [got EXCEPT ![r] = slot]
  /\ recvPc' = [recvPc EXCEPT ![r] = IF slot = NoCall THEN "nil" ELSE "value"]
  /\ slot' = NoCall /\ rx' = "dropped"
  /\ UNCHANGED <<tx, sendPc>>

(* recv returns the value, or nil when the sender went without one. *)
Receive(r) ==
  /\ recvPc[r] = "waiting"
  /\ tx = "dropped"
  /\ got' = [got EXCEPT ![r] = slot]
  /\ recvPc' = [recvPc EXCEPT ![r] = IF slot = NoCall THEN "nil" ELSE "value"]
  /\ slot' = NoCall /\ rx' = "dropped"
  /\ UNCHANGED <<tx, sendPc>>

(* The caller of recv is cancelled or aborted: the receiver goes with it. *)
DropReceive(r) ==
  /\ recvPc[r] = "waiting"
  /\ recvPc' = [recvPc EXCEPT ![r] = "dropped"]
  /\ rx' = "dropped"
  /\ UNCHANGED <<tx, slot, sendPc, got>>

Next ==
  \/ DropHalf
  \/ \E s \in Senders : TakeSender(s) \/ Send(s)
  \/ \E r \in Receivers : TakeReceiver(r) \/ Receive(r) \/ DropReceive(r)

-----------------------------------------------------------------------------
(* A value for which send returned is with one recv, still in the channel, *)
(* or was there when the receiver was dropped; a recv that returned nil    *)
(* has missed none.                                                        *)
HandsOver ==
  /\ \A s \in Senders : sendPc[s] = "sent" =>
       \/ slot = s
       \/ \E r \in Receivers : got[r] = s /\ recvPc[r] = "value"
  /\ \A r \in Receivers, s \in Senders :
       recvPc[r] = "nil" => sendPc[s] \notin {"sending", "sent"}
=============================================================================
