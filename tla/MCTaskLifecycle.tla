--------------------------- MODULE MCTaskLifecycle ---------------------------
EXTENDS TaskLifecycle, TLC

CONSTANTS t1, t2

(* Every operation, the ones on lists on both tasks. *)
MCRequests ==
  {[op |-> o, on |-> <<t1>>] : o \in Ops \ {"join", "select"}}
    \cup {[op |-> o, on |-> <<t1, t2>>] : o \in {"join", "select"}}

(* Every operation on one task, which a list may name twice. *)
OneTaskRequests ==
  {[op |-> o, on |-> <<t1>>] : o \in Ops} \cup {[op |-> "join", on |-> <<t1, t1>>]}
=============================================================================
