---------------------------- MODULE WriteOnceMap ----------------------------
(***************************************************************************)
(* What a registry of named values promises its callers: an atomic map in  *)
(* which a name, once bound, stays bound to the same value, and in which   *)
(* an answer is the value bound to a name at the moment it is given.       *)
(***************************************************************************)
CONSTANTS Callers, Keys, Unbound

VARIABLES
  bound,   \* key -> the caller whose value is bound to it, or Unbound
  answer   \* caller -> the value it was given, or Unbound

Init ==
  /\ bound = [k \in Keys |-> Unbound]
  /\ answer = [c \in Callers |-> Unbound]

(* The first caller binds its own value and is given it. *)
Bind(c, k) ==
  /\ bound[k] = Unbound /\ answer[c] = Unbound
  /\ bound' = [bound EXCEPT ![k] = c]
  /\ answer' = [answer EXCEPT ![c] = c]

(* A later caller is given the value that is bound. *)
Reuse(c, k) ==
  /\ bound[k] # Unbound /\ answer[c] = Unbound
  /\ answer' = [answer EXCEPT ![c] = bound[k]]
  /\ UNCHANGED bound

Next == \E c \in Callers, k \in Keys : Bind(c, k) \/ Reuse(c, k)

Spec == Init /\ [][Next]_<<bound, answer>>
=============================================================================
