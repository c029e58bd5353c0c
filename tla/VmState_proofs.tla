---------------------------- MODULE VmState_proofs ----------------------------
(***************************************************************************)
(* Proofs about require, captured variables, tables and the numeric for,   *)
(* for any number of tasks, modules, frames, register boxes, keys and       *)
(* values, and for integers of any width.                                  *)
(***************************************************************************)
EXTENDS VmState, Sequences, FiniteSets, FiniteSetTheorems, SequenceTheorems,
        WellFoundedInduction, TLAPS

--------------------------------- (* Modules *) ------------------------------
Request == [name : Names, at : {"start", "opening", "loading", "running"}, file : Nat]

ModuleTypes ==
  /\ preload \subseteq Names
  /\ loaded \in [Names -> Nat \cup {None}]
  /\ calls \in [Tasks -> Seq(Request)]
  /\ made \in Seq(Names)
  /\ ran \in [Names -> Nat]
  /\ given \in [Names -> SUBSET Nat]
  /\ shared \subseteq Names

(* Only the innermost require of a task is not at its chunk. *)
Nested ==
  \A t \in Tasks : \A i \in 1..Len(calls[t]) :
    i < Len(calls[t]) => calls[t][i].at = "running"

(* The name of a chunk that runs is marked, for good. *)
Marked ==
  \A t \in Tasks : \A i \in 1..Len(calls[t]) :
    LET r == calls[t][i] IN
    /\ r.at = "running" => loaded[r.name] # None /\ ran[r.name] > 0
    /\ r.at = "opening" => r.name \in preload

LoadedIsMade ==
  \A n \in Names : loaded[n] \notin {None, 0} =>
    loaded[n] \in 1..Len(made) /\ made[loaded[n]] = n

(* Whoever has not overlapped with another: it loads a module that is not  *)
(* there, its chunk is the only one, and what was given is what is loaded. *)
Alone(n) ==
  /\ \A t \in Tasks : \A i \in 1..Len(calls[t]) : calls[t][i].name = n =>
       /\ calls[t][i].at \in {"opening", "loading"} => loaded[n] = None
       /\ calls[t][i].at = "running" => loaded[n] = 0
  /\ \A t, u \in Tasks : \A i \in 1..Len(calls[t]), j \in 1..Len(calls[u]) :
       calls[t][i].name = n /\ calls[u][j].name = n /\ "start" \notin {calls[t][i].at, calls[u][j].at}
         => t = u /\ i = j
  /\ n \notin preload => ran[n] <= (IF loaded[n] = None THEN 0 ELSE 1)
  /\ \A v \in given[n] : loaded[n] # None /\ (v # 0 => loaded[n] = v)

ModuleInv ==
  /\ ModuleTypes
  /\ Nested
  /\ Modules!NoReentry
  /\ Marked
  /\ LoadedIsMade
  /\ \A n \in Names \ shared : Alone(n)

LEMMA NoneIsNoModule == None \notin Nat
  BY VmAssumption DEF Modules!BoundsAssumption

LEMMA ModuleStart == ASSUME Modules!Init PROVE ModuleInv
<1>1. \A t \in Tasks : Len(calls[t]) = 0 /\ calls[t] = <<>>
  BY DEF Modules!Init
<1>2. ModuleTypes
  BY DEF Modules!Init, ModuleTypes
<1>3. Nested /\ Modules!NoReentry /\ Marked
  BY <1>1 DEF Nested, Modules!NoReentry, Marked
<1>4. LoadedIsMade
  BY DEF Modules!Init, LoadedIsMade
<1>5. ASSUME NEW n \in Names PROVE Alone(n)
  BY <1>1 DEF Modules!Init, Alone
<1> QED
  BY <1>2, <1>3, <1>4, <1>5 DEF ModuleInv

(* What happens to the requires of one task. *)
Pops(t) ==
  /\ calls' \in [Tasks -> Seq(Request)]
  /\ Len(calls[t]) > 0 /\ Len(calls'[t]) = Len(calls[t]) - 1
  /\ \A i \in 1..Len(calls'[t]) : calls'[t][i] = calls[t][i]
  /\ \A u \in Tasks \ {t} : calls'[u] = calls[u]

Becomes(t, at) ==
  /\ calls' \in [Tasks -> Seq(Request)]
  /\ Len(calls[t]) > 0 /\ Len(calls'[t]) = Len(calls[t])
  /\ \A i \in 1..Len(calls[t]) - 1 : calls'[t][i] = calls[t][i]
  /\ calls'[t][Len(calls[t])].name = calls[t][Len(calls[t])].name
  /\ calls'[t][Len(calls[t])].at = at
  /\ \A u \in Tasks \ {t} : calls'[u] = calls[u]

LEMMA Prefix ==
  ASSUME NEW S, NEW q \in Seq(S), NEW n \in 0..Len(q)
  PROVE  /\ SubSeq(q, 1, n) \in Seq(S) /\ Len(SubSeq(q, 1, n)) = n
         /\ \A i \in 1..n : SubSeq(q, 1, n)[i] = q[i]
<1>1. Len(q) \in Nat /\ \A i \in 1..n : i \in 1..Len(q)
  OBVIOUS
<1> QED
  BY <1>1, SubSeqProperties

LEMMA Popping ==
  ASSUME ModuleTypes, NEW t \in Tasks, calls[t] # <<>>, Modules!Pop(t)
  PROVE  Pops(t)
<1>1. calls[t] \in Seq(Request) /\ Len(calls[t]) \in Nat \ {0}
  BY DEF ModuleTypes
<1>2. calls' = [calls EXCEPT ![t] = SubSeq(calls[t], 1, Len(calls[t]) - 1)]
  BY DEF Modules!Pop, Modules!Front
<1>3. /\ SubSeq(calls[t], 1, Len(calls[t]) - 1) \in Seq(Request)
      /\ Len(SubSeq(calls[t], 1, Len(calls[t]) - 1)) = Len(calls[t]) - 1
      /\ \A i \in 1..Len(calls[t]) - 1 : SubSeq(calls[t], 1, Len(calls[t]) - 1)[i] = calls[t][i]
  BY <1>1
<1> QED
  BY <1>1, <1>2, <1>3 DEF ModuleTypes, Pops

LEMMA Becoming ==
  ASSUME ModuleTypes, NEW t \in Tasks, calls[t] # <<>>,
         NEW at \in {"start", "opening", "loading", "running"}, NEW file \in Nat,
         Modules!Become(t, at, file)
  PROVE  Becomes(t, at)
<1> DEFINE front == SubSeq(calls[t], 1, Len(calls[t]) - 1)
           last == [calls[t][Len(calls[t])] EXCEPT !.at = at, !.file = file]
<1>1. calls[t] \in Seq(Request) /\ Len(calls[t]) \in Nat \ {0}
  BY DEF ModuleTypes
<1>2. calls' = [calls EXCEPT ![t] = Append(front, last)]
  BY DEF Modules!Become, Modules!Front, Modules!Last
<1>3. /\ front \in Seq(Request) /\ Len(front) = Len(calls[t]) - 1
      /\ \A i \in 1..Len(calls[t]) - 1 : front[i] = calls[t][i]
  BY <1>1
<1>4. last \in Request /\ last.name = calls[t][Len(calls[t])].name /\ last.at = at
  <2>1. PICK r \in Request : r = calls[t][Len(calls[t])]
    BY <1>1
  <2>2. LET l == [r EXCEPT !.at = at, !.file = file]
        IN  l \in Request /\ l.name = r.name /\ l.at = at
    BY DEF Request
  <2> QED
    BY <2>1, <2>2
<1> HIDE DEF front, last
<1>5. /\ Append(front, last) \in Seq(Request) /\ Len(Append(front, last)) = Len(calls[t])
      /\ \A i \in 1..Len(calls[t]) - 1 : Append(front, last)[i] = calls[t][i]
      /\ Append(front, last)[Len(calls[t])] = last
  BY <1>1, <1>3, <1>4
<1> QED
  BY <1>1, <1>2, <1>4, <1>5 DEF ModuleTypes, Becomes

LEMMA Innermost ==
  ASSUME ModuleTypes, NEW t \in Tasks, NEW at, Modules!At(t, at)
  PROVE  /\ calls[t] # <<>> /\ Len(calls[t]) \in Nat \ {0}
         /\ calls[t][Len(calls[t])].at = at
         /\ calls[t][Len(calls[t])].name = Modules!Name(t)
         /\ calls[t][Len(calls[t])] \in Request
         /\ Modules!Name(t) \in Names
<1>1. calls[t] \in Seq(Request) /\ calls[t] # <<>>
  BY DEF ModuleTypes, Modules!At
<1>2. Len(calls[t]) \in Nat \ {0} /\ calls[t][Len(calls[t])] \in Request
  BY <1>1
<1>3. calls[t][Len(calls[t])].name \in Names
  BY <1>2 DEF Request
<1> QED
  BY <1>1, <1>2, <1>3 DEF Modules!At, Modules!Name, Modules!Last

(* No require gets further. *)
Fewer ==
  /\ calls' \in [Tasks -> Seq(Request)]
  /\ \A u \in Tasks : /\ Len(calls'[u]) <= Len(calls[u])
                      /\ \A i \in 1..Len(calls'[u]) : calls'[u][i] = calls[u][i]

LEMMA FewerNest == ASSUME ModuleInv, Fewer PROVE Nested' /\ Modules!NoReentry'
<1>1. \A u \in Tasks : Len(calls[u]) \in Nat /\ Len(calls'[u]) \in Nat
  BY DEF ModuleInv, ModuleTypes, Fewer
<1>2. Nested'
  BY <1>1 DEF ModuleInv, Nested, Fewer
<1>3. Modules!NoReentry'
  BY <1>1 DEF ModuleInv, Modules!NoReentry, Fewer
<1> QED
  BY <1>2, <1>3

LEMMA PoppedAreFewer == ASSUME ModuleInv, NEW t \in Tasks, Pops(t) PROVE Fewer
<1>1. \A u \in Tasks : Len(calls[u]) \in Nat
  BY DEF ModuleInv, ModuleTypes
<1> QED
  BY <1>1 DEF Pops, Fewer

(* The innermost require gets on: it is not of a name whose chunk runs in  *)
(* the same task.                                                          *)
LEMMA BecomingNests ==
  ASSUME ModuleInv, NEW t \in Tasks, NEW at, Becomes(t, at),
         \A i \in 1..Len(calls[t]) - 1 : calls[t][i].name # calls[t][Len(calls[t])].name
  PROVE  Nested' /\ Modules!NoReentry'
<1>1. \A u \in Tasks : Len(calls[u]) \in Nat /\ Len(calls'[u]) = Len(calls[u])
  <2>1. \A u \in Tasks : Len(calls[u]) \in Nat
    BY DEF ModuleInv, ModuleTypes
  <2> QED
    BY <2>1 DEF Becomes
<1>2. Nested'
  BY <1>1 DEF ModuleInv, Nested, Becomes
<1>3. ASSUME NEW u \in Tasks, NEW i \in 1..Len(calls[u]), NEW j \in 1..Len(calls[u]),
             calls'[u][i].name = calls'[u][j].name, i < j
      PROVE  calls'[u][j].at = "start"
  <2>1. CASE u = t /\ j = Len(calls[t])
    BY <1>1, <1>3, <2>1 DEF Becomes
  <2>2. CASE ~(u = t /\ j = Len(calls[t]))
    <3>1. calls'[u][i] = calls[u][i] /\ calls'[u][j] = calls[u][j]
      BY <1>1, <1>3, <2>2 DEF Becomes
    <3> QED
      BY <1>1, <1>3, <3>1 DEF ModuleInv, Modules!NoReentry
  <2> QED
    BY <2>1, <2>2
<1> QED
  BY <1>1, <1>2, <1>3 DEF Modules!NoReentry

Quieter(m) ==
  \A u \in Tasks : \A i \in 1..Len(calls'[u]) :
    calls'[u][i].name = m /\ calls'[u][i].at # "start" =>
      /\ i \in 1..Len(calls[u])
      /\ calls[u][i].name = m /\ calls[u][i].at = calls'[u][i].at

LEMMA StaysAlone ==
  ASSUME NEW m, Alone(m), Quieter(m), preload' = preload,
         loaded'[m] = loaded[m], ran'[m] = ran[m],
         \A v \in given'[m] : v \in given[m] \/ (v = loaded[m] /\ v # None)
  PROVE  Alone(m)'
<1>1. \A u \in Tasks : \A i \in 1..Len(calls'[u]) : calls'[u][i].name = m =>
        /\ calls'[u][i].at \in {"opening", "loading"} => loaded'[m] = None
        /\ calls'[u][i].at = "running" => loaded'[m] = 0
  BY DEF Alone, Quieter
<1>2. \A t, u \in Tasks : \A i \in 1..Len(calls'[t]), j \in 1..Len(calls'[u]) :
        calls'[t][i].name = m /\ calls'[u][j].name = m /\ "start" \notin {calls'[t][i].at, calls'[u][j].at}
          => t = u /\ i = j
  BY SMTT(30) DEF Alone, Quieter
<1> QED
  BY <1>1, <1>2 DEF Alone

LEMMA FewerAreQuieter == ASSUME ModuleInv, Fewer PROVE \A m : Quieter(m)
<1>1. \A u \in Tasks : Len(calls[u]) \in Nat /\ Len(calls'[u]) \in Nat
  BY DEF ModuleInv, ModuleTypes, Fewer
<1> QED
  BY <1>1 DEF Fewer, Quieter

LEMMA BecomingIsQuiet ==
  ASSUME ModuleInv, NEW t \in Tasks, NEW at, Becomes(t, at),
         NEW m, m # calls[t][Len(calls[t])].name \/ at = calls[t][Len(calls[t])].at
  PROVE  Quieter(m)
<1>1. \A u \in Tasks : Len(calls[u]) \in Nat /\ Len(calls'[u]) = Len(calls[u])
  <2>1. \A u \in Tasks : Len(calls[u]) \in Nat
    BY DEF ModuleInv, ModuleTypes
  <2> QED
    BY <2>1 DEF Becomes
<1> QED
  BY <1>1 DEF Becomes, Quieter

(* A require ends, and leaves everything as it is. *)
LEMMA ForgettingModules ==
  ASSUME ModuleInv, Fewer, UNCHANGED <<preload, loaded, made, ran, given, shared>>
  PROVE  ModuleInv'
<1>1. Nested' /\ Modules!NoReentry'
  BY FewerNest
<1>2. ModuleTypes' /\ LoadedIsMade'
  BY DEF ModuleInv, ModuleTypes, LoadedIsMade, Fewer
<1>3. Marked'
  <2>1. \A u \in Tasks : Len(calls[u]) \in Nat /\ Len(calls'[u]) \in Nat
    BY DEF ModuleInv, ModuleTypes, Fewer
  <2> QED
    BY <2>1 DEF ModuleInv, Marked, Fewer
<1>4. \A m \in Names \ shared' : Alone(m)'
  BY FewerAreQuieter, StaysAlone DEF ModuleInv
<1> QED
  BY <1>1, <1>2, <1>3, <1>4 DEF ModuleInv

LEMMA Requiring ==
  ASSUME ModuleInv, NEW t \in Tasks, NEW n \in Names, Modules!Require(t, n)
  PROVE  ModuleInv'
<1>1. /\ calls' = [calls EXCEPT ![t] = Append(calls[t], Modules!Asking(n))]
      /\ UNCHANGED <<preload, loaded, made, ran, given, shared>>
      /\ calls[t] = <<>> \/ calls[t][Len(calls[t])].at = "running"
  BY DEF Modules!Require, Modules!At, Modules!Last
<1>2. \A u \in Tasks : calls[u] \in Seq(Request) /\ Len(calls[u]) \in Nat
  BY DEF ModuleInv, ModuleTypes
<1>3. Modules!Asking(n) \in Request /\ Modules!Asking(n).at = "start"
  BY DEF Modules!Asking, Request
<1>4. /\ calls' \in [Tasks -> Seq(Request)]
      /\ Len(calls'[t]) = Len(calls[t]) + 1
      /\ calls'[t][Len(calls[t]) + 1].at = "start"
      /\ \A i \in 1..Len(calls[t]) : calls'[t][i] = calls[t][i]
      /\ \A u \in Tasks \ {t} : calls'[u] = calls[u]
  <2> HIDE DEF ModuleInv
  <2>1. calls \in [Tasks -> Seq(Request)]
    BY DEF ModuleInv, ModuleTypes
  <2> QED
    BY <1>1, <1>2, <1>3, <2>1
<1>5. Nested'
  <2>1. calls[t] = <<>> => Len(calls[t]) = 0
    OBVIOUS
  <2> QED
    BY <1>1, <1>2, <1>4, <2>1 DEF ModuleInv, Nested
<1>6. Modules!NoReentry'
  <2>1. ASSUME NEW u \in Tasks, NEW i \in 1..Len(calls'[u]), NEW j \in 1..Len(calls'[u]),
               calls'[u][i].name = calls'[u][j].name, i < j
        PROVE  calls'[u][j].at = "start"
    <3>1. CASE u = t /\ j = Len(calls[t]) + 1
      BY <1>4, <3>1
    <3>2. CASE ~(u = t /\ j = Len(calls[t]) + 1)
      <4>1. /\ i \in 1..Len(calls[u]) /\ j \in 1..Len(calls[u])
            /\ calls'[u][i] = calls[u][i] /\ calls'[u][j] = calls[u][j]
        BY <1>2, <1>4, <2>1, <3>2
      <4> QED
        BY <1>2, <2>1, <4>1 DEF ModuleInv, Modules!NoReentry
    <3> QED
      BY <3>1, <3>2
  <2>2. \A u \in Tasks : Len(calls'[u]) \in Nat
    BY <1>4
  <2> QED
    BY <2>1, <2>2 DEF Modules!NoReentry
<1>7. ModuleTypes' /\ LoadedIsMade'
  BY <1>1, <1>4 DEF ModuleInv, ModuleTypes, LoadedIsMade
<1>8. Marked'
  <2>1. ASSUME NEW u \in Tasks, NEW i \in 1..Len(calls'[u]), calls'[u][i].at # "start"
        PROVE  i \in 1..Len(calls[u]) /\ calls'[u][i] = calls[u][i]
    BY <1>2, <1>4, <2>1
  <2> QED
    BY <1>1, <2>1 DEF ModuleInv, Marked
<1>9. \A m \in Names \ shared' : Alone(m)'
  <2>1. \A m : Quieter(m)
    BY <1>2, <1>4 DEF Quieter
  <2> QED
    BY <1>1, <2>1, StaysAlone DEF ModuleInv
<1> QED
  BY <1>5, <1>6, <1>7, <1>8, <1>9 DEF ModuleInv

(* The parts of the invariant, once for all the steps below. *)
LEMMA ModuleParts ==
  ASSUME ModuleInv
  PROVE  /\ ModuleTypes
         /\ \A u \in Tasks : Len(calls[u]) \in Nat
         /\ \A u \in Tasks : \A i \in 1..Len(calls[u]) :
              calls[u][i] \in Request /\ calls[u][i].name \in Names
         /\ \A u \in Tasks : \A i \in 1..Len(calls[u]) :
              /\ calls[u][i].at = "running" =>
                   loaded[calls[u][i].name] # None /\ ran[calls[u][i].name] > 0
              /\ calls[u][i].at = "opening" => calls[u][i].name \in preload
<1>1. \A u \in Tasks : calls[u] \in Seq(Request)
  BY DEF ModuleInv, ModuleTypes
<1>2. \A u \in Tasks : \A i \in 1..Len(calls[u]) : calls[u][i] \in Request
  BY <1>1
<1>3. \A u \in Tasks : \A i \in 1..Len(calls[u]) : calls[u][i].name \in Names
  BY <1>2 DEF Request
<1> QED
  BY <1>1, <1>2, <1>3 DEF ModuleInv, Marked

(* What is looked up while nobody loads it is there, or is loaded alone.    *)
LEMMA LookingUp ==
  ASSUME ModuleInv, NEW t \in Tasks, Modules!Lookup(t) PROVE ModuleInv'
<1> DEFINE n == Modules!Name(t)
           last == Len(calls[t])
<1>1. /\ calls[t] # <<>> /\ last \in Nat \ {0} /\ n \in Names
      /\ calls[t][last].at = "start" /\ calls[t][last].name = n
  BY Innermost DEF Modules!Lookup, ModuleInv
<1>2. UNCHANGED <<preload, loaded, made, ran>>
  BY DEF Modules!Lookup
<1>3. ModuleTypes /\ \A u \in Tasks : Len(calls[u]) \in Nat
  BY ModuleParts
<1>4. CASE loaded[n] # None /\ Modules!Give(n, loaded[n]) /\ Modules!Pop(t) /\ UNCHANGED shared
  <2>1. Fewer
    BY <1>1, <1>3, <1>4, Popping, PoppedAreFewer
  <2>2. Nested' /\ Modules!NoReentry'
    BY <2>1, FewerNest
  <2>3. /\ loaded[n] \in Nat /\ given' = [given EXCEPT ![n] = given[n] \cup {loaded[n]}]
        /\ loaded[n] # None
    BY <1>1, <1>3, <1>4 DEF Modules!Give, ModuleTypes
  <2>4. /\ given'[n] = given[n] \cup {loaded[n]}
        /\ \A m \in Names : m # n => given'[m] = given[m]
    BY <1>1, <1>3, <2>3 DEF ModuleTypes
  <2>5. ModuleTypes' /\ LoadedIsMade'
    BY <1>2, <1>3, <1>4, <2>1, <2>3 DEF ModuleInv, ModuleTypes, LoadedIsMade, Fewer
  <2>6. Marked'
    <3>1. \A u \in Tasks : Len(calls'[u]) \in Nat
      BY <2>1 DEF Fewer
    <3> QED
      BY <1>2, <1>3, <2>1, <3>1 DEF ModuleInv, Marked, Fewer
  <2>7. \A m : Quieter(m)
    BY <2>1, FewerAreQuieter
  <2>8. ASSUME NEW m \in Names \ shared' PROVE Alone(m)'
    <3>1. Alone(m) /\ Quieter(m)
      BY <1>4, <2>7 DEF ModuleInv
    <3>2. \A v \in given'[m] : v \in given[m] \/ (v = loaded[m] /\ v # None)
      BY <2>3, <2>4
    <3> QED
      BY <1>2, <3>1, <3>2, StaysAlone
  <2> QED
    BY <2>2, <2>5, <2>6, <2>8 DEF ModuleInv
<1>5. ASSUME NEW at \in {"opening", "loading"}, NEW file \in Nat,
             loaded[n] = None, Modules!Become(t, at, file),
             at = "opening" => n \in preload,
             shared' = IF Modules!Pending(n) = {} THEN shared ELSE shared \cup {n},
             UNCHANGED given
      PROVE  ModuleInv'
  <2>1. Becomes(t, at)
    BY <1>1, <1>3, <1>5, Becoming
  <2>2. \A u \in Tasks : \A i \in 1..Len(calls[u]) : calls[u][i].name = n => calls[u][i].at # "running"
    BY <1>5, ModuleParts
  <2>3. \A i \in 1..last - 1 : calls[t][i].name # n
    BY <1>1, <2>2 DEF ModuleInv, Nested
  <2>4. Nested' /\ Modules!NoReentry'
    BY <1>1, <2>1, <2>3, BecomingNests
  <2>5. ModuleTypes' /\ LoadedIsMade'
    BY <1>1, <1>2, <1>3, <1>5, <2>1 DEF ModuleInv, ModuleTypes, LoadedIsMade, Becomes
  <2>6. \A u \in Tasks : Len(calls'[u]) = Len(calls[u])
    BY <2>1 DEF Becomes
  <2>7. \A u \in Tasks : \A i \in 1..Len(calls[u]) :
          \/ calls'[u][i] = calls[u][i]
          \/ u = t /\ i = last /\ calls'[u][i].at = at /\ calls'[u][i].name = n
    BY <1>1, <1>3, <2>1 DEF Becomes
  <2>8. Marked'
    BY <1>2, <1>5, <2>6, <2>7 DEF ModuleInv, Marked
  <2>9. ASSUME NEW m \in Names \ shared' PROVE Alone(m)'
    <3>1. Alone(m)
      BY <1>5, <2>9 DEF ModuleInv
    <3>2. CASE m # n
      BY <1>1, <1>2, <1>5, <2>1, <3>1, <3>2, BecomingIsQuiet, StaysAlone
    <3>3. CASE m = n
      <4>1. Modules!Pending(n) = {}
        BY <1>5, <2>9, <3>3
      <4>2. \A u \in Tasks : \A i \in 1..Len(calls[u]) :
              calls[u][i].name = n => calls[u][i].at \notin {"opening", "loading"}
        <5>1. \A u \in Tasks : DOMAIN calls[u] = 1..Len(calls[u])
          BY <1>3 DEF ModuleTypes
        <5> QED
          BY <4>1, <5>1 DEF Modules!Pending
      <4>3. \A u \in Tasks : \A i \in 1..Len(calls[u]) : calls[u][i].name = n => calls[u][i].at = "start"
        BY <2>2, <4>2, ModuleParts DEF Request
      <4>4. \A u \in Tasks : \A i \in 1..Len(calls'[u]) :
              calls'[u][i].name = n /\ calls'[u][i].at # "start" => u = t /\ i = last
        BY <2>6, <2>7, <4>3
      <4> HIDE DEF n, last
      <4>5. \A v, u \in Tasks : \A i \in 1..Len(calls'[v]), j \in 1..Len(calls'[u]) :
              calls'[v][i].name = n /\ calls'[u][j].name = n /\ "start" \notin {calls'[v][i].at, calls'[u][j].at}
                => v = u /\ i = j
        BY <4>4
      <4>6. \A u \in Tasks : \A i \in 1..Len(calls'[u]) : calls'[u][i].name = n => calls'[u][i].at # "running"
        BY <1>5, <2>6, <2>7, <4>3
      <4> QED
        BY <1>2, <1>5, <3>1, <3>3, <4>5, <4>6 DEF Alone
    <3> QED
      BY <3>2, <3>3
  <2> QED
    BY <2>4, <2>5, <2>8, <2>9 DEF ModuleInv
<1>6. CASE /\ loaded[n] = None
           /\ IF n \in preload THEN Modules!Become(t, "opening", 0) ELSE Modules!Become(t, "loading", 1)
           /\ shared' = IF Modules!Pending(n) = {} THEN shared ELSE shared \cup {n}
           /\ UNCHANGED given
  <2>1. CASE n \in preload
    BY <1>5, <1>6, <2>1
  <2>2. CASE n \notin preload
    BY <1>5, <1>6, <2>2
  <2> QED
    BY <2>1, <2>2
<1> QED
  BY <1>4, <1>6 DEF Modules!Lookup

(* A new value for a name. *)
LEMMA Putting ==
  ASSUME ModuleInv, NEW n \in Names, made' = Append(made, n),
         loaded' = [loaded EXCEPT ![n] = Len(made')]
  PROVE  /\ made' \in Seq(Names) /\ Len(made) \in Nat /\ Len(made') = Len(made) + 1
         /\ loaded' \in [Names -> Nat \cup {None}] /\ LoadedIsMade'
         /\ loaded'[n] = Len(made) + 1 /\ loaded'[n] # None
         /\ \A m \in Names : m # n => loaded'[m] = loaded[m]
         /\ \A m \in Names : loaded[m] # None => loaded'[m] # None
<1>1. made \in Seq(Names) /\ Len(made) \in Nat /\ loaded \in [Names -> Nat \cup {None}]
  BY DEF ModuleInv, ModuleTypes
<1>2. /\ made' \in Seq(Names) /\ Len(made') = Len(made) + 1 /\ made'[Len(made) + 1] = n
      /\ \A i \in 1..Len(made) : made'[i] = made[i]
  BY <1>1
<1>3. \A m \in Names : loaded'[m] = IF m = n THEN Len(made) + 1 ELSE loaded[m]
  BY <1>1, <1>2
<1>4. Len(made) + 1 # None /\ Len(made) + 1 \in Nat
  BY <1>1, NoneIsNoModule
<1>5. loaded' \in [Names -> Nat \cup {None}]
  BY <1>1, <1>2, <1>4
<1>6. LoadedIsMade'
  BY <1>1, <1>2, <1>3 DEF ModuleInv, LoadedIsMade
<1> QED
  BY <1>1, <1>2, <1>3, <1>4, <1>5, <1>6

(* The opener, or the chunk, has made the value: it was the only one.       *)
LEMMA Answering ==
  ASSUME ModuleInv, NEW t \in Tasks, NEW at \in {"opening", "running"}, Modules!At(t, at),
         NEW n, n = Modules!Name(t),
         made' = Append(made, n), Modules!Answer(t, n, Len(made')),
         UNCHANGED <<preload, shared>>, ran' \in [Names -> Nat],
         \A m \in Names : ran'[m] >= ran[m] /\ (m # n \/ n \notin preload => ran'[m] = ran[m])
  PROVE  ModuleInv'
<1> DEFINE last == Len(calls[t])
           v == Len(made) + 1
<1>1. /\ calls[t] # <<>> /\ last \in Nat \ {0} /\ n \in Names
      /\ calls[t][last].at = at /\ calls[t][last].name = n
  BY Innermost DEF ModuleInv
<1>2. /\ loaded' = [loaded EXCEPT ![n] = Len(made')] /\ Modules!Pop(t)
      /\ given' = [given EXCEPT ![n] = given[n] \cup {Len(made')}]
  BY DEF Modules!Answer, Modules!Give
<1>3. ModuleTypes /\ \A u \in Tasks : Len(calls[u]) \in Nat
  BY ModuleParts
<1>4. Pops(t)
  BY <1>1, <1>2, <1>3, Popping
<1>5. Fewer
  BY <1>4, PoppedAreFewer
<1>6. Nested' /\ Modules!NoReentry'
  BY <1>5, FewerNest
<1>7. /\ made' \in Seq(Names) /\ Len(made) \in Nat /\ Len(made') = v
      /\ loaded' \in [Names -> Nat \cup {None}] /\ LoadedIsMade'
      /\ loaded'[n] = v /\ loaded'[n] # None
      /\ \A m \in Names : m # n => loaded'[m] = loaded[m]
      /\ \A m \in Names : loaded[m] # None => loaded'[m] # None
  BY <1>1, <1>2, Putting
<1>8. /\ given' \in [Names -> SUBSET Nat] /\ given'[n] = given[n] \cup {v}
      /\ \A m \in Names : m # n => given'[m] = given[m]
  BY <1>1, <1>2, <1>3, <1>7 DEF ModuleTypes
<1>9. ModuleTypes'
  BY <1>3, <1>5, <1>7, <1>8 DEF ModuleTypes, Fewer
<1>10. Marked'
  <2>1. \A u \in Tasks : \A i \in 1..Len(calls'[u]) :
          i \in 1..Len(calls[u]) /\ calls'[u][i] = calls[u][i]
    <3>1. \A u \in Tasks : Len(calls'[u]) \in Nat
      BY <1>5 DEF Fewer
    <3> QED
      BY <1>3, <1>5, <3>1 DEF Fewer
  <2>2. \A m \in Names : ran[m] \in Nat /\ ran'[m] \in Nat /\ ran'[m] >= ran[m]
    BY <1>3 DEF ModuleTypes
  <2>3. ASSUME NEW u \in Tasks, NEW i \in 1..Len(calls'[u])
        PROVE  LET r == calls'[u][i] IN
               /\ r.at = "running" => loaded'[r.name] # None /\ ran'[r.name] > 0
               /\ r.at = "opening" => r.name \in preload'
    <3>1. /\ i \in 1..Len(calls[u]) /\ calls'[u][i] = calls[u][i]
          /\ calls[u][i].name \in Names
          /\ calls[u][i].at = "running" =>
                   loaded[calls[u][i].name] # None /\ ran[calls[u][i].name] > 0
          /\ calls[u][i].at = "opening" => calls[u][i].name \in preload
      BY <2>1, ModuleParts
    <3> QED
      BY <1>7, <2>2, <3>1
  <2> QED
    BY <2>3 DEF Marked
<1>11. \A m : Quieter(m)
  BY <1>5, FewerAreQuieter
<1>12. ASSUME NEW m \in Names \ shared' PROVE Alone(m)'
  <2>1. Alone(m) /\ Quieter(m)
    BY <1>11 DEF ModuleInv
  <2>2. CASE m # n
    BY <1>7, <1>8, <2>1, <2>2, StaysAlone
  <2>3. CASE m = n
    <3>1. Alone(n)
      BY <2>1, <2>3
    <3> HIDE DEF last
    <3>2. \A u \in Tasks : \A i \in 1..Len(calls[u]) :
            calls[u][i].name = n /\ calls[u][i].at # "start" => u = t /\ i = last
      <4>1. last \in 1..Len(calls[t]) /\ calls[t][last].at # "start"
        BY <1>1 DEF last
      <4> QED
        BY <1>1, <3>1, <4>1 DEF Alone
    <3>3. \A u \in Tasks : \A i \in 1..Len(calls'[u]) : calls'[u][i].name = n => calls'[u][i].at = "start"
      <4>1. Quieter(n) /\ Len(calls'[t]) = last - 1 /\ last \in Nat
        BY <1>1, <1>4, <1>11 DEF Pops, last
      <4>2. ASSUME NEW u \in Tasks, NEW i \in 1..Len(calls'[u]),
                   calls'[u][i].name = n, calls'[u][i].at # "start"
            PROVE  FALSE
        <5>1. u = t /\ i = last
          BY <3>2, <4>1, <4>2 DEF Quieter
        <5> QED
          BY <4>1, <5>1
      <4> QED
        BY <4>2
    <3>4. loaded[n] = None \/ loaded[n] = 0
      BY <1>1, <3>1 DEF Alone, last
    <3>5. given[n] \subseteq {0}
      BY <3>1, <3>4 DEF Alone
    <3>6. n \notin preload => ran'[n] <= 1
      BY <1>1, <1>3, <3>1 DEF Alone, ModuleTypes
    <3> QED
      BY <1>7, <1>8, <2>3, <3>3, <3>5, <3>6 DEF Alone
  <2> QED
    BY <2>2, <2>3
<1> QED
  BY <1>6, <1>7, <1>9, <1>10, <1>12 DEF ModuleInv

LEMMA Opening ==
  ASSUME ModuleInv, NEW t \in Tasks, Modules!Open(t) PROVE ModuleInv'
<1> DEFINE n == Modules!Name(t)
<1>1. /\ calls[t] # <<>> /\ n \in Names /\ Len(calls[t]) \in Nat \ {0}
      /\ calls[t][Len(calls[t])].at = "opening" /\ calls[t][Len(calls[t])].name = n
  BY Innermost DEF Modules!Open, ModuleInv
<1>2. n \in preload /\ ModuleTypes
  BY <1>1, ModuleParts
<1>3. /\ ran' = [ran EXCEPT ![n] = @ + 1] /\ UNCHANGED <<preload, shared>>
      /\ Modules!At(t, "opening")
  BY DEF Modules!Open
<1> HIDE DEF n
<1>4. /\ ran' \in [Names -> Nat]
      /\ \A m \in Names : ran'[m] = IF m = n THEN ran[m] + 1 ELSE ran[m]
      /\ \A m \in Names : ran[m] \in Nat
  BY <1>1, <1>2, <1>3 DEF ModuleTypes
<1>5. \A m \in Names : ran'[m] >= ran[m] /\ (m # n \/ n \notin preload => ran'[m] = ran[m])
  BY <1>2, <1>4
<1>6. CASE made' = Append(made, n) /\ Modules!Answer(t, n, Len(made'))
  BY <1>3, <1>4, <1>5, <1>6, Answering DEF n
<1>7. CASE Modules!Pop(t) /\ UNCHANGED <<loaded, made, given>>
  <2>1. Fewer
    BY <1>1, <1>2, <1>7, Popping, PoppedAreFewer
  <2>2. Nested' /\ Modules!NoReentry' /\ \A m : Quieter(m)
    BY <2>1, FewerNest, FewerAreQuieter
  <2>3. ModuleTypes' /\ LoadedIsMade'
    BY <1>2, <1>3, <1>4, <1>7, <2>1 DEF ModuleInv, ModuleTypes, LoadedIsMade, Fewer
  <2>4. Marked'
    <3>1. \A u \in Tasks : \A i \in 1..Len(calls'[u]) :
            i \in 1..Len(calls[u]) /\ calls'[u][i] = calls[u][i]
      <4>1. \A u \in Tasks : Len(calls'[u]) \in Nat /\ Len(calls[u]) \in Nat
        BY <2>1, ModuleParts DEF Fewer
      <4> QED
        BY <2>1, <4>1 DEF Fewer
    <3>2. ASSUME NEW u \in Tasks, NEW i \in 1..Len(calls'[u])
          PROVE  LET r == calls'[u][i] IN
                 /\ r.at = "running" => loaded'[r.name] # None /\ ran'[r.name] > 0
                 /\ r.at = "opening" => r.name \in preload'
      <4>1. /\ i \in 1..Len(calls[u]) /\ calls'[u][i] = calls[u][i]
            /\ calls[u][i].name \in Names
            /\ calls[u][i].at = "running" =>
                     loaded[calls[u][i].name] # None /\ ran[calls[u][i].name] > 0
            /\ calls[u][i].at = "opening" => calls[u][i].name \in preload
        BY <3>1, ModuleParts
      <4> QED
        BY <1>3, <1>4, <1>7, <4>1
    <3> QED
      BY <3>2 DEF Marked
  <2>5. ASSUME NEW m \in Names \ shared' PROVE Alone(m)'
    <3>1. Alone(m) /\ Quieter(m)
      BY <1>3, <2>2 DEF ModuleInv
    <3>2. CASE m # n
      BY <1>3, <1>4, <1>7, <3>1, <3>2, StaysAlone
    <3>3. CASE m = n
      <4>1. /\ m \in preload'
            /\ \A v \in given'[m] : loaded'[m] # None /\ (v # 0 => loaded'[m] = v)
        BY <1>2, <1>3, <1>7, <3>1, <3>3 DEF Alone
      <4>2. \A u \in Tasks : \A i \in 1..Len(calls'[u]) : calls'[u][i].name = m =>
              /\ calls'[u][i].at \in {"opening", "loading"} => loaded'[m] = None
              /\ calls'[u][i].at = "running" => loaded'[m] = 0
        BY <1>7, <3>1 DEF Alone, Quieter
      <4>3. \A v, u \in Tasks : \A i \in 1..Len(calls'[v]), j \in 1..Len(calls'[u]) :
              calls'[v][i].name = m /\ calls'[u][j].name = m /\ "start" \notin {calls'[v][i].at, calls'[u][j].at}
                => v = u /\ i = j
        BY <3>1 DEF Alone, Quieter
      <4> QED
        BY <4>1, <4>2, <4>3 DEF Alone
    <3> QED
      BY <3>2, <3>3
  <2> QED
    BY <2>2, <2>3, <2>4, <2>5 DEF ModuleInv
<1> QED
  BY <1>6, <1>7 DEF Modules!Open, n

LEMMA Loading ==
  ASSUME ModuleInv, NEW t \in Tasks, Modules!Load(t) PROVE ModuleInv'
<1> DEFINE n == Modules!Name(t)
           last == Len(calls[t])
           file == Modules!Last(calls[t]).file
<1>1. /\ calls[t] # <<>> /\ last \in Nat \ {0} /\ n \in Names
      /\ calls[t][last].at = "loading" /\ calls[t][last].name = n
      /\ calls[t][last] \in Request
  BY Innermost DEF Modules!Load, ModuleInv
<1>2. file \in Nat
  BY <1>1 DEF Modules!Last, Request
<1>3. ModuleTypes /\ \A u \in Tasks : Len(calls[u]) \in Nat
  BY ModuleParts
<1>4. UNCHANGED <<preload, made, given, shared>>
  BY DEF Modules!Load
<1> HIDE DEF n, last, file
(* The chunk is not being run in this task: else its require would not be   *)
(* past the lookup.                                                         *)
<1>5. \A i \in 1..last - 1 : calls[t][i].name # n
  <2>1. last \in 1..Len(calls[t]) /\ \A i \in 1..last - 1 : i \in 1..Len(calls[t]) /\ i < last
    BY <1>1 DEF last
  <2>2. DOMAIN calls[t] = 1..Len(calls[t])
    BY <1>3 DEF ModuleTypes
  <2> QED
    BY <1>1, <2>1, <2>2 DEF ModuleInv, Modules!NoReentry
<1>6. CASE Modules!Pop(t) /\ UNCHANGED <<loaded, ran>>
  <2>1. Fewer
    BY <1>1, <1>3, <1>6, Popping, PoppedAreFewer
  <2> QED
    BY <1>4, <1>6, <2>1, ForgettingModules
<1>7. ASSUME NEW at \in {"loading", "running"}, Becomes(t, at)
      PROVE  /\ Nested' /\ Modules!NoReentry'
             /\ \A u \in Tasks : Len(calls'[u]) = Len(calls[u])
             /\ \A u \in Tasks : \A i \in 1..Len(calls[u]) :
                  \/ calls'[u][i] = calls[u][i] /\ (u # t \/ i # last)
                  \/ u = t /\ i = last /\ calls'[u][i].at = at /\ calls'[u][i].name = n
  <2>1. Nested' /\ Modules!NoReentry'
    BY <1>1, <1>5, <1>7, BecomingNests DEF last
  <2> QED
    BY <1>1, <1>3, <1>7, <2>1 DEF Becomes, last
<1>8. CASE Modules!Become(t, "loading", file + 1) /\ UNCHANGED <<loaded, ran>>
  <2>1. Becomes(t, "loading")
    BY <1>1, <1>2, <1>3, <1>8, Becoming
  <2>2. ModuleTypes' /\ LoadedIsMade'
    BY <1>3, <1>4, <1>8, <2>1 DEF ModuleInv, ModuleTypes, LoadedIsMade, Becomes
  <2>3. Marked'
    BY <1>4, <1>7, <1>8, <2>1 DEF ModuleInv, Marked
  <2>4. ASSUME NEW m \in Names \ shared' PROVE Alone(m)'
    <3>1. Alone(m) /\ Quieter(m)
      BY <1>1, <1>4, <2>1, BecomingIsQuiet DEF ModuleInv, last
    <3> QED
      BY <1>4, <1>8, <3>1, StaysAlone
  <2> QED
    BY <1>7, <2>1, <2>2, <2>3, <2>4 DEF ModuleInv
<1>9. CASE /\ loaded' = [loaded EXCEPT ![n] = Modules!Sentinel]
           /\ ran' = [ran EXCEPT ![n] = @ + 1]
           /\ Modules!Become(t, "running", 0)
  <2>1. Becomes(t, "running")
    BY <1>1, <1>3, <1>9, Becoming
  <2>2. /\ loaded' \in [Names -> Nat \cup {None}] /\ ran' \in [Names -> Nat]
        /\ \A m \in Names : loaded'[m] = IF m = n THEN 0 ELSE loaded[m]
        /\ \A m \in Names : ran'[m] = IF m = n THEN ran[m] + 1 ELSE ran[m]
        /\ \A m \in Names : ran[m] \in Nat
    BY <1>1, <1>3, <1>9 DEF ModuleTypes, Modules!Sentinel
  <2>3. ModuleTypes' /\ LoadedIsMade'
    BY <1>3, <1>4, <2>1, <2>2 DEF ModuleInv, ModuleTypes, LoadedIsMade, Becomes
  <2>4. Marked'
    <3>1. ASSUME NEW u \in Tasks, NEW i \in 1..Len(calls'[u])
          PROVE  LET r == calls'[u][i] IN
                 /\ r.at = "running" => loaded'[r.name] # None /\ ran'[r.name] > 0
                 /\ r.at = "opening" => r.name \in preload'
      <4>1. i \in 1..Len(calls[u])
        BY <1>7, <2>1
      <4>2. CASE calls'[u][i] = calls[u][i]
        <5>1. /\ calls[u][i].name \in Names
              /\ calls[u][i].at = "running" =>
                       loaded[calls[u][i].name] # None /\ ran[calls[u][i].name] > 0
              /\ calls[u][i].at = "opening" => calls[u][i].name \in preload
          BY <4>1, ModuleParts
        <5> QED
          BY <1>4, <2>2, <4>2, <5>1, NoneIsNoModule
      <4>3. CASE calls'[u][i].at = "running" /\ calls'[u][i].name = n
        BY <1>1, <2>2, <4>3, NoneIsNoModule
      <4> QED
        BY <1>7, <2>1, <4>1, <4>2, <4>3
    <3> QED
      BY <3>1 DEF Marked
  <2>5. ASSUME NEW m \in Names \ shared' PROVE Alone(m)'
    <3>1. Alone(m)
      BY <1>4 DEF ModuleInv
    <3>2. CASE m # n
      <4>1. Quieter(m)
        BY <1>1, <2>1, <3>2, BecomingIsQuiet DEF last
      <4> QED
        BY <1>4, <2>2, <3>1, <3>2, <4>1, StaysAlone
    <3>3. CASE m = n
      <4>1. last \in 1..Len(calls[t])
        BY <1>1 DEF last
      <4>2. loaded[n] = None /\ given[n] = {}
        BY <1>1, <3>1, <3>3, <4>1 DEF Alone
      <4>3. \A u \in Tasks : \A i \in 1..Len(calls[u]) :
              calls[u][i].name = n /\ calls[u][i].at # "start" => u = t /\ i = last
        BY <1>1, <3>1, <3>3, <4>1 DEF Alone
      <4>4. \A u \in Tasks : \A i \in 1..Len(calls'[u]) :
              calls'[u][i].name = n /\ calls'[u][i].at # "start" =>
                u = t /\ i = last /\ calls'[u][i].at = "running"
        BY <1>7, <2>1, <4>3
      <4>5. n \notin preload => ran'[n] <= 1
        BY <1>1, <2>2, <3>1, <3>3, <4>2 DEF Alone
      <4>6. loaded'[n] = 0 /\ given'[n] = {}
        BY <1>1, <1>4, <2>2, <4>2
      <4> QED
        BY <1>4, <3>3, <4>4, <4>5, <4>6, NoneIsNoModule DEF Alone
    <3> QED
      BY <3>2, <3>3
  <2> QED
    BY <1>7, <2>1, <2>3, <2>4, <2>5 DEF ModuleInv
<1> QED
  BY <1>6, <1>8, <1>9 DEF Modules!Load, n, file

LEMMA Ending ==
  ASSUME ModuleInv, NEW t \in Tasks,
         Modules!Finish(t) \/ Modules!Fail(t) \/ Modules!Cancel(t)
  PROVE  ModuleInv'
<1>1. ModuleTypes
  BY ModuleParts
<1>2. CASE Modules!Finish(t)
  <2>1. ran' \in [Names -> Nat] /\ \A m \in Names : ran'[m] >= ran[m] /\ ran'[m] = ran[m]
    BY <1>1, <1>2 DEF Modules!Finish, ModuleTypes
  <2> QED
    BY <1>2, <2>1, Answering DEF Modules!Finish
<1>3. CASE Modules!Fail(t)
  <2>1. calls[t] # <<>>
    BY <1>3 DEF Modules!Fail, Modules!At
  <2>2. Fewer
    BY <1>1, <1>3, <2>1, Popping, PoppedAreFewer DEF Modules!Fail
  <2> QED
    BY <1>3, <2>2, ForgettingModules DEF Modules!Fail
<1>4. CASE Modules!Cancel(t)
  <2>1. calls' = [calls EXCEPT ![t] = <<>>]
    BY <1>4 DEF Modules!Cancel
  <2>2. \A u \in Tasks : calls'[u] = calls[u] \/ calls'[u] = <<>>
    BY <1>1, <2>1 DEF ModuleTypes
  <2>3. \A u \in Tasks : Len(calls[u]) \in Nat
    BY ModuleParts
  <2>4. calls' \in [Tasks -> Seq(Request)]
    BY <1>1, <2>1 DEF ModuleTypes
  <2>5. Fewer
    BY <2>2, <2>3, <2>4 DEF Fewer
  <2> QED
    BY <1>4, <2>5, ForgettingModules DEF Modules!Cancel
<1> QED
  BY <1>2, <1>3, <1>4

(* The host puts a module there before anybody has asked for it, or the     *)
(* name counts as shared.                                                   *)
LEMMA Setting ==
  ASSUME ModuleInv, NEW n \in Names, Modules!SetLoaded(n) PROVE ModuleInv'
<1>1. /\ made' = Append(made, n) /\ loaded' = [loaded EXCEPT ![n] = Len(made')]
      /\ shared' = IF given[n] = {} /\ ran[n] = 0 /\ Modules!Pending(n) = {} THEN shared
                   ELSE shared \cup {n}
      /\ UNCHANGED <<preload, calls, ran, given>>
  BY DEF Modules!SetLoaded
<1>2. ModuleTypes
  BY ModuleParts
<1>3. /\ made' \in Seq(Names)
      /\ loaded' \in [Names -> Nat \cup {None}] /\ LoadedIsMade'
      /\ loaded'[n] # None
      /\ \A m \in Names : m # n => loaded'[m] = loaded[m]
      /\ \A m \in Names : loaded[m] # None => loaded'[m] # None
  BY <1>1, Putting
<1>4. ModuleTypes' /\ Nested' /\ Modules!NoReentry'
  BY <1>1, <1>2, <1>3 DEF ModuleInv, ModuleTypes, Nested, Modules!NoReentry
<1>5. Marked'
  <2>1. ASSUME NEW u \in Tasks, NEW i \in 1..Len(calls'[u])
        PROVE  LET r == calls'[u][i] IN
               /\ r.at = "running" => loaded'[r.name] # None /\ ran'[r.name] > 0
               /\ r.at = "opening" => r.name \in preload'
    <3>1. /\ calls[u][i].name \in Names
          /\ calls[u][i].at = "running" =>
                   loaded[calls[u][i].name] # None /\ ran[calls[u][i].name] > 0
          /\ calls[u][i].at = "opening" => calls[u][i].name \in preload
      BY <1>1, ModuleParts
    <3> QED
      BY <1>1, <1>3, <3>1
  <2> QED
    BY <2>1 DEF Marked
<1>6. ASSUME NEW m \in Names \ shared' PROVE Alone(m)'
  <2>1. Alone(m) /\ Quieter(m)
    BY <1>1, <1>6 DEF ModuleInv, Quieter
  <2>2. CASE m # n
    BY <1>1, <1>3, <2>1, <2>2, StaysAlone
  <2>3. CASE m = n
    <3>1. given[n] = {} /\ ran[n] = 0 /\ Modules!Pending(n) = {}
      BY <1>1, <1>6, <2>3
    <3>2. \A u \in Tasks : \A i \in 1..Len(calls[u]) :
            calls[u][i].name = n => calls[u][i].at \notin {"opening", "loading"}
      <4>1. \A u \in Tasks : DOMAIN calls[u] = 1..Len(calls[u])
        BY <1>2 DEF ModuleTypes
      <4> QED
        BY <3>1, <4>1 DEF Modules!Pending
    <3>3. \A u \in Tasks : \A i \in 1..Len(calls[u]) : calls[u][i].name = n => calls[u][i].at = "start"
      BY <3>1, <3>2, ModuleParts DEF Request
    <3> QED
      BY <1>1, <1>3, <2>3, <3>1, <3>3 DEF Alone
  <2> QED
    BY <2>2, <2>3
<1> QED
  BY <1>3, <1>4, <1>5, <1>6 DEF ModuleInv

LEMMA ModuleSteps == ASSUME ModuleInv, Modules!Next PROVE ModuleInv'
  BY Requiring, LookingUp, Opening, Loading, Ending, Setting DEF Modules!Next

(* However requires of any depth interleave, fail and are cancelled, a      *)
(* chunk is not run by what it requires itself, and a module nobody raced   *)
(* for is run once and given to all (GlobalEnv::require).                   *)
THEOREM ModulesLoadOnce == Spec => []OneModule
<1> DEFINE I == part = "modules" => ModuleInv
<1>1. Init => I
  BY ModuleStart DEF Init
<1>2. I /\ [Next]_vars => I'
  <2> SUFFICES ASSUME I, [Next]_vars, part' = "modules" PROVE ModuleInv'
    OBVIOUS
  <2>1. CASE part # "modules" /\ UNCHANGED part
    BY <2>1
  <2>2. CASE part = "modules" /\ Modules!Next
    BY <2>2, ModuleSteps
  <2>3. CASE UNCHANGED vars
    <3>1. part = "modules" /\ UNCHANGED <<preload, loaded, calls, made, ran, given, shared>>
      BY <2>3 DEF vars, moduleVars
    <3>2. Fewer
      BY <3>1 DEF Fewer, ModuleInv, ModuleTypes
    <3> QED
      BY <3>1, <3>2, ForgettingModules
  <2> QED
    BY <2>1, <2>2, <2>3 DEF Next
<1>3. I => OneModule
  <2> SUFFICES ASSUME ModuleInv PROVE Modules!NoReentry /\ Modules!OneModule
    BY DEF OneModule
  <2>1. ASSUME NEW n \in Names \ shared
        PROVE  /\ n \notin preload => ran[n] <= 1
               /\ Modules!Cardinality(given[n] \ {Modules!Sentinel}) <= 1
               /\ \A v \in given[n] \ {Modules!Sentinel} : made[v] = n /\ loaded[n] = v
    <3>1. Alone(n) /\ LoadedIsMade /\ ran[n] \in Nat
      BY DEF ModuleInv, ModuleTypes
    <3>2. \A v \in given[n] \ {0} : loaded[n] # None /\ loaded[n] = v
      BY <3>1 DEF Alone
    <3>3. \A v \in given[n] \ {0} : made[v] = n
      BY <3>1, <3>2 DEF LoadedIsMade
    <3>4. Cardinality(given[n] \ {0}) <= 1
      <4>1. CASE given[n] \ {0} = {}
        BY <4>1, FS_EmptySet
      <4>2. CASE given[n] \ {0} # {}
        <5>1. given[n] \ {0} = {loaded[n]}
          BY <3>2, <4>2
        <5> QED
          BY <5>1, FS_Singleton
      <4> QED
        BY <4>1, <4>2
    <3>5. Modules!Cardinality(given[n] \ {0}) = Cardinality(given[n] \ {0})
      BY DEF Modules!Cardinality, Cardinality
    <3>6. n \notin preload => ran[n] <= 1
      BY <3>1 DEF Alone
    <3> QED
      BY <3>2, <3>3, <3>4, <3>5, <3>6 DEF Modules!Sentinel
  <2> QED
    BY <2>1 DEF ModuleInv, Modules!OneModule
<1> QED
  BY <1>1, <1>2, <1>3, PTL DEF Spec

-------------------------------- (* Variables *) -----------------------------
Register == Values \cup {Nil}
Entry == [slot : Nat \ {0}, cell : Cells]
Frames == [arr : Arrays, size : Nat \ {0}, locals : Seq(Nat), blocks : Seq(Nat),
           open : SUBSET Entry]
OpenCell == [arr : Arrays, slot : Nat]
ClosedCell == [value : Register]

CaptureTypes ==
  /\ heap \in [Arrays -> Seq(Register)]
  /\ pool \subseteq Arrays
  /\ stack \in Seq(Frames)
  /\ cell \in [Cells -> OpenCell \cup ClosedCell \cup {Captures!NoValue}]
  /\ captured \subseteq [var : Nat, cell : Cells]
  /\ value \in Seq(Register)

(* Each frame has a box of its own, and the pool has the others, empty.     *)
Boxes ==
  /\ \A a \in pool : heap[a] # <<>> /\ heap[a] = Captures!Nils(Len(heap[a]))
  /\ \A i \in 1..Len(stack) : stack[i].arr \notin pool
  /\ \A i, j \in 1..Len(stack) : stack[i].arr = stack[j].arr => i = j

(* Blocks are nested, and a frame's box has room for its locals. *)
Fits(f) ==
  /\ Len(f.locals) <= f.size /\ f.size <= Len(heap[f.arr])
  /\ \A k \in 1..Len(f.blocks) : f.blocks[k] <= Len(f.locals)
  /\ \A k, l \in 1..Len(f.blocks) : k <= l => f.blocks[k] <= f.blocks[l]
  /\ \A e \in f.open : e.slot <= Len(f.locals)
  /\ \A e, d \in f.open : e.slot = d.slot => e = d

(* The open cells are those that a frame knows of, and point to its box.    *)
Pointers ==
  /\ \A i \in 1..Len(stack) : \A e \in stack[i].open :
       cell[e.cell] = [arr |-> stack[i].arr, slot |-> e.slot]
  /\ \A c \in Cells : "arr" \in DOMAIN cell[c] =>
       \E i \in 1..Len(stack) : \E e \in stack[i].open : e.cell = c

(* A local has its value, and is no other local. *)
Locals ==
  /\ \A i \in 1..Len(stack) : \A s \in 1..Len(stack[i].locals) :
       /\ stack[i].locals[s] \in 1..Len(value)
       /\ heap[stack[i].arr][s] = value[stack[i].locals[s]]
  /\ \A i, j \in 1..Len(stack) : \A s \in 1..Len(stack[i].locals), r \in 1..Len(stack[j].locals) :
       stack[i].locals[s] = stack[j].locals[r] => i = j /\ s = r

(* A variable and its cell belong together: while the cell is open, the    *)
(* variable is the local it points to, and when it is closed, no local.    *)
CapturedOnce ==
  /\ \A cap \in captured :
       /\ cap.var \in 1..Len(value)
       /\ cell[cap.cell] # Captures!NoValue
       /\ \A i \in 1..Len(stack) : \A e \in stack[i].open :
            e.cell = cap.cell => stack[i].locals[e.slot] = cap.var
       /\ "value" \in DOMAIN cell[cap.cell] =>
            /\ cell[cap.cell].value = value[cap.var]
            /\ \A i \in 1..Len(stack) : \A s \in 1..Len(stack[i].locals) :
                 stack[i].locals[s] # cap.var
  /\ \A cap, other \in captured : cap.var = other.var <=> cap.cell = other.cell

CaptureInv ==
  /\ CaptureTypes
  /\ Boxes
  /\ \A i \in 1..Len(stack) : Fits(stack[i])
  /\ Pointers
  /\ Locals
  /\ CapturedOnce

LEMMA CellKinds ==
  /\ \A u \in OpenCell : "arr" \in DOMAIN u /\ "slot" \in DOMAIN u /\ "value" \notin DOMAIN u
                         /\ u # Captures!NoValue
  /\ \A u \in ClosedCell : "value" \in DOMAIN u /\ "arr" \notin DOMAIN u /\ "slot" \notin DOMAIN u
                         /\ u # Captures!NoValue
  /\ "arr" \notin DOMAIN Captures!NoValue /\ "slot" \notin DOMAIN Captures!NoValue
  /\ "value" \notin DOMAIN Captures!NoValue
  /\ \A a \in Arrays, s \in Nat : [arr |-> a, slot |-> s] \in OpenCell
  /\ \A v \in Register : [value |-> v] \in ClosedCell
<1>1. \A u \in OpenCell : DOMAIN u = {"arr", "slot"}
  BY DEF OpenCell
<1>2. \A u \in ClosedCell : DOMAIN u = {"value"}
  BY DEF ClosedCell
<1>3. DOMAIN Captures!NoValue = {"none"}
  BY DEF Captures!NoValue
<1>4. /\ \A a \in Arrays, s \in Nat : [arr |-> a, slot |-> s] \in OpenCell
      /\ \A v \in Register : [value |-> v] \in ClosedCell
  BY DEF OpenCell, ClosedCell
<1> HIDE DEF OpenCell, ClosedCell, Captures!NoValue
<1>5. "arr" # "slot" /\ "arr" # "value" /\ "slot" # "value" /\ "none" # "arr"
      /\ "none" # "slot" /\ "none" # "value"
  OBVIOUS
<1> QED
  BY <1>1, <1>2, <1>3, <1>4, <1>5

(* What the types say of one frame. *)
LEMMA FrameParts ==
  ASSUME CaptureInv
  PROVE  /\ Len(stack) \in Nat
         /\ \A i \in 1..Len(stack) :
              /\ stack[i] \in Frames /\ stack[i].arr \in Arrays /\ stack[i].size \in Nat \ {0}
              /\ stack[i].locals \in Seq(Nat) /\ Len(stack[i].locals) \in Nat
              /\ stack[i].blocks \in Seq(Nat) /\ stack[i].open \subseteq Entry
              /\ Len(heap[stack[i].arr]) \in Nat
              /\ Len(stack[i].locals) <= Len(heap[stack[i].arr])
              /\ Len(heap[stack[i].arr]) > 0 /\ heap[stack[i].arr] # <<>>
              /\ \A e \in stack[i].open :
                   /\ e.cell \in Cells /\ e.slot \in 1..Len(stack[i].locals)
                   /\ cell[e.cell] = [arr |-> stack[i].arr, slot |-> e.slot]
                   /\ cell[e.cell] \in OpenCell
<1>1. stack \in Seq(Frames) /\ Len(stack) \in Nat /\ heap \in [Arrays -> Seq(Register)]
  BY DEF CaptureInv, CaptureTypes
<1>2. ASSUME NEW i \in 1..Len(stack)
      PROVE  /\ stack[i] \in Frames /\ stack[i].arr \in Arrays /\ stack[i].size \in Nat \ {0}
             /\ stack[i].locals \in Seq(Nat) /\ Len(stack[i].locals) \in Nat
             /\ stack[i].blocks \in Seq(Nat) /\ stack[i].open \subseteq Entry
  <2>1. stack[i] \in Frames
    BY <1>1
  <2> QED
    BY <2>1 DEF Frames
<1>3. ASSUME NEW i \in 1..Len(stack)
      PROVE  /\ Len(heap[stack[i].arr]) \in Nat
             /\ Len(stack[i].locals) <= Len(heap[stack[i].arr])
             /\ Len(heap[stack[i].arr]) > 0 /\ heap[stack[i].arr] # <<>>
  <2>1. heap[stack[i].arr] \in Seq(Register) /\ Len(heap[stack[i].arr]) \in Nat
    BY <1>1, <1>2
  <2>2. Len(stack[i].locals) <= stack[i].size /\ stack[i].size <= Len(heap[stack[i].arr])
    BY DEF CaptureInv, Fits
  <2> QED
    BY <1>2, <2>1, <2>2
<1>4. ASSUME NEW i \in 1..Len(stack), NEW e \in stack[i].open
      PROVE  /\ e.cell \in Cells /\ e.slot \in 1..Len(stack[i].locals)
             /\ cell[e.cell] = [arr |-> stack[i].arr, slot |-> e.slot]
             /\ cell[e.cell] \in OpenCell
  <2>1. e.cell \in Cells /\ e.slot \in Nat \ {0}
    BY <1>2 DEF Entry
  <2>2. e.slot <= Len(stack[i].locals)
    BY DEF CaptureInv, Fits
  <2>3. cell[e.cell] = [arr |-> stack[i].arr, slot |-> e.slot]
    BY DEF CaptureInv, Pointers
  <2> QED
    BY <1>2, <2>1, <2>2, <2>3, CellKinds
<1> QED
  BY <1>1, <1>2, <1>3, <1>4

LEMMA Slots ==
  ASSUME CaptureInv, NEW i \in 1..Len(stack), NEW e \in stack[i].open
  PROVE  /\ e.slot \in Nat /\ e.slot >= 1 /\ e.slot <= Len(stack[i].locals)
         /\ Len(stack[i].locals) \in Nat
<1>1. e.slot \in 1..Len(stack[i].locals) /\ Len(stack[i].locals) \in Nat
  BY FrameParts
<1> QED
  BY <1>1

(* An open cell is read in the frame's box: it has the variable's value.    *)
LEMMA Reading ==
  ASSUME CaptureInv, NEW i \in 1..Len(stack), NEW e \in stack[i].open
  PROVE  /\ Captures!Deref(cell[e.cell]) = value[stack[i].locals[e.slot]]
         /\ Captures!Deref(cell[e.cell]) \in Register
<1> DEFINE a == stack[i].arr
<1>1. /\ cell[e.cell] = [arr |-> a, slot |-> e.slot] /\ a \in Arrays
      /\ e.slot \in 1..Len(stack[i].locals) /\ Len(stack[i].locals) <= Len(heap[a])
      /\ Len(heap[a]) \in Nat /\ Len(stack[i].locals) \in Nat
      /\ "value" \notin DOMAIN cell[e.cell]
  BY FrameParts, CellKinds
<1>2. heap[a] \in Seq(Register)
  BY <1>1 DEF CaptureInv, CaptureTypes
<1> HIDE DEF a
<1>3. e.slot \in DOMAIN heap[a] /\ heap[a][e.slot] \in Register
  BY <1>1, <1>2
<1>4. heap[a][e.slot] = value[stack[i].locals[e.slot]]
  BY <1>1 DEF CaptureInv, Locals, a
<1>5. cell[e.cell].arr = a /\ cell[e.cell].slot = e.slot
  BY <1>1
<1> QED
  BY <1>1, <1>3, <1>4, <1>5 DEF Captures!Deref

(* Scopes end: frames go, or lose their last locals; their boxes may move;  *)
(* the cells of what ended are closed.                                      *)
Ends ==
  /\ UNCHANGED <<captured, value>>
  /\ Len(stack') \in Nat /\ Len(stack') <= Len(stack)
  /\ cell' = [c \in Cells |-> cell'[c]]
  /\ \A i \in 1..Len(stack') :
       /\ stack'[i].arr \in Arrays
       /\ Len(stack'[i].locals) \in Nat /\ Len(stack'[i].locals) <= Len(stack[i].locals)
       /\ \A s \in 1..Len(stack'[i].locals) :
            /\ stack'[i].locals[s] = stack[i].locals[s]
            /\ heap'[stack'[i].arr][s] = heap[stack[i].arr][s]
       /\ stack'[i].open = {e \in stack[i].open : e.slot <= Len(stack'[i].locals)}
       /\ \A e \in stack'[i].open : cell'[e.cell] = [arr |-> stack'[i].arr, slot |-> e.slot]
  /\ \A i \in 1..Len(stack) : \A e \in stack[i].open :
       \/ i \in 1..Len(stack') /\ e \in stack'[i].open
       \/ cell'[e.cell] = [value |-> Captures!Deref(cell[e.cell])]
  /\ \A c \in Cells : (\A i \in 1..Len(stack) : \A e \in stack[i].open : e.cell # c)
                       => cell'[c] = cell[c]

LEMMA EndingKeeps ==
  ASSUME CaptureInv, Ends
  PROVE  /\ Pointers' /\ Locals' /\ CapturedOnce'
         /\ cell' \in [Cells -> OpenCell \cup ClosedCell \cup {Captures!NoValue}]
<1>1. /\ Len(stack) \in Nat
      /\ \A i \in 1..Len(stack') : i \in 1..Len(stack)
      /\ \A i \in 1..Len(stack') : \A s \in 1..Len(stack'[i].locals) : s \in 1..Len(stack[i].locals)
  BY FrameParts DEF Ends
<1>2. \A i \in 1..Len(stack') : \A e \in stack'[i].open :
        /\ e \in stack[i].open /\ e.slot \in 1..Len(stack'[i].locals)
        /\ cell'[e.cell] = [arr |-> stack'[i].arr, slot |-> e.slot]
        /\ cell'[e.cell] \in OpenCell
  <2>1. ASSUME NEW i \in 1..Len(stack'), NEW e \in stack'[i].open
        PROVE  /\ e \in stack[i].open /\ e.slot \in 1..Len(stack'[i].locals)
               /\ cell'[e.cell] = [arr |-> stack'[i].arr, slot |-> e.slot]
               /\ cell'[e.cell] \in OpenCell
    <3>1. e \in stack[i].open /\ e.slot <= Len(stack'[i].locals) /\ Len(stack'[i].locals) \in Nat
          /\ cell'[e.cell] = [arr |-> stack'[i].arr, slot |-> e.slot]
          /\ stack'[i].arr \in Arrays
      BY DEF Ends
    <3>2. e.slot \in 1..Len(stack[i].locals) /\ Len(stack[i].locals) \in Nat
      BY <1>1, <3>1, FrameParts
    <3>3. [arr |-> stack'[i].arr, slot |-> e.slot] \in OpenCell
      BY <3>1, <3>2, CellKinds
    <3> QED
      BY <3>1, <3>2, <3>3
  <2> QED
    BY <2>1
<1>3. \A i \in 1..Len(stack) : \A e \in stack[i].open :
        \/ i \in 1..Len(stack') /\ e \in stack'[i].open
        \/ /\ cell'[e.cell] \in ClosedCell
           /\ cell'[e.cell].value = value[stack[i].locals[e.slot]]
  <2>1. ASSUME NEW i \in 1..Len(stack), NEW e \in stack[i].open,
               cell'[e.cell] = [value |-> Captures!Deref(cell[e.cell])]
        PROVE  /\ cell'[e.cell] \in ClosedCell
               /\ cell'[e.cell].value = value[stack[i].locals[e.slot]]
    <3>1. /\ Captures!Deref(cell[e.cell]) = value[stack[i].locals[e.slot]]
          /\ Captures!Deref(cell[e.cell]) \in Register
      BY Reading
    <3> QED
      BY <2>1, <3>1, CellKinds
  <2> QED
    BY <2>1 DEF Ends
<1>4. \A c \in Cells : cell'[c] = cell[c] \/ \E i \in 1..Len(stack) : \E e \in stack[i].open : e.cell = c
  BY DEF Ends
<1>5. cell' \in [Cells -> OpenCell \cup ClosedCell \cup {Captures!NoValue}]
  <2>1. ASSUME NEW c \in Cells
        PROVE  cell'[c] \in OpenCell \cup ClosedCell \cup {Captures!NoValue}
    <3>1. CASE cell'[c] = cell[c]
      BY <3>1 DEF CaptureInv, CaptureTypes
    <3>2. CASE \E i \in 1..Len(stack) : \E e \in stack[i].open : e.cell = c
      <4>1. PICK i \in 1..Len(stack) : \E e \in stack[i].open : e.cell = c
        BY <3>2
      <4>2. PICK e \in stack[i].open : e.cell = c
        BY <4>1
      <4>3. CASE i \in 1..Len(stack') /\ e \in stack'[i].open
        BY <1>2, <4>2, <4>3
      <4>4. CASE cell'[e.cell] \in ClosedCell
        BY <4>2, <4>4
      <4> QED
        BY <1>3, <4>3, <4>4
    <3> QED
      BY <1>4, <3>1, <3>2
  <2>2. cell' = [c \in Cells |-> cell'[c]]
    BY DEF Ends
  <2> QED
    BY <2>1, <2>2
<1>6. Pointers'
  <2>1. ASSUME NEW c \in Cells, "arr" \in DOMAIN cell'[c]
        PROVE  \E i \in 1..Len(stack') : \E e \in stack'[i].open : e.cell = c
    <3>1. \E i \in 1..Len(stack) : \E e \in stack[i].open : e.cell = c
      BY <1>4, <2>1 DEF CaptureInv, Pointers
    <3>2. PICK i \in 1..Len(stack) : \E e \in stack[i].open : e.cell = c
      BY <3>1
    <3>3. PICK e \in stack[i].open : e.cell = c
      BY <3>2
    <3>4. cell'[c] \notin ClosedCell
      BY <2>1, CellKinds
    <3> QED
      BY <1>3, <3>3, <3>4
  <2> QED
    BY <1>2, <2>1 DEF Pointers
<1>7. Locals'
  <2>1. Locals /\ value' = value
    BY DEF CaptureInv, Ends
  <2>2. \A i \in 1..Len(stack') : \A s \in 1..Len(stack'[i].locals) :
          /\ stack'[i].locals[s] = stack[i].locals[s]
          /\ heap'[stack'[i].arr][s] = heap[stack[i].arr][s]
    BY DEF Ends
  <2>3. ASSUME NEW i \in 1..Len(stack'), NEW s \in 1..Len(stack'[i].locals)
        PROVE  /\ i \in 1..Len(stack) /\ s \in 1..Len(stack[i].locals)
               /\ stack'[i].locals[s] = stack[i].locals[s]
               /\ heap'[stack'[i].arr][s] = heap[stack[i].arr][s]
    <3>1. i \in 1..Len(stack) /\ s \in 1..Len(stack[i].locals)
      BY <1>1
    <3> QED
      BY <2>2, <3>1
  <2>4. ASSUME NEW i \in 1..Len(stack'), NEW s \in 1..Len(stack'[i].locals)
        PROVE  /\ stack'[i].locals[s] \in 1..Len(value')
               /\ heap'[stack'[i].arr][s] = value'[stack'[i].locals[s]]
    BY <2>1, <2>3 DEF Locals
  <2>5. ASSUME NEW i \in 1..Len(stack'), NEW j \in 1..Len(stack'),
               NEW s \in 1..Len(stack'[i].locals), NEW r \in 1..Len(stack'[j].locals),
               stack'[i].locals[s] = stack'[j].locals[r]
        PROVE  i = j /\ s = r
    <3>1. stack[i].locals[s] = stack[j].locals[r]
      BY <2>3, <2>5
    <3> QED
      BY <2>1, <2>3, <3>1 DEF Locals
  <2> QED
    BY <2>4, <2>5 DEF Locals
<1>8. ASSUME NEW cap \in captured
      PROVE  /\ cap.var \in 1..Len(value)
             /\ cell'[cap.cell] # Captures!NoValue
             /\ \A i \in 1..Len(stack') : \A e \in stack'[i].open :
                  e.cell = cap.cell => stack'[i].locals[e.slot] = cap.var
             /\ "value" \in DOMAIN cell'[cap.cell] =>
                  /\ cell'[cap.cell].value = value[cap.var]
                  /\ \A i \in 1..Len(stack') : \A s \in 1..Len(stack'[i].locals) :
                       stack'[i].locals[s] # cap.var
  <2>1. /\ cap.var \in 1..Len(value)
        /\ cell[cap.cell] # Captures!NoValue
        /\ \A i \in 1..Len(stack) : \A e \in stack[i].open :
             e.cell = cap.cell => stack[i].locals[e.slot] = cap.var
        /\ "value" \in DOMAIN cell[cap.cell] =>
             /\ cell[cap.cell].value = value[cap.var]
             /\ \A i \in 1..Len(stack) : \A s \in 1..Len(stack[i].locals) :
                  stack[i].locals[s] # cap.var
        /\ cap.cell \in Cells
    BY DEF CaptureInv, CapturedOnce, CaptureTypes
  <2>2. \A i \in 1..Len(stack') : \A s \in 1..Len(stack'[i].locals) :
          stack'[i].locals[s] = stack[i].locals[s]
    BY DEF Ends
  <2>3. \A i \in 1..Len(stack') : \A e \in stack'[i].open :
          e.cell = cap.cell => stack'[i].locals[e.slot] = cap.var
    <3>1. ASSUME NEW i \in 1..Len(stack'), NEW e \in stack'[i].open, e.cell = cap.cell
          PROVE  stack'[i].locals[e.slot] = cap.var
      <4>1. i \in 1..Len(stack) /\ e \in stack[i].open /\ e.slot \in 1..Len(stack'[i].locals)
        BY <1>1, <1>2
      <4> QED
        BY <2>1, <2>2, <3>1, <4>1
    <3> QED
      BY <3>1
  <2>4. CASE \A i \in 1..Len(stack) : \A e \in stack[i].open : e.cell # cap.cell
    <3>1. cell'[cap.cell] = cell[cap.cell]
      BY <2>1, <2>4 DEF Ends
    <3> QED
      BY <1>1, <2>1, <2>2, <2>3, <3>1
  <2>5. ASSUME NEW i \in 1..Len(stack), NEW e \in stack[i].open, e.cell = cap.cell
        PROVE  /\ cell'[cap.cell] # Captures!NoValue
               /\ "value" \in DOMAIN cell'[cap.cell] =>
                    /\ cell'[cap.cell].value = value[cap.var]
                    /\ \A j \in 1..Len(stack') : \A s \in 1..Len(stack'[j].locals) :
                         stack'[j].locals[s] # cap.var
    <3>1. stack[i].locals[e.slot] = cap.var /\ e.slot \in 1..Len(stack[i].locals)
      BY <2>1, <2>5, FrameParts
    <3>2. CASE i \in 1..Len(stack') /\ e \in stack'[i].open
      BY <1>2, <2>5, <3>2, CellKinds
    <3>3. CASE ~(i \in 1..Len(stack') /\ e \in stack'[i].open)
      <4>1. cell'[cap.cell] \in ClosedCell /\ cell'[cap.cell].value = value[cap.var]
        BY <1>3, <2>5, <3>1, <3>3
      <4>2. ASSUME NEW j \in 1..Len(stack'), NEW s \in 1..Len(stack'[j].locals),
                   stack'[j].locals[s] = cap.var
            PROVE  FALSE
        <5>1. stack[j].locals[s] = stack[i].locals[e.slot] /\ j \in 1..Len(stack)
              /\ s \in 1..Len(stack[j].locals)
          BY <1>1, <2>2, <3>1, <4>2
        <5>2. j = i /\ s = e.slot
          BY <3>1, <5>1 DEF CaptureInv, Locals
        <5>3. e.slot <= Len(stack'[i].locals)
          BY <4>2, <5>2 DEF Ends
        <5>4. e \in stack'[i].open
          BY <5>2, <5>3 DEF Ends
        <5> QED
          BY <3>3, <5>2, <5>4
      <4> QED
        BY <4>1, <4>2, CellKinds
    <3> QED
      BY <3>2, <3>3
  <2> QED
    BY <2>1, <2>3, <2>4, <2>5
<1>9. CapturedOnce'
  <2>1. captured' = captured /\ value' = value
    BY DEF Ends
  <2>2. \A cap, other \in captured : cap.var = other.var <=> cap.cell = other.cell
    BY DEF CaptureInv, CapturedOnce
  <2> QED
    BY <1>8, <2>1, <2>2 DEF CapturedOnce
<1> QED
  BY <1>5, <1>6, <1>7, <1>9

LEMMA TopFrame ==
  ASSUME CaptureInv, Captures!Running
  PROVE  /\ stack # <<>> /\ Len(stack) \in Nat \ {0}
         /\ Captures!Top = stack[Len(stack)] /\ Captures!Top \in Frames
         /\ Len(stack) \in 1..Len(stack)
<1>1. stack \in Seq(Frames) /\ stack # <<>>
  BY DEF CaptureInv, CaptureTypes, Captures!Running
<1>2. Len(stack) \in Nat \ {0} /\ stack[Len(stack)] \in Frames
  BY <1>1
<1> QED
  BY <1>1, <1>2 DEF Captures!Top

LEMMA Retopping ==
  ASSUME CaptureInv, Captures!Running, NEW f \in Frames, stack' = Captures!WithTop(f)
  PROVE  /\ stack' \in Seq(Frames) /\ Len(stack') = Len(stack)
         /\ stack'[Len(stack)] = f
         /\ \A i \in 1..Len(stack) : i # Len(stack) => stack'[i] = stack[i]
<1> DEFINE p == SubSeq(stack, 1, Len(stack) - 1)
<1>1. stack \in Seq(Frames) /\ Len(stack) \in Nat \ {0}
  BY TopFrame DEF CaptureInv, CaptureTypes
<1>2. /\ p \in Seq(Frames) /\ Len(p) = Len(stack) - 1
      /\ \A i \in 1..Len(stack) - 1 : p[i] = stack[i]
  <2>1. Len(stack) - 1 \in 0..Len(stack)
    BY <1>1
  <2> QED
    BY <1>1, <2>1, Prefix
<1>3. stack' = Append(p, f)
  BY DEF Captures!WithTop, Captures!Pop
<1> HIDE DEF p
<1>4. /\ Append(p, f) \in Seq(Frames) /\ Len(Append(p, f)) = Len(stack)
      /\ Append(p, f)[Len(stack)] = f
      /\ \A i \in 1..Len(stack) - 1 : Append(p, f)[i] = stack[i]
  BY <1>1, <1>2
<1> QED
  BY <1>1, <1>3, <1>4

LEMMA BoxesStay ==
  ASSUME Boxes, pool' = pool, \A a \in pool : heap'[a] = heap[a],
         Len(stack') = Len(stack),
         \A i \in 1..Len(stack) : stack'[i].arr = stack[i].arr
  PROVE  Boxes'
  BY DEF Boxes

LEMMA FitsStill ==
  ASSUME CaptureInv, NEW i \in 1..Len(stack), stack'[i] = stack[i],
         Len(heap'[stack[i].arr]) = Len(heap[stack[i].arr])
  PROVE  Fits(stack[i])'
  BY DEF CaptureInv, Fits

LEMMA EnteringABlock ==
  ASSUME CaptureInv, Captures!EnterBlock PROVE CaptureInv'
<1> DEFINE n == Len(stack)
<1>1. Captures!Running /\ UNCHANGED <<heap, pool, cell, captured, value>>
  BY DEF Captures!EnterBlock
<1>2. PICK r \in Frames : r = Captures!Top
  BY <1>1, TopFrame
<1> DEFINE f == [r EXCEPT !.blocks = Append(@, Len(r.locals))]
<1>3. /\ n \in Nat \ {0} /\ n \in 1..n /\ stack[n] = r
  BY <1>1, <1>2, TopFrame
<1>4. /\ f \in Frames /\ f.arr = r.arr /\ f.size = r.size /\ f.locals = r.locals
      /\ f.open = r.open /\ f.blocks = Append(r.blocks, Len(r.locals))
      /\ r.blocks \in Seq(Nat) /\ Len(r.locals) \in Nat
  <2>1. /\ r.blocks \in Seq(Nat) /\ r.locals \in Seq(Nat)
        /\ r.arr \in Arrays /\ r.size \in Nat \ {0} /\ r.open \subseteq Entry
    BY DEF Frames
  <2>2. Len(r.locals) \in Nat /\ Append(r.blocks, Len(r.locals)) \in Seq(Nat)
    BY <2>1
  <2> QED
    BY <2>1, <2>2 DEF Frames
<1>5. /\ stack' \in Seq(Frames) /\ Len(stack') = n /\ stack'[n] = f
      /\ \A i \in 1..n : i # n => stack'[i] = stack[i]
  <2>1. stack' = Captures!WithTop(f)
    BY <1>2 DEF Captures!EnterBlock
  <2> QED
    BY <1>1, <1>4, <2>1, Retopping
<1>6. r.blocks # <<>> => r.blocks[Len(r.blocks)] < Len(r.locals)
  BY <1>2 DEF Captures!EnterBlock, Captures!Last
<1> HIDE DEF f, n
<1>7. \A i \in 1..n : /\ stack'[i].arr = stack[i].arr /\ stack'[i].locals = stack[i].locals
                       /\ stack'[i].open = stack[i].open
  BY <1>3, <1>4, <1>5
<1>8. \A i \in 1..n : Fits(stack[i])'
  <2>1. ASSUME NEW i \in 1..n, i = n PROVE Fits(stack[i])'
    <3>1. Fits(r)
      BY <1>3 DEF CaptureInv, n
    <3>2. /\ Len(f.blocks) = Len(r.blocks) + 1 /\ f.blocks[Len(r.blocks) + 1] = Len(r.locals)
          /\ \A k \in 1..Len(r.blocks) : f.blocks[k] = r.blocks[k] /\ r.blocks[k] \in Nat
          /\ Len(r.blocks) \in Nat
      BY <1>4
    <3>3. \A k \in 1..Len(f.blocks) : f.blocks[k] <= Len(f.locals)
      BY <1>4, <3>1, <3>2 DEF Fits
    <3>4. \A k, l \in 1..Len(f.blocks) : k <= l => f.blocks[k] <= f.blocks[l]
      BY <1>4, <3>1, <3>2 DEF Fits
    <3>5. stack'[i] = f /\ heap' = heap
      BY <1>1, <1>5, <2>1
    <3> QED
      BY <1>4, <3>1, <3>3, <3>4, <3>5 DEF Fits
  <2>2. ASSUME NEW i \in 1..n, i # n PROVE Fits(stack[i])'
    BY <1>1, <1>5, <2>2, FitsStill DEF n
  <2> QED
    BY <2>1, <2>2
<1>9. Ends
  <2>1. \A i \in 1..n : /\ Len(stack[i].locals) \in Nat /\ stack[i].arr \in Arrays
                         /\ \A e \in stack[i].open :
                              /\ e.slot \in 1..Len(stack[i].locals)
                              /\ cell[e.cell] = [arr |-> stack[i].arr, slot |-> e.slot]
    BY FrameParts DEF n
  <2>2. ASSUME NEW i \in 1..n
        PROVE  stack'[i].open = {e \in stack[i].open : e.slot <= Len(stack'[i].locals)}
    <3>1. ASSUME NEW e \in stack[i].open PROVE e.slot <= Len(stack[i].locals)
      <4>1. e.slot \in 1..Len(stack[i].locals) /\ Len(stack[i].locals) \in Nat
        BY <2>1
      <4> QED
        BY <4>1
    <3> QED
      BY <1>7, <3>1
  <2>3. cell' = [c \in Cells |-> cell'[c]]
    BY <1>1 DEF CaptureInv, CaptureTypes
  <2> QED
    BY <1>1, <1>3, <1>5, <1>7, <2>1, <2>2, <2>3 DEF Ends, n
<1>10. Pointers' /\ Locals' /\ CapturedOnce'
  BY <1>9, EndingKeeps
<1>11. CaptureTypes' /\ Boxes'
  BY <1>1, <1>5, <1>7, BoxesStay DEF CaptureInv, CaptureTypes, n
<1> QED
  BY <1>5, <1>8, <1>10, <1>11 DEF CaptureInv

(* A local is given a value, by its own function or through its open cell.  *)
Assigns(i, s, x) ==
  /\ heap' = [heap EXCEPT ![stack[i].arr][s] = x]
  /\ value' = [value EXCEPT ![stack[i].locals[s]] = x]
  /\ UNCHANGED <<pool, stack, cell, captured>>

LEMMA Assigning ==
  ASSUME CaptureInv, NEW i \in 1..Len(stack), NEW s \in 1..Len(stack[i].locals), NEW x \in Register,
         Assigns(i, s, x)
  PROVE  CaptureInv'
<1> DEFINE a == stack[i].arr
           v == stack[i].locals[s]
<1>1. /\ a \in Arrays /\ Len(stack[i].locals) \in Nat
      /\ Len(stack[i].locals) <= Len(heap[a]) /\ Len(heap[a]) \in Nat
  BY FrameParts
<1>2. /\ heap \in [Arrays -> Seq(Register)] /\ value \in Seq(Register) /\ Len(value) \in Nat
      /\ heap[a] \in Seq(Register)
  BY <1>1 DEF CaptureInv, CaptureTypes
<1>3. v \in 1..Len(value)
  BY DEF CaptureInv, Locals
<1>4. s \in 1..Len(heap[a]) /\ x \in Register
  BY <1>1
<1> HIDE DEF a, v
<1>5. heap' = [heap EXCEPT ![a] = [heap[a] EXCEPT ![s] = x]]
  BY DEF a, Assigns
<1>6. /\ [heap[a] EXCEPT ![s] = x] \in Seq(Register)
      /\ Len([heap[a] EXCEPT ![s] = x]) = Len(heap[a])
      /\ \A r \in 1..Len(heap[a]) : [heap[a] EXCEPT ![s] = x][r] = IF r = s THEN x ELSE heap[a][r]
  BY <1>2, <1>4
<1>7. /\ heap' \in [Arrays -> Seq(Register)]
      /\ \A b \in Arrays : b # a => heap'[b] = heap[b]
      /\ Len(heap'[a]) = Len(heap[a])
      /\ \A r \in 1..Len(heap[a]) : heap'[a][r] = IF r = s THEN x ELSE heap[a][r]
  BY <1>1, <1>2, <1>5, <1>6
<1>8. /\ value' \in Seq(Register) /\ Len(value') = Len(value)
      /\ \A w \in 1..Len(value) : value'[w] = IF w = v THEN x ELSE value[w]
  BY <1>2, <1>3 DEF v, Assigns
<1>9. UNCHANGED <<pool, stack, cell, captured>>
  BY DEF Assigns
<1>10. CaptureTypes' /\ Pointers'
  BY <1>7, <1>8, <1>9 DEF CaptureInv, CaptureTypes, Pointers
<1>11. Boxes'
  <2>1. a \notin pool /\ pool \subseteq Arrays
    BY DEF CaptureInv, Boxes, CaptureTypes, a
  <2> QED
    BY <1>7, <1>9, <2>1, BoxesStay DEF CaptureInv
<1>12. \A j \in 1..Len(stack') : Fits(stack[j])'
  <2>1. ASSUME NEW j \in 1..Len(stack) PROVE Fits(stack[j])'
    <3>1. Len(heap'[stack[j].arr]) = Len(heap[stack[j].arr])
      BY <1>7, FrameParts
    <3> QED
      BY <1>9, <3>1, FitsStill
  <2> QED
    BY <1>9, <2>1
<1>13. Locals'
  <2>1. ASSUME NEW j \in 1..Len(stack), NEW r \in 1..Len(stack[j].locals)
        PROVE  /\ stack[j].locals[r] \in 1..Len(value)
               /\ heap'[stack[j].arr][r] = value'[stack[j].locals[r]]
    <3>1. /\ stack[j].locals[r] \in 1..Len(value)
          /\ heap[stack[j].arr][r] = value[stack[j].locals[r]]
          /\ stack[j].locals[r] = v => j = i /\ r = s
      BY SMTT(30) DEF CaptureInv, Locals, v
    <3>2. CASE j = i
      <4>1. r \in 1..Len(heap[a]) /\ stack[j].arr = a
        BY <1>1, <3>2 DEF a
      <4>2. r = s => stack[j].locals[r] = v
        BY <3>2 DEF v
      <4> QED
        BY <1>7, <1>8, <3>1, <4>1, <4>2
    <3>3. CASE j # i
      <4>1. stack[j].arr # a /\ stack[j].arr \in Arrays
        BY <3>3, FrameParts DEF CaptureInv, Boxes, a
      <4> QED
        BY <1>7, <1>8, <3>1, <3>3, <4>1
    <3> QED
      BY <3>2, <3>3
  <2>2. \A j, k \in 1..Len(stack) : \A r \in 1..Len(stack[j].locals), q \in 1..Len(stack[k].locals) :
          stack[j].locals[r] = stack[k].locals[q] => j = k /\ r = q
    BY DEF CaptureInv, Locals
  <2>3. stack' = stack /\ Len(value') = Len(value)
    BY <1>8, <1>9
  <2>4. \A j \in 1..Len(stack') : \A r \in 1..Len(stack'[j].locals) :
          /\ stack'[j].locals[r] \in 1..Len(value')
          /\ heap'[stack'[j].arr][r] = value'[stack'[j].locals[r]]
    BY <2>1, <2>3
  <2>5. \A j, k \in 1..Len(stack') : \A r \in 1..Len(stack'[j].locals), q \in 1..Len(stack'[k].locals) :
          stack'[j].locals[r] = stack'[k].locals[q] => j = k /\ r = q
    BY <2>2, <2>3, SMTT(30)
  <2> QED
    BY <2>4, <2>5 DEF Locals
<1>14. CapturedOnce'
  <2>1. ASSUME NEW cap \in captured, "value" \in DOMAIN cell[cap.cell]
        PROVE  cell[cap.cell].value = value'[cap.var]
    BY <1>8, <2>1 DEF CaptureInv, CapturedOnce, v
  <2> QED
    BY <1>8, <1>9, <2>1 DEF CaptureInv, CapturedOnce
<1> QED
  BY <1>10, <1>11, <1>12, <1>13, <1>14 DEF CaptureInv

LEMMA SettingALocal ==
  ASSUME CaptureInv, NEW x \in Register, Captures!SetLocal(x) PROVE CaptureInv'
<1> DEFINE n == Len(stack)
<1>1. Captures!Running /\ UNCHANGED <<pool, stack, cell, captured>>
  BY DEF Captures!SetLocal
<1>2. Captures!Top = stack[n] /\ n \in 1..Len(stack)
  BY <1>1, TopFrame
<1>3. PICK slot \in DOMAIN stack[n].locals :
        /\ heap' = [heap EXCEPT ![stack[n].arr][slot] = x]
        /\ value' = [value EXCEPT ![stack[n].locals[slot]] = x]
  BY <1>2 DEF Captures!SetLocal
<1>4. slot \in 1..Len(stack[n].locals)
  <2>1. stack[n].locals \in Seq(Nat)
    BY <1>2, FrameParts
  <2> QED
    BY <2>1
<1>5. Assigns(n, slot, x)
  BY <1>1, <1>3 DEF Assigns
<1> QED
  BY <1>2, <1>4, <1>5, Assigning

LEMMA ClosingAVariable ==
  ASSUME CaptureInv, Captures!CloseVar PROVE CaptureInv'
<1>1. Nil \in Register
  BY DEF Register
<1> QED
  BY <1>1, SettingALocal DEF Captures!CloseVar

LEMMA SettingAnUpvalue ==
  ASSUME CaptureInv, NEW x \in Values, Captures!SetUpval(x) PROVE CaptureInv'
<1>1. PICK cap \in captured :
        /\ value' = [value EXCEPT ![cap.var] = x]
        /\ \/ /\ "value" \in DOMAIN cell[cap.cell]
              /\ cell' = [cell EXCEPT ![cap.cell] = [value |-> x]]
              /\ UNCHANGED heap
           \/ /\ "slot" \in DOMAIN cell[cap.cell]
              /\ heap' = [heap EXCEPT ![cell[cap.cell].arr][cell[cap.cell].slot] = x]
              /\ UNCHANGED cell
        /\ UNCHANGED <<pool, stack, captured>>
  BY DEF Captures!SetUpval
<1>2. /\ cap.cell \in Cells /\ cap.var \in 1..Len(value)
      /\ cell \in [Cells -> OpenCell \cup ClosedCell \cup {Captures!NoValue}]
  BY DEF CaptureInv, CaptureTypes, CapturedOnce
<1>3. CASE "slot" \in DOMAIN cell[cap.cell] /\ UNCHANGED cell
           /\ heap' = [heap EXCEPT ![cell[cap.cell].arr][cell[cap.cell].slot] = x]
  <2>1. cell[cap.cell] \in OpenCell
    BY <1>2, <1>3, CellKinds
  <2>2. "arr" \in DOMAIN cell[cap.cell]
    BY <2>1, CellKinds
  <2>3. PICK i \in 1..Len(stack) : \E e \in stack[i].open : e.cell = cap.cell
    BY <1>2, <2>2 DEF CaptureInv, Pointers
  <2>4. PICK e \in stack[i].open : e.cell = cap.cell
    BY <2>3
  <2>5. /\ e.slot \in 1..Len(stack[i].locals)
        /\ cell[cap.cell] = [arr |-> stack[i].arr, slot |-> e.slot]
    BY <2>4, FrameParts
  <2>6. stack[i].locals[e.slot] = cap.var
    BY <2>4 DEF CaptureInv, CapturedOnce
  <2>7. cell[cap.cell].arr = stack[i].arr /\ cell[cap.cell].slot = e.slot
    BY <2>5
  <2>8. Assigns(i, e.slot, x)
    BY <1>1, <1>3, <2>6, <2>7 DEF Assigns
  <2>9. x \in Register
    BY DEF Register
  <2> QED
    BY <2>5, <2>8, <2>9, Assigning
<1>4. CASE "value" \in DOMAIN cell[cap.cell] /\ UNCHANGED heap
           /\ cell' = [cell EXCEPT ![cap.cell] = [value |-> x]]
  <2>1. [value |-> x] \in ClosedCell /\ [value |-> x].value = x
    BY CellKinds DEF Register
  <2>2. /\ cell'[cap.cell] \in ClosedCell /\ cell'[cap.cell].value = x
        /\ \A c \in Cells : c # cap.cell => cell'[c] = cell[c]
        /\ cell' \in [Cells -> OpenCell \cup ClosedCell \cup {Captures!NoValue}]
    BY <1>2, <1>4, <2>1
  <2>3. /\ value \in Seq(Register) /\ value' \in Seq(Register) /\ Len(value') = Len(value)
        /\ \A w \in 1..Len(value) : value'[w] = IF w = cap.var THEN x ELSE value[w]
    <3>1. x \in Register /\ value \in Seq(Register) /\ value' = [value EXCEPT ![cap.var] = x]
      BY <1>1 DEF CaptureInv, CaptureTypes, Register
    <3> QED
      BY <1>2, <3>1
  <2>4. UNCHANGED <<heap, pool, stack, captured>>
    BY <1>1, <1>4
  <2>5. ASSUME NEW i \in 1..Len(stack), NEW e \in stack[i].open
        PROVE  e.cell # cap.cell /\ e.cell \in Cells
    <3>1. e.cell \in Cells /\ cell[e.cell] \in OpenCell
      BY FrameParts
    <3> QED
      BY <1>4, <3>1, CellKinds
  <2>6. CaptureTypes' /\ Boxes' /\ \A i \in 1..Len(stack') : Fits(stack[i])'
    BY <2>2, <2>3, <2>4 DEF CaptureInv, CaptureTypes, Boxes, Fits
  <2>7. Pointers'
    <3>1. \A i \in 1..Len(stack) : \A e \in stack[i].open :
            cell'[e.cell] = [arr |-> stack[i].arr, slot |-> e.slot]
      BY <2>2, <2>5 DEF CaptureInv, Pointers
    <3>2. ASSUME NEW c \in Cells, "arr" \in DOMAIN cell'[c]
          PROVE  \E i \in 1..Len(stack) : \E e \in stack[i].open : e.cell = c
      <4>1. c # cap.cell
        BY <2>2, <3>2, CellKinds
      <4> QED
        BY <2>2, <3>2, <4>1 DEF CaptureInv, Pointers
    <3> QED
      BY <2>4, <3>1, <3>2 DEF Pointers
  <2>8. \A i \in 1..Len(stack) : \A s \in 1..Len(stack[i].locals) : stack[i].locals[s] # cap.var
    BY <1>4 DEF CaptureInv, CapturedOnce
  <2>9. Locals'
    <3>1. \A i \in 1..Len(stack) : \A s \in 1..Len(stack[i].locals) :
            /\ stack[i].locals[s] \in 1..Len(value)
            /\ heap[stack[i].arr][s] = value'[stack[i].locals[s]]
      BY <2>3, <2>8 DEF CaptureInv, Locals
    <3>2. \A j, k \in 1..Len(stack) : \A r \in 1..Len(stack[j].locals), q \in 1..Len(stack[k].locals) :
            stack[j].locals[r] = stack[k].locals[q] => j = k /\ r = q
      BY DEF CaptureInv, Locals
    <3>3. stack' = stack /\ heap' = heap /\ Len(value') = Len(value)
      BY <2>3, <2>4
    <3>4. \A j \in 1..Len(stack') : \A r \in 1..Len(stack'[j].locals) :
            /\ stack'[j].locals[r] \in 1..Len(value')
            /\ heap'[stack'[j].arr][r] = value'[stack'[j].locals[r]]
      BY <3>1, <3>3
    <3>5. \A j, k \in 1..Len(stack') : \A r \in 1..Len(stack'[j].locals), q \in 1..Len(stack'[k].locals) :
            stack'[j].locals[r] = stack'[k].locals[q] => j = k /\ r = q
      BY <3>2, <3>3
    <3> QED
      BY <3>4, <3>5 DEF Locals
  <2>10. CapturedOnce'
    <3>1. \A other \in captured : other.var = cap.var <=> other.cell = cap.cell
      BY DEF CaptureInv, CapturedOnce
    <3>2. ASSUME NEW other \in captured
          PROVE  /\ cell'[other.cell] # Captures!NoValue
                 /\ "value" \in DOMAIN cell'[other.cell] =>
                      /\ cell'[other.cell].value = value'[other.var]
                      /\ \A i \in 1..Len(stack) : \A s \in 1..Len(stack[i].locals) :
                           stack[i].locals[s] # other.var
      <4>1. CASE other.cell = cap.cell
        BY <1>2, <2>2, <2>3, <2>8, <3>1, <4>1, CellKinds
      <4>2. CASE other.cell # cap.cell
        <5>1. /\ cell'[other.cell] = cell[other.cell] /\ other.var \in 1..Len(value)
              /\ value'[other.var] = value[other.var]
          BY <2>2, <2>3, <3>1, <4>2 DEF CaptureInv, CapturedOnce, CaptureTypes
        <5> QED
          BY <5>1 DEF CaptureInv, CapturedOnce
      <4> QED
        BY <4>1, <4>2
    <3>3. \A other \in captured :
            /\ other.var \in 1..Len(value)
            /\ \A i \in 1..Len(stack) : \A e \in stack[i].open :
                 e.cell = other.cell => stack[i].locals[e.slot] = other.var
      BY DEF CaptureInv, CapturedOnce
    <3>4. \A one, other \in captured : one.var = other.var <=> one.cell = other.cell
      BY DEF CaptureInv, CapturedOnce
    <3> QED
      BY <2>3, <2>4, <3>2, <3>3, <3>4 DEF CapturedOnce
  <2> QED
    BY <2>6, <2>7, <2>9, <2>10 DEF CaptureInv
<1> QED
  BY <1>1, <1>3, <1>4

(* A new variable, if any, is the last local of the last frame. *)
Extends ==
  /\ UNCHANGED <<cell, captured>>
  /\ value' \in Seq(Register) /\ Len(value) <= Len(value')
  /\ \A w \in 1..Len(value) : value'[w] = value[w]
  /\ Len(stack') \in Nat /\ Len(stack) <= Len(stack')
  /\ \A j \in 1..Len(stack) : /\ stack'[j].arr = stack[j].arr /\ stack'[j].open = stack[j].open
                               /\ \A r \in 1..Len(stack[j].locals) :
                                    stack'[j].locals[r] = stack[j].locals[r]
  /\ \A j \in 1..Len(stack') : j \notin 1..Len(stack) => stack'[j].open = {}
  /\ \A j \in 1..Len(stack') : \A r \in 1..Len(stack'[j].locals) :
       \/ /\ j \in 1..Len(stack) /\ r \in 1..Len(stack[j].locals)
          /\ stack'[j].locals[r] = stack[j].locals[r]
          /\ heap'[stack'[j].arr][r] = heap[stack[j].arr][r]
       \/ /\ j = Len(stack') /\ r = Len(stack'[j].locals)
          /\ Len(value') = Len(value) + 1 /\ stack'[j].locals[r] = Len(value')
          /\ heap'[stack'[j].arr][r] = value'[Len(value')]

LEMMA ExtendingKeeps ==
  ASSUME CaptureInv, Extends PROVE Pointers' /\ Locals' /\ CapturedOnce'
<1>1. /\ Len(stack) \in Nat /\ Len(value) \in Nat /\ Len(value') \in Nat
      /\ \A j \in 1..Len(stack) : j \in 1..Len(stack')
      /\ \A w \in 1..Len(value) : w \in 1..Len(value')
  BY FrameParts DEF Extends, CaptureInv, CaptureTypes
<1>2. ASSUME NEW j \in 1..Len(stack'), NEW e \in stack'[j].open
      PROVE  /\ j \in 1..Len(stack) /\ e \in stack[j].open /\ stack'[j].arr = stack[j].arr
             /\ stack'[j].locals[e.slot] = stack[j].locals[e.slot]
             /\ cell'[e.cell] = [arr |-> stack'[j].arr, slot |-> e.slot]
  <2>1. j \in 1..Len(stack) /\ e \in stack[j].open /\ stack'[j].arr = stack[j].arr
    BY DEF Extends
  <2>2. /\ e.slot \in 1..Len(stack[j].locals)
        /\ cell[e.cell] = [arr |-> stack[j].arr, slot |-> e.slot]
    BY <2>1, FrameParts
  <2> QED
    BY <2>1, <2>2 DEF Extends
<1>3. Pointers'
  <2>1. ASSUME NEW c \in Cells, "arr" \in DOMAIN cell'[c]
        PROVE  \E i \in 1..Len(stack') : \E e \in stack'[i].open : e.cell = c
    <3>1. cell' = cell
      BY DEF Extends
    <3>2. PICK i \in 1..Len(stack) : \E e \in stack[i].open : e.cell = c
      BY <2>1, <3>1 DEF CaptureInv, Pointers
    <3>3. i \in 1..Len(stack') /\ stack'[i].open = stack[i].open
      BY <1>1 DEF Extends
    <3> QED
      BY <3>2, <3>3
  <2> QED
    BY <1>2, <2>1 DEF Pointers
<1>4. \A j \in 1..Len(stack') : \A r \in 1..Len(stack'[j].locals) :
        \/ /\ j \in 1..Len(stack) /\ r \in 1..Len(stack[j].locals)
           /\ stack'[j].locals[r] = stack[j].locals[r]
           /\ stack'[j].locals[r] \in 1..Len(value)
           /\ heap'[stack'[j].arr][r] = value'[stack'[j].locals[r]]
        \/ /\ j = Len(stack') /\ r = Len(stack'[j].locals)
           /\ Len(value') = Len(value) + 1 /\ stack'[j].locals[r] = Len(value')
           /\ heap'[stack'[j].arr][r] = value'[stack'[j].locals[r]]
  <2>1. ASSUME NEW j \in 1..Len(stack), NEW r \in 1..Len(stack[j].locals)
        PROVE  /\ stack[j].locals[r] \in 1..Len(value)
               /\ heap[stack[j].arr][r] = value[stack[j].locals[r]]
               /\ value'[stack[j].locals[r]] = value[stack[j].locals[r]]
    <3>1. /\ stack[j].locals[r] \in 1..Len(value)
          /\ heap[stack[j].arr][r] = value[stack[j].locals[r]]
      BY DEF CaptureInv, Locals
    <3> QED
      BY <3>1 DEF Extends
  <2> QED
    BY <2>1 DEF Extends
<1>5. Locals'
  <2>1. \A j \in 1..Len(stack') : \A r \in 1..Len(stack'[j].locals) :
          /\ stack'[j].locals[r] \in 1..Len(value')
          /\ heap'[stack'[j].arr][r] = value'[stack'[j].locals[r]]
    BY <1>1, <1>4
  <2>2. ASSUME NEW j \in 1..Len(stack'), NEW k \in 1..Len(stack'),
               NEW r \in 1..Len(stack'[j].locals), NEW q \in 1..Len(stack'[k].locals),
               stack'[j].locals[r] = stack'[k].locals[q]
        PROVE  j = k /\ r = q
    <3>1. \/ /\ j \in 1..Len(stack) /\ r \in 1..Len(stack[j].locals)
             /\ stack'[j].locals[r] = stack[j].locals[r] /\ stack'[j].locals[r] \in 1..Len(value)
          \/ /\ j = Len(stack') /\ r = Len(stack'[j].locals) /\ stack'[j].locals[r] = Len(value) + 1
      BY <1>4
    <3>2. \/ /\ k \in 1..Len(stack) /\ q \in 1..Len(stack[k].locals)
             /\ stack'[k].locals[q] = stack[k].locals[q] /\ stack'[k].locals[q] \in 1..Len(value)
          \/ /\ k = Len(stack') /\ q = Len(stack'[k].locals) /\ stack'[k].locals[q] = Len(value) + 1
      BY <1>4
    <3>3. \A a, b \in 1..Len(stack) : \A c \in 1..Len(stack[a].locals), d \in 1..Len(stack[b].locals) :
            stack[a].locals[c] = stack[b].locals[d] => a = b /\ c = d
      BY DEF CaptureInv, Locals
    <3>4. CASE stack'[j].locals[r] \in 1..Len(value)
      <4>1. stack'[j].locals[r] # Len(value) + 1
        BY <1>1, <3>4
      <4>2. /\ j \in 1..Len(stack) /\ r \in 1..Len(stack[j].locals)
            /\ stack'[j].locals[r] = stack[j].locals[r]
        BY <3>1, <4>1
      <4>3. /\ k \in 1..Len(stack) /\ q \in 1..Len(stack[k].locals)
            /\ stack'[k].locals[q] = stack[k].locals[q]
        BY <2>2, <3>2, <4>1
      <4>4. stack[j].locals[r] = stack[k].locals[q]
        BY <2>2, <4>2, <4>3
      <4> QED
        BY <3>3, <4>2, <4>3, <4>4, SMTT(30)
    <3>5. CASE stack'[j].locals[r] \notin 1..Len(value)
      BY <2>2, <3>1, <3>2, <3>5
    <3> QED
      BY <3>4, <3>5
  <2> QED
    BY <2>1, <2>2 DEF Locals
<1>6. CapturedOnce'
  <2>1. ASSUME NEW cap \in captured
        PROVE  /\ cap.var \in 1..Len(value')
               /\ cell'[cap.cell] # Captures!NoValue
               /\ \A i \in 1..Len(stack') : \A e \in stack'[i].open :
                    e.cell = cap.cell => stack'[i].locals[e.slot] = cap.var
               /\ "value" \in DOMAIN cell'[cap.cell] =>
                    /\ cell'[cap.cell].value = value'[cap.var]
                    /\ \A i \in 1..Len(stack') : \A s \in 1..Len(stack'[i].locals) :
                         stack'[i].locals[s] # cap.var
    <3>1. /\ cap.var \in 1..Len(value)
          /\ cell[cap.cell] # Captures!NoValue
          /\ \A i \in 1..Len(stack) : \A e \in stack[i].open :
               e.cell = cap.cell => stack[i].locals[e.slot] = cap.var
          /\ "value" \in DOMAIN cell[cap.cell] =>
               /\ cell[cap.cell].value = value[cap.var]
               /\ \A i \in 1..Len(stack) : \A s \in 1..Len(stack[i].locals) :
                    stack[i].locals[s] # cap.var
      BY DEF CaptureInv, CapturedOnce
    <3>2. cell' = cell /\ value'[cap.var] = value[cap.var]
      BY <3>1 DEF Extends
    <3>3. ASSUME NEW i \in 1..Len(stack'), NEW e \in stack'[i].open, e.cell = cap.cell
          PROVE  stack'[i].locals[e.slot] = cap.var
      <4>1. /\ i \in 1..Len(stack) /\ e \in stack[i].open
            /\ stack'[i].locals[e.slot] = stack[i].locals[e.slot]
        BY <1>2
      <4>2. stack[i].locals[e.slot] = cap.var
        BY <3>1, <3>3, <4>1
      <4> QED
        BY <4>1, <4>2
    <3>4. ASSUME NEW i \in 1..Len(stack'), NEW s \in 1..Len(stack'[i].locals),
                 stack'[i].locals[s] = cap.var
          PROVE  /\ i \in 1..Len(stack) /\ s \in 1..Len(stack[i].locals)
                 /\ stack[i].locals[s] = cap.var
      BY <1>1, <1>4, <3>1, <3>4
    <3> QED
      BY <1>1, <3>1, <3>2, <3>3, <3>4
  <2>2. /\ captured' = captured
        /\ \A cap, other \in captured : cap.var = other.var <=> cap.cell = other.cell
    BY DEF CaptureInv, CapturedOnce, Extends
  <2> QED
    BY <2>1, <2>2 DEF CapturedOnce
<1> QED
  BY <1>3, <1>5, <1>6

LEMMA Declaring ==
  ASSUME CaptureInv, NEW x \in Values, Captures!Declare(x) PROVE CaptureInv'
<1> DEFINE n == Len(stack)
<1>1. Captures!Running /\ UNCHANGED <<pool, cell, captured>> /\ value' = Append(value, x)
  BY DEF Captures!Declare
<1>2. PICK r \in Frames : r = Captures!Top
  BY <1>1, TopFrame
<1> DEFINE slot == Len(r.locals) + 1
           f == [r EXCEPT !.locals = Append(@, Len(value'))]
<1>3. n \in Nat \ {0} /\ n \in 1..n /\ stack[n] = r
  BY <1>1, <1>2, TopFrame
<1>4. /\ value \in Seq(Register) /\ Len(value) \in Nat
      /\ value' \in Seq(Register) /\ Len(value') = Len(value) + 1 /\ value'[Len(value')] = x
      /\ \A w \in 1..Len(value) : value'[w] = value[w]
  <2>1. x \in Register /\ value \in Seq(Register)
    BY DEF CaptureInv, CaptureTypes, Register
  <2> QED
    BY <1>1, <2>1
<1>5. /\ r.blocks \in Seq(Nat) /\ r.locals \in Seq(Nat) /\ Len(r.locals) \in Nat
      /\ r.arr \in Arrays /\ r.size \in Nat \ {0} /\ r.open \subseteq Entry
  BY DEF Frames
<1>6. /\ Append(r.locals, Len(value')) \in Seq(Nat)
      /\ Len(Append(r.locals, Len(value'))) = slot
      /\ Append(r.locals, Len(value'))[slot] = Len(value')
      /\ \A s \in 1..Len(r.locals) : Append(r.locals, Len(value'))[s] = r.locals[s]
  BY <1>4, <1>5
<1>7. /\ f \in Frames /\ f.arr = r.arr /\ f.size = r.size /\ f.blocks = r.blocks
      /\ f.open = r.open /\ f.locals = Append(r.locals, Len(value'))
  BY <1>5, <1>6 DEF Frames
<1>8. /\ stack' \in Seq(Frames) /\ Len(stack') = n /\ stack'[n] = f
      /\ \A i \in 1..n : i # n => stack'[i] = stack[i]
  <2>1. stack' = Captures!WithTop(f)
    BY <1>2 DEF Captures!Declare
  <2> QED
    BY <1>1, <1>7, <2>1, Retopping
<1>9. slot <= r.size /\ heap' = [heap EXCEPT ![r.arr][slot] = x]
  BY <1>2 DEF Captures!Declare
<1> HIDE DEF f, n
<1>10. /\ Fits(r) /\ heap \in [Arrays -> Seq(Register)] /\ x \in Register
       /\ heap[r.arr] \in Seq(Register) /\ Len(heap[r.arr]) \in Nat
  BY <1>3, <1>5, SMTT(30) DEF CaptureInv, CaptureTypes, Register, n
<1>11. slot \in 1..Len(heap[r.arr]) /\ r.size <= Len(heap[r.arr])
  BY <1>5, <1>9, <1>10 DEF Fits
<1>12. /\ heap' \in [Arrays -> Seq(Register)]
       /\ \A b \in Arrays : b # r.arr => heap'[b] = heap[b]
       /\ Len(heap'[r.arr]) = Len(heap[r.arr])
       /\ \A s \in 1..Len(heap[r.arr]) : heap'[r.arr][s] = IF s = slot THEN x ELSE heap[r.arr][s]
  <2>1. /\ [heap[r.arr] EXCEPT ![slot] = x] \in Seq(Register)
        /\ Len([heap[r.arr] EXCEPT ![slot] = x]) = Len(heap[r.arr])
        /\ \A s \in 1..Len(heap[r.arr]) :
             [heap[r.arr] EXCEPT ![slot] = x][s] = IF s = slot THEN x ELSE heap[r.arr][s]
    BY <1>10, <1>11
  <2>2. heap' = [heap EXCEPT ![r.arr] = [heap[r.arr] EXCEPT ![slot] = x]]
    BY <1>9
  <2> QED
    BY <1>5, <1>10, <2>1, <2>2
<1>13. CaptureTypes'
  BY <1>1, <1>4, <1>8, <1>12 DEF CaptureInv, CaptureTypes
<1>14. \A i \in 1..n : stack'[i].arr = stack[i].arr /\ stack'[i].open = stack[i].open
  BY <1>3, <1>7, <1>8
<1>15. Boxes'
  <2>1. r.arr \notin pool /\ pool \subseteq Arrays
    BY <1>3 DEF CaptureInv, Boxes, CaptureTypes, n
  <2> QED
    BY <1>1, <1>8, <1>12, <1>14, <2>1, BoxesStay DEF CaptureInv, n
<1>16. \A i \in 1..Len(stack') : Fits(stack[i])'
  <2>1. ASSUME NEW i \in 1..n, i = n PROVE Fits(stack[i])'
    <3>1. stack'[i] = f /\ Len(heap'[f.arr]) = Len(heap[r.arr])
      BY <1>7, <1>8, <1>12, <2>1
    <3>2. Len(f.locals) = slot /\ \A e \in r.open : e.slot \in Nat
      BY <1>5, <1>6, <1>7 DEF Entry
    <3>3. Len(f.locals) <= f.size /\ f.size <= Len(heap'[f.arr])
      BY <1>7, <1>9, <1>11, <3>1, <3>2
    <3>4. /\ \A k \in 1..Len(f.blocks) : f.blocks[k] <= Len(f.locals)
          /\ \A k, l \in 1..Len(f.blocks) : k <= l => f.blocks[k] <= f.blocks[l]
      <4>1. \A k \in 1..Len(r.blocks) : r.blocks[k] \in Nat
        BY <1>5
      <4> QED
        BY <1>5, <1>7, <1>10, <3>2, <4>1, SMTT(30) DEF Fits
    <3>5. /\ \A e \in f.open : e.slot <= Len(f.locals)
          /\ \A e, d \in f.open : e.slot = d.slot => e = d
      BY <1>5, <1>7, <1>10, <3>2 DEF Fits
    <3> QED
      BY <3>1, <3>3, <3>4, <3>5 DEF Fits
  <2>2. ASSUME NEW i \in 1..n, i # n PROVE Fits(stack[i])'
    <3>1. stack[i].arr # r.arr /\ stack[i].arr \in Arrays
      BY <1>3, <2>2, FrameParts DEF CaptureInv, Boxes, n
    <3> QED
      BY <1>8, <1>12, <2>2, <3>1, FitsStill DEF n
  <2> QED
    BY <1>8, <2>1, <2>2
<1>17. Extends
  <2>1. ASSUME NEW j \in 1..n, NEW s \in 1..Len(stack[j].locals)
        PROVE  stack'[j].locals[s] = stack[j].locals[s]
    <3>1. CASE j = n
      <4>1. stack[j] = r /\ stack'[j] = f
        BY <1>3, <1>8, <3>1
      <4>2. s \in 1..Len(r.locals)
        BY <4>1
      <4>3. f.locals[s] = r.locals[s]
        BY <1>6, <1>7, <4>2
      <4> QED
        BY <4>1, <4>3
    <3>2. CASE j # n
      BY <1>8, <3>2
    <3> QED
      BY <3>1, <3>2
  <2>2. ASSUME NEW j \in 1..n, NEW s \in 1..Len(stack'[j].locals)
        PROVE  \/ /\ s \in 1..Len(stack[j].locals)
                  /\ stack'[j].locals[s] = stack[j].locals[s]
                  /\ heap'[stack'[j].arr][s] = heap[stack[j].arr][s]
               \/ /\ j = n /\ s = Len(stack'[j].locals)
                  /\ stack'[j].locals[s] = Len(value')
                  /\ heap'[stack'[j].arr][s] = value'[Len(value')]
    <3>1. CASE j # n
      <4>1. /\ stack[j].arr # r.arr /\ stack[j].arr \in Arrays
        BY <1>3, <3>1, FrameParts DEF CaptureInv, Boxes, n
      <4>2. stack'[j] = stack[j]
        BY <1>8, <3>1
      <4>3. heap'[stack[j].arr] = heap[stack[j].arr]
        BY <1>12, <4>1
      <4> QED
        BY <4>2, <4>3
    <3>2. CASE j = n /\ s # slot
      <4>1. s \in 1..Len(r.locals) /\ s \in 1..Len(heap[r.arr])
        BY <1>5, <1>6, <1>7, <1>8, <1>10, <1>11, <3>2, SMTT(30)
      <4> QED
        <5>1. stack[j] = r /\ stack'[j] = f /\ f.arr = r.arr
          BY <1>3, <1>7, <1>8, <3>2
        <5>2. f.locals[s] = r.locals[s]
          BY <1>6, <1>7, <4>1
        <5>3. heap'[r.arr][s] = heap[r.arr][s]
          BY <1>12, <3>2, <4>1
        <5> QED
          BY <4>1, <5>1, <5>2, <5>3
    <3>3. CASE j = n /\ s = slot
      BY <1>4, <1>6, <1>7, <1>8, <1>11, <1>12, <3>3
    <3> QED
      BY <3>1, <3>2, <3>3
  <2> QED
    BY <1>1, <1>3, <1>4, <1>8, <1>14, <2>1, <2>2 DEF Extends, n
<1>18. Pointers' /\ Locals' /\ CapturedOnce'
  BY <1>17, ExtendingKeeps
<1> QED
  BY <1>13, <1>15, <1>16, <1>18 DEF CaptureInv

(* A captured variable that is still a local has an entry in its frame. *)
LEMMA Holder ==
  ASSUME CaptureInv, NEW cap \in captured,
         NEW i \in 1..Len(stack), NEW s \in 1..Len(stack[i].locals), stack[i].locals[s] = cap.var
  PROVE  \E e \in stack[i].open : e.slot = s /\ e.cell = cap.cell
<1>1. /\ cap.cell \in Cells /\ cell[cap.cell] # Captures!NoValue
      /\ cell[cap.cell] \in OpenCell \cup ClosedCell \cup {Captures!NoValue}
  BY DEF CaptureInv, CaptureTypes, CapturedOnce
<1>2. "value" \notin DOMAIN cell[cap.cell]
  BY DEF CaptureInv, CapturedOnce
<1>3. "arr" \in DOMAIN cell[cap.cell]
  BY <1>1, <1>2, CellKinds
<1>4. PICK j \in 1..Len(stack) : \E e \in stack[j].open : e.cell = cap.cell
  BY <1>1, <1>3 DEF CaptureInv, Pointers
<1>5. PICK e \in stack[j].open : e.cell = cap.cell
  BY <1>4
<1>6. stack[j].locals[e.slot] = cap.var /\ e.slot \in 1..Len(stack[j].locals)
  <2>1. e.slot \in 1..Len(stack[j].locals)
    BY FrameParts
  <2>2. stack[j].locals[e.slot] = cap.var
    BY <1>5 DEF CaptureInv, CapturedOnce
  <2> QED
    BY <2>1, <2>2
<1>7. j = i /\ e.slot = s
  BY <1>6 DEF CaptureInv, Locals
<1> QED
  BY <1>5, <1>7

(* A closure is made with the cell of an entry of frame n, which is there   *)
(* or new.                                                                  *)
Holds(n, d) ==
  /\ UNCHANGED <<heap, pool, value>>
  /\ captured' = captured \cup {[var |-> stack[n].locals[d.slot], cell |-> d.cell]}
  /\ stack' \in Seq(Frames) /\ Len(stack') = Len(stack)
  /\ \A i \in 1..Len(stack) :
       /\ stack'[i].arr = stack[i].arr /\ stack'[i].size = stack[i].size
       /\ stack'[i].locals = stack[i].locals /\ stack'[i].blocks = stack[i].blocks
       /\ stack'[i].open = IF i = n THEN stack[i].open \cup {d} ELSE stack[i].open
  /\ cell' \in [Cells -> OpenCell \cup ClosedCell \cup {Captures!NoValue}]
  /\ cell'[d.cell] = [arr |-> stack[n].arr, slot |-> d.slot]
  /\ \A c \in Cells : c # d.cell => cell'[c] = cell[c]
  /\ \/ d \in stack[n].open
     \/ cell[d.cell] = Captures!NoValue /\ \A e \in stack[n].open : e.slot # d.slot

LEMMA Holding ==
  ASSUME CaptureInv, NEW n \in 1..Len(stack), NEW d \in Entry, d.slot \in 1..Len(stack[n].locals),
         Holds(n, d)
  PROVE  CaptureInv'
<1> DEFINE var == stack[n].locals[d.slot]
<1>1. UNCHANGED <<heap, pool, value>> /\ Len(stack') = Len(stack)
  BY DEF Holds
<1>2. /\ d.cell \in Cells /\ d.slot \in Nat \ {0} /\ var \in 1..Len(value)
      /\ Len(value) \in Nat /\ stack[n].arr \in Arrays
  BY FrameParts DEF Entry, CaptureInv, Locals, CaptureTypes
<1>3. \A i \in 1..Len(stack) : /\ stack'[i].arr = stack[i].arr /\ stack'[i].size = stack[i].size
                                /\ stack'[i].locals = stack[i].locals
                                /\ stack'[i].blocks = stack[i].blocks
  BY DEF Holds
<1>4. ASSUME NEW i \in 1..Len(stack), NEW e \in stack'[i].open
      PROVE  e \in stack[i].open \/ (i = n /\ e = d)
  BY DEF Holds
<1>5. \A i \in 1..Len(stack) : \A e \in stack[i].open : e \in stack'[i].open
  BY DEF Holds
<1>6. d \in stack'[n].open
  BY DEF Holds
<1>7. d \in stack[n].open => cell[d.cell] = [arr |-> stack[n].arr, slot |-> d.slot]
  BY FrameParts
<1>8. \A c \in Cells : cell'[c] = cell[c] \/ (c = d.cell /\ cell[c] = Captures!NoValue)
  BY <1>7 DEF Holds
<1>9. [arr |-> stack[n].arr, slot |-> d.slot] \in OpenCell
  BY <1>2, CellKinds
<1>10. cell'[d.cell] = [arr |-> stack[n].arr, slot |-> d.slot] /\ cell'[d.cell] \in OpenCell
  BY <1>9 DEF Holds
<1>11. ASSUME NEW i \in 1..Len(stack), NEW e \in stack'[i].open
       PROVE  cell'[e.cell] = [arr |-> stack[i].arr, slot |-> e.slot]
  <2>1. CASE e \in stack[i].open
    <3>1. /\ e.cell \in Cells /\ cell[e.cell] = [arr |-> stack[i].arr, slot |-> e.slot]
          /\ cell[e.cell] # Captures!NoValue
      BY <2>1, FrameParts, CellKinds
    <3> QED
      BY <1>8, <3>1
  <2>2. CASE i = n /\ e = d
    BY <1>10, <2>2
  <2> QED
    BY <1>4, <2>1, <2>2
<1>12. CaptureTypes'
  <2>1. captured' \subseteq [var : Nat, cell : Cells]
    <3>1. [var |-> var, cell |-> d.cell] \in [var : Nat, cell : Cells]
      BY <1>2
    <3>2. captured' = captured \cup {[var |-> var, cell |-> d.cell]}
      BY DEF Holds
    <3>3. captured \subseteq [var : Nat, cell : Cells]
      BY DEF CaptureInv, CaptureTypes
    <3> QED
      BY <3>1, <3>2, <3>3
  <2> QED
    BY <1>1, <2>1 DEF CaptureInv, CaptureTypes, Holds
<1>13. Boxes'
  BY <1>1, <1>3, BoxesStay DEF CaptureInv
<1>14. ASSUME NEW i \in 1..Len(stack) PROVE Fits(stack[i])'
  <2>1. Fits(stack[i])
    BY DEF CaptureInv
  <2>2. d.slot <= Len(stack[n].locals)
    BY FrameParts
  <2>3. \A e \in stack'[i].open : e.slot <= Len(stack[i].locals)
    BY <1>4, <2>1, <2>2 DEF Fits
  <2>4. ASSUME NEW e \in stack'[i].open, NEW c \in stack'[i].open, e.slot = c.slot PROVE e = c
    <3>1. \A b \in stack[i].open : i = n /\ b.slot = d.slot => b = d
      BY <2>1 DEF Fits, Holds
    <3>2. \A b, a \in stack[i].open : b.slot = a.slot => b = a
      BY <2>1 DEF Fits
    <3> QED
      BY <1>4, <2>4, <3>1, <3>2
  <2> QED
    BY <1>1, <1>3, <2>1, <2>3, <2>4 DEF Fits
<1>15. Pointers'
  <2>1. ASSUME NEW c \in Cells, "arr" \in DOMAIN cell'[c]
        PROVE  \E i \in 1..Len(stack) : \E e \in stack'[i].open : e.cell = c
    <3>1. CASE cell'[c] = cell[c]
      <4>1. \E i \in 1..Len(stack) : \E e \in stack[i].open : e.cell = c
        BY <2>1, <3>1 DEF CaptureInv, Pointers
      <4> QED
        BY <1>5, <4>1
    <3>2. CASE c = d.cell
      BY <1>6, <3>2
    <3> QED
      BY <1>8, <3>1, <3>2
  <2> QED
    BY <1>1, <1>3, <1>11, <2>1 DEF Pointers
<1>16. Locals'
  <2>1. \A i \in 1..Len(stack) : \A s \in 1..Len(stack[i].locals) :
          /\ stack[i].locals[s] \in 1..Len(value)
          /\ heap[stack[i].arr][s] = value[stack[i].locals[s]]
    BY DEF CaptureInv, Locals
  <2>2. \A i, j \in 1..Len(stack) : \A s \in 1..Len(stack[i].locals), r \in 1..Len(stack[j].locals) :
          stack[i].locals[s] = stack[j].locals[r] => i = j /\ s = r
    BY DEF CaptureInv, Locals
  <2>3. \A i \in 1..Len(stack') : \A s \in 1..Len(stack'[i].locals) :
          /\ stack'[i].locals[s] \in 1..Len(value')
          /\ heap'[stack'[i].arr][s] = value'[stack'[i].locals[s]]
    BY <1>1, <1>3, <2>1
  <2>4. ASSUME NEW i \in 1..Len(stack'), NEW j \in 1..Len(stack'),
               NEW s \in 1..Len(stack'[i].locals), NEW r \in 1..Len(stack'[j].locals),
               stack'[i].locals[s] = stack'[j].locals[r]
        PROVE  i = j /\ s = r
    <3>1. i \in 1..Len(stack) /\ j \in 1..Len(stack)
      BY <1>1
    <3>2. stack'[i].locals = stack[i].locals /\ stack'[j].locals = stack[j].locals
      BY <1>3, <3>1
    <3>3. s \in 1..Len(stack[i].locals) /\ r \in 1..Len(stack[j].locals)
      BY <3>2
    <3>4. stack[i].locals[s] = stack[j].locals[r]
      BY <2>4, <3>2
    <3> QED
      BY <2>2, <3>1, <3>3, <3>4, SMTT(30)
  <2> QED
    BY <2>3, <2>4 DEF Locals
<1>17. ASSUME NEW cap \in captured
       PROVE  /\ cap.var \in 1..Len(value)
              /\ cell'[cap.cell] # Captures!NoValue
              /\ \A i \in 1..Len(stack) : \A e \in stack'[i].open :
                   e.cell = cap.cell => stack[i].locals[e.slot] = cap.var
              /\ "value" \in DOMAIN cell'[cap.cell] =>
                   /\ cell'[cap.cell].value = value[cap.var]
                   /\ \A i \in 1..Len(stack) : \A s \in 1..Len(stack[i].locals) :
                        stack[i].locals[s] # cap.var
              /\ cap.var = var <=> cap.cell = d.cell
  <2>1. /\ cap.var \in 1..Len(value) /\ cap.cell \in Cells
        /\ cell[cap.cell] # Captures!NoValue
        /\ \A i \in 1..Len(stack) : \A e \in stack[i].open :
             e.cell = cap.cell => stack[i].locals[e.slot] = cap.var
        /\ "value" \in DOMAIN cell[cap.cell] =>
             /\ cell[cap.cell].value = value[cap.var]
             /\ \A i \in 1..Len(stack) : \A s \in 1..Len(stack[i].locals) :
                  stack[i].locals[s] # cap.var
    BY DEF CaptureInv, CapturedOnce, CaptureTypes
  <2>2. cell'[cap.cell] = cell[cap.cell]
    BY <1>8, <2>1
  <2>3. cap.cell = d.cell => d \in stack[n].open
    BY <2>1 DEF Holds
  <2>4. ASSUME NEW i \in 1..Len(stack), NEW e \in stack'[i].open, e.cell = cap.cell
        PROVE  stack[i].locals[e.slot] = cap.var
    BY <1>4, <2>1, <2>3, <2>4
  <2>5. ASSUME cap.var = var PROVE cap.cell = d.cell
    <3>1. PICK e \in stack[n].open : e.slot = d.slot /\ e.cell = cap.cell
      BY <2>5, Holder
    <3>2. d \in stack[n].open
      BY <3>1 DEF Holds
    <3> QED
      BY <3>1, <3>2 DEF CaptureInv, Fits
  <2> QED
    BY <2>1, <2>2, <2>3, <2>4, <2>5
<1>18. CapturedOnce'
  <2> DEFINE new == [var |-> var, cell |-> d.cell]
  <2>1. captured' = captured \cup {new} /\ new.var = var /\ new.cell = d.cell
    BY DEF Holds
  <2>2. "value" \notin DOMAIN cell'[d.cell] /\ cell'[d.cell] # Captures!NoValue
    BY <1>10, CellKinds
  <2>3. ASSUME NEW i \in 1..Len(stack), NEW e \in stack'[i].open, e.cell = d.cell
        PROVE  stack[i].locals[e.slot] = var
    <3>1. [arr |-> stack[i].arr, slot |-> e.slot] = [arr |-> stack[n].arr, slot |-> d.slot]
      BY <1>10, <1>11, <2>3
    <3>2. stack[i].arr = stack[n].arr /\ e.slot = d.slot
      BY <3>1
    <3>3. i = n
      BY <3>2 DEF CaptureInv, Boxes
    <3> QED
      BY <3>2, <3>3
  <2> HIDE DEF new, var
  <2>4. ASSUME NEW cap \in captured'
        PROVE  /\ cap.var \in 1..Len(value)
               /\ cell'[cap.cell] # Captures!NoValue
               /\ \A i \in 1..Len(stack) : \A e \in stack'[i].open :
                    e.cell = cap.cell => stack[i].locals[e.slot] = cap.var
               /\ "value" \in DOMAIN cell'[cap.cell] =>
                    /\ cell'[cap.cell].value = value[cap.var]
                    /\ \A i \in 1..Len(stack) : \A s \in 1..Len(stack[i].locals) :
                         stack[i].locals[s] # cap.var
    <3>1. CASE cap \in captured
      BY <1>17, <3>1
    <3>2. CASE cap = new
      BY <1>2, <2>1, <2>2, <2>3, <3>2
    <3> QED
      BY <2>1, <3>1, <3>2
  <2>5. ASSUME NEW cap \in captured', NEW other \in captured'
        PROVE  cap.var = other.var <=> cap.cell = other.cell
    <3>1. cap \in captured /\ other \in captured => (cap.var = other.var <=> cap.cell = other.cell)
      BY DEF CaptureInv, CapturedOnce
    <3>2. cap \in captured => (cap.var = var <=> cap.cell = d.cell)
      BY <1>17
    <3>3. other \in captured => (other.var = var <=> other.cell = d.cell)
      BY <1>17
    <3> QED
      BY <2>1, <3>1, <3>2, <3>3
  <2>6. \A i \in 1..Len(stack) : stack'[i].locals = stack[i].locals
    BY <1>3
  <2> QED
    BY <1>1, <2>4, <2>5, <2>6 DEF CapturedOnce
<1> QED
  BY <1>1, <1>12, <1>13, <1>14, <1>15, <1>16, <1>18 DEF CaptureInv

LEMMA MakingAClosure ==
  ASSUME CaptureInv, Captures!NewClosure PROVE CaptureInv'
<1> DEFINE n == Len(stack)
<1>1. Captures!Running /\ UNCHANGED <<heap, pool, value>>
  BY DEF Captures!NewClosure
<1>2. PICK r \in Frames : r = Captures!Top
  BY <1>1, TopFrame
<1>3. n \in Nat \ {0} /\ n \in 1..n /\ stack[n] = r /\ stack \in Seq(Frames)
  BY <1>1, <1>2, TopFrame DEF CaptureInv, CaptureTypes
<1>4. /\ r.blocks \in Seq(Nat) /\ r.locals \in Seq(Nat) /\ Len(r.locals) \in Nat
      /\ r.arr \in Arrays /\ r.size \in Nat \ {0} /\ r.open \subseteq Entry
  BY DEF Frames
<1>5. cell \in [Cells -> OpenCell \cup ClosedCell \cup {Captures!NoValue}]
  BY DEF CaptureInv, CaptureTypes
<1>6. PICK slot \in DOMAIN Captures!Top.locals :
        LET var == Captures!Top.locals[slot]
            there == {e \in Captures!Top.open : e.slot = slot}
        IN  \/ /\ there # {}
               /\ captured' = captured \cup {[var |-> var, cell |-> e.cell] : e \in there}
               /\ UNCHANGED <<stack, cell>>
            \/ /\ there = {}
               /\ \E c \in Cells :
                    /\ cell[c] = Captures!NoValue
                    /\ cell' = [cell EXCEPT ![c] = [arr |-> Captures!Top.arr, slot |-> slot]]
                    /\ captured' = captured \cup {[var |-> var, cell |-> c]}
                    /\ stack' = Captures!WithTop(
                                  [Captures!Top EXCEPT !.open = @ \cup {[slot |-> slot, cell |-> c]}])
  BY DEF Captures!NewClosure
<1> DEFINE there == {e \in r.open : e.slot = slot}
<1>7. slot \in 1..Len(r.locals) /\ slot \in Nat \ {0}
  BY <1>2, <1>4
<1>8. CASE /\ there # {}
           /\ captured' = captured \cup {[var |-> r.locals[slot], cell |-> e.cell] : e \in there}
           /\ UNCHANGED <<stack, cell>>
  <2>1. PICK d \in r.open : d.slot = slot
    BY <1>8
  <2>2. there = {d}
    BY <1>3, <2>1 DEF CaptureInv, Fits
  <2>3. captured' = captured \cup {[var |-> r.locals[d.slot], cell |-> d.cell]}
    BY <1>8, <2>1, <2>2
  <2>4. cell'[d.cell] = [arr |-> r.arr, slot |-> d.slot]
    BY <1>3, <1>8, <2>1, FrameParts
  <2>5. Holds(n, d)
    BY <1>1, <1>3, <1>5, <1>8, <2>1, <2>3, <2>4 DEF Holds
  <2> QED
    BY <1>3, <1>4, <1>7, <2>1, <2>5, Holding
<1>9. CASE /\ there = {}
           /\ \E c \in Cells :
                /\ cell[c] = Captures!NoValue
                /\ cell' = [cell EXCEPT ![c] = [arr |-> r.arr, slot |-> slot]]
                /\ captured' = captured \cup {[var |-> r.locals[slot], cell |-> c]}
                /\ stack' = Captures!WithTop([r EXCEPT !.open = @ \cup {[slot |-> slot, cell |-> c]}])
  <2>1. PICK c \in Cells :
          /\ cell[c] = Captures!NoValue
          /\ cell' = [cell EXCEPT ![c] = [arr |-> r.arr, slot |-> slot]]
          /\ captured' = captured \cup {[var |-> r.locals[slot], cell |-> c]}
          /\ stack' = Captures!WithTop([r EXCEPT !.open = @ \cup {[slot |-> slot, cell |-> c]}])
    BY <1>9
  <2> DEFINE d == [slot |-> slot, cell |-> c]
             f == [r EXCEPT !.open = @ \cup {d}]
  <2>2. d \in Entry /\ d.slot = slot /\ d.cell = c
    BY <1>7 DEF Entry
  <2> HIDE DEF d
  <2>3. /\ f \in Frames /\ f.arr = r.arr /\ f.size = r.size /\ f.blocks = r.blocks
        /\ f.locals = r.locals /\ f.open = r.open \cup {d}
    BY <1>4, <2>2 DEF Frames
  <2>4. stack' = Captures!WithTop(f)
    BY <2>1 DEF d
  <2>5. /\ stack' \in Seq(Frames) /\ Len(stack') = n /\ stack'[n] = f
        /\ \A i \in 1..n : i # n => stack'[i] = stack[i]
    BY <1>1, <2>3, <2>4, Retopping
  <2>6. [arr |-> r.arr, slot |-> slot] \in OpenCell
    BY <1>4, <1>7, CellKinds
  <2>7. /\ cell' \in [Cells -> OpenCell \cup ClosedCell \cup {Captures!NoValue}]
        /\ cell'[c] = [arr |-> r.arr, slot |-> slot]
        /\ \A b \in Cells : b # c => cell'[b] = cell[b]
    BY <1>5, <2>1, <2>6
  <2> HIDE DEF f, n
  <2>8. ASSUME NEW i \in 1..n
        PROVE  /\ stack'[i].arr = stack[i].arr /\ stack'[i].size = stack[i].size
               /\ stack'[i].locals = stack[i].locals /\ stack'[i].blocks = stack[i].blocks
               /\ stack'[i].open = IF i = n THEN stack[i].open \cup {d} ELSE stack[i].open
    BY <1>3, <2>3, <2>5
  <2>9. \A e \in r.open : e.slot # slot
    BY <1>9
  <2>10. Holds(n, d)
    BY <1>1, <1>3, <2>1, <2>2, <2>5, <2>7, <2>8, <2>9 DEF Holds, n
  <2> QED
    BY <1>3, <1>7, <2>2, <2>10, Holding DEF n
<1> QED
  BY <1>2, <1>6, <1>8, <1>9

(* An open cell has one entry. *)
LEMMA OneEntry ==
  ASSUME CaptureInv, NEW i \in 1..Len(stack), NEW e \in stack[i].open,
         NEW j \in 1..Len(stack), NEW d \in stack[j].open, e.cell = d.cell
  PROVE  i = j /\ e = d
<1>1. [arr |-> stack[i].arr, slot |-> e.slot] = [arr |-> stack[j].arr, slot |-> d.slot]
  BY FrameParts
<1>2. stack[i].arr = stack[j].arr /\ e.slot = d.slot
  BY <1>1
<1>3. i = j
  BY <1>2 DEF CaptureInv, Boxes
<1> QED
  BY <1>2, <1>3 DEF CaptureInv, Fits

(* The cells of some frames are closed. *)
LEMMA Closing ==
  ASSUME CaptureInv, NEW open, NEW from \in Nat, NEW which,
         \A i \in 1..Len(stack) : \A e \in stack[i].open : e \in open <=> i \in which,
         \A e \in open : \E i \in 1..Len(stack) : e \in stack[i].open
  PROVE  LET closed == Captures!CloseCells(open, from) IN
         /\ closed = [c \in Cells |-> closed[c]]
         /\ \A i \in 1..Len(stack) : \A e \in stack[i].open :
              closed[e.cell] = IF i \in which /\ e.slot >= from
                               THEN [value |-> Captures!Deref(cell[e.cell])] ELSE cell[e.cell]
         /\ \A c \in Cells : (\A i \in 1..Len(stack) : \A e \in stack[i].open : e.cell # c)
                              => closed[c] = cell[c]
<1> DEFINE closed == Captures!CloseCells(open, from)
           of(c) == \E e \in open : e.cell = c /\ e.slot >= from
<1>1. closed = [c \in Cells |-> IF of(c) THEN [value |-> Captures!Deref(cell[c])] ELSE cell[c]]
  BY DEF Captures!CloseCells
<1> HIDE DEF closed
<1>2. closed = [c \in Cells |-> closed[c]]
  BY <1>1
<1>3. \A c \in Cells : closed[c] = IF of(c) THEN [value |-> Captures!Deref(cell[c])] ELSE cell[c]
  BY <1>1
<1>4. ASSUME NEW i \in 1..Len(stack), NEW e \in stack[i].open
      PROVE  e.cell \in Cells /\ (of(e.cell) <=> i \in which /\ e.slot >= from)
  <2>1. e.cell \in Cells
    BY FrameParts
  <2>2. ASSUME NEW d \in open, d.cell = e.cell, d.slot >= from
        PROVE  i \in which /\ e.slot >= from
    <3>1. PICK j \in 1..Len(stack) : d \in stack[j].open
      OBVIOUS
    <3>2. i = j /\ e = d
      BY <2>2, <3>1, OneEntry
    <3> QED
      BY <2>2, <3>2
  <2> QED
    BY <2>1, <2>2
<1>5. ASSUME NEW c \in Cells, \A i \in 1..Len(stack) : \A e \in stack[i].open : e.cell # c
      PROVE  ~of(c)
  BY <1>5
<1> HIDE DEF of
<1>6. \A i \in 1..Len(stack) : \A e \in stack[i].open :
        closed[e.cell] = IF i \in which /\ e.slot >= from
                         THEN [value |-> Captures!Deref(cell[e.cell])] ELSE cell[e.cell]
  BY <1>3, <1>4
<1>7. \A c \in Cells : (\A i \in 1..Len(stack) : \A e \in stack[i].open : e.cell # c)
                        => closed[c] = cell[c]
  BY <1>3, <1>5
<1> QED
  BY <1>2, <1>6, <1>7 DEF closed

LEMMA ClosingTheTop ==
  ASSUME CaptureInv, Captures!Running, NEW from \in Nat
  PROVE  LET closed == Captures!CloseCells(Captures!Top.open, from) IN
         /\ closed = [c \in Cells |-> closed[c]]
         /\ \A i \in 1..Len(stack) : \A e \in stack[i].open :
              closed[e.cell] = IF i = Len(stack) /\ e.slot >= from
                               THEN [value |-> Captures!Deref(cell[e.cell])] ELSE cell[e.cell]
         /\ \A c \in Cells : (\A i \in 1..Len(stack) : \A e \in stack[i].open : e.cell # c)
                              => closed[c] = cell[c]
<1> DEFINE n == Len(stack)
           open == Captures!Top.open
<1>1. n \in 1..Len(stack) /\ open = stack[n].open
  BY TopFrame
<1>2. \A i \in 1..Len(stack) : \A e \in stack[i].open : e \in open <=> i \in {n}
  BY <1>1, OneEntry
<1>3. \A e \in open : \E i \in 1..Len(stack) : e \in stack[i].open
  BY <1>1
<1> DEFINE which == {n}
<1> HIDE DEF open, which
<1>4. LET closed == Captures!CloseCells(open, from) IN
         /\ closed = [c \in Cells |-> closed[c]]
         /\ \A i \in 1..Len(stack) : \A e \in stack[i].open :
              closed[e.cell] = IF i \in which /\ e.slot >= from
                               THEN [value |-> Captures!Deref(cell[e.cell])] ELSE cell[e.cell]
         /\ \A c \in Cells : (\A i \in 1..Len(stack) : \A e \in stack[i].open : e.cell # c)
                              => closed[c] = cell[c]
  BY <1>2, <1>3, Closing DEF which
<1> QED
  BY <1>4 DEF open, which

LEMMA ClosingAll ==
  ASSUME CaptureInv
  PROVE  LET closed == Captures!CloseCells(Captures!OpenCells, 1) IN
         /\ closed = [c \in Cells |-> closed[c]]
         /\ \A i \in 1..Len(stack) : \A e \in stack[i].open :
              closed[e.cell] = [value |-> Captures!Deref(cell[e.cell])]
         /\ \A c \in Cells : (\A i \in 1..Len(stack) : \A e \in stack[i].open : e.cell # c)
                              => closed[c] = cell[c]
<1> DEFINE open == Captures!OpenCells
           which == 1..Len(stack)
<1>1. DOMAIN stack = 1..Len(stack)
  BY DEF CaptureInv, CaptureTypes
<1>2. \A e : e \in open <=> \E i \in 1..Len(stack) : e \in stack[i].open
  BY <1>1 DEF Captures!OpenCells
<1>3. ASSUME NEW i \in 1..Len(stack), NEW e \in stack[i].open PROVE e.slot >= 1
  <2>1. e.slot \in 1..Len(stack[i].locals) /\ Len(stack[i].locals) \in Nat
    BY FrameParts
  <2> QED
    BY <2>1
<1> HIDE DEF open
<1>4. LET closed == Captures!CloseCells(open, 1) IN
         /\ closed = [c \in Cells |-> closed[c]]
         /\ \A i \in 1..Len(stack) : \A e \in stack[i].open :
              closed[e.cell] = IF i \in which /\ e.slot >= 1
                               THEN [value |-> Captures!Deref(cell[e.cell])] ELSE cell[e.cell]
         /\ \A c \in Cells : (\A i \in 1..Len(stack) : \A e \in stack[i].open : e.cell # c)
                              => closed[c] = cell[c]
  <2>1. \A i \in 1..Len(stack) : \A e \in stack[i].open : e \in open <=> i \in which
    BY <1>2
  <2>2. \A e \in open : \E i \in 1..Len(stack) : e \in stack[i].open
    BY <1>2
  <2> HIDE DEF which
  <2> QED
    BY <2>1, <2>2, Closing, ZenonT(30)
<1> QED
  BY <1>3, <1>4 DEF open

LEMMA LeavingABlock ==
  ASSUME CaptureInv, Captures!LeaveBlock PROVE CaptureInv'
<1> DEFINE n == Len(stack)
<1>1. Captures!Running /\ UNCHANGED <<pool, captured, value>>
  BY DEF Captures!LeaveBlock
<1>2. PICK r \in Frames : r = Captures!Top
  BY <1>1, TopFrame
<1>3. n \in Nat \ {0} /\ n \in 1..n /\ stack[n] = r /\ stack \in Seq(Frames)
  BY <1>1, <1>2, TopFrame DEF CaptureInv, CaptureTypes
<1>4. /\ r.blocks \in Seq(Nat) /\ r.locals \in Seq(Nat) /\ Len(r.locals) \in Nat
      /\ r.arr \in Arrays /\ r.size \in Nat \ {0} /\ r.open \subseteq Entry
  BY DEF Frames
<1>5. /\ Fits(r) /\ heap \in [Arrays -> Seq(Register)] /\ heap[r.arr] \in Seq(Register)
      /\ Len(heap[r.arr]) \in Nat
  <2>1. Fits(r)
    BY <1>3 DEF CaptureInv
  <2>2. heap \in [Arrays -> Seq(Register)]
    BY DEF CaptureInv, CaptureTypes
  <2> QED
    BY <1>4, <2>1, <2>2
<1> DEFINE level == Captures!Last(r.blocks)
           mine == level + 1..Len(r.locals)
           f == [r EXCEPT !.blocks = Captures!Front(@), !.locals = SubSeq(@, 1, level),
                          !.open = {e \in @ : e.slot <= level}]
<1>6. r.blocks # <<>> /\ Len(r.blocks) \in Nat \ {0}
  <2>1. r.blocks # <<>>
    BY <1>2 DEF Captures!LeaveBlock
  <2> QED
    BY <1>4, <2>1
<1>7. level \in 0..Len(r.locals) /\ \A k \in 1..Len(r.blocks) : r.blocks[k] <= level
  <2>1. level = r.blocks[Len(r.blocks)] /\ Len(r.blocks) \in 1..Len(r.blocks)
    BY <1>6 DEF Captures!Last
  <2>2. level \in Nat /\ level <= Len(r.locals)
    BY <1>4, <1>5, <2>1 DEF Fits
  <2>3. \A k \in 1..Len(r.blocks) : r.blocks[k] <= level
    BY <1>5, <2>1 DEF Fits
  <2> QED
    BY <1>4, <2>2, <2>3
<1>8. /\ cell' = Captures!CloseCells(Captures!Top.open, level + 1)
      /\ \E clears \in BOOLEAN :
           heap' = [heap EXCEPT ![r.arr] =
                      [s \in DOMAIN @ |-> IF clears /\ s \in mine THEN Nil ELSE @[s]]]
      /\ stack' = Captures!WithTop(f)
  BY <1>2 DEF Captures!LeaveBlock
<1> HIDE DEF level
<1>9. /\ SubSeq(r.locals, 1, level) \in Seq(Nat) /\ Len(SubSeq(r.locals, 1, level)) = level
      /\ \A s \in 1..level : SubSeq(r.locals, 1, level)[s] = r.locals[s]
  BY <1>4, <1>7, Prefix
<1>10. /\ Captures!Front(r.blocks) \in Seq(Nat)
       /\ Len(Captures!Front(r.blocks)) = Len(r.blocks) - 1
       /\ \A k \in 1..Len(r.blocks) - 1 : Captures!Front(r.blocks)[k] = r.blocks[k]
  <2>1. Len(r.blocks) - 1 \in 0..Len(r.blocks)
    BY <1>6
  <2> QED
    BY <1>4, <2>1, Prefix DEF Captures!Front
<1>11. /\ f \in Frames /\ f.arr = r.arr /\ f.size = r.size
       /\ f.blocks = Captures!Front(r.blocks) /\ f.locals = SubSeq(r.locals, 1, level)
       /\ f.open = {e \in r.open : e.slot <= level}
  BY <1>4, <1>9, <1>10 DEF Frames
<1> HIDE DEF f
<1>12. /\ stack' \in Seq(Frames) /\ Len(stack') = n /\ stack'[n] = f
       /\ \A i \in 1..n : i # n => stack'[i] = stack[i]
  BY <1>1, <1>8, <1>11, Retopping
<1>13. /\ heap' \in [Arrays -> Seq(Register)]
       /\ \A b \in Arrays : b # r.arr => heap'[b] = heap[b]
       /\ Len(heap'[r.arr]) = Len(heap[r.arr])
       /\ \A s \in 1..level : heap'[r.arr][s] = heap[r.arr][s]
  <2>1. PICK clears \in BOOLEAN :
          heap' = [heap EXCEPT ![r.arr] =
                     [s \in DOMAIN @ |-> IF clears /\ s \in mine THEN Nil ELSE @[s]]]
    BY <1>8
  <2> DEFINE regs == [s \in 1..Len(heap[r.arr]) |->
                        IF clears /\ s \in mine THEN Nil ELSE heap[r.arr][s]]
  <2>2. heap' = [heap EXCEPT ![r.arr] = regs]
    <3>1. DOMAIN heap[r.arr] = 1..Len(heap[r.arr])
      BY <1>5
    <3> QED
      BY <2>1, <3>1
  <2>3. regs \in Seq(Register) /\ Len(regs) = Len(heap[r.arr])
    <3>1. \A s \in 1..Len(heap[r.arr]) : heap[r.arr][s] \in Register
      BY <1>5
    <3>2. \A s \in 1..Len(heap[r.arr]) :
            (IF clears /\ s \in mine THEN Nil ELSE heap[r.arr][s]) \in Register
      BY <3>1 DEF Register
    <3> QED
      BY <1>5, <3>2
  <2>4. \A s \in 1..level : regs[s] = heap[r.arr][s]
    <3>1. ASSUME NEW s \in 1..level PROVE s \notin mine /\ s \in 1..Len(heap[r.arr])
      <4>1. Len(r.locals) <= Len(heap[r.arr])
        BY <1>3, FrameParts
      <4> QED
        BY <1>4, <1>5, <1>7, <4>1
    <3> QED
      BY <3>1
  <2> HIDE DEF regs
  <2> QED
    BY <1>4, <1>5, <2>2, <2>3, <2>4
<1>14. /\ cell' = [c \in Cells |-> cell'[c]]
       /\ \A i \in 1..n : \A e \in stack[i].open :
            cell'[e.cell] = IF i = n /\ e.slot >= level + 1
                            THEN [value |-> Captures!Deref(cell[e.cell])] ELSE cell[e.cell]
       /\ \A c \in Cells : (\A i \in 1..n : \A e \in stack[i].open : e.cell # c)
                            => cell'[c] = cell[c]
  <2>1. level + 1 \in Nat
    BY <1>4, <1>7
  <2> DEFINE from == level + 1
             closed == Captures!CloseCells(Captures!Top.open, from)
  <2> HIDE DEF from
  <2>2. /\ closed = [c \in Cells |-> closed[c]]
        /\ \A i \in 1..Len(stack) : \A e \in stack[i].open :
             closed[e.cell] = IF i = Len(stack) /\ e.slot >= from
                              THEN [value |-> Captures!Deref(cell[e.cell])] ELSE cell[e.cell]
        /\ \A c \in Cells : (\A i \in 1..Len(stack) : \A e \in stack[i].open : e.cell # c)
                             => closed[c] = cell[c]
    BY <1>1, <2>1, ClosingTheTop DEF from
  <2>3. cell' = closed
    BY <1>8 DEF from
  <2> HIDE DEF closed
  <2> QED
    BY <2>2, <2>3 DEF from
<1> HIDE DEF n
<1>15. Ends
  <2>1. \A i \in 1..n : Len(stack[i].locals) \in Nat /\ stack[i].arr \in Arrays
    BY FrameParts DEF n
  <2>2. ASSUME NEW i \in 1..n
        PROVE  /\ stack'[i].arr \in Arrays /\ stack'[i].arr = stack[i].arr
               /\ Len(stack'[i].locals) \in Nat /\ Len(stack'[i].locals) <= Len(stack[i].locals)
               /\ \A s \in 1..Len(stack'[i].locals) :
                    /\ stack'[i].locals[s] = stack[i].locals[s]
                    /\ heap'[stack'[i].arr][s] = heap[stack[i].arr][s]
               /\ stack'[i].open = {e \in stack[i].open : e.slot <= Len(stack'[i].locals)}
    <3>1. CASE i = n
      <4>1. stack[i] = r /\ stack'[i] = f /\ f.arr = r.arr
        BY <1>3, <1>11, <1>12, <3>1
      <4>2. Len(f.locals) = level /\ \A s \in 1..level : f.locals[s] = r.locals[s]
        BY <1>9, <1>11
      <4>3. f.open = {e \in r.open : e.slot <= level}
        BY <1>11
      <4> QED
        BY <1>4, <1>7, <1>13, <4>1, <4>2, <4>3
    <3>2. CASE i # n
      <4>1. stack[i].arr # r.arr /\ stack[i].arr \in Arrays
        BY <1>3, <2>1, <3>2 DEF CaptureInv, Boxes, n
      <4>2. stack'[i] = stack[i] /\ heap'[stack[i].arr] = heap[stack[i].arr]
        BY <1>12, <1>13, <3>2, <4>1
      <4>3. \A e \in stack[i].open : e.slot <= Len(stack[i].locals)
        BY Slots DEF n
      <4> QED
        BY <2>1, <4>1, <4>2, <4>3
    <3> QED
      BY <3>1, <3>2
  <2>3. ASSUME NEW i \in 1..n, NEW e \in stack'[i].open
        PROVE  cell'[e.cell] = [arr |-> stack'[i].arr, slot |-> e.slot]
    <3>1. e \in stack[i].open /\ e.slot <= Len(stack'[i].locals)
      BY <2>2
    <3>2. i = n => Len(stack'[i].locals) = level
      BY <1>9, <1>11, <1>12
    <3>3. e.slot \in Nat
      BY <3>1, Slots DEF n
    <3>4. ~(i = n /\ e.slot >= level + 1)
      BY <1>4, <1>7, <3>1, <3>2, <3>3
    <3>5. cell'[e.cell] = cell[e.cell]
      BY <1>14, <3>1, <3>4
    <3>6. stack'[i].arr = stack[i].arr
      BY <2>2
    <3>7. cell[e.cell] = [arr |-> stack[i].arr, slot |-> e.slot]
      BY <3>1, FrameParts DEF n
    <3> QED
      BY <3>5, <3>6, <3>7
  <2>4. ASSUME NEW i \in 1..n, NEW e \in stack[i].open
        PROVE  \/ e \in stack'[i].open
               \/ cell'[e.cell] = [value |-> Captures!Deref(cell[e.cell])]
    <3>1. CASE i = n /\ e.slot >= level + 1
      BY <1>14, <3>1
    <3>2. CASE ~(i = n /\ e.slot >= level + 1)
      <4>1. i = n => Len(stack'[i].locals) = level
        BY <1>9, <1>11, <1>12
      <4>2. i # n => stack'[i].locals = stack[i].locals
        BY <1>12
      <4>3. e.slot \in Nat /\ e.slot <= Len(stack[i].locals)
        BY Slots DEF n
      <4>4. e.slot <= Len(stack'[i].locals)
        BY <1>4, <1>7, <3>2, <4>1, <4>2, <4>3
      <4> QED
        BY <2>2, <4>4
    <3> QED
      BY <3>1, <3>2
  <2>5. n \in Nat /\ Len(stack') = n /\ n = Len(stack)
    BY <1>3, <1>12 DEF n
  <2> QED
    BY <1>1, <1>14, <2>2, <2>3, <2>4, <2>5 DEF Ends
<1>16. /\ Pointers' /\ Locals' /\ CapturedOnce'
       /\ cell' \in [Cells -> OpenCell \cup ClosedCell \cup {Captures!NoValue}]
  BY <1>15, EndingKeeps
<1>17. CaptureTypes'
  BY <1>1, <1>12, <1>13, <1>16 DEF CaptureInv, CaptureTypes
<1>18. Boxes'
  <2>1. r.arr \notin pool /\ pool \subseteq Arrays
    BY <1>3 DEF CaptureInv, Boxes, CaptureTypes, n
  <2>2. \A i \in 1..n : stack'[i].arr = stack[i].arr
    BY <1>3, <1>11, <1>12
  <2> QED
    BY <1>1, <1>12, <1>13, <2>1, <2>2, BoxesStay DEF CaptureInv, n
<1>19. \A i \in 1..Len(stack') : Fits(stack[i])'
  <2>1. ASSUME NEW i \in 1..n, i = n PROVE Fits(stack[i])'
    <3>1. stack'[i] = f /\ Len(heap'[f.arr]) = Len(heap[r.arr])
      BY <1>11, <1>12, <1>13, <2>1
    <3>2. Len(f.locals) = level /\ level <= Len(r.locals) /\ level \in Nat
      BY <1>4, <1>7, <1>9, <1>11
    <3>3. Len(f.locals) <= f.size /\ f.size <= Len(heap'[f.arr])
      <4>1. Len(r.locals) <= r.size /\ r.size <= Len(heap[r.arr])
        BY <1>5 DEF Fits
      <4> QED
        BY <1>4, <1>5, <1>11, <3>1, <3>2, <4>1
    <3>4. /\ \A k \in 1..Len(f.blocks) : f.blocks[k] <= Len(f.locals)
          /\ \A k, l \in 1..Len(f.blocks) : k <= l => f.blocks[k] <= f.blocks[l]
      <4>1. ASSUME NEW k \in 1..Len(f.blocks)
            PROVE  k \in 1..Len(r.blocks) /\ f.blocks[k] = r.blocks[k]
        BY <1>6, <1>10, <1>11
      <4> QED
        BY <1>5, <1>7, <3>2, <4>1 DEF Fits
    <3>5. /\ \A e \in f.open : e.slot <= Len(f.locals)
          /\ \A e, d \in f.open : e.slot = d.slot => e = d
      BY <1>5, <1>11, <3>2 DEF Fits
    <3> QED
      BY <3>1, <3>3, <3>4, <3>5 DEF Fits
  <2>2. ASSUME NEW i \in 1..n, i # n PROVE Fits(stack[i])'
    <3>1. stack[i].arr # r.arr /\ stack[i].arr \in Arrays
      BY <1>3, <2>2, FrameParts DEF CaptureInv, Boxes, n
    <3> QED
      BY <1>12, <1>13, <2>2, <3>1, FitsStill DEF n
  <2> QED
    BY <1>12, <2>1, <2>2
<1> QED
  BY <1>16, <1>17, <1>18, <1>19 DEF CaptureInv

LEMMA NilsFacts ==
  ASSUME NEW k \in Nat
  PROVE  /\ Captures!Nils(k) \in Seq(Register) /\ Len(Captures!Nils(k)) = k
         /\ \A s \in 1..k : Captures!Nils(k)[s] = Nil
         /\ k > 0 => Captures!Nils(k) # <<>>
<1>1. Captures!Nils(k) = [s \in 1..k |-> Nil] /\ Nil \in Register
  BY DEF Captures!Nils, Register
<1>2. Captures!Nils(k) \in Seq(Register) /\ Len(Captures!Nils(k)) = k
  BY <1>1
<1> QED
  BY <1>1, <1>2

(* Boxes that are given back are empty in the pool, or gone.                *)
LEMMA Recycling ==
  ASSUME NEW h \in [Arrays -> Seq(Register)], NEW boxes \in Seq(Arrays)
  PROVE  /\ Captures!Recycled(h, boxes) \in [Arrays -> Seq(Register)]
         /\ \A a \in Captures!Pooled(boxes) : \E i \in 1..Len(boxes) : boxes[i] = a
         /\ \A a \in Arrays : (\A i \in 1..Len(boxes) : boxes[i] # a)
                               => Captures!Recycled(h, boxes)[a] = h[a]
         /\ \A a \in Captures!Pooled(boxes) :
              Captures!Recycled(h, boxes)[a] = Captures!Nils(Len(h[a]))
<1> DEFINE handed == Captures!Range(boxes)
           kept == Captures!Pooled(boxes)
           R == Captures!Recycled(h, boxes)
<1>1. DOMAIN boxes = 1..Len(boxes) /\ \A i \in 1..Len(boxes) : boxes[i] \in Arrays
  OBVIOUS
<1>2. \A a : a \in handed <=> \E i \in 1..Len(boxes) : boxes[i] = a
  BY <1>1 DEF Captures!Range
<1>3. \A a \in kept : \E i \in 1..Len(boxes) : boxes[i] = a
  BY <1>1 DEF Captures!Pooled
<1>4. kept \subseteq handed /\ kept \subseteq Arrays
  BY <1>1, <1>2, <1>3
<1>5. R = [a \in Arrays |-> IF a \in kept THEN Captures!Nils(Len(h[a]))
                            ELSE IF a \in handed THEN <<>> ELSE h[a]]
  BY DEF Captures!Recycled
<1> HIDE DEF handed, kept, R
<1>6. ASSUME NEW a \in Arrays PROVE R[a] \in Seq(Register)
  <2>1. h[a] \in Seq(Register) /\ Len(h[a]) \in Nat
    OBVIOUS
  <2>2. Captures!Nils(Len(h[a])) \in Seq(Register)
    BY <2>1, NilsFacts
  <2>3. <<>> \in Seq(Register)
    OBVIOUS
  <2> QED
    BY <1>5, <2>1, <2>2, <2>3
<1>7. R \in [Arrays -> Seq(Register)]
  <2>1. R = [a \in Arrays |-> R[a]]
    BY <1>5
  <2> QED
    BY <1>6, <2>1
<1>8. \A a \in Arrays : (\A i \in 1..Len(boxes) : boxes[i] # a) => R[a] = h[a]
  BY <1>2, <1>4, <1>5
<1>9. \A a \in kept : R[a] = Captures!Nils(Len(h[a]))
  BY <1>4, <1>5
<1> QED
  BY <1>3, <1>7, <1>8, <1>9 DEF kept, R

(* The frames that are left have none of the boxes that were handed back.    *)
LEMMA RecyclingKeeps ==
  ASSUME CaptureInv, NEW h \in [Arrays -> Seq(Register)], NEW boxes \in Seq(Arrays),
         pool' = pool \cup Captures!Pooled(boxes), heap' = Captures!Recycled(h, boxes),
         \A i \in 1..Len(boxes) : boxes[i] \notin pool /\ h[boxes[i]] # <<>>,
         \A a \in pool : h[a] = heap[a],
         \A i \in 1..Len(stack') : /\ stack'[i].arr \notin pool
                                    /\ \A k \in 1..Len(boxes) : boxes[k] # stack'[i].arr,
         \A i, j \in 1..Len(stack') : stack'[i].arr = stack'[j].arr => i = j
  PROVE  /\ heap' \in [Arrays -> Seq(Register)] /\ pool' \subseteq Arrays /\ Boxes'
         /\ \A a \in Arrays : (\A i \in 1..Len(boxes) : boxes[i] # a) => heap'[a] = h[a]
<1> DEFINE kept == Captures!Pooled(boxes)
           R == Captures!Recycled(h, boxes)
<1>1. /\ heap' \in [Arrays -> Seq(Register)]
      /\ \A a \in kept : \E i \in 1..Len(boxes) : boxes[i] = a
      /\ \A a \in Arrays : (\A i \in 1..Len(boxes) : boxes[i] # a) => heap'[a] = h[a]
      /\ \A a \in kept : heap'[a] = Captures!Nils(Len(h[a]))
  <2>1. /\ R \in [Arrays -> Seq(Register)]
        /\ \A a \in kept : \E i \in 1..Len(boxes) : boxes[i] = a
        /\ \A a \in Arrays : (\A i \in 1..Len(boxes) : boxes[i] # a) => R[a] = h[a]
        /\ \A a \in kept : R[a] = Captures!Nils(Len(h[a]))
    BY Recycling
  <2>2. heap' = R
    OBVIOUS
  <2> HIDE DEF R, kept
  <2> QED
    BY <2>1, <2>2
<1>2. pool' = pool \cup kept
  OBVIOUS
<1> HIDE DEF kept
<1>3. \A i \in 1..Len(boxes) : boxes[i] \in Arrays
  OBVIOUS
<1>4. pool \subseteq Arrays /\ \A a \in pool : heap[a] # <<>> /\ heap[a] = Captures!Nils(Len(heap[a]))
  BY DEF CaptureInv, CaptureTypes, Boxes
<1>5. pool' \subseteq Arrays
  <2>1. kept \subseteq Arrays
    BY <1>1, <1>3
  <2> QED
    BY <1>2, <1>4, <2>1
<1>6. ASSUME NEW a \in pool'
      PROVE  heap'[a] # <<>> /\ heap'[a] = Captures!Nils(Len(heap'[a]))
  <2>1. CASE a \in pool
    <3>1. heap'[a] = heap[a]
      BY <1>1, <1>4, <2>1
    <3> QED
      BY <1>4, <2>1, <3>1
  <2>2. CASE a \in kept
    <3>1. PICK i \in 1..Len(boxes) : boxes[i] = a
      BY <1>1, <2>2
    <3>2. h[a] # <<>> /\ h[a] \in Seq(Register)
      BY <1>3, <3>1
    <3>3. Len(h[a]) \in Nat /\ Len(h[a]) > 0
      BY <3>2
    <3>4. /\ Captures!Nils(Len(h[a])) # <<>>
          /\ Len(Captures!Nils(Len(h[a]))) = Len(h[a])
      BY <3>3, NilsFacts
    <3> QED
      BY <1>1, <2>2, <3>4
  <2> QED
    BY <1>2, <2>1, <2>2
<1>7. \A i \in 1..Len(stack') : stack'[i].arr \notin pool'
  BY <1>1, <1>2
<1>8. Boxes'
  BY <1>6, <1>7 DEF Boxes
<1> QED
  BY <1>1, <1>5, <1>8

(* All frames end. *)
LEMMA Emptying ==
  ASSUME CaptureInv, stack' = <<>>, UNCHANGED <<captured, value>>,
         cell' = [c \in Cells |-> cell'[c]],
         \A i \in 1..Len(stack) : \A e \in stack[i].open :
           cell'[e.cell] = [value |-> Captures!Deref(cell[e.cell])],
         \A c \in Cells : (\A i \in 1..Len(stack) : \A e \in stack[i].open : e.cell # c)
                           => cell'[c] = cell[c],
         heap' \in [Arrays -> Seq(Register)], pool' \subseteq Arrays, Boxes'
  PROVE  CaptureInv'
<1>1. Len(stack') = 0 /\ 1..Len(stack') = {} /\ stack' \in Seq(Frames)
  OBVIOUS
<1>2. Len(stack) \in Nat
  BY FrameParts
<1>3. Ends
  BY <1>1, <1>2 DEF Ends
<1>4. /\ Pointers' /\ Locals' /\ CapturedOnce'
      /\ cell' \in [Cells -> OpenCell \cup ClosedCell \cup {Captures!NoValue}]
  BY <1>3, EndingKeeps
<1>5. CaptureTypes'
  BY <1>1, <1>4 DEF CaptureInv, CaptureTypes
<1> QED
  BY <1>1, <1>4, <1>5 DEF CaptureInv

(* All frames end, and some of their locals are set to nil first. *)
LEMMA Unwinding ==
  ASSUME CaptureInv, Captures!Unwind PROVE CaptureInv'
<1> DEFINE boxes == [i \in DOMAIN stack |-> stack[i].arr]
           closed == Captures!CloseCells(Captures!OpenCells, 1)
           inScope == UNION {{<<i, slot>> : slot \in DOMAIN stack[i].locals} : i \in DOMAIN stack}
<1>1. /\ heap' = Captures!Recycled(heap, boxes)
      /\ pool' = pool \cup Captures!Pooled(boxes)
      /\ stack' = <<>> /\ UNCHANGED captured
  BY DEF Captures!Unwind
<1>2. PICK toClose \in SUBSET inScope :
        /\ value' = [v \in DOMAIN value |->
                       IF \E l \in toClose : stack[l[1]].locals[l[2]] = v
                       THEN Nil ELSE value[v]]
        /\ cell' = [c \in Cells |->
                      IF \E l \in toClose : [slot |-> l[2], cell |-> c] \in stack[l[1]].open
                      THEN [value |-> Nil] ELSE closed[c]]
  BY DEF Captures!Unwind
<1>3. /\ stack \in Seq(Frames) /\ heap \in [Arrays -> Seq(Register)]
      /\ value \in Seq(Register) /\ DOMAIN stack = 1..Len(stack)
  BY DEF CaptureInv, CaptureTypes
<1>4. \A i \in 1..Len(stack) : stack[i].arr \in Arrays /\ heap[stack[i].arr] # <<>>
                               /\ DOMAIN stack[i].locals = 1..Len(stack[i].locals)
  BY FrameParts
<1>5. ASSUME NEW l \in toClose
      PROVE  l[1] \in 1..Len(stack) /\ l[2] \in 1..Len(stack[l[1]].locals)
  BY <1>2, <1>3, <1>4
<1> HIDE DEF closed, inScope
<1>6. heap' \in [Arrays -> Seq(Register)] /\ pool' \subseteq Arrays /\ Boxes'
  <2>1. /\ boxes \in Seq(Arrays) /\ Len(boxes) = Len(stack)
        /\ \A i \in 1..Len(stack) : boxes[i] = stack[i].arr
    BY <1>3, <1>4
  <2> HIDE DEF boxes
  <2>2. \A i \in 1..Len(boxes) : boxes[i] \notin pool /\ heap[boxes[i]] # <<>>
    BY <1>4, <2>1 DEF CaptureInv, Boxes
  <2>3. 1..Len(stack') = {}
    BY <1>1
  <2> QED
    BY <1>1, <1>3, <2>1, <2>2, <2>3, RecyclingKeeps
<1> DEFINE Nilled(c) == \E l \in toClose : [slot |-> l[2], cell |-> c] \in stack[l[1]].open
           Set(v) == \E l \in toClose : stack[l[1]].locals[l[2]] = v
<1>7. /\ value' \in Seq(Register) /\ Len(value') = Len(value)
      /\ \A v \in 1..Len(value) : value'[v] = IF Set(v) THEN Nil ELSE value[v]
  <2>1. Nil \in Register
    BY DEF Register
  <2>2. ASSUME NEW v \in 1..Len(value) PROVE value[v] \in Register
    BY <1>3
  <2>3. /\ Len(value) \in Nat
        /\ value' = [v \in 1..Len(value) |-> IF Set(v) THEN Nil ELSE value[v]]
    BY <1>2, <1>3
  <2> HIDE DEF Set
  <2> QED
    BY <2>1, <2>2, <2>3
<1>8. \A c \in Cells : cell'[c] = IF Nilled(c) THEN [value |-> Nil] ELSE closed[c]
  BY <1>2
<1>9. cell' = [c \in Cells |-> cell'[c]]
  BY <1>2
<1> HIDE DEF Nilled, Set
<1>10. [value |-> Nil] \in ClosedCell /\ [value |-> Nil].value = Nil
  BY CellKinds DEF Register, ClosedCell
(* An open cell is closed with what its variable has now. *)
<1>11. ASSUME NEW i \in 1..Len(stack), NEW e \in stack[i].open
       PROVE  /\ cell'[e.cell] \in ClosedCell
              /\ cell'[e.cell].value = value'[stack[i].locals[e.slot]]
  <2> DEFINE v == stack[i].locals[e.slot]
  <2>1. /\ e.cell \in Cells /\ e = [slot |-> e.slot, cell |-> e.cell]
        /\ e.slot \in 1..Len(stack[i].locals)
    BY FrameParts, <1>3 DEF Frames, Entry
  <2>2. v \in 1..Len(value)
    BY <2>1 DEF CaptureInv, Locals
  <2> HIDE DEF v
  <2>3. CASE Nilled(e.cell)
    <3>1. PICK l \in toClose : [slot |-> l[2], cell |-> e.cell] \in stack[l[1]].open
      BY <2>3 DEF Nilled
    <3> DEFINE d == [slot |-> l[2], cell |-> e.cell]
    <3>2. l[1] \in 1..Len(stack) /\ d \in stack[l[1]].open /\ d.cell = e.cell /\ d.slot = l[2]
      BY <1>5, <3>1
    <3> HIDE DEF d
    <3>3. l[1] = i /\ d = e
      BY <3>2, OneEntry
    <3>4. Set(v)
      BY <3>2, <3>3 DEF Set, v
    <3> QED
      BY <1>7, <1>8, <1>10, <2>1, <2>2, <2>3, <3>4 DEF v
  <2>4. CASE ~Nilled(e.cell)
    <3>1. cell'[e.cell] = [value |-> Captures!Deref(cell[e.cell])]
      BY <1>8, <2>1, <2>4, ClosingAll DEF closed
    <3>2. Captures!Deref(cell[e.cell]) = value[v] /\ Captures!Deref(cell[e.cell]) \in Register
      BY Reading DEF v
    <3>3. ~Set(v)
      <4>1. ASSUME NEW l \in toClose, stack[l[1]].locals[l[2]] = v PROVE FALSE
        <5>1. l[1] = i /\ l[2] = e.slot
          BY <1>5, <2>1, <4>1, SMTT(30) DEF CaptureInv, Locals, v
        <5> QED
          BY <2>1, <2>4, <5>1 DEF Nilled
      <4> QED
        BY <4>1 DEF Set
    <3>4. value'[v] = value[v]
      BY <1>7, <2>2, <3>3
    <3> QED
      BY <3>1, <3>2, <3>4, CellKinds DEF v
  <2> QED
    BY <2>3, <2>4
<1>12. ASSUME NEW c \in Cells, \A i \in 1..Len(stack) : \A e \in stack[i].open : e.cell # c
       PROVE  cell'[c] = cell[c]
  <2>1. ~Nilled(c)
    <3>1. ASSUME NEW l \in toClose, [slot |-> l[2], cell |-> c] \in stack[l[1]].open PROVE FALSE
      <4>1. [slot |-> l[2], cell |-> c].cell = c /\ l[1] \in 1..Len(stack)
        BY <1>5
      <4> QED
        BY <1>12, <3>1, <4>1
    <3> QED
      BY <3>1 DEF Nilled
  <2>2. closed[c] = cell[c]
    BY <1>12, ClosingAll DEF closed
  <2> QED
    BY <1>8, <2>1, <2>2
<1>13. Len(stack') = 0 /\ 1..Len(stack') = {} /\ stack' \in Seq(Frames)
  BY <1>1
<1>14. ASSUME NEW c \in Cells
       PROVE  /\ cell'[c] \in OpenCell \cup ClosedCell \cup {Captures!NoValue}
              /\ "arr" \notin DOMAIN cell'[c]
  <2>1. CASE \A i \in 1..Len(stack) : \A e \in stack[i].open : e.cell # c
    <3>1. cell'[c] = cell[c]
      BY <1>12, <2>1
    <3>2. cell[c] \in OpenCell \cup ClosedCell \cup {Captures!NoValue}
      BY DEF CaptureInv, CaptureTypes
    <3>3. "arr" \notin DOMAIN cell[c]
      BY <2>1 DEF CaptureInv, Pointers
    <3> QED
      BY <3>1, <3>2, <3>3
  <2>2. ASSUME NEW i \in 1..Len(stack), NEW e \in stack[i].open, e.cell = c
        PROVE  /\ cell'[c] \in OpenCell \cup ClosedCell \cup {Captures!NoValue}
               /\ "arr" \notin DOMAIN cell'[c]
    <3>1. cell'[c] \in ClosedCell
      BY <1>11, <2>2
    <3> QED
      BY <3>1, CellKinds
  <2> QED
    BY <2>1, <2>2
<1>15. CaptureTypes'
  <2>1. cell' \in [Cells -> OpenCell \cup ClosedCell \cup {Captures!NoValue}]
    BY <1>9, <1>14
  <2>2. captured' \subseteq [var : Nat, cell : Cells]
    BY <1>1 DEF CaptureInv, CaptureTypes
  <2> QED
    BY <1>6, <1>7, <1>13, <2>1, <2>2 DEF CaptureTypes
<1>16. Pointers' /\ Locals' /\ \A i \in 1..Len(stack') : Fits(stack[i])'
  BY <1>13, <1>14 DEF Pointers, Locals
<1>17. CapturedOnce'
  <2>1. ASSUME NEW cap \in captured
        PROVE  /\ cap.var \in 1..Len(value')
               /\ cell'[cap.cell] # Captures!NoValue
               /\ "value" \in DOMAIN cell'[cap.cell] => cell'[cap.cell].value = value'[cap.var]
    <3>1. /\ cap.var \in 1..Len(value) /\ cap.cell \in Cells
          /\ cell[cap.cell] # Captures!NoValue
          /\ "value" \in DOMAIN cell[cap.cell] =>
               /\ cell[cap.cell].value = value[cap.var]
               /\ \A i \in 1..Len(stack) : \A s \in 1..Len(stack[i].locals) :
                    stack[i].locals[s] # cap.var
      BY DEF CaptureInv, CapturedOnce, CaptureTypes
    <3>2. CASE \A i \in 1..Len(stack) : \A e \in stack[i].open : e.cell # cap.cell
      <4>1. cell'[cap.cell] = cell[cap.cell]
        BY <1>12, <3>1, <3>2
      <4>2. ASSUME "value" \in DOMAIN cell[cap.cell] PROVE ~Set(cap.var)
        BY <1>5, <3>1, <4>2 DEF Set
      <4> QED
        BY <1>7, <3>1, <4>1, <4>2
    <3>3. ASSUME NEW i \in 1..Len(stack), NEW e \in stack[i].open, e.cell = cap.cell
          PROVE  /\ cell'[cap.cell] # Captures!NoValue
                 /\ cell'[cap.cell].value = value'[cap.var]
      <4>1. stack[i].locals[e.slot] = cap.var
        BY <3>3 DEF CaptureInv, CapturedOnce
      <4> QED
        BY <1>11, <3>3, <4>1, CellKinds
    <3> QED
      BY <1>7, <3>1, <3>2, <3>3
  <2>2. \A cap, other \in captured : cap.var = other.var <=> cap.cell = other.cell
    BY DEF CaptureInv, CapturedOnce
  <2> QED
    BY <1>1, <1>13, <2>1, <2>2 DEF CapturedOnce
<1> QED
  BY <1>6, <1>15, <1>16, <1>17 DEF CaptureInv

LEMMA DroppingTheTask ==
  ASSUME CaptureInv, Captures!DropTask PROVE CaptureInv'
<1>1. /\ cell' = Captures!CloseCells(Captures!OpenCells, 1)
      /\ heap' = [a \in Arrays |-> <<>>]
      /\ pool' = {} /\ stack' = <<>> /\ UNCHANGED <<captured, value>>
  BY DEF Captures!DropTask
<1>2. heap' \in [Arrays -> Seq(Register)] /\ pool' \subseteq Arrays
  BY <1>1
<1>3. Boxes'
  <2>1. 1..Len(stack') = {}
    BY <1>1
  <2> QED
    BY <1>1, <2>1 DEF Boxes
<1> QED
  BY <1>1, <1>2, <1>3, ClosingAll, Emptying

(* A box that can be acquired is empty and nobody's. *)
LEMMA Acquiring ==
  ASSUME CaptureInv, NEW size \in Sizes, NEW a \in Captures!Acquirable(size)
  PROVE  LET regs == IF a \in pool THEN heap[a] ELSE Captures!Nils(size) IN
         /\ a \in Arrays /\ size \in Nat \ {0}
         /\ \A i \in 1..Len(stack) : stack[i].arr # a
         /\ regs = Captures!Nils(Len(regs)) /\ Len(regs) \in Nat /\ Len(regs) >= size
<1> DEFINE fits == {b \in pool : Len(heap[b]) >= size}
<1>1. /\ heap \in [Arrays -> Seq(Register)] /\ pool \subseteq Arrays
      /\ \A b \in pool : heap[b] # <<>> /\ heap[b] = Captures!Nils(Len(heap[b]))
      /\ \A i \in 1..Len(stack) : stack[i].arr \notin pool
  BY DEF CaptureInv, CaptureTypes, Boxes
<1>2. \A i \in 1..Len(stack) : heap[stack[i].arr] # <<>>
  BY FrameParts
<1>3. size \in Nat \ {0}
  BY VmAssumption DEF Captures!SizesAssumption
<1>4. CASE fits = {}
  <2>1. a \in Arrays /\ heap[a] = <<>>
    BY <1>4 DEF Captures!Acquirable, Captures!Fresh, Captures!Least
  <2>2. a \notin pool
    BY <1>1, <2>1
  <2>3. Len(Captures!Nils(size)) = size
    BY <1>3, NilsFacts
  <2> QED
    BY <1>2, <1>3, <2>1, <2>2, <2>3
<1>5. CASE fits # {}
  <2>1. a \in pool /\ Len(heap[a]) >= size
    BY <1>5 DEF Captures!Acquirable
  <2>2. heap[a] \in Seq(Register) /\ Len(heap[a]) \in Nat
    BY <1>1, <2>1
  <2> QED
    BY <1>1, <1>3, <2>1, <2>2
<1> QED
  BY <1>4, <1>5

(* A frame is pushed on a box of its own, with or without an argument. *)
Calls(a, f, regs) ==
  /\ a \in Arrays /\ f \in Frames /\ regs \in Seq(Register)
  /\ \A i \in 1..Len(stack) : stack[i].arr # a
  /\ f.arr = a /\ f.blocks = <<>> /\ f.open = {}
  /\ Len(f.locals) <= f.size /\ f.size <= Len(regs)
  /\ stack' = Append(stack, f)
  /\ heap' = [heap EXCEPT ![a] = regs]
  /\ pool' = pool \ {a}
  /\ UNCHANGED <<cell, captured>>
  /\ value' \in Seq(Register)
  /\ \/ value' = value /\ Len(f.locals) = 0
     \/ /\ Len(value') = Len(value) + 1 /\ \A w \in 1..Len(value) : value'[w] = value[w]
        /\ Len(f.locals) = 1 /\ f.locals[1] = Len(value') /\ regs[1] = value'[Len(value')]

LEMMA CallsKeep ==
  ASSUME CaptureInv, NEW a, NEW f, NEW regs, Calls(a, f, regs) PROVE CaptureInv'
<1> DEFINE n == Len(stack)
<1>1. /\ a \in Arrays /\ f \in Frames /\ regs \in Seq(Register) /\ f.arr = a
      /\ \A i \in 1..n : stack[i].arr # a
      /\ UNCHANGED <<cell, captured>> /\ value' \in Seq(Register) /\ pool' = pool \ {a}
  BY DEF Calls
<1>2. /\ n \in Nat /\ stack \in Seq(Frames) /\ value \in Seq(Register) /\ Len(value) \in Nat
      /\ heap \in [Arrays -> Seq(Register)] /\ pool \subseteq Arrays
  BY DEF CaptureInv, CaptureTypes
<1>3. /\ stack' \in Seq(Frames) /\ Len(stack') = n + 1 /\ stack'[n + 1] = f
      /\ \A i \in 1..n : stack'[i] = stack[i]
  BY <1>1, <1>2 DEF Calls
<1>4. /\ heap' \in [Arrays -> Seq(Register)] /\ heap'[a] = regs
      /\ \A b \in Arrays : b # a => heap'[b] = heap[b]
  BY <1>1, <1>2 DEF Calls
<1>5. \A i \in 1..n : /\ heap'[stack[i].arr] = heap[stack[i].arr]
                       /\ Len(stack[i].locals) \in Nat
  BY <1>1, <1>4, FrameParts
<1> HIDE DEF n
<1>6. \A i \in 1..n + 1 : i \in 1..n \/ i = n + 1
  BY <1>2 DEF n
<1>7. CaptureTypes'
  BY <1>1, <1>2, <1>3, <1>4 DEF CaptureInv, CaptureTypes
<1>8. Boxes'
  <2>1. /\ \A b \in pool : heap[b] # <<>> /\ heap[b] = Captures!Nils(Len(heap[b]))
        /\ \A i \in 1..n : stack[i].arr \notin pool
        /\ \A i, j \in 1..n : stack[i].arr = stack[j].arr => i = j
    BY DEF CaptureInv, Boxes, n
  <2>2. \A b \in pool' : heap'[b] # <<>> /\ heap'[b] = Captures!Nils(Len(heap'[b]))
    BY <1>1, <1>2, <1>4, <2>1
  <2>3. \A i \in 1..n + 1 : stack'[i].arr \notin pool'
    BY <1>1, <1>3, <1>6, <2>1
  <2>4. \A i, j \in 1..n + 1 : stack'[i].arr = stack'[j].arr => i = j
    BY <1>1, <1>3, <1>6, <2>1
  <2> QED
    BY <1>3, <2>2, <2>3, <2>4 DEF Boxes
<1>9. \A i \in 1..Len(stack') : Fits(stack[i])'
  <2>1. ASSUME NEW i \in 1..n PROVE Fits(stack[i])'
    BY <1>3, <1>5, FitsStill DEF n
  <2>2. ASSUME NEW i \in 1..n + 1, i = n + 1 PROVE Fits(stack[i])'
    <3>1. stack'[i] = f /\ heap'[f.arr] = regs
      BY <1>1, <1>3, <1>4, <2>2
    <3>2. /\ Len(f.locals) <= f.size /\ f.size <= Len(regs)
          /\ 1..Len(f.blocks) = {} /\ f.open = {}
      BY DEF Calls
    <3> QED
      BY <3>1, <3>2 DEF Fits
  <2> QED
    BY <1>3, <1>6, <2>1, <2>2
<1>10. Extends
  <2>1. /\ Len(value) <= Len(value') /\ \A w \in 1..Len(value) : value'[w] = value[w]
    BY <1>2 DEF Calls
  <2>2. n + 1 \notin 1..n /\ f.open = {} /\ n <= n + 1 /\ n + 1 \in Nat
    BY <1>2 DEF n, Calls
  <2>3. ASSUME NEW r \in 1..Len(f.locals)
        PROVE  /\ r = Len(f.locals) /\ Len(value') = Len(value) + 1 /\ f.locals[r] = Len(value')
               /\ heap'[f.arr][r] = value'[Len(value')]
    <3>1. CASE Len(f.locals) = 0
      BY <3>1
    <3>2. CASE /\ Len(value') = Len(value) + 1
               /\ Len(f.locals) = 1 /\ f.locals[1] = Len(value') /\ regs[1] = value'[Len(value')]
      <4>1. r = 1
        BY <3>2
      <4> QED
        BY <1>1, <1>4, <3>2, <4>1
    <3> QED
      BY <3>1, <3>2 DEF Calls
  <2>4. ASSUME NEW j \in 1..n + 1, NEW r \in 1..Len(stack'[j].locals)
        PROVE  \/ /\ j \in 1..n /\ r \in 1..Len(stack[j].locals)
                  /\ stack'[j].locals[r] = stack[j].locals[r]
                  /\ heap'[stack'[j].arr][r] = heap[stack[j].arr][r]
               \/ /\ j = n + 1 /\ r = Len(stack'[j].locals)
                  /\ Len(value') = Len(value) + 1 /\ stack'[j].locals[r] = Len(value')
                  /\ heap'[stack'[j].arr][r] = value'[Len(value')]
    <3>1. CASE j \in 1..n
      BY <1>3, <1>5, <3>1
    <3>2. CASE j = n + 1
      BY <1>3, <2>3, <3>2
    <3> QED
      BY <1>6, <3>1, <3>2
  <2>5. \A j \in 1..n + 1 : j \notin 1..n => stack'[j].open = {}
    BY <1>3, <1>6, <2>2
  <2> QED
    BY <1>1, <1>3, <2>1, <2>2, <2>4, <2>5 DEF Extends, n
<1>11. Pointers' /\ Locals' /\ CapturedOnce'
  BY <1>10, ExtendingKeeps
<1> QED
  BY <1>7, <1>8, <1>9, <1>11 DEF CaptureInv

LEMMA Calling ==
  ASSUME CaptureInv, Captures!Call PROVE CaptureInv'
<1>1. PICK size \in Sizes : \E a \in Captures!Acquirable(size) :
        LET regs == IF a \in pool THEN heap[a] ELSE Captures!Nils(size) IN
        /\ pool' = pool \ {a}
        /\ \/ /\ heap' = [heap EXCEPT ![a] = regs]
              /\ stack' = Append(stack, Captures!Frame(a, size, <<>>))
              /\ UNCHANGED value
           \/ \E x \in Values :
                /\ value' = Append(value, x)
                /\ heap' = [heap EXCEPT ![a] = [regs EXCEPT ![1] = x]]
                /\ stack' = Append(stack, Captures!Frame(a, size, <<Len(value')>>))
  BY DEF Captures!Call
<1>2. PICK a \in Captures!Acquirable(size) :
        LET regs == IF a \in pool THEN heap[a] ELSE Captures!Nils(size) IN
        /\ pool' = pool \ {a}
        /\ \/ /\ heap' = [heap EXCEPT ![a] = regs]
              /\ stack' = Append(stack, Captures!Frame(a, size, <<>>))
              /\ UNCHANGED value
           \/ \E x \in Values :
                /\ value' = Append(value, x)
                /\ heap' = [heap EXCEPT ![a] = [regs EXCEPT ![1] = x]]
                /\ stack' = Append(stack, Captures!Frame(a, size, <<Len(value')>>))
  BY <1>1
<1> DEFINE regs == IF a \in pool THEN heap[a] ELSE Captures!Nils(size)
<1>3. /\ a \in Arrays /\ size \in Nat \ {0}
      /\ \A i \in 1..Len(stack) : stack[i].arr # a
      /\ regs = Captures!Nils(Len(regs)) /\ Len(regs) \in Nat /\ Len(regs) >= size
  BY Acquiring
<1>4. /\ pool' = pool \ {a}
      /\ \/ /\ heap' = [heap EXCEPT ![a] = regs]
            /\ stack' = Append(stack, Captures!Frame(a, size, <<>>))
            /\ UNCHANGED value
         \/ \E x \in Values :
              /\ value' = Append(value, x)
              /\ heap' = [heap EXCEPT ![a] = [regs EXCEPT ![1] = x]]
              /\ stack' = Append(stack, Captures!Frame(a, size, <<Len(value')>>))
  BY <1>2
<1> HIDE DEF regs
<1>5. UNCHANGED <<cell, captured>>
  BY DEF Captures!Call
<1>6. regs \in Seq(Register)
  BY <1>3, NilsFacts
<1>7. value \in Seq(Register) /\ Len(value) \in Nat
  BY DEF CaptureInv, CaptureTypes
<1>8. ASSUME NEW l \in Seq(Nat)
      PROVE  /\ Captures!Frame(a, size, l) \in Frames
             /\ Captures!Frame(a, size, l).arr = a /\ Captures!Frame(a, size, l).size = size
             /\ Captures!Frame(a, size, l).locals = l
             /\ Captures!Frame(a, size, l).blocks = <<>> /\ Captures!Frame(a, size, l).open = {}
  <2>1. <<>> \in Seq(Nat) /\ {} \in SUBSET Entry
    OBVIOUS
  <2> QED
    BY <1>3, <2>1 DEF Captures!Frame, Frames
<1>9. CASE /\ heap' = [heap EXCEPT ![a] = regs]
           /\ stack' = Append(stack, Captures!Frame(a, size, <<>>))
           /\ UNCHANGED value
  <2> DEFINE l == <<>>
             f == Captures!Frame(a, size, l)
  <2>1. l \in Seq(Nat) /\ Len(l) = 0
    OBVIOUS
  <2>2. stack' = Append(stack, f)
    BY <1>9
  <2> HIDE DEF l
  <2>4. /\ f \in Frames /\ f.arr = a /\ f.size = size /\ f.locals = l
        /\ f.blocks = <<>> /\ f.open = {}
    BY <1>8, <2>1
  <2> HIDE DEF f
  <2>3. Calls(a, f, regs)
    BY <1>3, <1>4, <1>5, <1>6, <1>7, <1>9, <2>1, <2>2, <2>4 DEF Calls
  <2> QED
    BY <2>3, CallsKeep
<1>10. CASE \E x \in Values :
              /\ value' = Append(value, x)
              /\ heap' = [heap EXCEPT ![a] = [regs EXCEPT ![1] = x]]
              /\ stack' = Append(stack, Captures!Frame(a, size, <<Len(value')>>))
  <2>1. PICK x \in Values :
          /\ value' = Append(value, x)
          /\ heap' = [heap EXCEPT ![a] = [regs EXCEPT ![1] = x]]
          /\ stack' = Append(stack, Captures!Frame(a, size, <<Len(value')>>))
    BY <1>10
  <2> DEFINE l == <<Len(value')>>
             f == Captures!Frame(a, size, l)
             with == [regs EXCEPT ![1] = x]
  <2>2. /\ value' \in Seq(Register) /\ Len(value') = Len(value) + 1 /\ value'[Len(value')] = x
        /\ \A w \in 1..Len(value) : value'[w] = value[w]
    <3>1. x \in Register
      BY DEF Register
    <3> QED
      BY <1>7, <2>1, <3>1
  <2>3. l \in Seq(Nat) /\ Len(l) = 1 /\ l[1] = Len(value')
    BY <1>7, <2>2
  <2> HIDE DEF l
  <2>4. /\ f \in Frames /\ f.arr = a /\ f.size = size /\ f.locals = l
        /\ f.blocks = <<>> /\ f.open = {}
    BY <1>8, <2>3
  <2>5. with \in Seq(Register) /\ Len(with) = Len(regs) /\ with[1] = x
    <3>1. x \in Register /\ 1 \in 1..Len(regs)
      BY <1>3 DEF Register
    <3> QED
      BY <1>6, <3>1
  <2>6. stack' = Append(stack, f) /\ heap' = [heap EXCEPT ![a] = with]
    BY <2>1 DEF l
  <2> HIDE DEF f, with
  <2>7. Calls(a, f, with)
    <3>1. /\ Len(f.locals) = 1 /\ Len(f.locals) <= f.size /\ f.size <= Len(with)
          /\ f.locals[1] = Len(value') /\ with[1] = value'[Len(value')]
      <4>1. f.size = size /\ f.locals = l
        BY <2>4
      <4>2. Len(l) = 1 /\ 1 <= size /\ size <= Len(with)
        BY <1>3, <2>3, <2>5
      <4>3. l[1] = Len(value') /\ with[1] = value'[Len(value')]
        BY <2>2, <2>3, <2>5
      <4> QED
        BY <4>1, <4>2, <4>3
    <3> QED
      BY <1>3, <1>4, <1>5, <2>2, <2>4, <2>5, <2>6, <3>1 DEF Calls
  <2> QED
    BY <2>7, CallsKeep
<1> QED
  BY <1>4, <1>9, <1>10

(* The last frame ends and gives back its box; the one before it has f's.   *)
Resumes(f, h) ==
  LET n == Len(stack)
      q == n - 1
  IN /\ q >= 1 /\ UNCHANGED <<captured, value>>
     /\ stack' \in Seq(Frames) /\ Len(stack') = q /\ stack'[q] = f
     /\ \A i \in 1..q : i # q => stack'[i] = stack[i]
     /\ f \in Frames /\ f.size = stack[q].size /\ f.locals = stack[q].locals
     /\ f.blocks = stack[q].blocks /\ f.open = stack[q].open
     /\ f.arr \notin pool /\ \A i \in 1..n : i # q => stack[i].arr # f.arr
     /\ h \in [Arrays -> Seq(Register)]
     /\ Len(h[f.arr]) >= Len(heap[stack[q].arr])
     /\ \A s \in 1..Len(f.locals) : h[f.arr][s] = heap[stack[q].arr][s]
     /\ \A a \in Arrays : a # f.arr /\ a # stack[q].arr => h[a] = heap[a]
     /\ pool' = pool \cup Captures!Pooled(<<stack[n].arr>>)
     /\ heap' = Captures!Recycled(h, <<stack[n].arr>>)
     /\ cell' = [c \in Cells |-> cell'[c]]
     /\ \A e \in stack[n].open : cell'[e.cell] = [value |-> Captures!Deref(cell[e.cell])]
     /\ \A i \in 1..q : \A e \in stack[i].open :
          cell'[e.cell] = [arr |-> stack'[i].arr, slot |-> e.slot]
     /\ \A c \in Cells : (\A i \in 1..n : \A e \in stack[i].open : e.cell # c)
                          => cell'[c] = cell[c]

LEMMA Resuming ==
  ASSUME CaptureInv, NEW f, NEW h, Resumes(f, h) PROVE CaptureInv'
<1> DEFINE n == Len(stack)
           q == n - 1
           boxes == <<stack[n].arr>>
<1>1. /\ n \in Nat /\ q >= 1 /\ f \in Frames /\ h \in [Arrays -> Seq(Register)]
      /\ UNCHANGED <<captured, value>>
  BY FrameParts DEF Resumes
<1>2. /\ n \in 1..n /\ q \in 1..n /\ q # n /\ q \in Nat /\ q \in 1..q
      /\ \A i \in 1..q : i \in 1..n /\ i # n
  BY <1>1
<1>3. /\ stack' \in Seq(Frames) /\ Len(stack') = q /\ stack'[q] = f
      /\ \A i \in 1..q : i # q => stack'[i] = stack[i]
      /\ f.size = stack[q].size /\ f.locals = stack[q].locals
      /\ f.blocks = stack[q].blocks /\ f.open = stack[q].open
  BY DEF Resumes
<1>4. /\ f.arr \notin pool /\ \A i \in 1..n : i # q => stack[i].arr # f.arr
      /\ Len(h[f.arr]) >= Len(heap[stack[q].arr])
      /\ \A s \in 1..Len(f.locals) : h[f.arr][s] = heap[stack[q].arr][s]
      /\ \A a \in Arrays : a # f.arr /\ a # stack[q].arr => h[a] = heap[a]
  BY DEF Resumes
<1>5. pool' = pool \cup Captures!Pooled(boxes) /\ heap' = Captures!Recycled(h, boxes)
  BY DEF Resumes
<1>6. \A i \in 1..n : /\ stack[i].arr \in Arrays /\ stack[i].arr \notin pool
                       /\ heap[stack[i].arr] # <<>> /\ Len(stack[i].locals) \in Nat
                       /\ \A j \in 1..n : stack[i].arr = stack[j].arr => i = j
  BY FrameParts DEF CaptureInv, Boxes
<1>7. f.arr \in Arrays
  BY <1>1 DEF Frames
<1>8. boxes \in Seq(Arrays) /\ \A i \in 1..Len(boxes) : boxes[i] = stack[n].arr
  BY <1>2, <1>6
<1> HIDE DEF boxes, n, q
<1>9. \A i \in 1..q : stack'[i].arr = IF i = q THEN f.arr ELSE stack[i].arr
  BY <1>3
<1>10. \A i \in 1..Len(stack') : /\ stack'[i].arr \notin pool
                                  /\ stack'[i].arr # stack[n].arr
  BY <1>2, <1>3, <1>4, <1>6, <1>9
<1>11. ASSUME NEW i \in 1..Len(stack'), NEW j \in 1..Len(stack'), stack'[i].arr = stack'[j].arr
       PROVE  i = j
  <2>1. i \in 1..q /\ j \in 1..q /\ i \in 1..n /\ j \in 1..n
    BY <1>2, <1>3
  <2> QED
    BY <1>4, <1>6, <1>9, <1>11, <2>1
<1>12. \A i \in 1..Len(boxes) : boxes[i] \notin pool /\ h[boxes[i]] # <<>>
  BY <1>2, <1>4, <1>6, <1>8
<1>13. \A a \in pool : h[a] = heap[a]
  <2>1. pool \subseteq Arrays
    BY DEF CaptureInv, CaptureTypes
  <2> QED
    BY <1>2, <1>4, <1>6, <2>1
<1>14. /\ heap' \in [Arrays -> Seq(Register)] /\ pool' \subseteq Arrays /\ Boxes'
       /\ \A a \in Arrays : a # stack[n].arr => heap'[a] = h[a]
  <2>1. \A i \in 1..Len(stack') : /\ stack'[i].arr \notin pool
                                   /\ \A k \in 1..Len(boxes) : boxes[k] # stack'[i].arr
    BY <1>8, <1>10
  <2>2. /\ heap' \in [Arrays -> Seq(Register)] /\ pool' \subseteq Arrays /\ Boxes'
        /\ \A a \in Arrays : (\A i \in 1..Len(boxes) : boxes[i] # a) => heap'[a] = h[a]
    BY <1>1, <1>5, <1>8, <1>11, <1>12, <1>13, <2>1, RecyclingKeeps
  <2> QED
    BY <1>8, <2>2
<1>15. heap'[f.arr] = h[f.arr]
  BY <1>2, <1>4, <1>7, <1>14
<1>16. \A i \in 1..q : i # q => heap'[stack'[i].arr] = heap[stack[i].arr]
  BY <1>2, <1>3, <1>4, <1>6, <1>14, SMTT(30)
<1>17. \A i \in 1..q : stack'[i].locals = stack[i].locals /\ stack'[i].open = stack[i].open
  BY <1>3
<1>18. Ends
  <2>1. ASSUME NEW i \in 1..q
        PROVE  /\ stack'[i].arr \in Arrays
               /\ Len(stack'[i].locals) \in Nat /\ Len(stack'[i].locals) <= Len(stack[i].locals)
               /\ \A s \in 1..Len(stack'[i].locals) :
                    /\ stack'[i].locals[s] = stack[i].locals[s]
                    /\ heap'[stack'[i].arr][s] = heap[stack[i].arr][s]
    <3>1. stack'[i].arr \in Arrays /\ Len(stack[i].locals) \in Nat
      BY <1>2, <1>6, <1>7, <1>9
    <3>2. i = q => \A s \in 1..Len(stack[i].locals) :
                      heap'[stack'[i].arr][s] = heap[stack[i].arr][s]
      BY <1>3, <1>4, <1>9, <1>15
    <3> QED
      BY <1>16, <1>17, <3>1, <3>2
  <2>2. ASSUME NEW i \in 1..q
        PROVE  stack'[i].open = {e \in stack[i].open : e.slot <= Len(stack'[i].locals)}
    <3>1. \A e \in stack[i].open : e.slot <= Len(stack[i].locals)
      BY <1>2, Slots DEF n
    <3> QED
      BY <1>17, <3>1
  <2>3. ASSUME NEW i \in 1..q, NEW e \in stack'[i].open
        PROVE  cell'[e.cell] = [arr |-> stack'[i].arr, slot |-> e.slot]
    <3>1. \A j \in 1..q : \A d \in stack[j].open :
            cell'[d.cell] = [arr |-> stack'[j].arr, slot |-> d.slot]
      BY DEF Resumes, n, q
    <3>2. e \in stack[i].open
      BY <1>17
    <3> QED
      BY <3>1, <3>2
  <2>4. ASSUME NEW i \in 1..n, NEW e \in stack[i].open
        PROVE  \/ i \in 1..q /\ e \in stack'[i].open
               \/ cell'[e.cell] = [value |-> Captures!Deref(cell[e.cell])]
    <3>1. i = n \/ i \in 1..q
      BY <1>1 DEF q
    <3>2. i = n => cell'[e.cell] = [value |-> Captures!Deref(cell[e.cell])]
      BY DEF Resumes, n
    <3> QED
      BY <1>17, <3>1, <3>2
  <2>5. /\ cell' = [c \in Cells |-> cell'[c]]
        /\ \A c \in Cells : (\A i \in 1..n : \A e \in stack[i].open : e.cell # c)
                             => cell'[c] = cell[c]
    BY DEF Resumes, n
  <2>6. q \in Nat /\ q <= n
    BY <1>1, <1>2 DEF q
  <2> QED
    BY <1>1, <1>3, <2>1, <2>2, <2>3, <2>4, <2>5, <2>6 DEF Ends, n
<1>19. /\ Pointers' /\ Locals' /\ CapturedOnce'
       /\ cell' \in [Cells -> OpenCell \cup ClosedCell \cup {Captures!NoValue}]
  BY <1>18, EndingKeeps
<1>20. CaptureTypes'
  BY <1>1, <1>3, <1>14, <1>19 DEF CaptureInv, CaptureTypes
<1>21. \A i \in 1..Len(stack') : Fits(stack[i])'
  <2>1. ASSUME NEW i \in 1..q, i = q PROVE Fits(stack[i])'
    <3>1. Fits(stack[q])
      BY <1>2 DEF CaptureInv, n
    <3>2. stack'[i] = f /\ Len(heap'[f.arr]) >= Len(heap[stack[q].arr])
      BY <1>3, <1>4, <1>15, <2>1
    <3>3. /\ Len(heap'[f.arr]) \in Nat /\ Len(heap[stack[q].arr]) \in Nat
          /\ stack[q].size \in Nat
      <4>1. heap'[f.arr] \in Seq(Register)
        BY <1>7, <1>14
      <4>2. Len(heap[stack[q].arr]) \in Nat /\ stack[q].size \in Nat
        BY <1>2, FrameParts DEF n
      <4> QED
        BY <4>1, <4>2
    <3>4. Len(f.locals) <= f.size /\ f.size <= Len(heap'[f.arr])
      <4>1. Len(stack[q].locals) <= stack[q].size /\ stack[q].size <= Len(heap[stack[q].arr])
        BY <3>1 DEF Fits
      <4>2. f.size = stack[q].size /\ f.locals = stack[q].locals
        BY <1>3
      <4> QED
        BY <3>2, <3>3, <4>1, <4>2
    <3> QED
      BY <1>3, <3>1, <3>2, <3>4 DEF Fits
  <2>2. ASSUME NEW i \in 1..q, i # q PROVE Fits(stack[i])'
    <3>1. i \in 1..n /\ stack'[i] = stack[i] /\ heap'[stack[i].arr] = heap[stack[i].arr]
      BY <1>2, <1>3, <1>16, <2>2
    <3> QED
      BY <3>1, FitsStill DEF n
  <2> QED
    BY <1>3, <2>1, <2>2
<1> QED
  BY <1>14, <1>19, <1>20, <1>21 DEF CaptureInv

LEMMA Larger ==
  ASSUME NEW a \in Int, NEW b \in Int
  PROVE  Captures!Max({a, b}) \in {a, b} /\ Captures!Max({a, b}) >= a /\ Captures!Max({a, b}) >= b
<1>1. \E m \in {a, b} : \A y \in {a, b} : m >= y
  BY a >= b \/ b >= a
<1>2. Captures!Max({a, b}) = CHOOSE m \in {a, b} : \A y \in {a, b} : m >= y
  BY DEF Captures!Max
<1>3. Captures!Max({a, b}) \in {a, b} /\ \A y \in {a, b} : Captures!Max({a, b}) >= y
  BY <1>1, <1>2
<1> QED
  BY <1>3

(* The frame before the last. *)
LEMMA Callers ==
  ASSUME CaptureInv, Len(stack) > 1
  PROVE  LET q == Len(stack) - 1 IN
         /\ q \in 1..Len(stack) /\ Captures!Last(Captures!Pop) = stack[q]
         /\ \A f \in Frames :
              LET left == Append(Captures!Front(Captures!Pop), f) IN
              /\ left \in Seq(Frames) /\ Len(left) = q /\ left[q] = f
              /\ \A i \in 1..q : i # q => left[i] = stack[i]
<1> DEFINE n == Len(stack)
           q == n - 1
           p == SubSeq(stack, 1, q)
           front == SubSeq(p, 1, q - 1)
<1>1. stack \in Seq(Frames) /\ n \in Nat /\ n > 1
  BY DEF CaptureInv, CaptureTypes
<1>2. q \in 0..n /\ q \in 1..n /\ q - 1 \in 0..q /\ q - 1 \in Nat
  BY <1>1
<1>3. p \in Seq(Frames) /\ Len(p) = q /\ \A i \in 1..q : p[i] = stack[i]
  BY <1>1, <1>2, Prefix
<1>4. Captures!Pop = p
  BY DEF Captures!Pop
<1> HIDE DEF n, p
<1>5. front \in Seq(Frames) /\ Len(front) = q - 1 /\ \A i \in 1..q - 1 : front[i] = p[i]
  BY <1>2, <1>3, Prefix
<1>6. Captures!Front(Captures!Pop) = front
  BY <1>3, <1>4 DEF Captures!Front
<1>7. Captures!Last(Captures!Pop) = stack[q]
  <2>1. Captures!Last(p) = p[q] /\ q \in 1..q
    BY <1>2, <1>3 DEF Captures!Last
  <2> QED
    BY <1>3, <1>4, <2>1
<1> HIDE DEF front
<1>8. ASSUME NEW f \in Frames
      PROVE  LET left == Append(front, f) IN
             /\ left \in Seq(Frames) /\ Len(left) = q /\ left[q] = f
             /\ \A i \in 1..q : i # q => left[i] = stack[i]
  <2>1. /\ Append(front, f) \in Seq(Frames) /\ Len(Append(front, f)) = q
        /\ Append(front, f)[q] = f
        /\ \A i \in 1..q - 1 : Append(front, f)[i] = front[i]
    BY <1>2, <1>5
  <2>2. \A i \in 1..q : i # q => i \in 1..q - 1
    BY <1>2
  <2> QED
    BY <1>3, <1>5, <2>1, <2>2
<1> QED
  BY <1>2, <1>6, <1>7, <1>8 DEF n

(* The registers of a caller that is given m results: its locals stay. *)
Resumed(old, first, m, x) ==
  [s \in 1..Captures!Max({first + m, Len(old)}) |->
     IF s > first + m \/ s <= first
     THEN IF s <= Len(old) THEN old[s] ELSE Nil
     ELSE x]

KeepsLocals(regs, old, first) ==
  /\ regs \in Seq(Register) /\ Len(regs) >= Len(old) /\ regs # <<>>
  /\ \A s \in 1..first : regs[s] = old[s]

LEMMA ResumedRegisters ==
  ASSUME NEW old \in Seq(Register), old # <<>>, NEW first \in Nat, first <= Len(old),
         NEW m \in Nat, NEW x \in Values
  PROVE  KeepsLocals(Resumed(old, first, m, x), old, first)
<1> DEFINE len == Captures!Max({first + m, Len(old)})
<1>1. Len(old) \in Nat \ {0}
  OBVIOUS
<1>2. len \in Nat /\ len >= Len(old) /\ len > 0
  <2> DEFINE results == first + m
             room == Len(old)
  <2>1. results \in Int /\ room \in Int
    BY <1>1
  <2> HIDE DEF results, room
  <2>2. /\ Captures!Max({results, room}) \in {results, room}
        /\ Captures!Max({results, room}) >= room
    BY <2>1, Larger
  <2>3. /\ len \in {first + m, Len(old)} /\ len >= Len(old)
    BY <2>2 DEF results, room
  <2> HIDE DEF len
  <2> QED
    BY <1>1, <2>3
<1> HIDE DEF len
<1> DEFINE regs == [s \in 1..len |-> IF s > first + m \/ s <= first
                                     THEN IF s <= Len(old) THEN old[s] ELSE Nil
                                     ELSE x]
<1>3. ASSUME NEW s \in 1..len
      PROVE  (IF s > first + m \/ s <= first
              THEN IF s <= Len(old) THEN old[s] ELSE Nil
              ELSE x) \in Register
  <2>1. s <= Len(old) => old[s] \in Register
    BY <1>2
  <2> QED
    BY <2>1 DEF Register
<1>4. regs \in Seq(Register) /\ Len(regs) = len
  BY <1>2, <1>3
<1>5. \A s \in 1..first : regs[s] = old[s]
  <2>1. \A s \in 1..first : s \in 1..len /\ s <= first /\ s <= Len(old)
    BY <1>1, <1>2
  <2> QED
    BY <2>1
<1> HIDE DEF regs
<1>6. /\ regs \in Seq(Register) /\ Len(regs) >= Len(old) /\ regs # <<>>
      /\ \A s \in 1..first : regs[s] = old[s]
  BY <1>2, <1>4, <1>5
<1>7. Resumed(old, first, m, x) = regs
  BY DEF Resumed, regs, len
<1> QED
  BY <1>6, <1>7 DEF KeepsLocals

(* The entries of a frame follow its box. *)
Follows(opened, closed, q, at) ==
  /\ opened = [c \in Cells |-> opened[c]]
  /\ \A e \in stack[q].open : opened[e.cell] = [arr |-> at, slot |-> e.slot]
  /\ \A c \in Cells : (\A e \in stack[q].open : e.cell # c) => opened[c] = closed[c]

LEMMA Reopening ==
  ASSUME CaptureInv, NEW q \in 1..Len(stack), NEW closed, NEW at
  PROVE  Follows(Captures!Reopened(closed, stack[q].open, at), closed, q, at)
<1> DEFINE open == stack[q].open
           of(c) == \E e \in open : e.cell = c
           entry(c) == CHOOSE e \in open : e.cell = c
           opened == Captures!Reopened(closed, open, at)
<1>1. opened = [c \in Cells |-> IF of(c) THEN [arr |-> at, slot |-> entry(c).slot] ELSE closed[c]]
  BY DEF Captures!Reopened
<1>2. ASSUME NEW e \in open PROVE e.cell \in Cells /\ of(e.cell) /\ entry(e.cell) = e
  <2>1. \A d \in open : d.cell = e.cell => d = e
    BY OneEntry
  <2> QED
    BY <2>1, FrameParts
<1>3. \A c \in Cells : (\A e \in open : e.cell # c) => ~of(c)
  OBVIOUS
<1> HIDE DEF open, of, entry, opened
<1>4. /\ opened = [c \in Cells |-> opened[c]]
      /\ \A e \in open : opened[e.cell] = [arr |-> at, slot |-> e.slot]
      /\ \A c \in Cells : (\A e \in open : e.cell # c) => opened[c] = closed[c]
  BY <1>1, <1>2, <1>3
<1> QED
  BY <1>4 DEF open, opened, Follows

LEMMA Returning ==
  ASSUME CaptureInv, Captures!Return PROVE CaptureInv'
<1> DEFINE n == Len(stack)
           q == n - 1
           boxes == <<stack[n].arr>>
           closed == Captures!CloseCells(Captures!Top.open, 1)
<1>1. Captures!Running /\ UNCHANGED <<captured, value>>
  BY DEF Captures!Return
<1>2. n \in Nat \ {0} /\ n \in 1..n /\ stack[n] = Captures!Top
  BY <1>1, TopFrame
<1>3. pool' = pool \cup Captures!Pooled(boxes)
  BY <1>2 DEF Captures!Return
<1>4. /\ closed = [c \in Cells |-> closed[c]]
      /\ \A i \in 1..n : \A e \in stack[i].open :
           closed[e.cell] = IF i = n THEN [value |-> Captures!Deref(cell[e.cell])] ELSE cell[e.cell]
      /\ \A c \in Cells : (\A i \in 1..n : \A e \in stack[i].open : e.cell # c)
                           => closed[c] = cell[c]
  <2> DEFINE from == 1
  <2> HIDE DEF from
  <2>1. /\ closed = [c \in Cells |-> closed[c]]
        /\ \A i \in 1..Len(stack) : \A e \in stack[i].open :
             closed[e.cell] = IF i = Len(stack) /\ e.slot >= 1
                              THEN [value |-> Captures!Deref(cell[e.cell])] ELSE cell[e.cell]
        /\ \A c \in Cells : (\A i \in 1..Len(stack) : \A e \in stack[i].open : e.cell # c)
                             => closed[c] = cell[c]
    BY <1>1, ClosingTheTop
  <2>2. \A i \in 1..n : \A e \in stack[i].open : e.slot >= 1
    BY Slots
  <2> HIDE DEF closed
  <2> QED
    BY <2>1, <2>2
<1>5. /\ heap \in [Arrays -> Seq(Register)] /\ pool \subseteq Arrays
      /\ \A a \in pool : heap[a] # <<>>
  BY DEF CaptureInv, CaptureTypes, Boxes
<1>6. \A i \in 1..n : /\ stack[i].arr \in Arrays /\ stack[i].arr \notin pool
                       /\ heap[stack[i].arr] # <<>>
                       /\ \A j \in 1..n : stack[i].arr = stack[j].arr => i = j
  BY FrameParts DEF CaptureInv, Boxes
<1>7. CASE /\ n = 1 /\ cell' = closed
           /\ heap' = Captures!Recycled(heap, boxes) /\ stack' = <<>>
  <2>1. boxes \in Seq(Arrays) /\ \A i \in 1..Len(boxes) : boxes[i] = stack[n].arr
    BY <1>2, <1>6
  <2>2. 1..Len(stack') = {}
    BY <1>7
  <2> HIDE DEF boxes, closed
  <2>3. heap' \in [Arrays -> Seq(Register)] /\ pool' \subseteq Arrays /\ Boxes'
    BY <1>2, <1>3, <1>5, <1>6, <1>7, <2>1, <2>2, RecyclingKeeps
  <2>4. \A i \in 1..n : \A e \in stack[i].open :
          cell'[e.cell] = [value |-> Captures!Deref(cell[e.cell])]
    BY <1>4, <1>7
  <2> QED
    BY <1>1, <1>4, <1>7, <2>3, <2>4, Emptying
<1>8. CASE n > 1
  <2> DEFINE caller == Captures!Last(Captures!Pop)
             first == Len(caller.locals)
             old == heap[caller.arr]
             Freed(moves) == IF moves THEN [heap EXCEPT ![caller.arr] = <<>>] ELSE heap
  <2>1. \E m \in 0..MaxResults, x \in Values :
          LET moves == first + m > Len(old) IN
          \E at \in IF moves THEN Captures!Fresh ELSE {caller.arr} :
            /\ heap' = Captures!Recycled([Freed(moves) EXCEPT ![at] = Resumed(old, first, m, x)],
                                         <<Captures!Top.arr>>)
            /\ cell' = IF moves THEN Captures!Reopened(closed, caller.open, at) ELSE closed
            /\ stack' = Append(Captures!Front(Captures!Pop), [caller EXCEPT !.arr = at])
    <3>1. Len(stack) # 1
      BY <1>2, <1>8
    <3> QED
      BY <3>1, Zenon DEF Captures!Return, Resumed
  <2>2. PICK m \in 0..MaxResults, x \in Values :
          LET moves == first + m > Len(old) IN
          \E at \in IF moves THEN Captures!Fresh ELSE {caller.arr} :
            /\ heap' = Captures!Recycled([Freed(moves) EXCEPT ![at] = Resumed(old, first, m, x)],
                                         <<Captures!Top.arr>>)
            /\ cell' = IF moves THEN Captures!Reopened(closed, caller.open, at) ELSE closed
            /\ stack' = Append(Captures!Front(Captures!Pop), [caller EXCEPT !.arr = at])
    BY <2>1
  <2> DEFINE moves == first + m > Len(old)
             regs == Resumed(old, first, m, x)
             freed == Freed(moves)
  <2>3. PICK at \in IF moves THEN Captures!Fresh ELSE {caller.arr} :
            /\ heap' = Captures!Recycled([freed EXCEPT ![at] = regs], <<Captures!Top.arr>>)
            /\ cell' = IF moves THEN Captures!Reopened(closed, caller.open, at) ELSE closed
            /\ stack' = Append(Captures!Front(Captures!Pop), [caller EXCEPT !.arr = at])
    BY <2>2
  <2> HIDE DEF closed, moves, regs
  <2>4. q \in 1..n /\ caller = stack[q] /\ q \in Nat /\ q >= 1 /\ q # n
        /\ \A i \in 1..q : i \in 1..n /\ i # n
    BY <1>2, <1>8, Callers
  <2>5. /\ caller.arr \in Arrays /\ first \in Nat /\ Len(old) \in Nat /\ first <= Len(old)
        /\ old \in Seq(Register) /\ old # <<>> /\ caller \in Frames /\ m \in Nat
    <3> HIDE DEF caller
    <3>1. /\ caller.arr \in Arrays /\ first \in Nat /\ Len(old) \in Nat /\ first <= Len(old)
          /\ caller \in Frames /\ old # <<>>
      BY <2>4, FrameParts
    <3> QED
      BY <1>5, <3>1
  <2>6. /\ regs \in Seq(Register) /\ Len(regs) >= Len(old) /\ regs # <<>>
        /\ \A s \in 1..first : regs[s] = old[s]
    <3> HIDE DEF first, old, caller
    <3>1. x \in Values
      OBVIOUS
    <3>2. KeepsLocals(Resumed(old, first, m, x), old, first)
      BY <2>5, <3>1, ResumedRegisters
    <3> QED
      BY <3>2 DEF regs, KeepsLocals
  <2>7. /\ at \in Arrays /\ at \notin pool
        /\ \A i \in 1..n : i # q => stack[i].arr # at
        /\ ~moves => at = caller.arr
    <3>1. CASE moves
      <4>1. at \in Arrays /\ heap[at] = <<>>
        BY <3>1 DEF Captures!Fresh, Captures!Least
      <4> QED
        BY <1>5, <1>6, <3>1, <4>1
    <3>2. CASE ~moves
      <4>1. at = caller.arr
        BY <3>2
      <4> HIDE DEF caller
      <4> QED
        BY <1>6, <2>4, <2>5, <3>2, <4>1
    <3> QED
      BY <3>1, <3>2
  <2> DEFINE h == [freed EXCEPT ![at] = regs]
             f == [caller EXCEPT !.arr = at]
  <2> HIDE DEF caller
  <2>8. /\ h \in [Arrays -> Seq(Register)] /\ h[at] = regs
        /\ \A a \in Arrays : a # at /\ a # caller.arr => h[a] = heap[a]
    <3>1. freed \in [Arrays -> Seq(Register)]
          /\ \A a \in Arrays : a # caller.arr => freed[a] = heap[a]
      <4>1. <<>> \in Seq(Register)
        OBVIOUS
      <4> QED
        BY <1>5, <2>5, <4>1
    <3> HIDE DEF freed
    <3> QED
      BY <2>6, <2>7, <3>1
  <2>9. /\ f \in Frames /\ f.arr = at /\ f.size = caller.size /\ f.locals = caller.locals
        /\ f.blocks = caller.blocks /\ f.open = caller.open
    BY <2>5, <2>7 DEF Frames
  <2>10. heap' = Captures!Recycled(h, boxes)
    BY <1>2, <2>3
  <2> HIDE DEF h, f
  <2>11. /\ stack' \in Seq(Frames) /\ Len(stack') = q /\ stack'[q] = f
         /\ \A i \in 1..q : i # q => stack'[i] = stack[i]
    <3>1. stack' = Append(Captures!Front(Captures!Pop), f)
      BY <2>3 DEF f
    <3> QED
      BY <1>8, <2>9, <3>1, Callers
  <2> HIDE DEF n, q
  <2>12. /\ cell' = [c \in Cells |-> cell'[c]]
         /\ \A c \in Cells : (\E e \in caller.open : e.cell = c) \/ cell'[c] = closed[c]
         /\ \A e \in caller.open : cell'[e.cell] = [arr |-> at, slot |-> e.slot]
    <3>1. CASE ~moves
      <4>1. cell' = closed /\ at = caller.arr
        BY <2>3, <2>7, <3>1
      <4>2. ASSUME NEW e \in caller.open PROVE closed[e.cell] = [arr |-> caller.arr, slot |-> e.slot]
        <5>1. closed[e.cell] = cell[e.cell]
          BY <1>4, <2>4
        <5>2. cell[e.cell] = [arr |-> caller.arr, slot |-> e.slot]
          BY <2>4, FrameParts DEF n
        <5> QED
          BY <5>1, <5>2
      <4> QED
        BY <1>4, <4>1, <4>2
    <3>2. CASE moves
      <4>1. cell' = Captures!Reopened(closed, stack[q].open, at)
        BY <2>3, <2>4, <3>2
      <4>2. /\ cell' = [c \in Cells |-> cell'[c]]
            /\ \A e \in stack[q].open : cell'[e.cell] = [arr |-> at, slot |-> e.slot]
            /\ \A c \in Cells : (\A e \in stack[q].open : e.cell # c) => cell'[c] = closed[c]
        <5>1. q \in 1..Len(stack)
          BY <2>4 DEF n
        <5>2. Follows(Captures!Reopened(closed, stack[q].open, at), closed, q, at)
          BY <5>1, Reopening
        <5>3. Follows(cell', closed, q, at)
          BY <4>1, <5>2
        <5> QED
          BY <5>3 DEF Follows
      <4> QED
        BY <2>4, <4>2
    <3> QED
      BY <3>1, <3>2
  <2>13. ASSUME NEW i \in 1..n, i # q, NEW e \in stack[i].open PROVE cell'[e.cell] = closed[e.cell]
    <3>1. e.cell \in Cells
      BY FrameParts DEF n
    <3>2. \A d \in caller.open : d.cell # e.cell
      BY <2>4, <2>13, OneEntry DEF n
    <3> QED
      BY <2>12, <3>1, <3>2
  <2>14. \A e \in stack[n].open : cell'[e.cell] = [value |-> Captures!Deref(cell[e.cell])]
    BY <1>2, <1>4, <2>4, <2>13
  <2>15. ASSUME NEW i \in 1..q, NEW e \in stack[i].open
         PROVE  cell'[e.cell] = [arr |-> stack'[i].arr, slot |-> e.slot]
    <3>1. CASE i = q
      BY <2>4, <2>9, <2>11, <2>12, <3>1
    <3>2. CASE i # q
      <4>1. i \in 1..n /\ i # n /\ stack'[i] = stack[i]
        BY <2>4, <2>11, <3>2
      <4>2. cell'[e.cell] = closed[e.cell]
        BY <2>13, <3>2, <4>1
      <4>3. closed[e.cell] = cell[e.cell]
        BY <1>4, <4>1
      <4>4. cell[e.cell] = [arr |-> stack[i].arr, slot |-> e.slot]
        BY <4>1, FrameParts DEF n
      <4> QED
        BY <4>1, <4>2, <4>3, <4>4
    <3> QED
      BY <3>1, <3>2
  <2>16. ASSUME NEW c \in Cells, \A i \in 1..n : \A e \in stack[i].open : e.cell # c
         PROVE  cell'[c] = cell[c]
    BY <1>4, <2>4, <2>12, <2>16
  <2>17. Resumes(f, h)
    <3>1. /\ Len(h[f.arr]) >= Len(heap[stack[q].arr])
          /\ \A s \in 1..Len(f.locals) : h[f.arr][s] = heap[stack[q].arr][s]
          /\ \A a \in Arrays : a # f.arr /\ a # stack[q].arr => h[a] = heap[a]
      BY <2>4, <2>6, <2>8, <2>9
    <3>2. f.arr \notin pool /\ \A i \in 1..n : i # q => stack[i].arr # f.arr
      BY <2>7, <2>9
    <3> QED
      BY <1>1, <1>3, <2>4, <2>8, <2>9, <2>10, <2>11, <2>12, <2>14, <2>15, <2>16, <3>1, <3>2
         DEF Resumes, n, q
  <2> QED
    BY <2>17, Resuming
<1>9. \/ /\ n = 1 /\ cell' = closed
         /\ heap' = Captures!Recycled(heap, boxes) /\ stack' = <<>>
      \/ n > 1
  BY <1>2 DEF Captures!Return
<1> QED
  BY <1>7, <1>8, <1>9

LEMMA CaptureStart == Captures!Init => CaptureInv
<1> SUFFICES ASSUME Captures!Init PROVE CaptureInv
  OBVIOUS
<1>1. PICK size \in Sizes, first \in Captures!Least(Arrays) :
        /\ heap = [a \in Arrays |-> IF a = first THEN Captures!Nils(size) ELSE <<>>]
        /\ pool = {}
        /\ stack = <<Captures!Frame(first, size, <<>>)>>
        /\ cell = [c \in Cells |-> Captures!NoValue]
        /\ captured = {} /\ value = <<>>
  BY DEF Captures!Init
<1> DEFINE f == Captures!Frame(first, size, <<>>)
<1>2. size \in Nat \ {0} /\ first \in Arrays
  BY VmAssumption DEF Captures!SizesAssumption, Captures!Least
<1>3. /\ f \in Frames /\ f.arr = first /\ f.size = size /\ f.locals = <<>>
      /\ f.blocks = <<>> /\ f.open = {}
  <2> DEFINE l == <<>>
  <2>1. l \in Seq(Nat) /\ {} \in SUBSET Entry
    OBVIOUS
  <2>2. Captures!Frame(first, size, l) \in Frames
    BY <1>2, <2>1 DEF Captures!Frame, Frames
  <2> QED
    BY <2>2 DEF Captures!Frame
<1>4. /\ Captures!Nils(size) \in Seq(Register) /\ Len(Captures!Nils(size)) = size
  BY <1>2, NilsFacts
<1>5. /\ heap \in [Arrays -> Seq(Register)] /\ heap[first] = Captures!Nils(size)
  <2>1. <<>> \in Seq(Register)
    OBVIOUS
  <2> QED
    BY <1>1, <1>2, <1>4, <2>1
<1>6. stack = <<f>>
  BY <1>1
<1> HIDE DEF f
<1>7. stack \in Seq(Frames) /\ Len(stack) = 1 /\ \A i \in 1..Len(stack) : i = 1 /\ stack[i] = f
  BY <1>3, <1>6
<1>8. \A i \in 1..Len(stack) : /\ 1..Len(stack[i].locals) = {} /\ stack[i].open = {}
                                /\ stack[i].arr = first
  BY <1>3, <1>7
<1>9. CaptureTypes
  BY <1>1, <1>5, <1>7 DEF CaptureTypes
<1>10. Boxes
  BY <1>1, <1>7 DEF Boxes
<1>11. \A i \in 1..Len(stack) : Fits(stack[i])
  <2>1. /\ Len(f.locals) = 0 /\ 1..Len(f.blocks) = {} /\ f.open = {} /\ f.size = size
        /\ Len(heap[f.arr]) = size
    BY <1>3, <1>4, <1>5
  <2>2. Fits(f)
    BY <1>2, <2>1 DEF Fits
  <2> QED
    BY <1>7, <2>2
<1>12. Pointers
  BY <1>1, <1>8, CellKinds DEF Pointers
<1>13. Locals
  BY <1>8 DEF Locals
<1>14. CapturedOnce
  BY <1>1 DEF CapturedOnce
<1> QED
  BY <1>9, <1>10, <1>11, <1>12, <1>13, <1>14 DEF CaptureInv

LEMMA CaptureSteps == ASSUME CaptureInv, Captures!Next PROVE CaptureInv'
<1>1. ASSUME NEW x \in Values,
             Captures!Declare(x) \/ Captures!SetLocal(x) \/ Captures!SetUpval(x)
      PROVE  CaptureInv'
  <2>1. x \in Register
    BY DEF Register
  <2> QED
    BY <1>1, <2>1, Declaring, SettingALocal, SettingAnUpvalue
<1> QED
  BY <1>1, ClosingAVariable, MakingAClosure, EnteringABlock, LeavingABlock, Calling,
     Returning, Unwinding, DroppingTheTask DEF Captures!Next

LEMMA CaptureStutters ==
  ASSUME CaptureInv, UNCHANGED <<heap, pool, stack, cell, captured, value>> PROVE CaptureInv'
<1>1. heap' = heap /\ pool' = pool /\ stack' = stack /\ cell' = cell
      /\ captured' = captured /\ value' = value
  OBVIOUS
<1>2. CaptureTypes'
  BY <1>1 DEF CaptureInv, CaptureTypes
<1>3. Boxes'
  BY <1>1 DEF CaptureInv, Boxes
<1>4. Pointers'
  BY <1>1 DEF CaptureInv, Pointers
<1>5. \A i \in 1..Len(stack') : Fits(stack[i])'
  BY <1>1 DEF CaptureInv, Fits
<1>6. Locals'
  BY <1>1 DEF CaptureInv, Locals
<1>7. CapturedOnce'
  BY <1>1 DEF CaptureInv, CapturedOnce
<1> QED
  BY <1>2, <1>3, <1>4, <1>5, <1>6, <1>7 DEF CaptureInv

LEMMA CapturesStay == Spec => [](part = "captures" => CaptureInv)
<1> DEFINE I == part = "captures" => CaptureInv
<1>1. Init => I
  BY CaptureStart DEF Init
<1>2. I /\ [Next]_vars => I'
  <2> SUFFICES ASSUME I, [Next]_vars, part' = "captures" PROVE CaptureInv'
    OBVIOUS
  <2>1. CASE part = "captures" /\ Captures!Next
    BY <2>1, CaptureSteps
  <2>2. CASE part # "captures" /\ UNCHANGED part
    BY <2>2
  <2>3. CASE UNCHANGED vars
    <3>1. part = "captures" /\ UNCHANGED <<heap, pool, stack, cell, captured, value>>
      BY <2>3 DEF vars, captureVars
    <3> QED
      BY <3>1, CaptureStutters
  <2> QED
    BY <2>1, <2>2, <2>3 DEF Next
<1> QED
  BY <1>1, <1>2, PTL DEF Spec

(* Whichever way a frame ends (a return, an error's unwinding, the drop of  *)
(* its task), the box it gives back is empty and out of reach of frames and *)
(* of upvalues, until it is acquired (recycle_registers, acquire_registers, *)
(* close_upvalues).                                                         *)
THEOREM PoolStaysClean == Spec => []PoolIsClean
<1>1. (part = "captures" => CaptureInv) => PoolIsClean
  <2> SUFFICES ASSUME CaptureInv PROVE Captures!PoolIsClean
    BY DEF PoolIsClean
  <2>1. stack \in Seq(Frames) /\ DOMAIN stack = 1..Len(stack)
    BY DEF CaptureInv, CaptureTypes
  <2>2. ASSUME NEW c \in Cells, "arr" \in DOMAIN cell[c] PROVE cell[c].arr \notin pool
    <3>1. PICK i \in 1..Len(stack) : \E e \in stack[i].open : e.cell = c
      BY <2>2 DEF CaptureInv, Pointers
    <3>2. PICK e \in stack[i].open : e.cell = c
      BY <3>1
    <3>3. cell[c] = [arr |-> stack[i].arr, slot |-> e.slot]
      BY <3>2, FrameParts
    <3>4. cell[c].arr = stack[i].arr
      BY <3>3
    <3> QED
      BY <3>4 DEF CaptureInv, Boxes
  <2> QED
    BY <2>1, <2>2 DEF CaptureInv, Boxes, Captures!PoolIsClean
<1> QED
  BY <1>1, CapturesStay, PTL

(* A frame, for its locals, and every closure, for what it captured, read   *)
(* the value last given to the variable: when the scope has ended, when     *)
(* registers were moved, and when the box has another owner (UpvalueInner,  *)
(* exec_new_closure, exec_return, ensure_registers).                        *)
THEOREM VariablesShared == Spec => []OneVariable
<1>1. (part = "captures" => CaptureInv) => OneVariable
  <2> SUFFICES ASSUME CaptureInv PROVE Captures!OneVariable
    BY DEF OneVariable
  <2>1. DOMAIN stack = 1..Len(stack)
    BY DEF CaptureInv, CaptureTypes
  <2>2. \A i \in 1..Len(stack) : DOMAIN stack[i].locals = 1..Len(stack[i].locals)
    BY FrameParts
  <2>3. ASSUME NEW cap \in captured PROVE Captures!Deref(cell[cap.cell]) = value[cap.var]
    <3>1. /\ cap.cell \in Cells /\ cell[cap.cell] # Captures!NoValue
          /\ cell[cap.cell] \in OpenCell \cup ClosedCell \cup {Captures!NoValue}
      BY DEF CaptureInv, CaptureTypes, CapturedOnce
    <3>2. CASE cell[cap.cell] \in ClosedCell
      <4>1. "value" \in DOMAIN cell[cap.cell]
        BY <3>2, CellKinds
      <4>2. cell[cap.cell].value = value[cap.var]
        BY <4>1 DEF CaptureInv, CapturedOnce
      <4> QED
        BY <4>1, <4>2 DEF Captures!Deref
    <3>3. CASE cell[cap.cell] \in OpenCell
      <4>1. "arr" \in DOMAIN cell[cap.cell]
        BY <3>3, CellKinds
      <4>2. PICK i \in 1..Len(stack) : \E e \in stack[i].open : e.cell = cap.cell
        BY <3>1, <4>1 DEF CaptureInv, Pointers
      <4>3. PICK e \in stack[i].open : e.cell = cap.cell
        BY <4>2
      <4>4. stack[i].locals[e.slot] = cap.var
        BY <4>3 DEF CaptureInv, CapturedOnce
      <4>5. Captures!Deref(cell[e.cell]) = value[stack[i].locals[e.slot]]
        BY Reading
      <4> QED
        BY <4>3, <4>4, <4>5
    <3> QED
      BY <3>1, <3>2, <3>3
  <2>4. \A i \in 1..Len(stack) : \A s \in 1..Len(stack[i].locals) :
          heap[stack[i].arr][s] = value[stack[i].locals[s]]
    BY DEF CaptureInv, Locals
  <2> QED
    BY <2>1, <2>2, <2>3, <2>4 DEF Captures!OneVariable
<1> QED
  BY <1>1, CapturesStay, PTL

------------------------------- (* Induction over a set *) -------------------
LEMMA Least ==
  ASSUME NEW T, T \subseteq Nat, T # {}
  PROVE  \E n \in T : \A m \in T : n <= m
<1>1. \E n \in T : \A m \in T : ~(<<m, n>> \in OpToRel(<, Nat))
  BY NatLessThanWellFounded, WFMin
<1>2. PICK n \in T : \A m \in T : ~(<<m, n>> \in OpToRel(<, Nat))
  BY <1>1
<1>3. ASSUME NEW m \in T PROVE n <= m
  <2>1. n \in Nat /\ m \in Nat /\ <<m, n>> \in Nat \X Nat
    OBVIOUS
  <2>2. ~(<<m, n>>[1] < <<m, n>>[2])
    BY <1>2, <2>1 DEF OpToRel
  <2> QED
    BY <2>1, <2>2
<1> QED
  BY <1>3

LEMMA Greatest ==
  ASSUME NEW n \in Nat, NEW T, T \subseteq 0..n, T # {}
  PROVE  \E m \in T : \A k \in T : k <= m
<1> DEFINE U == {n - k : k \in T}
<1>1. U \subseteq Nat /\ U # {}
  <2>1. ASSUME NEW k \in T PROVE n - k \in Nat
    OBVIOUS
  <2> QED
    BY <2>1
<1>2. PICK u \in U : \A w \in U : u <= w
  BY <1>1, Least
<1>3. n - u \in T
  OBVIOUS
<1>4. ASSUME NEW k \in T PROVE k <= n - u
  <2>1. u <= n - k
    BY <1>2
  <2> QED
    BY <1>1, <2>1
<1> QED
  BY <1>3, <1>4

LEMMA Induction ==
  ASSUME NEW n \in Nat, NEW T, 0 \in T, \A i \in 0..n - 1 : i \in T => i + 1 \in T
  PROVE  \A i \in 0..n : i \in T
<1> DEFINE U == {i \in 0..n : i \notin T}
<1> SUFFICES ASSUME U # {} PROVE FALSE
  OBVIOUS
<1>0. U \subseteq Nat
  OBVIOUS
<1>1. PICK u \in U : \A w \in U : u <= w
  BY <1>0, Least
<1>2. u # 0 /\ u \in 0..n /\ u \notin T
  OBVIOUS
<1>3. u - 1 \in 0..n - 1 /\ ~(u <= u - 1)
  BY <1>2
<1>4. u - 1 \in T
  BY <1>1, <1>3
<1>5. (u - 1) + 1 \in T
  BY <1>3, <1>4
<1> QED
  BY <1>2, <1>5

(* A recursive function on 0..n exists. *)
AreTurns(g, S, n) == g \in [1..n -> [S -> S]]
Iterates(f, S, a, n, g) == /\ f \in [0..n -> S]
                           /\ f = [i \in 0..n |-> IF i = 0 THEN a ELSE g[i][f[i - 1]]]

LEMMA Iterating ==
  ASSUME NEW S, NEW a \in S, NEW n \in Nat, NEW g, AreTurns(g, S, n)
  PROVE  \E f : Iterates(f, S, a, n, g)
<1> USE DEF AreTurns
<1> DEFINE IsF(f, m) == /\ f \in [0..m -> S] /\ f[0] = a
                        /\ \A i \in 1..m : f[i] = g[i][f[i - 1]]
           T == {m \in 0..n : \E f \in [0..m -> S] : IsF(f, m)}
<1>1. 0 \in T
  <2>1. IsF([i \in 0..0 |-> a], 0)
    OBVIOUS
  <2>2. [i \in 0..0 |-> a] \in [0..0 -> S] /\ 0 \in 0..n
    OBVIOUS
  <2> HIDE DEF IsF
  <2> QED
    BY <2>1, <2>2
<1>2. ASSUME NEW i \in 0..n - 1, i \in T PROVE i + 1 \in T
  <2>1. PICK f \in [0..i -> S] : IsF(f, i)
    BY <1>2
  <2> DEFINE h == [j \in 0..i + 1 |-> IF j = i + 1 THEN g[i + 1][f[i]] ELSE f[j]]
  <2>2. g[i + 1] \in [S -> S] /\ f[i] \in S
    OBVIOUS
  <2>3. h \in [0..i + 1 -> S]
    BY <2>2
  <2>4. IsF(h, i + 1)
    <3>1. h[0] = a
      BY <2>1
    <3>2. ASSUME NEW j \in 1..i + 1 PROVE h[j] = g[j][h[j - 1]]
      <4>1. j - 1 \in 0..i /\ h[j - 1] = f[j - 1]
        OBVIOUS
      <4>2. CASE j = i + 1
        BY <4>1, <4>2
      <4>3. CASE j # i + 1
        BY <2>1, <4>1, <4>3
      <4> QED
        BY <4>2, <4>3
    <3> QED
      BY <2>3, <3>1, <3>2
  <2>5. i + 1 \in 0..n
    OBVIOUS
  <2> HIDE DEF IsF, h
  <2> QED
    BY <2>3, <2>4, <2>5
<1>3. n \in T
  <2> HIDE DEF T
  <2>1. \A i \in 0..n : i \in T
    BY <1>1, <1>2, Induction
  <2> QED
    BY <2>1
<1>4. PICK f \in [0..n -> S] : IsF(f, n)
  BY <1>3
<1>5. f = [i \in 0..n |-> IF i = 0 THEN a ELSE g[i][f[i - 1]]]
  BY <1>4
<1> QED
  BY <1>5 DEF Iterates

------------------------------- (* Tables *) ---------------------------------
Entries == Values \cup {Nil}
Distinct(h) == \A i, j \in DOMAIN h : h[i][1] = h[j][1] => i = j
HashShape(h) == h \in Seq(Table!Keys \X Values) /\ Distinct(h)
ArrayShape(a) == /\ a \in Seq(Entries) /\ Len(a) <= MaxPosition
                 /\ Len(a) = 0 \/ a[Len(a)] # Nil

(* The two parts of a table keep apart, with a gap after the array. *)
Shape(t) == /\ t = [array |-> t.array, hash |-> t.hash]
            /\ ArrayShape(t.array) /\ HashShape(t.hash)
            /\ \A i \in DOMAIN t.hash : t.hash[i][1] \notin 1..Len(t.array) + 1

LEMMA KeysAre ==
  /\ MaxPosition \in Nat \ {0}
  /\ Nil \notin Values /\ Nil \notin Table!Keys
  /\ Table!Keys = 1..MaxPosition \cup Fields
  /\ \A k \in Table!Keys : k \in Int => k \in 1..MaxPosition
BY VmAssumption DEF Table!TableAssumption, Table!Keys

LEMMA Removal ==
  ASSUME NEW S, NEW s \in Seq(S), NEW i \in 1..Len(s)
  PROVE  /\ Table!RemoveAt(s, i) \in Seq(S)
         /\ Len(Table!RemoveAt(s, i)) = Len(s) - 1
         /\ \A j \in 1..Len(s) - 1 :
              Table!RemoveAt(s, i)[j] = IF j < i THEN s[j] ELSE s[j + 1]
<1>1. SubSeq(s, 1, i - 1) \in Seq(S) /\ Len(SubSeq(s, 1, i - 1)) = i - 1
  OBVIOUS
<1>2. SubSeq(s, i + 1, Len(s)) \in Seq(S) /\ Len(SubSeq(s, i + 1, Len(s))) = Len(s) - i
  OBVIOUS
<1> DEFINE l == SubSeq(s, 1, i - 1)
           r == SubSeq(s, i + 1, Len(s))
<1>3. /\ \A j \in 1..i - 1 : l[j] = s[j]
      /\ \A j \in 1..Len(s) - i : r[j] = s[i + j]
  OBVIOUS
<1>4. Table!RemoveAt(s, i) = l \o r
  BY DEF Table!RemoveAt
<1>5. Len(s) \in Nat
  OBVIOUS
<1> HIDE DEF l, r
<1>6. l \in Seq(S) /\ Len(l) = i - 1 /\ r \in Seq(S) /\ Len(r) = Len(s) - i
  BY <1>1, <1>2 DEF l, r
<1>7. l \o r \in Seq(S) /\ Len(l \o r) = Len(s) - 1
  BY <1>5, <1>6
<1>8. ASSUME NEW j \in 1..Len(s) - 1 PROVE (l \o r)[j] = IF j < i THEN s[j] ELSE s[j + 1]
  <2>1. CASE j < i
    <3>1. (l \o r)[j] = l[j]
      BY <1>5, <1>6, <2>1
    <3> QED
      BY <1>3, <1>5, <2>1, <3>1
  <2>2. CASE ~(j < i)
    <3>1. (l \o r)[j] = r[j - (i - 1)]
      BY <1>5, <1>6, <2>2
    <3>2. r[j - (i - 1)] = s[i + (j - (i - 1))] /\ i + (j - (i - 1)) = j + 1
      BY <1>3, <1>5, <2>2
    <3> QED
      BY <2>2, <3>1, <3>2
  <2> QED
    BY <2>1, <2>2
<1> QED
  BY <1>4, <1>7, <1>8

LEMMA Trimming ==
  ASSUME NEW a \in Seq(Entries)
  PROVE  LET b == Table!Trim(a) IN
         /\ b \in Seq(Entries) /\ Len(b) <= Len(a)
         /\ Len(b) = 0 \/ b[Len(b)] # Nil
         /\ \A i \in 1..Len(b) : b[i] = a[i]
         /\ \A i \in Len(b) + 1..Len(a) : a[i] = Nil
<1> DEFINE full == {n \in DOMAIN a : a[n] # Nil}
           m == CHOOSE n \in {0} \cup full : \A k \in full : k <= n
<1>1. \E n \in {0} \cup full : \A k \in {0} \cup full : k <= n
  <2>1. {0} \cup full \subseteq 0..Len(a) /\ {0} \cup full # {}
    OBVIOUS
  <2>2. Len(a) \in Nat
    OBVIOUS
  <2> HIDE DEF full
  <2> QED
    BY <2>1, <2>2, Greatest
<1>2. m \in {0} \cup full /\ \A k \in full : k <= m
  BY <1>1
<1>3. Table!Trim(a) = SubSeq(a, 1, m)
  BY DEF Table!Trim
<1> HIDE DEF m
<1>4. m \in 0..Len(a)
  BY <1>2
<1>5. /\ SubSeq(a, 1, m) \in Seq(Entries) /\ Len(SubSeq(a, 1, m)) = m
      /\ \A i \in 1..m : SubSeq(a, 1, m)[i] = a[i]
  BY <1>4
<1>6. m = 0 \/ a[m] # Nil
  BY <1>2
<1>7. \A i \in m + 1..Len(a) : a[i] = Nil
  BY <1>2, <1>4
<1> QED
  BY <1>3, <1>4, <1>5, <1>6, <1>7

------------------------------- (* The hash part *) --------------------------
LEMMA HashParts ==
  ASSUME NEW h, HashShape(h)
  PROVE  /\ h \in Seq(Table!Keys \X Values) /\ Len(h) \in Nat /\ DOMAIN h = 1..Len(h)
         /\ \A i \in DOMAIN h : /\ h[i] = <<h[i][1], h[i][2]>>
                                /\ h[i][1] \in Table!Keys /\ h[i][2] \in Values
         /\ Table!HashKeys(h) \subseteq Table!Keys
<1>1. h \in Seq(Table!Keys \X Values) /\ Len(h) \in Nat /\ DOMAIN h = 1..Len(h)
  BY DEF HashShape
<1>2. \A i \in DOMAIN h : h[i] \in Table!Keys \X Values
  BY <1>1
<1>3. \A i \in DOMAIN h : /\ h[i] = <<h[i][1], h[i][2]>>
                         /\ h[i][1] \in Table!Keys /\ h[i][2] \in Values
  BY <1>2
<1> QED
  BY <1>1, <1>3 DEF Table!HashKeys

LEMMA Finding ==
  ASSUME NEW h, HashShape(h), NEW i \in DOMAIN h
  PROVE  /\ h[i][1] \in Table!HashKeys(h) /\ Table!HashIndex(h, h[i][1]) = i
         /\ Table!HashGet(h, h[i][1]) = h[i][2]
<1>1. h[i][1] \in Table!HashKeys(h)
  BY DEF Table!HashKeys
<1>2. \A j \in DOMAIN h : h[j][1] = h[i][1] => j = i
  BY DEF HashShape, Distinct
<1>3. Table!HashIndex(h, h[i][1]) = i
  BY <1>2 DEF Table!HashIndex
<1> QED
  BY <1>1, <1>3 DEF Table!HashGet

LEMMA HasIndex ==
  ASSUME NEW h, HashShape(h), NEW k \in Table!HashKeys(h)
  PROVE  /\ Table!HashIndex(h, k) \in DOMAIN h /\ h[Table!HashIndex(h, k)][1] = k
         /\ Table!HashGet(h, k) = h[Table!HashIndex(h, k)][2]
         /\ Table!HashGet(h, k) \in Values
<1>1. PICK i \in DOMAIN h : h[i][1] = k
  BY DEF Table!HashKeys
<1>2. h[i][2] \in Values
  BY HashParts
<1> QED
  BY <1>1, <1>2, Finding

LEMMA NotFinding ==
  ASSUME NEW h, NEW k, k \notin Table!HashKeys(h)
  PROVE  Table!HashGet(h, k) = Nil
BY DEF Table!HashGet

Before(h, j, k) == \E p, q \in DOMAIN h : p < q /\ h[p][1] = j /\ h[q][1] = k

(* A hash that has the entries of h in their order, but for one. *)
LEMMA Removed ==
  ASSUME NEW h, HashShape(h), NEW k \in Table!HashKeys(h)
  PROVE  LET p == Table!HashIndex(h, k)
             g == Table!HashRemove(h, k)
         IN /\ p \in 1..Len(h) /\ h[p][1] = k
            /\ g \in Seq(Table!Keys \X Values) /\ Len(g) = Len(h) - 1
            /\ DOMAIN g = 1..Len(h) - 1
            /\ \A i \in 1..Len(h) - 1 : g[i] = IF i < p THEN h[i] ELSE h[i + 1]
<1> DEFINE p == Table!HashIndex(h, k)
           g == Table!HashRemove(h, k)
<1>1. p \in 1..Len(h) /\ h[p][1] = k /\ h \in Seq(Table!Keys \X Values) /\ Len(h) \in Nat
  BY HashParts, HasIndex
<1>2. g = Table!RemoveAt(h, p)
  BY DEF Table!HashRemove
<1> HIDE DEF p, g
<1>3. /\ g \in Seq(Table!Keys \X Values) /\ Len(g) = Len(h) - 1
      /\ \A i \in 1..Len(h) - 1 : g[i] = IF i < p THEN h[i] ELSE h[i + 1]
  BY <1>1, <1>2, Removal
<1>4. DOMAIN g = 1..Len(h) - 1
  BY <1>3
<1> QED
  BY <1>1, <1>3, <1>4 DEF p, g

LEMMA HashRemoving ==
  ASSUME NEW h, HashShape(h), NEW k
  PROVE  LET g == Table!HashRemove(h, k) IN
         /\ HashShape(g)
         /\ Table!HashKeys(g) = Table!HashKeys(h) \ {k}
         /\ \A j : Table!HashGet(g, j) = IF j = k THEN Nil ELSE Table!HashGet(h, j)
         /\ k \in Table!HashKeys(h) => Len(g) = Len(h) - 1
         /\ \A x, y : x # k /\ y # k => (Before(g, x, y) <=> Before(h, x, y))
<1> DEFINE p == Table!HashIndex(h, k)
           g == Table!HashRemove(h, k)
<1>1. CASE k \notin Table!HashKeys(h)
  <2>1. g = h
    BY <1>1 DEF Table!HashRemove
  <2>2. Table!HashGet(h, k) = Nil
    BY <1>1, NotFinding
  <2> HIDE DEF g
  <2>3. HashShape(g) /\ Table!HashKeys(g) = Table!HashKeys(h) \ {k}
    BY <1>1, <2>1
  <2>4. \A j : Table!HashGet(g, j) = IF j = k THEN Nil ELSE Table!HashGet(h, j)
    BY <2>1, <2>2
  <2>5. \A x, y : x # k /\ y # k => (Before(g, x, y) <=> Before(h, x, y))
    BY <2>1
  <2> QED
    BY <1>1, <2>3, <2>4, <2>5 DEF g
<1>2. CASE k \in Table!HashKeys(h)
  <2>1. /\ p \in 1..Len(h) /\ h[p][1] = k
        /\ g \in Seq(Table!Keys \X Values) /\ Len(g) = Len(h) - 1
        /\ DOMAIN g = 1..Len(h) - 1
        /\ \A i \in 1..Len(h) - 1 : g[i] = IF i < p THEN h[i] ELSE h[i + 1]
    BY <1>2, Removed
  <2> HIDE DEF p, g
  <2>2. Len(h) \in Nat /\ DOMAIN h = 1..Len(h) /\ Distinct(h)
    BY HashParts DEF HashShape
  <2> DEFINE From(i) == IF i < p THEN i ELSE i + 1
             Into(i) == IF i < p THEN i ELSE i - 1
  <2>3. ASSUME NEW i \in DOMAIN g
        PROVE  From(i) \in DOMAIN h /\ From(i) # p /\ g[i] = h[From(i)]
    <3>1. CASE i < p
      BY <2>1, <2>2, <3>1
    <3>2. CASE ~(i < p)
      BY <2>1, <2>2, <3>2
    <3> QED
      BY <3>1, <3>2
  <2>4. ASSUME NEW i \in DOMAIN h, i # p
        PROVE  Into(i) \in DOMAIN g /\ g[Into(i)] = h[i]
    <3>1. CASE i < p
      BY <2>1, <2>2, <3>1
    <3>2. CASE i > p
      <4>1. i - 1 \in 1..Len(h) - 1 /\ ~(i - 1 < p) /\ (i - 1) + 1 = i /\ ~(i < p)
        BY <2>1, <2>2, <3>2
      <4>2. g[i - 1] = h[(i - 1) + 1]
        BY <2>1, <4>1
      <4> QED
        BY <2>1, <4>1, <4>2
    <3> QED
      BY <2>1, <2>2, <2>4, <3>1, <3>2
  <2>5. \A i, j \in DOMAIN g : From(i) = From(j) => i = j
    BY <2>1, <2>2
  <2>6. \A i, j \in DOMAIN g : i < j => From(i) < From(j)
    BY <2>1, <2>2
  <2>7. \A i, j \in DOMAIN h : i # p /\ j # p /\ i < j => Into(i) < Into(j)
    BY <2>1, <2>2
  <2> HIDE DEF From, Into
  <2>8. \A i \in DOMAIN h : h[i][1] = k <=> i = p
    BY <2>1, <2>2 DEF Distinct
  <2>9. HashShape(g)
    <3>1. ASSUME NEW i \in DOMAIN g, NEW j \in DOMAIN g, g[i][1] = g[j][1] PROVE i = j
      BY <2>2, <2>3, <2>5, <3>1 DEF Distinct
    <3> QED
      BY <2>1, <3>1 DEF HashShape, Distinct
  <2>10. Table!HashKeys(g) = Table!HashKeys(h) \ {k}
    <3>1. ASSUME NEW x \in Table!HashKeys(g) PROVE x \in Table!HashKeys(h) \ {k}
      <4>1. PICK i \in DOMAIN g : g[i][1] = x
        BY DEF Table!HashKeys
      <4> QED
        BY <2>3, <2>8, <4>1 DEF Table!HashKeys
    <3>2. ASSUME NEW x \in Table!HashKeys(h) \ {k} PROVE x \in Table!HashKeys(g)
      <4>1. PICK i \in DOMAIN h : h[i][1] = x
        BY DEF Table!HashKeys
      <4> QED
        BY <2>4, <2>8, <4>1 DEF Table!HashKeys
    <3> QED
      BY <3>1, <3>2
  <2>11. ASSUME NEW j PROVE Table!HashGet(g, j) = IF j = k THEN Nil ELSE Table!HashGet(h, j)
    <3>1. CASE j \notin Table!HashKeys(g)
      BY <2>10, <3>1, NotFinding
    <3>2. CASE j \in Table!HashKeys(g)
      <4>1. PICK i \in DOMAIN g : g[i][1] = j
        BY <3>2 DEF Table!HashKeys
      <4>2. Table!HashGet(g, j) = g[i][2]
        BY <2>9, <4>1, Finding
      <4>3. From(i) \in DOMAIN h /\ h[From(i)] = g[i] /\ j # k
        BY <2>3, <2>10, <3>2
      <4>4. Table!HashGet(h, j) = g[i][2]
        BY <4>1, <4>3, Finding
      <4> QED
        BY <4>2, <4>3, <4>4
    <3> QED
      BY <3>1, <3>2
  <2>12. ASSUME NEW x, NEW y, x # k, y # k
         PROVE  Before(g, x, y) <=> Before(h, x, y)
    <3>1. ASSUME Before(g, x, y) PROVE Before(h, x, y)
      <4>1. PICK i, j \in DOMAIN g : i < j /\ g[i][1] = x /\ g[j][1] = y
        BY <3>1 DEF Before
      <4>2. /\ From(i) \in DOMAIN h /\ From(j) \in DOMAIN h /\ From(i) < From(j)
            /\ h[From(i)][1] = x /\ h[From(j)][1] = y
        BY <2>3, <2>6, <4>1
      <4> QED
        BY <4>2 DEF Before
    <3>2. ASSUME Before(h, x, y) PROVE Before(g, x, y)
      <4>1. PICK i, j \in DOMAIN h : i < j /\ h[i][1] = x /\ h[j][1] = y
        BY <3>2 DEF Before
      <4>2. i # p /\ j # p
        BY <2>8, <2>12, <4>1
      <4>3. /\ Into(i) \in DOMAIN g /\ Into(j) \in DOMAIN g /\ Into(i) < Into(j)
            /\ g[Into(i)][1] = x /\ g[Into(j)][1] = y
        BY <2>4, <2>7, <4>1, <4>2
      <4> QED
        BY <4>3 DEF Before
    <3> QED
      BY <3>1, <3>2
  <2> QED
    BY <2>1, <2>9, <2>10, <2>11, <2>12 DEF g
<1> QED
  BY <1>1, <1>2

LEMMA HashPutting ==
  ASSUME NEW h, HashShape(h), NEW k \in Table!Keys, NEW v \in Values
  PROVE  LET g == Table!HashPut(h, k, v) IN
         /\ HashShape(g)
         /\ Table!HashKeys(g) = Table!HashKeys(h) \cup {k}
         /\ \A j : Table!HashGet(g, j) = IF j = k THEN v ELSE Table!HashGet(h, j)
         /\ k \in Table!HashKeys(h) => \A x, y : Before(g, x, y) <=> Before(h, x, y)
<1> DEFINE p == Table!HashIndex(h, k)
           g == Table!HashPut(h, k, v)
<1>0. /\ h \in Seq(Table!Keys \X Values) /\ Len(h) \in Nat /\ DOMAIN h = 1..Len(h)
      /\ Distinct(h)
  BY HashParts DEF HashShape
<1>1. ASSUME NEW f, HashShape(f), Table!HashKeys(f) = Table!HashKeys(h) \cup {k},
             \A i \in DOMAIN f : f[i][1] = k => f[i] = <<k, v>>,
             \A i \in DOMAIN f : f[i][1] # k => \E j \in DOMAIN h : f[i] = h[j]
      PROVE  \A j : Table!HashGet(f, j) = IF j = k THEN v ELSE Table!HashGet(h, j)
  <2> SUFFICES ASSUME NEW j
               PROVE  Table!HashGet(f, j) = IF j = k THEN v ELSE Table!HashGet(h, j)
    OBVIOUS
  <2>1. CASE j \notin Table!HashKeys(f)
    <3>1. j # k /\ j \notin Table!HashKeys(h)
      BY <1>1, <2>1
    <3> QED
      BY <2>1, <3>1, NotFinding
  <2>2. CASE j \in Table!HashKeys(f)
    <3>1. PICK i \in DOMAIN f : f[i][1] = j
      BY <2>2 DEF Table!HashKeys
    <3>2. Table!HashGet(f, j) = f[i][2]
      BY <1>1, <3>1, Finding
    <3>3. CASE j = k
      <4>1. f[i] = <<k, v>>
        BY <1>1, <3>1, <3>3
      <4> QED
        BY <3>2, <3>3, <4>1
    <3>4. CASE j # k
      <4>1. PICK l \in DOMAIN h : f[i] = h[l]
        BY <1>1, <3>1, <3>4
      <4>2. Table!HashGet(h, j) = h[l][2]
        BY <3>1, <4>1, Finding
      <4> QED
        BY <3>2, <3>4, <4>1, <4>2
    <3> QED
      BY <3>3, <3>4
  <2> QED
    BY <2>1, <2>2
<1>2. CASE k \notin Table!HashKeys(h)
  <2>1. g = Append(h, <<k, v>>)
    BY <1>2 DEF Table!HashPut
  <2> HIDE DEF g
  <2> DEFINE n == Len(h) + 1
  <2>2. /\ g \in Seq(Table!Keys \X Values) /\ DOMAIN g = 1..n
        /\ g[n] = <<k, v>> /\ \A i \in 1..Len(h) : g[i] = h[i]
    BY <1>0, <2>1
  <2>3. \A i \in DOMAIN g : i = n \/ (i \in DOMAIN h /\ g[i] = h[i] /\ h[i][1] # k)
    <3>1. \A i \in DOMAIN h : h[i][1] # k
      BY <1>2 DEF Table!HashKeys
    <3>2. ASSUME NEW i \in 1..n PROVE i = n \/ i \in 1..Len(h)
      BY <1>0
    <3>3. ASSUME NEW i \in 1..Len(h) PROVE i \in DOMAIN h /\ g[i] = h[i] /\ h[i][1] # k
      BY <1>0, <2>2, <3>1
    <3> SUFFICES ASSUME NEW i \in DOMAIN g
                 PROVE  i = n \/ (i \in DOMAIN h /\ g[i] = h[i] /\ h[i][1] # k)
      OBVIOUS
    <3>4. i \in 1..n
      BY <2>2
    <3> HIDE DEF n
    <3> QED
      BY <3>2, <3>3, <3>4
  <2>4. HashShape(g)
    BY <1>0, <2>2, <2>3 DEF HashShape, Distinct
  <2>5. Table!HashKeys(g) = Table!HashKeys(h) \cup {k}
    <3>1. Table!HashKeys(g) \subseteq Table!HashKeys(h) \cup {k}
      BY <2>2, <2>3 DEF Table!HashKeys
    <3>2. k \in Table!HashKeys(g)
      <4>1. n \in DOMAIN g /\ g[n][1] = k
        BY <1>0, <2>2
      <4> HIDE DEF n
      <4> QED
        BY <4>1 DEF Table!HashKeys
    <3>3. ASSUME NEW i \in DOMAIN h PROVE h[i][1] \in Table!HashKeys(g)
      <4>1. i \in DOMAIN g /\ g[i][1] = h[i][1]
        BY <1>0, <2>2
      <4> QED
        BY <4>1 DEF Table!HashKeys
    <3> QED
      BY <3>1, <3>2, <3>3 DEF Table!HashKeys
  <2>6. /\ \A i \in DOMAIN g : g[i][1] = k => g[i] = <<k, v>>
        /\ \A i \in DOMAIN g : g[i][1] # k => \E j \in DOMAIN h : g[i] = h[j]
    <3>1. g[n][1] = k
      BY <2>2
    <3> HIDE DEF n
    <3> QED
      BY <2>2, <2>3, <3>1
  <2>7. \A j : Table!HashGet(g, j) = IF j = k THEN v ELSE Table!HashGet(h, j)
    BY <1>1, <2>4, <2>5, <2>6
  <2> QED
    BY <1>2, <2>4, <2>5, <2>7 DEF g
<1>3. CASE k \in Table!HashKeys(h)
  <2>1. g = [h EXCEPT ![p] = <<k, v>>]
    BY <1>3 DEF Table!HashPut
  <2>2. p \in DOMAIN h /\ h[p][1] = k
    BY <1>3, HasIndex
  <2> HIDE DEF g, p
  <2>3. /\ g \in Seq(Table!Keys \X Values) /\ DOMAIN g = DOMAIN h
        /\ g[p] = <<k, v>> /\ \A i \in DOMAIN h : i # p => g[i] = h[i]
    <3>1. <<k, v>> \in Table!Keys \X Values
      OBVIOUS
    <3> QED
      BY <1>0, <2>1, <2>2, <3>1
  <2>4. \A i \in DOMAIN h : g[i][1] = h[i][1]
    BY <2>2, <2>3
  <2>5. HashShape(g)
    BY <1>0, <2>3, <2>4 DEF HashShape, Distinct
  <2>6. Table!HashKeys(g) = Table!HashKeys(h) \cup {k}
    <3>1. Table!HashKeys(g) = Table!HashKeys(h)
      BY <2>3, <2>4 DEF Table!HashKeys
    <3> QED
      BY <1>3, <3>1
  <2>7. /\ \A i \in DOMAIN g : g[i][1] = k => g[i] = <<k, v>>
        /\ \A i \in DOMAIN g : g[i][1] # k => \E j \in DOMAIN h : g[i] = h[j]
    BY <1>0, <2>2, <2>3, <2>4 DEF Distinct
  <2>8. \A j : Table!HashGet(g, j) = IF j = k THEN v ELSE Table!HashGet(h, j)
    BY <1>1, <2>5, <2>6, <2>7
  <2>9. \A x, y : Before(g, x, y) <=> Before(h, x, y)
    BY <2>3, <2>4 DEF Before
  <2> QED
    BY <2>5, <2>6, <2>8, <2>9 DEF g
<1> QED
  BY <1>2, <1>3

------------------------------- (* Entries *) --------------------------------
(* A table whose hash may go on where the array ends. *)
Loose(t) == /\ t = [array |-> t.array, hash |-> t.hash]
            /\ ArrayShape(t.array) /\ HashShape(t.hash)
            /\ \A k \in Table!HashKeys(t.hash) : k \notin 1..Len(t.array)

LEMMA ShapeIsTight ==
  ASSUME NEW t
  PROVE  Shape(t) <=> Loose(t) /\ Len(t.array) + 1 \notin Table!HashKeys(t.hash)
<1>1. Table!HashKeys(t.hash) = {t.hash[i][1] : i \in DOMAIN t.hash}
  BY DEF Table!HashKeys
<1>2. ASSUME ArrayShape(t.array), NEW k
      PROVE  k \in 1..Len(t.array) + 1 <=> k \in 1..Len(t.array) \/ k = Len(t.array) + 1
  <2>1. Len(t.array) \in Nat
    BY <1>2 DEF ArrayShape
  <2> QED
    BY <2>1
<1>3. ASSUME Shape(t) PROVE Loose(t) /\ Len(t.array) + 1 \notin Table!HashKeys(t.hash)
  BY <1>1, <1>2, <1>3 DEF Shape, Loose
<1>4. ASSUME Loose(t), Len(t.array) + 1 \notin Table!HashKeys(t.hash) PROVE Shape(t)
  BY <1>1, <1>2, <1>4 DEF Shape, Loose
<1> QED
  BY <1>3, <1>4

LEMMA ArrayParts ==
  ASSUME NEW a, ArrayShape(a)
  PROVE  /\ a \in Seq(Entries) /\ Len(a) \in 0..MaxPosition /\ DOMAIN a = 1..Len(a)
         /\ DOMAIN a \subseteq Table!Keys
         /\ Len(a) > 0 => a[Len(a)] # Nil
<1>1. a \in Seq(Entries) /\ Len(a) \in Nat /\ DOMAIN a = 1..Len(a)
  BY DEF ArrayShape
<1> QED
  BY <1>1, KeysAre DEF ArrayShape

LEMMA LookingIn ==
  ASSUME NEW t, Loose(t), NEW k
  PROVE  /\ k \in DOMAIN t.array => Table!Entry(t, k) = t.array[k]
         /\ k \notin DOMAIN t.array => Table!Entry(t, k) = Table!HashGet(t.hash, k)
         /\ Table!Entry(t, k) \in Entries
<1>1. k \in DOMAIN t.array => t.array[k] \in Entries
  BY ArrayParts DEF Loose
<1>2. Table!HashGet(t.hash, k) \in Entries
  BY HasIndex, NotFinding DEF Loose, Entries
<1> QED
  BY <1>1, <1>2 DEF Table!Entry

LEMMA AbsorbingOne ==
  ASSUME NEW t, Loose(t)
  PROVE  LET u == Table!AbsorbNext(t) IN
         /\ Loose(u)
         /\ \A j : Table!Entry(u, j) = Table!Entry(t, j)
         /\ Shape(u) \/ Len(u.hash) = Len(t.hash) - 1
<1> DEFINE u == Table!AbsorbNext(t)
           next == Len(t.array) + 1
<1>0. /\ ArrayShape(t.array) /\ HashShape(t.hash) /\ Len(t.array) \in Nat
      /\ DOMAIN t.array = 1..Len(t.array)
  BY ArrayParts DEF Loose
<1>1. CASE next \notin Table!HashKeys(t.hash)
  <2>1. u = t
    BY <1>1 DEF Table!AbsorbNext
  <2>2. Shape(t)
    BY <1>1, ShapeIsTight
  <2> QED
    BY <2>1, <2>2
<1>2. CASE next \in Table!HashKeys(t.hash)
  <2> DEFINE v == Table!HashGet(t.hash, next)
             a == Append(t.array, v)
             h == Table!HashRemove(t.hash, next)
  <2>1. u = [array |-> a, hash |-> h]
    BY <1>2 DEF Table!AbsorbNext
  <2>2. v \in Values /\ v # Nil /\ v \in Entries
    BY <1>0, <1>2, HasIndex, KeysAre DEF Entries
  <2>3. next \in 1..MaxPosition
    BY <1>0, <1>2, HashParts, KeysAre
  <2>4. /\ HashShape(h) /\ Table!HashKeys(h) = Table!HashKeys(t.hash) \ {next}
        /\ \A j : Table!HashGet(h, j) = IF j = next THEN Nil ELSE Table!HashGet(t.hash, j)
        /\ Len(h) = Len(t.hash) - 1
    BY <1>0, <1>2, HashRemoving
  <2> HIDE DEF v, h
  <2>5. /\ a \in Seq(Entries) /\ Len(a) = next /\ DOMAIN a = 1..next /\ a[next] = v
        /\ \A i \in 1..Len(t.array) : a[i] = t.array[i]
    BY <1>0, <2>2 DEF ArrayShape
  <2> HIDE DEF a, u
  <2>6. ArrayShape(a)
    BY <2>2, <2>3, <2>5, KeysAre DEF ArrayShape
  <2>7. \A k \in Table!HashKeys(h) : k \notin 1..Len(a)
    BY <1>0, <2>4, <2>5 DEF Loose
  <2>8. Loose(u)
    BY <2>1, <2>4, <2>6, <2>7 DEF Loose
  <2>9. ASSUME NEW j PROVE Table!Entry(u, j) = Table!Entry(t, j)
    <3>1. CASE j \in DOMAIN t.array
      <4>1. j \in DOMAIN u.array /\ u.array[j] = t.array[j]
        BY <1>0, <2>1, <2>5, <3>1
      <4> QED
        BY <2>8, <3>1, <4>1, LookingIn
    <3>2. CASE j = next
      <4>1. j \in DOMAIN u.array /\ u.array[j] = v /\ j \notin DOMAIN t.array
        BY <1>0, <2>1, <2>5, <3>2
      <4> QED
        BY <2>8, <3>2, <4>1, LookingIn DEF v
    <3>3. CASE j \notin DOMAIN t.array /\ j # next
      <4>1. j \notin DOMAIN u.array /\ u.hash = h
        BY <1>0, <2>1, <2>5, <3>3
      <4> QED
        BY <2>4, <2>8, <3>3, <4>1, LookingIn
    <3> QED
      BY <3>1, <3>2, <3>3
  <2> QED
    BY <2>1, <2>4, <2>8, <2>9 DEF u
<1> QED
  BY <1>1, <1>2

LEMMA Absorbing ==
  ASSUME NEW t, Loose(t)
  PROVE  /\ Shape(Table!Absorb(t))
         /\ \A j : Table!Entry(Table!Absorb(t), j) = Table!Entry(t, j)
<1> DEFINE S == {u \in [array : Seq(Entries), hash : Seq(Table!Keys \X Values)] : Loose(u)}
           n == Len(t.hash)
           g == [i \in 1..n |-> [u \in S |-> Table!AbsorbNext(u)]]
           Turn == CHOOSE f : f = [i \in 0..n |-> IF i = 0 THEN t
                                                  ELSE Table!AbsorbNext(f[i - 1])]
<1>1. \A u : u \in S <=> Loose(u)
  BY DEF Loose, ArrayShape, HashShape
<1>2. \A u \in S : Table!AbsorbNext(u) \in S
  BY <1>1, AbsorbingOne
<1>3. n \in Nat
  BY HashParts DEF Loose
<1> HIDE DEF S, n
<1>4. \E f : f = [i \in 0..n |-> IF i = 0 THEN t ELSE Table!AbsorbNext(f[i - 1])]
  <2>1. AreTurns(g, S, n) /\ t \in S
    BY <1>1, <1>2 DEF AreTurns
  <2>2. PICK f : Iterates(f, S, t, n, g)
    <3> HIDE DEF g
    <3> QED
      BY <1>3, <2>1, Iterating
  <2>3. ASSUME NEW i \in 0..n, i # 0 PROVE g[i][f[i - 1]] = Table!AbsorbNext(f[i - 1])
    <3>1. i \in 1..n /\ i - 1 \in 0..n
      BY <1>3, <2>3
    <3>2. f[i - 1] \in S
      BY <2>2, <3>1 DEF Iterates
    <3> QED
      BY <3>1, <3>2
  <2> HIDE DEF g
  <2>4. f = [i \in 0..n |-> IF i = 0 THEN t ELSE Table!AbsorbNext(f[i - 1])]
    BY <2>2, <2>3 DEF Iterates
  <2> QED
    BY <2>4
<1>5. Turn = [i \in 0..n |-> IF i = 0 THEN t ELSE Table!AbsorbNext(Turn[i - 1])]
  BY <1>4
<1>6. Table!Absorb(t) = Turn[n]
  BY DEF Table!Absorb, n
<1> HIDE DEF Turn
<1> DEFINE T == {i \in 0..n : /\ Loose(Turn[i])
                              /\ \A j : Table!Entry(Turn[i], j) = Table!Entry(t, j)
                              /\ Shape(Turn[i]) \/ Len(Turn[i].hash) = n - i}
<1>7. 0 \in T
  <2>1. Turn[0] = t /\ 0 \in 0..n /\ n - 0 = n
    BY <1>3, <1>5
  <2> QED
    BY <2>1 DEF n
<1>8. ASSUME NEW i \in 0..n - 1, i \in T PROVE i + 1 \in T
  <2>1. Turn[i + 1] = Table!AbsorbNext(Turn[i]) /\ i + 1 \in 0..n
    <3>1. i + 1 \in 0..n /\ i + 1 # 0 /\ (i + 1) - 1 = i
      BY <1>3
    <3> QED
      BY <1>5, <3>1
  <2>2. /\ Loose(Turn[i]) /\ \A j : Table!Entry(Turn[i], j) = Table!Entry(t, j)
        /\ Shape(Turn[i]) \/ Len(Turn[i].hash) = n - i
    BY <1>8
  <2>3. /\ Loose(Turn[i + 1])
        /\ \A j : Table!Entry(Turn[i + 1], j) = Table!Entry(t, j)
        /\ Shape(Turn[i + 1]) \/ Len(Turn[i + 1].hash) = Len(Turn[i].hash) - 1
    BY <2>1, <2>2, AbsorbingOne
  <2>4. Shape(Turn[i]) => Turn[i + 1] = Turn[i]
    BY <2>1, ShapeIsTight DEF Table!AbsorbNext
  <2>5. Shape(Turn[i + 1]) \/ Len(Turn[i + 1].hash) = n - (i + 1)
    BY <1>3, <2>2, <2>3, <2>4
  <2> QED
    BY <2>1, <2>3, <2>5
<1>9. n \in T
  <2> HIDE DEF T
  <2>1. \A i \in 0..n : i \in T
    BY <1>3, <1>7, <1>8, Induction
  <2> QED
    BY <1>3, <2>1
<1>10. ASSUME Loose(Turn[n]), Len(Turn[n].hash) = 0 PROVE Shape(Turn[n])
  <2>1. DOMAIN Turn[n].hash = {}
    BY <1>10, HashParts DEF Loose
  <2> QED
    BY <1>10, <2>1 DEF Shape, Loose
<1>11. n - n = 0
  BY <1>3
<1> QED
  BY <1>6, <1>9, <1>10, <1>11

LEMMA ShapeParts ==
  ASSUME NEW t, Shape(t)
  PROVE  /\ t = [array |-> t.array, hash |-> t.hash] /\ Loose(t)
         /\ ArrayShape(t.array) /\ HashShape(t.hash)
         /\ Len(t.array) \in Nat /\ DOMAIN t.array = 1..Len(t.array)
         /\ \A k \in Table!HashKeys(t.hash) : k \notin 1..Len(t.array) + 1
BY ArrayParts, ShapeIsTight DEF Shape, Table!HashKeys

LEMMA MakesShape ==
  ASSUME NEW a, NEW h, ArrayShape(a), HashShape(h),
         \A k \in Table!HashKeys(h) : k \notin 1..Len(a) + 1
  PROVE  Shape([array |-> a, hash |-> h])
BY DEF Shape, Table!HashKeys

(* A table that has got v for k. *)
IsSet(u, t, k, v) == /\ Shape(u)
                     /\ \A j : Table!Entry(u, j) = IF j = k THEN v ELSE Table!Entry(t, j)

LEMMA SettingInArray ==
  ASSUME NEW t, Shape(t), NEW k \in DOMAIN t.array, NEW v \in Values
  PROVE  IsSet([t EXCEPT !.array = [@ EXCEPT ![k] = v]], t, k, v)
<1> DEFINE a == [t.array EXCEPT ![k] = v]
           u == [array |-> a, hash |-> t.hash]
<1>1. [t EXCEPT !.array = [@ EXCEPT ![k] = v]] = u
  BY ShapeParts
<1>2. ArrayShape(t.array) /\ HashShape(t.hash) /\ Len(t.array) \in Nat /\ k \in 1..Len(t.array)
      /\ t.array \in Seq(Entries) /\ DOMAIN t.array = 1..Len(t.array)
  BY ShapeParts, ArrayParts
<1>3. v \in Entries /\ v # Nil
  BY KeysAre DEF Entries
<1>4. /\ a \in Seq(Entries) /\ Len(a) = Len(t.array) /\ DOMAIN a = DOMAIN t.array
      /\ a[k] = v /\ \A i \in DOMAIN t.array : i # k => a[i] = t.array[i]
  BY <1>2, <1>3
<1> HIDE DEF a
<1>5. ArrayShape(a)
  BY <1>2, <1>3, <1>4 DEF ArrayShape
<1>6. Shape(u)
  BY <1>2, <1>4, <1>5, MakesShape, ShapeParts
<1>7. ASSUME NEW j PROVE Table!Entry(u, j) = IF j = k THEN v ELSE Table!Entry(t, j)
  BY <1>2, <1>4 DEF Table!Entry
<1> QED
  BY <1>1, <1>6, <1>7 DEF IsSet

LEMMA ErasingInArray ==
  ASSUME NEW t, Shape(t), NEW k \in DOMAIN t.array
  PROVE  IsSet([t EXCEPT !.array = Table!Trim([@ EXCEPT ![k] = Nil])], t, k, Nil)
<1> DEFINE b == [t.array EXCEPT ![k] = Nil]
           a == Table!Trim(b)
           u == [array |-> a, hash |-> t.hash]
<1>1. [t EXCEPT !.array = Table!Trim([@ EXCEPT ![k] = Nil])] = u
  BY ShapeParts
<1>2. /\ ArrayShape(t.array) /\ HashShape(t.hash) /\ k \in 1..Len(t.array)
      /\ t.array \in Seq(Entries) /\ DOMAIN t.array = 1..Len(t.array)
      /\ Len(t.array) \in 0..MaxPosition
      /\ \A j \in Table!HashKeys(t.hash) : j \notin 1..Len(t.array) + 1
  BY ShapeParts, ArrayParts
<1>3. Nil \in Entries
  BY DEF Entries
<1>4. /\ b \in Seq(Entries) /\ Len(b) = Len(t.array)
      /\ b[k] = Nil /\ \A i \in DOMAIN t.array : i # k => b[i] = t.array[i]
  BY <1>2, <1>3
<1> HIDE DEF b
<1>5. /\ a \in Seq(Entries) /\ Len(a) <= Len(b)
      /\ Len(a) = 0 \/ a[Len(a)] # Nil
      /\ \A i \in 1..Len(a) : a[i] = b[i]
      /\ \A i \in Len(a) + 1..Len(b) : b[i] = Nil
  BY <1>4, Trimming
<1> HIDE DEF a
<1>6. ArrayShape(a) /\ Len(a) \in Nat /\ DOMAIN a = 1..Len(a) /\ Len(a) <= Len(t.array)
  BY <1>2, <1>4, <1>5, KeysAre DEF ArrayShape
<1>7. Shape(u)
  <2>1. \A j \in Table!HashKeys(t.hash) : j \notin 1..Len(a) + 1
    BY <1>2, <1>6
  <2> QED
    BY <1>2, <1>6, <2>1, MakesShape
<1>8. ASSUME NEW j PROVE Table!Entry(u, j) = IF j = k THEN Nil ELSE Table!Entry(t, j)
  <2>1. CASE j \in DOMAIN a
    <3>1. j \in DOMAIN t.array /\ a[j] = b[j]
      BY <1>2, <1>5, <1>6, <2>1
    <3> QED
      BY <1>4, <2>1, <3>1 DEF Table!Entry
  <2>2. CASE j \in DOMAIN t.array /\ j \notin DOMAIN a
    <3>1. b[j] = Nil
      BY <1>2, <1>4, <1>5, <1>6, <2>2
    <3>2. Table!HashGet(t.hash, j) = Nil
      <4>1. j \notin Table!HashKeys(t.hash)
        BY <1>2, <2>2
      <4> QED
        BY <4>1, NotFinding
    <3> QED
      BY <1>4, <2>2, <3>1, <3>2 DEF Table!Entry
  <2>3. CASE j \notin DOMAIN t.array /\ j \notin DOMAIN a
    BY <2>3 DEF Table!Entry
  <2>4. DOMAIN a \subseteq DOMAIN t.array
    BY <1>2, <1>6
  <2> QED
    BY <2>1, <2>2, <2>3, <2>4
<1> QED
  BY <1>1, <1>7, <1>8 DEF IsSet

LEMMA ErasingInHash ==
  ASSUME NEW t, Shape(t), NEW k, k \notin DOMAIN t.array
  PROVE  IsSet([t EXCEPT !.hash = Table!HashRemove(@, k)], t, k, Nil)
<1> DEFINE h == Table!HashRemove(t.hash, k)
           u == [array |-> t.array, hash |-> h]
<1>1. [t EXCEPT !.hash = Table!HashRemove(@, k)] = u
  BY ShapeParts
<1>2. /\ ArrayShape(t.array) /\ HashShape(t.hash)
      /\ \A j \in Table!HashKeys(t.hash) : j \notin 1..Len(t.array) + 1
  BY ShapeParts
<1>3. /\ HashShape(h) /\ Table!HashKeys(h) = Table!HashKeys(t.hash) \ {k}
      /\ \A j : Table!HashGet(h, j) = IF j = k THEN Nil ELSE Table!HashGet(t.hash, j)
  BY <1>2, HashRemoving
<1> HIDE DEF h
<1>4. Shape(u)
  BY <1>2, <1>3, MakesShape
<1>5. ASSUME NEW j PROVE Table!Entry(u, j) = IF j = k THEN Nil ELSE Table!Entry(t, j)
  BY <1>3 DEF Table!Entry
<1> QED
  BY <1>1, <1>4, <1>5 DEF IsSet

LEMMA SettingInHash ==
  ASSUME NEW t, Shape(t), NEW k \in Table!Keys, NEW v \in Values,
         k \notin DOMAIN t.array, k # Len(t.array) + 1
  PROVE  IsSet([t EXCEPT !.hash = Table!HashPut(@, k, v)], t, k, v)
<1> DEFINE h == Table!HashPut(t.hash, k, v)
           u == [array |-> t.array, hash |-> h]
<1>1. [t EXCEPT !.hash = Table!HashPut(@, k, v)] = u
  BY ShapeParts
<1>2. /\ ArrayShape(t.array) /\ HashShape(t.hash) /\ Len(t.array) \in Nat
      /\ \A j \in Table!HashKeys(t.hash) : j \notin 1..Len(t.array) + 1
      /\ DOMAIN t.array = 1..Len(t.array)
  BY ShapeParts
<1>3. /\ HashShape(h) /\ Table!HashKeys(h) = Table!HashKeys(t.hash) \cup {k}
      /\ \A j : Table!HashGet(h, j) = IF j = k THEN v ELSE Table!HashGet(t.hash, j)
  BY <1>2, HashPutting
<1> HIDE DEF h
<1>4. k \notin 1..Len(t.array) + 1
  BY <1>2
<1>5. Shape(u)
  BY <1>2, <1>3, <1>4, MakesShape
<1>6. ASSUME NEW j PROVE Table!Entry(u, j) = IF j = k THEN v ELSE Table!Entry(t, j)
  BY <1>3 DEF Table!Entry
<1> QED
  BY <1>1, <1>5, <1>6 DEF IsSet

LEMMA SettingAtTheEnd ==
  ASSUME NEW t, Shape(t), NEW k \in Table!Keys, NEW v \in Values, k = Len(t.array) + 1
  PROVE  IsSet(Table!Absorb([t EXCEPT !.array = Append(@, v)]), t, k, v)
<1> DEFINE a == Append(t.array, v)
           u == [array |-> a, hash |-> t.hash]
<1>1. [t EXCEPT !.array = Append(@, v)] = u
  BY ShapeParts
<1>2. /\ ArrayShape(t.array) /\ HashShape(t.hash) /\ Len(t.array) \in Nat
      /\ \A j \in Table!HashKeys(t.hash) : j \notin 1..Len(t.array) + 1
      /\ t.array \in Seq(Entries) /\ DOMAIN t.array = 1..Len(t.array)
  BY ShapeParts, ArrayParts
<1>3. v \in Entries /\ v # Nil /\ k \in 1..MaxPosition
  BY <1>2, KeysAre DEF Entries
<1>4. /\ a \in Seq(Entries) /\ Len(a) = k /\ DOMAIN a = 1..k
      /\ a[k] = v /\ \A i \in DOMAIN t.array : a[i] = t.array[i]
  BY <1>2, <1>3
<1> HIDE DEF a
<1>5. ArrayShape(a)
  BY <1>3, <1>4, KeysAre DEF ArrayShape
<1>6. Loose(u)
  BY <1>2, <1>4, <1>5 DEF Loose
<1>7. /\ Shape(Table!Absorb(u))
      /\ \A j : Table!Entry(Table!Absorb(u), j) = Table!Entry(u, j)
  BY <1>6, Absorbing
<1>8. ASSUME NEW j PROVE Table!Entry(u, j) = IF j = k THEN v ELSE Table!Entry(t, j)
  <2>1. j \in DOMAIN a <=> j \in DOMAIN t.array \/ j = k
    BY <1>2, <1>4
  <2>2. k \notin DOMAIN t.array
    BY <1>2
  <2> QED
    BY <1>4, <2>1, <2>2 DEF Table!Entry
<1> QED
  BY <1>1, <1>7, <1>8 DEF IsSet

LEMMA RawSetting ==
  ASSUME NEW t, Shape(t), NEW k \in Table!Keys, NEW v \in Entries
  PROVE  IsSet(Table!RawSet(t, k, v), t, k, v)
<1>1. CASE k \in DOMAIN t.array /\ v = Nil
  <2>1. Table!RawSet(t, k, v) = [t EXCEPT !.array = Table!Trim([@ EXCEPT ![k] = Nil])]
    BY <1>1 DEF Table!RawSet
  <2> QED
    BY <1>1, <2>1, ErasingInArray
<1>2. CASE k \in DOMAIN t.array /\ v # Nil
  <2>1. Table!RawSet(t, k, v) = [t EXCEPT !.array = [@ EXCEPT ![k] = v]]
    BY <1>2 DEF Table!RawSet
  <2> QED
    BY <1>2, <2>1, SettingInArray DEF Entries
<1>3. CASE k \notin DOMAIN t.array /\ v = Nil
  <2>1. Table!RawSet(t, k, v) = [t EXCEPT !.hash = Table!HashRemove(@, k)]
    BY <1>3 DEF Table!RawSet
  <2> QED
    BY <1>3, <2>1, ErasingInHash
<1>4. CASE k \notin DOMAIN t.array /\ k = Len(t.array) + 1 /\ v # Nil
  <2>1. Table!RawSet(t, k, v) = Table!Absorb([t EXCEPT !.array = Append(@, v)])
    BY <1>4 DEF Table!RawSet
  <2> QED
    BY <1>4, <2>1, SettingAtTheEnd DEF Entries
<1>5. CASE k \notin DOMAIN t.array /\ k # Len(t.array) + 1 /\ v # Nil
  <2>1. Table!RawSet(t, k, v) = [t EXCEPT !.hash = Table!HashPut(@, k, v)]
    BY <1>5 DEF Table!RawSet
  <2> QED
    BY <1>5, <2>1, SettingInHash DEF Entries
<1> QED
  BY <1>1, <1>2, <1>3, <1>4, <1>5

------------------------------- (* Moving entries *) -------------------------
ShapeSet == {t \in [array : Seq(Entries), hash : Seq(Table!Keys \X Values)] : Shape(t)}

LEMMA ShapesAre == \A t : t \in ShapeSet <=> Shape(t)
BY DEF ShapeSet, Shape, ArrayShape, HashShape

LEMMA EntriesAre ==
  ASSUME NEW t, Shape(t), NEW k
  PROVE  Table!Entry(t, k) \in Entries
BY ShapeParts, LookingIn

IsMovedUp(u, t, pos, v) ==
  /\ Shape(u)
  /\ \A j : Table!Entry(u, j) =
               IF j = pos THEN v
               ELSE IF j \in pos + 1..Len(t.array) + 1 THEN Table!Entry(t, j - 1)
               ELSE Table!Entry(t, j)

LEMMA Inserting ==
  ASSUME NEW t, Shape(t), NEW pos \in 1..MaxPosition, NEW v \in Entries,
         NEW n \in Nat, n = Len(t.array), n < MaxPosition, pos <= n + 1
  PROVE  LET Shift[i \in 0..n] == IF i = 0 THEN t ELSE Table!MoveUp(Shift[i - 1], n + 1 - i)
         IN IsMovedUp(Table!RawSet(Shift[n + 1 - pos], pos, v), t, pos, v)
<1> DEFINE Shift == CHOOSE f : f = [i \in 0..n |-> IF i = 0 THEN t
                                                   ELSE Table!MoveUp(f[i - 1], n + 1 - i)]
           g == [i \in 1..n |-> [u \in ShapeSet |-> Table!MoveUp(u, n + 1 - i)]]
<1>1. n \in Nat /\ n < MaxPosition /\ MaxPosition \in Nat
  BY ShapeParts, KeysAre
<1>2. \A i \in 1..n : i + 1 \in Table!Keys
  BY <1>1, KeysAre
<1>3. ASSUME NEW i \in 1..n, NEW u \in ShapeSet
      PROVE  /\ IsSet(Table!MoveUp(u, i), u, i + 1, Table!Entry(u, i))
             /\ Table!MoveUp(u, i) \in ShapeSet
  <2>1. Shape(u) /\ Table!Entry(u, i) \in Entries
    BY ShapesAre, EntriesAre
  <2>2. IsSet(Table!MoveUp(u, i), u, i + 1, Table!Entry(u, i))
    BY <1>2, <2>1, RawSetting DEF Table!MoveUp
  <2> QED
    BY <2>2, ShapesAre DEF IsSet
<1>4. \A i \in 1..n : n + 1 - i \in 1..n
  BY <1>1
<1>5. \E f : f = [i \in 0..n |-> IF i = 0 THEN t ELSE Table!MoveUp(f[i - 1], n + 1 - i)]
  <2>1. AreTurns(g, ShapeSet, n) /\ t \in ShapeSet
    BY <1>3, <1>4, ShapesAre DEF AreTurns
  <2>2. PICK f : Iterates(f, ShapeSet, t, n, g)
    <3> HIDE DEF g
    <3>1. n \in Nat
      BY <1>1
    <3> QED
      BY <2>1, <3>1, Iterating
  <2>3. ASSUME NEW i \in 0..n, i # 0
        PROVE  g[i][f[i - 1]] = Table!MoveUp(f[i - 1], n + 1 - i)
    <3>1. i \in 1..n /\ i - 1 \in 0..n
      BY <1>1, <2>3
    <3>2. f[i - 1] \in ShapeSet
      BY <2>2, <3>1 DEF Iterates
    <3> QED
      BY <3>1, <3>2
  <2> HIDE DEF g
  <2>4. f = [i \in 0..n |-> IF i = 0 THEN t ELSE Table!MoveUp(f[i - 1], n + 1 - i)]
    BY <2>2, <2>3 DEF Iterates
  <2> QED
    BY <2>4
<1>6. Shift = [i \in 0..n |-> IF i = 0 THEN t ELSE Table!MoveUp(Shift[i - 1], n + 1 - i)]
  BY <1>5
<1> HIDE DEF Shift
<1> DEFINE last == n + 1 - pos
           Moved(i, j) == IF j \in n + 2 - i..n + 1 THEN Table!Entry(t, j - 1)
                          ELSE Table!Entry(t, j)
           T == {i \in 0..last : /\ Shape(Shift[i])
                                 /\ \A j : Table!Entry(Shift[i], j) = Moved(i, j)}
<1>7. last \in Nat /\ last <= n /\ pos \in Nat \ {0}
  BY <1>1
<1>8. 0 \in T
  <2>1. Shift[0] = t
    BY <1>1, <1>6
  <2>2. \A j : j \notin n + 2 - 0..n + 1
    BY <1>1
  <2> QED
    BY <1>7, <2>1, <2>2
<1>9. ASSUME NEW i \in 0..last - 1, i \in T PROVE i + 1 \in T
  <2>1. Shape(Shift[i]) /\ \A j : Table!Entry(Shift[i], j) = Moved(i, j)
    BY <1>9
  <2>2. i + 1 \in 0..n /\ (i + 1) - 1 = i /\ i + 1 # 0 /\ n + 1 - (i + 1) = n - i
        /\ n - i \in 1..n /\ i + 1 \in 0..last
    <3> HIDE DEF last
    <3>1. i \in Nat /\ i + 1 <= last
      BY <1>7
    <3>2. i + 1 <= n
      BY <1>1, <1>7, <3>1
    <3>3. \A a, b \in Nat : a + 1 <= b => b - a \in 1..b /\ b + 1 - (a + 1) = b - a
      OBVIOUS
    <3>4. i + 1 \in 0..n /\ i + 1 \in 0..last /\ (i + 1) - 1 = i /\ i + 1 # 0
      BY <1>1, <1>7, <3>1, <3>2
    <3> QED
      BY <1>1, <3>1, <3>2, <3>3, <3>4
  <2>3. Shift[i + 1] = Table!MoveUp(Shift[i], n - i)
    BY <1>6, <2>2
  <2>4. IsSet(Shift[i + 1], Shift[i], n - i + 1, Table!Entry(Shift[i], n - i))
    BY <1>3, <2>1, <2>2, <2>3, ShapesAre
  <2>5. n - i \notin n + 2 - i..n + 1
    BY <1>1, <2>2
  <2>6. Table!Entry(Shift[i], n - i) = Table!Entry(t, n - i)
    BY <2>1, <2>5
  <2>7. ASSUME NEW j PROVE Table!Entry(Shift[i + 1], j) = Moved(i + 1, j)
    <3>1. Table!Entry(Shift[i + 1], j) = IF j = n - i + 1 THEN Table!Entry(t, n - i)
                                         ELSE Moved(i, j)
      BY <2>1, <2>4, <2>6 DEF IsSet
    <3>2. CASE j = n - i + 1
      <4>1. j \in n + 2 - (i + 1)..n + 1 /\ j - 1 = n - i
        BY <1>1, <2>2, <3>2
      <4> QED
        BY <3>1, <3>2, <4>1
    <3>3. CASE j # n - i + 1
      <4>1. j \in n + 2 - (i + 1)..n + 1 <=> j \in n + 2 - i..n + 1
        BY <1>1, <2>2, <3>3
      <4> QED
        BY <3>1, <3>3, <4>1
    <3> QED
      BY <3>2, <3>3
  <2>8. Shape(Shift[i + 1])
    BY <2>4 DEF IsSet
  <2> HIDE DEF Moved
  <2> QED
    BY <2>2, <2>7, <2>8
<1>10. last \in T
  <2> HIDE DEF T, last
  <2>1. \A i \in 0..last : i \in T
    BY <1>7, <1>8, <1>9, Induction
  <2> QED
    BY <1>7, <2>1
<1>11. Shape(Shift[last]) /\ \A j : Table!Entry(Shift[last], j) = Moved(last, j)
  BY <1>10
<1>12. n + 2 - last = pos + 1
  BY <1>1, <1>7
<1>13. pos \in Table!Keys
  BY KeysAre
<1> HIDE DEF last
<1> DEFINE u == Table!RawSet(Shift[last], pos, v)
<1>14. IsSet(u, Shift[last], pos, v)
  BY <1>11, <1>13, RawSetting
<1>15. IsMovedUp(u, t, pos, v)
  <2> HIDE DEF u
  <2>1. ASSUME NEW j
        PROVE  Table!Entry(u, j) = IF j = pos THEN v
                                   ELSE IF j \in pos + 1..n + 1 THEN Table!Entry(t, j - 1)
                                   ELSE Table!Entry(t, j)
    BY <1>11, <1>12, <1>14 DEF IsSet
  <2> QED
    BY <1>14, <2>1 DEF IsSet, IsMovedUp
<1> QED
  BY <1>15 DEF Shift, last

LEMMA RemovingAt ==
  ASSUME NEW t, Shape(t), NEW pos \in DOMAIN t.array
  PROVE  LET n == Len(t.array)
             u == [array |-> Table!Trim(Table!RemoveAt(t.array, pos)), hash |-> t.hash]
         IN /\ Shape(u)
            /\ \A j : Table!Entry(u, j) = IF j = n THEN Nil
                                          ELSE IF j \in pos..n - 1 THEN Table!Entry(t, j + 1)
                                          ELSE Table!Entry(t, j)
<1> DEFINE n == Len(t.array)
           b == Table!RemoveAt(t.array, pos)
           a == Table!Trim(b)
           u == [array |-> a, hash |-> t.hash]
<1>1. /\ ArrayShape(t.array) /\ HashShape(t.hash) /\ pos \in 1..n
      /\ t.array \in Seq(Entries) /\ DOMAIN t.array = 1..n
      /\ n \in 0..MaxPosition /\ MaxPosition \in Nat
      /\ \A j \in Table!HashKeys(t.hash) : j \notin 1..n + 1
  BY ShapeParts, ArrayParts, KeysAre
<1>2. /\ b \in Seq(Entries) /\ Len(b) = n - 1
      /\ \A j \in 1..n - 1 : b[j] = IF j < pos THEN t.array[j] ELSE t.array[j + 1]
  BY <1>1, Removal
<1> HIDE DEF b
<1>3. /\ a \in Seq(Entries) /\ Len(a) <= Len(b)
      /\ Len(a) = 0 \/ a[Len(a)] # Nil
      /\ \A i \in 1..Len(a) : a[i] = b[i]
      /\ \A i \in Len(a) + 1..Len(b) : b[i] = Nil
  BY <1>2, Trimming
<1> HIDE DEF a, n
<1>4. /\ ArrayShape(a) /\ Len(a) \in Nat /\ DOMAIN a = 1..Len(a) /\ Len(a) <= n - 1
  BY <1>1, <1>2, <1>3 DEF ArrayShape
<1>5. Shape(u)
  <2>1. \A j \in Table!HashKeys(t.hash) : j \notin 1..Len(a) + 1
    BY <1>1, <1>4
  <2> QED
    BY <1>1, <1>4, <2>1, MakesShape
<1>6. \A j \in 1..n + 1 : Table!HashGet(t.hash, j) = Nil
  BY <1>1, NotFinding
<1>7. ASSUME NEW j
      PROVE  Table!Entry(u, j) = IF j = n THEN Nil
                                 ELSE IF j \in pos..n - 1 THEN Table!Entry(t, j + 1)
                                 ELSE Table!Entry(t, j)
  <2>1. CASE j \in 1..n - 1
    <3>1. Table!Entry(u, j) = b[j]
      <4>1. CASE j \in 1..Len(a)
        BY <1>3, <1>4, <4>1 DEF Table!Entry
      <4>2. CASE j \notin 1..Len(a)
        <5>1. j \in Len(a) + 1..Len(b) /\ j \in 1..n + 1
          BY <1>1, <1>2, <1>4, <2>1, <4>2
        <5> QED
          BY <1>3, <1>4, <1>6, <4>2, <5>1 DEF Table!Entry
      <4> QED
        BY <4>1, <4>2
    <3>2. CASE j < pos
      <4>1. j \in 1..n /\ j # n /\ j \notin pos..n - 1
        BY <1>1, <2>1, <3>2
      <4> QED
        BY <1>1, <1>2, <2>1, <3>1, <3>2, <4>1 DEF Table!Entry
    <3>3. CASE ~(j < pos)
      <4>1. j + 1 \in 1..n /\ j # n /\ j \in pos..n - 1
        BY <1>1, <2>1, <3>3
      <4> QED
        BY <1>1, <1>2, <2>1, <3>1, <3>3, <4>1 DEF Table!Entry
    <3> QED
      BY <3>2, <3>3
  <2>2. CASE j = n
    <3>1. j \notin DOMAIN a /\ j \in 1..n + 1
      BY <1>1, <1>4, <2>2
    <3> QED
      BY <1>6, <2>2, <3>1 DEF Table!Entry
  <2>3. CASE j \notin 1..n
    <3>1. j \notin DOMAIN a /\ j \notin DOMAIN t.array /\ j # n /\ j \notin pos..n - 1
      BY <1>1, <1>4, <2>3
    <3> QED
      BY <3>1 DEF Table!Entry
  <2>4. j \in 1..n => j \in 1..n - 1 \/ j = n
    BY <1>1
  <2> QED
    BY <2>1, <2>2, <2>3, <2>4
<1> QED
  BY <1>5, <1>7 DEF n, b, a

------------------------------- (* The order of next *) ----------------------
(* Whether next gives k after c; every key comes after nil. *)
Ahead(t, c, k) ==
  \/ c = Nil
  \/ c \in DOMAIN t.array /\ k \in DOMAIN t.array /\ c < k
  \/ c \in DOMAIN t.array /\ k \in Table!HashKeys(t.hash)
  \/ c \notin DOMAIN t.array /\ k \notin DOMAIN t.array /\ Before(t.hash, c, k)

Has(t, k) == k \in Table!Keys /\ Table!Entry(t, k) # Nil

IsNext(t, c, n) ==
  /\ Has(t, n) /\ Ahead(t, c, n) /\ ~Ahead(t, n, n)
  /\ \A k : Has(t, k) /\ Ahead(t, c, k) => k = n \/ Ahead(t, n, k)
  /\ \A k : Has(t, k) /\ Ahead(t, n, k) => Ahead(t, c, k)

IsAnswer(x, t, c) ==
  \/ x = Table!End /\ \A k : Has(t, k) => ~Ahead(t, c, k)
  \/ \E n : x = [key |-> n] /\ IsNext(t, c, n)

LEMMA Having ==
  ASSUME NEW t, Shape(t), NEW k
  PROVE  /\ Has(t, k) <=> \/ k \in DOMAIN t.array /\ t.array[k] # Nil
                          \/ k \in Table!HashKeys(t.hash)
         /\ k \in DOMAIN t.array => k \in Int /\ k \notin Table!HashKeys(t.hash)
         /\ k \in Table!HashKeys(t.hash) => k \in Table!Keys /\ k \notin DOMAIN t.array
         /\ Has(t, k) => k # Nil
<1>1. /\ Loose(t) /\ ArrayShape(t.array) /\ HashShape(t.hash)
      /\ DOMAIN t.array = 1..Len(t.array) /\ Len(t.array) \in Nat
      /\ \A j \in Table!HashKeys(t.hash) : j \notin 1..Len(t.array) + 1
  BY ShapeParts
<1>2. DOMAIN t.array \subseteq Table!Keys /\ Table!HashKeys(t.hash) \subseteq Table!Keys
  BY <1>1, ArrayParts, HashParts
<1>3. k \in DOMAIN t.array => k \in Int /\ k \notin Table!HashKeys(t.hash)
  BY <1>1
<1>4. k \in Table!HashKeys(t.hash) => Table!HashGet(t.hash, k) # Nil
  BY <1>1, HasIndex, KeysAre
<1>5. k \notin Table!HashKeys(t.hash) => Table!HashGet(t.hash, k) = Nil
  BY NotFinding
<1>6. Has(t, k) <=> \/ k \in DOMAIN t.array /\ t.array[k] # Nil
                    \/ k \in Table!HashKeys(t.hash)
  BY <1>1, <1>2, <1>3, <1>4, <1>5, LookingIn DEF Has
<1>7. Has(t, k) => k # Nil
  BY KeysAre DEF Has
<1> QED
  BY <1>2, <1>3, <1>6, <1>7

LEMMA NotBeforeItself ==
  ASSUME NEW h, HashShape(h), NEW k
  PROVE  ~Before(h, k, k)
BY HashParts DEF Before, HashShape, Distinct

LEMMA FirstKey ==
  ASSUME NEW t, Shape(t), t = Table!Here, NEW c, NEW n \in 0..Len(array),
         (c = Nil /\ n = 0) \/ (c \in DOMAIN array /\ c = n)
  PROVE  IsAnswer(Table!FirstAfter(n), t, c)
<1> DEFINE later == {m \in DOMAIN array : m > n /\ array[m] # Nil}
<1>0. t.array = array /\ t.hash = hash
  BY DEF Table!Here
<1>1. /\ HashShape(hash) /\ Len(array) \in Nat /\ DOMAIN array = 1..Len(array)
      /\ Len(hash) \in Nat /\ DOMAIN hash = 1..Len(hash) /\ hash \in Seq(Table!Keys \X Values)
  BY <1>0, ShapeParts, HashParts
<1>2. \A k : k \in DOMAIN array => (Ahead(t, c, k) <=> k > n)
  <2>1. \A k : k \in DOMAIN array => k > 0 /\ k \notin Table!HashKeys(hash) /\ k \in Int
    BY <1>0, <1>1, Having
  <2>2. Nil \notin DOMAIN array
    BY <1>0, ArrayParts, KeysAre DEF Shape
  <2> QED
    BY <1>0, <1>1, <2>1, <2>2 DEF Ahead
<1>3. \A k : k \in Table!HashKeys(hash) => Ahead(t, c, k)
  BY <1>0 DEF Ahead
<1>4. CASE later # {}
  <2> DEFINE m == CHOOSE m \in later : \A o \in later : m <= o
  <2>1. \E l \in later : \A o \in later : l <= o
    <3>1. later \subseteq Nat
      BY <1>1
    <3> HIDE DEF later
    <3> QED
      BY <1>4, <3>1, Least
  <2>2. m \in later /\ \A o \in later : m <= o
    BY <2>1
  <2>3. Table!FirstAfter(n) = [key |-> m]
    BY <1>4 DEF Table!FirstAfter
  <2> HIDE DEF m
  <2>4. m \in DOMAIN array /\ m > n /\ array[m] # Nil /\ m \in Int /\ m # Nil
        /\ m \notin Table!HashKeys(hash)
    <3>1. m \in DOMAIN array /\ m > n /\ array[m] # Nil
      BY <2>2
    <3> QED
      BY <1>0, <1>1, <3>1, Having
  <2>5. Has(t, m) /\ Ahead(t, c, m)
    BY <1>0, <1>2, <2>4, Having
  <2>6. ~Ahead(t, m, m)
    BY <1>0, <2>4 DEF Ahead
  <2>7. ASSUME NEW k, Has(t, k), Ahead(t, c, k) PROVE k = m \/ Ahead(t, m, k)
    <3>1. CASE k \in DOMAIN array /\ array[k] # Nil
      <4>1. k \in later
        BY <1>2, <2>7, <3>1
      <4>2. m <= k /\ k \in Int
        BY <1>1, <2>2, <4>1
      <4> QED
        BY <1>0, <2>4, <3>1, <4>2 DEF Ahead
    <3>2. CASE k \in Table!HashKeys(hash)
      BY <1>0, <2>4, <3>2 DEF Ahead
    <3> QED
      BY <1>0, <2>7, <3>1, <3>2, Having
  <2>8. ASSUME NEW k, Has(t, k), Ahead(t, m, k) PROVE Ahead(t, c, k)
    <3>1. CASE k \in Table!HashKeys(hash)
      BY <1>3, <3>1
    <3>2. CASE k \in DOMAIN array
      <4>1. k \notin Table!HashKeys(hash) /\ k \in Int
        BY <1>0, <3>2, Having
      <4>2. m < k
        BY <1>0, <2>4, <2>8, <3>2, <4>1 DEF Ahead
      <4> QED
        BY <1>2, <2>4, <3>2, <4>1, <4>2
    <3> QED
      BY <1>0, <2>8, <3>1, <3>2, Having
  <2> QED
    BY <2>3, <2>5, <2>6, <2>7, <2>8 DEF IsAnswer, IsNext
<1>5. CASE later = {}
  <2>1. ASSUME NEW k, Has(t, k), Ahead(t, c, k) PROVE k \in Table!HashKeys(hash)
    BY <1>0, <1>2, <1>5, <2>1, Having
  <2>2. CASE hash = <<>>
    <3>1. Table!FirstAfter(n) = Table!End
      BY <1>5, <2>2 DEF Table!FirstAfter
    <3>2. Table!HashKeys(hash) = {}
      BY <2>2 DEF Table!HashKeys
    <3> QED
      BY <2>1, <3>1, <3>2 DEF IsAnswer
  <2>3. CASE hash # <<>>
    <3> DEFINE m == hash[1][1]
    <3>1. Table!FirstAfter(n) = [key |-> m]
      BY <1>5, <2>3 DEF Table!FirstAfter
    <3>2. 1 \in DOMAIN hash
      BY <1>1, <2>3
    <3>3. m \in Table!HashKeys(hash)
      BY <3>2 DEF Table!HashKeys
    <3>4. Has(t, m) /\ Ahead(t, c, m) /\ m \notin DOMAIN array /\ m # Nil
      BY <1>0, <1>3, <3>3, Having
    <3>5. \A k : Ahead(t, m, k) <=> k \notin DOMAIN array /\ Before(hash, m, k)
      BY <1>0, <3>4 DEF Ahead
    <3>6. ~Ahead(t, m, m)
      BY <1>1, <3>5, NotBeforeItself
    <3>7. ASSUME NEW k, Has(t, k), Ahead(t, c, k) PROVE k = m \/ Ahead(t, m, k)
      <4>1. k \in Table!HashKeys(hash) /\ k \notin DOMAIN array
        BY <1>0, <2>1, <3>7, Having
      <4>2. PICK q \in DOMAIN hash : hash[q][1] = k
        BY <4>1 DEF Table!HashKeys
      <4>3. q = 1 \/ 1 < q
        BY <1>1
      <4>4. 1 < q => Before(hash, m, k)
        BY <3>2, <4>2 DEF Before
      <4> QED
        BY <3>5, <4>1, <4>2, <4>3, <4>4
    <3>8. ASSUME NEW k, Has(t, k), Ahead(t, m, k) PROVE Ahead(t, c, k)
      BY <1>0, <1>3, <3>5, <3>8, Having
    <3> QED
      BY <3>1, <3>4, <3>6, <3>7, <3>8 DEF IsAnswer, IsNext
  <2> QED
    BY <2>2, <2>3
<1> QED
  BY <1>4, <1>5

LEMMA NextInHash ==
  ASSUME NEW t, Shape(t), t = Table!Here, NEW c, c \in Table!HashKeys(hash)
  PROVE  IsAnswer(Table!NextKey(c), t, c)
<1> DEFINE p == Table!HashIndex(hash, c)
<1>0. t.array = array /\ t.hash = hash
  BY DEF Table!Here
<1>1. /\ HashShape(hash) /\ Len(hash) \in Nat /\ DOMAIN hash = 1..Len(hash)
      /\ p \in 1..Len(hash) /\ hash[p][1] = c /\ Distinct(hash)
  BY <1>0, ShapeParts, HashParts, HasIndex DEF HashShape
<1>2. c \notin DOMAIN array /\ c # Nil
  BY <1>0, Having
<1> HIDE DEF p
<1>3. \A i \in DOMAIN hash : hash[i][1] = c <=> i = p
  BY <1>1 DEF Distinct
<1>4. \A k : Ahead(t, c, k) <=> k \notin DOMAIN array /\ Before(hash, c, k)
  BY <1>0, <1>2 DEF Ahead
<1>5. \A q \in DOMAIN hash : Before(hash, c, hash[q][1]) <=> p < q
  <2>1. ASSUME NEW q \in DOMAIN hash, Before(hash, c, hash[q][1]) PROVE p < q
    <3>1. PICK i, j \in DOMAIN hash : i < j /\ hash[i][1] = c /\ hash[j][1] = hash[q][1]
      BY <2>1 DEF Before
    <3> QED
      BY <1>1, <1>3, <3>1 DEF Distinct
  <2>2. ASSUME NEW q \in DOMAIN hash, p < q PROVE Before(hash, c, hash[q][1])
    BY <1>1, <2>2 DEF Before
  <2> QED
    BY <2>1, <2>2
<1> DEFINE after == {i \in DOMAIN hash : i > 1 /\ hash[i - 1][1] = c}
<1>6. Table!NextKey(c) = IF after = {} THEN Table!End
                         ELSE [key |-> hash[CHOOSE i \in after : TRUE][1]]
  BY <1>2 DEF Table!NextKey
<1>7. \A i : i \in after <=> i = p + 1 /\ i <= Len(hash)
  <2>1. ASSUME NEW i \in after PROVE i = p + 1 /\ i <= Len(hash)
    <3>1. i - 1 \in DOMAIN hash /\ i \in 1..Len(hash)
      BY <1>1
    <3>2. i - 1 = p
      BY <1>3, <3>1
    <3> QED
      BY <1>1, <3>1, <3>2
  <2>2. ASSUME p + 1 <= Len(hash) PROVE p + 1 \in after
    <3>1. p + 1 \in DOMAIN hash /\ p + 1 > 1 /\ (p + 1) - 1 = p
      BY <1>1, <2>2
    <3> QED
      BY <1>1, <3>1
  <2> HIDE DEF after
  <2> QED
    BY <2>1, <2>2
<1> HIDE DEF after
<1>8. CASE p = Len(hash)
  <2>1. after = {}
    BY <1>1, <1>7, <1>8
  <2>2. ASSUME NEW k, Has(t, k) PROVE ~Ahead(t, c, k)
    <3>1. CASE k \in DOMAIN array
      BY <1>4, <3>1
    <3>2. CASE k \in Table!HashKeys(hash)
      <4>1. PICK q \in DOMAIN hash : hash[q][1] = k
        BY <3>2 DEF Table!HashKeys
      <4> QED
        BY <1>1, <1>4, <1>5, <1>8, <4>1
    <3> QED
      BY <1>0, <2>2, <3>1, <3>2, Having
  <2> QED
    BY <1>6, <2>1, <2>2 DEF IsAnswer
<1>9. CASE p < Len(hash)
  <2> DEFINE m == hash[p + 1][1]
  <2>0. p + 1 \in DOMAIN hash
    BY <1>1, <1>9
  <2>1. Table!NextKey(c) = [key |-> m]
    <3>1. after = {p + 1}
      BY <1>1, <1>7, <1>9
    <3> QED
      BY <1>6, <3>1
  <2>2. m \in Table!HashKeys(hash)
    BY <2>0 DEF Table!HashKeys
  <2>3. Has(t, m) /\ m \notin DOMAIN array /\ m # Nil
    BY <1>0, <2>2, Having
  <2>4. \A k : Ahead(t, m, k) <=> k \notin DOMAIN array /\ Before(hash, m, k)
    BY <1>0, <2>3 DEF Ahead
  <2>5. ~Ahead(t, m, m)
    BY <1>1, <2>4, NotBeforeItself
  <2>6. Ahead(t, c, m)
    BY <1>1, <1>4, <1>5, <2>0, <2>3
  <2>7. \A q \in DOMAIN hash : Before(hash, m, hash[q][1]) <=> p + 1 < q
    <3>1. ASSUME NEW q \in DOMAIN hash, Before(hash, m, hash[q][1]) PROVE p + 1 < q
      <4>1. PICK i, j \in DOMAIN hash : i < j /\ hash[i][1] = m /\ hash[j][1] = hash[q][1]
        BY <3>1 DEF Before
      <4>2. i = p + 1 /\ j = q
        BY <1>1, <2>0, <4>1 DEF Distinct
      <4> QED
        BY <4>1, <4>2
    <3>2. ASSUME NEW q \in DOMAIN hash, p + 1 < q PROVE Before(hash, m, hash[q][1])
      BY <2>0, <3>2 DEF Before
    <3> QED
      BY <3>1, <3>2
  <2>8. ASSUME NEW k, Has(t, k), k \notin DOMAIN array
        PROVE  \E q \in DOMAIN hash : hash[q][1] = k
    <3>1. k \in Table!HashKeys(hash)
      BY <1>0, <2>8, Having
    <3> QED
      BY <3>1 DEF Table!HashKeys
  <2>9. ASSUME NEW k, Has(t, k), Ahead(t, c, k) PROVE k = m \/ Ahead(t, m, k)
    <3>1. PICK q \in DOMAIN hash : hash[q][1] = k
      BY <1>4, <2>8, <2>9
    <3>2. p < q
      BY <1>4, <1>5, <2>9, <3>1
    <3>3. q = p + 1 \/ p + 1 < q
      BY <1>1, <3>2
    <3> QED
      BY <1>4, <2>4, <2>7, <2>9, <3>1, <3>3
  <2>10. ASSUME NEW k, Has(t, k), Ahead(t, m, k) PROVE Ahead(t, c, k)
    <3>1. PICK q \in DOMAIN hash : hash[q][1] = k
      BY <2>4, <2>8, <2>10
    <3>2. p + 1 < q
      BY <2>4, <2>7, <2>10, <3>1
    <3>3. p < q
      BY <1>1, <3>2
    <3> QED
      BY <1>4, <1>5, <2>4, <2>10, <3>1, <3>3
  <2> HIDE DEF m
  <2> QED
    BY <2>1, <2>3, <2>5, <2>6, <2>9, <2>10 DEF IsAnswer, IsNext
<1> QED
  BY <1>1, <1>8, <1>9

LEMMA Answers ==
  ASSUME NEW t, Shape(t), t = Table!Here, NEW c, c = Nil \/ Has(t, c)
  PROVE  IsAnswer(Table!NextKey(c), t, c)
<1>0. t.array = array /\ t.hash = hash /\ Len(array) \in Nat /\ DOMAIN array = 1..Len(array)
  BY ShapeParts DEF Table!Here
<1>1. CASE c = Nil
  <2>1. Table!NextKey(c) = Table!FirstAfter(0)
    BY <1>1 DEF Table!NextKey
  <2> QED
    BY <1>0, <1>1, <2>1, FirstKey
<1>2. CASE c \in DOMAIN array
  <2>1. c # Nil
    BY <1>0, <1>2, ArrayParts, KeysAre DEF Shape
  <2>2. Table!NextKey(c) = Table!FirstAfter(c)
    BY <1>2, <2>1 DEF Table!NextKey
  <2> QED
    BY <1>0, <1>2, <2>2, FirstKey
<1>3. CASE c \in Table!HashKeys(hash)
  BY <1>3, NextInHash
<1> QED
  BY <1>0, <1>1, <1>2, <1>3, Having

(* Changing and clearing entries leaves the others in their order. *)
LEMMA SameOrder ==
  ASSUME NEW t, NEW u, Shape(t), Shape(u), NEW x, NEW y,
         x \in DOMAIN u.array <=> x \in DOMAIN t.array,
         y \in DOMAIN u.array <=> y \in DOMAIN t.array,
         y \in Table!HashKeys(u.hash) <=> y \in Table!HashKeys(t.hash),
         Before(u.hash, x, y) <=> Before(t.hash, x, y)
  PROVE  Ahead(u, x, y) <=> Ahead(t, x, y)
BY DEF Ahead

LEMMA KeepsOrder ==
  ASSUME NEW t, Shape(t), NEW k \in Table!Keys, NEW v \in Entries, Has(t, k),
         NEW x, NEW y, Has(Table!RawSet(t, k, v), x), Has(Table!RawSet(t, k, v), y)
  PROVE  Ahead(Table!RawSet(t, k, v), x, y) <=> Ahead(t, x, y)
<1> DEFINE u == Table!RawSet(t, k, v)
<1>0. /\ t = [array |-> t.array, hash |-> t.hash] /\ HashShape(t.hash)
      /\ DOMAIN t.array = 1..Len(t.array) /\ Len(t.array) \in Nat
      /\ \A j \in Table!HashKeys(t.hash) : j \notin 1..Len(t.array) + 1
  BY ShapeParts
<1>1. IsSet(u, t, k, v)
  BY RawSetting
<1>2. Shape(u)
  BY <1>1 DEF IsSet
<1>3. CASE k \in DOMAIN t.array
  <2>1. u.hash = t.hash
    BY <1>0, <1>3 DEF Table!RawSet
  <2>2. DOMAIN u.array \subseteq DOMAIN t.array
    <3>1. CASE v # Nil
      <4>1. u.array = [t.array EXCEPT ![k] = v]
        BY <1>0, <1>3, <3>1 DEF Table!RawSet
      <4> QED
        BY <4>1
    <3>2. CASE v = Nil
      <4>1. u.array = Table!Trim([t.array EXCEPT ![k] = Nil])
        BY <1>0, <1>3, <3>2 DEF Table!RawSet
      <4> DEFINE b == [t.array EXCEPT ![k] = Nil]
      <4>2. b \in Seq(Entries) /\ Len(b) = Len(t.array)
        BY <1>3, ShapeParts, ArrayParts DEF Entries
      <4> HIDE DEF b
      <4>3. u.array \in Seq(Entries) /\ Len(u.array) <= Len(b)
        BY <4>1, <4>2, Trimming DEF b
      <4> HIDE DEF u
      <4>4. DOMAIN u.array = 1..Len(u.array) /\ Len(u.array) \in Nat
        BY <4>3
      <4> QED
        BY <1>0, <4>2, <4>3, <4>4
    <3> QED
      BY <3>1, <3>2
  <2> HIDE DEF u
  <2>3. ASSUME NEW z, Has(u, z) PROVE z \in DOMAIN u.array <=> z \in DOMAIN t.array
    <3>1. CASE z \in DOMAIN t.array
      <4>1. z \notin Table!HashKeys(u.hash)
        BY <2>1, <3>1, Having
      <4> QED
        BY <1>2, <2>3, <3>1, <4>1, Having
    <3> QED
      BY <2>2, <3>1
  <2> QED
    BY <1>2, <2>1, <2>3, SameOrder DEF u
<1>4. CASE k \notin DOMAIN t.array
  <2>0. k \in Table!HashKeys(t.hash) /\ k # Len(t.array) + 1
    <3>1. k \in Table!HashKeys(t.hash)
      BY <1>4, Having
    <3> QED
      BY <1>0, <3>1
  <2>1. CASE v = Nil
    <3>1. u = [array |-> t.array, hash |-> Table!HashRemove(t.hash, k)]
      BY <1>0, <1>4, <2>1 DEF Table!RawSet
    <3>2. /\ Table!HashKeys(u.hash) = Table!HashKeys(t.hash) \ {k}
          /\ \A w, z : w # k /\ z # k => (Before(u.hash, w, z) <=> Before(t.hash, w, z))
      BY <1>0, <3>1, HashRemoving
    <3> HIDE DEF u
    <3>3. x # k /\ y # k
      BY <1>1, <2>1 DEF IsSet, Has, u
    <3>4. u.array = t.array
      BY <3>1
    <3>5. y \in Table!HashKeys(u.hash) <=> y \in Table!HashKeys(t.hash)
      BY <3>2, <3>3
    <3> QED
      BY <1>2, <3>2, <3>3, <3>4, <3>5, SameOrder DEF u
  <2>2. CASE v # Nil
    <3>1. u = [array |-> t.array, hash |-> Table!HashPut(t.hash, k, v)]
      BY <1>0, <1>4, <2>0, <2>2 DEF Table!RawSet
    <3>2. v \in Values
      BY <2>2 DEF Entries
    <3>3. /\ Table!HashKeys(u.hash) = Table!HashKeys(t.hash) \cup {k}
          /\ \A w, z : Before(u.hash, w, z) <=> Before(t.hash, w, z)
      BY <1>0, <2>0, <3>1, <3>2, HashPutting
    <3> HIDE DEF u
    <3>4. u.array = t.array
      BY <3>1
    <3>5. y \in Table!HashKeys(u.hash) <=> y \in Table!HashKeys(t.hash)
      BY <2>0, <3>3
    <3> QED
      BY <1>2, <3>3, <3>4, <3>5, SameOrder DEF u
  <2> QED
    BY <2>1, <2>2
<1> QED
  BY <1>3, <1>4

------------------------------- (* A traversal *) ----------------------------
LastOf(s) == IF s = <<>> THEN Nil ELSE s[Len(s)]

(* The keys that are there are behind or ahead of the traversal.           *)
Underway(t, s, o) ==
  /\ \A k \in o : Has(t, k)
  /\ s # <<>> => Has(t, LastOf(s))
  /\ \A k : Has(t, k) => k \in Table!ToSet(s) \/ Ahead(t, LastOf(s), k)
  /\ \A k \in Table!ToSet(s) : Has(t, k) => ~Ahead(t, LastOf(s), k)

IsTraversal(s) == s \in Seq(Table!Keys) /\ Table!IsInjective(s)

LEMMA Given ==
  ASSUME NEW s, IsTraversal(s), NEW k \in Table!Keys, k \notin Table!ToSet(s)
  PROVE  /\ IsTraversal(Append(s, k))
         /\ Table!ToSet(Append(s, k)) = Table!ToSet(s) \cup {k}
         /\ LastOf(Append(s, k)) = k /\ Append(s, k) # <<>>
<1> DEFINE r == Append(s, k)
           n == Len(s) + 1
<1>1. /\ Len(s) \in Nat /\ DOMAIN s = 1..Len(s)
      /\ r \in Seq(Table!Keys) /\ Len(r) = n /\ DOMAIN r = 1..n /\ r[n] = k
      /\ \A i \in 1..Len(s) : r[i] = s[i]
  BY DEF IsTraversal
<1>2. \A i \in 1..n : i \in 1..Len(s) \/ i = n
  BY <1>1
<1>3. \A i \in 1..Len(s) : s[i] # k /\ i \in 1..n
  BY <1>1 DEF Table!ToSet
<1>4. n \in 1..n /\ n # 0
  BY <1>1
<1> HIDE DEF r, n
<1>5. ASSUME NEW i \in 1..n, NEW j \in 1..n, r[i] = r[j] PROVE i = j
  <2>1. CASE i \in 1..Len(s) /\ j \in 1..Len(s)
    BY <1>1, <1>5, <2>1 DEF IsTraversal, Table!IsInjective
  <2>2. CASE i = n /\ j = n
    BY <2>2
  <2>3. CASE i \in 1..Len(s) /\ j = n
    BY <1>1, <1>3, <1>5, <2>3
  <2>4. CASE i = n /\ j \in 1..Len(s)
    BY <1>1, <1>3, <1>5, <2>4
  <2> QED
    BY <1>2, <2>1, <2>2, <2>3, <2>4
<1>6. IsTraversal(r)
  BY <1>1, <1>5 DEF IsTraversal, Table!IsInjective
<1>7. Table!ToSet(r) = Table!ToSet(s) \cup {k}
  BY <1>1, <1>2, <1>3, <1>4 DEF Table!ToSet
<1>8. LastOf(r) = k /\ r # <<>>
  BY <1>1, <1>4 DEF LastOf
<1> QED
  BY <1>6, <1>7, <1>8 DEF r

LEMMA TraversalBegins ==
  ASSUME NEW t, NEW o, \A k \in o : Has(t, k)
  PROVE  Underway(t, <<>>, o)
BY DEF Underway, LastOf, Ahead, Table!ToSet

LEMMA TraversalGives ==
  ASSUME NEW t, Shape(t), NEW s, IsTraversal(s), NEW o, Underway(t, s, o),
         NEW n, IsNext(t, LastOf(s), n)
  PROVE  IsTraversal(Append(s, n)) /\ Underway(t, Append(s, n), o)
<1>1. n \in Table!Keys /\ Has(t, n) /\ Ahead(t, LastOf(s), n)
  BY DEF IsNext, Has
<1>2. n \notin Table!ToSet(s)
  BY <1>1 DEF Underway
<1> DEFINE r == Append(s, n)
<1>3. /\ IsTraversal(r) /\ Table!ToSet(r) = Table!ToSet(s) \cup {n}
      /\ LastOf(r) = n /\ r # <<>>
  BY <1>1, <1>2, Given
<1> HIDE DEF r
<1>4. ASSUME NEW k, Has(t, k) PROVE k \in Table!ToSet(r) \/ Ahead(t, n, k)
  BY <1>3, <1>4 DEF Underway, IsNext
<1>5. ASSUME NEW k \in Table!ToSet(r), Has(t, k) PROVE ~Ahead(t, n, k)
  BY <1>3, <1>5 DEF Underway, IsNext
<1>6. Underway(t, r, o)
  BY <1>1, <1>3, <1>4, <1>5 DEF Underway
<1> QED
  BY <1>3, <1>6 DEF r

LEMMA TraversalEnds ==
  ASSUME NEW t, NEW s, NEW o, Underway(t, s, o), \A k : Has(t, k) => ~Ahead(t, LastOf(s), k)
  PROVE  o \subseteq Table!ToSet(s)
BY DEF Underway

LEMMA TraversalGoesOn ==
  ASSUME NEW t, Shape(t), NEW k \in Table!Keys, NEW v \in Entries, Has(t, k),
         NEW s, IsTraversal(s), NEW o, Underway(t, s, o), v = Nil => k # LastOf(s)
  PROVE  Underway(Table!RawSet(t, k, v), s, IF v = Nil THEN o \ {k} ELSE o)
<1> DEFINE u == Table!RawSet(t, k, v)
           c == LastOf(s)
           p == IF v = Nil THEN o \ {k} ELSE o
<1>1. IsSet(u, t, k, v)
  BY RawSetting
<1>2. \A x, y : Has(u, x) /\ Has(u, y) => (Ahead(u, x, y) <=> Ahead(t, x, y))
  BY KeepsOrder
<1> HIDE DEF u, c
<1>3. \A j : Has(u, j) => Has(t, j)
  BY <1>1 DEF IsSet, Has
<1>4. \A j : Has(t, j) /\ (v = Nil => j # k) => Has(u, j)
  BY <1>1 DEF IsSet, Has
<1>5. \A j \in p : Has(u, j)
  BY <1>4 DEF Underway
<1>6. s # <<>> => Has(u, c)
  BY <1>4 DEF Underway, c
<1>7. s = <<>> => c = Nil /\ Table!ToSet(s) = {}
  BY DEF LastOf, c, Table!ToSet
<1>8. ASSUME NEW j, Has(u, j) PROVE Ahead(u, c, j) <=> Ahead(t, c, j)
  <2>1. CASE s = <<>>
    BY <1>7, <2>1 DEF Ahead
  <2>2. CASE s # <<>>
    BY <1>2, <1>6, <1>8, <2>2
  <2> QED
    BY <2>1, <2>2
<1>9. ASSUME NEW j, Has(u, j) PROVE j \in Table!ToSet(s) \/ Ahead(u, c, j)
  BY <1>3, <1>8, <1>9 DEF Underway, c
<1>10. ASSUME NEW j \in Table!ToSet(s), Has(u, j) PROVE ~Ahead(u, c, j)
  BY <1>3, <1>8, <1>10 DEF Underway, c
<1> HIDE DEF p
<1>11. Underway(u, s, p)
  BY <1>5, <1>6, <1>9, <1>10 DEF Underway, c
<1> QED
  BY <1>11 DEF u, p

------------------------------- (* Tables are maps *) ------------------------
Contents(t) == [k \in Table!Keys |-> Table!Entry(t, k)]

(* What table.sort has taken is a sequence the table had, and can get back. *)
OutToSort == /\ array = <<>>
             /\ Shape([array |-> taken, hash |-> hash])
             /\ \A i \in DOMAIN taken : taken[i] # Nil

TableInv ==
  /\ Shape(Table!Here)
  /\ taken = Table!NotTaken \/ OutToSort
  /\ trav = [at |-> trav.at, seen |-> trav.seen, owed |-> trav.owed]
  /\ IsTraversal(trav.seen)
  /\ trav.at = "on" =>
       taken = Table!NotTaken /\ Underway(Table!Here, trav.seen, trav.owed)
  /\ trav.at = "ended" => trav.owed \subseteq Table!ToSet(trav.seen)

MapStep == [Table!Map!Next]_Table!Map!vars

LEMMA TableStart ==
  ASSUME Table!Init
  PROVE  TableInv /\ Table!Map!Init
<1>1. array = <<>> /\ hash = <<>> /\ taken = Table!NotTaken /\ frozen = FALSE
      /\ trav = Table!NoTraversal
  BY DEF Table!Init
<1>2. Shape(Table!Here)
  <2>1. ArrayShape(<<>>) /\ HashShape(<<>>)
    BY KeysAre DEF ArrayShape, HashShape, Distinct
  <2> QED
    BY <1>1, <2>1 DEF Shape, Table!Here
<1>3. IsTraversal(<<>>)
  BY DEF IsTraversal, Table!IsInjective
<1>4. TableInv
  BY <1>1, <1>2, <1>3 DEF TableInv, Table!NoTraversal
<1>5. ASSUME NEW k PROVE Table!Get(k) = Nil
  BY <1>1 DEF Table!Get, Table!Here, Table!Entry, Table!HashGet, Table!HashKeys
<1>6. Table!Map!Init
  BY <1>1, <1>5 DEF Table!Map!Init, Table!Map!Keys, Table!Map!NoSort, Table!Keys
<1> QED
  BY <1>4, <1>6

LEMMA LengthIsBorder ==
  ASSUME NEW t, Shape(t), NEW n, n = Len(t.array)
  PROVE  /\ n \in {0} \cup 1..MaxPosition
         /\ n = 0 \/ Contents(t)[n] # Nil
         /\ n + 1 \in 1..MaxPosition => Contents(t)[n + 1] = Nil
<1>1. /\ Loose(t) /\ n \in 0..MaxPosition /\ DOMAIN t.array = 1..n
      /\ n > 0 => t.array[n] # Nil
      /\ \A k \in Table!HashKeys(t.hash) : k \notin 1..n + 1
      /\ MaxPosition \in Nat /\ 1..MaxPosition \subseteq Table!Keys
  BY ShapeParts, ArrayParts, KeysAre
<1>2. n > 0 => n \in DOMAIN t.array /\ n \in Table!Keys
  BY <1>1
<1>3. n > 0 => Contents(t)[n] = t.array[n]
  BY <1>1, <1>2, LookingIn DEF Contents
<1>4. n + 1 \notin DOMAIN t.array /\ n + 1 \notin Table!HashKeys(t.hash)
  BY <1>1
<1>5. n + 1 \in 1..MaxPosition => Contents(t)[n + 1] = Nil
  BY <1>1, <1>4, LookingIn, NotFinding DEF Contents
<1> QED
  BY <1>1, <1>3, <1>5

LEMMA MapChanges ==
  ASSUME Shape(Table!Here)', ~frozen, frozen' = frozen,
         Table!Map!Change \/ Table!Map!SortFails
  PROVE  MapStep
<1>1. Shape(Table!Here') /\ Len(array') = Len(Table!Here'.array)
  BY DEF Table!Here
<1>2. /\ Len(array') \in {0} \cup 1..MaxPosition
      /\ Len(array') = 0 \/ Contents(Table!Here')[Len(array')] # Nil
      /\ Len(array') + 1 \in 1..MaxPosition => Contents(Table!Here')[Len(array') + 1] = Nil
  BY <1>1, LengthIsBorder
<1>3. Contents(Table!Here') = [k \in Table!Keys |-> Table!Get(k)']
  BY DEF Contents, Table!Get
<1>4. Len(array') \in Table!Map!Borders'
  BY <1>2, <1>3 DEF Table!Map!Borders
<1> QED
  BY <1>4 DEF MapStep, Table!Map!Next

LEMMA TableFreezes ==
  ASSUME TableInv, Table!Freeze
  PROVE  TableInv' /\ MapStep
<1>1. UNCHANGED <<array, hash, taken, trav>> /\ frozen' = TRUE
  BY DEF Table!Freeze
<1>2. TableInv'
  BY <1>1 DEF TableInv, OutToSort, Table!Here
<1>3. MapStep
  BY <1>1 DEF MapStep, Table!Map!Next, Table!Get, Table!Here
<1> QED
  BY <1>2, <1>3

LEMMA TableRests ==
  ASSUME UNCHANGED <<array, hash, frozen, taken>>
  PROVE  MapStep /\ Table!Here' = Table!Here
BY DEF MapStep, Table!Map!vars, Table!Get, Table!Here

LEMMA SettingAnEntry ==
  ASSUME TableInv, NEW k \in Table!Keys, NEW v \in Entries, Table!Set(k, v)
  PROVE  TableInv' /\ MapStep
<1> DEFINE t == Table!Here
           u == Table!RawSet(t, k, v)
<1>1. /\ ~frozen /\ frozen' = frozen /\ taken = Table!NotTaken /\ taken' = taken
      /\ Shape(t)
  BY DEF Table!Set, Table!Writable, TableInv
<1>2. IsSet(u, t, k, v)
  BY <1>1, RawSetting
<1>3. Table!Here' = u
  <2>1. u = [array |-> u.array, hash |-> u.hash]
    BY <1>2 DEF IsSet, Shape
  <2> QED
    BY <2>1 DEF Table!Set, Table!Becomes, Table!Here
<1>4. /\ trav = [at |-> trav.at, seen |-> trav.seen, owed |-> trav.owed]
      /\ IsTraversal(trav.seen)
      /\ trav'.at = trav.at /\ trav'.seen = trav.seen
      /\ trav'.owed = (IF v = Nil THEN trav.owed \ {k} ELSE trav.owed)
      /\ trav' = [at |-> trav'.at, seen |-> trav'.seen, owed |-> trav'.owed]
  BY DEF Table!Set, TableInv
<1> HIDE DEF u
<1>5. Shape(Table!Here)'
  BY <1>2, <1>3 DEF IsSet
<1>6. ASSUME trav.at = "on" PROVE Underway(u, trav.seen, trav'.owed)
  <2>1. Has(t, k) /\ Underway(t, trav.seen, trav.owed)
    BY <1>6 DEF Table!Set, Table!Get, Has, TableInv
  <2>2. v = Nil => k # LastOf(trav.seen)
    BY <1>6 DEF Table!Set, Table!Current, Table!Last, LastOf
  <2>3. Underway(u, trav.seen, IF v = Nil THEN trav.owed \ {k} ELSE trav.owed)
    BY <1>1, <1>4, <2>1, <2>2, TraversalGoesOn DEF u
  <2> QED
    BY <1>4, <2>3
<1>7. TableInv'
  <2>1. trav'.at = "on" => Underway(Table!Here', trav'.seen, trav'.owed)
    BY <1>3, <1>4, <1>6
  <2>2. trav'.at = "ended" => trav'.owed \subseteq Table!ToSet(trav'.seen)
    <3>1. trav'.owed \subseteq trav.owed
      BY <1>4
    <3> QED
      BY <1>4, <3>1 DEF TableInv
  <2>3. IsTraversal(trav'.seen)
    BY <1>4
  <2>4. trav' = [at |-> trav'.at, seen |-> trav'.seen, owed |-> trav'.owed]
    BY <1>4
  <2>5. taken' = Table!NotTaken
    BY <1>1
  <2> QED
    BY <1>5, <2>1, <2>2, <2>3, <2>4, <2>5 DEF TableInv
<1>8. Table!Map!Set
  <2>1. \A j : Table!Get(j)' = IF j = k THEN v ELSE Table!Get(j)
    BY <1>2, <1>3 DEF IsSet, Table!Get
  <2>2. [j \in Table!Keys |-> Table!Get(j)]'
          = [[j \in Table!Keys |-> Table!Get(j)] EXCEPT ![k] = v]
    BY <2>1
  <2>3. k \in Table!Map!Keys /\ v \in Values \cup {Nil}
    BY DEF Table!Map!Keys, Table!Keys, Entries
  <2> QED
    BY <1>1, <2>2, <2>3 DEF Table!Map!Set
<1> QED
  BY <1>1, <1>5, <1>7, <1>8, MapChanges DEF Table!Map!Change

(* What is left to show for a step outside a traversal. *)
LEMMA OutsideTraversal ==
  ASSUME TableInv, trav.at # "on", trav' = trav, Shape(Table!Here'),
         taken' = Table!NotTaken \/ OutToSort'
  PROVE  TableInv'
BY DEF TableInv

LEMMA InsertingAnEntry ==
  ASSUME TableInv, NEW pos \in 1..MaxPosition, NEW v \in Entries, Table!Insert(pos, v)
  PROVE  TableInv' /\ MapStep
<1> DEFINE t == Table!Here
           u == Table!Here'
           n == Len(array)
<1>1. /\ ~frozen /\ frozen' = frozen /\ taken = Table!NotTaken /\ taken' = taken
      /\ Shape(t) /\ trav.at # "on" /\ trav' = trav
      /\ t.array = array /\ n < MaxPosition /\ pos <= n + 1
  BY DEF Table!Insert, Table!Writable, TableInv, Table!Here
<1>2. IsMovedUp(u, t, pos, v)
  <2> DEFINE Shift[i \in 0..n] == IF i = 0 THEN t ELSE Table!MoveUp(Shift[i - 1], n + 1 - i)
             w == Table!RawSet(Shift[n + 1 - pos], pos, v)
  <2>1. IsMovedUp(w, t, pos, v)
    <3>1. n \in Nat
      BY <1>1, ShapeParts
    <3> QED
      BY <1>1, <3>1, Inserting
  <2>2. Table!Becomes(w)
    BY DEF Table!Insert
  <2> HIDE DEF w
  <2>3. w = [array |-> w.array, hash |-> w.hash]
    BY <2>1 DEF IsMovedUp, Shape
  <2>4. u = w
    BY <2>2, <2>3 DEF Table!Becomes, Table!Here
  <2> QED
    BY <2>1, <2>4
<1>3. TableInv'
  BY <1>1, <1>2, OutsideTraversal DEF IsMovedUp
<1>4. Table!Map!Insert
  <2>1. \A j : Table!Get(j)' = IF j = pos THEN v
                               ELSE IF j \in pos + 1..n + 1 THEN Table!Get(j - 1)
                               ELSE Table!Get(j)
    BY <1>1, <1>2 DEF IsMovedUp, Table!Get
  <2>2. ASSUME NEW j \in pos + 1..n + 1 PROVE j - 1 \in Table!Keys
    <3>1. n \in Nat
      BY <1>1, ShapeParts
    <3>2. j - 1 \in 1..MaxPosition
      BY <1>1, <3>1, KeysAre
    <3> QED
      BY <3>2, KeysAre
  <2>3. [j \in Table!Keys |-> Table!Get(j)]'
          = [j \in Table!Keys |->
               IF j = pos THEN v
               ELSE IF j \in pos + 1..n + 1 THEN [k \in Table!Keys |-> Table!Get(k)][j - 1]
               ELSE [k \in Table!Keys |-> Table!Get(k)][j]]
    BY <2>1, <2>2
  <2>4. Table!Map!Keys = Table!Keys /\ v \in Values \cup {Nil}
    BY DEF Table!Map!Keys, Table!Keys, Entries
  <2> QED
    BY <1>1, <2>3, <2>4 DEF Table!Map!Insert
<1> QED
  BY <1>1, <1>2, <1>3, <1>4, MapChanges DEF Table!Map!Change, IsMovedUp

LEMMA RemovingAnEntry ==
  ASSUME TableInv, NEW pos \in 1..MaxPosition, Table!TableRemove(pos)
  PROVE  TableInv' /\ MapStep
<1> DEFINE t == Table!Here
           u == Table!Here'
           n == Len(array)
<1>1. /\ ~frozen /\ frozen' = frozen /\ taken = Table!NotTaken /\ taken' = taken
      /\ Shape(t) /\ trav.at # "on" /\ trav' = trav
      /\ t.array = array /\ t.hash = hash /\ pos \in DOMAIN array
  BY DEF Table!TableRemove, Table!Writable, TableInv, Table!Here
<1>2. n \in Nat /\ DOMAIN array = 1..n /\ n <= MaxPosition
  BY <1>1, ShapeParts, ArrayParts
<1>3. u = [array |-> Table!Trim(Table!RemoveAt(array, pos)), hash |-> hash]
  BY DEF Table!TableRemove, Table!Here
<1>4. /\ Shape(u)
      /\ \A j : Table!Entry(u, j) = IF j = n THEN Nil
                                    ELSE IF j \in pos..n - 1 THEN Table!Entry(t, j + 1)
                                    ELSE Table!Entry(t, j)
  <2> DEFINE r == [array |-> Table!Trim(Table!RemoveAt(t.array, pos)), hash |-> t.hash]
  <2>1. /\ Shape(r)
        /\ \A j : Table!Entry(r, j) = IF j = Len(t.array) THEN Nil
                                      ELSE IF j \in pos..Len(t.array) - 1
                                           THEN Table!Entry(t, j + 1)
                                      ELSE Table!Entry(t, j)
    <3>1. Shape(t) /\ pos \in DOMAIN t.array
      BY <1>1
    <3> HIDE DEF t
    <3> QED
      BY <3>1, RemovingAt
  <2>2. r = u /\ Len(t.array) = n
    BY <1>1, <1>3
  <2> HIDE DEF t, u, r, n
  <2> QED
    BY <2>1, <2>2
<1>5. TableInv'
  BY <1>1, <1>4, OutsideTraversal
<1>6. Table!Map!Remove
  <2>1. \A j : Table!Get(j)' = IF j = n THEN Nil
                               ELSE IF j \in pos..n - 1 THEN Table!Get(j + 1)
                               ELSE Table!Get(j)
    BY <1>4 DEF Table!Get
  <2>2. ASSUME NEW j \in pos..n - 1 PROVE j + 1 \in Table!Keys
    <3>1. j + 1 \in 1..MaxPosition
      BY <1>2, KeysAre
    <3> QED
      BY <3>1, KeysAre
  <2>3. [j \in Table!Keys |-> Table!Get(j)]'
          = [j \in Table!Keys |->
               IF j = n THEN Nil
               ELSE IF j \in pos..n - 1 THEN [k \in Table!Keys |-> Table!Get(k)][j + 1]
               ELSE [k \in Table!Keys |-> Table!Get(k)][j]]
    BY <2>1, <2>2
  <2>4. Table!Map!Keys = Table!Keys /\ pos <= n
    BY <1>1, <1>2 DEF Table!Map!Keys, Table!Keys
  <2> QED
    BY <1>1, <2>3, <2>4 DEF Table!Map!Remove
<1> QED
  BY <1>1, <1>4, <1>5, <1>6, MapChanges DEF Table!Map!Change

LEMMA EmptyTable ==
  ASSUME NEW h, HashShape(h), 1 \notin Table!HashKeys(h)
  PROVE  Shape([array |-> <<>>, hash |-> h])
<1>1. ArrayShape(<<>>) /\ Len(<<>>) = 0
  BY KeysAre DEF ArrayShape
<1>2. \A k \in Table!HashKeys(h) : k \notin 1..0 + 1
  OBVIOUS
<1> QED
  BY <1>1, <1>2, MakesShape

LEMMA ClearingTheTable ==
  ASSUME TableInv, Table!Clear
  PROVE  TableInv' /\ MapStep
<1>1. /\ ~frozen /\ frozen' = frozen /\ taken = Table!NotTaken /\ taken' = taken
      /\ trav.at # "on" /\ trav' = trav /\ array' = <<>> /\ hash' = <<>>
  BY DEF Table!Clear, Table!Writable
<1>2. Table!HashKeys(<<>>) = {} /\ HashShape(<<>>)
  BY DEF Table!HashKeys, HashShape, Distinct
<1>3. Shape(Table!Here')
  BY <1>1, <1>2, EmptyTable DEF Table!Here
<1>4. TableInv'
  BY <1>1, <1>3, OutsideTraversal
<1>5. ASSUME NEW k PROVE Table!Get(k)' = Nil
  BY <1>1, <1>2 DEF Table!Get, Table!Here, Table!Entry, Table!HashGet
<1>6. Table!Map!Clear
  BY <1>1, <1>5 DEF Table!Map!Clear, Table!Map!Keys, Table!Keys
<1> QED
  BY <1>1, <1>3, <1>4, <1>6, MapChanges DEF Table!Map!Change

LEMMA BeginningASort ==
  ASSUME TableInv, Table!SortBegin
  PROVE  TableInv' /\ MapStep
<1>1. /\ ~frozen /\ frozen' = frozen /\ taken = Table!NotTaken /\ taken' = array
      /\ trav.at # "on" /\ trav' = trav /\ array' = <<>> /\ hash' = hash
      /\ Shape(Table!Here) /\ \A i \in DOMAIN array : array[i] # Nil
  BY DEF Table!SortBegin, Table!Writable, TableInv, Table!ToSet
<1> DEFINE n == Len(array)
<1>2. /\ Loose(Table!Here) /\ ArrayShape(array) /\ HashShape(hash) /\ n \in Nat
      /\ DOMAIN array = 1..n /\ n <= MaxPosition /\ array \in Seq(Entries)
      /\ \A k \in Table!HashKeys(hash) : k \notin 1..n + 1
      /\ Table!Here = [array |-> array, hash |-> hash]
  BY <1>1, ShapeParts, ArrayParts DEF Table!Here
<1>3. Shape(Table!Here')
  <2>1. 1 \notin Table!HashKeys(hash)
    BY <1>2
  <2> QED
    BY <1>1, <1>2, <2>1, EmptyTable DEF Table!Here
<1>4. OutToSort'
  BY <1>1, <1>2 DEF OutToSort
<1>5. TableInv'
  BY <1>1, <1>3, <1>4, OutsideTraversal
<1>6. array # Table!NotTaken
  <2>1. Len(Table!NotTaken) = 1 /\ Table!NotTaken[1] = Nil
    BY DEF Table!NotTaken
  <2> QED
    BY <1>1, <1>2, <2>1
<1>7. ASSUME NEW k \in Table!Keys
      PROVE  /\ k \in 1..n => Table!Get(k) = array[k]
             /\ Table!Get(k)' = IF k \in 1..n THEN Nil ELSE Table!Get(k)
  <2>1. Table!Get(k)' = Table!HashGet(hash, k)
    BY <1>1 DEF Table!Get, Table!Here, Table!Entry
  <2>2. k \in 1..n => Table!Get(k) = array[k] /\ k \notin Table!HashKeys(hash)
    BY <1>2 DEF Table!Get, Table!Here, Table!Entry
  <2>3. k \notin 1..n => Table!Get(k) = Table!HashGet(hash, k)
    BY <1>2 DEF Table!Get, Table!Here, Table!Entry
  <2> QED
    BY <2>1, <2>2, <2>3, NotFinding
<1>8. \A p \in 1..n : p \in Table!Keys
  BY <1>2, ArrayParts
<1>9. Table!Map!SortBegin
  <2>1. (IF taken = Table!NotTaken THEN [p \in {} |-> Nil] ELSE taken)' = array
    BY <1>1, <1>6
  <2>2. array = [p \in 1..n |-> [k \in Table!Keys |-> Table!Get(k)][p]]
    <3>1. array = [p \in 1..n |-> array[p]]
      BY <1>2
    <3>2. \A p \in 1..n : array[p] = [k \in Table!Keys |-> Table!Get(k)][p]
      BY <1>7, <1>8
    <3> HIDE DEF n
    <3> QED
      BY <3>1, <3>2
  <2>3. [k \in Table!Keys |-> Table!Get(k)]'
          = [k \in Table!Keys |-> IF k \in 1..n THEN Nil
                                  ELSE [j \in Table!Keys |-> Table!Get(j)][k]]
    BY <1>7
  <2>4. Table!Map!Keys = Table!Keys
    BY DEF Table!Map!Keys, Table!Keys
  <2> QED
    BY <1>1, <2>1, <2>2, <2>3, <2>4 DEF Table!Map!SortBegin, Table!Map!NoSort
<1> QED
  BY <1>1, <1>3, <1>5, <1>9, MapChanges DEF Table!Map!Change

LEMMA EndingASort ==
  ASSUME TableInv, Table!SortEnd
  PROVE  TableInv' /\ MapStep
<1>1. /\ ~frozen /\ frozen' = frozen /\ taken # Table!NotTaken /\ taken' = Table!NotTaken
      /\ trav.at # "on" /\ trav' = trav /\ hash' = hash
      /\ OutToSort
  BY DEF Table!SortEnd, TableInv
<1> DEFINE n == Len(taken)
<1>2. /\ ArrayShape(taken) /\ HashShape(hash) /\ n \in Nat /\ array = <<>>
      /\ DOMAIN taken = 1..n /\ n <= MaxPosition /\ taken \in Seq(Entries)
      /\ \A k \in Table!HashKeys(hash) : k \notin 1..n + 1
      /\ \A i \in 1..n : taken[i] # Nil /\ taken[i] \in Entries
  BY <1>1, ShapeParts, ArrayParts DEF OutToSort
<1>3. PICK f \in [1..n -> 1..n] : array' = [p \in 1..n |-> taken[f[p]]]
  BY <1>2 DEF Table!SortEnd
<1> HIDE DEF n
<1>4. /\ array' \in Seq(Entries) /\ Len(array') = n /\ DOMAIN array' = 1..n
      /\ \A p \in 1..n : array'[p] = taken[f[p]] /\ array'[p] # Nil
  <2>1. array' \in [1..n -> Entries]
    BY <1>2, <1>3
  <2>2. array' \in Seq(Entries) /\ Len(array') = n
    BY <1>2, <2>1
  <2> QED
    BY <1>2, <1>3, <2>1, <2>2
<1>5. Shape(Table!Here')
  <2>1. n > 0 => n \in 1..n
    BY <1>2
  <2>2. ArrayShape(array')
    BY <1>2, <1>4, <2>1 DEF ArrayShape
  <2> QED
    BY <1>1, <1>2, <1>4, <2>2, MakesShape DEF Table!Here
<1>6. TableInv'
  BY <1>1, <1>5, OutsideTraversal
<1>7. ASSUME NEW k \in Table!Keys
      PROVE  Table!Get(k)' = IF k \in 1..n THEN taken[f[k]] ELSE Table!Get(k)
  BY <1>1, <1>2, <1>4 DEF Table!Get, Table!Here, Table!Entry
<1>8. Table!Map!SortFails
  <2> DEFINE held == IF taken = Table!NotTaken THEN [p \in {} |-> Nil] ELSE taken
  <2>1. held = taken /\ held' = [p \in {} |-> Nil]
    BY <1>1
  <2>2. Table!Map!Keys = Table!Keys
    BY DEF Table!Map!Keys, Table!Keys
  <2>3. DOMAIN held = 1..n /\ f \in [DOMAIN held -> DOMAIN held]
    BY <1>2, <2>1
  <2>4. [k \in Table!Keys |-> Table!Get(k)]'
          = [k \in Table!Keys |-> IF k \in DOMAIN held THEN held[f[k]]
                                  ELSE [j \in Table!Keys |-> Table!Get(j)][k]]
    BY <1>7, <2>1, <2>3
  <2> QED
    BY <2>1, <2>2, <2>3, <2>4 DEF Table!Map!SortFails, Table!Map!NoSort
<1> QED
  BY <1>1, <1>5, <1>6, <1>8, MapChanges

LEMMA DroppingASort ==
  ASSUME TableInv, Table!SortDropped
  PROVE  TableInv' /\ MapStep
<1>1. /\ UNCHANGED <<array, hash, frozen, trav>> /\ taken' = Table!NotTaken
      /\ trav.at # "on" /\ Shape(Table!Here) /\ Table!Here' = Table!Here
  BY DEF Table!SortDropped, TableInv, Table!Here
<1>2. TableInv'
  BY <1>1, OutsideTraversal
<1>3. Table!Map!SortDropped /\ UNCHANGED <<Len(array), frozen>>
  BY <1>1 DEF Table!Map!SortDropped, Table!Map!NoSort, Table!Get
<1> QED
  BY <1>2, <1>3 DEF MapStep, Table!Map!Next

LEMMA Traversing ==
  ASSUME TableInv, Table!BeginTraversal \/ Table!Step \/ Table!EndTraversal
  PROVE  TableInv' /\ MapStep
<1>1. UNCHANGED <<array, hash, frozen, taken>>
  BY DEF Table!BeginTraversal, Table!Step, Table!EndTraversal
<1>2. /\ MapStep /\ Table!Here' = Table!Here
      /\ Shape(Table!Here') /\ (taken' = Table!NotTaken \/ OutToSort')
  BY <1>1, TableRests DEF TableInv, OutToSort
<1>3. IsTraversal(<<>>)
  BY DEF IsTraversal, Table!IsInjective
<1>4. CASE Table!BeginTraversal
  <2> DEFINE o == {k \in Table!Keys : Table!Get(k) # Nil}
  <2>1. trav' = [at |-> "on", seen |-> <<>>, owed |-> o] /\ taken' = Table!NotTaken
    BY <1>1, <1>4 DEF Table!BeginTraversal
  <2>2. \A k \in o : Has(Table!Here, k)
    BY DEF Has, Table!Get
  <2>3. Underway(Table!Here, <<>>, o)
    BY <2>2, TraversalBegins
  <2> HIDE DEF o
  <2> QED
    BY <1>2, <1>3, <2>1, <2>3 DEF TableInv
<1>5. CASE Table!EndTraversal
  BY <1>2, <1>3, <1>5 DEF Table!EndTraversal, Table!NoTraversal, TableInv
<1>6. CASE Table!Step
  <2> DEFINE s == trav.seen
             c == LastOf(s)
             x == Table!NextKey(c)
  <2>1. /\ trav.at = "on" /\ taken' = Table!NotTaken
        /\ trav = [at |-> "on", seen |-> s, owed |-> trav.owed]
        /\ IsTraversal(s) /\ Underway(Table!Here, s, trav.owed) /\ Shape(Table!Here)
    BY <1>1, <1>6 DEF Table!Step, TableInv
  <2>2. Table!Current = c
    BY DEF Table!Current, Table!Last, LastOf
  <2>3. IsAnswer(x, Table!Here, c)
    <3>1. c = Nil \/ Has(Table!Here, c)
      BY <2>1 DEF Underway, LastOf
    <3> QED
      BY <2>1, <3>1, Answers
  <2>4. trav' = IF x = Table!End THEN [trav EXCEPT !.at = "ended"]
                ELSE [trav EXCEPT !.seen = Append(@, x.key)]
    BY <1>6, <2>2 DEF Table!Step
  <2> HIDE DEF x, c
  <2>5. CASE x = Table!End
    <3>1. trav' = [at |-> "ended", seen |-> s, owed |-> trav.owed]
      BY <2>1, <2>4, <2>5
    <3>2. \A k : Has(Table!Here, k) => ~Ahead(Table!Here, c, k)
      <4>1. ASSUME NEW n, x = [key |-> n], IsNext(Table!Here, c, n) PROVE FALSE
        <5>1. n # Nil
          BY <2>1, <4>1, Having DEF IsNext
        <5>2. x.key = n /\ x.key = Nil
          BY <2>5, <4>1 DEF Table!End
        <5> QED
          BY <5>1, <5>2
      <4> QED
        BY <2>3, <4>1 DEF IsAnswer
    <3>3. trav.owed \subseteq Table!ToSet(s)
      BY <2>1, <3>2, TraversalEnds DEF c
    <3> QED
      BY <1>2, <2>1, <3>1, <3>3 DEF TableInv
  <2>6. CASE x # Table!End
    <3>1. PICK n : x = [key |-> n] /\ IsNext(Table!Here, c, n)
      BY <2>3, <2>6 DEF IsAnswer
    <3>2. trav' = [at |-> "on", seen |-> Append(s, n), owed |-> trav.owed]
      BY <2>1, <2>4, <2>6, <3>1
    <3>3. /\ IsTraversal(Append(s, n))
          /\ Underway(Table!Here, Append(s, n), trav.owed)
      BY <2>1, <3>1, TraversalGives DEF c
    <3> QED
      BY <1>2, <2>1, <3>2, <3>3 DEF TableInv
  <2> QED
    BY <2>5, <2>6
<1> QED
  BY <1>2, <1>4, <1>5, <1>6

LEMMA TableSteps ==
  ASSUME TableInv, Table!Next
  PROVE  TableInv' /\ MapStep
<1>1. ASSUME NEW v \in Values \cup {Nil} PROVE v \in Entries
  BY DEF Entries
<1> QED
  BY <1>1, SettingAnEntry, InsertingAnEntry, RemovingAnEntry, ClearingTheTable,
     TableFreezes, BeginningASort, EndingASort, DroppingASort, Traversing DEF Table!Next

LEMMA TableStutters ==
  ASSUME TableInv, UNCHANGED tableVars
  PROVE  TableInv' /\ MapStep
<1>1. UNCHANGED <<array, hash, frozen, taken, trav>>
  BY DEF tableVars
<1>2. MapStep /\ Table!Here' = Table!Here
  BY <1>1, TableRests
<1> QED
  BY <1>1, <1>2 DEF TableInv, OutToSort

LEMMA TablesStay ==
  /\ Init => TableInv /\ Table!Map!Init
  /\ TableInv /\ [Next]_vars => TableInv' /\ MapStep
<1>1. Init => TableInv /\ Table!Map!Init
  BY TableStart DEF Init
<1>2. ASSUME TableInv, [Next]_vars PROVE TableInv' /\ MapStep
  <2>1. Table!Next \/ UNCHANGED tableVars
    BY <1>2 DEF Next, vars
  <2> QED
    BY <1>2, <2>1, TableSteps, TableStutters
<1> QED
  BY <1>1, <1>2

(* Whatever raw_set, insert, remove, clear and sort do to the two parts of *)
(* a table, it stays the map TableMap specifies: every step is one of its  *)
(* steps, and raw_len is a border after it.                                *)
THEOREM TablesAreMaps == Spec => IsMap
<1>1. Init => TableInv /\ Table!Map!Init
  BY TablesStay
<1>2. TableInv /\ [Next]_vars => TableInv' /\ [Table!Map!Next]_Table!Map!vars
  BY TablesStay DEF MapStep
<1> QED
  BY <1>1, <1>2, PTL DEF Spec, IsMap, Table!IsMap, Table!Map!Spec

(* A traversal gives every entry that stays, and none twice, while entries *)
(* are changed and cleared under it.                                       *)
THEOREM TraversalsComplete == Spec => []TraversalIsComplete
<1>1. Init => TableInv
  BY TablesStay
<1>2. TableInv /\ [Next]_vars => TableInv'
  BY TablesStay
<1>3. TableInv => TraversalIsComplete
  BY DEF TableInv, IsTraversal, TraversalIsComplete, Table!TraversalIsComplete
<1> QED
  BY <1>1, <1>2, <1>3, PTL DEF Spec

LEMMA Quotient ==
  ASSUME NEW s \in Nat, NEW d \in Nat \ {0}
  PROVE  /\ s \div d \in Nat
         /\ d * (s \div d) <= s /\ s < d * (s \div d) + d
OBVIOUS

LEMMA Multiples ==
  ASSUME NEW a \in Int, NEW b \in Int, NEW d \in Nat, a <= b
  PROVE  a * d <= b * d
<1>1. (b - a) * d >= 0
  OBVIOUS
<1>2. (b - a) * d = b * d - a * d
  OBVIOUS
<1>3. a * d \in Int /\ b * d \in Int
  OBVIOUS
<1> QED
  BY <1>1, <1>2, <1>3

LEMMA Dividing ==
  ASSUME NEW s \in Nat, NEW d \in Nat \ {0}, NEW k \in Nat
  PROVE  k * d <= s <=> k <= s \div d
<1> DEFINE q == s \div d
<1>1. q \in Nat /\ q * d <= s /\ s < q * d + d
  BY Quotient
<1> HIDE DEF q
<1>2. CASE k <= q
  <2>1. k * d <= q * d
    BY <1>1, <1>2, Multiples
  <2>2. k * d \in Int /\ q * d \in Int
    BY <1>1
  <2> QED
    BY <1>1, <1>2, <2>1, <2>2 DEF q
<1>3. CASE k > q
  <2>1. (q + 1) * d <= k * d
    BY <1>1, <1>3, Multiples
  <2>2. k * d \in Int /\ q * d \in Int /\ (q + 1) * d = q * d + d
    BY <1>1
  <2> QED
    BY <1>1, <1>3, <2>1, <2>2 DEF q
<1> QED
  BY <1>1, <1>2, <1>3

------------------------------- (* Numeric for *) ----------------------------
Ints == Loop!MinInt..MaxInt

LoopTypes ==
  /\ start.n \in Ints /\ limit.n \in Ints /\ step.n \in Ints /\ counter.n \in Int
  /\ seen \in Seq(Int)

(* The loop variable is at its turn of the range, and has been at the       *)
(* turns before.                                                           *)
LoopInv ==
  /\ LoopTypes
  /\ Loop!EndFits
  /\ \A i \in DOMAIN seen : seen[i] = start.n + (i - 1) * step.n
  /\ phase = "prep" => seen = <<>> /\ counter.n = start.n
  /\ phase \in {"body", "broken"} =>
       /\ step.n # 0 /\ Len(seen) \in 1..Loop!Turns
       /\ counter.n = start.n + (Len(seen) - 1) * step.n
  /\ phase = "done" => Len(seen) = Loop!Turns
  /\ phase \in {"prep", "body", "broken", "done", "raised"}

LEMMA LargestInteger == MaxInt \in Nat
  BY VmAssumption DEF Loop!ForAssumption

LEMMA Wrapping ==
  ASSUME NEW n \in Ints
  PROVE  Loop!Wrap(n) = n
<1> DEFINE m == MaxInt + 1
<1>1. m \in Nat \ {0} /\ Loop!MinInt = -m /\ n \in -m..m - 1
  BY LargestInteger DEF Ints, Loop!MinInt
<1>2. Loop!Wrap(n) = ((n + m) % (2 * m)) - m
  <2>1. n - Loop!MinInt = n + m /\ MaxInt - Loop!MinInt + 1 = 2 * m
    BY <1>1, LargestInteger
  <2> QED
    BY <1>1, <2>1 DEF Loop!Wrap
<1> HIDE DEF m
<1>3. n + m \in 0..2 * m - 1 /\ 2 * m \in Nat \ {0}
  BY <1>1
<1>4. (n + m) % (2 * m) = n + m
  BY <1>3
<1> QED
  BY <1>1, <1>2, <1>4

(* Whether the operands leave a turn after the first k. *)
LEMMA AnotherTurn ==
  ASSUME NEW a \in Int, NEW b \in Int, NEW d \in Int, d # 0, NEW k \in Nat,
         LET span == IF d > 0 THEN b - a ELSE a - b
             stride == IF d > 0 THEN d ELSE -d
             turns == IF span < 0 THEN 0 ELSE span \div stride + 1
         IN k <= turns /\ (k = 0 \/ turns > 0)
  PROVE  LET span == IF d > 0 THEN b - a ELSE a - b
             stride == IF d > 0 THEN d ELSE -d
             turns == IF span < 0 THEN 0 ELSE span \div stride + 1
             next == a + k * d
         IN /\ turns \in Nat
            /\ (IF d > 0 THEN next <= b ELSE next >= b) <=> k < turns
<1> DEFINE span == IF d > 0 THEN b - a ELSE a - b
           stride == IF d > 0 THEN d ELSE -d
           turns == IF span < 0 THEN 0 ELSE span \div stride + 1
           next == a + k * d
<1>1. /\ span \in Int /\ stride \in Nat \ {0}
      /\ next \in Int /\ k * stride \in Int
  OBVIOUS
<1>2. (IF d > 0 THEN next <= b ELSE next >= b) <=> k * stride <= span
  <2>1. CASE d > 0
    <3>1. k * d \in Int
      OBVIOUS
    <3> QED
      BY <2>1, <3>1
  <2>2. CASE d < 0
    <3>1. k * d \in Int /\ k * (-d) = -(k * d)
      OBVIOUS
    <3> QED
      BY <2>2, <3>1
  <2> QED
    BY <2>1, <2>2
<1>3. k <= turns /\ (k = 0 \/ turns > 0)
  OBVIOUS
<1> HIDE DEF next, stride
<1>4. CASE span < 0
  <2>1. turns = 0 /\ k = 0
    BY <1>1, <1>3, <1>4
  <2> HIDE DEF span
  <2>2. ~(k * stride <= span)
    BY <1>1, <1>4, <2>1
  <2> QED
    BY <1>2, <2>1, <2>2 DEF span, next, stride
<1>5. CASE span >= 0
  <2>1. turns = span \div stride + 1
    BY <1>1, <1>5
  <2> HIDE DEF turns, span
  <2>2. span \div stride \in Nat /\ (k * stride <= span <=> k <= span \div stride)
    BY <1>1, <1>5, Quotient, Dividing
  <2>3. turns \in Nat /\ (k * stride <= span <=> k < turns)
    BY <2>1, <2>2
  <2> QED
    BY <1>2, <2>3 DEF turns, span, next, stride
<1> QED
  BY <1>1, <1>4, <1>5

LEMMA LoopStarts == ASSUME Loop!Init PROVE LoopInv
<1>1. \A o \in Loop!Operands : o.n \in Ints
  BY LargestInteger DEF Loop!Operands, Loop!Integer, Loop!Float, Ints, Loop!MinInt
<1>2. Ints \subseteq Int
  BY LargestInteger DEF Ints, Loop!MinInt
<1>3. counter \in Loop!Operands /\ limit \in Loop!Operands /\ step \in Loop!Operands
  BY DEF Loop!Init
<1>4. counter.n \in Ints /\ limit.n \in Ints /\ step.n \in Ints
  BY <1>1, <1>3
<1>5. start = counter /\ seen = <<>> /\ phase = "prep"
  BY DEF Loop!Init
<1>6. seen \in Seq(Int) /\ DOMAIN seen = {}
  BY <1>5
<1>7. LoopTypes
  BY <1>2, <1>4, <1>5, <1>6 DEF LoopTypes
<1>8. Loop!EndFits
  BY DEF Loop!Init
<1> QED
  BY <1>5, <1>6, <1>7, <1>8 DEF LoopInv

(* The turns, and what decides of the next one. *)
LEMMA TurnsLeft ==
  ASSUME LoopTypes, step.n # 0, NEW k \in Nat,
         k <= Loop!Turns, k = 0 \/ Loop!Turns > 0
  PROVE  LET next == start.n + k * step.n IN
         /\ Loop!Turns \in Nat
         /\ (IF step.n > 0 THEN next <= limit.n ELSE next >= limit.n) <=> k < Loop!Turns
<1>1. start.n \in Int /\ limit.n \in Int /\ step.n \in Int
  BY LargestInteger DEF LoopTypes, Ints, Loop!MinInt
<1> QED
  BY <1>1, AnotherTurn DEF Loop!Turns

LEMMA Prepares ==
  ASSUME LoopInv, Loop!Prep
  PROVE  LoopInv'
<1>1. /\ phase = "prep" /\ seen = <<>> /\ counter.n = start.n /\ LoopTypes /\ start' = start
  BY DEF LoopInv, Loop!Prep
<1>2. CASE phase' = "raised" /\ UNCHANGED <<counter, limit, step, seen>>
  <2>1. Loop!EndFits'
    BY <1>1, <1>2 DEF LoopInv, Loop!EndFits, Loop!AllIntegers, Loop!Operand, Loop!Turns
  <2> QED
    BY <1>1, <1>2, <2>1 DEF LoopInv, LoopTypes
<1>3. CASE /\ step.n # 0
           /\ IF Loop!AllIntegers THEN UNCHANGED <<counter, limit, step>>
              ELSE /\ counter' = Loop!Float(counter.n)
                   /\ limit' = Loop!Float(limit.n)
                   /\ step' = Loop!Float(step.n)
           /\ Loop!Enter(IF step.n > 0 THEN counter.n > limit.n ELSE counter.n < limit.n)
  <2>1. counter'.n = counter.n /\ limit'.n = limit.n /\ step'.n = step.n
    BY <1>3 DEF Loop!Float
  <2>2. Loop!AllIntegers' => Loop!AllIntegers
    <3>1. CASE Loop!AllIntegers
      BY <3>1
    <3>2. CASE ~Loop!AllIntegers
      <4>1. counter'.type = "float"
        BY <1>3, <3>2 DEF Loop!Float
      <4> QED
        BY <4>1 DEF Loop!AllIntegers, Loop!Operand
    <3> QED
      BY <3>1, <3>2
  <2>3. Loop!Turns' = Loop!Turns
    BY <1>1, <2>1 DEF Loop!Turns
  <2>4. Loop!EndFits'
    BY <1>1, <2>1, <2>2, <2>3 DEF LoopInv, Loop!EndFits
  <2>5. start.n \in Int /\ limit.n \in Int /\ step.n \in Int
    BY <1>1, LargestInteger DEF LoopTypes, Ints, Loop!MinInt
  <2>6. /\ Loop!Turns \in Nat
        /\ (IF step.n > 0 THEN start.n <= limit.n ELSE start.n >= limit.n) <=> 0 < Loop!Turns
    <3>1. Loop!Turns \in Nat
      <4>1. ASSUME NEW x \in Nat, NEW y \in Nat \ {0} PROVE x \div y \in Nat
        BY Quotient
      <4> QED
        BY <1>3, <2>5, <4>1 DEF Loop!Turns
    <3>2. start.n + 0 * step.n = start.n
      BY <2>5
    <3> QED
      BY <1>1, <1>3, <3>1, <3>2, TurnsLeft
  <2>7. CASE phase' = "done" /\ seen' = <<>>
    <3>1. Loop!Turns = 0
      BY <1>1, <1>3, <2>5, <2>6, <2>7 DEF Loop!Enter
    <3> QED
      BY <1>1, <2>1, <2>3, <2>4, <2>5, <2>7, <3>1 DEF LoopInv, LoopTypes
  <2>8. CASE phase' = "body" /\ seen' = <<counter.n>>
    <3>1. Loop!Turns > 0
      BY <1>1, <1>3, <2>5, <2>6, <2>8 DEF Loop!Enter
    <3>2. /\ seen' \in Seq(Int) /\ Len(seen') = 1 /\ DOMAIN seen' = {1} /\ seen'[1] = start.n
      BY <1>1, <2>5, <2>8
    <3>3. (1 - 1) * step.n = 0 /\ start.n + 0 = start.n
      BY <2>5
    <3>4. \A i \in DOMAIN seen' : seen'[i] = start'.n + (i - 1) * step'.n
      BY <1>1, <2>1, <3>2, <3>3
    <3>5. counter'.n = start'.n + (Len(seen') - 1) * step'.n
      BY <1>1, <2>1, <3>2, <3>3
    <3>6. LoopTypes'
      BY <1>1, <2>1, <2>5, <3>2 DEF LoopTypes
    <3> QED
      BY <1>3, <2>1, <2>3, <2>4, <2>6, <2>8, <3>1, <3>2, <3>4, <3>5, <3>6 DEF LoopInv
  <2>9. ASSUME NEW skip, Loop!Enter(skip)
        PROVE  \/ phase' = "done" /\ seen' = seen
               \/ phase' = "body" /\ seen' = <<counter.n>>
    <3>1. CASE skip
      BY <2>9, <3>1 DEF Loop!Enter
    <3>2. CASE ~skip
      BY <2>9, <3>2 DEF Loop!Enter
    <3> QED
      BY <3>1, <3>2
  <2> QED
    BY <1>1, <1>3, <2>7, <2>8, <2>9
<1> QED
  BY <1>2, <1>3 DEF Loop!Prep

LEMMA Steps ==
  ASSUME LoopInv, Loop!Step
  PROVE  LoopInv'
<1> DEFINE k == Len(seen)
           next == start.n + k * step.n
<1>1. /\ phase = "body" /\ UNCHANGED <<limit, step, start>> /\ step.n # 0 /\ LoopTypes
      /\ k \in 1..Loop!Turns /\ counter.n = start.n + (k - 1) * step.n
  BY DEF LoopInv, Loop!Step
<1>2. /\ start.n \in Int /\ limit.n \in Int /\ step.n \in Int /\ counter.n \in Int
      /\ start.n \in Ints /\ Ints \subseteq Int
  BY <1>1, LargestInteger DEF LoopTypes, Ints, Loop!MinInt
<1>3. k \in Nat /\ k <= Loop!Turns /\ Loop!Turns > 0
  <2>1. Loop!Turns \in Int
    <3>1. ASSUME NEW x \in Nat, NEW y \in Nat \ {0} PROVE x \div y \in Nat
      BY Quotient
    <3> QED
      BY <1>1, <1>2, <3>1, SMTT(30) DEF Loop!Turns
  <2> QED
    BY <1>1, <2>1
<1>4. /\ Loop!Turns \in Nat
      /\ (IF step.n > 0 THEN next <= limit.n ELSE next >= limit.n) <=> k < Loop!Turns
  BY <1>1, <1>3, TurnsLeft
<1>5. counter.n + step.n = next /\ next \in Int
  <2>1. (k - 1) * step.n + step.n = k * step.n /\ (k - 1) * step.n \in Int /\ k * step.n \in Int
    BY <1>2, <1>3
  <2> QED
    BY <1>1, <1>2, <2>1
<1>6. Loop!AllIntegers => next \in Ints
  <2> SUFFICES ASSUME Loop!AllIntegers PROVE next \in Ints
    OBVIOUS
  <2> DEFINE end == start.n + Loop!Turns * step.n
  <2>1. end \in Ints
    BY <1>1 DEF LoopInv, Loop!EndFits, Ints
  <2>2. CASE step.n > 0
    <3>1. 0 * step.n <= k * step.n /\ k * step.n <= Loop!Turns * step.n
      BY <1>2, <1>3, <1>4, <2>2, Multiples, SMTT(30)
    <3>2. 0 * step.n = 0 /\ k * step.n \in Int /\ Loop!Turns * step.n \in Int
      BY <1>2, <1>3, <1>4
    <3>3. start.n <= next /\ next <= end /\ end \in Int
      BY <1>2, <3>1, <3>2
    <3> HIDE DEF next, end
    <3> QED
      BY <1>2, <1>5, <2>1, <3>3, LargestInteger DEF Ints, Loop!MinInt
  <2>3. CASE step.n < 0
    <3>1. 0 * (-step.n) <= k * (-step.n) /\ k * (-step.n) <= Loop!Turns * (-step.n)
      BY <1>2, <1>3, <1>4, <2>3, Multiples
    <3>2. /\ 0 * (-step.n) = 0 /\ k * step.n \in Int /\ Loop!Turns * step.n \in Int
          /\ k * (-step.n) = -(k * step.n) /\ Loop!Turns * (-step.n) = -(Loop!Turns * step.n)
      BY <1>2, <1>3, <1>4
    <3>3. start.n >= next /\ next >= end /\ end \in Int
      BY <1>2, <3>1, <3>2
    <3> HIDE DEF next, end
    <3> QED
      BY <1>2, <1>5, <2>1, <3>3, LargestInteger DEF Ints, Loop!MinInt
  <2> QED
    BY <1>1, <1>2, <2>2, <2>3
<1> HIDE DEF next, k
<1>7. counter'.n = next /\ (Loop!AllIntegers' => Loop!AllIntegers)
  <2>1. CASE Loop!AllIntegers
    <3>1. counter' = Loop!Integer(Loop!Wrap(next))
      BY <1>5, <2>1 DEF Loop!Step
    <3>2. Loop!Wrap(next) = next
      BY <1>6, <2>1, Wrapping
    <3> QED
      BY <2>1, <3>1, <3>2 DEF Loop!Integer
  <2>2. CASE ~Loop!AllIntegers
    <3>1. counter' = Loop!Float(next)
      BY <1>5, <2>2 DEF Loop!Step
    <3>2. counter'.type = "float" /\ counter'.n = next
      BY <3>1 DEF Loop!Float
    <3> QED
      BY <3>2 DEF Loop!AllIntegers, Loop!Operand
  <2> QED
    BY <2>1, <2>2
<1>8. Loop!Turns' = Loop!Turns /\ Loop!EndFits'
  <2>1. Loop!Turns' = Loop!Turns
    BY <1>1 DEF Loop!Turns
  <2> QED
    BY <1>1, <1>7, <2>1 DEF LoopInv, Loop!EndFits
<1>9. CASE phase' = "body" /\ seen' = Append(seen, next)
  <2>1. k < Loop!Turns
    <3>1. CASE Loop!AllIntegers
      <4>1. Loop!Integer(Loop!Wrap(next)).n = next
        BY <1>6, <3>1, Wrapping DEF Loop!Integer
      <4> QED
        BY <1>4, <1>5, <1>9, <3>1, <4>1 DEF Loop!Step
    <3>2. CASE ~Loop!AllIntegers
      <4>1. Loop!Float(next).n = next
        BY DEF Loop!Float
      <4> QED
        BY <1>4, <1>5, <1>9, <3>2, <4>1 DEF Loop!Step
    <3> QED
      BY <3>1, <3>2
  <2>2. /\ seen' \in Seq(Int) /\ Len(seen') = k + 1 /\ DOMAIN seen' = 1..k + 1
        /\ \A i \in 1..k : seen'[i] = seen[i]
        /\ seen'[k + 1] = next
    BY <1>1, <1>5, <1>9 DEF LoopTypes, k
  <2>3. \A i \in DOMAIN seen' : seen'[i] = start'.n + (i - 1) * step'.n
    <3> SUFFICES ASSUME NEW i \in 1..k + 1
                 PROVE  seen'[i] = start.n + (i - 1) * step.n
      BY <1>1, <2>2
    <3>1. CASE i \in 1..k
      <4>1. i \in DOMAIN seen
        BY <1>1, <3>1 DEF LoopTypes, k
      <4> QED
        BY <2>2, <3>1, <4>1 DEF LoopInv
    <3>2. CASE i = k + 1
      <4>1. i - 1 = k
        BY <1>3, <3>2
      <4> QED
        BY <2>2, <3>2, <4>1 DEF next
    <3> QED
      BY <1>3, <3>1, <3>2
  <2>4. counter'.n = start'.n + (Len(seen') - 1) * step'.n
    <3>1. Len(seen') - 1 = k
      BY <1>3, <2>2
    <3> QED
      BY <1>1, <1>7, <3>1 DEF next
  <2>5. LoopTypes'
    BY <1>1, <1>5, <1>7, <2>2 DEF LoopTypes
  <2>6. Len(seen') \in 1..Loop!Turns'
    BY <1>3, <1>4, <1>8, <2>1, <2>2
  <2> QED
    BY <1>1, <1>8, <1>9, <2>3, <2>4, <2>5, <2>6 DEF LoopInv
<1>10. CASE phase' = "done" /\ seen' = seen
  <2>1. ~(k < Loop!Turns)
    <3>1. CASE Loop!AllIntegers
      <4>1. Loop!Integer(Loop!Wrap(next)).n = next
        BY <1>6, <3>1, Wrapping DEF Loop!Integer
      <4> QED
        BY <1>4, <1>5, <1>10, <3>1, <4>1 DEF Loop!Step
    <3>2. CASE ~Loop!AllIntegers
      <4>1. Loop!Float(next).n = next
        BY DEF Loop!Float
      <4> QED
        BY <1>4, <1>5, <1>10, <3>2, <4>1 DEF Loop!Step
    <3> QED
      BY <3>1, <3>2
  <2>2. Len(seen') = Loop!Turns'
    BY <1>3, <1>4, <1>8, <1>10, <2>1 DEF k
  <2>3. LoopTypes'
    BY <1>1, <1>5, <1>7, <1>10 DEF LoopTypes
  <2>4. \A i \in DOMAIN seen' : seen'[i] = start'.n + (i - 1) * step'.n
    BY <1>1, <1>10 DEF LoopInv
  <2> QED
    BY <1>8, <1>10, <2>2, <2>3, <2>4 DEF LoopInv
<1>11. \/ phase' = "body" /\ seen' = Append(seen, next)
       \/ phase' = "done" /\ seen' = seen
  <2>1. CASE Loop!AllIntegers
    <3>1. Loop!Integer(Loop!Wrap(next)).n = next
      BY <1>6, <2>1, Wrapping DEF Loop!Integer
    <3> QED
      BY <1>5, <2>1, <3>1 DEF Loop!Step
  <2>2. CASE ~Loop!AllIntegers
    <3>1. Loop!Float(next).n = next
      BY DEF Loop!Float
    <3> QED
      BY <1>5, <2>2, <3>1 DEF Loop!Step
  <2> QED
    BY <2>1, <2>2
<1> QED
  BY <1>9, <1>10, <1>11

LEMMA Breaks ==
  ASSUME LoopInv, Loop!Break
  PROVE  LoopInv'
<1>1. UNCHANGED <<counter, limit, step, start, seen>> /\ phase = "body" /\ phase' = "broken"
  BY DEF Loop!Break
<1>2. Loop!Turns' = Loop!Turns /\ Loop!EndFits'
  BY <1>1 DEF LoopInv, Loop!EndFits, Loop!AllIntegers, Loop!Operand, Loop!Turns
<1>3. LoopTypes'
  BY <1>1 DEF LoopInv, LoopTypes
<1> QED
  BY <1>1, <1>2, <1>3 DEF LoopInv

LEMMA LoopRests ==
  ASSUME LoopInv, UNCHANGED loopVars
  PROVE  LoopInv'
BY DEF loopVars, LoopInv, LoopTypes, Loop!EndFits, Loop!AllIntegers, Loop!Operand, Loop!Turns

LEMMA LoopCounts ==
  ASSUME LoopInv PROVE Loop!CountsTheRange
BY DEF LoopInv, LoopTypes, Loop!CountsTheRange

(* The loop variable takes exactly the values of the range, whatever the   *)
(* operands are, and the loop stops after the last one: for_prep and       *)
(* for_step for integers of every width.                                   *)
THEOREM CountsEveryRange == Spec => []CountsTheRange
<1> DEFINE Inv == part = "for" => LoopInv
<1>1. Init => Inv
  BY LoopStarts DEF Init
<1>2. Inv /\ [Next]_vars => Inv'
  <2> SUFFICES ASSUME part' = "for", LoopInv \/ part # "for", [Next]_vars
               PROVE  LoopInv'
    OBVIOUS
  <2>1. part = "for" /\ LoopInv /\ (Loop!Next \/ UNCHANGED loopVars)
    BY DEF Next, vars
  <2> QED
    BY <2>1, Prepares, Steps, Breaks, LoopRests DEF Loop!Next
<1>3. Inv => CountsTheRange
  BY LoopCounts DEF CountsTheRange
<1> QED
  BY <1>1, <1>2, <1>3, PTL DEF Spec
=============================================================================
