----------------------------- MODULE NumericFor -----------------------------
(***************************************************************************)
(* The numeric for of compile_numeric_for (lower.rs): three registers, a   *)
(* ForPrep before the loop and a ForStep at its end, which for_prep and    *)
(* for_step of task.rs execute.  Integers wrap at MaxInt, which is one     *)
(* less than a power of two; floats, numerals among them, are integral     *)
(* here and exact.                                                         *)
(***************************************************************************)
EXTENDS Integers, Sequences

CONSTANTS MaxInt,      \* the largest integer, 2^63 - 1 in the code
          Overflows    \* whether loops whose index leaves the integers are in

ForAssumption == MaxInt \in Nat /\ Overflows \in BOOLEAN

MinInt == -MaxInt - 1
Wrap(n) == ((n - MinInt) % (MaxInt - MinInt + 1)) + MinInt

Integer(n) == [type |-> "integer", n |-> n]
Float(n) == [type |-> "float", n |-> n]
Operands == {Integer(n) : n \in MinInt..MaxInt} \cup {Float(n) : n \in MinInt..MaxInt}
            \cup {[type |-> "other", n |-> 0]}

VARIABLES counter, limit, step,    \* the registers base, base + 1, base + 2
          phase,                   \* "prep", "body", "done", "broken", "raised"
          start,                   \* what counter was at the start
          seen                     \* what the loop variable has been

vars == <<counter, limit, step, phase, start, seen>>

Operand == {counter, limit, step}
AllIntegers == \A v \in Operand : v.type = "integer"

\* The turns the loop has by its operands.
Turns == LET span == IF step.n > 0 THEN limit.n - start.n ELSE start.n - limit.n
             stride == IF step.n > 0 THEN step.n ELSE -step.n
         IN IF span < 0 THEN 0 ELSE span \div stride + 1

\* The index that ends an integer loop is one, too.
EndFits == AllIntegers /\ step.n # 0 => start.n + Turns * step.n \in MinInt..MaxInt

Init == /\ counter \in Operands /\ limit \in Operands /\ step \in Operands
        /\ start = counter
        /\ phase = "prep"
        /\ seen = <<>>
        /\ Overflows \/ EndFits

Enter(skip) == /\ phase' = IF skip THEN "done" ELSE "body"
               /\ seen' = IF skip THEN seen ELSE <<counter.n>>

\* Fault variant of Prep: a counter that is at its limit skips the loop.
PrepExclusive ==
    /\ phase = "prep"
    /\ step.n # 0 /\ \A v \in Operand : v.type # "other"
    /\ Enter(IF step.n > 0 THEN counter.n >= limit.n ELSE counter.n <= limit.n)
    /\ UNCHANGED <<counter, limit, step, start>>

\* for_prep: integers stay integers if all three are, else all are floats.
Prep == /\ phase = "prep"
        /\ \/ /\ step.n = 0 \/ \E v \in Operand : v.type = "other"
              /\ phase' = "raised"
              /\ UNCHANGED <<counter, limit, step, seen>>
           \/ /\ step.n # 0 /\ \A v \in Operand : v.type # "other"
              /\ IF AllIntegers THEN UNCHANGED <<counter, limit, step>>
                 ELSE /\ counter' = Float(counter.n)
                      /\ limit' = Float(limit.n)
                      /\ step' = Float(step.n)
              /\ Enter(IF step.n > 0 THEN counter.n > limit.n ELSE counter.n < limit.n)
        /\ UNCHANGED start

\* for_step, then the Move of the counter to the loop variable.  Bound: a loop
\* that has wrapped is followed to one turn too many.
Step == LET next == IF AllIntegers THEN Integer(Wrap(counter.n + step.n))
                    ELSE Float(counter.n + step.n)
            continue == IF step.n > 0 THEN next.n <= limit.n ELSE next.n >= limit.n
        IN
        /\ phase = "body" /\ Len(seen) <= Turns
        /\ counter' = next
        /\ phase' = IF continue THEN "body" ELSE "done"
        /\ seen' = IF continue THEN Append(seen, next.n) ELSE seen
        /\ UNCHANGED <<limit, step, start>>

\* break leaves for the instruction after ForStep.
Break == phase = "body" /\ phase' = "broken" /\ UNCHANGED <<counter, limit, step, start, seen>>

Next == Prep \/ Step \/ Break

Spec == Init /\ [][Next]_vars

\* "Steps a counter through a range": the loop variable is start, start + step
\* and so on, never beyond the limit, and the loop ends by itself after the
\* last of them, whatever mix of integers and floats it was given.
CountsTheRange ==
    /\ \A i \in DOMAIN seen : seen[i] = start.n + (i - 1) * step.n
    /\ phase \in {"body", "broken"} => Len(seen) <= Turns
    /\ phase = "done" => Len(seen) = Turns
=============================================================================
