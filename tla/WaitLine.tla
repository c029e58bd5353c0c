------------------------------ MODULE WaitLine ------------------------------
(***************************************************************************)
(* The line of those who wait for one of tokio's fair locks: a sequence in *)
(* which each stands once, and which any of them can leave.                *)
(***************************************************************************)
EXTENDS Naturals, Sequences

IsLine(line) == \A i, j \in DOMAIN line : line[i] = line[j] => i = j

StandsIn(c, line) == \E i \in DOMAIN line : line[i] = c

(* What is left of the line when c, who stands in it, goes. *)
Leave(line, c) ==
  LET place == CHOOSE i \in DOMAIN line : line[i] = c
  IN  [i \in 1..Len(line) - 1 |-> line[IF i < place THEN i ELSE i + 1]]
=============================================================================
