----------------------------- MODULE MCRunQueue -----------------------------
(* Instances of RunQueue small enough for TLC. *)
EXTENDS RunQueue

CONSTANTS w1, w2, i1, i2, r1, r2, pairA, client, persona1, persona2

\* Every item, and every request, runs the same prompt on the same model.
OnePair == [i \in Items |-> pairA]
OneClient == [p \in Pairs |-> client]
SamePersona == [i \in Items |-> persona1]
OwnPersona == [i \in Items |-> IF i = i1 THEN persona1 ELSE persona2]
SamePriority == [i \in Items |-> 0]
FirstIsUrgent == [i \in Items |-> IF i = i1 THEN 1 ELSE 0]

OneStep == <<1>>
EvenSteps == <<2, 2>>
=============================================================================
