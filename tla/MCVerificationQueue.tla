------------------------ MODULE MCVerificationQueue ------------------------
(* Instances of VerificationQueue small enough for TLC. *)
EXTENDS VerificationQueue, TLC

CONSTANTS w1, w2, w3, k1, k2, judged, quoted

\* One citation of a response the judge checks, two of a response with quotes.
OneAndTwo == [c \in Citations |-> IF c = 1 THEN judged ELSE quoted]
Pages == <<{"text"}, {"text"}, {"gone"}>>
ShortBackoff == <<1, 1>>

WorkersAreAlike == Permutations(Workers)
=============================================================================
