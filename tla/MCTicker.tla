------------------------------ MODULE MCTicker ------------------------------
(* Instances of Ticker small enough for TLC. *)
EXTENDS Ticker, TLC

CONSTANTS w1, w2, e1, s1, c1, c2, odd, even

\* Two rules that never fire at the same time; both go on beyond the horizon.
TwoRules == [rule \in Rules |-> IF rule = odd THEN {1, 3, 5, 7} ELSE {2, 4, 6}]

\* A schedule ends after two occurrences or after time 4.
TwoLimits == {[end |-> 0, max |-> 2], [end |-> 4, max |-> 0]}

\* The target has one or two active combinations.
OneOrTwo == {{c1}, {c1, c2}}
OnlyOne == {{c1}}

WorkersAreAlike == Permutations(Workers)
=============================================================================
