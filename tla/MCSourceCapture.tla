-------------------------- MODULE MCSourceCapture --------------------------
(* Instances of SourceCapture small enough for TLC. *)
EXTENDS SourceCapture, TLC

CONSTANTS w1, w2, r1, r2, c1, c2, gate, page, host, archive

\* Both responses cite the page, the first through a gateway on the same host.
TwoResponses == r1 :> <<c1>> @@ r2 :> <<c2>>
ThroughGateway == c1 :> gate @@ c2 :> page
GateLeadsToPage == [u \in Urls |-> IF u = gate THEN {page} ELSE {}]
OneHost == [u \in Urls |-> host]

HasQuotes == [c \in Citations |-> "full"]
LacksFirst == [c \in Citations |-> IF c = c1 THEN "absent" ELSE "full"]
TwoTexts == {HasQuotes, LacksFirst}

Answer(status, text) ==
  [status |-> status, vendor |-> FALSE, pdf |-> FALSE, challenge |-> FALSE, text |-> text]

TwoReplies == {Answer(404, NoText), Answer(200, LacksFirst)}

WorkersAreAlike == Permutations(Processes)
=============================================================================
