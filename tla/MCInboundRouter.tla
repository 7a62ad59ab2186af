---------------------------- MODULE MCInboundRouter ----------------------------
(* A small instance of InboundRouter for TLC: phone numbers do not interact, so *)
(* one is enough; three requests give two that race and one that comes later,   *)
(* two verdicts one that overtakes another.                                      *)
EXTENDS InboundRouter, TLC

CONSTANTS p1, i1, i2, i3, j1, j2, poll, caller

OnePhone == {p1}
ThreeRequests == {i1, i2, i3}
TwoVerdicts == {j1, j2}
TwoSources == {poll, caller}
BothModes == BOOLEAN
EveryFault == FaultKinds

\* Requests are alike, and so are verdicts.
Symmetry == Permutations(Request) \cup Permutations(Judge)
=============================================================================
