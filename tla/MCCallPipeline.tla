---------------------------- MODULE MCCallPipeline ----------------------------
(* Small instances of CallPipeline for TLC. *)
EXTENDS CallPipeline, TLC

CONSTANTS c1, c2, c3, s1, h1, h2

OneCandidate  == {c1}
TwoCandidates == {c1, c2}
ThreeCandidates == {c1, c2, c3}
OneSlot  == {s1}
OneHandler  == {h1}
TwoHandlers == {h1, h2}

\* Everything goes wrong that can.
EveryFault == FaultKinds

\* Reports arrive at most once, and POSTs are not repeated; the rest may go wrong.
OnceDelivered == FaultKinds \ {"redelivery", "dial_retry", "crm_retry"}

NoAnswer == {"no_answer"}

\* Requests are served alike.
Symmetry == Permutations(Handler)
=============================================================================
