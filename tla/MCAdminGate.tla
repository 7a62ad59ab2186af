----------------------------- MODULE MCAdminGate -----------------------------
(* Small instances of AdminGate for TLC. *)
EXTENDS AdminGate

CONSTANT machine

\* Bot and scheduler run by hand, on one machine.
OneMachine == {machine}
=============================================================================
