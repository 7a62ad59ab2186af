-------------------------- MODULE MCKeyCrmBootstrap --------------------------
(* Small instances of KeyCrmBootstrap for TLC. *)
EXTENDS KeyCrmBootstrap

CONSTANTS s1, s2, f1

TwoStages == {s1, s2}
OneField  == {f1}
=============================================================================
