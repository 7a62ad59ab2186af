---------------------------- MODULE MCDailyReport ----------------------------
(* Small instances of DailyReport for TLC. *)
EXTENDS DailyReport, TLC

CONSTANTS c1, p1

JustOne == c1 :> p1
=============================================================================
