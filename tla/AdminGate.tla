------------------------------- MODULE AdminGate -------------------------------
(***************************************************************************)
(* The Telegram bot's switches (bot/admin.py): /pause and its like set a    *)
(* flag that the jobs of the scheduler (scheduler/dispatcher.py) look at.   *)
(*                                                                          *)
(* The module src.bot.admin keeps the flags in a dict.  The bot process and *)
(* the scheduler process each have a copy of their own, filled from a file  *)
(* when the module is imported: by the bot when it starts, by the scheduler *)
(* when its first job runs.  Whether both see the same file depends on the  *)
(* deployment: docker-compose gives each its own container.                 *)
(***************************************************************************)
CONSTANTS
  Host,       \* file systems
  BotHost,    \* where the bot runs
  JobHost,    \* where the scheduler runs
  NotLoaded,  \* a process that has not imported the module
  NoFile      \* no file

ASSUME GateHosts  == BotHost \in Host /\ JobHost \in Host

Flag  == {"calls_paused", "workua_paused"}
State == [calls_paused: BOOLEAN, workua_paused: BOOLEAN, match_score_threshold: {"default", "set"}]
Defaults == [calls_paused |-> FALSE, workua_paused |-> FALSE, match_score_threshold |-> "default"]

ASSUME NoStateValues == NotLoaded \notin State /\ NoFile \notin State

VARIABLES
  file,  \* /tmp/ai_recruiter_state.json, per file system
  bot,   \* _state in the bot
  jobs,  \* _state in the scheduler
  ran    \* the scheduler's last job, and whether it ran or was skipped

vars == <<file, bot, jobs, ran>>

NothingRan == [flag |-> "none", went |-> FALSE]
Ran == {NothingRan} \cup [flag: Flag, went: BOOLEAN]

\* Slip: the file is not read.
Ignored(content) == Defaults

\* _load_state, on import.
Loaded(content) == IF content = NoFile THEN Defaults ELSE content

Init ==
  /\ file = [h \in Host |-> NoFile]
  /\ bot = Defaults
  /\ jobs = NotLoaded
  /\ ran = NothingRan

-----------------------------------------------------------------------------
\* A command changes the dict, then the file; a failure to write is not modelled.

\* Slip: the command keeps the flag in memory only.
NotSaved(new) == bot' = new /\ UNCHANGED file

Saved(new) ==
  /\ bot' = new
  /\ file' = [file EXCEPT ![BotHost] = new]

\* /pause, /resume, /pause_workua, /resume_workua
Switch(flag, on) ==
  /\ Saved([bot EXCEPT ![flag] = on])
  /\ UNCHANGED <<jobs, ran>>

\* /set_threshold
SetThreshold ==
  /\ Saved([bot EXCEPT !.match_score_threshold = "set"])
  /\ UNCHANGED <<jobs, ran>>

\* Each starts again on its own; the files stay.
BotRestarts ==
  /\ bot' = Loaded(file[BotHost])
  /\ UNCHANGED <<file, jobs, ran>>

SchedulerRestarts ==
  /\ jobs' = NotLoaded
  /\ ran' = NothingRan
  /\ UNCHANGED <<file, bot>>

\* run_slot and poll_workua_responses: import, then look at the flag.
JobFires(flag) ==
  /\ jobs' = IF jobs = NotLoaded THEN Loaded(file[JobHost]) ELSE jobs
  /\ ran' = [flag |-> flag, went |-> ~jobs'[flag]]
  /\ UNCHANGED <<file, bot>>

Next ==
  \/ \E flag \in Flag, on \in BOOLEAN : Switch(flag, on)
  \/ SetThreshold
  \/ BotRestarts
  \/ SchedulerRestarts
  \/ \E flag \in Flag : JobFires(flag)

Spec == Init /\ [][Next]_vars
-----------------------------------------------------------------------------
\* "Persisted across restarts via STATE_PATH JSON file" (admin.py:32): a restart
\* of the bot changes no switch an administrator has set.
SwitchesSurviveRestart == [][BotRestarts => bot' = bot]_vars

\* The first job after the scheduler started obeys the switches as they are,
\* whatever was switched, and however often the bot was restarted, before.
FirstJobObeys == [][\A flag \in Flag :
  jobs = NotLoaded /\ JobFires(flag) => ran'.went = ~bot[flag]]_vars
=============================================================================
