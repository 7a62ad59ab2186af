--------------------------- MODULE AdminGateProofs ---------------------------
(***************************************************************************)
(* What holds of the Telegram switches, for any file systems: a restart of   *)
(* the bot changes none of them, and, where bot and scheduler share a file   *)
(* system, the first job after the scheduler's start obeys them.             *)
(*                                                                           *)
(* Both are about a copy and its original.  The bot's dict is what its file  *)
(* says, although no command reads the file back and a bot that has not been *)
(* given a command yet has none.                                             *)
(***************************************************************************)
EXTENDS AdminGate, TLAPS

\* A file holds a state, if there is one; the dict of the bot is what its file says.
FilesTyped == file \in [Host -> State \cup {NoFile}]
BotAsFiled == bot \in State /\ bot = Loaded(file[BotHost])

Filed == FilesTyped /\ BotAsFiled

\* What a command leaves is a state.
LEMMA StatesSwitched ==
  /\ Defaults \in State
  /\ \A st \in State : /\ \A flag \in Flag, on \in BOOLEAN : [st EXCEPT ![flag] = on] \in State
                       /\ [st EXCEPT !.match_score_threshold = "set"] \in State
<1>1. ASSUME NEW st \in State, NEW flag \in Flag, NEW on \in BOOLEAN
      PROVE  [st EXCEPT ![flag] = on] \in State
  <2>1. CASE flag = "calls_paused"
    BY <2>1 DEF State
  <2>2. CASE flag = "workua_paused"
    BY <2>2 DEF State
  <2> QED  BY <2>1, <2>2 DEF Flag
<1> QED  BY <1>1 DEF Defaults, State

\* A command saves what it has switched.
LEMMA SavedIsFiled ==
  ASSUME Filed, NEW new \in State, Saved(new) PROVE Filed'
<1>1. FilesTyped'
  BY DEF Filed, FilesTyped, Saved
<1>2. file'[BotHost] = new /\ bot' = new /\ new # NoFile
  BY GateHosts, NoStateValues DEF Filed, FilesTyped, Saved
<1>3. BotAsFiled'
  BY <1>2 DEF BotAsFiled, Loaded
<1> QED  BY <1>1, <1>3 DEF Filed

LEMMA AlwaysFiled == Spec => []Filed
<1>1. Init => Filed
  BY GateHosts, StatesSwitched DEF Init, Filed, FilesTyped, BotAsFiled, Loaded
<1>2. Filed /\ [Next]_vars => Filed'
  <2> SUFFICES ASSUME Filed, [Next]_vars PROVE Filed'
    OBVIOUS
  <2>1. ASSUME NEW flag \in Flag, NEW on \in BOOLEAN, Switch(flag, on) PROVE Filed'
    BY <2>1, SavedIsFiled, StatesSwitched DEF Switch, Filed, BotAsFiled
  <2>2. CASE SetThreshold
    BY <2>2, SavedIsFiled, StatesSwitched DEF SetThreshold, Filed, BotAsFiled
  <2>3. CASE BotRestarts
    BY <2>3 DEF BotRestarts, Filed, FilesTyped, BotAsFiled
  <2>4. ASSUME UNCHANGED <<file, bot>> PROVE Filed'
    BY <2>4 DEF Filed, FilesTyped, BotAsFiled
  <2>5. SchedulerRestarts \/ (\E flag \in Flag : JobFires(flag)) \/ UNCHANGED vars
          => UNCHANGED <<file, bot>>
    BY DEF SchedulerRestarts, JobFires, vars
  <2> QED  BY <2>1, <2>2, <2>3, <2>4, <2>5 DEF Next
<1> QED  BY <1>1, <1>2, PTL DEF Spec

\* "Persisted across restarts": the bot comes back with the switches as they were,
\* whatever was switched before and wherever the scheduler runs.
THEOREM RestartsKeepSwitches == Spec => SwitchesSurviveRestart
<1>1. Filed /\ [Next]_vars => [BotRestarts => bot' = bot]_vars
  BY DEF Filed, BotAsFiled, BotRestarts
<1> QED  BY <1>1, AlwaysFiled, PTL DEF Spec, SwitchesSurviveRestart

\* On one file system the first job reads what the bot has saved, not what there
\* was when the scheduler started.
THEOREM FirstJobSeesSwitches == ASSUME BotHost = JobHost PROVE Spec => FirstJobObeys
<1> DEFINE Obeys == \A flag \in Flag : jobs = NotLoaded /\ JobFires(flag) => ran'.went = ~bot[flag]
<1>1. Filed => Obeys
  <2> SUFFICES ASSUME Filed, NEW flag \in Flag, jobs = NotLoaded, JobFires(flag)
               PROVE  ran'.went = ~bot[flag]
    OBVIOUS
  <2>1. jobs' = bot
    BY DEF JobFires, Filed, BotAsFiled
  <2>2. ran'.went = ~jobs'[flag]
    BY DEF JobFires
  <2> QED  BY <2>1, <2>2
<1>2. Filed /\ [Next]_vars => [Obeys]_vars
  BY <1>1
<1> QED  BY <1>2, AlwaysFiled, PTL DEF Spec, FirstJobObeys

-----------------------------------------------------------------------------
\* A job that ran or was skipped was not stopped by a switch.
NothingStopsJobs == ran # NothingRan => ran.went

\* The scheduler's file system has no file of the bot's.
Unheard == /\ FilesTyped /\ file[JobHost] = NoFile
           /\ jobs \in {NotLoaded, Defaults}
           /\ NothingStopsJobs

\* In containers of their own, as deploy/docker-compose.yml starts them, no switch
\* ever reaches the scheduler: every job runs, whatever was paused and however
\* often either is restarted.
THEOREM ContainersHearNothing == ASSUME BotHost # JobHost PROVE Spec => []NothingStopsJobs
<1>1. Init => Unheard
  BY GateHosts DEF Init, Unheard, FilesTyped, NothingStopsJobs
<1>2. Unheard /\ [Next]_vars /\ Filed /\ Filed' => Unheard'
  <2> SUFFICES ASSUME Unheard, [Next]_vars, Filed, Filed' PROVE Unheard'
    OBVIOUS
  <2>1. FilesTyped'
    BY DEF Filed
  <2>2. ASSUME NEW new, Saved(new), UNCHANGED <<jobs, ran>> PROVE Unheard'
    BY <2>1, <2>2, GateHosts DEF Unheard, FilesTyped, Saved, NothingStopsJobs
  <2>3. (\E flag \in Flag, on \in BOOLEAN : Switch(flag, on)) \/ SetThreshold
          => (\E new : Saved(new)) /\ UNCHANGED <<jobs, ran>>
    BY DEF Switch, SetThreshold
  <2>4. CASE BotRestarts \/ UNCHANGED vars
    BY <2>1, <2>4 DEF Unheard, BotRestarts, vars, NothingStopsJobs
  <2>5. CASE SchedulerRestarts
    BY <2>1, <2>5 DEF Unheard, SchedulerRestarts, NothingStopsJobs
  <2>6. ASSUME NEW flag \in Flag, JobFires(flag) PROVE Unheard'
    <3>1. jobs' = Defaults /\ file' = file
      BY <2>6 DEF JobFires, Unheard, Loaded
    <3>2. ~Defaults[flag]
      BY DEF Defaults, Flag
    <3>3. ran'.went
      BY <2>6, <3>1, <3>2 DEF JobFires
    <3> QED  BY <2>1, <3>1, <3>3 DEF Unheard, NothingStopsJobs
  <2> QED  BY <2>2, <2>3, <2>4, <2>5, <2>6 DEF Next
<1>3. Unheard => NothingStopsJobs
  BY DEF Unheard
<1> QED  BY <1>1, <1>2, <1>3, AlwaysFiled, PTL DEF Spec
=============================================================================
