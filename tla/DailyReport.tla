------------------------------ MODULE DailyReport ------------------------------
(***************************************************************************)
(* The daily report (bot/main.py, bot/report.py, cost/tracker.py): at nine   *)
(* the bot sends the report of the day before, and on a command that of a    *)
(* day asked for.  A report is collected by one query after another, each    *)
(* seeing what the call pipeline has committed by then, and its costs are    *)
(* stored in daily_costs on the way.                                         *)
(*                                                                          *)
(* Telegram's updates are handled one at a time, so there are two collectors *)
(* at most: the job of nine o'clock and the command.  Counts are sets here,  *)
(* and the costs of a day are the calls whose minutes are in them.  A day is *)
(* the database's, and nine o'clock is on that day too.                      *)
(***************************************************************************)
EXTENDS Integers

CONSTANTS
  Call,       \* rows of calls
  Candidate,  \* rows of candidates
  CalledBy,   \* the candidate of a call
  LastDay,    \* bound: days
  NoRow,      \* no row in daily_costs
  NotSent     \* no report

Day == 1..LastDay

ASSUME CallsHaveCandidates == CalledBy \in [Call -> Candidate]
ASSUME LastDayIsOne        == LastDay \in Nat /\ LastDay >= 1

\* The job of nine o'clock, and the command being handled.
Collector == {"daily", "command"}

VARIABLES
  day,        \* today
  nine,       \* nine o'clock has struck
  up,         \* the bot runs
  call,       \* started_at, 0 without a row, and what a verdict sets
  candidate,  \* status and updated_at, 0 without a row
  collector,  \* DayReport, as far as it has been collected
  costs,      \* daily_costs
  sent,       \* history: the reports the job has sent, by the day they are about
  missed,     \* history: days whose nine o'clock report was not sent
  handed,     \* history: the day a candidate was handed to a manager first
  stirred     \* history: candidates whose row was written again after that

database == <<call, candidate, handed, stirred>>
vars == <<day, nine, up, database, collector, costs, sent, missed>>

Idle == [pc |-> "idle", target |-> 0, attempts |-> {}, timed |-> {}, qualified |-> {},
         managed |-> {}, billed |-> {}, overtaken |-> FALSE]

Collected ==
  [pc: {"idle", "calls", "qualified", "funnel", "sum", "store", "send"}, target: Day \cup {0},
   attempts: SUBSET Call, timed: SUBSET Call, qualified: SUBSET Candidate,
   managed: SUBSET Candidate, billed: SUBSET Call, overtaken: BOOLEAN]

Init ==
  /\ day = 1 /\ nine = TRUE /\ up = TRUE
  /\ call = [c \in Call |-> [day |-> 0, status |-> "failed"]]
  /\ candidate = [p \in Candidate |-> [status |-> "other", day |-> 0]]
  /\ collector = [r \in Collector |-> Idle]
  /\ costs = [d \in Day |-> NoRow]
  /\ sent = [d \in Day |-> NotSent]
  /\ missed = {}
  /\ handed = [p \in Candidate |-> 0]
  /\ stirred = {}

-----------------------------------------------------------------------------
\* What the call pipeline and the routers commit meanwhile.

\* Slip: updated_at is the day of the insert.
InsertedOn(p, status) ==
  [candidate EXCEPT ![p].status = status, ![p].day = IF @ = 0 THEN day ELSE @]

\* onupdate=func.now()
Updated(p, status) == [candidate EXCEPT ![p] = [status |-> status, day |-> day]]

WithManager(p) == candidate[p].status = "manager_review"

Stirs(p) == stirred' = IF handed[p] # 0 THEN stirred \cup {p} ELSE stirred

\* A candidate comes in, is dialled, or comes in again from another source.
Write(p, status) ==
  /\ status \in {"other", candidate[p].status}
  /\ candidate' = Updated(p, status)
  /\ Stirs(p)
  /\ UNCHANGED <<call, handed>>

\* The row of a call; one that came in adds to its candidate's attempts.
CallRow(c, inbound) ==
  /\ call[c].day = 0
  /\ candidate[CalledBy[c]].day # 0
  /\ call' = [call EXCEPT ![c].day = day]
  /\ IF inbound
     THEN candidate' = Updated(CalledBy[c], candidate[CalledBy[c]].status) /\ Stirs(CalledBy[c])
     ELSE UNCHANGED <<candidate, stirred>>
  /\ UNCHANGED handed

\* _finalize_call, for a report of the call that may be a repeated one.  A row that
\* keeps its values is not written, unless the lead's id is.
Judge(c, qualified) ==
  LET p      == CalledBy[c]
      status == IF qualified THEN "manager_review" ELSE "other"
  IN
  /\ call[c].day # 0
  /\ call' = [call EXCEPT ![c].status = IF qualified THEN "success" ELSE "hangup"]
  /\ \/ /\ candidate[p].status = status
        /\ UNCHANGED <<candidate, stirred>>
     \/ /\ candidate' = Updated(p, status)
        /\ Stirs(p)
  /\ handed' = [handed EXCEPT ![p] = IF qualified /\ @ = 0 THEN day ELSE @]

Commits ==
  /\ \/ \E p \in Candidate, status \in {"other", "manager_review"} : Write(p, status)
     \/ \E c \in Call, inbound \in BOOLEAN : CallRow(c, inbound)
     \/ \E c \in Call, qualified \in BOOLEAN : Judge(c, qualified)
  /\ UNCHANGED <<day, nine, up, collector, costs, sent, missed>>

-----------------------------------------------------------------------------
\* The scheduler of the bot.

Collects(r, pc, target) ==
  collector' = [collector EXCEPT ![r] = [Idle EXCEPT !.pc = pc, !.target = target]]

\* Slip: the report of the day that has just begun.
Today == day

\* Slip: one day too far back.
DayBeforeYesterday == day - 2

\* yesterdays_report
Yesterday == day - 1

MissesIt == missed' = missed \cup {Yesterday} /\ UNCHANGED collector

\* Slip: the job waits for no command and is not run after one.
UnlessBusy ==
  /\ ~nine
  /\ nine' = TRUE
  /\ \/ up /\ collector["command"].pc = "idle" /\ Collects("daily", "calls", Yesterday)
     \/ collector["command"].pc # "idle" /\ UNCHANGED collector
  /\ UNCHANGED <<day, up, database, costs, sent, missed>>

\* CronTrigger: the trigger is kept in memory.  A bot that is down at nine misses it,
\* and one that is a second late does (misfire_grace_time).
NineOClock ==
  /\ ~nine
  /\ nine' = TRUE
  /\ \/ up /\ Collects("daily", "calls", Yesterday) /\ UNCHANGED missed
     \/ MissesIt
  /\ UNCHANGED <<day, up, database, costs, sent>>

\* A job of nine o'clock is over by midnight.
Midnight ==
  /\ nine /\ collector["daily"].pc = "idle"
  /\ day < LastDay
  /\ day' = day + 1
  /\ nine' = FALSE
  /\ UNCHANGED <<up, database, collector, costs, sent, missed>>

\* /today, /report and /yesterday.  The counts of a command's report are told to
\* whoever asked and kept nowhere: it is followed from its sums on.
Ask(target) ==
  /\ up
  /\ collector["command"].pc = "idle"
  /\ target \in {day - 1, day} \cap Day
  /\ Collects("command", "sum", target)
  /\ UNCHANGED <<day, nine, up, database, costs, sent, missed>>

-----------------------------------------------------------------------------
\* collect_for: the queries.

Proceeds(r, from, new) ==
  /\ collector[r].pc = from
  /\ collector' = [collector EXCEPT ![r] = new]
  /\ UNCHANGED <<day, nine, up, database, missed>>

OfDay(d) == {c \in Call : call[c].day = d}

CountCalls(r) ==
  /\ Proceeds(r, "calls",
       [collector[r] EXCEPT !.pc = "qualified", !.attempts = OfDay(collector[r].target),
          !.timed = {c \in OfDay(collector[r].target) : call[c].status # "failed"}])
  /\ UNCHANGED <<costs, sent>>

QualifiedOn(d) == {p \in Candidate : WithManager(p) /\ candidate[p].day = d}

CountQualified(r) ==
  /\ Proceeds(r, "qualified",
       [collector[r] EXCEPT !.pc = "funnel", !.qualified = QualifiedOn(collector[r].target)])
  /\ UNCHANGED <<costs, sent>>

CountFunnel(r) ==
  /\ Proceeds(r, "funnel",
       [collector[r] EXCEPT !.pc = "sum", !.managed = {p \in Candidate : WithManager(p)}])
  /\ UNCHANGED <<costs, sent>>

\* Slip: the minutes of successful calls only.
BilledIfSuccess(d) == {c \in OfDay(d) : call[c].status = "success"}

\* Slip: the costs that are stored already.
BilledOnce(d) == IF costs[d] # NoRow THEN costs[d] ELSE {c \in OfDay(d) : call[c].status # "failed"}

\* A call has a duration once it has a verdict, of whatever kind.
Billed(d) == {c \in OfDay(d) : call[c].status # "failed"}

\* rollup_for_date: the sums, then the row, committed at the end of the session.
Sum(r) ==
  /\ Proceeds(r, "sum",
       [collector[r] EXCEPT !.pc = "store", !.billed = Billed(collector[r].target)])
  /\ UNCHANGED <<costs, sent>>

\* The other collector has read the costs this one replaces, and not stored them.
Overtakes(r, s) ==
  s # r /\ collector[s].pc = "store" /\ collector[s].target = collector[r].target

Store(r) ==
  /\ collector[r].pc = "store"
  /\ costs' = [costs EXCEPT ![collector[r].target] = collector[r].billed]
  /\ collector' = [s \in Collector |->
       IF s = r THEN [collector[s] EXCEPT !.pc = "send"]
       ELSE [collector[s] EXCEPT !.overtaken = collector[s].overtaken \/ Overtakes(r, s)]]
  /\ UNCHANGED <<day, nine, up, database, sent, missed>>

\* What the report tells; its costs, too, though a newer one may have stored others.
Report(c) == [c EXCEPT !.pc = "idle", !.overtaken = FALSE]

Send(r) ==
  /\ Proceeds(r, "send", Idle)
  /\ sent' = IF r = "daily" THEN [sent EXCEPT ![collector[r].target] = Report(collector[r])] ELSE sent
  /\ UNCHANGED costs

-----------------------------------------------------------------------------
\* A query or Telegram fails, the bot is stopped and started again.  No report is
\* tried a second time.

Abandoned(rs) ==
  /\ collector' = [r \in Collector |-> IF r \in rs THEN Idle ELSE collector[r]]
  /\ missed' = IF "daily" \in rs /\ collector["daily"].pc # "idle"
               THEN missed \cup {collector["daily"].target} ELSE missed

CollectorFails(r) ==
  /\ collector[r].pc # "idle"
  /\ Abandoned({r})
  /\ UNCHANGED <<day, nine, up, database, costs, sent>>

BotStops ==
  /\ up
  /\ up' = FALSE
  /\ Abandoned(Collector)
  /\ UNCHANGED <<day, nine, database, costs, sent>>

BotStarts ==
  /\ ~up
  /\ up' = TRUE
  /\ UNCHANGED <<day, nine, database, collector, costs, sent, missed>>

-----------------------------------------------------------------------------
Collect(r) == CountCalls(r) \/ CountQualified(r) \/ CountFunnel(r) \/ Sum(r) \/ Store(r) \/ Send(r)

Next ==
  \/ Commits
  \/ NineOClock
  \/ Midnight
  \/ \E target \in Day : Ask(target)
  \/ \E r \in Collector : Collect(r) \/ CollectorFails(r)
  \/ BotStops
  \/ BotStarts

Spec == Init /\ [][Next]_vars

\* The clock goes on and so does a collector.
FairSpec == Spec /\ WF_vars(NineOClock) /\ WF_vars(Midnight) /\ \A r \in Collector : WF_vars(Collect(r))
-----------------------------------------------------------------------------
TypeOK ==
  /\ day \in Day /\ nine \in BOOLEAN /\ up \in BOOLEAN
  /\ call \in [Call -> [day: Day \cup {0}, status: {"failed", "success", "hangup"}]]
  /\ candidate \in [Candidate -> [status: {"other", "manager_review"}, day: Day \cup {0}]]
  /\ collector \in [Collector -> Collected]
  /\ costs \in [Day -> (SUBSET Call) \cup {NoRow}]
  /\ sent \in [Day -> Collected \cup {NotSent}]
  /\ missed \subseteq Day
  /\ handed \in [Candidate -> Day \cup {0}]
  /\ stirred \subseteq Candidate

\* "Sends a markdown report at 09:00 ... for the previous day" (bot/main.py:3): a
\* report the job has sent holds every call of its day and no other, whatever has
\* been committed while it was collected and since.
DayToldWhole == \A d \in Day : sent[d] # NotSent => sent[d].attempts = OfDay(d)

\* A candidate is told as qualified in the report of the day he was handed over
\* and in no other, as long as nothing writes his row again: updated_at stands in
\* for the day of the verdict (report.py:81).
HandedOverToldOnce ==
  \A p \in Candidate \ stirred, d \in Day :
    sent[d] # NotSent => (p \in sent[d].qualified <=> handed[p] = d)

\* The queries of one report see different states of the database and still agree:
\* whom it counts as qualified is in its funnel, unless written again, and every
\* call it has timed is in its costs (report.py:55-98).
ReportAgrees ==
  \A d \in Day : sent[d] # NotSent =>
    /\ sent[d].qualified \subseteq sent[d].managed \cup stirred
    /\ sent[d].timed \subseteq sent[d].billed

\* The costs of a day never lose a call, unless two reports of it were collected at
\* once and the older sums stored last (tracker.py:60).
CostsNeverFall ==
  [][\A r \in Collector : Store(r) /\ ~collector[r].overtaken =>
       \/ costs[collector[r].target] = NoRow
       \/ costs[collector[r].target] \subseteq costs'[collector[r].target]]_vars

\* Every day that is over is reported in the end, unless the bot was down or late
\* at nine, or failed while it collected (bot/main.py:89-97).
EveryDayTold == \A d \in Day \ {LastDay} : <>(sent[d] # NotSent \/ d \in missed)
=============================================================================
