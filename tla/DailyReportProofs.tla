--------------------------- MODULE DailyReportProofs ---------------------------
(***************************************************************************)
(* What the daily report guarantees for any number of days, calls and        *)
(* candidates: it holds the whole of its day, tells a handover once, agrees  *)
(* with its own costs, and stores no costs older than those stored, unless   *)
(* it was overtaken.                                                        *)
(***************************************************************************)
EXTENDS DailyReport, TLAPS

-----------------------------------------------------------------------------
\* What is collected and what the database says of it.

Whole(report) == \A c \in Call : c \in report.attempts <=> call[c].day = report.target

Judged(c, d) == call[c].day = d /\ call[c].status # "failed"

TimedTrue(report) == \A c \in report.timed : Judged(c, report.target)

Told(report) ==
  \A p \in Candidate : p \in stirred \/ (p \in report.qualified <=> handed[p] = report.target)

InFunnel(report) == \A p \in report.qualified : p \in stirred \/ p \in report.managed

InCosts(report) == \A c \in report.timed : c \in report.billed

\* How far the job has come.
PastCalls     == {"qualified", "funnel", "sum", "store", "send"}
PastQualified == {"funnel", "sum", "store", "send"}
PastFunnel    == {"sum", "store", "send"}
PastSum       == {"store", "send"}

\* A day has its calls and handovers by the time they happen.
Dated ==
  /\ \A c \in Call : call[c].day <= day /\ (call[c].day = 0 => call[c].status = "failed")
  /\ \A p \in Candidate : handed[p] <= day

\* Whom nothing has written since is with a manager from the day on he was handed over.
Handing ==
  \A p \in Candidate :
    \/ p \in stirred
    \/ handed[p] # 0 /\ WithManager(p) /\ candidate[p].day = handed[p]
    \/ handed[p] = 0 /\ ~WithManager(p)

\* The job collects a day that is over.
JobTrue ==
  LET job == collector["daily"] IN
  job.pc # "idle" =>
    /\ nine /\ job.target \in Day /\ job.target < day
    /\ job.pc \in PastCalls => Whole(job) /\ TimedTrue(job)
    /\ job.pc \in PastQualified => Told(job)
    /\ job.pc \in PastFunnel => InFunnel(job)
    /\ job.pc \in PastSum => InCosts(job)

SentTrue ==
  \A d \in Day : sent[d] # NotSent =>
    /\ d < day /\ sent[d].target = d
    /\ Whole(sent[d]) /\ Told(sent[d]) /\ InFunnel(sent[d]) /\ InCosts(sent[d])

CostsTrue == \A d \in Day : costs[d] # NoRow => \A c \in costs[d] : Judged(c, d)

\* Sums that were not overtaken hold whatever is stored.
SumsTrue ==
  \A r \in Collector :
    /\ collector[r].pc # "idle" => collector[r].target \in Day
    /\ collector[r].pc = "store" =>
         /\ \A c \in collector[r].billed : Judged(c, collector[r].target)
         /\ \/ collector[r].overtaken
            \/ costs[collector[r].target] = NoRow
            \/ costs[collector[r].target] \subseteq collector[r].billed

\* On the first day nine o'clock is over.
FirstNine == nine \/ day > 1

Inductive ==
  TypeOK /\ FirstNine /\ Dated /\ Handing /\ JobTrue /\ SentTrue /\ CostsTrue /\ SumsTrue

\* The invariant holds before anything is called or collected.
LEMMA InitInductive == Init => Inductive
<1> SUFFICES ASSUME Init PROVE Inductive
  OBVIOUS
<1>1. 1 \in Day
  BY LastDayIsOne DEF Day
<1>2. Idle \in Collected
  BY DEF Idle, Collected
<1>3. TypeOK
  BY <1>1, <1>2 DEF Init, TypeOK
<1>4. \A r \in Collector : collector[r].pc = "idle"
  BY DEF Init, Idle
<1>5. FirstNine /\ Dated /\ Handing /\ SentTrue /\ CostsTrue
  BY <1>1 DEF Init, FirstNine, Dated, Handing, WithManager, SentTrue, CostsTrue, Day
<1>6. JobTrue /\ SumsTrue
  BY <1>4 DEF JobTrue, SumsTrue, Collector
<1> QED  BY <1>3, <1>5, <1>6 DEF Inductive

-----------------------------------------------------------------------------
\* What is committed keeps the day of a call and of a handover, and no call loses
\* its verdict.
Grows ==
  /\ \A c \in Call :
       /\ call'[c].day = call[c].day \/ (call[c].day = 0 /\ call'[c].day = day)
       /\ call[c].day # 0 /\ call[c].status # "failed" => call'[c].status # "failed"
  /\ \A p \in Candidate :
       handed'[p] = handed[p] \/ (handed[p] = 0 /\ handed'[p] = day)
  /\ stirred \subseteq stirred'

\* Each commit writes rows of their types.
LEMMA CommitsType ==
  ASSUME TypeOK, Commits
  PROVE  TypeOK'
<1> USE DEF TypeOK
<1>1. ASSUME NEW p \in Candidate, NEW status \in {"other", "manager_review"}, Write(p, status)
      PROVE  TypeOK'
  <2>1. candidate' \in [Candidate -> [status: {"other", "manager_review"}, day: Day \cup {0}]]
    BY <1>1 DEF Write, Updated
  <2>2. stirred' \subseteq Candidate
    BY <1>1 DEF Write, Stirs
  <2> QED  BY <1>1, <2>1, <2>2 DEF Commits, Write
<1>2. ASSUME NEW c \in Call, NEW inbound \in BOOLEAN, CallRow(c, inbound)
      PROVE  TypeOK'
  <2>1. CalledBy[c] \in Candidate
    BY CallsHaveCandidates
  <2>2. call' \in [Call -> [day: Day \cup {0}, status: {"failed", "success", "hangup"}]]
    BY <1>2 DEF CallRow
  <2>3. candidate' \in [Candidate -> [status: {"other", "manager_review"}, day: Day \cup {0}]]
    BY <1>2, <2>1 DEF CallRow, Updated
  <2>4. stirred' \subseteq Candidate /\ UNCHANGED handed
    BY <1>2, <2>1 DEF CallRow, Stirs
  <2> QED  BY <2>2, <2>3, <2>4 DEF Commits
<1>3. ASSUME NEW c \in Call, NEW qualified \in BOOLEAN, Judge(c, qualified)
      PROVE  TypeOK'
  <2>1. CalledBy[c] \in Candidate
    BY CallsHaveCandidates
  <2>2. call' \in [Call -> [day: Day \cup {0}, status: {"failed", "success", "hangup"}]]
    BY <1>3 DEF Judge
  <2>3. handed' \in [Candidate -> Day \cup {0}]
    BY <1>3, <2>1 DEF Judge
  <2>4. /\ candidate' \in [Candidate -> [status: {"other", "manager_review"}, day: Day \cup {0}]]
        /\ stirred' \subseteq Candidate
    BY <1>3, <2>1 DEF Judge, Updated, Stirs
  <2> QED  BY <2>2, <2>3, <2>4 DEF Commits
<1> QED  BY <1>1, <1>2, <1>3 DEF Commits

\* Each commit only adds, and keeps the handovers dated.
LEMMA CommitsGrow ==
  ASSUME TypeOK, Dated, Handing, Commits
  PROVE  Grows /\ Dated' /\ Handing'
<1> USE DEF TypeOK, Dated, Handing, Grows, WithManager
<1>0. day \in Nat /\ day > 0 /\ day' = day
  BY DEF Commits, Day
<1>1. ASSUME NEW p \in Candidate, NEW status \in {"other", "manager_review"}, Write(p, status)
      PROVE  Grows /\ Dated' /\ Handing'
  <2>0. stirred \subseteq stirred' /\ UNCHANGED <<call, handed>>
    BY <1>1 DEF Write, Stirs
  <2>1. Grows /\ Dated'
    BY <1>0, <2>0
  <2>2. Handing'
    BY <1>0, <1>1 DEF Write, Stirs, Updated
  <2> QED  BY <2>1, <2>2
<1>2. ASSUME NEW c \in Call, NEW inbound \in BOOLEAN, CallRow(c, inbound)
      PROVE  Grows /\ Dated' /\ Handing'
  <2>1. CalledBy[c] \in Candidate
    BY CallsHaveCandidates
  <2>0. stirred \subseteq stirred' /\ UNCHANGED handed
    BY <1>2 DEF CallRow, Stirs
  <2>5. \A x \in Call :
          /\ call'[x].day = call[x].day \/ (call[x].day = 0 /\ call'[x].day = day)
          /\ call'[x].status = call[x].status
    BY <1>0, <1>2 DEF CallRow
  <2>2. Grows /\ Dated'
    BY <1>0, <2>0, <2>5
  <2>3. Handing'
    BY <1>0, <1>2, <2>1 DEF CallRow, Stirs, Updated
  <2> QED  BY <2>2, <2>3
<1>3. ASSUME NEW c \in Call, NEW qualified \in BOOLEAN, Judge(c, qualified)
      PROVE  Grows /\ Dated' /\ Handing'
  <2>1. CalledBy[c] \in Candidate
    BY CallsHaveCandidates
  <2>0. stirred \subseteq stirred'
    BY <1>3 DEF Judge, Stirs
  <2>5. \A x \in Call :
          /\ call'[x].day = call[x].day
          /\ call'[x].status = call[x].status \/ (x = c /\ call'[x].status # "failed")
    BY <1>3 DEF Judge
  <2>7. call[c].day # 0
    BY <1>3 DEF Judge
  <2>6. \A p \in Candidate : handed'[p] = handed[p] \/ (handed[p] = 0 /\ handed'[p] = day)
    BY <1>3, <2>1 DEF Judge
  <2>2. Grows /\ Dated'
    BY <1>0, <2>0, <2>5, <2>6, <2>7
  <2>3. Handing'
    BY <1>0, <1>3, <2>1 DEF Judge, Stirs, Updated
  <2> QED  BY <2>2, <2>3
<1> QED  BY <1>1, <1>2, <1>3 DEF Commits

\* What has been collected and stored of a day that is over stays true.
LEMMA CommitsKeep ==
  ASSUME Inductive, Commits
  PROVE  Inductive'
<1>1. TypeOK'
  BY CommitsType DEF Inductive
<1>2. Grows /\ Dated' /\ Handing'
  BY CommitsGrow DEF Inductive
<1>3. UNCHANGED <<day, nine, collector, costs, sent>>
  BY DEF Commits
<1>4. \A c \in Call, d \in Day : Judged(c, d) => Judged(c, d)'
  BY <1>2, LastDayIsOne DEF Judged, Grows, Day
<1>5. \A c \in Call, d \in Day : d < day => (call[c].day = d <=> call'[c].day = d)
  BY <1>2, LastDayIsOne DEF Grows, Day, Inductive, TypeOK
<1>6. \A p \in Candidate, d \in Day : d < day => (handed[p] = d <=> handed'[p] = d)
  BY <1>2, LastDayIsOne DEF Grows, Day, Inductive, TypeOK
<1>7. stirred \subseteq stirred'
  BY <1>2 DEF Grows
<1>8. JobTrue'
  <2>1. collector["daily"] \in Collected
    BY DEF Inductive, TypeOK, Collector
  <2> QED
    BY <1>3, <1>4, <1>5, <1>6, <1>7, <2>1
    DEF Inductive, JobTrue, Whole, TimedTrue, Told, InFunnel, InCosts, Collected
<1>9. SentTrue'
  BY <1>3, <1>5, <1>6, <1>7 DEF Inductive, SentTrue, Whole, Told, InFunnel, InCosts
<1>10. CostsTrue'
  BY <1>3, <1>4 DEF Inductive, TypeOK, CostsTrue
<1>11. SumsTrue'
  BY <1>3, <1>4 DEF Inductive, TypeOK, SumsTrue, Collected
<1> QED  BY <1>1, <1>2, <1>3, <1>8, <1>9, <1>10, <1>11 DEF Inductive, FirstNine
-----------------------------------------------------------------------------
\* What is true of the days that are over, whatever the collectors do.

\* The clock, and the bot's starting, leave what is collected as it is.
LEMMA ClockKeeps ==
  ASSUME Inductive, Midnight \/ BotStarts
  PROVE  Inductive'
<1>1. UNCHANGED <<database, collector, costs, sent, missed>>
  BY DEF Midnight, BotStarts
<1>2. day \in Nat /\ day \in Day /\ (day' = day \/ (day < LastDay /\ day' = day + 1))
  BY LastDayIsOne DEF Inductive, TypeOK, Midnight, BotStarts, Day
<1>3. nine' = nine \/ collector["daily"].pc = "idle"
  BY DEF Midnight, BotStarts
<1>4. TypeOK'
  <2>1. day' \in Day
    BY <1>2, LastDayIsOne DEF Day
  <2>2. nine' \in BOOLEAN /\ up' \in BOOLEAN
    BY DEF Midnight, BotStarts, Inductive, TypeOK
  <2> QED  BY <1>1, <2>1, <2>2 DEF Inductive, TypeOK, database
<1>5. \A d \in 0..LastDay : (d <= day => d <= day') /\ (d < day => d < day')
  BY <1>2, LastDayIsOne
<1>6. Dated'
  <2>1. Day \cup {0} = 0..LastDay
    BY LastDayIsOne DEF Day
  <2> QED  BY <1>1, <1>5, <2>1 DEF Inductive, Dated, TypeOK, database
<1>7. Handing' /\ CostsTrue' /\ SumsTrue'
  BY <1>1 DEF Inductive, Handing, CostsTrue, SumsTrue, Judged, WithManager, database
<1>8. \A d \in Day : d < day => d < day'
  BY <1>5, LastDayIsOne DEF Day
<1>9. JobTrue'
  BY <1>1, <1>3, <1>8
  DEF Inductive, JobTrue, Whole, TimedTrue, Told, InFunnel, InCosts, Judged, database
<1>10. SentTrue'
  BY <1>1, <1>8 DEF Inductive, SentTrue, Whole, Told, InFunnel, InCosts, database
<1>11. FirstNine'
  BY <1>2, LastDayIsOne DEF Inductive, FirstNine, Midnight, BotStarts, Day
<1> QED  BY <1>4, <1>6, <1>7, <1>9, <1>10, <1>11 DEF Inductive

\* A step of the collectors leaves the database's rows and the day alone.
LEMMA DatabaseKept ==
  ASSUME Inductive, UNCHANGED <<day, database>>
  PROVE  Dated' /\ Handing'
BY DEF Inductive, Dated, Handing, WithManager, database

LEMMA SentKept ==
  ASSUME Inductive, UNCHANGED <<day, database, sent>>
  PROVE  SentTrue'
BY DEF Inductive, SentTrue, Whole, Told, InFunnel, InCosts, database

\* An idle collector claims nothing.
LEMMA IdleCollected == Idle \in Collected /\ Idle.pc = "idle"
BY DEF Idle, Collected

\* Collectors that stop leave the others as they are.
LEMMA AbandonedKeeps ==
  ASSUME Inductive, NEW rs, Abandoned(rs), up' \in BOOLEAN,
         UNCHANGED <<day, nine, database, costs, sent>>
  PROVE  Inductive'
<1>1. \A r \in Collector : collector'[r] \in {Idle, collector[r]}
  BY DEF Abandoned
<1>2. TypeOK'
  <2>1. collector' \in [Collector -> Collected]
    BY IdleCollected DEF Abandoned, Inductive, TypeOK
  <2>2. missed' \subseteq Day
    BY DEF Abandoned, Inductive, TypeOK, JobTrue
  <2> QED  BY <2>1, <2>2 DEF Inductive, TypeOK, database
<1>3. Dated' /\ Handing' /\ SentTrue'
  BY DatabaseKept, SentKept
<1>4. CostsTrue'
  BY DEF Inductive, CostsTrue, Judged, database
<1>5. SumsTrue'
  BY <1>1, IdleCollected DEF Inductive, SumsTrue, Judged, database
<1>6. JobTrue'
  <2>1. collector'["daily"] \in {Idle, collector["daily"]}
    BY <1>1 DEF Collector
  <2> QED
    BY <2>1, IdleCollected
    DEF Inductive, JobTrue, Whole, TimedTrue, Told, InFunnel, InCosts, Judged, database
<1> QED  BY <1>2, <1>3, <1>4, <1>5, <1>6 DEF Inductive, FirstNine

\* A collector that goes on and holds no sums changes nothing that is stored.
LEMMA OneGoesOn ==
  ASSUME Inductive, NEW r \in Collector, NEW new \in Collected,
         collector' = [collector EXCEPT ![r] = new],
         new.pc # "store", new.pc # "idle" => new.target \in Day,
         nine' \in BOOLEAN, missed' \subseteq Day,
         UNCHANGED <<day, up, database, costs>>
  PROVE  /\ UNCHANGED sent => TypeOK' /\ SentTrue'
         /\ Dated' /\ Handing' /\ CostsTrue' /\ SumsTrue'
<1>1. collector' \in [Collector -> Collected]
  BY DEF Inductive, TypeOK
<1>2. UNCHANGED sent => TypeOK' /\ SentTrue'
  BY <1>1, SentKept DEF Inductive, TypeOK, database
<1>3. Dated' /\ Handing'
  BY DatabaseKept
<1>4. CostsTrue'
  BY DEF Inductive, CostsTrue, Judged, database
<1>5. SumsTrue'
  <2>1. \A s \in Collector : collector'[s] = IF s = r THEN new ELSE collector[s]
    BY DEF Inductive, TypeOK
  <2> QED  BY <2>1 DEF Inductive, SumsTrue, Judged, database
<1> QED  BY <1>2, <1>3, <1>4, <1>5

\* The job's report stays what it is while the other collector goes on.
LEMMA JobKept ==
  ASSUME Inductive, collector'["daily"] = collector["daily"], nine' = nine,
         UNCHANGED <<day, database>>
  PROVE  JobTrue'
BY DEF Inductive, JobTrue, Whole, TimedTrue, Told, InFunnel, InCosts, Judged, database

\* The job of nine o'clock starts with a day that is over.
LEMMA NineOClockKeeps ==
  ASSUME Inductive, NineOClock
  PROVE  Inductive'
<1>1. day \in Day /\ day - 1 < day /\ collector["daily"].pc = "idle"
  BY LastDayIsOne DEF NineOClock, Inductive, TypeOK, JobTrue, Day
<1>2. day > 1
  BY <1>1 DEF NineOClock, Inductive, FirstNine
<1>3. Yesterday \in Day /\ Yesterday < day
  BY <1>1, <1>2, LastDayIsOne DEF Yesterday, Day
<1>4. CASE up /\ Collects("daily", "calls", Yesterday) /\ UNCHANGED missed
  <2> DEFINE new == [Idle EXCEPT !.pc = "calls", !.target = Yesterday]
  <2>1. new \in Collected /\ new.pc = "calls" /\ new.target = Yesterday
    BY <1>3, IdleCollected DEF Collected, Idle
  <2>2. /\ "daily" \in Collector /\ collector' = [collector EXCEPT !["daily"] = new]
        /\ nine' = TRUE /\ UNCHANGED <<day, up, database, costs, sent>>
        /\ missed' \subseteq Day
    BY <1>4 DEF Collects, NineOClock, Collector, Inductive, TypeOK
  <2>3. collector'["daily"] = new
    BY <2>2 DEF Inductive, TypeOK
  <2> HIDE DEF new
  <2>4. TypeOK' /\ SentTrue' /\ Dated' /\ Handing' /\ CostsTrue' /\ SumsTrue'
    BY <1>3, <2>1, <2>2, OneGoesOn
  <2>5. JobTrue'
    BY <1>3, <2>1, <2>2, <2>3 DEF JobTrue, PastCalls, PastQualified, PastFunnel, PastSum
  <2> QED  BY <2>2, <2>4, <2>5 DEF Inductive, FirstNine
<1>5. CASE MissesIt
  <2>1. /\ nine' = TRUE /\ UNCHANGED <<day, up, database, collector, costs, sent>>
        /\ missed' \subseteq Day
    BY <1>3, <1>5 DEF MissesIt, NineOClock, Inductive, TypeOK
  <2>2. TypeOK'
    BY <2>1 DEF Inductive, TypeOK, database
  <2>3. Dated' /\ Handing' /\ SentTrue'
    BY <2>1, DatabaseKept, SentKept
  <2>4. CostsTrue' /\ SumsTrue'
    BY <2>1 DEF Inductive, CostsTrue, SumsTrue, Judged, database
  <2>5. JobTrue'
    BY <1>1, <2>1 DEF JobTrue
  <2> QED  BY <2>1, <2>2, <2>3, <2>4, <2>5 DEF Inductive, FirstNine
<1> QED  BY <1>4, <1>5 DEF NineOClock

\* A command starts with its sums.
LEMMA AskKeeps ==
  ASSUME Inductive, NEW target \in Day, Ask(target)
  PROVE  Inductive'
<1> DEFINE new == [Idle EXCEPT !.pc = "sum", !.target = target]
<1>1. new \in Collected /\ new.pc = "sum" /\ new.target = target
  BY IdleCollected DEF Collected, Idle
<1>2. /\ "command" \in Collector /\ collector' = [collector EXCEPT !["command"] = new]
      /\ UNCHANGED <<day, nine, up, database, costs, sent, missed>>
  BY DEF Collects, Ask, Collector
<1>3. collector'["daily"] = collector["daily"]
  BY <1>2 DEF Inductive, TypeOK, Collector
<1> HIDE DEF new
<1>4. TypeOK' /\ SentTrue' /\ Dated' /\ Handing' /\ CostsTrue' /\ SumsTrue'
  BY <1>1, <1>2, OneGoesOn DEF Inductive, TypeOK
<1>5. JobTrue'
  BY <1>2, <1>3, JobKept
<1> QED  BY <1>2, <1>4, <1>5 DEF Inductive, FirstNine
-----------------------------------------------------------------------------
\* The queries of a report.

LEMMA CountCallsKeeps ==
  ASSUME Inductive, NEW r \in Collector, CountCalls(r)
  PROVE  Inductive'
<1> DEFINE new == [collector[r] EXCEPT !.pc = "qualified", !.attempts = OfDay(collector[r].target),
                     !.timed = {c \in OfDay(collector[r].target) : call[c].status # "failed"}]
<1>1. collector[r] \in Collected /\ collector[r].pc = "calls" /\ collector[r].target \in Day
  BY DEF CountCalls, Proceeds, Inductive, TypeOK, SumsTrue
<1>2. /\ new \in Collected /\ new.pc = "qualified" /\ new.target = collector[r].target
      /\ new.attempts = OfDay(collector[r].target)
      /\ new.timed = {c \in OfDay(collector[r].target) : call[c].status # "failed"}
  BY <1>1 DEF Collected, OfDay
<1>3. /\ collector' = [collector EXCEPT ![r] = new]
      /\ UNCHANGED <<day, nine, up, database, costs, sent, missed>>
  BY DEF CountCalls, Proceeds
<1>4. collector'["daily"] = IF r = "daily" THEN new ELSE collector["daily"]
  BY <1>3 DEF Inductive, TypeOK, Collector
<1> HIDE DEF new
<1>5. TypeOK' /\ SentTrue' /\ Dated' /\ Handing' /\ CostsTrue' /\ SumsTrue'
  BY <1>1, <1>2, <1>3, OneGoesOn DEF Inductive, TypeOK
<1>6. CASE r = "daily"
  <2>1. nine /\ new.target < day
    BY <1>1, <1>2, <1>6 DEF Inductive, JobTrue
  <2>2. /\ \A c \in Call : c \in new.attempts <=> call[c].day = new.target
        /\ \A c \in new.timed : call[c].day = new.target /\ call[c].status # "failed"
    BY <1>2 DEF OfDay
  <2>3. JobTrue'
    BY <1>1, <1>2, <1>3, <1>4, <1>6, <2>1, <2>2
    DEF JobTrue, Whole, TimedTrue, Judged, PastQualified, PastFunnel, PastSum, database
  <2> QED  BY <1>3, <1>5, <2>3 DEF Inductive, FirstNine
<1>7. CASE r # "daily"
  BY <1>3, <1>4, <1>5, <1>7, JobKept DEF Inductive, FirstNine
<1> QED  BY <1>6, <1>7

LEMMA CountQualifiedKeeps ==
  ASSUME Inductive, NEW r \in Collector, CountQualified(r)
  PROVE  Inductive'
<1> DEFINE new == [collector[r] EXCEPT !.pc = "funnel", !.qualified = QualifiedOn(collector[r].target)]
<1>1. collector[r] \in Collected /\ collector[r].pc = "qualified" /\ collector[r].target \in Day
  BY DEF CountQualified, Proceeds, Inductive, TypeOK, SumsTrue
<1>2. /\ new \in Collected /\ new.pc = "funnel" /\ new.target = collector[r].target
      /\ new.attempts = collector[r].attempts /\ new.timed = collector[r].timed
      /\ new.qualified = QualifiedOn(collector[r].target)
  BY <1>1 DEF Collected, QualifiedOn
<1>3. /\ collector' = [collector EXCEPT ![r] = new]
      /\ UNCHANGED <<day, nine, up, database, costs, sent, missed>>
  BY DEF CountQualified, Proceeds
<1>4. collector'["daily"] = IF r = "daily" THEN new ELSE collector["daily"]
  BY <1>3 DEF Inductive, TypeOK, Collector
<1> HIDE DEF new
<1>5. TypeOK' /\ SentTrue' /\ Dated' /\ Handing' /\ CostsTrue' /\ SumsTrue'
  BY <1>1, <1>2, <1>3, OneGoesOn DEF Inductive, TypeOK
<1>6. CASE r = "daily"
  <2>1. nine /\ new.target < day /\ Whole(collector[r]) /\ TimedTrue(collector[r])
    BY <1>1, <1>2, <1>6 DEF Inductive, JobTrue, PastCalls
  <2>2. new.target # 0
    BY <1>1, <1>2, LastDayIsOne DEF Day
  <2>3. \A p \in Candidate : p \in stirred \/ (p \in new.qualified <=> handed[p] = new.target)
    BY <1>2, <2>2 DEF Inductive, Handing, QualifiedOn
  <2>4. JobTrue'
    BY <1>1, <1>2, <1>3, <1>4, <1>6, <2>1, <2>3
    DEF JobTrue, Whole, TimedTrue, Told, Judged, PastFunnel, PastSum, database
  <2> QED  BY <1>3, <1>5, <2>4 DEF Inductive, FirstNine
<1>7. CASE r # "daily"
  BY <1>3, <1>4, <1>5, <1>7, JobKept DEF Inductive, FirstNine
<1> QED  BY <1>6, <1>7

\* Whom the report counts as qualified is with a manager still, or was written again.
LEMMA CountFunnelKeeps ==
  ASSUME Inductive, NEW r \in Collector, CountFunnel(r)
  PROVE  Inductive'
<1> DEFINE new == [collector[r] EXCEPT !.pc = "sum", !.managed = {p \in Candidate : WithManager(p)}]
<1>1. collector[r] \in Collected /\ collector[r].pc = "funnel" /\ collector[r].target \in Day
  BY DEF CountFunnel, Proceeds, Inductive, TypeOK, SumsTrue
<1>2. /\ new \in Collected /\ new.pc = "sum" /\ new.target = collector[r].target
      /\ new.attempts = collector[r].attempts /\ new.timed = collector[r].timed
      /\ new.qualified = collector[r].qualified
      /\ new.managed = {p \in Candidate : WithManager(p)}
  BY <1>1 DEF Collected
<1>3. /\ collector' = [collector EXCEPT ![r] = new]
      /\ UNCHANGED <<day, nine, up, database, costs, sent, missed>>
  BY DEF CountFunnel, Proceeds
<1>4. collector'["daily"] = IF r = "daily" THEN new ELSE collector["daily"]
  BY <1>3 DEF Inductive, TypeOK, Collector
<1> HIDE DEF new
<1>5. TypeOK' /\ SentTrue' /\ Dated' /\ Handing' /\ CostsTrue' /\ SumsTrue'
  BY <1>1, <1>2, <1>3, OneGoesOn DEF Inductive, TypeOK
<1>6. CASE r = "daily"
  <2>1. /\ nine /\ new.target < day
        /\ Whole(collector[r]) /\ TimedTrue(collector[r]) /\ Told(collector[r])
    BY <1>1, <1>2, <1>6 DEF Inductive, JobTrue, PastCalls, PastQualified
  <2>2. new.target # 0 /\ new.qualified \subseteq Candidate
    BY <1>1, <1>2, LastDayIsOne DEF Day, Collected
  <2>3. \A p \in new.qualified : p \in stirred \/ p \in new.managed
    BY <1>2, <2>1, <2>2 DEF Inductive, Handing, Told
  <2>4. JobTrue'
    BY <1>1, <1>2, <1>3, <1>4, <1>6, <2>1, <2>3
    DEF JobTrue, Whole, TimedTrue, Told, InFunnel, Judged, PastSum, database
  <2> QED  BY <1>3, <1>5, <2>4 DEF Inductive, FirstNine
<1>7. CASE r # "daily"
  BY <1>3, <1>4, <1>5, <1>7, JobKept DEF Inductive, FirstNine
<1> QED  BY <1>6, <1>7
\* Sums hold every call with a verdict, those of the costs stored among them.
LEMMA SumKeeps ==
  ASSUME Inductive, NEW r \in Collector, Sum(r)
  PROVE  Inductive'
<1> DEFINE new == [collector[r] EXCEPT !.pc = "store", !.billed = Billed(collector[r].target)]
<1>1. collector[r] \in Collected /\ collector[r].pc = "sum" /\ collector[r].target \in Day
  BY DEF Sum, Proceeds, Inductive, TypeOK, SumsTrue
<1>2. /\ new \in Collected /\ new.pc = "store" /\ new.target = collector[r].target
      /\ new.attempts = collector[r].attempts /\ new.timed = collector[r].timed
      /\ new.qualified = collector[r].qualified /\ new.managed = collector[r].managed
      /\ new.billed = Billed(collector[r].target)
  BY <1>1 DEF Collected, Billed, OfDay
<1>3. /\ collector' = [collector EXCEPT ![r] = new]
      /\ UNCHANGED <<day, nine, up, database, costs, sent, missed>>
  BY DEF Sum, Proceeds
<1>4. \A s \in Collector : collector'[s] = IF s = r THEN new ELSE collector[s]
  BY <1>3 DEF Inductive, TypeOK
<1> HIDE DEF new
<1>5. TypeOK'
  BY <1>2, <1>3 DEF Inductive, TypeOK, database
<1>6. Dated' /\ Handing' /\ SentTrue' /\ CostsTrue'
  BY <1>3, DatabaseKept, SentKept DEF Inductive, CostsTrue, Judged, database
<1>7. \A c \in Call : c \in new.billed <=> Judged(c, new.target)
  BY <1>2 DEF Billed, OfDay, Judged
<1>8. SumsTrue'
  <2>1. new.billed \subseteq Call
    BY <1>2 DEF Collected
  <2>2. costs[new.target] = NoRow \/ costs[new.target] \subseteq new.billed
    <3>1. costs[new.target] = NoRow \/ costs[new.target] \subseteq Call
      BY <1>1, <1>2 DEF Inductive, TypeOK
    <3> QED  BY <1>1, <1>2, <1>7, <3>1 DEF Inductive, CostsTrue
  <2> QED  BY <1>1, <1>2, <1>3, <1>4, <1>7, <2>1, <2>2 DEF Inductive, SumsTrue, Judged, database
<1>9. CASE r = "daily"
  <2>1. /\ nine /\ new.target < day
        /\ Whole(collector[r]) /\ TimedTrue(collector[r]) /\ Told(collector[r])
        /\ InFunnel(collector[r])
    BY <1>1, <1>2, <1>9 DEF Inductive, JobTrue, PastCalls, PastQualified, PastFunnel
  <2>2. \A c \in new.timed : c \in new.billed
    BY <1>2, <1>7, <2>1 DEF TimedTrue, Collected
  <2>3. JobTrue'
    BY <1>1, <1>2, <1>3, <1>4, <1>9, <2>1, <2>2
    DEF JobTrue, Whole, TimedTrue, Told, InFunnel, InCosts, Judged, database
  <2> QED  BY <1>3, <1>5, <1>6, <1>8, <2>3 DEF Inductive, FirstNine
<1>10. CASE r # "daily"
  BY <1>3, <1>4, <1>5, <1>6, <1>8, <1>10, JobKept DEF Inductive, FirstNine, Collector
<1> QED  BY <1>9, <1>10

\* Costs that are stored make the sums the other collector holds old ones.
LEMMA StoreKeeps ==
  ASSUME Inductive, NEW r \in Collector, Store(r)
  PROVE  Inductive'
<1>1. collector[r] \in Collected /\ collector[r].pc = "store" /\ collector[r].target \in Day
  BY DEF Store, Inductive, TypeOK, SumsTrue
<1>2. /\ costs' = [costs EXCEPT ![collector[r].target] = collector[r].billed]
      /\ UNCHANGED <<day, nine, up, database, sent, missed>>
  BY DEF Store
<1>3. \A s \in Collector :
        collector'[s] = IF s = r THEN [collector[s] EXCEPT !.pc = "send"]
                        ELSE [collector[s] EXCEPT !.overtaken = collector[s].overtaken \/ Overtakes(r, s)]
  BY DEF Store
<1>4. \A s \in Collector : (collector[s].overtaken \/ Overtakes(r, s)) \in BOOLEAN
  BY DEF Overtakes, Inductive, TypeOK, Collected
<1>5. \A s \in Collector :
        /\ collector'[s] \in Collected
        /\ collector'[s].pc = (IF s = r THEN "send" ELSE collector[s].pc)
        /\ collector'[s].target = collector[s].target
        /\ collector'[s].attempts = collector[s].attempts /\ collector'[s].timed = collector[s].timed
        /\ collector'[s].qualified = collector[s].qualified /\ collector'[s].managed = collector[s].managed
        /\ collector'[s].billed = collector[s].billed
        /\ s # r => collector'[s].overtaken = (collector[s].overtaken \/ Overtakes(r, s))
  <2> SUFFICES ASSUME NEW s \in Collector
               PROVE  /\ collector'[s] \in Collected
                      /\ collector'[s].pc = (IF s = r THEN "send" ELSE collector[s].pc)
                      /\ collector'[s].target = collector[s].target
                      /\ collector'[s].attempts = collector[s].attempts
                      /\ collector'[s].timed = collector[s].timed
                      /\ collector'[s].qualified = collector[s].qualified
                      /\ collector'[s].managed = collector[s].managed
                      /\ collector'[s].billed = collector[s].billed
                      /\ s # r => collector'[s].overtaken = (collector[s].overtaken \/ Overtakes(r, s))
    OBVIOUS
  <2>1. collector[s] \in Collected
    BY DEF Inductive, TypeOK
  <2>2. CASE s = r
    <3>1. collector'[s] = [collector[s] EXCEPT !.pc = "send"]
      BY <1>3, <2>2
    <3> QED  BY <2>1, <2>2, <3>1 DEF Collected
  <2>3. CASE s # r
    <3> DEFINE over == collector[s].overtaken \/ Overtakes(r, s)
    <3>1. over \in BOOLEAN /\ collector'[s] = [collector[s] EXCEPT !.overtaken = over]
      BY <1>3, <1>4, <2>3
    <3> HIDE DEF over
    <3>2. /\ collector'[s] \in Collected
          /\ collector'[s].pc = collector[s].pc
          /\ collector'[s].target = collector[s].target
          /\ collector'[s].attempts = collector[s].attempts
          /\ collector'[s].timed = collector[s].timed
          /\ collector'[s].qualified = collector[s].qualified
          /\ collector'[s].managed = collector[s].managed
          /\ collector'[s].billed = collector[s].billed
          /\ collector'[s].overtaken = over
      BY <2>1, <3>1 DEF Collected
    <3> QED  BY <2>3, <3>2 DEF over
  <2> QED  BY <2>2, <2>3
<1>6. TypeOK'
  <2>1. collector' \in [Collector -> Collected]
    <3>1. collector' = [s \in Collector |-> collector'[s]]
      BY DEF Store
    <3> QED  BY <1>5, <3>1
  <2>2. costs' \in [Day -> (SUBSET Call) \cup {NoRow}]
    BY <1>1, <1>2 DEF Inductive, TypeOK, Collected
  <2> QED  BY <1>2, <2>1, <2>2 DEF Inductive, TypeOK, database
<1>7. Dated' /\ Handing' /\ SentTrue'
  BY <1>2, DatabaseKept, SentKept
<1>8. \A d \in Day : costs'[d] = IF d = collector[r].target THEN collector[r].billed ELSE costs[d]
  BY <1>1, <1>2 DEF Inductive, TypeOK
<1>9. CostsTrue'
  BY <1>1, <1>2, <1>8 DEF Inductive, CostsTrue, SumsTrue, Judged, database
<1>10. SumsTrue'
  <2>1. ASSUME NEW s \in Collector, collector'[s].pc = "store"
        PROVE  /\ collector[s].pc = "store" /\ s # r
               /\ collector[s].target \in Day
    BY <1>5, <2>1 DEF Inductive, SumsTrue
  <2>2. ASSUME NEW s \in Collector, collector'[s].pc = "store"
        PROVE  \A c \in collector'[s].billed : Judged(c, collector[s].target)'
    BY <1>2, <1>5, <2>1, <2>2 DEF Inductive, SumsTrue, Judged, database
  <2>3. ASSUME NEW s \in Collector, collector'[s].pc = "store"
        PROVE  \/ collector'[s].overtaken
               \/ costs'[collector[s].target] = NoRow
               \/ costs'[collector[s].target] \subseteq collector'[s].billed
    <3>1. CASE collector[s].target = collector[r].target
      BY <1>5, <2>1, <2>3, <3>1 DEF Overtakes
    <3>2. CASE collector[s].target # collector[r].target
      BY <1>5, <1>8, <2>1, <2>3, <3>2 DEF Inductive, SumsTrue
    <3> QED  BY <3>1, <3>2
  <2>4. \A s \in Collector : collector'[s].pc # "idle" => collector'[s].target \in Day
    BY <1>1, <1>5 DEF Inductive, SumsTrue
  <2> QED  BY <1>5, <2>2, <2>3, <2>4 DEF SumsTrue, Judged
<1>11. JobTrue'
  <2>1. "daily" \in Collector
    BY DEF Collector
  <2> QED
    BY <1>2, <1>5, <1>1, <2>1
    DEF Inductive, JobTrue, Whole, TimedTrue, Told, InFunnel, InCosts, Judged, PastCalls,
        PastQualified, PastFunnel, PastSum, database
<1> QED  BY <1>2, <1>6, <1>7, <1>9, <1>10, <1>11 DEF Inductive, FirstNine

\* What is sent is what was collected.
LEMMA SendKeeps ==
  ASSUME Inductive, NEW r \in Collector, Send(r)
  PROVE  Inductive'
<1>1. collector[r] \in Collected /\ collector[r].pc = "send" /\ collector[r].target \in Day
  BY DEF Send, Proceeds, Inductive, TypeOK, SumsTrue
<1>2. /\ collector' = [collector EXCEPT ![r] = Idle]
      /\ UNCHANGED <<day, nine, up, database, missed, costs>>
  BY DEF Send, Proceeds
<1>3. /\ Dated' /\ Handing' /\ CostsTrue' /\ SumsTrue'
      /\ UNCHANGED sent => TypeOK' /\ SentTrue'
  BY <1>2, IdleCollected, OneGoesOn DEF Inductive, TypeOK
<1>4. collector'["daily"] = IF r = "daily" THEN Idle ELSE collector["daily"]
  BY <1>2 DEF Inductive, TypeOK, Collector
<1>5. JobTrue'
  BY <1>2, <1>4, IdleCollected, JobKept DEF JobTrue
<1>6. CASE r = "daily"
  <2> DEFINE told == Report(collector[r])
  <2>1. /\ told \in Collected /\ told.target = collector[r].target
        /\ told.attempts = collector[r].attempts /\ told.timed = collector[r].timed
        /\ told.qualified = collector[r].qualified /\ told.managed = collector[r].managed
        /\ told.billed = collector[r].billed
    BY <1>1 DEF Report, Collected
  <2> HIDE DEF told
  <2>2. sent' = [sent EXCEPT ![collector[r].target] = told]
    BY <1>6 DEF Send, told
  <2>3. TypeOK'
    BY <1>1, <1>2, <2>1, <2>2, IdleCollected DEF Inductive, TypeOK, database
  <2>4. \A d \in Day : sent'[d] = IF d = collector[r].target THEN told ELSE sent[d]
    BY <1>1, <2>2 DEF Inductive, TypeOK
  <2>5. /\ collector[r].target < day
        /\ Whole(collector[r]) /\ Told(collector[r]) /\ InFunnel(collector[r]) /\ InCosts(collector[r])
    BY <1>1, <1>6 DEF Inductive, JobTrue, PastCalls, PastQualified, PastFunnel, PastSum
  <2>6. SentTrue'
    BY <1>2, <2>1, <2>4, <2>5
    DEF Inductive, SentTrue, Whole, Told, InFunnel, InCosts, database
  <2> QED  BY <1>2, <1>3, <1>5, <2>3, <2>6 DEF Inductive, FirstNine
<1>7. CASE r # "daily"
  <2>1. UNCHANGED sent
    BY <1>7 DEF Send
  <2> QED  BY <1>2, <1>3, <1>5, <2>1 DEF Inductive, FirstNine
<1> QED  BY <1>6, <1>7

-----------------------------------------------------------------------------
\* Every step keeps the invariant.
LEMMA NextKeeps == Inductive /\ [Next]_vars => Inductive'
<1> SUFFICES ASSUME Inductive, [Next]_vars PROVE Inductive'
  OBVIOUS
<1>1. CASE Commits
  BY <1>1, CommitsKeep
<1>2. CASE NineOClock
  BY <1>2, NineOClockKeeps
<1>3. CASE Midnight \/ BotStarts
  BY <1>3, ClockKeeps
<1>4. ASSUME NEW target \in Day, Ask(target) PROVE Inductive'
  BY <1>4, AskKeeps
<1>5. ASSUME NEW r \in Collector, Collect(r) PROVE Inductive'
  BY <1>5, CountCallsKeeps, CountQualifiedKeeps, CountFunnelKeeps, SumKeeps, StoreKeeps, SendKeeps
  DEF Collect
<1>6. ASSUME NEW r \in Collector, CollectorFails(r) PROVE Inductive'
  BY <1>6, AbandonedKeeps DEF CollectorFails, Inductive, TypeOK
<1>7. CASE BotStops
  BY <1>7, AbandonedKeeps DEF BotStops
<1>8. CASE UNCHANGED vars
  BY <1>8, AbandonedKeeps
  DEF vars, database, Inductive, TypeOK, FirstNine, Dated, Handing, WithManager, JobTrue, SentTrue,
      CostsTrue, SumsTrue, Whole, TimedTrue, Told, InFunnel, InCosts, Judged
<1> QED  BY <1>1, <1>2, <1>3, <1>4, <1>5, <1>6, <1>7, <1>8 DEF Next

LEMMA AlwaysInductive == Spec => []Inductive
BY InitInductive, NextKeeps, PTL DEF Spec

-----------------------------------------------------------------------------
\* Types are kept whatever is committed, asked for or cut off.
THEOREM ReportTypes == Spec => []TypeOK
<1>1. Inductive => TypeOK
  BY DEF Inductive
<1> QED  BY <1>1, AlwaysInductive, PTL

\* The nine o'clock report has every call of its day and no other (collect_for).
THEOREM WholeDayIsTold == Spec => []DayToldWhole
<1>1. Inductive => DayToldWhole
  BY DEF Inductive, TypeOK, Collected, SentTrue, Whole, DayToldWhole, OfDay
<1> QED  BY <1>1, AlwaysInductive, PTL

\* A handover is told on its day and on no other (collect_for, report.py:81).
THEOREM HandoverIsToldOnce == Spec => []HandedOverToldOnce
<1>1. Inductive => HandedOverToldOnce
  BY DEF Inductive, SentTrue, Told, HandedOverToldOnce
<1> QED  BY <1>1, AlwaysInductive, PTL

\* The queries of a report agree with each other (collect_for, rollup_for_date).
THEOREM QueriesAgree == Spec => []ReportAgrees
<1>1. Inductive => ReportAgrees
  BY DEF Inductive, SentTrue, InFunnel, InCosts, ReportAgrees
<1> QED  BY <1>1, AlwaysInductive, PTL

\* Costs that were not overtaken replace no newer ones (rollup_for_date).
THEOREM CostsOnlyGrow == Spec => CostsNeverFall
<1> DEFINE Grown ==
             \A r \in Collector : Store(r) /\ ~collector[r].overtaken =>
               \/ costs[collector[r].target] = NoRow
               \/ costs[collector[r].target] \subseteq costs'[collector[r].target]
<1>1. Inductive /\ [Next]_vars => [Grown]_vars
  <2> SUFFICES ASSUME Inductive, NEW r \in Collector, Store(r), ~collector[r].overtaken,
                      costs[collector[r].target] # NoRow
               PROVE  costs[collector[r].target] \subseteq costs'[collector[r].target]
    OBVIOUS
  <2>1. collector[r].pc = "store" /\ collector[r].target \in Day
    BY DEF Store, Inductive, SumsTrue
  <2>2. costs'[collector[r].target] = collector[r].billed
    BY <2>1 DEF Store, Inductive, TypeOK
  <2> QED  BY <2>1, <2>2 DEF Inductive, SumsTrue
<1> QED  BY <1>1, AlwaysInductive, PTL DEF Spec, CostsNeverFall
=============================================================================
