----------------------------- MODULE CallPipeline -----------------------------
(***************************************************************************)
(* The life of a call: the scheduler's slot picks candidates               *)
(* (scheduler/dispatcher.py), one asyncio task per candidate dials it       *)
(* through Vapi (call/orchestrator.py), Vapi reports the end of the call to *)
(* a webhook (api/services.py), whose handler judges the transcript, writes *)
(* the verdict and creates the KeyCRM lead.  Candidates may also ring us.   *)
(*                                                                          *)
(* The scheduler and the API are processes of their own that share only the *)
(* database, at READ COMMITTED: a session is a step that reads and a later  *)
(* step that commits, and SQLAlchemy writes at the commit the columns whose *)
(* value differs from the one it read.  Whatever happened in between stays  *)
(* unseen.  Vapi, KeyCRM and the network are the environment; how far it    *)
(* misbehaves is the constant Faults.                                       *)
(***************************************************************************)
EXTENDS Integers, FiniteSets

CONSTANTS
  Candidate,      \* phone numbers
  Slot,           \* cron jobs of run_slot that may be under way together
  Handler,        \* webhook requests the API serves at a time
  MaxAttempts,    \* settings.call_max_attempts
  MaxConcurrent,  \* settings.call_max_concurrent
  MaxDials,       \* bound: outbound calls Vapi places to one candidate
  MaxInbound,     \* bound: calls one candidate makes to us
  Faults,         \* what the environment may do wrong
  NoCall          \* no call

(***************************************************************************)
(* no_answer     a call may end without a transcript                        *)
(* dial_fails    Vapi refuses a call, retries included                      *)
(* dial_retry    the reply to a POST /call is lost and the POST repeated    *)
(* overlap       a slot fires while calls of an earlier one are still live  *)
(* early_report  a report may arrive before the task has stored the call    *)
(* lost_report   a report may never arrive                                  *)
(* redelivery    a report may arrive again                                  *)
(* crm_fails     KeyCRM refuses a lead, retries included                    *)
(* crm_retry     the reply to a lead's POST is lost and the POST repeated   *)
(* abort         a database error or a restart ends a task or a handler     *)
(***************************************************************************)
FaultKinds == {"no_answer", "dial_fails", "dial_retry", "overlap",
  "early_report", "lost_report", "redelivery", "crm_fails", "crm_retry", "abort"}

\* Calls are named by the direction and the candidate a report of theirs names
\* after the envelope is flattened, and their ordinal.
OutCall == [dir: {"out"}, with: Candidate, n: 1..MaxDials]
InCall  == [dir: {"in"},  with: Candidate, n: 1..MaxInbound]
Call    == OutCall \cup InCall

ASSUME LimitsArePositive == MaxAttempts \in Nat \ {0} /\ MaxConcurrent \in Nat \ {0}
ASSUME BoundsAreNatural  == MaxDials \in Nat /\ MaxInbound \in Nat
ASSUME FaultsAreKnown    == Faults \subseteq FaultKinds
ASSUME NoCallIsNoCall    == NoCall \notin Call

VARIABLES
  candidate,  \* the candidates table
  callRow,    \* the calls table: the status of each row, "none" when absent
  crm,        \* external: leads KeyCRM holds for a phone number, capped
  vapi,       \* external: what Vapi knows of a call
  mail,       \* external: calls with a report on its way to the webhook
  task,       \* dispatch_for_candidate, per slot and candidate
  handler,    \* the webhook requests in progress
  counted,    \* history: attempts committed for an inbound call
  judged      \* history: summaries asked for an inbound call

env  == <<crm, vapi, mail, counted, judged>>
vars == <<candidate, callRow, crm, vapi, mail, task, handler, counted, judged>>

-----------------------------------------------------------------------------
\* States of the parts.

Status == {"absent", "new_resume", "in_call_queue", "calling",
           "unreachable", "manager_review"}
Row    == [status: Status, attempts: Nat, lead: BOOLEAN]
NoRow  == [status |-> "absent", attempts |-> 0, lead |-> FALSE]

\* The CallStatus values the code assigns to a row; "none" is no row.
CallStatus == {"none", "failed", "success", "hangup"}

\* "spoken" ended with a transcript, "silent" without one.
VapiStatus == {"none", "live", "silent", "spoken"}

\* @retry(stop_after_attempt(3)) on both POSTs.
Tries == 3

\* Bound: KeyCRM's leads are counted as none, one, or more than one.
MaxLeads == 2

Task == [pc: {"idle", "selected", "commit", "dial", "store"},
         seen: Row, call: Call \cup {NoCall}, tries: 0..Tries]
IdleTask == [pc |-> "idle", seen |-> NoRow, call |-> NoCall, tries |-> 0]

HandlerPC == {"idle", "find", "insert", "load", "register", "reload",
              "judge", "push", "save"}
HandlerState ==
  [pc: HandlerPC, call: Call \cup {NoCall}, seen: Row, seenCall: CallStatus,
   qualified: BOOLEAN, lead: BOOLEAN, tries: 0..Tries]
IdleHandler == [pc |-> "idle", call |-> NoCall, seen |-> NoRow, seenCall |-> "none",
                qualified |-> FALSE, lead |-> FALSE, tries |-> 0]

Init ==
  /\ candidate = [c \in Candidate |-> NoRow]
  /\ callRow = [k \in Call |-> "none"]
  /\ crm = [c \in Candidate |-> 0]
  /\ vapi = [k \in Call |-> "none"]
  /\ mail = {}
  /\ task = [s \in Slot |-> [c \in Candidate |-> IdleTask]]
  /\ handler = [h \in Handler |-> IdleHandler]
  /\ counted = [k \in InCall |-> 0]
  /\ judged = [k \in InCall |-> 0]

-----------------------------------------------------------------------------
\* Candidates appear: InboundRouter.ingest in its deferred mode, called by the
\* pollers and the manual webhook.  Its unique insert makes it one step here;
\* an existing candidate only gets a longer source.

Ingest(c) ==
  /\ candidate[c].status = "absent"
  /\ candidate' = [candidate EXCEPT ![c].status = "new_resume"]
  /\ UNCHANGED <<callRow, env, task, handler>>

-----------------------------------------------------------------------------
\* The scheduler.

\* Slip: the query takes candidates whose call is still open.
IgnoresCalling(c) ==
  /\ candidate[c].status \in {"new_resume", "in_call_queue", "calling"}
  /\ candidate[c].attempts < MaxAttempts

Eligible(c) ==
  /\ candidate[c].status \in {"new_resume", "in_call_queue"}
  /\ candidate[c].attempts < MaxAttempts

\* Slip: no LIMIT.
EveryEligible == {{c \in Candidate : Eligible(c)}}

\* LIMIT call_max_concurrent; which rows the match score puts first is left open.
Batches ==
  LET eligible == {c \in Candidate : Eligible(c)} IN
  {b \in SUBSET eligible : \/ Cardinality(b) = MaxConcurrent
                           \/ b = eligible /\ Cardinality(b) < MaxConcurrent}

\* max_instances is 1: a job does not start again before its gather returned.
\* Slots are hours and calls minutes apart, unless "overlap".
SlotFires(s) ==
  /\ \A c \in Candidate : task[s][c].pc = "idle"
  /\ "overlap" \in Faults \/ \A k \in OutCall : vapi[k] # "live"
  /\ \E b \in Batches :
       /\ b # {}
       /\ task' = [task EXCEPT ![s] =
            [c \in Candidate |-> IF c \in b THEN [IdleTask EXCEPT !.pc = "selected"] ELSE @[c]]]
  /\ UNCHANGED <<candidate, callRow, env, handler>>

\* First session of dispatch_for_candidate: it reads the row and trusts the
\* slot's selection, the status and the attempts are not looked at again.
TaskLoads(s, c) ==
  /\ task[s][c].pc = "selected"
  /\ task' = [task EXCEPT ![s][c].pc = "commit", ![s][c].seen = candidate[c]]
  /\ UNCHANGED <<candidate, callRow, env, handler>>

\* What an UPDATE leaves in a column read as `was` and set to `new`.
Flushed(now, was, new) == IF new # was THEN new ELSE now

\* Slip: the attempt is not counted.
CountsNothing(c, seen) ==
  [candidate EXCEPT ![c].status = Flushed(@, seen.status, "calling")]

Calling(c, seen) ==
  [candidate EXCEPT ![c] = [candidate[c] EXCEPT
     !.status = Flushed(@, seen.status, "calling"), !.attempts = seen.attempts + 1]]

TaskCommits(s, c) ==
  /\ task[s][c].pc = "commit"
  /\ candidate' = Calling(c, task[s][c].seen)
  /\ task' = [task EXCEPT ![s][c] = [IdleTask EXCEPT !.pc = "dial"]]
  /\ UNCHANGED <<callRow, env, handler>>

\* Vapi takes a POST /call: the candidate's next call rings.
Places(k) ==
  /\ vapi[k] = "none"
  /\ \A n \in 1..(k.n - 1) : vapi[[k EXCEPT !.n = n]] # "none"
  /\ vapi' = [vapi EXCEPT ![k] = "live"]

DialSucceeds(s, c) ==
  /\ task[s][c].pc = "dial"
  /\ \E k \in OutCall :
       /\ k.with = c
       /\ Places(k)
       /\ task' = [task EXCEPT ![s][c] = [IdleTask EXCEPT !.pc = "store", !.call = k]]
  /\ UNCHANGED <<candidate, callRow, crm, mail, handler, counted, judged>>

\* The call is placed, the reply lost: tenacity posts again, or gives up.
DialReplyLost(s, c) ==
  /\ "dial_retry" \in Faults
  /\ task[s][c].pc = "dial"
  /\ \E k \in OutCall : k.with = c /\ Places(k)
  /\ task' = [task EXCEPT ![s][c] =
       LET tries == task[s][c].tries + 1 IN
       IF tries < Tries THEN [task[s][c] EXCEPT !.tries = tries] ELSE IdleTask]
  /\ UNCHANGED <<candidate, callRow, crm, mail, handler, counted, judged>>

\* dispatch_failed: logged, and the candidate is left as it is.
DialFails(s, c) ==
  /\ "dial_fails" \in Faults
  /\ task[s][c].pc = "dial"
  /\ task' = [task EXCEPT ![s][c] = IdleTask]
  /\ UNCHANGED <<candidate, callRow, env, handler>>

\* Second session: the Call row, born "failed" until a report says otherwise.
TaskStores(s, c) ==
  /\ task[s][c].pc = "store"
  /\ callRow' = [callRow EXCEPT ![task[s][c].call] = "failed"]
  /\ task' = [task EXCEPT ![s][c] = IdleTask]
  /\ UNCHANGED <<candidate, env, handler>>

\* An exception in a session, or the end of the process.
TaskAborts(s, c) ==
  /\ "abort" \in Faults
  /\ task[s][c].pc # "idle"
  /\ task' = [task EXCEPT ![s][c] = IdleTask]
  /\ UNCHANGED <<candidate, callRow, env, handler>>

-----------------------------------------------------------------------------
\* The environment: Vapi and the network.

\* A candidate rings the Vapi number.
RingsUs(k) ==
  /\ k \in InCall
  /\ Places(k)
  /\ UNCHANGED <<candidate, callRow, crm, mail, task, handler, counted, judged>>

BeingStored(k) == \E s \in Slot : task[s][k.with].pc = "store" /\ task[s][k.with].call = k

\* The call ends, answered or not, and its report is sent.
CallEnds(k) ==
  /\ vapi[k] = "live"
  /\ "early_report" \in Faults \/ ~BeingStored(k)
  /\ \E how \in {"spoken"} \cup (IF "no_answer" \in Faults THEN {"silent"} ELSE {}) :
       vapi' = [vapi EXCEPT ![k] = how]
  /\ mail' = mail \cup {k}
  /\ UNCHANGED <<candidate, callRow, crm, task, handler, counted, judged>>

ReportLost(k) ==
  /\ "lost_report" \in Faults
  /\ k \in mail
  /\ mail' = mail \ {k}
  /\ UNCHANGED <<candidate, callRow, crm, vapi, task, handler, counted, judged>>

Redelivered(k) ==
  /\ "redelivery" \in Faults
  /\ vapi[k] \in {"silent", "spoken"}
  /\ k \notin mail
  /\ mail' = mail \cup {k}
  /\ UNCHANGED <<candidate, callRow, crm, vapi, task, handler, counted, judged>>

-----------------------------------------------------------------------------
\* The webhook handler.

\* Slip: every report is processed.
AnyReport(k) == TRUE

\* "missing_data": a report without a transcript is answered and forgotten.
HasTranscript(k) == vapi[k] = "spoken"

\* handle_vapi_event, up to the end of the handler's first query.
ReportIgnored(k) ==
  /\ k \in mail
  /\ \/ ~HasTranscript(k)
     \/ k \in OutCall /\ callRow[k] = "none"    \* unknown_call
     \/ k \in InCall /\ callRow[k] # "none"     \* already_processed
  /\ mail' = mail \ {k}
  /\ UNCHANGED <<candidate, callRow, crm, vapi, task, handler, counted, judged>>

\* process_end_of_call: the session stays open from here to SaveVerdict.
ReportOfOutbound(h, k) ==
  /\ handler[h].pc = "idle"
  /\ k \in mail \cap OutCall
  /\ HasTranscript(k)
  /\ callRow[k] # "none"
  /\ mail' = mail \ {k}
  /\ handler' = [handler EXCEPT ![h] = [IdleHandler EXCEPT !.pc = "judge", !.call = k,
                   !.seen = candidate[k.with], !.seenCall = callRow[k]]]
  /\ UNCHANGED <<candidate, callRow, crm, vapi, task, counted, judged>>

\* process_inbound_call, a session at a time.
ReportOfInbound(h, k) ==
  /\ handler[h].pc = "idle"
  /\ k \in mail \cap InCall
  /\ HasTranscript(k)
  /\ callRow[k] = "none"
  /\ mail' = mail \ {k}
  /\ handler' = [handler EXCEPT ![h] = [IdleHandler EXCEPT !.pc = "find", !.call = k]]
  /\ UNCHANGED <<candidate, callRow, crm, vapi, task, counted, judged>>

Caller(h) == handler[h].call.with

\* The candidate by phone, here and again at the head of ingest.
FindCaller(h) ==
  /\ handler[h].pc = "find"
  /\ handler' = [handler EXCEPT ![h].pc =
       IF candidate[Caller(h)].status = "absent" THEN "insert" ELSE "load"]
  /\ UNCHANGED <<candidate, callRow, env, task>>

\* ingest(source = "inbound_call"): a row inserted meanwhile by another makes
\* the flush raise, and the report is lost with the request.
InsertCaller(h) ==
  /\ handler[h].pc = "insert"
  /\ \/ /\ candidate[Caller(h)].status = "absent"
        /\ candidate' = [candidate EXCEPT ![Caller(h)].status = "new_resume"]
        /\ handler' = [handler EXCEPT ![h].pc = "load"]
     \/ /\ candidate[Caller(h)].status # "absent"
        /\ handler' = [handler EXCEPT ![h] = IdleHandler]
        /\ UNCHANGED candidate
  /\ UNCHANGED <<callRow, env, task>>

LoadCaller(h) ==
  /\ handler[h].pc = "load"
  /\ handler' = [handler EXCEPT ![h] =
       [@ EXCEPT !.pc = "register", !.seen = candidate[Caller(h)]]]
  /\ UNCHANGED <<candidate, callRow, env, task>>

\* Slip: vapi_call_id is an ordinary column.
NoUniqueIndex(k) == TRUE

\* The unique index on calls.vapi_call_id.
Insertable(k) == callRow[k] = "none"

\* History: one more for this call.
Once(count, k) == [j \in InCall |-> count[j] + IF j = k THEN 1 ELSE 0]

\* The caller's attempt is counted and the call inserted, in one transaction.
RegisterInbound(h) ==
  LET k == handler[h].call IN
  /\ handler[h].pc = "register"
  /\ \/ /\ Insertable(k)
        /\ callRow' = [callRow EXCEPT ![k] = "failed"]
        /\ candidate' = [candidate EXCEPT ![k.with].attempts = handler[h].seen.attempts + 1]
        /\ counted' = Once(counted, k)
        /\ handler' = [handler EXCEPT ![h].pc = "reload"]
     \/ /\ ~Insertable(k)
        /\ handler' = [handler EXCEPT ![h] = IdleHandler]
        /\ UNCHANGED <<candidate, callRow, counted>>
  /\ UNCHANGED <<crm, vapi, mail, task, judged>>

ReloadInbound(h) ==
  /\ handler[h].pc = "reload"
  /\ handler' = [handler EXCEPT ![h] = [@ EXCEPT
       !.pc = "judge", !.seen = candidate[Caller(h)], !.seenCall = callRow[handler[h].call]]]
  /\ UNCHANGED <<candidate, callRow, env, task>>

-----------------------------------------------------------------------------
\* _finalize_call.  KeyCRM stages are not moved: every id in STAGE_MAP is 0 until
\* load_stages_from_api runs, and nothing calls it.

\* Slip: off by one.
OneMoreIsLeft(attempts) == attempts > MaxAttempts

Exhausted(attempts) == attempts >= MaxAttempts

\* Slip: only the qualified reach the CRM.
PushesQualified(seen, qualified) == ~seen.lead /\ qualified

ShouldPush(seen, qualified) == ~seen.lead /\ (qualified \/ Exhausted(seen.attempts))

\* Summarizer.summarize: what the model answers about the transcript; an answer
\* without the tool call and an exception count as "not qualified".
Verdicts == BOOLEAN

Judge(h) ==
  /\ handler[h].pc = "judge"
  /\ \E qualified \in Verdicts :
       handler' = [handler EXCEPT ![h] = [@ EXCEPT !.qualified = qualified,
         !.pc = IF ShouldPush(handler[h].seen, qualified) THEN "push" ELSE "save"]]
  /\ judged' = Once(judged, handler[h].call)
  /\ UNCHANGED <<candidate, callRow, crm, vapi, mail, task, counted>>

LeadPosted(c) == crm' = [crm EXCEPT ![c] = IF @ < MaxLeads THEN @ + 1 ELSE @]

CreateLead(h) ==
  /\ handler[h].pc = "push"
  /\ LeadPosted(Caller(h))
  /\ handler' = [handler EXCEPT ![h] = [@ EXCEPT !.pc = "save", !.lead = TRUE, !.tries = 0]]
  /\ UNCHANGED <<candidate, callRow, vapi, mail, task, counted, judged>>

\* The lead is created, the reply lost: posted again, or given up.
LeadReplyLost(h) ==
  /\ "crm_retry" \in Faults
  /\ handler[h].pc = "push"
  /\ LeadPosted(Caller(h))
  /\ handler' = [handler EXCEPT ![h] =
       LET tries == handler[h].tries + 1 IN
       IF tries < Tries THEN [handler[h] EXCEPT !.tries = tries]
                        ELSE [handler[h] EXCEPT !.tries = 0, !.pc = "save"]]
  /\ UNCHANGED <<candidate, callRow, vapi, mail, task, counted, judged>>

\* Slip: an id is stored although the POST failed.
LeadFailsButStored(h) ==
  /\ "crm_fails" \in Faults
  /\ handler[h].pc = "push"
  /\ handler' = [handler EXCEPT ![h] = [@ EXCEPT !.pc = "save", !.lead = TRUE, !.tries = 0]]
  /\ UNCHANGED <<candidate, callRow, env, task>>

\* keycrm_create_failed: logged, the verdict is saved without a lead.
LeadFails(h) ==
  /\ "crm_fails" \in Faults
  /\ handler[h].pc = "push"
  /\ handler' = [handler EXCEPT ![h] = [@ EXCEPT !.pc = "save", !.tries = 0]]
  /\ UNCHANGED <<candidate, callRow, env, task>>

\* Slip: a status nothing else knows.
LeavesCallDone(qualified, attempts) == IF qualified THEN "manager_review" ELSE "call_done"

VerdictStatus(qualified, attempts) ==
  IF qualified THEN "manager_review"
  ELSE IF Exhausted(attempts) THEN "unreachable" ELSE "in_call_queue"

\* Slip: the result is written before the verdict.
AlwaysHangup(qualified) == "hangup"

CallResult(qualified) == IF qualified THEN "success" ELSE "hangup"

\* The commit at the end of the session.
SaveVerdict(h) ==
  LET me == handler[h]
      c  == me.call.with
      status == VerdictStatus(me.qualified, me.seen.attempts)
  IN
  /\ me.pc = "save"
  /\ callRow' = [callRow EXCEPT ![me.call] = Flushed(@, me.seenCall, CallResult(me.qualified))]
  /\ candidate' = [candidate EXCEPT ![c] = [candidate[c] EXCEPT
       !.status = Flushed(@, me.seen.status, status), !.lead = @ \/ me.lead]]
  /\ handler' = [handler EXCEPT ![h] = IdleHandler]
  /\ UNCHANGED <<env, task>>

\* An exception in a session, or the end of the process: nothing is committed.
HandlerAborts(h) ==
  /\ "abort" \in Faults
  /\ handler[h].pc # "idle"
  /\ handler' = [handler EXCEPT ![h] = IdleHandler]
  /\ UNCHANGED <<candidate, callRow, env, task>>

-----------------------------------------------------------------------------
TaskStep(s, c) ==
  \/ TaskLoads(s, c)    \/ TaskCommits(s, c)
  \/ DialSucceeds(s, c) \/ DialReplyLost(s, c) \/ DialFails(s, c)
  \/ TaskStores(s, c)

HandlerStep(h) ==
  \/ FindCaller(h) \/ InsertCaller(h) \/ LoadCaller(h)
  \/ RegisterInbound(h) \/ ReloadInbound(h)
  \/ Judge(h) \/ CreateLead(h) \/ LeadReplyLost(h) \/ LeadFails(h)
  \/ SaveVerdict(h)

Answered(k) ==
  \/ ReportIgnored(k)
  \/ \E h \in Handler : ReportOfOutbound(h, k) \/ ReportOfInbound(h, k)

Next ==
  \/ \E c \in Candidate : Ingest(c)
  \/ \E s \in Slot : SlotFires(s)
  \/ \E s \in Slot, c \in Candidate : TaskStep(s, c) \/ TaskAborts(s, c)
  \/ \E k \in Call : RingsUs(k) \/ CallEnds(k) \/ ReportLost(k) \/ Redelivered(k)
  \/ \E k \in Call : Answered(k)
  \/ \E h \in Handler : HandlerStep(h) \/ HandlerAborts(h)

Spec == Init /\ [][Next]_vars

\* Cron keeps firing the slots; tasks and handlers are run by asyncio and every
\* request they wait for has a timeout; Vapi ends each call and sends its report.
\* Nothing is owed to new candidates, to callers or to the faults.
Fairness ==
  /\ \A s \in Slot : WF_vars(SlotFires(s))
  /\ \A s \in Slot, c \in Candidate : WF_vars(TaskStep(s, c))
  /\ \A k \in Call : WF_vars(CallEnds(k)) /\ WF_vars(Answered(k))
  /\ \A h \in Handler : WF_vars(HandlerStep(h))

FairSpec == Spec /\ Fairness
-----------------------------------------------------------------------------
(***************************************************************************)
(* Properties.  Which of them hold depends on what the environment does;    *)
(* the runs say under which faults each was checked.                        *)
(***************************************************************************)

\* Every variable has its type: rows, calls, tasks and requests stay in the
\* states the columns and the code's control points allow.
TypeOK ==
  /\ candidate \in [Candidate -> Row]
  /\ callRow \in [Call -> CallStatus]
  /\ crm \in [Candidate -> 0..MaxLeads]
  /\ vapi \in [Call -> VapiStatus]
  /\ mail \subseteq Call
  /\ task \in [Slot -> [Candidate -> Task]]
  /\ handler \in [Handler -> HandlerState]
  /\ counted \in [InCall -> Nat] /\ judged \in [InCall -> Nat]

CallsWith(c)  == {k \in Call : k.with = c}
DialsTo(c)    == {k \in OutCall : k.with = c /\ vapi[k] # "none"}
LiveCalls     == {k \in OutCall : vapi[k] = "live"}

\* Only candidates who spoke with Eva land in the CRM (inbound_router.py:7-8):
\* no lead without a call of that candidate that ended with a transcript,
\* whatever is lost, repeated, retried or aborted.
LeadAfterConversation ==
  \A c \in Candidate : crm[c] > 0 => \E k \in CallsWith(c) : vapi[k] = "spoken"

\* A lead id stored on a candidate is the id of a lead KeyCRM has: the id is
\* committed by a later step than the POST, of a request that may have died.
StoredLeadExists == \A c \in Candidate : candidate[c].lead => crm[c] > 0

\* A candidate ringing us is counted once and judged once over the whole life of
\* the call, however often and however concurrently the report is delivered and
\* whichever request dies: the check for an existing row may race, the unique
\* index on vapi_call_id decides (orchestrator.py:148-156, 199-210).
InboundJudgedOnce == \A k \in InCall : counted[k] <= 1 /\ judged[k] <= 1

\* "Keeps the limits on the number of attempts" (README.md:19): no candidate is
\* dialled more often than call_max_attempts, although nothing rechecks the
\* counter between the slot's query and the call.
DialLimit == \A c \in Candidate : Cardinality(DialsTo(c)) <= MaxAttempts

\* Nobody is rung while already on the phone with us.
OneLiveCall ==
  \A c \in Candidate : Cardinality({k \in DialsTo(c) : vapi[k] = "live"}) <= 1

\* "... and of simultaneous calls" (README.md:19): over all candidates at most
\* call_max_concurrent outbound calls are live.
LiveCallsBounded == Cardinality(LiveCalls) <= MaxConcurrent

\* One lead per phone number (docs/keycrm_schema.md:85-94): _finalize_call
\* creates leads guarded by nothing but the id it read before the summary.
SingleLead == \A c \in Candidate : crm[c] <= 1

\* A candidate who awaits a manager has a call recorded as successful: the two
\* rows are written from one verdict, by one of several requests.
ReviewHasSuccess ==
  \A c \in Candidate : candidate[c].status = "manager_review" =>
    \E k \in CallsWith(c) : callRow[k] = "success"

\* Whoever is handed over or given up is in the CRM, where managers look.
ResolvedReachesCrm ==
  \A c \in Candidate :
    candidate[c].status \in {"manager_review", "unreachable"} => crm[c] > 0

\* Something is still to happen to the candidate: a task has them in hand, a call
\* of theirs is live, or its report is on its way or with a request.
UnderWay(c) ==
  \/ \E s \in Slot : task[s][c].pc # "idle"
  \/ \E k \in CallsWith(c) :
       vapi[k] = "live" \/ k \in mail \/ \E h \in Handler : handler[h].call = k

\* A call rang until it ended without a transcript.
DidNotPickUp(c) == \E k \in CallsWith(c) : vapi[k] = "silent"

\* Nobody drops out between the slot, the call and the verdict: who is neither
\* selected again (dispatcher.py:34-41) nor under way has been resolved, or has
\* a call that nobody answered.
NobodyForgotten ==
  \A c \in Candidate :
    \/ candidate[c].status \in {"absent", "manager_review", "unreachable"}
    \/ Eligible(c) \/ UnderWay(c) \/ DidNotPickUp(c)

\* The pipeline moves each row the way the funnel promises.
Funnel == INSTANCE CandidateFunnel WITH row <- candidate
FunnelSpec == Funnel!Spec

\* Every candidate who entered and picks up ends with a manager or as unreachable:
\* nobody is forgotten in the queue or in the middle of a call.
EveryoneResolved ==
  \A c \in Candidate : candidate[c].status # "absent" ~>
    candidate[c].status \in {"manager_review", "unreachable"} \/ DidNotPickUp(c)

\* "No answer + retry left ... just retries later" (orchestrator.py:284-286): a
\* candidate who did not pick up leaves the calling state.
NoAnswerRetries ==
  \A c \in Candidate : candidate[c].status = "calling" ~> candidate[c].status # "calling"
=============================================================================
