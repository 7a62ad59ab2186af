-------------------------- MODULE CallPipelineProofs --------------------------
(***************************************************************************)
(* What CallPipeline guarantees for any number of candidates, slots, calls  *)
(* and requests, a section for each environment:                             *)
(*   under every fault: types, the deferred-CRM promise, and that an inbound *)
(*   call is judged once;                                                    *)
(*   where KeyCRM accepts: whoever is resolved is in the CRM;                *)
(*   where reports arrive at most once: the limits on dialling, the single   *)
(*   lead, and the funnel;                                                   *)
(*   where they also arrive in time: nobody is forgotten;                    *)
(*   where slots do not overlap: the limit on simultaneous calls.            *)
(***************************************************************************)
EXTENDS CallPipeline, FiniteSetTheorems, TLAPS

\* Two calls of different directions differ, and each has a candidate.
LEMMA CallFacts ==
  /\ \A k \in Call : k.with \in Candidate
  /\ OutCall \cap InCall = {}
  /\ OutCall \subseteq Call /\ InCall \subseteq Call
BY DEF Call, OutCall, InCall

\* The local states the code starts from.
LEMMA IdleTypes ==
  /\ NoRow \in Row
  /\ IdleTask \in Task
  /\ IdleHandler \in HandlerState
BY DEF NoRow, Row, Status, IdleTask, Task, IdleHandler, HandlerState, HandlerPC, CallStatus, Tries

\* An UPDATE leaves a column with its own value or with the one set.
LEMMA FlushedIsOneOf ==
  ASSUME NEW now, NEW was, NEW new
  PROVE  Flushed(now, was, new) \in {now, new}
BY DEF Flushed

\* Updating the columns of a row with values of their types leaves a row.
LEMMA RowUpdated ==
  \A r \in Row :
    /\ \A st \in Status : [r EXCEPT !.status = st] \in Row
    /\ \A n \in Nat : [r EXCEPT !.attempts = n] \in Row
    /\ \A st \in Status, n \in Nat : [r EXCEPT !.status = st, !.attempts = n] \in Row
    /\ \A st \in Status, b \in BOOLEAN : [r EXCEPT !.status = st, !.lead = b] \in Row
BY DEF Row

\* So does a handler's progress.
LEMMA HandlerFieldUpdated ==
  ASSUME NEW x \in HandlerState
  PROVE  /\ \A pc \in HandlerPC : [x EXCEPT !.pc = pc] \in HandlerState
         /\ \A t \in 0..Tries : [x EXCEPT !.tries = t] \in HandlerState
         /\ \A b \in BOOLEAN : [x EXCEPT !.lead = b] \in HandlerState
         /\ \A q \in BOOLEAN : [x EXCEPT !.qualified = q] \in HandlerState
         /\ \A r \in Row : [x EXCEPT !.seen = r] \in HandlerState
         /\ \A st \in CallStatus : [x EXCEPT !.seenCall = st] \in HandlerState
<1>1. ASSUME NEW pc \in HandlerPC PROVE [x EXCEPT !.pc = pc] \in HandlerState
  BY DEF HandlerState
<1>2. ASSUME NEW t \in 0..Tries PROVE [x EXCEPT !.tries = t] \in HandlerState
  BY DEF HandlerState
<1>3. ASSUME NEW b \in BOOLEAN PROVE [x EXCEPT !.lead = b] \in HandlerState
  BY DEF HandlerState
<1>4. ASSUME NEW q \in BOOLEAN PROVE [x EXCEPT !.qualified = q] \in HandlerState
  BY DEF HandlerState
<1>5. ASSUME NEW r \in Row PROVE [x EXCEPT !.seen = r] \in HandlerState
  BY DEF HandlerState
<1>6. ASSUME NEW st \in CallStatus PROVE [x EXCEPT !.seenCall = st] \in HandlerState
  BY DEF HandlerState
<1> QED  BY <1>1, <1>2, <1>3, <1>4, <1>5, <1>6

LEMMA HandlerUpdated ==
  ASSUME NEW x \in HandlerState, NEW pc \in HandlerPC
  PROVE  /\ [x EXCEPT !.pc = pc] \in HandlerState
         /\ [x EXCEPT !.pc = pc, !.tries = 0] \in HandlerState
         /\ [x EXCEPT !.tries = 0, !.pc = pc] \in HandlerState
         /\ [x EXCEPT !.pc = pc, !.lead = TRUE, !.tries = 0] \in HandlerState
         /\ \A r \in Row : [x EXCEPT !.pc = pc, !.seen = r] \in HandlerState
         /\ \A r \in Row, st \in CallStatus :
               [x EXCEPT !.pc = pc, !.seen = r, !.seenCall = st] \in HandlerState
         /\ \A q \in BOOLEAN : [x EXCEPT !.qualified = q, !.pc = pc] \in HandlerState
<1>0. 0 \in 0..Tries
  BY DEF Tries
<1> QED  BY <1>0, HandlerFieldUpdated

-----------------------------------------------------------------------------
\* Type correctness, one lemma per part of the system.

LEMMA InitTyped == Init => TypeOK
<1> SUFFICES ASSUME Init PROVE TypeOK
  OBVIOUS
<1> USE IdleTypes DEF Init
<1>1. candidate \in [Candidate -> Row]
  OBVIOUS
<1>2. callRow \in [Call -> CallStatus] /\ vapi \in [Call -> VapiStatus] /\ mail \subseteq Call
  BY DEF CallStatus, VapiStatus
<1>3. crm \in [Candidate -> 0..MaxLeads]
  BY DEF MaxLeads
<1>4. task \in [Slot -> [Candidate -> Task]] /\ handler \in [Handler -> HandlerState]
  OBVIOUS
<1>5. counted \in [InCall -> Nat] /\ judged \in [InCall -> Nat]
  OBVIOUS
<1> QED  BY <1>1, <1>2, <1>3, <1>4, <1>5 DEF TypeOK

LEMMA IngestTyped == ASSUME TypeOK, NEW c \in Candidate, Ingest(c) PROVE TypeOK'
BY DEF TypeOK, Ingest, env, Row, Status

LEMMA SlotTyped == ASSUME TypeOK, NEW s \in Slot, SlotFires(s) PROVE TypeOK'
<1>1. PICK b \in Batches : task' = [task EXCEPT ![s] =
        [c \in Candidate |-> IF c \in b THEN [IdleTask EXCEPT !.pc = "selected"] ELSE @[c]]]
  BY DEF SlotFires
<1>2. [IdleTask EXCEPT !.pc = "selected"] \in Task
  BY IdleTypes DEF Task
<1>3. task[s] \in [Candidate -> Task]
  BY DEF TypeOK
<1>4. [c \in Candidate |-> IF c \in b THEN [IdleTask EXCEPT !.pc = "selected"] ELSE task[s][c]]
        \in [Candidate -> Task]
  BY <1>2, <1>3
<1>5. task' \in [Slot -> [Candidate -> Task]]
  BY <1>1, <1>4 DEF TypeOK
<1> QED  BY <1>5 DEF TypeOK, SlotFires, env

\* A step that replaces one task by a well-typed one keeps the tasks typed.
LEMMA TaskReplaced ==
  ASSUME TypeOK, NEW s \in Slot, NEW c \in Candidate, NEW t \in Task,
         task' = [task EXCEPT ![s][c] = t]
  PROVE  task' \in [Slot -> [Candidate -> Task]]
BY DEF TypeOK

LEMMA TaskTyped ==
  ASSUME TypeOK, NEW s \in Slot, NEW c \in Candidate, TaskStep(s, c) \/ TaskAborts(s, c)
  PROVE  TypeOK'
<1> USE IdleTypes, CallFacts
<1>0. task[s][c] \in Task /\ candidate[c] \in Row
  BY DEF TypeOK
<1>1. CASE TaskLoads(s, c)
  <2> DEFINE t == [task[s][c] EXCEPT !.pc = "commit", !.seen = candidate[c]]
  <2>1. t \in Task
    BY <1>0 DEF Task
  <2>2. task' = [task EXCEPT ![s][c] = t]
    BY <1>1, <1>0 DEF TaskLoads, TypeOK, Task
  <2> HIDE DEF t
  <2>3. task' \in [Slot -> [Candidate -> Task]]
    BY <2>1, <2>2, TaskReplaced
  <2> QED  BY <1>1, <2>3 DEF TypeOK, TaskLoads, env
<1>2. CASE TaskCommits(s, c)
  <2>1. candidate' \in [Candidate -> Row]
    <3>1. task[s][c].seen.attempts + 1 \in Nat
      BY <1>0 DEF Task, Row
    <3>2. Flushed(candidate[c].status, task[s][c].seen.status, "calling") \in Status
      BY <1>0, FlushedIsOneOf DEF Row, Status
    <3> DEFINE r == [candidate[c] EXCEPT
          !.status = Flushed(candidate[c].status, task[s][c].seen.status, "calling"),
          !.attempts = task[s][c].seen.attempts + 1]
    <3>3. r \in Row
      BY <1>0, <3>1, <3>2, RowUpdated
    <3>4. candidate' = [candidate EXCEPT ![c] = r]
      BY <1>0, <1>2 DEF TaskCommits, Calling
    <3> HIDE DEF r
    <3> QED  BY <3>3, <3>4 DEF TypeOK
  <2>2. [IdleTask EXCEPT !.pc = "dial"] \in Task
    BY DEF Task
  <2> QED  BY <1>2, <2>1, <2>2, TaskReplaced DEF TypeOK, TaskCommits, env
<1>3. CASE DialSucceeds(s, c)
  <2>1. PICK k \in OutCall :
          /\ Places(k)
          /\ task' = [task EXCEPT ![s][c] = [IdleTask EXCEPT !.pc = "store", !.call = k]]
    BY <1>3 DEF DialSucceeds
  <2>2. [IdleTask EXCEPT !.pc = "store", !.call = k] \in Task
    BY DEF Task
  <2>3. vapi' \in [Call -> VapiStatus]
    BY <2>1 DEF Places, TypeOK, VapiStatus
  <2> QED  BY <1>3, <2>1, <2>2, <2>3, TaskReplaced DEF TypeOK, DialSucceeds
<1>4. CASE DialReplyLost(s, c)
  <2>1. vapi' \in [Call -> VapiStatus]
    BY <1>4 DEF DialReplyLost, Places, TypeOK, VapiStatus
  <2> DEFINE t == IF task[s][c].tries + 1 < Tries
                  THEN [task[s][c] EXCEPT !.tries = task[s][c].tries + 1] ELSE IdleTask
  <2>2. t \in Task
    BY <1>0 DEF Task, Tries
  <2>3. task' = [task EXCEPT ![s][c] = t]
    BY <1>4 DEF DialReplyLost, TypeOK
  <2> HIDE DEF t
  <2>4. task' \in [Slot -> [Candidate -> Task]]
    BY <2>2, <2>3, TaskReplaced
  <2> QED  BY <1>4, <2>1, <2>4 DEF TypeOK, DialReplyLost
<1>5. CASE DialFails(s, c)
  BY <1>5, TaskReplaced DEF TypeOK, DialFails, env
<1>6. CASE TaskStores(s, c)
  <2>1. callRow' \in [Call -> CallStatus]
    BY <1>6 DEF TaskStores, TypeOK, CallStatus
  <2> QED  BY <1>6, <2>1, TaskReplaced DEF TypeOK, TaskStores, env
<1>7. CASE TaskAborts(s, c)
  BY <1>7, TaskReplaced DEF TypeOK, TaskAborts, env
<1> QED  BY <1>1, <1>2, <1>3, <1>4, <1>5, <1>6, <1>7 DEF TaskStep

LEMMA NetworkTyped ==
  ASSUME TypeOK, NEW k \in Call,
         RingsUs(k) \/ CallEnds(k) \/ ReportLost(k) \/ Redelivered(k)
  PROVE  TypeOK'
<1>1. CASE RingsUs(k)
  BY <1>1 DEF TypeOK, RingsUs, Places, VapiStatus
<1>2. CASE CallEnds(k)
  BY <1>2 DEF TypeOK, CallEnds, VapiStatus
<1>3. CASE ReportLost(k)
  BY <1>3 DEF TypeOK, ReportLost
<1>4. CASE Redelivered(k)
  BY <1>4 DEF TypeOK, Redelivered
<1> QED  BY <1>1, <1>2, <1>3, <1>4

LEMMA AnsweredTyped == ASSUME TypeOK, NEW k \in Call, Answered(k) PROVE TypeOK'
<1>1. CASE ReportIgnored(k)
  BY <1>1 DEF TypeOK, ReportIgnored
<1>2. ASSUME NEW h \in Handler, ReportOfOutbound(h, k) PROVE TypeOK'
  <2>1. candidate[k.with] \in Row /\ callRow[k] \in CallStatus
    BY CallFacts DEF TypeOK
  <2>2. [IdleHandler EXCEPT !.pc = "judge", !.call = k, !.seen = candidate[k.with],
                            !.seenCall = callRow[k]] \in HandlerState
    BY <2>1, IdleTypes DEF HandlerState, HandlerPC
  <2> QED  BY <1>2, <2>2 DEF TypeOK, ReportOfOutbound
<1>3. ASSUME NEW h \in Handler, ReportOfInbound(h, k) PROVE TypeOK'
  <2>1. [IdleHandler EXCEPT !.pc = "find", !.call = k] \in HandlerState
    BY IdleTypes DEF HandlerState, HandlerPC
  <2> QED  BY <1>3, <2>1 DEF TypeOK, ReportOfInbound
<1> QED  BY <1>1, <1>2, <1>3 DEF Answered
\* A request in progress is about a call, so it has a caller.
HandlersHoldCalls ==
  \A h \in Handler : handler[h].pc # "idle" => handler[h].call \in Call

\* A step that replaces one request by a well-typed one keeps them typed.
LEMMA HandlerReplaced ==
  ASSUME TypeOK, NEW h \in Handler, NEW x \in HandlerState,
         handler' = [handler EXCEPT ![h] = x]
  PROVE  handler' \in [Handler -> HandlerState]
BY DEF TypeOK

LEMMA OnceTyped ==
  ASSUME NEW count \in [InCall -> Nat], NEW k
  PROVE  Once(count, k) \in [InCall -> Nat]
BY DEF Once

LEMMA LeadTyped ==
  ASSUME TypeOK, NEW c \in Candidate, LeadPosted(c)
  PROVE  crm' \in [Candidate -> 0..MaxLeads]
BY DEF TypeOK, LeadPosted, MaxLeads

LEMMA HandlerTyped ==
  ASSUME TypeOK, HandlersHoldCalls, NEW h \in Handler, HandlerStep(h) \/ HandlerAborts(h)
  PROVE  TypeOK'
<1> DEFINE me == handler[h]
<1>0. me \in HandlerState /\ IdleHandler \in HandlerState
  BY IdleTypes DEF TypeOK
<1>a. me.pc # "idle" => Caller(h) \in Candidate /\ candidate[Caller(h)] \in Row
                          /\ callRow[me.call] \in CallStatus
  BY CallFacts DEF TypeOK, HandlersHoldCalls, Caller
<1>1. CASE FindCaller(h)
  <2> DEFINE pc == IF candidate[Caller(h)].status = "absent" THEN "insert" ELSE "load"
             x  == [me EXCEPT !.pc = pc]
  <2>1. handler' = [handler EXCEPT ![h] = x]
    BY <1>1 DEF FindCaller
  <2>2. pc \in HandlerPC
    BY DEF HandlerPC
  <2> HIDE DEF pc
  <2>3. x \in HandlerState
    BY <1>0, <2>2, HandlerUpdated
  <2> QED  BY <1>1, <2>1, <2>3, HandlerReplaced DEF FindCaller, TypeOK, env
<1>2. CASE InsertCaller(h)
  <2>1. me.pc # "idle"
    BY <1>2 DEF InsertCaller
  <2>2. candidate' \in [Candidate -> Row]
    <3> DEFINE r == [candidate[Caller(h)] EXCEPT !.status = "new_resume"]
    <3>1. r \in Row
      BY <1>a, <2>1, RowUpdated DEF Status
    <3>2. candidate' = [candidate EXCEPT ![Caller(h)] = r] \/ candidate' = candidate
      BY <1>2 DEF InsertCaller
    <3> HIDE DEF r
    <3> QED  BY <1>a, <2>1, <3>1, <3>2 DEF TypeOK
  <2>3. handler' \in [Handler -> HandlerState]
    <3>1. [me EXCEPT !.pc = "load"] \in HandlerState
      BY <1>0, HandlerUpdated DEF HandlerPC
    <3>2. \/ handler' = [handler EXCEPT ![h] = [me EXCEPT !.pc = "load"]]
          \/ handler' = [handler EXCEPT ![h] = IdleHandler]
      BY <1>2 DEF InsertCaller
    <3> QED  BY <1>0, <3>1, <3>2, HandlerReplaced
  <2> QED  BY <1>2, <2>2, <2>3 DEF InsertCaller, TypeOK, env
<1>3. CASE LoadCaller(h)
  <2> DEFINE x == [me EXCEPT !.pc = "register", !.seen = candidate[Caller(h)]]
  <2>1. handler' = [handler EXCEPT ![h] = x] /\ me.pc # "idle"
    BY <1>3 DEF LoadCaller
  <2>2. x \in HandlerState
    BY <1>0, <1>a, <2>1, HandlerUpdated DEF HandlerPC
  <2> QED  BY <1>3, <2>1, <2>2, HandlerReplaced DEF LoadCaller, TypeOK, env
<1>4. CASE RegisterInbound(h)
  <2>1. me.pc # "idle"
    BY <1>4 DEF RegisterInbound
  <2>2. candidate' \in [Candidate -> Row]
    <3> DEFINE n == me.seen.attempts + 1
               r == [candidate[Caller(h)] EXCEPT !.attempts = n]
    <3>1. n \in Nat
      BY <1>0 DEF HandlerState, Row
    <3>2. candidate' = [candidate EXCEPT ![Caller(h)] = r] \/ candidate' = candidate
      BY <1>4 DEF RegisterInbound, Caller
    <3> HIDE DEF n
    <3>3. r \in Row
      BY <1>a, <2>1, <3>1, RowUpdated
    <3> HIDE DEF r
    <3> QED  BY <1>a, <2>1, <3>2, <3>3 DEF TypeOK
  <2>3. callRow' \in [Call -> CallStatus]
    BY <1>4 DEF RegisterInbound, TypeOK, CallStatus
  <2>4. handler' \in [Handler -> HandlerState]
    <3>1. [me EXCEPT !.pc = "reload"] \in HandlerState
      BY <1>0, HandlerUpdated DEF HandlerPC
    <3>2. \/ handler' = [handler EXCEPT ![h] = [me EXCEPT !.pc = "reload"]]
          \/ handler' = [handler EXCEPT ![h] = IdleHandler]
      BY <1>4 DEF RegisterInbound
    <3> QED  BY <1>0, <3>1, <3>2, HandlerReplaced
  <2>5. counted' \in [InCall -> Nat] /\ judged' \in [InCall -> Nat]
    BY <1>4, OnceTyped DEF RegisterInbound, TypeOK
  <2> QED  BY <1>4, <2>2, <2>3, <2>4, <2>5 DEF RegisterInbound, TypeOK
<1>5. CASE ReloadInbound(h)
  <2> DEFINE x == [me EXCEPT !.pc = "judge", !.seen = candidate[Caller(h)],
                             !.seenCall = callRow[me.call]]
  <2>1. handler' = [handler EXCEPT ![h] = x] /\ me.pc # "idle"
    BY <1>5 DEF ReloadInbound
  <2>2. x \in HandlerState
    BY <1>0, <1>a, <2>1, HandlerUpdated DEF HandlerPC
  <2> QED  BY <1>5, <2>1, <2>2, HandlerReplaced DEF ReloadInbound, TypeOK, env
<1>6. CASE Judge(h)
  <2>1. PICK q \in BOOLEAN : handler' = [handler EXCEPT ![h] = [me EXCEPT !.qualified = q,
          !.pc = IF ShouldPush(me.seen, q) THEN "push" ELSE "save"]]
    BY <1>6 DEF Judge, Verdicts
  <2> DEFINE pc == IF ShouldPush(me.seen, q) THEN "push" ELSE "save"
             x  == [me EXCEPT !.qualified = q, !.pc = pc]
  <2>2. pc \in HandlerPC
    BY DEF HandlerPC
  <2>3. handler' = [handler EXCEPT ![h] = x]
    BY <2>1
  <2> HIDE DEF pc
  <2>4. x \in HandlerState
    BY <1>0, <2>2, HandlerUpdated
  <2>5. counted' \in [InCall -> Nat] /\ judged' \in [InCall -> Nat]
    BY <1>6, OnceTyped DEF Judge, TypeOK
  <2>6. handler' \in [Handler -> HandlerState]
    BY <2>3, <2>4, HandlerReplaced
  <2> QED  BY <1>6, <2>5, <2>6 DEF Judge, TypeOK
<1>7. CASE CreateLead(h)
  <2>1. crm' \in [Candidate -> 0..MaxLeads]
    BY <1>7, <1>a, LeadTyped DEF CreateLead
  <2> DEFINE x == [me EXCEPT !.pc = "save", !.lead = TRUE, !.tries = 0]
  <2>2. handler' = [handler EXCEPT ![h] = x]
    BY <1>7 DEF CreateLead
  <2>3. x \in HandlerState
    BY <1>0, HandlerUpdated DEF HandlerPC
  <2> QED  BY <1>7, <2>1, <2>2, <2>3, HandlerReplaced DEF CreateLead, TypeOK
<1>8. CASE LeadReplyLost(h)
  <2>1. crm' \in [Candidate -> 0..MaxLeads]
    BY <1>8, <1>a, LeadTyped DEF LeadReplyLost
  <2> DEFINE tries == me.tries + 1
             x == IF tries < Tries THEN [me EXCEPT !.tries = tries]
                                   ELSE [me EXCEPT !.tries = 0, !.pc = "save"]
  <2>2. handler' = [handler EXCEPT ![h] = x]
    BY <1>8 DEF LeadReplyLost
  <2>3. tries < Tries => [me EXCEPT !.tries = tries] \in HandlerState
    BY <1>0 DEF HandlerState, Tries
  <2>4. [me EXCEPT !.tries = 0, !.pc = "save"] \in HandlerState
    BY <1>0, HandlerUpdated DEF HandlerPC
  <2>5. x \in HandlerState
    BY <2>3, <2>4
  <2> QED  BY <1>8, <2>1, <2>2, <2>5, HandlerReplaced DEF LeadReplyLost, TypeOK
<1>9. CASE LeadFails(h)
  <2> DEFINE x == [me EXCEPT !.pc = "save", !.tries = 0]
  <2>1. handler' = [handler EXCEPT ![h] = x]
    BY <1>9 DEF LeadFails
  <2>2. x \in HandlerState
    BY <1>0, HandlerUpdated DEF HandlerPC
  <2> QED  BY <1>9, <2>1, <2>2, HandlerReplaced DEF LeadFails, TypeOK, env
<1>10. CASE SaveVerdict(h)
  <2>1. me.pc # "idle"
    BY <1>10 DEF SaveVerdict
  <2> DEFINE st == Flushed(candidate[Caller(h)].status, me.seen.status,
                           VerdictStatus(me.qualified, me.seen.attempts))
             b  == candidate[Caller(h)].lead \/ me.lead
             r  == [candidate[Caller(h)] EXCEPT !.status = st, !.lead = b]
  <2>2. candidate' = [candidate EXCEPT ![Caller(h)] = r]
    BY <1>10 DEF SaveVerdict, Caller
  <2>3. st \in Status
    BY <1>a, <2>1, FlushedIsOneOf DEF VerdictStatus, Status, Row
  <2>4. b \in BOOLEAN
    BY DEF Row
  <2> HIDE DEF st, b
  <2>5. r \in Row
    BY <1>a, <2>1, <2>3, <2>4, RowUpdated
  <2> HIDE DEF r
  <2>6. candidate' \in [Candidate -> Row]
    BY <1>a, <2>1, <2>2, <2>5 DEF TypeOK
  <2>7. callRow' \in [Call -> CallStatus]
    <3> DEFINE new == Flushed(callRow[me.call], me.seenCall, CallResult(me.qualified))
    <3>1. new \in CallStatus
      BY <1>a, <2>1, FlushedIsOneOf DEF CallResult, CallStatus
    <3>2. callRow' = [callRow EXCEPT ![me.call] = new]
      BY <1>10 DEF SaveVerdict
    <3> HIDE DEF new
    <3> QED  BY <3>1, <3>2 DEF TypeOK
  <2>8. handler' \in [Handler -> HandlerState]
    BY <1>10, <1>0, HandlerReplaced DEF SaveVerdict
  <2> QED  BY <1>10, <2>6, <2>7, <2>8 DEF SaveVerdict, TypeOK, env
<1>11. CASE HandlerAborts(h)
  <2>1. handler' \in [Handler -> HandlerState]
    BY <1>11, <1>0, HandlerReplaced DEF HandlerAborts
  <2> QED  BY <1>11, <2>1 DEF HandlerAborts, TypeOK, env
<1> QED  BY <1>1, <1>2, <1>3, <1>4, <1>5, <1>6, <1>7, <1>8, <1>9, <1>10, <1>11 DEF HandlerStep
-----------------------------------------------------------------------------
(***************************************************************************)
(* The inductive invariant.  A request works only on a call that was        *)
(* spoken; it holds a lead only if KeyCRM has one; and the inbound call it   *)
(* judges is in the calls table, so nobody else can register that call.     *)
(***************************************************************************)
SpokenWork ==
  \A h \in Handler : handler[h].pc # "idle" =>
    handler[h].call \in Call /\ vapi[handler[h].call] = "spoken"

HeldLeadExists ==
  \A h \in Handler : handler[h].pc # "idle" /\ handler[h].lead => crm[Caller(h)] > 0

Judging(h, k) == handler[h].call = k /\ handler[h].pc \in {"reload", "judge", "push", "save"}

JudgedIsStored ==
  \A h \in Handler, k \in InCall : Judging(h, k) => callRow[k] # "none"

\* Two requests never judge one inbound call together.
JudgesAlone ==
  \A k \in InCall : \A g, h \in Handler : Judging(g, k) /\ Judging(h, k) => g = h

IInv ==
  /\ TypeOK
  /\ SpokenWork
  /\ HeldLeadExists
  /\ LeadAfterConversation
  /\ StoredLeadExists
  /\ JudgedIsStored
  /\ JudgesAlone

\* What the parts of IInv that are not types say of a step that starts no request
\* and ends none: it is enough that conversations, leads and rows stay.
LEMMA QuietStep ==
  ASSUME IInv, TypeOK', handler' = handler, crm' = crm,
         \A k \in Call : vapi[k] = "spoken" => vapi'[k] = "spoken",
         \A k \in Call : callRow[k] # "none" => callRow'[k] # "none",
         \A c \in Candidate : candidate'[c].lead = candidate[c].lead
  PROVE  IInv'
<1>1. SpokenWork'
  BY DEF IInv, SpokenWork
<1>2. HeldLeadExists'
  BY DEF IInv, HeldLeadExists, Caller
<1>3. LeadAfterConversation'
  BY DEF IInv, LeadAfterConversation, CallsWith
<1>4. StoredLeadExists'
  BY DEF IInv, StoredLeadExists
<1>5. JudgedIsStored'
  BY CallFacts DEF IInv, JudgedIsStored, Judging
<1>6. JudgesAlone'
  BY DEF IInv, JudgesAlone, Judging
<1> QED  BY <1>1, <1>2, <1>3, <1>4, <1>5, <1>6 DEF IInv

LEMMA InitInvariant == Init => IInv
<1> SUFFICES ASSUME Init PROVE IInv
  OBVIOUS
<1>1. TypeOK
  BY InitTyped
<1>2. \A h \in Handler : handler[h].pc = "idle"
  BY DEF Init, IdleHandler
<1>3. \A c \in Candidate : crm[c] = 0 /\ candidate[c].lead = FALSE
  BY DEF Init, NoRow
<1> QED  BY <1>1, <1>2, <1>3 DEF IInv, SpokenWork, HeldLeadExists, LeadAfterConversation,
           StoredLeadExists, JudgedIsStored, JudgesAlone, Judging

LEMMA IngestKeeps == ASSUME IInv, NEW c \in Candidate, Ingest(c) PROVE IInv'
<1>1. TypeOK'
  BY IngestTyped DEF IInv
<1>2. \A d \in Candidate : candidate'[d].lead = candidate[d].lead
  BY DEF Ingest, IInv, TypeOK, Row
<1> QED  BY <1>1, <1>2, QuietStep DEF Ingest, env

LEMMA SlotKeeps == ASSUME IInv, NEW s \in Slot, SlotFires(s) PROVE IInv'
<1>1. TypeOK'
  BY SlotTyped DEF IInv
<1> QED  BY <1>1, QuietStep DEF SlotFires, env

LEMMA TaskKeeps ==
  ASSUME IInv, NEW s \in Slot, NEW c \in Candidate, TaskStep(s, c) \/ TaskAborts(s, c)
  PROVE  IInv'
<1>1. TypeOK'
  BY TaskTyped DEF IInv
<1>2. handler' = handler /\ crm' = crm
  BY DEF TaskStep, TaskLoads, TaskCommits, DialSucceeds, DialReplyLost, DialFails,
         TaskStores, TaskAborts, env
<1>3. \A k \in Call : vapi[k] = "spoken" => vapi'[k] = "spoken"
  <2>1. vapi' = vapi \/ \E k \in OutCall : Places(k)
    BY DEF TaskStep, TaskLoads, TaskCommits, DialSucceeds, DialReplyLost, DialFails,
           TaskStores, TaskAborts, env
  <2> QED  BY <2>1 DEF Places, IInv, TypeOK
<1>4. \A k \in Call : callRow[k] # "none" => callRow'[k] # "none"
  <2>1. \/ callRow' = callRow
        \/ callRow' = [callRow EXCEPT ![task[s][c].call] = "failed"]
    BY DEF TaskStep, TaskLoads, TaskCommits, DialSucceeds, DialReplyLost, DialFails,
           TaskStores, TaskAborts
  <2> QED  BY <2>1 DEF IInv, TypeOK
<1>5. \A d \in Candidate : candidate'[d].lead = candidate[d].lead
  <2>1. candidate' = candidate \/ candidate' = Calling(c, task[s][c].seen)
    BY DEF TaskStep, TaskLoads, TaskCommits, DialSucceeds, DialReplyLost, DialFails,
           TaskStores, TaskAborts
  <2> QED  BY <2>1 DEF Calling, IInv, TypeOK, Row
<1> QED  BY <1>1, <1>2, <1>3, <1>4, <1>5, QuietStep

LEMMA NetworkKeeps ==
  ASSUME IInv, NEW k \in Call,
         RingsUs(k) \/ CallEnds(k) \/ ReportLost(k) \/ Redelivered(k) \/ ReportIgnored(k)
  PROVE  IInv'
<1>1. TypeOK'
  BY NetworkTyped, AnsweredTyped DEF IInv, Answered
<1>2. handler' = handler /\ crm' = crm /\ candidate' = candidate /\ callRow' = callRow
  BY DEF RingsUs, CallEnds, ReportLost, Redelivered, ReportIgnored
<1>3. \A j \in Call : vapi[j] = "spoken" => vapi'[j] = "spoken"
  BY DEF RingsUs, Places, CallEnds, ReportLost, Redelivered, ReportIgnored, IInv, TypeOK
<1> QED  BY <1>1, <1>2, <1>3, QuietStep
JudgingPC == {"reload", "judge", "push", "save"}

\* What a step of one request must satisfy.
LEMMA RequestStep ==
  ASSUME IInv, TypeOK', NEW h \in Handler, NEW x \in HandlerState,
         handler' = [handler EXCEPT ![h] = x], vapi' = vapi,
         \A c \in Candidate : crm[c] > 0 => crm'[c] > 0,
         \A c \in Candidate : crm'[c] > 0 => \E k \in CallsWith(c) : vapi[k] = "spoken",
         \A k \in Call : callRow[k] # "none" => callRow'[k] # "none",
         \A c \in Candidate : candidate'[c].lead => crm'[c] > 0,
         x.pc # "idle" => /\ x.call \in Call /\ vapi[x.call] = "spoken"
                          /\ x.lead => crm'[x.call.with] > 0,
         x.pc \in JudgingPC /\ x.call \in InCall =>
           /\ callRow'[x.call] # "none"
           /\ \A g \in Handler \ {h} : ~Judging(g, x.call)
  PROVE  IInv'
<1>1. handler'[h] = x /\ \A g \in Handler \ {h} : handler'[g] = handler[g]
  BY DEF IInv, TypeOK
<1>2. SpokenWork'
  BY <1>1 DEF IInv, SpokenWork
<1>3. HeldLeadExists'
  <2> SUFFICES ASSUME NEW g \in Handler, handler'[g].pc # "idle", handler'[g].lead
               PROVE  crm'[handler'[g].call.with] > 0
    BY DEF HeldLeadExists, Caller
  <2>1. CASE g = h
    BY <1>1, <2>1
  <2>2. CASE g # h
    BY <1>1, <2>2, CallFacts DEF IInv, HeldLeadExists, SpokenWork, Caller
  <2> QED  BY <2>1, <2>2
<1>4. LeadAfterConversation'
  BY DEF LeadAfterConversation, CallsWith
<1>5. StoredLeadExists'
  BY DEF StoredLeadExists
<1>6. JudgedIsStored'
  <2> SUFFICES ASSUME NEW g \in Handler, NEW k \in InCall, Judging(g, k)'
               PROVE  callRow'[k] # "none"
    BY DEF JudgedIsStored
  <2>1. CASE g = h
    BY <1>1, <2>1 DEF Judging, JudgingPC
  <2>2. CASE g # h
    BY <1>1, <2>2, CallFacts DEF IInv, JudgedIsStored, Judging
  <2> QED  BY <2>1, <2>2
<1>7. JudgesAlone'
  <2> SUFFICES ASSUME NEW k \in InCall, NEW g1 \in Handler, NEW g2 \in Handler,
                      Judging(g1, k)', Judging(g2, k)', g1 # g2
               PROVE  FALSE
    BY DEF JudgesAlone
  <2>1. \A g \in Handler \ {h} : Judging(g, k)' => Judging(g, k)
    BY <1>1 DEF Judging
  <2>2. Judging(h, k)' => \A g \in Handler \ {h} : ~Judging(g, k)
    BY <1>1 DEF Judging, JudgingPC
  <2>3. g1 # h /\ g2 # h
    BY <2>1, <2>2
  <2> QED  BY <2>1, <2>3 DEF IInv, JudgesAlone
<1> QED  BY <1>2, <1>3, <1>4, <1>5, <1>6, <1>7 DEF IInv

\* A request begins: only on a spoken call, and not yet judging an inbound one.
LEMMA AnsweredKeeps == ASSUME IInv, NEW k \in Call, Answered(k) PROVE IInv'
<1>0. TypeOK'
  BY AnsweredTyped DEF IInv
<1>a. /\ \A c \in Candidate : crm[c] > 0 => \E j \in CallsWith(c) : vapi[j] = "spoken"
      /\ \A c \in Candidate : candidate[c].lead => crm[c] > 0
  BY DEF IInv, LeadAfterConversation, StoredLeadExists
<1>1. CASE ReportIgnored(k)
  BY <1>1, NetworkKeeps
<1>2. ASSUME NEW h \in Handler, ReportOfOutbound(h, k) PROVE IInv'
  <2> DEFINE x == [IdleHandler EXCEPT !.pc = "judge", !.call = k,
                     !.seen = candidate[k.with], !.seenCall = callRow[k]]
  <2>1. handler' = [handler EXCEPT ![h] = x] /\ k \notin InCall /\ vapi[k] = "spoken"
    BY <1>2, CallFacts DEF ReportOfOutbound, HasTranscript
  <2>2. x.pc = "judge" /\ x.call = k /\ x.lead = FALSE
    BY DEF IdleHandler
  <2>3. candidate[k.with] \in Row /\ callRow[k] \in CallStatus
    BY CallFacts DEF IInv, TypeOK
  <2>4. x \in HandlerState
    BY <2>3, IdleTypes DEF HandlerState, HandlerPC
  <2>5. crm' = crm /\ candidate' = candidate /\ callRow' = callRow /\ vapi' = vapi
    BY <1>2 DEF ReportOfOutbound
  <2> HIDE DEF x
  <2> QED  BY <1>0, <1>a, <2>1, <2>2, <2>4, <2>5, RequestStep
<1>3. ASSUME NEW h \in Handler, ReportOfInbound(h, k) PROVE IInv'
  <2> DEFINE x == [IdleHandler EXCEPT !.pc = "find", !.call = k]
  <2>1. handler' = [handler EXCEPT ![h] = x] /\ vapi[k] = "spoken"
    BY <1>3 DEF ReportOfInbound, HasTranscript
  <2>2. x.pc = "find" /\ x.call = k /\ x.lead = FALSE
    BY DEF IdleHandler
  <2>3. x \in HandlerState
    BY IdleTypes DEF HandlerState, HandlerPC
  <2>4. crm' = crm /\ candidate' = candidate /\ callRow' = callRow /\ vapi' = vapi
    BY <1>3 DEF ReportOfInbound
  <2> HIDE DEF x
  <2> QED  BY <1>0, <1>a, <2>1, <2>2, <2>3, <2>4, RequestStep DEF JudgingPC
<1> QED  BY <1>1, <1>2, <1>3 DEF Answered
\* A request goes on: it creates a lead only for the caller it spoke with, and
\* registers an inbound call only when nobody has.
LEMMA HandlerKeeps ==
  ASSUME IInv, NEW h \in Handler, HandlerStep(h) \/ HandlerAborts(h)
  PROVE  IInv'
<1> DEFINE me == handler[h]
           k  == me.call
<1>0. TypeOK'
  BY HandlerTyped DEF IInv, SpokenWork, HandlersHoldCalls
<1>a. /\ \A c \in Candidate : crm[c] > 0 => \E j \in CallsWith(c) : vapi[j] = "spoken"
      /\ \A c \in Candidate : candidate[c].lead => crm[c] > 0
  BY DEF IInv, LeadAfterConversation, StoredLeadExists
<1>b. me.pc # "idle"
  BY DEF HandlerStep, FindCaller, InsertCaller, LoadCaller, RegisterInbound, ReloadInbound,
         Judge, CreateLead, LeadReplyLost, LeadFails, SaveVerdict, HandlerAborts
<1>c. /\ k \in Call /\ k.with \in Candidate /\ k \in CallsWith(k.with)
      /\ vapi[k] = "spoken" /\ (me.lead => crm[k.with] > 0)
  BY <1>b, CallFacts DEF IInv, SpokenWork, HeldLeadExists, Caller, CallsWith
<1>d. me \in HandlerState /\ handler'[h] \in HandlerState
  BY <1>0 DEF IInv, TypeOK
<1>e. me.pc \in JudgingPC /\ k \in InCall =>
        callRow[k] # "none" /\ \A g \in Handler \ {h} : ~Judging(g, k)
  BY DEF IInv, JudgedIsStored, JudgesAlone, Judging, JudgingPC
<1>f. IdleHandler.pc = "idle" /\ IdleHandler \in HandlerState
  BY IdleTypes DEF IdleHandler
<1>g. handler' = [handler EXCEPT ![h] = handler'[h]] /\ vapi' = vapi
  BY DEF HandlerStep, FindCaller, InsertCaller, LoadCaller, RegisterInbound, ReloadInbound,
         Judge, CreateLead, LeadReplyLost, LeadFails, SaveVerdict, HandlerAborts, env, IInv, TypeOK
<1> DEFINE x == handler'[h]
<1> HIDE DEF x
<1>h. x \in HandlerState /\ handler' = [handler EXCEPT ![h] = x]
  BY <1>d, <1>g DEF x
\* A step that only moves the request on, or ends it.
<1>i. ASSUME crm' = crm, candidate' = candidate, callRow' = callRow,
             \/ x = IdleHandler
             \/ /\ x.call = k /\ x.lead = me.lead
                /\ x.pc \in JudgingPC => me.pc \in JudgingPC
      PROVE  IInv'
  <2>1. x.pc # "idle" => /\ x.call \in Call /\ vapi[x.call] = "spoken"
                         /\ x.lead => crm'[x.call.with] > 0
    BY <1>c, <1>f, <1>i
  <2>2. x.pc \in JudgingPC /\ x.call \in InCall =>
          callRow'[x.call] # "none" /\ \A g \in Handler \ {h} : ~Judging(g, x.call)
    BY <1>e, <1>f, <1>i DEF JudgingPC
  <2> QED  BY <1>0, <1>a, <1>g, <1>h, <1>i, <2>1, <2>2, RequestStep
<1>1. CASE FindCaller(h)
  <2>1. x.call = k /\ x.lead = me.lead /\ x.pc \notin JudgingPC
    BY <1>1, <1>d DEF FindCaller, x, IInv, TypeOK, HandlerState, JudgingPC
  <2> QED  BY <1>1, <1>i, <2>1 DEF FindCaller, env
<1>2. CASE InsertCaller(h)
  <2>1. \/ x = IdleHandler
        \/ x.call = k /\ x.lead = me.lead /\ x.pc = "load"
    BY <1>2, <1>d DEF InsertCaller, x, IInv, TypeOK, HandlerState
  <2>2. crm' = crm /\ callRow' = callRow
    BY <1>2 DEF InsertCaller, env
  <2>3. \A c \in Candidate : candidate'[c].lead = candidate[c].lead
    BY <1>2 DEF InsertCaller, IInv, TypeOK, Row
  <2>4. x.pc # "idle" => /\ x.call \in Call /\ vapi[x.call] = "spoken"
                         /\ x.lead => crm'[x.call.with] > 0
    BY <1>c, <1>f, <2>1, <2>2
  <2>5. x.pc \notin JudgingPC
    BY <1>f, <2>1 DEF JudgingPC
  <2> QED  BY <1>0, <1>a, <1>g, <1>h, <2>2, <2>3, <2>4, <2>5, RequestStep
<1>3. CASE LoadCaller(h)
  <2>1. x.call = k /\ x.lead = me.lead /\ x.pc \notin JudgingPC
    BY <1>3, <1>d DEF LoadCaller, x, IInv, TypeOK, HandlerState, JudgingPC
  <2> QED  BY <1>3, <1>i, <2>1 DEF LoadCaller, env
<1>4. CASE RegisterInbound(h)
  <2>1. CASE ~Insertable(k)
    <3>1. x = IdleHandler /\ crm' = crm /\ candidate' = candidate /\ callRow' = callRow
      BY <1>4, <2>1, <1>d DEF RegisterInbound, x, env, IInv, TypeOK
    <3> QED  BY <1>i, <3>1
  <2>2. CASE Insertable(k)
    <3>1. x.call = k /\ x.lead = me.lead
      BY <1>4, <2>2, <1>d DEF RegisterInbound, x, IInv, TypeOK, HandlerState
    <3>2. callRow[k] = "none" /\ callRow' = [callRow EXCEPT ![k] = "failed"] /\ crm' = crm
      BY <1>4, <2>2 DEF RegisterInbound, Insertable, env
    <3>3. \A c \in Candidate : candidate'[c].lead = candidate[c].lead
      BY <1>4, <2>2 DEF RegisterInbound, IInv, TypeOK, Row
    <3>4. callRow'[k] # "none" /\ \A j \in Call : callRow[j] # "none" => callRow'[j] # "none"
      BY <1>c, <3>2 DEF IInv, TypeOK
    <3>5. k \in InCall => \A g \in Handler : ~Judging(g, k)
      BY <3>2 DEF IInv, JudgedIsStored
    <3>6. x.pc # "idle" => /\ x.call \in Call /\ vapi[x.call] = "spoken"
                           /\ x.lead => crm'[x.call.with] > 0
      BY <1>c, <3>1, <3>2
    <3> QED  BY <1>0, <1>a, <1>g, <1>h, <3>1, <3>2, <3>3, <3>4, <3>5, <3>6, RequestStep
  <2> QED  BY <2>1, <2>2
<1>5. CASE ReloadInbound(h)
  <2>1. x.call = k /\ x.lead = me.lead /\ me.pc \in JudgingPC
    BY <1>5, <1>d DEF ReloadInbound, x, IInv, TypeOK, HandlerState, JudgingPC
  <2> QED  BY <1>5, <1>i, <2>1 DEF ReloadInbound, env
<1>6. CASE Judge(h)
  <2>1. x.call = k /\ x.lead = me.lead /\ me.pc \in JudgingPC
    BY <1>6, <1>d DEF Judge, Verdicts, x, IInv, TypeOK, HandlerState, JudgingPC
  <2> QED  BY <1>6, <1>i, <2>1 DEF Judge, env
\* The two steps that may create a lead.
<1>j. ASSUME LeadPosted(k.with), candidate' = candidate, callRow' = callRow,
             x.call = k, me.pc \in JudgingPC
      PROVE  IInv'
  <2>1. crm'[k.with] > 0 /\ \A c \in Candidate : c # k.with => crm'[c] = crm[c]
    BY <1>c, <1>j DEF LeadPosted, IInv, TypeOK, MaxLeads
  <2>2. /\ \A c \in Candidate : crm[c] > 0 => crm'[c] > 0
        /\ \A c \in Candidate : crm'[c] > 0 => \E j \in CallsWith(c) : vapi[j] = "spoken"
        /\ \A c \in Candidate : candidate'[c].lead => crm'[c] > 0
    BY <1>a, <1>c, <1>j, <2>1
  <2>3. x.pc # "idle" => /\ x.call \in Call /\ vapi[x.call] = "spoken"
                         /\ x.lead => crm'[x.call.with] > 0
    BY <1>c, <1>j, <2>1
  <2>4. x.pc \in JudgingPC /\ x.call \in InCall =>
          callRow'[x.call] # "none" /\ \A g \in Handler \ {h} : ~Judging(g, x.call)
    BY <1>e, <1>j
  <2> QED  BY <1>0, <1>g, <1>h, <1>j, <2>2, <2>3, <2>4, RequestStep
<1>7. CASE CreateLead(h)
  <2>1. x.call = k /\ me.pc \in JudgingPC
    BY <1>7, <1>d DEF CreateLead, x, IInv, TypeOK, HandlerState, JudgingPC
  <2> QED  BY <1>7, <1>j, <2>1 DEF CreateLead, Caller
<1>8. CASE LeadReplyLost(h)
  <2>1. x.call = k /\ me.pc \in JudgingPC
    BY <1>8, <1>d DEF LeadReplyLost, x, IInv, TypeOK, HandlerState, JudgingPC
  <2> QED  BY <1>8, <1>j, <2>1 DEF LeadReplyLost, Caller
<1>9. CASE LeadFails(h)
  <2>1. x.call = k /\ x.lead = me.lead /\ me.pc \in JudgingPC
    BY <1>9, <1>d DEF LeadFails, x, IInv, TypeOK, HandlerState, JudgingPC
  <2> QED  BY <1>9, <1>i, <2>1 DEF LeadFails, env
<1>10. CASE SaveVerdict(h)
  <2>1. x = IdleHandler
    BY <1>10, <1>d DEF SaveVerdict, x, IInv, TypeOK
  <2>2. crm' = crm
    BY <1>10 DEF SaveVerdict, env
  <2>3. \A c \in Candidate : candidate'[c].lead => crm[c] > 0
    <3>1. candidate'[k.with].lead = (candidate[k.with].lead \/ me.lead)
      BY <1>10, <1>c DEF SaveVerdict, IInv, TypeOK, Row
    <3>2. \A c \in Candidate : c # k.with => candidate'[c] = candidate[c]
      BY <1>10 DEF SaveVerdict, IInv, TypeOK
    <3> QED  BY <1>a, <1>c, <3>1, <3>2
  <2>4. \A j \in Call : callRow[j] # "none" => callRow'[j] # "none"
    BY <1>10 DEF SaveVerdict, Flushed, CallResult, IInv, TypeOK
  <2>5. x.pc = "idle"
    BY <1>f, <2>1
  <2> QED  BY <1>0, <1>a, <1>f, <1>g, <1>h, <2>2, <2>3, <2>4, <2>5, RequestStep DEF JudgingPC
<1>11. CASE HandlerAborts(h)
  <2>1. x = IdleHandler
    BY <1>11, <1>d DEF HandlerAborts, x, IInv, TypeOK
  <2> QED  BY <1>11, <1>i, <2>1 DEF HandlerAborts, env
<1> QED  BY <1>1, <1>2, <1>3, <1>4, <1>5, <1>6, <1>7, <1>8, <1>9, <1>10, <1>11 DEF HandlerStep

-----------------------------------------------------------------------------
\* IInv holds in every reachable state, whatever the constants.
THEOREM Invariance == Spec => []IInv
<1>1. Init => IInv
  BY InitInvariant
<1>2. IInv /\ [Next]_vars => IInv'
  <2> SUFFICES ASSUME IInv, [Next]_vars PROVE IInv'
    OBVIOUS
  <2>1. CASE Next
    BY <2>1, IngestKeeps, SlotKeeps, TaskKeeps, NetworkKeeps, AnsweredKeeps, HandlerKeeps DEF Next
  <2>2. CASE UNCHANGED vars
    <3>1. TypeOK'
      BY <2>2 DEF IInv, TypeOK, vars
    <3> QED  BY <2>2, <3>1, QuietStep DEF vars
  <2> QED  BY <2>1, <2>2
<1> QED  BY <1>1, <1>2, PTL DEF Spec

\* Rows, calls, tasks and requests keep their types: the control points of
\* dispatch_for_candidate and of the webhook handlers are the only ones there are.
THEOREM TypeCorrect == Spec => []TypeOK
<1>1. IInv => TypeOK
  BY DEF IInv
<1> QED  BY <1>1, Invariance, PTL

\* The deferred-CRM promise of inbound_router.py:5-8: whatever is lost, repeated,
\* retried or aborted, a candidate in the CRM has spoken with Eva.
THEOREM LeadsAreDeferred == Spec => []LeadAfterConversation
<1>1. IInv => LeadAfterConversation
  BY DEF IInv
<1> QED  BY <1>1, Invariance, PTL

\* A lead id that _finalize_call commits on a candidate is the id of a lead
\* KeyCRM holds for that candidate.
THEOREM StoredLeadsExist == Spec => []StoredLeadExists
<1>1. IInv => StoredLeadExists
  BY DEF IInv
<1> QED  BY <1>1, Invariance, PTL

-----------------------------------------------------------------------------
(***************************************************************************)
(* The history of inbound calls.  A call is counted with the row it gets,   *)
(* and whoever is still to judge it is the first to.                         *)
(***************************************************************************)
OwnCalls ==
  \A s \in Slot, c \in Candidate : task[s][c].pc = "store" => task[s][c].call \in OutCall

\* The request counts the attempt of the call; the request has the call judged.
Counts(h, k) ==
  handler[h].call = k /\ handler[h].pc = "register" /\ handler'[h].pc = "reload"
Judges(h, k) ==
  handler[h].call = k /\ handler[h].pc = "judge" /\ handler'[h].pc \in {"push", "save"}

ToJudge(h, k) == handler[h].call = k /\ handler[h].pc \in {"reload", "judge"}

HistoryInv ==
  /\ \A k \in InCall : counted[k] = IF callRow[k] = "none" THEN 0 ELSE 1
  /\ \A k \in InCall : judged[k] <= counted[k]
  /\ \A k \in InCall, h \in Handler : ToJudge(h, k) => judged[k] = 0

\* A step gives an inbound call its row exactly when a request counts it, and
\* a request comes to judge it only by having counted it.
InboundStep(k) ==
  /\ counted'[k] = counted[k] + IF \E h \in Handler : Counts(h, k) THEN 1 ELSE 0
  /\ judged'[k] = judged[k] + IF \E h \in Handler : Judges(h, k) THEN 1 ELSE 0
  /\ (\E h \in Handler : Counts(h, k)) => callRow[k] = "none" /\ callRow'[k] # "none"
  /\ callRow[k] = "none" /\ callRow'[k] # "none" => \E h \in Handler : Counts(h, k)
  /\ callRow[k] # "none" => callRow'[k] # "none"
  /\ \A h \in Handler : ToJudge(h, k)' => ToJudge(h, k) \/ Counts(h, k)
  /\ \A h \in Handler : Judges(h, k) => ~ToJudge(h, k)'
  /\ \A g, h \in Handler : Judges(g, k) /\ ToJudge(h, k)' => ToJudge(h, k)

\* A step that leaves the requests alone, and the rows of inbound calls.
LEMMA ElsewhereInbound ==
  ASSUME IInv, NEW k \in InCall, handler' = handler, callRow'[k] = callRow[k],
         UNCHANGED <<counted, judged>>
  PROVE  InboundStep(k)
<1>1. counted[k] \in Nat /\ judged[k] \in Nat
  BY DEF IInv, TypeOK
<1>2. \A h \in Handler : ~Counts(h, k) /\ ~Judges(h, k)
  BY DEF Counts, Judges
<1> QED  BY <1>1, <1>2 DEF InboundStep, ToJudge

LEMMA TaskInbound ==
  ASSUME IInv, OwnCalls, NEW s \in Slot, NEW c \in Candidate,
         TaskStep(s, c) \/ TaskAborts(s, c), NEW k \in InCall
  PROVE  InboundStep(k)
<1>1. handler' = handler /\ UNCHANGED <<counted, judged>>
  BY DEF TaskStep, TaskLoads, TaskCommits, DialSucceeds, DialReplyLost, DialFails,
         TaskStores, TaskAborts, env
<1>2. callRow'[k] = callRow[k]
  <2>1. CASE TaskStores(s, c)
    <3>1. task[s][c].call \in OutCall /\ task[s][c].call # k
      BY <2>1, CallFacts DEF TaskStores, OwnCalls
    <3> QED  BY <2>1, <3>1 DEF TaskStores, IInv, TypeOK
  <2>2. CASE ~TaskStores(s, c)
    BY <2>2 DEF TaskStep, TaskLoads, TaskCommits, DialSucceeds, DialReplyLost, DialFails, TaskAborts
  <2> QED  BY <2>1, <2>2
<1> QED  BY <1>1, <1>2, ElsewhereInbound

\* The task that stores a call stores one it placed.
LEMMA OwnCallsKept == ASSUME IInv, OwnCalls, [Next]_vars PROVE OwnCalls'
<1>1. CASE task' = task
  BY <1>1 DEF OwnCalls
<1>2. ASSUME NEW s \in Slot, SlotFires(s) PROVE OwnCalls'
  <2>1. ASSUME NEW r \in Slot, NEW c \in Candidate, task'[r][c].pc = "store"
        PROVE  task'[r][c] = task[r][c]
    BY <1>2, <2>1 DEF SlotFires, IdleTask, IInv, TypeOK, Task
  <2> QED  BY <2>1 DEF OwnCalls
<1>3. ASSUME NEW s \in Slot, NEW c \in Candidate, TaskStep(s, c) \/ TaskAborts(s, c)
      PROVE  OwnCalls'
  <2>1. ASSUME NEW r \in Slot, NEW d \in Candidate, <<r, d>> # <<s, c>>
        PROVE  task'[r][d] = task[r][d]
    <3>1. \E t : task' = [task EXCEPT ![s][c] = t]
      <4>1. CASE TaskLoads(s, c)
        <5>1. task' = [task EXCEPT ![s][c] = [task[s][c] EXCEPT !.pc = "commit", !.seen = candidate[c]]]
          BY <4>1 DEF TaskLoads, IInv, TypeOK
        <5> QED  BY <5>1
      <4>2. CASE DialSucceeds(s, c)
        BY <4>2 DEF DialSucceeds
      <4>3. CASE DialReplyLost(s, c)
        BY <4>3 DEF DialReplyLost
      <4> QED  BY <1>3, <4>1, <4>2, <4>3 DEF TaskStep, TaskCommits, DialFails, TaskStores, TaskAborts
    <3> QED  BY <2>1, <3>1 DEF IInv, TypeOK
  <2>2. task'[s][c].pc = "store" => task'[s][c].call \in OutCall
    <3>1. CASE DialSucceeds(s, c)
      <4>1. PICK j \in OutCall : task' = [task EXCEPT ![s][c] = [IdleTask EXCEPT !.pc = "store", !.call = j]]
        BY <3>1 DEF DialSucceeds
      <4> QED  BY <4>1 DEF IdleTask, IInv, TypeOK
    <3>2. CASE ~DialSucceeds(s, c)
      <4>1. task'[s][c].pc # "store"
        <5>1. CASE TaskLoads(s, c)
          BY <5>1 DEF TaskLoads, IInv, TypeOK, Task
        <5>2. CASE DialReplyLost(s, c)
          BY <5>2 DEF DialReplyLost, IdleTask, IInv, TypeOK, Task
        <5> QED  BY <1>3, <3>2, <5>1, <5>2 DEF TaskStep, TaskCommits, DialFails, TaskStores,
                   TaskAborts, IdleTask, IInv, TypeOK
      <4> QED  BY <4>1
    <3> QED  BY <3>1, <3>2
  <2> QED  BY <2>1, <2>2 DEF OwnCalls
<1> QED  BY <1>1, <1>2, <1>3 DEF Next, vars, Ingest, RingsUs, CallEnds, ReportLost, Redelivered,
           Answered, ReportIgnored, ReportOfOutbound, ReportOfInbound, HandlerStep, FindCaller,
           InsertCaller, LoadCaller, RegisterInbound, ReloadInbound, Judge, CreateLead,
           LeadReplyLost, LeadFails, SaveVerdict, HandlerAborts

\* A step of one request that neither counts nor judges.
LEMMA OtherInbound ==
  ASSUME IInv, NEW k \in InCall, NEW h \in Handler,
         \A g \in Handler \ {h} : handler'[g] = handler[g],
         callRow'[k] = "none" <=> callRow[k] = "none",
         counted'[k] = counted[k], judged'[k] = judged[k],
         ~Counts(h, k), ~Judges(h, k), ToJudge(h, k)' => ToJudge(h, k)
  PROVE  InboundStep(k)
<1>1. \A g \in Handler \ {h} : ~Counts(g, k) /\ ~Judges(g, k) /\ (ToJudge(g, k)' => ToJudge(g, k))
  BY DEF Counts, Judges, ToJudge
<1>2. counted[k] \in Nat /\ judged[k] \in Nat
  BY DEF IInv, TypeOK
<1> QED  BY <1>1, <1>2 DEF InboundStep

LEMMA AnsweredInbound ==
  ASSUME IInv, NEW j \in Call, Answered(j), NEW k \in InCall
  PROVE  InboundStep(k)
<1>1. CASE ReportIgnored(j)
  BY <1>1, ElsewhereInbound DEF ReportIgnored
<1>2. ASSUME NEW h \in Handler, ReportOfOutbound(h, j) \/ ReportOfInbound(h, j)
      PROVE  InboundStep(k)
  <2>1. \A g \in Handler \ {h} : handler'[g] = handler[g]
    BY <1>2 DEF ReportOfOutbound, ReportOfInbound, IInv, TypeOK
  <2>2. handler[h].pc = "idle" /\ UNCHANGED <<callRow, counted, judged>>
    BY <1>2 DEF ReportOfOutbound, ReportOfInbound
  <2>3. ~ToJudge(h, k)'
    BY <1>2, CallFacts DEF ReportOfOutbound, ReportOfInbound, ToJudge, IdleHandler, IInv, TypeOK
  <2>4. ~Counts(h, k) /\ ~Judges(h, k)
    BY <2>2 DEF Counts, Judges
  <2> QED  BY <2>1, <2>2, <2>3, <2>4, OtherInbound
<1> QED  BY <1>1, <1>2 DEF Answered

LEMMA HandlerInbound ==
  ASSUME IInv, NEW h \in Handler, HandlerStep(h) \/ HandlerAborts(h), NEW k \in InCall
  PROVE  InboundStep(k)
<1>0. handler[h] \in HandlerState /\ IdleHandler.pc = "idle"
  BY DEF IInv, TypeOK, IdleHandler
<1>a. \A g \in Handler \ {h} : handler'[g] = handler[g]
  BY DEF HandlerStep, FindCaller, InsertCaller, LoadCaller, RegisterInbound, ReloadInbound,
         Judge, CreateLead, LeadReplyLost, LeadFails, SaveVerdict, HandlerAborts, IInv, TypeOK
<1>b. /\ ~RegisterInbound(h) => counted' = counted
      /\ ~Judge(h) => judged' = judged
  <2>1. RegisterInbound(h) => judged' = judged
    BY DEF RegisterInbound
  <2>2. Judge(h) => counted' = counted
    BY DEF Judge
  <2>3. ~RegisterInbound(h) /\ ~Judge(h) => UNCHANGED <<counted, judged>>
    BY DEF HandlerStep, FindCaller, InsertCaller, LoadCaller, ReloadInbound, CreateLead,
           LeadReplyLost, LeadFails, SaveVerdict, HandlerAborts, env
  <2> QED  BY <2>1, <2>2, <2>3
<1>c. \A g \in Handler : g # h => ~Counts(g, k) /\ ~Judges(g, k)
  BY <1>a DEF Counts, Judges
<1>d. counted[k] \in Nat /\ judged[k] \in Nat
  BY DEF IInv, TypeOK
<1>1. CASE RegisterInbound(h)
  <2>0. handler[h].pc = "register" /\ judged' = judged
    BY <1>1 DEF RegisterInbound
  <2>1. CASE Insertable(handler[h].call)
    <3>1. handler'[h] = [handler[h] EXCEPT !.pc = "reload"] /\ handler[h].pc = "register"
          /\ callRow' = [callRow EXCEPT ![handler[h].call] = "failed"]
          /\ counted' = Once(counted, handler[h].call)
      BY <1>1, <2>1 DEF RegisterInbound, IInv, TypeOK
    <3>2. handler'[h].pc = "reload" /\ handler'[h].call = handler[h].call
      BY <1>0, <3>1 DEF HandlerState
    <3>3. CASE handler[h].call = k
      <4>1. callRow[k] = "none" /\ callRow'[k] = "failed"
        BY <2>1, <3>1, <3>3, CallFacts DEF Insertable, IInv, TypeOK
      <4>2. Counts(h, k) /\ ~Judges(h, k)
        BY <3>1, <3>2, <3>3 DEF Counts, Judges
      <4>3. \A g \in Handler : ~Judges(g, k)
        BY <1>a, <4>2 DEF Judges
      <4>4. \A g \in Handler : ToJudge(g, k)' => ToJudge(g, k) \/ Counts(g, k)
        BY <1>a, <4>2 DEF ToJudge
      <4>5. counted'[k] = counted[k] + 1
        BY <3>1, <3>3 DEF Once
      <4> QED  BY <1>d, <2>0, <4>1, <4>2, <4>3, <4>4, <4>5 DEF InboundStep
    <3>4. CASE handler[h].call # k
      <4>1. callRow'[k] = callRow[k]
        BY <3>1, <3>4, CallFacts DEF IInv, TypeOK
      <4>2. ~Counts(h, k) /\ ~Judges(h, k) /\ ~ToJudge(h, k)'
        BY <3>2, <3>4 DEF Counts, Judges, ToJudge
      <4>3. counted'[k] = counted[k]
        BY <1>d, <3>1, <3>4 DEF Once
      <4> QED  BY <1>a, <2>0, <4>1, <4>2, <4>3, OtherInbound
    <3> QED  BY <3>3, <3>4
  <2>2. CASE ~Insertable(handler[h].call)
    <3>1. handler'[h] = IdleHandler /\ UNCHANGED <<callRow, counted>>
      BY <1>1, <2>2 DEF RegisterInbound, IInv, TypeOK
    <3>2. ~Counts(h, k) /\ ~Judges(h, k) /\ ~ToJudge(h, k)'
      BY <1>0, <2>0, <3>1 DEF Counts, Judges, ToJudge
    <3> QED  BY <1>a, <2>0, <3>1, <3>2, OtherInbound
  <2> QED  BY <2>1, <2>2
<1>2. CASE Judge(h)
  <2>1. callRow' = callRow /\ handler[h].pc = "judge" /\ handler'[h].pc \in {"push", "save"}
    BY <1>0, <1>2 DEF Judge, IInv, TypeOK, HandlerState
  <2>2. \A g \in Handler : ~Counts(g, k)
    BY <1>a, <2>1 DEF Counts
  <2>3. ~ToJudge(h, k)' /\ \A g \in Handler : ToJudge(g, k)' => ToJudge(g, k)
    BY <1>a, <2>1 DEF ToJudge
  <2>4. \A g \in Handler : Judges(g, k) => ~ToJudge(g, k)'
    BY <1>a, <2>3 DEF Judges
  <2>5. judged'[k] = judged[k] + IF handler[h].call = k THEN 1 ELSE 0
    BY <1>2 DEF Judge, Once
  <2>6. (\E g \in Handler : Judges(g, k)) <=> handler[h].call = k
    BY <1>c, <2>1 DEF Judges
  <2>7. counted' = counted
    BY <1>2 DEF Judge
  <2> QED  BY <1>d, <2>1, <2>2, <2>3, <2>4, <2>5, <2>6, <2>7 DEF InboundStep
<1>3. CASE SaveVerdict(h)
  <2>1. handler[h].pc = "save" /\ handler'[h].pc = "idle"
    BY <1>0, <1>3 DEF SaveVerdict, IInv, TypeOK
  <2>2. callRow'[k] = "none" <=> callRow[k] = "none"
    <3>1. CASE handler[h].call = k
      <4>1. callRow[k] # "none"
        BY <2>1, <3>1 DEF IInv, JudgedIsStored, Judging
      <4>2. callRow'[k] # "none"
        BY <1>3, <3>1, <4>1, CallFacts DEF SaveVerdict, Flushed, CallResult, IInv, TypeOK
      <4> QED  BY <4>1, <4>2
    <3>2. CASE handler[h].call # k
      BY <1>3, <3>2 DEF SaveVerdict, IInv, TypeOK
    <3> QED  BY <3>1, <3>2
  <2>3. ~Counts(h, k) /\ ~Judges(h, k) /\ ~ToJudge(h, k)'
    BY <2>1 DEF Counts, Judges, ToJudge
  <2>4. ~RegisterInbound(h) /\ ~Judge(h)
    BY <2>1 DEF RegisterInbound, Judge
  <2> QED  BY <1>a, <1>b, <2>2, <2>3, <2>4, OtherInbound
<1>4. CASE ReloadInbound(h)
  <2>1. handler[h].pc = "reload" /\ handler'[h].pc = "judge" /\ handler'[h].call = handler[h].call
        /\ callRow' = callRow
    BY <1>0, <1>4 DEF ReloadInbound, IInv, TypeOK, HandlerState
  <2>2. ~Counts(h, k) /\ ~Judges(h, k) /\ (ToJudge(h, k)' => ToJudge(h, k))
    BY <2>1 DEF Counts, Judges, ToJudge
  <2>3. ~RegisterInbound(h) /\ ~Judge(h)
    BY <2>1 DEF RegisterInbound, Judge
  <2> QED  BY <1>a, <1>b, <2>1, <2>2, <2>3, OtherInbound
<1>5. CASE FindCaller(h) \/ InsertCaller(h) \/ LoadCaller(h)
  <2>1. handler[h].pc \in {"find", "insert", "load"} /\ callRow' = callRow
        /\ handler'[h].pc \notin {"reload", "judge"}
    <3>1. CASE FindCaller(h)
      BY <1>0, <3>1 DEF FindCaller, env, IInv, TypeOK, HandlerState
    <3>2. CASE InsertCaller(h)
      BY <1>0, <3>2 DEF InsertCaller, env, IInv, TypeOK, HandlerState
    <3>3. CASE LoadCaller(h)
      BY <1>0, <3>3 DEF LoadCaller, env, IInv, TypeOK, HandlerState
    <3> QED  BY <1>5, <3>1, <3>2, <3>3
  <2>2. ~Counts(h, k) /\ ~Judges(h, k) /\ ~ToJudge(h, k)'
    BY <2>1 DEF Counts, Judges, ToJudge
  <2>3. ~RegisterInbound(h) /\ ~Judge(h)
    BY <2>1 DEF RegisterInbound, Judge
  <2> QED  BY <1>a, <1>b, <2>1, <2>2, <2>3, OtherInbound
<1>6. CASE CreateLead(h) \/ LeadReplyLost(h) \/ LeadFails(h) \/ HandlerAborts(h)
  <2>1. callRow' = callRow /\ handler'[h].pc \in {"push", "save", "idle"}
        /\ (handler'[h].pc # "idle" => handler[h].pc = "push")
        /\ UNCHANGED <<counted, judged>>
    <3>1. CASE LeadReplyLost(h)
      BY <1>0, <3>1 DEF LeadReplyLost, env, IInv, TypeOK, HandlerState
    <3>2. CASE CreateLead(h)
      BY <1>0, <3>2 DEF CreateLead, IInv, TypeOK, HandlerState
    <3>3. CASE LeadFails(h)
      BY <1>0, <3>3 DEF LeadFails, env, IInv, TypeOK, HandlerState
    <3>4. CASE HandlerAborts(h)
      BY <1>0, <3>4 DEF HandlerAborts, env, IInv, TypeOK
    <3> QED  BY <1>6, <3>1, <3>2, <3>3, <3>4
  <2>2. ~Counts(h, k) /\ ~Judges(h, k) /\ ~ToJudge(h, k)'
    BY <2>1 DEF Counts, Judges, ToJudge
  <2> QED  BY <1>a, <2>1, <2>2, OtherInbound
<1> QED  BY <1>1, <1>2, <1>3, <1>4, <1>5, <1>6 DEF HandlerStep

LEMMA EveryStepInbound ==
  ASSUME IInv, OwnCalls, Next, NEW k \in InCall
  PROVE  InboundStep(k)
<1>1. ASSUME NEW c \in Candidate, Ingest(c) PROVE InboundStep(k)
  BY <1>1, ElsewhereInbound DEF Ingest, env
<1>2. ASSUME NEW s \in Slot, SlotFires(s) PROVE InboundStep(k)
  BY <1>2, ElsewhereInbound DEF SlotFires, env
<1>3. ASSUME NEW j \in Call, RingsUs(j) \/ CallEnds(j) \/ ReportLost(j) \/ Redelivered(j)
      PROVE  InboundStep(k)
  BY <1>3, ElsewhereInbound DEF RingsUs, CallEnds, ReportLost, Redelivered
<1> QED  BY <1>1, <1>2, <1>3, TaskInbound, AnsweredInbound, HandlerInbound DEF Next

LEMMA HistoryKeeps ==
  ASSUME IInv, OwnCalls, HistoryInv, Next
  PROVE  HistoryInv'
<1>1. ASSUME NEW k \in InCall
      PROVE  /\ counted'[k] = IF callRow'[k] = "none" THEN 0 ELSE 1
             /\ judged'[k] <= counted'[k]
             /\ \A h \in Handler : ToJudge(h, k)' => judged'[k] = 0
  <2>1. InboundStep(k)
    BY EveryStepInbound
  <2>2. counted[k] = IF callRow[k] = "none" THEN 0 ELSE 1
    BY DEF HistoryInv
  <2>3. counted[k] \in Nat /\ judged[k] \in Nat /\ judged[k] <= counted[k]
    BY DEF HistoryInv, IInv, TypeOK
  <2>4. counted'[k] = IF callRow'[k] = "none" THEN 0 ELSE 1
    BY <2>1, <2>2 DEF InboundStep
  <2>5. CASE \E h \in Handler : Judges(h, k)
    <3>1. PICK h \in Handler : Judges(h, k)
      BY <2>5
    <3>2. ToJudge(h, k) /\ Judging(h, k)
      BY <3>1 DEF Judges, ToJudge, Judging
    <3>3. judged[k] = 0 /\ callRow[k] # "none"
      BY <3>2 DEF HistoryInv, IInv, JudgedIsStored
    <3>4. counted'[k] = 1 /\ judged'[k] = 1
      BY <2>1, <2>4, <2>5, <3>3 DEF InboundStep
    <3>5. ASSUME NEW g \in Handler, ToJudge(g, k)' PROVE FALSE
      <4>1. ToJudge(g, k)
        BY <2>1, <3>1, <3>5 DEF InboundStep
      <4>2. g = h
        BY <3>2, <4>1 DEF ToJudge, Judging, IInv, JudgesAlone
      <4> QED  BY <2>1, <3>1, <3>5, <4>2 DEF InboundStep
    <3> QED  BY <2>4, <3>4, <3>5
  <2>6. CASE ~\E h \in Handler : Judges(h, k)
    <3>1. judged'[k] = judged[k]
      BY <2>1, <2>3, <2>6 DEF InboundStep
    <3>2. judged'[k] <= counted'[k]
      BY <2>1, <2>2, <2>3, <2>4, <3>1 DEF InboundStep
    <3>3. ASSUME NEW h \in Handler, ToJudge(h, k)' PROVE judged[k] = 0
      <4>1. CASE ToJudge(h, k)
        BY <4>1 DEF HistoryInv
      <4>2. CASE Counts(h, k)
        BY <2>1, <2>2, <2>3, <4>2 DEF InboundStep
      <4> QED  BY <2>1, <3>3, <4>1, <4>2 DEF InboundStep
    <3> QED  BY <2>4, <3>1, <3>2, <3>3
  <2> QED  BY <2>5, <2>6
<1> QED  BY <1>1 DEF HistoryInv

\* However many copies of its report process_inbound_call serves, together or one
\* after the other, an inbound call is counted once and judged once.
THEOREM InboundOnce == Spec => []InboundJudgedOnce
<1> DEFINE Inv == OwnCalls /\ HistoryInv
<1>1. Init => Inv
  <2> SUFFICES ASSUME Init PROVE Inv
    OBVIOUS
  <2>1. OwnCalls
    BY DEF Init, OwnCalls, IdleTask
  <2>2. \A k \in InCall : counted[k] = 0 /\ judged[k] = 0 /\ callRow[k] = "none"
    BY CallFacts DEF Init
  <2> QED  BY <2>1, <2>2 DEF HistoryInv
<1>2. IInv /\ Inv /\ [Next]_vars => Inv'
  <2> SUFFICES ASSUME IInv, Inv, [Next]_vars PROVE Inv'
    OBVIOUS
  <2>1. OwnCalls'
    BY OwnCallsKept
  <2>2. HistoryInv'
    <3>1. CASE Next
      BY <3>1, HistoryKeeps
    <3>2. CASE UNCHANGED vars
      BY <3>2 DEF vars, HistoryInv, ToJudge
    <3> QED  BY <3>1, <3>2
  <2> QED  BY <2>1, <2>2
<1>3. IInv /\ Inv => InboundJudgedOnce
  <2> SUFFICES ASSUME IInv, Inv, NEW k \in InCall PROVE counted[k] <= 1 /\ judged[k] <= 1
    BY DEF InboundJudgedOnce
  <2>1. counted[k] \in {0, 1} /\ judged[k] \in Nat /\ judged[k] <= counted[k]
    BY DEF HistoryInv, IInv, TypeOK
  <2> QED  BY <2>1
<1> HIDE DEF Inv
<1> QED  BY <1>1, <1>2, <1>3, Invariance, PTL DEF Spec

-----------------------------------------------------------------------------
(***************************************************************************)
(* Where KeyCRM accepts, managers find everyone who is handed over or given  *)
(* up.  The verdict is stored by a later step than the lead, by a request    *)
(* that judged a row others may have changed meanwhile; what makes it safe   *)
(* is that leads are never taken back.                                       *)
(***************************************************************************)
Resolved == {"manager_review", "unreachable"}

\* A row read with a lead has one, and a verdict that resolves is stored after the lead.
ReadLeadExists ==
  \A h \in Handler : handler[h].pc \in {"judge", "push", "save"} /\ handler[h].seen.lead =>
    crm[handler[h].call.with] > 0

LeadBeforeVerdict ==
  \A h \in Handler :
    /\ handler[h].pc = "save"
    /\ handler[h].qualified \/ Exhausted(handler[h].seen.attempts)
    => crm[handler[h].call.with] > 0

CrmInv == IInv /\ ResolvedReachesCrm /\ ReadLeadExists /\ LeadBeforeVerdict

\* A step of no request resolves nobody.
LEMMA OthersResolveNobody ==
  ASSUME CrmInv, IInv', handler' = handler, crm' = crm,
         \A c \in Candidate : candidate'[c].status \in Resolved =>
           candidate'[c].status = candidate[c].status
  PROVE  CrmInv'
<1>1. ResolvedReachesCrm'
  BY DEF CrmInv, ResolvedReachesCrm, Resolved
<1>2. ReadLeadExists' /\ LeadBeforeVerdict'
  BY DEF CrmInv, ReadLeadExists, LeadBeforeVerdict
<1> QED  BY <1>1, <1>2 DEF CrmInv

LEMMA TaskResolvesNobody ==
  ASSUME CrmInv, IInv', NEW s \in Slot, NEW c \in Candidate, TaskStep(s, c) \/ TaskAborts(s, c)
  PROVE  CrmInv'
<1>1. handler' = handler /\ crm' = crm
  BY DEF TaskStep, TaskLoads, TaskCommits, DialSucceeds, DialReplyLost, DialFails,
         TaskStores, TaskAborts, env
<1>2. candidate' = candidate \/ candidate' = Calling(c, task[s][c].seen)
  BY DEF TaskStep, TaskLoads, TaskCommits, DialSucceeds, DialReplyLost, DialFails,
         TaskStores, TaskAborts
<1>3. candidate \in [Candidate -> Row]
  BY DEF CrmInv, IInv, TypeOK
<1>4. ASSUME candidate' = Calling(c, task[s][c].seen)
      PROVE  /\ candidate'[c].status \in {candidate[c].status, "calling"}
             /\ \A d \in Candidate : d # c => candidate'[d] = candidate[d]
  <2>1. candidate'[c].status = Flushed(candidate[c].status, task[s][c].seen.status, "calling")
    BY <1>3, <1>4 DEF Calling, Row
  <2>2. \A d \in Candidate : d # c => candidate'[d] = candidate[d]
    BY <1>3, <1>4 DEF Calling
  <2> QED  BY <2>1, <2>2, FlushedIsOneOf
<1> QED  BY <1>1, <1>2, <1>4, OthersResolveNobody DEF Resolved

\* What a step of one request must satisfy.
LEMMA RequestResolves ==
  ASSUME CrmInv, IInv', NEW h \in Handler, NEW x, handler' = [handler EXCEPT ![h] = x],
         \A c \in Candidate : crm[c] > 0 => crm'[c] > 0,
         \A c \in Candidate : candidate'[c].status \in Resolved =>
           candidate'[c].status = candidate[c].status \/ crm'[c] > 0,
         x.pc \in {"judge", "push", "save"} /\ x.seen.lead => crm'[x.call.with] > 0,
         x.pc = "save" /\ (x.qualified \/ Exhausted(x.seen.attempts)) => crm'[x.call.with] > 0
  PROVE  CrmInv'
<1>1. handler'[h] = x /\ \A g \in Handler : g # h => handler'[g] = handler[g]
  BY DEF CrmInv, IInv, TypeOK
<1>2. \A g \in Handler : handler[g].pc # "idle" => handler[g].call.with \in Candidate
  BY CallFacts DEF CrmInv, IInv, SpokenWork
<1>3. ResolvedReachesCrm'
  BY DEF CrmInv, ResolvedReachesCrm, Resolved
<1>4. ReadLeadExists'
  BY <1>1, <1>2 DEF CrmInv, ReadLeadExists
<1>5. LeadBeforeVerdict'
  BY <1>1, <1>2 DEF CrmInv, LeadBeforeVerdict
<1> QED  BY <1>3, <1>4, <1>5 DEF CrmInv

\* A report of an outbound call is judged against the row as it is.
LEMMA ReportResolvesNobody ==
  ASSUME CrmInv, IInv', NEW k \in Call, Answered(k) PROVE CrmInv'
<1>1. CASE ReportIgnored(k)
  BY <1>1, OthersResolveNobody DEF ReportIgnored
<1>2. ASSUME NEW h \in Handler, ReportOfOutbound(h, k) PROVE CrmInv'
  <2> DEFINE x == [IdleHandler EXCEPT !.pc = "judge", !.call = k, !.seen = candidate[k.with],
                                      !.seenCall = callRow[k]]
  <2>1. /\ handler' = [handler EXCEPT ![h] = x] /\ crm' = crm /\ candidate' = candidate
        /\ x.pc = "judge" /\ x.call = k /\ x.seen = candidate[k.with]
    BY <1>2 DEF ReportOfOutbound, IdleHandler
  <2> HIDE DEF x
  <2>2. candidate[k.with].lead => crm[k.with] > 0
    BY CallFacts DEF CrmInv, IInv, StoredLeadExists
  <2> QED  BY <2>1, <2>2, RequestResolves
<1>3. ASSUME NEW h \in Handler, ReportOfInbound(h, k) PROVE CrmInv'
  <2> DEFINE x == [IdleHandler EXCEPT !.pc = "find", !.call = k]
  <2>1. /\ handler' = [handler EXCEPT ![h] = x] /\ crm' = crm /\ candidate' = candidate
        /\ x.pc = "find"
    BY <1>3 DEF ReportOfInbound, IdleHandler
  <2> HIDE DEF x
  <2> QED  BY <2>1, RequestResolves
<1> QED  BY <1>1, <1>2, <1>3 DEF Answered

LEMMA HandlerResolves ==
  ASSUME CrmInv, IInv', "crm_fails" \notin Faults, NEW h \in Handler,
         HandlerStep(h) \/ HandlerAborts(h)
  PROVE  CrmInv'
<1> DEFINE me == handler[h]
           k  == me.call
           x  == handler'[h]
<1>1. me \in HandlerState /\ IdleHandler.pc = "idle"
  BY DEF CrmInv, IInv, TypeOK, IdleHandler
<1>2. me.pc # "idle"
  BY DEF HandlerStep, FindCaller, InsertCaller, LoadCaller, RegisterInbound, ReloadInbound,
         Judge, CreateLead, LeadReplyLost, LeadFails, SaveVerdict, HandlerAborts
<1>3. k \in Call /\ k.with \in Candidate /\ Caller(h) = k.with
  BY <1>2, CallFacts DEF CrmInv, IInv, SpokenWork, Caller
<1>4. candidate \in [Candidate -> Row] /\ crm \in [Candidate -> 0..MaxLeads]
      /\ handler \in [Handler -> HandlerState]
  BY DEF CrmInv, IInv, TypeOK
\* A request that does not get to the verdict, or ends.
<1>a. ASSUME NEW y, handler' = [handler EXCEPT ![h] = y], crm' = crm,
             \A c \in Candidate : candidate'[c].status \in Resolved =>
               candidate'[c].status = candidate[c].status,
             y.pc \notin {"judge", "push", "save"}
      PROVE  CrmInv'
  BY <1>a, RequestResolves
<1>5. CASE FindCaller(h)
  <2> DEFINE y == [me EXCEPT !.pc = IF candidate[Caller(h)].status = "absent" THEN "insert" ELSE "load"]
  <2>1. handler' = [handler EXCEPT ![h] = y] /\ y.pc \in {"insert", "load"}
    BY <1>1, <1>5 DEF FindCaller, HandlerState
  <2> HIDE DEF y
  <2> QED  BY <1>5, <1>a, <2>1 DEF FindCaller, env
<1>6. CASE InsertCaller(h)
  <2> DEFINE y == [me EXCEPT !.pc = "load"]
  <2>1. y.pc = "load"
    BY <1>1 DEF HandlerState
  <2>2. handler' = [handler EXCEPT ![h] = y] \/ handler' = [handler EXCEPT ![h] = IdleHandler]
    BY <1>6 DEF InsertCaller
  <2> HIDE DEF y
  <2>3. \A c \in Candidate : candidate'[c].status \in Resolved =>
          candidate'[c].status = candidate[c].status
    <3>1. candidate' = candidate \/ candidate' = [candidate EXCEPT ![k.with].status = "new_resume"]
      BY <1>3, <1>6 DEF InsertCaller
    <3> QED  BY <1>3, <1>4, <3>1 DEF Resolved, Row
  <2>4. crm' = crm
    BY <1>6 DEF InsertCaller, env
  <2> QED  BY <1>1, <1>a, <2>1, <2>2, <2>3, <2>4
<1>7. CASE LoadCaller(h)
  <2> DEFINE y == [me EXCEPT !.pc = "register", !.seen = candidate[Caller(h)]]
  <2>1. handler' = [handler EXCEPT ![h] = y] /\ y.pc = "register"
    BY <1>1, <1>7 DEF LoadCaller, HandlerState
  <2> HIDE DEF y
  <2> QED  BY <1>7, <1>a, <2>1 DEF LoadCaller, env
<1>8. CASE RegisterInbound(h)
  <2> DEFINE y == [me EXCEPT !.pc = "reload"]
  <2>1. y.pc = "reload"
    BY <1>1 DEF HandlerState
  <2>2. handler' = [handler EXCEPT ![h] = y] \/ handler' = [handler EXCEPT ![h] = IdleHandler]
    BY <1>8 DEF RegisterInbound
  <2> HIDE DEF y
  <2>3. \A c \in Candidate : candidate'[c].status = candidate[c].status
    <3> DEFINE n == me.seen.attempts + 1
    <3>1. \/ candidate' = candidate
          \/ candidate' = [candidate EXCEPT ![k.with].attempts = n]
      BY <1>8 DEF RegisterInbound
    <3> HIDE DEF n
    <3> QED  BY <1>3, <1>4, <3>1 DEF Row
  <2>4. crm' = crm
    BY <1>8 DEF RegisterInbound, env
  <2> QED  BY <1>1, <1>a, <2>1, <2>2, <2>3, <2>4
<1>9. CASE ReloadInbound(h)
  <2> DEFINE y == [me EXCEPT !.pc = "judge", !.seen = candidate[Caller(h)], !.seenCall = callRow[k]]
  <2>1. /\ handler' = [handler EXCEPT ![h] = y] /\ y.pc = "judge"
        /\ y.seen = candidate[k.with] /\ y.call = k
    BY <1>1, <1>3, <1>9 DEF ReloadInbound, HandlerState
  <2> HIDE DEF y
  <2>2. candidate[k.with].lead => crm[k.with] > 0
    BY <1>3 DEF CrmInv, IInv, StoredLeadExists
  <2> QED  BY <1>9, <2>1, <2>2, RequestResolves DEF ReloadInbound, env
<1>10. CASE Judge(h)
  <2>1. PICK q \in BOOLEAN : handler' = [handler EXCEPT ![h] = [me EXCEPT !.qualified = q,
          !.pc = IF ShouldPush(me.seen, q) THEN "push" ELSE "save"]]
    BY <1>10 DEF Judge, Verdicts
  <2> DEFINE y == [me EXCEPT !.qualified = q,
                     !.pc = IF ShouldPush(me.seen, q) THEN "push" ELSE "save"]
  <2>2. /\ y.pc = (IF ShouldPush(me.seen, q) THEN "push" ELSE "save")
        /\ y.call = k /\ y.seen = me.seen /\ y.qualified = q
    BY <1>1 DEF HandlerState
  <2>3. handler' = [handler EXCEPT ![h] = y]
    BY <2>1
  <2> HIDE DEF y
  <2>4. me.seen.lead => crm[k.with] > 0
    BY <1>10 DEF Judge, CrmInv, ReadLeadExists
  <2>5. UNCHANGED <<candidate, crm>>
    BY <1>10 DEF Judge, env
  <2> QED  BY <2>2, <2>3, <2>4, <2>5, RequestResolves DEF ShouldPush
\* The lead is created, whether or not the reply arrives.
<1>b. ASSUME NEW y, handler' = [handler EXCEPT ![h] = y], LeadPosted(k.with),
             candidate' = candidate, y.call = k
      PROVE  CrmInv'
  <2>1. crm'[k.with] > 0 /\ \A c \in Candidate : crm[c] > 0 => crm'[c] > 0
    BY <1>3, <1>4, <1>b DEF LeadPosted, MaxLeads
  <2> QED  BY <1>b, <2>1, RequestResolves
<1>11. CASE CreateLead(h)
  <2> DEFINE y == [me EXCEPT !.pc = "save", !.lead = TRUE, !.tries = 0]
  <2>1. handler' = [handler EXCEPT ![h] = y] /\ y.call = k
    BY <1>1, <1>11 DEF CreateLead, HandlerState
  <2> HIDE DEF y
  <2> QED  BY <1>3, <1>11, <1>b, <2>1 DEF CreateLead
<1>12. CASE LeadReplyLost(h)
  <2> DEFINE y == IF me.tries + 1 < Tries THEN [me EXCEPT !.tries = me.tries + 1]
                                          ELSE [me EXCEPT !.tries = 0, !.pc = "save"]
  <2>1. handler' = [handler EXCEPT ![h] = y]
    BY <1>12 DEF LeadReplyLost
  <2>2. y.call = k
    BY <1>1 DEF HandlerState
  <2> HIDE DEF y
  <2> QED  BY <1>3, <1>12, <1>b, <2>1, <2>2 DEF LeadReplyLost
<1>13. CASE LeadFails(h)
  BY <1>13 DEF LeadFails
<1>14. CASE SaveVerdict(h)
  <2> DEFINE v == VerdictStatus(me.qualified, me.seen.attempts)
             st == Flushed(candidate[k.with].status, me.seen.status, v)
  <2>1. /\ candidate' = [candidate EXCEPT ![k.with] = [candidate[k.with] EXCEPT
             !.status = st, !.lead = @ \/ me.lead]]
        /\ handler' = [handler EXCEPT ![h] = IdleHandler] /\ crm' = crm /\ me.pc = "save"
    BY <1>14 DEF SaveVerdict, env
  <2>2. v \in Resolved => crm[k.with] > 0
    BY <1>1, <2>1 DEF CrmInv, LeadBeforeVerdict, VerdictStatus, Resolved
  <2>3. st \in {candidate[k.with].status, v}
    BY FlushedIsOneOf
  <2> HIDE DEF v, st
  <2>4. candidate'[k.with].status = st /\ \A c \in Candidate : c # k.with => candidate'[c] = candidate[c]
    BY <1>3, <1>4, <2>1 DEF Row
  <2>5. \A c \in Candidate : candidate'[c].status \in Resolved =>
          candidate'[c].status = candidate[c].status \/ crm'[c] > 0
    BY <2>1, <2>2, <2>3, <2>4
  <2> QED  BY <1>1, <2>1, <2>5, RequestResolves
<1>15. CASE HandlerAborts(h)
  BY <1>1, <1>15, <1>a DEF HandlerAborts, env
<1> QED  BY <1>5, <1>6, <1>7, <1>8, <1>9, <1>10, <1>11, <1>12, <1>13, <1>14, <1>15 DEF HandlerStep

\* Whoever is handed over or given up is in the CRM, unless KeyCRM refused a lead:
\* under every other fault, with any slots and callers, no request stores a verdict
\* that resolves a candidate before KeyCRM has the lead.
THEOREM ResolvedInCrm == ASSUME "crm_fails" \notin Faults PROVE Spec => []ResolvedReachesCrm
<1>1. Init => ResolvedReachesCrm /\ ReadLeadExists /\ LeadBeforeVerdict
  BY DEF Init, NoRow, IdleHandler, ResolvedReachesCrm, ReadLeadExists, LeadBeforeVerdict
<1>2. CrmInv /\ IInv' /\ [Next]_vars => CrmInv'
  <2> SUFFICES ASSUME CrmInv, IInv', [Next]_vars PROVE CrmInv'
    OBVIOUS
  <2>1. ASSUME NEW c \in Candidate, Ingest(c) PROVE CrmInv'
    <3>1. \A d \in Candidate : candidate'[d].status \in Resolved =>
            candidate'[d].status = candidate[d].status
      BY <2>1 DEF Ingest, Resolved, CrmInv, IInv, TypeOK, Row
    <3> QED  BY <2>1, <3>1, OthersResolveNobody DEF Ingest, env
  <2>2. ASSUME NEW s \in Slot, SlotFires(s) PROVE CrmInv'
    BY <2>2, OthersResolveNobody DEF SlotFires, env
  <2>3. ASSUME NEW k \in Call, RingsUs(k) \/ CallEnds(k) \/ ReportLost(k) \/ Redelivered(k)
        PROVE  CrmInv'
    BY <2>3, OthersResolveNobody DEF RingsUs, CallEnds, ReportLost, Redelivered
  <2>4. CASE UNCHANGED vars
    BY <2>4, OthersResolveNobody DEF vars
  <2> QED  BY <2>1, <2>2, <2>3, <2>4, TaskResolvesNobody, ReportResolvesNobody,
              HandlerResolves DEF Next
<1>3. Init => CrmInv
  BY <1>1, InitInvariant DEF CrmInv
<1>4. CrmInv => ResolvedReachesCrm
  BY DEF CrmInv
<1> QED  BY <1>2, <1>3, <1>4, Invariance, PTL DEF Spec

-----------------------------------------------------------------------------
(***************************************************************************)
(* Reports arrive at most once, POSTs are not repeated, one slot is under    *)
(* way and nobody rings us; whatever else may go wrong does.                 *)
(*                                                                           *)
(* Nothing here is guarded where it could break: the task trusts the slot's  *)
(* selection, the handler trusts the row it read before the summary.  It     *)
(* holds because of an exclusion that no line of the code states.  A call is *)
(* open from its placing until a verdict is stored for it; a candidate with  *)
(* an open call is "calling", so no slot selects them; and an open call has  *)
(* one report, in the mail or in the hands of one request.                   *)
(***************************************************************************)

\* One delivery, one slot, outbound calls only.
OnceOnly ==
  /\ Faults \cap {"redelivery", "dial_retry", "crm_retry"} = {}
  /\ \A s, t \in Slot : s = t
  /\ MaxInbound = 0

\* Placed, and without a verdict.
Open(k) == vapi[k] # "none" /\ callRow[k] \in {"none", "failed"}

Busy(h) == handler[h].pc # "idle"

\* What is open is being called, once.
OpenIsCalling == \A k \in Call : Open(k) => candidate[k.with].status = "calling"

OneOpenCall ==
  \A j, k \in Call : Open(j) /\ Open(k) /\ j.with = k.with => j = k

\* Only a call that was placed has a row, only one that was spoken a verdict.
RowsOfCalls ==
  \A k \in Call : /\ callRow[k] # "none" => vapi[k] # "none"
                  /\ callRow[k] \notin {"none", "failed"} => vapi[k] = "spoken"

\* Attempts are counted before the calls are placed.
Counted ==
  /\ \A c \in Candidate : candidate[c].attempts <= MaxAttempts
  /\ \A k \in Call : vapi[k] # "none" => k.n <= candidate[k.with].attempts

\* What a task saw of its candidate is still so.
TasksFit ==
  \A s \in Slot, c \in Candidate :
    /\ task[s][c].pc \in {"selected", "commit"} => Eligible(c)
    /\ task[s][c].pc = "commit" => task[s][c].seen = candidate[c]
    /\ task[s][c].pc = "dial" =>
         /\ candidate[c].status = "calling" /\ candidate[c].attempts > 0
         /\ \A k \in CallsWith(c) :
              ~Open(k) /\ (vapi[k] # "none" => k.n < candidate[c].attempts)
    /\ task[s][c].pc = "store" =>
         /\ task[s][c].call \in CallsWith(c)
         /\ Open(task[s][c].call) /\ callRow[task[s][c].call] = "none"

\* The one report of an open call is in the mail or with one request.
MailIsOpen ==
  \A k \in mail : /\ Open(k) /\ vapi[k] \in {"silent", "spoken"}
                  /\ \A h \in Handler : Busy(h) => handler[h].call # k

OneRequest ==
  \A g, h \in Handler : Busy(g) /\ Busy(h) /\ handler[g].call = handler[h].call => g = h

\* What a request saw of its call and its candidate is still so.
RequestsFit ==
  \A h \in Handler : Busy(h) =>
    /\ handler[h].pc \in {"judge", "push", "save"}
    /\ handler[h].call \in Call /\ vapi[handler[h].call] = "spoken"
    /\ callRow[handler[h].call] = "failed" /\ handler[h].seenCall = "failed"
    /\ handler[h].seen = candidate[handler[h].call.with]
    /\ handler[h].pc = "push" => ~handler[h].seen.lead
    /\ handler[h].lead => handler[h].pc = "save"
    /\ handler[h].pc = "push" \/ handler[h].lead =>
         handler[h].qualified \/ Exhausted(handler[h].seen.attempts)

\* A lead that is not stored yet was created for the open call, by a request that
\* is about to store it or has died: no other will be asked to create one.
LeadOnce ==
  \A c \in Candidate :
    /\ crm[c] <= 1
    /\ crm[c] > 0 /\ ~candidate[c].lead =>
         \E k \in CallsWith(c) :
           /\ Open(k) /\ vapi[k] = "spoken" /\ k \notin mail
           /\ \A h \in Handler : Busy(h) /\ handler[h].call = k =>
                handler[h].pc = "save" /\ handler[h].lead

OnceInv ==
  /\ TypeOK /\ OpenIsCalling /\ OneOpenCall /\ RowsOfCalls /\ Counted /\ TasksFit
  /\ MailIsOpen /\ OneRequest /\ RequestsFit /\ LeadOnce /\ ReviewHasSuccess
-----------------------------------------------------------------------------
\* Nobody rings us, so every call is one of ours.
LEMMA OurCalls ==
  ASSUME OnceOnly
  PROVE  /\ InCall = {} /\ Call = OutCall
         /\ \A k \in Call : k.with \in Candidate /\ k.n \in Nat \ {0}
<1>1. InCall = {}
  <2>1. 1..MaxInbound = {}
    BY DEF OnceOnly
  <2> QED  BY <2>1 DEF InCall
<1>2. \A k \in OutCall : k.with \in Candidate /\ k.n \in 1..MaxDials
  BY DEF OutCall
<1>3. \A n \in 1..MaxDials : n \in Nat \ {0}
  BY BoundsAreNatural
<1> QED  BY <1>1, <1>2, <1>3 DEF Call

LEMMA InitOnce == Init => OnceInv
<1> SUFFICES ASSUME Init PROVE OnceInv
  OBVIOUS
<1>1. TypeOK
  BY InitTyped
<1>2. /\ \A k \in Call : vapi[k] = "none" /\ callRow[k] = "none"
      /\ \A c \in Candidate : candidate[c] = NoRow /\ crm[c] = 0
      /\ \A s \in Slot, c \in Candidate : task[s][c].pc = "idle"
      /\ \A h \in Handler : ~Busy(h)
      /\ mail = {}
  BY DEF Init, IdleTask, IdleHandler, Busy
<1>3. OpenIsCalling /\ OneOpenCall /\ RowsOfCalls
  BY <1>2 DEF OpenIsCalling, OneOpenCall, RowsOfCalls, Open
<1>4. Counted
  BY <1>2, LimitsArePositive DEF Counted, NoRow
<1>5. TasksFit /\ MailIsOpen /\ OneRequest /\ RequestsFit
  BY <1>2 DEF TasksFit, MailIsOpen, OneRequest, RequestsFit
<1>6. LeadOnce /\ ReviewHasSuccess
  BY <1>2 DEF LeadOnce, ReviewHasSuccess, NoRow
<1> QED  BY <1>1, <1>3, <1>4, <1>5, <1>6 DEF OnceInv

-----------------------------------------------------------------------------
\* Steps of the tasks.

\* Where only a task moves, its own fit is all there is to show.
LEMMA TaskMoves ==
  ASSUME OnceInv, TypeOK', TasksFit', UNCHANGED <<candidate, callRow, env, handler>>
  PROVE  OnceInv'
<1> USE DEF OnceInv, env
<1>1. OpenIsCalling' /\ OneOpenCall' /\ RowsOfCalls' /\ Counted'
  BY DEF OpenIsCalling, OneOpenCall, RowsOfCalls, Counted, Open
<1>2. MailIsOpen' /\ OneRequest' /\ RequestsFit'
  BY DEF MailIsOpen, OneRequest, RequestsFit, Open, Busy
<1>3. LeadOnce' /\ ReviewHasSuccess'
  BY DEF LeadOnce, ReviewHasSuccess, Open, Busy, CallsWith
<1> QED  BY <1>1, <1>2, <1>3

LEMMA SlotOnce == ASSUME OnceInv, NEW s \in Slot, SlotFires(s) PROVE OnceInv'
<1>1. TypeOK'
  BY SlotTyped DEF OnceInv
<1>2. PICK b \in Batches : task' = [task EXCEPT ![s] =
        [c \in Candidate |-> IF c \in b THEN [IdleTask EXCEPT !.pc = "selected"] ELSE @[c]]]
  BY DEF SlotFires
<1>3. \A c \in b : c \in Candidate /\ Eligible(c)
  BY DEF Batches
<1>4. UNCHANGED <<candidate, callRow, env, handler>>
  BY DEF SlotFires
<1>5. \A t \in Slot, c \in Candidate :
        \/ task'[t][c] = task[t][c]
        \/ Eligible(c) /\ task'[t][c].pc = "selected"
  BY <1>2, <1>3 DEF OnceInv, TypeOK, IdleTask
<1>6. TasksFit'
  BY <1>4, <1>5 DEF OnceInv, TasksFit, Eligible, Open, CallsWith, env
<1> QED  BY <1>1, <1>4, <1>6, TaskMoves

\* A slot under way is the only one: a step of a task concerns no other task of
\* its candidate.
LEMMA OtherTasks ==
  ASSUME TypeOK, OnceOnly, NEW s \in Slot, NEW c \in Candidate, NEW t,
         task' = [task EXCEPT ![s][c] = t]
  PROVE  /\ task'[s][c] = t
         /\ \A r \in Slot, d \in Candidate : d # c => task'[r][d] = task[r][d]
         /\ \A r \in Slot : task'[r][c] = t
BY DEF TypeOK, OnceOnly

LEMMA TaskLoadsOnce ==
  ASSUME OnceInv, OnceOnly, NEW s \in Slot, NEW c \in Candidate, TaskLoads(s, c)
  PROVE  OnceInv'
<1> DEFINE t == [task[s][c] EXCEPT !.pc = "commit", !.seen = candidate[c]]
<1>1. TypeOK'
  BY TaskTyped DEF OnceInv, TaskStep
<1>2. task[s][c] \in Task
  BY DEF OnceInv, TypeOK
<1>3. t.pc = "commit" /\ t.seen = candidate[c]
  BY <1>2 DEF Task
<1>4. task' = [task EXCEPT ![s][c] = t]
  BY DEF TaskLoads, OnceInv, TypeOK, Task
<1>5. Eligible(c) /\ UNCHANGED <<candidate, callRow, env, handler>>
  BY DEF TaskLoads, OnceInv, TasksFit
<1> HIDE DEF t
<1>6. TasksFit'
  BY <1>3, <1>4, <1>5, OtherTasks DEF OnceInv, TasksFit, Eligible, Open, CallsWith, env
<1> QED  BY <1>1, <1>5, <1>6, TaskMoves

\* A task that ends leaves no trace of its own.
LEMMA TaskEndsOnce ==
  ASSUME OnceInv, OnceOnly, NEW s \in Slot, NEW c \in Candidate,
         DialFails(s, c) \/ TaskAborts(s, c)
  PROVE  OnceInv'
<1>1. TypeOK'
  BY TaskTyped DEF OnceInv, TaskStep
<1>2. /\ task' = [task EXCEPT ![s][c] = IdleTask]
      /\ UNCHANGED <<candidate, callRow, env, handler>>
  BY DEF DialFails, TaskAborts
<1>3. TasksFit'
  BY <1>2, OtherTasks DEF OnceInv, TasksFit, Eligible, Open, CallsWith, env, IdleTask
<1> QED  BY <1>1, <1>2, <1>3, TaskMoves

\* A row moves while its candidate has no open call: nobody else holds on to it.
LEMMA RowMoves ==
  ASSUME OnceInv, OnceOnly, TypeOK', TasksFit', UNCHANGED <<callRow, env, handler>>,
         NEW c \in Candidate, \A k \in CallsWith(c) : ~Open(k),
         \A d \in Candidate : d # c => candidate'[d] = candidate[d],
         candidate'[c].lead = candidate[c].lead,
         candidate'[c].status # "manager_review",
         candidate'[c].attempts \in {candidate[c].attempts, candidate[c].attempts + 1},
         candidate'[c].attempts <= MaxAttempts
  PROVE  OnceInv'
<1> USE OurCalls DEF OnceInv, env
<1>0. candidate[c].attempts \in Nat /\ \A k \in Call : Open(k) => k.with # c
  BY DEF TypeOK, Row, CallsWith
<1>1. OpenIsCalling' /\ OneOpenCall' /\ RowsOfCalls'
  BY <1>0 DEF OpenIsCalling, OneOpenCall, RowsOfCalls, Open
<1>2. Counted'
  <2>1. \A d \in Candidate : candidate'[d].attempts <= MaxAttempts
    BY DEF Counted
  <2>2. ASSUME NEW k \in Call, vapi[k] # "none" PROVE k.n <= candidate'[k.with].attempts
    <3>1. k.n <= candidate[k.with].attempts
      BY <2>2 DEF Counted
    <3> QED  BY <1>0, <3>1
  <2> QED  BY <2>1, <2>2 DEF Counted
<1>3. MailIsOpen' /\ OneRequest'
  BY DEF MailIsOpen, OneRequest, Open, Busy
<1>4. RequestsFit'
  <2>1. \A h \in Handler : Busy(h) => candidate'[handler[h].call.with] = candidate[handler[h].call.with]
    BY <1>0 DEF RequestsFit, Open, RowsOfCalls
  <2> QED  BY <2>1 DEF RequestsFit, Busy
<1>5. LeadOnce'
  BY DEF LeadOnce, Open, Busy, CallsWith
<1>6. ReviewHasSuccess'
  BY DEF ReviewHasSuccess, CallsWith
<1> QED  BY <1>1, <1>2, <1>3, <1>4, <1>5, <1>6

LEMMA IngestOnce ==
  ASSUME OnceInv, OnceOnly, NEW c \in Candidate, Ingest(c) PROVE OnceInv'
<1>1. TypeOK'
  BY IngestTyped DEF OnceInv
<1>2. UNCHANGED <<callRow, env, handler, task>> /\ candidate[c].status = "absent"
  BY DEF Ingest
<1>3. /\ \A d \in Candidate : d # c => candidate'[d] = candidate[d]
      /\ candidate'[c].status = "new_resume"
      /\ candidate'[c].lead = candidate[c].lead /\ candidate'[c].attempts = candidate[c].attempts
  BY DEF Ingest, OnceInv, TypeOK, Row
<1>4. \A k \in CallsWith(c) : ~Open(k)
  BY <1>2 DEF OnceInv, OpenIsCalling, CallsWith
<1>5. TasksFit'
  BY <1>2, <1>3 DEF OnceInv, TasksFit, Eligible, Open, CallsWith, env
<1>6. candidate'[c].attempts <= MaxAttempts
  BY <1>3 DEF OnceInv, Counted
<1> QED  BY <1>1, <1>2, <1>3, <1>4, <1>5, <1>6, RowMoves

\* What an attempt does to the row: the task saw it as it is.
LEMMA CommitCounts ==
  ASSUME OnceInv, NEW s \in Slot, NEW c \in Candidate, TaskCommits(s, c)
  PROVE  /\ Eligible(c)
         /\ candidate' = [candidate EXCEPT ![c] = [candidate[c] EXCEPT
                            !.status = "calling", !.attempts = candidate[c].attempts + 1]]
<1>1. Eligible(c) /\ task[s][c].seen = candidate[c]
  BY DEF OnceInv, TasksFit, TaskCommits
<1>2. Flushed(candidate[c].status, candidate[c].status, "calling") = "calling"
  BY DEF Flushed
<1> QED  BY <1>1, <1>2 DEF TaskCommits, Calling

LEMMA TaskCommitsOnce ==
  ASSUME OnceInv, OnceOnly, NEW s \in Slot, NEW c \in Candidate, TaskCommits(s, c)
  PROVE  OnceInv'
<1>1. TypeOK'
  BY TaskTyped DEF OnceInv, TaskStep
<1> DEFINE t == [IdleTask EXCEPT !.pc = "dial"]
<1>2. t.pc = "dial" /\ task' = [task EXCEPT ![s][c] = t]
  BY DEF TaskCommits, IdleTask
<1> HIDE DEF t
<1>3. UNCHANGED <<callRow, env, handler>>
  BY DEF TaskCommits
<1>4. /\ \A d \in Candidate : d # c => candidate'[d] = candidate[d]
      /\ candidate'[c].status = "calling" /\ candidate'[c].lead = candidate[c].lead
      /\ candidate'[c].attempts = candidate[c].attempts + 1
      /\ candidate[c].attempts \in Nat
  <2>1. candidate \in [Candidate -> Row] /\ candidate[c] \in Row
    BY DEF OnceInv, TypeOK
  <2>2. candidate' = [candidate EXCEPT ![c] = [candidate[c] EXCEPT
                        !.status = "calling", !.attempts = candidate[c].attempts + 1]]
    BY CommitCounts
  <2> QED  BY <2>1, <2>2 DEF Row
<1>5. candidate[c].attempts < MaxAttempts /\ candidate[c].status # "calling"
  BY CommitCounts DEF Eligible
<1>6. \A k \in CallsWith(c) : ~Open(k)
  BY <1>5 DEF OnceInv, OpenIsCalling, CallsWith
<1>7. \A k \in CallsWith(c) : vapi[k] # "none" => k.n < candidate'[c].attempts
  BY <1>4, OurCalls DEF OnceInv, Counted, CallsWith
<1>8. TasksFit'
  <2>1. \A r \in Slot, d \in Candidate :
          \/ task'[r][d] = task[r][d] /\ candidate'[d] = candidate[d]
          \/ d = c /\ task'[r][d] = t
    <3>1. /\ \A r \in Slot, d \in Candidate : d # c => task'[r][d] = task[r][d]
          /\ \A r \in Slot : task'[r][c] = t
      BY <1>2, OtherTasks DEF OnceInv
    <3> QED  BY <1>4, <3>1
  <2>2. candidate'[c].attempts > 0
    BY <1>4
  <2> QED  BY <1>2, <1>3, <1>4, <1>6, <1>7, <2>1, <2>2
           DEF OnceInv, TasksFit, Eligible, Open, CallsWith, env
<1>9. candidate'[c].attempts <= MaxAttempts
  BY <1>4, <1>5, LimitsArePositive
<1> QED  BY <1>1, <1>3, <1>4, <1>6, <1>8, <1>9, RowMoves

LEMMA DialOnce ==
  ASSUME OnceInv, OnceOnly, NEW s \in Slot, NEW c \in Candidate, DialSucceeds(s, c)
  PROVE  OnceInv'
<1> USE OurCalls DEF OnceInv
<1>1. TypeOK'
  BY TaskTyped DEF TaskStep
<1>2. PICK k \in OutCall : /\ k.with = c /\ Places(k)
                           /\ task' = [task EXCEPT ![s][c] = [IdleTask EXCEPT !.pc = "store", !.call = k]]
  BY DEF DialSucceeds
<1>3. UNCHANGED <<candidate, callRow, crm, mail, handler>> /\ task[s][c].pc = "dial"
  BY DEF DialSucceeds
<1>4. /\ candidate[c].status = "calling" /\ candidate[c].attempts > 0
      /\ \A j \in CallsWith(c) : ~Open(j) /\ (vapi[j] # "none" => j.n < candidate[c].attempts)
  BY <1>3 DEF TasksFit
<1>5. /\ k \in Call /\ vapi[k] = "none" /\ vapi'[k] = "live"
      /\ \A j \in Call : j # k => vapi'[j] = vapi[j]
  BY <1>2 DEF Places, TypeOK
<1>6. callRow[k] = "none"
  BY <1>5 DEF RowsOfCalls
<1>7. k.n <= candidate[c].attempts
  <2>0. k.n \in 1..MaxDials /\ candidate[c].attempts \in Nat /\ MaxDials \in Nat
    BY <1>2, BoundsAreNatural DEF OutCall, TypeOK, Row
  <2>1. CASE k.n = 1
    BY <1>4, <2>0, <2>1
  <2>2. CASE k.n # 1
    <3> DEFINE j == [k EXCEPT !.n = k.n - 1]
    <3>1. k.n - 1 \in 1..(k.n - 1) /\ k.n - 1 \in 1..MaxDials
      BY <2>0, <2>2
    <3>2. j \in OutCall /\ j.with = c /\ j.n = k.n - 1
      BY <1>2, <3>1 DEF OutCall
    <3>3. vapi[j] # "none"
      BY <1>2, <3>1 DEF Places
    <3>4. j.n < candidate[c].attempts
      BY <1>4, <3>2, <3>3 DEF CallsWith
    <3> QED  BY <2>0, <3>2, <3>4
  <2> QED  BY <2>1, <2>2
<1>8. \A j \in Call : j # k => (Open(j)' <=> Open(j))
  BY <1>3, <1>5 DEF Open
<1>9. Open(k)'
  BY <1>3, <1>5, <1>6 DEF Open
<1>10. OpenIsCalling' /\ RowsOfCalls'
  BY <1>2, <1>3, <1>4, <1>5, <1>6, <1>8, <1>9 DEF OpenIsCalling, RowsOfCalls
<1>11. OneOpenCall'
  BY <1>2, <1>4, <1>8, <1>9 DEF OneOpenCall, CallsWith
<1>12. Counted'
  BY <1>2, <1>3, <1>5, <1>7 DEF Counted
<1>13. TasksFit'
  <2> DEFINE t == [IdleTask EXCEPT !.pc = "store", !.call = k]
  <2>1. t.pc = "store" /\ t.call = k
    BY DEF IdleTask
  <2>2. task' = [task EXCEPT ![s][c] = t]
    BY <1>2
  <2> HIDE DEF t
  <2>3. \A r \in Slot, d \in Candidate :
          \/ d # c /\ task'[r][d] = task[r][d]
          \/ d = c /\ task'[r][d] = t
    <3>1. /\ \A r \in Slot, d \in Candidate : d # c => task'[r][d] = task[r][d]
          /\ \A r \in Slot : task'[r][c] = t
      BY <2>2 DEF TypeOK, OnceOnly
    <3> QED  BY <3>1
  <2>4. \A d \in Candidate : d # c => \A j \in CallsWith(d) : j # k
    BY <1>2 DEF CallsWith
  <2>5. k \in CallsWith(c)
    BY <1>2, <1>5 DEF CallsWith
  <2>6. \A d \in Candidate : \A j \in CallsWith(d) : j \in Call
    BY DEF CallsWith
  <2>7. ASSUME NEW r \in Slot, NEW d \in Candidate, d # c
        PROVE  /\ task'[r][d] = task[r][d] /\ candidate'[d] = candidate[d]
               /\ \A j \in CallsWith(d) : /\ vapi'[j] = vapi[j] /\ callRow'[j] = callRow[j]
                                          /\ (Open(j)' <=> Open(j))
    BY <1>3, <1>5, <1>8, <2>3, <2>4, <2>6, <2>7
  <2>8. ASSUME NEW r \in Slot PROVE task'[r][c].pc = "store" /\ task'[r][c].call = k
    BY <2>1, <2>3
  <2>9. \A d \in Candidate : CallsWith(d)' = CallsWith(d)
    BY DEF CallsWith
  <2> QED  BY <1>3, <1>6, <1>9, <2>5, <2>7, <2>8, <2>9 DEF TasksFit, Eligible
<1>14. MailIsOpen'
  <2>1. \A j \in mail : j # k /\ j \in Call
    BY <1>5 DEF MailIsOpen, TypeOK
  <2> QED  BY <1>3, <1>5, <1>8, <2>1 DEF MailIsOpen, Busy
<1>15. OneRequest'
  BY <1>3 DEF OneRequest, Busy
<1>16. RequestsFit'
  BY <1>3, <1>5 DEF RequestsFit, Busy
<1>17. LeadOnce'
  BY <1>3, <1>5, <1>8 DEF LeadOnce, CallsWith, Busy
<1>18. ReviewHasSuccess'
  BY <1>3 DEF ReviewHasSuccess, CallsWith
<1> QED  BY <1>1, <1>10, <1>11, <1>12, <1>13, <1>14, <1>15, <1>16, <1>17, <1>18

LEMMA TaskStoresOnce ==
  ASSUME OnceInv, OnceOnly, NEW s \in Slot, NEW c \in Candidate, TaskStores(s, c)
  PROVE  OnceInv'
<1> USE OurCalls DEF OnceInv
<1>1. TypeOK'
  BY TaskTyped DEF TaskStep
<1> DEFINE k == task[s][c].call
<1>2. k \in CallsWith(c) /\ Open(k) /\ callRow[k] = "none" /\ k \in Call
  BY DEF TaskStores, TasksFit, CallsWith
<1>3. /\ UNCHANGED <<candidate, crm, vapi, mail, handler>>
      /\ task' = [task EXCEPT ![s][c] = IdleTask] /\ IdleTask.pc = "idle"
      /\ callRow'[k] = "failed" /\ \A j \in Call : j # k => callRow'[j] = callRow[j]
  BY <1>2 DEF TaskStores, env, TypeOK, IdleTask
<1> HIDE DEF k
<1>4. \A j \in Call : Open(j)' <=> Open(j)
  BY <1>2, <1>3 DEF Open
<1>5. OpenIsCalling' /\ OneOpenCall' /\ RowsOfCalls' /\ Counted'
  BY <1>2, <1>3, <1>4 DEF OpenIsCalling, OneOpenCall, RowsOfCalls, Counted, Open
<1>6. TasksFit'
  <2>1. \A r \in Slot, d \in Candidate :
          \/ d # c /\ task'[r][d] = task[r][d]
          \/ d = c /\ task'[r][d].pc = "idle"
    <3>1. /\ \A r \in Slot, d \in Candidate : d # c => task'[r][d] = task[r][d]
          /\ \A r \in Slot : task'[r][c] = IdleTask
      BY <1>3 DEF TypeOK, OnceOnly
    <3> QED  BY <1>3, <3>1
  <2>2. \A d \in Candidate : d # c => \A j \in CallsWith(d) : j # k
    BY <1>2 DEF CallsWith
  <2>3. \A d \in Candidate : CallsWith(d)' = CallsWith(d) /\ \A j \in CallsWith(d) : j \in Call
    BY DEF CallsWith
  <2> QED  BY <1>3, <1>4, <2>1, <2>2, <2>3 DEF TasksFit, Eligible
<1>7. MailIsOpen' /\ OneRequest'
  BY <1>3, <1>4 DEF MailIsOpen, OneRequest, Busy, TypeOK
<1>8. RequestsFit'
  BY <1>2, <1>3 DEF RequestsFit, Busy
<1>9. LeadOnce'
  BY <1>3, <1>4 DEF LeadOnce, CallsWith, Busy
<1>10. ReviewHasSuccess'
  BY <1>2, <1>3 DEF ReviewHasSuccess, CallsWith
<1> QED  BY <1>1, <1>5, <1>6, <1>7, <1>8, <1>9, <1>10

LEMMA TaskOnce ==
  ASSUME OnceInv, OnceOnly, NEW s \in Slot, NEW c \in Candidate,
         TaskStep(s, c) \/ TaskAborts(s, c)
  PROVE  OnceInv'
<1>1. ~DialReplyLost(s, c)
  BY DEF DialReplyLost, OnceOnly
<1> QED  BY <1>1, TaskLoadsOnce, TaskCommitsOnce, DialOnce, TaskEndsOnce, TaskStoresOnce
         DEF TaskStep

-----------------------------------------------------------------------------
\* Steps of the network.

LEMMA CallEndsOnce ==
  ASSUME OnceInv, OnceOnly, NEW k \in Call, CallEnds(k) PROVE OnceInv'
<1> USE DEF OnceInv
<1>1. TypeOK'
  BY NetworkTyped
<1>2. /\ UNCHANGED <<candidate, callRow, crm, task, handler>>
      /\ vapi[k] = "live" /\ vapi'[k] \in {"silent", "spoken"}
      /\ \A j \in Call : j # k => vapi'[j] = vapi[j]
      /\ mail' = mail \cup {k}
  BY DEF CallEnds, TypeOK
<1>3. \A j \in Call : Open(j)' <=> Open(j)
  BY <1>2 DEF Open
<1>4. callRow[k] \in {"none", "failed"} /\ Open(k)
  BY <1>2 DEF RowsOfCalls, Open
<1>5. OpenIsCalling' /\ OneOpenCall' /\ RowsOfCalls' /\ Counted'
  BY <1>2, <1>3, <1>4 DEF OpenIsCalling, OneOpenCall, RowsOfCalls, Counted
<1>6. TasksFit'
  <2>1. \A d \in Candidate : CallsWith(d)' = CallsWith(d) /\ \A j \in CallsWith(d) : j \in Call
    BY DEF CallsWith
  <2>2. \A j \in Call : vapi'[j] # "none" <=> vapi[j] # "none"
    BY <1>2
  <2> QED  BY <1>2, <1>3, <2>1, <2>2 DEF TasksFit, Eligible
<1>7. MailIsOpen'
  <2>1. \A h \in Handler : Busy(h) => handler[h].call # k
    BY <1>2 DEF RequestsFit
  <2>2. \A j \in mail : j \in Call /\ j # k
    BY <1>2 DEF MailIsOpen, TypeOK
  <2> QED  BY <1>2, <1>3, <1>4, <2>1, <2>2 DEF MailIsOpen, Busy
<1>8. OneRequest' /\ RequestsFit'
  BY <1>2 DEF OneRequest, RequestsFit, Busy
<1>9. LeadOnce'
  BY <1>2, <1>3 DEF LeadOnce, CallsWith, Busy
<1>10. ReviewHasSuccess'
  BY <1>2 DEF ReviewHasSuccess, CallsWith
<1> QED  BY <1>1, <1>5, <1>6, <1>7, <1>8, <1>9, <1>10

\* A report that leaves the mail unread is one less to come.
LEMMA ReportGoesOnce ==
  ASSUME OnceInv, NEW k \in Call, ReportLost(k) \/ ReportIgnored(k) PROVE OnceInv'
<1> USE DEF OnceInv
<1>1. TypeOK'
  BY NetworkTyped, AnsweredTyped DEF Answered
<1>2. /\ UNCHANGED <<candidate, callRow, crm, vapi, task, handler>>
      /\ mail' = mail \ {k}
  BY DEF ReportLost, ReportIgnored
<1>3. OpenIsCalling' /\ OneOpenCall' /\ RowsOfCalls' /\ Counted'
  BY <1>2 DEF OpenIsCalling, OneOpenCall, RowsOfCalls, Counted, Open
<1>4. TasksFit' /\ ReviewHasSuccess'
  BY <1>2 DEF TasksFit, Eligible, Open, CallsWith, ReviewHasSuccess
<1>5. MailIsOpen' /\ OneRequest' /\ RequestsFit'
  BY <1>2 DEF MailIsOpen, OneRequest, RequestsFit, Open, Busy
<1>6. LeadOnce'
  BY <1>2 DEF LeadOnce, Open, CallsWith, Busy
<1> QED  BY <1>1, <1>3, <1>4, <1>5, <1>6

LEMMA NetworkOnce ==
  ASSUME OnceInv, OnceOnly, NEW k \in Call,
         RingsUs(k) \/ CallEnds(k) \/ ReportLost(k) \/ Redelivered(k)
  PROVE  OnceInv'
<1>1. ~RingsUs(k)
  BY OurCalls DEF RingsUs
<1>2. ~Redelivered(k)
  BY DEF Redelivered, OnceOnly
<1> QED  BY <1>1, <1>2, CallEndsOnce, ReportGoesOnce

\* The request takes the report out of the mail and reads rows nobody else holds.
LEMMA ReportOnce ==
  ASSUME OnceInv, OnceOnly, NEW h \in Handler, NEW k \in Call, ReportOfOutbound(h, k)
  PROVE  OnceInv'
<1> USE DEF OnceInv
<1>1. TypeOK'
  BY AnsweredTyped DEF Answered
<1> DEFINE x == [IdleHandler EXCEPT !.pc = "judge", !.call = k,
                   !.seen = candidate[k.with], !.seenCall = callRow[k]]
<1>2. /\ UNCHANGED <<candidate, callRow, crm, vapi, task>>
      /\ mail' = mail \ {k} /\ k \in mail /\ vapi[k] = "spoken" /\ callRow[k] # "none"
      /\ handler' = [handler EXCEPT ![h] = x] /\ ~Busy(h)
  BY DEF ReportOfOutbound, HasTranscript, Busy
<1>3. /\ x.pc = "judge" /\ x.call = k /\ x.seen = candidate[k.with] /\ x.seenCall = callRow[k]
      /\ x.lead = FALSE
  BY DEF IdleHandler
<1> HIDE DEF x
<1>4. handler'[h] = x /\ \A g \in Handler : g # h => handler'[g] = handler[g]
  BY <1>2 DEF TypeOK
<1>5. /\ Open(k) /\ callRow[k] = "failed"
      /\ \A g \in Handler : Busy(g) => handler[g].call # k
  BY <1>2 DEF MailIsOpen, Open
<1>6. OpenIsCalling' /\ OneOpenCall' /\ RowsOfCalls' /\ Counted'
  BY <1>2 DEF OpenIsCalling, OneOpenCall, RowsOfCalls, Counted, Open
<1>7. TasksFit' /\ ReviewHasSuccess'
  BY <1>2 DEF TasksFit, Eligible, Open, CallsWith, ReviewHasSuccess
<1>8. MailIsOpen'
  BY <1>2, <1>3, <1>4 DEF MailIsOpen, Open, Busy
<1>9. OneRequest'
  BY <1>3, <1>4, <1>5 DEF OneRequest, Busy
<1>10. RequestsFit'
  BY <1>2, <1>3, <1>4, <1>5 DEF RequestsFit, Busy
<1>11. LeadOnce'
  <2> SUFFICES ASSUME NEW c \in Candidate, crm[c] > 0, ~candidate[c].lead
               PROVE  \E j \in CallsWith(c) :
                        /\ Open(j) /\ vapi[j] = "spoken" /\ j \notin mail'
                        /\ \A g \in Handler : Busy(g)' /\ handler'[g].call = j =>
                             handler'[g].pc = "save" /\ handler'[g].lead
    BY <1>2 DEF LeadOnce, Open, CallsWith
  <2>1. PICK j \in CallsWith(c) :
          /\ Open(j) /\ vapi[j] = "spoken" /\ j \notin mail
          /\ \A g \in Handler : Busy(g) /\ handler[g].call = j =>
               handler[g].pc = "save" /\ handler[g].lead
    BY DEF LeadOnce
  <2>2. j # k
    BY <1>2, <2>1
  <2> QED  BY <1>2, <1>3, <1>4, <2>1, <2>2 DEF Busy
<1> QED  BY <1>1, <1>6, <1>7, <1>8, <1>9, <1>10, <1>11

LEMMA AnsweredOnce ==
  ASSUME OnceInv, OnceOnly, NEW k \in Call, Answered(k) PROVE OnceInv'
<1>1. \A h \in Handler : ~ReportOfInbound(h, k)
  BY OurCalls DEF ReportOfInbound
<1> QED  BY <1>1, ReportGoesOnce, ReportOnce DEF Answered

-----------------------------------------------------------------------------
\* Steps of the requests.

\* A request that moves on leaves the tables, the calls and the mail alone.
LEMMA RequestMoves ==
  ASSUME OnceInv, TypeOK', RequestsFit', NEW h \in Handler, NEW x, Busy(h),
         UNCHANGED <<candidate, callRow, vapi, mail, task>>,
         handler' = [handler EXCEPT ![h] = x],
         x.pc = "idle" \/ x.call = handler[h].call,
         \A c \in Candidate : c # handler[h].call.with => crm'[c] = crm[c],
         LET c == handler[h].call.with IN
           \/ candidate[c].lead /\ crm'[c] = crm[c]
           \/ crm'[c] = 0
           \/ crm'[c] <= 1 /\ (x.pc = "idle" \/ (x.pc = "save" /\ x.lead))
  PROVE  OnceInv'
<1> USE DEF OnceInv
<1>1. handler'[h] = x /\ \A g \in Handler : g # h => handler'[g] = handler[g]
  BY DEF TypeOK
<1>2. OpenIsCalling' /\ OneOpenCall' /\ RowsOfCalls' /\ Counted'
  BY DEF OpenIsCalling, OneOpenCall, RowsOfCalls, Counted, Open
<1>3. TasksFit' /\ ReviewHasSuccess'
  BY DEF TasksFit, Eligible, Open, CallsWith, ReviewHasSuccess
<1>4. MailIsOpen'
  BY <1>1 DEF MailIsOpen, Open, Busy
<1>5. OneRequest'
  BY <1>1 DEF OneRequest, Busy
<1>6. LeadOnce'
  <2> DEFINE k == handler[h].call
  <2>1. k \in Call /\ vapi[k] = "spoken" /\ Open(k) /\ k \notin mail
    BY DEF RequestsFit, RowsOfCalls, MailIsOpen, Open
  <2>2. \A g \in Handler : Busy(g) /\ handler[g].call = k => g = h
    BY DEF OneRequest
  <2>3. \A c \in Candidate : crm'[c] <= 1
    BY CallFacts, <2>1 DEF LeadOnce
  <2> HIDE DEF k
  <2>4. ASSUME NEW c \in Candidate, crm'[c] > 0, ~candidate[c].lead
        PROVE  \E j \in CallsWith(c) :
                 /\ Open(j) /\ vapi[j] = "spoken" /\ j \notin mail
                 /\ \A g \in Handler : Busy(g)' /\ handler'[g].call = j =>
                      handler'[g].pc = "save" /\ handler'[g].lead
    <3>1. CASE c = k.with
      <4>1. x.pc = "idle" \/ (x.pc = "save" /\ x.lead)
        BY <2>4, <3>1 DEF k
      <4>2. k \in CallsWith(c)
        BY <2>1, <3>1 DEF CallsWith
      <4>3. \A g \in Handler : Busy(g)' /\ handler'[g].call = k =>
              handler'[g].pc = "save" /\ handler'[g].lead
        BY <1>1, <2>2, <4>1 DEF Busy
      <4> QED  BY <2>1, <4>2, <4>3
    <3>2. CASE c # k.with
      <4>1. PICK j \in CallsWith(c) :
              /\ Open(j) /\ vapi[j] = "spoken" /\ j \notin mail
              /\ \A g \in Handler : Busy(g) /\ handler[g].call = j =>
                   handler[g].pc = "save" /\ handler[g].lead
        BY <2>4, <3>2 DEF LeadOnce, k
      <4>2. j # k
        BY <3>2 DEF CallsWith
      <4>3. \A g \in Handler : Busy(g)' /\ handler'[g].call = j => g # h
        BY <1>1, <4>2 DEF Busy, k
      <4> QED  BY <1>1, <4>1, <4>3 DEF Busy
    <3> QED  BY <3>1, <3>2
  <2> QED  BY <2>3, <2>4 DEF LeadOnce, Open, CallsWith
<1> QED  BY <1>2, <1>3, <1>4, <1>5, <1>6

\* A request that has not created a lead, for a candidate without one, is the
\* only one that may: KeyCRM has none.
LEMMA NoLeadYet ==
  ASSUME OnceInv, NEW h \in Handler, Busy(h), ~handler[h].lead,
         ~candidate[handler[h].call.with].lead
  PROVE  crm[handler[h].call.with] = 0
<1> DEFINE k == handler[h].call
<1>1. k \in Call /\ Open(k) /\ k.with \in Candidate
  BY CallFacts DEF OnceInv, RequestsFit, RowsOfCalls, Open
<1>2. crm[k.with] \in 0..MaxLeads
  BY <1>1 DEF OnceInv, TypeOK
<1>3. ASSUME crm[k.with] > 0 PROVE FALSE
  <2>1. PICK j \in CallsWith(k.with) :
          Open(j) /\ \A g \in Handler : Busy(g) /\ handler[g].call = j => handler[g].lead
    BY <1>1, <1>3 DEF OnceInv, LeadOnce
  <2>2. j = k
    BY <1>1, <2>1 DEF OnceInv, OneOpenCall, CallsWith
  <2> QED  BY <2>1, <2>2
<1> QED  BY <1>2, <1>3 DEF MaxLeads

\* The other requests still fit, the one that moved has to.
LEMMA OthersFit ==
  ASSUME OnceInv, NEW h \in Handler, NEW x, UNCHANGED <<candidate, callRow, vapi>>,
         handler' = [handler EXCEPT ![h] = x],
         x.pc # "idle" =>
           /\ Busy(h) /\ x.pc \in {"push", "save"}
           /\ x.call = handler[h].call /\ x.seen = handler[h].seen
           /\ x.seenCall = handler[h].seenCall
           /\ x.pc = "push" => ~x.seen.lead
           /\ x.lead => x.pc = "save"
           /\ x.pc = "push" \/ x.lead => x.qualified \/ Exhausted(x.seen.attempts)
  PROVE  RequestsFit'
<1>1. handler'[h] = x /\ \A g \in Handler : g # h => handler'[g] = handler[g]
  BY DEF OnceInv, TypeOK
<1> QED  BY <1>1 DEF OnceInv, RequestsFit, Busy

LEMMA JudgeOnce ==
  ASSUME OnceInv, NEW h \in Handler, TypeOK', Judge(h) PROVE OnceInv'
<1> DEFINE me == handler[h]
<1>1. PICK q \in BOOLEAN : handler' = [handler EXCEPT ![h] = [me EXCEPT !.qualified = q,
        !.pc = IF ShouldPush(me.seen, q) THEN "push" ELSE "save"]]
  BY DEF Judge, Verdicts
<1> DEFINE x == [me EXCEPT !.qualified = q,
                   !.pc = IF ShouldPush(me.seen, q) THEN "push" ELSE "save"]
<1>2. /\ Busy(h) /\ me.pc = "judge" /\ ~me.lead /\ me \in HandlerState
      /\ me.seen = candidate[me.call.with] /\ me.call.with \in Candidate
      /\ me.lead \in BOOLEAN
  BY CallFacts DEF Judge, Busy, OnceInv, RequestsFit, TypeOK, HandlerState
<1>3. /\ x.pc = IF ShouldPush(me.seen, q) THEN "push" ELSE "save"
      /\ x.call = me.call /\ x.seen = me.seen /\ x.seenCall = me.seenCall
      /\ x.lead = me.lead /\ x.qualified = q
  BY <1>2 DEF HandlerState
<1>4. handler' = [handler EXCEPT ![h] = x]
  BY <1>1
<1>5. UNCHANGED <<candidate, callRow, crm, vapi, mail, task>>
  BY DEF Judge
<1> HIDE DEF x
<1>6. RequestsFit'
  BY <1>2, <1>3, <1>4, <1>5, OthersFit DEF ShouldPush
<1>7. candidate[me.call.with].lead \/ crm[me.call.with] = 0
  BY <1>2, NoLeadYet
<1> QED  BY <1>2, <1>3, <1>4, <1>5, <1>6, <1>7, RequestMoves

LEMMA CreateLeadOnce ==
  ASSUME OnceInv, NEW h \in Handler, TypeOK', CreateLead(h) PROVE OnceInv'
<1> DEFINE me == handler[h]
           x  == [me EXCEPT !.pc = "save", !.lead = TRUE, !.tries = 0]
<1>1. /\ handler' = [handler EXCEPT ![h] = x] /\ LeadPosted(me.call.with)
      /\ UNCHANGED <<candidate, callRow, vapi, mail, task>>
  BY DEF CreateLead, Caller
<1>2. /\ Busy(h) /\ me.pc = "push" /\ ~me.lead /\ me \in HandlerState
      /\ me.seen = candidate[me.call.with] /\ me.call.with \in Candidate /\ ~me.seen.lead
      /\ me.qualified \/ Exhausted(me.seen.attempts)
  BY CallFacts DEF CreateLead, Busy, OnceInv, RequestsFit, TypeOK
<1>3. /\ x.pc = "save" /\ x.lead /\ x.call = me.call /\ x.seen = me.seen
      /\ x.seenCall = me.seenCall /\ x.qualified = me.qualified
  BY <1>2 DEF HandlerState
<1> HIDE DEF x
<1>4. RequestsFit'
  BY <1>1, <1>2, <1>3, OthersFit
<1>5. crm[me.call.with] = 0
  BY <1>2, NoLeadYet
<1>6. crm'[me.call.with] = 1 /\ \A c \in Candidate : c # me.call.with => crm'[c] = crm[c]
  BY <1>1, <1>2, <1>5 DEF LeadPosted, MaxLeads, OnceInv, TypeOK
<1>7. crm'[me.call.with] <= 1
  BY <1>6
<1> QED  BY <1>1, <1>2, <1>3, <1>4, <1>6, <1>7, RequestMoves

LEMMA LeadFailsOnce ==
  ASSUME OnceInv, NEW h \in Handler, TypeOK', LeadFails(h) PROVE OnceInv'
<1> DEFINE me == handler[h]
           x  == [me EXCEPT !.pc = "save", !.tries = 0]
<1>1. handler' = [handler EXCEPT ![h] = x] /\ UNCHANGED <<candidate, callRow, env, task>>
  BY DEF LeadFails
<1>2. /\ Busy(h) /\ me.pc = "push" /\ ~me.lead /\ me \in HandlerState
      /\ me.seen = candidate[me.call.with] /\ ~me.seen.lead
  BY DEF LeadFails, Busy, OnceInv, RequestsFit, TypeOK
<1>3. /\ x.pc = "save" /\ x.lead = me.lead /\ x.call = me.call /\ x.seen = me.seen
      /\ x.seenCall = me.seenCall /\ x.qualified = me.qualified
  BY <1>2 DEF HandlerState
<1> HIDE DEF x
<1>4. RequestsFit'
  BY <1>1, <1>2, <1>3, OthersFit DEF env
<1>5. crm[me.call.with] = 0
  BY <1>2, NoLeadYet
<1> QED  BY <1>1, <1>2, <1>3, <1>4, <1>5, RequestMoves DEF env

LEMMA HandlerAbortsOnce ==
  ASSUME OnceInv, NEW h \in Handler, TypeOK', HandlerAborts(h) PROVE OnceInv'
<1>1. /\ handler' = [handler EXCEPT ![h] = IdleHandler] /\ Busy(h)
      /\ UNCHANGED <<candidate, callRow, env, task>>
  BY DEF HandlerAborts, Busy
<1>2. IdleHandler.pc = "idle"
  BY DEF IdleHandler
<1>3. RequestsFit'
  BY <1>1, <1>2, OthersFit DEF env
<1>4. crm[handler[h].call.with] <= 1
  BY <1>1, CallFacts DEF OnceInv, RequestsFit, LeadOnce
<1> QED  BY <1>1, <1>2, <1>3, <1>4, RequestMoves DEF env

\* What the commit leaves: the row the request read is still there to be updated.
LEMMA VerdictSaved ==
  ASSUME OnceInv, NEW h \in Handler, SaveVerdict(h)
  PROVE  LET me == handler[h]  k == me.call  c == k.with IN
         /\ Busy(h) /\ me.pc = "save" /\ k \in Call /\ c \in Candidate
         /\ Open(k) /\ callRow[k] = "failed" /\ me.seen = candidate[c]
         /\ candidate[c].status = "calling"
         /\ callRow'[k] = CallResult(me.qualified)
         /\ \A j \in Call : j # k => callRow'[j] = callRow[j]
         /\ candidate' = [candidate EXCEPT ![c] = [candidate[c] EXCEPT
              !.status = VerdictStatus(me.qualified, candidate[c].attempts),
              !.lead = candidate[c].lead \/ me.lead]]
         /\ handler'[h] = IdleHandler /\ \A g \in Handler : g # h => handler'[g] = handler[g]
         /\ UNCHANGED <<env, task>>
<1> DEFINE me == handler[h]
           k  == me.call
           c  == k.with
<1>1. /\ Busy(h) /\ me.pc = "save" /\ k \in Call /\ c \in Candidate
      /\ Open(k) /\ callRow[k] = "failed" /\ me.seenCall = "failed" /\ me.seen = candidate[c]
  BY CallFacts DEF SaveVerdict, Busy, OnceInv, RequestsFit, RowsOfCalls, Open
<1>2. candidate[c].status = "calling"
  BY <1>1 DEF OnceInv, OpenIsCalling
<1>3. Flushed("failed", "failed", CallResult(me.qualified)) = CallResult(me.qualified)
  BY DEF Flushed, CallResult
<1>4. Flushed("calling", "calling", VerdictStatus(me.qualified, candidate[c].attempts))
        = VerdictStatus(me.qualified, candidate[c].attempts)
  BY DEF Flushed, VerdictStatus
<1>5. /\ callRow' = [callRow EXCEPT ![k] = CallResult(me.qualified)]
      /\ candidate' = [candidate EXCEPT ![c] = [candidate[c] EXCEPT
           !.status = VerdictStatus(me.qualified, candidate[c].attempts),
           !.lead = candidate[c].lead \/ me.lead]]
  <2>1. callRow' = [callRow EXCEPT ![k] = CallResult(me.qualified)]
    BY <1>1, <1>3 DEF SaveVerdict
  <2>2. candidate' = [candidate EXCEPT ![c] = [candidate[c] EXCEPT
          !.status = Flushed(candidate[c].status, me.seen.status,
                             VerdictStatus(me.qualified, me.seen.attempts)),
          !.lead = candidate[c].lead \/ me.lead]]
    BY <1>1 DEF SaveVerdict, OnceInv, TypeOK, Row
  <2> QED  BY <1>1, <1>2, <1>4, <2>1, <2>2
<1>6. UNCHANGED <<env, task>> /\ handler' = [handler EXCEPT ![h] = IdleHandler]
  BY DEF SaveVerdict
<1> QED  BY <1>1, <1>2, <1>5, <1>6 DEF OnceInv, TypeOK

LEMMA SaveVerdictOnce ==
  ASSUME OnceInv, NEW h \in Handler, TypeOK', SaveVerdict(h) PROVE OnceInv'
<1> USE DEF OnceInv
<1> DEFINE me == handler[h]
<1>0. PICK k \in Call : k = me.call
  BY VerdictSaved
<1> DEFINE c == k.with
<1>1. /\ Busy(h) /\ me.pc = "save" /\ c \in Candidate
      /\ Open(k) /\ callRow[k] = "failed" /\ candidate[c].status = "calling"
      /\ callRow'[k] \in {"success", "hangup"}
      /\ me.qualified => callRow'[k] = "success"
      /\ \A j \in Call : j # k => callRow'[j] = callRow[j]
  BY <1>0, VerdictSaved DEF CallResult
<1>2. /\ ~Busy(h)' /\ \A g \in Handler : g # h => handler'[g] = handler[g]
      /\ UNCHANGED <<env, task>>
  <2>1. handler'[h] = IdleHandler /\ IdleHandler.pc = "idle"
    BY VerdictSaved DEF IdleHandler
  <2>2. (\A g \in Handler : g # h => handler'[g] = handler[g]) /\ UNCHANGED <<env, task>>
    BY VerdictSaved
  <2> QED  BY <2>1, <2>2 DEF Busy
<1>3. /\ \A d \in Candidate : d # c => candidate'[d] = candidate[d]
      /\ candidate'[c].status = VerdictStatus(me.qualified, candidate[c].attempts)
      /\ candidate'[c].attempts = candidate[c].attempts
      /\ candidate'[c].lead = (candidate[c].lead \/ me.lead)
  <2>1. candidate' = [candidate EXCEPT ![c] = [candidate[c] EXCEPT
          !.status = VerdictStatus(me.qualified, candidate[c].attempts),
          !.lead = candidate[c].lead \/ me.lead]]
    BY <1>0, VerdictSaved
  <2>2. candidate \in [Candidate -> Row] /\ candidate[c] \in Row
    BY <1>1 DEF TypeOK
  <2> QED  BY <1>1, <2>1, <2>2 DEF Row
<1>4. \A j \in Call : Open(j) /\ j.with = c => j = k
  BY <1>1 DEF OneOpenCall
<1>5. ~me.lead /\ ~candidate[c].lead => crm[c] = 0
  BY <1>0, <1>1, NoLeadYet
<1>6. \A g \in Handler : Busy(g) /\ g # h =>
        handler[g].call \in Call /\ Open(handler[g].call) /\ handler[g].call # k
  BY <1>0, <1>1 DEF OneRequest, RequestsFit, RowsOfCalls, Open
<1>7. vapi[k] = "spoken" /\ k \notin mail
  BY <1>0, <1>1 DEF RequestsFit, MailIsOpen
<1> HIDE DEF me
<1>8. ~Open(k)' /\ \A j \in Call : j # k => (Open(j)' <=> Open(j))
  BY <1>1, <1>2 DEF Open, env
<1>9. OpenIsCalling'
  BY <1>3, <1>4, <1>8, CallFacts DEF OpenIsCalling
<1>10. OneOpenCall'
  <2> SUFFICES ASSUME NEW i \in Call, NEW j \in Call, Open(i)', Open(j)', i.with = j.with
               PROVE  i = j
    BY DEF OneOpenCall
  <2>1. Open(i) /\ Open(j)
    BY <1>8
  <2> QED  BY <2>1 DEF OneOpenCall
<1>11. RowsOfCalls'
  BY <1>1, <1>2, <1>7 DEF RowsOfCalls, env
<1>12. Counted'
  BY <1>2, <1>3, CallFacts DEF Counted, env
<1>13. TasksFit'
  <2>1. \A d \in Candidate : CallsWith(d)' = CallsWith(d) /\ \A j \in CallsWith(d) : j \in Call
    BY DEF CallsWith
  <2>2. k \in CallsWith(c) /\ \A d \in Candidate : d # c => k \notin CallsWith(d)
    BY <1>1 DEF CallsWith
  <2>3. \A s \in Slot : task[s][c].pc \notin {"selected", "commit", "dial", "store"}
    <3>1. ~Eligible(c)
      BY <1>1 DEF Eligible
    <3>2. \A j \in CallsWith(c) : Open(j) => j = k
      BY <1>4, <2>1 DEF CallsWith
    <3> QED  BY <1>1, <2>2, <3>1, <3>2 DEF TasksFit
  <2>4. ASSUME NEW s \in Slot, NEW d \in Candidate, d # c
        PROVE  /\ task'[s][d] = task[s][d] /\ candidate'[d] = candidate[d]
               /\ \A j \in CallsWith(d) : /\ vapi'[j] = vapi[j] /\ callRow'[j] = callRow[j]
                                          /\ (Open(j)' <=> Open(j))
    BY <1>1, <1>2, <1>3, <1>8, <2>1, <2>2, <2>4 DEF env
  <2> QED  BY <1>2, <2>1, <2>3, <2>4 DEF TasksFit, Eligible
<1>14. MailIsOpen'
  <2>1. \A j \in mail : j \in Call /\ j # k
    BY <1>7 DEF TypeOK
  <2> QED  BY <1>2, <1>8, <2>1 DEF MailIsOpen, env, Busy
<1>15. OneRequest'
  BY <1>2 DEF OneRequest, Busy
<1>16. RequestsFit'
  <2>1. ASSUME NEW g \in Handler, Busy(g)'
        PROVE  /\ Busy(g) /\ handler'[g] = handler[g]
               /\ callRow'[handler[g].call] = callRow[handler[g].call]
               /\ candidate'[handler[g].call.with] = candidate[handler[g].call.with]
    <3>1. g # h /\ handler'[g] = handler[g] /\ Busy(g)
      BY <1>2, <2>1 DEF Busy
    <3>2. handler[g].call \in Call /\ Open(handler[g].call) /\ handler[g].call # k
      BY <1>6, <3>1
    <3>3. handler[g].call.with \in Candidate /\ handler[g].call.with # c
      BY <1>4, <3>2, CallFacts
    <3> QED  BY <1>1, <1>3, <3>1, <3>2, <3>3
  <2> QED  BY <1>2, <2>1 DEF RequestsFit, env
<1>17. LeadOnce'
  <2>1. ASSUME NEW d \in Candidate, crm[d] > 0, ~candidate'[d].lead
        PROVE  \E j \in CallsWith(d) :
                 /\ Open(j)' /\ vapi[j] = "spoken" /\ j \notin mail
                 /\ \A g \in Handler : Busy(g)' /\ handler'[g].call = j =>
                      handler'[g].pc = "save" /\ handler'[g].lead
    <3>1. d # c
      <4>1. candidate[c].lead \/ me.lead => candidate'[c].lead
        BY <1>3
      <4>2. candidate[c].lead \/ me.lead \/ crm[c] = 0
        BY <1>5
      <4> QED  BY <2>1, <4>1, <4>2
    <3>2. PICK j \in CallsWith(d) :
            /\ Open(j) /\ vapi[j] = "spoken" /\ j \notin mail
            /\ \A g \in Handler : Busy(g) /\ handler[g].call = j =>
                 handler[g].pc = "save" /\ handler[g].lead
      BY <1>3, <2>1, <3>1 DEF LeadOnce
    <3>3. j \in Call /\ j # k
      BY <3>1 DEF CallsWith
    <3> QED  BY <1>2, <1>8, <3>2, <3>3 DEF Busy
  <2>2. crm' = crm /\ vapi' = vapi /\ mail' = mail
    BY <1>2 DEF env
  <2>3. \A d \in Candidate : crm[d] <= 1
    BY DEF LeadOnce
  <2>4. \A d \in Candidate : CallsWith(d)' = CallsWith(d)
    BY DEF CallsWith
  <2> QED  BY <2>1, <2>2, <2>3, <2>4 DEF LeadOnce
<1>18. ReviewHasSuccess'
  <2>1. ASSUME NEW d \in Candidate, candidate'[d].status = "manager_review"
        PROVE  \E j \in CallsWith(d) : callRow'[j] = "success"
    <3>1. CASE d = c
      <4>1. me.qualified
        BY <1>3, <2>1, <3>1 DEF VerdictStatus
      <4> QED  BY <1>1, <3>1, <4>1 DEF CallsWith
    <3>2. CASE d # c
      <4>1. PICK j \in CallsWith(d) : callRow[j] = "success"
        BY <1>3, <2>1, <3>2 DEF ReviewHasSuccess
      <4> QED  BY <1>1, <4>1 DEF CallsWith
    <3> QED  BY <3>1, <3>2
  <2> QED  BY <2>1 DEF ReviewHasSuccess, CallsWith
<1> QED  BY <1>9, <1>10, <1>11, <1>12, <1>13, <1>14, <1>15, <1>16, <1>17, <1>18

LEMMA HandlerOnce ==
  ASSUME OnceInv, OnceOnly, NEW h \in Handler, HandlerStep(h) \/ HandlerAborts(h)
  PROVE  OnceInv'
<1>1. HandlersHoldCalls
  BY DEF OnceInv, RequestsFit, Busy, HandlersHoldCalls
<1>2. TypeOK'
  BY <1>1, HandlerTyped DEF OnceInv
<1>3. ~LeadReplyLost(h)
  BY DEF LeadReplyLost, OnceOnly
<1>4. handler[h].pc \in {"idle", "judge", "push", "save"}
  BY DEF OnceInv, RequestsFit, Busy
<1>5. ~(FindCaller(h) \/ InsertCaller(h) \/ LoadCaller(h) \/ RegisterInbound(h) \/ ReloadInbound(h))
  BY <1>4 DEF FindCaller, InsertCaller, LoadCaller, RegisterInbound, ReloadInbound
<1> QED  BY <1>2, <1>3, <1>5, JudgeOnce, CreateLeadOnce, LeadFailsOnce, SaveVerdictOnce,
            HandlerAbortsOnce DEF HandlerStep

-----------------------------------------------------------------------------
LEMMA NextOnce == ASSUME OnceInv, OnceOnly, [Next]_vars PROVE OnceInv'
<1>1. CASE Next
  BY <1>1, IngestOnce, SlotOnce, TaskOnce, NetworkOnce, AnsweredOnce, HandlerOnce DEF Next
<1>2. CASE UNCHANGED vars
  <2>1. TypeOK' /\ TasksFit'
    BY <1>2 DEF vars, OnceInv, TypeOK, TasksFit, Eligible, Open, CallsWith
  <2> QED  BY <1>2, <2>1, TaskMoves DEF vars, env
<1> QED  BY <1>1, <1>2

\* The invariant holds in every reachable state.
LEMMA AlwaysOnce == ASSUME OnceOnly PROVE Spec => []OnceInv
<1>1. OnceInv /\ [Next]_vars => OnceInv'
  BY NextOnce
<1> QED  BY <1>1, InitOnce, PTL DEF Spec

\* "Keeps the limits on the number of attempts": however tasks and requests die and
\* reports are lost, nobody is dialled more often than call_max_attempts.
THEOREM DialledWithinLimit == ASSUME OnceOnly PROVE Spec => []DialLimit
<1>1. ASSUME OnceInv, NEW c \in Candidate PROVE Cardinality(DialsTo(c)) <= MaxAttempts
  <2> DEFINE D == DialsTo(c)
             f == [k \in D |-> k.n]
  <2>1. MaxAttempts \in Nat
    BY LimitsArePositive
  <2>2. \A k \in D : k \in OutCall /\ k.with = c /\ k.n \in 1..MaxAttempts
    <3>1. ASSUME NEW k \in D PROVE k \in OutCall /\ k.with = c /\ k.n \in 1..MaxAttempts
      <4>1. k \in OutCall /\ k.with = c /\ vapi[k] # "none"
        BY DEF DialsTo
      <4>2. k \in Call /\ k.n \in 1..MaxDials
        BY <4>1 DEF Call, OutCall
      <4>3. /\ k.n <= candidate[c].attempts /\ candidate[c].attempts <= MaxAttempts
            /\ candidate[c].attempts \in Nat
        BY <1>1, <4>1, <4>2 DEF OnceInv, Counted, TypeOK, Row, OutCall
      <4>4. k.n \in 1..MaxAttempts
        BY <2>1, <4>2, <4>3, BoundsAreNatural
      <4> QED  BY <4>1, <4>4
    <3> QED  BY <3>1
  <2>3. IsFiniteSet(1..MaxAttempts) /\ Cardinality(1..MaxAttempts) = MaxAttempts
    BY <2>1, FS_Interval
  <2>4. f \in [D -> 1..MaxAttempts]
    BY <2>2
  <2>5. ASSUME NEW j \in D, NEW k \in D, f[j] = f[k] PROVE j = k
    <3>1. /\ j \in OutCall /\ k \in OutCall /\ j.with = c /\ k.with = c /\ j.n = k.n
      BY <2>2, <2>5
    <3> QED  BY <3>1 DEF OutCall
  <2>6. f \in Injection(D, 1..MaxAttempts)
    BY <2>4, <2>5 DEF Injection, IsInjective
  <2> HIDE DEF D, f
  <2>7. Cardinality(D) <= Cardinality(1..MaxAttempts)
    BY <2>3, <2>6, FS_Injection
  <2> QED  BY <2>3, <2>7 DEF D
<1>2. OnceInv => DialLimit
  BY <1>1 DEF DialLimit
<1> QED  BY <1>2, AlwaysOnce, PTL

\* Nobody is rung while already on the phone with us, although the slot looks at
\* the status only and the task does not look again.
THEOREM OneCallAtATime == ASSUME OnceOnly PROVE Spec => []OneLiveCall
<1>1. ASSUME OnceInv, NEW c \in Candidate
      PROVE  Cardinality({k \in DialsTo(c) : vapi[k] = "live"}) <= 1
  <2> DEFINE L == {k \in DialsTo(c) : vapi[k] = "live"}
  <2>1. \A j, k \in L : j = k
    <3>1. \A k \in L : k \in Call /\ Open(k) /\ k.with = c
      BY <1>1 DEF DialsTo, Call, Open, OnceInv, RowsOfCalls
    <3> QED  BY <1>1, <3>1 DEF OnceInv, OneOpenCall
  <2>2. CASE L = {}
    BY <2>2, FS_EmptySet
  <2>3. CASE L # {}
    <3>1. PICK k \in L : TRUE
      BY <2>3
    <3>2. L = {k}
      BY <2>1, <3>1
    <3>3. Cardinality({k}) = 1
      BY FS_Singleton
    <3>4. Cardinality(L) = 1
      BY <3>2, <3>3
    <3> QED  BY <3>4
  <2> QED  BY <2>2, <2>3
<1>2. OnceInv => OneLiveCall
  BY <1>1 DEF OneLiveCall
<1> QED  BY <1>2, AlwaysOnce, PTL

\* One lead per phone number: the id that _finalize_call checked before the summary
\* is still the row's when it creates the lead, and a lead whose id was never
\* stored is not asked for again.
THEOREM OneLeadEach == ASSUME OnceOnly PROVE Spec => []SingleLead
<1>1. OnceInv => SingleLead
  BY DEF OnceInv, LeadOnce, SingleLead
<1> QED  BY <1>1, AlwaysOnce, PTL

\* Whoever awaits a manager has a call recorded as successful.
THEOREM ReviewsAreEarned == ASSUME OnceOnly PROVE Spec => []ReviewHasSuccess
<1>1. OnceInv => ReviewHasSuccess
  BY DEF OnceInv
<1> QED  BY <1>1, AlwaysOnce, PTL

-----------------------------------------------------------------------------
\* The refinement: each step moves a row as the funnel says, or no row.

\* The verdict is one of the funnel's: the request hands over, requeues or gives
\* up, and it brings a lead only where the funnel lets one in.
LEMMA VerdictIsFunnel ==
  ASSUME OnceInv, NEW h \in Handler, SaveVerdict(h)
  PROVE  \E c \in Candidate : Funnel!HandOver(c) \/ Funnel!Requeue(c) \/ Funnel!GiveUp(c)
<1> DEFINE me == handler[h]
<1>0. PICK c \in Candidate : c = me.call.with
  BY VerdictSaved
<1>1. /\ candidate[c].status = "calling" /\ me.seen = candidate[c] /\ Busy(h)
      /\ candidate' = [candidate EXCEPT ![c] = [candidate[c] EXCEPT
           !.status = VerdictStatus(me.qualified, candidate[c].attempts),
           !.lead = candidate[c].lead \/ me.lead]]
  BY <1>0, VerdictSaved
<1>2. /\ candidate \in [Candidate -> Row] /\ candidate[c] \in Row
      /\ me.lead \in BOOLEAN /\ me.qualified \in BOOLEAN
      /\ candidate[c].attempts \in Nat /\ candidate[c].attempts <= MaxAttempts
  BY DEF OnceInv, TypeOK, Row, HandlerState, Counted
<1>3. me.lead => me.qualified \/ Exhausted(candidate[c].attempts)
  BY <1>1 DEF OnceInv, RequestsFit
<1>4. CASE me.qualified
  <2>1. candidate' = [candidate EXCEPT ![c].status = "manager_review", ![c].lead = @ \/ me.lead]
    BY <1>1, <1>2, <1>4 DEF VerdictStatus, Row
  <2> QED  BY <1>1, <1>2, <2>1 DEF Funnel!HandOver
<1>5. CASE ~me.qualified /\ Exhausted(candidate[c].attempts)
  <2>1. candidate' = [candidate EXCEPT ![c].status = "unreachable", ![c].lead = @ \/ me.lead]
    BY <1>1, <1>2, <1>5 DEF VerdictStatus, Row
  <2>2. candidate[c].attempts = MaxAttempts
    BY <1>2, <1>5, LimitsArePositive DEF Exhausted
  <2> QED  BY <1>1, <1>2, <2>1, <2>2 DEF Funnel!GiveUp
<1>6. CASE ~me.qualified /\ ~Exhausted(candidate[c].attempts)
  <2>1. ~me.lead
    BY <1>3, <1>6
  <2>2. candidate' = [candidate EXCEPT ![c].status = "in_call_queue"]
    BY <1>1, <1>2, <1>6, <2>1 DEF VerdictStatus, Row
  <2>3. candidate[c].attempts < MaxAttempts
    BY <1>2, <1>6, LimitsArePositive DEF Exhausted
  <2> QED  BY <1>1, <2>2, <2>3 DEF Funnel!Requeue
<1> QED  BY <1>4, <1>5, <1>6

LEMMA CommitIsFunnel ==
  ASSUME OnceInv, NEW s \in Slot, NEW c \in Candidate, TaskCommits(s, c)
  PROVE  Funnel!Attempt(c)
<1>1. /\ Eligible(c)
      /\ candidate' = [candidate EXCEPT ![c] = [candidate[c] EXCEPT
                         !.status = "calling", !.attempts = candidate[c].attempts + 1]]
  BY CommitCounts
<1>2. candidate \in [Candidate -> Row]
  BY DEF OnceInv, TypeOK
<1>3. candidate' = [candidate EXCEPT ![c].status = "calling", ![c].attempts = @ + 1]
  BY <1>1, <1>2 DEF Row
<1> QED  BY <1>1, <1>3 DEF Funnel!Attempt, Eligible

LEMMA StepIsFunnel ==
  ASSUME OnceInv, [Next]_vars
  PROVE  Funnel!Next \/ candidate' = candidate
<1>1. ASSUME NEW c \in Candidate, Ingest(c) PROVE Funnel!Next
  BY <1>1 DEF Ingest, Funnel!Next, Funnel!Enter
<1>2. ASSUME NEW s \in Slot, SlotFires(s) PROVE candidate' = candidate
  BY <1>2 DEF SlotFires
<1>3. ASSUME NEW s \in Slot, NEW c \in Candidate, TaskStep(s, c) \/ TaskAborts(s, c)
      PROVE  Funnel!Next \/ candidate' = candidate
  <2>1. TaskCommits(s, c) => Funnel!Next
    BY CommitIsFunnel DEF Funnel!Next
  <2> QED  BY <1>3, <2>1 DEF TaskStep, TaskLoads, DialSucceeds, DialReplyLost, DialFails,
                             TaskStores, TaskAborts
<1>4. ASSUME NEW k \in Call,
             RingsUs(k) \/ CallEnds(k) \/ ReportLost(k) \/ Redelivered(k) \/ Answered(k)
      PROVE  candidate' = candidate
  BY <1>4 DEF RingsUs, CallEnds, ReportLost, Redelivered, Answered, ReportIgnored,
              ReportOfOutbound, ReportOfInbound
<1>5. ASSUME NEW h \in Handler, HandlerStep(h) \/ HandlerAborts(h)
      PROVE  Funnel!Next \/ candidate' = candidate
  <2>1. SaveVerdict(h) => Funnel!Next
    BY VerdictIsFunnel DEF Funnel!Next
  <2>2. ~InsertCaller(h) /\ ~RegisterInbound(h)
    BY DEF InsertCaller, RegisterInbound, OnceInv, RequestsFit, Busy
  <2> QED  BY <1>5, <2>1, <2>2 DEF HandlerStep, FindCaller, LoadCaller, ReloadInbound, Judge,
             CreateLead, LeadReplyLost, LeadFails, HandlerAborts
<1>6. CASE UNCHANGED vars
  BY <1>6 DEF vars
<1> QED  BY <1>1, <1>2, <1>3, <1>4, <1>5, <1>6 DEF Next

\* The pipeline implements the funnel: each row enters once, is called from the
\* queue only, and leaves a call by its verdict, whatever dies or gets lost.
THEOREM ImplementsFunnel == ASSUME OnceOnly PROVE Spec => FunnelSpec
<1>1. Init => Funnel!Init
  BY DEF Init, Funnel!Init, NoRow, Funnel!NoRow
<1>2. OnceInv /\ [Next]_vars => [Funnel!Next]_candidate
  BY StepIsFunnel
<1>3. Spec => Funnel!Spec
  BY <1>1, <1>2, AlwaysOnce, PTL DEF Spec, Funnel!Spec
<1> QED  BY <1>3 DEF FunnelSpec

\* A step leaves resolved candidates alone and takes no attempt back.
VerdictStands ==
  \A c \in Candidate :
    /\ candidate[c].status \in Resolved => candidate'[c] = candidate[c]
    /\ candidate'[c].attempts >= candidate[c].attempts

\* What the funnel gives a manager: a candidate handed over or given up is never
\* called or judged again, though requests are still at work, and the attempts
\* counted against call_max_attempts never fall (orchestrator.py:56-57, 273-281).
THEOREM VerdictsAreFinal == ASSUME OnceOnly PROVE Spec => [][VerdictStands]_candidate
<1>1. ASSUME OnceInv, Funnel!Next PROVE VerdictStands
  <2>1. /\ candidate \in [Candidate -> Row]
        /\ \A c \in Candidate : candidate[c] \in Row /\ candidate[c].attempts \in Nat
    BY <1>1 DEF OnceInv, TypeOK, Row
  <2> PICK c \in Candidate : \/ Funnel!Enter(c) \/ Funnel!Attempt(c) \/ Funnel!HandOver(c)
                             \/ Funnel!Requeue(c) \/ Funnel!GiveUp(c)
    BY <1>1 DEF Funnel!Next
  <2>2. /\ candidate[c].status \notin Resolved
        /\ \A d \in Candidate \ {c} : candidate'[d] = candidate[d]
    BY <2>1 DEF Resolved, Funnel!Enter, Funnel!Attempt, Funnel!HandOver, Funnel!Requeue,
                Funnel!GiveUp
  <2>3. candidate'[c].attempts >= candidate[c].attempts
    BY <2>1 DEF Row, Funnel!Enter, Funnel!Attempt, Funnel!HandOver, Funnel!Requeue,
                Funnel!GiveUp
  <2> QED  BY <2>1, <2>2, <2>3 DEF VerdictStands
<1>2. OnceInv /\ [Next]_vars => [VerdictStands]_candidate
  BY <1>1, StepIsFunnel
<1> QED  BY <1>2, AlwaysOnce, PTL DEF Spec

-----------------------------------------------------------------------------
(***************************************************************************)
(* Nobody is forgotten, where reports also arrive in time, Vapi takes every  *)
(* call and nothing dies: what is left to go wrong are candidates who do not *)
(* pick up, a KeyCRM that refuses, and slots that overlap.                   *)
(*                                                                           *)
(* The candidate is handed on from the slot to a task, to a call, to its     *)
(* report, to a request and back to the queue.  No step holds a candidate    *)
(* longer than until the next has them: that is what has to be shown.        *)
(***************************************************************************)
InTime ==
  /\ OnceOnly
  /\ Faults \cap {"dial_fails", "early_report", "lost_report", "abort"} = {}

\* Who is queued has an attempt left, so the next slot may select them.
QueuedIsEligible ==
  \A c \in Candidate :
    candidate[c].status \in {"absent", "new_resume", "in_call_queue"} =>
      candidate[c].attempts < MaxAttempts

\* The call still has to end, to be reported or to be judged; or it was silent.
Pending(k) ==
  \/ vapi[k] \in {"live", "silent"}
  \/ k \in mail
  \/ \E h \in Handler : Busy(h) /\ handler[h].call = k

InHand(c) ==
  \/ \E s \in Slot : task[s][c].pc = "dial"
  \/ \E k \in CallsWith(c) : Pending(k)

CallingIsInHand ==
  \A c \in Candidate : candidate[c].status = "calling" => InHand(c)

\* A call is stored before it ends, and until then its task is about to.
StoredInTime ==
  \A k \in Call :
    /\ vapi[k] = "live" => callRow[k] # "none" \/ BeingStored(k)
    /\ vapi[k] \in {"silent", "spoken"} => callRow[k] # "none"

KeptInv == QueuedIsEligible /\ CallingIsInHand /\ StoredInTime

LEMMA KeptInit == Init => KeptInv
<1> SUFFICES ASSUME Init PROVE KeptInv
  OBVIOUS
<1>1. \A c \in Candidate : candidate[c].status = "absent" /\ candidate[c].attempts = 0
  BY DEF Init, NoRow
<1>2. \A k \in Call : vapi[k] = "none"
  BY DEF Init
<1> QED  BY <1>1, <1>2, LimitsArePositive DEF KeptInv, QueuedIsEligible, CallingIsInHand, StoredInTime

\* Where nothing that is pending is given up, calling stays in hand.
LEMMA StaysInHand ==
  ASSUME CallingIsInHand,
         \A c \in Candidate : candidate'[c].status = "calling" => candidate[c].status = "calling",
         \A s \in Slot, c \in Candidate : task[s][c].pc = "dial" => task'[s][c].pc = "dial",
         \A k \in Call : Pending(k) => Pending(k)'
  PROVE  CallingIsInHand'
<1> SUFFICES ASSUME NEW c \in Candidate, candidate'[c].status = "calling" PROVE InHand(c)'
  BY DEF CallingIsInHand
<1>1. InHand(c)
  BY DEF CallingIsInHand
<1>2. CASE \E s \in Slot : task[s][c].pc = "dial"
  BY <1>2 DEF InHand
<1>3. CASE \E k \in CallsWith(c) : Pending(k)
  <2>1. PICK k \in CallsWith(c) : Pending(k)
    BY <1>3
  <2>2. k \in CallsWith(c)' /\ Pending(k)'
    BY <2>1 DEF CallsWith
  <2> QED  BY <2>2 DEF InHand
<1> QED  BY <1>1, <1>2, <1>3 DEF InHand

LEMMA IngestHands ==
  ASSUME TypeOK, KeptInv, NEW c \in Candidate, Ingest(c) PROVE KeptInv'
<1>1. UNCHANGED <<callRow, env, handler, task>> /\ candidate[c].status = "absent"
  BY DEF Ingest
<1>2. /\ \A d \in Candidate : d # c => candidate'[d] = candidate[d]
      /\ candidate'[c].status = "new_resume" /\ candidate'[c].attempts = candidate[c].attempts
  BY DEF Ingest, TypeOK, Row
<1>3. QueuedIsEligible'
  BY <1>1, <1>2 DEF KeptInv, QueuedIsEligible
<1>4. CallingIsInHand'
  <2>1. \A k \in Call : Pending(k) => Pending(k)'
    BY <1>1 DEF Pending, Busy, env
  <2> QED  BY <1>1, <1>2, <2>1, StaysInHand DEF KeptInv
<1>5. StoredInTime'
  BY <1>1 DEF KeptInv, StoredInTime, BeingStored, env
<1> QED  BY <1>3, <1>4, <1>5 DEF KeptInv

\* A slot takes hold of nobody whom a task is about to dial or to store.
LEMMA SlotHands ==
  ASSUME TypeOK, KeptInv, NEW s \in Slot, SlotFires(s) PROVE KeptInv'
<1>1. UNCHANGED <<candidate, callRow, env, handler>>
  BY DEF SlotFires
<1>2. \A r \in Slot, c \in Candidate : task'[r][c] = task[r][c] \/ task[r][c].pc = "idle"
  BY DEF SlotFires, TypeOK
<1>3. QueuedIsEligible'
  BY <1>1 DEF KeptInv, QueuedIsEligible
<1>4. CallingIsInHand'
  <2>1. \A k \in Call : Pending(k) => Pending(k)'
    BY <1>1 DEF Pending, Busy, env
  <2> QED  BY <1>1, <1>2, <2>1, StaysInHand DEF KeptInv
<1>5. StoredInTime'
  <2>1. \A k \in Call : BeingStored(k) => BeingStored(k)'
    BY <1>2, CallFacts DEF BeingStored
  <2> QED  BY <1>1, <2>1 DEF KeptInv, StoredInTime, env
<1> QED  BY <1>3, <1>4, <1>5 DEF KeptInv

LEMMA TaskLoadsHands ==
  ASSUME TypeOK, KeptInv, NEW s \in Slot, NEW c \in Candidate, TaskLoads(s, c)
  PROVE  KeptInv'
<1>1. UNCHANGED <<candidate, callRow, env, handler>>
  BY DEF TaskLoads
<1>2. \A r \in Slot, d \in Candidate : task'[r][d] = task[r][d] \/ task[r][d].pc = "selected"
  BY DEF TaskLoads, TypeOK
<1>3. QueuedIsEligible'
  BY <1>1 DEF KeptInv, QueuedIsEligible
<1>4. CallingIsInHand'
  <2>1. \A k \in Call : Pending(k) => Pending(k)'
    BY <1>1 DEF Pending, Busy, env
  <2> QED  BY <1>1, <1>2, <2>1, StaysInHand DEF KeptInv
<1>5. StoredInTime'
  <2>1. \A k \in Call : BeingStored(k) => BeingStored(k)'
    BY <1>2, CallFacts DEF BeingStored
  <2> QED  BY <1>1, <2>1 DEF KeptInv, StoredInTime, env
<1> QED  BY <1>3, <1>4, <1>5 DEF KeptInv

\* From the queue to the task that is about to dial.
LEMMA TaskCommitsHands ==
  ASSUME OnceInv, KeptInv, NEW s \in Slot, NEW c \in Candidate, TaskCommits(s, c)
  PROVE  KeptInv'
<1>1. UNCHANGED <<callRow, env, handler>> /\ task[s][c].pc = "commit"
  BY DEF TaskCommits
<1>2. /\ \A d \in Candidate : d # c => candidate'[d] = candidate[d]
      /\ candidate'[c].status = "calling"
  <2>1. candidate \in [Candidate -> Row] /\ candidate[c] \in Row
    BY DEF OnceInv, TypeOK
  <2>2. candidate' = [candidate EXCEPT ![c] = [candidate[c] EXCEPT
                        !.status = "calling", !.attempts = candidate[c].attempts + 1]]
    BY CommitCounts
  <2> QED  BY <2>1, <2>2 DEF Row
<1>3. /\ task'[s][c].pc = "dial"
      /\ \A r \in Slot, d \in Candidate : task'[r][d] = task[r][d] \/ (r = s /\ d = c)
  BY DEF TaskCommits, OnceInv, TypeOK, IdleTask
<1>4. QueuedIsEligible'
  BY <1>2 DEF KeptInv, QueuedIsEligible
<1>5. CallingIsInHand'
  <2> SUFFICES ASSUME NEW d \in Candidate, candidate'[d].status = "calling" PROVE InHand(d)'
    BY DEF CallingIsInHand
  <2>1. CASE d = c
    BY <1>3, <2>1 DEF InHand
  <2>2. CASE d # c
    <3>1. InHand(d)
      BY <1>2, <2>2 DEF KeptInv, CallingIsInHand
    <3>2. \A r \in Slot : task'[r][d] = task[r][d]
      BY <1>3, <2>2
    <3>3. \A k \in CallsWith(d) : Pending(k) => Pending(k)'
      BY <1>1 DEF Pending, Busy, env
    <3> QED  BY <3>1, <3>2, <3>3 DEF InHand, CallsWith
  <2> QED  BY <2>1, <2>2
<1>6. StoredInTime'
  <2>1. \A k \in Call : BeingStored(k) => BeingStored(k)'
    BY <1>1, <1>3, CallFacts DEF BeingStored
  <2> QED  BY <1>1, <2>1 DEF KeptInv, StoredInTime, env
<1> QED  BY <1>4, <1>5, <1>6 DEF KeptInv

\* From the task to the call.
LEMMA DialHands ==
  ASSUME TypeOK, KeptInv, OnceOnly, NEW s \in Slot, NEW c \in Candidate, DialSucceeds(s, c)
  PROVE  KeptInv'
<1>1. PICK k \in OutCall : /\ k.with = c /\ Places(k)
                           /\ task' = [task EXCEPT ![s][c] = [IdleTask EXCEPT !.pc = "store", !.call = k]]
  BY DEF DialSucceeds
<1>2. UNCHANGED <<candidate, callRow, crm, mail, handler>> /\ task[s][c].pc = "dial"
  BY DEF DialSucceeds
<1>3. /\ k \in Call /\ vapi[k] = "none" /\ vapi'[k] = "live"
      /\ \A j \in Call : j # k => vapi'[j] = vapi[j]
  BY <1>1, CallFacts DEF Places, TypeOK
<1>4. /\ task'[s][c].pc = "store" /\ task'[s][c].call = k
      /\ \A r \in Slot, d \in Candidate : task'[r][d] = task[r][d] \/ (r = s /\ d = c)
  BY <1>1 DEF TypeOK, IdleTask
<1>5. QueuedIsEligible'
  BY <1>2 DEF KeptInv, QueuedIsEligible
<1>6. CallingIsInHand'
  <2> SUFFICES ASSUME NEW d \in Candidate, candidate'[d].status = "calling" PROVE InHand(d)'
    BY DEF CallingIsInHand
  <2>1. CASE d = c
    <3>1. k \in CallsWith(d)' /\ Pending(k)'
      BY <1>1, <1>3, <2>1 DEF CallsWith, Pending
    <3> QED  BY <3>1 DEF InHand
  <2>2. CASE d # c
    <3>1. InHand(d)
      BY <1>2 DEF KeptInv, CallingIsInHand
    <3>2. \A r \in Slot : task'[r][d] = task[r][d]
      BY <1>4, <2>2
    <3>3. \A j \in CallsWith(d) : j \in Call /\ j # k
      BY <1>1, <2>2 DEF CallsWith
    <3>4. \A j \in CallsWith(d) : Pending(j) => Pending(j)'
      BY <1>2, <1>3, <3>3 DEF Pending, Busy
    <3> QED  BY <3>1, <3>2, <3>4 DEF InHand, CallsWith
  <2> QED  BY <2>1, <2>2
<1>7. StoredInTime'
  <2>1. BeingStored(k)'
    BY <1>1, <1>4 DEF BeingStored
  <2>2. ASSUME NEW j \in Call, BeingStored(j) PROVE BeingStored(j)'
    <3>1. PICK r \in Slot : task[r][j.with].pc = "store" /\ task[r][j.with].call = j
      BY <2>2 DEF BeingStored
    <3>2. task'[r][j.with] = task[r][j.with]
      BY <1>2, <1>4, <3>1, CallFacts
    <3> QED  BY <3>1, <3>2 DEF BeingStored
  <2> QED  BY <1>2, <1>3, <2>1, <2>2 DEF KeptInv, StoredInTime
<1> QED  BY <1>5, <1>6, <1>7 DEF KeptInv

LEMMA TaskStoresHands ==
  ASSUME OnceInv, KeptInv, NEW s \in Slot, NEW c \in Candidate, TaskStores(s, c)
  PROVE  KeptInv'
<1>1. PICK k \in CallsWith(c) : k = task[s][c].call
  BY DEF TaskStores, OnceInv, TasksFit
<1>2. /\ UNCHANGED <<candidate, env, handler>> /\ task[s][c].pc = "store" /\ k \in Call
      /\ callRow'[k] = "failed" /\ \A j \in Call : j # k => callRow'[j] = callRow[j]
      /\ \A r \in Slot, d \in Candidate : task'[r][d] = task[r][d] \/ (r = s /\ d = c)
  BY <1>1 DEF TaskStores, OnceInv, TypeOK, CallsWith
<1>3. QueuedIsEligible'
  BY <1>2 DEF KeptInv, QueuedIsEligible
<1>4. CallingIsInHand'
  <2>1. \A j \in Call : Pending(j) => Pending(j)'
    BY <1>2 DEF Pending, Busy, env
  <2> QED  BY <1>2, <2>1, StaysInHand DEF KeptInv
<1>5. StoredInTime'
  <2>1. ASSUME NEW j \in Call, j # k, BeingStored(j) PROVE BeingStored(j)'
    <3>1. PICK r \in Slot : task[r][j.with].pc = "store" /\ task[r][j.with].call = j
      BY <2>1 DEF BeingStored
    <3>2. task'[r][j.with] = task[r][j.with]
      BY <1>1, <1>2, <2>1, <3>1, CallFacts
    <3> QED  BY <3>1, <3>2 DEF BeingStored
  <2> QED  BY <1>2, <2>1 DEF KeptInv, StoredInTime, env
<1> QED  BY <1>3, <1>4, <1>5 DEF KeptInv

LEMMA TaskHands ==
  ASSUME OnceInv, InTime, KeptInv, NEW s \in Slot, NEW c \in Candidate,
         TaskStep(s, c) \/ TaskAborts(s, c)
  PROVE  KeptInv'
<1>1. ~DialReplyLost(s, c) /\ ~DialFails(s, c) /\ ~TaskAborts(s, c)
  BY DEF DialReplyLost, DialFails, TaskAborts, InTime, OnceOnly
<1>2. TypeOK /\ OnceOnly
  BY DEF OnceInv, InTime
<1> QED  BY <1>1, <1>2, TaskLoadsHands, TaskCommitsHands, DialHands, TaskStoresHands
         DEF TaskStep

\* From the call to its report: the task has stored the call by then.
LEMMA CallEndsHands ==
  ASSUME TypeOK, InTime, KeptInv, NEW k \in Call, CallEnds(k) PROVE KeptInv'
<1>1. /\ UNCHANGED <<candidate, callRow, crm, task, handler>>
      /\ vapi[k] = "live" /\ vapi'[k] \in {"silent", "spoken"}
      /\ \A j \in Call : j # k => vapi'[j] = vapi[j]
      /\ mail' = mail \cup {k} /\ ~BeingStored(k)
  BY DEF CallEnds, TypeOK, InTime
<1>2. QueuedIsEligible'
  BY <1>1 DEF KeptInv, QueuedIsEligible
<1>3. CallingIsInHand'
  <2>1. \A j \in Call : Pending(j) => Pending(j)'
    BY <1>1 DEF Pending, Busy
  <2> QED  BY <1>1, <2>1, StaysInHand DEF KeptInv
<1>4. StoredInTime'
  BY <1>1 DEF KeptInv, StoredInTime, BeingStored
<1> QED  BY <1>2, <1>3, <1>4 DEF KeptInv

LEMMA NetworkHands ==
  ASSUME TypeOK, InTime, KeptInv, NEW k \in Call,
         RingsUs(k) \/ CallEnds(k) \/ ReportLost(k) \/ Redelivered(k)
  PROVE  KeptInv'
<1>1. ~RingsUs(k)
  BY OurCalls DEF RingsUs, InTime
<1>2. ~Redelivered(k) /\ ~ReportLost(k)
  BY DEF Redelivered, ReportLost, InTime, OnceOnly
<1> QED  BY <1>1, <1>2, CallEndsHands

\* From the report to a request; only the report of a silent call is dropped.
LEMMA AnsweredHands ==
  ASSUME OnceInv, InTime, KeptInv, NEW k \in Call, Answered(k) PROVE KeptInv'
<1>1. OnceOnly /\ InCall = {}
  BY OurCalls DEF InTime
<1>2. UNCHANGED <<candidate, callRow, crm, vapi, task>> /\ mail' = mail \ {k} /\ k \in mail
  BY DEF Answered, ReportIgnored, ReportOfOutbound, ReportOfInbound
<1>3. QueuedIsEligible' /\ StoredInTime'
  BY <1>2 DEF KeptInv, QueuedIsEligible, StoredInTime, BeingStored
<1>4. \A j \in Call : Pending(j) => Pending(j)'
  <2>1. CASE ReportIgnored(k)
    <3>1. vapi[k] \in {"silent", "spoken"}
      BY <1>2 DEF OnceInv, MailIsOpen
    <3>2. vapi[k] = "silent"
      BY <1>1, <2>1, <3>1 DEF ReportIgnored, HasTranscript, KeptInv, StoredInTime
    <3> QED  BY <1>2, <2>1, <3>2 DEF ReportIgnored, Pending, Busy
  <2>2. ASSUME NEW h \in Handler, ReportOfOutbound(h, k) PROVE \A j \in Call : Pending(j) => Pending(j)'
    <3>1. /\ handler'[h].call = k /\ handler'[h].pc = "judge" /\ handler[h].pc = "idle"
          /\ \A g \in Handler : g # h => handler'[g] = handler[g]
      BY <2>2 DEF ReportOfOutbound, OnceInv, TypeOK, IdleHandler
    <3>2. Pending(k)'
      BY <3>1 DEF Pending, Busy
    <3>3. \A j \in Call : j # k /\ Pending(j) => Pending(j)'
      BY <1>2, <3>1 DEF Pending, Busy
    <3> QED  BY <3>2, <3>3
  <2> QED  BY <1>1, <2>1, <2>2 DEF Answered, ReportOfInbound
<1> QED  BY <1>2, <1>3, <1>4, StaysInHand DEF KeptInv

\* A request holds on to its call until the verdict is stored.
LEMMA RequestHoldsOn ==
  ASSUME OnceInv, KeptInv, NEW h \in Handler, Judge(h) \/ CreateLead(h) \/ LeadFails(h)
  PROVE  KeptInv'
<1>1. UNCHANGED <<candidate, callRow, vapi, mail, task>>
  BY DEF Judge, CreateLead, LeadFails, env
<1>2. PICK x \in HandlerState : handler' = [handler EXCEPT ![h] = x] /\ x.pc # "idle" /\ x.call = handler[h].call
  <2>1. handler[h] \in HandlerState
    BY DEF OnceInv, TypeOK
  <2>2. CASE Judge(h)
    <3>1. PICK q \in BOOLEAN : handler' = [handler EXCEPT ![h] = [handler[h] EXCEPT !.qualified = q,
            !.pc = IF ShouldPush(handler[h].seen, q) THEN "push" ELSE "save"]]
      BY <2>2 DEF Judge, Verdicts
    <3>2. (IF ShouldPush(handler[h].seen, q) THEN "push" ELSE "save") \in HandlerPC \ {"idle"}
      BY DEF HandlerPC
    <3> DEFINE pc == IF ShouldPush(handler[h].seen, q) THEN "push" ELSE "save"
               x  == [handler[h] EXCEPT !.qualified = q, !.pc = pc]
    <3> HIDE DEF pc
    <3>3. pc \in HandlerPC /\ pc # "idle"
      BY <3>2 DEF pc
    <3>4. x \in HandlerState /\ x.pc # "idle" /\ x.call = handler[h].call
      BY <2>1, <3>3, HandlerUpdated DEF HandlerState
    <3> QED  BY <3>1, <3>4 DEF pc
  <2>3. CASE CreateLead(h)
    <3> DEFINE x == [handler[h] EXCEPT !.pc = "save", !.lead = TRUE, !.tries = 0]
    <3>1. x \in HandlerState
      BY <2>1, "save" \in HandlerPC, HandlerUpdated DEF HandlerPC
    <3>2. x.pc = "save" /\ x.call = handler[h].call
      BY <2>1 DEF HandlerState
    <3> QED  BY <2>3, <3>1, <3>2 DEF CreateLead
  <2>4. CASE LeadFails(h)
    <3> DEFINE x == [handler[h] EXCEPT !.pc = "save", !.tries = 0]
    <3>1. x \in HandlerState
      BY <2>1, "save" \in HandlerPC, HandlerUpdated DEF HandlerPC
    <3>2. x.pc = "save" /\ x.call = handler[h].call
      BY <2>1 DEF HandlerState
    <3> QED  BY <2>4, <3>1, <3>2 DEF LeadFails
  <2> QED  BY <2>2, <2>3, <2>4
<1>3. handler'[h] = x /\ \A g \in Handler : g # h => handler'[g] = handler[g]
  BY <1>2 DEF OnceInv, TypeOK
<1>4. \A j \in Call : Pending(j) => Pending(j)'
  BY <1>1, <1>2, <1>3 DEF Pending, Busy
<1>5. QueuedIsEligible' /\ StoredInTime'
  BY <1>1 DEF KeptInv, QueuedIsEligible, StoredInTime, BeingStored
<1> QED  BY <1>1, <1>4, <1>5, StaysInHand DEF KeptInv

\* And from the request to a manager, to the given up, or back to the queue with
\* an attempt left.
LEMMA SaveVerdictHands ==
  ASSUME OnceInv, KeptInv, NEW h \in Handler, SaveVerdict(h) PROVE KeptInv'
<1>0. PICK k \in Call : k = handler[h].call
  BY VerdictSaved
<1>1. PICK c \in Candidate : c = k.with
  BY CallFacts
<1>2. PICK q \in BOOLEAN : q = handler[h].qualified
  BY DEF OnceInv, TypeOK, HandlerState
<1>3. /\ callRow[k] = "failed" /\ callRow'[k] = CallResult(q)
      /\ \A j \in Call : j # k => callRow'[j] = callRow[j]
      /\ \A g \in Handler : g # h => handler'[g] = handler[g]
      /\ UNCHANGED <<env, task>>
  BY <1>0, <1>2, VerdictSaved
<1>4. /\ \A d \in Candidate : d # c => candidate'[d] = candidate[d]
      /\ candidate'[c].status = VerdictStatus(q, candidate[c].attempts)
      /\ candidate'[c].attempts = candidate[c].attempts
  <2>1. candidate' = [candidate EXCEPT ![c] = [candidate[c] EXCEPT
          !.status = VerdictStatus(q, candidate[c].attempts),
          !.lead = candidate[c].lead \/ handler[h].lead]]
    BY <1>0, <1>1, <1>2, VerdictSaved
  <2>2. candidate \in [Candidate -> Row] /\ candidate[c] \in Row
    BY DEF OnceInv, TypeOK
  <2> QED  BY <2>1, <2>2 DEF Row
<1>5. QueuedIsEligible'
  <2>1. candidate'[c].status \in {"absent", "new_resume", "in_call_queue"} => candidate[c].attempts < MaxAttempts
    <3>1. candidate[c].attempts \in Nat /\ MaxAttempts \in Nat
      BY LimitsArePositive DEF OnceInv, TypeOK, Row
    <3> QED  BY <1>4, <3>1 DEF VerdictStatus, Exhausted
  <2> QED  BY <1>4, <2>1 DEF KeptInv, QueuedIsEligible
<1>6. CallingIsInHand'
  <2> SUFFICES ASSUME NEW d \in Candidate, candidate'[d].status = "calling" PROVE InHand(d)'
    BY DEF CallingIsInHand
  <2>1. d # c
    BY <1>4 DEF VerdictStatus
  <2>2. InHand(d)
    BY <1>4, <2>1 DEF KeptInv, CallingIsInHand
  <2>3. \A j \in CallsWith(d) : j # k
    BY <1>1, <2>1 DEF CallsWith
  <2>4. \A j \in CallsWith(d) : Pending(j) => Pending(j)'
    BY <1>0, <1>3, <2>3 DEF Pending, Busy, env
  <2> QED  BY <1>3, <2>2, <2>4 DEF InHand, CallsWith
<1>7. StoredInTime'
  BY <1>3 DEF KeptInv, StoredInTime, BeingStored, CallResult, env
<1> QED  BY <1>5, <1>6, <1>7 DEF KeptInv

LEMMA HandlerHands ==
  ASSUME OnceInv, InTime, KeptInv, NEW h \in Handler, HandlerStep(h) \/ HandlerAborts(h)
  PROVE  KeptInv'
<1>1. ~LeadReplyLost(h) /\ ~HandlerAborts(h)
  BY DEF LeadReplyLost, HandlerAborts, InTime, OnceOnly
<1>2. handler[h].pc \in {"idle", "judge", "push", "save"}
  BY DEF OnceInv, RequestsFit, Busy
<1>3. ~(FindCaller(h) \/ InsertCaller(h) \/ LoadCaller(h) \/ RegisterInbound(h) \/ ReloadInbound(h))
  BY <1>2 DEF FindCaller, InsertCaller, LoadCaller, RegisterInbound, ReloadInbound
<1> QED  BY <1>1, <1>3, RequestHoldsOn, SaveVerdictHands DEF HandlerStep

\* Whoever entered is queued with an attempt left, in somebody's hands, resolved, or
\* did not pick up: between the slot, the call and the verdict nobody is dropped.
THEOREM NobodyDropsOut == ASSUME InTime PROVE Spec => []NobodyForgotten
<1>1. ASSUME OnceInv, KeptInv, [Next]_vars PROVE KeptInv'
  <2>1. CASE Next
    <3>1. TypeOK
      BY <1>1 DEF OnceInv
    <3> QED  BY <1>1, <2>1, <3>1, IngestHands, SlotHands, TaskHands, NetworkHands, AnsweredHands,
                HandlerHands DEF Next
  <2>2. CASE UNCHANGED vars
    BY <1>1, <2>2 DEF vars, KeptInv, QueuedIsEligible, CallingIsInHand, StoredInTime, InHand,
       Pending, Busy, BeingStored, CallsWith
  <2> QED  BY <1>1, <2>1, <2>2
<1>2. OnceInv /\ KeptInv => NobodyForgotten
  <2> SUFFICES ASSUME OnceInv, KeptInv, NEW c \in Candidate,
                      candidate[c].status \notin {"absent", "manager_review", "unreachable"},
                      ~Eligible(c), \A k \in CallsWith(c) : vapi[k] # "silent"
               PROVE  UnderWay(c)
    BY DEF NobodyForgotten, DidNotPickUp
  <2>1. candidate[c].status = "calling"
    BY DEF OnceInv, TypeOK, Row, Status, KeptInv, QueuedIsEligible, Eligible
  <2>2. InHand(c)
    BY <2>1 DEF KeptInv, CallingIsInHand
  <2>3. CASE \E s \in Slot : task[s][c].pc = "dial"
    BY <2>3 DEF UnderWay
  <2>4. CASE \E k \in CallsWith(c) : Pending(k)
    BY <2>4 DEF UnderWay, Pending
  <2> QED  BY <2>2, <2>3, <2>4 DEF InHand
<1>3. OnceOnly
  BY DEF InTime
<1>4. Spec => []OnceInv
  BY <1>3, AlwaysOnce
<1> QED  BY <1>1, <1>2, <1>4, KeptInit, PTL DEF Spec

-----------------------------------------------------------------------------
(***************************************************************************)
(* The limit on simultaneous calls.  LIMIT bounds a batch, and the calls     *)
(* under way belong to the last batch: the slot waits for its tasks, and     *)
(* fires when the calls they placed are over.                                *)
(***************************************************************************)
OneBatch ==
  /\ Faults \cap {"overlap", "dial_retry"} = {}
  /\ \A s, t \in Slot : s = t
  /\ IsFiniteSet(Candidate)

Live(k) == vapi[k] = "live"

\* A task places one call, as the last thing it does with Vapi.
LiveFits ==
  \A k \in OutCall : Live(k) =>
    /\ \A s \in Slot : task[s][k.with].pc \in {"idle", "store"}
    /\ \A j \in OutCall : Live(j) /\ j.with = k.with => j = k

\* The tasks and the calls under way are those of a batch.
Covers(B) ==
  /\ \A s \in Slot, c \in Candidate : task[s][c].pc # "idle" => c \in B
  /\ \A k \in OutCall : Live(k) => k.with \in B

InBatch ==
  \E B \in SUBSET Candidate : Cardinality(B) <= MaxConcurrent /\ Covers(B)

BatchInv == TypeOK /\ LiveFits /\ InBatch

\* Work that only goes on or ends stays within its batch.
LEMMA WorkGoesOn ==
  ASSUME BatchInv, TypeOK',
         \A k \in OutCall : vapi'[k] = "live" => vapi[k] = "live",
         \A s \in Slot, c \in Candidate :
           \/ task'[s][c].pc \in {task[s][c].pc, "idle"}
           \/ task[s][c].pc \in {"selected", "commit"}
  PROVE  BatchInv'
<1>1. \A k \in OutCall : k.with \in Candidate
  BY DEF OutCall
<1>2. LiveFits'
  BY <1>1 DEF BatchInv, LiveFits, Live
<1>3. PICK B \in SUBSET Candidate : Cardinality(B) <= MaxConcurrent /\ Covers(B)
  BY DEF BatchInv, InBatch
<1>4. Covers(B)'
  BY <1>3 DEF Covers, Live
<1>5. InBatch'
  BY <1>3, <1>4 DEF InBatch
<1> QED  BY <1>2, <1>5 DEF BatchInv

\* A new batch starts when the last one is over.
LEMMA BatchStarts ==
  ASSUME BatchInv, OneBatch, NEW s \in Slot, SlotFires(s) PROVE BatchInv'
<1>1. TypeOK'
  BY SlotTyped DEF BatchInv
<1>2. PICK b \in Batches : task' = [task EXCEPT ![s] =
        [c \in Candidate |-> IF c \in b THEN [IdleTask EXCEPT !.pc = "selected"] ELSE @[c]]]
  BY DEF SlotFires
<1>3. /\ \A c \in Candidate : task[s][c].pc = "idle"
      /\ \A k \in OutCall : ~Live(k)
      /\ vapi' = vapi
  BY DEF SlotFires, OneBatch, Live, env
<1>4. b \in SUBSET Candidate /\ Cardinality(b) <= MaxConcurrent
  <2>1. b \in SUBSET Candidate
    BY DEF Batches
  <2>2. IsFiniteSet(b)
    BY <2>1, FS_Subset DEF OneBatch
  <2>3. Cardinality(b) \in Nat /\ MaxConcurrent \in Nat
    BY <2>2, FS_CardinalityType, LimitsArePositive
  <2>4. Cardinality(b) = MaxConcurrent \/ Cardinality(b) < MaxConcurrent
    BY DEF Batches
  <2> QED  BY <2>1, <2>3, <2>4
<1>5. \A t \in Slot, c \in Candidate : task'[t][c].pc # "idle" => c \in b
  BY <1>2, <1>3 DEF BatchInv, TypeOK, OneBatch
<1>6. LiveFits' /\ Covers(b)'
  BY <1>3, <1>5 DEF LiveFits, Covers, Live
<1>7. InBatch'
  BY <1>4, <1>6 DEF InBatch
<1> QED  BY <1>1, <1>6, <1>7 DEF BatchInv

LEMMA BatchDials ==
  ASSUME BatchInv, OneBatch, NEW s \in Slot, NEW c \in Candidate, DialSucceeds(s, c)
  PROVE  BatchInv'
<1>1. TypeOK'
  BY TaskTyped DEF BatchInv, TaskStep
<1>2. PICK k \in OutCall : /\ k.with = c /\ Places(k)
                           /\ task' = [task EXCEPT ![s][c] = [IdleTask EXCEPT !.pc = "store", !.call = k]]
  BY DEF DialSucceeds
<1> DEFINE t == [IdleTask EXCEPT !.pc = "store", !.call = k]
<1>3. t.pc = "store" /\ task[s][c].pc = "dial"
  BY DEF IdleTask, DialSucceeds
<1>4. task' = [task EXCEPT ![s][c] = t]
  BY <1>2
<1> HIDE DEF t
<1>5. \A r \in Slot, d \in Candidate :
        \/ d = c /\ task'[r][d].pc = "store" /\ task[r][d].pc = "dial"
        \/ d # c /\ task'[r][d] = task[r][d]
  BY <1>3, <1>4 DEF BatchInv, TypeOK, OneBatch
<1>6. /\ k \in Call /\ vapi'[k] = "live"
      /\ \A j \in OutCall : j # k => vapi'[j] = vapi[j]
  BY <1>2, CallFacts DEF Places, BatchInv, TypeOK
<1>7. \A j \in OutCall : Live(j) => j.with # c /\ j.with \in Candidate
  <2>1. \A j \in OutCall : Live(j) => task[s][j.with].pc \in {"idle", "store"}
    BY DEF BatchInv, LiveFits
  <2> QED  BY <1>3, <2>1 DEF OutCall
<1>8. \A j \in OutCall : Live(j)' => j = k \/ Live(j)
  BY <1>6 DEF Live
<1>9. LiveFits'
  <2> SUFFICES ASSUME NEW j \in OutCall, Live(j)'
               PROVE  /\ \A r \in Slot : task'[r][j.with].pc \in {"idle", "store"}
                      /\ \A i \in OutCall : Live(i)' /\ i.with = j.with => i = j
    BY DEF LiveFits
  <2>1. CASE j = k
    BY <1>2, <1>5, <1>7, <1>8, <2>1
  <2>2. CASE j # k
    <3>1. Live(j) /\ j.with # c /\ j.with \in Candidate
      BY <1>7, <1>8, <2>2
    <3>2. \A r \in Slot : task'[r][j.with].pc \in {"idle", "store"}
      BY <1>5, <3>1 DEF BatchInv, LiveFits
    <3>3. \A i \in OutCall : Live(i)' /\ i.with = j.with => Live(i)
      BY <1>2, <1>8, <3>1
    <3> QED  BY <3>1, <3>2, <3>3 DEF BatchInv, LiveFits
  <2> QED  BY <2>1, <2>2
<1>10. PICK B \in SUBSET Candidate : Cardinality(B) <= MaxConcurrent /\ Covers(B)
  BY DEF BatchInv, InBatch
<1>11. Covers(B)'
  <2>1. c \in B
    BY <1>3, <1>10 DEF Covers
  <2>2. \A r \in Slot, d \in Candidate : task'[r][d].pc # "idle" => d \in B
    BY <1>5, <1>10, <2>1 DEF Covers
  <2>3. \A j \in OutCall : Live(j)' => j.with \in B
    BY <1>2, <1>8, <1>10, <2>1 DEF Covers
  <2> QED  BY <2>2, <2>3 DEF Covers
<1>12. InBatch'
  BY <1>10, <1>11 DEF InBatch
<1> QED  BY <1>1, <1>9, <1>12 DEF BatchInv

LEMMA BatchTask ==
  ASSUME BatchInv, OneBatch, NEW s \in Slot, NEW c \in Candidate,
         TaskStep(s, c) \/ TaskAborts(s, c)
  PROVE  BatchInv'
<1>1. CASE DialSucceeds(s, c)
  BY <1>1, BatchDials
<1>2. CASE DialReplyLost(s, c)
  BY <1>2 DEF DialReplyLost, OneBatch
<1>3. CASE ~DialSucceeds(s, c) /\ ~DialReplyLost(s, c)
  <2>1. TypeOK'
    BY TaskTyped DEF BatchInv
  <2>2. vapi' = vapi
    BY <1>3 DEF TaskStep, TaskLoads, TaskCommits, DialFails, TaskStores, TaskAborts, env
  <2>3. \/ task[s][c].pc \in {"selected", "commit"} /\ \E t : task' = [task EXCEPT ![s][c] = t]
        \/ task' = [task EXCEPT ![s][c] = IdleTask]
    <3>1. TaskLoads(s, c) => \E t : task' = [task EXCEPT ![s][c] = t]
      <4>1. TaskLoads(s, c) => task' = [task EXCEPT ![s][c] =
              [task[s][c] EXCEPT !.pc = "commit", !.seen = candidate[c]]]
        BY DEF TaskLoads, BatchInv, TypeOK, Task
      <4> QED  BY <4>1
    <3>2. TaskCommits(s, c) => \E t : task' = [task EXCEPT ![s][c] = t]
      BY DEF TaskCommits
    <3> QED  BY <1>3, <3>1, <3>2 DEF TaskStep, TaskLoads, TaskCommits, DialFails, TaskStores, TaskAborts
  <2>4. IdleTask.pc = "idle"
    BY DEF IdleTask
  <2>5. \A r \in Slot, d \in Candidate :
          \/ task'[r][d].pc \in {task[r][d].pc, "idle"}
          \/ task[r][d].pc \in {"selected", "commit"}
    BY <2>3, <2>4 DEF BatchInv, TypeOK
  <2> QED  BY <2>1, <2>2, <2>5, WorkGoesOn
<1> QED  BY <1>1, <1>2, <1>3

LEMMA BatchElsewhere ==
  ASSUME BatchInv, TypeOK', task' = task, vapi' = vapi PROVE BatchInv'
<1>1. \A s \in Slot, c \in Candidate : task'[s][c].pc \in {task[s][c].pc, "idle"}
  OBVIOUS
<1> QED  BY <1>1, WorkGoesOn

LEMMA BatchNetwork ==
  ASSUME BatchInv, TypeOK', NEW k \in Call,
         RingsUs(k) \/ CallEnds(k) \/ ReportLost(k) \/ Redelivered(k)
  PROVE  BatchInv'
<1>1. task' = task
  BY DEF RingsUs, CallEnds, ReportLost, Redelivered
<1>2. \A j \in OutCall : vapi'[j] = "live" => vapi[j] = "live"
  BY CallFacts DEF RingsUs, Places, CallEnds, ReportLost, Redelivered, BatchInv, TypeOK
<1>3. \A s \in Slot, c \in Candidate : task'[s][c].pc \in {task[s][c].pc, "idle"}
  BY <1>1
<1> QED  BY <1>2, <1>3, WorkGoesOn

\* "... and of simultaneous calls": while slots are further apart than a call is
\* long and no POST is repeated, at most call_max_concurrent calls are live.
THEOREM SimultaneousCalls == ASSUME OneBatch PROVE Spec => []LiveCallsBounded
<1>1. Init => BatchInv
  <2> SUFFICES ASSUME Init PROVE BatchInv
    OBVIOUS
  <2>1. /\ \A s \in Slot, c \in Candidate : task[s][c].pc = "idle"
        /\ \A k \in OutCall : ~Live(k)
    BY CallFacts DEF Init, IdleTask, Live
  <2>2. {} \in SUBSET Candidate /\ Cardinality({}) <= MaxConcurrent
    BY FS_EmptySet, LimitsArePositive
  <2>3. Covers({})
    BY <2>1 DEF Covers
  <2> QED  BY <2>1, <2>2, <2>3, InitTyped DEF BatchInv, LiveFits, InBatch
<1>2. BatchInv /\ TypeOK' /\ [Next]_vars => BatchInv'
  <2> SUFFICES ASSUME BatchInv, TypeOK', [Next]_vars PROVE BatchInv'
    OBVIOUS
  <2>1. ASSUME NEW c \in Candidate, Ingest(c) PROVE BatchInv'
    BY <2>1, BatchElsewhere DEF Ingest, env
  <2>2. ASSUME NEW k \in Call, Answered(k) PROVE BatchInv'
    BY <2>2, BatchElsewhere DEF Answered, ReportIgnored, ReportOfOutbound, ReportOfInbound
  <2>3. ASSUME NEW h \in Handler, HandlerStep(h) \/ HandlerAborts(h) PROVE BatchInv'
    BY <2>3, BatchElsewhere DEF HandlerStep, FindCaller, InsertCaller, LoadCaller, RegisterInbound,
       ReloadInbound, Judge, CreateLead, LeadReplyLost, LeadFails, SaveVerdict, HandlerAborts, env
  <2>4. CASE UNCHANGED vars
    BY <2>4, BatchElsewhere DEF vars
  <2> QED  BY <2>1, <2>2, <2>3, <2>4, BatchStarts, BatchTask, BatchNetwork DEF Next
<1>3. BatchInv => LiveCallsBounded
  <2> SUFFICES ASSUME BatchInv PROVE Cardinality(LiveCalls) <= MaxConcurrent
    BY DEF LiveCallsBounded
  <2>1. PICK B \in SUBSET Candidate : Cardinality(B) <= MaxConcurrent /\ Covers(B)
    BY DEF BatchInv, InBatch
  <2>2. IsFiniteSet(B)
    BY FS_Subset DEF OneBatch
  <2> DEFINE L == LiveCalls
             f == [k \in L |-> k.with]
  <2>3. f \in [L -> B]
    BY <2>1 DEF LiveCalls, Covers, Live
  <2>4. ASSUME NEW j \in L, NEW k \in L, f[j] = f[k] PROVE j = k
    BY <2>4 DEF LiveCalls, BatchInv, LiveFits, Live
  <2>5. f \in Injection(L, B)
    BY <2>3, <2>4 DEF Injection, IsInjective
  <2> HIDE DEF L, f
  <2>6. IsFiniteSet(L) /\ Cardinality(L) <= Cardinality(B)
    BY <2>2, <2>5, FS_Injection
  <2>7. Cardinality(L) \in Nat /\ Cardinality(B) \in Nat /\ MaxConcurrent \in Nat
    BY <2>2, <2>6, FS_CardinalityType, LimitsArePositive
  <2> QED  BY <2>1, <2>6, <2>7 DEF L
<1> QED  BY <1>1, <1>2, <1>3, TypeCorrect, PTL DEF Spec
=============================================================================
