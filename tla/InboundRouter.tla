----------------------------- MODULE InboundRouter -----------------------------
(***************************************************************************)
(* Everyone Eva hears of enters through InboundRouter.ingest                *)
(* (api/inbound_router.py): the work.ua poll in the scheduler, the manual    *)
(* webhook and callers in the API, each in a process of its own and several  *)
(* at a time.  In the eager mode ingest also finds or creates a KeyCRM lead; *)
(* in the deferred mode, the default, the verdict on a call does             *)
(* (call/orchestrator.py).  The mode is read from the environment at each    *)
(* ingest, and every process has its own.                                    *)
(*                                                                          *)
(* Payloads whose phone number or region is refused change nothing and are   *)
(* left out; a phone number here is the outcome of normalize_phone.          *)
(***************************************************************************)
EXTENDS Integers

CONSTANTS
  Phone,    \* phone numbers in E.164
  Label,    \* values of payload.source
  NoLabel,  \* the source of a candidate who is not there
  NoPhone,  \* the phone number of an idle request
  Request,  \* ingests under way at a time
  Judge,    \* verdicts under way at a time
  Eager,    \* the modes of the processes: {FALSE} is the default deployment
  Faults    \* what may go wrong

(***************************************************************************)
(* search_fails  KeyCRM does not answer the search, retries included        *)
(* create_fails  KeyCRM refuses a lead, retries included                    *)
(* reply_lost    the reply to a lead's POST is lost and the POST repeated   *)
(* abort         a database error or a restart ends a request               *)
(* by_hand       a manager enters a lead in KeyCRM                          *)
(***************************************************************************)
FaultKinds == {"search_fails", "create_fails", "reply_lost", "abort", "by_hand"}

ASSUME ModesAreBoolean == Eager \subseteq BOOLEAN
ASSUME RouterFaults    == Faults \subseteq FaultKinds
ASSUME NotALabel       == NoLabel \notin Label
ASSUME NotAPhone       == NoPhone \notin Phone

VARIABLES
  row,      \* the candidates table
  crm,      \* external: KeyCRM's leads of a phone number
  req,      \* ingest, per request
  judge,    \* the KeyCRM part of _finalize_call, per verdict under way
  unsure,   \* history: phone numbers with a lead whose id never reached the row
  contested \* history: phone numbers on which a verdict began while another
            \* verdict or the ingest that inserted the row was at work

vars == <<row, crm, req, judge, unsure, contested>>

\* Bound: our leads are counted as none, one, or more than one.
MaxLeads == 2

\* A lead id refers to the first lead of ours, to a later one, or to one entered
\* by hand.
Ours == {"first", "later"}
Link == Ours \cup {"theirs"}

\* origin and more are the labels of candidates.source: the first, and the rest.
Row == [origin: Label \cup {NoLabel}, more: SUBSET Label, lead: Link \cup {"none"}]
NoRow == [origin |-> NoLabel, more |-> {}, lead |-> "none"]

Crm == [ours: 0..MaxLeads, theirs: BOOLEAN]

Ingest == [pc: {"idle", "append", "insert", "search", "create", "link"},
           phone: Phone \cup {NoPhone}, label: Label \cup {NoLabel}, seen: Row,
           eager: BOOLEAN, lead: Link \cup {"none"}]
IdleIngest == [pc |-> "idle", phone |-> NoPhone, label |-> NoLabel, seen |-> NoRow,
               eager |-> FALSE, lead |-> "none"]

\* A request that has inserted its row and turned to KeyCRM.
AtCrm(pc, p, lead) == [pc |-> pc, phone |-> p, label |-> NoLabel, seen |-> NoRow,
                       eager |-> FALSE, lead |-> lead]

Verdict == [pc: {"idle", "create", "save"}, phone: Phone \cup {NoPhone},
            lead: Ours \cup {"none"}]
IdleVerdict == [pc |-> "idle", phone |-> NoPhone, lead |-> "none"]

\* A verdict that has read a row without a lead and turned to KeyCRM.
Deciding(pc, p, lead) == [pc |-> pc, phone |-> p, lead |-> lead]

Known(p) == row[p].origin # NoLabel

Init ==
  /\ row = [p \in Phone |-> NoRow]
  /\ crm = [p \in Phone |-> [ours |-> 0, theirs |-> FALSE]]
  /\ req = [i \in Request |-> IdleIngest]
  /\ judge = [j \in Judge |-> IdleVerdict]
  /\ unsure = {}
  /\ contested = {}

-----------------------------------------------------------------------------
\* ingest: the local part.

\* The session's query, and what it decides.
Arrives(i, p, label, eager) ==
  /\ req[i].pc = "idle"
  /\ Known(p) => label \notin {row[p].origin} \cup row[p].more
  /\ req' = [req EXCEPT ![i] =
       [pc |-> IF Known(p) THEN "append" ELSE "insert", phone |-> p, label |-> label,
        seen |-> row[p], eager |-> eager, lead |-> "none"]]
  /\ UNCHANGED <<row, crm, judge, unsure, contested>>

\* local_duplicate: the commit writes the source that was read, and the label.
AppendSource(i) ==
  LET me == req[i] IN
  /\ me.pc = "append"
  /\ row' = [row EXCEPT ![me.phone] =
       [origin |-> me.seen.origin, more |-> me.seen.more \cup {me.label},
        lead |-> row[me.phone].lead]]
  /\ req' = [req EXCEPT ![i] = IdleIngest]
  /\ UNCHANGED <<crm, judge, unsure, contested>>

\* Slip: phone_e164 is an ordinary column.
NoUniqueIndex(p) == TRUE

\* The unique index on candidates.phone_e164.
Insertable(p) == ~Known(p)

\* The flush and the commit of a new row.
InsertRow(i) ==
  LET me == req[i] IN
  /\ me.pc = "insert"
  /\ Insertable(me.phone)
  /\ row' = [row EXCEPT ![me.phone] = [origin |-> me.label, more |-> {}, lead |-> "none"]]
  /\ req' = [req EXCEPT ![i] =
       IF me.eager THEN AtCrm("search", me.phone, "none") ELSE IdleIngest]
  /\ UNCHANGED <<crm, judge, unsure, contested>>

\* Another request was faster: the flush raises and the request ends.
InsertRaises(i) ==
  /\ req[i].pc = "insert"
  /\ ~Insertable(req[i].phone)
  /\ req' = [req EXCEPT ![i] = IdleIngest]
  /\ UNCHANGED <<row, crm, judge, unsure, contested>>

-----------------------------------------------------------------------------
\* ingest: KeyCRM, in the eager mode.

\* KeyCRM has the lead of that id.
InCrm(p, id) ==
  CASE id = "first"  -> crm[p].ours > 0
    [] id = "later"  -> crm[p].ours > 1
    [] id = "theirs" -> crm[p].theirs

\* find_lead_by_phone asks for one lead; KeyCRM says which.
Found(p) ==
  LET ours   == {id \in Ours : InCrm(p, id)}
      theirs == IF crm[p].theirs THEN {"theirs"} ELSE {}
  IN IF ours \cup theirs = {} THEN {"none"} ELSE ours \cup theirs

SearchLead(i) ==
  /\ req[i].pc = "search"
  /\ \E lead \in Found(req[i].phone) :
       req' = [req EXCEPT ![i] =
         AtCrm(IF lead = "none" THEN "create" ELSE "link", req[i].phone, lead)]
  /\ UNCHANGED <<row, crm, judge, unsure, contested>>

\* Slip: no answer counts as a lead that was found.
FailureIsDuplicate(i) ==
  /\ "search_fails" \in Faults
  /\ req[i].pc = "search"
  /\ req' = [req EXCEPT ![i] = AtCrm("link", req[i].phone, "theirs")]
  /\ UNCHANGED <<row, crm, judge, unsure, contested>>

\* keycrm.dedup_failed: goes on as if there were none.
SearchFails(i) ==
  /\ "search_fails" \in Faults
  /\ req[i].pc = "search"
  /\ req' = [req EXCEPT ![i] = AtCrm("create", req[i].phone, "none")]
  /\ UNCHANGED <<row, crm, judge, unsure, contested>>

\* KeyCRM takes a lead from us.
Posted(p) ==
  crm' = [crm EXCEPT ![p] =
    [ours |-> IF crm[p].ours < MaxLeads THEN crm[p].ours + 1 ELSE MaxLeads,
     theirs |-> crm[p].theirs]]

\* The id in its answer.
NewId(p) == IF crm[p].ours = 0 THEN "first" ELSE "later"

CreateLead(i) ==
  /\ req[i].pc = "create"
  /\ Posted(req[i].phone)
  /\ req' = [req EXCEPT ![i] = AtCrm("link", req[i].phone, NewId(req[i].phone))]
  /\ UNCHANGED <<row, judge, unsure, contested>>

\* The lead is there, the reply is not: posted again, or, after the third time,
\* given up.
ReplyLost(i) ==
  LET p == req[i].phone IN
  /\ "reply_lost" \in Faults
  /\ req[i].pc = "create"
  /\ Posted(p)
  /\ unsure' = unsure \cup {p}
  /\ \E next \in {AtCrm("create", p, "none"), IdleIngest} : req' = [req EXCEPT ![i] = next]
  /\ UNCHANGED <<row, judge, contested>>

\* keycrm_failed: the candidate is accepted without a lead.
CreateFails(i) ==
  /\ "create_fails" \in Faults
  /\ req[i].pc = "create"
  /\ req' = [req EXCEPT ![i] = IdleIngest]
  /\ UNCHANGED <<row, crm, judge, unsure, contested>>

\* remote_duplicate, and a lead of one's own: the id is committed to the row.
StoreLead(i) ==
  LET me == req[i] IN
  /\ me.pc = "link"
  /\ row' = [row EXCEPT ![me.phone] =
       [origin |-> row[me.phone].origin, more |-> row[me.phone].more, lead |-> me.lead]]
  /\ req' = [req EXCEPT ![i] = IdleIngest]
  /\ UNCHANGED <<crm, judge, unsure, contested>>

\* An exception in a session, or the end of the process.
IngestAborts(i) ==
  /\ "abort" \in Faults
  /\ req[i].pc # "idle"
  /\ unsure' = IF req[i].pc = "link" /\ req[i].lead \in Ours
               THEN unsure \cup {req[i].phone} ELSE unsure
  /\ req' = [req EXCEPT ![i] = IdleIngest]
  /\ UNCHANGED <<row, crm, judge, contested>>

-----------------------------------------------------------------------------
\* _finalize_call: a verdict that calls for a lead, qualified or the last attempt.
\* Nothing keeps two of them apart, nor one and an ingest.

AtKeyCrm(p) == \E i \in Request : req[i].phone = p /\ req[i].pc \in {"search", "create", "link"}

Judged(p) == \E j \in Judge : judge[j].phone = p /\ judge[j].pc # "idle"

\* Slip: a lead id on the row is not looked at.
AnyKnown(p) == Known(p)

\* "not candidate.keycrm_lead_id and ...", of the row as it was when the session
\* loaded it, before the summarizer was asked.
NeedsLead(p) == Known(p) /\ row[p].lead = "none"

VerdictReads(j, p) ==
  /\ judge[j].pc = "idle"
  /\ NeedsLead(p)
  /\ judge' = [judge EXCEPT ![j] = Deciding("create", p, "none")]
  /\ contested' = IF AtKeyCrm(p) \/ Judged(p) THEN contested \cup {p} ELSE contested
  /\ UNCHANGED <<row, crm, req, unsure>>

VerdictCreates(j) ==
  LET p == judge[j].phone IN
  /\ judge[j].pc = "create"
  /\ Posted(p)
  /\ judge' = [judge EXCEPT ![j] = Deciding("save", p, NewId(p))]
  /\ UNCHANGED <<row, req, unsure, contested>>

VerdictReplyLost(j) ==
  LET p == judge[j].phone IN
  /\ "reply_lost" \in Faults
  /\ judge[j].pc = "create"
  /\ Posted(p)
  /\ unsure' = unsure \cup {p}
  /\ \E next \in {judge[j], IdleVerdict} : judge' = [judge EXCEPT ![j] = next]
  /\ UNCHANGED <<row, req, contested>>

\* keycrm_create_failed: the verdict is saved without a lead.
VerdictCreateFails(j) ==
  /\ "create_fails" \in Faults
  /\ judge[j].pc = "create"
  /\ judge' = [judge EXCEPT ![j] = IdleVerdict]
  /\ UNCHANGED <<row, crm, req, unsure, contested>>

\* The commit writes the id over whatever the row has by now.
VerdictSaves(j) ==
  LET me == judge[j] IN
  /\ me.pc = "save"
  /\ row' = [row EXCEPT ![me.phone] =
       [origin |-> row[me.phone].origin, more |-> row[me.phone].more, lead |-> me.lead]]
  /\ judge' = [judge EXCEPT ![j] = IdleVerdict]
  /\ UNCHANGED <<crm, req, unsure, contested>>

VerdictAborts(j) ==
  /\ "abort" \in Faults
  /\ judge[j].pc # "idle"
  /\ unsure' = IF judge[j].pc = "save" THEN unsure \cup {judge[j].phone} ELSE unsure
  /\ judge' = [judge EXCEPT ![j] = IdleVerdict]
  /\ UNCHANGED <<row, crm, req, contested>>

\* A manager enters a lead of their own.
ManagerAdds(p) ==
  /\ "by_hand" \in Faults
  /\ crm' = [crm EXCEPT ![p] = [ours |-> crm[p].ours, theirs |-> TRUE]]
  /\ UNCHANGED <<row, req, judge, unsure, contested>>

-----------------------------------------------------------------------------
IngestStep(i) ==
  \/ AppendSource(i) \/ InsertRow(i) \/ InsertRaises(i)
  \/ SearchLead(i) \/ SearchFails(i)
  \/ CreateLead(i) \/ ReplyLost(i) \/ CreateFails(i)
  \/ StoreLead(i) \/ IngestAborts(i)

VerdictStep(j) ==
  \/ VerdictCreates(j) \/ VerdictReplyLost(j) \/ VerdictCreateFails(j)
  \/ VerdictSaves(j) \/ VerdictAborts(j)

Next ==
  \/ \E i \in Request, p \in Phone, label \in Label, eager \in Eager : Arrives(i, p, label, eager)
  \/ \E i \in Request : IngestStep(i)
  \/ \E j \in Judge, p \in Phone : VerdictReads(j, p)
  \/ \E j \in Judge : VerdictStep(j)
  \/ \E p \in Phone : ManagerAdds(p)

Spec == Init /\ [][Next]_vars
-----------------------------------------------------------------------------
\* Every variable has its type.
TypeOK ==
  /\ row \in [Phone -> Row]
  /\ crm \in [Phone -> Crm]
  /\ req \in [Request -> Ingest]
  /\ judge \in [Judge -> Verdict]
  /\ unsure \subseteq Phone
  /\ contested \subseteq Phone

\* One lead of ours per phone number (docs/keycrm_schema.md:85-94), in either mode
\* and with both at once, as far as the code keeps it: of several ingests the unique
\* index on the phone number decides who goes on to KeyCRM, and verdicts one after
\* the other find the id of the first on the row.  Two cases are lost.  The id of a
\* lead that was created never reached the row; or a verdict began while another, or
\* the ingest, was between its look at the row and its commit, which nothing locks.
OneLeadOfOurs == \A p \in Phone \ (unsure \cup contested) : crm[p].ours <= 1

\* A lead id on a row is the id of a lead KeyCRM has, contested or not.
LinkedLeadExists == \A p \in Phone : row[p].lead # "none" => InCrm(p, row[p].lead)

\* A phone number is registered once, keeps its first source although sources are
\* read, extended and written back by several requests at a time, and its lead is
\* never replaced, unless its verdicts were contested before it had one.
Registry == INSTANCE LeadRegistry WITH
  entry <- [p \in Phone |-> [origin |-> row[p].origin, lead |-> row[p].lead]]
RegistrySpec == Registry!Spec
=============================================================================
