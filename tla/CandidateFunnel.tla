--------------------------- MODULE CandidateFunnel ---------------------------
(***************************************************************************)
(* What the recruiter promises about one row of the candidates table: the  *)
(* funnel a candidate moves through, without the scheduler, the telephony, *)
(* the webhooks or the CRM that move it.  CallPipeline implements it when   *)
(* calls are outbound only and each report arrives at most once.            *)
(***************************************************************************)
EXTENDS Integers

CONSTANTS Candidate,    \* phone numbers; candidates.phone_e164 is unique
          MaxAttempts   \* settings.call_max_attempts

VARIABLE row            \* row[c]: candidate c in the candidates table

\* The CandidateStatus values the code ever assigns, and "absent" for no row.
Status == {"absent", "new_resume", "in_call_queue", "calling",
           "unreachable", "manager_review"}

Row == [status: Status, attempts: Nat, lead: BOOLEAN]

NoRow == [status |-> "absent", attempts |-> 0, lead |-> FALSE]

TypeOK == row \in [Candidate -> Row]

Init == row = [c \in Candidate |-> NoRow]

Enter(c) ==
  /\ row[c].status = "absent"
  /\ row' = [row EXCEPT ![c].status = "new_resume"]

\* A call is attempted, and counted before it is placed.
Attempt(c) ==
  /\ row[c].status \in {"new_resume", "in_call_queue"}
  /\ row[c].attempts < MaxAttempts
  /\ row' = [row EXCEPT ![c].status = "calling", ![c].attempts = @ + 1]

\* The conversation qualified the candidate: over to a manager.
HandOver(c) ==
  /\ row[c].status = "calling"
  /\ \E lead \in BOOLEAN :
       row' = [row EXCEPT ![c].status = "manager_review", ![c].lead = @ \/ lead]

\* It did not, and an attempt is left.
Requeue(c) ==
  /\ row[c].status = "calling"
  /\ row[c].attempts < MaxAttempts
  /\ row' = [row EXCEPT ![c].status = "in_call_queue"]

\* It did not, and that was the last attempt.
GiveUp(c) ==
  /\ row[c].status = "calling"
  /\ row[c].attempts = MaxAttempts
  /\ \E lead \in BOOLEAN :
       row' = [row EXCEPT ![c].status = "unreachable", ![c].lead = @ \/ lead]

Next == \E c \in Candidate :
  Enter(c) \/ Attempt(c) \/ HandOver(c) \/ Requeue(c) \/ GiveUp(c)

Spec == Init /\ [][Next]_row
=============================================================================
