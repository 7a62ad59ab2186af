----------------------------- MODULE LeadRegistry -----------------------------
(***************************************************************************)
(* What the inbound side promises about a phone number: it is registered    *)
(* once, remembers where it first came from, and is linked to at most one    *)
(* KeyCRM lead, for good.  Only a number over which two verdicts, or a       *)
(* verdict and an ingest, contended before it had a lead may be linked anew. *)
(* InboundRouter implements it.                                              *)
(***************************************************************************)
CONSTANTS Phone,     \* phone numbers in E.164
          Label,     \* sources
          NoLabel,   \* the source of nobody
          Link       \* what a lead id may refer to

VARIABLES entry,     \* entry[p]: what is registered for phone number p
          contested  \* phone numbers that were contended for

Nobody == [origin |-> NoLabel, lead |-> "none"]

Init == entry = [p \in Phone |-> Nobody] /\ contested = {}

Register(p, label) ==
  /\ entry[p] = Nobody
  /\ entry' = [entry EXCEPT ![p] = [origin |-> label, lead |-> "none"]]
  /\ UNCHANGED contested

\* Only before there is a lead: who is linked undisputedly stays linked.
Contest(p) ==
  /\ entry[p].origin # NoLabel
  /\ entry[p].lead = "none"
  /\ contested' = contested \cup {p}
  /\ UNCHANGED entry

LinkLead(p, link) ==
  /\ entry[p].origin # NoLabel
  /\ entry[p].lead = "none" \/ p \in contested
  /\ entry' = [entry EXCEPT ![p] = [origin |-> entry[p].origin, lead |-> link]]
  /\ UNCHANGED contested

Next == \E p \in Phone :
  \/ \E label \in Label : Register(p, label)
  \/ Contest(p)
  \/ \E link \in Link : LinkLead(p, link)

Spec == Init /\ [][Next]_<<entry, contested>>
=============================================================================
