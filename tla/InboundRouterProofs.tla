------------------------- MODULE InboundRouterProofs -------------------------
(***************************************************************************)
(* Theorems about InboundRouter, for any phone numbers, sources, requests    *)
(* and modes, and under all faults.                                          *)
(***************************************************************************)
EXTENDS InboundRouter, TLAPS

\* Request i has inserted its row and works on KeyCRM.
Past(i) == req[i].pc \in {"search", "create", "link"}

\* A request holds the id of a lead of ours that is not on the row yet.
Holding(i, p) == req[i].pc = "link" /\ req[i].phone = p /\ req[i].lead \in Ours

\* A verdict works on a phone number; a verdict holds the id of its lead.
Working(j, p) == judge[j].phone = p /\ judge[j].pc # "idle"
Saving(j, p) == judge[j].phone = p /\ judge[j].pc = "save"

\* What a request carries is there, and the row it is about to extend keeps the
\* source it was read with.
RequestsAreSound ==
  \A i \in Request :
    /\ req[i].pc # "idle" => req[i].phone \in Phone
    /\ req[i].pc \in {"append", "insert"} => req[i].label \in Label
    /\ req[i].pc = "append" =>
         req[i].seen.origin = row[req[i].phone].origin /\ Known(req[i].phone)

VerdictsAreSound ==
  \A j \in Judge :
    /\ judge[j].pc # "idle" => judge[j].phone \in Phone /\ Known(judge[j].phone)
    /\ judge[j].pc = "save" => judge[j].lead \in Ours

\* Whoever turned to KeyCRM inserted the row, and no other ingest follows.
PastIsAlone ==
  \A i \in Request : Past(i) =>
    /\ Known(req[i].phone)
    /\ \A k \in Request : Past(k) /\ req[k].phone = req[i].phone => i = k

\* Unless contested, whoever is about to link a phone number is alone with it and
\* the number is not linked yet.
Undisputed ==
  \A p \in Phone \ contested :
    /\ \A i \in Request : Past(i) /\ req[i].phone = p =>
         row[p].lead = "none" /\ \A j \in Judge : ~Working(j, p)
    /\ \A j \in Judge : Working(j, p) => row[p].lead = "none"
    /\ \A j, k \in Judge : Working(j, p) /\ Working(k, p) => j = k

UnknownIsBare == \A p \in Phone : ~Known(p) => row[p].lead = "none" /\ p \notin contested

\* Unless contested, without an id on the row, in a request or in a verdict there is
\* no lead of ours.
EveryLeadIsKnown ==
  \A p \in Phone \ (unsure \cup contested) :
    /\ row[p].lead = "none"
    /\ \A j \in Judge : ~Saving(j, p)
    /\ \A i \in Request : ~Holding(i, p)
    => crm[p].ours = 0

\* KeyCRM, with leads c, has the lead of that id: InCrm, of any c.
HasLead(c, p, id) ==
  \/ id = "first"  /\ c[p].ours > 0
  \/ id = "later"  /\ c[p].ours > 1
  \/ id = "theirs" /\ c[p].theirs

LinksHold == \A p \in Phone : row[p].lead # "none" => HasLead(crm, p, row[p].lead)

\* The ids in requests and verdicts are those of leads KeyCRM has.
HeldLeadExists ==
  /\ \A i \in Request : req[i].pc = "link" =>
       req[i].lead \in Link /\ HasLead(crm, req[i].phone, req[i].lead)
  /\ \A j \in Judge : judge[j].pc = "save" => HasLead(crm, judge[j].phone, judge[j].lead)

IInv ==
  /\ TypeOK
  /\ RequestsAreSound
  /\ VerdictsAreSound
  /\ PastIsAlone
  /\ Undisputed
  /\ UnknownIsBare
  /\ EveryLeadIsKnown
  /\ HeldLeadExists
  /\ OneLeadOfOurs
  /\ LinksHold

USE NotALabel, NotAPhone
-----------------------------------------------------------------------------
(* Types. *)

LEMMA NoRowTyped == NoRow \in Row
BY DEF NoRow, Row

LEMMA IdleIngestTyped == IdleIngest \in Ingest /\ IdleIngest.pc = "idle"
BY NoRowTyped DEF IdleIngest, Ingest

LEMMA IdleVerdictTyped == IdleVerdict \in Verdict /\ IdleVerdict.pc = "idle"
BY DEF IdleVerdict, Verdict

LEMMA DecidingTyped ==
  ASSUME NEW pc \in {"create", "save"}, NEW p \in Phone, NEW lead \in Ours \cup {"none"}
  PROVE  /\ Deciding(pc, p, lead) \in Verdict
         /\ Deciding(pc, p, lead).pc = pc
         /\ Deciding(pc, p, lead).phone = p
         /\ Deciding(pc, p, lead).lead = lead
BY DEF Deciding, Verdict

LEMMA AtCrmTyped ==
  ASSUME NEW pc \in {"search", "create", "link"}, NEW p \in Phone, NEW lead \in Link \cup {"none"}
  PROVE  /\ AtCrm(pc, p, lead) \in Ingest
         /\ AtCrm(pc, p, lead).pc = pc
         /\ AtCrm(pc, p, lead).phone = p
         /\ AtCrm(pc, p, lead).lead = lead
BY NoRowTyped DEF AtCrm, Ingest

LEMMA InCrmHasLead ==
  ASSUME NEW p, NEW id \in Link
  PROVE  InCrm(p, id) <=> HasLead(crm, p, id)
<1>1. CASE id = "first"
  BY <1>1 DEF InCrm, HasLead
<1>2. CASE id = "later"
  BY <1>2 DEF InCrm, HasLead
<1>3. CASE id = "theirs"
  BY <1>3 DEF InCrm, HasLead
<1> QED  BY <1>1, <1>2, <1>3 DEF Link, Ours

\* A lead KeyCRM has it keeps.
LEMMA LeadsStay ==
  ASSUME NEW p, NEW id \in Link, HasLead(crm, p, id),
         crm[p].ours \in 0..2, crm'[p].ours \in 0..2, crm'[p].ours >= crm[p].ours,
         crm[p].theirs => crm'[p].theirs
  PROVE  HasLead(crm', p, id)
<1>1. CASE id = "first"
  BY <1>1 DEF HasLead
<1>2. CASE id = "later"
  BY <1>2 DEF HasLead
<1>3. CASE id = "theirs"
  BY <1>3 DEF HasLead
<1> QED  BY <1>1, <1>2, <1>3 DEF Link, Ours

\* KeyCRM's count of leads only grows, by one up to the cap, and the id it answers
\* with is that of the new lead.
LEMMA PostedCounts ==
  ASSUME TypeOK, NEW p \in Phone, Posted(p)
  PROVE  /\ crm' \in [Phone -> Crm]
         /\ crm'[p].ours > 0
         /\ crm[p].ours = 0 => crm'[p].ours = 1
         /\ NewId(p) \in Ours /\ HasLead(crm', p, NewId(p))
         /\ \A q \in Phone : q # p => crm'[q] = crm[q]
         /\ \A q \in Phone, id \in Link : HasLead(crm, q, id) => HasLead(crm', q, id)
<1> DEFINE n == IF crm[p].ours < MaxLeads THEN crm[p].ours + 1 ELSE MaxLeads
           e == [ours |-> n, theirs |-> crm[p].theirs]
<1>1. crm[p].ours \in 0..2 /\ crm[p].theirs \in BOOLEAN
  BY DEF TypeOK, Crm, MaxLeads
<1>2. n \in 1..2 /\ n >= crm[p].ours /\ (crm[p].ours = 0 => n = 1) /\ (crm[p].ours # 0 => n = 2)
  BY <1>1 DEF MaxLeads
<1>3. crm' = [crm EXCEPT ![p] = e]
  BY DEF Posted
<1> HIDE DEF n
<1>4. e \in Crm /\ e.ours = n /\ e.theirs = crm[p].theirs
  BY <1>1, <1>2 DEF Crm, MaxLeads
<1> HIDE DEF e
<1>5. crm \in [Phone -> Crm]
  BY DEF TypeOK
<1>6. crm' \in [Phone -> Crm] /\ crm'[p] = e /\ \A q \in Phone : q # p => crm'[q] = crm[q]
  BY <1>3, <1>4, <1>5
<1>7. \A q \in Phone, id \in Link : HasLead(crm, q, id) => HasLead(crm', q, id)
  <2> SUFFICES ASSUME NEW q \in Phone, NEW id \in Link, HasLead(crm, q, id) PROVE HasLead(crm', q, id)
    OBVIOUS
  <2>1. crm[q].ours \in 0..2 /\ crm'[q].ours \in 0..2
    BY <1>5, <1>6 DEF Crm, MaxLeads
  <2>2. crm'[q].ours >= crm[q].ours /\ (crm[q].theirs => crm'[q].theirs)
    BY <1>2, <1>4, <1>6, <2>1
  <2> QED  BY <2>1, <2>2, LeadsStay
<1>8. NewId(p) \in Ours /\ HasLead(crm', p, NewId(p))
  <2>1. CASE crm[p].ours = 0
    <3>1. NewId(p) = "first"
      BY <2>1 DEF NewId
    <3>2. HasLead(crm', p, "first")
      BY <1>2, <1>4, <1>6, <2>1 DEF HasLead
    <3> QED  BY <3>1, <3>2 DEF Ours
  <2>2. CASE crm[p].ours # 0
    <3>1. NewId(p) = "later"
      BY <2>2 DEF NewId
    <3>2. HasLead(crm', p, "later")
      BY <1>2, <1>4, <1>6, <2>2 DEF HasLead
    <3> QED  BY <3>1, <3>2 DEF Ours
  <2> QED  BY <2>1, <2>2
<1> QED  BY <1>2, <1>4, <1>6, <1>7, <1>8

-----------------------------------------------------------------------------
(* The invariant. *)

THEOREM InitInv == Init => IInv
<1> SUFFICES ASSUME Init PROVE IInv
  OBVIOUS
<1>1. [ours |-> 0, theirs |-> FALSE] \in Crm
  BY DEF Crm, MaxLeads
<1>2. TypeOK
  BY <1>1, NoRowTyped, IdleIngestTyped, IdleVerdictTyped DEF Init, TypeOK
<1>3. /\ \A i \in Request : req[i].pc = "idle"
      /\ \A j \in Judge : judge[j].pc = "idle"
  BY IdleIngestTyped, IdleVerdictTyped DEF Init
<1>4. \A p \in Phone : row[p].lead = "none" /\ crm[p].ours = 0 /\ p \notin contested
  BY DEF Init, NoRow
<1> QED  BY <1>2, <1>3, <1>4 DEF IInv, RequestsAreSound, VerdictsAreSound, PastIsAlone, Past,
              Undisputed, Working, UnknownIsBare, EveryLeadIsKnown, HeldLeadExists,
              OneLeadOfOurs, LinksHold

\* A step of a request that leaves the rows, the verdicts and KeyCRM alone, and lets
\* go of the id of a lead of ours only when the phone number is noted as unsure.
LEMMA RequestMoves ==
  ASSUME IInv, NEW i \in Request, NEW x \in Ingest,
         req' = [req EXCEPT ![i] = x],
         UNCHANGED <<row, crm, judge, contested>>,
         unsure \subseteq unsure', unsure' \subseteq Phone,
         \A p \in Phone : Holding(i, p) => p \in unsure',
         x.pc # "idle" => x.phone \in Phone,
         x.pc \in {"append", "insert"} => x.label \in Label,
         x.pc = "append" => x.seen.origin = row[x.phone].origin /\ Known(x.phone),
         x.pc \in {"search", "create", "link"} => Past(i) /\ x.phone = req[i].phone,
         x.pc = "link" => x.lead \in Link /\ HasLead(crm, x.phone, x.lead)
  PROVE  IInv'
<1>1. req' \in [Request -> Ingest] /\ \A j \in Request : req'[j] = IF j = i THEN x ELSE req[j]
  BY DEF IInv, TypeOK
<1>2. TypeOK'
  BY <1>1 DEF IInv, TypeOK
<1>3. RequestsAreSound'
  BY <1>1 DEF IInv, RequestsAreSound, Known
<1>4. \A j \in Request : Past(j)' => Past(j) /\ req'[j].phone = req[j].phone
  BY <1>1 DEF Past
<1>5. PastIsAlone'
  BY <1>4 DEF IInv, PastIsAlone, Known
<1>6. VerdictsAreSound' /\ UnknownIsBare' /\ LinksHold' /\ OneLeadOfOurs'
  BY DEF IInv, VerdictsAreSound, UnknownIsBare, LinksHold, OneLeadOfOurs, Known
<1>7. Undisputed'
  BY <1>4 DEF IInv, Undisputed, Working
<1>8. \A j \in Request, p \in Phone : Holding(j, p) => Holding(j, p)' \/ p \in unsure'
  BY <1>1 DEF Holding
<1>9. EveryLeadIsKnown'
  BY <1>8 DEF IInv, EveryLeadIsKnown, Saving
<1>10. HeldLeadExists'
  BY <1>1 DEF IInv, HeldLeadExists
<1> QED  BY <1>2, <1>3, <1>5, <1>6, <1>7, <1>9, <1>10 DEF IInv

\* ... and so does one that goes back to idle.
LEMMA RequestEnds ==
  ASSUME IInv, NEW i \in Request, req' = [req EXCEPT ![i] = IdleIngest],
         UNCHANGED <<row, crm, judge, contested>>,
         unsure \subseteq unsure', unsure' \subseteq Phone,
         \A p \in Phone : Holding(i, p) => p \in unsure'
  PROVE  IInv'
BY IdleIngestTyped, RequestMoves

LEMMA IngestQuiet ==
  ASSUME IInv, NEW i \in Request,
         \/ \E p \in Phone, label \in Label, eager \in Eager : Arrives(i, p, label, eager)
         \/ InsertRaises(i) \/ SearchLead(i) \/ SearchFails(i)
         \/ CreateFails(i) \/ IngestAborts(i)
  PROVE  IInv'
<1> DEFINE me == req[i]
<1>a. me \in Ingest /\ unsure \subseteq Phone
  BY DEF IInv, TypeOK
<1>b. me.pc # "idle" => me.phone \in Phone
  BY DEF IInv, RequestsAreSound
<1>c. me.pc # "link" => \A p \in Phone : ~Holding(i, p)
  BY DEF Holding
<1>1. ASSUME NEW p \in Phone, NEW label \in Label, NEW eager \in Eager,
             Arrives(i, p, label, eager)
      PROVE  IInv'
  <2> DEFINE pc == IF Known(p) THEN "append" ELSE "insert"
             x  == [pc |-> pc, phone |-> p, label |-> label, seen |-> row[p],
                    eager |-> eager, lead |-> "none"]
  <2>1. req' = [req EXCEPT ![i] = x] /\ me.pc = "idle"
    BY <1>1 DEF Arrives
  <2>2. row[p] \in Row /\ eager \in BOOLEAN
    BY ModesAreBoolean DEF IInv, TypeOK
  <2>3. pc \in {"append", "insert"} /\ (pc = "append" => Known(p))
    OBVIOUS
  <2> HIDE DEF pc
  <2>4. x \in Ingest
    BY <2>2, <2>3 DEF Ingest
  <2>5. x.pc = pc /\ x.phone = p /\ x.label = label /\ x.seen = row[p]
    OBVIOUS
  <2> HIDE DEF x
  <2> QED  BY <1>1, <1>a, <1>c, <2>1, <2>3, <2>4, <2>5, RequestMoves DEF Arrives
<1>2. CASE InsertRaises(i)
  BY <1>2, <1>a, <1>c, RequestEnds DEF InsertRaises
<1>3. CASE SearchLead(i)
  <2>1. PICK lead \in Found(me.phone) :
          req' = [req EXCEPT ![i] = AtCrm(IF lead = "none" THEN "create" ELSE "link", me.phone, lead)]
    BY <1>3 DEF SearchLead
  <2>2. me.pc = "search" /\ Past(i) /\ me.phone \in Phone
    BY <1>3, <1>b DEF SearchLead, Past
  <2>3. lead \in Link \cup {"none"} /\ (lead # "none" => HasLead(crm, me.phone, lead))
    <3>1. lead = "theirs" => HasLead(crm, me.phone, lead)
      BY DEF Found, HasLead, Ours
    <3>2. lead \in Ours => HasLead(crm, me.phone, lead)
      BY InCrmHasLead DEF Found, Link, Ours
    <3>3. lead \in Link \cup {"none"}
      BY DEF Found, Link
    <3> QED  BY <3>1, <3>2, <3>3 DEF Link
  <2> DEFINE pc == IF lead = "none" THEN "create" ELSE "link"
  <2>4. pc \in {"create", "link"} /\ (pc = "link" => lead # "none")
    OBVIOUS
  <2> HIDE DEF pc
  <2> DEFINE x == AtCrm(pc, me.phone, lead)
  <2>5. x \in Ingest /\ x.pc = pc /\ x.phone = me.phone /\ x.lead = lead
    BY <2>2, <2>3, <2>4, AtCrmTyped
  <2>6. req' = [req EXCEPT ![i] = x]
    BY <2>1 DEF pc
  <2> HIDE DEF x
  <2> QED  BY <1>3, <1>a, <1>c, <2>2, <2>3, <2>4, <2>5, <2>6, RequestMoves DEF SearchLead
<1>4. CASE SearchFails(i)
  <2>1. me.pc = "search" /\ Past(i) /\ me.phone \in Phone
    BY <1>4, <1>b DEF SearchFails, Past
  <2> DEFINE x == AtCrm("create", me.phone, "none")
  <2>2. x \in Ingest /\ x.pc = "create" /\ x.phone = me.phone
    BY <2>1, AtCrmTyped
  <2>3. req' = [req EXCEPT ![i] = x]
    BY <1>4 DEF SearchFails
  <2> HIDE DEF x
  <2> QED  BY <1>4, <1>a, <1>c, <2>1, <2>2, <2>3, RequestMoves DEF SearchFails
<1>5. CASE CreateFails(i)
  BY <1>5, <1>a, <1>c, RequestEnds DEF CreateFails
<1>6. CASE IngestAborts(i)
  <2>1. unsure \subseteq unsure' /\ unsure' \subseteq Phone
    BY <1>6, <1>a, <1>b DEF IngestAborts
  <2>2. \A p \in Phone : Holding(i, p) => p \in unsure'
    BY <1>6 DEF IngestAborts, Holding
  <2> QED  BY <1>6, <2>1, <2>2, RequestEnds DEF IngestAborts
<1> QED  BY <1>1, <1>2, <1>3, <1>4, <1>5, <1>6

\* The lead of a request or of a verdict is there: at most one is ours unless the
\* phone number is unsure or contested.
LEMMA PostedKeeps ==
  ASSUME IInv, NEW p \in Phone, Posted(p), UNCHANGED <<row, contested>>,
         unsure \subseteq unsure',
         p \notin unsure \cup contested =>
           /\ row[p].lead = "none"
           /\ \A j \in Judge : ~Saving(j, p)
           /\ \A i \in Request : ~Holding(i, p)
  PROVE  OneLeadOfOurs' /\ LinksHold'
<1>1. /\ p \notin unsure \cup contested => crm'[p].ours = 1
      /\ \A q \in Phone : q # p => crm'[q] = crm[q]
      /\ \A q \in Phone, id \in Link : HasLead(crm, q, id) => HasLead(crm', q, id)
  <2>1. p \notin unsure \cup contested => crm[p].ours = 0
    BY DEF IInv, EveryLeadIsKnown
  <2> QED  BY <2>1, PostedCounts DEF IInv
<1>2. OneLeadOfOurs'
  BY <1>1 DEF IInv, OneLeadOfOurs
<1>3. LinksHold'
  <2>1. \A q \in Phone : row[q].lead # "none" => row[q].lead \in Link
    BY DEF IInv, TypeOK, Row
  <2> QED  BY <1>1, <2>1 DEF IInv, LinksHold
<1> QED  BY <1>2, <1>3

\* A request at KeyCRM posts a lead and goes on as x.
LEMMA RequestPosts ==
  ASSUME IInv, NEW i \in Request, req[i].pc = "create", NEW x \in Ingest,
         req' = [req EXCEPT ![i] = x],
         UNCHANGED <<row, judge, contested>>, Posted(req[i].phone),
         unsure \subseteq unsure', unsure' \subseteq Phone,
         x.pc \in {"idle", "create", "link"},
         x.pc # "idle" => x.phone = req[i].phone,
         x.pc = "link" => x.lead = NewId(req[i].phone),
         x.pc = "link" \/ req[i].phone \in unsure'
  PROVE  IInv'
<1> DEFINE p == req[i].phone
<1>a. p \in Phone /\ Past(i)
  BY DEF IInv, RequestsAreSound, Past
<1>b. p \notin contested => row[p].lead = "none" /\ \A j \in Judge : ~Working(j, p)
  BY <1>a DEF IInv, Undisputed
<1>c. \A j \in Request : ~Holding(j, p)
  BY <1>a DEF IInv, PastIsAlone, Past, Holding
<1>d. /\ crm' \in [Phone -> Crm]
      /\ NewId(p) \in Ours /\ HasLead(crm', p, NewId(p))
      /\ \A q \in Phone : q # p => crm'[q] = crm[q]
      /\ \A q \in Phone, id \in Link : HasLead(crm, q, id) => HasLead(crm', q, id)
  BY <1>a, PostedCounts DEF IInv
<1>1. req' \in [Request -> Ingest] /\ \A j \in Request : req'[j] = IF j = i THEN x ELSE req[j]
  BY DEF IInv, TypeOK
<1>2. TypeOK'
  BY <1>1, <1>d DEF IInv, TypeOK
<1>3. RequestsAreSound'
  BY <1>1, <1>a DEF IInv, RequestsAreSound, Known
<1>4. \A j \in Request : Past(j)' => Past(j) /\ req'[j].phone = req[j].phone
  BY <1>1, <1>a DEF Past
<1>5. PastIsAlone'
  BY <1>4 DEF IInv, PastIsAlone, Known
<1>6. VerdictsAreSound' /\ UnknownIsBare'
  BY DEF IInv, VerdictsAreSound, UnknownIsBare, Known
<1>7. Undisputed'
  BY <1>4 DEF IInv, Undisputed, Working
<1>8. \A j \in Request, q \in Phone : Holding(j, q) => Holding(j, q)'
  BY <1>1 DEF Holding
<1>9. p \notin unsure' => Holding(i, p)'
  BY <1>1, <1>d DEF Holding
<1>10. EveryLeadIsKnown'
  <2> SUFFICES ASSUME NEW q \in Phone, q \notin unsure', q \notin contested, row[q].lead = "none",
                      \A j \in Judge : ~Saving(j, q), \A j \in Request : ~Holding(j, q)'
               PROVE  crm'[q].ours = 0
    BY DEF EveryLeadIsKnown, Saving
  <2>1. q # p
    BY <1>9
  <2>2. \A j \in Request : ~Holding(j, q)
    BY <1>8
  <2> QED  BY <2>1, <2>2, <1>d DEF IInv, EveryLeadIsKnown
<1>11. HeldLeadExists'
  <2>1. ASSUME NEW j \in Request, req'[j].pc = "link"
        PROVE  req'[j].lead \in Link /\ HasLead(crm', req'[j].phone, req'[j].lead)
    <3>1. CASE j = i
      BY <2>1, <3>1, <1>1, <1>d DEF Link
    <3>2. CASE j # i
      <4>1. req'[j] = req[j] /\ req[j].phone \in Phone
        BY <2>1, <3>2, <1>1 DEF IInv, RequestsAreSound
      <4>2. req[j].lead \in Link /\ HasLead(crm, req[j].phone, req[j].lead)
        BY <2>1, <4>1 DEF IInv, HeldLeadExists
      <4> QED  BY <4>1, <4>2, <1>d
    <3> QED  BY <3>1, <3>2
  <2>2. ASSUME NEW j \in Judge, judge[j].pc = "save"
        PROVE  HasLead(crm', judge[j].phone, judge[j].lead)
    BY <2>2, <1>d DEF IInv, HeldLeadExists, VerdictsAreSound, Link
  <2>3. judge' = judge
    OBVIOUS
  <2> QED  BY <2>1, <2>2, <2>3 DEF HeldLeadExists
<1>12. OneLeadOfOurs' /\ LinksHold'
  BY <1>a, <1>b, <1>c, PostedKeeps DEF Saving, Working
<1> QED  BY <1>2, <1>3, <1>5, <1>6, <1>7, <1>10, <1>11, <1>12 DEF IInv

LEMMA IngestPosts ==
  ASSUME IInv, NEW i \in Request, CreateLead(i) \/ ReplyLost(i)
  PROVE  IInv'
<1> DEFINE me == req[i]
<1>a. me.pc = "create" /\ me.phone \in Phone
  BY DEF CreateLead, ReplyLost, IInv, RequestsAreSound
<1>b. unsure \subseteq Phone
  BY DEF IInv, TypeOK
<1>1. CASE CreateLead(i)
  <2> DEFINE x == AtCrm("link", me.phone, NewId(me.phone))
  <2>1. NewId(me.phone) \in Link
    BY DEF NewId, Link, Ours
  <2>2. x \in Ingest /\ x.pc = "link" /\ x.phone = me.phone /\ x.lead = NewId(me.phone)
    BY <1>a, <2>1, AtCrmTyped
  <2>3. req' = [req EXCEPT ![i] = x]
    BY <1>1 DEF CreateLead
  <2> HIDE DEF x
  <2> QED  BY <1>1, <1>a, <1>b, <2>2, <2>3, RequestPosts DEF CreateLead
<1>2. CASE ReplyLost(i)
  <2>1. PICK x \in {AtCrm("create", me.phone, "none"), IdleIngest} : req' = [req EXCEPT ![i] = x]
    BY <1>2 DEF ReplyLost
  <2>2. /\ x \in Ingest /\ x.pc \in {"idle", "create"}
        /\ x.pc # "idle" => x.phone = me.phone
    BY <1>a, AtCrmTyped, IdleIngestTyped
  <2>3. unsure' = unsure \cup {me.phone}
    BY <1>2 DEF ReplyLost
  <2> QED  BY <1>2, <1>a, <1>b, <2>1, <2>2, <2>3, RequestPosts DEF ReplyLost
<1> QED  BY <1>1, <1>2

\* A new row: nobody is at KeyCRM for it, and no verdict works on it.
LEMMA InsertKeeps ==
  ASSUME IInv, NEW i \in Request, InsertRow(i)
  PROVE  IInv'
<1> DEFINE me == req[i]
           p  == me.phone
           r  == [origin |-> me.label, more |-> {}, lead |-> "none"]
           x  == IF me.eager THEN AtCrm("search", p, "none") ELSE IdleIngest
<1>a. p \in Phone /\ me.label \in Label /\ ~Known(p)
  BY DEF InsertRow, Insertable, IInv, RequestsAreSound
<1>b. /\ r \in Row /\ r.origin = me.label /\ r.lead = "none"
  BY <1>a DEF Row
<1>c. /\ x \in Ingest /\ x.pc \in {"idle", "search"}
      /\ x.pc # "idle" => x.phone = p
  BY <1>a, AtCrmTyped, IdleIngestTyped
<1>d. row' = [row EXCEPT ![p] = r] /\ req' = [req EXCEPT ![i] = x]
      /\ UNCHANGED <<crm, judge, unsure, contested>>
  BY DEF InsertRow
<1> HIDE DEF r, x
<1>1. /\ row' \in [Phone -> Row] /\ req' \in [Request -> Ingest]
      /\ \A q \in Phone : row'[q] = IF q = p THEN r ELSE row[q]
      /\ \A j \in Request : req'[j] = IF j = i THEN x ELSE req[j]
  BY <1>a, <1>b, <1>c, <1>d DEF IInv, TypeOK
<1>2. TypeOK'
  BY <1>1, <1>d DEF IInv, TypeOK
<1>3. row[p].lead = "none" /\ me.pc = "insert" /\ \A j \in Judge : ~Working(j, p)
  BY <1>a DEF IInv, UnknownIsBare, VerdictsAreSound, Working, InsertRow
<1>4. row'[p].origin # NoLabel /\ \A q \in Phone : Known(q) => Known(q)'
  BY <1>1, <1>a, <1>b DEF Known
<1>5. \A q \in Phone : row'[q].lead = row[q].lead
  BY <1>1, <1>b, <1>3
<1>6. RequestsAreSound'
  BY <1>1, <1>a, <1>c, <1>4 DEF IInv, RequestsAreSound, Known
<1>7. VerdictsAreSound' /\ UnknownIsBare'
  BY <1>4, <1>5, <1>d DEF IInv, VerdictsAreSound, UnknownIsBare
<1>8. \A j \in Request : Past(j) => j # i /\ req[j].phone \in Phone /\ req[j].phone # p
  BY <1>a, <1>3 DEF IInv, PastIsAlone, Past, RequestsAreSound
<1>9. /\ \A j \in Request : Past(j)' /\ j # i => Past(j) /\ req'[j] = req[j]
      /\ Past(i)' => req'[i].phone = p
  BY <1>1, <1>c DEF Past
<1>10. PastIsAlone'
  <2> SUFFICES ASSUME NEW j \in Request, Past(j)'
               PROVE  /\ Known(req[j].phone)'
                      /\ \A k \in Request : Past(k)' /\ req'[k].phone = req'[j].phone => j = k
    BY DEF PastIsAlone
  <2>1. CASE j = i
    BY <2>1, <1>4, <1>8, <1>9 DEF Known
  <2>2. CASE j # i
    <3>1. Past(j) /\ req'[j] = req[j] /\ req[j].phone \in Phone /\ req[j].phone # p
      BY <2>2, <1>8, <1>9
    <3>2. Known(req[j].phone)'
      BY <3>1, <1>4 DEF IInv, PastIsAlone, Known
    <3> QED  BY <3>1, <3>2, <1>9 DEF IInv, PastIsAlone, Known
  <2> QED  BY <2>1, <2>2
<1>11. Undisputed'
  <2> SUFFICES ASSUME NEW q \in Phone, q \notin contested
               PROVE  /\ \A j \in Request : Past(j)' /\ req'[j].phone = q =>
                           row'[q].lead = "none" /\ \A k \in Judge : ~Working(k, q)
                      /\ \A j \in Judge : Working(j, q) => row'[q].lead = "none"
                      /\ \A j, k \in Judge : Working(j, q) /\ Working(k, q) => j = k
    BY <1>d DEF Undisputed, Working
  <2>1. CASE q = p
    BY <2>1, <1>3, <1>5
  <2>2. CASE q # p
    BY <2>2, <1>5, <1>9 DEF IInv, Undisputed
  <2> QED  BY <2>1, <2>2
<1>12. \A j \in Request : req'[j].pc = "link" => req'[j] = req[j]
  BY <1>1, <1>c
<1>13. \A j \in Request, q \in Phone : Holding(j, q) => Holding(j, q)'
  BY <1>1, <1>3 DEF Holding
<1>14. EveryLeadIsKnown'
  BY <1>5, <1>13, <1>d DEF IInv, EveryLeadIsKnown, Saving
<1>15. HeldLeadExists'
  BY <1>12, <1>d DEF IInv, HeldLeadExists
<1>16. OneLeadOfOurs' /\ LinksHold'
  BY <1>5, <1>d DEF IInv, OneLeadOfOurs, LinksHold
<1> QED  BY <1>2, <1>6, <1>7, <1>10, <1>11, <1>14, <1>15, <1>16 DEF IInv

LEMMA AppendKeeps ==
  ASSUME IInv, NEW i \in Request, AppendSource(i)
  PROVE  IInv' /\ \A q \in Phone : row'[q].origin = row[q].origin /\ row'[q].lead = row[q].lead
<1> DEFINE me == req[i]
           p  == me.phone
           r  == [origin |-> me.seen.origin, more |-> me.seen.more \cup {me.label},
                  lead |-> row[p].lead]
<1>a. /\ p \in Phone /\ me.label \in Label /\ me.seen.origin = row[p].origin
      /\ me.pc = "append"
  BY DEF AppendSource, IInv, RequestsAreSound
<1>b. row[p] \in Row /\ me.seen \in Row
  BY <1>a DEF IInv, TypeOK, Ingest
<1>c. r \in Row /\ r.origin = row[p].origin /\ r.lead = row[p].lead
  BY <1>a, <1>b DEF Row
<1>d. row' = [row EXCEPT ![p] = r] /\ req' = [req EXCEPT ![i] = IdleIngest]
      /\ UNCHANGED <<crm, judge, unsure, contested>>
  BY DEF AppendSource
<1> HIDE DEF r
<1>1. /\ row' \in [Phone -> Row] /\ req' \in [Request -> Ingest]
      /\ \A q \in Phone : row'[q] = IF q = p THEN r ELSE row[q]
      /\ \A j \in Request : req'[j] = IF j = i THEN IdleIngest ELSE req[j]
  BY <1>a, <1>c, <1>d, IdleIngestTyped DEF IInv, TypeOK
<1>2. TypeOK'
  BY <1>1, <1>d DEF IInv, TypeOK
<1>3. \A q \in Phone : row'[q].origin = row[q].origin /\ row'[q].lead = row[q].lead
  BY <1>1, <1>c
<1>4. \A q \in Phone : Known(q)' <=> Known(q)
  BY <1>3 DEF Known
<1>5. \A j \in Request : req'[j].pc # "idle" => req'[j] = req[j] /\ req[j].phone \in Phone
  BY <1>1, IdleIngestTyped DEF IInv, RequestsAreSound
<1>6. RequestsAreSound'
  BY <1>3, <1>4, <1>5 DEF IInv, RequestsAreSound
<1>7. PastIsAlone'
  BY <1>4, <1>5 DEF IInv, PastIsAlone, Past
<1>8. VerdictsAreSound' /\ UnknownIsBare'
  BY <1>3, <1>4, <1>d DEF IInv, VerdictsAreSound, UnknownIsBare
<1>9. Undisputed'
  BY <1>3, <1>5, <1>d DEF IInv, Undisputed, Past, Working
<1>10. \A j \in Request, q \in Phone : Holding(j, q) => Holding(j, q)'
  BY <1>1, <1>a DEF Holding
<1>11. EveryLeadIsKnown'
  BY <1>3, <1>10, <1>d DEF IInv, EveryLeadIsKnown, Saving
<1>12. HeldLeadExists'
  BY <1>5, <1>d DEF IInv, HeldLeadExists
<1>13. OneLeadOfOurs' /\ LinksHold'
  BY <1>3, <1>d DEF IInv, OneLeadOfOurs, LinksHold
<1> QED  BY <1>2, <1>3, <1>6, <1>7, <1>8, <1>9, <1>11, <1>12, <1>13 DEF IInv

\* An id is stored on the row of p, by a request or a verdict that then is done.
LEMMA IdStored ==
  ASSUME IInv, TypeOK', NEW p \in Phone, Known(p), NEW lead \in Link, HasLead(crm, p, lead),
         row' = [row EXCEPT ![p] = [origin |-> row[p].origin, more |-> row[p].more, lead |-> lead]],
         UNCHANGED <<crm, unsure, contested>>,
         \A i \in Request : req'[i].pc # "idle" => req'[i] = req[i],
         \A j \in Judge : judge'[j].pc # "idle" => judge'[j] = judge[j],
         \A i \in Request, q \in Phone : q # p /\ Holding(i, q) => Holding(i, q)',
         \A j \in Judge, q \in Phone : q # p /\ Saving(j, q) => Saving(j, q)',
         p \notin contested => /\ \A i \in Request : Past(i)' => req[i].phone # p
                               /\ \A j \in Judge : ~Working(j, p)'
  PROVE  IInv'
<1>1. /\ \A q \in Phone : row'[q].origin = row[q].origin
      /\ \A q \in Phone : q # p => row'[q].lead = row[q].lead
      /\ row'[p].lead = lead /\ lead # "none"
  BY DEF IInv, TypeOK, Link, Ours
<1>2. \A q \in Phone : Known(q)' <=> Known(q)
  BY <1>1 DEF Known
<1>3. RequestsAreSound'
  BY <1>1, <1>2 DEF IInv, RequestsAreSound
<1>4. VerdictsAreSound'
  BY <1>2 DEF IInv, VerdictsAreSound
<1>5. \A i \in Request : Past(i)' => Past(i) /\ req'[i] = req[i] /\ req[i].phone \in Phone
  BY DEF Past, IInv, RequestsAreSound
<1>6. PastIsAlone'
  BY <1>2, <1>5 DEF IInv, PastIsAlone
<1>7. \A j \in Judge, q \in Phone : Working(j, q)' => Working(j, q)
  BY DEF Working
<1>8. Undisputed'
  <2> SUFFICES ASSUME NEW q \in Phone, q \notin contested
               PROVE  /\ \A i \in Request : Past(i)' /\ req'[i].phone = q =>
                           row'[q].lead = "none" /\ \A j \in Judge : ~Working(j, q)'
                      /\ \A j \in Judge : Working(j, q)' => row'[q].lead = "none"
                      /\ \A j, k \in Judge : Working(j, q)' /\ Working(k, q)' => j = k
    BY DEF Undisputed
  <2>1. CASE q = p
    BY <2>1, <1>5
  <2>2. CASE q # p
    BY <2>2, <1>1, <1>5, <1>7 DEF IInv, Undisputed
  <2> QED  BY <2>1, <2>2
<1>9. UnknownIsBare'
  BY <1>1, <1>2 DEF IInv, UnknownIsBare
<1>10. EveryLeadIsKnown'
  <2> SUFFICES ASSUME NEW q \in Phone, q \notin unsure, q \notin contested, row'[q].lead = "none",
                      \A j \in Judge : ~Saving(j, q)', \A i \in Request : ~Holding(i, q)'
               PROVE  crm[q].ours = 0
    BY DEF EveryLeadIsKnown
  <2>1. q # p
    BY <1>1
  <2> QED  BY <2>1, <1>1 DEF IInv, EveryLeadIsKnown
<1>11. HeldLeadExists'
  BY DEF IInv, HeldLeadExists
<1>12. OneLeadOfOurs'
  BY DEF IInv, OneLeadOfOurs
<1>13. LinksHold'
  BY <1>1 DEF IInv, LinksHold
<1> QED  BY <1>3, <1>4, <1>6, <1>8, <1>9, <1>10, <1>11, <1>12, <1>13 DEF IInv

\* The row of p with an id, as the columns allow.
LEMMA LinkedRowTyped ==
  ASSUME IInv, NEW p \in Phone, NEW lead \in Link,
         row' = [row EXCEPT ![p] = [origin |-> row[p].origin, more |-> row[p].more, lead |-> lead]]
  PROVE  row' \in [Phone -> Row]
<1> DEFINE r == [origin |-> row[p].origin, more |-> row[p].more, lead |-> lead]
<1>1. row[p] \in Row
  BY DEF IInv, TypeOK
<1>2. r \in Row
  BY <1>1 DEF Row
<1> HIDE DEF r
<1> QED  BY <1>2 DEF IInv, TypeOK, r

LEMMA StoreKeeps ==
  ASSUME IInv, NEW i \in Request, StoreLead(i)
  PROVE  IInv'
<1>1. PICK p \in Phone : p = req[i].phone
  BY DEF StoreLead, IInv, RequestsAreSound
<1>2. PICK lead \in Link : lead = req[i].lead
  BY DEF StoreLead, IInv, HeldLeadExists
<1>3. Past(i) /\ Known(p) /\ HasLead(crm, p, lead)
  BY <1>1, <1>2 DEF StoreLead, Past, IInv, PastIsAlone, HeldLeadExists
<1>4. /\ row' = [row EXCEPT ![p] = [origin |-> row[p].origin, more |-> row[p].more, lead |-> lead]]
      /\ req' = [req EXCEPT ![i] = IdleIngest]
      /\ UNCHANGED <<crm, judge, unsure, contested>>
  BY <1>1, <1>2 DEF StoreLead
<1>5. /\ req' \in [Request -> Ingest]
      /\ \A k \in Request : req'[k] = IF k = i THEN IdleIngest ELSE req[k]
  BY <1>4, IdleIngestTyped DEF IInv, TypeOK
<1>6. row' \in [Phone -> Row]
  BY <1>4, LinkedRowTyped
<1>7. TypeOK'
  BY <1>4, <1>5, <1>6 DEF IInv, TypeOK
<1>8. \A k \in Request : Past(k)' => Past(k) /\ k # i
  BY <1>5, IdleIngestTyped DEF Past
<1>9. /\ \A k \in Request : Past(k)' => req[k].phone # p
      /\ p \notin contested => \A j \in Judge : ~Working(j, p)'
  BY <1>1, <1>3, <1>4, <1>8 DEF IInv, PastIsAlone, Undisputed, Working
<1>10. \A k \in Request, q \in Phone : q # p /\ Holding(k, q) => Holding(k, q)'
  BY <1>1, <1>5 DEF Holding
<1>11. \A k \in Request : req'[k].pc # "idle" => req'[k] = req[k]
  BY <1>5, IdleIngestTyped
<1>12. \A j \in Judge, q \in Phone : Saving(j, q) => Saving(j, q)'
  BY <1>4 DEF Saving
<1> QED  BY <1>3, <1>4, <1>7, <1>9, <1>10, <1>11, <1>12, IdStored

\* A verdict that leaves the rows alone, and lets go of an id only when the phone
\* number is noted as unsure.
LEMMA VerdictMoves ==
  ASSUME IInv, NEW j \in Judge, judge[j].pc # "idle", NEW v \in Verdict,
         judge' = [judge EXCEPT ![j] = v], UNCHANGED <<row, req, contested>>,
         v.pc # "idle" => v.phone = judge[j].phone,
         crm' = crm \/ Posted(judge[j].phone),
         unsure \subseteq unsure', unsure' \subseteq Phone,
         judge[j].pc = "save" => v.pc = "idle" /\ judge[j].phone \in unsure' /\ crm' = crm,
         crm' # crm => v.pc = "save" \/ judge[j].phone \in unsure',
         v.pc = "save" => v.lead \in Ours /\ HasLead(crm', judge[j].phone, v.lead)
  PROVE  IInv'
<1> DEFINE p == judge[j].phone
<1>a. p \in Phone /\ Known(p) /\ Working(j, p)
  BY DEF IInv, VerdictsAreSound, Working
<1>b. p \notin contested =>
        /\ row[p].lead = "none" /\ \A i \in Request : ~Holding(i, p)
        /\ \A k \in Judge : Working(k, p) => k = j
  BY <1>a DEF IInv, Undisputed, Holding, Past
<1>c. /\ judge' \in [Judge -> Verdict]
      /\ \A k \in Judge : judge'[k] = IF k = j THEN v ELSE judge[k]
  BY DEF IInv, TypeOK
<1>d. /\ crm' \in [Phone -> Crm]
      /\ \A q \in Phone : q # p => crm'[q] = crm[q]
      /\ \A q \in Phone, id \in Link : HasLead(crm, q, id) => HasLead(crm', q, id)
  <2>1. CASE crm' = crm
    BY <2>1 DEF IInv, TypeOK
  <2>2. CASE Posted(p)
    BY <2>2, <1>a, PostedCounts DEF IInv
  <2> QED  BY <2>1, <2>2
<1>1. TypeOK'
  BY <1>c, <1>d DEF IInv, TypeOK
<1>2. RequestsAreSound' /\ PastIsAlone' /\ UnknownIsBare'
  BY DEF IInv, RequestsAreSound, PastIsAlone, Past, UnknownIsBare, Known
<1>3. VerdictsAreSound'
  BY <1>a, <1>c DEF IInv, VerdictsAreSound, Known
<1>4. \A k \in Judge, q \in Phone : Working(k, q)' => Working(k, q)
  BY <1>c DEF Working
<1>5. Undisputed'
  BY <1>4 DEF IInv, Undisputed, Past
<1>6. EveryLeadIsKnown'
  <2> SUFFICES ASSUME NEW q \in Phone, q \notin unsure', q \notin contested, row[q].lead = "none",
                      \A k \in Judge : ~Saving(k, q)', \A i \in Request : ~Holding(i, q)
               PROVE  crm'[q].ours = 0
    BY DEF EveryLeadIsKnown, Holding
  <2>1. CASE q # p
    <3>1. \A k \in Judge : ~Saving(k, q)
      BY <2>1, <1>c DEF Saving
    <3> QED  BY <2>1, <3>1, <1>d DEF IInv, EveryLeadIsKnown
  <2>2. CASE q = p
    <3>1. v.pc # "save" /\ crm' = crm
      BY <2>2, <1>c DEF Saving
    <3>2. \A k \in Judge : ~Saving(k, p)
      BY <2>2, <1>b DEF Saving, Working
    <3> QED  BY <2>2, <3>1, <3>2 DEF IInv, EveryLeadIsKnown
  <2> QED  BY <2>1, <2>2
<1>7. HeldLeadExists'
  <2>1. ASSUME NEW i \in Request, req[i].pc = "link"
        PROVE  req[i].lead \in Link /\ HasLead(crm', req[i].phone, req[i].lead)
    BY <2>1, <1>d DEF IInv, HeldLeadExists, RequestsAreSound
  <2>2. ASSUME NEW k \in Judge, judge'[k].pc = "save"
        PROVE  HasLead(crm', judge'[k].phone, judge'[k].lead)
    <3>1. CASE k = j
      BY <2>2, <3>1, <1>c
    <3>2. CASE k # j
      <4>1. judge'[k] = judge[k] /\ judge[k].phone \in Phone /\ judge[k].lead \in Link
        BY <2>2, <3>2, <1>c DEF IInv, VerdictsAreSound, Link
      <4> QED  BY <2>2, <4>1, <1>d DEF IInv, HeldLeadExists
    <3> QED  BY <3>1, <3>2
  <2> QED  BY <2>1, <2>2 DEF HeldLeadExists
<1>8. OneLeadOfOurs' /\ LinksHold'
  <2>1. CASE crm' = crm
    BY <2>1 DEF IInv, OneLeadOfOurs, LinksHold
  <2>2. CASE crm' # crm
    <3>1. p \notin contested => \A k \in Judge : ~Saving(k, p)
      BY <2>2, <1>b DEF Saving, Working
    <3> QED  BY <2>2, <3>1, <1>a, <1>b, PostedKeeps
  <2> QED  BY <2>1, <2>2
<1> QED  BY <1>1, <1>2, <1>3, <1>5, <1>6, <1>7, <1>8 DEF IInv

\* A verdict begins: alone, or the phone number is contested from now on.
LEMMA VerdictReadsKeeps ==
  ASSUME IInv, NEW j \in Judge, NEW p \in Phone, VerdictReads(j, p)
  PROVE  IInv'
<1> DEFINE v == Deciding("create", p, "none")
<1>a. v \in Verdict /\ v.pc = "create" /\ v.phone = p
  BY DecidingTyped
<1>b. judge' = [judge EXCEPT ![j] = v] /\ UNCHANGED <<row, crm, req, unsure>>
  BY DEF VerdictReads
<1>c. Known(p) /\ row[p].lead = "none" /\ judge[j].pc = "idle"
  BY DEF VerdictReads, NeedsLead
<1>d. /\ contested \subseteq contested' /\ contested' \subseteq contested \cup {p}
      /\ p \notin contested' => ~AtKeyCrm(p) /\ ~Judged(p)
  BY DEF VerdictReads
<1> HIDE DEF v
<1>1. /\ judge' \in [Judge -> Verdict]
      /\ \A k \in Judge : judge'[k] = IF k = j THEN v ELSE judge[k]
  BY <1>a, <1>b DEF IInv, TypeOK
<1>2. TypeOK'
  BY <1>1, <1>b, <1>d DEF IInv, TypeOK
<1>3. RequestsAreSound' /\ PastIsAlone'
  BY <1>b DEF IInv, RequestsAreSound, PastIsAlone, Past, Known
<1>4. VerdictsAreSound'
  BY <1>1, <1>a, <1>b, <1>c DEF IInv, VerdictsAreSound, Known
<1>5. UnknownIsBare'
  BY <1>b, <1>c, <1>d DEF IInv, UnknownIsBare, Known
<1>6. Undisputed'
  <2> SUFFICES ASSUME NEW q \in Phone, q \notin contested'
               PROVE  /\ \A i \in Request : Past(i) /\ req[i].phone = q =>
                           row[q].lead = "none" /\ \A k \in Judge : ~Working(k, q)'
                      /\ \A k \in Judge : Working(k, q)' => row[q].lead = "none"
                      /\ \A k, l \in Judge : Working(k, q)' /\ Working(l, q)' => k = l
    BY <1>b DEF Undisputed, Past
  <2>1. CASE q = p
    <3>1. \A k \in Judge : Working(k, p)' => k = j
      BY <2>1, <1>1, <1>d DEF Working, Judged
    <3>2. \A i \in Request : Past(i) => req[i].phone # p
      BY <2>1, <1>d DEF AtKeyCrm, Past
    <3> QED  BY <2>1, <3>1, <3>2, <1>c
  <2>2. CASE q # p
    <3>1. \A k \in Judge : Working(k, q)' => Working(k, q)
      BY <2>2, <1>1, <1>a DEF Working
    <3> QED  BY <2>2, <3>1, <1>d DEF IInv, Undisputed
  <2> QED  BY <2>1, <2>2
<1>7. EveryLeadIsKnown'
  <2>1. \A k \in Judge, q \in Phone : Saving(k, q) => Saving(k, q)'
    BY <1>1, <1>c DEF Saving
  <2> QED  BY <2>1, <1>b, <1>d DEF IInv, EveryLeadIsKnown, Holding
<1>8. HeldLeadExists'
  BY <1>1, <1>a, <1>b DEF IInv, HeldLeadExists
<1>9. OneLeadOfOurs' /\ LinksHold'
  BY <1>b, <1>d DEF IInv, OneLeadOfOurs, LinksHold
<1> QED  BY <1>2, <1>3, <1>4, <1>5, <1>6, <1>7, <1>8, <1>9 DEF IInv

LEMMA VerdictSavesKeeps ==
  ASSUME IInv, NEW j \in Judge, VerdictSaves(j)
  PROVE  IInv'
<1>1. PICK p \in Phone : p = judge[j].phone
  BY DEF VerdictSaves, IInv, VerdictsAreSound
<1>2. PICK lead \in Link : lead = judge[j].lead
  BY DEF VerdictSaves, IInv, VerdictsAreSound, Link
<1>3. Working(j, p) /\ Known(p) /\ HasLead(crm, p, lead)
  BY <1>1, <1>2 DEF VerdictSaves, Working, IInv, VerdictsAreSound, HeldLeadExists
<1>4. /\ row' = [row EXCEPT ![p] = [origin |-> row[p].origin, more |-> row[p].more, lead |-> lead]]
      /\ judge' = [judge EXCEPT ![j] = IdleVerdict]
      /\ UNCHANGED <<crm, req, unsure, contested>>
  BY <1>1, <1>2 DEF VerdictSaves
<1>5. /\ judge' \in [Judge -> Verdict]
      /\ \A k \in Judge : judge'[k] = IF k = j THEN IdleVerdict ELSE judge[k]
  BY <1>4, IdleVerdictTyped DEF IInv, TypeOK
<1>6. row' \in [Phone -> Row]
  BY <1>4, LinkedRowTyped
<1>7. TypeOK'
  BY <1>4, <1>5, <1>6 DEF IInv, TypeOK
<1>8. p \notin contested => /\ \A i \in Request : Past(i)' => req[i].phone # p
                            /\ \A k \in Judge : ~Working(k, p)'
  BY <1>3, <1>4, <1>5, IdleVerdictTyped DEF IInv, Undisputed, Working, Past
<1>9. \A k \in Judge, q \in Phone : q # p /\ Saving(k, q) => Saving(k, q)'
  BY <1>1, <1>5 DEF Saving
<1>10. \A k \in Judge : judge'[k].pc # "idle" => judge'[k] = judge[k]
  BY <1>5, IdleVerdictTyped
<1>11. \A i \in Request, q \in Phone : Holding(i, q) => Holding(i, q)'
  BY <1>4 DEF Holding
<1> QED  BY <1>3, <1>4, <1>7, <1>8, <1>9, <1>10, <1>11, IdStored

LEMMA VerdictStepKeeps ==
  ASSUME IInv, NEW j \in Judge, VerdictStep(j)
  PROVE  IInv'
<1> DEFINE p == judge[j].phone
<1>a. unsure \subseteq Phone /\ judge[j] \in Verdict
  BY DEF IInv, TypeOK
<1>b. judge[j].pc # "idle" => p \in Phone
  BY DEF IInv, VerdictsAreSound
<1>1. CASE VerdictCreates(j)
  <2>1. p \in Phone /\ judge[j].pc = "create" /\ Posted(p)
    BY <1>1, <1>b DEF VerdictCreates
  <2>2. NewId(p) \in Ours /\ HasLead(crm', p, NewId(p))
    BY <2>1, PostedCounts DEF IInv
  <2>3. PICK lead : lead = NewId(p)
    OBVIOUS
  <2> DEFINE v == Deciding("save", p, lead)
  <2>4. v \in Verdict /\ v.pc = "save" /\ v.phone = p /\ v.lead = lead
    BY <2>1, <2>2, <2>3, DecidingTyped
  <2>5. judge' = [judge EXCEPT ![j] = v]
    BY <1>1, <2>3 DEF VerdictCreates
  <2>6. lead \in Ours /\ HasLead(crm', p, lead)
    BY <2>2, <2>3
  <2> HIDE DEF v
  <2> QED  BY <1>1, <1>a, <2>1, <2>4, <2>5, <2>6, VerdictMoves DEF VerdictCreates
<1>2. CASE VerdictReplyLost(j)
  <2>1. PICK v \in {judge[j], IdleVerdict} : judge' = [judge EXCEPT ![j] = v]
    BY <1>2 DEF VerdictReplyLost
  <2>2. v \in Verdict /\ v.pc # "save" /\ (v.pc # "idle" => v.phone = p)
    BY <1>2, <1>a, IdleVerdictTyped DEF VerdictReplyLost
  <2>3. unsure' = unsure \cup {p} /\ p \in Phone
    BY <1>2, <1>b DEF VerdictReplyLost
  <2> QED  BY <1>2, <1>a, <2>1, <2>2, <2>3, VerdictMoves DEF VerdictReplyLost
<1>3. CASE VerdictCreateFails(j)
  BY <1>3, <1>a, IdleVerdictTyped, VerdictMoves DEF VerdictCreateFails
<1>4. CASE VerdictSaves(j)
  BY <1>4, VerdictSavesKeeps
<1>5. CASE VerdictAborts(j)
  <2>1. unsure \subseteq unsure' /\ unsure' \subseteq Phone
    BY <1>5, <1>a, <1>b DEF VerdictAborts
  <2>2. judge[j].pc = "save" => p \in unsure'
    BY <1>5 DEF VerdictAborts
  <2> QED  BY <1>5, <2>1, <2>2, IdleVerdictTyped, VerdictMoves DEF VerdictAborts
<1> QED  BY <1>1, <1>2, <1>3, <1>4, <1>5 DEF VerdictStep

LEMMA ManagerKeeps ==
  ASSUME IInv, NEW p \in Phone, ManagerAdds(p)
  PROVE  IInv'
<1> DEFINE e == [ours |-> crm[p].ours, theirs |-> TRUE]
<1>a. crm[p] \in Crm
  BY DEF IInv, TypeOK
<1>b. e \in Crm /\ e.ours = crm[p].ours /\ e.theirs = TRUE
  BY <1>a DEF Crm
<1>c. crm' = [crm EXCEPT ![p] = e] /\ UNCHANGED <<row, req, judge, unsure, contested>>
  BY DEF ManagerAdds
<1> HIDE DEF e
<1>1. /\ crm' \in [Phone -> Crm]
      /\ \A q \in Phone : crm'[q].ours = crm[q].ours /\ (crm[q].theirs => crm'[q].theirs)
  BY <1>b, <1>c DEF IInv, TypeOK
<1>2. \A q \in Phone, id \in Link : HasLead(crm, q, id) => HasLead(crm', q, id)
  <2>1. \A q \in Phone : crm[q].ours \in 0..2
    BY DEF IInv, TypeOK, Crm, MaxLeads
  <2> QED  BY <1>1, <2>1, LeadsStay
<1>3. /\ TypeOK' /\ RequestsAreSound' /\ VerdictsAreSound' /\ PastIsAlone' /\ UnknownIsBare'
      /\ Undisputed'
  BY <1>1, <1>c DEF IInv, TypeOK, RequestsAreSound, VerdictsAreSound, PastIsAlone, Past,
                    UnknownIsBare, Undisputed, Working, Known
<1>4. EveryLeadIsKnown' /\ OneLeadOfOurs'
  BY <1>1, <1>c DEF IInv, EveryLeadIsKnown, Holding, Saving, OneLeadOfOurs
<1>5. LinksHold'
  <2>1. \A q \in Phone : row[q].lead # "none" => row[q].lead \in Link
    BY DEF IInv, TypeOK, Row
  <2> QED  BY <1>2, <1>c, <2>1 DEF IInv, LinksHold
<1>6. HeldLeadExists'
  <2>1. ASSUME NEW i \in Request, req[i].pc = "link"
        PROVE  req[i].lead \in Link /\ HasLead(crm', req[i].phone, req[i].lead)
    BY <2>1, <1>2 DEF IInv, HeldLeadExists, RequestsAreSound
  <2>2. ASSUME NEW j \in Judge, judge[j].pc = "save"
        PROVE  HasLead(crm', judge[j].phone, judge[j].lead)
    BY <2>2, <1>2 DEF IInv, HeldLeadExists, VerdictsAreSound, Link
  <2> QED  BY <2>1, <2>2, <1>c DEF HeldLeadExists
<1> QED  BY <1>3, <1>4, <1>5, <1>6 DEF IInv

THEOREM NextInv == IInv /\ [Next]_vars => IInv'
<1> SUFFICES ASSUME IInv, [Next]_vars PROVE IInv'
  OBVIOUS
<1>1. ASSUME NEW i \in Request, NEW p \in Phone, NEW label \in Label, NEW eager \in Eager,
             Arrives(i, p, label, eager)
      PROVE  IInv'
  BY <1>1, IngestQuiet
<1>2. ASSUME NEW i \in Request, IngestStep(i)
      PROVE  IInv'
  BY <1>2, IngestQuiet, IngestPosts, InsertKeeps, AppendKeeps, StoreKeeps DEF IngestStep
<1>3. ASSUME NEW j \in Judge, VerdictStep(j) \/ \E p \in Phone : VerdictReads(j, p)
      PROVE  IInv'
  BY <1>3, VerdictStepKeeps, VerdictReadsKeeps
<1>4. ASSUME NEW p \in Phone, ManagerAdds(p)
      PROVE  IInv'
  BY <1>4, ManagerKeeps
<1>5. CASE UNCHANGED vars
  BY <1>5 DEF vars, IInv, TypeOK, RequestsAreSound, VerdictsAreSound, PastIsAlone, Past,
              Undisputed, Working, UnknownIsBare, EveryLeadIsKnown, Holding, Saving,
              HeldLeadExists, OneLeadOfOurs, LinksHold, Known
<1> QED  BY <1>1, <1>2, <1>3, <1>4, <1>5 DEF Next

THEOREM Invariance == Spec => []IInv
BY InitInv, NextInv, PTL DEF Spec

-----------------------------------------------------------------------------
(* Results. *)

\* Every reachable state is well typed: rows, requests and verdicts stay in the states
\* the columns and the code's control points allow.
THEOREM TypeCorrect == Spec => []TypeOK
<1>1. IInv => TypeOK
  BY DEF IInv
<1> QED  BY <1>1, Invariance, PTL

\* However many ingests of a phone number run at once, in whatever mode, and
\* whatever fails: unless an id was lost or verdicts contended for the number,
\* KeyCRM has at most one lead of ours.
THEOREM AtMostOneLead == Spec => []OneLeadOfOurs
<1>1. IInv => OneLeadOfOurs
  BY DEF IInv
<1> QED  BY <1>1, Invariance, PTL

\* A lead id on a row is the id of a lead KeyCRM has, through every race and failure.
THEOREM LinksAreReal == Spec => []LinkedLeadExists
<1>1. IInv => LinkedLeadExists
  <2> SUFFICES ASSUME IInv, NEW p \in Phone, row[p].lead # "none" PROVE InCrm(p, row[p].lead)
    BY DEF LinkedLeadExists
  <2>1. row[p].lead \in Link /\ HasLead(crm, p, row[p].lead)
    BY DEF IInv, TypeOK, Row, LinksHold
  <2> QED  BY <2>1, InCrmHasLead
<1> QED  BY <1>1, Invariance, PTL

\* What LeadRegistry sees of the rows.
Entry == [p \in Phone |-> [origin |-> row[p].origin, lead |-> row[p].lead]]

LEMMA EntryUnchanged ==
  ASSUME \A p \in Phone : row'[p].origin = row[p].origin /\ row'[p].lead = row[p].lead
  PROVE  Entry' = Entry
BY DEF Entry

\* One row changes: the registry sees the change of its entry.
LEMMA EntryChanges ==
  ASSUME NEW p \in Phone, NEW origin, NEW lead,
         row'[p].origin = origin, row'[p].lead = lead,
         \A q \in Phone : q # p => row'[q] = row[q]
  PROVE  Entry' = [Entry EXCEPT ![p] = [origin |-> origin, lead |-> lead]]
BY DEF Entry

\* An id is stored: for good, unless the phone number is contested.
LEMMA LinkIsRegistered ==
  ASSUME IInv, NEW p \in Phone, NEW lead \in Link, Known(p), contested' = contested,
         p \notin contested => row[p].lead = "none",
         row' = [row EXCEPT ![p] = [origin |-> row[p].origin, more |-> row[p].more, lead |-> lead]]
  PROVE  Registry!Next
<1>1. row \in [Phone -> Row]
  BY DEF IInv, TypeOK
<1>2. Entry' = [Entry EXCEPT ![p] = [origin |-> row[p].origin, lead |-> lead]]
  BY <1>1, EntryChanges
<1>3. Entry[p].origin = row[p].origin /\ Entry[p].lead = row[p].lead
  BY DEF Entry
<1>4. Registry!LinkLead(p, lead)
  BY <1>2, <1>3 DEF Registry!LinkLead, Entry, Known
<1> QED  BY <1>4 DEF Registry!Next

\* The router implements the registry: a phone number is registered once, keeps its
\* first source, and is linked to a lead once unless verdicts contended for it, through
\* every race and failure.
THEOREM ImplementsRegistry == Spec => RegistrySpec
<1>1. Init => Registry!Init
  BY DEF Init, Registry!Init, NoRow, Registry!Nobody
<1>2. IInv /\ [Next]_vars => [Registry!Next]_<<Entry, contested>>
  <2> DEFINE Still == Entry' = Entry /\ contested' = contested
  <2> SUFFICES ASSUME IInv, [Next]_vars PROVE Registry!Next \/ Still
    OBVIOUS
  <2>1. row' = row /\ contested' = contested => Still
    BY EntryUnchanged
  <2> HIDE DEF Still
  <2>2. ASSUME NEW i \in Request, InsertRow(i) PROVE Registry!Next
    <3>1. PICK p \in Phone : p = req[i].phone
      BY <2>2 DEF InsertRow, IInv, RequestsAreSound
    <3>2. PICK label \in Label : label = req[i].label
      BY <2>2 DEF InsertRow, IInv, RequestsAreSound
    <3>3. ~Known(p) /\ row[p].lead = "none" /\ p \notin contested /\ row \in [Phone -> Row]
      BY <2>2, <3>1 DEF InsertRow, Insertable, IInv, UnknownIsBare, TypeOK
    <3>4. /\ row' = [row EXCEPT ![p] = [origin |-> label, more |-> {}, lead |-> "none"]]
          /\ contested' = contested
      BY <2>2, <3>1, <3>2 DEF InsertRow
    <3>5. Entry' = [Entry EXCEPT ![p] = [origin |-> label, lead |-> "none"]]
      BY <3>3, <3>4, EntryChanges
    <3>6. Entry[p] = Registry!Nobody
      BY <3>3 DEF Entry, Known, Registry!Nobody
    <3>7. Registry!Register(p, label)
      BY <3>4, <3>5, <3>6 DEF Registry!Register, Entry
    <3> QED  BY <3>7 DEF Registry!Next
  <2>3. ASSUME NEW i \in Request, StoreLead(i) PROVE Registry!Next
    <3>1. PICK p \in Phone : p = req[i].phone
      BY <2>3 DEF StoreLead, IInv, RequestsAreSound
    <3>2. PICK lead \in Link : lead = req[i].lead
      BY <2>3 DEF StoreLead, IInv, HeldLeadExists
    <3>3. Past(i) /\ Known(p)
      BY <2>3, <3>1 DEF StoreLead, IInv, PastIsAlone, Past
    <3>4. p \notin contested => row[p].lead = "none"
      BY <3>1, <3>3 DEF IInv, Undisputed
    <3> QED  BY <2>3, <3>1, <3>2, <3>3, <3>4, LinkIsRegistered DEF StoreLead
  <2>4. ASSUME NEW j \in Judge, VerdictSaves(j) PROVE Registry!Next
    <3>1. PICK p \in Phone : p = judge[j].phone
      BY <2>4 DEF VerdictSaves, IInv, VerdictsAreSound
    <3>2. PICK lead \in Link : lead = judge[j].lead
      BY <2>4 DEF VerdictSaves, IInv, VerdictsAreSound, Link
    <3>3. Working(j, p) /\ Known(p)
      BY <2>4, <3>1 DEF VerdictSaves, Working, IInv, VerdictsAreSound
    <3>4. p \notin contested => row[p].lead = "none"
      BY <3>3 DEF IInv, Undisputed
    <3> QED  BY <2>4, <3>1, <3>2, <3>3, <3>4, LinkIsRegistered DEF VerdictSaves
  <2>5. ASSUME NEW j \in Judge, NEW p \in Phone, VerdictReads(j, p)
        PROVE  Registry!Next \/ Still
    <3>1. CASE contested' = contested
      BY <2>1, <2>5, <3>1 DEF VerdictReads
    <3>2. CASE contested' = contested \cup {p}
      <4>1. row' = row /\ Known(p) /\ row[p].lead = "none"
        BY <2>5 DEF VerdictReads, NeedsLead
      <4>2. Entry[p].origin = row[p].origin /\ Entry[p].lead = "none" /\ Entry' = Entry
        BY <4>1 DEF Entry
      <4>3. Registry!Contest(p)
        BY <3>2, <4>1, <4>2 DEF Registry!Contest, Entry, Known
      <4> QED  BY <4>3 DEF Registry!Next
    <3> QED  BY <2>5, <3>1, <3>2 DEF VerdictReads
  <2>6. ASSUME NEW i \in Request, NEW p \in Phone, NEW label \in Label, NEW eager \in Eager,
               Arrives(i, p, label, eager)
        PROVE  Still
    BY <2>1, <2>6 DEF Arrives
  <2>7. ASSUME NEW i \in Request, IngestStep(i)
        PROVE  Registry!Next \/ Still
    <3>1. CASE AppendSource(i)
      <4>1. contested' = contested
        BY <3>1 DEF AppendSource
      <4> QED  BY <3>1, <4>1, AppendKeeps, EntryUnchanged DEF Still
    <3>2. CASE ~AppendSource(i) /\ ~InsertRow(i) /\ ~StoreLead(i)
      BY <2>1, <2>7, <3>2 DEF IngestStep, InsertRaises, SearchLead, SearchFails, CreateLead,
                              ReplyLost, CreateFails, IngestAborts
    <3> QED  BY <2>2, <2>3, <3>1, <3>2
  <2>8. ASSUME NEW j \in Judge, VerdictStep(j)
        PROVE  Registry!Next \/ Still
    <3>1. CASE ~VerdictSaves(j)
      BY <2>1, <2>8, <3>1 DEF VerdictStep, VerdictCreates, VerdictReplyLost,
                              VerdictCreateFails, VerdictAborts
    <3> QED  BY <2>4, <3>1
  <2>9. ASSUME NEW p \in Phone, ManagerAdds(p)
        PROVE  Still
    BY <2>1, <2>9 DEF ManagerAdds
  <2>10. CASE UNCHANGED vars
    BY <2>1, <2>10 DEF vars
  <2> QED  BY <2>5, <2>6, <2>7, <2>8, <2>9, <2>10 DEF Next
<1> QED  BY <1>1, <1>2, Invariance, PTL DEF Spec, RegistrySpec, Registry!Spec, Entry
=============================================================================
