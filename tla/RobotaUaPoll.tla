------------------------------ MODULE RobotaUaPoll ------------------------------
(***************************************************************************)
(* The robota.ua provider (integrations/robotaua_sync.py and                 *)
(* robotaua_api.py, under the contract of integrations/base.py): a poll logs *)
(* in to the employer's cabinet if it has to, reads the cards of its page,   *)
(* hands those above the cursor to the inbound router one after another and  *)
(* saves the last one that went through.  One that fails is passed by.       *)
(*                                                                          *)
(* An application is its id; ids grow.  The page shows the newest cards, in  *)
(* an order of its own.  Polls do not overlap.                               *)
(***************************************************************************)
EXTENDS Integers

CONSTANTS
  MaxId,     \* bound: cards posted
  PageSize   \* cards the page holds

ASSUME RobotaUaBounds == MaxId \in Nat /\ PageSize \in Nat

Id == 1..MaxId

VARIABLES
  posted,    \* the highest id at robota.ua
  ours,      \* applications to allowed vacancies, neither contacts opened nor favourites
  cursor,    \* .cache/robotaua_cursor.json, 0 without one that can be read
  session,   \* .cache/robotaua_state.json holds a session robota.ua accepts
  poll,      \* the poll that runs: how far, since_id, applications left, last_cursor
  handled,   \* history: applications the router has answered for
  failed,    \* history: applications whose card was not read or whose ingest raised
  crowded,   \* history: applications already off a page that should have had them
  disturbed  \* history: a page out of order, a cursor that was not saved or was lost

vars == <<posted, ours, cursor, session, poll, handled, failed, crowded, disturbed>>

NoPoll == [pc |-> "idle", since |-> 0, todo |-> {}, last |-> 0]

Init ==
  /\ posted = 0 /\ ours = {} /\ cursor = 0
  /\ session = FALSE
  /\ poll = NoPoll
  /\ handled = {} /\ failed = {} /\ crowded = {}
  /\ disturbed = FALSE

-----------------------------------------------------------------------------
\* robota.ua

Post(isOurs) ==
  /\ posted < MaxId
  /\ posted' = posted + 1
  /\ ours' = IF isOurs THEN ours \cup {posted'} ELSE ours
  /\ UNCHANGED <<cursor, session, poll, handled, failed, crowded, disturbed>>

SessionExpires ==
  /\ session /\ session' = FALSE
  /\ UNCHANGED <<posted, ours, cursor, poll, handled, failed, crowded, disturbed>>

Page == {a \in Id : posted - PageSize < a /\ a <= posted}

-----------------------------------------------------------------------------
\* poll_responses

PollStarts ==
  /\ poll.pc = "idle"
  /\ poll' = [NoPoll EXCEPT !.pc = "open", !.since = cursor]
  /\ UNCHANGED <<posted, ours, cursor, session, handled, failed, crowded, disturbed>>

\* The cabinet has sent the client to /auth/.
Login ==
  /\ poll.pc = "open" /\ ~session
  /\ session' = TRUE
  /\ UNCHANGED <<posted, ours, cursor, poll, handled, failed, crowded, disturbed>>

\* Slip: the page is read up to the first card that is not new.
UpToCursor(since, page) == IF \E a \in page : a <= since THEN {} ELSE page

\* Slip: the cursor's own application again.
FromCursor(since, page) == {a \in page : a >= since}

\* A cursor of 0 is None: everything is new.
New(since, page) == {a \in page : since = 0 \/ a > since}

Wanted == New(poll.since, Page) \cap ours

\* list_new_applications: unread are the cards that cannot be parsed.
List(unread) ==
  /\ poll.pc = "open" /\ session
  /\ unread \subseteq Wanted
  /\ poll' = [poll EXCEPT !.pc = "ingest", !.todo = Wanted \ unread]
  /\ failed' = failed \cup unread
  /\ crowded' = crowded \cup {a \in ours \ Page : a > poll.since}
  /\ UNCHANGED <<posted, ours, cursor, session, handled, disturbed>>

\* A page that does not load, a login that is refused, a tab that is not there.
ListFails ==
  /\ poll.pc = "open"
  /\ poll' = NoPoll
  /\ UNCHANGED <<posted, ours, cursor, session, handled, failed, crowded, disturbed>>

\* The next card in the page's order.
Takes(a) ==
  /\ poll.pc = "ingest" /\ a \in poll.todo
  /\ disturbed' = (disturbed \/ \E b \in poll.todo : b < a)

\* Accepted, a duplicate or rejected.
Ingest(a) ==
  /\ Takes(a)
  /\ poll' = [poll EXCEPT !.todo = poll.todo \ {a}, !.last = a]
  /\ handled' = handled \cup {a}
  /\ UNCHANGED <<posted, ours, cursor, session, failed, crowded>>

\* Slip: last_cursor is set before the router is asked.
SetAnyway(a) == a

\* Slip: the cursor is the id expected next.
ExpectedNext(a) == a + 1

\* What raises does not become last_cursor.
LastAfter(a) == poll.last

\* The router raises.
IngestRaises(a) ==
  /\ Takes(a)
  /\ poll' = [poll EXCEPT !.todo = poll.todo \ {a}, !.last = LastAfter(a)]
  /\ failed' = failed \cup {a}
  /\ UNCHANGED <<posted, ours, cursor, session, handled, crowded>>

AllTaken == poll.todo = {}

\* An error on writing is ignored; a file cut short reads as none.
Save ==
  /\ poll.pc = "ingest" /\ AllTaken
  /\ poll' = NoPoll
  /\ cursor' \in IF poll.last = 0 THEN {cursor} ELSE {poll.last, cursor, 0}
  /\ disturbed' = (disturbed \/ cursor' # IF poll.last = 0 THEN cursor ELSE poll.last)
  /\ UNCHANGED <<posted, ours, session, handled, failed, crowded>>

\* The process ends, or the container goes with its .cache.
Dies ==
  /\ poll' = NoPoll
  /\ \/ UNCHANGED <<cursor, session>>
     \/ cursor' = 0 /\ session' = FALSE
  /\ disturbed' = (disturbed \/ poll.last # 0 \/ cursor' # cursor)
  /\ UNCHANGED <<posted, ours, handled, failed, crowded>>

-----------------------------------------------------------------------------
\* What a poll does once it is started.
PollStep ==
  \/ Login \/ Save
  \/ \E unread \in SUBSET Id : List(unread)
  \/ \E a \in Id : Ingest(a) \/ IngestRaises(a)

Next ==
  \/ PollStarts
  \/ PollStep
  \/ ListFails
  \/ Dies
  \/ \E isOurs \in BOOLEAN : Post(isOurs)
  \/ SessionExpires

Spec == Init /\ [][Next]_vars

\* A poll that was started goes on, and neither a refused login, a page that does not load
\* nor the end of the process comes before the same card for ever.  Nothing starts one: the
\* scheduler imports no enabled_providers, although registry.py:3 says so.
FairSpec ==
  /\ Spec
  /\ WF_vars(PollStep)
  /\ SF_vars(Login)
  /\ SF_vars(\E unread \in SUBSET Id : List(unread))
  /\ \A a \in Id : SF_vars(Ingest(a) \/ IngestRaises(a))
-----------------------------------------------------------------------------
TypeOK ==
  /\ posted \in 0..MaxId /\ ours \subseteq Id /\ cursor \in 0..MaxId
  /\ session \in BOOLEAN
  /\ poll \in [pc: {"idle", "open", "ingest"}, since: 0..MaxId, todo: SUBSET Id, last: 0..MaxId]
  /\ handled \subseteq Id /\ failed \subseteq Id /\ crowded \subseteq Id
  /\ disturbed \in BOOLEAN

\* The cursor passes an application by only if it failed, or was off the page, and a
\* later one went through (robotaua_sync.py:119): what fails alone is asked for again.
PassedByOnlyIfFailed ==
  \A a \in ours : a <= cursor /\ a \notin handled =>
    a \in failed \cup crowded /\ \E b \in handled : b > a

\* "calling `poll_responses()` twice with the same upstream state must not
\* double-ingest" (base.py:58-59): an application goes to the router a second time
\* only once a page was out of order or a cursor was not saved.
IngestedOnce == [][\A a \in handled : Ingest(a) => disturbed']_vars

\* Were polls started again and again, "at a configurable cron interval" (base.py:4), everyone
\* whose application is on a page long enough would be handed to the router, or fail at it.
ApplicantReached ==
  []<><<PollStarts>>_vars => \A a \in Id : a \in ours ~> a \in handled \cup failed \cup crowded
=============================================================================
