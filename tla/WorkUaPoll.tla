------------------------------ MODULE WorkUaPoll ------------------------------
(***************************************************************************)
(* The work.ua inbound: every five minutes the scheduler asks work.ua for   *)
(* the responses newer than a cursor it keeps in a file and feeds them, one *)
(* by one, to InboundRouter (integrations/workua_sync.py, api/              *)
(* inbound_router.py in its deferred mode).  Without an allow-list one      *)
(* request covers all vacancies, with one each allowed vacancy has its own. *)
(*                                                                          *)
(* The cursor is the highest id seen and is saved only when the whole batch *)
(* has been fed.  APScheduler runs one poll at a time; other ways into the  *)
(* candidates table (the webhook, callers) go on meanwhile.                 *)
(***************************************************************************)
EXTENDS Integers, Sequences, FiniteSets, FiniteSetsExt

CONSTANTS
  Phone,       \* phone numbers
  Vacancy,     \* work.ua job ids
  Response,    \* what candidates may post
  Allowed,     \* WORKUA_ALLOWED_VACANCY_IDS; {} allows all
  OtherLabel,  \* sources of candidates that do not come from this poll
  PageSize,    \* responses per request
  MaxPosts,    \* bound: responses posted
  Faults,      \* what may go wrong
  NoPhone,     \* a response without a phone number
  Everywhere   \* the endpoint that covers all vacancies

(***************************************************************************)
(* fetch_fails  the request for one vacancy is refused                      *)
(* poll_fails   a rate limit, a timeout or a network error ends the poll    *)
(* abort        a database error or a restart ends the poll                 *)
(* cursor_lost  the file is gone with its container or cannot be parsed     *)
(***************************************************************************)
FaultKinds == {"fetch_fails", "poll_fails", "abort", "cursor_lost"}

\* candidates.source is a list of labels joined by commas; their lengths.
WidthOf ==
  [workua_response_send |-> 20, workua_response_phonecall |-> 25, workua_response |-> 15,
   workua_scraper |-> 14, inbound_call |-> 12, manual |-> 6]
Label       == DOMAIN WidthOf
PolledLabel == {"workua_response_send", "workua_response_phonecall"}

\* wellFormed: parse_response accepts it; fits: the profile filter does.
AnyResponse == [vacancy: Vacancy, phone: Phone \cup {NoPhone}, label: PolledLabel,
                fits: BOOLEAN, wellFormed: BOOLEAN]

ASSUME ResponsesAreResponses == Response \subseteq AnyResponse
ASSUME AllowedAreVacancies   == Allowed \subseteq Vacancy
ASSUME OtherLabelsAreLabels  == OtherLabel \subseteq Label
ASSUME PollBounds            == PageSize \in Nat \ {0} /\ MaxPosts \in Nat
ASSUME PollFaults            == Faults \subseteq FaultKinds
ASSUME NoPhoneIsNoPhone      == NoPhone \notin Phone
ASSUME EverywhereIsNoVacancy == Everywhere \notin Vacancy

VARIABLES
  board,   \* external: the responses, an id being a position
  cursor,  \* responses_last_id in .cache/workua_cursor.json, 0 when there is none
  source,  \* the labels on the candidate with a phone number, {} without a row
  poll     \* poll_responses

vars == <<board, cursor, source, poll>>

IdlePoll == [pc |-> "idle", todo |-> {}, items |-> {}, maxSeen |-> 0]
Poll == [pc: {"idle", "fetch", "ingest"}, todo: SUBSET (Vacancy \cup {Everywhere}),
         items: SUBSET (Nat \ {0}), maxSeen: Nat]

Init ==
  /\ board = <<>>
  /\ cursor = 0
  /\ source = [p \in Phone |-> {}]
  /\ poll = IdlePoll

-----------------------------------------------------------------------------
\* InboundRouter.ingest, deferred: what it writes and whether the column takes it.

\* "payload.source not in existing.source" is a test on substrings.
Covered(p, label) ==
  \/ label \in source[p]
  \/ label = "workua_response" /\ source[p] \cap PolledLabel # {}

Recorded(p, label) == IF Covered(p, label) THEN source[p] ELSE source[p] \cup {label}

\* The width of candidates.source.
MaxWidth == 32

Width(labels) == MapThenSumSet(LAMBDA l : WidthOf[l], labels) + Cardinality(labels) - 1

Storable(p, label) == Width(Recorded(p, label)) <= MaxWidth

-----------------------------------------------------------------------------
\* The environment.

Post(r) ==
  /\ Len(board) < MaxPosts
  /\ board' = Append(board, r)
  /\ UNCHANGED <<cursor, source, poll>>

\* A candidate becomes known in another way; a caller is only ingested when new.
OtherIngest(p, label) ==
  /\ label = "inbound_call" => source[p] = {}
  /\ Storable(p, label)
  /\ source' = [source EXCEPT ![p] = Recorded(p, label)]
  /\ UNCHANGED <<board, cursor, poll>>

CursorLost ==
  /\ "cursor_lost" \in Faults
  /\ cursor' = 0
  /\ UNCHANGED <<board, source, poll>>

-----------------------------------------------------------------------------
\* poll_responses: the requests.

Feeds == IF Allowed = {} THEN {Everywhere} ELSE Allowed

PollStarts ==
  /\ poll.pc = "idle"
  /\ poll' = [pc |-> "fetch", todo |-> Feeds, items |-> {}, maxSeen |-> cursor]
  /\ UNCHANGED <<board, cursor, source>>

\* What a request with last_id = maxSeen asks for.
NewIn(feed) ==
  {i \in DOMAIN board : i > poll.maxSeen /\ (feed = Everywhere \/ board[i].vacancy = feed)}

Sized(page, new) ==
  \/ page = new /\ Cardinality(new) <= PageSize
  \/ Cardinality(page) = PageSize

\* Slip: the default order, newest first.
NewestPages(feed) ==
  {page \in SUBSET NewIn(feed) : /\ Sized(page, NewIn(feed))
                                 /\ \A i \in page, j \in NewIn(feed) \ page : j < i}

\* The request over all vacancies asks for the oldest first (sort=1), the one
\* for a vacancy leaves the order to work.ua.
Pages(feed) ==
  {page \in SUBSET NewIn(feed) :
     /\ Sized(page, NewIn(feed))
     /\ feed = Everywhere => \A i \in page, j \in NewIn(feed) \ page : i < j}

\* The poll goes on with the next vacancy, or with the items, or ends without any.
WithPage(feed, page) ==
  LET todo  == poll.todo \ {feed}
      items == poll.items \cup page
  IN IF todo # {} THEN [poll EXCEPT !.todo = todo, !.items = items]
     ELSE IF items = {} THEN IdlePoll
     ELSE [poll EXCEPT !.pc = "ingest", !.todo = {}, !.items = items]

Fetch(feed) ==
  /\ poll.pc = "fetch"
  /\ feed \in poll.todo
  /\ \E page \in Pages(feed) : poll' = WithPage(feed, page)
  /\ UNCHANGED <<board, cursor, source>>

\* workua.vacancy_fetch_failed: the other vacancies are fetched all the same.
VacancyFails(feed) ==
  /\ "fetch_fails" \in Faults
  /\ poll.pc = "fetch"
  /\ feed \in poll.todo \ {Everywhere}
  /\ poll' = WithPage(feed, {})
  /\ UNCHANGED <<board, cursor, source>>

PollFails ==
  /\ "poll_fails" \in Faults
  /\ poll.pc = "fetch"
  /\ poll' = IdlePoll
  /\ UNCHANGED <<board, cursor, source>>

-----------------------------------------------------------------------------
\* poll_responses: the items.

Relevant(r) ==
  /\ r.wellFormed
  /\ Allowed = {} \/ r.vacancy \in Allowed
  /\ r.phone # NoPhone
  /\ r.fits

\* The next item: the pages keep the order they were asked for in.
Upcoming(i) ==
  /\ poll.pc = "ingest"
  /\ i \in poll.items
  /\ Allowed = {} => \A j \in poll.items : i <= j

\* Slip: the cursor is the next id expected.
NextExpected(i) == IF board[i].wellFormed /\ i >= poll.maxSeen THEN i + 1 ELSE poll.maxSeen

\* An item that cannot be parsed does not count as seen.
Seen(i) == IF board[i].wellFormed /\ i > poll.maxSeen THEN i ELSE poll.maxSeen

Without(i) == [poll EXCEPT !.items = poll.items \ {i}, !.maxSeen = Seen(i)]

\* workua.parse_failed, workua.vacancy_filtered, no phone, workua.profile_rejected.
Skip(i) ==
  /\ Upcoming(i)
  /\ ~Relevant(board[i])
  /\ poll' = Without(i)
  /\ UNCHANGED <<board, cursor, source>>

IngestResponse(i) ==
  LET r == board[i] IN
  /\ Upcoming(i)
  /\ Relevant(r)
  /\ Storable(r.phone, r.label)
  /\ source' = [source EXCEPT ![r.phone] = Recorded(r.phone, r.label)]
  /\ poll' = Without(i)
  /\ UNCHANGED <<board, cursor>>

\* Slip: a failed item is logged and passed over, as robotaua_sync does.
FailurePassedOver(i) ==
  /\ Upcoming(i)
  /\ Relevant(board[i])
  /\ ~Storable(board[i].phone, board[i].label)
  /\ poll' = Without(i)
  /\ UNCHANGED <<board, cursor, source>>

\* The longer source does not fit its column: the commit raises, the scheduler
\* logs workua.poll_failed, and the cursor stays where it was.
IngestRaises(i) ==
  /\ Upcoming(i)
  /\ Relevant(board[i])
  /\ ~Storable(board[i].phone, board[i].label)
  /\ poll' = IdlePoll
  /\ UNCHANGED <<board, cursor, source>>

PollAborts ==
  /\ "abort" \in Faults
  /\ poll.pc # "idle"
  /\ poll' = IdlePoll
  /\ UNCHANGED <<board, cursor, source>>

SaveCursor ==
  /\ poll.pc = "ingest"
  /\ poll.items = {}
  /\ cursor' = poll.maxSeen
  /\ poll' = IdlePoll
  /\ UNCHANGED <<board, source>>

-----------------------------------------------------------------------------
PollStep ==
  \/ PollStarts
  \/ \E feed \in Feeds : Fetch(feed)
  \/ \E i \in DOMAIN board : Skip(i) \/ IngestResponse(i) \/ IngestRaises(i)
  \/ SaveCursor

Fault ==
  \/ \E feed \in Feeds : VacancyFails(feed)
  \/ PollFails
  \/ PollAborts
  \/ CursorLost

Next ==
  \/ \E r \in Response : Post(r)
  \/ \E p \in Phone, label \in OtherLabel : OtherIngest(p, label)
  \/ PollStep
  \/ Fault

Spec == Init /\ [][Next]_vars

\* Cron starts a poll every five minutes and every request in it has a timeout.
\* Failures pass: a step that is tried again and again goes through once.
Fairness ==
  /\ WF_vars(PollStep)
  /\ \A feed \in Feeds : SF_vars(Fetch(feed))
  /\ \A i \in 1..MaxPosts : SF_vars(Skip(i)) /\ SF_vars(IngestResponse(i))
  /\ SF_vars(SaveCursor)

FairSpec == Spec /\ Fairness
-----------------------------------------------------------------------------
\* Every variable has its type; the cursor never runs ahead of the newest
\* response (the next one would be skipped), and a poll holds posted responses.
TypeOK ==
  /\ board \in Seq(Response)
  /\ cursor \in 0..Len(board)
  /\ source \in [Phone -> SUBSET Label]
  /\ poll \in Poll
  /\ poll.items \subseteq DOMAIN board
  /\ poll.maxSeen <= Len(board)

\* No gaps: "store the highest id we've processed and pass it next time to get
\* only newer ones" (workua_api.py:170-171) is safe only when every response up
\* to the cursor that passes the filters has reached the candidates table.
CursorBehindIngested ==
  \A i \in DOMAIN board : (i <= cursor /\ Relevant(board[i])) =>
    Covered(board[i].phone, board[i].label)

\* "Pull new responses ... and feed them through InboundRouter"
\* (workua_sync.py:90): whoever posts a response that passes the filters becomes
\* a candidate, however the pages fall.
SenderReached ==
  \A i \in 1..MaxPosts :
    (i \in DOMAIN board /\ Relevant(board[i])) ~>
      (i \in DOMAIN board /\ source[board[i].phone] # {})
=============================================================================
