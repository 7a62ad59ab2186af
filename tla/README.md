# A TLA+ model of the AI recruiter

Eva, the recruiter in `src/`, collects candidates from job boards, rings each of
them through Vapi, lets a language model judge the transcript, and hands those
who qualify to managers in KeyCRM.  Four processes share one PostgreSQL
database: the API (webhooks), the scheduler (cron slots and the work.ua poll),
the Telegram bot, and, when it is run, a scraper.  There are no locks and no
queues between them: what one process knows of another is what it last read
from the table.  The modules here model the parts where that matters, and check
and prove what can be said about them.

Paths below are relative to `src/src/` unless they say otherwise.

## 1. The system

| component | code | state it keeps | operations | talks to |
|---|---|---|---|---|
| Call scheduler | `scheduler/dispatcher.py` | none (APScheduler jobs, `max_instances` 1) | `run_slot`, `poll_workua_responses` | orchestrator, poller, switches |
| Call orchestrator | `call/orchestrator.py` | rows of `candidates` and `calls` | `dispatch_for_candidate`, `process_end_of_call`, `process_inbound_call`, `_finalize_call` | database, Vapi, KeyCRM, summarizer |
| Vapi webhook | `api/main.py`, `api/services.py`, `api/schemas.py` | none | `vapi_webhook`, `handle_vapi_event` | orchestrator |
| Inbound router | `api/inbound_router.py` | rows of `candidates` | `ingest`, deferred (default) and eager | database, KeyCRM |
| work.ua response poller | `integrations/workua_sync.py`, `workua_api.py` | the cursor file, `candidates` through the router | `poll_responses`, `search_and_qualify` | work.ua, profile filter, router |
| Profile filter, scorer | `match/` | none | pure decisions over a resume | |
| Telegram switches | `bot/admin.py` | a dict per process, a JSON file | `/pause` and the like, `/set_threshold` | scheduler (by import) |
| Daily report, costs | `bot/report.py`, `bot/main.py`, `cost/` | `daily_costs`, the scheduler's trigger in memory | report of a day at nine or on a command | database, Telegram |
| robota.ua provider | `integrations/robotaua_sync.py`, `robotaua_api.py`, `base.py` | the cursor file, the session file | `poll_responses` | robota.ua's cabinet, router |
| KeyCRM bootstrap | `src/scripts/keycrm_bootstrap.py` | `keycrm_mapping.json`, `.env` | a run by hand | KeyCRM |
| Guardrails | `guardrails/` | utterances of one conversation | `observe`, `should_exit_now` | nothing calls them yet |
| Vapi and KeyCRM clients | `call/vapi_client.py`, `common/keycrm.py` | none | POSTs with three tries each | network |
| Other boards, scraper | `integrations/olx_jobs_sync.py`, `jooble_api.py`, `scraper/` ... | none | stubs, not started | router |

**What makes it hard.**

* *Read, await, write.*  Every operation reads a row in one session or before
  one network request and writes it after another: the slot's selection, the
  attempt counter, the verdict.  SQLAlchemy then writes only the columns whose
  value differs from what it read, so two writers merge column by column.
* *Reports.*  The end of a call is known from one webhook only.  It may be lost,
  come twice, come before the call's row exists, or come for a conversation that
  produced no transcript.
* *Requests that are repeated.*  `tenacity` repeats POSTs to Vapi and KeyCRM
  whose reply was lost.
* *Dying in between.*  A database error or a restart ends a task or a webhook
  request between a POST and the commit that should record it.
* *One cursor.*  The poller's position is one number for all vacancies, saved
  after a batch, in a file inside a container.  robota.ua's is not even the
  highest: it is the last one that went through.
* *Sums over a moving table.*  A report is one query after another, and a day's
  costs are read, added up and stored in separate steps.
* *Idempotence by listing.*  The bootstrap makes what a listing does not show, and
  overwrites two files at the end.

**What makes each component correct**, in short: the funnel of a candidate's row
is never skipped or rewound; the limits on attempts and on simultaneous calls
hold although nothing rechecks them; whoever is resolved is in the CRM and
nobody else is; each inbound call is counted and judged once, however often it is
reported; every candidate is resolved in
the end; the pollers pass over no response; a switch that was thrown is obeyed; a
day is reported whole, and once; what is wired to KeyCRM is what it is said to be.
The hazards, each at its line and with the properties that guard it, are listed
in `PROJECT.json`.

## 2. The modules

| module | models | EXTENDS / INSTANCE |
|---|---|---|
| `CandidateFunnel` | the abstract specification of one row of `candidates` | |
| `CallPipeline` | slots, dispatch, Vapi, webhook, verdict, KeyCRM, inbound calls | `CandidateFunnel` as refinement target |
| `CallPipelineProofs` | its theorems: under every fault; where reports arrive at most once (the limits, the lead, the funnel); where they also arrive in time | `CallPipeline` |
| `WorkUaPoll` | the poll, its cursor, and the router's row | |
| `WorkUaPollProofs` | its theorems | `WorkUaPoll` |
| `LeadRegistry` | the abstract specification of what is registered for a phone number | |
| `InboundRouter` | `ingest` in both modes, KeyCRM, and the verdict that creates leads | `LeadRegistry` as refinement target |
| `InboundRouterProofs` | its theorems, the refinement among them | `InboundRouter` |
| `ProfileFilter` | the filters over a resume, in the year of their evaluation | |
| `ProfileFilterProofs` | its theorems | `ProfileFilter` |
| `AdminGate` | the Telegram switches as two processes see them | |
| `AdminGateProofs` | its theorems | `AdminGate` |
| `DailyReport` | the reports of nine o'clock and of commands, and the stored costs | |
| `DailyReportProofs` | its theorems | `DailyReport` |
| `RobotaUaPoll` | the robota.ua provider's poll | |
| `RobotaUaPollProofs` | its theorems | `RobotaUaPoll` |
| `KeyCrmBootstrap` | the bootstrap script, its files, KeyCRM's rows | |
| `KeyCrmBootstrapProofs` | its theorems | `KeyCrmBootstrap` |
| `MC...` | constants of the instances TLC checks | the module of that name |

### CallPipeline

The variables are the two tables (`candidate`, `callRow`), the local state of
each asyncio task (`task`, per slot and candidate) and webhook request
(`handler`), and the environment: what Vapi knows of a call (`vapi`), reports on
their way (`mail`) and leads in KeyCRM (`crm`).  A candidate is a phone number;
`candidates.phone_e164` is unique.

A step is what happens between two awaits at which the outside can move: a
session that reads, a POST, a session that commits.

| action | code |
|---|---|
| `Ingest` | `InboundRouter.ingest`, deferred: the unique insert makes it a step |
| `SlotFires` | `run_slot`: the query, its limit, `asyncio.gather` |
| `TaskLoads`, `TaskCommits` | first session of `dispatch_for_candidate` |
| `DialSucceeds`, `DialReplyLost`, `DialFails` | `create_outbound_call` with its three tries |
| `TaskStores` | second session: the `Call` row |
| `ReportIgnored` | what `handle_vapi_event` answers without acting: no transcript, unknown call, already processed |
| `ReportOfOutbound` | `process_end_of_call`, whose session then stays open |
| `ReportOfInbound` ... `ReloadInbound` | `process_inbound_call`, a session at a time |
| `Judge`, `CreateLead`, `LeadReplyLost`, `LeadFails`, `SaveVerdict` | `_finalize_call` |
| `TaskAborts`, `HandlerAborts` | the rollback of `session_scope`, a restart |

`Flushed(now, was, new)` is what an UPDATE leaves in a column: SQLAlchemy omits
a column set to the value it was read with, so what another transaction wrote
there meanwhile survives.  The attempt counter is always written, as a number
computed in Python.

What the summarizer says is a choice (`Verdicts`): a failure counts as "no".
KeyCRM stages are not moved, since every id in `STAGE_MAP` is 0 until
`load_stages_from_api` runs, and nothing calls it.  The pause switch is not in
this module: a paused slot is one that does not fire.  The match score only
orders the slot's query; which of the eligible a slot takes is left open.

**Faults.**  How the environment misbehaves is the constant `Faults`, a subset of
`FaultKinds` (listed in the module).  A run says under which faults its
properties were checked; the theorems hold under all of them.  Without
`overlap`, a slot fires only when no outbound call is live, which the deployment
justifies: slots are two hours apart and a call ends after 420 seconds
(`src/.env.example:124-127`).

**Slips.**  Definitions marked `Slip` are not the code: each is the neighbouring
definition with a plausible mistake, kept to show that the property listed with
it in `PROJECT.json` notices the mistake.

### WorkUaPoll

`board` is what was posted on work.ua, an id being a position; `cursor` is the
file; `source` the labels on a candidate's row, `{}` without a row; `poll` the
state of `poll_responses`.  The scheduler runs one poll at a time.  A poll reads
the cursor, asks for a page per feed (one feed for all vacancies, or one per
allowed vacancy), works the items off in order, and saves the highest id.

`candidates.source` is a list of labels in a `VARCHAR(32)`; the model keeps the
labels' lengths, since the column is what `ingest` can fail on.

Assumed of work.ua, as the client uses it: ids increase; `last_id` returns newer
responses only; `sort=1` is oldest first; the endpoint of a vacancy promises no
order.  A response that is a phone call carries no text and the profile filter
rejects it.  The cursor lives in `.cache/` of the container and may be lost.

### InboundRouter

`CallPipeline` and `WorkUaPoll` take `ingest` as a step, in the mode the
deployment runs in.  Here it is taken apart: a request reads by phone number
(`Arrives`), commits a longer source (`AppendSource`) or inserts a row
(`InsertRow`, `InsertRaises`), and in the eager mode asks KeyCRM for a lead and
creates one (`SearchLead` ... `StoreLead`), a step per session and per request.
The mode is read from the environment at each ingest and every process has its
own, so requests of both modes may meet.  `judge` holds the verdicts under way, as the
part of `_finalize_call` that creates a lead for a row without one: it reads the row
(`VerdictReads`), posts (`VerdictCreates`) and commits (`VerdictSaves`).  Nothing keeps
two verdicts apart, nor a verdict and an ingest.  Two variables are history: `unsure`,
the phone numbers with a lead whose id never reached the row, and `contested`, those on
which a verdict began while another verdict or the ingest was still at it.

### ProfileFilter

The module is `evaluate`, a filter after the other.  Texts are what is
looked for in them: marker words, years, periods of work.  A verdict depends on
the year it is given in, and a resume is evaluated again when a cursor is lost or
its owner responds again, so the year is a variable.  A gender that is not given is
guessed from the ending of the name (`named`), so `LessSaidPasses` does not speak of
leaving out a gender the name contradicts: an F of 41 whose name ends in `-ов` passes,
and is turned away as an M when the gender is not given.  The callers never give one.  The
exception for the war looks at the latest *qualifying* period, as the code does; its
comment (`profile_filter.py:268`) and `docs/candidate_profile.md:55` speak of the latest
period, of whatever trade.  Left out are periods whose
end is a number that is no year of 1950 to 2039, and years in the experience text
that belong to no period.

### AdminGate

`src.bot.admin` keeps its flags in a dict of the importing process, filled from a
file on import.  The model has two processes, the bot and the scheduler, each
with its dict, and a file per file system; the constants say who runs where.

### DailyReport

`collector` holds the two reports that can be under way, the job's and the command's
(Telegram's updates are handled one at a time), each a `DayReport` as far as it has
got.  `call` and `candidate` are the columns a report reads.  `Commits` is whatever
the rest of the system commits meanwhile: a write of a row by the router or by a
dispatch, the row of a call, a verdict, which may come twice.  A candidate's `day`
is `updated_at`, which every UPDATE sets.

| action | code |
|---|---|
| `NineOClock`, `BotStops`, `BotStarts` | the cron trigger of `bot/main.py`, in memory, with APScheduler's grace of a second |
| `Ask` | `/today`, `/yesterday`, `/report` |
| `CountCalls`, `CountQualified`, `CountFunnel` | the queries of `collect_for` |
| `Sum`, `Store` | `rollup_for_date`: the sums, then the upsert and its commit |
| `Send`, `CollectorFails` | `_send_daily`; whatever raises ends the report |

Counts are sets, so that "counted twice" and "not counted" can be told apart.  The
costs of a day are the calls whose minutes are in them: every price is a multiple of
the minutes, except those of tokens, which a report of a call that comes twice adds
again.  `total_usd` is left out: it sums `cost_usd`, which nothing sets.  The counts
a command tells are kept nowhere, so its report is followed from its sums on.

A day is the database's.  The report is modelled as it runs on SQLite, the default of
`common/settings.py` and the dialect of `cost/tracker.py`.  PostgreSQL has no operator
that compares a date with a VARCHAR, which is how the query's string is bound; that has
not been tried here, and where the server refuses it each report is a `CollectorFails`.
`_send_daily` ends with a call of `log.info` that its standard logger refuses; the
message is out by then.

### RobotaUaPoll

An application is its id.  `posted` and `ours` are robota.ua's, `poll` is the state of
`poll_responses` (`since_id`, what is left of the list, `last_cursor`), `session` the
saved session of the browser.  `List` reads a page, `Ingest` and `IngestRaises` take
its cards in any order, `Save` writes the last one that went through.  `disturbed`,
`failed` and `crowded` are history: what the properties except is named by them.

Assumed of robota.ua: ids grow; the tab holds the newest `PageSize` cards, in an order
of its own.  Polls do not overlap.

No process starts this poll: `base.py:3-4` and `registry.py:3` say that the scheduler runs
the providers' polls, and nothing calls `enabled_providers` (`registry.py:32`).  As the
code stands no application from robota.ua ever arrives.  The model lets a poll start at
any time and owes nobody one: `ApplicantReached` says what would hold if polls were started
again and again.
`health_check` asks the client for `list_vacancies`, which it does not have, and so
always answers no; it changes nothing and is not in the model.

### KeyCrmBootstrap

`rows` is what KeyCRM holds, an id being a position; `run` is the script (where it is,
what it listed, what it mapped so far), one at a time, started as often as somebody
likes; `mapping` and `env` are its two files.  There is an action per request and per
file.

| action | code |
|---|---|
| `EnsureFunnel`, `NewFunnel` | GET and POST of `ensure_funnel` |
| `List`; `AsksForAll`, `ListAll` | the listings; the fields of all entities when those of leads are refused (lines 168-170) |
| `Exists`, `Create`, `FieldRefused` | a stage or a field in the loops' order; a field KeyCRM does not let be made |
| `AllEnsured`, `SaveMapping`, `PatchEnv` | the end of a part, `write_mapping` |
| `FunnelNotListed`, `ListCut` | a listing is one page, and nobody asks for the next |
| `StagesRefused`, `FieldsRefused`, `StageRefused`, `NoIdInReply` | replies the script goes on after |
| `Dies`, `ReplyLost`, `DiesWriting` | replies it does not, and its end anywhere, in the middle of a file too |
| `Delete`, `UserAdds` | external: users of KeyCRM |

`blind` names what a run did not, or not completely, list, the funnels too.  A user makes
fields of leads between runs only and fields of other entities at any time; one who makes
the very field a run has just found missing gets it twice, which is not in the model, nor
are stages and funnels made by hand.

`keycrm_mapping.json` is in the repository before the script first runs (`Shipped`):
notes on funnel 1, under keys (`statuses`, `field_mapping_internal_to_keycrm`) that the
script neither reads nor writes.  The first run replaces it as a whole, so what it says
is lost; `MappingKept` is about the script's own keys.

`common/keycrm.py:11` and `common/keycrm_fields.py:5` say that KeyCRM has no way to
create fields by its API, and the script posts to `/custom-fields` (line 190).  Both are
in the model: any POST of a field may be refused, for ever, and `Converges` asks for the
fields KeyCRM has.  If the comments are right the script's fields are those somebody made
by hand under its names, and the others are left out of the mapping without an error.

`keycrm_fields.py` looks a stage up by the code "we set ... when creating stages"
(line 96); the script sends no code, and nothing calls `load_stages_from_api` or
`load_mapping_from_api`, so what the mapping is later used for is not in the model.

## 3. The runs

| run | instance | shows |
|---|---|---|
| `call_calm` | 3 candidates, 2 attempts, calls nobody answers and no other fault, fair | `LiveCallsBounded`, `ResolvedReachesCrm`, `NobodyForgotten`, `EveryoneResolved` |
| `call_once` | 2 candidates, 3 attempts, 4 dials, 2 requests, every fault but repeated reports and POSTs | `DialLimit`, `OneLiveCall`, `SingleLead`, `ReviewHasSuccess`, and that `CallPipeline` implements `CandidateFunnel` |
| `call_hostile` | 1 candidate, an outbound and an inbound call, 2 requests, every fault | `TypeOK`, `LeadAfterConversation`, `StoredLeadExists`, `InboundJudgedOnce` |
| `workua_all` | 4 posts, pages of 2, polls that fail or are cut short, another way in, fair | `TypeOK`, `CursorBehindIngested`, `SenderReached` |
| `workua_one_vacancy` | one allowed vacancy, 3 posts, pages of 3, every fault | `CursorBehindIngested` |
| `router_hostile` | 1 phone number, 3 ingests, 2 verdicts, both modes, every fault | `OneLeadOfOurs`, `LinkedLeadExists`, and that `InboundRouter` implements `LeadRegistry` |
| `filter_years` | resumes on both sides of every limit, 2025 to 2028 | `LessSaidPasses`, `LongerInRoleNeverWorse`, `RoleRejectionIsFinal` |
| `admin_one_machine` | bot and scheduler share a file system | `SwitchesSurviveRestart`, `FirstJobObeys` |
| `daily_report` | 3 days, 1 call, 1 candidate, both collectors, fair | `TypeOK`, `DayToldWhole`, `HandedOverToldOnce`, `ReportAgrees`, `CostsNeverFall`, `EveryDayTold` |
| `robotaua` | 4 applications, a page of 3, fair | `TypeOK`, `PassedByOnlyIfFailed`, `IngestedOnce`, `ApplicantReached` |
| `bootstrap` | 2 stages, 1 field, 2 failures, fair | `TypeOK`, `MappingTrue`, `DuplicatesOnlyBlind`, `MappingKept`, `Converges` |

One run is expected to end in a counterexample; it refutes what a comment of the
repository says, quoted in the finding of `PROJECT.json`: in `call_no_answer`
`NoAnswerRetries` is violated, since a call nobody answers has no transcript, its
report is dropped, and the candidate stays in `calling`, which no slot selects.
`call_calm` has such calls too and shows what is left: everyone who picks up is resolved.

**Bounds, and why they are enough.**

* Candidates interact only through the slot's limit; two, with a limit of two or
  three with a limit of two, are the smallest instances where the limit binds or
  one candidate's step falls into another's.  Races on one row need one candidate.
* `MaxAttempts` 2 has a first, a last and a spent attempt; 3 is the default
  setting.  `MaxDials` is one more where exceeding the limit is the question.
* Two requests are enough for a race: no step looks at a third.  The router has a
  third ingest that comes after the race, two verdicts, and one phone number: they do
  not interact.
* The resumes of `filter_years` have up to three of six periods, which end before,
  at and after each limit of the recent-role rule, and ages next to theirs.
* `MaxInbound` bounds the calls a candidate makes to us, `MaxLeads` caps the count of leads at "more than one".
* `LastDay` 3 has a day that is reported and a day after it in which the reported one
  may be changed, asked for and reported again.  Calls and candidates do not interact in
  a report: each query is a union over them.
* `MaxId` 4 with a page of 3 lets one application fall off the page, and leaves three
  to be taken in a wrong order with one failing.
* Two stages and a field: the first and the last of a list, and the part after it.  Two
  failures or changes by users: the second meets a run that repairs the first.
* `MaxPosts` 4 with pages of 2 needs two full pages and lets a post fall between
  any two steps of a poll.  With an allow-list the page holds what is new
  (`PageSize >= MaxPosts`): beyond 50 new responses to one vacancy its page is
  in an order work.ua does not promise and the cursor may pass some.

`CHECK_DEADLOCK FALSE` stands where the instance stops because its bounds are
reached: all candidates resolved, or stuck by a fault, and all calls made.  The
bootstrap stops for good when its `.env` is cut short.  The polls, the switches and the
report (the pipeline commits) never stop.

**Fairness.**  `CallPipeline`: weak fairness of each slot (cron fires it every
day), of each task and webhook request (asyncio runs them; every httpx request
in them has a timeout), of the end of a call (`CALL_MAX_DURATION_SEC`) and of the
delivery of a report.  Nothing is owed to arrivals, callers or faults.
`WorkUaPoll`: weak fairness of the poll's steps (a job every five minutes, with
timeouts), and strong fairness of those that go on: polls may fail or be cut short
any number of times, but not always at the same point.  `RobotaUaPoll`: the
same of a poll that was started; nothing of its start, which the property has as its
premise.  `DailyReport`: weak fairness of the clock and of
each collector (asyncio); a bot that is down need not come back.  `KeyCrmBootstrap`:
weak fairness of its steps, that is, somebody runs the script again; failures and what
users do are bounded, but KeyCRM may refuse for ever to make fields and to list those of
leads alone.

What is true only with these restrictions is so on purpose, and is a statement
about the code: `EveryoneResolved` fails when Vapi refuses a call and
`ResolvedReachesCrm` when KeyCRM refuses a lead (nothing tries again);
`LiveCallsBounded` fails when slots overlap (the limit is on a batch, not on calls); `DialLimit` fails when a lost
reply makes `create_outbound_call` post again; `SingleLead` fails when a request
dies between a lead's POST and its commit and the report is delivered again;
`FunnelSpec` fails with inbound calls, which count attempts and demote a
candidate at any status; so does `EveryoneResolved`, since a verdict compares the
attempts it read before the summarizer with the limit, and an inbound call counted
meanwhile leaves the candidate queued with none left; `OneLeadOfOurs` speaks of
phone numbers whose lead ids all reached the row and that nobody contended for;
`SenderReached` needs responses
that can be parsed and sources that fit the column.

Four of these restrictions stand where the code does otherwise than its documents say:

* *One lead.*  `docs/keycrm_schema.md:85-94` looks for a lead before it creates one.  The
  verdict looks at the row it loaded before the summarizer was asked, not at KeyCRM, and
  holds no lock: two copies of a report, an outbound and an inbound call that end
  together, or a verdict that overtakes an eager ingest all find no lead and all create
  one; the row keeps the id that is committed last.  `OneLeadOfOurs` and `LeadRegistry`
  except such numbers (`contested`).

* *Several vacancies.*  `poll_responses` asks each allowed vacancy in turn with the same
  cursor and saves the highest id over all of them.  A response to the first posted
  between the two requests lies below that id and is never asked for again.
  `CursorBehindIngested` is therefore checked without an allow-list and with one vacancy.
* *The width of the source.*  `inbound_call,workua_response_send` has 33 characters and
  the column 32.  For a caller who then responds on work.ua the commit raises, the poll
  ends before it saves, and every later poll ends at the same response; nobody behind it
  becomes a candidate.  `workua_all` has no callers.
* *The switches.*  `calls_paused` reads a dict of its own process, filled once, from a
  file of its own container in the deployment of `deploy/docker-compose.yml`: `/pause`
  does not reach a scheduler that is running, and never one in another container.
  `FirstJobObeys` is what is left: the first job after a start, on one machine.  With a
  container each no pause stops anything, which `ContainersHearNothing` proves.

So do the exceptions that other properties name.  The costs of a day fall when
`/yesterday` and the job of nine o'clock overlap and the older sums are stored last
(`CostsNeverFall`).  A candidate written again after the handover is told on another day
(`HandedOverToldOnce`).  The bootstrap duplicates what it could not list, the funnel
included when it is not on the first page, and overwrites a good mapping with none when the
stages are refused or with another funnel's, though it calls itself idempotent
(`DuplicatesOnlyBlind`, `MappingKept`); with two funnels `.env` names the one and the
mapping the other from `SaveMapping` to `PatchEnv`, and for as long as a run that ends in
between is not repeated.  Where the fields of leads are refused and those of all entities
are not, it maps another entity's field of the same name (`MappingTrue`).  The robota.ua poll ingests again after a page
that was out of order, against its contract (`IngestedOnce`), and never asks again for an
application that failed before one that went through (`PassedByOnlyIfFailed`).

## 4. The proofs

`CallPipelineProofs` proves, for any sets of candidates, slots and requests, any
limits and all faults:

* `TypeCorrect`: `Spec => []TypeOK`;
* `LeadsAreDeferred`: a lead only after a call that ended with a transcript;
* `StoredLeadsExist`: a stored lead id is one KeyCRM has;
* `InboundOnce`: an inbound call is counted as an attempt once and judged once, however
  often it is reported (`counted` and `judged`, history variables, count both).

and, under all faults but a KeyCRM that refuses leads,

* `ResolvedInCrm`: whoever is handed over or given up is in the CRM.

None of them is inductive.  `IInv` adds to `TypeOK` and to them: a request
in progress works on a call that ended with a transcript (`SpokenWork`; without
it `CreateLead` could create a lead from nothing); a lead a request holds is in
KeyCRM (`HeldLeadExists`; `SaveVerdict` copies it to the row); and an inbound call
past its registration has a row (`JudgedIsStored`; what makes the unique index
keep a second request out, and the counts stay at one).  There is a lemma per group of actions, and under it
a step per action; steps that leave the invariant's state alone go through
`QuietStep`.  `CrmInv` adds what a request about to store a verdict knows: a row it
read with a lead has one (`ReadLeadExists`), and if the verdict resolves the candidate
the lead is already there (`LeadBeforeVerdict`), whatever others did to the row since.

It proves too what `call_once` checks, for any candidates, requests, attempts
and calls, from `OnceOnly`: reports are not repeated, nor POSTs, one slot is under way
and nobody rings us; everything else may fail.

* `DialledWithinLimit`: `DialLimit`;
* `OneCallAtATime`: `OneLiveCall`;
* `OneLeadEach`: `SingleLead`;
* `ReviewsAreEarned`: `ReviewHasSuccess`;
* `ImplementsFunnel`: every step is one of `CandidateFunnel` or leaves the rows alone;
* `VerdictsAreFinal`, which follows from that: who was handed over or given up is never
  called or judged again, and no attempt is taken back.

Nothing in the code guards these where they could break: the task trusts the slot's
query, the handler the row it read before the summary.  `OnceInv` states the exclusion
they rest on.  A call is *open* from its placing until a verdict is stored; who has an
open call is `calling` (`OpenIsCalling`) and has one (`OneOpenCall`), so no slot selects
them; an open call has one report, in the mail (`MailIsOpen`) or with one request
(`OneRequest`); hence what a task or a request has read is still so when it writes
(`TasksFit`, `RequestsFit`); and a lead whose id did not reach the row belongs to an open
call nobody will judge again (`LeadOnce`).  Each part of `OnceOnly` is needed: the
paragraph on restrictions above says what fails without it, and two slots under way
would select the same candidates.

`NobodyDropsOut` proves `NobodyForgotten` from `InTime`: `OnceOnly`, and no call is refused
by Vapi, no report early or lost, no task or request aborted.  Each of these four leaves
a candidate in `calling`, which no slot selects; so does a candidate who does not pick
up, whom the property names.  What remains open is the interleaving: any number of
candidates, tasks and requests, a slot that fires while calls of an earlier one are live,
a KeyCRM that refuses.  `KeptInv` follows the candidate from hand to hand: who is `calling`
has a task about to dial or a call that has yet to end, to be reported or to be judged
(`CallingIsInHand`); a call has its row before it ends, so its report finds it
(`StoredInTime`); and who is queued has an attempt left, so the slot's `<` and the
verdict's `>=` meet without a gap (`QueuedIsEligible`).

* `SimultaneousCalls`: `LiveCallsBounded`, with `OneBatch` instead: slots do not overlap,
  POSTs to Vapi are not repeated, one slot, finitely many candidates; callers, repeated
  reports and every other fault are allowed.  `BatchInv` says that the tasks and calls
  under way are those of one batch, which `LIMIT` bounds.

`WorkUaPollProofs` proves `PollTyped` for any allow-list, and `CursorLeavesNoGap`,
`CursorBehindIngested` for any responses and faults, losing the cursor included, where
there is one feed (`OneFeed`): no allow-list and pages of any size, or one allowed vacancy
whose page holds what is new.  The saved cursor says nothing about the poll in progress,
so `Inductive` adds: what lies up to the poll's highest id is settled or in hand
(`SeenSettled`); so is what lies below an item in hand (`ItemsHaveNoGap`); the items come
in one page (`OnePage`).  In that form the invariant does not ask in which order the items
are worked off, only that a page has no gap; "oldest first" matters where the page is
shorter than what is new.  With two vacancies the statement is false: the page of the
first has gaps that the highest id of the second jumps over.

`InboundRouterProofs` proves, for any phone numbers, sources, requests and modes
and under all faults:

* `AtMostOneLead`: `OneLeadOfOurs`;
* `LinksAreReal`: `LinkedLeadExists`;
* `ImplementsRegistry`: every step is one of `LeadRegistry` or leaves it alone.

The invariant says who may create a lead.  A request at KeyCRM inserted the row
and is alone with it (`PastIsAlone`, from the unique index); a verdict at work has
a row (`VerdictsAreSound`); and unless the number is contested, whoever is about to
link it is alone with it, requests and verdicts together, and the row has no lead yet
(`Undisputed`).  Where no row, request or verdict has the id of a lead of ours there is
none (`EveryLeadIsKnown`), so that what is created next is the first.
`LinkedLeadExists` needs no such exception: whatever id is committed last was given by
KeyCRM (`HeldLeadExists`).

`ProfileFilterProofs` proves the three properties of `filter_years` for any
resumes, years and settings.  The
third needs an invariant: a verdict may be years old, but a rejection for want of a
role is one the present year would give as well.

`DailyReportProofs` proves `TypeOK` and the four safety properties of `daily_report`
for any calls, candidates and days.  The invariant says what the job knows at each query:
its day is over, so no call can be added to it (`Dated`, `JobTrue`); who has not been
written since his handover has its day as `updated_at` (`Handing`); what it has timed is
judged, and so will be billed.  For the costs: what is stored has been judged
(`CostsTrue`), and sums that were read and not overtaken hold whatever is stored
(`SumsTrue`).

`RobotaUaPollProofs` proves, for any number of applications and any page, `TypeOK`,
`PassedByOnlyIfFailed` and `IngestedOnce`.  The cursor says nothing about a poll under
way, so `Inductive` adds: what the page had up to a card in hand is handled, in hand or
has failed (`PageTrue`); the poll began at a cursor that was right (`SinceTrue`); and in an
undisturbed poll what is handled lies behind and what is in hand ahead (`InOrder`).

`KeyCrmBootstrapProofs` proves all the safety properties of `bootstrap` for any stages,
fields and number of failures, however many funnels there come to be.  A run keeps to one
funnel of ours (`RunInFunnel`); every id in hand is that of what it stands for (`RunTrue`),
and stays so because rows are only added or marked deleted (`Evolves`); what a complete
listing does not show is missing (`NoFunnel`, `ListedAll`); and what a run has dealt with is
still mapped (`StillMapped`).  What is written inherits this from the run (`SavedTrue`).

`AdminGateProofs` proves for any file systems:

* `RestartsKeepSwitches`: `SwitchesSurviveRestart`, wherever the scheduler runs;
* `FirstJobSeesSwitches`: `FirstJobObeys`, where both processes share a file system;
* `ContainersHearNothing`: where they do not, every job runs whatever was paused.

The first two compare a copy with its original: no command reads the file back, so
`Filed` says that the bot's dict is what its file says, or the defaults when there is
none yet.  The third rests on the scheduler's file system never getting a file
(`Unheard`): only the bot writes one.

The proofs assume the named `ASSUME`s on constants (positive limits, known
faults, values outside the sets they stand apart from), which TLC evaluates in
the runs.

Only model-checked: the properties under fairness (`EveryoneResolved`, `SenderReached`,
`ApplicantReached`, `EveryDayTold`, `Converges`), which are out of the prover's reach.
Every other property of a passing run is stated by a theorem.

## 5. What is not modelled

* The guardrails, the match scorer, `search_and_qualify` and the call FSM: nothing in
  `src/src` calls them (tests do, and a script the search).  They are pure functions,
  or an object of one conversation, and no state of the system depends on them.
* The stubs of the other boards and their registry, which nothing calls.
* The text of prompts and scripts and the summarizer's judgement: a model's answer is a
  choice of the environment.
* Webhook signatures, the flattening of the envelope, the clients' requests nothing
  uses, the spelling of regions and phone numbers: conversions no property is about.
* The scraper's browser automation, settings, migrations, audit scripts: no process
  runs them, or they only print.  Column widths and unique indexes are taken from
  the migration.

The reasons are with the components in `PROJECT.json`.

## 6. Plan

Done: `CallPipeline` with `CandidateFunnel`, its safety proofs and the proof of the
refinement; `WorkUaPoll` and `AdminGate` with their proofs; `InboundRouter` with `LeadRegistry` and the proof of the
refinement; `ProfileFilter`, `DailyReport`, `RobotaUaPoll` and `KeyCrmBootstrap` with
their proofs.

Left, in order of weight:

1. The guardrails, once a conversation uses them.
2. robota.ua's polls beside work.ua's, once the scheduler registers them: both feed the
   router, which `InboundRouter` has for any number of requests already.
