# A verification project for the HCX05 disclosure agent

The program answers questions about Korean company disclosures. A FastAPI
server takes `GET /answer`, lets one request at a time into a single worker
thread, and there runs an agent: a planner model (HyperCLOVA X) calls tools over
the OpenDART disclosure service, code checks every call, and a builder validates
the final draft before it is returned and cached. This directory holds TLA+
models of its control, the TLC runs that check them on small instances, and
TLAPS proofs for every size. Line numbers refer to `src/disclosure_agent/` of
the repository unless a path says otherwise.

Commands, in this directory: `tlc -config AnswerServer.cfg MCAnswerServer`,
`tlapm AnswerServerProofs.tla`. PROJECT.json lists the runs, the correspondence
of definitions to source lines, the hazards and the theorems.

## 1. Inventory

| Part | State it keeps | Operations | How it interacts | What is hard |
|---|---|---|---|---|
| Answer server (`server/app.py`, `execution.py`) | semaphore, executor queue, one worker thread, per-request deadline and cancel event, a thread-local request context | start, warm up, answer, time out, stop | calls the answer service in the worker; the event loop and the worker share the future, the event and the context | threads against coroutines, a run that outlives its handler, shutdown under a run |
| Answer service (`runtime/service.py`) | none of its own | `answer` | cache, runner, builder, in this order, under two deadline checks | a deadline that passes between two steps, failures that look like answers |
| Response cache (`runtime/cache.py`) | an ordered dictionary of answers with time and watermark | `get`, `put` | reads the OpenDART source's watermark | lazy expiry, eviction, spellings that share a key |
| Agent run (`agent/runner.py`) | counters, evidence, consulted histories, limitations, calls seen | preflights, planner loop, fallback, history loop, draft | tool registry, model gateway, request context | budgets counted in many places, a rule about histories over four branches |
| Answer builder (`agent/validator.py`, `answer_contract.py`, `presentation.py`) | none | `build`: check, introduce, repair or abstain, display | at most one more model call | text of a model around facts of the code; citations that stand for a chain of filings; a call with a time limit of its own |
| Retrying gateway (`runtime/retry.py`), gateway (`server/production.py`), HCX client (`hcx/`) | a counter | `complete` | the runner and the builder call it | three clocks decide a retry |
| OpenDART source (`sources/opendart.py`) | filings seen, lineage of corrections, eight documents, catalogue, watermark | search, sections, history, warm-up | tools call it; the cache reads its watermark | lineage from incremental, partial observation; snapshots that go stale |
| Tool registry and tools (`tool_registry.py`, `tools/`) | none of their own; the releases behind them | `dispatch` | between the runner and either backend, the release or the OpenDART source | a release replaced during a call, results at their size limit, pages that end inside a row |
| Correction linker, catalogue (`corrections/`, `corpus/`, `pipeline/`) | files of a release | batch build | offline | chains of corrections |
| Context packer (`context/packer.py`) | none | `pack_context` | runner | quotas per item and source, tables cut between rows, what is left out must be said |
| Retrieval index, parsing, reranker (`retrieval/`, `parsing/`, `reranker/`) | SQLite index of a release | build, search | offline, or behind tools | built from a release that may be replaced meanwhile |
| Release publication (`scripts/`, `corpus/`) | stores of releases, each with a pointer | audit, build, index, publish | offline; the service starts from what the pointers name | a kill between two steps, two builders |
| Evaluation and review (`evaluation/`, `scripts/`) | candidate cases, review sheets and releases, baselines | select, export, review, measure, authenticate | read each other's files and the stores of releases | five files replaced one by one, lineages read from three stores |
| Chat UI (`ui/`) | a session's messages | one question per turn | HTTP client of the server | little |

What makes each part correct: the server answers every admitted request once,
in order, in bounded time, whatever a run does, and leaves no abandoned run
with power to do harm; the service returns and keeps only what it has the right
to; the cache never serves an answer that immediate invalidation would have
dropped; a run stays within its budgets, ends, completes only on evidence and
drafts only after the correction histories were consulted; evidence is of one
release, reaches the context or is said to be missing, and what is served has
its numbers from what it cites, with the corrections told; a pointer names a
whole release, whose lineage resolves.

## 2. Modules

| Module | Models | Corresponds to |
|---|---|---|
| `AnswerContract` | what a client of `GET /answer` may rely on: one line, answered at its head | abstract |
| `AnswerServer` | lifespan, handler coroutines, asyncio semaphore, executor, timer, worker thread | `server/app.py`, `execution.py`, the deadline points of `runtime/service.py`, `agent/runner.py:8030-8181`, `agent/validator.py:1392-1585` |
| `AnswerServerProofs` | inductive invariant and theorems about `AnswerServer`, its line and how long one waits in it | |
| `FreshAnswers` | what the cache promises: immediate invalidation | abstract |
| `ResponseCache` | `BoundedResponseCache` | `runtime/cache.py` |
| `AnswerService` | `ReliableAnswerService.answer` on top of `ResponseCache` | `runtime/service.py` |
| `AnswerServiceProofs` | inductive invariant and theorems about the service and its cache | |
| `AgentRun` | one `AgentRunner.run` | `agent/runner.py:8042-13488` |
| `RouteSteps`, `EventRoutes`, `PeriodicRoutes` | the routes in code of the preflight, call by call | `agent/runner.py:8183-12190`, `agent/open_profile_route.py` |
| `AgentRoutes` | the routes composed, against `AgentRun` | |
| `AgentRunProofs` | inductive invariants and theorems about `AgentRun` and its routes; the routes implement it | |
| `RetryGateway` | one model call: `BoundedRetryGateway.complete` down to the HTTP request | `runtime/retry.py`, `server/production.py:78-146`, `hcx/client.py:226-336` |
| `RetryGatewayProofs` | inductive invariant and theorems about `RetryGateway` | |
| `DisclosureSource` | `OpenDartSource`: filings seen, lineage of corrections, kept documents | `sources/opendart.py:1010-2121` |
| `DisclosureSourceProofs` | what the lineage's loop computes, by induction; inductive invariant and theorems about `DisclosureSource` | |
| `SectionText`, `ContextPacker` | a section's lines, parts and pages; what is packed of them | `parsing/periodic.py`, `tools/filings.py`, `context/packer.py` |
| `DisclosureTools`, `ToolRegistry` | the tools of either backend and the dispatch around them | `tools/`, `tool_registry.py` |
| `EvidencePath` | the calls of a question and the packing of what they bring | the four above, composed |
| `EvidencePathInvariants` | the inductive invariants of `EvidencePath` and what they are stated with | |
| `EvidencePathProofs` | what texts, chunks, pages and results are and take, by induction; inductive invariants and theorems about `EvidencePath` | |
| `AnswerChecks` | an answer, its citations, every check on it, its display | `agent/validator.py:352-1050`, `answer_contract.py`, `presentation.py` |
| `GroundedAnswers` | `GroundedAnswerBuilder.build` | `agent/validator.py:160-290`, 1128-1585 |
| `GroundedAnswersProofs` | inductive invariant and theorems about `GroundedAnswers` | |
| `Releases` | the tools of `scripts/` that publish and read releases | `scripts/`, `evaluation/`, `corpus/catalog.py`, `retrieval/fts.py` |
| `ReleasesProofs` | inductive invariant and theorems about `Releases` | |
| `MC...` | constants and symmetry for TLC | |

The server, the service, the run and the gateway are the same call seen at four
grains. `AnswerServer` reduces the run to the points at which it looks at its
request's deadline or is visible from outside (`stage`); `AnswerService` reduces
it to what it returns (`Runs`), and lets `Return`, `Ask` and `SecondCheck` carry
the cache's `Get` and `Put`; `AgentRun` models the run itself. They are not
composed in one state space: the executor has one worker (`app.py:121`), so
service, cache and run are sequential and the only state they share with the
server is the deadline and the cancel event, which is `expired` in the service
and the run. A model call of `AnswerServer` or `AgentRun` is one whole call of
`RetryGateway`, so it may hold one replayed HTTP request, and the limits of
`RetryGateway` are why the outer modules may take it that a model call ends.

**AnswerServer.** `phase[r]` is the place of request r's coroutine, `value` and
`waiters` the semaphore, `pool`, `job`, `thread` the executor's queue, the futures
and the worker, `cancel`, `left`, `context` what `request_execution` binds. A step
of the event loop is one turn between two awaits, so `TimeOut` sets the cancel
event, cancels the future, leaves the semaphore and replies at once; a step of
the worker is the code between two points at which another thread's action can
matter: `ArmCall`, `CheckCall` and `SendCall` are three steps because the
request can time out between reading the remaining time, looking at the event
and calling the gateway. asyncio's semaphore, the executor's work item and
uvicorn's drain are external and modelled from how `app.py` uses them.

**ResponseCache.** An entry carries its question's spelling, its age in ticks and
the watermark of its put. The releases and versions in the key are constants of
the process. `Watermark(ok)` is what the provider gives when it works. The clock
is monotonic, so an age never falls; it is counted up to the time limit.

**AnswerService.** `run` is the runner's result reduced to outcome, whether it has
evidence, and whether a backend failed in it (a limitation of
`RuntimeTemporaryError._CATEGORIES`). `returned` is history: the last answer a
caller got. `Observe` lets filings be seen only during a run, since only the
run's calls reach the source.

**AgentRun.** `pc` is the part of `run` that executes; a tool call or a model call
is a step. Evidence is the set of filings it cites; a correction is satisfied by
a history consulted under one of the names its citation gives (`Names`). The
text classifiers that route a question are free choices: the preflight
(`Routes`) is any number of calls that look at the budget and at most two that
do not (10544, then 11304, 11897 or 12093), with any result, followed by any of
its endings. `limits` keeps only the limitations the code reads again.

**The routes.** `AgentRoutes` adds to the variables of `AgentRun` where in which
route the preflight is (`stage`), the subjects (companies, years or types)
that were asked for, what is left to do, what is owed to a calculation, what the
answer names as missing (`named`), how much of the question it owes (`rule`) and
which types of events were looked at (`checked`). Each action is a call of one route
together with what the code does with its result; `ImplementsAgentRun` says that
each is a step `AgentRun` allows, so that the invariants proved there hold of the
routes. What a table holds, and so whether a figure is found in it, is a free
choice. Routes that differ only in wording share their actions.

**RetryGateway.** `clock` is the time since `complete` was entered; `deadline` is
the caller's remaining time cut to the hard deadline. Each attempt derives the
connect and read limits from what remains at that moment (`Post`). A limit of
`requests` bounds one wait for the socket: connecting, then the headers, then
every further part of the body (`MorePieces`); a silence in the body is raised
as a connection error, not as a read timeout (`BodyStalls`). `HcxClient.chat`
maps what happened to the error classes that `_retry_delay` tells apart
(`error`). `requests` and `time.sleep` are external. `failedAt` and `overrun` are
history: when the last failure was caught, and how much time no limit of the
code bounds.

**DisclosureSource.** Filings are numbered in the order of receipt date and
number; `filed` and `rm` are the service's, `seen`, `flags` and `row` the keys of
`_filings` and the fields of its rows that matter, `documents` the ordered store
with the copy of the row each document carries. The service is external: it
publishes filings in order and marks old ones, before or after the correction
that explains the mark, and takes no mark back. Every search may find any set of
the filings published, since company, period, type and pages are free. `Ingest`
is `_ingest_filings` with the whole of `_apply_correction_lineage` (`Lineage`:
reset, then one turn per correction in order). `torn` is history: the reports
whose last listing broke off at a malformed row, after the rows before it had
replaced theirs. Calls of the source are made by the one worker and run to their
end, so each is one step. The reference definition (`RootOf`) is stated with the
properties.

**The evidence path.** A section is a sequence of blocks, a block a sequence of
lines (of prose, or a table, perhaps under a caption), a line a kind (prose, table
header, separator, row), an identity and a length. `SectionText` cuts blocks into
parts as the indexer does, and a reading of them into pages as `read_section` does.
A path may occur several times in a file and in several files of a document
(`files`): the parts of each occurrence are numbered from 1 on, and what is read is
the rows of a file in the order of these numbers, file after file (`InFile`, `Rows`,
`stored`). The OpenDART source gives a repeated path a name of its own, so there a
path occurs once. `DisclosureTools` gives what each tool
finds, in the local backend or over the live source, as rows with a size and a
citation; `ToolRegistry` is `dispatch`: the company argument, the look at the
release before and after, normalisation, the size of the result. `Rebind` replaces
the release behind a path at any step. `EvidencePath` lets a question make any
calls, puts the pages of a section together and packs what was collected, with
or without interleaving.

**AnswerChecks, GroundedAnswers.** An answer is a sequence of claims; a claim has
numbers, terms, companies and citations. A citation is the name of a report with a
receipt, a date of filing or both, and perhaps a section; an item of evidence is a
section of a filing of a chain with the numbers and terms its text has. A citation
matches an item as in `_match_citation`: a part of a name is as good as the name
(`Overlapping`), some words stand for any section (`AnySection`), a receipt may be
that of the root or the latest of the chain, and without a receipt a date will do.
`Validate` gives the set of issues that `validate` would list. The module's state
is a build: the draft's issues, the one call of the model, what is served.
What the model writes is any answer of `Leads` and `Repairs`, or it fails.
`response.shown` is the answer as displayed (`_present_answer_citations`).

**Releases.** A release is renamed into place whole under a hash of its contents,
so it is modelled by its contents, the lineage it was built from. Each process
runs the steps of a tool in order (`Course`); a step is one action and reads or
writes what the code does at that place. `Interrupt` ends a tool at any step and
stands for an exception, a failed check and a kill alike, because what is left
on disk is the same. `NewRevision` changes the corpus under the tools. The
cases of the evaluation are the exception: their files are replaced in place.

## 3. Runs

| Run | Checks | Shows |
|---|---|---|
| `answer_server` | `SemaphoreSafe`, `OrphansAreCancelled`, `AtMostOneLateCall`, `ServiceOutlivesRuns`, `BoundedWait`, `NoAbandonedStart`, `ImplementsContract`, `StopCompletes` | 765 000 states: three requests, so that one can wait behind two and a timed-out run can hold the worker while the next job is in the pool; refinement of `AnswerContract` with its fairness, nothing assumed of the worker; the stop ends, given that runs end |
| `answer_service` | `KeptWasReturned`, `ImplementsFreshAnswers` | service and cache composed: every run, builder outcome, deadline and failing watermark, three keys for two places, two spellings |
| `agent_run` | `AgentTypeOK`, `ToolCallsBounded`, `DraftsKnowHistory`, `RunEnds` | 869 000 states: an original and two corrections, the first neither root nor latest of its chain |
| `agent_routes` | `CalculationsHaveRoom`, `AnswersCoverTheQuestion`, `ImplementsAgentRun`, `RoutesEnd` | 454 000 states: all routes with three subjects and six calls |
| `retry_gateway` | `NeverLate`, `ReplayIsAllowed`, `CallEnds` | 483 000 states: budgets on both sides of every threshold (none, below the minimum of an attempt, below the transport's own minimum, short, ordinary, above the hard deadline), pauses that are free, allowed and too long |
| `disclosure_source` | `SourceTypeOK`, `LineageFollowsObservation`, `OneLatestPerChain`, `HistoryAnswersLinks`, `LinksPersist` | 105 000 states, 11 million steps: a report with two corrections and a filing of another report in between |
| `evidence` | `OneLineage`, `AnswersArrive`, `ShownOrSaid`, `SectionArrives`, `EveryItemHeard` | 2 505 000 states: three calls over either backend, releases replaced at any step, sections of prose and of tables with and without a caption in pages, paths that come again in a file or in another file, results at their limits |
| `answers` | `NumbersAreCited`, `LockedFactsSurvive`, `CorrectionsShown`, `OneModelCall` | 60 000 states: a chain of an original and its correction, filings of another company, one of the same day, one withdrawn, citations with a receipt or a date, drafts of routes and of the model, every introduction and repair of a small set |
| `releases` | `LineageResolves`, `ServedTogether`, `BaselineOfOneLineage`, `NeverMixed`, `NothingLeftOut` | 1 240 000 states: two processes, five tools started, two revisions, every tool killed at every step |

`SourceTypeOK` and `AgentTypeOK` are more than types: the store of documents is
within its limit and holds none twice, and the model is called `max_model_calls`
times at most. The type invariants of the server, the gateway and the evidence path,
and the budgets of a context (`ContextFits`), are proved (section 4) and in no run.

Three runs end in a violation, each a disagreement of a document with the code:

| Run | The document | The code |
|---|---|---|
| `answer_service_transient` | `docs/reviews/CURRENT_ARCHITECTURE_REVIEW.md:328`, `runtime/service.py:53`: transient failures do not enter the cache | a run that found evidence before the model failed is cached as an information limit (`runtime/service.py:127`) |
| `evidence_rows` | `docs/TECHNICAL_PROPOSAL.md:200`: rows of a table are packed whole, and one that does not fit is left out as a whole | `read_section` cuts a page at a character (`tools/filings.py:107`); a row cut inside its last cell has as many cells as its header and is packed as a whole row: of the amount 67890 the context shows 6, and does not say that it is incomplete |
| `answers_receipt` | `docs/TECHNICAL_PROPOSAL.md:126`: the validator confirms that numbers and the receipts cited for them agree | a citation matches every filing of its chain (`agent/validator.py:696-703`), so a number of the corrected original is served with a citation of the correction. `NumbersAreCited` is what holds |

Further promises that the code does not keep are stated as properties of the
modules and are in no cfg; put into the cfg of the module's run, TLC shows each
violated:

| Property | The document | The code |
|---|---|---|
| `BudgetPropagates` (`AnswerServer`) | `docs/CHAT_UI_USAGE.md:101`: the remaining time budget propagates to the model layer | the repair call gets 30 s whatever is left (`agent/validator.py:1544`) |
| `ToolBudgetHolds` (`AgentRun`) | `README.md:66`: a strict budget of eight tool calls | the listing in front of a read is counted, then the read without another look (`agent/runner.py:12665`, 12877). `ToolCallsBounded` is what holds |
| `PartialAnswersSaySo` (`AgentRoutes`) | `docs/TECHNICAL_PROPOSAL.md:205`: an answer to a part of a compound question shows what was not confirmed | said of amounts, margins and types of events that are missing, but not by every route: a comparison of companies is given when two were found (`agent/runner.py:10813`), corrections, terminations and the second hop of a merger are told without the types that had none (9802, 10471, 3424, 8708), the table of funding names some of the securities, segments are told from one of two searches (10626), and an extract shows the filing of the receipt alone (12141). `AnswersCoverTheQuestion` is what holds |
| `ReplacedIsNotLatest` (`DisclosureSource`) | `docs/OPENDART_IMPROVEMENT_ROADMAP.md:164`: a withdrawn or replaced filing is treated as `is_latest=False` | sections are cited from the copy of the row made when the document was downloaded (`sources/opendart.py:1732`), which later listings do not reach. `HistoryAnswersLinks` is what holds of such a copy |
| `AmbiguousNamesReachTheCaller` (`EvidencePath`) | `tool_registry.py:691`: an ambiguous company name gives an ambiguous result and never a hard error | of two tools the candidates are taken for rows without citations, and the call ends as `malformed_tool_result` (`tool_registry.py:513`) |
| `JoinedPagesHaveNoGap` (`EvidencePath`) | `agent/open_profile_route.py:205`: a second page closes the section, and a gap is never spliced | a page goes on at the number of a part (`tools/filings.py:102`, 119), and every file of a document numbers the parts of a path anew (`parsing/periodic.py:254`): where two files have the path, neither page has the parts of the second below that number, and the second page says that it is the end. `SectionArrives` is what holds of one file |
| `CitedCorrectionsShown` (`GroundedAnswers`) | `docs/TECHNICAL_PROPOSAL.md:193`: a correction that is cited is told | disclosures are built from the passages in the context only (`agent/validator.py:664`, 1032), and an answer of a route may cite evidence that was not packed. `CorrectionsShown` is what holds |
| `NumbersAreOfTheirCompany` (`GroundedAnswers`) | `docs/TECHNICAL_PROPOSAL.md:126`: the validator confirms that numbers and the receipts cited for them agree | a citation with a date of filing and a part of a report's name needs no receipt (`agent/validator.py:705-710`) and matches the reports of that name that several companies filed on that day: a number of one passes for the other. `NumbersAreCited` says what holds of such a citation |

Four more, without a property. The comment at `agent/validator.py:834` says that the
model never gets to cite what was not packed for it; a repaired answer of a
deterministic run is checked with the same exemption, since `trusted` looks at the
run only. The time a request waits in line is not in its deadline, which is
taken inside the semaphore (`server/app.py:164`), although `docs/API_SPEC.md:119`
speaks of the whole processing; `BoundedWait` says what a client can count on.
`docs/TECHNICAL_PROPOSAL.md:135` speaks of exponential backoff; the code pauses as
long as `Retry-After` asks, or not at all. `tests/unit/test_runtime_budget.py:132`
does not replay a read timeout because completion is uncertain; a connection lost
after the request was sent is as uncertain and is replayed (`hcx/client.py:271`,
`runtime/retry.py:27`).

### Bounds

- Server: three requests, because the interesting triple is one orphaned run, one
  job in the pool and one coroutine parked. Timeouts of one tick: what matters is
  whether a timer has run out, and `BoundedWait` is exercised with a line of
  three. One model call and the repair.
- Service and cache: `MaxFiling` new filings and `Ttl` ticks; three keys for two
  places, so that something is evicted.
- Run: two tool calls, three model calls, `MaxTurn` calls in a response,
  `MaxCompanies` companies. The planner can then look something up, list and
  read, or find corrections and read a history, and every limit is met on every
  branch. Age, `left` and the counters are bounded by guards of the code itself.
- Routes: three subjects, so that a question is answered in part and a loop leaves
  one of two companies out; six calls, of which a ranking of a sector can use all.
- Gateway: a tick is 0.05 s at the lower limits, so that 0.05 s, 0.1 s and 0.2 s
  are 1, 2 and 4; the upper limits are scaled down but keep their order.
  `MaxPieces` is 1, since one wait after the first already outlasts the read
  limit, and `MaxOversleep` is 1.
- Source: `NumFilings` 4, so that a chain has a root, a middle and an end and one
  filing turns up between them; one withdrawal (`MaxWithdrawn`); one document and
  one download per search, so that both limits are met.
- Evidence: `MaxCalls` 3, so that a section takes two pages beside another
  company's. One path comes twice in a file, one in two files, and one so often in a
  file that a page of it is too large a result. Lengths are scaled (a part 12, a page 16, a passage 10, the context
  33, a header 2) and keep the order of the code's limits; the largest result is 46,
  which `SizesAssumption` needs for a page of four parts. A table of which the
  header alone exceeds a passage is out of these sizes. After the packing a
  question is over, so this run does not look for deadlocks.
- Answers: one number and one term per filing is enough to tell filings apart;
  `MaxSize` 9 stands for the 32 768 characters of a serialized response, which some
  drafts and displays exceed. A correction and another company's report have one
  date and names of which one contains the other, for citations without a receipt.
- Releases: `MaxJobs` 5 tools started on an empty store or on what one run of the
  whole chain left, `MaxRevision` 1 further revision.

`MaxFiling`, `MaxTurn`, `MaxCompanies`, `MaxPieces`, `MaxOversleep`, `MaxWithdrawn`,
`NumFilings`, `MaxCalls`, `MaxJobs` and `MaxRevision` are bounds of the models; the
other numbers are limits the code has, scaled. The proofs hold for every value of
both in the modules they are about.

### Fairness and time

`FairSpec` of the server: the event loop runs what is ready and time passes.
Nothing is assumed of the worker, because a model call can hang. `StopCompletes`
assumes the worker's steps, too (`StopFairness`): the stop waits for the run
(`wait=True`), which ends because the gateway has time limits. `FairSpec` of the
run: its steps are taken, for the same reason; the deadline need not pass.
`FairSpec` of the gateway: the thread runs, its socket timers fire and time
passes; nothing is assumed of the network. `Tick` waits for the loop when a
timer is due or a result is there: a tick is far longer than a turn of the loop.
Without this no bound on waiting could be stated.

## 4. Proofs

`AnswerServerProofs`, from `ServerAssumption` (positive timeouts, one worker):

- `TypeCorrect`, `SemaphoreIsSafe`, `OrphansCancelled`, `OneLateCall`,
  `ServiceOutlives`, `AbandonedNeverStart`.
- The inductive invariant is `IInv`, in four parts. `LoopInv`: the counter is
  down exactly while one handler is inside, and the parked coroutines are queued
  and distinct; without distinctness a release could wake a coroutine that is no
  longer parked. `JobInv`: the worker's run is a running job under its request's
  context, a handler that waits has a job that is pending, running or done, one
  that has replied has none pending, and if it still runs, its event is set; this
  ties the future's state to the handler's phase across both threads. `LateInv`:
  late calls are counted only after the reply, and after one the worker is in a
  stage from which every check leads out. `ServiceInv`: with a request inside or
  a run in the worker the lifespan is where the service is open.
- Every part has a lemma per action; the theorems combine them with PTL.

`AgentRunProofs`, from `AgentAssumption` (a correction's citation names itself):

- `TypeCorrectRun`, `ToolCallsStayBounded`, `DraftsFollowHistory`,
  `CompletedHasEvidence`.
- The inductive invariant is `RunInv`. `BudgetInv` bounds the calls at each place
  of the preflight and at the planner's call, where one listing may be unpaid.
  `HistoryInv` says the preflight precedes all model calls and that from the
  check of the histories to the draft no evidence is added. `EvidenceInv`
  carries that evidence is there from the first branch on it to the result, and
  that a statement was read only with evidence.
- `StopKeepsRunInv`, `AdvanceKeepsRunInv` and `AnyCallKeepsRunInv` cover the
  three kinds of steps (ending, moving, calling); each action cites one of them.
  TLC has checked `RunInv` itself as an invariant of `agent_run`.

The routes, in the same module, from `RouteAssumption` (finitely many subjects):

- `RoutesImplementAgentRun`: every step of every route is one that `AgentRun` allows
  its preflight. By it `RouteCallsStayBounded` carries `ToolCallsBounded` over to the
  routes for any question, number of subjects and budget.
- `CalculationsKeepRoom` and `AnswersCoverTheQuestion` (`RoutesCoverTheQuestion`). The
  question itself (`asked`) is never changed to fit what was found: `rule` is what the
  answer at hand owes to it, set where the code chooses the answer. Most answers owe
  all of it, by citation or by name; those about corrections, terminations, funding
  and a merger owe that every type of event was looked at (`checked`, the code's
  `verified_event_types`), segments and a corrected amount that something asked for
  is cited, a comparison two companies, an extract nothing more than itself.
- The inductive invariant is `RouteInv`: `RunInv` with four more parts. `PlaceInv` ties
  the place in a route to the place in the run, which makes each step one of
  `AgentRun`. `RoomInv` is the counting ahead: what a loop still has to call, twice
  per company for a margin, fits what is left of the budget. `RuleInv`
  ties the rule to the place. `CoverInv`: at each place, everything asked is found,
  named as missing, still to be done, or the subject in hand, or every type was
  looked at; dropping one at a failure is how an answer could leave something out.
- The proof corrected the model. `CalculationsHaveRoom` had claimed room for every
  ranking; with a budget of one call `candidate_capacity` is 0
  (`agent/runner.py:8974`), the route goes through with no company checked, and
  there is none. It now speaks of a route that has something to rank.

`RetryGatewayProofs`, from `GatewayAssumption` (limits positive, the shortest
connect limit no longer than the transport's minimum, at most one retry):

- `TypeCorrectGateway`, `AttemptsBounded`, `CallsEndInTime`, `ReplaysAreAllowed`.
- The inductive invariant is `GInv`. `CountInv` ties attempts, counted when they
  are made, to retries, counted when one is decided on. `TimeInv` says that the
  wait in progress still fits the deadline; while connecting, the connect and
  the first read limit together. It needs `LimitsFit`: the two limits the
  transport derives never exceed what remains. `ReplayInv` carries why a request
  may be sent again from the decision over the pause to the request.

The line of `AnswerServer`, in the same module, on top of `IInv`:

- `WaitIsBounded`: `BoundedWait` for any number of requests and any time limits.
  `LineInv` says that who is queued is parked, and nobody was replied to early.
  `WaitInv` is what makes the bound inductive: what a parked request has waited,
  what the one inside has left and a turn for each request parked in front of it
  fit the turns that it found ahead of itself. When the head leaves, the next one
  starts with a full turn of its own, which `WaitInv` had set aside.
- `ServerIsOneLine`: the safety part of `ImplementsContract`. The line of
  `AnswerContract` is the holder followed by the parked requests (`Line`). Arriving
  appends to it (`ArriveAdmits`), a refusal does not touch it (`RejectRefuses`), and
  only its head leaves (`LeaveAnswers`), whichever of result, timeout or error was
  the reason. That the line keeps moving is liveness and stays with TLC.

`AnswerServiceProofs`, from `CacheAssumption` and `NothingAssumption` (the absent
value is neither an answer nor an entry):

- `KeptIsReturned`, and `LazyPurgingIsImmediate`, which is the refinement
  `ImplementsFreshAnswers` for any number of keys, places, ticks and filings.
- The inductive invariant is `CacheInv`. `EntriesInv`: no mark is later than the
  newest filing, so that a new one invalidates everything at once, as
  `FreshAnswers` does. `MissInv`: while a question is under way nothing is kept for
  its spelling. It is needed where an answer is returned but cannot be stored,
  because an older one must not stay behind as if it were the last.
- The mapping is `ValidAnswer`: an entry counts only while it is fresh. A get that
  drops a stale entry is a stutter of the abstract cache, which dropped it when
  time or the filing passed.

`DisclosureSourceProofs`, from `SourceAssumption` (a correction is a filing, each
filing has a report, the limits are positive):

- `SourceTyped`, `LineageIsThatOfAllSeen`, `LatestIsUnique`, `HistoriesAnswerLinks`,
  `LinksOnceFoundPersist`: all properties of the run `disclosure_source`, for any
  number of filings, reports, corrections and kept documents. The last is an
  action property.
- `_apply_correction_lineage` resets the rows and then takes one turn per correction;
  `Lineage` is that loop, `RootOf` the recursive definition of what it is to compute.
  The lemmas follow the loop turn by turn: after turn n the rows of the reports
  concerned are those the definition gives over the corrections up to n, which
  depends on earlier turns only for filings of the same report.
- The inductive invariant is `SourceInv`. `LineageFollowsObservation` is part of it,
  for the reports whose last listing did not break off. Kept documents carry copies
  of rows that later listings do not reach, so `DocsOK` says of a copy not that it
  is the row but what stays true of it: it is linked only where there is evidence
  of a link (`LinksHaveEvidence`), and evidence only grows (`EvidenceGrows`).

`GroundedAnswersProofs`, from `BuildAssumption` (drafts and repairs are answers, an
evidence is finite, an introduction names companies, numbers and terms):

- `OnlyCleanAnswersAreServed`, `ModelIsCalledOnce`,
  `NumbersComeFromTheirCitations`, `CorrectionsAreShown`, `LockedFactsAreServed`.
- The inductive invariant is `BuildInv`. The model was not called before something
  is served; an introduction is asked for a clean draft only; a repair is asked for
  only where there are issues, so one that fails leaves them and what is served is
  an abstention. What is served as an answer is `Sound`: it has passed all checks
  in the form in which it is served, the locked facts put back by the code
  included.
- Numbers: the check is made on the claims as the validator reads them. What
  matches a citation (`Match`) is a filing the citation can mean (`Means`): one of
  the chain of the receipt it gives, or, when it gives a date only, any of that date
  with such a report's name. The theorem says no more of the latter, and the former
  is what ties a number to one company. Where all the evidence is of one filing the
  claims are not held to their citations, but then it is the filing that some
  citation means.
- Corrections: the display keeps one disclosure per chain. The selection runs over
  a finite set and always leaves one, so no chain that has a correction loses it.
- Locked facts: an answer whose citations were made exact stays exact when it is
  made exact again, and adding an introduction or repairing keeps numbers,
  citations and corrections of the other claims (`SameFacts`); a draft without an
  issue therefore passes every further check, and no branch replaces it.

`EvidencePathProofs`, from `CallsAssumption` (a call that is permitted is of a
tool that is modelled), `WorldAssumption` (blocks, sizes and limits are such),
`ChunkAssumption` and `SizesAssumption` (the limits leave room, below), and
`PackerAssumption` and `HeaderAssumption` (the packer's limits are positive, a
passage is no longer than a context, and a header does not end just where the
separator of two passages no longer fits):

- `ResultsAreOfOneLineage`: what `dispatch` lets through was read from the release
  the registry was bound to, whenever a path is rebound. `LineageInv`: an answer
  that waits for the second look need not be of that release; it is while the
  release is still in place (`Intact`), and a replacement stays, so that the look
  finds it.
- `EvidenceIsOfOneLineage`: so is everything a question collects over its calls,
  also after whole chunks took the place of the parts that two pages had brought.
- `AnswersGetThrough`: what a tool found is not refused by the registry's checks of
  citations and of size, for every list and limit, and for every page of a path that
  occurs once. A page of many occurrences has as many short parts as there are of
  them, and can be too large.
- The inductive invariant is `PathInv` (in `EvidencePathInvariants`). `AnswerInv` keeps of an answer that waits
  what the tool made sure of (`Sound`): the kind of citation of its rows, and that a
  page, or what is left of a list of events, fits a result. `EvidenceInv` types the
  evidence as items of the lineage, and the kept pages as pages of the section.
  TLC has checked `PathInv` on the instance of the run.
- Why a page fits is the hard part. Its text is in the result twice and each part
  is cited twice, so many short parts could exceed any limit. But the indexer puts
  neighbours together while they fit, so no two neighbours of an occurrence could be
  one chunk (`Grouped`, kept by `AddPiece`), and where there is no other occurrence
  (`Once`), of every two whole parts on a page
  the lengths add up to more than `MaxChunkChars`. `Paged` is the invariant of the
  loop that fills a page, `MaxParts` the bound on its parts that follows. With the
  code's numbers (pages of 12 000, chunks of 3 500, results of 65 536) that is
  eight parts, and `SizesAssumption` says that they and their citations have room.
  It says the same of the events, whose list is cut at 60 000.
- `PathIsTyped`: `EvidenceTypeOK`, from `PathInv` and `TypeInv`, the types of the
  registry's variables, which no other part needs.

What is packed, in the same module, on top of `PathInv`:

- `NothingLeftOutInSilence` (`ShownOrSaid`), `NoItemIsTalkedOver` (`EveryItemHeard`)
  and `BudgetsAreKept` (`ContextFits`: characters, passages, passages of a source,
  the size of each), for every evidence, order and limit.
- The inductive invariant is `PackInv`: the context is the packing of the evidence
  as it still is. All else is said of `PackContext` as a function of any evidence,
  fold by fold. Sorting: `Before` is a strict total order, so that the number of
  those that come before an item is its place, and `Unique` lists each of the
  firsts once (`UniqueHolds`). Splitting: what the candidates of a text show,
  together with what is said to be left out, is all of it up to the cursor
  (`SplitHolds`); with the overlap, the walk over prose still goes on by at least a
  character, and a candidate fits the passage it was cut for (`Fits`): the room of
  the first passage for the first candidate, that of a later one for all others.
  Taking turns drops none (`CandidatesHold`). Selecting: a candidate that fits is
  taken or a limitation names the quota or budget (`SelectHolds`).
- `HeaderAssumption` is where the code's promise ends. If the header of a passage
  is so long that the first passage has room for one or two characters and a later
  one for none, prose is cut off after the first passage, and the context is marked
  as truncated without a limitation that says why (`packer.py:237-238`, 271-273).
  Headers of a few hundred characters in passages of 2 400 stay away from it.
- `EveryItemHeard` rests on the order of the candidates: the leads of the groups
  come first, and what they take is followed along with the selection
  (`HeardHolds`). The first of each group finds room, and nothing of its source was
  selected before it; what follows it in a small group may meet the quota of its
  source, but an item needs one passage to be heard.
- `SectionsArriveWhole` (`SectionArrives`): from the indexer's parts over the pages,
  the joining of two pages and the packing to the context, every character of every
  block of every occurrence of the path in a file. It goes by origins, the place in a
  block that a character is from. The parts of an occurrence have all of its blocks
  (`ChunksOrigins`), and the rows of a file are those of its occurrences, ordered by
  number (`InFileHolds`). A page has whole every row from the number it was asked
  for up to the one that it gives to go on from (`PageHolds`): that number is the one
  of the first row that is not whole, and in one file no later row has a lower one.
  A cut row shows nothing that is not of it (`PrefixOrigins`), and two joined pages
  have what both had (`JoinedWhole`). The inductive invariant is `SectionInv`: the
  pages that are held are finitely many, a page's answer is that page, a result holds
  its parts, and what a held page had stays in the evidence, though a join replaces
  the items. Pages that lead from the first part to the end (`Reached`, followed step
  by step in `ReachedSteps`) leave no row between them out (`SectionHeld`). Of a path
  in several files nothing is claimed: there a later row may have a lower number
  (section 3).
- TLC has checked `PackInv` and `SectionInv` on the instance of the run.
- The proof needs to know what a block is: lines of prose, or a table whose header
  comes first or after a caption and a blank line, as the parser makes them
  (`parsing/periodic.py:69-153`, `Blocks`). A caption of more than one line makes
  `_split_table_text` repeat the wrong lines (159-161): the pieces after the first
  then lack the separator, but have every row, which is all that is claimed. The
  packer's sort, filter and split are stated as folds and sets, which are what the
  prover can expand.

`ReleasesProofs`, from `ToolsAssumption` (the tools are those of `Course`):

- `LineagesResolve`, `BaselinesAreOfOneLineage`, `NothingIsLeftOut`,
  `ServesOneSnapshot`, `CasesAreNeverMixed`: all properties of the run `releases`,
  for any number of processes, tools started and revisions of the corpus.
- What the tools do in which order is stated once (`Orderly`) and proved of every
  course; the rest of the proof speaks of steps and what they have passed, not of
  places in a course.
- The inductive invariant is `ChainInv`. `ReadInv` says that what a process has read
  is complete and fits what it read before. It survives all other processes,
  because releases are only added (`Grows`): that is why nothing has to lock a
  store. `PublishInv` says that a pointer about to be set names a release that is
  there, `LoadedInv` that loaded cases are those of the manifest that was read. A
  kill only ends a process, so it takes nothing from the invariant. TLC has checked
  `ChainInv` on the instance of the run, too.

### Induction

The library's induction theorems take an operator as a parameter, which no prover
here can instantiate. Both proof modules about data therefore begin with induction
stated of a set: `SetInduction` (a set that has 0 and, with a number, the next one
has all of them), proved from the least number outside of it. A recursive function
is followed turn by turn (`LineageTurns`, `RootOfTurns`, `LineStarts`). A fold is
unfolded as the function that its definition chooses (`FoldLeft`,
`MapThenFoldSet`): `FoldExists` shows that there is one when no step leaves a set,
`MaxUpto` that its value on `1..k` is step k applied to its value on `1..(k-1)`,
and `FoldStays` carries an invariant along. So the chunks of a section, a page and
what its rows take are handled, and each fold of the packer (`SelectRuns`,
`GrownRuns` and others like them give a fold as a sequence of states, one for each
element).

### Only model-checked, and why

- Liveness (`StopCompletes`, `RunEnds`, `RoutesEnd`, `CallEnds`) and the fairness
  half of `ImplementsContract`: the prover does not reason about fairness and
  `ENABLED`.
- The promises that the code does not keep (section 3), which TLC refutes.

Every safety invariant and every action property of the passing runs is a theorem.

## 5. Not modelled

- Texts. What a question's wording selects is a free choice among the routes;
  prompts, formatting of answers and traces, and the wording of tables and
  narratives are left out, and so are the helpers that only classify or render
  text (`agent/prompts.py`, `annual_topics.py` and others).
- `calculate`, which is arithmetic on exact decimals without state, and the JSON
  schemas of arguments. Results of a tool that fail a check of their form are one
  outcome (`DispatchEndsRun`).
- The scoring by which the linker picks a candidate original, the scores and
  tokens of the index, XML parsing, sentence boundaries inside a line of prose:
  all are functions of text. The reranker is an optional reordering of results and
  not on the served path.
- Of the OpenDART source: the company catalogue and its warm-up, and structured
  accounts, which keep nothing. A row that one search lists twice.
- Of the validator: the checks that the question handed to the builder is the one
  of the run, which `service.py` makes true by construction, and the annotation
  of amounts in a ranking. A citation on a line of its own, which is matched like
  one in brackets but not made exact, and names that contain a date. Two issues cannot arise from an answer the modelled
  code produces (`no_evidence_factual_answer`, `correction_disclosure_required`), and `_compose_closed_presentation` has no
  caller.
- Of the evaluation: metrics and the judging of answers. Of the pipeline: what the
  tables of a release hold, and that `build_pipeline` verifies a release once more
  after its pointer is set, which changes nothing on disk.
- That reading a section page by page ends. Where a path comes again in a file, a
  page goes on at the lowest number it does not have whole, so that it brings some
  rows twice, and with more occurrences than a page has room for it brings the same
  rows again (`tools/filings.py:119`). `SectionArrives` speaks of what was read to
  its end.
- `/healthz` reads a flag. The chat UI sends one question at a time and does not
  retry.

## 6. Hazards

PROJECT.json lists them at their lines. Three have no property that holds:

- the repair call has a time limit of its own (`agent/validator.py:1544`).
  `BudgetPropagates` states what the documents say and the code breaks it
  (section 3);
- the watermark is read at the put, after the evidence was gathered
  (`runtime/cache.py:135`), and a mark on an old filing does not move it
  (`sources/opendart.py:1291`): the code promises invalidation by filings newer
  than the put and no more, which `ImplementsFreshAnswers` shows it keeps;
- the structured preflight reaches the draft without the check of histories
  (`agent/runner.py:11881`): the code makes no promise for that branch, and
  `DraftsKnowHistory` exempts it.

One more is of a part that is not modelled: the catalogue of companies is marked as
loaded before it is validated and installed (`sources/opendart.py:1069`), so that
an unusable one is not asked for again.

## 7. Plan

What is left, in this order:

1. `DisclosureSource` and `ResponseCache` in one state space, so that a marked old
   filing and an answer stamped later than its evidence can be told apart.
2. The company catalogue's warm-up (section 6), beside the server's start.
