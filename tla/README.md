# HelmOS: specifications, model checks and proofs

HelmOS helps an operator turn signals from the market into business ideas.  A
Node.js control plane (`src/src/backend/app`, Express and Prisma over
PostgreSQL) serves the Angular application (`src/src/webapp`) and runs background
timers; a Python Agent Gateway (FastAPI and LangGraph, in the same directory tree
as the control plane) runs agents on its behalf and keeps its own tables in the
same database.  This directory holds TLA+ specifications of the parts whose
correctness depends on the order in which requests, timers, processes, statements
and answers interleave, TLC runs that check them on small instances, and TLAPS
proofs of what matters most for every instance.

Paths below are relative to the repository's `src/src/backend/app` unless they
begin with `docs/`, `prisma/` or `webapp/`; `webapp/` stands for
`src/src/webapp/src/app/features`.

## 1. The system

| Component | State it keeps | Operations | Talks to | What is hard |
|---|---|---|---|---|
| Pipeline executor and runtime (`services/idea-foundry-pipeline.service.js`) | `runsByOwner`, a map in each process; log entries | start, status, history; a background execution per run | stage passes (calls), log entries | requests between awaits, passes that throw, restart forgets the map, lost log writes |
| Pipeline history (`services/idea-foundry-pipeline-history.service.js`) | none (reads log entries) | rebuild runs from entries | log entries | the run that ended but whose end was never written |
| Pipeline schedule (`services/idea-foundry-pipeline-schedule.service.js`) | one row per operator | save, preview, provision, tick | pipeline runtime | ticks of several processes and saves between the statements of a tick |
| Prospecting (`services/prospecting-configuration.service.js`, `services/prospecting-runtime.service.js`) | configuration row with strategy, results and slot; timer | review, execute, contents, tick | search tools, gateway | whole-row write-backs of records loaded minutes ago, stale listings, RUNNING rows of dead workers, unusable answers, contents read by five queries |
| Proto-idea extraction (`services/proto-idea-extraction.service.js`) | `proto_idea_sources`, `proto_ideas`, policy row | save policy; pass: claim sources, run agent, store ideas | prospecting results, gateway | overlapping passes, retries, crash after the claim |
| Idea refinement (`services/idea-refinement.service.js`) | status of proto-ideas, `idea_candidates`, policy row | save policy; pass: claim proto-ideas, run agent, store candidate versions | conceptual tools, gateway | stale lists, unconditional claims, versions, ideas deleted meanwhile |
| Idea evaluation (`services/idea-evaluation.service.js`) | status of candidates, `curated_opportunities` | pass: claim candidates, judge, decide | gateway | overlapping decisions, repair of invalid answers, starvation |
| Knowledge base (`services/knowledge-base-processing.service.js`, `services/knowledge-base-storage.service.js`) | files, jobs, embeddings, stored objects | upload, delete, process, tick, search | file storage | a file deleted while it is processed, two processes on one job |
| Ideation and strategy chat (`services/business-ideas.service.js`) | companies, documents, sections and their versions, messages, agent runs | send, resend, show | gateway | requests of one thread that overlap for minutes, dead and stalled runs |
| Help desk (`services/support.service.js`, `webapp/support/`) | conversations, messages, tickets; a widget per tab | open, ask, escalate | log analysis | turns without a transaction, tabs that share a session, reloads |
| Support tickets (`services/support-investigation.service.js`, `services/support-admin.service.js`, `webapp/admin/support-admin-screen.component.ts`) | tickets, recommendations; a dashboard per administrator | investigate, review, patch | log analysis | a review meets a recommendation nobody has read |
| Request log (`services/log-entry.service.js`, `api/request-log-middleware.js`, `services/support-log-analysis.service.js`, `webapp/admin/admin-logs-screen.component.ts`) | `log_entries`; a screen | append, search, analyse, refresh | database | hooks that meet twice, a table made on demand, refreshes |
| Agent administration (`services/agent-admin.service.js`, `services/support-bootstrap.service.js`, `webapp/admin/agent-admin-screen.component.ts`) | agents, prompt versions; a screen | list, read, update, create, start | gateway's registry | two saves of one agent, statement by statement; starts that are no transaction; keys that share a prefix |
| Gateway client (`services/agent-gateway-client.js`) | none | start a run, poll it | gateway | bounded polling, time limits |
| Gateway run life cycle (`api/routers/runs.py`, `api/routers/approvals.py`, `workers/tasks.py`, `orchestration/runtime.py`) | runs, checkpoints, approvals, artifacts | start, resume, cancel, decide; background tasks | agents | cancel and decide while a task holds the row |
| Agent test runs (`workers/agent_test_tasks.py`, `api/routers/agent_tests.py`) | test runs, turns, scores, stop events | create, evaluate, execute, stop, resume, delete; worker | agents | stop requests racing the worker, stale rows of a batch |
| Agent testing screen (`webapp/admin/agent-testing-screen.component.ts`) | list, selection, detail, timer | select, start, stop, follow | test runs | answers that overtake each other |
| Board and history screens (`webapp/idea-foundry/idea-foundry-overview.component.ts`, `webapp/admin/pipeline-history-screen.component.ts`) | columns; list, detail; poll timers | run the pipeline, follow it | pipeline, contents | overlapping and failing polls, a selection that changes under a poll |
| Prospecting page and stage pages (`webapp/idea-foundry/prospecting-configuration.component.ts`, `proto-idea-extraction.component.ts`, `idea-refinement.component.ts`) | a draft of the strategy or policy | edit, save, review, run | prospecting, stages | ranks renumbered in several places; saves and passes on one row |
| Conceptual tools (`services/conceptual-tools.service.js`) | catalogue rows | list, edit | refinement | none beyond single-row writes |
| Agents, LLM gateway, tools, memory (`agents/`, `services/llm_gateway.py`, `tools/`, `memory/`) | none that outlives a run | run an agent | external models | answers of any shape |
| Authentication, CRUD, routers, telemetry (`api/`) | rows | one statement per request | database | none of their own |
| Marketing site, scripts, deployment | none | presentation | API | outside a model's reach |

PostgreSQL is used through single statements and short transactions at the
default level (READ COMMITTED), so two rows may be read at different moments and
an `UPDATE` without a condition overwrites what happened since the read.  A Node
process interleaves only at `await`, the gateway's event loop only at `await`
and at the end of a request, a page of the web application only between events;
different processes interleave anywhere.  This decides the grain of every module:
**an action is what one process does between two awaits**, and anybody else may
act in between.

How the components interact:

- The schedule's timer and the operator's start button call the pipeline
  runtime; the executor calls the four stage passes directly
  (`executeProspectingConfiguration`, then `run*Pass` of extraction, refinement and
  evaluation).  The stage endpoints and the scripts under `scripts/` call the same
  passes, in this process or another one.
- The stages hand rows on: prospecting results become proto-idea sources,
  proto-ideas become candidates, candidates become curated opportunities.  Deleting
  ideas cascades to their candidates and opportunities.
- Every stage pass, and every message of the chat, runs an agent through the
  gateway client, which bounds each request by an `AbortController` time limit and
  polls a bounded number of times: a call returns or throws, it does not hang.
- The screens know the backend by the answers to their requests only, which
  come back in any order and may be old when they arrive.
- The history shares nothing with the runtime but log entries; the support
  services read the same entries as evidence.

What makes each component correct:

- *Pipeline.* One execution per operator and process, reported as what it is; every
  run ends; no entry stays RUNNING without an execution.
- *History.* It never contradicts the executions; with no lost write it is complete.
- *Schedule.* Only a due row is claimed, a slot is run once, never dropped, and
  eventually served.
- *Prospecting.* The latest results survive whatever happens later; cycles keep the
  hour; a dead worker does not stop the loop; the queries run in the order of their
  ranks, and an unusable review changes nothing that is searched for.
- *Extraction.* One worker per source; ideas are visible only of completed
  extractions, and of one of them.
- *Refinement.* Versions of an idea have no gaps and are never overwritten or left
  without their idea; old failures do not block younger ideas.
- *Evaluation.* An opportunity holds the judgement that promoted it; a claim is
  settled, and nobody waits for ever behind failures.
- *Policies.* A stage says RUNNING only while a pass runs, or after one threw where nobody records it.
- *Knowledge base.* Search sees whole files, deletion is final, jobs are settled.
- *Chat.* No update of a section of the ideation is lost, tools open only when earned, and a thread
  can always go on.
- *Help desk and tickets.* A thread reads as a conversation; an approved fix is a
  text somebody approved or wrote.
- *Log.* A response leaves one entry, at most.
- *Agent administration.* Of the prompts in force for an agent the one saved last wins.
- *Agent test runs.* The results of a completed run are those of one execution; what
  is queued is executed; what is stopped stays stopped.
- *Gateway runs.* Nothing the policy wants reviewed is released unreviewed; a waiting
  run can go on; every run settles.
- *Screens.* What a screen shows as under way is in the end shown as ended; the board
  shows an item where it was, and misses none.

## 2. Modules

| Module | What it models |
|---|---|
| `OwnerPipeline` | what the runtime promises about one operator's slot in one process (abstract) |
| `IdeaFoundryPipeline`, `IdeaFoundryPipelineProofs` | executor, runtime and history; implements `OwnerPipeline` |
| `PipelineSchedule` | the schedule's rows and timers; starts runs of `OwnerPipeline` (INSTANCE) |
| `StagePolicy` | the policy row of a stage under saves and passes of several operators |
| `PipelineBoard`, `BoardContents` | the board's polls, and what its columns are built from |
| `PipelineHistoryScreen` | list, detail and polls of the history screen |
| `Prospecting`, `ProspectingProofs` | reviews, executions and timers of the sources stage |
| `ProspectingStrategy` | what edits, reviews, repairs and the fallback make of a strategy |
| `IdeaRecords` | rows the three idea stages share: proto-ideas and candidates, with their order |
| `ProtoIdeaExtraction`, `IdeaRefinement`, `IdeaEvaluation`, `IdeaEvaluationProofs` | the three idea stages |
| `StrategyChat`, `StrategyChatProofs` | one thread of the chat and the sections it writes |
| `AgentTestRuns`, `AgentTestingScreen` | the worker and the requests of agent tests; the screen that follows them |
| `AgentRuns` | runs, approvals, cancellation and background tasks of the gateway |
| `AgentAdministration` | agents and prompts under several administrators |
| `HelpDesk`, `TicketReview`, `OperationLog` | support and the log |
| `KnowledgeBaseProcessing`, `KnowledgeBaseProofs` | upload, deletion, the processing queue and search |
| `IdeaPasses` | composition: refinement beside extraction, on the same proto-ideas |
| `IdeaStages`, `IdeaPassesProofs` | that, and the extraction by itself |
| `IdeaFoundryConsole`, `IdeaFoundryConsoleProofs` | what surrounds the pipeline: schedule, policies, board, contents, history, strategy |
| `Workplace`, `WorkplaceProofs` | what administrators and users work with: runs, tests, agents, support, log |

`PROJECT.json` maps every definition to its source lines.  Operators introduced
by a comment that begins "Faulty:" are deliberately wrong variants of the
definition that follows them: each turns one property false when it is put in the
definition's place, which shows that the property depends on the code.

`IdeaFoundryConsole` and `Workplace` collect parts that share no variable.  An
interleaving of two such parts shows nothing that neither shows alone, so a
behaviour of these modules is a behaviour of one part, chosen at the start, with
the others at rest: one run examines them all, each as deep as it would be alone.
What the parts mean to each other is in the parts: `PipelineSchedule` holds the
runs it starts, the screens hold the status of what they follow, as actions of the
backend that they cannot see.  `IdeaPasses`, in contrast, is a composition proper:
both stages write the rows of proto-ideas, and a behaviour has either refinement
alone, in the larger instance, or both.  `IdeaStages` puts the extraction alone beside
it, as the collections do.

### IdeaFoundryPipeline (`services/idea-foundry-pipeline.service.js`)

`runs[s][o]` is the entry of owner `o` in the `runsByOwner` map of process `s`;
`exec[r]` holds the locals of the background execution of run `r` and where it
stands (`pc`); `log` is the set of `log_entries` rows it wrote.  `Start` is the part
of `start` before its first await (with the RUNNING guard), `LogRunStarted` the
part after it; `BeginStage`, `PassReturns`, `PassThrows`, `EndStage`, `LogStage` and
`LogRunEnded` are the steps of `execute` and of the `then` and `catch` handlers.
A pass is known by what it returns (progress or none, FAILED, HALTED) or by its
throwing.  `GetStatus`, `HistoryStatuses` and `HistoryStages` are what the status
screen and the history compute.  `Crash` empties the map of a process and leaves
the log.  A log write that fails is dropped (`createLogEntry` never throws).

### OwnerPipeline

The abstract promise: per process and owner a slot is idle, running, a success or
stopped; a run begins only when none is running, climbs stage by stage, succeeds
only at the last stage, and is forgotten only when its process dies.
`ImplementsOwnerPipeline` is the refinement: an owner's slot is read off the entry,
its stage off the execution the entry names.

### PipelineSchedule (`services/idea-foundry-pipeline-schedule.service.js`)

`row[o]` is the schedule row with `updated` as the pair of time and writer,
because the claim compares `updated_at`; `tick[s]` the locals of a timer callback:
rows listed as due, the current one and the step.  `BeginTick` provisions default
rows, `LoadDue` lists, `Claim` is the conditional UPDATE, `StartRun`/`Skip` ask the
runtime, `PersistTrigger` writes the next slot from the row *as listed*, `EndTick`
and `TickThrows` reset the draining flag.  `Save` is an operator's edit,
`ManualStart` and `RunEnds` are actions of `OwnerPipeline`.  `fired` and `chosen` are
history variables.

### StagePolicy (`services/proto-idea-extraction.service.js`, `services/idea-refinement.service.js`, their pages)

`row` is the default profile's row: a number for the policy text and the status of
the latest pass, with the pass that wrote it.  Operators load, save and start passes
(`busy[o]`, `pass[o]`); a save writes the policy and leaves the status alone, a pass
reads the policy, writes RUNNING, works and writes how it ended.  A pass that an
operator started runs under `run...Stage`, whose catch branch writes FAILED
(`StageThrows`); `Callers` are the pipeline executor and the scripts, who call
`run...Pass` itself, where a throw leaves the row as it is (`PassThrows`, `left`).
What a pass does to ideas is left to the stage modules.

### PipelineBoard and BoardContents (`webapp/idea-foundry/idea-foundry-overview.component.ts`, `getProspectingPipelineContents`)

`PipelineBoard`: `run` is the backend's status of the latest run, `slot[k]` a call
of the screen with its status and contents requests, either of which may fail or
arrive late; the timer fires while a poll cycle of an earlier tick is still
outstanding.  `running`, `timer` and `columns` are the component's fields, `Leave`
is `ngOnDestroy`.  `BoardContents` follows one source with its idea, candidate and
opportunity while one request reads five tables, the first before the other four;
`ever` and `always` are history variables: the columns the item waited in at some
moment, and at every moment, since the request began.

### PipelineHistoryScreen (`webapp/admin/pipeline-history-screen.component.ts`)

`runs` and `memory` are the backend (a restart loses its memory of a run whose log
entries then say nothing more); the other variables are the fields of the
component, `call[k]` an asynchronous method of it between two answers.  A poll
applies the runtime's status to whatever run is selected by then; `crossed`
records that it was about another one.

### Prospecting (`services/prospecting-configuration.service.js`, `services/prospecting-runtime.service.js`)

`row[o]` is the configuration: status, run mode, last and next run, and the age of
the results ("latest" is what the last completed execution stored).  `worker[w]`
is what a cycle or an execution keeps of the row it loaded and later writes back
whole, `due[s]` the listing of a tick, `untouched[s]` the listed rows whose
`updated_at` has not changed (the stamps have milliseconds and are assumed
distinct).  A cycle claims, loads, has the agent review, stores the review, loads
again, executes, and stores the results; every statement may throw and has the
failure path of the code, which writes the record it loaded back.  Agent answers
always yield a review (repair, then a fallback), so an agent fails only by
throwing.  `executed`, `ran` and `overlapped` are history variables.

### ProspectingStrategy (the same service and `webapp/idea-foundry/prospecting-configuration.component.ts`)

A strategy is two lists: themes, and query families with rank and status.
`snapshot` is the draft on the page, `baseline` what it takes for saved, `stored` the
row, `searched` what the last execution searched for.  Each button is an action with
the renumbering it does; a review asks the agent, repairs an answer that does not
comply, and after the last repair falls back to the operator's own strategy;
`BuildProspectingExecutionPlan` sorts and cuts the active families.

### The idea stages

`IdeaRecords` keeps proto-ideas, with status and source, and candidates, with their
proto-idea, iteration, fingerprint, workflow and evaluation state; `rank` is the
order by `updatedAt`, which decides whose turn it is.

- `ProtoIdeaExtraction`: `results` are the sources prospecting last stored,
  `source[k]` the claim row, `xpass[p]` a pass.  `BeginPass`, the listing, the look-up
  and the claim (two statements: another pass may act in between; the unique key
  lets one insert win), the agent's outcome, the ideas that are kept of it, the
  deletion and the insertion of ideas (two statements of one transaction), the
  failure handler and the end.
- `IdeaRefinement`: a pass lists proto-ideas, claims by id without condition,
  has the agent write an idea, reads the latest candidate, then stores the next
  version in a transaction, or only refreshes the latest when the fingerprints
  agree.
- `IdeaEvaluation`: a pass lists candidates, claims, lets an agent judge with one
  repair of an invalid answer, and records the decision; a promotion writes the
  curated opportunity.  Without an agent in the gateway the judgement throws.
- `IdeaPasses`: both stages on one set of proto-ideas; the extraction's deletion
  cascades to candidates and keeps the rows locked until it commits.
- `IdeaStages`: a behaviour is one of `IdeaPasses`, or one of the extraction alone, with
  passes that retry and passes that do not (`part`).

### StrategyChat (`services/business-ideas.service.js`, `services/agent-gateway-client.js`)

One thread of one tool, with the sections its answers write.  A request reads the
thread, stores the founder's message and a run (first transaction), waits for the
gateway, and then reads the sections, reads the messages, and writes versions,
completeness, unlocking and the reply (second transaction, three actions: each
SELECT has a snapshot of its own, so the sections may be older than the number of
the reply).  What refuses a request is only that two messages of a thread, or two
versions of a section, cannot have the same number; the loser's transaction is
undone and its run marked as failed.  Ideation and canvas share no row that either
decides on, so a behaviour is of one tool.  `versions` holds each version with the
evaluation recorded beside it (`agent_run_effects`).  `stale` counts the runs that have passed the two minutes
after which the page offers to send the message again, although the client polls
longer.  `Crash` loses the requests under way and keeps their rows.

### HelpDesk, TicketReview, OperationLog

- `HelpDesk` (`services/support.service.js`, `webapp/support/`): several tabs share a
  session key; `turn[i]` is a request in the service, statement by statement and
  without a transaction, `thread` the stored messages.  The unique index on
  (conversation, messageIndex) makes the second writer of an index fail.  A reload
  forgets the request, the service carries on.
- `TicketReview` (`services/support-investigation.service.js`,
  `services/support-admin.service.js`): one ticket, its recommendations, and the
  dashboards of several administrators, each showing what it read when the ticket was
  selected.  Investigations, reviews and patches write the ticket without looking at
  the status they replace.  Each statement, and the reading of the ticket after it,
  may fail; `busy` is the button of an investigation ("left": disabled by one that
  failed), `NgOnInit` opens the dashboard anew.
- `OperationLog` (`api/request-log-middleware.js`, `services/log-entry.service.js`,
  `webapp/admin/admin-logs-screen.component.ts`): responses pass two patched
  methods, entries are written behind the response, the table is created by the
  first writers that miss it; the screen refreshes itself, and the support service
  groups entries into incidents.

### AgentTestRuns and AgentTestingScreen (`workers/agent_test_tasks.py`, `api/routers/agent_tests.py`, `webapp/admin/agent-testing-screen.component.ts`)

`row[r]` is the committed status, `stored[r]` how many transcripts the run's turns
and scores hold, `event[r]` the in-memory stop event, `worker` the loop of the one
worker, `request[q]` a request that has read a run and not yet committed.  The
worker's session keeps the objects it listed (SQLAlchemy's identity map), so the
status of a run is the one at listing time until the session refreshes it.  The
gateway is one process, as deployed.  A transcript that comes with the request is
scored and stored as a completed run at once (`Evaluate`).

The screen has a list, the key of the selected run, the detail it shows and a
timer; details and lists on their way are sets, answered and applied in any order.

### AgentRuns (`api/routers/runs.py`, `api/routers/approvals.py`, `workers/tasks.py`, `orchestration/runtime.py`)

Committed `status`, `approval` and `artifacts` of a run, `holder` as the owner of its
row lock, `request[c]` as a client with its request and the background task this
leaves behind.  A task is one transaction: its UPDATE to RUNNING takes the lock and
observers still see PENDING until it commits; a resumed task takes the lock only
when the status has changed meanwhile.  An exception of an agent is committed as
FAILED by the catch block; a database error makes the catch block fail too
(`TaskDies`, `stranded`).  A resume request names the checkpoint of its own run.

### AgentAdministration (`services/agent-admin.service.js`, `services/support-bootstrap.service.js`, `webapp/admin/agent-admin-screen.component.ts`)

A key has many prompt versions.  The control plane shows the active one of exactly
that key that was written last (`Shown`); the gateway takes the one written last among
those of the key and of the key with "-agent" behind it (`Matching`, `Prefixes`;
`LegacyKeys` are such names of agent 1).  A save is a transaction: the update of the
agent's row takes its lock, then the active prompts are found, then they are switched
off and the new one written; another transaction sees committed rows only.  A creation
finds a free key.  A start of the backend (`boot`) is no transaction: it makes the agent
active, looks for its version of the prompt, switches off those in force and creates
its own; requests act in between, a look-up that fails counts as empty, and the
process may die after each statement.

### KnowledgeBaseProcessing (`services/knowledge-base-processing.service.js`)

`file[f]`, `job[f]`, `chunks[f]` (the servers whose embedding rows for `f` are stored)
and `objects` are what is persistent; `request[f]` is the upload or deletion under
way, `worker[s]` the tick of a server.  Deletions and the worker's store step are
transactions of several statements, modelled statement by statement where a row
lock or READ COMMITTED lets another act in between: the deletion's first statement
(embeddings) waits for nothing, its second (file row) waits for a worker that has
opened its transaction.  `Search` is what a search returns of each file.

## 3. Runs

All runs finish within a few minutes with two TLC workers.  Deadlock is checked in
the evaluation run, where a pass can always be called again; the other systems may
stop when the bound on runs, requests, rows or time is used up.

| Run | Instance | What it shows |
|---|---|---|
| `pipeline_one_owner` | 1 process, 1 owner, 2 runs, 3 stages, 2 iterations, 1 crash, 1 lost log write | `EndedRunReport`, `HistorySound`, `RunningIffExecuting`, `RunsEnd`, the refinement `ImplementsOwnerPipeline` |
| `console`, schedule | 1 process, 2 owners, cadences 1 and 2, 3 time units, one save, manual run, throw and crash | `OneRunPerSlot`, `SlotsMoveWithRuns`; a due slot is served |
| `console`, policy | 2 operators with 2 requests, the pipeline with any number of passes, 1 failure | `RunningIsTrue`; buttons are released |
| `console`, board | 2 calls at once, 2 runs, 1 click on the checkbox, 1 failure | the board follows the run and the checkbox |
| `console`, contents | 1 source, 1 request | `BoardIsRecent` |
| `console`, history | 2 calls at once, 2 runs, 1 click, failure or restart | the history follows the run |
| `console`, strategy | 2 titles, 2 labels, 2 queries, 1 repair, 2 edits, 1 review or execution | `RanksFollowOrder`, `UnusableReviewKeepsSearch` |
| `prospecting` | 2 servers, 1 request, 1 operator, 2 hours, 1 crash | latest results are kept, the hour is kept, elapsed slots are served |
| `idea_stages`, extraction | 2 passes (one retrying, one through the endpoint), 2 sources, 2 ideas, 1 throw, 1 crash | one worker and one visible extraction per source; claims are settled |
| `idea_stages`, passes | refinement alone: 2 passes (one retrying, one also for a named idea), 2 proto-ideas, 3 candidates, 2 fingerprints, 1 throw, 1 crash; beside extraction: 1 refinement and 2 extraction passes, 1 candidate | iterations without gaps, candidates keep and have their idea, the pending get their turn |
| `evaluation_passes` | 2 passes, 2 candidates, 2 mishaps | opportunities hold the last promotion, claims are settled, the pending get their turn |
| `strategy_chat` | 3 requests, 2 sections (one seeded), 2 labels, 1 crash | no update of an ideation section is lost, tools open on evaluations on record, `ThreadGoesOn` |
| `knowledge_base` | 2 servers, 2 files, batch of 2, 1 mishap | what search sees is whole, deletion is final, jobs settle |
| `workplace`, runs | 1 run, 4 clients, 1 mishap | `ReleaseIsReviewed`, `WaitingCanGoOn` |
| `workplace`, tests | 2 runs, 1 request at a time, batch of 2, 2 agent calls, 1 mishap | `CompletedIsWhole` |
| `workplace`, screen | 2 runs, 2 agents, 2 details at once, 2 actions, 1 selection | types |
| `workplace`, admin | 2 administrators, 3 keys (one an older name of another), 2 versions, 2 writes, 1 event: a start, a selection, a reload or a failed write | `RunsTheLastSave` |
| `workplace`, help | 2 tabs, 2 messages, 1 failing statement | `ThreadIsWhole` |
| `workplace`, review | 2 administrators, 1 investigation, 2 reviews, 1 patch, 1 failing statement | `ApprovedFixWasSent` |
| `workplace`, log | 2 requests, 1 refresh | `OneEntryPerResponse` |
| `workplace`, all parts | as above | `RequestsSettle`: runs settle, queued tests are served, the screen catches up, saves are served, widgets, dashboards and the log come to rest |
| `agent_test_stop` | 2 test runs, no mishaps | violation of `StoppedStaysStopped` |
| `agent_run_cancel` | 1 run, 2 clients | violation of `CompletedIsNotCancelled` |
| `knowledge_base_delete` | 1 server, 1 file | violation of `DeletedHasNoChunks` |
| `agent_prompts` | 1 administrator, 2 keys, 1 creation | violation of `ShownIsRun` |

Two properties gather what several parts wait for: `WaitingEnds` of the console and
`RequestsSettle` of the workplace are conjunctions with one conjunct per part, each
of which holds trivially while another part moves; so are the two type invariants.

Why these bounds are enough to meet the hazards:

- *Pipeline.* Runs of different owners share nothing but the map, whose entries are
  separate keys, and processes share only the log; one owner in one process is the
  case with conflicts.  Two runs are needed for a late callback to meet its
  successor, three stages for one before and one after a failing stage, two
  iterations for the limit to be reached.  The theorems cover any number.
- *Schedule.* Two rows make a batch whose second row grows stale while the first
  is worked on.  One process, because with two the slot is run twice (section 6).
  Three time units let a slot of cadence 1 pass by while the tick sleeps.
- *Policies.* A pass of an operator and one of the pipeline that overlap, and a save
  of the other operator between their statements, in any order.
- *Board and history.* A poll that overlaps the next one and an answer about the
  first run while the second is selected need two calls and two runs.  The board
  follows the items of one source, as those of another have other keys.
- *Strategy.* Two families make an order; a duplicate and a move, or a pause and a
  review, are two edits.
- *Prospecting.* Configurations of different operators are independent.  Two timers
  and one request give every pair of overlapping workers and a stale listing; the
  second hour gives a second slot.
- *Idea stages.* Races are between two passes; two rows make one wait behind the
  other; a batch of one makes the order matter; a third candidate row lets two
  passes both add a version to one proto-idea and one of them go on.  One retrying
  pass, because two are the disagreement of section 6.  Evaluation is checked
  without passes for a named candidate (`Askers`), which make the instance too large.
- *Chat.* Three requests are a message, a resend while the first lives on, and a
  message or resend after either of them; two sections let two outputs overlap in one,
  and let one of them take the other's section from an old reading.  A high label and a low one
  let the mean rise and fall.
- *Agent tests and their screen.* Two runs in a batch make the second one's listed
  status stale; one request at a time suffices, as a request conflicts with the
  worker or with what an earlier one left.  Two details on their way can arrive in
  the wrong order.
- *Agent runs.* Runs do not touch each other's rows.  Four clients are a starter, two
  deciders and a resumer or canceller at the same time, or two resumers.
- *Administration, support.* Two writers of one row set beside a start of the backend;
  one agent with an older name, which somebody may register, and one without.  Whatever
  befalls a start is free of the bound that lets it begin.  Two tabs
  with a message each.  With two reviews an approval and
  a rejection or an edit can overlap, and both can meet an investigation between
  its two writes.
- *Log.* Two responses can both miss the table; a refresh can overlap the screen's own.
- *Knowledge base.* Two servers work on one job; the second file waits in a batch
  that the first may abort.

Counters (`MaxTime`, `MaxHour`, `MaxSaves`, `MaxCrashes`, `MaxMishaps`, `MaxAsks`,
`MaxEvents`, `MaxTurns`, ...) only cap how often the environment acts; where a bound
could make a liveness property hold vacuously, the property names it
(`RowsUsedUp`, `mishaps > 0`).

## 4. Fairness

| Specification | Assumed | Why |
|---|---|---|
| `IdeaFoundryPipeline!FairSpec` | weak fairness of each execution's next step | every await settles: gateway calls have time limits and bounded polling, log writes never throw |
| `PipelineSchedule` | weak fairness of each tick, and of each run's end | `setInterval` in `server.js`; a started run ends, which is `RunsEnd` of the module above |
| `Prospecting!FairSpec` | weak fairness of the clock, ticks and workers | the timer fires each minute, searches and agents have time limits |
| `IdeaStages`, extraction | weak fairness of a pass's steps | as for the pipeline; nobody is obliged to start a pass |
| `IdeaStages`, refinement (`IdeaPasses!Spec`), `IdeaEvaluation!EagerSpec` | that, and strong fairness of calling the pass for whatever comes first | turns are a claim about many passes: the schedule calls them again and again; strong, because a pass in between may be called for one named row |
| `StagePolicy` | weak fairness of an operator's request and pass | requests are answered; a pass ends |
| `PipelineBoard`, `PipelineHistoryScreen` | weak fairness of the run's end, the poll timer and the answers | `RunsEnd`; `setTimeout` of the component; requests are answered or fail |
| `StrategyChat!FairSpec` | weak fairness of a request under way and of the two minutes | each call of the client has a time limit, polls are counted; time passes |
| `AgentTestRuns` | weak fairness of the worker | one asyncio task started with the gateway |
| `AgentTestingScreen` | weak fairness of actions, lists, reads, answers, the timer and the worker | requests are answered; `setInterval`; the worker as above |
| `AgentRuns` | weak fairness of background tasks | the event loop runs them to their end; a lock is held by a task that commits |
| `AgentAdministration` | weak fairness of a transaction's statements | an open transaction commits or is rolled back |
| `HelpDesk`, `TicketReview`, `OperationLog` | weak fairness of the service's progress | statements end; each request is a bounded number of them |
| `KnowledgeBaseProcessing!FairSpec` | weak fairness of ticks and of the end of a deletion's transaction | the timer; an open transaction commits or its connection is closed |

Nobody is obliged to save, start, decide, delete, send, select, fail or crash.
`BoardContents` and `ProspectingStrategy` need no fairness.

## 5. Proofs

`tlapm` checks eight proof modules.  Every invariant that a run checks and every
action property is the conclusion of a theorem, and so is the refinement; the
theorems hold for any number of processes, owners, runs, passes, rows, clients and
operators.  They assume what the ASSUMEs of the modules say of the constants, and
some of them one hypothesis more, stated in the theorem (`OneProcess`,
`OneRetrier`).  Few of the properties are inductive by themselves; each proof has an
invariant made of named parts, one step per action, and a temporal step at the end.

- **Pipeline** (`IdeaFoundryPipelineProofs`).  `TypeCorrect`, from `TypeOK` with `Placed`
  (an execution that has begun has a process and an owner) and `VerdictKnown` (a run
  about to be ended has a verdict).  `NoOrphanRuns` proves `RunningIffExecuting` from
  `LiveHoldsSlot` (a live execution is the one its owner's entry names) and
  `RunningHasLive`; the guard of `start` alone does not give it, because the entry is
  set before the first await and overwritten by callbacks that compare run ids.
  `OneExecution` is a corollary.  `RuntimeImplementsSlots` is the refinement: with
  `EntryPlaced` (the run an entry names, live or ended, was started in that process for
  that owner) every action is a step of `OwnerPipeline` or leaves its variables alone.
  `EndedRunsReported` needs to know which results an execution holds for the stages
  behind it, at it and before it (`ResultsKnown`), that the states of a live run agree
  (`StatesKnown`), and what an ended run shows (`EntriesReport`).  `HistoryIsSound` relates
  the log to the executions both ways: a line is of a run that was started, a stage
  line is a result the execution still has, an end is the one its entry has
  (`LogKnown`, `LinesKnown`, `EndsKnown`); and unless a write was lost each result and each
  end has its line (`LinesWritten`, `EndWritten`).
- **Prospecting** (`ProspectingProofs`).  The invariant adds to `TypeOK`:
  `ActiveHasOwner`, `OneAtATime` (without overlap an operator has at most one worker),
  `HoldsCurrent` (that worker's record holds the row's results and slot, which is why
  writing it back whole loses nothing), `SlotFollowsRuns` (the slot is an hour after
  the last completed run) and `UntouchedAreDue` (a row with the listed stamp is due
  still).  `ProspectingTypes`, `ResultsAreLatest` and the action property
  `CyclesKeepTheHour` follow.
- **Idea stages** (`IdeaPassesProofs`, `IdeaEvaluationProofs`).  For the composition of
  refinement and extraction: `RowsFit` (a candidate has its idea, and the idea has a
  candidate of each earlier iteration), `Advances` (how the rows may change under a pass:
  an id is born once, no row comes back, a candidate whose idea stays is not lost) and
  `LatestHolds` (the latest candidate, which a pass reads outside the transaction that
  stores the next one, is still the idea's unless the idea was deleted).
  `CandidatesBelong`,
  `IterationsAreContiguous` and `CandidatesStayTrue` follow.  For the extraction by
  itself (`StagesSpec`, while `part` is "extraction"): what a pass that found a failed
  source knows (`ClaimHeld`) and `IdeasHaveSource` give `OneWorker` and
  `IdeasOfCompleted`, if at most one pass retries (`OneRetrier`).  The hypothesis is
  needed: the update that takes over a failed source does not check that it is still
  FAILED (section 6).  For the evaluation, the invariant adds what a pass
  works on and that it holds a decision when it is about to store it (`PassFits`).
- **Console** (`IdeaFoundryConsoleProofs`).  *Policies*: whoever writes the status writes
  down that it is his, so RUNNING is the word of the pass that wrote last; it ends by
  writing another word or by a throw that nobody records, and a save leaves the status
  as it is (`StatusFits`); hence `RunningIsNeverLeftBehind`.  *Schedule*:
  `ScheduleInv` says of a tick what it listed and when (`TickFits`), which gives
  `SlotsAreNotLost`.  `SlotsRunOnce` adds that the slots an owner's runs had lie before
  the one in the row and before those in the snapshots of a tick (`Behind`), and has
  the hypothesis `OneProcess`: a second process loads the row between the claim and
  the write-back of the first, and runs the slot again (section 6).  *Strategy*: the
  fallback's sort is a permutation and stable, whatever ranks it finds, so the plan of
  queries is the same before and after it (`RanksAreTheOrder`,
  `FallbackKeepsTheSearch`).  *Contents*: `SeenSince` says what each of the five
  answers tells about the moments since the request began.  The card of a source
  depends on three of them; what keeps these together is that a source with a row
  never loses it and that one with proto-ideas stays COMPLETED (`RowsFit`).  Hence
  `BoardsAreRecent`.
  *Types*: `ConsoleTypes`, with the numbering of runs for the history.
- **Workplace** (`WorkplaceProofs`).  One part moves at a time (`PartsMoveAlone`), so
  each invariant is proved for its part and carried to `AllSpec`.
  *Runs*: `RequestsHaveRuns`, `NothingBeforeRow`, `NewTaskIsAlone` (a run has one task
  that starts it, before there is an approval request), `VerdictsRecorded`,
  `TasksAreEntitled` (whoever resumes has seen an approval recorded: this carries the
  check of `resume_run` over to the later task) and `LockGoesWithTask` give
  `NothingUnreviewed` and `WaitingRunsCanGoOn`.
  *Tests*: whatever a request has seen of a run, its write never makes it completed
  (`TestsInv`), hence `CompletedRunsAreWhole`.
  *Review*: every text on its way to the ticket was sent (`TextIsSent`), hence
  `ApprovedFixesWereSent`.
  *Log*: entries and writes under way together have each response once (`OneEach`),
  hence `ResponsesLoggedOnce`.
  *Help desk*: the rows are numbered from 1 (`InOrder`), and an index counted earlier
  is the next one or is taken (`TurnFits`), hence `ThreadsAreWhole`.
  *Administration*: no row is dated later than the clock (`Dated`), so what is written
  wins over all that is in force with it (`LastInForce`), starts or not.  That it is
  alone takes more: a save that has updated the agent's row holds its lock, so that the
  active versions it has seen are those it puts out of force (`TxFits`,
  `HoldsItsRows`), unless a start wrote in between (`Untouched`); hence
  `TheLastSaveRuns`.
  *Types*: `WorkplaceTypes` shows the bounds that count: a client yields one artifact
  at most (`ArtifactsInv`), a turn two rows of the thread, a version one row
  (`OneRowPerVersion`), an investigation one recommendation (`InvestigationsCounted`).
- **Chat** (`StrategyChatProofs`).  The number of the reply does not protect the sections,
  which are read before it.  What does, for the ideation, are the version rows: a
  section changes only with a row of its new version, so whoever read an older version
  meets a row that has the number he is about to write (`Traced`, `ReadingFits`,
  `WritesOverWhatItRead`), and his transaction is undone.  This gives `NoUpdateIsLost`.
  The same relation says that whatever percentage a request has read for a section, an
  evaluation on record gave it; `ToolsAreEarned` follows: tools open on a mean of
  recorded evaluations, one for each section, though perhaps not of the latest (section
  6), and nobody locks them again.  `PendingIsAttended` is the safety half of
  `ThreadGoesOn`.
- **Knowledge base** (`KnowledgeBaseProofs`).  `JobGoesWithFile` (a deleted file has no
  job, and the update of the job makes a late transaction of a worker roll back),
  `WorkersKnowRows` (no worker knows a file before its upload is done, so no row comes
  back under a worker), `InHand` and `OrphansHaveNoJob` give `KnowledgeBaseTypes`,
  `SearchSeesWholeFiles` and the action property `DeletionIsFinal`.

Model-checked only: liveness, as the provers do not handle ENABLED and hence neither
weak nor strong fairness: `RunsEnd`, `ElapsedServed`, `ClaimedIsSettled`, `PendingServed`,
`CandidatesServed`, `JobsSettle`, the second half of `ThreadGoesOn`, `WaitingEnds` and
`RequestsSettle`.  And the four claims of section 6 that runs refute.

## 6. Disagreements

Shown by a run:

- *Agent test stop* (`agent_test_stop`).  A run that was stopped while queued is
  executed when its turn in the batch comes: the worker checks the status its
  session loaded with the batch (`workers/agent_test_tasks.py:254`), while
  `api/routers/agent_tests.py:476` reports "Execution stopped before the worker
  started the run."
- *Agent run cancel* (`agent_run_cancel`).  A cancellation that read RUNNING waits
  for the task's lock and overwrites COMPLETED (`api/routers/runs.py:222`), against
  "Cancel a run if it has not already completed." (`:216`).
- *Knowledge base delete* (`knowledge_base_delete`).  Embeddings committed between the
  first and the second statement of a deletion stay beside the DELETED row
  (`services/knowledge-base-processing.service.js:768`), against "Deleting a file
  removes associated embeddings and stored object." (`docs/knowledge_base.md:858`).
  They are never searched, as search asks for COMPLETED files.
- *Agent prompts* (`agent_prompts`).  The gateway takes "<key>-agent" for an older name of
  "<key>" (`repositories/registry_repository.py:17`) and runs the prompt written later,
  against "Similar keys such as `ideation-agent.default` are treated as different agents."
  (`docs/backend_api.md:132`) and "the LLM-facing system prompt should reflect the rich
  prompt configuration shown in Agent Admin" (`docs/backend_agentic_layer_overview.md:178`).

Met while modelling; no run of this directory shows them, and the properties are
stated so as to leave them out:

- Two extraction passes that both retry store the ideas of a failed source twice
  (`services/proto-idea-extraction.service.js:600`; `docs/idea_foundry.md:126`), and a
  source whose pass died stays PROCESSING for ever (`:503`).
- Two refinement passes on one proto-idea store two candidates of one iteration
  (`services/idea-refinement.service.js:1034`; `docs/erd.puml:606`).
- A later rejection leaves the curated opportunity of an earlier promotion
  (`services/idea-evaluation.service.js:839`; `docs/idea_foundry.md:217`).
- The sources stage is shown completed when a run started at a later stage
  (`services/idea-foundry-pipeline.service.js:77`; `docs/idea_foundry.md:192`).
- A schedule saved while its trigger is under way has its slot overwritten from the
  old cadence (`services/idea-foundry-pipeline-schedule.service.js:321`;
  `docs/idea_foundry.md:200`).  With two processes both may start a run for one slot
  and the slower write moves `last_run_at` back (`:300`; `docs/erd.puml:564`).
- Prospecting workers of one operator that overlap (another server, a request or a
  pipeline run: the claim leaves `next_run_at` in the past until the review is
  stored) lose each other's results when one fails and writes its record back
  (`services/prospecting-configuration.service.js:713`, `:474`, `:374`; `docs/erd.puml:729`),
  and may start a cycle within the hour (`services/prospecting-runtime.service.js:203`;
  `docs/idea_foundry.md:98`).  The answer 409 "No saved prospecting strategy" (`:577`)
  is never given, since the enforced cadence has filled the record before the
  check; such an execution stores empty results.
- "Boost priority" lowers the rank by one and sorts stably, so between families of
  equal rank it does not raise the family (`webapp/idea-foundry/prospecting-query-family-card.component.ts:52`).
  A change that is logged after the baseline was taken leaves the prospecting page
  dirty (`prospecting-configuration.component.ts:1105`), and "Run Agent" can be
  clicked before the page has loaded (`:48`).
- A pass that throws where the pipeline executor or a script called it
  (`services/idea-foundry-pipeline.service.js:124`) leaves its stage at RUNNING, and so does
  a process that dies within a pass: only the catch branch of the stage endpoints writes
  FAILED (`services/proto-idea-extraction.service.js:1320`), nothing else resets the word
  until the next pass.  `RunningIsTrue` names the case.
- A candidate that was claimed for evaluation stays PROCESSING when the read of the
  curated opportunities throws (`services/idea-evaluation.service.js:1063`).
- A start of the backend that brings a new version of a prompt switches off those in
  force and creates its own in separate statements
  (`services/support-bootstrap.service.js:99`).  If it ends in between, or if the look-up
  failed although the version is there and the create is refused, no prompt is in force,
  and a later start of the same version, which finds its row, does not repair it; a save
  in between leaves two in force.  A start of an older version
  finds its row, switched off, and leaves the newer prompt in force.
- The completeness of a document, and with it the unlocking of tools, is computed from
  the sections as a request of the ideation read them and stored later without a check
  (`services/business-ideas.service.js:1512`, `:1641`): what another request committed in
  between is not in it, against "The backend converts those six section evaluations into
  the stored completeness percentage and unlock logic." (`docs/agents/ideation_agent.md:65`).
  Two requests suffice, and one whose run ended without output is not even stopped by the
  number of a reply; `UnlocksAreEarned` therefore speaks of evaluations on record, not of
  the latest ones.
- A run of the chat that fails overwrites sections of the canvas by placeholders
  (`services/business-ideas.service.js:2030`).  The canvas rewrites a section without a
  row of its versions (`:2113`), against "Every substantive update to
  `strategy_sections.content` should insert a corresponding `section_versions` row."
  (`docs/data_model_design_guide.md:207`).
  A canvas request that read the sections before another one committed, and the
  messages after it, overwrites that update and uses its version number again (`:2039`):
  nothing refuses it, and `SectionsBuildOnTheLatest` is stated of the ideation only.
  `extractSectionUpdatesFromArtifact` (`:927`) is never called.
- A stop of an agent test whose write follows the worker's last commit leaves
  "stopping" over the run's end, which only a deletion accepts (`api/routers/agent_tests.py:481`, `:488`); a restart leaves "running"; a
  run whose set-up always throws, or a full batch of older runs queued again and
  again, keeps younger runs waiting.
- A second decider who rejects after an approval and a resume does not keep the
  output back (`api/routers/approvals.py:29`); a run cancelled before its task starts
  is executed; a resume repeated in time yields a second artifact.
- A turn of the help desk that fails after its question was stored leaves the question
  without an answer for good (`services/support.service.js:261`).
- An investigation of a ticket that fails, or whose ticket cannot be read after it,
  leaves the button disabled until the dashboard is opened anew
  (`webapp/admin/support-admin-screen.component.ts:363`).
- A review of a ticket approves the newest recommendation, which may be one the
  administrator has not seen (`services/support-admin.service.js:292`;
  `docs/support_system.md:24`, `:78`).
- A poll of the history that is answered about a run no longer selected ends the
  polling of the selected one (`webapp/admin/pipeline-history-screen.component.ts:1004`);
  the polls of the board go on after the page was left, until the run ends.
- A knowledge base removed during an upload leaves the object in storage
  (`services/knowledge-base-processing.service.js:634`; `docs/knowledge_base.md:859`).

## 7. Not modelled

Conceptual tools, CRUD resources and routing, authentication and support telemetry
have no protocol beyond single statements; so have the creation and the editing of a
knowledge base.  Agents, the language model gateway, tools, and the scoring of
transcripts are pure functions or external calls; the modules see the outcome of a
run.  The shell of the web application, its search and profile pages and the
knowledge-base screens show what one request answers.  The marketing site, scripts and
deployment keep no state.

Within modelled components the details that only shape data are left out: texts of
ideas, prompts, messages, queries and results, quality scores, the history's window
of 1000 entries with its produced counts and change lists, chunking and embedding.
Limits of single modules:

- `StagePolicy`: a client whose request fails while its pass goes on in the backend is
  not modelled (a request fails before its pass begins), nor a process that dies.
- `AgentAdministration`: of the two agents of the scaffolding one is followed.  The look-up
  uses LIKE, for which "_" stands for any character; the keys the screen generates have
  none, and those that are given a number ("help-agent-2") match no older name.
- `AgentTestingScreen`: requests fail only by being refused.
- `PipelineHistoryScreen`: the modal that edits the schedule is `Save` of
  `PipelineSchedule`; `crossed` excuses the polls of section 6.
- `PipelineBoard`: a double click on "Run Pipeline" before the component has rendered
  sends two requests; the second is refused by the runtime's guard, which is
  `Start` of `IdeaFoundryPipeline`.
- `BoardContents`: one source with one idea, one candidate and one opportunity.
- A commit whose answer is lost (the statement took effect, the client throws) is
  not modelled anywhere; a statement that throws has changed nothing.

## 8. Plan

In this order:

1. Proofs: what the parts need of each other, such as that the abstract runs of
   `PipelineSchedule` are those `RuntimeImplementsSlots` provides; the boards and the
   history as far as their liveness rests on invariants; the bounded parts of the
   liveness arguments (what a step may not undo).
2. The history's stage lines with produced counts and change lists.
3. Evaluation beside refinement, as `IdeaPasses` does for extraction, with passes for
   a named candidate.
4. Commits whose answer is lost.
5. Pure algorithms against reference definitions: anchored next run, chunking,
   normalisation of decisions.
