# ArchMind: a TLA+ development

ArchMind takes the URL of a GitHub repository, clones and parses it, has Gemini
judge its architecture and security, retrieves engineering guidance from Qdrant,
and files a report in Supabase. A FastAPI process accepts *jobs* and runs each as
an eight-node LangGraph workflow on a thread pool of its own; a Next.js page polls
the job until there is an outcome.

The code that is hard to get right, and that unit tests with mocked clients hardly
reach, is of two sorts. One is around the analyses: a job is a row in a remote table,
written without conditions by a thread, a handler, and perhaps by the recovery of
the *next* server; every write may fail after it was applied; a clone runs in a
thread of its own under a timeout; a page polls without waiting for its answers; a
retry sleeps in the thread other jobs wait for. The other is along the analyses: a
finding passes through two answers of a language model, three sorts, two cuts and a
dozen records that refuse what does not validate before it is a row of the report.
These modules model both, check them with TLC, and prove every safety property of the
models with TLAPS: for any number of jobs, servers, threads, nodes, polls, retries and
documents, and for any clone, answer of Gemini and hit of a search.

Paths below are relative to `src/`.

## Contents

| File | What it is |
|---|---|
| `JobContract.tla` | what a client is promised about the status of a job |
| `JobLifecycle.tla` | jobs, Supabase, server processes, executor, orchestrator, persistence, orphan recovery |
| `AnalysisRun.tla` | the runs inside one server: graph, nodes, state, clone thread, clone directory |
| `JobPoller.tla` | the frontend's job page, polling a job that behaves as `JobContract` says |
| `Listing.tla` | what the code does with lists: comprehensions, slices, sorts |
| `RepositoryManifest.tla`, `Parsing.tla`, `CodeRepresentation.tla` | what IngestNode and ParseNode compute |
| `SharedEnums.tla`, `ArchitectureAgent.tla`, `SecurityAgent.tla` | rules, Gemini's wording and the sections of the two agents |
| `Retrieval.tla`, `RecommendationAgent.tla`, `ReportAssembly.tla` | queries and chunks, recommendations, the report |
| `ReportPipeline.tla` | one run over these operators: from the clone to the report, a step for each node and query |
| `FindingLedger.tla` | what a reader is promised about findings and recommendations |
| `GeminiClient.tla` | `generate` with its retries and sleeps |
| `ServicePool.tla` | `get_executor`, worker threads, `shutdown_executor` |
| `KnowledgeBase.tla` | chunker and loader of the Qdrant collection, over several loads |
| `Services.tla` | the last three together |
| `JobLifecycle_proofs.tla`, `AnalysisRun_proofs.tla`, `JobPoller_proofs.tla` | theorems about these modules |
| `KnowledgeBase_proofs.tla`, `Services_proofs.tla` | theorems about the services, `GeminiClient` and `ServicePool` in the second |
| `Listing_proofs.tla`, `ReportData_proofs.tla` | lemmas: lists; what each service of a run returns or raises |
| `ReportPipeline_proofs.tla` | theorems about a run's data, from these lemmas |
| `MC*.tla`, `*.cfg` | finite instances for TLC |
| `PROJECT.json` | components, runs, seeded faults (mutants), source lines of each definition, findings, hazards, theorems |

The data modules extend each other in the order of the nodes, from `RepositoryManifest`
to `ReportPipeline`: `Parsing` works on a manifest, `CodeRepresentation` on analyses,
each agent on the outputs before it. All of them stand on `Listing`.

Operators with a comment that begins "Mutant" are not part of a specification: each
is a plausible slip in the code, against which one property is known to fail.

## Inventory of the system

**Job submission and rows** (`backend/api/routers/jobs.py`,
`backend/infrastructure/supabase_client.py`, `backend/scripts/supabase_schema.sql`,
`backend/shared/types/job_types.py`). *State*: the tables `jobs` and `reports`.
*Operations*: `insert_job`, `update_job` (by id alone, no condition on the status),
`insert_report` (an upsert), `list_jobs`, `recover_orphaned_jobs` (an update
conditional on `RUNNING`), and reads. *Hard*: no transaction spans two writes;
`jobs.report_id` has no foreign key; a write may be applied and its response lost;
`JobRecord`'s validators never see an update. *Correct when*: a COMPLETE row has its
report, the columns of a row agree with its status, statuses follow
`JobStatus`'s diagram.

**Server life cycle and executor** (`backend/api/main.py`,
`backend/api/dependencies.py`). *State*: the process, its executor with threads and
queue, lazily built singletons. *Operations*: lifespan start (recovery, then serve),
lifespan end (`shutdown(wait=False)`), interpreter exit (joins the threads, which
drain the queue), being killed. *Hard*: a server that drains overlaps with its
successor; queue and threads die with the process. *Correct when*: recovery fails
only jobs nobody works on, and every job is settled in the end.

**Orchestrator** (`backend/services/orchestrator/orchestrator_service.py`). *State*:
none of its own. *Operations*: `create_job`; `run`: mark RUNNING, announce stages
best effort, stream the graph, and turn every failure into a FAILED update that may
fail itself. *Correct when*: a run that ends leaves its job settled or a known reason
why not, and a stage is not announced before its node.

**Workflow graph, state and nodes** (`backend/core/workflow/`). *State*:
`AnalysisState`: the nodes' outputs, `workflow_status`, `node_execution_log`,
`errors`. *Operations*: each node reads required fields, begins a record, calls its
service, and returns a partial state or raises `FatalNodeError`; the RAG node never
raises, the persistence node has three ways to fail. *Correct when*: no node misses
an input, the log and the errors tell how the run ended, and the announced stage tells
the node that runs or failed.

**Ingestion** (`backend/services/ingestion/`). *State*: a temporary directory, a
one-thread executor, a git process. *Operations*: `mkdtemp`, clone under a timeout,
size and commit checks, manifest with trimming; on failure the directory is removed;
on success `ParseNode` removes it. *Hard*: a timeout in one thread and a git in
another, ownership of the directory that passes from one node to the next. *Correct
when*: nobody deletes or reads the directory under a running git, the parser sees
a whole clone, no directory stays behind.

**Persistence** (`backend/services/persistence/`,
`backend/core/workflow/nodes/persistence_node.py`). *Operations*: `insert_report`
with retries, then `update_job` to COMPLETE. *Hard*: the second may fail after the
first. *Correct when*: never COMPLETE without a report.

**Gemini client** (`backend/infrastructure/gemini_client.py`). Calls with retries:
429 answers with a delay of their own, other errors with a backoff, some not at all;
the sleeps block a worker thread. *Correct when*: a request is sent again only after
errors that are retried and never more often than the limit, the exception tells the
cause, and the jobs behind get the thread in the end.

**Parser** (`backend/services/parser/`). Walks the files of the clone with
tree-sitter and derives signals. *Correct when*: aggregates match the files,
unreadable files are counted.

**Agents** (`backend/services/architecture_agent/`, `security_agent/`,
`recommendation_agent/`). Rule engines and prompts, then an answer of Gemini that is
validated, filtered and numbered. *Hard*: an answer may leave out any finding, name
one that does not exist, or be too short, and each record refuses what does not
validate. *Correct when*: no finding of a rule is lost, doubled or put after a milder
one, citations are of chunks found for that finding, and no record is refused but for
causes that are known.

**RAG** (`backend/services/rag_agent/`, `backend/rag/`,
`backend/infrastructure/qdrant_client.py`). Query builder (at most ten, by severity),
retrieval, chunker, loader. *State*: the Qdrant collection, across loads. *Hard*: a
query, an embedding, a document or an upsert fails and the rest goes on, a document that
is not UTF-8 ends the load half way; chunk ids are positions, so a document that got
shorter leaves points behind. *Correct when*: the
worst findings are queried, and a clean load leaves every chunk indexed with its
present text.

**Report assembly** (`backend/services/report_assembly/`). Builds sections, metadata
and Markdown from the state; no state of its own.

*Correct when*: the six sections and the metadata, taken from five records, tell the
same counts.

**API surface** (`backend/api/schemas/`, `security.py`, `routers/health.py`,
`routers/reports.py`). Stateless checks and reads.

**Frontend job page** (`frontend/nextjs/components/JobPoller.tsx`,
`frontend/nextjs/lib/api.ts`). *State*: the job as last received, an interval, the
progress bar, the redirect. *Operations*: poll, receive, time out, tick, unmount.
*Hard*: polls overlap and are answered in any order. *Correct when*: polling stops
with the outcome or at the limit, the bar neither goes back nor runs ahead, a
redirect has a report, a failure is shown.

**Rest of the frontend.** Forms, report view, route handlers that pass requests on.

How they interact:

    page --POST /jobs--> handler --insert_job--> Supabase
      |                     |--submit--> executor queue --> worker thread
      |                                                        |
      |--GET /jobs/{id} (every 5 s)--> Supabase <--update_job--| orchestrator.run
                                          ^                    |   graph: ingest, parse,
                                          |                    |   architecture, security,
               next server's lifespan ----+ recover_orphans    |   rag, recommendation,
                                                               |   report, persistence
                                          clone thread <-------+

## What is modelled, and how it corresponds to the code

### JobContract: the promise

One variable, `status`, and the arrows of `JobStatus`'s docstring. `LateCompletion`
weakens it: a job reported FAILED may still turn COMPLETE. It is used twice: as the
abstract specification `JobLifecycle` implements, and as the environment of the page
in `JobPoller`. So whatever the page is shown to tolerate is what the backend is
proved to do.

### JobLifecycle: rows, processes, threads

| TLA+ | Code |
|---|---|
| `row`, `reports` | tables `jobs`, `reports`; the columns that the constraints and validators relate |
| `phase[p]`, `orphans[p]` | lifespan of server process `p`; the list `recover_orphaned_jobs` works off |
| `queue[p]`, `Busy(p)` | work queue and occupied threads of the executor |
| `pc[j]`, `node[j]`, `attempt[j]`, `reason[j]` | where the handler, then `AnalysisOrchestrator.run`, is with job `j` |
| `Write`, `UpdateRow`, `UpsertReport` | a call to Supabase: applied and returned; refused by a CHECK; or raised, with the write applied or not |
| `StartProcess`, `ListOrphans`, `RecoverOrphan` | start-up, recovery row by row |
| `Shutdown`, `Exit`, `Crash` | lifespan end, join of the threads, kill |
| `InsertJob`, `SubmitJob` | `POST /jobs`: `create_job`, `executor.submit` |
| `PickUp`, `MarkRunning`, `WriteStage`, `NodeReturns`, `NodeRaises`, `InsertReport`, `MarkComplete`, `MarkFailed` | the steps of `run` and of `PersistenceService.run` |

Every call to Supabase is one step. Between any two steps another thread, another
process, or a kill may come. `Overlap` says whether a server may start while its
predecessor drains. The workflow's nodes are numbers here; only the last,
PersistenceNode, is opened.

### AnalysisRun: inside a run

| TLA+ | Code |
|---|---|
| `pc[r]`, `at[r]` | the worker's step, and which of the eight nodes it is in |
| `clone[r]`, `disk[r]`, `leaked` | thread and git of `_clone_with_timeout`; the clone directory; directories `rmtree` silently kept |
| `fields`, `status`, `log`, `errors` | `AnalysisState` |
| `stage` | `current_stage` as the orchestrator announces it |
| `Requires`, `Provides`, `StatusAfter` | each node's `require_field`s, outputs, and `workflow_status` |
| `NextStage` | `_NEXT_STAGE_MAP` |
| `SubmitClone` ... `CleanUp` | `IngestionService.run`, `_clone_with_timeout` with the `with` statement's join, IngestNode's except clause |
| `Parse`, `Sweep` | ParseNode and its `finally` |
| `ServiceReturns`, `ServiceFails`, `SkipRetrieval`, `RetrievalFails`, `CompleteUnwritten`, `PersistenceEscapes` | the ways the other six nodes end |
| `PickUp`, `Enter`, `YieldChunk`, `Kill` | executor, start of a node, the orchestrator's loop, the process |

What a service computes is abstracted to whether it returns or raises; what a field
holds, to whether it is set. `errors` and `log` outlive the run in the model, as the
nodes mutate the list and the records of the state in place.

### JobPoller: the page

`poll[i]` is the i-th request with its answer, `timer` the interval, `tab` what the
page displays apart from the job, `shown` the `job` state, `percent` the progress bar in units of a
stage, `pushed` the redirect. `Poll`, `Receive`, `ReceiveError`, `SmoothTick`,
`Unmount` are the callbacks of the component, `Answer` the backend. The job moves by
the actions of `JobContract` (`Server == INSTANCE JobContract`).

### ReportPipeline: from the clone to the report

| TLA+ | Code |
|---|---|
| `walk`, `Source`, `Import` | the files `os.walk` finds; what each file and import statement is, as far as the code looks |
| `manifest`, `pcr`, `architecture`, `security`, `context`, `recommendations`, `report` | the fields of `AnalysisState` of these meanings, `None` until their node is done |
| `queries`, `chunks`, `empty`, `position` | the locals of `RetrievalService.run` |
| `Ingest` | `build_manifest`: reasons to skip, trimming, counts by language |
| `Parse` | `ParserService.run`: files, signals, validated records, the ways to raise |
| `Architecture`, `Security`, `Recommend` | the agents' `run`: rules, Gemini's answer, records |
| `StartRetrieval`, `QueryIsEmpty`, `QueryHits`, `CollectionMissing`, `FinishRetrieval` | query builder; a query that fails or finds nothing, one with hits; a missing collection; the context |
| `Assemble` | `ReportService.run`: sections, metadata |
| `GeminiGivesUp` | an exception of `generate`, as `GeminiClient` has them |

The rules, filters, orders and validators are operators of the modules below it, one
for a function of the code. Texts are lengths, since all the code asks of a text is
whether it is long enough; a syntax tree is the sequence of the nodes the parser looks
for; Python's `None` is `<<>>`, which no record equals; an answer of Gemini is a record of its form and the lengths of its texts. A
service returns a value or names the exception (`Returned`), and `Fail` ends the run
with it. The exceptions have the code's classes: the parts of a `ParsedCodeRepresentation`
are refused by their own validators (`ValidationError`), the whole by `PCRAssemblyError`.
The validator of `QualitySignals` derives the coverage from the counts by the thresholds
that made it, so it has no operator of its own. A report without findings has no highest
severity (`HighestSeverity`, `NoSeverity`), while its overall risk is INFO. What the code
gets wrong is modelled as it is: three results that name a
member their enumeration does not have (`NamesMissingMember`) end the run, fan-in is
counted under the text of an import and so finds no hub (`HighCoupling`), an
unreadable file is an empty one (`ParseFileBytes`).

A comprehension, a slice or a sort is written in `Listing` by what it yields: some
positions of its argument, in an order; an element stands where the number of those
before it says. That is the code's list, and it leaves nothing to recurse over, so that
the provers can reason about it. `ListingAssumption` of `MCReportPipeline` has TLC
compare these operators with the library's on all short lists.

`FindingLedger` is the abstract specification: findings with distinct ids are entered,
then a report is published that covers the worst of them up to a limit, each once, the
worst first; or the job is abandoned and nothing is. `ImplementsLedger` maps the rules'
findings to the ledger, and the rows of the printed section to what is covered.

### GeminiClient, ServicePool, KnowledgeBase: the services

| TLA+ | Code |
|---|---|
| `at[c]`, `faults[c]`, `outcome[c]` | where a call of `generate` is, the errors its requests met, what it returned or raised |
| `Generate`, `Responds`, `ClientRateLimited`, `ResourceExhausted`, `TransientError`, `FinalError`, `Wake` | the loop of `generate`, one action for each except clause, and the end of `time.sleep` |
| `executor`, `made`, `request[r]`, `given[r]` | the global `_executor`, the executors there are, a request inside `get_executor` and `submit_job`, what it was returned |
| `queue[e]`, `running[e]`, `late`, `serving` | queue and threads of an executor; the requests that came when another had one; the teardown |
| `CheckExecutor`, `CreateExecutor`, `ReturnExecutor`, `SubmitJob` | the three reads and writes of the global between which another thread may run; `executor.submit` |
| `TakeJob`, `FinishJob`, `ShutdownExecutor` | the worker threads; `shutdown_executor` |
| `edition`, `collection`, `points` | the documents on disk; the Qdrant collection and its points by chunk id |
| `loader`, `document`, `chunk`, `batch`, `errors`, `exit`, `recreate` | the locals of `load` and its flag; how the script ended |
| `StartLoad`, `EnsureCollection`, `SetupFails`, `ReadDocument`, `DocumentUnreadable`, `EmbedChunk`, `EmbedFails`, `WriteDocument`, `UpsertFails`, `FinishLoad` | the steps of the loader and the errors it counts |
| `DocumentUndecodable` | the `UnicodeDecodeError` that `load` does not catch: it ends the script with the documents before written |
| `ChunksOf`, `FixedWindow` | `chunk_document`, `_fixed_window` with the code's numbers |

`Services` composes them: a call of `generate` runs on the worker thread of its job,
which is free again when the call is over. Server and script share no variable and no
property speaks of both, so a behaviour is one of the server or one of the script
(`process`), not every interleaving of the two.

## Assumptions of the models

- A call to Supabase that goes wrong either took effect before the exception or never
  does; it is not applied later. A report insert may be repeated (it is an upsert).
- The executor's queue is first in, first out in `JobLifecycle`; `AnalysisRun` lets a
  worker take any waiting run, which includes that order.
- A `POST /jobs` handler runs on the event loop without an `await`, so handlers of one
  process do not interleave and the teardown of lifespan does not cut one in two.
- The last process `MaxProcs` allows is not killed, or a bound would look like a stall.
- Each submission draws a fresh uuid, so job ids do not collide.
- `rmtree(ignore_errors=True)` may fail without a word; such directories are in
  `leaked`. A killed server's git processes live on.
- Gemini's retry delays are whole seconds. A message of a 429 without `retryDelay` has
  the status as its first number, so 429 is among the delays it may seem to ask for.
- FastAPI runs each request's `get_executor` in a thread of its own, and teardown comes
  when no request is inside.
- Nobody edits the knowledge base while it is being loaded. An upsert or a creation that
  raises may have been carried out, whole or not at all; an embedding has no effect.
- The points a search finds were loaded by this code, so that their texts are at least
  `KB_CHUNK_MIN_LENGTH` long; what is assumed is that none is empty.
- A search returns points of the domain it filters on, at most `RAG_TOP_K`, with one
  score for all of them, at or above the threshold; rounding may give 1.01.
- Tree-sitter is external: a file has the nodes `Source` gives it, or is broken.
- COMPLETE answers carry a `report_id` (a CHECK of the schema). The stages' percentages
  are strictly increasing and below 100, so a stage is its rank.

## What the runs check

Safety of the life cycle:

- **lifecycle**: two jobs, two threads, the code's eight nodes and three insert
  attempts, three Supabase faults, one restart, no overlap. Two jobs are the fewest
  that queue, race in recovery and share threads; three faults exhaust the insert
  attempts *or* spoil an insert, an update and the FAILED update that should report
  it; a restart after a kill exercises recovery. `CompleteHasReport`: COMPLETE
  implies a saved report. `RowIntegrity`: whatever subset of writes got through, the
  columns agree with the status as `JobRecord`'s validators (never run on updates)
  demand. `NoSilentStall`: an unsettled row is in somebody's hands or has one of
  three known excuses. `StageNotAhead`: the announced stage never passes the running
  node. `RecoverySparesLiveJobs`: recovery fails no job a live server has in hand.
  `ImplementsContract`: refinement of `JobContract`.
- **lifecycle_overlap**: three servers, each of which may start while the one before
  still drains. Nodes, attempts and faults are reduced: what matters here is a stale
  orphan list against a running job, and a third server for a recovery that overlaps
  two. The invariants survive; `CompleteIsFinal` (a COMPLETE row is never written
  again) survives; the contract does in its weaker form.

Liveness of the life cycle:

- **lifecycle_live**: three servers in turn, two jobs on one thread, no faults.
  `RunningIsSettled`: what recovery is for. `SubmittedIsSettled`: shutdown drains the
  queue and nobody starves; only the loss of the server excuses.

Inside a run:

- **workflow**: two runs on one thread, so that one waits for the other, all ways of
  failure in every node, and a kill at any point. `CloneConfined`: no git runs while
  its directory is deleted or read. `CloneDirRemoved`: nothing stays on the disk.
  `ParseReadsWholeClone`: the parser, which takes unreadable files for empty ones,
  sees a whole clone. `InputsPresent`: no node misses an input, RAG failures
  included. `StageTellsNode`: the stage on the page is announced before the node it names
  begins, and stays through its `finally` and on its failure; `workflow_status` says the
  same but in the first node, where it is INITIALIZED. `OutcomeIsRecorded`: log
  and errors tell how the run ended. `EveryRunEnds`: no run waits for ever. Runs
  meet only in the worker slots and a kill, so two are enough for one to hold
  another up.

The page:

- **poller**: three polls, two stages, late completions. Three overlapping polls give
  every order of an old, a terminal and a late answer; two stages, a stage that is
  skipped. `NoPollAfterOutcome`, `PollingStops`, `ProgressNeverBack`,
  `ProgressNotAhead`, `RedirectHasReport`.

The data:

- **pipeline**: eleven clones, each chosen for a way through the code: none, none to
  parse, none that parses, no finding, an unreadable or broken file, all rules at once,
  more files than the limit, imports in a cycle across layers, a dangling link, and the
  three structures whose names no enumeration has. Each agent gets four answers: a good
  one; one with texts for some findings, too short, or for findings there are none of;
  one too short as a whole; and one of the wrong form. Each query may fail, find
  nothing, or hit any points of its domain. `ImplementsLedger`: from the rules to the
  printed rows no finding is lost, doubled or put after a milder one. `ReportAgrees`: the
  counts and severities in sections and metadata agree, although they are taken from five records,
  but for the one case it names, the report without a finding. `CitationsTraceable`: a
  recommendation cites what was found for its own finding. `OnlyKnownRefusals`:
  what a service computes is refused by the validators for four causes only: a clone
  without a readable file, a structure whose name no enumeration has, a hint of a finding
  that is too short for a query, a score rounded to more than 1. The clones and answers
  of the run have all four.
  `WorstQueriedFirst`: when there are more findings than queries, the worst are looked
  up. With the numbers of the code no clone has more findings (eleven rules, of which one
  never applies) than `MAX_RAG_QUERIES` (10) or `MAX_RECOMMENDATIONS` (15) allow, so its
  caps would never bite; 3 queries, 4 recommendations, 4 analyzable files, 2 hits and 1 excerpt make
  them bite, ties included. Fan-in and fan-out of 1 serve for ten and more imports.

The services:

- **services**: two first requests inside `get_executor` at once, with one thread for
  each executor, so that there are two executors or a job that waits for a sleeping
  call; one retry, so that a call may succeed, exhaust it or fail at once; waits of 30
  seconds, and of 429, which is over the limit of 120. Two loads of two documents, of
  which one is cut by windows and gets shorter in between, so that a chunk of it is left
  over. `RetryDiscipline`, `ErrorTellsCause`: the two retry rules. `PoolsBound`: more
  jobs than the limit run only if two requests were inside `get_executor` at once, each
  executor keeps the limit, and no job is lost between them. `EveryJobEnds`: a
  job that waits behind a sleep, on an executor nobody refers to, or at teardown, is
  over in the end. `CleanLoadComplete`: what each exit of the script tells about
  the collection: after a clean one all chunks are there with their present text, after one
  that raised only documents before the one it stopped at have changed, and none has lost
  a point.

Where the code and its own documents disagree, a run shows it (details and
quotations are under "findings" in `PROJECT.json`):

- **lifecycle_terminal**: "COMPLETE and FAILED are terminal states" is not kept by two
  overlapping servers. The new one fails the old one's job, which then completes.
- **lifecycle_polling**: a job that waited in the queue of a killed server stays PENDING
  for ever; recovery lists RUNNING rows only.
- **lifecycle_blank**: an exception without text becomes an empty `error_message`, which
  the schema refuses; the job stays RUNNING although no call failed.
- **workflow_hang**: the "hard timeout" of a clone is raised inside a `with` statement
  whose exit joins the clone thread, so a git that hangs keeps the worker. The same
  join is what makes `CloneConfined` true.
- **poller_overtaken**: an old answer overtaken by FAILED puts the page back to a job in
  progress after the polling has ended.

Disagreements met but not worth a run: `WorkflowStatus.FAILED` is documented as the
target of every fatal error and written nowhere; `manifest_types.py` and
`analysis_state.py` say that ParseNode nulls `temp_clone_path`, which it does not;
`MAX_CLONE_TIMEOUT_SECONDS` is a setting (and named in the error's advice) but the
clone uses a constant of its own; the docstring of the orchestrator still says that
orphans are not recovered; `ingest_node.py:43` says the status in IngestNode is INGESTING,
which no node sets, and `report_node.py:60` that the report node advances it to COMPLETE,
where line 114 sets PERSISTING; `pcr_builder.py:49` calls `files_attempted` the files sent
for parsing, but `parser_service.py:108` passes the length of the whole list, skipped files
included. And in what the data modules and the services model:

- `DOMAIN_DRIVEN`, `SERVICE_ORIENTED` (`architecture_signals.py:83`, `:91`) and `MIXED`
  (`quality_signals.py:88`) are no members of their enumerations, so such a clone ends
  the job with an `AttributeError`; `parse_node.py:55` says that only a clone in which no
  file parses is fatal.
- `loader.load` raises, by its docstring, only on fatal failures of the set-up and reports
  what befalls a document as a nonfatal error (`loader.py:61` to `:64`); a document that is
  not UTF-8 raises out of it, as line 112 catches `OSError` only (`DocumentUndecodable`).
- `--recreate` is to "drop and recreate" the collection
  (`scripts/load_knowledge_base.py:50`); `_ensure_collection` creates without deleting, and
  fails on a collection that exists (`SetupFails`).
- `max_concurrent_jobs` is the "maximum number of analysis jobs that can run concurrently"
  (`settings.py:120`; likewise the repository's `README.md:408` and `:483`,
  `.env.example:116`) and the executor a "singleton" (`dependencies.py:45`), but
  `get_executor` tests and assigns its global without a lock, in a thread for each request:
  the first two requests may make an executor each, and twice as many jobs run. TLC refutes
  `ConcurrencyLimit` by itself; `PoolsBound` says exactly when it is broken.
- A rate limit that outlasts the retries ends in `RateLimitError`; its docstring says
  `MaxRetriesExceededError` (`llm_exceptions.py:66`). `LLMTimeoutError`, documented as
  retried (line 82), is not.
- A 429 without `retryDelay` is read as 429 seconds and fails at once.
- An unreadable file counts as parsed; a direction violation is reported under two
  titles; `missing_error_handling` is never filled; the counts by language are those from
  before trimming; `retry_count` is always 0.

Of these `StageTellsNode`, `OnlyKnownRefusals`, `PoolsBound`, `ErrorTellsCause` and
`CleanLoadComplete` say what holds instead.

Every property of a passing run has a mutant in `PROJECT.json`: a changed definition
under which TLC finds that property violated. Deadlock is not checked because the
bounds, and the jobs themselves, come to an end.

### Fairness

- `JobLifecycle!FairSpec`: weak fairness of start-up, exit, thread pick-up, handlers
  and workers. The repository's `README.md` (line 479) describes recovery by "if the server
  restarts"; that somebody restarts it is taken for granted here, and is the host's
  affair, not the code's. The operating system schedules threads, and calls return. Not assumed: that clients
  submit, that a server is shut down or killed, or that a node fails. `NodeRaises`
  has no fairness apart from its worker's.
- `AnalysisRun!WorkerSpec`: threads are scheduled and the calls of a node return or
  raise, which the code leaves to the clients' libraries. `FairSpec` adds that a git
  ends, which nothing in the code enforces; `EveryRunEnds` needs it, and
  **workflow_hang** shows what happens without.
- `Services!FairSpec`: the threads of requests and workers run, a sleep ends, and Gemini
  answers or the connection breaks (the client sets no timeout, so this is up to the
  network and the library). Not assumed: that anybody submits a job, that the server is shut down, or that
  the loader gets anywhere.
- `JobPoller!FairSpec`: the browser fires the interval. Nothing is assumed of the
  backend: `PollingStops` holds even if no poll is ever answered.

## What is proved

The provers check these for every value of the constants, under the named
assumptions of the modules (numbers of processes, workers, nodes and attempts are
positive, faults a natural number, `Overlap` a Boolean; polls, retries and loads natural numbers;
documents, editions and sections are sequences) and nothing else. `Jobs`, `Runs`,
`Calls` and `Requests` are arbitrary sets.

**JobLifecycle_proofs.** `TypeCorrect`, `CompleteHasReportHolds`,
`RowIntegrityHolds`, `NoSilentStallHolds`, `StageNotAheadHolds`,
`CompleteIsFinalHolds`, `ImplementsContractHolds` for both values of `Overlap`, and
`RecoverySparesLiveJobsHolds` under `~Overlap`. None of the invariants is inductive.
`CompleteHasReport` needs that a run about to write COMPLETE has its report saved;
that needs to know that nobody removes it and who may write at all. So

    IInv == TypeInv /\ (\A j : PcInv(j) /\ RowInv(j) /\ Integrity(j))
            /\ HeldByServer /\ OneServer /\ QueueInv

where `PcInv` ties the row to the step a job is at (a run in flight has a row that is
RUNNING, or FAILED if servers overlap), `RowInv` the step to the row (COMPLETE only
once the run is over), `Integrity` the columns to the status; `HeldByServer` says a
job in hand belongs to a server past its recovery, `OneServer` that without overlap
all earlier servers are gone, and `QueueInv` that a queue holds distinct queued jobs
of its own server, so that a thread never takes a job twice. Each action has a lemma;
`NextInv` puts them together. Recovery racing a run is the hard case:
`RecoverInv` uses that the update is conditional, `RecoverySparesLiveJobsHolds` that
a server still recovering holds no job and, by `OneServer`, nobody else does. The
refinement maps each write to a row to one move of `JobContract` or a stutter
(`RowStep`, `ContractStep`).

**AnalysisRun_proofs.** `TypeCorrect`, `CloneConfinedHolds`,
`CloneDirRemovedHolds`, `ParseReadsWholeCloneHolds`, `InputsPresentHolds`,
from `IInv == TypeOK /\ \A r : RunInv(r)`. `RunInv` has four
parts: `CloneInv` follows the directory from `mkdtemp` to its removal, `PlaceInv`
says which steps occur in which node, `InputInv` that the fields hold what all nodes
so far leave (`LeftBy`), and `StageInv` that the status is that of the last node. The
properties need each other: that the directory is gone when a run raised holds only
because ParseNode cannot raise for want of its manifest before it reaches its
`finally`, which is `InputInv`. The lemmas `LeftByStep`, `InputsLeft` and
`TablesAgree` are about the tables of the graph. Runs do not touch each other's state
(`Others`), so a step needs a proof for its own run only (`OneRun`).

The same module proves `OutcomeIsRecordedHolds` and `StageTellsNodeHolds`. `node_execution_log` and `errors` are
appended to by eight nodes, and records are completed in place. `AuditInv`, relative to
`IInv`, has two parts for each run. `LogInv` says that the log names a path through the
graph and that all its records but the last are completed, the last one being open
exactly while its node runs; `ErrorsInv` that all errors are nonfatal, but for the last one of
a run that a node ended, which is fatal and of that node, and that the RAG node has an
error exactly if its record says FAILED.
The lemmas `QuietStep`, `RecordStep`, `FatalStep`, `NonfatalStep` are the four things a
step can do to the two lists, and each action is one of them. `StageTellsNodeHolds` needs
both invariants: `IInv` ties the stage and the status to the place of a run, and `AuditInv`
ties that place to the log, which says which node is in hand (`InHandPlace`).

**JobPoller_proofs.** `TypeCorrect`, `ProgressNotAheadHolds`, `RedirectHasReportHolds`,
`NoPollAfterOutcomeHolds`, `ProgressNeverBackHolds`, from `PageInv`: an answer
may be old, but tells no stage the job has not reached and COMPLETE only if it is
(`PollInv`), and so does the page (`ShownInv`), so that the bar's ceiling is never past
the announced stage. Late completion is allowed for: the proof uses only that the stage of
a job does not go back.

**KnowledgeBase_proofs.** `BaseTypeCorrect`, `CleanLoadCompleteHolds`. `ProgressInv` is
the loop's invariant: of the documents passed so far (`Passed`), all chunks are current if
no error was met, no point is lost, and every point is either current and of a passed
document or was there before (`Accounted`), failed upserts that were carried out included;
`BatchInv` says the same of the chunks embedded and not written. So a load may be cut off
at any document (`UndecodableInv`). That chunk ids are dense is `ChunksNumbered`,
from `PiecesFinite`: the pieces of a text are finitely many, whatever its sections.

**Services_proofs.** Of `GeminiClient`: `GeminiTypeCorrect`, `RetryDisciplineHolds`,
`ErrorTellsCauseHolds`. The number of errors met *is* the variable `attempt` of the
loop; `GeminiInv` says of it what each place in the loop knows (`CallInv`), its limit
(`Bounded`), and the last error with its outcome (`Caused`).

Of `ServicePool`: `PoolTypeCorrect`, `PoolsBoundHolds`. `PoolInv` says that
the jobs of a queue were given that executor, that a running job is on a thread of its
own, and that the global is never `None` again while the server is up and some request has its
executor (`KeptInv`): a late request therefore never makes one. With one executor made, all
running jobs are on it (`OwnersInv`), so that more jobs than the limit need two.

Of the composition: `PartsImplemented`: a step of the composition is one of each part
or leaves it alone. `PartsKeepPromises` carries the theorems of the parts over, and
`ServicesTypeCorrect` adds that only a job on a worker thread has a call under way.

**ReportPipeline_proofs.** `TypeCorrect`, `OnlyKnownRefusalsHold` (`OnlyKnownRefusals`),
`WorstAreQueried` (`WorstQueriedFirst`), `PartsAgree` (`ReportAgrees`), `CitationsTraced`
(`CitationsTraceable`) and `LedgerImplemented`, the refinement of `FindingLedger`. All six
rest on `Provenance`, the invariance of

    Inv == StageInv /\ RecordInv /\ ErrorInv /\ RetrievalInv

`StageInv` says which records there are at each stage and with which exceptions a run can
end: a `ValidationError` is none of them, and `ErrorInv` keeps the causes of two others, a
refused manifest (`RefusedManifest`) and a missing member. `RecordInv`
says how each record came from those before it. It is what the properties lack: they
compare records far apart, such as the counts in the printed metadata with the findings of
the rules, and no step makes both. So each link has its own predicate (`AgreesWithManifest`,
`WeaknessesOf`, `FindingsOf`, `GroundedContext`, `RecommendationsOf`, `AssembledReport`),
established by the step that makes the record and kept since a record is never
replaced. `RetrievalInv` is the loop invariant of the queries: they are those of the worst
findings, and a chunk so far has the domain and the finding of the query it was found
for. Each action has a lemma (`IngestStep` ... `FinishRetrievalStep`); `InvNext` puts them
together. For the refinement, `StepKinds` says that a step makes the findings, or
publishes, or abandons, or leaves all three alone; `ReportCovers`, that the rows of a report
with recommendations are findings of the ledger, the worst first, each once, and that only
the limit leaves one out. That holds because rules' findings have distinct ids
(`LedgerProperties`) and because both cuts come after a sort by severity.

**ReportData_proofs** has what each of these predicates needs of the code: for each
service, given the predicates of the records it reads, that of the record it returns, or
the exceptions it can raise (`ManifestProperties`, `ParserProperties`, `ArchitectureProperties`,
`SecurityProperties`, `QueriesProperties`, `MergeProperties`, `ContextProperties`,
`RecommendationProperties`, `ReportProperties`). The answer of Gemini is any record its
parser accepts: it may word any of the findings and name others, but what is returned
has the findings of the rules (`SameFindings`, `SameWorstFindings`).

**Listing_proofs** are the lemmas these rest on. `InOrderLists`: a finite set under a strict
total order is listed with each element once, by counting the elements before it. From it
follow what a comprehension keeps and in which order (`OnlyProperties`, `OnlyLists`), that
two conditions that exclude each other share a list (`OnlyPartition`), that a sort lists
what it is given and the first `n` of it are the worst (`SortLists`, `FirstOfDescending`),
and the concatenation of lists (`FlattenProperties`).

These proofs assume of the environment only that a clone is a sequence of files
(`PipelineAssumption`), that an answer's texts have lengths (`AnswersAssumption`), and that
the points in Qdrant are finitely many and those a search returns score at or above its
threshold and have a text (`HitAssumption`). The limits of the code are any naturals, those that cap a list
positive (`CapsAssumption`, `ManifestAssumption`, `ThresholdAssumption`). Clones, files,
answers and hits are arbitrary.

**Only model-checked**: the five liveness properties (`RunningIsSettled`,
`SubmittedIsSettled`, `EveryRunEnds`, `PollingStops`, `EveryJobEnds`), since the prover
has no rule for fairness. `CloneConfined` and its companions are proved without any
fairness; that a run gets anywhere is TLC's to say.

## What is not modelled

- The texts: prompts, wording of findings and report, Markdown. A text is its length.
- Tree-sitter's grammars and the substring tests on source lines: a file has the
  attributes they would find.
- `GET` handlers, request schemas, API keys, health checks, `probe`, configuration,
  exception classes, logging, layout of pages, the frontend's route handlers: stateless,
  or declarations. No step of theirs changes anything another step reads.
- `get_supabase_client` and `get_orchestrator`, which have the race of `get_executor`:
  what two threads would make twice has no state, so either one serves.
- Clock times of sleeps and timeouts: a sleep ends, a timeout fires or does not.
- Reordering of writes inside Supabase, two browser tabs (they share nothing), and
  several server processes serving at once (the code is documented as one process).

## Plan

Done, in the order of importance: `JobContract` and `JobLifecycle` with proofs (the
rows are all a client ever sees); `AnalysisRun` with proofs (what happens between
two rows), its audit trail included; `JobPoller` with proofs (what a user makes of the
rows); the data of a run against `FindingLedger`, with proofs; the services beside it
with proofs.

What could follow:

1. `AnalysisRun` as an implementation of the node steps of `JobLifecycle`: each node's
   return or exception maps to `NodeReturns` or `NodeRaises`. The rows would have to be
   added to `AnalysisRun`, or hidden from `JobLifecycle`.
2. `ReportPipeline` inside `AnalysisRun`, so that the ways to raise of the one are the
   failures of the other; today both have all of them, separately. The exceptions
   `StageInv` allows are what such a theorem would start from.
3. Edits of the knowledge base during a load, and searches during one.
