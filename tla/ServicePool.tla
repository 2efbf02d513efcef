---------------------------- MODULE ServicePool ----------------------------
(***************************************************************************)
(* get_executor and shutdown_executor: the ThreadPoolExecutor that the     *)
(* first request makes, and the worker threads that take the jobs. FastAPI *)
(* calls get_executor in a thread of its own for each request, and nothing *)
(* keeps two of them from being in it at once.                             *)
(***************************************************************************)
EXTENDS Naturals, Sequences, FiniteSets

CONSTANTS
    Requests,     \* the requests to submit a job, which stand for their jobs too
    MaxWorkers,   \* settings.max_concurrent_jobs
    NoExecutor    \* the value None of the global _executor

ASSUME PoolAssumption == MaxWorkers \in Nat \ {0} /\ NoExecutor \notin Requests

VARIABLES
    executor,   \* the global _executor: the request that made it, or NoExecutor
    made,       \* the requests that made an executor
    request,    \* request[r]: where the request is
    given,      \* given[r]: the executor get_executor returned to r
    queue,      \* queue[e]: the jobs that wait in executor e
    running,    \* running[e]: the jobs on the threads of e
    late,       \* the requests that came when another had its executor already
    serving     \* FALSE after the teardown of the server

poolVars == <<executor, made, request, given, queue, running, late, serving>>

PoolInit ==
    /\ executor = NoExecutor
    /\ made = {}
    /\ request = [r \in Requests |-> "new"]
    /\ given = [r \in Requests |-> NoExecutor]
    /\ queue = [r \in Requests |-> <<>>]
    /\ running = [r \in Requests |-> {}]
    /\ late = {}
    /\ serving = TRUE

Move(r, from, to) ==
    /\ request[r] = from
    /\ request' = [request EXCEPT ![r] = to]

-----------------------------------------------------------------------------
(* Steps                                                                   *)

\* `if _executor is None`.
CheckExecutor(r) ==
    /\ serving
    /\ Move(r, "new", IF executor = NoExecutor THEN "create" ELSE "return")
    /\ late' = IF \E s \in Requests : given[s] # NoExecutor THEN late \union {r} ELSE late
    /\ UNCHANGED <<executor, made, given, queue, running, serving>>

\* Mutant: the executor is kept in a local variable, as without `global _executor`.
CreateLocal(r) ==
    /\ Move(r, "create", "submit")
    /\ made' = made \union {r}
    /\ given' = [given EXCEPT ![r] = r]
    /\ UNCHANGED <<executor, queue, running, late, serving>>

\* `_executor = ThreadPoolExecutor(...)`, whatever has become of _executor meanwhile.
CreateExecutor(r) ==
    /\ Move(r, "create", "return")
    /\ made' = made \union {r}
    /\ executor' = r
    /\ UNCHANGED <<given, queue, running, late, serving>>

\* `return _executor`, which reads the global once more.
ReturnExecutor(r) ==
    /\ Move(r, "return", "submit")
    /\ given' = [given EXCEPT ![r] = executor]
    /\ UNCHANGED <<executor, made, queue, running, late, serving>>

\* executor.submit of submit_job, after the row of the job is written; a write that fails,
\* after which there is no submit, is JobLifecycle's.
SubmitJob(r) ==
    /\ Move(r, "submit", "queued")
    /\ queue' = [queue EXCEPT ![given[r]] = Append(@, r)]
    /\ UNCHANGED <<executor, made, given, running, late, serving>>

\* A thread of the executor takes the first job of its queue.
TakeJob(e) ==
    /\ queue[e] # <<>>
    /\ Cardinality(running[e]) < MaxWorkers
    /\ Move(Head(queue[e]), "queued", "running")
    /\ queue' = [queue EXCEPT ![e] = Tail(@)]
    /\ running' = [running EXCEPT ![e] = @ \union {Head(queue[e])}]
    /\ UNCHANGED <<executor, made, given, late, serving>>

\* The run is over and its thread is free again.
FinishJob(e, r) ==
    /\ r \in running[e]
    /\ Move(r, "running", "over")
    /\ running' = [running EXCEPT ![e] = @ \ {r}]
    /\ UNCHANGED <<executor, made, given, queue, late, serving>>

\* Mutant: the jobs that wait are cancelled, as with cancel_futures=True.
CancelQueued ==
    /\ serving
    /\ \A r \in Requests : request[r] \notin {"create", "return", "submit"}
    /\ serving' = FALSE
    /\ executor' = NoExecutor
    /\ queue' = [e \in Requests |-> IF e = executor THEN <<>> ELSE queue[e]]
    /\ UNCHANGED <<made, request, given, running, late>>

\* shutdown_executor, at the teardown, for which the server waits until no request is
\* under way. Only the global executor is shut down, and none of its jobs is cancelled;
\* the threads of every executor work off their queue before the process ends.
ShutdownExecutor ==
    /\ serving
    /\ \A r \in Requests : request[r] \notin {"create", "return", "submit"}
    /\ serving' = FALSE
    /\ executor' = NoExecutor
    /\ UNCHANGED <<made, request, given, queue, running, late>>

PoolNext ==
    \/ \E r \in Requests : CheckExecutor(r) \/ CreateExecutor(r) \/ ReturnExecutor(r) \/ SubmitJob(r)
    \/ \E e \in Requests : TakeJob(e) \/ \E r \in Requests : FinishJob(e, r)
    \/ ShutdownExecutor

PoolSpec == PoolInit /\ [][PoolNext]_poolVars

-----------------------------------------------------------------------------
(* Properties                                                              *)

PoolTypeOK ==
    /\ executor \in made \union {NoExecutor}
    /\ made \subseteq Requests
    /\ request \in [Requests -> {"new", "create", "return", "submit", "queued", "running", "over"}]
    /\ given \in [Requests -> Requests \union {NoExecutor}]
    /\ queue \in [Requests -> Seq(Requests)]
    /\ running \in [Requests -> SUBSET Requests]
    /\ late \subseteq Requests
    /\ serving \in BOOLEAN

\* "Maximum number of analysis jobs that can run concurrently": over all executors no
\* more jobs are on worker threads than max_concurrent_jobs allows.
ConcurrencyLimit == Cardinality(UNION {running[e] : e \in Requests}) <= MaxWorkers

\* ConcurrencyLimit does not hold, because executors can be several; this is what holds.
\* The limit is broken only when two requests that were in get_executor at once have made
\* an executor each: a request that comes when another has its executor never makes one.
\* Each executor by itself keeps the limit, and every job is with the executor its request
\* was given, be it the global one or not.
PoolsBound ==
    /\ ConcurrencyLimit \/ \E r, s \in made : r # s
    /\ made \cap late = {}
    /\ \A e \in Requests : Cardinality(running[e]) <= MaxWorkers
    /\ \A r \in Requests :
          /\ request[r] \in {"submit", "queued", "running", "over"} => given[r] \in made
          /\ request[r] = "running" => r \in running[given[r]]

=============================================================================
