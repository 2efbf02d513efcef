---------------------------- MODULE JobLifecycle ----------------------------
(***************************************************************************)
(* The life of an analysis job: the jobs and reports tables in Supabase,   *)
(* the server processes that come and go, the POST /jobs handler, the      *)
(* ThreadPoolExecutor and its queue, AnalysisOrchestrator.run on a worker  *)
(* thread, PersistenceService, and the recovery of orphaned jobs when a    *)
(* server starts.                                                          *)
(*                                                                         *)
(* Server processes are the numbers 1..MaxProcs in the order they start.   *)
(* Every call to Supabase is one step, and may raise whether or not its    *)
(* write was applied (an error response, or a response that is lost).      *)
(* Between any two steps the process may be killed.                        *)
(***************************************************************************)
EXTENDS Naturals, Sequences, FiniteSets

CONSTANTS
    Jobs,          \* the jobs clients may submit (each submission draws a new uuid4)
    MaxProcs,      \* bound: number of server processes ever started
    MaxWorkers,    \* max_workers of the executor (settings.max_concurrent_jobs)
    LastNode,      \* number of workflow nodes; node LastNode is PersistenceNode
    MaxAttempts,   \* _MAX_RETRIES of PersistenceService
    MaxFaults,     \* bound: number of Supabase calls that go wrong
    NodeFailures,  \* how a workflow node may fail, a subset of NodeFailureKinds
    Overlap        \* BOOLEAN: may a server start while its predecessor is draining?

NodeFailureKinds == {"FatalNodeError", "BlankReason", "Unexpected"}

ASSUME ProcsAssumption    == MaxProcs \in Nat \ {0}
ASSUME WorkersAssumption  == MaxWorkers \in Nat \ {0}
ASSUME NodesAssumption    == LastNode \in Nat \ {0}
ASSUME AttemptsAssumption == MaxAttempts \in Nat \ {0}
ASSUME FaultsAssumption   == MaxFaults \in Nat
ASSUME FailuresAssumption == NodeFailures \subseteq NodeFailureKinds
ASSUME OverlapAssumption  == Overlap \in BOOLEAN

VARIABLES
    row,       \* the jobs table: row[j] is the record of job j
    reports,   \* the reports table: the jobs whose report is saved
    phase,     \* phase[p]: where server process p is
    orphans,   \* orphans[p]: listed by recover_orphaned_jobs, not yet handled
    queue,     \* queue[p]: work queue of p's executor
    pc,        \* pc[j]: the step that handles job j next
    owner,     \* owner[j]: the process that accepted j, 0 for none
    node,      \* node[j]: the workflow node j is at
    attempt,   \* attempt[j]: the insert_report attempt j is at
    reason,    \* reason[j]: the error_type about to be written for j
    faults     \* number of Supabase calls that went wrong so far

rowVars  == <<row, reports, faults>>
procVars == <<phase, orphans>>
runVars  == <<node, attempt, reason>>
vars     == <<row, reports, phase, orphans, queue, pc, owner, node, attempt,
              reason, faults>>

-----------------------------------------------------------------------------
(* Types                                                                   *)

Procs    == 1..MaxProcs
Nodes    == 1..LastNode
Statuses == {"NONE", "PENDING", "RUNNING", "COMPLETE", "FAILED"}
Terminal == {"COMPLETE", "FAILED"}
Phases   == {"down", "listing", "recovering", "serving", "draining", "exited"}

\* error_type of a failed job. "BlankReason" is a FatalNodeError whose reason,
\* the str() of the exception a node caught, is the empty string.
RunErrors == NodeFailureKinds \union {"OrchestratorSetupError"}
Errors    == RunErrors \union {"none", "OrphanedJobError"}

\* The columns a property tells apart. stage is the number of the node whose
\* WorkflowStatus current_stage names, 0 for NULL; report, started and completed
\* say whether report_id, started_at and completed_at are "set" or "null"; error stands for
\* error_type and error_message, which are always written together.
Column == {"null", "set"}
Row == [status : Statuses, stage : 0..LastNode, report : Column,
        error : Errors, started : Column, completed : Column]

NoRow == [status |-> "NONE", stage |-> 0, report |-> "null", error |-> "none",
          started |-> "null", completed |-> "null"]

\* How a call to Supabase ends for its caller.
Outcomes == {"returned", "raised"}

\* Steps of AnalysisOrchestrator.run, which occupies a worker thread.
Working == {"mark", "stage", "node", "insert", "complete", "fail"}
\* A job its server still has in hand.
Held == Working \union {"created", "queued"}
\* Where a job ends: "done" when its last write returned, "gaveup" when that
\* write raised, "rejected" when POST /jobs answered 500, "lost" when its
\* server was killed.
Over == {"done", "gaveup", "rejected", "lost"}
PCs  == Held \union Over \union {"new"}

TypeOK ==
    /\ row \in [Jobs -> Row]
    /\ reports \subseteq Jobs
    /\ phase \in [Procs -> Phases]
    /\ orphans \in [Procs -> SUBSET Jobs]
    /\ queue \in [Procs -> Seq(Jobs)]
    /\ pc \in [Jobs -> PCs]
    /\ owner \in [Jobs -> 0..MaxProcs]
    /\ node \in [Jobs -> Nodes]
    /\ attempt \in [Jobs -> 1..MaxAttempts]
    /\ reason \in [Jobs -> RunErrors \union {"none"}]
    /\ faults \in 0..MaxFaults

-----------------------------------------------------------------------------
(* Supabase                                                                *)

\* The rows that the updates of job j leave: each names the columns it sets.
Started(j)   == [row[j] EXCEPT !.status = "RUNNING", !.started = "set"]
AtNextStage(j) == [row[j] EXCEPT !.stage = node[j] + 1]          \* mutant
AtStage(j)   == [row[j] EXCEPT !.stage = node[j]]
Completed(j) == [row[j] EXCEPT !.status = "COMPLETE", !.report = "set",
                               !.completed = "set"]
FailedUndated(j) == [row[j] EXCEPT !.status = "FAILED", !.error = reason[j]] \* mutant
Failed(j)    == [row[j] EXCEPT !.status = "FAILED", !.error = reason[j],
                               !.completed = "set"]
Orphaned(j)  == [row[j] EXCEPT !.status = "FAILED", !.error = "OrphanedJobError",
                               !.completed = "set"]

\* The CHECK constraints of the jobs table: a COMPLETE row has a report_id, a
\* FAILED row a non-empty error_message.
Accepts(r) == /\ r.status = "COMPLETE" => r.report = "set"
              /\ r.status = "FAILED"   => r.error \notin {"none", "BlankReason"}

\* A call to Supabase that writes row r for job j: applied and returned, or
\* refused by a constraint, or gone wrong with the write applied or not.
Write(j, r, out) ==
    \/ /\ Accepts(r)
       /\ row' = [row EXCEPT ![j] = r]
       /\ out = "returned"
       /\ UNCHANGED faults
    \/ /\ ~Accepts(r)
       /\ out = "raised"
       /\ UNCHANGED <<row, faults>>
    \/ /\ faults < MaxFaults
       /\ faults' = faults + 1
       /\ out = "raised"
       /\ \/ UNCHANGED row
          \/ Accepts(r) /\ row' = [row EXCEPT ![j] = r]

\* insert_job: the row a new JobRecord serialises to.
InsertRow(j, out) ==
    Write(j, [NoRow EXCEPT !.status = "PENDING"], out)

\* update_job: an UPDATE by job_id alone, whatever the status of the row is. No
\* row matching raises JobNotFoundError.
UpdateRow(j, r, out) ==
    \/ row[j].status # "NONE" /\ Write(j, r, out)
    \/ row[j].status = "NONE" /\ out = "raised" /\ UNCHANGED <<row, faults>>

\* insert_report: an upsert on report_id, repeatable. The report refers to its
\* job row by a foreign key.
UpsertReport(j, out) ==
    \/ /\ row[j].status # "NONE"
       /\ reports' = reports \union {j}
       /\ out = "returned"
       /\ UNCHANGED faults
    \/ /\ row[j].status = "NONE"
       /\ out = "raised"
       /\ UNCHANGED <<reports, faults>>
    \/ /\ faults < MaxFaults
       /\ faults' = faults + 1
       /\ out = "raised"
       /\ \/ UNCHANGED reports
          \/ row[j].status # "NONE" /\ reports' = reports \union {j}

-----------------------------------------------------------------------------
(* Server processes: lifespan, recovery, shutdown, crash                   *)

\* Mutant: the next server never waits for its predecessor's workers.
StartProcessEarly(p) ==
    /\ phase[p] = "down"
    /\ p > 1 => phase[p-1] \in {"draining", "exited"}
    /\ phase' = [phase EXCEPT ![p] = "listing"]
    /\ UNCHANGED <<rowVars, orphans, queue, pc, owner, runVars>>

\* A server starts once its predecessor has exited, or, with Overlap, once the
\* predecessor is past its lifespan: shutdown(wait=False) lets that one's workers
\* go on while the port is already free.
StartProcess(p) ==
    /\ phase[p] = "down"
    /\ \/ p = 1
       \/ p > 1 /\ phase[p-1] = "exited"
       \/ p > 1 /\ Overlap /\ phase[p-1] = "draining"
    /\ phase' = [phase EXCEPT ![p] = "listing"]
    /\ UNCHANGED <<rowVars, orphans, queue, pc, owner, runVars>>

\* Mutant: the PENDING rows are listed.
ListPending(p) ==
    /\ phase[p] = "listing"
    /\ LET pending == {j \in Jobs : row[j].status = "PENDING"} IN
          /\ orphans' = [orphans EXCEPT ![p] = pending]
          /\ phase' = [phase EXCEPT ![p] =
                          IF pending = {} THEN "serving" ELSE "recovering"]
    /\ UNCHANGED <<rowVars, queue, pc, owner, runVars>>

\* recover_orphaned_jobs, first half: list the RUNNING rows. When the list fails
\* lifespan logs it and the server starts regardless.
ListOrphans(p) ==
    /\ phase[p] = "listing"
    /\ \/ LET running == {j \in Jobs : row[j].status = "RUNNING"} IN
          /\ orphans' = [orphans EXCEPT ![p] = running]
          /\ phase' = [phase EXCEPT ![p] =
                          IF running = {} THEN "serving" ELSE "recovering"]
          /\ UNCHANGED faults
       \/ /\ faults < MaxFaults
          /\ faults' = faults + 1
          /\ phase' = [phase EXCEPT ![p] = "serving"]
          /\ UNCHANGED orphans
    /\ UNCHANGED <<row, reports, queue, pc, owner, runVars>>

\* Mutant: the UPDATE lacks its status condition.
RecoverAnyRow(j) == row' = [row EXCEPT ![j] = Orphaned(j)]

\* The conditional UPDATE ... WHERE job_id = j AND status = 'RUNNING'.
RecoverRow(j) ==
    row' = [row EXCEPT ![j] = IF row[j].status = "RUNNING" THEN Orphaned(j) ELSE @]

\* recover_orphaned_jobs, second half, one listed job at a time. An APIError
\* skips the job, any other exception ends the recovery.
RecoverOrphan(p, j) ==
    /\ phase[p] = "recovering"
    /\ j \in orphans[p]
    /\ \/ RecoverRow(j) /\ UNCHANGED faults
       \/ /\ faults < MaxFaults
          /\ faults' = faults + 1
          /\ RecoverRow(j) \/ UNCHANGED row
    /\ \E left \in {orphans[p] \ {j}, {}} :
          /\ left # orphans[p] \ {j} => faults' # faults
          /\ orphans' = [orphans EXCEPT ![p] = left]
          /\ phase' = [phase EXCEPT ![p] =
                          IF left = {} THEN "serving" ELSE "recovering"]
    /\ UNCHANGED <<reports, queue, pc, owner, runVars>>

\* Lifespan teardown: shutdown_executor. Handlers run on the event loop without
\* an await, so none is between insert_job and submit.
Shutdown(p) ==
    /\ phase[p] = "serving"
    /\ \A j \in Jobs : ~(owner[j] = p /\ pc[j] = "created")
    /\ phase' = [phase EXCEPT ![p] = "draining"]
    /\ UNCHANGED <<rowVars, orphans, queue, pc, owner, runVars>>

\* The interpreter joins the worker threads, which drain the queue first.
Exit(p) ==
    /\ phase[p] = "draining"
    /\ \A j \in Jobs : owner[j] = p => pc[j] \notin Held
    /\ phase' = [phase EXCEPT ![p] = "exited"]
    /\ UNCHANGED <<rowVars, orphans, queue, pc, owner, runVars>>

\* The process is killed. The last one allowed by MaxProcs is not.
Crash(p) ==
    /\ phase[p] \notin {"down", "exited"}
    /\ p < MaxProcs
    /\ phase' = [phase EXCEPT ![p] = "exited"]
    /\ orphans' = [orphans EXCEPT ![p] = {}]
    /\ queue' = [queue EXCEPT ![p] = <<>>]
    /\ pc' = [j \in Jobs |-> IF owner[j] = p /\ pc[j] \in Held THEN "lost" ELSE pc[j]]
    /\ UNCHANGED <<rowVars, owner, runVars>>

-----------------------------------------------------------------------------
(* POST /jobs: create_job, then executor.submit                            *)

\* One handler of a process runs at a time: it blocks the event loop.
InsertJob(p, j) ==
    /\ phase[p] = "serving"
    /\ pc[j] = "new"
    /\ \A i \in Jobs : ~(owner[i] = p /\ pc[i] = "created")
    /\ \E out \in Outcomes :
          /\ InsertRow(j, out)
          /\ pc' = [pc EXCEPT ![j] = IF out = "raised" THEN "rejected" ELSE "created"]
    /\ owner' = [owner EXCEPT ![j] = p]
    /\ UNCHANGED <<reports, procVars, queue, runVars>>

SubmitJob(j) ==
    /\ pc[j] = "created"
    /\ queue' = [queue EXCEPT ![owner[j]] = Append(@, j)]
    /\ pc' = [pc EXCEPT ![j] = "queued"]
    /\ UNCHANGED <<rowVars, procVars, owner, runVars>>

-----------------------------------------------------------------------------
(* A worker thread: AnalysisOrchestrator.run                               *)

Busy(p) == {j \in Jobs : owner[j] = p /\ pc[j] \in Working}

\* Mutant: shutdown cancels the queue, and nobody settles its jobs.
PickUpServing(p) ==
    /\ phase[p] = "serving"
    /\ queue[p] # <<>>
    /\ Cardinality(Busy(p)) < MaxWorkers
    /\ pc' = [pc EXCEPT ![Head(queue[p])] = "mark"]
    /\ queue' = [queue EXCEPT ![p] = Tail(@)]
    /\ UNCHANGED <<rowVars, procVars, owner, runVars>>

PickUp(p) ==
    /\ phase[p] \in {"serving", "draining"}
    /\ queue[p] # <<>>
    /\ Cardinality(Busy(p)) < MaxWorkers
    /\ pc' = [pc EXCEPT ![Head(queue[p])] = "mark"]
    /\ queue' = [queue EXCEPT ![p] = Tail(@)]
    /\ UNCHANGED <<rowVars, procVars, owner, runVars>>

\* Mutant: the update to RUNNING is best effort too.
MarkRunningBestEffort(j) ==
    /\ pc[j] = "mark"
    /\ \E out \in Outcomes : UpdateRow(j, Started(j), out)
    /\ pc' = [pc EXCEPT ![j] = "stage"]
    /\ UNCHANGED <<reports, procVars, queue, owner, runVars>>

\* Step 1: status RUNNING, or give up on the workflow.
MarkRunning(j) ==
    /\ pc[j] = "mark"
    /\ \E out \in Outcomes :
          /\ UpdateRow(j, Started(j), out)
          /\ pc' = [pc EXCEPT ![j] = IF out = "raised" THEN "fail" ELSE "stage"]
          /\ reason' = [reason EXCEPT ![j] = IF out = "raised" THEN "OrchestratorSetupError" ELSE @]
    /\ UNCHANGED <<reports, procVars, queue, owner, node, attempt>>

\* Mutant: the last node is taken for one of the others.
WriteStageOnly(j) ==
    /\ pc[j] = "stage"
    /\ \E out \in Outcomes : UpdateRow(j, AtStage(j), out)
    /\ pc' = [pc EXCEPT ![j] = "node"]
    /\ UNCHANGED <<reports, procVars, queue, owner, runVars>>

\* _attempt_stage_update: best effort, then the node it names runs.
WriteStage(j) ==
    /\ pc[j] = "stage"
    /\ \E out \in Outcomes : UpdateRow(j, AtStage(j), out)
    /\ pc' = [pc EXCEPT ![j] = IF node[j] = LastNode THEN "insert" ELSE "node"]
    /\ UNCHANGED <<reports, procVars, queue, owner, runVars>>

\* A node of the graph returns, and its successor is next.
NodeReturns(j) ==
    /\ pc[j] = "node"
    /\ node' = [node EXCEPT ![j] = @ + 1]
    /\ pc' = [pc EXCEPT ![j] = "stage"]
    /\ UNCHANGED <<rowVars, procVars, queue, owner, attempt, reason>>

\* A node raises. PersistenceNode can do so before its first write, with an
\* exception that is none of the three it handles.
NodeRaises(j) ==
    /\ \E kind \in NodeFailures :
          /\ \/ pc[j] = "node"
             \/ pc[j] = "insert" /\ attempt[j] = 1 /\ kind = "Unexpected"
          /\ reason' = [reason EXCEPT ![j] = kind]
    /\ pc' = [pc EXCEPT ![j] = "fail"]
    /\ UNCHANGED <<rowVars, procVars, queue, owner, node, attempt>>

\* Mutant: a failed insert_report does not stop the run.
InsertReportOnce(j) ==
    /\ pc[j] = "insert"
    /\ \E out \in Outcomes : UpsertReport(j, out)
    /\ pc' = [pc EXCEPT ![j] = "complete"]
    /\ UNCHANGED <<row, procVars, queue, owner, runVars>>

\* _insert_report_with_retry, one attempt: exhaustion is fatal.
InsertReport(j) ==
    /\ pc[j] = "insert"
    /\ \E out \in Outcomes :
          /\ UpsertReport(j, out)
          /\ \/ /\ out = "returned"
                /\ pc' = [pc EXCEPT ![j] = "complete"]
                /\ UNCHANGED <<attempt, reason>>
             \/ /\ out = "raised" /\ attempt[j] < MaxAttempts
                /\ attempt' = [attempt EXCEPT ![j] = @ + 1]
                /\ UNCHANGED <<pc, reason>>
             \/ /\ out = "raised" /\ attempt[j] = MaxAttempts
                /\ pc' = [pc EXCEPT ![j] = "fail"]
                /\ reason' = [reason EXCEPT ![j] = "FatalNodeError"]
                /\ UNCHANGED attempt
    /\ UNCHANGED <<row, procVars, queue, owner, node>>

\* Mutant: nobody looks whether the last write raised.
LastWriteUnchecked(j, r) ==
    /\ \E out \in Outcomes : UpdateRow(j, r, out)
    /\ pc' = [pc EXCEPT ![j] = "done"]
    /\ UNCHANGED <<reports, procVars, queue, owner, runVars>>

\* The run's last write: it raises into a log line, and the run is over.
LastWrite(j, r) ==
    /\ \E out \in Outcomes :
          /\ UpdateRow(j, r, out)
          /\ pc' = [pc EXCEPT ![j] = IF out = "raised" THEN "gaveup" ELSE "done"]
    /\ UNCHANGED <<reports, procVars, queue, owner, runVars>>

\* _update_job_complete: whatever it raises is non-fatal in PersistenceNode.
MarkComplete(j) ==
    /\ pc[j] = "complete"
    /\ LastWrite(j, Completed(j))

\* _attempt_fail_update.
MarkFailed(j) ==
    /\ pc[j] = "fail"
    /\ LastWrite(j, Failed(j))

-----------------------------------------------------------------------------

Init ==
    /\ row = [j \in Jobs |-> NoRow]
    /\ reports = {}
    /\ phase = [p \in Procs |-> "down"]
    /\ orphans = [p \in Procs |-> {}]
    /\ queue = [p \in Procs |-> <<>>]
    /\ pc = [j \in Jobs |-> "new"]
    /\ owner = [j \in Jobs |-> 0]
    /\ node = [j \in Jobs |-> 1]
    /\ attempt = [j \in Jobs |-> 1]
    /\ reason = [j \in Jobs |-> "none"]
    /\ faults = 0

Startup(p)    == StartProcess(p) \/ ListOrphans(p)
                 \/ \E j \in Jobs : RecoverOrphan(p, j)
Disruption(p) == Shutdown(p) \/ Crash(p)
Worker(j)     == \/ MarkRunning(j)
                 \/ WriteStage(j)
                 \/ NodeReturns(j)
                 \/ NodeRaises(j)
                 \/ InsertReport(j)
                 \/ MarkComplete(j)
                 \/ MarkFailed(j)

Next == \/ \E p \in Procs : \/ Startup(p)
                            \/ Disruption(p)
                            \/ Exit(p)
                            \/ PickUp(p)
                            \/ \E j \in Jobs : InsertJob(p, j)
        \/ \E j \in Jobs : SubmitJob(j) \/ Worker(j)

Spec == Init /\ [][Next]_vars

\* What the scheduling of the code and of its host guarantees: a server that is
\* down is started again, its lifespan runs, handlers finish, idle workers take
\* queued jobs, a run goes on, and a drained process exits. Clients need not
\* submit, and nothing need be shut down or crash. NodeRaises has no fairness of
\* its own: a node that runs returns or raises.
FairSpec ==
    /\ Spec
    /\ \A p \in Procs : /\ WF_vars(Startup(p))
                        /\ WF_vars(Exit(p))
                        /\ WF_vars(PickUp(p))
    /\ \A j \in Jobs : WF_vars(SubmitJob(j)) /\ WF_vars(Worker(j))

-----------------------------------------------------------------------------
(* Properties                                                              *)

\* A job reported COMPLETE has its report saved, so the GET /reports/{report_id}
\* that a client issues next finds it: jobs.report_id has no foreign key, only
\* the order of PersistenceService.run's two writes, across retries, lost
\* responses and a recovery by another process, makes this true.
CompleteHasReport ==
    \A j \in Jobs : row[j].status = "COMPLETE" => j \in reports

\* What JobRecord's validators demand of a row, which are never run on an update:
\* whichever writes got through and in whatever order, report_id is set on
\* COMPLETE alone, an error on FAILED, completed_at on both and on neither of the
\* other two, and started_at from RUNNING on.
RowIntegrity ==
    \A j \in Jobs : LET r == row[j] IN
        /\ r.report = "set" <=> r.status = "COMPLETE"
        /\ r.status = "FAILED" => r.error # "none"
        /\ r.status \in {"NONE", "PENDING", "RUNNING"} => r.error = "none"
        /\ r.completed = "set" <=> r.status \in Terminal
        /\ r.status \in {"NONE", "PENDING"} => r.started = "null"
        /\ r.status \in {"RUNNING", "COMPLETE"} => r.started = "set"

\* A row that is not terminal has somebody who will settle it, or one of the
\* known reasons why not: the POST was answered 500, the run's last write raised,
\* or the server was killed. A run that ends normally never leaves its job hanging.
NoSilentStall ==
    \A j \in Jobs : row[j].status \in {"PENDING", "RUNNING"}
        => pc[j] \in Held \union {"rejected", "gaveup", "lost"}

\* current_stage, which the dashboard turns into a percentage, never names a
\* workflow node that is not running yet, however many stage writes were lost.
StageNotAhead ==
    \A j \in Jobs : /\ row[j].stage <= node[j]
                    /\ row[j].stage > 0 => row[j].started = "set"

\* A job a live server still has in hand is not declared an orphan: recovery
\* finishes before a server takes requests and starts after its predecessor is
\* gone. Holds without Overlap only.
RecoverySparesLiveJobs ==
    [][\A j \in Jobs : row'[j].error = "OrphanedJobError" /\ row[j] # row'[j]
                         => pc[j] \notin Held]_vars

\* A COMPLETE job stays COMPLETE, even while a second server recovers orphans
\* from a stale list and the first is still running jobs: the client already
\* holds the report's id.
CompleteIsFinal ==
    [][\A j \in Jobs : row[j].status = "COMPLETE" => row'[j] = row[j]]_vars

\* What a client sees of the rows.
Status == [j \in Jobs |-> row[j].status]

Contract == INSTANCE JobContract WITH status <- Status, LateCompletion <- Overlap

\* The rows implement the documented life cycle; with Overlap, its weaker form.
ImplementsContract == Contract!Spec

\* JobStatus: "COMPLETE and FAILED are terminal states. No further transitions
\* allowed." What two overlapping servers do not keep.
TerminalIsFinal ==
    [][\A j \in Jobs : row[j].status \in Terminal
                         => row'[j].status = row[j].status]_vars

\* AnalysisOrchestrator.run: "All exceptions are caught, logged, and translated into
\* a Supabase FAILED status update." Even when every call to Supabase succeeds, a
\* node whose exception has no text leaves its job RUNNING.
FailuresAreReported ==
    \A j \in Jobs : pc[j] \in {"done", "gaveup"} /\ faults = 0
                      => row[j].status \in Terminal

\* A row RUNNING is settled in the end, whoever is killed, as long as a server is
\* started again and Supabase answers: that is what orphan recovery is for.
RunningIsSettled ==
    \A j \in Jobs : (row[j].status = "RUNNING") ~> (row[j].status \in Terminal)

\* A submitted job is settled in the end unless its server is killed: shutdown
\* drains the queue, and no run starves behind the others.
SubmittedIsSettled ==
    \A j \in Jobs : (pc[j] = "created")
                      ~> (row[j].status \in Terminal \/ pc[j] = "lost")

\* A client that was answered 202 and polls until the job is terminal stops
\* polling some day. A server killed with jobs in its queue leaves them PENDING.
PollingEnds ==
    \A j \in Jobs : (row[j].status = "PENDING") ~> (row[j].status \in Terminal)

=============================================================================
