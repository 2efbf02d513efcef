----------------------------- MODULE AnalysisRun -----------------------------
(***************************************************************************)
(* The runs of the analysis workflow inside one server process: the worker *)
(* threads, the LangGraph graph with its eight nodes and the AnalysisState *)
(* it passes along, the thread that clones the repository under a timeout, *)
(* and the clone's temporary directory, which IngestNode creates and       *)
(* ParseNode deletes.                                                      *)
(*                                                                         *)
(* JobLifecycle shows the same runs from the outside, with the writes to   *)
(* Supabase; here those are left out and the nodes are opened.             *)
(***************************************************************************)
EXTENDS Naturals, Sequences, FiniteSets

CONSTANTS
    Runs,        \* the runs submitted to the executor
    MaxWorkers   \* max_workers of the executor (settings.max_concurrent_jobs)

ASSUME MaxWorkersAssumption == MaxWorkers \in Nat \ {0}

VARIABLES
    pc,       \* pc[r]: the step the worker of run r is at
    at,       \* at[r]: position of the current node in NodeOrder
    clone,    \* clone[r]: the thread, and its git process, that clones for r
    disk,     \* disk[r]: what the clone directory of r holds
    leaked,   \* the runs whose directory rmtree could not remove
    fields,   \* fields[r]: the output fields of AnalysisState that are not None
    status,   \* status[r]: workflow_status
    log,      \* log[r]: status of each node's record in node_execution_log
    errors,   \* errors[r]: the errors list
    stage     \* stage[r]: the last current_stage the orchestrator announced

dirVars   == <<clone, disk, leaked>>
stateVars == <<fields, status, log, errors>>
vars      == <<pc, at, dirVars, stateVars, stage>>

-----------------------------------------------------------------------------
(* The graph and what its nodes read and write                             *)

NodeOrder == <<"ingest_node", "parse_node", "architecture_analysis_node",
               "security_analysis_node", "rag_retrieval_node",
               "recommendation_node", "report_generation_node",
               "persistence_node">>

NodeNames == {NodeOrder[i] : i \in DOMAIN NodeOrder}

Sections == {"architecture_section", "security_section"}

\* Mutant: RecommendationNode insists on the context of the RAG node.
RequiresContext ==
    [ingest_node                |-> {},
     parse_node                 |-> {"repository_manifest"},
     architecture_analysis_node |-> {"parsed_code_representation"},
     security_analysis_node     |-> {"parsed_code_representation"},
     rag_retrieval_node         |-> Sections,
     recommendation_node        |-> Sections \union {"rag_context"},
     report_generation_node     |-> Sections \union {"recommendations_section"},
     persistence_node           |-> {"final_report"}]

\* The fields each node demands with require_field: parse_node.py:57,
\* architecture_node.py:79, security_node.py:78, rag_node.py:84,
\* recommendation_node.py:81, report_node.py:67, persistence_node.py:83.
Requires ==
    [ingest_node                |-> {},
     parse_node                 |-> {"repository_manifest"},
     architecture_analysis_node |-> {"parsed_code_representation"},
     security_analysis_node     |-> {"parsed_code_representation"},
     rag_retrieval_node         |-> Sections,
     recommendation_node        |-> Sections,
     report_generation_node     |-> Sections \union
                                      {"recommendations_section",
                                       "repository_manifest",
                                       "parsed_code_representation"},
     persistence_node           |-> {"final_report"}]

\* The fields each node returns when it succeeds.
Provides ==
    [ingest_node                |-> {"repository_manifest"},
     parse_node                 |-> {"parsed_code_representation"},
     architecture_analysis_node |-> {"architecture_section"},
     security_analysis_node     |-> {"security_section"},
     rag_retrieval_node         |-> {"rag_context"},
     recommendation_node        |-> {"recommendations_section"},
     report_generation_node     |-> {"final_report", "final_report_markdown"},
     persistence_node           |-> {}]

\* Mutant: the report node announces what its docstring says.
ReportCompletes ==
    [ingest_node                |-> "PARSING",
     parse_node                 |-> "ANALYZING_ARCHITECTURE",
     architecture_analysis_node |-> "ANALYZING_SECURITY",
     security_analysis_node     |-> "RETRIEVING_RAG",
     rag_retrieval_node         |-> "SYNTHESIZING",
     recommendation_node        |-> "ASSEMBLING",
     report_generation_node     |-> "COMPLETE",
     persistence_node           |-> "COMPLETE"]

\* The workflow_status each node returns: ingest_node.py:74, parse_node.py:83,
\* architecture_node.py:106, security_node.py:103, rag_node.py:140,
\* recommendation_node.py:117, report_node.py:114, persistence_node.py:161.
StatusAfter ==
    [ingest_node                |-> "PARSING",
     parse_node                 |-> "ANALYZING_ARCHITECTURE",
     architecture_analysis_node |-> "ANALYZING_SECURITY",
     security_analysis_node     |-> "RETRIEVING_RAG",
     rag_retrieval_node         |-> "SYNTHESIZING",
     recommendation_node        |-> "ASSEMBLING",
     report_generation_node     |-> "PERSISTING",
     persistence_node           |-> "COMPLETE"]

\* Mutant: a stage that is no WorkflowStatus.
MisspelledStage ==
    [ingest_node                |-> "PARSING",
     parse_node                 |-> "ANALYZING_ARCHITECTURE",
     architecture_analysis_node |-> "ANALYZING_SECURITY",
     security_analysis_node     |-> "RETRIEVING",
     rag_retrieval_node         |-> "SYNTHESIZING",
     recommendation_node        |-> "ASSEMBLING",
     report_generation_node     |-> "PERSISTING"]

\* _NEXT_STAGE_MAP of the orchestrator, a table of strings of its own.
NextStage ==
    [ingest_node                |-> "PARSING",
     parse_node                 |-> "ANALYZING_ARCHITECTURE",
     architecture_analysis_node |-> "ANALYZING_SECURITY",
     security_analysis_node     |-> "RETRIEVING_RAG",
     rag_retrieval_node         |-> "SYNTHESIZING",
     recommendation_node        |-> "ASSEMBLING",
     report_generation_node     |-> "PERSISTING"]

\* The stages in the order of their percentages on the job page.
StageOrder == <<"INGESTING", "PARSING", "ANALYZING_ARCHITECTURE", "ANALYZING_SECURITY",
                "RETRIEVING_RAG", "SYNTHESIZING", "ASSEMBLING", "PERSISTING">>

-----------------------------------------------------------------------------
(* Types                                                                   *)

\* The steps of a worker inside IngestNode's clone, and all of its steps.
Cloning == {"clone", "join"}
Working == Cloning \union {"enter", "submit", "check", "clean", "work", "sweep", "stage"}
Over    == {"returned", "raised", "killed"}
PCs     == Working \union Over \union {"queued"}

CloneStates == {"none", "running", "cloned", "failed"}
DiskStates  == {"absent", "empty", "partial", "whole"}
LogStates   == {"none", "RUNNING", "COMPLETE", "FAILED"}
AllFields   == UNION {Provides[n] : n \in NodeNames}
WorkflowStatuses == {"INITIALIZED", "INGESTING", "PARSING", "ANALYZING_ARCHITECTURE",
                     "ANALYZING_SECURITY", "RETRIEVING_RAG", "SYNTHESIZING",
                     "ASSEMBLING", "PERSISTING", "COMPLETE", "FAILED"}

\* A WorkflowError: severity stands for is_fatal.
ErrorRecords == [node : NodeNames, severity : {"fatal", "nonfatal"}]

TypeOK ==
    /\ pc \in [Runs -> PCs]
    /\ at \in [Runs -> DOMAIN NodeOrder]
    /\ clone \in [Runs -> CloneStates]
    /\ disk \in [Runs -> DiskStates]
    /\ leaked \subseteq Runs
    /\ fields \in [Runs -> SUBSET AllFields]
    /\ status \in [Runs -> WorkflowStatuses]
    /\ log \in [Runs -> [NodeNames -> LogStates]]
    /\ errors \in [Runs -> Seq(ErrorRecords)]
    /\ stage \in [Runs -> WorkflowStatuses \union {"NULL"}]

Node(r) == NodeOrder[at[r]]

-----------------------------------------------------------------------------
(* Steps that the nodes have in common                                     *)

Goto(r, step) == pc' = [pc EXCEPT ![r] = step]

\* _complete_execution: the node's record in the audit log.
Record(r, result) == log' = [log EXCEPT ![r][Node(r)] = result]

\* append_workflow_error.
AppendError(r, severity) ==
    errors' = [errors EXCEPT ![r] = Append(@, [node |-> Node(r), severity |-> severity])]

\* The partial state a node returns: its output, if it has one, and its status.
Return(r, output) ==
    /\ fields' = [fields EXCEPT ![r] = @ \union output]
    /\ status' = [status EXCEPT ![r] = StatusAfter[Node(r)]]
    /\ Goto(r, "stage")

\* The except clause of a node whose failures are fatal: FatalNodeError reaches
\* the orchestrator, the partial state of the node is lost.
RaiseFatal(r) ==
    /\ AppendError(r, "fatal")
    /\ Record(r, "FAILED")
    /\ UNCHANGED <<fields, status>>

\* shutil.rmtree(..., ignore_errors=True): may fail without a word.
RemoveDir(r) ==
    \/ disk' = [disk EXCEPT ![r] = "absent"] /\ UNCHANGED leaked
    \/ leaked' = leaked \union {r} /\ UNCHANGED disk

-----------------------------------------------------------------------------
(* The executor and the orchestrator's loop over the graph                 *)

\* Mutant: the thread of a run that raised is lost to the pool.
OccupiedForGood == {r \in Runs : pc[r] \in Working \union {"raised"}}

Occupied == {r \in Runs : pc[r] \in Working}

\* A worker takes a run, whichever: create_initial_state, current_stage INGESTING.
PickUp(r) ==
    /\ pc[r] = "queued"
    /\ Cardinality(Occupied) < MaxWorkers
    /\ Goto(r, "enter")
    /\ stage' = [stage EXCEPT ![r] = "INGESTING"]
    /\ UNCHANGED <<at, dirVars, stateVars>>

\* A node starts: require_field, before anything is recorded, then
\* begin_node_execution.
Enter(r) ==
    /\ pc[r] = "enter"
    /\ \/ /\ Requires[Node(r)] \subseteq fields[r]
          /\ Record(r, "RUNNING")
          /\ Goto(r, IF Node(r) = "ingest_node" THEN "submit" ELSE "work")
       \/ /\ ~(Requires[Node(r)] \subseteq fields[r])
          /\ Goto(r, "raised")
          /\ UNCHANGED log
    /\ UNCHANGED <<at, dirVars, fields, status, errors, stage>>

\* The stream yields the chunk of the node that returned: the orchestrator
\* announces the next stage, and the graph goes on to its successor or to END.
YieldChunk(r) ==
    /\ pc[r] = "stage"
    /\ stage' = [stage EXCEPT ![r] =
                    IF Node(r) \in DOMAIN NextStage THEN NextStage[Node(r)] ELSE @]
    /\ \/ /\ at[r] < Len(NodeOrder)
          /\ at' = [at EXCEPT ![r] = @ + 1]
          /\ Goto(r, "enter")
       \/ /\ at[r] = Len(NodeOrder)
          /\ Goto(r, "returned")
          /\ UNCHANGED at
    /\ UNCHANGED <<dirVars, stateVars>>

-----------------------------------------------------------------------------
(* IngestNode: IngestionService.run and its clone thread                   *)

\* mkdtemp, and the clone starts in a thread of its own.
SubmitClone(r) ==
    /\ pc[r] = "submit"
    /\ disk' = [disk EXCEPT ![r] = "empty"]
    /\ clone' = [clone EXCEPT ![r] = "running"]
    /\ Goto(r, "clone")
    /\ UNCHANGED <<at, leaked, stateVars, stage>>

\* The URL is no GitHub URL, or there is no room for a directory.
RefuseClone(r) ==
    /\ pc[r] = "submit"
    /\ RaiseFatal(r)
    /\ Goto(r, "raised")
    /\ UNCHANGED <<at, dirVars, stage>>

\* No thread can be started, as in a process that is exiting while it drains its
\* queue: submit raises, with the directory already there.
RefuseThread(r) ==
    /\ pc[r] = "submit"
    /\ disk' = [disk EXCEPT ![r] = "empty"]
    /\ Goto(r, "clean")
    /\ UNCHANGED <<at, clone, leaked, stateVars, stage>>

\* git writes into the directory, which it needs not find there.
CloneWrites(r) ==
    /\ clone[r] = "running"
    /\ disk' = [disk EXCEPT ![r] = "partial"]
    /\ UNCHANGED <<pc, at, clone, leaked, stateVars, stage>>

\* The clone thread ends. A git that fails removes what it wrote, unless it was
\* killed itself.
CloneEnds(r) ==
    /\ clone[r] = "running"
    /\ \/ /\ clone' = [clone EXCEPT ![r] = "cloned"]
          /\ disk' = [disk EXCEPT ![r] = "whole"]
       \/ /\ clone' = [clone EXCEPT ![r] = "failed"]
          /\ \E rest \in {"empty", disk[r]} : disk' = [disk EXCEPT ![r] = rest]
    /\ UNCHANGED <<pc, at, leaked, stateVars, stage>>

\* Mutant: a clone that failed goes unnoticed.
ForgiveClone(r) ==
    /\ pc[r] = "clone"
    /\ clone[r] # "running"
    /\ Goto(r, "check")
    /\ UNCHANGED <<at, dirVars, stateVars, stage>>

\* future.result returns, or raises what the clone raised.
AwaitClone(r) ==
    /\ pc[r] = "clone"
    /\ \/ clone[r] = "cloned" /\ Goto(r, "check")
       \/ clone[r] = "failed" /\ Goto(r, "clean")
    /\ UNCHANGED <<at, dirVars, stateVars, stage>>

\* Mutant: the pool of the clone thread is not left through its context manager.
AbandonClone(r) ==
    /\ pc[r] = "clone"
    /\ clone[r] = "running"
    /\ Goto(r, "clean")
    /\ UNCHANGED <<at, dirVars, stateVars, stage>>

\* future.result times out. The CloneTimeoutError leaves the with statement of
\* the thread's executor, whose __exit__ waits for the thread.
TimeOut(r) ==
    /\ pc[r] = "clone"
    /\ clone[r] = "running"
    /\ Goto(r, "join")
    /\ UNCHANGED <<at, dirVars, stateVars, stage>>

JoinClone(r) ==
    /\ pc[r] = "join"
    /\ clone[r] # "running"
    /\ Goto(r, "clean")
    /\ UNCHANGED <<at, dirVars, stateVars, stage>>

\* The clone is small enough, has a commit, and its manifest is built.
AcceptClone(r) ==
    /\ pc[r] = "check"
    /\ Record(r, "COMPLETE")
    /\ Return(r, Provides[Node(r)])
    /\ UNCHANGED <<at, dirVars, errors, stage>>

RejectClone(r) ==
    /\ pc[r] = "check"
    /\ Goto(r, "clean")
    /\ UNCHANGED <<at, dirVars, stateVars, stage>>

\* The except clauses of IngestionService.run, then the one of IngestNode.
CleanUp(r) ==
    /\ pc[r] = "clean"
    /\ RemoveDir(r)
    /\ RaiseFatal(r)
    /\ Goto(r, "raised")
    /\ UNCHANGED <<at, clone, stage>>

-----------------------------------------------------------------------------
(* ParseNode, whose finally clause deletes the clone                       *)

\* Mutant: the directory is deleted on the way of success only.
ParseWithoutFinally(r) ==
    /\ pc[r] = "work"
    /\ Node(r) = "parse_node"
    /\ \/ /\ Record(r, "COMPLETE")
          /\ Goto(r, "sweep")
          /\ UNCHANGED <<fields, status, errors>>
       \/ RaiseFatal(r) /\ Goto(r, "raised")
    /\ UNCHANGED <<at, dirVars, stage>>

\* ParserService.run over the files of the clone. A file that cannot be read is
\* parsed as an empty one.
Parse(r) ==
    /\ pc[r] = "work"
    /\ Node(r) = "parse_node"
    /\ \/ Record(r, "COMPLETE") /\ UNCHANGED <<fields, status, errors>>
       \/ RaiseFatal(r)
    /\ Goto(r, "sweep")
    /\ UNCHANGED <<at, dirVars, stage>>

\* finally: _delete_clone, then the node's return or its exception goes on.
Sweep(r) ==
    /\ pc[r] = "sweep"
    /\ RemoveDir(r)
    /\ \/ log[r][Node(r)] = "COMPLETE" /\ Return(r, Provides[Node(r)])
       \/ log[r][Node(r)] = "FAILED" /\ Goto(r, "raised") /\ UNCHANGED <<fields, status>>
    /\ UNCHANGED <<at, clone, log, errors, stage>>

-----------------------------------------------------------------------------
(* The other nodes: one call to their service                              *)

Serving(r) == pc[r] = "work" /\ Node(r) # "parse_node"

ServiceReturns(r) ==
    /\ Serving(r)
    /\ Record(r, "COMPLETE")
    /\ Return(r, Provides[Node(r)])
    /\ UNCHANGED <<at, dirVars, errors, stage>>

\* Whatever the service raises is fatal, but not in the RAG node. In
\* PersistenceNode it is the PersistenceWriteError of insert_report.
ServiceFails(r) ==
    /\ Serving(r)
    /\ Node(r) # "rag_retrieval_node"
    /\ RaiseFatal(r)
    /\ Goto(r, "raised")
    /\ UNCHANGED <<at, dirVars, stage>>

\* The sections give no query: the RAG node has nothing to retrieve.
SkipRetrieval(r) ==
    /\ Serving(r)
    /\ Node(r) = "rag_retrieval_node"
    /\ Record(r, "COMPLETE")
    /\ Return(r, {})
    /\ UNCHANGED <<at, dirVars, errors, stage>>

\* Mutant: the record of the failed retrieval says COMPLETE.
RetrievalFailsUnseen(r) ==
    /\ Serving(r)
    /\ Node(r) = "rag_retrieval_node"
    /\ AppendError(r, "nonfatal")
    /\ Record(r, "COMPLETE")
    /\ Return(r, {})
    /\ UNCHANGED <<at, dirVars, stage>>

\* Retrieval fails: the run goes on without rag_context.
RetrievalFails(r) ==
    /\ Serving(r)
    /\ Node(r) = "rag_retrieval_node"
    /\ AppendError(r, "nonfatal")
    /\ Record(r, "FAILED")
    /\ Return(r, {})
    /\ UNCHANGED <<at, dirVars, stage>>

\* The job row could not be updated to COMPLETE: an error, but the node succeeds.
CompleteUnwritten(r) ==
    /\ Serving(r)
    /\ Node(r) = "persistence_node"
    /\ AppendError(r, "nonfatal")
    /\ Record(r, "COMPLETE")
    /\ Return(r, {})
    /\ UNCHANGED <<at, dirVars, stage>>

\* PersistenceNode handles three kinds of exception. Any other leaves it, with
\* its record RUNNING.
PersistenceEscapes(r) ==
    /\ Serving(r)
    /\ Node(r) = "persistence_node"
    /\ Goto(r, "raised")
    /\ UNCHANGED <<at, dirVars, stateVars, stage>>

-----------------------------------------------------------------------------

\* The server process is killed with its threads, not the git processes it started.
Kill ==
    /\ \E r \in Runs : pc[r] \notin Over
    /\ pc' = [r \in Runs |-> IF pc[r] \in Over THEN pc[r] ELSE "killed"]
    /\ UNCHANGED <<at, dirVars, stateVars, stage>>

Init ==
    /\ pc = [r \in Runs |-> "queued"]
    /\ at = [r \in Runs |-> 1]
    /\ clone = [r \in Runs |-> "none"]
    /\ disk = [r \in Runs |-> "absent"]
    /\ leaked = {}
    /\ fields = [r \in Runs |-> {}]
    /\ status = [r \in Runs |-> "INITIALIZED"]
    /\ log = [r \in Runs |-> [n \in NodeNames |-> "none"]]
    /\ errors = [r \in Runs |-> <<>>]
    /\ stage = [r \in Runs |-> "NULL"]

Ingest(r)  == \/ SubmitClone(r) \/ RefuseThread(r) \/ RefuseClone(r)
              \/ AwaitClone(r) \/ TimeOut(r) \/ JoinClone(r)
              \/ AcceptClone(r) \/ RejectClone(r) \/ CleanUp(r)
Service(r) == \/ ServiceReturns(r) \/ ServiceFails(r)
              \/ SkipRetrieval(r) \/ RetrievalFails(r)
              \/ CompleteUnwritten(r) \/ PersistenceEscapes(r)
Worker(r)  == \/ PickUp(r) \/ Enter(r) \/ YieldChunk(r)
              \/ Ingest(r) \/ Parse(r) \/ Sweep(r) \/ Service(r)

Next == \/ \E r \in Runs : Worker(r) \/ CloneWrites(r) \/ CloneEnds(r)
        \/ Kill

Spec == Init /\ [][Next]_vars

\* Threads are scheduled, and every call a node makes to Gemini, Qdrant or
\* Supabase returns or raises, which is left to those services and their client
\* libraries. Of git nothing is assumed: clone_from sets no limit on it.
WorkerSpec == Spec /\ \A r \in Runs : WF_vars(Worker(r))

\* In addition every git clone ends some day.
FairSpec == WorkerSpec /\ \A r \in Runs : WF_vars(CloneEnds(r))

-----------------------------------------------------------------------------
(* Properties                                                              *)

\* No clone outlives the step of IngestNode that waits for it, timed out or not:
\* a directory is never deleted, or read, while git still writes into it. Only a
\* killed server leaves its git processes behind.
CloneConfined ==
    \A r \in Runs : clone[r] = "running" => pc[r] \in Cloning \union {"killed"}

\* The code of an analysed repository does not stay on the server's disk: on every
\* way out of IngestNode and ParseNode the directory is gone, before a model sees
\* the code. Left are directories rmtree failed to remove and those of a server
\* that was killed.
CloneDirRemoved ==
    \A r \in Runs :
        (pc[r] \in {"returned", "raised"} \/ (at[r] > 2 /\ pc[r] # "killed"))
            => disk[r] = "absent" \/ r \in leaked

\* The parser reads a whole clone: it takes what it cannot read for empty files,
\* and would turn a clone that is partial or gone into a plausible analysis.
ParseReadsWholeClone ==
    \A r \in Runs : pc[r] = "work" /\ Node(r) = "parse_node" => disk[r] = "whole"

\* No node misses an input, whichever nodes before it failed without ending the
\* run: NodeInputMissingError, which is raised before the node's record is begun,
\* is never seen.
InputsPresent ==
    \A r \in Runs : pc[r] = "raised" => log[r][Node(r)] # "none"

\* A node whose record is open, or whose failure ends the run.
InHand(r, n) == \/ log[r][n] = "RUNNING"
                \/ log[r][n] = "FAILED" /\ n # "rag_retrieval_node"

\* The stage that the job page shows tells the node: the i-th stage of the page is
\* announced before the i-th node begins its record, stays while that node runs,
\* for ParseNode through its finally clause, and is the one left on the page when
\* that node's failure ends the run. workflow_status in the state is the same but
\* in the first node, where it is still INITIALIZED (no node sets INGESTING), and
\* once the run returned, where it is COMPLETE. A killed run has no state.
StageTellsNode ==
    \A r \in Runs :
        /\ pc[r] = "enter" => stage[r] = StageOrder[at[r]]
        /\ pc[r] = "returned" => stage[r] = "PERSISTING" /\ status[r] = "COMPLETE"
        /\ \A i \in DOMAIN NodeOrder :
              pc[r] # "killed" /\ InHand(r, NodeOrder[i]) =>
                 /\ stage[r] = StageOrder[i]
                 /\ status[r] = IF i = 1 THEN "INITIALIZED" ELSE StageOrder[i]

\* The audit trail tells how a run ended. One that returned has every node
\* COMPLETE, but for a RAG node that FAILED with an error of its own, and no fatal
\* error; one that raised has one fatal error, its last, of the one node that
\* FAILED, unless an exception escaped PersistenceNode.
OutcomeIsRecorded ==
    \A r \in Runs :
        LET failed == {n \in NodeNames : log[r][n] = "FAILED"} \ {"rag_retrieval_node"}
            fatal  == {i \in DOMAIN errors[r] : errors[r][i].severity = "fatal"}
            erred  == {errors[r][i].node : i \in DOMAIN errors[r]}
        IN  /\ pc[r] \in {"returned", "raised"} =>
                  (log[r]["rag_retrieval_node"] = "FAILED"
                     <=> "rag_retrieval_node" \in erred)
            /\ pc[r] = "returned" =>
                  /\ failed = {} /\ fatal = {}
                  /\ \A n \in NodeNames \ {"rag_retrieval_node"} : log[r][n] = "COMPLETE"
            /\ pc[r] = "raised" =>
                  \/ failed = {Node(r)} /\ fatal = {Len(errors[r])}
                                        /\ errors[r][Len(errors[r])].node = Node(r)
                  \/ failed = {} /\ fatal = {} /\ Node(r) = "persistence_node"

\* Every run submitted ends, none waits for ever behind the others: a worker is
\* free again after a run whatever its outcome. It takes a git that ends.
EveryRunEnds == \A r \in Runs : (pc[r] = "queued") ~> (pc[r] \in Over)

\* "Clone repo into target_dir with a hard timeout": a worker that waits for a clone
\* goes on some day, whatever git does.
CloneTimeoutIsHard == \A r \in Runs : (pc[r] = "clone") ~> (pc[r] \notin Cloning)

=============================================================================
