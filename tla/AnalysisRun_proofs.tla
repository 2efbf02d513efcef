-------------------------- MODULE AnalysisRun_proofs --------------------------
(***************************************************************************)
(* What holds of AnalysisRun for any runs and any number of worker threads:*)
(* the clone directory, the inputs of the nodes and the announced stage,   *)
(* proved from the inductive invariant IInv; then what node_execution_log  *)
(* and the errors list say of a run at every step of it, and so what they  *)
(* say when it is over, from AuditInv.                                     *)
(***************************************************************************)
EXTENDS AnalysisRun, TLAPS

-----------------------------------------------------------------------------
(* The graph                                                               *)

LEMMA GraphShape ==
    /\ DOMAIN NodeOrder = 1..8
    /\ Len(NodeOrder) = 8
    /\ NodeNames = {"ingest_node", "parse_node", "architecture_analysis_node",
                    "security_analysis_node", "rag_retrieval_node",
                    "recommendation_node", "report_generation_node",
                    "persistence_node"}
    /\ \A i \in 1..8 : NodeOrder[i] \in NodeNames
  BY DEF NodeOrder, NodeNames

LEMMA NodePositions ==
    /\ NodeOrder[1] = "ingest_node"
    /\ NodeOrder[2] = "parse_node"
    /\ NodeOrder[3] = "architecture_analysis_node"
    /\ NodeOrder[4] = "security_analysis_node"
    /\ NodeOrder[5] = "rag_retrieval_node"
    /\ NodeOrder[6] = "recommendation_node"
    /\ NodeOrder[7] = "report_generation_node"
    /\ NodeOrder[8] = "persistence_node"
  BY DEF NodeOrder

LEMMA ParsePosition ==
    \A i \in 1..8 : /\ NodeOrder[i] = "ingest_node" <=> i = 1
                    /\ NodeOrder[i] = "parse_node" <=> i = 2
  BY NodePositions

LEMMA TablesTyped ==
    ASSUME NEW n \in NodeNames
    PROVE  /\ StatusAfter[n] \in WorkflowStatuses
           /\ n \in DOMAIN NextStage => NextStage[n] \in WorkflowStatuses
           /\ Provides[n] \subseteq AllFields
  <1>1. StatusAfter[n] \in WorkflowStatuses
    BY GraphShape DEF StatusAfter, WorkflowStatuses
  <1>2. n \in DOMAIN NextStage => NextStage[n] \in WorkflowStatuses
    BY DEF NextStage, WorkflowStatuses
  <1>3. Provides[n] \subseteq AllFields
    BY DEF AllFields
  <1> QED
    BY <1>1, <1>2, <1>3

\* What the nodes before the i-th leave in the state, whichever way they return:
\* all of their output, but for rag_context.
LeftBy(i) == (UNION {Provides[NodeOrder[k]] : k \in 1..i}) \ {"rag_context"}

LEMMA LeftByStep ==
    ASSUME NEW i \in 1..8
    PROVE  LeftBy(i) = LeftBy(i - 1) \union (Provides[NodeOrder[i]] \ {"rag_context"})
  <1>1. 1..i = 1..(i - 1) \union {i}
    OBVIOUS
  <1>2. UNION {Provides[NodeOrder[k]] : k \in 1..(i - 1) \union {i}}
          = (UNION {Provides[NodeOrder[k]] : k \in 1..(i - 1)}) \union Provides[NodeOrder[i]]
    BY Zenon
  <1> QED
    BY <1>1, <1>2, Zenon DEF LeftBy

\* The table of required fields, node by node, asks for nothing else.
LEMMA InputsLeft == \A i \in 1..8 : Requires[NodeOrder[i]] \subseteq LeftBy(i - 1)
  <1>1. LeftBy(0) = {}
    BY DEF LeftBy
  <1>2. /\ LeftBy(1) = LeftBy(0) \union (Provides[NodeOrder[1]] \ {"rag_context"})
        /\ LeftBy(2) = LeftBy(1) \union (Provides[NodeOrder[2]] \ {"rag_context"})
        /\ LeftBy(3) = LeftBy(2) \union (Provides[NodeOrder[3]] \ {"rag_context"})
        /\ LeftBy(4) = LeftBy(3) \union (Provides[NodeOrder[4]] \ {"rag_context"})
        /\ LeftBy(5) = LeftBy(4) \union (Provides[NodeOrder[5]] \ {"rag_context"})
        /\ LeftBy(6) = LeftBy(5) \union (Provides[NodeOrder[6]] \ {"rag_context"})
        /\ LeftBy(7) = LeftBy(6) \union (Provides[NodeOrder[7]] \ {"rag_context"})
    BY LeftByStep
  <1>3. /\ LeftBy(1) = {"repository_manifest"}
        /\ LeftBy(2) = LeftBy(1) \union {"parsed_code_representation"}
        /\ LeftBy(3) = LeftBy(2) \union {"architecture_section"}
        /\ LeftBy(4) = LeftBy(3) \union {"security_section"}
        /\ LeftBy(4) \subseteq LeftBy(5)
        /\ LeftBy(6) = LeftBy(5) \union {"recommendations_section"}
        /\ LeftBy(7) = LeftBy(6) \union {"final_report", "final_report_markdown"}
    BY <1>1, <1>2, NodePositions DEF Provides
  <1>4. /\ Requires[NodeOrder[1]] \subseteq LeftBy(0)
        /\ Requires[NodeOrder[2]] \subseteq LeftBy(1)
        /\ Requires[NodeOrder[3]] \subseteq LeftBy(2)
        /\ Requires[NodeOrder[4]] \subseteq LeftBy(3)
        /\ Requires[NodeOrder[5]] \subseteq LeftBy(4)
        /\ Requires[NodeOrder[6]] \subseteq LeftBy(5)
        /\ Requires[NodeOrder[7]] \subseteq LeftBy(6)
        /\ Requires[NodeOrder[8]] \subseteq LeftBy(7)
    BY <1>1, <1>3, NodePositions DEF Requires, Sections
  <1> QED
    BY <1>4

\* The orchestrator's table and the statuses the nodes return both give the stage
\* of the node that comes next. The last node has none.
LEMMA TablesAgree ==
    /\ \A i \in 1..7 : /\ NodeOrder[i] \in DOMAIN NextStage
                       /\ NextStage[NodeOrder[i]] = StageOrder[i + 1]
                       /\ StatusAfter[NodeOrder[i]] = StageOrder[i + 1]
    /\ NodeOrder[8] \notin DOMAIN NextStage
    /\ StatusAfter[NodeOrder[8]] = "COMPLETE"
    /\ StageOrder[1] = "INGESTING" /\ StageOrder[8] = "PERSISTING"
  BY NodePositions DEF NextStage, StatusAfter, StageOrder

-----------------------------------------------------------------------------
(* Types                                                                   *)

LEMMA InitType == Init => TypeOK
  <1> SUFFICES ASSUME Init PROVE TypeOK
    OBVIOUS
  <1>1. at \in [Runs -> DOMAIN NodeOrder]
    BY GraphShape DEF Init
  <1>2. errors \in [Runs -> Seq(ErrorRecords)]
    BY DEF Init
  <1> QED
    BY <1>1, <1>2 DEF Init, TypeOK, PCs, Working, Cloning, Over, CloneStates,
                      DiskStates, LogStates, WorkflowStatuses

\* The node a run is at, and what its shared steps do to the types.
LEMMA NodeTyped ==
    ASSUME TypeOK, NEW r \in Runs
    PROVE  Node(r) \in NodeNames /\ at[r] \in 1..8
  BY GraphShape DEF TypeOK, Node

LEMMA RecordType ==
    ASSUME TypeOK, NEW r \in Runs, NEW result \in LogStates, Record(r, result)
    PROVE  log' \in [Runs -> [NodeNames -> LogStates]]
  <1>1. log[r] \in [NodeNames -> LogStates] /\ log \in [Runs -> [NodeNames -> LogStates]]
    BY DEF TypeOK
  <1>2. [log[r] EXCEPT ![Node(r)] = result] \in [NodeNames -> LogStates]
    BY <1>1
  <1>3. log' = [log EXCEPT ![r] = [log[r] EXCEPT ![Node(r)] = result]]
    BY <1>1 DEF Record
  <1> QED
    BY <1>1, <1>2, <1>3

LEMMA AppendErrorType ==
    ASSUME TypeOK, NEW r \in Runs, NEW severity \in {"fatal", "nonfatal"},
           AppendError(r, severity)
    PROVE  errors' \in [Runs -> Seq(ErrorRecords)]
  <1>1. errors \in [Runs -> Seq(ErrorRecords)] /\ errors[r] \in Seq(ErrorRecords)
    BY DEF TypeOK
  <1>2. [node |-> Node(r), severity |-> severity] \in ErrorRecords
    BY NodeTyped DEF ErrorRecords
  <1>3. Append(errors[r], [node |-> Node(r), severity |-> severity]) \in Seq(ErrorRecords)
    BY <1>1, <1>2
  <1>4. errors' = [errors EXCEPT ![r] =
                     Append(errors[r], [node |-> Node(r), severity |-> severity])]
    BY <1>1 DEF AppendError
  <1> QED
    BY <1>1, <1>3, <1>4

LEMMA ReturnType ==
    ASSUME TypeOK, NEW r \in Runs, NEW output \in SUBSET AllFields, Return(r, output)
    PROVE  /\ fields' \in [Runs -> SUBSET AllFields]
           /\ status' \in [Runs -> WorkflowStatuses]
           /\ pc' \in [Runs -> PCs]
  <1>1. Node(r) \in NodeNames
    BY NodeTyped
  <1>2. StatusAfter[Node(r)] \in WorkflowStatuses
    BY <1>1, TablesTyped
  <1>3. fields[r] \union output \in SUBSET AllFields
    BY DEF TypeOK
  <1>4. "stage" \in PCs
    BY DEF PCs, Working
  <1> QED
    BY <1>2, <1>3, <1>4 DEF Return, Goto, TypeOK

LEMMA RemoveDirType ==
    ASSUME TypeOK, NEW r \in Runs, RemoveDir(r)
    PROVE  disk' \in [Runs -> DiskStates] /\ leaked' \subseteq Runs
  BY DEF RemoveDir, TypeOK, DiskStates

\* The steps of a worker, the clone thread and the kill.
LEMMA NextType == TypeOK /\ [Next]_vars => TypeOK'
  <1> SUFFICES ASSUME TypeOK, [Next]_vars PROVE TypeOK'
    OBVIOUS
  <1> USE DEF vars, dirVars, stateVars
  <1>1. ASSUME NEW r \in Runs, PickUp(r) PROVE TypeOK'
    BY <1>1 DEF PickUp, Goto, TypeOK, PCs, Working, WorkflowStatuses
  <1>2. ASSUME NEW r \in Runs, Enter(r) PROVE TypeOK'
    <2>1. pc' \in [Runs -> PCs]
      BY <1>2 DEF Enter, Goto, TypeOK, PCs, Working, Over
    <2>2. log' \in [Runs -> [NodeNames -> LogStates]]
      <3>1. CASE UNCHANGED log
        BY <3>1 DEF TypeOK
      <3>2. CASE Record(r, "RUNNING")
        BY <3>2, RecordType DEF LogStates
      <3> QED
        BY <1>2, <3>1, <3>2 DEF Enter
    <2> QED
      BY <1>2, <2>1, <2>2 DEF Enter, TypeOK
  <1>3. ASSUME NEW r \in Runs, YieldChunk(r) PROVE TypeOK'
    <2>1. pc' \in [Runs -> PCs]
      BY <1>3 DEF YieldChunk, Goto, TypeOK, PCs, Working, Over
    <2>2. at' \in [Runs -> DOMAIN NodeOrder]
      <3>1. at \in [Runs -> 1..8] /\ Len(NodeOrder) = 8
        BY GraphShape DEF TypeOK
      <3>2. CASE at' = [at EXCEPT ![r] = at[r] + 1] /\ at[r] < 8
        BY <3>1, <3>2, GraphShape
      <3>3. CASE UNCHANGED at
        BY <3>1, <3>3, GraphShape
      <3> QED
        BY <1>3, <3>1, <3>2, <3>3 DEF YieldChunk
    <2>3. stage' \in [Runs -> WorkflowStatuses \union {"NULL"}]
      BY <1>3, TablesTyped, NodeTyped DEF YieldChunk, TypeOK
    <2> QED
      BY <1>3, <2>1, <2>2, <2>3 DEF YieldChunk, TypeOK
  <1>4. ASSUME NEW r \in Runs, Ingest(r) PROVE TypeOK'
    <2>1. CASE SubmitClone(r)
      BY <2>1 DEF SubmitClone, Goto, TypeOK, PCs, Working, Cloning, CloneStates, DiskStates
    <2>2. CASE RefuseThread(r)
      BY <2>2 DEF RefuseThread, Goto, TypeOK, PCs, Working, DiskStates
    <2>3. CASE RefuseClone(r)
      <3>1. log' \in [Runs -> [NodeNames -> LogStates]]
        BY <2>3, RecordType DEF RefuseClone, RaiseFatal, LogStates
      <3>2. errors' \in [Runs -> Seq(ErrorRecords)]
        BY <2>3, AppendErrorType DEF RefuseClone, RaiseFatal
      <3>3. pc' \in [Runs -> PCs]
        BY <2>3 DEF RefuseClone, Goto, TypeOK, PCs, Over
      <3> QED
        BY <2>3, <3>1, <3>2, <3>3 DEF RefuseClone, RaiseFatal, TypeOK
    <2>4. CASE AwaitClone(r)
      BY <2>4 DEF AwaitClone, Goto, TypeOK, PCs, Working
    <2>5. CASE TimeOut(r)
      BY <2>5 DEF TimeOut, Goto, TypeOK, PCs, Working, Cloning
    <2>6. CASE JoinClone(r)
      BY <2>6 DEF JoinClone, Goto, TypeOK, PCs, Working
    <2>7. CASE AcceptClone(r)
      <3>1. log' \in [Runs -> [NodeNames -> LogStates]]
        BY <2>7, RecordType DEF AcceptClone, LogStates
      <3>2. Provides[Node(r)] \in SUBSET AllFields
        BY NodeTyped, TablesTyped
      <3>3. /\ fields' \in [Runs -> SUBSET AllFields]
            /\ status' \in [Runs -> WorkflowStatuses]
            /\ pc' \in [Runs -> PCs]
        BY <2>7, <3>2, ReturnType DEF AcceptClone
      <3> QED
        BY <2>7, <3>1, <3>3 DEF AcceptClone, TypeOK
    <2>8. CASE RejectClone(r)
      BY <2>8 DEF RejectClone, Goto, TypeOK, PCs, Working
    <2>9. CASE CleanUp(r)
      <3>1. log' \in [Runs -> [NodeNames -> LogStates]]
        BY <2>9, RecordType DEF CleanUp, RaiseFatal, LogStates
      <3>2. errors' \in [Runs -> Seq(ErrorRecords)]
        BY <2>9, AppendErrorType DEF CleanUp, RaiseFatal
      <3>3. pc' \in [Runs -> PCs]
        BY <2>9 DEF CleanUp, Goto, TypeOK, PCs, Over
      <3>4. disk' \in [Runs -> DiskStates] /\ leaked' \subseteq Runs
        BY <2>9, RemoveDirType DEF CleanUp
      <3> QED
        BY <2>9, <3>1, <3>2, <3>3, <3>4 DEF CleanUp, RaiseFatal, TypeOK
    <2> QED
      BY <1>4, <2>1, <2>2, <2>3, <2>4, <2>5, <2>6, <2>7, <2>8, <2>9 DEF Ingest
  <1>5. ASSUME NEW r \in Runs, Parse(r) PROVE TypeOK'
    <2>1. pc' \in [Runs -> PCs]
      BY <1>5 DEF Parse, Goto, TypeOK, PCs, Working
    <2>2. log' \in [Runs -> [NodeNames -> LogStates]]
      BY <1>5, RecordType DEF Parse, RaiseFatal, LogStates
    <2>3. errors' \in [Runs -> Seq(ErrorRecords)]
      BY <1>5, AppendErrorType DEF Parse, RaiseFatal, TypeOK
    <2> QED
      BY <1>5, <2>1, <2>2, <2>3 DEF Parse, RaiseFatal, TypeOK
  <1>6. ASSUME NEW r \in Runs, Sweep(r) PROVE TypeOK'
    <2>1. disk' \in [Runs -> DiskStates] /\ leaked' \subseteq Runs
      BY <1>6, RemoveDirType DEF Sweep
    <2>2. /\ fields' \in [Runs -> SUBSET AllFields]
          /\ status' \in [Runs -> WorkflowStatuses]
          /\ pc' \in [Runs -> PCs]
      <3>1. CASE Return(r, Provides[Node(r)])
        <4>1. Provides[Node(r)] \in SUBSET AllFields
          BY NodeTyped, TablesTyped
        <4> QED
          BY <3>1, <4>1, ReturnType
      <3>2. CASE Goto(r, "raised") /\ UNCHANGED <<fields, status>>
        BY <3>2 DEF Goto, TypeOK, PCs, Over
      <3> QED
        BY <1>6, <3>1, <3>2 DEF Sweep
    <2> QED
      BY <1>6, <2>1, <2>2 DEF Sweep, TypeOK
  <1>7. ASSUME NEW r \in Runs, Service(r) PROVE TypeOK'
    <2>1. UNCHANGED <<at, dirVars, stage>>
      BY <1>7 DEF Service, ServiceReturns, ServiceFails, SkipRetrieval, RetrievalFails,
                  CompleteUnwritten, PersistenceEscapes
    <2>2. log' \in [Runs -> [NodeNames -> LogStates]]
      <3>1. \/ UNCHANGED log
            \/ \E result \in {"COMPLETE", "FAILED"} : Record(r, result)
        BY <1>7 DEF Service, ServiceReturns, ServiceFails, SkipRetrieval, RetrievalFails,
                    CompleteUnwritten, PersistenceEscapes, RaiseFatal
      <3>2. CASE UNCHANGED log
        BY <3>2 DEF TypeOK
      <3>3. CASE \E result \in {"COMPLETE", "FAILED"} : Record(r, result)
        BY <3>3, RecordType DEF LogStates
      <3> QED
        BY <3>1, <3>2, <3>3
    <2>3. errors' \in [Runs -> Seq(ErrorRecords)]
      <3>1. \/ UNCHANGED errors
            \/ \E severity \in {"fatal", "nonfatal"} : AppendError(r, severity)
        BY <1>7 DEF Service, ServiceReturns, ServiceFails, SkipRetrieval, RetrievalFails,
                    CompleteUnwritten, PersistenceEscapes, RaiseFatal
      <3>2. CASE UNCHANGED errors
        BY <3>2 DEF TypeOK
      <3> QED
        BY <3>1, <3>2, AppendErrorType
    <2>4. /\ fields' \in [Runs -> SUBSET AllFields]
          /\ status' \in [Runs -> WorkflowStatuses]
          /\ pc' \in [Runs -> PCs]
      <3>1. \/ \E output \in {Provides[Node(r)], {}} : Return(r, output)
            \/ Goto(r, "raised") /\ UNCHANGED <<fields, status>>
        BY <1>7 DEF Service, ServiceReturns, ServiceFails, SkipRetrieval, RetrievalFails,
                    CompleteUnwritten, PersistenceEscapes, RaiseFatal
      <3>2. CASE \E output \in {Provides[Node(r)], {}} : Return(r, output)
        <4>1. {Provides[Node(r)], {}} \subseteq SUBSET AllFields
          BY NodeTyped, TablesTyped
        <4> QED
          BY <3>2, <4>1, ReturnType
      <3>3. CASE Goto(r, "raised") /\ UNCHANGED <<fields, status>>
        BY <3>3 DEF Goto, TypeOK, PCs, Over
      <3> QED
        BY <3>1, <3>2, <3>3
    <2> QED
      BY <2>1, <2>2, <2>3, <2>4 DEF TypeOK
  <1>8. ASSUME NEW r \in Runs, CloneWrites(r) PROVE TypeOK'
    BY <1>8 DEF CloneWrites, TypeOK, DiskStates
  <1>9. ASSUME NEW r \in Runs, CloneEnds(r) PROVE TypeOK'
    <2>1. clone' \in [Runs -> CloneStates]
      BY <1>9 DEF CloneEnds, TypeOK, CloneStates
    <2>2. disk[r] \in DiskStates /\ disk \in [Runs -> DiskStates]
      BY DEF TypeOK
    <2>3. \E rest \in DiskStates : disk' = [disk EXCEPT ![r] = rest]
      BY <1>9, <2>2 DEF CloneEnds, DiskStates
    <2>4. disk' \in [Runs -> DiskStates]
      BY <2>2, <2>3
    <2> QED
      BY <1>9, <2>1, <2>4 DEF CloneEnds, TypeOK
  <1>10. CASE Kill
    BY <1>10 DEF Kill, TypeOK, PCs, Over
  <1>11. CASE UNCHANGED vars
    BY <1>11 DEF TypeOK
  <1> QED
    BY <1>1, <1>2, <1>3, <1>4, <1>5, <1>6, <1>7, <1>8, <1>9, <1>10, <1>11 DEF Next, Worker

\* Every variable keeps its type, for any runs and any number of threads.
THEOREM TypeCorrect == Spec => []TypeOK
  BY InitType, NextType, PTL DEF Spec

-----------------------------------------------------------------------------
(* The inductive invariant, one run at a time                              *)

\* The clone directory of a run follows its worker. Until mkdtemp there is none; a
\* clone thread runs only while the worker waits for it; from its success to the
\* removal the directory is whole; and after the removal it is gone.
CloneInv(r) ==
    /\ clone[r] = "running" => pc[r] \in Cloning \union {"killed"}
    /\ pc[r] \in Cloning /\ clone[r] = "cloned" => disk[r] = "whole"
    /\ pc[r] = "check" => disk[r] = "whole"
    /\ at[r] = 1 /\ pc[r] \in {"queued", "enter", "submit"} => disk[r] = "absent"
    /\ at[r] = 1 /\ pc[r] = "stage" => disk[r] = "whole"
    /\ at[r] = 2 /\ pc[r] \in {"enter", "work"} => disk[r] = "whole"
    /\ \/ pc[r] \in {"returned", "raised"}
       \/ at[r] = 2 /\ pc[r] = "stage"
       \/ at[r] > 2 /\ pc[r] # "killed"
       => disk[r] = "absent" \/ r \in leaked

\* Where a run can be in each node: only IngestNode has steps of its own for the
\* clone, only ParseNode a sweep, and a run that returned was through.
PlaceInv(r) ==
    /\ pc[r] \in Cloning \union {"queued", "submit", "check", "clean"} => at[r] = 1
    /\ pc[r] = "work" => at[r] # 1
    /\ pc[r] = "sweep" => at[r] = 2

\* The fields that a node needs are those its predecessors leave, and what it
\* leaves itself is there when it has returned. A node that runs has its record.
InputInv(r) ==
    /\ LeftBy(at[r] - 1) \subseteq fields[r]
    /\ pc[r] = "stage" => LeftBy(at[r]) \subseteq fields[r]
    /\ pc[r] \in (Working \ {"enter"}) \union {"raised"} => log[r][Node(r)] # "none"

\* workflow_status while the node at position i runs.
StatusIn(i) == IF i = 1 THEN "INITIALIZED" ELSE StageOrder[i]

\* The stage announced is the one of the node the run is at, and so is the status
\* until that node returns its own.
StageInv(r) ==
    /\ pc[r] \notin {"queued", "killed"} => stage[r] = StageOrder[at[r]]
    /\ pc[r] \notin {"stage", "returned", "killed"} => status[r] = StatusIn(at[r])
    /\ pc[r] = "stage" => status[r] = StatusAfter[Node(r)]
    /\ pc[r] = "returned" => at[r] = 8 /\ status[r] = "COMPLETE"

RunInv(r) == CloneInv(r) /\ PlaceInv(r) /\ InputInv(r) /\ StageInv(r)

IInv == TypeOK /\ \A r \in Runs : RunInv(r)

LEMMA InitInv == Init => IInv
  <1> SUFFICES ASSUME Init PROVE IInv
    OBVIOUS
  <1>1. LeftBy(0) = {}
    BY DEF LeftBy
  <1>2. ASSUME NEW r \in Runs PROVE RunInv(r)
    <2>1. /\ pc[r] = "queued" /\ at[r] = 1 /\ clone[r] = "none" /\ disk[r] = "absent"
          /\ fields[r] = {} /\ status[r] = "INITIALIZED"
      BY DEF Init
    <2>2. LeftBy(at[r] - 1) \subseteq fields[r]
      BY <1>1, <2>1
    <2>3. StageInv(r)
      BY <2>1 DEF StageInv, StatusIn
    <2> QED
      BY <2>1, <2>2, <2>3 DEF RunInv, CloneInv, PlaceInv, InputInv, Working, Cloning
  <1> QED
    BY <1>2, InitType DEF IInv

-----------------------------------------------------------------------------
(* A step of one run leaves the others alone                               *)

Untouched(q) ==
    /\ pc'[q] = pc[q] /\ at'[q] = at[q] /\ clone'[q] = clone[q] /\ disk'[q] = disk[q]
    /\ q \in leaked' <=> q \in leaked
    /\ fields'[q] = fields[q] /\ status'[q] = status[q] /\ log'[q] = log[q]
    /\ stage'[q] = stage[q]

Others(r) == \A q \in Runs \ {r} : Untouched(q)

LEMMA UntouchedInv ==
    ASSUME NEW q \in Runs, RunInv(q), Untouched(q)
    PROVE  RunInv(q)'
  <1>1. Node(q)' = Node(q)
    BY DEF Node, Untouched
  <1>2. CloneInv(q)' /\ PlaceInv(q)'
    BY DEF RunInv, CloneInv, PlaceInv, Untouched
  <1>3. InputInv(q)'
    BY <1>1 DEF RunInv, InputInv, Untouched
  <1>4. StageInv(q)'
    BY <1>1 DEF RunInv, StageInv, Untouched
  <1> QED
    BY <1>2, <1>3, <1>4 DEF RunInv

LEMMA OneRun ==
    ASSUME IInv, NEW r \in Runs, Others(r), RunInv(r)', TypeOK'
    PROVE  IInv'
  BY UntouchedInv DEF IInv, Others

\* What the shared steps do to their run and leave of the others.
LEMMA RecordEffect ==
    ASSUME TypeOK, NEW r \in Runs, NEW result, Record(r, result)
    PROVE  /\ log'[r][Node(r)] = result
           /\ \A q \in Runs \ {r} : log'[q] = log[q]
  <1>1. log[r] \in [NodeNames -> LogStates] /\ DOMAIN log = Runs /\ Node(r) \in NodeNames
    BY NodeTyped DEF TypeOK
  <1>2. log' = [log EXCEPT ![r] = [log[r] EXCEPT ![Node(r)] = result]]
    BY <1>1 DEF Record
  <1> QED
    BY <1>1, <1>2

LEMMA GotoEffect ==
    ASSUME TypeOK, NEW r \in Runs, NEW step, Goto(r, step)
    PROVE  pc'[r] = step /\ \A q \in Runs \ {r} : pc'[q] = pc[q]
  BY DEF Goto, TypeOK

LEMMA ReturnEffect ==
    ASSUME TypeOK, NEW r \in Runs, NEW output, Return(r, output)
    PROVE  /\ pc'[r] = "stage"
           /\ fields'[r] = fields[r] \union output
           /\ status'[r] = StatusAfter[Node(r)]
           /\ \A q \in Runs \ {r} : /\ pc'[q] = pc[q]
                                    /\ fields'[q] = fields[q]
                                    /\ status'[q] = status[q]
  BY GotoEffect DEF Return, TypeOK

LEMMA RemoveDirEffect ==
    ASSUME TypeOK, NEW r \in Runs, RemoveDir(r)
    PROVE  /\ disk'[r] = "absent" \/ r \in leaked'
           /\ \A q \in Runs \ {r} : /\ disk'[q] = disk[q]
                                    /\ q \in leaked' <=> q \in leaked
  BY DEF RemoveDir, TypeOK

-----------------------------------------------------------------------------
(* The steps                                                               *)

LEMMA NodeAt ==
    ASSUME TypeOK, NEW r \in Runs
    PROVE  /\ Node(r) = "ingest_node" <=> at[r] = 1
           /\ Node(r) = "parse_node" <=> at[r] = 2
  BY ParsePosition, NodeTyped DEF Node

\* What a node leaves when it returns with its output, or the RAG node without.
LEMMA ReturnInv ==
    ASSUME TypeOK, NEW r \in Runs, NEW output, RunInv(r), Return(r, output),
           Provides[Node(r)] \ {"rag_context"} \subseteq output, UNCHANGED at
    PROVE  /\ LeftBy(at[r] - 1) \subseteq fields'[r]
           /\ LeftBy(at[r]) \subseteq fields'[r]
  <1>1. fields'[r] = fields[r] \union output
    BY ReturnEffect
  <1>2. LeftBy(at[r]) = LeftBy(at[r] - 1) \union (Provides[Node(r)] \ {"rag_context"})
    BY LeftByStep, NodeTyped DEF Node
  <1> QED
    BY <1>1, <1>2 DEF RunInv, InputInv

LEMMA PickUpInv ==
    ASSUME IInv, NEW r \in Runs, PickUp(r)
    PROVE  RunInv(r)' /\ Others(r)
  <1>1. TypeOK /\ RunInv(r)
    BY DEF IInv
  <1>2. pc[r] = "queued" /\ pc'[r] = "enter" /\ at[r] = 1
    BY <1>1, GotoEffect DEF PickUp, RunInv, PlaceInv
  <1>3. UNCHANGED <<at, clone, disk, leaked, fields, status, log>>
    BY DEF PickUp, dirVars, stateVars
  <1>4. RunInv(r)'
    <2>1. CloneInv(r)' /\ PlaceInv(r)' /\ InputInv(r)'
      BY <1>1, <1>2, <1>3 DEF RunInv, CloneInv, PlaceInv, InputInv, Working, Cloning
    <2>2. stage'[r] = StageOrder[1]
      BY <1>1, TablesAgree DEF PickUp, TypeOK
    <2>3. StageInv(r)'
      BY <1>1, <1>2, <1>3, <2>2 DEF RunInv, StageInv, StatusIn
    <2> QED
      BY <2>1, <2>3 DEF RunInv
  <1>5. \A q \in Runs \ {r} : pc'[q] = pc[q] /\ stage'[q] = stage[q]
    BY <1>1, GotoEffect DEF PickUp, TypeOK
  <1> QED
    BY <1>3, <1>4, <1>5 DEF Others, Untouched

\* A node finds its inputs and begins its record.
LEMMA EnterInv ==
    ASSUME IInv, NEW r \in Runs, Enter(r)
    PROVE  RunInv(r)' /\ Others(r)
  <1>1. TypeOK /\ RunInv(r) /\ pc[r] = "enter"
    BY DEF IInv, Enter
  <1>2. Requires[Node(r)] \subseteq fields[r]
    BY <1>1, InputsLeft, NodeTyped DEF RunInv, InputInv, Node
  <1>3. /\ Record(r, "RUNNING")
        /\ Goto(r, IF Node(r) = "ingest_node" THEN "submit" ELSE "work")
    BY <1>2 DEF Enter
  <1>4. UNCHANGED <<at, clone, disk, leaked, fields, status, stage>>
    BY DEF Enter, dirVars
  <1>5. pc'[r] = IF at[r] = 1 THEN "submit" ELSE "work"
    BY <1>1, <1>3, NodeAt, GotoEffect
  <1>6. Node(r)' = Node(r) /\ log'[r][Node(r)] = "RUNNING"
    BY <1>1, <1>3, <1>4, RecordEffect DEF Node
  <1>7. CloneInv(r)' /\ PlaceInv(r)'
    BY <1>1, <1>4, <1>5 DEF RunInv, CloneInv, PlaceInv, Cloning
  <1>8. InputInv(r)' /\ StageInv(r)'
    BY <1>1, <1>4, <1>5, <1>6 DEF RunInv, InputInv, StageInv
  <1>9. \A q \in Runs \ {r} : pc'[q] = pc[q] /\ log'[q] = log[q]
    BY <1>1, <1>3, GotoEffect, RecordEffect
  <1> QED
    BY <1>4, <1>7, <1>8, <1>9 DEF RunInv, Others, Untouched

\* The stage announced is the one of the next node, and so is the status that the
\* node that returned has written.
LEMMA YieldChunkInv ==
    ASSUME IInv, NEW r \in Runs, YieldChunk(r)
    PROVE  RunInv(r)' /\ Others(r)
  <1>1. TypeOK /\ RunInv(r) /\ pc[r] = "stage" /\ at[r] \in 1..8
    BY NodeTyped DEF IInv, YieldChunk
  <1>2. UNCHANGED <<clone, disk, leaked, fields, status, log>>
    BY DEF YieldChunk, dirVars, stateVars
  <1>3. ASSUME at[r] < 8, at' = [at EXCEPT ![r] = @ + 1], Goto(r, "enter")
        PROVE  RunInv(r)'
    <2>1. pc'[r] = "enter" /\ at'[r] = at[r] + 1
      BY <1>1, <1>3, GotoEffect DEF TypeOK
    <2>2. stage'[r] = StageOrder[at[r] + 1] /\ status[r] = StageOrder[at[r] + 1]
      <3>1. at[r] \in 1..7
        BY <1>1, <1>3
      <3>2. /\ Node(r) \in DOMAIN NextStage
            /\ NextStage[Node(r)] = StageOrder[at[r] + 1]
            /\ StatusAfter[Node(r)] = StageOrder[at[r] + 1]
        BY <3>1, TablesAgree DEF Node
      <3> QED
        BY <1>1, <3>2 DEF YieldChunk, TypeOK, RunInv, StageInv
    <2>3. CloneInv(r)'
      BY <1>1, <1>2, <2>1 DEF RunInv, CloneInv, Cloning
    <2>4. PlaceInv(r)'
      BY <2>1 DEF PlaceInv, Cloning
    <2>5. InputInv(r)'
      <3>1. at'[r] - 1 = at[r]
        BY <1>1, <2>1
      <3> QED
        BY <1>1, <1>2, <2>1, <3>1 DEF RunInv, InputInv, Working, Cloning
    <2>6. StageInv(r)'
      <3>1. at'[r] # 1
        BY <1>1, <2>1
      <3> QED
        BY <1>2, <2>1, <2>2, <3>1 DEF StageInv, StatusIn
    <2> QED
      BY <2>3, <2>4, <2>5, <2>6 DEF RunInv
  <1>4. ASSUME at[r] = 8, Goto(r, "returned"), UNCHANGED at
        PROVE  RunInv(r)'
    <2>1. pc'[r] = "returned" /\ at'[r] = 8
      BY <1>1, <1>4, GotoEffect
    <2>2. CloneInv(r)' /\ PlaceInv(r)'
      BY <1>1, <1>2, <1>4, <2>1 DEF RunInv, CloneInv, PlaceInv, Cloning
    <2>3. InputInv(r)'
      BY <1>1, <1>2, <1>4, <2>1 DEF RunInv, InputInv, Working, Cloning
    <2>4. Node(r) = NodeOrder[8]
      BY <1>4 DEF Node
    <2>5. stage'[r] = stage[r] /\ status[r] = "COMPLETE"
      BY <1>1, <2>4, TablesAgree DEF YieldChunk, TypeOK, RunInv, StageInv
    <2>6. StageInv(r)'
      BY <1>1, <1>2, <1>4, <2>1, <2>5 DEF RunInv, StageInv
    <2> QED
      BY <2>2, <2>3, <2>6 DEF RunInv
  <1>5. RunInv(r)'
    BY <1>3, <1>4, GraphShape DEF YieldChunk
  <1>6. \A q \in Runs \ {r} : pc'[q] = pc[q] /\ at'[q] = at[q] /\ stage'[q] = stage[q]
    <2>1. \A q \in Runs \ {r} : pc'[q] = pc[q]
      BY <1>1, GotoEffect DEF YieldChunk
    <2> QED
      BY <1>1, <2>1 DEF YieldChunk, TypeOK
  <1> QED
    BY <1>2, <1>5, <1>6 DEF Others, Untouched

\* The steps of IngestNode that neither return nor fail.
LEMMA CloningInv ==
    ASSUME IInv, NEW r \in Runs,
           \/ SubmitClone(r) \/ RefuseThread(r) \/ AwaitClone(r) \/ TimeOut(r)
           \/ JoinClone(r) \/ RejectClone(r)
    PROVE  RunInv(r)' /\ Others(r)
  <1>1. TypeOK /\ RunInv(r)
    BY DEF IInv
  <1>2. UNCHANGED <<at, leaked, fields, status, log, stage>>
    BY DEF SubmitClone, RefuseThread, AwaitClone, TimeOut, JoinClone, RejectClone,
           dirVars, stateVars
  <1>3. /\ pc[r] \in {"submit", "clone", "join", "check"} /\ at[r] = 1
        /\ pc'[r] \in {"clone", "join", "check", "clean"}
    BY <1>1, GotoEffect
       DEF SubmitClone, RefuseThread, AwaitClone, TimeOut, JoinClone, RejectClone,
           RunInv, PlaceInv, Cloning
  <1>4. CloneInv(r)'
    <2>1. /\ clone'[r] = "running" => pc'[r] \in Cloning
          /\ pc'[r] \in Cloning /\ clone'[r] = "cloned" => disk'[r] = "whole"
          /\ pc'[r] = "check" => disk'[r] = "whole"
      <3>1. CASE SubmitClone(r)
        BY <1>1, <3>1, GotoEffect DEF SubmitClone, TypeOK, Cloning
      <3>2. CASE RefuseThread(r)
        BY <1>1, <3>2, GotoEffect DEF RefuseThread, TypeOK, RunInv, CloneInv, Cloning
      <3>3. CASE AwaitClone(r)
        BY <1>1, <3>3, GotoEffect DEF AwaitClone, dirVars, RunInv, CloneInv, Cloning
      <3>4. CASE TimeOut(r)
        BY <1>1, <3>4, GotoEffect DEF TimeOut, dirVars, RunInv, CloneInv, Cloning
      <3>5. CASE JoinClone(r)
        BY <1>1, <3>5, GotoEffect DEF JoinClone, dirVars, RunInv, CloneInv, Cloning
      <3>6. CASE RejectClone(r)
        BY <1>1, <3>6, GotoEffect DEF RejectClone, dirVars, RunInv, CloneInv, Cloning
      <3> QED
        BY <3>1, <3>2, <3>3, <3>4, <3>5, <3>6
    <2> QED
      BY <1>2, <1>3, <2>1 DEF CloneInv
  <1>5. PlaceInv(r)' /\ StageInv(r)'
    BY <1>1, <1>2, <1>3 DEF PlaceInv, RunInv, StageInv
  <1>6. InputInv(r)'
    <2>1. Node(r)' = Node(r)
      BY <1>2 DEF Node
    <2> QED
      BY <1>1, <1>2, <1>3, <2>1 DEF RunInv, InputInv, Working, Cloning
  <1>7. \A q \in Runs \ {r} : pc'[q] = pc[q] /\ clone'[q] = clone[q] /\ disk'[q] = disk[q]
    <2>1. \A q \in Runs \ {r} : pc'[q] = pc[q]
      BY <1>1, GotoEffect
         DEF SubmitClone, RefuseThread, AwaitClone, TimeOut, JoinClone, RejectClone
    <2> QED
      BY <1>1, <2>1
         DEF SubmitClone, RefuseThread, AwaitClone, TimeOut, JoinClone, RejectClone,
             dirVars, TypeOK
  <1> QED
    BY <1>2, <1>4, <1>5, <1>6, <1>7 DEF RunInv, Others, Untouched

\* The clone is handed on whole.
LEMMA AcceptCloneInv ==
    ASSUME IInv, NEW r \in Runs, AcceptClone(r)
    PROVE  RunInv(r)' /\ Others(r)
  <1>1. TypeOK /\ RunInv(r) /\ pc[r] = "check" /\ at[r] = 1
    BY DEF IInv, AcceptClone, RunInv, PlaceInv
  <1>2. UNCHANGED <<at, clone, disk, leaked, stage>>
    BY DEF AcceptClone, dirVars
  <1>3. Record(r, "COMPLETE") /\ Return(r, Provides[Node(r)])
    BY DEF AcceptClone
  <1>4. Node(r)' = Node(r) /\ log'[r][Node(r)] = "COMPLETE"
    BY <1>1, <1>2, <1>3, RecordEffect DEF Node
  <1>5. pc'[r] = "stage" /\ status'[r] = StatusAfter[Node(r)]
    BY <1>1, <1>3, ReturnEffect
  <1>6. CloneInv(r)' /\ PlaceInv(r)'
    BY <1>1, <1>2, <1>5 DEF RunInv, CloneInv, PlaceInv, Cloning
  <1>7. InputInv(r)'
    BY <1>1, <1>2, <1>3, <1>4, ReturnInv DEF InputInv
  <1>8. StageInv(r)'
    BY <1>1, <1>2, <1>4, <1>5 DEF RunInv, StageInv
  <1>9. Others(r)
    BY <1>1, <1>2, <1>3, ReturnEffect, RecordEffect DEF Others, Untouched
  <1> QED
    BY <1>6, <1>7, <1>8, <1>9 DEF RunInv

\* A fatal failure in IngestNode: with a directory, it is removed first.
LEMMA IngestFailsInv ==
    ASSUME IInv, NEW r \in Runs, RefuseClone(r) \/ CleanUp(r)
    PROVE  RunInv(r)' /\ Others(r)
  <1>1. TypeOK /\ RunInv(r) /\ pc[r] \in {"submit", "clean"} /\ at[r] = 1
    BY DEF IInv, RefuseClone, CleanUp, RunInv, PlaceInv
  <1>2. UNCHANGED <<at, clone, fields, status, stage>>
    BY DEF RefuseClone, CleanUp, RaiseFatal, dirVars
  <1>3. Record(r, "FAILED") /\ Goto(r, "raised")
    BY DEF RefuseClone, CleanUp, RaiseFatal
  <1>4. Node(r)' = Node(r) /\ log'[r][Node(r)] = "FAILED" /\ pc'[r] = "raised"
    BY <1>1, <1>2, <1>3, RecordEffect, GotoEffect DEF Node
  <1>5. /\ disk'[r] = "absent" \/ r \in leaked'
        /\ \A q \in Runs \ {r} : disk'[q] = disk[q] /\ (q \in leaked' <=> q \in leaked)
    <2>1. CASE RefuseClone(r)
      BY <1>1, <2>1 DEF RefuseClone, dirVars, RunInv, CloneInv
    <2>2. CASE CleanUp(r)
      BY <1>1, <2>2, RemoveDirEffect DEF CleanUp
    <2> QED
      BY <2>1, <2>2
  <1>6. CloneInv(r)' /\ PlaceInv(r)'
    BY <1>1, <1>2, <1>4, <1>5 DEF RunInv, CloneInv, PlaceInv, Cloning
  <1>7. InputInv(r)' /\ StageInv(r)'
    BY <1>1, <1>2, <1>4 DEF RunInv, InputInv, StageInv
  <1>8. Others(r)
    BY <1>1, <1>2, <1>3, <1>5, GotoEffect, RecordEffect DEF Others, Untouched
  <1> QED
    BY <1>6, <1>7, <1>8 DEF RunInv

LEMMA ParseInv ==
    ASSUME IInv, NEW r \in Runs, Parse(r)
    PROVE  RunInv(r)' /\ Others(r)
  <1>1. TypeOK /\ RunInv(r) /\ pc[r] = "work" /\ at[r] = 2
    BY NodeAt DEF IInv, Parse
  <1>2. UNCHANGED <<at, clone, disk, leaked, fields, status, stage>>
    BY DEF Parse, RaiseFatal, dirVars
  <1>3. PICK result \in {"COMPLETE", "FAILED"} : Record(r, result)
    BY DEF Parse, RaiseFatal
  <1>4. Goto(r, "sweep")
    BY DEF Parse
  <1>5. Node(r)' = Node(r) /\ log'[r][Node(r)] = result /\ pc'[r] = "sweep"
    BY <1>1, <1>2, <1>3, <1>4, RecordEffect, GotoEffect DEF Node
  <1>6. CloneInv(r)' /\ PlaceInv(r)'
    BY <1>1, <1>2, <1>5 DEF RunInv, CloneInv, PlaceInv, Cloning
  <1>7. InputInv(r)' /\ StageInv(r)'
    BY <1>1, <1>2, <1>5 DEF RunInv, InputInv, StageInv
  <1>8. Others(r)
    BY <1>1, <1>2, <1>3, <1>4, GotoEffect, RecordEffect DEF Others, Untouched
  <1> QED
    BY <1>6, <1>7, <1>8 DEF RunInv

\* The directory is gone whether ParseNode returns or raises.
LEMMA SweepInv ==
    ASSUME IInv, NEW r \in Runs, Sweep(r)
    PROVE  RunInv(r)' /\ Others(r)
  <1>1. TypeOK /\ RunInv(r) /\ pc[r] = "sweep" /\ at[r] = 2
    BY DEF IInv, Sweep, RunInv, PlaceInv
  <1>2. UNCHANGED <<at, clone, log, stage>>
    BY DEF Sweep
  <1>3. /\ disk'[r] = "absent" \/ r \in leaked'
        /\ \A q \in Runs \ {r} : disk'[q] = disk[q] /\ (q \in leaked' <=> q \in leaked)
    BY <1>1, RemoveDirEffect DEF Sweep
  <1>4. Node(r)' = Node(r)
    BY <1>2 DEF Node
  <1>5. CASE Return(r, Provides[Node(r)])
    <2>1. pc'[r] = "stage" /\ status'[r] = StatusAfter[Node(r)]
      BY <1>1, <1>5, ReturnEffect
    <2>2. CloneInv(r)' /\ PlaceInv(r)'
      BY <1>1, <1>2, <1>3, <2>1 DEF RunInv, CloneInv, PlaceInv, Cloning
    <2>3. LeftBy(at[r] - 1) \subseteq fields'[r] /\ LeftBy(at[r]) \subseteq fields'[r]
      BY <1>1, <1>2, <1>5, ReturnInv
    <2>4. log[r][Node(r)] # "none"
      BY <1>1 DEF RunInv, InputInv, Working
    <2>5. InputInv(r)' /\ StageInv(r)'
      BY <1>1, <1>2, <1>4, <2>1, <2>3, <2>4 DEF RunInv, InputInv, StageInv
    <2>6. Others(r)
      BY <1>1, <1>2, <1>3, <1>5, ReturnEffect DEF Others, Untouched
    <2> QED
      BY <2>2, <2>5, <2>6 DEF RunInv
  <1>6. CASE Goto(r, "raised") /\ UNCHANGED <<fields, status>>
    <2>1. pc'[r] = "raised"
      BY <1>1, <1>6, GotoEffect
    <2>2. CloneInv(r)' /\ PlaceInv(r)'
      BY <1>1, <1>2, <1>3, <2>1 DEF RunInv, CloneInv, PlaceInv, Cloning
    <2>3. log[r][Node(r)] # "none"
      BY <1>1 DEF RunInv, InputInv, Working
    <2>4. InputInv(r)' /\ StageInv(r)'
      BY <1>1, <1>2, <1>4, <1>6, <2>1, <2>3 DEF RunInv, InputInv, StageInv
    <2>5. Others(r)
      BY <1>1, <1>2, <1>3, <1>6, GotoEffect DEF Others, Untouched
    <2> QED
      BY <2>2, <2>4, <2>5 DEF RunInv
  <1> QED
    BY <1>5, <1>6 DEF Sweep

\* Whether the service of a node returns or raises, the clone is long gone.
LEMMA ServiceInv ==
    ASSUME IInv, NEW r \in Runs, Service(r)
    PROVE  RunInv(r)' /\ Others(r)
  <1>1. TypeOK /\ RunInv(r) /\ pc[r] = "work" /\ at[r] \in 3..8
    <2>1. TypeOK /\ RunInv(r) /\ pc[r] = "work" /\ Node(r) # "parse_node"
      BY DEF IInv, Service, ServiceReturns, ServiceFails, SkipRetrieval, RetrievalFails,
             CompleteUnwritten, PersistenceEscapes, Serving
    <2>2. at[r] # 1 /\ at[r] # 2 /\ at[r] \in 1..8
      BY <2>1, NodeAt, NodeTyped DEF RunInv, PlaceInv
    <2> QED
      BY <2>1, <2>2
  <1>2. UNCHANGED <<at, clone, disk, leaked, stage>>
    BY DEF Service, ServiceReturns, ServiceFails, SkipRetrieval, RetrievalFails,
           CompleteUnwritten, PersistenceEscapes, dirVars
  <1>3. Node(r)' = Node(r)
    BY <1>2 DEF Node
  <1>4. /\ log'[r][Node(r)] # "none"
        /\ \A q \in Runs \ {r} : log'[q] = log[q]
    <2>1. log[r][Node(r)] # "none"
      BY <1>1 DEF RunInv, InputInv, Working
    <2>2. UNCHANGED log \/ \E result \in {"COMPLETE", "FAILED"} : Record(r, result)
      BY DEF Service, ServiceReturns, ServiceFails, SkipRetrieval, RetrievalFails,
             CompleteUnwritten, PersistenceEscapes, RaiseFatal, stateVars
    <2> QED
      BY <1>1, <2>1, <2>2, RecordEffect
  <1>5. \/ \E output : /\ Return(r, output)
                       /\ Provides[Node(r)] \ {"rag_context"} \subseteq output
        \/ Goto(r, "raised") /\ UNCHANGED <<fields, status>>
    <2>1. Provides["rag_retrieval_node"] \ {"rag_context"} = {}
          /\ Provides["persistence_node"] = {}
      BY DEF Provides
    <2>2. CASE ServiceReturns(r)
      BY <2>2 DEF ServiceReturns
    <2>3. CASE SkipRetrieval(r) \/ RetrievalFails(r) \/ CompleteUnwritten(r)
      BY <2>1, <2>3 DEF SkipRetrieval, RetrievalFails, CompleteUnwritten
    <2>4. CASE ServiceFails(r) \/ PersistenceEscapes(r)
      BY <2>4 DEF ServiceFails, PersistenceEscapes, RaiseFatal, stateVars
    <2> QED
      BY <2>2, <2>3, <2>4 DEF Service
  <1>6. ASSUME NEW output, Return(r, output),
               Provides[Node(r)] \ {"rag_context"} \subseteq output
        PROVE  RunInv(r)' /\ Others(r)
    <2>1. pc'[r] = "stage" /\ status'[r] = StatusAfter[Node(r)]
      BY <1>1, <1>6, ReturnEffect
    <2>2. CloneInv(r)' /\ PlaceInv(r)'
      BY <1>1, <1>2, <2>1 DEF RunInv, CloneInv, PlaceInv, Cloning
    <2>3. LeftBy(at[r] - 1) \subseteq fields'[r] /\ LeftBy(at[r]) \subseteq fields'[r]
      BY <1>1, <1>2, <1>6, ReturnInv
    <2>4. InputInv(r)' /\ StageInv(r)'
      BY <1>1, <1>2, <1>3, <1>4, <2>1, <2>3 DEF RunInv, InputInv, StageInv
    <2>5. Others(r)
      BY <1>1, <1>2, <1>4, <1>6, ReturnEffect DEF Others, Untouched
    <2> QED
      BY <2>2, <2>4, <2>5 DEF RunInv
  <1>7. CASE Goto(r, "raised") /\ UNCHANGED <<fields, status>>
    <2>1. pc'[r] = "raised"
      BY <1>1, <1>7, GotoEffect
    <2>2. CloneInv(r)' /\ PlaceInv(r)'
      BY <1>1, <1>2, <2>1 DEF RunInv, CloneInv, PlaceInv, Cloning
    <2>3. InputInv(r)' /\ StageInv(r)'
      BY <1>1, <1>2, <1>3, <1>4, <1>7, <2>1 DEF RunInv, InputInv, StageInv
    <2>4. Others(r)
      BY <1>1, <1>2, <1>4, <1>7, GotoEffect DEF Others, Untouched
    <2> QED
      BY <2>2, <2>3, <2>4 DEF RunInv
  <1> QED
    BY <1>5, <1>6, <1>7

\* git writes only while the worker waits, or after the server was killed.
LEMMA CloneThreadInv ==
    ASSUME IInv, NEW r \in Runs, CloneWrites(r) \/ CloneEnds(r)
    PROVE  RunInv(r)' /\ Others(r)
  <1>1. TypeOK /\ RunInv(r) /\ clone[r] = "running"
    BY DEF IInv, CloneWrites, CloneEnds
  <1>2. pc[r] = "killed" \/ (pc[r] \in Cloning /\ at[r] = 1)
    BY <1>1 DEF RunInv, CloneInv, PlaceInv
  <1>3. UNCHANGED <<pc, at, leaked, fields, status, log, stage>>
    BY DEF CloneWrites, CloneEnds, stateVars
  <1>4. /\ clone'[r] = "cloned" => disk'[r] = "whole"
        /\ \A q \in Runs \ {r} : clone'[q] = clone[q] /\ disk'[q] = disk[q]
    BY <1>1 DEF CloneWrites, CloneEnds, TypeOK
  <1>5. CloneInv(r)' /\ PlaceInv(r)'
    BY <1>1, <1>2, <1>3, <1>4 DEF RunInv, CloneInv, PlaceInv, Cloning
  <1>6. InputInv(r)' /\ StageInv(r)'
    <2>1. Node(r)' = Node(r)
      BY <1>3 DEF Node
    <2> QED
      BY <1>1, <1>3, <2>1 DEF RunInv, InputInv, StageInv
  <1>7. Others(r)
    BY <1>3, <1>4 DEF Others, Untouched
  <1> QED
    BY <1>5, <1>6, <1>7 DEF RunInv

\* A kill stops the workers where they are. Nothing is asked of a killed run.
LEMMA KillInv ==
    ASSUME IInv, Kill, NEW r \in Runs
    PROVE  RunInv(r)'
  <1>1. TypeOK /\ RunInv(r)
    BY DEF IInv
  <1>2. UNCHANGED <<at, clone, disk, leaked, fields, status, log, stage>>
    BY DEF Kill, dirVars, stateVars
  <1>3. CASE pc[r] \in Over
    <2>1. Untouched(r)
      BY <1>2, <1>3 DEF Kill, Untouched
    <2> QED
      BY <1>1, <2>1, UntouchedInv
  <1>4. CASE pc[r] \notin Over
    <2>1. pc'[r] = "killed"
      BY <1>4 DEF Kill
    <2>2. CloneInv(r)' /\ PlaceInv(r)'
      BY <1>1, <1>2, <2>1 DEF RunInv, CloneInv, PlaceInv, Cloning
    <2>3. InputInv(r)' /\ StageInv(r)'
      BY <1>1, <1>2, <2>1 DEF RunInv, InputInv, StageInv, Working, Cloning
    <2> QED
      BY <2>2, <2>3 DEF RunInv
  <1> QED
    BY <1>3, <1>4

-----------------------------------------------------------------------------
(* The invariant and what follows from it                                  *)

LEMMA NextInv == IInv /\ [Next]_vars => IInv'
  <1> SUFFICES ASSUME IInv, [Next]_vars PROVE IInv'
    OBVIOUS
  <1>1. TypeOK'
    BY NextType DEF IInv
  <1>2. ASSUME NEW r \in Runs, Worker(r) \/ CloneWrites(r) \/ CloneEnds(r) PROVE IInv'
    <2>1. CASE Ingest(r)
      BY <1>1, <2>1, OneRun, CloningInv, AcceptCloneInv, IngestFailsInv DEF Ingest
    <2>2. CASE PickUp(r) \/ Enter(r) \/ YieldChunk(r)
      BY <1>1, <2>2, OneRun, PickUpInv, EnterInv, YieldChunkInv
    <2>3. CASE Parse(r) \/ Sweep(r) \/ Service(r)
      BY <1>1, <2>3, OneRun, ParseInv, SweepInv, ServiceInv
    <2>4. CASE CloneWrites(r) \/ CloneEnds(r)
      BY <1>1, <2>4, OneRun, CloneThreadInv
    <2> QED
      BY <1>2, <2>1, <2>2, <2>3, <2>4 DEF Worker
  <1>3. CASE Kill
    BY <1>1, <1>3, KillInv DEF IInv
  <1>4. CASE UNCHANGED vars
    <2>1. \A r \in Runs : Untouched(r)
      BY <1>4 DEF vars, dirVars, stateVars, Untouched
    <2> QED
      BY <1>1, <2>1, UntouchedInv DEF IInv
  <1> QED
    BY <1>2, <1>3, <1>4 DEF Next

\* The invariant holds of every reachable state.
THEOREM Inductive == Spec => []IInv
  BY InitInv, NextInv, PTL DEF Spec

\* No clone thread outlives the step of IngestNode that waits for it, however the
\* timeout, the clone and the other runs interleave; only a kill leaves one.
THEOREM CloneConfinedHolds == Spec => []CloneConfined
  <1>1. IInv => CloneConfined
    BY DEF IInv, RunInv, CloneInv, CloneConfined
  <1> QED
    BY <1>1, Inductive, PTL

\* On every way out of IngestNode and ParseNode the clone directory is removed,
\* unless rmtree failed or the server was killed.
THEOREM CloneDirRemovedHolds == Spec => []CloneDirRemoved
  <1>1. IInv => CloneDirRemoved
    BY DEF IInv, RunInv, CloneInv, CloneDirRemoved
  <1> QED
    BY <1>1, Inductive, PTL

\* The parser, which takes what it cannot read for empty files, is only ever given
\* a whole clone.
THEOREM ParseReadsWholeCloneHolds == Spec => []ParseReadsWholeClone
  <1>1. IInv => ParseReadsWholeClone
    <2> SUFFICES ASSUME IInv, NEW r \in Runs, pc[r] = "work", Node(r) = "parse_node"
                 PROVE  disk[r] = "whole"
      BY DEF ParseReadsWholeClone
    <2>1. at[r] = 2
      BY NodeAt DEF IInv
    <2> QED
      BY <2>1 DEF IInv, RunInv, CloneInv
  <1> QED
    BY <1>1, Inductive, PTL

\* No node misses a field it requires: a run that raised did so after its node had
\* begun a record.
THEOREM InputsPresentHolds == Spec => []InputsPresent
  <1>1. IInv => InputsPresent
    BY DEF IInv, RunInv, InputInv, InputsPresent
  <1> QED
    BY <1>1, Inductive, PTL

-----------------------------------------------------------------------------
(* The audit trail: the invariant                                          *)

RagPosition == 5

\* A node the graph goes on from: COMPLETE, or the RAG node FAILED.
Passed(r, k) == \/ log[r][NodeOrder[k]] = "COMPLETE"
                \/ k = RagPosition /\ log[r][NodeOrder[k]] = "FAILED"

\* The node a run is at FAILED in a way that ends the run.
Doomed(r) == log[r][Node(r)] = "FAILED" /\ at[r] # RagPosition

\* The log follows the run through the graph,
PathInv(r) ==
    /\ \A k \in 1..8 : k < at[r] => Passed(r, k)
    /\ \A k \in 1..8 : k > at[r] => log[r][NodeOrder[k]] = "none"

\* and through each node.
StepInv(r) ==
    /\ pc[r] \in {"queued", "enter"} => log[r][Node(r)] = "none"
    /\ pc[r] \in Cloning \union {"submit", "check", "clean", "work"}
          => log[r][Node(r)] = "RUNNING"
    /\ pc[r] = "sweep" => log[r][Node(r)] \in {"COMPLETE", "FAILED"}
    /\ pc[r] \in {"stage", "returned"} => Passed(r, at[r])
    /\ pc[r] = "returned" => at[r] = 8
    /\ pc[r] = "raised" => Doomed(r) \/ (at[r] = 8 /\ log[r][Node(r)] = "RUNNING")

LogInv(r) == PathInv(r) /\ StepInv(r)

\* The errors list has a fatal error for a run that is doomed, its last, and one
\* of the RAG node for a retrieval that failed.
ErrorsInv(r) ==
    /\ \A i \in 1..Len(errors[r]) :
          i < Len(errors[r]) \/ ~Doomed(r) => errors[r][i].severity = "nonfatal"
    /\ Doomed(r) => /\ Len(errors[r]) > 0
                    /\ errors[r][Len(errors[r])].severity = "fatal"
                    /\ errors[r][Len(errors[r])].node = Node(r)
    /\ log[r]["rag_retrieval_node"] = "FAILED"
          <=> \E i \in 1..Len(errors[r]) : errors[r][i].node = "rag_retrieval_node"

AuditInv == \A r \in Runs : LogInv(r) /\ ErrorsInv(r)

LEMMA Positions ==
    /\ \A i, j \in 1..8 : NodeOrder[i] = NodeOrder[j] <=> i = j
    /\ \A i \in 1..8 : /\ NodeOrder[i] = "rag_retrieval_node" <=> i = RagPosition
                       /\ NodeOrder[i] = "persistence_node" <=> i = 8
    /\ RagPosition = 5
  BY NodePositions DEF RagPosition

LEMMA InitAudit == Init => AuditInv
  <1> SUFFICES ASSUME Init, NEW r \in Runs PROVE LogInv(r) /\ ErrorsInv(r)
    BY DEF AuditInv
  <1>1. /\ pc[r] = "queued" /\ at[r] = 1 /\ errors[r] = <<>>
        /\ \A n \in NodeNames : log[r][n] = "none"
    BY DEF Init
  <1>2. /\ \A k \in 1..8 : log[r][NodeOrder[k]] = "none"
        /\ log[r]["rag_retrieval_node"] = "none"
    BY <1>1, GraphShape
  <1>3. log[r][Node(r)] = "none"
    BY <1>1, <1>2 DEF Node
  <1>4. LogInv(r)
    BY <1>1, <1>2, <1>3 DEF LogInv, PathInv, StepInv, Cloning
  <1>5. Len(errors[r]) = 0 /\ 1..0 = {}
    BY <1>1
  <1>6. ErrorsInv(r)
    BY <1>2, <1>3, <1>5 DEF ErrorsInv, Doomed
  <1> QED
    BY <1>4, <1>6

-----------------------------------------------------------------------------
(* What a step does to the trail of its run                                *)

\* A record of the node the run is at touches no other record.
LEMMA RecordAt ==
    ASSUME TypeOK, NEW r \in Runs, NEW result, Record(r, result), UNCHANGED at
    PROVE  /\ \A k \in 1..8 : log'[r][NodeOrder[k]]
                                = IF k = at[r] THEN result ELSE log[r][NodeOrder[k]]
           /\ log'[r][Node(r)'] = result
  <1>1. /\ log[r] \in [NodeNames -> LogStates] /\ DOMAIN log = Runs
        /\ Node(r) = NodeOrder[at[r]] /\ Node(r)' = Node(r) /\ at[r] \in 1..8
    BY NodeTyped DEF TypeOK, Node
  <1>2. log' = [log EXCEPT ![r] = [log[r] EXCEPT ![Node(r)] = result]]
    BY <1>1 DEF Record
  <1>3. \A n \in NodeNames : log'[r][n] = IF n = Node(r) THEN result ELSE log[r][n]
    BY <1>1, <1>2
  <1> QED
    BY <1>1, <1>3, Positions, GraphShape

LEMMA AppendAt ==
    ASSUME TypeOK, NEW r \in Runs, NEW severity, AppendError(r, severity)
    PROVE  /\ Len(errors[r]) \in Nat
           /\ Len(errors'[r]) = Len(errors[r]) + 1
           /\ \A i \in 1..Len(errors[r]) : errors'[r][i] = errors[r][i]
           /\ errors'[r][Len(errors'[r])].severity = severity
           /\ errors'[r][Len(errors'[r])].node = Node(r)
           /\ \A q \in Runs \ {r} : errors'[q] = errors[q]
  <1>1. errors[r] \in Seq(ErrorRecords) /\ DOMAIN errors = Runs
    BY DEF TypeOK
  <1> DEFINE e == [node |-> Node(r), severity |-> severity]
  <1>2. errors' = [errors EXCEPT ![r] = Append(errors[r], e)]
    BY <1>1 DEF AppendError
  <1>3. errors'[r] = Append(errors[r], e)
    BY <1>1, <1>2
  <1>4. e.node = Node(r) /\ e.severity = severity
    OBVIOUS
  <1> HIDE DEF e
  <1>5. /\ Len(errors[r]) \in Nat
        /\ Len(Append(errors[r], e)) = Len(errors[r]) + 1
        /\ \A i \in 1..Len(errors[r]) : Append(errors[r], e)[i] = errors[r][i]
        /\ Append(errors[r], e)[Len(errors[r]) + 1] = e
    BY <1>1
  <1> QED
    BY <1>1, <1>2, <1>3, <1>4, <1>5

LEMMA RagRecord ==
    ASSUME TypeOK, NEW r \in Runs
    PROVE  /\ log[r]["rag_retrieval_node"] = log[r][NodeOrder[RagPosition]]
           /\ Node(r) = NodeOrder[at[r]] /\ at[r] \in 1..8
  BY NodePositions, NodeTyped DEF RagPosition, Node

\* The step leaves the trail alone and moves the run within its node.
LEMMA QuietStep ==
    ASSUME TypeOK, NEW r \in Runs, LogInv(r), ErrorsInv(r),
           log'[r] = log[r], errors'[r] = errors[r], at'[r] = at[r],
           \/ pc'[r] = pc[r] \/ pc'[r] = "killed"
           \/ pc[r] = "queued" /\ pc'[r] = "enter"
           \/ /\ pc[r] \in Cloning \union {"submit", "check"}
              /\ pc'[r] \in Cloning \union {"check", "clean"}
           \/ pc[r] = "work" /\ at[r] = 8 /\ pc'[r] = "raised"
    PROVE  LogInv(r)' /\ ErrorsInv(r)'
  <1>1. Node(r)' = Node(r)
    BY DEF Node
  <1>2. LogInv(r)'
    BY <1>1 DEF LogInv, PathInv, StepInv, Passed, Doomed, Cloning
  <1>3. ErrorsInv(r)'
    BY <1>1 DEF ErrorsInv, Doomed
  <1> QED
    BY <1>2, <1>3

\* The node a run is at begins its record, or completes it.
LEMMA RecordStep ==
    ASSUME TypeOK, NEW r \in Runs, LogInv(r), ErrorsInv(r), UNCHANGED at,
           errors'[r] = errors[r],
           NEW result, Record(r, result),
           \/ /\ result = "RUNNING" /\ pc[r] = "enter"
              /\ pc'[r] \in {"submit", "work"}
           \/ /\ result = "COMPLETE" /\ pc[r] \in {"check", "work"}
              /\ pc'[r] \in {"stage", "sweep"}
    PROVE  LogInv(r)' /\ ErrorsInv(r)'
  <1>1. /\ \A k \in 1..8 : log'[r][NodeOrder[k]]
                             = IF k = at[r] THEN result ELSE log[r][NodeOrder[k]]
        /\ log'[r][Node(r)'] = result
    BY RecordAt
  <1>2. log[r][Node(r)] \in {"none", "RUNNING"} /\ result \in {"RUNNING", "COMPLETE"}
    BY DEF LogInv, PathInv, StepInv
  <1>3. at[r] \in 1..8 /\ at'[r] = at[r] /\ Node(r) = NodeOrder[at[r]]
    BY RagRecord
  <1>4. LogInv(r)'
    BY <1>1, <1>3 DEF LogInv, PathInv, StepInv, Passed, Doomed, Cloning
  <1>5. ErrorsInv(r)'
    <2>1. ~Doomed(r) /\ ~Doomed(r)'
      BY <1>1, <1>2 DEF Doomed
    <2>2. log'[r]["rag_retrieval_node"] = "FAILED" <=> log[r]["rag_retrieval_node"] = "FAILED"
      BY <1>1, <1>2, <1>3, RagRecord, NodePositions DEF RagPosition
    <2> QED
      BY <2>1, <2>2 DEF ErrorsInv
  <1> QED
    BY <1>4, <1>5

\* A node fails, and the run with it.
LEMMA FatalStep ==
    ASSUME TypeOK, NEW r \in Runs, LogInv(r), ErrorsInv(r), UNCHANGED at,
           RaiseFatal(r), Node(r) # "rag_retrieval_node",
           pc[r] \in {"submit", "clean", "work"}, pc'[r] \in {"raised", "sweep"}
    PROVE  LogInv(r)' /\ ErrorsInv(r)'
  <1>1. /\ \A k \in 1..8 : log'[r][NodeOrder[k]]
                             = IF k = at[r] THEN "FAILED" ELSE log[r][NodeOrder[k]]
        /\ log'[r][Node(r)'] = "FAILED"
    BY RecordAt DEF RaiseFatal
  <1>2. at[r] \in 1..8 /\ at'[r] = at[r] /\ Node(r)' = Node(r) /\ at[r] # RagPosition
    BY RagRecord, Positions DEF Node
  <1>3. log[r][Node(r)] = "RUNNING"
    BY DEF LogInv, PathInv, StepInv
  <1>4. ~Doomed(r) /\ Doomed(r)'
    BY <1>1, <1>2, <1>3 DEF Doomed
  <1>5. LogInv(r)'
    <2>1. \A k \in 1..8 : k < at'[r] => Passed(r, k)'
      BY <1>1, <1>2 DEF LogInv, PathInv, StepInv, Passed
    <2>2. \A k \in 1..8 : k > at'[r] => log'[r][NodeOrder[k]] = "none"
      BY <1>1, <1>2 DEF LogInv, PathInv, StepInv
    <2>3. PathInv(r)'
      BY <2>1, <2>2 DEF PathInv
    <2>4. log'[r][Node(r)'] = "FAILED"
      BY <1>1
    <2>5. StepInv(r)'
      BY <1>4, <2>4 DEF StepInv, Cloning
    <2> QED
      BY <2>3, <2>5 DEF LogInv
  <1>6. ErrorsInv(r)'
    <2>1. /\ Len(errors[r]) \in Nat /\ Len(errors'[r]) = Len(errors[r]) + 1
          /\ \A i \in 1..Len(errors[r]) : errors'[r][i] = errors[r][i]
          /\ errors'[r][Len(errors'[r])].severity = "fatal"
          /\ errors'[r][Len(errors'[r])].node = Node(r)
      BY AppendAt DEF RaiseFatal
    <2>2. log'[r]["rag_retrieval_node"] = log[r]["rag_retrieval_node"]
      BY <1>1, <1>2, NodePositions DEF RagPosition
    <2>3. \A i \in 1..Len(errors'[r]) :
              i < Len(errors'[r]) => errors'[r][i].severity = "nonfatal"
      BY <1>4, <2>1 DEF ErrorsInv
    <2>4. (\E i \in 1..Len(errors'[r]) : errors'[r][i].node = "rag_retrieval_node")
            <=> (\E i \in 1..Len(errors[r]) : errors[r][i].node = "rag_retrieval_node")
      <3>1. \A i \in 1..Len(errors'[r]) :
                errors'[r][i].node = "rag_retrieval_node" => i \in 1..Len(errors[r])
        BY <2>1
      <3>2. 1..Len(errors[r]) \subseteq 1..Len(errors'[r])
        BY <2>1
      <3> QED
        BY <2>1, <3>1, <3>2
    <2> QED
      BY <1>2, <1>4, <2>1, <2>2, <2>3, <2>4 DEF ErrorsInv
  <1> QED
    BY <1>5, <1>6

\* A node reports an error and the run goes on: the retrieval failed, or the job
\* row could not be written.
LEMMA NonfatalStep ==
    ASSUME TypeOK, NEW r \in Runs, LogInv(r), ErrorsInv(r), UNCHANGED at,
           AppendError(r, "nonfatal"), NEW result, Record(r, result),
           \/ Node(r) = "rag_retrieval_node" /\ result = "FAILED"
           \/ Node(r) = "persistence_node" /\ result = "COMPLETE",
           pc[r] = "work", pc'[r] = "stage"
    PROVE  LogInv(r)' /\ ErrorsInv(r)'
  <1>1. /\ \A k \in 1..8 : log'[r][NodeOrder[k]]
                             = IF k = at[r] THEN result ELSE log[r][NodeOrder[k]]
        /\ log'[r][Node(r)'] = result
    BY RecordAt
  <1>2. /\ at[r] \in 1..8 /\ at'[r] = at[r] /\ Node(r)' = Node(r)
        /\ at[r] = RagPosition <=> Node(r) = "rag_retrieval_node"
    BY RagRecord, Positions DEF Node
  <1>3. log[r][Node(r)] = "RUNNING"
    BY DEF LogInv, PathInv, StepInv
  <1>4. ~Doomed(r) /\ ~Doomed(r)'
    BY <1>1, <1>2, <1>3 DEF Doomed
  <1>5. LogInv(r)'
    <2>1. \A k \in 1..8 : k < at'[r] => Passed(r, k)'
      BY <1>1, <1>2 DEF LogInv, PathInv, StepInv, Passed
    <2>2. \A k \in 1..8 : k > at'[r] => log'[r][NodeOrder[k]] = "none"
      BY <1>1, <1>2 DEF LogInv, PathInv, StepInv
    <2>3. PathInv(r)'
      BY <2>1, <2>2 DEF PathInv
    <2>4. Passed(r, at[r])'
      BY <1>1, <1>2 DEF Passed
    <2>5. StepInv(r)'
      BY <1>2, <2>4 DEF StepInv, Cloning
    <2> QED
      BY <2>3, <2>5 DEF LogInv
  <1>6. ErrorsInv(r)'
    <2>1. /\ Len(errors[r]) \in Nat /\ Len(errors'[r]) = Len(errors[r]) + 1
          /\ \A i \in 1..Len(errors[r]) : errors'[r][i] = errors[r][i]
          /\ errors'[r][Len(errors'[r])].severity = "nonfatal"
          /\ errors'[r][Len(errors'[r])].node = Node(r)
      BY AppendAt
    <2>2. \A i \in 1..Len(errors'[r]) : errors'[r][i].severity = "nonfatal"
      <3>1. \A i \in 1..Len(errors[r]) : errors[r][i].severity = "nonfatal"
        BY <1>4 DEF ErrorsInv
      <3>2. \A i \in 1..Len(errors'[r]) : i \in 1..Len(errors[r]) \/ i = Len(errors'[r])
        BY <2>1
      <3> QED
        BY <2>1, <3>1, <3>2
    <2>3. log'[r]["rag_retrieval_node"] = "FAILED"
            <=> \E i \in 1..Len(errors'[r]) : errors'[r][i].node = "rag_retrieval_node"
      <3>1. CASE Node(r) = "rag_retrieval_node"
        <4>1. log'[r]["rag_retrieval_node"] = "FAILED"
          BY <1>1, <1>2, <3>1
        <4>2. Len(errors'[r]) \in 1..Len(errors'[r])
          BY <2>1
        <4> QED
          BY <2>1, <3>1, <4>1, <4>2
      <3>2. CASE Node(r) = "persistence_node"
        <4>1. log'[r]["rag_retrieval_node"] = log[r]["rag_retrieval_node"]
          BY <1>1, <1>2, <3>2, NodePositions DEF RagPosition
        <4>2. (\E i \in 1..Len(errors'[r]) : errors'[r][i].node = "rag_retrieval_node")
                <=> (\E i \in 1..Len(errors[r]) : errors[r][i].node = "rag_retrieval_node")
          <5>1. \A i \in 1..Len(errors'[r]) :
                    errors'[r][i].node = "rag_retrieval_node" => i \in 1..Len(errors[r])
            BY <2>1, <3>2
          <5>2. 1..Len(errors[r]) \subseteq 1..Len(errors'[r])
            BY <2>1
          <5> QED
            BY <2>1, <5>1, <5>2
        <4> QED
          BY <4>1, <4>2 DEF ErrorsInv
      <3> QED
        BY <3>1, <3>2
    <2> QED
      BY <1>4, <2>2, <2>3 DEF ErrorsInv
  <1> QED
    BY <1>5, <1>6

-----------------------------------------------------------------------------
(* The audit trail: the steps                                              *)

\* The record of ParseNode decides between its return and its exception.
LEMMA SweepAudit ==
    ASSUME IInv, NEW r \in Runs, LogInv(r), ErrorsInv(r), Sweep(r)
    PROVE  LogInv(r)' /\ ErrorsInv(r)'
  <1>1. TypeOK /\ pc[r] = "sweep" /\ at[r] = 2 /\ UNCHANGED <<at, log, errors>>
    BY DEF IInv, Sweep, RunInv, PlaceInv
  <1>2. Node(r)' = Node(r) /\ Node(r) = NodeOrder[at[r]]
    BY <1>1 DEF Node
  <1>3. \/ log[r][Node(r)] = "COMPLETE" /\ pc'[r] = "stage"
        \/ log[r][Node(r)] = "FAILED" /\ pc'[r] = "raised"
    BY <1>1, ReturnEffect, GotoEffect DEF Sweep
  <1>4. LogInv(r)'
    BY <1>1, <1>2, <1>3 DEF LogInv, PathInv, StepInv, Passed, Doomed, Cloning, RagPosition
  <1>5. ErrorsInv(r)'
    BY <1>1, <1>2 DEF ErrorsInv, Doomed
  <1> QED
    BY <1>4, <1>5

\* The run goes on to a node that has no record yet.
LEMMA YieldChunkAudit ==
    ASSUME IInv, NEW r \in Runs, LogInv(r), ErrorsInv(r), YieldChunk(r)
    PROVE  LogInv(r)' /\ ErrorsInv(r)'
  <1>1. TypeOK /\ pc[r] = "stage" /\ UNCHANGED <<log, errors>>
    BY DEF IInv, YieldChunk, stateVars
  <1>2. /\ at[r] \in 1..8 /\ Node(r) = NodeOrder[at[r]]
        /\ \/ at'[r] = at[r] + 1 /\ at[r] < 8 /\ pc'[r] = "enter"
           \/ at'[r] = at[r] /\ at[r] = 8 /\ pc'[r] = "returned"
    BY <1>1, RagRecord, GotoEffect, GraphShape DEF YieldChunk, TypeOK
  <1>3. Node(r)' = NodeOrder[at'[r]] /\ at'[r] \in 1..8
    BY <1>2 DEF Node
  <1>4. Passed(r, at[r])
    BY <1>1 DEF LogInv, PathInv, StepInv
  <1>5. LogInv(r)'
    <2>1. CASE at'[r] = at[r] + 1 /\ pc'[r] = "enter"
      <3>1. \A k \in 1..8 : k < at'[r] => Passed(r, k)'
        <4>1. \A k \in 1..8 : k < at'[r] => k < at[r] \/ k = at[r]
          BY <1>2, <2>1
        <4> QED
          BY <1>1, <1>4, <4>1 DEF LogInv, PathInv, StepInv, Passed
      <3>2. \A k \in 1..8 : k > at'[r] => log'[r][NodeOrder[k]] = "none"
        BY <1>1, <1>2, <2>1 DEF LogInv, PathInv, StepInv
      <3>3. log'[r][Node(r)'] = "none"
        BY <1>1, <1>2, <1>3, <2>1 DEF LogInv, PathInv, StepInv
      <3> QED
        BY <2>1, <3>1, <3>2, <3>3 DEF LogInv, PathInv, StepInv, Cloning
    <2>2. CASE at'[r] = at[r] /\ at[r] = 8 /\ pc'[r] = "returned"
      BY <1>1, <1>2, <1>3, <2>2 DEF LogInv, PathInv, StepInv, Passed, Cloning
    <2> QED
      BY <1>2, <2>1, <2>2
  <1>6. ~Doomed(r) /\ ~Doomed(r)'
    <2>1. ~Doomed(r)
      BY <1>2, <1>4 DEF Passed, Doomed
    <2>2. CASE at'[r] = at[r] + 1 /\ pc'[r] = "enter"
      BY <1>5, <2>1, <2>2 DEF LogInv, PathInv, StepInv, Doomed
    <2>3. CASE at'[r] = at[r]
      BY <1>1, <1>2, <1>3, <2>1, <2>3 DEF Doomed
    <2> QED
      BY <1>2, <2>1, <2>2, <2>3
  <1>7. ErrorsInv(r)'
    BY <1>1, <1>6 DEF ErrorsInv
  <1> QED
    BY <1>5, <1>7

\* What the services of the nodes return or raise.
LEMMA ServiceAudit ==
    ASSUME IInv, NEW r \in Runs, LogInv(r), ErrorsInv(r), Service(r)
    PROVE  LogInv(r)' /\ ErrorsInv(r)'
  <1>1. TypeOK /\ pc[r] = "work" /\ UNCHANGED at
    BY DEF IInv, Service, ServiceReturns, ServiceFails, SkipRetrieval, RetrievalFails,
           CompleteUnwritten, PersistenceEscapes, Serving
  <1>2. CASE ServiceReturns(r) \/ SkipRetrieval(r)
    <2>1. Record(r, "COMPLETE") /\ UNCHANGED errors /\ pc'[r] = "stage"
      BY <1>1, <1>2, ReturnEffect DEF ServiceReturns, SkipRetrieval
    <2> QED
      BY <1>1, <2>1, RecordStep
  <1>3. CASE ServiceFails(r)
    <2>1. RaiseFatal(r) /\ Node(r) # "rag_retrieval_node" /\ pc'[r] = "raised"
      BY <1>1, <1>3, GotoEffect DEF ServiceFails
    <2> QED
      BY <1>1, <2>1, FatalStep
  <1>4. CASE RetrievalFails(r)
    <2>1. /\ AppendError(r, "nonfatal") /\ Record(r, "FAILED")
          /\ Node(r) = "rag_retrieval_node" /\ pc'[r] = "stage"
      BY <1>1, <1>4, ReturnEffect DEF RetrievalFails
    <2> QED
      BY <1>1, <2>1, NonfatalStep
  <1>5. CASE CompleteUnwritten(r)
    <2>1. /\ AppendError(r, "nonfatal") /\ Record(r, "COMPLETE")
          /\ Node(r) = "persistence_node" /\ pc'[r] = "stage"
      BY <1>1, <1>5, ReturnEffect DEF CompleteUnwritten
    <2> QED
      BY <1>1, <2>1, NonfatalStep
  <1>6. CASE PersistenceEscapes(r)
    <2>1. /\ UNCHANGED <<log, errors>> /\ pc'[r] = "raised"
          /\ Node(r) = "persistence_node"
      BY <1>1, <1>6, GotoEffect DEF PersistenceEscapes, stateVars
    <2>2. at[r] = 8
      BY <1>1, <2>1, RagRecord, Positions
    <2> QED
      BY <1>1, <2>1, <2>2, QuietStep
  <1> QED
    BY <1>2, <1>3, <1>4, <1>5, <1>6 DEF Service

LEMMA IngestAudit ==
    ASSUME IInv, NEW r \in Runs, LogInv(r), ErrorsInv(r), Ingest(r)
    PROVE  LogInv(r)' /\ ErrorsInv(r)'
  <1>1. TypeOK /\ UNCHANGED at
    BY DEF IInv, Ingest, SubmitClone, RefuseThread, RefuseClone, AwaitClone, TimeOut,
           JoinClone, AcceptClone, RejectClone, CleanUp
  <1>2. CASE \/ SubmitClone(r) \/ RefuseThread(r) \/ AwaitClone(r) \/ TimeOut(r)
             \/ JoinClone(r) \/ RejectClone(r)
    <2>1. /\ UNCHANGED <<log, errors>>
          /\ pc[r] \in Cloning \union {"submit", "check"}
          /\ pc'[r] \in Cloning \union {"check", "clean"}
      BY <1>1, <1>2, GotoEffect
         DEF SubmitClone, RefuseThread, AwaitClone, TimeOut, JoinClone, RejectClone,
             stateVars, Cloning
    <2> QED
      BY <1>1, <2>1, QuietStep
  <1>3. CASE AcceptClone(r)
    <2>1. /\ Record(r, "COMPLETE") /\ UNCHANGED errors
          /\ pc[r] = "check" /\ pc'[r] = "stage"
      BY <1>1, <1>3, ReturnEffect DEF AcceptClone
    <2> QED
      BY <1>1, <2>1, RecordStep
  <1>4. CASE RefuseClone(r) \/ CleanUp(r)
    <2>1. RaiseFatal(r) /\ pc[r] \in {"submit", "clean"} /\ pc'[r] = "raised"
      BY <1>1, <1>4, GotoEffect DEF RefuseClone, CleanUp
    <2>2. Node(r) # "rag_retrieval_node"
      <3>1. at[r] = 1
        BY <2>1 DEF IInv, RunInv, PlaceInv
      <3> QED
        BY <1>1, <3>1, NodeAt
    <2> QED
      BY <1>1, <2>1, <2>2, FatalStep
  <1> QED
    BY <1>2, <1>3, <1>4 DEF Ingest

LEMMA ParseAudit ==
    ASSUME IInv, NEW r \in Runs, LogInv(r), ErrorsInv(r), Parse(r)
    PROVE  LogInv(r)' /\ ErrorsInv(r)'
  <1>1. /\ TypeOK /\ UNCHANGED at /\ pc[r] = "work" /\ pc'[r] = "sweep"
        /\ Node(r) = "parse_node"
    BY GotoEffect DEF IInv, Parse
  <1>2. CASE Record(r, "COMPLETE") /\ UNCHANGED errors
    BY <1>1, <1>2, RecordStep
  <1>3. CASE RaiseFatal(r)
    BY <1>1, <1>3, FatalStep
  <1> QED
    BY <1>2, <1>3 DEF Parse

\* A node finds its inputs, so that its record begins.
LEMMA EnterAudit ==
    ASSUME IInv, NEW r \in Runs, LogInv(r), ErrorsInv(r), Enter(r)
    PROVE  LogInv(r)' /\ ErrorsInv(r)'
  <1>1. TypeOK /\ RunInv(r) /\ pc[r] = "enter" /\ UNCHANGED <<at, errors>>
    BY DEF IInv, Enter
  <1>2. Requires[Node(r)] \subseteq fields[r]
    BY <1>1, InputsLeft, NodeTyped DEF RunInv, InputInv, Node
  <1>3. Record(r, "RUNNING") /\ pc'[r] \in {"submit", "work"}
    BY <1>1, <1>2, GotoEffect DEF Enter
  <1> QED
    BY <1>1, <1>3, RecordStep

\* The errors list of a run is written by its own worker.
LEMMA ErrorsApart ==
    ASSUME TypeOK, NEW r \in Runs, Worker(r) \/ CloneWrites(r) \/ CloneEnds(r),
           NEW q \in Runs \ {r}
    PROVE  errors'[q] = errors[q]
  <1>1. UNCHANGED errors \/ \E severity \in {"fatal", "nonfatal"} : AppendError(r, severity)
    BY DEF Worker, PickUp, Enter, YieldChunk, Ingest, SubmitClone, RefuseThread,
           RefuseClone, AwaitClone, TimeOut, JoinClone, AcceptClone, RejectClone, CleanUp,
           Parse, Sweep, Service, ServiceReturns, ServiceFails, SkipRetrieval,
           RetrievalFails, CompleteUnwritten, PersistenceEscapes, CloneWrites, CloneEnds,
           RaiseFatal, stateVars
  <1> QED
    BY <1>1, AppendAt

LEMMA NextAudit == IInv /\ AuditInv /\ [Next]_vars => AuditInv'
  <1> SUFFICES ASSUME IInv, AuditInv, [Next]_vars, NEW q \in Runs
               PROVE  LogInv(q)' /\ ErrorsInv(q)'
    BY DEF AuditInv
  <1>1. TypeOK /\ LogInv(q) /\ ErrorsInv(q)
    BY DEF IInv, AuditInv
  <1>2. ASSUME NEW r \in Runs, Worker(r) \/ CloneWrites(r) \/ CloneEnds(r), q # r
        PROVE  LogInv(q)' /\ ErrorsInv(q)'
    <2>1. Others(r)
      BY <1>2, PickUpInv, EnterInv, YieldChunkInv, CloningInv, AcceptCloneInv,
         IngestFailsInv, ParseInv, SweepInv, ServiceInv, CloneThreadInv DEF Worker, Ingest
    <2>2. errors'[q] = errors[q]
      BY <1>1, <1>2, ErrorsApart
    <2>3. pc'[q] = pc[q] /\ at'[q] = at[q] /\ log'[q] = log[q]
      BY <1>2, <2>1 DEF Others, Untouched
    <2> QED
      BY <1>1, <2>2, <2>3, QuietStep
  <1>3. ASSUME Worker(q)
        PROVE  LogInv(q)' /\ ErrorsInv(q)'
    <2>1. CASE PickUp(q)
      <3>1. UNCHANGED <<log, errors, at>> /\ pc[q] = "queued" /\ pc'[q] = "enter"
        BY <1>1, <2>1, GotoEffect DEF PickUp, stateVars
      <3> QED
        BY <1>1, <3>1, QuietStep
    <2> QED
      BY <1>1, <1>3, <2>1, EnterAudit, YieldChunkAudit, IngestAudit, ParseAudit,
         SweepAudit, ServiceAudit DEF Worker
  <1>4. ASSUME CloneWrites(q) \/ CloneEnds(q) \/ Kill \/ UNCHANGED vars
        PROVE  LogInv(q)' /\ ErrorsInv(q)'
    <2>1. UNCHANGED <<log, errors, at>> /\ (pc'[q] = pc[q] \/ pc'[q] = "killed")
      BY <1>4 DEF CloneWrites, CloneEnds, Kill, vars, dirVars, stateVars
    <2> QED
      BY <1>1, <2>1, QuietStep
  <1> QED
    BY <1>2, <1>3, <1>4 DEF Next

\* The trail of every run is in order in every reachable state.
THEOREM AuditTrail == Spec => []AuditInv
  BY InitAudit, NextAudit, Inductive, PTL DEF Spec

-----------------------------------------------------------------------------
(* What the trail says of a run that is over                               *)

LEMMA NodeOfName ==
    ASSUME NEW n \in NodeNames
    PROVE  \E k \in 1..8 : n = NodeOrder[k]
  BY GraphShape, NodePositions

LEMMA TrailTells == IInv /\ AuditInv => OutcomeIsRecorded
  <1> SUFFICES ASSUME IInv, AuditInv, NEW r \in Runs
               PROVE
        LET failed == {n \in NodeNames : log[r][n] = "FAILED"} \ {"rag_retrieval_node"}
            fatal  == {i \in DOMAIN errors[r] : errors[r][i].severity = "fatal"}
            erred  == {errors[r][i].node : i \in DOMAIN errors[r]}
        IN  /\ pc[r] \in {"returned", "raised"} =>
                  (log[r]["rag_retrieval_node"] = "FAILED"
                     <=> "rag_retrieval_node" \in erred)
            /\ pc[r] = "returned" =>
                  /\ failed = {} /\ fatal = {}
                  /\ \A n \in NodeNames \ {"rag_retrieval_node"} : log[r][n] = "COMPLETE"
            /\ pc[r] = "raised" =>
                  \/ failed = {Node(r)} /\ fatal = {Len(errors[r])}
                                        /\ errors[r][Len(errors[r])].node = Node(r)
                  \/ failed = {} /\ fatal = {} /\ Node(r) = "persistence_node"
    BY DEF OutcomeIsRecorded
  <1> DEFINE failed == {n \in NodeNames : log[r][n] = "FAILED"} \ {"rag_retrieval_node"}
             fatal  == {i \in DOMAIN errors[r] : errors[r][i].severity = "fatal"}
             erred  == {errors[r][i].node : i \in DOMAIN errors[r]}
  <1>1. /\ TypeOK /\ LogInv(r) /\ ErrorsInv(r)
        /\ at[r] \in 1..8 /\ Node(r) = NodeOrder[at[r]] /\ Node(r) \in NodeNames
    BY RagRecord, NodeTyped DEF IInv, AuditInv
  <1>2. DOMAIN errors[r] = 1..Len(errors[r]) /\ Len(errors[r]) \in Nat
    BY <1>1 DEF TypeOK
  <1>3. log[r]["rag_retrieval_node"] = "FAILED" <=> "rag_retrieval_node" \in erred
    BY <1>1, <1>2 DEF ErrorsInv
  <1>4. ~Doomed(r) => fatal = {}
    BY <1>1, <1>2 DEF ErrorsInv
  <1>5. Doomed(r) => /\ fatal = {Len(errors[r])}
                     /\ errors[r][Len(errors[r])].node = Node(r)
    <2> SUFFICES ASSUME Doomed(r) PROVE fatal = {Len(errors[r])}
      BY <1>1 DEF ErrorsInv
    <2>1. Len(errors[r]) \in fatal
      BY <1>1, <1>2 DEF ErrorsInv
    <2>2. \A i \in fatal : i = Len(errors[r])
      BY <1>1, <1>2 DEF ErrorsInv
    <2> QED
      BY <2>1, <2>2
  <1>6. \A n \in failed : n = Node(r) /\ pc[r] \notin {"returned"}
    <2> SUFFICES ASSUME NEW n \in failed PROVE n = Node(r) /\ pc[r] # "returned"
      OBVIOUS
    <2>1. PICK k \in 1..8 : n = NodeOrder[k]
      BY NodeOfName
    <2>2. k # RagPosition /\ log[r][NodeOrder[k]] = "FAILED"
      BY <2>1, Positions
    <2>3. ~Passed(r, k) /\ log[r][NodeOrder[k]] # "none"
      BY <2>2 DEF Passed
    <2>4. ~(k < at[r]) /\ ~(k > at[r])
      BY <1>1, <2>3 DEF LogInv, PathInv, StepInv
    <2>5. k = at[r]
      BY <1>1, <2>4
    <2> QED
      BY <1>1, <2>1, <2>3, <2>5 DEF LogInv, PathInv, StepInv
  <1>7. ASSUME pc[r] = "returned"
        PROVE  /\ failed = {} /\ fatal = {}
               /\ \A n \in NodeNames \ {"rag_retrieval_node"} : log[r][n] = "COMPLETE"
    <2>1. failed = {}
      BY <1>6, <1>7
    <2>2. at[r] = 8 /\ Passed(r, 8)
      BY <1>1, <1>7 DEF LogInv, PathInv, StepInv
    <2>3. ~Doomed(r)
      BY <1>1, <2>2 DEF Passed, Doomed, RagPosition
    <2>4. \A k \in 1..8 : Passed(r, k)
      BY <1>1, <2>2 DEF LogInv, PathInv, StepInv
    <2>5. ASSUME NEW n \in NodeNames \ {"rag_retrieval_node"}
          PROVE  log[r][n] = "COMPLETE"
      <3>1. PICK k \in 1..8 : n = NodeOrder[k]
        BY NodeOfName
      <3>2. k # RagPosition
        BY <3>1, Positions
      <3> QED
        BY <2>4, <3>1, <3>2 DEF Passed
    <2> QED
      BY <1>4, <2>1, <2>3, <2>5
  <1>8. ASSUME pc[r] = "raised"
        PROVE  \/ failed = {Node(r)} /\ fatal = {Len(errors[r])}
                                     /\ errors[r][Len(errors[r])].node = Node(r)
               \/ failed = {} /\ fatal = {} /\ Node(r) = "persistence_node"
    <2>1. CASE Doomed(r)
      <3>1. Node(r) \in failed
        BY <1>1, <2>1, Positions DEF Doomed
      <3>2. failed = {Node(r)}
        BY <1>6, <3>1
      <3> QED
        BY <1>5, <2>1, <3>2
    <2>2. CASE ~Doomed(r)
      <3>1. at[r] = 8 /\ log[r][Node(r)] = "RUNNING"
        BY <1>1, <1>8, <2>2 DEF LogInv, PathInv, StepInv
      <3>2. Node(r) \notin failed /\ Node(r) = "persistence_node"
        BY <1>1, <3>1, NodePositions
      <3>3. failed = {}
        BY <1>6, <3>2
      <3> QED
        BY <1>4, <2>2, <3>2, <3>3
    <2> QED
      BY <2>1, <2>2
  <1> QED
    BY <1>3, <1>7, <1>8

\* The audit trail tells how a run ended: a run that returned has every node
\* COMPLETE but perhaps the RAG node, and one that raised has one fatal error, of
\* the one node that FAILED, unless an exception escaped PersistenceNode.
THEOREM OutcomeIsRecordedHolds == Spec => []OutcomeIsRecorded
  BY TrailTells, Inductive, AuditTrail, PTL

-----------------------------------------------------------------------------
(* The stage on the job page                                               *)

\* The node in hand is the one the run is at, with the node before it announced
\* and its own chunk still to come.
LEMMA InHandPlace ==
    ASSUME IInv, AuditInv, NEW r \in Runs, NEW i \in 1..8, pc[r] # "killed",
           InHand(r, NodeOrder[i])
    PROVE  i = at[r] /\ pc[r] \notin {"queued", "stage", "returned"}
  <1>1. /\ TypeOK /\ LogInv(r)
        /\ at[r] \in 1..8 /\ Node(r) = NodeOrder[at[r]]
    BY NodeTyped DEF IInv, AuditInv, Node
  <1>2. /\ log[r][NodeOrder[i]] # "none"
        /\ ~Passed(r, i)
    BY Positions DEF InHand, Passed
  <1>3. ~(i < at[r]) /\ ~(i > at[r])
    BY <1>1, <1>2 DEF LogInv, PathInv, StepInv
  <1>4. i = at[r]
    BY <1>1, <1>3
  <1> QED
    BY <1>1, <1>2, <1>4 DEF LogInv, PathInv, StepInv

\* The stage shown to users is the one of the node that runs, or that ended the run,
\* in every one of the eight nodes; and the status in the state is that stage too,
\* but in the first node and after the last.
THEOREM StageTellsNodeHolds == Spec => []StageTellsNode
  <1>1. IInv /\ AuditInv => StageTellsNode
    <2> SUFFICES ASSUME IInv, AuditInv, NEW r \in Runs
                 PROVE  /\ pc[r] = "enter" => stage[r] = StageOrder[at[r]]
                        /\ pc[r] = "returned" =>
                              stage[r] = "PERSISTING" /\ status[r] = "COMPLETE"
                        /\ \A i \in 1..8 :
                              pc[r] # "killed" /\ InHand(r, NodeOrder[i]) =>
                                 /\ stage[r] = StageOrder[i]
                                 /\ status[r] = StatusIn(i)
      BY GraphShape DEF StageTellsNode, StatusIn
    <2>1. StageInv(r)
      BY DEF IInv, RunInv
    <2>2. pc[r] = "enter" => stage[r] = StageOrder[at[r]]
      BY <2>1 DEF StageInv
    <2>3. pc[r] = "returned" => stage[r] = "PERSISTING" /\ status[r] = "COMPLETE"
      BY <2>1, TablesAgree DEF StageInv
    <2>4. ASSUME NEW i \in 1..8, pc[r] # "killed", InHand(r, NodeOrder[i])
          PROVE  stage[r] = StageOrder[i] /\ status[r] = StatusIn(i)
      BY <2>1, <2>4, InHandPlace DEF StageInv
    <2> QED
      BY <2>2, <2>3, <2>4
  <1> QED
    BY <1>1, Inductive, AuditTrail, PTL

=============================================================================
