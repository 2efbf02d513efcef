------------------------ MODULE JobLifecycle_proofs ------------------------
(***************************************************************************)
(* What holds of JobLifecycle for every number of jobs, processes, worker  *)
(* threads, nodes, attempts and faults, proved from the inductive          *)
(* invariant IInv.                                                         *)
(***************************************************************************)
EXTENDS JobLifecycle, SequenceTheorems, TLAPS

-----------------------------------------------------------------------------
(* The writes.                                                             *)

\* A write to job j leaves the table alone or puts the new row, which the
\* constraints of the schema accept, in the place of j's; it returns only when
\* it was applied.
LEMMA WriteEffect ==
    ASSUME NEW j, NEW r, NEW out, Write(j, r, out)
    PROVE  /\ \/ row' = row
              \/ Accepts(r) /\ row' = [row EXCEPT ![j] = r]
           /\ out = "returned" => Accepts(r) /\ row' = [row EXCEPT ![j] = r]
  BY DEF Write

LEMMA WriteType ==
    ASSUME NEW j \in Jobs, NEW r \in Row, NEW out, Write(j, r, out), TypeOK
    PROVE  row' \in [Jobs -> Row] /\ faults' \in 0..MaxFaults
  <1>1. row' \in [Jobs -> Row]
    <2>1. row \in [Jobs -> Row]
      BY DEF TypeOK
    <2> QED
      BY <2>1, WriteEffect
  <1>2. faults' \in 0..MaxFaults
    BY FaultsAssumption DEF Write, TypeOK
  <1> QED
    BY <1>1, <1>2

\* The same of an UPDATE, which needs the row to be there.
LEMMA UpdateEffect ==
    ASSUME NEW j, NEW r, NEW out, UpdateRow(j, r, out)
    PROVE  /\ \/ row' = row
              \/ /\ Accepts(r) /\ row' = [row EXCEPT ![j] = r]
                 /\ row[j].status # "NONE"
           /\ out = "returned" => Accepts(r) /\ row' = [row EXCEPT ![j] = r]
  BY WriteEffect DEF UpdateRow

LEMMA UpdateType ==
    ASSUME NEW j \in Jobs, NEW r \in Row, NEW out, UpdateRow(j, r, out), TypeOK
    PROVE  row' \in [Jobs -> Row] /\ faults' \in 0..MaxFaults
  <1>1. CASE Write(j, r, out)
    BY <1>1, WriteType
  <1>2. CASE UNCHANGED <<row, faults>>
    BY <1>2 DEF TypeOK
  <1> QED
    BY <1>1, <1>2 DEF UpdateRow

\* An upsert of a report adds at most that report, and returns only when it did.
LEMMA UpsertEffect ==
    ASSUME NEW j \in Jobs, NEW out, UpsertReport(j, out), faults \in 0..MaxFaults
    PROVE  /\ reports' = reports \/ reports' = reports \union {j}
           /\ out = "returned" => j \in reports'
           /\ faults' \in 0..MaxFaults
  BY FaultsAssumption DEF UpsertReport

-----------------------------------------------------------------------------
(* Types.                                                                  *)

\* TypeOK is not inductive by itself: only PersistenceNode is the last node.
TypeInv == TypeOK /\ \A j \in Jobs : pc[j] = "node" => node[j] < LastNode

LEMMA InitType == Init => TypeInv
  <1> SUFFICES ASSUME Init PROVE TypeInv
    OBVIOUS
  <1>1. row \in [Jobs -> Row]
    BY NodesAssumption DEF Init, NoRow, Row, Column, Statuses, Errors
  <1>2. queue \in [Procs -> Seq(Jobs)]
    BY DEF Init
  <1>3. faults \in 0..MaxFaults
    BY FaultsAssumption DEF Init
  <1>4. owner \in [Jobs -> 0..MaxProcs]
    BY ProcsAssumption DEF Init
  <1>5. node \in [Jobs -> Nodes] /\ attempt \in [Jobs -> 1..MaxAttempts]
    BY NodesAssumption, AttemptsAssumption DEF Init, Nodes
  <1> QED
    BY <1>1, <1>2, <1>3, <1>4, <1>5 DEF Init, TypeInv, TypeOK, Phases, PCs, Held, Working, Over

\* The rows that the updates leave are rows, with these columns.
LEMMA NewRows ==
    ASSUME TypeOK, NEW j \in Jobs
    PROVE  /\ {Started(j), AtStage(j), Completed(j), Failed(j), Orphaned(j)} \subseteq Row
           /\ Started(j).status = "RUNNING" /\ Started(j).started = "set"
           /\ Started(j).report = row[j].report /\ Started(j).completed = row[j].completed
           /\ Started(j).stage = row[j].stage /\ Started(j).error = row[j].error
           /\ AtStage(j).status = row[j].status /\ AtStage(j).started = row[j].started
           /\ AtStage(j).report = row[j].report /\ AtStage(j).completed = row[j].completed
           /\ AtStage(j).stage = node[j] /\ AtStage(j).error = row[j].error
           /\ Completed(j).status = "COMPLETE" /\ Completed(j).started = row[j].started
           /\ Completed(j).report = "set" /\ Completed(j).completed = "set"
           /\ Completed(j).stage = row[j].stage /\ Completed(j).error = row[j].error
           /\ Failed(j).status = "FAILED" /\ Failed(j).started = row[j].started
           /\ Failed(j).report = row[j].report /\ Failed(j).completed = "set"
           /\ Failed(j).stage = row[j].stage /\ Failed(j).error = reason[j]
           /\ Orphaned(j).status = "FAILED" /\ Orphaned(j).started = row[j].started
           /\ Orphaned(j).report = row[j].report /\ Orphaned(j).completed = "set"
           /\ Orphaned(j).stage = row[j].stage /\ Orphaned(j).error = "OrphanedJobError"
  <1>1. row[j] \in Row /\ node[j] \in 0..LastNode /\ reason[j] \in Errors
    BY NodesAssumption DEF TypeOK, Nodes, Errors
  <1>2. Started(j) \in Row /\ AtStage(j) \in Row /\ Completed(j) \in Row
    BY <1>1 DEF Started, AtStage, Completed, Row, Column, Statuses
  <1>3. Failed(j) \in Row /\ Orphaned(j) \in Row
    BY <1>1 DEF Failed, Orphaned, Row, Column, Statuses, Errors
  <1> QED
    BY <1>1, <1>2, <1>3 DEF Started, AtStage, Completed, Failed, Orphaned, Row

LEMMA NextType == TypeInv /\ [Next]_vars => TypeInv'
  <1> SUFFICES ASSUME TypeOK, TypeInv, [Next]_vars PROVE TypeInv'
    BY DEF TypeInv
  <1> USE DEF TypeInv, rowVars, procVars, runVars
  <1>1. ASSUME NEW p \in Procs, StartProcess(p) PROVE TypeInv'
    BY <1>1 DEF StartProcess, TypeOK, Phases
  <1>2. ASSUME NEW p \in Procs, ListOrphans(p) PROVE TypeInv'
    <2>1. phase' \in [Procs -> Phases]
      BY <1>2 DEF ListOrphans, TypeOK, Phases
    <2>2. orphans' \in [Procs -> SUBSET Jobs]
      <3>1. orphans \in [Procs -> SUBSET Jobs]
        BY DEF TypeOK
      <3>2. PICK listed \in SUBSET Jobs :
              orphans' = orphans \/ orphans' = [orphans EXCEPT ![p] = listed]
        <4>1. {j \in Jobs : row[j].status = "RUNNING"} \in SUBSET Jobs
          OBVIOUS
        <4> QED
          BY <1>2, <4>1 DEF ListOrphans
      <3> QED
        BY <3>1, <3>2
    <2>3. faults' \in 0..MaxFaults
      BY <1>2, FaultsAssumption DEF ListOrphans, TypeOK
    <2> QED
      BY <1>2, <2>1, <2>2, <2>3 DEF ListOrphans, TypeOK
  <1>3. ASSUME NEW p \in Procs, NEW j \in Jobs, RecoverOrphan(p, j) PROVE TypeInv'
    <2>1. Orphaned(j) \in Row
      BY NewRows
    <2>2. row' \in [Jobs -> Row]
      <3>1. row' = row \/ row' = [row EXCEPT ![j] = Orphaned(j)] \/ row' = [row EXCEPT ![j] = @]
        BY <1>3 DEF RecoverOrphan, RecoverRow
      <3>2. row \in [Jobs -> Row]
        BY DEF TypeOK
      <3> QED
        BY <2>1, <3>1, <3>2
    <2>3. orphans' \in [Procs -> SUBSET Jobs] /\ phase' \in [Procs -> Phases]
      BY <1>3 DEF RecoverOrphan, TypeOK, Phases
    <2>4. faults' \in 0..MaxFaults
      BY <1>3, FaultsAssumption DEF RecoverOrphan, TypeOK
    <2> QED
      BY <1>3, <2>2, <2>3, <2>4 DEF RecoverOrphan, TypeOK
  <1>4. ASSUME NEW p \in Procs, Shutdown(p) PROVE TypeInv'
    BY <1>4 DEF Shutdown, TypeOK, Phases
  <1>5. ASSUME NEW p \in Procs, Crash(p) PROVE TypeInv'
    <2>1. pc' \in [Jobs -> PCs]
      BY <1>5 DEF Crash, TypeOK, PCs, Over
    <2>2. queue' \in [Procs -> Seq(Jobs)]
      BY <1>5 DEF Crash, TypeOK
    <2> QED
      BY <1>5, <2>1, <2>2 DEF Crash, TypeOK, Phases
  <1>6. ASSUME NEW p \in Procs, Exit(p) PROVE TypeInv'
    BY <1>6 DEF Exit, TypeOK, Phases
  <1>7. ASSUME NEW p \in Procs, PickUp(p) PROVE TypeInv'
    <2>1. Head(queue[p]) \in Jobs /\ Tail(queue[p]) \in Seq(Jobs)
      BY <1>7 DEF PickUp, TypeOK
    <2>2. pc' \in [Jobs -> PCs] /\ queue' \in [Procs -> Seq(Jobs)]
      BY <1>7, <2>1 DEF PickUp, TypeOK, PCs, Held, Working
    <2> QED
      BY <1>7, <2>2 DEF PickUp, TypeOK
  <1>8. ASSUME NEW p \in Procs, NEW j \in Jobs, InsertJob(p, j) PROVE TypeInv'
    <2> DEFINE r == [NoRow EXCEPT !.status = "PENDING"]
    <2>1. r \in Row
      BY NodesAssumption DEF NoRow, Row, Column, Statuses, Errors
    <2>2. PICK out \in Outcomes :
            /\ InsertRow(j, out)
            /\ pc' = [pc EXCEPT ![j] = IF out = "raised" THEN "rejected" ELSE "created"]
      BY <1>8 DEF InsertJob
    <2>3. row' \in [Jobs -> Row] /\ faults' \in 0..MaxFaults
      BY <2>1, <2>2, WriteType DEF InsertRow
    <2>4. pc' \in [Jobs -> PCs]
      BY <2>2 DEF TypeOK, PCs, Held, Over
    <2>5. owner' \in [Jobs -> 0..MaxProcs]
      BY <1>8, ProcsAssumption DEF InsertJob, TypeOK, Procs
    <2> QED
      BY <1>8, <2>3, <2>4, <2>5 DEF InsertJob, TypeOK
  <1>9. ASSUME NEW j \in Jobs, SubmitJob(j) PROVE TypeInv'
    <2>0. ASSUME owner[j] \in Procs PROVE Append(queue[owner[j]], j) \in Seq(Jobs)
      BY <2>0 DEF TypeOK
    <2>1. queue' \in [Procs -> Seq(Jobs)]
      <3>1. /\ queue \in [Procs -> Seq(Jobs)]
            /\ queue' = [queue EXCEPT ![owner[j]] = Append(@, j)]
        BY <1>9 DEF SubmitJob, TypeOK
      <3> QED
        BY <2>0, <3>1
    <2>2. pc' \in [Jobs -> PCs]
      BY <1>9 DEF SubmitJob, TypeOK, PCs, Held
    <2> QED
      BY <1>9, <2>1, <2>2 DEF SubmitJob, TypeOK
  <1>10. ASSUME NEW j \in Jobs, MarkRunning(j) PROVE TypeInv'
    <2>1. Started(j) \in Row
      BY NewRows
    <2>2. PICK out \in Outcomes :
            /\ UpdateRow(j, Started(j), out)
            /\ pc' = [pc EXCEPT ![j] = IF out = "raised" THEN "fail" ELSE "stage"]
            /\ reason' = [reason EXCEPT ![j] =
                            IF out = "raised" THEN "OrchestratorSetupError" ELSE @]
      BY <1>10 DEF MarkRunning
    <2>3. row' \in [Jobs -> Row] /\ faults' \in 0..MaxFaults
      BY <2>1, <2>2, UpdateType
    <2>4. pc' \in [Jobs -> PCs] /\ reason' \in [Jobs -> RunErrors \union {"none"}]
      BY <2>2 DEF TypeOK, PCs, Held, Working, RunErrors
    <2> QED
      BY <1>10, <2>3, <2>4 DEF MarkRunning, TypeOK
  <1>11. ASSUME NEW j \in Jobs, WriteStage(j) PROVE TypeInv'
    <2>1. AtStage(j) \in Row
      BY NewRows
    <2>2. PICK out \in Outcomes : UpdateRow(j, AtStage(j), out)
      BY <1>11 DEF WriteStage
    <2>3. row' \in [Jobs -> Row] /\ faults' \in 0..MaxFaults
      BY <2>1, <2>2, UpdateType
    <2>4. pc' \in [Jobs -> PCs]
      BY <1>11 DEF WriteStage, TypeOK, PCs, Held, Working
    <2>5. \A i \in Jobs : pc'[i] = "node" => node'[i] < LastNode
      <3>1. node[j] # LastNode => node[j] < LastNode
        BY NodesAssumption DEF TypeOK, Nodes
      <3> QED
        BY <1>11, <3>1 DEF WriteStage, TypeOK
    <2> QED
      BY <1>11, <2>3, <2>4, <2>5 DEF WriteStage, TypeOK
  <1>12. ASSUME NEW j \in Jobs, NodeReturns(j) PROVE TypeInv'
    BY <1>12, NodesAssumption DEF NodeReturns, TypeOK, PCs, Held, Working, Nodes
  <1>13. ASSUME NEW j \in Jobs, NodeRaises(j) PROVE TypeInv'
    <2>1. pc' \in [Jobs -> PCs] /\ reason' \in [Jobs -> RunErrors \union {"none"}]
      BY <1>13, FailuresAssumption DEF NodeRaises, TypeOK, PCs, Held, Working, RunErrors
    <2> QED
      BY <1>13, <2>1 DEF NodeRaises, TypeOK
  <1>14. ASSUME NEW j \in Jobs, InsertReport(j) PROVE TypeInv'
    <2>1. PICK out \in Outcomes : UpsertReport(j, out)
      BY <1>14 DEF InsertReport
    <2>2. reports' \subseteq Jobs /\ faults' \in 0..MaxFaults
      BY <2>1, UpsertEffect DEF TypeOK
    <2>3. attempt' \in [Jobs -> 1..MaxAttempts]
      <3>1. attempt \in [Jobs -> 1..MaxAttempts]
        BY DEF TypeOK
      <3>2. attempt[j] < MaxAttempts => attempt[j] + 1 \in 1..MaxAttempts
        BY <3>1, AttemptsAssumption
      <3>3. \/ attempt' = attempt
            \/ attempt[j] < MaxAttempts /\ attempt' = [attempt EXCEPT ![j] = @ + 1]
        BY <1>14 DEF InsertReport
      <3> QED
        BY <3>1, <3>2, <3>3
    <2>4. pc' \in [Jobs -> PCs] /\ reason' \in [Jobs -> RunErrors \union {"none"}]
      <3>1. /\ pc' = pc \/ pc' = [pc EXCEPT ![j] = "complete"] \/ pc' = [pc EXCEPT ![j] = "fail"]
            /\ reason' = reason \/ reason' = [reason EXCEPT ![j] = "FatalNodeError"]
        BY <1>14 DEF InsertReport
      <3>2. "complete" \in PCs /\ "fail" \in PCs /\ "FatalNodeError" \in RunErrors
        BY DEF PCs, Held, Working, RunErrors, NodeFailureKinds
      <3>3. pc \in [Jobs -> PCs] /\ reason \in [Jobs -> RunErrors \union {"none"}]
        BY DEF TypeOK
      <3> QED
        BY <3>1, <3>2, <3>3
    <2> QED
      BY <1>14, <2>2, <2>3, <2>4 DEF InsertReport, TypeOK
  <1>15. ASSUME NEW j \in Jobs, NEW r \in Row, pc[j] \in Held, LastWrite(j, r)
         PROVE TypeInv'
    <2>1. PICK out \in Outcomes :
            /\ UpdateRow(j, r, out)
            /\ pc' = [pc EXCEPT ![j] = IF out = "raised" THEN "gaveup" ELSE "done"]
      BY <1>15 DEF LastWrite
    <2>2. row' \in [Jobs -> Row] /\ faults' \in 0..MaxFaults
      BY <1>15, <2>1, UpdateType
    <2>3. pc' \in [Jobs -> PCs]
      BY <2>1 DEF TypeOK, PCs, Over
    <2> QED
      BY <1>15, <2>1, <2>2, <2>3 DEF LastWrite, TypeOK
  <1>16. ASSUME NEW j \in Jobs, MarkComplete(j) PROVE TypeInv'
    <2>1. Completed(j) \in Row
      BY NewRows
    <2> QED
      BY <1>15, <1>16, <2>1 DEF MarkComplete, Held, Working
  <1>17. ASSUME NEW j \in Jobs, MarkFailed(j) PROVE TypeInv'
    <2>1. Failed(j) \in Row
      BY NewRows
    <2> QED
      BY <1>15, <1>17, <2>1 DEF MarkFailed, Held, Working
  <1>18. CASE UNCHANGED vars
    BY <1>18 DEF vars, TypeOK
  <1> QED
    BY <1>1, <1>2, <1>3, <1>4, <1>5, <1>6, <1>7, <1>8, <1>9, <1>10, <1>11, <1>12,
       <1>13, <1>14, <1>16, <1>17, <1>18
    DEF Next, Startup, Disruption, Worker

\* Every variable keeps its type.
THEOREM TypeCorrect == Spec => []TypeOK
  <1>1. TypeInv => TypeOK
    BY DEF TypeInv
  <1> QED
    BY <1>1, InitType, NextType, PTL DEF Spec

-----------------------------------------------------------------------------
(* The inductive invariant.                                                *)

InFlight == {"stage", "node", "insert", "complete"}

\* Where a job's run is says what its row can be. Only with Overlap may another
\* process have failed the job under a run that still goes on.
PcInv(j) ==
    /\ pc[j] = "new" => row[j] = NoRow
    /\ pc[j] \in {"created", "queued", "mark"} => row[j].status = "PENDING"
    /\ pc[j] \in InFlight =>
          /\ row[j].status \in {"RUNNING", "FAILED"}
          /\ row[j].started = "set"
    /\ pc[j] = "fail" => row[j].status \in {"PENDING", "RUNNING", "FAILED"}
    /\ pc[j] \in InFlight \union {"fail"} /\ row[j].status = "FAILED" => Overlap
    /\ pc[j] = "complete" => j \in reports
    /\ pc[j] = "done" => row[j].status \in Terminal

\* What the row says of the run.
RowInv(j) ==
    /\ row[j].status = "COMPLETE" => pc[j] \in {"done", "gaveup"} /\ j \in reports
    /\ row[j].status = "RUNNING" => pc[j] \in InFlight \union {"fail", "gaveup", "lost"}

Integrity(j) ==
    /\ row[j].report = "set" <=> row[j].status = "COMPLETE"
    /\ row[j].status = "FAILED" => row[j].error # "none"
    /\ row[j].status \in {"NONE", "PENDING", "RUNNING"} => row[j].error = "none"
    /\ row[j].completed = "set" <=> row[j].status \in Terminal
    /\ row[j].status \in {"NONE", "PENDING"} => row[j].started = "null"
    /\ row[j].status \in {"RUNNING", "COMPLETE"} => row[j].started = "set"
    /\ row[j].stage <= node[j]
    /\ row[j].stage > 0 => row[j].started = "set"

JobInv(j) == PcInv(j) /\ RowInv(j) /\ Integrity(j)

\* A job its server has in hand has a server that is up and past its recovery.
HeldByServer ==
    \A j \in Jobs : pc[j] \in Held =>
        owner[j] \in Procs /\ phase[owner[j]] \in {"serving", "draining"}

\* Without Overlap a server is the only one that is up.
OneServer ==
    ~Overlap => \A p, q \in Procs : p < q /\ phase[q] # "down" => phase[p] = "exited"

\* A work queue holds jobs of its own process, each queued once.
QueueInv ==
    \A p \in Procs :
        /\ \A i \in 1..Len(queue[p]) :
              pc[queue[p][i]] = "queued" /\ owner[queue[p][i]] = p
        /\ \A i, k \in 1..Len(queue[p]) : queue[p][i] = queue[p][k] => i = k

IInv == /\ TypeInv
        /\ \A j \in Jobs : JobInv(j)
        /\ HeldByServer
        /\ OneServer
        /\ QueueInv

LEMMA InitInv == Init => IInv
  <1> SUFFICES ASSUME Init PROVE IInv
    OBVIOUS
  <1>1. TypeInv
    BY InitType
  <1>2. ASSUME NEW j \in Jobs PROVE JobInv(j)
    BY DEF Init, JobInv, PcInv, RowInv, Integrity, NoRow, InFlight, Terminal
  <1>3. HeldByServer
    BY DEF Init, HeldByServer, Held, Working
  <1>4. OneServer
    BY DEF Init, OneServer
  <1>5. QueueInv
    BY DEF Init, QueueInv
  <1> QED
    BY <1>1, <1>2, <1>3, <1>4, <1>5 DEF IInv

\* A job whose run, row and node an action leaves alone keeps its invariant.
LEMMA Untouched ==
    ASSUME NEW j \in Jobs, JobInv(j), row'[j] = row[j], pc'[j] = pc[j],
           node'[j] = node[j], j \in reports => j \in reports'
    PROVE  JobInv(j)'
  BY DEF JobInv, PcInv, RowInv, Integrity

\* A step of job j's run that leaves the servers, the queues and the other jobs
\* alone keeps the invariant if it keeps j's own.
LEMMA RunStep ==
    ASSUME IInv, TypeInv', NEW j \in Jobs, pc[j] \in Held \ {"queued"},
           NEW k, pc' = [pc EXCEPT ![j] = k],
           UNCHANGED <<phase, queue, owner>>, reports \subseteq reports',
           \A i \in Jobs \ {j} : row'[i] = row[i] /\ node'[i] = node[i],
           JobInv(j)'
    PROVE  IInv'
  <1>0. /\ pc \in [Jobs -> PCs] /\ owner \in [Jobs -> 0..MaxProcs]
        /\ queue \in [Procs -> Seq(Jobs)]
    BY DEF IInv, TypeInv, TypeOK
  <1>1. ASSUME NEW i \in Jobs PROVE JobInv(i)'
    <2>1. CASE i = j
      BY <2>1
    <2>2. CASE i # j
      BY <1>0, <2>2, Untouched DEF IInv
    <2> QED
      BY <2>1, <2>2
  <1>2. HeldByServer'
    BY <1>0 DEF IInv, HeldByServer
  <1>3. OneServer'
    BY DEF IInv, OneServer
  <1>4. QueueInv'
    BY <1>0 DEF IInv, QueueInv
  <1> QED
    BY <1>1, <1>2, <1>3, <1>4 DEF IInv

LEMMA MarkRunningInv ==
    ASSUME IInv, TypeInv', NEW j \in Jobs, MarkRunning(j) PROVE IInv'
  <1>0. row \in [Jobs -> Row] /\ row[j] \in Row /\ pc \in [Jobs -> PCs]
    BY DEF IInv, TypeInv, TypeOK
  <1>1. PICK out \in Outcomes :
          /\ UpdateRow(j, Started(j), out)
          /\ pc' = [pc EXCEPT ![j] = IF out = "raised" THEN "fail" ELSE "stage"]
    BY DEF MarkRunning
  <1>2. /\ row' = row \/ row' = [row EXCEPT ![j] = Started(j)]
        /\ out = "returned" => row' = [row EXCEPT ![j] = Started(j)]
    BY <1>1, UpdateEffect
  <1>3. /\ Started(j).status = "RUNNING" /\ Started(j).started = "set"
        /\ Started(j).report = row[j].report /\ Started(j).error = row[j].error
        /\ Started(j).completed = row[j].completed /\ Started(j).stage = row[j].stage
    BY NewRows DEF IInv, TypeInv
  <1>4. pc[j] = "mark" /\ row[j].status = "PENDING" /\ JobInv(j)
        /\ UNCHANGED <<phase, queue, owner, reports, node>>
    BY DEF MarkRunning, IInv, JobInv, PcInv, procVars
  <1>5. JobInv(j)'
    <2>1. CASE row' = row
      <3>1. pc'[j] = "fail"
        BY <1>0, <1>1, <1>2, <1>3, <1>4, <2>1 DEF Outcomes
      <3> QED
        BY <1>4, <2>1, <3>1 DEF JobInv, PcInv, RowInv, Integrity, InFlight
    <2>2. CASE row'[j] = Started(j)
      <3>1. pc'[j] \in {"fail", "stage"}
        BY <1>0, <1>1
      <3> QED
        BY <1>3, <1>4, <2>2, <3>1 DEF JobInv, PcInv, RowInv, Integrity, InFlight, Terminal
    <2> QED
      BY <1>0, <1>2, <2>1, <2>2
  <1> QED
    BY <1>0, <1>1, <1>2, <1>4, <1>5, RunStep DEF Held, Working

LEMMA WriteStageInv ==
    ASSUME IInv, TypeInv', NEW j \in Jobs, WriteStage(j) PROVE IInv'
  <1>0. row \in [Jobs -> Row] /\ row[j] \in Row /\ pc \in [Jobs -> PCs] /\ node[j] \in Nodes
    BY DEF IInv, TypeInv, TypeOK
  <1>1. row' = row \/ row' = [row EXCEPT ![j] = AtStage(j)]
    BY UpdateEffect DEF WriteStage
  <1>2. /\ AtStage(j).status = row[j].status /\ AtStage(j).started = row[j].started
        /\ AtStage(j).report = row[j].report /\ AtStage(j).completed = row[j].completed
        /\ AtStage(j).error = row[j].error /\ AtStage(j).stage = node[j]
    BY NewRows DEF IInv, TypeInv
  <1>3. /\ pc[j] = "stage" /\ JobInv(j)
        /\ UNCHANGED <<phase, queue, owner, reports, node>>
        /\ pc' = [pc EXCEPT ![j] = IF node[j] = LastNode THEN "insert" ELSE "node"]
    BY DEF WriteStage, IInv, procVars, runVars
  <1>4. pc'[j] \in {"insert", "node"}
    BY <1>0, <1>3
  <1>5. JobInv(j)'
    <2>1. CASE row' = row
      BY <1>3, <1>4, <2>1 DEF JobInv, PcInv, RowInv, Integrity, InFlight
    <2>2. CASE row'[j] = AtStage(j)
      <3>1. PcInv(j)' /\ RowInv(j)'
        BY <1>2, <1>3, <1>4, <2>2 DEF JobInv, PcInv, RowInv, InFlight
      <3>2. Integrity(j)'
        <4>1. node[j] <= node[j] /\ row[j].started = "set"
          BY <1>0, <1>3, NodesAssumption DEF Nodes, JobInv, PcInv, InFlight
        <4> QED
          BY <1>2, <1>3, <2>2, <4>1 DEF JobInv, Integrity
      <3> QED
        BY <3>1, <3>2 DEF JobInv
    <2> QED
      BY <1>0, <1>1, <2>1, <2>2
  <1> QED
    BY <1>0, <1>1, <1>3, <1>5, RunStep DEF Held, Working

LEMMA NodeInv ==
    ASSUME IInv, TypeInv', NEW j \in Jobs, NodeReturns(j) \/ NodeRaises(j) PROVE IInv'
  <1>0. /\ row \in [Jobs -> Row] /\ row[j] \in Row /\ pc \in [Jobs -> PCs]
        /\ node \in [Jobs -> Nodes]
    BY DEF IInv, TypeInv, TypeOK
  <1>1. CASE NodeReturns(j)
    <2>1. /\ pc[j] = "node" /\ JobInv(j) /\ pc' = [pc EXCEPT ![j] = "stage"]
          /\ UNCHANGED <<phase, queue, owner, reports, row>>
          /\ node' = [node EXCEPT ![j] = @ + 1]
      BY <1>1 DEF NodeReturns, IInv, procVars, rowVars
    <2>2. row[j].stage <= node[j] => row[j].stage <= node'[j]
      BY <1>0, <2>1, NodesAssumption DEF Nodes, Row
    <2>3. JobInv(j)'
      BY <1>0, <2>1, <2>2 DEF JobInv, PcInv, RowInv, Integrity, InFlight
    <2> QED
      BY <1>0, <2>1, <2>3, RunStep DEF Held, Working
  <1>2. CASE NodeRaises(j)
    <2>1. /\ pc[j] \in {"node", "insert"} /\ JobInv(j) /\ pc' = [pc EXCEPT ![j] = "fail"]
          /\ UNCHANGED <<phase, queue, owner, reports, row, node>>
      BY <1>2 DEF NodeRaises, IInv, procVars, rowVars
    <2>2. JobInv(j)'
      BY <1>0, <2>1 DEF JobInv, PcInv, RowInv, Integrity, InFlight
    <2> QED
      BY <1>0, <2>1, <2>2, RunStep DEF Held, Working
  <1> QED
    BY <1>1, <1>2

LEMMA InsertReportInv ==
    ASSUME IInv, TypeInv', NEW j \in Jobs, InsertReport(j) PROVE IInv'
  <1>0. pc \in [Jobs -> PCs] /\ faults \in 0..MaxFaults
    BY DEF IInv, TypeInv, TypeOK
  <1>1. /\ pc[j] = "insert" /\ JobInv(j)
        /\ UNCHANGED <<phase, queue, owner, row, node>>
    BY DEF InsertReport, IInv, procVars
  <1>2. PICK out \in Outcomes :
          /\ UpsertReport(j, out)
          /\ \/ out = "returned" /\ pc' = [pc EXCEPT ![j] = "complete"]
             \/ out = "raised" /\ (pc' = pc \/ pc' = [pc EXCEPT ![j] = "fail"])
    BY DEF InsertReport
  <1>3. reports \subseteq reports' /\ (out = "returned" => j \in reports')
    BY <1>0, <1>2, UpsertEffect
  <1>4. /\ pc'[j] \in {"complete", "insert", "fail"} /\ (pc'[j] = "complete" => j \in reports')
        /\ pc' = [pc EXCEPT ![j] = pc'[j]]
    BY <1>0, <1>1, <1>2, <1>3
  <1>5. JobInv(j)'
    BY <1>1, <1>3, <1>4 DEF JobInv, PcInv, RowInv, Integrity, InFlight
  <1> QED
    BY <1>0, <1>1, <1>3, <1>4, <1>5, RunStep DEF Held, Working

\* A run's last write goes through, and the job is done, or the run gave up.
LEMMA LastWriteEffect ==
    ASSUME NEW j \in Jobs, NEW r, LastWrite(j, r), pc \in [Jobs -> PCs]
    PROVE  /\ \/ row' = row /\ pc' = [pc EXCEPT ![j] = "gaveup"]
              \/ /\ Accepts(r) /\ row' = [row EXCEPT ![j] = r]
                 /\ pc' = [pc EXCEPT ![j] = pc'[j]] /\ pc'[j] \in {"gaveup", "done"}
           /\ UNCHANGED <<phase, queue, owner, reports, node>>
  <1>1. PICK out \in Outcomes :
          /\ UpdateRow(j, r, out)
          /\ pc' = [pc EXCEPT ![j] = IF out = "raised" THEN "gaveup" ELSE "done"]
    BY DEF LastWrite
  <1>2. /\ row' = row \/ (Accepts(r) /\ row' = [row EXCEPT ![j] = r])
        /\ out = "returned" => Accepts(r) /\ row' = [row EXCEPT ![j] = r]
    BY <1>1, UpdateEffect
  <1>3. UNCHANGED <<phase, queue, owner, reports, node>>
    BY DEF LastWrite, procVars, runVars
  <1>4. out = "raised" => pc' = [pc EXCEPT ![j] = "gaveup"]
    BY <1>1
  <1>5. /\ pc' = [pc EXCEPT ![j] = pc'[j]]
        /\ pc'[j] \in {"gaveup", "done"}
    BY <1>1
  <1> QED
    BY <1>2, <1>3, <1>4, <1>5 DEF Outcomes

LEMMA MarkCompleteInv ==
    ASSUME IInv, TypeInv', NEW j \in Jobs, MarkComplete(j) PROVE IInv'
  <1>0. row \in [Jobs -> Row] /\ row[j] \in Row /\ pc \in [Jobs -> PCs]
    BY DEF IInv, TypeInv, TypeOK
  <1>1. /\ Completed(j).status = "COMPLETE" /\ Completed(j).started = row[j].started
        /\ Completed(j).report = "set" /\ Completed(j).completed = "set" /\ Completed(j).stage = row[j].stage
    BY NewRows DEF IInv, TypeInv
  <1>2. pc[j] = "complete" /\ LastWrite(j, Completed(j)) /\ JobInv(j)
    BY DEF MarkComplete, IInv
  <1>3. /\ row[j].started = "set" /\ j \in reports
        /\ row[j].status \in {"RUNNING", "FAILED"}
    BY <1>2 DEF JobInv, PcInv, InFlight
  <1>4. /\ \/ row' = row /\ pc' = [pc EXCEPT ![j] = "gaveup"]
           \/ /\ row' = [row EXCEPT ![j] = Completed(j)]
              /\ pc' = [pc EXCEPT ![j] = pc'[j]] /\ pc'[j] \in {"gaveup", "done"}
        /\ UNCHANGED <<phase, queue, owner, reports, node>>
    BY <1>0, <1>2, LastWriteEffect
  <1>5. JobInv(j)'
    <2>1. CASE row' = row /\ pc' = [pc EXCEPT ![j] = "gaveup"]
      <3>1. row'[j] = row[j] /\ node'[j] = node[j] /\ pc'[j] = "gaveup" /\ j \in reports'
        BY <1>0, <1>3, <1>4, <2>1
      <3> QED
        BY <1>2, <1>3, <3>1 DEF JobInv, PcInv, RowInv, Integrity, InFlight
    <2>2. CASE row' = [row EXCEPT ![j] = Completed(j)] /\ pc'[j] \in {"gaveup", "done"}
      <3>1. row'[j] = Completed(j) /\ node'[j] = node[j] /\ j \in reports'
        BY <1>0, <1>3, <1>4, <2>2
      <3> QED
        BY <1>1, <1>2, <1>3, <2>2, <3>1
        DEF JobInv, PcInv, RowInv, Integrity, InFlight, Terminal
    <2> QED
      BY <1>4, <2>1, <2>2
  <1> QED
    BY <1>0, <1>2, <1>4, <1>5, RunStep DEF Held, Working

LEMMA MarkFailedInv ==
    ASSUME IInv, TypeInv', NEW j \in Jobs, MarkFailed(j) PROVE IInv'
  <1>0. row \in [Jobs -> Row] /\ row[j] \in Row /\ pc \in [Jobs -> PCs]
    BY DEF IInv, TypeInv, TypeOK
  <1>1. /\ Failed(j).status = "FAILED" /\ Failed(j).started = row[j].started /\ Failed(j).error = reason[j]
        /\ Failed(j).report = row[j].report /\ Failed(j).completed = "set" /\ Failed(j).stage = row[j].stage
    BY NewRows DEF IInv, TypeInv
  <1>2. pc[j] = "fail" /\ LastWrite(j, Failed(j)) /\ JobInv(j)
    BY DEF MarkFailed, IInv
  <1>3. row[j].status \in {"PENDING", "RUNNING", "FAILED"}
    BY <1>2 DEF JobInv, PcInv
  <1>4. /\ \/ row' = row /\ pc' = [pc EXCEPT ![j] = "gaveup"]
           \/ /\ Accepts(Failed(j)) /\ row' = [row EXCEPT ![j] = Failed(j)]
              /\ pc' = [pc EXCEPT ![j] = pc'[j]] /\ pc'[j] \in {"gaveup", "done"}
        /\ UNCHANGED <<phase, queue, owner, reports, node>>
    BY <1>0, <1>2, LastWriteEffect
  <1>5. JobInv(j)'
    <2>1. CASE row' = row /\ pc' = [pc EXCEPT ![j] = "gaveup"]
      <3>1. row'[j] = row[j] /\ node'[j] = node[j] /\ pc'[j] = "gaveup"
            /\ (j \in reports => j \in reports')
        BY <1>0, <1>4, <2>1
      <3> QED
        BY <1>2, <1>3, <3>1 DEF JobInv, PcInv, RowInv, Integrity, InFlight
    <2>2. CASE Accepts(Failed(j)) /\ row' = [row EXCEPT ![j] = Failed(j)] /\ pc'[j] \in {"gaveup", "done"}
      <3>1. row'[j] = Failed(j) /\ node'[j] = node[j]
        BY <1>0, <1>4, <2>2
      <3>2. Failed(j).error # "none"
        BY <1>1, <2>2 DEF Accepts
      <3> QED
        BY <1>1, <1>2, <1>3, <2>2, <3>1, <3>2
        DEF JobInv, PcInv, RowInv, Integrity, InFlight, Terminal
    <2> QED
      BY <1>4, <2>1, <2>2
  <1> QED
    BY <1>0, <1>2, <1>4, <1>5, RunStep DEF Held, Working

-----------------------------------------------------------------------------
(* The steps of the servers.                                               *)

\* A step that changes no job, report or queue keeps the invariant if it keeps
\* what relates the servers to each other and to the jobs they hold.
LEMMA ServerStep ==
    ASSUME IInv, TypeInv', UNCHANGED <<row, reports, pc, owner, node, queue>>,
           HeldByServer', OneServer'
    PROVE  IInv'
  <1>1. ASSUME NEW j \in Jobs PROVE JobInv(j)'
    BY Untouched DEF IInv
  <1>2. QueueInv'
    BY DEF IInv, QueueInv
  <1> QED
    BY <1>1, <1>2 DEF IInv

LEMMA StartInv ==
    ASSUME IInv, TypeInv', NEW p \in Procs, StartProcess(p) PROVE IInv'
  <1>0. phase \in [Procs -> Phases] /\ owner \in [Jobs -> 0..MaxProcs]
    BY DEF IInv, TypeInv, TypeOK
  <1>1. /\ UNCHANGED <<row, reports, pc, owner, node, queue>>
        /\ phase[p] = "down" /\ phase' = [phase EXCEPT ![p] = "listing"]
        /\ p = 1 \/ (p > 1 /\ phase[p-1] = "exited") \/ Overlap
    BY DEF StartProcess, rowVars, runVars
  <1>2. HeldByServer'
    BY <1>0, <1>1 DEF IInv, HeldByServer
  <1>3. OneServer'
    <2> SUFFICES ASSUME ~Overlap, NEW i \in Procs, NEW q \in Procs, i < q, phase'[q] # "down"
                 PROVE  phase'[i] = "exited"
      BY DEF OneServer
    <2>0. \A h, k \in Procs : h < k /\ phase[k] # "down" => phase[h] = "exited"
      BY DEF IInv, OneServer
    <2>1. CASE q = p
      <3>1. p - 1 \in Procs /\ phase[p-1] = "exited" /\ i <= p - 1
        BY <1>1, <2>1, ProcsAssumption DEF Procs
      <3>2. phase[i] = "exited"
        BY <2>0, <3>1 DEF Procs
      <3> QED
        BY <1>0, <1>1, <3>2, <2>1 DEF Procs
    <2>2. CASE q # p
      <3>1. phase[i] = "exited"
        BY <1>0, <1>1, <2>0, <2>2
      <3> QED
        BY <1>0, <1>1, <3>1
    <2> QED
      BY <2>1, <2>2
  <1> QED
    BY <1>1, <1>2, <1>3, ServerStep

LEMMA ServingInv ==
    ASSUME IInv, TypeInv', NEW p \in Procs, ListOrphans(p) \/ Shutdown(p) \/ Exit(p)
    PROVE  IInv'
  <1>0. phase \in [Procs -> Phases] /\ owner \in [Jobs -> 0..MaxProcs]
    BY DEF IInv, TypeInv, TypeOK
  <1>1. /\ UNCHANGED <<row, reports, pc, owner, node, queue>>
        /\ phase' = [phase EXCEPT ![p] = phase'[p]]
        /\ phase[p] \notin {"down", "exited"}
    BY <1>0 DEF ListOrphans, Shutdown, Exit, rowVars, runVars
  <1>2. HeldByServer'
    <2>1. CASE ListOrphans(p)
      BY <1>0, <1>1, <2>1 DEF IInv, HeldByServer, ListOrphans
    <2>2. CASE Shutdown(p)
      BY <1>0, <1>1, <2>2 DEF IInv, HeldByServer, Shutdown
    <2>3. CASE Exit(p)
      BY <1>0, <1>1, <2>3 DEF IInv, HeldByServer, Exit
    <2> QED
      BY <2>1, <2>2, <2>3
  <1>3. OneServer'
    BY <1>0, <1>1 DEF IInv, OneServer
  <1> QED
    BY <1>1, <1>2, <1>3, ServerStep

LEMMA RecoverInv ==
    ASSUME IInv, TypeInv', NEW p \in Procs, NEW j \in Jobs, RecoverOrphan(p, j)
    PROVE  IInv'
  <1>0. /\ phase \in [Procs -> Phases] /\ owner \in [Jobs -> 0..MaxProcs]
        /\ row \in [Jobs -> Row] /\ row[j] \in Row /\ pc \in [Jobs -> PCs]
    BY DEF IInv, TypeInv, TypeOK
  <1>1. /\ UNCHANGED <<reports, pc, owner, node, queue>>
        /\ phase[p] = "recovering"
        /\ phase' = [phase EXCEPT ![p] = phase'[p]]
        /\ \/ row' = row
           \/ row[j].status = "RUNNING" /\ row' = [row EXCEPT ![j] = Orphaned(j)]
    BY <1>0 DEF RecoverOrphan, RecoverRow, runVars
  <1>2. /\ Orphaned(j).status = "FAILED" /\ Orphaned(j).completed = "set"
        /\ Orphaned(j).error = "OrphanedJobError" /\ Orphaned(j).report = row[j].report
        /\ Orphaned(j).started = row[j].started /\ Orphaned(j).stage = row[j].stage
    BY NewRows DEF IInv, TypeInv
  \* The server that recovers is not the one that holds a job.
  <1>3. ~Overlap => pc[j] \notin Held
    <2> SUFFICES ASSUME ~Overlap, pc[j] \in Held PROVE FALSE
      OBVIOUS
    <2>1. owner[j] \in Procs /\ phase[owner[j]] \in {"serving", "draining"}
      BY DEF IInv, HeldByServer
    <2>2. owner[j] < p \/ p < owner[j]
      BY <1>1, <2>1, ProcsAssumption DEF Procs
    <2> QED
      BY <1>1, <2>1, <2>2 DEF IInv, OneServer
  <1>4. JobInv(j)'
    <2>1. CASE row' = row
      BY <1>1, <2>1, Untouched DEF IInv
    <2>2. CASE row[j].status = "RUNNING" /\ row' = [row EXCEPT ![j] = Orphaned(j)]
      <3>1. JobInv(j) /\ row'[j] = Orphaned(j)
        BY <1>0, <2>2 DEF IInv
      <3>2. pc[j] \in InFlight \union {"fail"} => Overlap
        BY <1>3 DEF InFlight, Held, Working
      <3> QED
        BY <1>1, <1>2, <2>2, <3>1, <3>2
        DEF JobInv, PcInv, RowInv, Integrity, InFlight, Terminal
    <2> QED
      BY <1>1, <2>1, <2>2
  <1>5. ASSUME NEW i \in Jobs PROVE JobInv(i)'
    <2>1. CASE i = j
      BY <1>4, <2>1
    <2>2. CASE i # j
      <3>1. row'[i] = row[i]
        BY <1>0, <1>1, <2>2
      <3> QED
        BY <1>1, <3>1, Untouched DEF IInv
    <2> QED
      BY <2>1, <2>2
  <1>6. HeldByServer'
    BY <1>0, <1>1 DEF IInv, HeldByServer
  <1>7. OneServer'
    BY <1>0, <1>1 DEF IInv, OneServer
  <1>8. QueueInv'
    BY <1>1 DEF IInv, QueueInv
  <1> QED
    BY <1>5, <1>6, <1>7, <1>8 DEF IInv

LEMMA CrashInv ==
    ASSUME IInv, TypeInv', NEW p \in Procs, Crash(p) PROVE IInv'
  <1>0. /\ phase \in [Procs -> Phases] /\ owner \in [Jobs -> 0..MaxProcs]
        /\ pc \in [Jobs -> PCs] /\ queue \in [Procs -> Seq(Jobs)]
    BY DEF IInv, TypeInv, TypeOK
  <1>1. /\ UNCHANGED <<row, reports, owner, node>>
        /\ phase' = [phase EXCEPT ![p] = "exited"] /\ phase[p] # "down"
        /\ queue' = [queue EXCEPT ![p] = <<>>]
        /\ pc' = [j \in Jobs |-> IF owner[j] = p /\ pc[j] \in Held THEN "lost" ELSE pc[j]]
    BY DEF Crash, rowVars, runVars
  <1>2. ASSUME NEW j \in Jobs PROVE JobInv(j)'
    <2>1. CASE pc'[j] = pc[j]
      BY <1>1, <2>1, Untouched DEF IInv
    <2>2. CASE pc[j] \in Held /\ pc'[j] = "lost"
      BY <1>1, <2>2 DEF IInv, JobInv, PcInv, RowInv, Integrity, InFlight, Held, Working
    <2> QED
      BY <1>1, <2>1, <2>2
  <1>3. HeldByServer'
    BY <1>0, <1>1 DEF IInv, HeldByServer, Held, Working
  <1>4. OneServer'
    BY <1>0, <1>1 DEF IInv, OneServer
  <1>5. QueueInv'
    <2>0. owner' = owner
      BY <1>1
    <2> SUFFICES ASSUME NEW q \in Procs
                 PROVE  /\ \A i \in 1..Len(queue'[q]) :
                              pc'[queue'[q][i]] = "queued" /\ owner[queue'[q][i]] = q
                        /\ \A i, k \in 1..Len(queue'[q]) :
                              queue'[q][i] = queue'[q][k] => i = k
      BY <2>0 DEF QueueInv
    <2>1. CASE q = p
      <3>1. queue'[q] = <<>>
        BY <1>0, <1>1, <2>1
      <3> QED
        BY <3>1
    <2>2. CASE q # p
      <3>1. queue'[q] = queue[q]
        BY <1>0, <1>1, <2>2
      <3>2. \A i \in 1..Len(queue[q]) : queue[q][i] \in Jobs
        BY <1>0
      <3>3. /\ \A i \in 1..Len(queue[q]) :
                  pc[queue[q][i]] = "queued" /\ owner[queue[q][i]] = q
            /\ \A i, k \in 1..Len(queue[q]) : queue[q][i] = queue[q][k] => i = k
        BY DEF IInv, QueueInv
      <3> QED
        BY <1>1, <2>2, <3>1, <3>2, <3>3
    <2> QED
      BY <2>1, <2>2
  <1> QED
    BY <1>2, <1>3, <1>4, <1>5 DEF IInv

LEMMA InsertJobInv ==
    ASSUME IInv, TypeInv', NEW p \in Procs, NEW j \in Jobs, InsertJob(p, j)
    PROVE  IInv'
  <1> DEFINE r == [NoRow EXCEPT !.status = "PENDING"]
  <1>0. /\ phase \in [Procs -> Phases] /\ owner \in [Jobs -> 0..MaxProcs]
        /\ row \in [Jobs -> Row] /\ node[j] \in Nodes /\ pc \in [Jobs -> PCs]
        /\ queue \in [Procs -> Seq(Jobs)]
    BY DEF IInv, TypeInv, TypeOK
  <1>1. PICK out \in Outcomes :
          /\ InsertRow(j, out)
          /\ pc' = [pc EXCEPT ![j] = IF out = "raised" THEN "rejected" ELSE "created"]
    BY DEF InsertJob
  <1>2. /\ row' = row \/ row' = [row EXCEPT ![j] = r]
        /\ out = "returned" => row' = [row EXCEPT ![j] = r]
    BY <1>1, WriteEffect DEF InsertRow
  <1>3. /\ UNCHANGED <<reports, phase, queue, node>>
        /\ owner' = [owner EXCEPT ![j] = p]
        /\ pc[j] = "new" /\ phase[p] = "serving" /\ JobInv(j) /\ row[j] = NoRow
    BY DEF InsertJob, procVars, runVars, IInv, JobInv, PcInv
  <1>4. (pc'[j] = "created" /\ out = "returned") \/ pc'[j] = "rejected"
    BY <1>0, <1>1 DEF Outcomes
  <1>5. JobInv(j)'
    <2>1. CASE row'[j] = r
      BY <1>0, <1>3, <1>4, <2>1, NodesAssumption
      DEF JobInv, PcInv, RowInv, Integrity, InFlight, Terminal, NoRow, Nodes
    <2>2. CASE row' = row /\ pc'[j] = "rejected"
      BY <1>3, <2>2 DEF JobInv, PcInv, RowInv, Integrity, InFlight
    <2> QED
      BY <1>0, <1>2, <1>4, <2>1, <2>2
  <1>6. ASSUME NEW i \in Jobs PROVE JobInv(i)'
    <2>1. CASE i = j
      BY <1>5, <2>1
    <2>2. CASE i # j
      <3>1. row'[i] = row[i] /\ pc'[i] = pc[i]
        BY <1>0, <1>1, <1>2, <2>2
      <3> QED
        BY <1>3, <3>1, Untouched DEF IInv
    <2> QED
      BY <2>1, <2>2
  <1>7. HeldByServer'
    BY <1>0, <1>1, <1>3, <1>4 DEF IInv, HeldByServer
  <1>8. OneServer'
    BY <1>3 DEF IInv, OneServer
  <1>9. QueueInv'
    BY <1>0, <1>1, <1>3 DEF IInv, QueueInv
  <1> QED
    BY <1>6, <1>7, <1>8, <1>9 DEF IInv

LEMMA SubmitJobInv ==
    ASSUME IInv, TypeInv', NEW j \in Jobs, SubmitJob(j) PROVE IInv'
  <1>0. /\ phase \in [Procs -> Phases] /\ owner \in [Jobs -> 0..MaxProcs]
        /\ pc \in [Jobs -> PCs] /\ queue \in [Procs -> Seq(Jobs)]
    BY DEF IInv, TypeInv, TypeOK
  <1> DEFINE p == owner[j]
  <1>1. /\ UNCHANGED <<row, reports, phase, owner, node>>
        /\ pc[j] = "created" /\ pc' = [pc EXCEPT ![j] = "queued"]
        /\ queue' = [queue EXCEPT ![p] = Append(@, j)]
    BY DEF SubmitJob, rowVars, procVars, runVars
  <1>2. p \in Procs /\ phase[p] \in {"serving", "draining"}
    BY <1>1 DEF IInv, HeldByServer, Held
  <1>3. ASSUME NEW i \in Jobs PROVE JobInv(i)'
    <2>1. CASE i = j
      BY <1>0, <1>1, <2>1 DEF IInv, JobInv, PcInv, RowInv, Integrity, InFlight
    <2>2. CASE i # j
      BY <1>0, <1>1, <2>2, Untouched DEF IInv
    <2> QED
      BY <2>1, <2>2
  <1>4. HeldByServer'
    BY <1>0, <1>1, <1>2 DEF IInv, HeldByServer
  <1>5. OneServer'
    BY <1>1 DEF IInv, OneServer
  <1>6. QueueInv'
    <2>0. owner' = owner
      BY <1>1
    <2> SUFFICES ASSUME NEW q \in Procs
                 PROVE  /\ \A i \in 1..Len(queue'[q]) :
                              pc'[queue'[q][i]] = "queued" /\ owner[queue'[q][i]] = q
                        /\ \A i, k \in 1..Len(queue'[q]) :
                              queue'[q][i] = queue'[q][k] => i = k
      BY <2>0 DEF QueueInv
    <2>1. queue[q] \in Seq(Jobs)
      BY <1>0
    <2>2. /\ \A i \in 1..Len(queue[q]) : /\ queue[q][i] \in Jobs \ {j}
                                         /\ pc[queue[q][i]] = "queued"
                                         /\ owner[queue[q][i]] = q
          /\ \A i, k \in 1..Len(queue[q]) : queue[q][i] = queue[q][k] => i = k
      BY <1>1, <2>1 DEF IInv, QueueInv
    <2>3. CASE q = p
      <3>1. queue'[q] = Append(queue[q], j)
        BY <1>0, <1>1, <1>2, <2>3
      <3>2. /\ Len(queue'[q]) = Len(queue[q]) + 1
            /\ \A i \in 1..Len(queue[q]) : queue'[q][i] = queue[q][i]
            /\ queue'[q][Len(queue[q]) + 1] = j
        BY <2>1, <3>1
      <3>3. Len(queue[q]) \in Nat
        BY <2>1
      <3>4. \A i \in 1..Len(queue'[q]) : i \in 1..Len(queue[q]) \/ i = Len(queue[q]) + 1
        BY <3>2, <3>3
      <3> QED
        BY <1>0, <1>1, <2>2, <2>3, <3>2, <3>4
    <2>4. CASE q # p
      <3>1. queue'[q] = queue[q]
        BY <1>0, <1>1, <2>4
      <3> QED
        BY <1>0, <1>1, <2>2, <3>1
    <2> QED
      BY <2>3, <2>4
  <1> QED
    BY <1>3, <1>4, <1>5, <1>6 DEF IInv

LEMMA PickUpInv ==
    ASSUME IInv, TypeInv', NEW p \in Procs, PickUp(p) PROVE IInv'
  <1>0. /\ phase \in [Procs -> Phases] /\ owner \in [Jobs -> 0..MaxProcs]
        /\ pc \in [Jobs -> PCs] /\ queue \in [Procs -> Seq(Jobs)]
    BY DEF IInv, TypeInv, TypeOK
  <1> DEFINE j == Head(queue[p])
  <1>1. /\ UNCHANGED <<row, reports, phase, owner, node>>
        /\ queue[p] # <<>> /\ pc' = [pc EXCEPT ![j] = "mark"]
        /\ queue' = [queue EXCEPT ![p] = Tail(@)]
        /\ phase[p] \in {"serving", "draining"}
    BY DEF PickUp, rowVars, procVars, runVars
  <1>2. 1 \in 1..Len(queue[p]) /\ j = queue[p][1] /\ j \in Jobs
    BY <1>0, <1>1
  <1>3. pc[j] = "queued" /\ owner[j] = p
    BY <1>2 DEF IInv, QueueInv
  <1>4. ASSUME NEW i \in Jobs PROVE JobInv(i)'
    <2>1. CASE i = j
      <3>1. pc'[i] = "mark" /\ pc[i] = "queued" /\ UNCHANGED <<row, reports, node>>
        BY <1>0, <1>1, <1>2, <1>3, <2>1
      <3> QED
        BY <3>1 DEF IInv, JobInv, PcInv, RowInv, Integrity, InFlight
    <2>2. CASE i # j
      BY <1>0, <1>1, <2>2, Untouched DEF IInv
    <2> QED
      BY <2>1, <2>2
  <1>5. HeldByServer'
    BY <1>0, <1>1, <1>3 DEF IInv, HeldByServer
  <1>6. OneServer'
    BY <1>1 DEF IInv, OneServer
  <1>7. QueueInv'
    <2>0. owner' = owner
      BY <1>1
    <2> SUFFICES ASSUME NEW q \in Procs
                 PROVE  /\ \A i \in 1..Len(queue'[q]) :
                              pc'[queue'[q][i]] = "queued" /\ owner[queue'[q][i]] = q
                        /\ \A i, k \in 1..Len(queue'[q]) :
                              queue'[q][i] = queue'[q][k] => i = k
      BY <2>0 DEF QueueInv
    <2>1. queue[q] \in Seq(Jobs)
      BY <1>0
    <2>2. /\ \A i \in 1..Len(queue[q]) : /\ queue[q][i] \in Jobs
                                         /\ pc[queue[q][i]] = "queued"
                                         /\ owner[queue[q][i]] = q
          /\ \A i, k \in 1..Len(queue[q]) : queue[q][i] = queue[q][k] => i = k
      BY <2>1 DEF IInv, QueueInv
    <2>3. CASE q = p
      <3>1. queue'[q] = Tail(queue[q])
        BY <1>0, <1>1, <2>3
      <3>2. /\ Len(queue[q]) \in Nat \ {0} /\ Len(queue'[q]) = Len(queue[q]) - 1
            /\ \A i \in 1..Len(queue'[q]) : queue'[q][i] = queue[q][i + 1]
        <4>1. queue[q] # <<>> /\ queue[q] \in Seq(Jobs)
          BY <1>1, <2>1, <2>3
        <4>2. /\ Len(queue[q]) \in Nat \ {0}
              /\ Len(Tail(queue[q])) = Len(queue[q]) - 1
              /\ \A i \in 1..Len(Tail(queue[q])) : Tail(queue[q])[i] = queue[q][i + 1]
          BY <4>1, EmptySeq, HeadTailProperties
        <4> QED
          BY <3>1, <4>2
      <3>3. \A i \in 1..Len(queue'[q]) : i + 1 \in 1..Len(queue[q]) /\ i + 1 # 1
        BY <3>2
      <3>4. \A i \in 1..Len(queue'[q]) : queue'[q][i] # j
        BY <1>2, <2>2, <2>3, <3>2, <3>3
      <3>5. \A i, k \in 1..Len(queue'[q]) : queue'[q][i] = queue'[q][k] => i = k
        <4> SUFFICES ASSUME NEW i \in 1..Len(queue'[q]), NEW k \in 1..Len(queue'[q]),
                            queue'[q][i] = queue'[q][k]
                     PROVE  i = k
          OBVIOUS
        <4>1. i + 1 = k + 1
          BY <2>2, <3>2, <3>3
        <4> QED
          BY <3>2, <4>1
      <3>6. ASSUME NEW i \in 1..Len(queue'[q])
            PROVE  pc'[queue'[q][i]] = "queued" /\ owner[queue'[q][i]] = q
        <4>1. queue'[q][i] = queue[q][i + 1] /\ i + 1 \in 1..Len(queue[q])
          BY <3>2, <3>3
        <4>2. pc'[queue'[q][i]] = pc[queue'[q][i]]
          BY <1>0, <1>1, <2>2, <3>4, <4>1
        <4> QED
          BY <2>2, <4>1, <4>2
      <3> QED
        BY <3>5, <3>6
    <2>4. CASE q # p
      <3>1. queue'[q] = queue[q]
        BY <1>0, <1>1, <2>4
      <3> QED
        BY <1>0, <1>1, <1>3, <2>2, <2>4, <3>1
    <2> QED
      BY <2>3, <2>4
  <1> QED
    BY <1>4, <1>5, <1>6, <1>7 DEF IInv

LEMMA NextInv == IInv /\ [Next]_vars => IInv'
  <1> SUFFICES ASSUME IInv, [Next]_vars PROVE IInv'
    OBVIOUS
  <1>1. TypeInv'
    BY NextType DEF IInv
  <1>2. ASSUME NEW p \in Procs, Startup(p) PROVE IInv'
    BY <1>1, <1>2, StartInv, ServingInv, RecoverInv DEF Startup
  <1>3. ASSUME NEW p \in Procs, Disruption(p) PROVE IInv'
    BY <1>1, <1>3, ServingInv, CrashInv DEF Disruption
  <1>4. ASSUME NEW p \in Procs, Exit(p) PROVE IInv'
    BY <1>1, <1>4, ServingInv
  <1>5. ASSUME NEW p \in Procs, PickUp(p) PROVE IInv'
    BY <1>1, <1>5, PickUpInv
  <1>6. ASSUME NEW p \in Procs, NEW j \in Jobs, InsertJob(p, j) PROVE IInv'
    BY <1>1, <1>6, InsertJobInv
  <1>7. ASSUME NEW j \in Jobs, SubmitJob(j) PROVE IInv'
    BY <1>1, <1>7, SubmitJobInv
  <1>8. ASSUME NEW j \in Jobs, Worker(j) PROVE IInv'
    BY <1>1, <1>8, MarkRunningInv, WriteStageInv, NodeInv, InsertReportInv,
       MarkCompleteInv, MarkFailedInv DEF Worker
  <1>9. CASE UNCHANGED vars
    <2>1. UNCHANGED <<row, reports, pc, owner, node, queue, phase>>
      BY <1>9 DEF vars
    <2>2. HeldByServer' /\ OneServer'
      BY <2>1 DEF IInv, HeldByServer, OneServer
    <2> QED
      BY <1>1, <2>1, <2>2, ServerStep
  <1> QED
    BY <1>2, <1>3, <1>4, <1>5, <1>6, <1>7, <1>8, <1>9 DEF Next

THEOREM Inductive == Spec => []IInv
  BY InitInv, NextInv, PTL DEF Spec

-----------------------------------------------------------------------------
(* The safety invariants.                                                  *)

\* A job reported COMPLETE has its report saved.
THEOREM CompleteHasReportHolds == Spec => []CompleteHasReport
  <1>1. IInv => CompleteHasReport
    BY DEF IInv, JobInv, RowInv, CompleteHasReport
  <1> QED
    BY <1>1, Inductive, PTL

\* Every row satisfies JobRecord's validators, though no update runs them.
THEOREM RowIntegrityHolds == Spec => []RowIntegrity
  <1>1. IInv => RowIntegrity
    BY DEF IInv, JobInv, Integrity, RowIntegrity
  <1> QED
    BY <1>1, Inductive, PTL

\* A job that is not terminal is in hand, or its POST, last write or server failed.
THEOREM NoSilentStallHolds == Spec => []NoSilentStall
  <1>1. IInv => NoSilentStall
    <2> SUFFICES ASSUME IInv, NEW j \in Jobs, row[j].status \in {"PENDING", "RUNNING"}
                 PROVE  pc[j] \in Held \union {"rejected", "gaveup", "lost"}
      BY DEF NoSilentStall
    <2>1. pc[j] \in PCs /\ PcInv(j)
      BY DEF IInv, TypeInv, TypeOK, JobInv
    <2>2. pc[j] # "new"
      BY <2>1 DEF PcInv, NoRow
    <2>3. pc[j] # "done"
      BY <2>1 DEF PcInv, Terminal
    <2> QED
      BY <2>1, <2>2, <2>3 DEF PCs, Over
  <1> QED
    BY <1>1, Inductive, PTL

\* current_stage never names a workflow node that is not running yet.
THEOREM StageNotAheadHolds == Spec => []StageNotAhead
  <1>1. IInv => StageNotAhead
    BY DEF IInv, JobInv, Integrity, StageNotAhead
  <1> QED
    BY <1>1, Inductive, PTL

-----------------------------------------------------------------------------
(* What a step may do to a row.                                            *)

\* The writes, each with the step of the run it belongs to.
RowChange(j) ==
    \/ /\ row[j].status = "NONE" /\ row'[j].status = "PENDING"
       /\ row'[j].error = "none"
    \/ /\ row[j].status = "PENDING" /\ row'[j].status = "RUNNING"
       /\ row'[j].error = row[j].error
    \/ /\ row[j].status \in {"RUNNING", "FAILED"} /\ row'[j].status = row[j].status
       /\ row'[j].error = row[j].error /\ pc[j] = "stage"
    \/ /\ row[j].status \in {"RUNNING", "FAILED"} /\ row'[j].status = "COMPLETE"
       /\ row'[j].error = row[j].error /\ pc[j] = "complete"
    \/ /\ row[j].status \in {"PENDING", "RUNNING", "FAILED"} /\ row'[j].status = "FAILED"
       /\ row'[j].error = reason[j] /\ pc[j] = "fail"
    \/ /\ row[j].status = "RUNNING" /\ row'[j].status = "FAILED"
       /\ ~Overlap => pc[j] \notin Held

LEMMA RowStep ==
    ASSUME IInv, Next, NEW j \in Jobs, row'[j] # row[j]
    PROVE  RowChange(j)
  <1>0. row \in [Jobs -> Row] /\ row[j] \in Row /\ pc \in [Jobs -> PCs]
    BY DEF IInv, TypeInv, TypeOK
  <1>1. JobInv(j)
    BY DEF IInv
  <1>2. ASSUME NEW p \in Procs, NEW i \in Jobs, RecoverOrphan(p, i) PROVE RowChange(j)
    <2>1. row' = [row EXCEPT ![i] = Orphaned(i)] /\ row[i].status = "RUNNING" /\ i = j
      BY <1>0, <1>2 DEF RecoverOrphan, RecoverRow
    <2>2. row'[j].status = "FAILED"
      BY <1>0, <2>1, NewRows DEF IInv, TypeInv
    <2>3. ~Overlap => pc[j] \notin Held
      <3> SUFFICES ASSUME ~Overlap, pc[j] \in Held PROVE FALSE
        OBVIOUS
      <3>1. owner[j] \in Procs /\ phase[owner[j]] \in {"serving", "draining"}
        BY DEF IInv, HeldByServer
      <3>2. phase[p] = "recovering"
        BY <1>2 DEF RecoverOrphan
      <3>3. owner[j] < p \/ p < owner[j]
        BY <3>1, <3>2, ProcsAssumption DEF Procs
      <3> QED
        BY <3>1, <3>2, <3>3 DEF IInv, OneServer
    <2> QED
      BY <2>1, <2>2, <2>3 DEF RowChange
  <1>3. ASSUME NEW p \in Procs, NEW i \in Jobs, InsertJob(p, i) PROVE RowChange(j)
    <2>1. PICK out \in Outcomes : Write(i, [NoRow EXCEPT !.status = "PENDING"], out)
      BY <1>3 DEF InsertJob, InsertRow
    <2>2. i = j /\ row'[j] = [NoRow EXCEPT !.status = "PENDING"] /\ pc[j] = "new"
      BY <1>0, <1>3, <2>1, WriteEffect DEF InsertJob
    <2> QED
      BY <1>1, <2>2 DEF RowChange, JobInv, PcInv, NoRow
  <1>4. ASSUME NEW i \in Jobs, MarkRunning(i) PROVE RowChange(j)
    <2>1. row' = [row EXCEPT ![i] = Started(i)] /\ pc[i] = "mark"
      BY <1>0, <1>4, UpdateEffect DEF MarkRunning
    <2>2. i = j /\ row'[j] = Started(j)
      BY <1>0, <2>1
    <2> QED
      BY <1>1, <2>1, <2>2, NewRows DEF RowChange, JobInv, PcInv, IInv, TypeInv
  <1>5. ASSUME NEW i \in Jobs, WriteStage(i) PROVE RowChange(j)
    <2>1. row' = [row EXCEPT ![i] = AtStage(i)] /\ pc[i] = "stage"
      BY <1>0, <1>5, UpdateEffect DEF WriteStage
    <2>2. i = j /\ row'[j] = AtStage(j)
      BY <1>0, <2>1
    <2> QED
      BY <1>1, <2>1, <2>2, NewRows DEF RowChange, JobInv, PcInv, InFlight, IInv, TypeInv
  <1>6. ASSUME NEW i \in Jobs, MarkComplete(i) PROVE RowChange(j)
    <2>1. row' = [row EXCEPT ![i] = Completed(i)] /\ pc[i] = "complete"
      BY <1>0, <1>6, LastWriteEffect DEF MarkComplete
    <2>2. i = j /\ row'[j] = Completed(j)
      BY <1>0, <2>1
    <2> QED
      BY <1>1, <2>1, <2>2, NewRows DEF RowChange, JobInv, PcInv, InFlight, IInv, TypeInv
  <1>7. ASSUME NEW i \in Jobs, MarkFailed(i) PROVE RowChange(j)
    <2>1. row' = [row EXCEPT ![i] = Failed(i)] /\ pc[i] = "fail"
      BY <1>0, <1>7, LastWriteEffect DEF MarkFailed
    <2>2. i = j /\ row'[j] = Failed(j)
      BY <1>0, <2>1
    <2> QED
      BY <1>1, <2>1, <2>2, NewRows DEF RowChange, JobInv, PcInv, IInv, TypeInv
  <1> QED
    BY <1>2, <1>3, <1>4, <1>5, <1>6, <1>7
    DEF Next, Startup, Disruption, Worker, StartProcess, ListOrphans, Shutdown, Exit,
        Crash, PickUp, SubmitJob, NodeReturns, NodeRaises, InsertReport, rowVars

LEMMA RowStepOrStutter ==
    ASSUME IInv, [Next]_vars, NEW j \in Jobs
    PROVE  row'[j] = row[j] \/ RowChange(j)
  <1>1. CASE UNCHANGED vars
    BY <1>1 DEF vars
  <1> QED
    BY <1>1, RowStep

\* A COMPLETE job is never touched again, even by a second server.
THEOREM CompleteIsFinalHolds == Spec => CompleteIsFinal
  <1>1. IInv /\ [Next]_vars
          => [\A j \in Jobs : row[j].status = "COMPLETE" => row'[j] = row[j]]_vars
    BY RowStepOrStutter DEF RowChange
  <1> QED
    BY <1>1, Inductive, PTL DEF Spec, CompleteIsFinal

\* Unless servers overlap, recovery never fails a job that a server has in hand.
THEOREM RecoverySparesLiveJobsHolds ==
    ASSUME ~Overlap PROVE Spec => RecoverySparesLiveJobs
  <1>1. IInv /\ [Next]_vars
          => [\A j \in Jobs : row'[j].error = "OrphanedJobError" /\ row[j] # row'[j]
                                => pc[j] \notin Held]_vars
    <2> SUFFICES ASSUME IInv, [Next]_vars, NEW j \in Jobs,
                        row'[j].error = "OrphanedJobError", row[j] # row'[j]
                 PROVE  pc[j] \notin Held
      OBVIOUS
    <2>1. RowChange(j)
      BY RowStepOrStutter
    <2>2. PcInv(j) /\ Integrity(j) /\ reason[j] # "OrphanedJobError"
      BY DEF IInv, TypeInv, TypeOK, JobInv, RunErrors, NodeFailureKinds
    <2>3. row[j].status \in {"PENDING", "RUNNING"} => row[j].error # "OrphanedJobError"
      BY <2>2 DEF Integrity
    <2>4. pc[j] \in {"stage", "complete"} => row[j].status = "RUNNING"
      BY <2>2, OverlapAssumption DEF PcInv, InFlight
    <2> QED
      BY <2>1, <2>2, <2>3, <2>4 DEF RowChange
  <1> QED
    BY <1>1, Inductive, PTL DEF Spec, RecoverySparesLiveJobs

-----------------------------------------------------------------------------
(* JobLifecycle implements JobContract.                                    *)

LEMMA ContractStep ==
    ASSUME IInv, [Next]_vars, NEW j \in Jobs,
           row'[j].status # row[j].status
    PROVE  \/ row[j].status = "NONE" /\ row'[j].status = "PENDING"
           \/ row[j].status = "PENDING" /\ row'[j].status = "RUNNING"
           \/ row[j].status = "RUNNING" /\ row'[j].status = "COMPLETE"
           \/ row[j].status \in {"PENDING", "RUNNING"} /\ row'[j].status = "FAILED"
           \/ Overlap /\ row[j].status = "FAILED" /\ row'[j].status = "COMPLETE"
  <1>1. RowChange(j)
    BY RowStepOrStutter
  <1>2. pc[j] = "complete" /\ row[j].status = "FAILED" => Overlap
    BY DEF IInv, JobInv, PcInv, InFlight
  <1> QED
    BY <1>1, <1>2 DEF RowChange

\* A step writes to at most one row.
LEMMA OneRow ==
    ASSUME Next, row \in [Jobs -> Row], row' # row
    PROVE  \E i \in Jobs : row' = [row EXCEPT ![i] = row'[i]]
  <1>1. \E i \in Jobs, r \in {row'[k] : k \in Jobs} : row' = [row EXCEPT ![i] = r]
    <2>1. ASSUME NEW i \in Jobs, NEW r, row' = [row EXCEPT ![i] = r]
          PROVE  \E k \in Jobs, q \in {row'[h] : h \in Jobs} : row' = [row EXCEPT ![k] = q]
      BY <2>1
    <2>2. ASSUME NEW p \in Procs, NEW i \in Jobs, RecoverOrphan(p, i)
          PROVE  \E r : row' = [row EXCEPT ![i] = r]
      BY <2>2 DEF RecoverOrphan, RecoverRow
    <2>3. ASSUME NEW p \in Procs, NEW i \in Jobs, InsertJob(p, i)
          PROVE  \E r : row' = [row EXCEPT ![i] = r]
      BY <2>3, WriteEffect DEF InsertJob, InsertRow
    <2>4. ASSUME NEW i \in Jobs, MarkRunning(i) \/ WriteStage(i)
          PROVE  \E r : row' = [row EXCEPT ![i] = r]
      BY <2>4, UpdateEffect DEF MarkRunning, WriteStage
    <2>5. ASSUME NEW i \in Jobs, MarkComplete(i) \/ MarkFailed(i)
          PROVE  \E r : row' = [row EXCEPT ![i] = r]
      BY <2>5, UpdateEffect DEF MarkComplete, MarkFailed, LastWrite
    <2> QED
      BY <2>1, <2>2, <2>3, <2>4, <2>5
      DEF Next, Startup, Disruption, Worker, StartProcess, ListOrphans, Shutdown, Exit,
          Crash, PickUp, SubmitJob, NodeReturns, NodeRaises, InsertReport, rowVars
  <1> QED
    BY <1>1

\* Every behaviour of the servers, whatever is lost, raised, killed or retried, is
\* one of the documented life cycle.
THEOREM ImplementsContractHolds == Spec => ImplementsContract
  <1>1. Init => Contract!Init
    BY DEF Init, Contract!Init, Status, NoRow
  <1>2. IInv /\ [Next]_vars => [Contract!Next]_Status
    <2> SUFFICES ASSUME IInv, [Next]_vars, Status' # Status PROVE Contract!Next
      OBVIOUS
    <2>0. row \in [Jobs -> Row]
      BY DEF IInv, TypeInv, TypeOK
    <2>1. Next /\ row' # row
      BY DEF vars, Status
    <2>2. PICK i \in Jobs : row' = [row EXCEPT ![i] = row'[i]]
      BY <2>0, <2>1, OneRow
    <2>3. Status' = [Status EXCEPT ![i] = row'[i].status]
      BY <2>0, <2>2 DEF Status
    <2>4. row'[i].status # row[i].status /\ Status[i] = row[i].status
      BY <2>3 DEF Status
    <2> QED
      BY <2>3, <2>4, ContractStep
      DEF Contract!Next, Contract!Accept, Contract!Start, Contract!Complete,
          Contract!Fail, Contract!CompleteLate, Contract!Move
  <1> QED
    BY <1>1, <1>2, Inductive, PTL DEF Spec, ImplementsContract, Contract!Spec

=============================================================================
