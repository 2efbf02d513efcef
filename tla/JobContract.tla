---------------------------- MODULE JobContract ----------------------------
(***************************************************************************)
(* What the backend promises its clients about the status of a job, as the *)
(* docstring of JobStatus states it (backend/shared/types/enums.py):       *)
(*                                                                         *)
(*     PENDING -> RUNNING -> COMPLETE                                      *)
(*     PENDING -> RUNNING -> FAILED                                        *)
(*     PENDING -> FAILED                                                   *)
(*                                                                         *)
(* "COMPLETE and FAILED are terminal states."  The module says nothing of  *)
(* processes, threads or writes: JobLifecycle implements it.  With         *)
(* LateCompletion a job reported FAILED may still turn COMPLETE, which is  *)
(* what remains of the promise while two server processes overlap.         *)
(***************************************************************************)
CONSTANTS Jobs,            \* the jobs clients submit
          LateCompletion   \* BOOLEAN: may a FAILED job still become COMPLETE?

VARIABLE status            \* status[j], "NONE" before the job exists

Statuses == {"NONE", "PENDING", "RUNNING", "COMPLETE", "FAILED"}

TypeOK == status \in [Jobs -> Statuses]

Init == status = [j \in Jobs |-> "NONE"]

Move(j, from, to) == /\ status[j] \in from
                     /\ status' = [status EXCEPT ![j] = to]

Accept(j)       == Move(j, {"NONE"}, "PENDING")
Start(j)        == Move(j, {"PENDING"}, "RUNNING")
Complete(j)     == Move(j, {"RUNNING"}, "COMPLETE")
Fail(j)         == Move(j, {"PENDING", "RUNNING"}, "FAILED")
CompleteLate(j) == LateCompletion /\ Move(j, {"FAILED"}, "COMPLETE")

Next == \E j \in Jobs : \/ Accept(j)
                        \/ Start(j)
                        \/ Complete(j)
                        \/ Fail(j)
                        \/ CompleteLate(j)

Spec == Init /\ [][Next]_status

=============================================================================
