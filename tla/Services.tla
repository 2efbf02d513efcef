------------------------------ MODULE Services ------------------------------
(***************************************************************************)
(* What runs beside the pipeline, and uses Gemini: the worker threads of   *)
(* the server, which sleep in GeminiClient.generate between two requests,  *)
(* and the script that loads the knowledge base, a process of its own.     *)
(*                                                                         *)
(* Of a run the model has one call of generate: a thread is free again     *)
(* when the call is over. The two processes share no variable, and each    *)
(* property is about one of them: a behaviour of the model is one of the   *)
(* server or one of the script, not every interleaving of both.            *)
(***************************************************************************)
EXTENDS GeminiClient, ServicePool, KnowledgeBase

ASSUME CallsAssumption == Calls = Requests

VARIABLE process    \* the process that is modelled: "server" or "script"

vars == <<geminiVars, poolVars, baseVars, process>>

Init ==
    /\ process \in {"server", "script"}
    /\ GeminiInit /\ PoolInit /\ BaseInit

\* A step of the executors; a run is over only when its call is.
PoolStep ==
    /\ process = "server"
    /\ \/ \E r \in Requests : CheckExecutor(r) \/ CreateExecutor(r) \/ ReturnExecutor(r) \/ SubmitJob(r)
       \/ \E e \in Requests : TakeJob(e)
       \/ \E e, r \in Requests : at[r] = "over" /\ FinishJob(e, r)
       \/ ShutdownExecutor
    /\ UNCHANGED <<geminiVars, baseVars, process>>

\* A step of a call, on the thread of its run.
GeminiStep ==
    /\ process = "server"
    /\ \E c \in Calls :
          \/ request[c] = "running" /\ Generate(c)
          \/ RequestEnds(c)
          \/ Wake(c)
    /\ UNCHANGED <<poolVars, baseVars, process>>

\* A step of the script, or of whoever edits the documents.
BaseStep ==
    /\ process = "script"
    /\ BaseNext
    /\ UNCHANGED <<geminiVars, poolVars, process>>

Next == PoolStep \/ GeminiStep \/ BaseStep

Spec == Init /\ [][Next]_vars

\* The threads of the server run, each sleep ends, and Gemini answers every request or
\* the connection breaks. Nobody has to submit a job, and the server may stay up for ever.
Fairness ==
    /\ \A r \in Requests :
          /\ WF_vars((CreateExecutor(r) \/ ReturnExecutor(r) \/ SubmitJob(r))
                        /\ UNCHANGED <<geminiVars, baseVars, process>>)
          /\ WF_vars(TakeJob(r) /\ UNCHANGED <<geminiVars, baseVars, process>>)
          /\ WF_vars(at[r] = "over" /\ (\E e \in Requests : FinishJob(e, r))
                        /\ UNCHANGED <<geminiVars, baseVars, process>>)
    /\ \A c \in Calls :
          WF_vars(((request[c] = "running" /\ Generate(c)) \/ RequestEnds(c) \/ Wake(c))
                     /\ UNCHANGED <<poolVars, baseVars, process>>)

FairSpec == Spec /\ Fairness

-----------------------------------------------------------------------------
(* Properties                                                              *)

\* The types of the three parts; a call is under way only on a worker thread.
TypeOK ==
    /\ GeminiTypeOK /\ PoolTypeOK /\ BaseTypeOK
    /\ \A r \in Requests : at[r] \in {"request", "sleep"} => request[r] = "running"

\* Every job that was submitted is over in the end: one that waits behind a call that
\* sleeps, one on an executor that nobody refers to any more, and one that is still
\* queued when the server is torn down.
EveryJobEnds == \A r \in Requests : (request[r] # "new") ~> (request[r] = "over")

=============================================================================
