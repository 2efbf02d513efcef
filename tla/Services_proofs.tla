--------------------------- MODULE Services_proofs ---------------------------
(***************************************************************************)
(* What holds of the services beside the pipeline. First GeminiClient, for *)
(* any calls, any number of retries and any waits that Gemini may ask for, *)
(* from the inductive invariant GeminiInv; then ServicePool, for any number*)
(* of requests in get_executor at once and any number of worker threads,   *)
(* from the invariant PoolInv. The composition keeps what its parts        *)
(* promise: every behaviour of Services is one of GeminiClient, one of     *)
(* ServicePool and one of KnowledgeBase. Its own is that a call is under   *)
(* way on a worker thread only.                                            *)
(***************************************************************************)
EXTENDS Services, KnowledgeBase_proofs, FiniteSetTheorems, TLAPS

-----------------------------------------------------------------------------
(* GeminiClient: the invariant                                             *)

\* A call that is not over has no outcome, attempts left, and only errors that are
\* retried behind it; one that is idle has none.
CallInv(c) ==
    /\ at[c] = "idle" => faults[c] = <<>>
    /\ at[c] # "over" => /\ outcome[c] = "none"
                         /\ Len(faults[c]) <= MaxRetries
                         /\ \A i \in 1..Len(faults[c]) : Retried(faults[c][i])

\* How a call that is over ended, given the errors it had.
Bounded(c) ==
    /\ Len(faults[c]) <= MaxRetries + 1
    /\ \A i \in 1..Len(faults[c]) : i < Len(faults[c]) => Retried(faults[c][i])

Caused(c) ==
    LET last == faults[c][Len(faults[c])]
    IN  /\ outcome[c] = "MaxRetriesExceededError" =>
              Len(faults[c]) = MaxRetries + 1 /\ last.kind \in Transient
        /\ outcome[c] = "RateLimitError" =>
              /\ Len(faults[c]) > 0
              /\ last.kind \in RateLimits
              /\ \/ Len(faults[c]) = MaxRetries + 1
                 \/ last.kind = "client_429" /\ last.after > ImmediateFailThreshold
        /\ outcome[c] = "LLMTimeoutError" => Len(faults[c]) > 0 /\ last.kind = "deadline"
        /\ outcome[c] \in {"text", "LLMResponseParseError"} =>
              \A i \in 1..Len(faults[c]) : Retried(faults[c][i])

GeminiInv == GeminiTypeOK /\ \A c \in Calls : CallInv(c) /\ Bounded(c) /\ Caused(c)

-----------------------------------------------------------------------------
(* GeminiClient: one request                                               *)

\* The errors of a call after one more of them.
LEMMA RecordedFault ==
    ASSUME NEW s \in Seq(Fault), NEW f \in Fault
    PROVE  /\ Append(s, f) \in Seq(Fault)
           /\ Len(Append(s, f)) = Len(s) + 1
           /\ Append(s, f)[Len(s) + 1] = f
           /\ \A i \in 1..Len(s) : Append(s, f)[i] = s[i]
  OBVIOUS

LEMMA InitialInv == GeminiInit => GeminiInv
<1> SUFFICES ASSUME GeminiInit PROVE GeminiInv
  OBVIOUS
<1>1. GeminiTypeOK
  BY DEF GeminiInit, GeminiTypeOK, Outcomes
<1>2. ASSUME NEW c \in Calls PROVE CallInv(c) /\ Bounded(c) /\ Caused(c)
  BY GeminiAssumption DEF GeminiInit, CallInv, Bounded, Caused
<1> QED BY <1>1, <1>2 DEF GeminiInv

\* A step that only moves a call to a new request.
LEMMA MoveInv ==
    ASSUME GeminiInv, NEW c \in Calls, Generate(c) \/ Wake(c)
    PROVE  GeminiInv'
<1>1. GeminiTypeOK'
  BY DEF GeminiInv, GeminiTypeOK, Generate, Wake
<1>2. ASSUME NEW d \in Calls PROVE (CallInv(d) /\ Bounded(d) /\ Caused(d))'
  <2>1. CallInv(d) /\ Bounded(d) /\ Caused(d) /\ at \in [Calls -> {"idle", "request", "sleep", "over"}]
    BY DEF GeminiInv, GeminiTypeOK
  <2>2. faults' = faults /\ outcome' = outcome /\ at[c] \in {"idle", "sleep"}
    BY DEF Generate, Wake
  <2>3. at'[d] \in {at[d], "request"} /\ (at'[d] # at[d] => d = c)
    BY <2>1 DEF Generate, Wake
  <2>4. CallInv(d)'
    BY <2>1, <2>2, <2>3 DEF CallInv, Retried, ImmediateFailThreshold
  <2> QED BY <2>1, <2>2, <2>4 DEF Bounded, Caused
<1> QED BY <1>1, <1>2 DEF GeminiInv

LEMMA RespondsInv ==
    ASSUME GeminiInv, NEW c \in Calls, Responds(c)
    PROVE  GeminiInv'
<1>1. PICK result \in {"text", "LLMResponseParseError"} : EndCall(c, result)
  BY DEF Responds
<1>2. faults' = faults /\ at[c] = "request"
  BY DEF Responds
<1>3. GeminiTypeOK'
  BY <1>1, <1>2 DEF GeminiInv, GeminiTypeOK, EndCall, Outcomes
<1>4. ASSUME NEW d \in Calls PROVE (CallInv(d) /\ Bounded(d) /\ Caused(d))'
  <2>1. CallInv(d) /\ Bounded(d) /\ Caused(d) /\ GeminiTypeOK
    BY DEF GeminiInv
  <2>2. CASE d = c
    <3>1. at'[d] = "over" /\ outcome'[d] = result
      BY <1>1, <2>1, <2>2 DEF EndCall, GeminiTypeOK
    <3>2. \A i \in 1..Len(faults[d]) : Retried(faults[d][i])
      BY <1>2, <2>1, <2>2 DEF CallInv
    <3> QED BY <1>2, <2>1, <3>1, <3>2 DEF CallInv, Bounded, Caused
  <2>3. CASE d # c
    <3>1. at'[d] = at[d] /\ outcome'[d] = outcome[d]
      BY <1>1, <2>1, <2>3 DEF EndCall, GeminiTypeOK
    <3> QED BY <1>2, <2>1, <3>1 DEF CallInv, Bounded, Caused
  <2> QED BY <2>2, <2>3
<1> QED BY <1>3, <1>4 DEF GeminiInv

\* A request fails with the error of `kind`, after which the call sleeps or is over with
\* `result`: the invariant is kept if that is what the error and the attempts ask for.
LEMMA FaultInv ==
    ASSUME GeminiInv,
           NEW c \in Calls, at[c] = "request",
           NEW kind \in FaultKinds, NEW after \in Nat, NEW result \in Outcomes \ {"none"},
           Record(c, kind, after),
           \/ /\ Sleep(c)
              /\ Len(faults[c]) < MaxRetries
              /\ Retried([kind |-> kind, after |-> after])
           \/ /\ EndCall(c, result)
              /\ result \notin {"text", "LLMResponseParseError"}
              /\ result = "MaxRetriesExceededError" =>
                    Len(faults[c]) = MaxRetries /\ kind \in Transient
              /\ result = "RateLimitError" =>
                    /\ kind \in RateLimits
                    /\ \/ Len(faults[c]) = MaxRetries
                       \/ kind = "client_429" /\ after > ImmediateFailThreshold
              /\ result = "LLMTimeoutError" => kind = "deadline"
    PROVE  GeminiInv'
<1> DEFINE fault == [kind |-> kind, after |-> after]
<1>1. fault \in Fault
  BY DEF Fault
<1>2. faults[c] \in Seq(Fault) /\ faults' = [faults EXCEPT ![c] = Append(faults[c], fault)]
  BY DEF GeminiInv, GeminiTypeOK, Record
<1>3. GeminiTypeOK'
  <2>1. faults' \in [Calls -> Seq(Fault)]
    BY <1>1, <1>2, RecordedFault DEF GeminiInv, GeminiTypeOK
  <2> QED BY <2>1 DEF GeminiInv, GeminiTypeOK, Sleep, EndCall
<1>4. ASSUME NEW d \in Calls PROVE (CallInv(d) /\ Bounded(d) /\ Caused(d))'
  <2>1. CallInv(d) /\ Bounded(d) /\ Caused(d) /\ GeminiTypeOK
    BY DEF GeminiInv
  <2>2. CASE d # c
    <3>1. at'[d] = at[d] /\ outcome'[d] = outcome[d] /\ faults'[d] = faults[d]
      BY <1>2, <2>1, <2>2 DEF EndCall, Sleep, GeminiTypeOK
    <3> QED BY <2>1, <3>1 DEF CallInv, Bounded, Caused
  <2>3. CASE d = c
    <3> DEFINE n == Len(faults[c])
    <3>1. /\ n \in Nat /\ n <= MaxRetries /\ outcome[c] = "none"
          /\ \A i \in 1..n : Retried(faults[c][i])
      BY <1>2, <2>1, <2>3 DEF CallInv
    <3>2. /\ Len(faults'[d]) = n + 1
          /\ faults'[d][n + 1] = fault
          /\ \A i \in 1..n : faults'[d][i] = faults[c][i]
      BY <1>1, <1>2, <2>1, <2>3, RecordedFault DEF GeminiTypeOK
    <3>3. Bounded(d)'
      <4>1. \A i \in 1..(n + 1) : i < n + 1 => i \in 1..n
        BY <3>1
      <4> QED BY <3>1, <3>2, <4>1, GeminiAssumption DEF Bounded, Retried, ImmediateFailThreshold
    <3>4. CASE Sleep(c) /\ n < MaxRetries /\ Retried(fault)
      <4>1. at'[d] = "sleep" /\ outcome'[d] = "none"
        BY <2>1, <2>3, <3>1, <3>4 DEF Sleep, GeminiTypeOK
      <4>2. \A i \in 1..(n + 1) : Retried(faults'[d][i])
        <5>1. \A i \in 1..(n + 1) : i = n + 1 \/ i \in 1..n
          BY <3>1
        <5> QED BY <3>1, <3>2, <3>4, <5>1
      <4> QED BY <3>1, <3>2, <3>3, <3>4, <4>1, <4>2, GeminiAssumption
              DEF CallInv, Caused, Retried
    <3>5. CASE EndCall(c, result) /\ result \notin {"text", "LLMResponseParseError"}
      <4>1. at'[d] = "over" /\ outcome'[d] = result
        BY <2>1, <2>3, <3>5 DEF EndCall, GeminiTypeOK
      <4>2. Caused(d)'
        <5>1. /\ result = "MaxRetriesExceededError" => n = MaxRetries /\ kind \in Transient
              /\ result = "RateLimitError" =>
                    /\ kind \in RateLimits
                    /\ n = MaxRetries \/ (kind = "client_429" /\ after > ImmediateFailThreshold)
              /\ result = "LLMTimeoutError" => kind = "deadline"
          BY <3>5 DEF Sleep, EndCall, GeminiInv, GeminiTypeOK
        <5>2. fault.kind = kind /\ fault.after = after
          OBVIOUS
        <5> QED BY <3>1, <3>2, <3>5, <4>1, <5>1, <5>2 DEF Caused
      <4>3. CallInv(d)'
        BY <4>1 DEF CallInv
      <4> QED BY <3>3, <4>2, <4>3
    <3> QED BY <3>4, <3>5
  <2> QED BY <2>2, <2>3
<1> QED BY <1>3, <1>4 DEF GeminiInv

-----------------------------------------------------------------------------
(* GeminiClient: the steps                                                 *)

LEMMA StepInv ==
    ASSUME GeminiInv, NEW c \in Calls, RequestEnds(c)
    PROVE  GeminiInv'
<1>0. Len(faults[c]) \in Nat /\ (at[c] = "request" => Len(faults[c]) <= MaxRetries)
  BY DEF GeminiInv, GeminiTypeOK, CallInv
<1>1. CASE Responds(c)
  BY <1>1, RespondsInv
<1>2. CASE ClientRateLimited(c)
  <2>1. PICK after \in RetryAfters :
           /\ at[c] = "request"
           /\ Record(c, "client_429", after)
           /\ IF after <= ImmediateFailThreshold /\ Attempt(c) < MaxRetries
              THEN Sleep(c) ELSE EndCall(c, "RateLimitError")
    BY <1>2 DEF ClientRateLimited
  <2>2. after \in Nat /\ MaxRetries \in Nat
    BY GeminiAssumption
  <2>3. CASE after <= ImmediateFailThreshold /\ Len(faults[c]) < MaxRetries
    <3>1. Retried([kind |-> "client_429", after |-> after])
      BY <2>3 DEF Retried
    <3> QED BY <2>1, <2>2, <2>3, <3>1, FaultInv DEF Attempt, FaultKinds, RateLimits, Outcomes
  <2>4. CASE ~(after <= ImmediateFailThreshold /\ Len(faults[c]) < MaxRetries)
    <3>1. after > ImmediateFailThreshold \/ Len(faults[c]) = MaxRetries
      BY <1>0, <2>1, <2>2, <2>4 DEF ImmediateFailThreshold
    <3> DEFINE result == "RateLimitError"
    <3>2. EndCall(c, result)
      BY <2>1, <2>4 DEF Attempt
    <3>3. /\ result \in Outcomes \ {"none"}
          /\ result \notin {"text", "LLMResponseParseError", "MaxRetriesExceededError", "LLMTimeoutError"}
      BY DEF Outcomes
    <3>4. "client_429" \in FaultKinds /\ "client_429" \in RateLimits
      BY DEF FaultKinds, RateLimits, Transient
    <3> HIDE DEF result
    <3> QED BY <2>1, <2>2, <3>1, <3>2, <3>3, <3>4, FaultInv
  <2> QED BY <2>3, <2>4
<1>3. CASE ResourceExhausted(c)
  <2>1. PICK after \in RetryAfters :
           /\ at[c] = "request"
           /\ Record(c, "exhausted", after)
           /\ IF Attempt(c) < MaxRetries THEN Sleep(c) ELSE EndCall(c, "RateLimitError")
    BY <1>3 DEF ResourceExhausted
  <2>2. after \in Nat /\ MaxRetries \in Nat
    BY GeminiAssumption
  <2>3. Retried([kind |-> "exhausted", after |-> after])
    BY DEF Retried
  <2>4. CASE Len(faults[c]) < MaxRetries
    BY <2>1, <2>2, <2>3, <2>4, FaultInv DEF Attempt, FaultKinds, RateLimits, Outcomes
  <2>5. CASE ~(Len(faults[c]) < MaxRetries)
    <3>1. Len(faults[c]) = MaxRetries
      BY <1>0, <2>1, <2>2, <2>5
    <3> DEFINE result == "RateLimitError"
    <3>2. EndCall(c, result)
      BY <2>1, <2>5 DEF Attempt
    <3>3. /\ result \in Outcomes \ {"none"}
          /\ result \notin {"text", "LLMResponseParseError", "MaxRetriesExceededError", "LLMTimeoutError"}
      BY DEF Outcomes
    <3>4. "exhausted" \in FaultKinds /\ "exhausted" \in RateLimits
      BY DEF FaultKinds, RateLimits, Transient
    <3> HIDE DEF result
    <3> QED BY <2>1, <2>2, <3>1, <3>2, <3>3, <3>4, FaultInv
  <2> QED BY <2>4, <2>5
<1>4. CASE TransientError(c)
  <2>1. /\ at[c] = "request"
        /\ Record(c, "server", 0)
        /\ IF Attempt(c) < MaxRetries THEN Sleep(c) ELSE EndCall(c, "MaxRetriesExceededError")
    BY <1>4 DEF TransientError
  <2>2. Retried([kind |-> "server", after |-> 0])
    BY DEF Retried
  <2>3. CASE Len(faults[c]) < MaxRetries
    BY <2>1, <2>2, <2>3, FaultInv DEF Attempt, FaultKinds, Transient, Outcomes
  <2>4. CASE ~(Len(faults[c]) < MaxRetries)
    <3>1. Len(faults[c]) = MaxRetries
      BY <1>0, <2>1, <2>4, GeminiAssumption
    <3> DEFINE result == "MaxRetriesExceededError"
    <3>2. EndCall(c, result)
      BY <2>1, <2>4 DEF Attempt
    <3>3. /\ result \in Outcomes \ {"none"}
          /\ result \notin {"text", "LLMResponseParseError", "RateLimitError", "LLMTimeoutError"}
      BY DEF Outcomes
    <3>4. "server" \in FaultKinds /\ "server" \in Transient
      BY DEF FaultKinds, RateLimits, Transient
    <3> HIDE DEF result
    <3> QED BY <2>1, <3>1, <3>2, <3>3, <3>4, FaultInv
  <2> QED BY <2>3, <2>4
<1>5. CASE FinalError(c)
  <2>1. PICK kind \in Final :
           /\ at[c] = "request"
           /\ Record(c, kind, 0)
           /\ EndCall(c, IF kind = "deadline" THEN "LLMTimeoutError" ELSE kind)
    BY <1>5 DEF FinalError
  <2> DEFINE result == IF kind = "deadline" THEN "LLMTimeoutError" ELSE kind
  <2>2. /\ result \in Outcomes \ {"none"}
        /\ result \notin {"text", "LLMResponseParseError", "MaxRetriesExceededError", "RateLimitError"}
        /\ result = "LLMTimeoutError" => kind = "deadline"
    BY DEF Final, Outcomes
  <2>3. kind \in FaultKinds /\ EndCall(c, result)
    BY <2>1 DEF FaultKinds
  <2> HIDE DEF result
  <2> QED BY <2>1, <2>2, <2>3, FaultInv
<1> QED BY <1>1, <1>2, <1>3, <1>4, <1>5 DEF RequestEnds

LEMMA NextGemini == GeminiInv /\ [GeminiNext]_geminiVars => GeminiInv'
<1> SUFFICES ASSUME GeminiInv, [GeminiNext]_geminiVars PROVE GeminiInv'
  OBVIOUS
<1>1. CASE UNCHANGED geminiVars
  BY <1>1 DEF geminiVars, GeminiInv, GeminiTypeOK, CallInv, Bounded, Caused, Retried
<1>2. CASE GeminiNext
  <2>1. PICK c \in Calls : Generate(c) \/ RequestEnds(c) \/ Wake(c)
    BY <1>2 DEF GeminiNext
  <2> QED BY <2>1, MoveInv, StepInv
<1> QED BY <1>1, <1>2

\* What the invariant says of the properties that the runs check.
LEMMA InvImplies == GeminiInv => GeminiTypeOK /\ RetryDiscipline /\ ErrorTellsCause
<1> SUFFICES ASSUME GeminiInv PROVE GeminiTypeOK /\ RetryDiscipline /\ ErrorTellsCause
  OBVIOUS
<1>1. RetryDiscipline
  <2> SUFFICES ASSUME NEW c \in Calls
               PROVE  /\ Len(faults[c]) <= MaxRetries + 1
                      /\ at[c] \in {"request", "sleep"} => Len(faults[c]) <= MaxRetries
                      /\ \A i \in 1..Len(faults[c]) :
                            (i < Len(faults[c]) \/ at[c] # "over") => Retried(faults[c][i])
    BY DEF RetryDiscipline
  <2> QED BY DEF GeminiInv, CallInv, Bounded
<1>2. ErrorTellsCause
  BY DEF GeminiInv, Caused, ErrorTellsCause
<1> QED BY <1>1, <1>2 DEF GeminiInv

-----------------------------------------------------------------------------
(* GeminiClient: theorems                                                  *)

\* Each call keeps its place, its errors and its outcome in their types.
THEOREM GeminiTypeCorrect == GeminiSpec => []GeminiTypeOK
<1>1. GeminiInv => GeminiTypeOK
  BY InvImplies
<1> QED BY <1>1, InitialInv, NextGemini, PTL DEF GeminiSpec

\* However Gemini answers, generate sends at most MaxRetries + 1 requests, and again only
\* after an error that is retried: with a wait of the newer library, two minutes at most.
THEOREM RetryDisciplineHolds == GeminiSpec => []RetryDiscipline
<1>1. GeminiInv => RetryDiscipline
  BY InvImplies
<1> QED BY <1>1, InitialInv, NextGemini, PTL DEF GeminiSpec

\* The exception that generate raises fits the errors Gemini answered.
THEOREM ErrorTellsCauseHolds == GeminiSpec => []ErrorTellsCause
<1>1. GeminiInv => ErrorTellsCause
  BY InvImplies
<1> QED BY <1>1, InitialInv, NextGemini, PTL DEF GeminiSpec

-----------------------------------------------------------------------------
(* ServicePool: the invariant and the steps                                *)

\* What the place of a request says about the executors. A request that is to create one
\* came before any other had one, and one that is to return the global one finds one.
PlaceInv(r) ==
    /\ request[r] \in {"new", "create"} => r \notin late /\ r \notin made
    /\ request[r] = "return" => executor # NoExecutor
    /\ request[r] \in {"submit", "queued", "running", "over"} => given[r] \in made

\* Once a request was given an executor, there is one until the teardown.
KeptInv == \A s \in Requests : serving /\ given[s] # NoExecutor => executor # NoExecutor

\* The jobs of an executor are of the requests that were given it.
JobsInv ==
    /\ \A e \in Requests : \A i \in 1..Len(queue[e]) :
          /\ given[queue[e][i]] = e
          /\ request[queue[e][i]] \in {"queued", "running", "over"}
    /\ \A r \in Requests : request[r] = "running" => r \in running[given[r]]

WorkersInv ==
    \A e \in Requests : IsFiniteSet(running[e]) /\ Cardinality(running[e]) <= MaxWorkers

\* Only an executor that was made runs jobs.
OwnersInv == \A e \in Requests : running[e] # {} => e \in made

PoolInv ==
    /\ PoolTypeOK
    /\ made \cap late = {}
    /\ \A r \in Requests : PlaceInv(r)
    /\ KeptInv /\ JobsInv /\ WorkersInv

-----------------------------------------------------------------------------

LEMMA PoolInitial == PoolInit => PoolInv
<1> SUFFICES ASSUME PoolInit PROVE PoolInv
  OBVIOUS
<1>1. PoolTypeOK
  BY DEF PoolInit, PoolTypeOK
<1>2. WorkersInv
  BY FS_EmptySet, PoolAssumption DEF PoolInit, WorkersInv
<1>3. JobsInv
  BY DEF PoolInit, JobsInv
<1> QED BY <1>1, <1>2, <1>3 DEF PoolInit, PoolInv, PlaceInv, KeptInv

\* A request that sees no executor is not late, since nobody has one.
LEMMA CheckInv ==
    ASSUME PoolInv, NEW r \in Requests, CheckExecutor(r)
    PROVE  PoolInv'
<1> USE DEF PoolInv
<1>1. PoolTypeOK'
  BY DEF PoolTypeOK, CheckExecutor, Move
<1>2. /\ request[r] = "new" /\ serving /\ r \notin late /\ r \notin made
      /\ executor' = executor /\ made' = made /\ given' = given /\ queue' = queue
      /\ running' = running /\ serving' = serving
  BY DEF CheckExecutor, Move, PlaceInv
<1>3. CASE executor = NoExecutor
  <2>1. late' = late
    BY <1>2, <1>3 DEF CheckExecutor, KeptInv
  <2>2. request' = [request EXCEPT ![r] = "create"]
    BY <1>3 DEF CheckExecutor, Move
  <2>3. \A s \in Requests : PlaceInv(s)'
    BY <1>2, <2>1, <2>2 DEF PlaceInv, PoolTypeOK
  <2>4. JobsInv'
    BY <1>2, <2>2 DEF JobsInv, PoolTypeOK
  <2> QED BY <1>1, <1>2, <2>1, <2>3, <2>4 DEF KeptInv, WorkersInv
<1>4. CASE executor # NoExecutor
  <2>1. late' \in {late, late \union {r}}
    BY DEF CheckExecutor
  <2>2. request' = [request EXCEPT ![r] = "return"]
    BY <1>4 DEF CheckExecutor, Move
  <2>3. \A s \in Requests : PlaceInv(s)'
    BY <1>2, <1>4, <2>1, <2>2 DEF PlaceInv, PoolTypeOK
  <2>4. JobsInv'
    BY <1>2, <2>2 DEF JobsInv, PoolTypeOK
  <2>5. (made \cap late = {})'
    BY <1>2, <2>1
  <2> QED BY <1>1, <1>2, <2>3, <2>4, <2>5 DEF KeptInv, WorkersInv
<1> QED BY <1>3, <1>4

LEMMA CreateInv ==
    ASSUME PoolInv, NEW r \in Requests, CreateExecutor(r)
    PROVE  PoolInv'
<1> USE DEF PoolInv
<1>1. PoolTypeOK'
  BY DEF PoolTypeOK, CreateExecutor, Move
<1>2. /\ request[r] = "create" /\ r \notin late
      /\ request' = [request EXCEPT ![r] = "return"]
      /\ executor' = r /\ made' = made \union {r} /\ given' = given /\ queue' = queue
      /\ running' = running /\ late' = late /\ serving' = serving
  BY DEF CreateExecutor, Move, PlaceInv
<1>3. r # NoExecutor
  BY PoolAssumption
<1>4. \A s \in Requests : PlaceInv(s)'
  BY <1>2, <1>3 DEF PlaceInv, PoolTypeOK
<1>5. JobsInv'
  BY <1>2 DEF JobsInv, PoolTypeOK
<1> QED BY <1>1, <1>2, <1>3, <1>4, <1>5 DEF KeptInv, WorkersInv

LEMMA ReturnInv ==
    ASSUME PoolInv, NEW r \in Requests, ReturnExecutor(r)
    PROVE  PoolInv'
<1> USE DEF PoolInv
<1>1. PoolTypeOK'
  BY DEF PoolTypeOK, ReturnExecutor, Move
<1>2. /\ request[r] = "return" /\ executor # NoExecutor /\ executor \in made
      /\ request' = [request EXCEPT ![r] = "submit"]
      /\ given' = [given EXCEPT ![r] = executor]
      /\ executor' = executor /\ made' = made /\ queue' = queue
      /\ running' = running /\ late' = late /\ serving' = serving
  BY DEF ReturnExecutor, Move, PlaceInv, PoolTypeOK
<1>3. \A s \in Requests : PlaceInv(s)'
  BY <1>2 DEF PlaceInv, PoolTypeOK
<1>4. JobsInv'
  BY <1>2 DEF JobsInv, PoolTypeOK
<1>5. KeptInv'
  BY <1>2 DEF KeptInv, PoolTypeOK
<1> QED BY <1>1, <1>2, <1>3, <1>4, <1>5 DEF WorkersInv

LEMMA SubmitInv ==
    ASSUME PoolInv, NEW r \in Requests, SubmitJob(r)
    PROVE  PoolInv'
<1> USE DEF PoolInv
<1> DEFINE e == given[r]
<1>1. /\ request[r] = "submit" /\ e \in Requests
      /\ request' = [request EXCEPT ![r] = "queued"]
      /\ queue' = [queue EXCEPT ![e] = Append(queue[e], r)]
      /\ given' = given
      /\ executor' = executor /\ made' = made
      /\ running' = running /\ late' = late /\ serving' = serving
  BY DEF SubmitJob, Move, PlaceInv, PoolTypeOK
<1>2. PoolTypeOK'
  BY <1>1 DEF PoolTypeOK
<1>3. \A s \in Requests : PlaceInv(s)'
  BY <1>1 DEF PlaceInv, PoolTypeOK
<1>4. JobsInv'
  <2>1. ASSUME NEW d \in Requests, NEW i \in 1..Len(queue'[d])
        PROVE  given'[queue'[d][i]] = d /\ request'[queue'[d][i]] \in {"queued", "running", "over"}
    <3>1. CASE d # e
      BY <1>1, <2>1, <3>1 DEF JobsInv, PoolTypeOK
    <3>2. CASE d = e
      <4>1. queue[e] \in Seq(Requests)
        BY <1>1 DEF PoolTypeOK
      <4>2. queue'[d] = Append(queue[e], r)
        BY <1>1, <3>2 DEF PoolTypeOK
      <4>3. CASE i = Len(queue[e]) + 1
        <5>1. queue'[d][i] = r
          BY <4>1, <4>2, <4>3
        <5> QED BY <1>1, <3>2, <5>1 DEF PoolTypeOK
      <4>4. CASE i # Len(queue[e]) + 1
        <5>1. i \in 1..Len(queue[e]) /\ queue'[d][i] = queue[e][i]
          BY <2>1, <4>1, <4>2, <4>4
        <5> QED BY <1>1, <3>2, <4>1, <5>1 DEF JobsInv, PoolTypeOK
      <4> QED BY <4>3, <4>4
    <3> QED BY <3>1, <3>2
  <2>2. \A s \in Requests : request'[s] = "running" => s \in running'[given'[s]]
    BY <1>1 DEF JobsInv, PoolTypeOK
  <2> QED BY <2>1, <2>2 DEF JobsInv
<1> QED BY <1>1, <1>2, <1>3, <1>4 DEF KeptInv, WorkersInv

LEMMA TakeInv ==
    ASSUME PoolInv, NEW e \in Requests, TakeJob(e)
    PROVE  PoolInv'
<1> USE DEF PoolInv
<1> DEFINE r == Head(queue[e])
<1>0. queue[e] \in Seq(Requests) /\ queue[e] # <<>>
  BY DEF PoolTypeOK, TakeJob
<1>1. /\ r \in Requests /\ r = queue[e][1] /\ 1 \in 1..Len(queue[e])
      /\ Tail(queue[e]) \in Seq(Requests)
      /\ Len(Tail(queue[e])) = Len(queue[e]) - 1
      /\ \A i \in 1..Len(Tail(queue[e])) :
            i + 1 \in 1..Len(queue[e]) /\ Tail(queue[e])[i] = queue[e][i + 1]
  BY <1>0
<1>2. /\ request[r] = "queued" /\ request' = [request EXCEPT ![r] = "running"]
      /\ queue' = [queue EXCEPT ![e] = Tail(queue[e])]
      /\ running' = [running EXCEPT ![e] = running[e] \union {r}]
      /\ Cardinality(running[e]) < MaxWorkers
      /\ executor' = executor /\ made' = made /\ given' = given
      /\ late' = late /\ serving' = serving
  BY DEF TakeJob, Move, PoolTypeOK
<1> HIDE DEF r
<1>3. PoolTypeOK'
  BY <1>1, <1>2 DEF PoolTypeOK
<1>4. \A s \in Requests : PlaceInv(s)'
  BY <1>1, <1>2 DEF PlaceInv, PoolTypeOK
<1>5. JobsInv'
  <2>1. given[r] = e
    BY <1>1 DEF JobsInv
  <2>2. ASSUME NEW d \in Requests, NEW i \in 1..Len(queue'[d])
        PROVE  given'[queue'[d][i]] = d /\ request'[queue'[d][i]] \in {"queued", "running", "over"}
    <3>1. PICK k \in 1..Len(queue[d]) : queue'[d][i] = queue[d][k]
      <4>1. CASE d = e
        BY <1>1, <1>2, <2>2, <4>1 DEF PoolTypeOK
      <4>2. CASE d # e
        BY <1>2, <2>2, <4>2 DEF PoolTypeOK
      <4> QED BY <4>1, <4>2
    <3>2. queue[d][k] \in Requests
      BY <3>1 DEF PoolTypeOK
    <3> QED BY <1>2, <3>1, <3>2 DEF JobsInv, PoolTypeOK
  <2>3. \A s \in Requests : request'[s] = "running" => s \in running'[given'[s]]
    BY <1>1, <1>2, <2>1 DEF JobsInv, PoolTypeOK
  <2> QED BY <2>2, <2>3 DEF JobsInv
<1>6. WorkersInv'
  <2>1. ASSUME NEW d \in Requests
        PROVE  IsFiniteSet(running'[d]) /\ Cardinality(running'[d]) <= MaxWorkers
    <3>1. IsFiniteSet(running[d]) /\ Cardinality(running[d]) <= MaxWorkers
      BY DEF WorkersInv
    <3>2. CASE d # e
      BY <1>2, <3>1, <3>2 DEF PoolTypeOK
    <3>3. CASE d = e
      <4>1. running'[d] = running[d] \union {r}
        BY <1>2, <3>3 DEF PoolTypeOK
      <4>2. /\ IsFiniteSet(running[d] \union {r})
            /\ Cardinality(running[d] \union {r}) \in {Cardinality(running[d]), Cardinality(running[d]) + 1}
        BY <3>1, FS_AddElement
      <4>3. Cardinality(running[d]) \in Nat /\ Cardinality(running[d]) < MaxWorkers
        BY <1>2, <3>1, <3>3, FS_CardinalityType
      <4> QED BY <4>1, <4>2, <4>3, PoolAssumption
    <3> QED BY <3>2, <3>3
  <2> QED BY <2>1 DEF WorkersInv
<1> QED BY <1>2, <1>3, <1>4, <1>5, <1>6 DEF KeptInv

LEMMA FinishInv ==
    ASSUME PoolInv, NEW e \in Requests, NEW r \in Requests, FinishJob(e, r)
    PROVE  PoolInv'
<1> USE DEF PoolInv
<1>1. /\ request[r] = "running" /\ request' = [request EXCEPT ![r] = "over"]
      /\ running' = [running EXCEPT ![e] = running[e] \ {r}]
      /\ executor' = executor /\ made' = made /\ given' = given /\ queue' = queue
      /\ late' = late /\ serving' = serving
  BY DEF FinishJob, Move
<1>2. PoolTypeOK'
  BY <1>1 DEF PoolTypeOK
<1>3. \A s \in Requests : PlaceInv(s)'
  BY <1>1 DEF PlaceInv, PoolTypeOK
<1>4. JobsInv'
  <2>1. \A d \in Requests : \A i \in 1..Len(queue[d]) : queue[d][i] \in Requests
    BY DEF PoolTypeOK
  <2>2. \A s \in Requests : request'[s] = "running" => s # r /\ request[s] = "running"
    BY <1>1 DEF PoolTypeOK
  <2>3. \A s \in Requests : s # r => \A d \in Requests : s \in running[d] => s \in running'[d]
    BY <1>1 DEF PoolTypeOK
  <2>4. \A s \in Requests : request[s] = "running" => given[s] \in Requests
    BY DEF PlaceInv, PoolTypeOK
  <2>5. \A s \in Requests : request'[s] = "running" => s \in running'[given'[s]]
    BY <1>1, <2>2, <2>3, <2>4 DEF JobsInv
  <2> QED BY <1>1, <2>1, <2>5 DEF JobsInv, PoolTypeOK
<1>5. WorkersInv'
  <2>1. ASSUME NEW d \in Requests
        PROVE  IsFiniteSet(running'[d]) /\ Cardinality(running'[d]) <= MaxWorkers
    <3>1. IsFiniteSet(running[d]) /\ Cardinality(running[d]) <= MaxWorkers
      BY DEF WorkersInv
    <3>2. running'[d] \subseteq running[d]
      BY <1>1 DEF PoolTypeOK
    <3>3. IsFiniteSet(running'[d]) /\ Cardinality(running'[d]) <= Cardinality(running[d])
      BY <3>1, <3>2, FS_Subset
    <3>4. Cardinality(running'[d]) \in Nat /\ Cardinality(running[d]) \in Nat
      BY <3>1, <3>3, FS_CardinalityType
    <3> QED BY <3>1, <3>3, <3>4, PoolAssumption
  <2> QED BY <2>1 DEF WorkersInv
<1> QED BY <1>1, <1>2, <1>3, <1>4, <1>5 DEF KeptInv

\* The teardown comes when no request is in get_executor or about to submit.
LEMMA ShutdownInv ==
    ASSUME PoolInv, ShutdownExecutor
    PROVE  PoolInv'
<1> USE DEF PoolInv, ShutdownExecutor
<1>1. PoolTypeOK'
  BY DEF PoolTypeOK
<1>2. \A s \in Requests : PlaceInv(s)'
  BY DEF PlaceInv, PoolTypeOK
<1> QED BY <1>1, <1>2 DEF KeptInv, JobsInv, WorkersInv

LEMMA NextPool == PoolInv /\ [PoolNext]_poolVars => PoolInv'
<1> SUFFICES ASSUME PoolInv, [PoolNext]_poolVars PROVE PoolInv'
  OBVIOUS
<1>1. CASE UNCHANGED poolVars
  BY <1>1 DEF poolVars, PoolInv, PoolTypeOK, PlaceInv, KeptInv, JobsInv, WorkersInv
<1>2. CASE PoolNext
  BY <1>2, CheckInv, CreateInv, ReturnInv, SubmitInv, TakeInv, FinishInv, ShutdownInv DEF PoolNext
<1> QED BY <1>1, <1>2

\* A job is taken from the queue of the executor that its request was given.
LEMMA NextOwners == PoolInv /\ OwnersInv /\ [PoolNext]_poolVars => OwnersInv'
<1> SUFFICES ASSUME PoolInv, OwnersInv, [PoolNext]_poolVars,
                    NEW e \in Requests, running'[e] # {}
             PROVE  e \in made'
  BY DEF OwnersInv
<1>1. made \subseteq made'
  BY DEF PoolNext, poolVars, CheckExecutor, CreateExecutor, ReturnExecutor, SubmitJob,
         TakeJob, FinishJob, ShutdownExecutor
<1>2. CASE running[e] # {}
  BY <1>1, <1>2 DEF OwnersInv
<1>3. CASE running[e] = {}
  <2>1. PICK d \in Requests : TakeJob(d) \/ \E r \in Requests : FinishJob(d, r)
    BY <1>3 DEF PoolNext, poolVars, CheckExecutor, CreateExecutor, ReturnExecutor,
                SubmitJob, ShutdownExecutor
  <2>2. TakeJob(e)
    BY <1>3, <2>1 DEF TakeJob, FinishJob, PoolInv, PoolTypeOK
  <2>3. 1 \in 1..Len(queue[e]) /\ Head(queue[e]) = queue[e][1] /\ queue[e][1] \in Requests
    BY <2>2 DEF TakeJob, PoolInv, PoolTypeOK
  <2>4. given[queue[e][1]] = e /\ request[queue[e][1]] = "queued"
    BY <2>2, <2>3 DEF TakeJob, Move, PoolInv, JobsInv
  <2> QED BY <1>1, <2>3, <2>4 DEF PoolInv, PlaceInv
<1> QED BY <1>2, <1>3

\* With one executor, or none, the jobs that run are those on its threads.
LEMMA OneExecutor ==
    ASSUME PoolInv, OwnersInv, \A r, s \in made : r = s
    PROVE  ConcurrencyLimit
<1> DEFINE all == UNION {running[e] : e \in Requests}
<1>1. CASE all = {}
  BY <1>1, FS_EmptySet, PoolAssumption DEF ConcurrencyLimit
<1>2. CASE all # {}
  <2>1. PICK e \in Requests : running[e] # {}
    BY <1>2
  <2>2. \A d \in Requests : d # e => running[d] = {}
    BY <2>1 DEF OwnersInv
  <2>3. all = running[e]
    BY <2>2
  <2> QED BY <2>3 DEF ConcurrencyLimit, PoolInv, WorkersInv
<1> QED BY <1>1, <1>2

LEMMA PoolInvImplies == PoolInv /\ OwnersInv => PoolTypeOK /\ PoolsBound
<1> SUFFICES ASSUME PoolInv, OwnersInv PROVE PoolTypeOK /\ PoolsBound
  OBVIOUS
<1>1. ConcurrencyLimit \/ \E r, s \in made : r # s
  BY OneExecutor
<1> QED BY <1>1 DEF PoolInv, PoolsBound, PlaceInv, JobsInv, WorkersInv

LEMMA InitialOwners == PoolInit => OwnersInv
  BY DEF PoolInit, OwnersInv

LEMMA PoolInductive == PoolSpec => [](PoolInv /\ OwnersInv)
<1>1. PoolInit => PoolInv /\ OwnersInv
  BY PoolInitial, InitialOwners
<1>2. PoolInv /\ OwnersInv /\ [PoolNext]_poolVars => PoolInv' /\ OwnersInv'
  BY NextPool, NextOwners
<1> QED BY <1>1, <1>2, PTL DEF PoolSpec

-----------------------------------------------------------------------------
(* ServicePool: theorems                                                   *)

\* The executors, their queues and their threads keep their types.
THEOREM PoolTypeCorrect == PoolSpec => []PoolTypeOK
<1>1. PoolInv /\ OwnersInv => PoolTypeOK
  BY PoolInvImplies
<1> QED BY <1>1, PoolInductive, PTL

\* However the first requests meet in get_executor: as long as one executor was made no
\* more than max_concurrent_jobs jobs run, and with several each one keeps that bound;
\* each job is with the executor its request was given, and no request makes another
\* executor once there is one in use.
THEOREM PoolsBoundHolds == PoolSpec => []PoolsBound
<1>1. PoolInv /\ OwnersInv => PoolsBound
  BY PoolInvImplies
<1> QED BY <1>1, PoolInductive, PTL

-----------------------------------------------------------------------------
(* The composition: its parts                                              *)

\* A step of the composition is one of each part, or leaves the part alone.
LEMMA PartSteps ==
    ASSUME [Next]_vars
    PROVE  [GeminiNext]_geminiVars /\ [PoolNext]_poolVars /\ [BaseNext]_baseVars
  <1>1. CASE PoolStep
    <2>1. PoolNext /\ UNCHANGED <<geminiVars, baseVars>>
      BY <1>1 DEF PoolStep, PoolNext
    <2> QED
      BY <2>1
  <1>2. CASE GeminiStep
    <2>1. GeminiNext /\ UNCHANGED <<poolVars, baseVars>>
      BY <1>2 DEF GeminiStep, GeminiNext
    <2> QED
      BY <2>1
  <1>3. CASE BaseStep
    BY <1>3 DEF BaseStep
  <1>4. CASE UNCHANGED vars
    BY <1>4 DEF vars
  <1> QED
    BY <1>1, <1>2, <1>3, <1>4 DEF Next

\* The composition implements the specification of each of its parts.
THEOREM PartsImplemented == Spec => GeminiSpec /\ PoolSpec /\ BaseSpec
  <1>1. Init => GeminiInit /\ PoolInit /\ BaseInit
    BY DEF Init
  <1> QED
    BY <1>1, PartSteps, PTL DEF Spec, GeminiSpec, PoolSpec, BaseSpec

-----------------------------------------------------------------------------
(* A call is under way on a worker thread only                             *)

\* The job of a call that has begun has a worker thread, until the call is over.
CallOnThread == \A r \in Requests : at[r] \in {"request", "sleep"} => request[r] = "running"

LEMMA InitCall == Init => CallOnThread
  BY CallsAssumption DEF Init, GeminiInit, CallOnThread

LEMMA NextCall ==
    GeminiTypeOK /\ PoolTypeOK /\ CallOnThread /\ [Next]_vars => CallOnThread'
  <1> SUFFICES ASSUME GeminiTypeOK, PoolTypeOK, CallOnThread, [Next]_vars PROVE CallOnThread'
    OBVIOUS
  <1>1. CASE PoolStep
    <2>1. UNCHANGED at
      BY <1>1 DEF PoolStep, geminiVars
    <2>2. ASSUME NEW q \in Requests, request[q] = "running", at[q] # "over"
          PROVE  request'[q] = "running"
      BY <1>1, <2>2 DEF PoolStep, CheckExecutor, CreateExecutor, ReturnExecutor, SubmitJob,
                        TakeJob, FinishJob, ShutdownExecutor, Move, PoolTypeOK
    <2> QED
      BY <2>1, <2>2 DEF CallOnThread
  <1>2. CASE GeminiStep
    <2>1. UNCHANGED request
      BY <1>2 DEF GeminiStep, poolVars
    <2>2. PICK c \in Calls : \/ request[c] = "running" /\ Generate(c)
                             \/ RequestEnds(c)
                             \/ Wake(c)
      BY <1>2 DEF GeminiStep
    <2>3. \A q \in Calls \ {c} : at'[q] = at[q]
      BY <2>2 DEF Generate, RequestEnds, Responds, ClientRateLimited, ResourceExhausted,
                  TransientError, FinalError, Wake, EndCall, Sleep, GeminiTypeOK
    <2>4. request[c] = "running" \/ at[c] \in {"request", "sleep"}
      BY <2>2 DEF RequestEnds, Responds, ClientRateLimited, ResourceExhausted,
                  TransientError, FinalError, Wake
    <2> QED
      BY <2>1, <2>3, <2>4, CallsAssumption DEF CallOnThread
  <1>3. CASE BaseStep \/ UNCHANGED vars
    BY <1>3 DEF BaseStep, vars, geminiVars, poolVars, CallOnThread
  <1> QED
    BY <1>1, <1>2, <1>3 DEF Next

-----------------------------------------------------------------------------
(* What holds of the composition                                           *)

\* The parts are well typed, and only a running job has a request to Gemini under way.
THEOREM ServicesTypeCorrect == Spec => []TypeOK
  <1>1. GeminiTypeOK /\ PoolTypeOK /\ BaseTypeOK /\ CallOnThread => TypeOK
    BY DEF TypeOK, CallOnThread
  <1>2. Spec => [](GeminiTypeOK /\ PoolTypeOK /\ BaseTypeOK)
    BY PartsImplemented, GeminiTypeCorrect, PoolTypeCorrect, BaseTypeCorrect, PTL
  <1>3. Spec => []CallOnThread
    BY InitCall, NextCall, <1>2, PTL DEF Spec
  <1> QED
    BY <1>1, <1>2, <1>3, PTL

\* What is proved of the parts holds while they run together: the retries, what the
\* exceptions of a call say, when the limit on concurrent jobs holds, and the exit of a load.
THEOREM PartsKeepPromises ==
    Spec => [](RetryDiscipline /\ ErrorTellsCause /\ PoolsBound /\ CleanLoadComplete)
  BY PartsImplemented, RetryDisciplineHolds, ErrorTellsCauseHolds, PoolsBoundHolds,
     CleanLoadCompleteHolds, PTL

=============================================================================
