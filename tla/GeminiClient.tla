---------------------------- MODULE GeminiClient ----------------------------
(***************************************************************************)
(* GeminiClient.generate: a request to Gemini, sent again after some       *)
(* errors, with two rules for how often and after how long a sleep. The    *)
(* sleeps are time.sleep, in the worker thread that called.                *)
(*                                                                         *)
(* embed sends its request once and has no state: its callers, Retrieval   *)
(* and KnowledgeBase, have the outcomes.                                   *)
(***************************************************************************)
EXTENDS Naturals, Sequences, FiniteSets

CONSTANTS
    Calls,        \* the calls of generate
    MaxRetries,   \* LLM_MAX_RETRIES
    RetryAfters   \* the seconds a 429 may ask to wait

ASSUME GeminiAssumption == MaxRetries \in Nat /\ RetryAfters \subseteq Nat

VARIABLES
    at,        \* at[c]: "idle", "request", "sleep" or "over"
    faults,    \* faults[c]: the errors Gemini answered, one for each request that failed
    outcome    \* outcome[c]: "text", or the exception that generate raised

geminiVars == <<at, faults, outcome>>

\* _IMMEDIATE_FAIL_THRESHOLD_SECONDS.
ImmediateFailThreshold == 120

\* The errors of a request by the clause of `generate` that catches them: ClientError
\* with status 429, ResourceExhausted, the other _RETRYABLE_EXCEPTIONS; then those that
\* are not tried again: DeadlineExceeded, another ClientError, and what no clause
\* catches, as a broken connection.
RateLimits == {"client_429", "exhausted"}
Transient  == {"server"}
Final      == {"deadline", "client", "connection"}
FaultKinds == RateLimits \union Transient \union Final

GeminiInit ==
    /\ at = [c \in Calls |-> "idle"]
    /\ faults = [c \in Calls |-> <<>>]
    /\ outcome = [c \in Calls |-> "none"]

-----------------------------------------------------------------------------
(* Helpers                                                                 *)

\* The variable `attempt`: every request before this one failed.
Attempt(c) == Len(faults[c])

\* generate returns or raises.
EndCall(c, result) ==
    /\ at' = [at EXCEPT ![c] = "over"]
    /\ outcome' = [outcome EXCEPT ![c] = result]

\* time.sleep of the seconds Gemini asked for or, if there are none, of _backoff.
Sleep(c) ==
    /\ at' = [at EXCEPT ![c] = "sleep"]
    /\ UNCHANGED outcome

Record(c, kind, retryAfter) ==
    faults' = [faults EXCEPT ![c] = Append(@, [kind |-> kind, after |-> retryAfter])]

-----------------------------------------------------------------------------
(* Steps of a call                                                         *)

Generate(c) ==
    /\ at[c] = "idle"
    /\ at' = [at EXCEPT ![c] = "request"]
    /\ UNCHANGED <<faults, outcome>>

\* A response; one without text is an error that is not tried again.
Responds(c) ==
    /\ at[c] = "request"
    /\ \E result \in {"text", "LLMResponseParseError"} : EndCall(c, result)
    /\ UNCHANGED faults

\* Mutant: the wait is bounded only when no attempt is left.
PatientClient(c) ==
    /\ at[c] = "request"
    /\ \E after \in RetryAfters :
          /\ Record(c, "client_429", after)
          /\ IF Attempt(c) < MaxRetries
             THEN Sleep(c)
             ELSE EndCall(c, "RateLimitError")

\* except ClientError, of status 429. _parse_retry_after finds retryDelay, or else the
\* first number of the message, which is the status: 429 seconds, too long to wait.
ClientRateLimited(c) ==
    /\ at[c] = "request"
    /\ \E after \in RetryAfters :
          /\ Record(c, "client_429", after)
          /\ IF after <= ImmediateFailThreshold /\ Attempt(c) < MaxRetries
             THEN Sleep(c)
             ELSE EndCall(c, "RateLimitError")

\* except ResourceExhausted, of the older library: any wait is slept through.
ResourceExhausted(c) ==
    /\ at[c] = "request"
    /\ \E after \in RetryAfters :
          /\ Record(c, "exhausted", after)
          /\ IF Attempt(c) < MaxRetries
             THEN Sleep(c)
             ELSE EndCall(c, "RateLimitError")

\* Mutant: after a last transient error there is one more request.
OneMore(c) ==
    /\ at[c] = "request"
    /\ Record(c, "server", 0)
    /\ IF Attempt(c) <= MaxRetries
       THEN Sleep(c)
       ELSE EndCall(c, "MaxRetriesExceededError")

\* Mutant: the call ends as if every retry had been made.
GiveUpAtOnce(c) ==
    /\ at[c] = "request"
    /\ Record(c, "server", 0)
    /\ EndCall(c, "MaxRetriesExceededError")

\* except _RETRYABLE_EXCEPTIONS; the loop ends after the last attempt.
TransientError(c) ==
    /\ at[c] = "request"
    /\ Record(c, "server", 0)
    /\ IF Attempt(c) < MaxRetries
       THEN Sleep(c)
       ELSE EndCall(c, "MaxRetriesExceededError")

\* An error that is raised at once: a timeout as LLMTimeoutError, the others as they are.
FinalError(c) ==
    /\ at[c] = "request"
    /\ \E kind \in Final :
          /\ Record(c, kind, 0)
          /\ EndCall(c, IF kind = "deadline" THEN "LLMTimeoutError" ELSE kind)

\* time.sleep returns, and the loop goes round.
Wake(c) ==
    /\ at[c] = "sleep"
    /\ at' = [at EXCEPT ![c] = "request"]
    /\ UNCHANGED <<faults, outcome>>

\* What ends the request of a call, whatever Gemini does.
RequestEnds(c) ==
    \/ Responds(c)
    \/ ClientRateLimited(c)
    \/ ResourceExhausted(c)
    \/ TransientError(c)
    \/ FinalError(c)

GeminiNext == \E c \in Calls : Generate(c) \/ RequestEnds(c) \/ Wake(c)

GeminiSpec == GeminiInit /\ [][GeminiNext]_geminiVars

-----------------------------------------------------------------------------
(* Properties                                                              *)

Outcomes == {"none", "text", "LLMResponseParseError", "RateLimitError",
             "MaxRetriesExceededError", "LLMTimeoutError", "client", "connection"}

Fault == [kind : FaultKinds, after : Nat]

GeminiTypeOK ==
    /\ at \in [Calls -> {"idle", "request", "sleep", "over"}]
    /\ faults \in [Calls -> Seq(Fault)]
    /\ outcome \in [Calls -> Outcomes]

\* An error after which a call may send its request again.
Retried(fault) ==
    \/ fault.kind \in {"exhausted", "server"}
    \/ fault.kind = "client_429" /\ fault.after <= ImmediateFailThreshold

\* How often and after what a request is sent again: at most MaxRetries times, and only
\* after errors that are retried, which of the rate limits of the newer library are those
\* with a wait of two minutes at most: the worker thread does not sleep for longer.
RetryDiscipline ==
    \A c \in Calls :
        /\ Len(faults[c]) <= MaxRetries + 1
        /\ at[c] \in {"request", "sleep"} => Len(faults[c]) <= MaxRetries
        /\ \A i \in 1..Len(faults[c]) :
              (i < Len(faults[c]) \/ at[c] # "over") => Retried(faults[c][i])

\* The exception says what happened, for the text that the user is shown: retries that are
\* exhausted were all made and the last error was transient, and a rate limit ended the
\* call either at its last attempt or because the wait was too long. The docstring of
\* RateLimitError has it the other way round: MaxRetriesExceededError for both.
ErrorTellsCause ==
    \A c \in Calls :
        LET last == faults[c][Len(faults[c])]
        IN  /\ outcome[c] = "MaxRetriesExceededError" =>
                  Len(faults[c]) = MaxRetries + 1 /\ last.kind \in Transient
            /\ outcome[c] = "RateLimitError" =>
                  /\ Len(faults[c]) > 0
                  /\ last.kind \in RateLimits
                  /\ \/ Len(faults[c]) = MaxRetries + 1
                     \/ last.kind = "client_429" /\ last.after > ImmediateFailThreshold
            /\ outcome[c] = "LLMTimeoutError" => Len(faults[c]) > 0 /\ last.kind = "deadline"
            /\ outcome[c] \in {"text", "LLMResponseParseError"} =>
                  \A i \in 1..Len(faults[c]) : Retried(faults[c][i])

=============================================================================
