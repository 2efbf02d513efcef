------------------------------ MODULE JobPoller ------------------------------
(***************************************************************************)
(* The page /jobs/{jobId} of the frontend while it watches one job: the    *)
(* poll every POLL_INTERVAL_MS, whether or not the one before it has been  *)
(* answered, the answers in any order, the limit on the time a tab polls,  *)
(* the redirect to the report, and the progress bar.  The job itself       *)
(* changes as JobContract allows, and its current_stage only grows         *)
(* (StageNotAhead of JobLifecycle is about the writes behind it).          *)
(***************************************************************************)
EXTENDS Naturals

CONSTANTS
    Job,             \* the job watched
    MaxPolls,        \* polls of a tab within MAX_POLL_DURATION_MS
    LastStage,       \* number of stages with a percentage of their own
    LateCompletion   \* BOOLEAN: as in JobContract

ASSUME MaxPollsAssumption  == MaxPolls \in Nat
ASSUME LastStageAssumption == LastStage \in Nat \ {0}

VARIABLES
    status,    \* the status of the job's row, as in JobContract
    stage,     \* the row's current_stage, 0 for NULL
    poll,      \* poll[i]: where the i-th poll of the tab is
    next,      \* number of the poll the interval fires next
    timer,     \* the interval: "running" or "cleared"
    tab,       \* "watching", "timed out", "poll error", or "left" for unmounted
    shown,     \* the job's state as the page has it
    percent,   \* smoothPercent, in units of a stage
    pushed     \* "yes" once router.push to the report was called

serverVars == <<status, stage>>
tabVars    == <<next, timer, tab, shown, percent, pushed>>
vars       == <<serverVars, poll, tabVars>>

Server == INSTANCE JobContract WITH Jobs <- {Job}

Terminal == {"COMPLETE", "FAILED"}
Polls    == 1..MaxPolls
Top      == LastStage + 1                \* 100 %

\* What GET /jobs/{jobId} answers, and what the page shows of it.
Answers == [status : Server!Statuses, stage : 0..LastStage]
Loading == [status |-> "none", stage |-> 0]

\* A poll: not sent, sent, answered by the server, refused, or dealt with.
Unsent   == [at |-> "unsent"]
Sent     == [at |-> "sent"]
Refused  == [at |-> "refused"]
Dropped  == [at |-> "dropped"]
Answered(a) == [at |-> "answered", answer |-> a]
Handled(a)  == [at |-> "handled", answer |-> a]

TypeOK ==
    /\ Server!TypeOK
    /\ stage \in 0..LastStage
    /\ poll \in [Polls -> {Unsent, Sent, Refused, Dropped}
                            \union {Answered(a) : a \in Answers}
                            \union {Handled(a) : a \in Answers}]
    /\ next \in 1..MaxPolls + 1
    /\ timer \in {"running", "cleared"}
    /\ tab \in {"watching", "timed out", "poll error", "left"}
    /\ shown \in Answers \union {Loading}
    /\ percent \in 0..Top
    /\ pushed \in {"no", "yes"}

\* getTargetPercent. The table of percentages is strictly increasing and below 100.
Target(job) == IF job.status = "COMPLETE" THEN Top ELSE job.stage

-----------------------------------------------------------------------------
(* The backend                                                             *)

\* The row exists since before the page was opened.
JobMoves ==
    /\ \/ Server!Start(Job)
       \/ Server!Complete(Job)
       \/ Server!Fail(Job)
       \/ Server!CompleteLate(Job)
    /\ UNCHANGED <<stage, poll, tabVars>>

\* The orchestrator announces a stage. Announcements before it may have been lost.
StageMoves ==
    /\ status[Job] = "RUNNING"
    /\ \E s \in 1..LastStage : s > stage /\ stage' = s
    /\ UNCHANGED <<status, poll, tabVars>>

\* The backend reads the row and answers, or the request fails on its way.
Answer(i) ==
    /\ poll[i] = Sent
    /\ \E p \in {Answered([status |-> status[Job], stage |-> stage]), Refused} :
          poll' = [poll EXCEPT ![i] = p]
    /\ UNCHANGED <<serverVars, tabVars>>

-----------------------------------------------------------------------------
(* The effect that polls                                                   *)

\* Mutant: the time the tab has polled is not looked at.
SendPastLimit ==
    /\ poll' = [i \in 1..next |-> IF i = next THEN Sent ELSE poll[i]]
    /\ next' = next + 1
    /\ UNCHANGED <<timer, tab>>

SendPoll ==
    /\ next <= MaxPolls
    /\ poll' = [poll EXCEPT ![next] = Sent]
    /\ next' = next + 1
    /\ UNCHANGED <<timer, tab>>

\* Mutant: the limit hides the job but leaves the interval alone.
KeepPolling ==
    /\ timer = "running"
    /\ \/ SendPoll
       \/ next > MaxPolls /\ tab' = "timed out" /\ UNCHANGED <<poll, next, timer>>
    /\ UNCHANGED <<serverVars, shown, percent, pushed>>

\* poll(), called on mount and by the interval: sends a request, or stops for good
\* when the tab has polled for MAX_POLL_DURATION_MS.
Poll ==
    /\ timer = "running"
    /\ \/ SendPoll
       \/ /\ next > MaxPolls
          /\ tab' = "timed out"
          /\ timer' = "cleared"
          /\ UNCHANGED <<poll, next>>
    /\ UNCHANGED <<serverVars, shown, percent, pushed>>

\* Mutant: the bar jumps to the ceiling of the stage just received.
ShowExactly(a) ==
    \/ tab = "left" /\ UNCHANGED <<shown, percent>>
    \/ tab # "left" /\ shown' = a /\ percent' = Target(a)

\* What setJob and the effect on [job] do; nothing once the page is unmounted.
Show(a) ==
    \/ tab = "left" /\ UNCHANGED <<shown, percent>>
    \/ /\ tab # "left"
       /\ shown' = a
       /\ percent' = IF a.status = "COMPLETE" THEN Top ELSE percent

\* Mutant: polling ends with a report only.
AwaitReport(i) ==
    /\ poll[i].at = "answered"
    /\ LET a == poll[i].answer IN
          /\ poll' = [poll EXCEPT ![i] = Handled(a)]
          /\ Show(a)
          /\ timer' = IF a.status = "COMPLETE" THEN "cleared" ELSE timer
          /\ pushed' = IF a.status = "COMPLETE" THEN "yes" ELSE pushed
    /\ UNCHANGED <<serverVars, next, tab>>

\* Mutant: the page leaves for the report when its last stage is announced.
LeaveEarly(i) ==
    /\ poll[i].at = "answered"
    /\ LET a == poll[i].answer IN
          /\ poll' = [poll EXCEPT ![i] = Handled(a)]
          /\ Show(a)
          /\ timer' = IF a.status \in Terminal THEN "cleared" ELSE timer
          /\ pushed' = IF a.stage = LastStage THEN "yes" ELSE pushed
    /\ UNCHANGED <<serverVars, next, tab>>

\* An answer arrives, whichever poll it is to. COMPLETE always carries a report_id
\* (a CHECK constraint of the jobs table). The redirect is issued even when the
\* page is gone.
Receive(i) ==
    /\ poll[i].at = "answered"
    /\ LET a == poll[i].answer IN
          /\ poll' = [poll EXCEPT ![i] = Handled(a)]
          /\ Show(a)
          /\ timer' = IF a.status \in Terminal THEN "cleared" ELSE timer
          /\ pushed' = IF a.status = "COMPLETE" THEN "yes" ELSE pushed
    /\ UNCHANGED <<serverVars, next, tab>>

\* getJob throws: the first failed poll is the last.
ReceiveError(i) ==
    /\ poll[i] = Refused
    /\ poll' = [poll EXCEPT ![i] = Dropped]
    /\ timer' = "cleared"
    /\ tab' = IF tab = "watching" THEN "poll error" ELSE tab
    /\ UNCHANGED <<serverVars, next, shown, percent, pushed>>

-----------------------------------------------------------------------------
(* The rest of the page                                                    *)

\* Mutant: the bar does not stop at the ceiling of its stage.
SmoothOvershoots ==
    /\ tab # "left"
    /\ shown # Loading
    /\ percent < Top
    /\ percent' = percent + 1
    /\ UNCHANGED <<serverVars, poll, next, timer, tab, shown, pushed>>

\* The interval of the progress bar.
SmoothTick ==
    /\ tab # "left"
    /\ shown # Loading
    /\ percent < Target(shown)
    /\ percent' = percent + 1
    /\ UNCHANGED <<serverVars, poll, next, timer, tab, shown, pushed>>

\* The redirect takes place, or the user goes elsewhere: the page is unmounted, and
\* the effect's cleanup clears the interval.
Unmount ==
    /\ tab # "left"
    /\ tab' = "left"
    /\ timer' = "cleared"
    /\ UNCHANGED <<serverVars, poll, next, shown, percent, pushed>>

Init ==
    /\ status = [j \in {Job} |-> "PENDING"]
    /\ stage = 0
    /\ poll = [i \in Polls |-> Unsent]
    /\ next = 1
    /\ timer = "running"
    /\ tab = "watching"
    /\ shown = Loading
    /\ percent = 0
    /\ pushed = "no"

Next == \/ JobMoves
        \/ StageMoves
        \/ Poll
        \/ SmoothTick
        \/ Unmount
        \/ \E i \in Polls : Answer(i) \/ Receive(i) \/ ReceiveError(i)

Spec == Init /\ [][Next]_vars

\* The browser fires the interval. The backend need not answer.
FairSpec == Spec /\ WF_vars(Poll)

-----------------------------------------------------------------------------
(* Properties                                                              *)

\* "The pipeline must stop polling when either is received": once an answer with a
\* terminal status was dealt with, no poll is sent, whichever poll it answered and
\* however many answers are still under way.
NoPollAfterOutcome ==
    [][(\E i \in Polls : poll[i].at = "handled" /\ poll[i].answer.status \in Terminal)
          => next' = next]_vars

\* The progress bar never goes backward, with answers in any order.
ProgressNeverBack == [][percent' >= percent]_vars

\* The progress bar does not run ahead of the job itself: not past the stage the
\* backend has announced, and to 100 % only for a job that is COMPLETE.
ProgressNotAhead ==
    percent <= Target([status |-> status[Job], stage |-> stage])

\* A user is sent to a report only when there is one.
RedirectHasReport == pushed = "yes" => status[Job] = "COMPLETE"

\* A tab does not poll for ever: a job that never ends, and a backend that never
\* answers, meet the limit.
PollingStops == (timer = "running") ~> (timer = "cleared")

\* "Clients polling for status receive the FAILED state": a page whose polling ended
\* with the job, neither by the limit nor by an error, is left showing how it ended.
OutcomeIsShown ==
    tab = "watching" /\ timer = "cleared"
      /\ (\A i \in Polls : poll[i].at \in {"unsent", "dropped", "handled"})
    => shown.status \in Terminal

=============================================================================
