--------------------------- MODULE JobPoller_proofs ---------------------------
(***************************************************************************)
(* What holds of the page for any number of polls and stages, whatever     *)
(* order the answers come in, from the inductive invariant PageInv.        *)
(***************************************************************************)
EXTENDS JobPoller, TLAPS

Done == status[Job] = "COMPLETE"

\* An answer may be old but is never ahead of the job, which neither loses its outcome
\* nor goes back a stage; and polling is over once an outcome was dealt with.
PollInv(i) ==
    /\ poll[i].at \in {"answered", "handled"} =>
          /\ poll[i].answer \in Answers
          /\ poll[i].answer.stage <= stage
          /\ poll[i].answer.status = "COMPLETE" => Done
    /\ poll[i].at = "handled" /\ poll[i].answer.status \in Terminal => timer = "cleared"

ShownInv ==
    /\ shown.stage <= stage
    /\ shown.status = "COMPLETE" => Done

PageInv ==
    /\ TypeOK
    /\ \A i \in Polls : PollInv(i)
    /\ ShownInv /\ ProgressNotAhead /\ RedirectHasReport

-----------------------------------------------------------------------------
(* Types                                                                   *)

Sends == {Unsent, Sent, Refused, Dropped}
            \union {Answered(a) : a \in Answers}
            \union {Handled(a) : a \in Answers}

\* What can be read off a poll.
LEMMA PollParts ==
    /\ \A a : Answered(a).at = "answered" /\ Answered(a).answer = a
    /\ \A a : Handled(a).at = "handled" /\ Handled(a).answer = a
    /\ Unsent.at = "unsent" /\ Sent.at = "sent" /\ Refused.at = "refused" /\ Dropped.at = "dropped"
  BY DEF Answered, Handled, Unsent, Sent, Refused, Dropped

LEMMA AnswerParts ==
    ASSUME NEW a \in Answers
    PROVE  a.status \in Server!Statuses /\ a.stage \in Nat /\ a.stage <= LastStage
  BY LastStageAssumption DEF Answers

LEMMA TypeParts ==
    ASSUME TypeOK
    PROVE  /\ status \in [{Job} -> Server!Statuses] /\ status[Job] \in Server!Statuses
           /\ stage \in Nat /\ stage <= LastStage /\ LastStage \in Nat
           /\ poll \in [Polls -> Sends]
           /\ percent \in Nat /\ percent <= LastStage + 1 /\ Top = LastStage + 1
<1>1. status \in [{Job} -> Server!Statuses] /\ status[Job] \in Server!Statuses
  BY DEF TypeOK, Server!TypeOK
<1>2. LastStage \in Nat /\ Top = LastStage + 1
  BY LastStageAssumption DEF Top
<1>3. stage \in Nat /\ stage <= LastStage
  <2>1. stage \in 0..LastStage
    BY DEF TypeOK
  <2> QED BY <1>2, <2>1
<1>4. percent \in Nat /\ percent <= LastStage + 1
  <2>1. percent \in 0..Top
    BY DEF TypeOK
  <2> QED BY <1>2, <2>1
<1>5. poll \in [Polls -> Sends]
  BY DEF TypeOK, Sends
<1> QED BY <1>1, <1>2, <1>3, <1>4, <1>5

\* What the page shows is an answer, or nothing yet.
LEMMA ShownParts ==
    ASSUME TypeOK
    PROVE  shown.stage \in Nat /\ shown.stage <= LastStage
<1>1. CASE shown \in Answers
  BY <1>1, AnswerParts
<1>2. CASE shown = Loading
  <2>1. shown.stage = 0
    BY <1>2 DEF Loading
  <2> QED BY <2>1, LastStageAssumption
<1> QED BY <1>1, <1>2 DEF TypeOK

-----------------------------------------------------------------------------
(* The steps                                                               *)

LEMMA PageInitial == Init => PageInv
<1> SUFFICES ASSUME Init PROVE PageInv
  OBVIOUS
<1>1. TypeOK
  BY MaxPollsAssumption, LastStageAssumption
  DEF Init, TypeOK, Server!TypeOK, Server!Statuses, Loading, Top
<1>2. \A i \in Polls : PollInv(i)
  BY PollParts DEF Init, PollInv
<1>3. ShownInv /\ ProgressNotAhead /\ RedirectHasReport
  BY LastStageAssumption DEF Init, ShownInv, ProgressNotAhead, RedirectHasReport, Loading, Target
<1> QED BY <1>1, <1>2, <1>3 DEF PageInv

\* The job moves on: what was true of it stays true of the page.
LEMMA ServerInv ==
    ASSUME PageInv, JobMoves \/ StageMoves
    PROVE  PageInv'
<1>0. TypeOK /\ ShownInv /\ ProgressNotAhead /\ RedirectHasReport /\ \A i \in Polls : PollInv(i)
  BY DEF PageInv
<1>1. /\ status' \in [{Job} -> Server!Statuses]
      /\ stage' \in 0..LastStage /\ stage <= stage'
      /\ Done => Done'
  <2>1. CASE JobMoves
    <3>1. PICK from \in SUBSET {"PENDING", "RUNNING", "FAILED"}, to \in Server!Statuses :
              status[Job] \in from /\ status' = [status EXCEPT ![Job] = to]
      BY <2>1 DEF JobMoves, Server!Start, Server!Complete, Server!Fail, Server!CompleteLate,
                  Server!Move, Server!Statuses
    <3>2. stage' = stage /\ stage \in 0..LastStage /\ stage <= stage
      BY <1>0, <2>1, TypeParts DEF JobMoves
    <3>3. status \in [{Job} -> Server!Statuses] /\ ~Done
      BY <1>0, <3>1, TypeParts DEF Done
    <3>4. status' \in [{Job} -> Server!Statuses]
      BY <3>1, <3>3
    <3> QED BY <3>2, <3>3, <3>4
  <2>2. CASE StageMoves
    <3>1. status' = status /\ stage < stage' /\ stage' \in 1..LastStage
      BY <2>2 DEF StageMoves
    <3>2. stage \in Nat /\ LastStage \in Nat
      BY <1>0, TypeParts
    <3> QED BY <1>0, <3>1, <3>2, TypeParts DEF Done
  <2> QED BY <2>1, <2>2
<1>2. poll' = poll /\ tabVars' = tabVars
  BY DEF JobMoves, StageMoves
<1>3. TypeOK'
  BY <1>0, <1>1, <1>2 DEF TypeOK, Server!TypeOK, tabVars
<1>4. ASSUME NEW i \in Polls PROVE PollInv(i)'
  <2>1. poll[i].answer \in Answers => poll[i].answer.stage \in Nat
    BY AnswerParts
  <2>2. stage \in Nat /\ stage' \in Nat
    BY <1>0, <1>1, LastStageAssumption, TypeParts
  <2> QED BY <1>0, <1>1, <1>2, <2>1, <2>2 DEF PollInv, tabVars
<1>5. shown.stage \in Nat
  BY <1>0, ShownParts
<1>6. ShownInv' /\ RedirectHasReport'
  BY <1>0, <1>1, <1>2, <1>5, TypeParts DEF ShownInv, RedirectHasReport, Done, tabVars
<1>7. ProgressNotAhead'
  BY <1>0, <1>1, <1>2, TypeParts DEF ProgressNotAhead, Target, Done, tabVars
<1> QED BY <1>3, <1>4, <1>6, <1>7 DEF PageInv

LEMMA AnswerInv ==
    ASSUME PageInv, NEW i \in Polls, Answer(i)
    PROVE  PageInv'
<1>0. TypeOK /\ ShownInv /\ ProgressNotAhead /\ RedirectHasReport /\ \A k \in Polls : PollInv(k)
  BY DEF PageInv
<1> DEFINE a == [status |-> status[Job], stage |-> stage]
<1>1. a \in Answers /\ a.stage = stage /\ a.status = status[Job]
  BY <1>0, TypeParts DEF Answers
<1>2. PICK p \in {Answered(a), Refused} : poll' = [poll EXCEPT ![i] = p]
  BY DEF Answer
<1>3. status' = status /\ stage' = stage /\ tabVars' = tabVars
  BY DEF Answer, serverVars
<1> HIDE DEF a
<1>4. TypeOK'
  <2>1. poll' \in [Polls -> Sends]
    BY <1>0, <1>1, <1>2, TypeParts DEF Sends
  <2> QED BY <1>0, <1>3, <2>1 DEF TypeOK, Server!TypeOK, tabVars, Sends
<1>5. ASSUME NEW k \in Polls PROVE PollInv(k)'
  <2>1. CASE k = i
    <3>1. poll'[k] = Answered(a) \/ poll'[k] = Refused
      BY <1>0, <1>2, <2>1, TypeParts
    <3> QED BY <1>0, <1>1, <1>3, <3>1, PollParts, TypeParts DEF PollInv, Done, tabVars
  <2>2. CASE k # i
    <3>1. poll'[k] = poll[k]
      BY <1>0, <1>2, <2>2, TypeParts
    <3> QED BY <1>0, <1>3, <3>1 DEF PollInv, Done, tabVars
  <2> QED BY <2>1, <2>2
<1>6. ShownInv' /\ ProgressNotAhead' /\ RedirectHasReport'
  BY <1>0, <1>3 DEF ShownInv, ProgressNotAhead, RedirectHasReport, Done, tabVars
<1> QED BY <1>4, <1>5, <1>6 DEF PageInv

LEMMA PollStepInv ==
    ASSUME PageInv, Poll
    PROVE  PageInv'
<1>0. TypeOK /\ ShownInv /\ ProgressNotAhead /\ RedirectHasReport /\ \A k \in Polls : PollInv(k)
  BY DEF PageInv
<1>1. /\ status' = status /\ stage' = stage
      /\ shown' = shown /\ percent' = percent /\ pushed' = pushed
  BY DEF Poll, serverVars
<1>2. ShownInv' /\ ProgressNotAhead' /\ RedirectHasReport'
  BY <1>0, <1>1 DEF ShownInv, ProgressNotAhead, RedirectHasReport, Done
<1>3. CASE SendPoll
  <2>1. /\ next \in Polls /\ poll' = [poll EXCEPT ![next] = Sent]
        /\ next' = next + 1 /\ timer' = timer /\ tab' = tab
    <3>1. next \in 1..MaxPolls + 1 /\ next <= MaxPolls
      BY <1>0, <1>3 DEF SendPoll, TypeOK
    <3>2. next \in Polls
      BY <3>1, MaxPollsAssumption DEF Polls
    <3> QED BY <1>3, <3>2 DEF SendPoll
  <2>2. poll' \in [Polls -> Sends] /\ next' \in 1..MaxPolls + 1
    BY <1>0, <2>1, TypeParts, MaxPollsAssumption DEF Sends, Polls
  <2>3. TypeOK'
    BY <1>0, <1>1, <2>1, <2>2 DEF TypeOK, Server!TypeOK, Sends
  <2>4. ASSUME NEW k \in Polls PROVE PollInv(k)'
    <3>1. poll'[k] = Sent \/ poll'[k] = poll[k]
      BY <1>0, <2>1, TypeParts
    <3> QED BY <1>0, <1>1, <2>1, <3>1, PollParts DEF PollInv, Done
  <2> QED BY <1>2, <2>3, <2>4 DEF PageInv
<1>4. CASE tab' = "timed out" /\ timer' = "cleared" /\ UNCHANGED <<poll, next>>
  <2>1. TypeOK'
    BY <1>0, <1>1, <1>4 DEF TypeOK, Server!TypeOK
  <2>2. \A k \in Polls : PollInv(k)'
    BY <1>0, <1>1, <1>4 DEF PollInv, Done
  <2> QED BY <1>2, <2>1, <2>2 DEF PageInv
<1> QED BY <1>3, <1>4 DEF Poll

LEMMA ReceiveInv ==
    ASSUME PageInv, NEW i \in Polls, Receive(i)
    PROVE  PageInv'
<1>0. TypeOK /\ ShownInv /\ ProgressNotAhead /\ RedirectHasReport /\ \A k \in Polls : PollInv(k)
  BY DEF PageInv
<1> DEFINE a == poll[i].answer
<1>1. /\ poll[i].at = "answered"
      /\ poll' = [poll EXCEPT ![i] = Handled(a)]
      /\ Show(a)
      /\ timer' = IF a.status \in Terminal THEN "cleared" ELSE timer
      /\ pushed' = IF a.status = "COMPLETE" THEN "yes" ELSE pushed
      /\ status' = status /\ stage' = stage /\ next' = next /\ tab' = tab
  BY DEF Receive, serverVars
<1>2. a \in Answers /\ a.stage <= stage /\ (a.status = "COMPLETE" => Done)
  BY <1>0, <1>1 DEF PollInv
<1>3. \/ shown' = shown /\ percent' = percent
      \/ shown' = a /\ percent' = IF a.status = "COMPLETE" THEN Top ELSE percent
  BY <1>1 DEF Show
<1> HIDE DEF a
<1>4. TypeOK'
  <2>1. poll' \in [Polls -> Sends]
    BY <1>0, <1>1, <1>2, TypeParts DEF Sends
  <2>2. shown' \in Answers \union {Loading} /\ percent' \in 0..Top
    <3>1. shown \in Answers \union {Loading}
      BY <1>0 DEF TypeOK
    <3>2. percent \in 0..Top /\ Top \in 0..Top
      BY <1>0, TypeParts
    <3> QED BY <1>2, <1>3, <3>1, <3>2
  <2> QED BY <1>0, <1>1, <2>1, <2>2 DEF TypeOK, Server!TypeOK, Sends
<1>5. ASSUME NEW k \in Polls PROVE PollInv(k)'
  <2>1. CASE k = i
    <3>1. poll'[k] = Handled(a)
      BY <1>0, <1>1, <2>1, TypeParts
    <3> QED BY <1>1, <1>2, <3>1, PollParts DEF PollInv, Done
  <2>2. CASE k # i
    <3>1. poll'[k] = poll[k]
      BY <1>0, <1>1, <2>2, TypeParts
    <3> QED BY <1>0, <1>1, <3>1 DEF PollInv, Done
  <2> QED BY <2>1, <2>2
<1>6. ShownInv'
  BY <1>0, <1>1, <1>2, <1>3 DEF ShownInv, Done
<1>7. ProgressNotAhead'
  BY <1>0, <1>1, <1>2, <1>3, TypeParts DEF ProgressNotAhead, Target, Done
<1>8. RedirectHasReport'
  BY <1>0, <1>1, <1>2 DEF RedirectHasReport, Done
<1> QED BY <1>4, <1>5, <1>6, <1>7, <1>8 DEF PageInv

LEMMA ErrorInv ==
    ASSUME PageInv, NEW i \in Polls, ReceiveError(i)
    PROVE  PageInv'
<1>0. TypeOK /\ ShownInv /\ ProgressNotAhead /\ RedirectHasReport /\ \A k \in Polls : PollInv(k)
  BY DEF PageInv
<1>1. /\ poll' = [poll EXCEPT ![i] = Dropped] /\ timer' = "cleared"
      /\ tab' \in {"poll error", tab}
      /\ status' = status /\ stage' = stage /\ next' = next
      /\ shown' = shown /\ percent' = percent /\ pushed' = pushed
  BY DEF ReceiveError, serverVars
<1>2. TypeOK'
  <2>1. poll' \in [Polls -> Sends]
    BY <1>0, <1>1, TypeParts DEF Sends
  <2> QED BY <1>0, <1>1, <2>1 DEF TypeOK, Server!TypeOK, Sends
<1>3. ASSUME NEW k \in Polls PROVE PollInv(k)'
  <2>1. poll'[k] = Dropped \/ poll'[k] = poll[k]
    BY <1>0, <1>1, TypeParts
  <2> QED BY <1>0, <1>1, <2>1, PollParts DEF PollInv, Done
<1>4. ShownInv' /\ ProgressNotAhead' /\ RedirectHasReport'
  BY <1>0, <1>1 DEF ShownInv, ProgressNotAhead, RedirectHasReport, Done
<1> QED BY <1>2, <1>3, <1>4 DEF PageInv

\* The bar climbs to the ceiling of the stage that is shown, which the job has reached.
LEMMA TickInv ==
    ASSUME PageInv, SmoothTick
    PROVE  PageInv'
<1>0. TypeOK /\ ShownInv /\ ProgressNotAhead /\ RedirectHasReport /\ \A k \in Polls : PollInv(k)
  BY DEF PageInv
<1>1. /\ percent < Target(shown) /\ percent' = percent + 1
      /\ status' = status /\ stage' = stage /\ poll' = poll /\ next' = next
      /\ timer' = timer /\ tab' = tab /\ shown' = shown /\ pushed' = pushed
  BY DEF SmoothTick, serverVars
<1>2. shown.stage \in Nat /\ shown.stage <= LastStage
  BY <1>0, ShownParts
<1>3. percent' \in 0..Top
  BY <1>0, <1>1, <1>2, TypeParts DEF Target
<1>4. TypeOK'
  BY <1>0, <1>1, <1>3 DEF TypeOK, Server!TypeOK
<1>5. ProgressNotAhead'
  BY <1>0, <1>1, <1>2, <1>3, TypeParts DEF ProgressNotAhead, ShownInv, Target, Done
<1>6. (\A k \in Polls : PollInv(k)') /\ ShownInv' /\ RedirectHasReport'
  BY <1>0, <1>1 DEF PollInv, ShownInv, RedirectHasReport, Done
<1> QED BY <1>4, <1>5, <1>6 DEF PageInv

LEMMA UnmountInv ==
    ASSUME PageInv, Unmount
    PROVE  PageInv'
<1>1. /\ tab' = "left" /\ timer' = "cleared"
      /\ status' = status /\ stage' = stage /\ poll' = poll /\ next' = next
      /\ shown' = shown /\ percent' = percent /\ pushed' = pushed
  BY DEF Unmount, serverVars
<1>2. TypeOK'
  BY <1>1 DEF PageInv, TypeOK, Server!TypeOK
<1>3. \A k \in Polls : PollInv(k)'
  BY <1>1 DEF PageInv, PollInv, Done
<1>4. ShownInv' /\ ProgressNotAhead' /\ RedirectHasReport'
  BY <1>1 DEF PageInv, ShownInv, ProgressNotAhead, RedirectHasReport, Done
<1> QED BY <1>2, <1>3, <1>4 DEF PageInv

LEMMA NextPage == PageInv /\ [Next]_vars => PageInv'
<1> SUFFICES ASSUME PageInv, [Next]_vars PROVE PageInv'
  OBVIOUS
<1>1. CASE UNCHANGED vars
  <2>1. TypeOK'
    BY <1>1 DEF vars, serverVars, tabVars, PageInv, TypeOK, Server!TypeOK
  <2>2. (\A k \in Polls : PollInv(k)') /\ ShownInv' /\ ProgressNotAhead' /\ RedirectHasReport'
    BY <1>1 DEF vars, serverVars, tabVars, PageInv, PollInv, ShownInv, ProgressNotAhead,
                RedirectHasReport, Done
  <2> QED BY <2>1, <2>2 DEF PageInv
<1>2. CASE Next
  BY <1>2, ServerInv, AnswerInv, PollStepInv, ReceiveInv, ErrorInv, TickInv, UnmountInv DEF Next
<1> QED BY <1>1, <1>2

-----------------------------------------------------------------------------
(* Theorems                                                                *)

THEOREM PageInductive == Spec => []PageInv
  BY PageInitial, NextPage, PTL DEF Spec

\* The page and the job it watches keep their types.
THEOREM TypeCorrect == Spec => []TypeOK
<1>1. PageInv => TypeOK
  BY DEF PageInv
<1> QED BY <1>1, PageInductive, PTL

\* The progress bar is never past the stage the backend has announced, nor at 100 %
\* before the job is COMPLETE, with any number of answers overtaking each other.
THEOREM ProgressNotAheadHolds == Spec => []ProgressNotAhead
<1>1. PageInv => ProgressNotAhead
  BY DEF PageInv
<1> QED BY <1>1, PageInductive, PTL

\* A user is only ever sent to a report that is there.
THEOREM RedirectHasReportHolds == Spec => []RedirectHasReport
<1>1. PageInv => RedirectHasReport
  BY DEF PageInv
<1> QED BY <1>1, PageInductive, PTL

\* Once an outcome was dealt with, the interval is cleared and sends nothing more.
THEOREM NoPollAfterOutcomeHolds == Spec => NoPollAfterOutcome
<1> DEFINE Ended == \E i \in Polls : poll[i].at = "handled" /\ poll[i].answer.status \in Terminal
<1>1. PageInv /\ [Next]_vars => [Ended => next' = next]_vars
  <2> SUFFICES ASSUME PageInv, Next, Ended PROVE next' = next
    OBVIOUS
  <2>1. timer = "cleared"
    BY DEF PageInv, PollInv
  <2>2. ~Poll
    BY <2>1 DEF Poll
  <2> QED BY <2>2 DEF Next, JobMoves, StageMoves, SmoothTick, Unmount, Answer, Receive,
                      ReceiveError, tabVars
<1> QED BY <1>1, PageInductive, PTL DEF Spec, NoPollAfterOutcome

\* The progress bar never goes back, although a late answer may take the job's own state
\* on the page back.
THEOREM ProgressNeverBackHolds == Spec => ProgressNeverBack
<1>1. PageInv /\ [Next]_vars => [percent' >= percent]_vars
  <2> SUFFICES ASSUME PageInv, Next PROVE percent' >= percent
    OBVIOUS
  <2>0. percent \in Nat /\ percent <= Top /\ Top \in Nat
    BY TypeParts DEF PageInv
  <2>1. CASE \E i \in Polls : Receive(i)
    BY <2>0, <2>1 DEF Receive, Show
  <2>2. CASE SmoothTick
    BY <2>0, <2>2 DEF SmoothTick
  <2>3. CASE JobMoves \/ StageMoves \/ Poll \/ Unmount
    <3>1. percent' = percent
      BY <2>3 DEF JobMoves, StageMoves, Poll, Unmount, tabVars
    <3> QED BY <2>0, <3>1
  <2>4. CASE \E i \in Polls : Answer(i) \/ ReceiveError(i)
    <3>1. percent' = percent
      BY <2>4 DEF Answer, ReceiveError, tabVars
    <3> QED BY <2>0, <3>1
  <2> QED BY <2>1, <2>2, <2>3, <2>4 DEF Next
<1> QED BY <1>1, PageInductive, PTL DEF Spec, ProgressNeverBack

=============================================================================
