---------------------------- MODULE RemoteJobsProofs ----------------------------
(***************************************************************************)
(* Proofs about RemoteJobs, for any set of jobs and of sessions.  The      *)
(* argument follows a job from hand to hand: while it is pending only row  *)
(* locks refer to it; once it is sent it is in exactly one place, the      *)
(* response of one poll, the plugin's inbox, or done; a dropped job never  *)
(* gets there.                                                             *)
(***************************************************************************)
EXTENDS RemoteJobs, TLAPS

Taken == {"sent", "done", "failed"}
Ends == {"done", "failed"}

InAnswer(s, j) == pc[s] = "answer" /\ j \in batch[s]

\* Row locks: they are held by polls that have not committed, on pending rows.
LocksHold ==
    /\ \A j \in Jobs : lock[j] # None => pc[lock[j]] = "taken" /\ status[j] = "pending"
    /\ \A s \in Sessions : pc[s] = "taken" => \A j \in batch[s] : lock[j] = s

\* Where a job may be.
OnePlace ==
    /\ \A s \in Sessions, j \in Jobs : InAnswer(s, j) =>
          /\ status[j] \in Taken /\ ran[j] = 0 /\ j \notin inbox
          /\ \A u \in Sessions : InAnswer(u, j) => u = s
    /\ \A j \in Jobs : j \in inbox => status[j] \in Taken /\ ran[j] = 0
    /\ \A j \in Jobs : ran[j] # 0 => status[j] \in Taken /\ ran[j] = 1

\* Results come from the plugin.
ResultsReal ==
    /\ \A j \in Jobs : outcome[j] # "none" <=> ran[j] = 1
    /\ \A j \in Jobs : status[j] \in Ends => outcome[j] = status[j]
    /\ \A j \in Jobs : told[j] \in Ends => ran[j] = 1 /\ outcome[j] = told[j]

IInv == TypeOK /\ LocksHold /\ OnePlace /\ ResultsReal

\* Initially nothing is queued and nobody holds anything.
LEMMA InitInv == Init => IInv
BY JobConstants DEF Init, IInv, TypeOK, LocksHold, OnePlace, ResultsReal, InAnswer, Statuses,
    Answers, Taken, Ends

\* No session is called None, so a lock that was released is nobody's.
LEMMA NoneIsNoSession == None \notin Sessions
BY JobConstants

\* A counter below its bound may be increased.
LEMMA OneMore == ASSUME NEW n \in 0..2, n < 2 PROVE n + 1 \in 0..2
OBVIOUS

\* Every step keeps the variables in their types.
LEMMA NextType == TypeOK /\ [Next]_vars => TypeOK'
<1> SUFFICES ASSUME TypeOK, [Next]_vars PROVE TypeOK'
  OBVIOUS
<1> USE DEF TypeOK, Statuses, Answers
<1>1. ASSUME NEW j \in Jobs, Caller(j) PROVE TypeOK'
  <2> USE DEF rows, poll, plugin
  <2>1. CASE Queue(j)
    BY <2>1 DEF Queue
  <2>2. CASE See(j)
    BY <2>2 DEF See
  <2>3. CASE GiveUp(j)
    <3>1. Dropped(j) \in Statuses
      BY DEF Dropped
    <3> QED BY <2>3, <3>1 DEF GiveUp
  <2>4. CASE ReportLate(j)
    BY <2>4 DEF ReportLate, Message
  <2>5. CASE CallerCrash(j)
    BY <2>5 DEF CallerCrash
  <2> QED BY <1>1, <2>1, <2>2, <2>3, <2>4, <2>5 DEF Caller
<1>2. ASSUME NEW j \in Jobs, GrowOld(j) \/ Finish(j) PROVE TypeOK'
  <2>1. CASE GrowOld(j)
    BY <2>1 DEF GrowOld, poll, plugin
  <2>2. CASE Finish(j)
    <3>1. outcome[j] \in {"done", "failed"}
      BY <2>2 DEF Finish
    <3>2. status' \in [Jobs -> Statuses]
      BY <2>2, <3>1 DEF Finish
    <3>3. UNCHANGED <<old, told, pc, batch, lock, inbox, ran, outcome>>
      BY <2>2 DEF Finish, poll, plugin
    <3> QED BY <3>2, <3>3
  <2> QED BY <1>2, <2>1, <2>2
<1>3. ASSUME NEW s \in Sessions, PollStep(s) PROVE TypeOK'
  <2>1. CASE \E T \in SUBSET Jobs : BeginPoll(s, T)
    <3>1. PICK T \in SUBSET Jobs : BeginPoll(s, T)
      BY <2>1
    <3>2. lock' \in [Jobs -> Sessions \cup {None}]
      BY <3>1 DEF BeginPoll
    <3>3. pc' \in [Sessions -> {"idle", "taken", "answer"}] /\ batch' \in [Sessions -> SUBSET Jobs]
      BY <3>1 DEF BeginPoll
    <3> QED BY <3>1, <3>2, <3>3 DEF BeginPoll, rows, plugin
  <2>2. CASE CommitPoll(s)
    <3>1. status' \in [Jobs -> Statuses] /\ lock' \in [Jobs -> Sessions \cup {None}]
      BY <2>2 DEF CommitPoll, Unlocked
    <3> QED BY <2>2, <3>1 DEF CommitPoll, plugin
  <2>3. CASE Receive(s)
    BY <2>3 DEF Receive, rows
  <2>4. CASE LosePoll(s)
    BY <2>4 DEF LosePoll, Unlocked, rows, plugin
  <2> QED BY <1>3, <2>1, <2>2, <2>3, <2>4 DEF PollStep
<1>4. ASSUME NEW j \in Jobs, NEW ok \in {"done", "failed"}, Run(j, ok) PROVE TypeOK'
  <2>1. ran[j] + 1 \in 0..2
    <3>1. ran[j] < 2
      BY <1>4 DEF Run
    <3>2. ran[j] \in 0..2
      OBVIOUS
    <3> QED BY <3>1, <3>2, OneMore
  <2>2. ran' \in [Jobs -> 0..2]
    BY <1>4, <2>1 DEF Run
  <2>4. outcome' \in [Jobs -> {"none", "done", "failed"}]
    BY <1>4 DEF Run
  <2>3. inbox' \subseteq Jobs /\ UNCHANGED <<status, old, told, pc, batch, lock>>
    BY <1>4 DEF Run, rows, poll
  <2> QED BY <2>2, <2>3, <2>4
<1>5. CASE PluginRestart
  BY <1>5 DEF PluginRestart, rows, poll
<1>6. CASE UNCHANGED vars
  BY <1>6 DEF vars, rows, poll, plugin
<1> QED BY <1>1, <1>2, <1>3, <1>4, <1>5, <1>6 DEF Next

\* What a caller's step is to everybody else: it changes a row only from nothing
\* to pending and from pending, unlocked, to expired.
LEMMA CallerStep ==
    ASSUME NEW j \in Jobs, TypeOK, Caller(j)
    PROVE  /\ UNCHANGED <<poll, plugin>>
           /\ \A i \in Jobs :
                 \/ status'[i] = status[i]
                 \/ status[i] = "none" /\ status'[i] = "pending"
                 \/ status[i] = "pending" /\ lock[i] = None /\ status'[i] = "expired"
           /\ \A i \in Jobs : told'[i] = told[i] \/ told'[i] \notin Ends \/ told'[i] = status[i]
<1> USE DEF TypeOK, rows, Ends
<1>1. CASE Queue(j) BY <1>1 DEF Queue
<1>2. CASE See(j) BY <1>2 DEF See
<1>3. CASE GiveUp(j) BY <1>3 DEF GiveUp, Dropped
<1>4. CASE ReportLate(j) BY <1>4 DEF ReportLate, Message
<1>5. CASE CallerCrash(j) BY <1>5 DEF CallerCrash
<1> QED BY <1>1, <1>2, <1>3, <1>4, <1>5 DEF Caller

LEMMA CallerInv ==
    ASSUME NEW j \in Jobs, IInv, Caller(j) PROVE LocksHold' /\ OnePlace' /\ ResultsReal'
<1> USE CallerStep DEF IInv
<1>1. LocksHold'
  BY DEF LocksHold, poll, TypeOK
<1>2. OnePlace'
  BY DEF OnePlace, InAnswer, Taken, poll, plugin
<1>3. ResultsReal'
  BY DEF ResultsReal, Ends, plugin
<1> QED BY <1>1, <1>2, <1>3

\* A poll takes rows nobody holds, so no two polls hand out the same job.
LEMMA PollInv ==
    ASSUME NEW s \in Sessions, IInv, PollStep(s) PROVE LocksHold' /\ OnePlace' /\ ResultsReal'
<1> USE NoneIsNoSession DEF IInv, TypeOK, LocksHold, OnePlace, ResultsReal, InAnswer, Taken, Ends
<1>1. ASSUME NEW T \in SUBSET Jobs, BeginPoll(s, T) PROVE LocksHold' /\ OnePlace' /\ ResultsReal'
  <2>1. \A j \in T \cup (Pending \cap old) : lock[j] = None /\ status[j] = "pending"
    BY <1>1 DEF BeginPoll, Takeable, Pending
  <2>2. LocksHold'
    BY <1>1, <2>1 DEF BeginPoll, rows
  <2>3. OnePlace'
    BY <1>1, <2>1 DEF BeginPoll, rows, plugin
  <2>4. ResultsReal'
    BY <1>1 DEF BeginPoll, rows, plugin
  <2> QED BY <2>2, <2>3, <2>4
<1>2. CASE CommitPoll(s)
  <2>1. \A j \in Jobs : lock[j] = s => status[j] = "pending"
    BY DEF LocksHold
  <2>2. \A j \in batch[s] : lock[j] = s
    BY <1>2 DEF CommitPoll
  <2>3. LocksHold'
    BY <1>2, <2>1, <2>2 DEF CommitPoll, Unlocked
  <2>4. OnePlace'
    BY <1>2, <2>1, <2>2 DEF CommitPoll, Unlocked, plugin
  <2>5. ResultsReal'
    BY <1>2, <2>1, <2>2 DEF CommitPoll, Unlocked, plugin
  <2> QED BY <2>3, <2>4, <2>5
<1>3. CASE Receive(s)
  BY <1>3 DEF Receive, rows
<1>4. CASE LosePoll(s)
  BY <1>4 DEF LosePoll, Unlocked, rows, plugin
<1> QED BY <1>1, <1>2, <1>3, <1>4 DEF PollStep

\* The plugin does what is in its inbox and reports what it has done.
LEMMA PluginInv ==
    ASSUME IInv, NEW j \in Jobs,
           \/ GrowOld(j) \/ Finish(j) \/ PluginRestart
           \/ \E ok \in {"done", "failed"} : Run(j, ok)
    PROVE  LocksHold' /\ OnePlace' /\ ResultsReal'
<1> USE DEF IInv, TypeOK, LocksHold, OnePlace, ResultsReal, InAnswer, Taken, Ends, rows, poll, plugin
<1>1. CASE GrowOld(j) BY <1>1 DEF GrowOld
<1>2. CASE Finish(j) BY <1>2 DEF Finish, Statuses
<1>3. CASE PluginRestart BY <1>3 DEF PluginRestart
<1>4. ASSUME NEW ok \in {"done", "failed"}, Run(j, ok) PROVE LocksHold' /\ OnePlace' /\ ResultsReal'
  <2>1. ran[j] = 0 /\ status[j] \in Taken /\ outcome[j] = "none" /\ status[j] \notin Ends
    BY <1>4 DEF Run
  <2>2. ran' = [ran EXCEPT ![j] = 1]
    BY <1>4, <2>1 DEF Run
  <2> QED BY <1>4, <2>1, <2>2 DEF Run
<1> QED BY <1>1, <1>2, <1>3, <1>4

\* The inductive step.
LEMMA Inductive == IInv /\ [Next]_vars => IInv'
<1> SUFFICES ASSUME IInv, [Next]_vars PROVE IInv'
  OBVIOUS
<1>1. TypeOK'
  BY NextType DEF IInv
<1>2. ASSUME NEW j \in Jobs, Caller(j) PROVE IInv'
  BY <1>1, <1>2, CallerInv DEF IInv
<1>3. ASSUME NEW s \in Sessions, PollStep(s) PROVE IInv'
  BY <1>1, <1>3, PollInv DEF IInv
<1>4. ASSUME NEW j \in Jobs, GrowOld(j) \/ Finish(j) \/ \E ok \in {"done", "failed"} : Run(j, ok)
      PROVE IInv'
  BY <1>1, <1>4, PluginInv DEF IInv
<1>5. CASE PluginRestart
  <2>1. PICK j \in Jobs : j \in inbox
    BY <1>5 DEF PluginRestart, IInv, TypeOK
  <2> QED BY <1>1, <1>5, PluginInv DEF IInv
<1>6. CASE UNCHANGED vars
  BY <1>6 DEF vars, rows, poll, plugin, IInv, TypeOK, LocksHold, OnePlace, ResultsReal, InAnswer
<1> QED BY <1>2, <1>3, <1>4, <1>5, <1>6 DEF Next

LEMMA Invariance == Spec => []IInv
<1>1. Init => IInv BY InitInv
<1>2. IInv /\ [Next]_vars => IInv' BY Inductive
<1> QED BY <1>1, <1>2, PTL DEF Spec

\* The rows, polls and the plugin keep their types: a status is one of those
\* the callers, the polls and the results know (call, take_pending, finish).
THEOREM TypesKept == Spec => []TypeOK
BY Invariance, PTL DEF IInv

\* No job is done twice, however polls overlap and responses are lost, for any
\* number of jobs and of concurrent polls (remote_files.take_pending).
THEOREM JobsRunOnce == Spec => []RunsOnce
<1>1. IInv => RunsOnce
  BY DEF IInv, TypeOK, OnePlace, RunsOnce
<1> QED BY <1>1, Invariance, PTL

\* A job that was expired by its caller or by a poll is not done afterwards
\* (remote_files.call and take_pending).
THEOREM DroppedJobsNeverRun == Spec => []DroppedNeverRuns
<1>1. ASSUME IInv PROVE DroppedNeverRuns
  <2> SUFFICES ASSUME NEW j \in Jobs, status[j] = "expired"
               PROVE /\ ran[j] = 0 /\ j \notin inbox
                     /\ \A s \in Sessions : pc[s] # "idle" => j \notin batch[s]
    BY DEF DroppedNeverRuns
  <2>1. ran[j] = 0 /\ j \notin inbox
    BY <1>1 DEF IInv, OnePlace, Taken
  <2>2. ASSUME NEW s \in Sessions, pc[s] # "idle" PROVE j \notin batch[s]
    <3>1. CASE pc[s] = "taken"
      BY <1>1, <3>1, NoneIsNoSession DEF IInv, TypeOK, LocksHold
    <3>2. CASE pc[s] = "answer"
      BY <1>1, <3>2 DEF IInv, OnePlace, InAnswer, Taken
    <3> QED BY <1>1, <2>2, <3>1, <3>2 DEF IInv, TypeOK
  <2> QED BY <2>1, <2>2
<1> QED BY <1>1, Invariance, PTL

\* What a caller is told is what happened on the server (remote_files.finish).
THEOREM ResultsAreReal == Spec => []ResultIsReal
<1>1. IInv => ResultIsReal
  BY DEF IInv, ResultsReal, ResultIsReal, Ends
<1> QED BY <1>1, Invariance, PTL

--------------------------------------------------------------------------------
(* The rows, polls and the plugin implement OneShotCalls. *)

\* A job that its caller was told is accepted had been taken.
AcceptedTaken == \A j \in Jobs : told[j] = "accepted" => status[j] \in Taken

\* What a step is to a row: taken rows stay taken, and only pending ones expire.
LEMMA RowStep ==
    ASSUME IInv, Next, NEW j \in Jobs
    PROVE  /\ status[j] \in Taken => status'[j] \in Taken
           /\ told'[j] = "accepted" => told[j] = "accepted" \/ status[j] = "sent"
<1> USE DEF IInv, TypeOK, Taken
<1>1. ASSUME NEW i \in Jobs, Caller(i)
      PROVE  /\ status[j] \in Taken => status'[j] \in Taken
             /\ told'[j] = "accepted" => told[j] = "accepted" \/ status[j] = "sent"
  <2>1. CASE Queue(i) BY <2>1 DEF Queue
  <2>2. CASE See(i) BY <2>2 DEF See, rows
  <2>3. CASE GiveUp(i) BY <2>3 DEF GiveUp, Dropped
  <2>4. CASE ReportLate(i) BY <2>4 DEF ReportLate, Message, rows
  <2>5. CASE CallerCrash(i) BY <2>5 DEF CallerCrash, rows
  <2> QED BY <1>1, <2>1, <2>2, <2>3, <2>4, <2>5 DEF Caller
<1>2. ASSUME NEW i \in Jobs, GrowOld(i) \/ Finish(i)
      PROVE  (status[j] \in Taken => status'[j] \in Taken) /\ told' = told
  BY <1>2 DEF GrowOld, Finish
<1>3. ASSUME NEW s \in Sessions, PollStep(s)
      PROVE  (status[j] \in Taken => status'[j] \in Taken) /\ told' = told
  <2>1. CASE CommitPoll(s)
    <3>1. lock[j] = s => status[j] = "pending"
      BY NoneIsNoSession DEF LocksHold
    <3> QED BY <2>1, <3>1 DEF CommitPoll
  <2>2. CASE \/ \E T \in SUBSET Jobs : BeginPoll(s, T)
             \/ Receive(s) \/ LosePoll(s)
    BY <2>2 DEF BeginPoll, Receive, LosePoll, rows
  <2> QED BY <1>3, <2>1, <2>2 DEF PollStep
<1>4. CASE \/ \E i \in Jobs, ok \in {"done", "failed"} : Run(i, ok)
           \/ PluginRestart
  BY <1>4 DEF Run, PluginRestart, rows
<1> QED BY <1>1, <1>2, <1>3, <1>4 DEF Next

LEMMA AcceptedStep == IInv /\ AcceptedTaken /\ [Next]_vars => AcceptedTaken'
<1> SUFFICES ASSUME IInv, AcceptedTaken, [Next]_vars, NEW j \in Jobs, told'[j] = "accepted"
             PROVE  status'[j] \in Taken
  BY DEF AcceptedTaken
<1>1. CASE Next
  BY <1>1, RowStep DEF AcceptedTaken, Taken
<1>2. CASE UNCHANGED vars
  BY <1>2 DEF vars, rows, AcceptedTaken
<1> QED BY <1>1, <1>2

\* A job stays what it is to its caller if neither its row nor its result changes.
LEMMA SameState ==
    ASSUME status' = status, ran' = ran, outcome' = outcome PROVE JobState' = JobState
BY DEF JobState

LEMMA SameAnswer == ASSUME told' = told PROVE JobAnswer' = JobAnswer
BY DEF JobAnswer

\* Until it has been done a job has no result; then it has been taken.
LEMMA JobStateIs ==
    ASSUME IInv, NEW j \in Jobs
    PROVE  /\ status[j] = "none" <=> JobState[j] = "none"
           /\ status[j] = "expired" <=> JobState[j] = "dropped"
           /\ status[j] = "pending" => JobState[j] = "open"
           /\ j \in inbox => JobState[j] = "open"
           /\ status[j] \in Ends => JobState[j] = status[j]
<1>1. ran[j] = 0 \/ (ran[j] = 1 /\ status[j] \in Taken)
  BY DEF IInv, TypeOK, OnePlace
<1>2. outcome[j] \in {"none", "done", "failed"} /\ (status[j] \in Ends => outcome[j] = status[j])
  BY DEF IInv, TypeOK, ResultsReal
<1>3. outcome[j] # "none" <=> ran[j] = 1
  BY DEF IInv, ResultsReal
<1>4. JobState[j] = IF status[j] = "none" THEN "none" ELSE IF ran[j] > 0 THEN outcome[j]
                    ELSE IF status[j] = "expired" THEN "dropped" ELSE "open"
  BY DEF JobState
<1>5. status[j] \in Statuses /\ (j \in inbox => status[j] \in Taken /\ ran[j] = 0)
  BY DEF IInv, TypeOK, OnePlace
<1> QED BY <1>1, <1>2, <1>3, <1>4, <1>5 DEF Taken, Ends, Statuses

\* Refinement: Init maps to Init.
LEMMA RefinesInit == Init => Calls!Init
BY DEF Init, Calls!Init, JobState, JobAnswer

\* What a caller does maps to a call, a drop or an answer.
LEMMA RefinesCaller ==
    ASSUME IInv, AcceptedTaken, NEW j \in Jobs, Caller(j)
    PROVE  Calls!Next \/ UNCHANGED <<JobState, JobAnswer>>
<1> USE DEF rows
<1>1. CASE Queue(j)
  <2>1. JobState[j] = "none"
    BY <1>1, JobStateIs DEF Queue
  <2>2. JobState' = [JobState EXCEPT ![j] = "open"]
    <3>1. ran[j] = 0
      BY <1>1 DEF Queue, IInv, TypeOK, OnePlace, Taken
    <3>2. status' = [status EXCEPT ![j] = "pending"] /\ ran' = ran /\ outcome' = outcome
      BY <1>1 DEF Queue, plugin
    <3>3. status \in [Jobs -> Statuses]
      BY DEF IInv, TypeOK
    <3>4. ASSUME NEW i \in Jobs PROVE JobState'[i] = IF i = j THEN "open" ELSE JobState[i]
      BY <3>1, <3>2, <3>3 DEF JobState
    <3>5. JobState' = [i \in Jobs |-> JobState'[i]] /\ JobState = [i \in Jobs |-> JobState[i]]
      BY DEF JobState
    <3> QED BY <3>4, <3>5
  <2>3. JobAnswer' = [JobAnswer EXCEPT ![j] = "waiting"]
    BY <1>1 DEF Queue, JobAnswer, IInv, TypeOK
  <2> QED BY <2>1, <2>2, <2>3 DEF Calls!Next, Calls!Call
<1>2. CASE See(j)
  <2>1. JobState' = JobState
    BY <1>2, SameState DEF See, plugin
  <2>2. JobState[j] = status[j] /\ status[j] \in Calls!Results
    BY <1>2, JobStateIs DEF See, Ends, Calls!Results
  <2>3. JobAnswer[j] = "waiting" /\ JobAnswer' = [JobAnswer EXCEPT ![j] = status[j]]
    BY <1>2 DEF See, JobAnswer, IInv, TypeOK
  <2>4. Calls!Answer(j, status[j])
    BY <2>1, <2>2, <2>3 DEF Calls!Answer, Calls!Results
  <2> QED BY <2>2, <2>4 DEF Calls!Next
<1>3. CASE GiveUp(j)
  <2>1. JobAnswer' = JobAnswer
    BY <1>3 DEF GiveUp, JobAnswer, IInv, TypeOK
  <2>2. CASE status[j] = "pending"
    <3>1. JobState' = [i \in Jobs |-> IF i \in {j} THEN "dropped" ELSE JobState[i]]
      BY <1>3, <2>2 DEF GiveUp, Dropped, JobState, plugin, IInv, TypeOK, OnePlace, Taken
    <3>2. JobState[j] = "open" /\ JobAnswer[j] = "waiting"
      BY <1>3, <2>2, JobStateIs DEF GiveUp, JobAnswer
    <3>3. Calls!DropOld({j})
      BY <2>1, <3>1, <3>2 DEF Calls!DropOld
    <3> QED BY <3>3 DEF Calls!Next
  <2>3. CASE status[j] # "pending"
    <3>1. status' = status
      BY <1>3, <2>3 DEF GiveUp, Dropped, IInv, TypeOK
    <3> QED BY <1>3, <2>1, <3>1, SameState DEF GiveUp, plugin
  <2> QED BY <2>2, <2>3
<1>4. CASE ReportLate(j)
  <2> DEFINE reply == IF status[j] = "sent" THEN "accepted" ELSE "gave up"
  <2>1. JobState' = JobState
    BY <1>4, SameState DEF ReportLate, plugin
  <2>2. JobAnswer[j] = "waiting" /\ JobAnswer' = [JobAnswer EXCEPT ![j] = reply]
    BY <1>4 DEF ReportLate, Message, JobAnswer, IInv, TypeOK
  <2>3. reply = "accepted" => JobState[j] # "dropped"
    BY JobStateIs
  <2>4. Calls!Answer(j, reply)
    BY <2>1, <2>2, <2>3 DEF Calls!Answer, Calls!Results
  <2> QED BY <2>4 DEF Calls!Next
<1>5. CASE CallerCrash(j)
  <2>1. JobState' = JobState
    BY <1>5, SameState DEF CallerCrash, plugin
  <2>2. JobAnswer[j] = "waiting" /\ JobAnswer' = [JobAnswer EXCEPT ![j] = "gave up"]
    BY <1>5 DEF CallerCrash, JobAnswer, IInv, TypeOK
  <2>3. Calls!Answer(j, "gave up")
    BY <2>1, <2>2 DEF Calls!Answer, Calls!Results
  <2> QED BY <2>3 DEF Calls!Next
<1> QED BY <1>1, <1>2, <1>3, <1>4, <1>5 DEF Caller

\* A poll drops the old jobs it found and nothing else that a caller knows of.
LEMMA RefinesPoll ==
    ASSUME IInv, AcceptedTaken, NEW s \in Sessions, PollStep(s)
    PROVE  Calls!Next \/ UNCHANGED <<JobState, JobAnswer>>
<1>0. JobAnswer' = JobAnswer
  BY SameAnswer DEF PollStep, BeginPoll, CommitPoll, Receive, LosePoll
<1>1. CASE CommitPoll(s)
  <2> DEFINE D == {j \in Jobs : lock[j] = s /\ j \notin batch[s]}
  <2>1. \A j \in Jobs : lock[j] = s => status[j] = "pending"
    BY NoneIsNoSession DEF IInv, LocksHold
  <2>2. \A j \in batch[s] : j \in Jobs /\ lock[j] = s
    BY <1>1 DEF CommitPoll, IInv, TypeOK, LocksHold
  <2>3. \A j \in Jobs : lock[j] = s => ran[j] = 0
    BY <2>1 DEF IInv, OnePlace, Taken
  <2>4. JobState' = [j \in Jobs |-> IF j \in D THEN "dropped" ELSE JobState[j]]
    BY <1>1, <2>1, <2>2, <2>3 DEF CommitPoll, JobState, plugin
  <2>5. \A j \in D : JobState[j] = "open" /\ JobAnswer[j] # "accepted"
    BY <2>1, JobStateIs DEF JobAnswer, AcceptedTaken, Taken
  <2>6. Calls!DropOld(D)
    BY <1>0, <2>4, <2>5 DEF Calls!DropOld
  <2> QED BY <2>6 DEF Calls!Next
<1>2. CASE \/ \E T \in SUBSET Jobs : BeginPoll(s, T)
           \/ Receive(s) \/ LosePoll(s)
  <2>1. JobState' = JobState
    BY <1>2, SameState DEF BeginPoll, Receive, LosePoll, rows, plugin
  <2> QED BY <1>0, <2>1
<1> QED BY <1>1, <1>2 DEF PollStep

\* The plugin does a job; its result is posted later, and is what the job is already.
LEMMA RefinesPlugin ==
    ASSUME IInv, NEW j \in Jobs,
           \/ GrowOld(j) \/ Finish(j) \/ PluginRestart
           \/ \E ok \in {"done", "failed"} : Run(j, ok)
    PROVE  Calls!Next \/ UNCHANGED <<JobState, JobAnswer>>
<1>0. JobAnswer' = JobAnswer
  BY SameAnswer DEF GrowOld, Finish, PluginRestart, Run
<1>1. CASE GrowOld(j) \/ PluginRestart
  BY <1>0, <1>1, SameState DEF GrowOld, PluginRestart, rows, plugin
<1>2. CASE Finish(j)
  <2>1. ran[j] = 1 /\ status[j] # "none"
    BY <1>2 DEF Finish, IInv, ResultsReal, OnePlace, Taken, TypeOK
  <2>2. status'[j] # "none" /\ \A i \in Jobs : i # j => status'[i] = status[i]
    BY <1>2 DEF Finish, IInv, TypeOK
  <2>3. JobState' = JobState
    BY <1>2, <2>1, <2>2 DEF Finish, JobState, plugin
  <2> QED BY <1>0, <2>3
<1>3. ASSUME NEW ok \in {"done", "failed"}, Run(j, ok) PROVE Calls!Next
  <2>1. JobState[j] = "open" /\ ran[j] = 0 /\ status[j] # "none"
    BY <1>3, JobStateIs DEF Run, IInv, OnePlace, Taken
  <2>2. JobState' = [JobState EXCEPT ![j] = ok]
    <3>1. ran' = [ran EXCEPT ![j] = 1] /\ outcome' = [outcome EXCEPT ![j] = ok] /\ status' = status
      BY <1>3, <2>1 DEF Run, rows
    <3>2. ran \in [Jobs -> 0..2] /\ outcome \in [Jobs -> {"none", "done", "failed"}]
      BY DEF IInv, TypeOK
    <3>4. ASSUME NEW i \in Jobs PROVE JobState'[i] = IF i = j THEN ok ELSE JobState[i]
      BY <2>1, <3>1, <3>2 DEF JobState
    <3>5. JobState' = [i \in Jobs |-> JobState'[i]] /\ JobState = [i \in Jobs |-> JobState[i]]
      BY DEF JobState
    <3> QED BY <3>4, <3>5
  <2>3. Calls!Do(j, ok)
    BY <1>0, <2>1, <2>2 DEF Calls!Do
  <2> QED BY <1>3, <2>3 DEF Calls!Next, Calls!Results
<1> QED BY <1>1, <1>2, <1>3

\* Whatever polls, the plugin and lost responses do, a call is one of OneShotCalls:
\* done once at most, never after it was dropped, and reported as it ended
\* (remote_files.call, server_console.run).
THEOREM CallsImplemented == Spec => ImplementsCalls
<1>1. Init => AcceptedTaken /\ Calls!Init
  BY RefinesInit DEF Init, AcceptedTaken
<1>2. IInv /\ AcceptedTaken /\ [Next]_vars => [Calls!Next]_<<JobState, JobAnswer>>
  <2> SUFFICES ASSUME IInv, AcceptedTaken, [Next]_vars
               PROVE  Calls!Next \/ UNCHANGED <<JobState, JobAnswer>>
    OBVIOUS
  <2>1. CASE UNCHANGED vars
    BY <2>1, SameState, SameAnswer DEF vars, rows, plugin
  <2>2. ASSUME NEW j \in Jobs, Caller(j) \/ GrowOld(j) \/ Finish(j)
        PROVE  Calls!Next \/ UNCHANGED <<JobState, JobAnswer>>
    BY <2>2, RefinesCaller, RefinesPlugin
  <2>3. ASSUME NEW s \in Sessions, PollStep(s)
        PROVE  Calls!Next \/ UNCHANGED <<JobState, JobAnswer>>
    BY <2>3, RefinesPoll
  <2>4. ASSUME NEW j \in Jobs, \E ok \in {"done", "failed"} : Run(j, ok)
        PROVE  Calls!Next \/ UNCHANGED <<JobState, JobAnswer>>
    BY <2>4, RefinesPlugin
  <2>5. CASE PluginRestart
    <3>1. PICK j \in Jobs : j \in inbox
      BY <2>5 DEF PluginRestart, IInv, TypeOK
    <3> QED BY <2>5, <3>1, RefinesPlugin
  <2> QED BY <2>1, <2>2, <2>3, <2>4, <2>5 DEF Next
<1> QED BY <1>1, <1>2, AcceptedStep, Invariance, PTL DEF Spec, ImplementsCalls, Calls!Spec
================================================================================
