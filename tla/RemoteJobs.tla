------------------------------- MODULE RemoteJobs -------------------------------
(***************************************************************************)
(* Jobs for the plugin of a partner's server: file operations              *)
(* (core/remote_files.py) and console commands (core/server_console.py),   *)
(* which run the same protocol.  A caller inserts a row and looks at it    *)
(* until its deadline; the plugin polls for pending rows, which are marked *)
(* sent, does them and posts the results.  The plugin may be down, slow or *)
(* restarted, and a response may be lost on its way to it.                 *)
(***************************************************************************)
EXTENDS Integers, FiniteSets

CONSTANTS
    Jobs,       \* the calls of a run, one row each
    Sessions,   \* requests of the plugin that are served at the same time
    Limit,      \* how many jobs one poll takes (10 files, 20 commands)
    None        \* no lock holder

ASSUME JobConstants == Limit \in Nat \ {0} /\ None \notin Sessions

VARIABLES
    status,     \* the status of a row, "none" before it is inserted
    old,        \* rows older than PENDING_TTL_SECONDS
    told,       \* what the caller of a job was told
    pc,         \* what a poll does next
    batch,      \* the rows it has selected
    lock,       \* the session that holds the row lock of a job
    inbox,      \* jobs the plugin has received and not done
    ran,        \* how often it has done a job
    outcome     \* what came of it there

rows == <<status, old>>
poll == <<pc, batch, lock>>
plugin == <<inbox, ran, outcome>>
vars == <<rows, told, poll, plugin>>

Statuses == {"none", "pending", "sent", "done", "failed", "expired"}

\* "waiting" has not been answered yet, "late" has expired its job and looks
\* once more; "accepted" and "not taken" are the two messages of a time-out.
Answers == {"none", "waiting", "late", "done", "failed", "accepted", "not taken", "crashed"}

--------------------------------------------------------------------------------
(* call, run: the caller *)

Queue(j) ==
    /\ status[j] = "none"
    /\ status' = [status EXCEPT ![j] = "pending"]
    /\ told' = [told EXCEPT ![j] = "waiting"]
    /\ UNCHANGED <<old, poll, plugin>>

\* One look at the row; there is nothing to say while the job is not done.
See(j) ==
    /\ told[j] = "waiting"
    /\ status[j] \in {"done", "failed"}
    /\ told' = [told EXCEPT ![j] = status[j]]
    /\ UNCHANGED <<rows, poll, plugin>>

\* Mutant of Dropped: a status nobody else knows (the column is free text).
DroppedMisspelt(j) == IF status[j] = "pending" THEN "dropped" ELSE status[j]

\* UPDATE ... WHERE status = 'pending': a job that was taken is left alone.
Dropped(j) == IF status[j] = "pending" THEN "expired" ELSE status[j]

\* The deadline has passed; the UPDATE waits for a poll that holds the row.
GiveUp(j) ==
    /\ told[j] = "waiting"
    /\ lock[j] = None
    /\ told' = [told EXCEPT ![j] = "late"]
    /\ status' = [status EXCEPT ![j] = Dropped(j)]
    /\ UNCHANGED <<old, poll, plugin>>

\* Mutant of Message: the caller hears that the server has the job.
MessageAccepted(j) == "accepted"

\* The row is read once more, for the message.
Message(j) == IF status[j] = "sent" THEN "accepted" ELSE "not taken"

ReportLate(j) ==
    /\ told[j] = "late"
    /\ told' = [told EXCEPT ![j] = Message(j)]
    /\ UNCHANGED <<rows, poll, plugin>>

\* The process that waited is restarted; the row stays.
CallerCrash(j) ==
    /\ told[j] \in {"waiting", "late"}
    /\ told' = [told EXCEPT ![j] = "crashed"]
    /\ UNCHANGED <<rows, poll, plugin>>

GrowOld(j) ==
    /\ status[j] # "none"
    /\ j \notin old
    /\ old' = old \cup {j}
    /\ UNCHANGED <<status, told, poll, plugin>>

--------------------------------------------------------------------------------
(* take_pending: a poll of the plugin *)

Pending == {j \in Jobs : status[j] = "pending"}

\* Mutant of Takeable: the select does not lock.
TakeableUnlocked(T) == T \subseteq Pending \ old

\* A select of pending rows that are not locked, after the old ones are expired.
\* (The rows are taken by id; which ones a full batch leaves out is open here.)
Takeable(T) == T \subseteq {j \in Pending \ old : lock[j] = None}

\* The UPDATE of the old rows waits for whoever holds one; then the pending
\* ones are selected FOR UPDATE SKIP LOCKED.
BeginPoll(s, T) ==
    /\ pc[s] = "idle"
    /\ \A j \in Pending \cap old : lock[j] = None
    /\ Takeable(T)
    /\ Cardinality(T) <= Limit
    /\ \A j \in Pending \ (T \cup old) : Cardinality(T) = Limit \/ lock[j] # None
    /\ pc' = [pc EXCEPT ![s] = "taken"]
    /\ batch' = [batch EXCEPT ![s] = T]
    /\ lock' = [j \in Jobs |-> IF j \in T \cup (Pending \cap old) THEN s ELSE lock[j]]
    /\ UNCHANGED <<rows, told, plugin>>

Unlocked(s) == [j \in Jobs |-> IF lock[j] = s THEN None ELSE lock[j]]

\* Marked sent and committed; the response is on its way.
CommitPoll(s) ==
    /\ pc[s] = "taken"
    /\ status' = [j \in Jobs |->
                    IF j \in batch[s] THEN "sent" ELSE IF lock[j] = s THEN "expired" ELSE status[j]]
    /\ pc' = [pc EXCEPT ![s] = "answer"]
    /\ lock' = Unlocked(s)
    /\ UNCHANGED <<old, told, batch, plugin>>

\* The plugin gets the response.
Receive(s) ==
    /\ pc[s] = "answer"
    /\ inbox' = inbox \cup batch[s]
    /\ pc' = [pc EXCEPT ![s] = "idle"]
    /\ batch' = [batch EXCEPT ![s] = {}]
    /\ UNCHANGED <<rows, told, lock, ran, outcome>>

\* The response is lost, or the request fails and is rolled back.
LosePoll(s) ==
    /\ pc[s] # "idle"
    /\ pc' = [pc EXCEPT ![s] = "idle"]
    /\ batch' = [batch EXCEPT ![s] = {}]
    /\ lock' = Unlocked(s)
    /\ UNCHANGED <<rows, told, plugin>>

--------------------------------------------------------------------------------
(* The plugin, which is not part of the repository, and finish. *)

Run(j, ok) ==
    /\ j \in inbox
    /\ ran[j] < 2
    /\ inbox' = inbox \ {j}
    /\ ran' = [ran EXCEPT ![j] = @ + 1]
    /\ outcome' = [outcome EXCEPT ![j] = ok]
    /\ UNCHANGED <<rows, told, poll>>

PluginRestart ==
    /\ inbox # {}
    /\ inbox' = {}
    /\ UNCHANGED <<rows, told, poll, ran, outcome>>

\* The result of a job is posted, as often as the plugin likes.
Finish(j) ==
    /\ outcome[j] # "none"
    /\ lock[j] = None
    /\ status' = [status EXCEPT ![j] = outcome[j]]
    /\ UNCHANGED <<old, told, poll, plugin>>

Init ==
    /\ status = [j \in Jobs |-> "none"]
    /\ old = {}
    /\ told = [j \in Jobs |-> "none"]
    /\ pc = [s \in Sessions |-> "idle"]
    /\ batch = [s \in Sessions |-> {}]
    /\ lock = [j \in Jobs |-> None]
    /\ inbox = {}
    /\ ran = [j \in Jobs |-> 0]
    /\ outcome = [j \in Jobs |-> "none"]

Caller(j) == Queue(j) \/ See(j) \/ GiveUp(j) \/ ReportLate(j) \/ CallerCrash(j)

PollStep(s) ==
    \/ \E T \in SUBSET Jobs : BeginPoll(s, T)
    \/ CommitPoll(s)
    \/ Receive(s)
    \/ LosePoll(s)

Next ==
    \/ \E j \in Jobs : Caller(j) \/ GrowOld(j) \/ Finish(j)
    \/ \E s \in Sessions : PollStep(s)
    \/ \E j \in Jobs, ok \in {"done", "failed"} : Run(j, ok)
    \/ PluginRestart

Spec == Init /\ [][Next]_vars

--------------------------------------------------------------------------------
(* Properties. *)

TypeOK ==
    /\ status \in [Jobs -> Statuses]
    /\ old \subseteq Jobs
    /\ told \in [Jobs -> Answers]
    /\ pc \in [Sessions -> {"idle", "taken", "answer"}]
    /\ batch \in [Sessions -> SUBSET Jobs]
    /\ lock \in [Jobs -> Sessions \cup {None}]
    /\ inbox \subseteq Jobs
    /\ ran \in [Jobs -> 0..2]
    /\ outcome \in [Jobs -> {"none", "done", "failed"}]

\* A job is done at most once, although polls overlap, responses are lost and
\* the plugin restarts ("marked sent so they run once", remote_files.py:77).
RunsOnce == \A j \in Jobs : ran[j] <= 1 /\ (j \in inbox => ran[j] = 0)

\* A job that was dropped, by its caller's deadline or by a poll that found it
\* old, is never done afterwards, even when the deadline meets a poll that is
\* just taking it (remote_files.py:65-67, 79-81).
DroppedNeverRuns ==
    \A j \in Jobs : status[j] = "expired" =>
        /\ ran[j] = 0 /\ j \notin inbox
        /\ \A s \in Sessions : pc[s] # "idle" => j \notin batch[s]

\* A job as its caller knows it: once done it is what came of it.
JobState == [j \in Jobs |->
    IF status[j] = "none" THEN "none" ELSE IF ran[j] > 0 THEN outcome[j]
    ELSE IF status[j] = "expired" THEN "dropped" ELSE "open"]

JobAnswer == [j \in Jobs |->
    IF told[j] = "late" THEN "waiting"
    ELSE IF told[j] \in {"not taken", "crashed"} THEN "gave up" ELSE told[j]]

Calls == INSTANCE OneShotCalls WITH state <- JobState, answer <- JobAnswer

\* The rows, the polls and the plugin together keep the promise of a call: each
\* of their steps is one of OneShotCalls or changes nothing the caller knows of.
ImplementsCalls == Calls!Spec

\* What a caller is told of a result is what came of its job on the server.
ResultIsReal ==
    \A j \in Jobs : told[j] \in {"done", "failed"} => ran[j] = 1 /\ outcome[j] = told[j]

\* A caller who is told that the server does not take jobs may try again: the
\* job has not been done and will not be (remote_files.py:64, 70-73).
NotTakenIsTrue ==
    \A j \in Jobs : told[j] = "not taken" => ran[j] = 0 /\ j \notin inbox
================================================================================
