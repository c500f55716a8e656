------------------------------ MODULE BackupWorker ------------------------------
(***************************************************************************)
(* The backup worker (apps/worker/backups.py) of one server and the queue  *)
(* of jar changes it shares with the panel (core/server_changes.py,        *)
(* routes/admin_backups.py, routes/admin_plugins.py).  Cron starts it      *)
(* every minute, a file lock keeps it single, and it may die at any step   *)
(* (a reboot of the machine, a deployment), which leaves the rows, the     *)
(* folders and the flag as they are.  Every look at the unit may go        *)
(* unanswered (heard = FALSE), and is then read as one at a server without *)
(* a process.                                                              *)
(***************************************************************************)
EXTENDS ServerProcess, FiniteSets

CONSTANT Mixes      \* bounds what comes together in one behaviour: of "backup", "restore"
                    \* and "restart" what the panel asks for; whether there are the
                    \* "watchdog", "timeouts" of looks at the unit, and "disk" trouble

VARIABLES
    mix,        \* of Mixes, the one of this behaviour
    pc,         \* the step the worker is at
    cur,        \* what it is doing
    wasUp,      \* was_running of the job, live of the archive
    setFlag,    \* set_flag
    backup,     \* status of the manual or scheduled backup
    pre,        \* status of the backup before a restore
    restore,    \* status of the restore
    restart,    \* status of the restart job
    staging,    \* worlds unpacked next to the server
    replaced,   \* what this job moved out of each world folder
    kept,       \* history: own worlds in the folder of a job that failed or died
    change,     \* a jar change waits in the queue
    kind,       \* what its jar is: "mod", "plugin"
    jar,        \* its file is in the server's folder
    panel,      \* a panel request that applies it: "idle", "look", "apply", "hot"
    torn,       \* history: a swap was left half done
    blind       \* history: who touches folders or jars after a look that misread

job == <<pc, cur, wasUp, setFlag>>
rows == <<backup, pre, restore, restart>>
disk == <<staging, replaced, kept, torn>>
jars == <<change, kind, jar, panel, blind>>
worker == <<mix, job, rows, disk, jars>>

\* A job that is done, has failed or was never asked for is over.
Statuses == {"over", "pending", "running"}
Active == {"pending", "running"}
Nothing == [w \in Worlds |-> "none"]

\* How a look at the unit may go: it is heard, or not.
Looks == {heard \in BOOLEAN : heard \/ "timeouts" \in mix}

\* Who touches the folders or the jars of a server that it has found stopped.
Touching ==
    {who \in {"worker", "panel"} :
        \/ who = "worker" /\ pc \in {"apply found", "swap", "put back", "apply"}
        \/ who = "panel" /\ panel = "apply"}

\* Where a job is between putting the flag up and being over.
Guarded == {"stop", "gone", "check", "swap", "put back", "apply", "answer", "done", "discarded", "failed"}

Blinded(who, heard) == blind' = IF Misread(heard) THEN blind \cup {who} ELSE blind
Leaves(who) == blind' = blind \ {who}

--------------------------------------------------------------------------------
(* The panel asks. *)

AskBackup ==
    /\ "backup" \in mix
    /\ backup \notin Active /\ pre \notin Active
    /\ backup' = "pending"
    /\ UNCHANGED <<mix, server, job, pre, restore, restart, disk, jars>>

AskRestore ==
    /\ "restore" \in mix
    /\ restore \notin Active
    /\ restore' = "pending"
    /\ UNCHANGED <<mix, server, job, backup, pre, restart, disk, jars>>

\* queue(): a newer change takes the place of one that waits; it is recorded,
\* and then the server looked at.
QueueChange ==
    /\ "restart" \in mix
    /\ panel = "idle"
    /\ change' = TRUE
    /\ kind' \in {"mod", "plugin"}
    /\ jar' = FALSE
    /\ panel' = "look"
    /\ UNCHANGED <<mix, server, job, rows, disk, blind>>

LookIfRunning(heard) ==
    /\ panel = "look"
    /\ IF heard /\ Running THEN panel' = "idle" /\ UNCHANGED blind
       ELSE panel' = "apply" /\ Blinded("panel", heard)
    /\ UNCHANGED <<mix, server, job, rows, disk, change, kind, jar>>

\* apply_now(): a restart is asked for, of which there is one, or it is applied.
AskRestart(heard) ==
    /\ panel = "idle" /\ change
    /\ IF heard /\ Running
       THEN restart \notin Active /\ restart' = "pending" /\ UNCHANGED <<panel, blind>>
       ELSE panel' = "apply" /\ Blinded("panel", heard) /\ UNCHANGED restart
    /\ UNCHANGED <<mix, server, job, backup, pre, restore, disk, change, kind, jar>>

\* apply_plugman(): a plugin is put in under the running server, which is told to
\* unload it first; whether it has is not looked at.
AskPlugMan(heard) ==
    /\ panel = "idle" /\ change
    /\ IF heard /\ Running
       THEN panel' = (IF kind = "plugin" THEN "hot" ELSE "idle") /\ UNCHANGED blind
       ELSE panel' = "apply" /\ Blinded("panel", heard)
    /\ UNCHANGED <<mix, server, job, rows, disk, change, kind, jar>>

\* apply_one(): of two who apply the same change the second finds it in place.
Apply == change' = FALSE /\ jar' = TRUE

PanelApplies ==
    /\ panel \in {"apply", "hot"}
    /\ Apply
    /\ panel' = "idle"
    /\ Leaves("panel")
    /\ UNCHANGED <<mix, server, job, rows, disk, kind>>

\* The unload got no answer: the change waits on.
HotFails ==
    /\ panel = "hot"
    /\ panel' = "idle"
    /\ UNCHANGED <<mix, server, job, rows, disk, change, kind, jar, blind>>

--------------------------------------------------------------------------------
(* The worker starts: what a dead one left is dropped (recover), and the changes *)
(* of a server found stopped are applied: of two looks one has to say so.        *)

\* What is left of a job when it is over.
Over(next) == pc' = next /\ cur' = "none" /\ wasUp' = FALSE

\* Mutant of Resume: what a dead worker left behind is marked only.
ResumeOnMark == UNCHANGED saving

\* save-on, which a process that does not answer never hears.
Resume == saving' = IF Answers THEN "on" ELSE IF saving = "off" THEN "lost" ELSE saving

Drop(status) == IF status = "running" THEN "over" ELSE status

Start(heard) ==
    /\ pc = "off"
    /\ IF "running" \in {backup, pre} THEN Resume ELSE UNCHANGED saving
    /\ backup' = Drop(backup) /\ pre' = Drop(pre)
    /\ restore' = Drop(restore) /\ restart' = Drop(restart)
    /\ pc' = IF change /\ Drop(restart) # "pending" /\ heard /\ proc = "down" THEN "apply found" ELSE "loop"
    /\ UNCHANGED <<mix, proc, pid, age, world, flag, cur, wasUp, setFlag, disk, jars>>

ApplyFound ==
    /\ pc = "apply found"
    /\ Apply
    /\ pc' = "loop"
    /\ UNCHANGED <<mix, server, cur, wasUp, setFlag, rows, disk, kind, panel, blind>>

\* run_once(): restores first, then restarts, then backups.
TakeRestore ==
    /\ pc = "loop" /\ restore = "pending"
    /\ restore' = "running" /\ pre' = "running"
    /\ pc' = "save" /\ cur' = "restore"
    /\ UNCHANGED <<mix, server, wasUp, setFlag, backup, restart, disk, jars>>

\* A restart with an empty queue fails at once.
TakeRestart ==
    /\ pc = "loop" /\ restore # "pending" /\ restart = "pending"
    /\ IF change THEN restart' = "running" /\ pc' = "flag" /\ cur' = "restart"
       ELSE restart' = "over" /\ UNCHANGED <<pc, cur>>
    /\ UNCHANGED <<mix, server, wasUp, setFlag, backup, pre, restore, disk, jars>>

TakeBackup ==
    /\ pc = "loop" /\ "pending" \notin {restore, restart} /\ backup = "pending"
    /\ backup' = "running"
    /\ pc' = "save" /\ cur' = "backup"
    /\ UNCHANGED <<mix, server, wasUp, setFlag, pre, restore, restart, disk, jars>>

Leave ==
    /\ pc = "loop" /\ "pending" \notin {restore, restart, backup}
    /\ Over("off")
    /\ UNCHANGED <<mix, server, setFlag, rows, disk, jars>>

--------------------------------------------------------------------------------
(* A backup, of its own or before a restore: _archive, make_backup. *)

\* A server found active is told save-off; one that does not answer fails the
\* backup, but is told save-on all the same.
Save(heard) ==
    /\ pc = "save"
    /\ wasUp' = (heard /\ UnitActive)
    /\ saving' = IF heard /\ Answers THEN "off" ELSE saving
    /\ pc' = IF heard /\ UnitActive /\ ~Answers THEN "no archive" ELSE "archive"
    /\ UNCHANGED <<mix, proc, pid, age, world, flag, cur, setFlag, rows, disk, jars>>

\* finally: save-on, whatever happened, if the server ran when the backup began.
Archive(ok) ==
    /\ pc = "archive" \/ (pc = "no archive" /\ ~ok)
    /\ IF wasUp THEN Resume ELSE UNCHANGED saving
    /\ IF cur = "backup"
       THEN backup' = "over" /\ Over("loop") /\ UNCHANGED <<pre, restore>>
       ELSE /\ pre' = "over" /\ UNCHANGED backup
            /\ IF ok THEN pc' = "unpack" /\ UNCHANGED <<cur, wasUp, restore>>
               ELSE Over("loop") /\ restore' = "over"
    /\ UNCHANGED <<mix, proc, pid, age, world, flag, setFlag, restart, disk, jars>>

--------------------------------------------------------------------------------
(* A restore goes on, a restart begins. *)

Unpack(ok) ==
    /\ pc = "unpack"
    /\ IF ok
       THEN staging' = Worlds /\ replaced' = Nothing /\ pc' = "flag" /\ UNCHANGED <<cur, wasUp, restore>>
       ELSE Over("loop") /\ restore' = "over" /\ UNCHANGED <<staging, replaced>>
    /\ UNCHANGED <<mix, server, setFlag, backup, pre, restart, kept, torn, jars>>

RaiseFlag ==
    /\ pc = "flag"
    /\ pc' = "stop"
    /\ setFlag' = ~flag
    /\ flag' = TRUE
    /\ UNCHANGED <<mix, process, world, cur, wasUp, rows, disk, jars>>

\* `stop` over RCON reaches a server that answers; it is waited for if the server
\* was found active.
Stop(heard) ==
    /\ pc = "stop"
    /\ wasUp' = (heard /\ UnitActive)
    /\ proc' = IF heard /\ Answers THEN "stopping" ELSE proc
    /\ pc' = IF heard /\ UnitActive THEN "gone" ELSE "check"
    /\ UNCHANGED <<mix, pid, age, saving, world, flag, cur, setFlag, rows, disk, jars>>

\* Mutant of Gone: an answer is waited for no more, the process is.
GoneDeaf == ~Answers

\* The process is gone, not merely deactivating.
Gone == pid = 0

\* Until it is gone; after 15 minutes the job gives up.
WaitGone(heard) ==
    /\ pc = "gone"
    /\ \/ (heard => Gone) /\ pc' = "check"
       \/ Running /\ pc' = "failed"
    /\ UNCHANGED <<mix, server, cur, wasUp, setFlag, rows, disk, jars>>

\* A last look, whether nothing runs on these folders right now.
LookAgain(heard) ==
    /\ pc = "check"
    /\ IF heard /\ ~Gone THEN pc' = "failed" /\ UNCHANGED blind
       ELSE pc' = (IF cur = "restore" THEN "swap" ELSE "apply") /\ Blinded("worker", heard)
    /\ UNCHANGED <<mix, server, cur, wasUp, setFlag, rows, disk, change, kind, jar, panel>>

\* Two renames for each world: the live folder away, the unpacked one in.
MoveOut(w) ==
    /\ pc = "swap" /\ w \in staging
    /\ world[w] # "none"
    /\ \A v \in staging : replaced[v] = "none"
    /\ replaced' = [replaced EXCEPT ![w] = world[w]]
    /\ world' = [world EXCEPT ![w] = "none"]
    /\ UNCHANGED <<mix, process, flag, job, rows, staging, kept, torn, jars>>

MoveIn(w) ==
    /\ pc = "swap" /\ w \in staging
    /\ world[w] = "none"
    /\ world' = [world EXCEPT ![w] = "backup"]
    /\ staging' = staging \ {w}
    /\ UNCHANGED <<mix, process, flag, job, rows, replaced, kept, torn, jars>>

\* A rename fails: the disk is in trouble, or a folder is there again.
SwapFails ==
    /\ pc = "swap" /\ "disk" \in mix
    /\ pc' = "put back"
    /\ UNCHANGED <<mix, server, cur, wasUp, setFlag, rows, disk, jars>>

\* Mutant of MovedOut: the world whose swap failed is not returned.
MovedOutIn(w) == replaced[w] # "none" /\ w \notin staging

MovedOut(w) == replaced[w] # "none"

\* What was moved out is returned, one world after the other.
PutBack(w) ==
    /\ pc = "put back" /\ MovedOut(w)
    /\ world' = [world EXCEPT ![w] = replaced[w]]
    /\ replaced' = [replaced EXCEPT ![w] = "none"]
    /\ UNCHANGED <<mix, process, flag, job, rows, staging, kept, torn, jars>>

\* The folder in its place cannot be removed whole, or the rename fails: this
\* world and those after it are not returned.
PutBackFails(w) ==
    /\ pc = "put back" /\ MovedOut(w)
    /\ \E left \in {world[w], "none", "other"} : world' = [world EXCEPT ![w] = left]
    /\ pc' = "failed"
    /\ torn' = TRUE
    /\ Leaves("worker")
    /\ UNCHANGED <<mix, process, flag, cur, wasUp, setFlag, rows, staging, replaced, kept, change, kind, jar, panel>>

IsBack ==
    /\ pc = "put back" /\ \A w \in Worlds : ~MovedOut(w)
    /\ pc' = "failed"
    /\ Leaves("worker")
    /\ UNCHANGED <<mix, server, cur, wasUp, setFlag, rows, disk, change, kind, jar, panel>>

Swapped ==
    /\ pc = "swap" /\ staging = {}
    /\ pc' = "answer"
    /\ torn' = FALSE
    /\ Leaves("worker")
    /\ UNCHANGED <<mix, server, cur, wasUp, setFlag, rows, staging, replaced, kept, change, kind, jar, panel>>

ApplyQueue ==
    /\ pc = "apply"
    /\ IF change THEN Apply ELSE UNCHANGED <<change, jar>>
    /\ pc' = "answer"
    /\ Leaves("worker")
    /\ UNCHANGED <<mix, server, cur, wasUp, setFlag, rows, disk, kind, panel>>

\* Until the server answers, if it ran before; for half an hour.
WaitAnswer ==
    /\ pc = "answer"
    /\ \/ (wasUp => Answers) /\ pc' = "done"
       \/ wasUp /\ pc' = "failed"
    /\ UNCHANGED <<mix, server, cur, wasUp, setFlag, rows, disk, jars>>

\* Mutant of Keep: the folder goes with the job, as the unpacked one does.
KeepNothing == replaced' = Nothing /\ UNCHANGED kept

\* What was moved out and not returned lies on in the folder of the job.
Keep == replaced' = Nothing /\ kept' = kept \cup {w \in Worlds : replaced[w] = "now"}

\* A restore that is done removes that folder first: from now on the backup's worlds
\* are the server's own.
Discard ==
    /\ pc = "done" /\ cur = "restore"
    /\ pc' = "discarded"
    /\ world' = [w \in Worlds |-> IF world[w] = "backup" THEN "now" ELSE world[w]]
    /\ replaced' = Nothing /\ kept' = {}
    /\ UNCHANGED <<mix, process, flag, cur, wasUp, setFlag, rows, staging, torn, jars>>

\* finally: the flag, if this job has set it, whoever has written it since.
Lower == IF setFlag THEN FALSE ELSE flag

Finish ==
    /\ \/ pc \in {"discarded", "failed"}
       \/ pc = "done" /\ cur = "restart"
    /\ IF cur = "restore" THEN restore' = "over" /\ UNCHANGED restart
       ELSE restart' = "over" /\ UNCHANGED restore
    /\ flag' = Lower
    /\ setFlag' = FALSE
    /\ staging' = {} /\ Keep
    /\ Over("loop")
    /\ UNCHANGED <<mix, process, world, backup, pre, torn, jars>>

\* The worker dies; the flag stays where it is.
Die ==
    /\ pc # "off"
    /\ Over("off")
    /\ setFlag' = FALSE
    /\ staging' = {} /\ Keep
    /\ torn' = (torn \/ pc \in {"swap", "put back"})
    /\ Leaves("worker")
    /\ UNCHANGED <<mix, server, rows, change, kind, jar, panel>>

--------------------------------------------------------------------------------
WorkerInit ==
    /\ mix \in Mixes
    /\ pc = "off" /\ cur = "none" /\ wasUp = FALSE /\ setFlag = FALSE
    /\ backup = "over" /\ pre = "over" /\ restore = "over" /\ restart = "over"
    /\ staging = {} /\ replaced = Nothing /\ kept = {} /\ torn = FALSE
    /\ change = FALSE /\ kind = "mod" /\ jar = TRUE
    /\ panel = "idle" /\ blind = {}

Panel ==
    \/ AskBackup \/ AskRestore \/ QueueChange \/ PanelApplies \/ HotFails
    \/ \E heard \in Looks : LookIfRunning(heard) \/ AskRestart(heard) \/ AskPlugMan(heard)

Work ==
    \/ ApplyFound \/ TakeRestore \/ TakeRestart \/ TakeBackup \/ Leave
    \/ \E heard \in Looks : Start(heard) \/ Save(heard) \/ Stop(heard) \/ WaitGone(heard) \/ LookAgain(heard)
    \/ \E ok \in BOOLEAN : Archive(ok) \/ Unpack(ok)
    \/ RaiseFlag
    \/ \E w \in Worlds : MoveOut(w) \/ MoveIn(w) \/ PutBack(w) \/ PutBackFails(w)
    \/ SwapFails \/ IsBack \/ Swapped
    \/ ApplyQueue \/ WaitAnswer \/ Discard \/ Finish
    \/ Die
================================================================================
