-------------------------------- MODULE Hosting --------------------------------
(***************************************************************************)
(* One game server with everything that stops, starts and changes it: the  *)
(* panel's buttons, systemd, the backup worker and the watchdog.           *)
(***************************************************************************)
EXTENDS BackupWorker, Watchdog

VARIABLES
    raced,      \* history: who was touching folders or jars when a process began
    cleared     \* history: an administrator took the flag away in the middle of a job

vars == <<server, target, worker, watchdog, raced, cleared>>

\* Who touches folders or jars without having seen that there is no process: the
\* look got no answer, or a process began after it.
Unsure == blind \cup raced

Restoring == restore \in Active

\* A process that begins has given no answer yet, and inherits failing_since.
Begins ==
    /\ Boot
    /\ quiet' = Never
    /\ inherited' = (failing # Never)
    /\ UNCHANGED <<target, step, grown, failing, kills, worker>>

\* systemd starts the unit again after 15 s, in which a live worker has swapped the
\* worlds or the jars; putting worlds back, which removes folders, takes its time,
\* and the look of a panel request may be older than that.
SystemdStarts ==
    /\ proc = "waiting"
    /\ pc \notin {"swap", "apply"}
    /\ Begins

OperatorStarts == proc = "down" /\ Begins

Environment ==
    /\ Change \/ Exit \/ PowerStop \/ SetFlag \/ ClearFlag
    /\ quiet' = IF pid' = 0 THEN Never ELSE quiet
    /\ UNCHANGED <<target, worker, step, grown, failing, kills, inherited>>

\* A minute passes; a check is over in less.
Tick ==
    /\ step = "idle"
    /\ age' = IF Running /\ age < Grace THEN age + 1 ELSE age
    /\ failing' = Older(failing)
    /\ quiet' = Older(quiet)
    /\ kills' = LastHour([k \in DOMAIN kills |-> kills[k] + 1])
    /\ UNCHANGED <<proc, pid, saving, world, flag, target, worker, step, grown, inherited>>

Init == ProcessInit /\ WorkerInit /\ WatchdogInit /\ raced = {} /\ cleared = FALSE

Next ==
    /\ \/ (Panel \/ Work) /\ UNCHANGED <<target, watchdog>>
       \/ Guard(Restoring) /\ "watchdog" \in mix /\ UNCHANGED worker
       \/ SystemdStarts \/ OperatorStarts
       \/ Environment
       \/ Tick
    /\ raced' = {who \in Touching' : who \in raced \/ (pid = 0 /\ pid' > 0)}
    /\ cleared' = (pc' \in Guarded /\ (cleared \/ (flag /\ ~flag' /\ UNCHANGED worker)))

Spec == Init /\ [][Next]_vars

--------------------------------------------------------------------------------
TypeOK ==
    /\ proc \in Procs
    /\ pid \in 0..2 /\ target \in 0..2
    /\ (pid = 0) <=> (proc \in Down)
    /\ age \in 0..Grace
    /\ saving \in {"on", "off", "lost"}
    /\ world \in [Worlds -> Contents] /\ replaced \in [Worlds -> Contents]
    /\ staging \subseteq Worlds /\ kept \subseteq Worlds
    /\ blind \subseteq {"worker", "panel"} /\ raced \subseteq {"worker", "panel"}
    /\ {backup, pre, restore, restart} \subseteq Statuses
    /\ {flag, wasUp, setFlag, change, jar, torn, grown, inherited, cleared} \subseteq BOOLEAN
    /\ kind \in {"mod", "plugin"}
    /\ step \in {"idle", "asked", "hung", "killed"}
    /\ step = "idle" <=> target = 0
    /\ failing \in 0..Never /\ quiet \in 0..Never
    /\ kills \in Seq(0..(Hour - 1)) /\ Len(kills) <= MaxRestarts

\* A server is left with saving switched off only while a backup is under way,
\* or its row still says so, for the next worker to find: neither a failure nor
\* a death of the worker between save-off and save-on forgets it, and no other
\* step of the two loses the row (backups.py _archive, recover).  Excepted is a
\* server that hung just when it was told save-on: nobody tells it again.
SavingResumes == saving = "off" => "running" \in {backup, pre}

\* Whatever fails, dies or races in a restore, each of the server's own worlds is
\* in its folder, or in the one it was moved to, until all of the backup's worlds
\* are in place and the server has answered on them or is to stay down
\* (backups.py restore).
OwnWorldsKept == \A w \in Worlds : "now" \in {world[w], replaced[w]} \/ w \in kept

OneSet == \E c \in {"now", "backup"} : \A w \in Worlds : world[w] = c

\* A process begins on one set of worlds, the server's own or all of the
\* backup's, and a world folder is touched only while there is no process; unless
\* a swap was left half done, by a worker that died or could not put a world back,
\* or the worker cannot be sure that there is no process; at "done" a world is but
\* called by another name (backups.py restore).
WorldsWhole ==
    [][/\ pid = 0 /\ pid' > 0 => OneSet \/ torn \/ "worker" \in Unsure'
       /\ world' # world => pid = 0 \/ "worker" \in Unsure \/ pc = "done"]_vars

\* A jar is put in place only while there is no process; unless who does it cannot
\* be sure of that, or it is a plugin's that goes in through PlugMan
\* (server_changes.py queue, apply_pending; plugin_ops.py apply_hot).
JarsAtRest ==
    [][jar' /\ ~jar =>
          \/ pid = 0
          \/ panel' # panel /\ "panel" \in Unsure
          \/ pc' # pc /\ "worker" \in Unsure
          \/ panel = "hot" /\ kind = "plugin"]_vars

\* From the moment a job has put the flag up until it is over, the watchdog begins
\* no check of its server; unless an administrator has taken the flag away since,
\* and then only if no restore is under way (watchdog.py:21).
StaysAway ==
    [][step = "idle" /\ step' # "idle" /\ pc \in Guarded => cur = "restart" /\ cleared]_vars

\* The watchdog kills only the process it has asked, only when that has left its
\* grace time, and only when no check of the last hang_minutes got an answer from
\* it, unless it took failing_since over from the process before it (watchdog.py
\* check).
KillsOnlySilent ==
    [][step = "hung" /\ step' = "killed" =>
          /\ target = pid
          /\ age = Grace
          /\ quiet = Hang \/ inherited]_vars

================================================================================
