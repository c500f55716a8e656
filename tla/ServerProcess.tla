----------------------------- MODULE ServerProcess -----------------------------
(***************************************************************************)
(* One game server as systemd, RCON and the folder of the server show it   *)
(* to the panel and to the workers: the process, whether it answers, its   *)
(* world folders and its maintenance flag.  The process itself is not part *)
(* of this repository; Restart=always brings it back whenever it ends, a   *)
(* stop from the panel keeps it down.                                      *)
(***************************************************************************)
EXTENDS Naturals

CONSTANTS
    Worlds,     \* world folders of the server
    Grace       \* startup_grace_minutes

ASSUME ProcessConstants == Grace \in Nat \ {0}

VARIABLES
    proc,       \* the unit's process
    pid,        \* its number, 0 if there is none
    target,     \* the number the watchdog remembers, 0 if none
    age,        \* its age in minutes, up to Grace
    saving,     \* its autosave: "on", "off", "lost" (off, and save-on was not heard)
    world,      \* what lies in each world folder
    flag        \* maintenance.flag is in the folder of the server

process == <<proc, pid, age, saving>>
server == <<process, world, flag>>

\* down: stopped from the panel; waiting: between two processes, for 15 s.
Down == {"down", "waiting"}
Procs == Down \cup {"booting", "up", "hung", "stopping", "deactivating"}

\* The server's own world, the backup's, none, or another: made anew by a process
\* that found none, or what is left of a folder that was only half removed.
Contents == {"now", "backup", "other", "none"}

\* What the panel means by running: the main process is there.
Running == pid > 0

\* A look at the unit (systemctl show) that is not answered within 4 s is one at a
\* unit without a process: who did not hear it takes a process for gone.
Misread(heard) == ~heard /\ Running

\* What the worker and the watchdog mean: and the unit is active.  A process that
\* was told `stop` is, one that systemd is stopping is not.
UnitActive == Running /\ proc # "deactivating"

\* RCON gets an answer.
Answers == proc = "up"

--------------------------------------------------------------------------------
\* A process begins, under a number nobody remembers; a world that is missing is
\* made anew.
Boot ==
    /\ proc' = "booting"
    /\ pid' = IF target = 1 THEN 2 ELSE 1
    /\ age' = 0
    /\ saving' = "on"
    /\ world' = [w \in Worlds |-> IF world[w] = "none" THEN "other" ELSE world[w]]
    /\ UNCHANGED flag

\* The process is gone.
Ends(next) ==
    /\ proc' = next
    /\ pid' = 0
    /\ age' = 0
    /\ saving' = "on"
    /\ UNCHANGED <<world, flag>>

Becomes(next) ==
    /\ proc' = next
    /\ UNCHANGED <<pid, age, saving, world, flag>>

\* It has booted, hangs, or answers again.
Change ==
    \/ proc \in {"booting", "hung"} /\ Becomes("up")
    \/ proc \in {"booting", "up"} /\ Becomes("hung")

\* It crashes, or has finished stopping.
Exit == Running /\ Ends(IF UnitActive THEN "waiting" ELSE "down")

\* The panel's power button: systemctl stop, which Restart=always does not undo.
PowerStop ==
    \/ UnitActive /\ Becomes("deactivating")
    \/ proc = "waiting" /\ Ends("down")

\* The panel's maintenance switch.
SetFlag == ~flag /\ flag' = TRUE /\ UNCHANGED <<process, world>>
ClearFlag == flag /\ flag' = FALSE /\ UNCHANGED <<process, world>>

ProcessInit ==
    /\ proc = "up"
    /\ pid = 1
    /\ age = Grace
    /\ saving = "on"
    /\ world = [w \in Worlds |-> "now"]
    /\ flag = FALSE
================================================================================
