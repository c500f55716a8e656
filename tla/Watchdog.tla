-------------------------------- MODULE Watchdog --------------------------------
(***************************************************************************)
(* The watchdog (apps/worker/watchdog.py) of one server: once a minute it  *)
(* looks at the flag, the restores and the unit, asks the server over      *)
(* RCON, and kills a process that has not answered for hang_minutes.  The  *)
(* answer takes up to 10 s and the thread dump up to 20 s, in which the    *)
(* process can become another one.  It may die at any step, which leaves   *)
(* what it has not committed.  What it reports (the status shown and the   *)
(* events other than the kills) is left out.                               *)
(***************************************************************************)
EXTENDS ServerProcess, FiniteSets, Sequences

CONSTANTS
    Hang,           \* hang_minutes
    MaxRestarts,    \* max_restarts_per_hour
    Hour            \* an hour, in minutes of the model

ASSUME WatchdogConstants ==
    Hang \in Nat \ {0} /\ MaxRestarts \in Nat \ {0} /\ Hour \in Nat \ {0}

VARIABLES
    step,       \* of the check that is going on: "idle", "asked", "hung", "killed"
    grown,      \* the process asked was older than startup_grace_minutes
    failing,    \* minutes since failing_since, up to Hang; Never if it is not set
    kills,      \* minutes since each recorded kill of the last hour, newest first
    quiet,      \* history: minutes for which this process has answered no check
    inherited   \* history: failing_since is older than the process

watchdog == <<step, grown, failing, kills, quiet, inherited>>

Never == Hang + 1

Older(minutes) == IF minutes < Hang THEN minutes + 1 ELSE minutes

CheckEnds == step' = "idle" /\ target' = 0 /\ grown' = FALSE

\* Mutant of Forget: it stays until the restart.
ForgetAfterRestart == UNCHANGED <<failing, inherited>>

Forget == failing' = Never /\ inherited' = FALSE

Grown == age >= Grace

\* Mutant of Excused: the restores are not looked at.
ExcusedByFlag(restoring) == flag

\* It stays away from a server in maintenance and from one that is restored.
Excused(restoring) == flag \/ restoring

\* The check begins; restoring: a restore is pending or running; heard: the look at
\* the unit is answered, otherwise it is taken for down.  A unit that systemd is
\* about to start again leaves failing_since as it is.
Check(restoring, heard) ==
    /\ step = "idle"
    /\ IF Excused(restoring) \/ ~heard \/ proc \in {"down", "deactivating"}
       THEN Forget /\ quiet' = Never /\ UNCHANGED <<step, target, grown>>
       ELSE /\ IF proc = "waiting" THEN UNCHANGED <<step, target, grown>>
               ELSE step' = "asked" /\ target' = pid /\ grown' = Grown
            /\ UNCHANGED <<failing, inherited, quiet>>
    /\ UNCHANGED <<server, kills>>

Answered ==
    /\ step = "asked"
    /\ Answers
    /\ CheckEnds /\ Forget
    /\ quiet' = Never
    /\ UNCHANGED <<server, kills>>

Silent ==
    /\ step = "asked"
    /\ ~Answers
    /\ quiet' = IF quiet = Never /\ Running THEN 0 ELSE quiet
    /\ IF ~grown
       THEN CheckEnds /\ UNCHANGED failing
       ELSE LET since == IF failing = Never THEN 0 ELSE failing IN
            /\ failing' = since
            /\ IF since < Hang THEN CheckEnds
               ELSE step' = "hung" /\ UNCHANGED <<target, grown>>
    /\ UNCHANGED <<server, kills, inherited>>

\* The thread dump is taken; action = "notify", or the hour's restarts are used up.
Report ==
    /\ step = "hung"
    /\ CheckEnds
    /\ UNCHANGED <<server, failing, kills, quiet, inherited>>

\* Those of some kills that are not an hour old.
LastHour(ages) == SubSeq(ages, 1, Cardinality({k \in DOMAIN ages : ages[k] < Hour}))

\* Mutant of MayKill: one more than the limit.
MayKillMore == Len(kills) <= MaxRestarts

MayKill == Len(kills) < MaxRestarts

\* The process that was asked, if it is there still, is killed.  If it is not, that
\* is reported, and failing_since forgotten all the same.
Kill ==
    /\ step = "hung"
    /\ MayKill
    /\ IF target = pid
       THEN Ends("waiting") /\ step' = "killed" /\ quiet' = Never /\ UNCHANGED <<target, grown, failing, inherited>>
       ELSE CheckEnds /\ Forget /\ UNCHANGED <<server, quiet>>
    /\ UNCHANGED kills

\* The commit of run(): only now the kill is counted.
Record ==
    /\ step = "killed"
    /\ CheckEnds /\ Forget
    /\ kills' = <<0>> \o kills
    /\ UNCHANGED <<server, quiet>>

\* It dies, or the commit fails: what the row said before the check stays.
WatchdogDies ==
    /\ step # "idle"
    /\ CheckEnds
    /\ UNCHANGED <<server, failing, kills, quiet, inherited>>

--------------------------------------------------------------------------------
WatchdogInit ==
    /\ step = "idle" /\ target = 0 /\ grown = FALSE
    /\ failing = Never /\ inherited = FALSE
    /\ kills = <<>>
    /\ quiet = Never

Guard(restoring) ==
    \/ \E heard \in BOOLEAN : Check(restoring, heard)
    \/ Answered \/ Silent \/ Report \/ Kill \/ Record \/ WatchdogDies
================================================================================
