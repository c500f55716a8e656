------------------------------ MODULE HostingProofs ------------------------------
(***************************************************************************)
(* Proofs about one game server, its backup worker and its watchdog, for   *)
(* any number of worlds, minutes and kills.                                *)
(*                                                                         *)
(* The invariant has one part for each promise; they have the types in     *)
(* common, and what changes folders and jars the condition AtRest.         *)
(***************************************************************************)
EXTENDS Hosting, SumLemmas, SequenceTheorems, TLAPS

Types ==
    /\ proc \in Procs /\ pid \in 0..2 /\ target \in 0..2
    /\ (pid = 0) <=> (proc \in Down)
    /\ age \in 0..Grace
    /\ step \in {"idle", "asked", "hung", "killed"} /\ (step = "idle" <=> target = 0)
    /\ failing \in 0..Never /\ quiet \in 0..Never

\* There is a process or there is not, and one that answers is there.
LEMMA ProcessIs ==
    ASSUME Types
    PROVE  /\ pid = 0 <=> ~Running
           /\ pid = 0 <=> proc \in Down
           /\ Answers => Running /\ proc # "deactivating"
<1>1. pid \in 0..2 /\ (pid = 0 <=> proc \in Down) BY DEF Types
<1>2. pid = 0 <=> ~Running BY <1>1 DEF Running
<1> QED BY <1>1, <1>2 DEF Answers, Down

PanelSteps == Panel /\ UNCHANGED <<target, watchdog>>
WorkSteps == Work /\ UNCHANGED <<target, watchdog>>
GuardSteps == Guard(Restoring) /\ UNCHANGED worker

LEMMA StepsOfNext ==
    ASSUME Next
    PROVE  \/ PanelSteps \/ WorkSteps \/ GuardSteps \/ SystemdStarts \/ OperatorStarts
           \/ Environment \/ Tick
BY DEF Next, PanelSteps, WorkSteps, GuardSteps

--------------------------------------------------------------------------------
(* What the actors leave alone. *)

\* A panel request touches the queue and the jobs, never the server.
LEMMA PanelLeaves ==
    ASSUME PanelSteps
    PROVE  /\ UNCHANGED <<server, target, watchdog>>
           /\ UNCHANGED <<job, disk>>
<1> USE DEF PanelSteps, server, process, watchdog, job, disk, jars, rows
<1>1. ASSUME NEW heard \in BOOLEAN, LookIfRunning(heard) \/ AskRestart(heard) \/ AskPlugMan(heard)
      PROVE  UNCHANGED <<server, target, watchdog>> /\ UNCHANGED <<job, disk>>
    BY <1>1 DEF LookIfRunning, AskRestart, AskPlugMan
<1>2. CASE AskBackup \/ AskRestore \/ QueueChange \/ PanelApplies \/ HotFails
    BY <1>2 DEF AskBackup, AskRestore, QueueChange, PanelApplies, HotFails
<1> QED BY <1>1, <1>2 DEF Panel, Looks

\* The worker never ends or starts a process; the most it does is to ask one that
\* answers to stop.
LEMMA WorkLeaves ==
    ASSUME WorkSteps
    PROVE  /\ UNCHANGED <<target, watchdog, pid, age, panel, kind>>
           /\ proc' = proc \/ (proc = "up" /\ proc' = "stopping")
<1> USE DEF WorkSteps, server, process, worker, job, rows, disk, jars, watchdog
<1> DEFINE Left == /\ UNCHANGED <<target, watchdog, pid, age, panel, kind>>
                   /\ proc' = proc \/ (proc = "up" /\ proc' = "stopping")
<1>1. ASSUME NEW heard \in BOOLEAN, Start(heard) \/ Save(heard) \/ WaitGone(heard) \/ LookAgain(heard)
      PROVE  Left
    BY <1>1 DEF Start, Save, WaitGone, LookAgain
<1>2. ASSUME NEW heard \in BOOLEAN, Stop(heard)
      PROVE  Left
    BY <1>2 DEF Stop, Answers
<1>3. ASSUME NEW ok \in BOOLEAN, Archive(ok) \/ Unpack(ok)
      PROVE  Left
    BY <1>3 DEF Archive, Unpack
<1>4. ASSUME NEW w \in Worlds, MoveOut(w) \/ MoveIn(w) \/ PutBack(w) \/ PutBackFails(w)
      PROVE  Left
    BY <1>4 DEF MoveOut, MoveIn, PutBack, PutBackFails
<1>5. CASE ApplyFound \/ ApplyQueue BY <1>5 DEF ApplyFound, ApplyQueue
<1>6. CASE TakeRestore \/ TakeRestart \/ TakeBackup \/ Leave
    BY <1>6 DEF TakeRestore, TakeRestart, TakeBackup, Leave
<1>7. CASE RaiseFlag \/ SwapFails \/ IsBack \/ Swapped BY <1>7 DEF RaiseFlag, SwapFails, IsBack, Swapped
<1>8. CASE WaitAnswer \/ Discard \/ Finish \/ Die BY <1>8 DEF WaitAnswer, Discard, Finish, Die
<1> QED BY <1>1, <1>2, <1>3, <1>4, <1>5, <1>6, <1>7, <1>8 DEF Work, Looks

\* The watchdog changes nothing of the server but by a kill, which leaves no process.
LEMMA GuardLeaves ==
    ASSUME GuardSteps
    PROVE  UNCHANGED worker /\ (UNCHANGED server \/ (Kill /\ target = pid /\ Ends("waiting")))
<1>1. ASSUME NEW heard \in BOOLEAN, Check(Restoring, heard)
      PROVE  UNCHANGED server
    BY <1>1 DEF Check
<1> QED BY <1>1 DEF GuardSteps, Guard, Answered, Silent, Report, Kill, Record, WatchdogDies

\* A process that begins changes nothing but the server and what is known of it.
LEMMA BeginsLeaves ==
    ASSUME Begins
    PROVE  /\ proc' = "booting" /\ pid' = (IF target = 1 THEN 2 ELSE 1) /\ age' = 0
           /\ saving' = "on" /\ flag' = flag
           /\ quiet' = Never /\ inherited' = (failing # Never)
           /\ UNCHANGED <<target, step, grown, failing, kills>>
           /\ UNCHANGED worker
BY DEF Begins, Boot

\* What happens outside leaves the worker and the watchdog alone, and every process
\* it ends is followed by none.
LEMMA EnvironmentLeaves ==
    ASSUME Environment
    PROVE  /\ UNCHANGED <<world, target, step, grown, failing, kills, inherited>>
           /\ UNCHANGED worker
           /\ quiet' = IF pid' = 0 THEN Never ELSE quiet
           /\ \/ pid' = pid /\ age' = age /\ saving' = saving
                 /\ (flag' = flag \/ flag' \in BOOLEAN)
                 /\ \/ proc' = proc
                    \/ proc \in {"booting", "hung"} /\ proc' = "up"
                    \/ proc \in {"booting", "up"} /\ proc' = "hung"
                    \/ UnitActive /\ proc' = "deactivating"
              \/ pid' = 0 /\ age' = 0 /\ saving' = "on" /\ flag' = flag /\ proc' \in Down
BY DEF Environment, Change, Exit, PowerStop, SetFlag, ClearFlag, Becomes, Ends, process, Down

LEMMA TypesStep ==
    ASSUME Types, Next
    PROVE  Types'
<1> USE ProcessConstants, WatchdogConstants DEF Types, Procs, Down, Never, server, process, watchdog
<1>1. CASE PanelSteps BY <1>1, PanelLeaves
<1>2. CASE WorkSteps BY <1>2, WorkLeaves
<1>3. CASE GuardSteps
    <2>1. ASSUME NEW heard \in BOOLEAN, Check(Restoring, heard)
          PROVE  Types'
        BY <2>1 DEF Check, Forget
    <2>2. CASE Answered BY <2>2 DEF Answered, CheckEnds, Forget
    <2>3. CASE Silent BY <2>3 DEF Silent, CheckEnds
    <2>4. CASE Report \/ WatchdogDies BY <2>4 DEF Report, WatchdogDies, CheckEnds
    <2>5. CASE Kill BY <2>5 DEF Kill, CheckEnds, Forget, Ends
    <2>6. CASE Record BY <2>6 DEF Record, CheckEnds, Forget
    <2> QED BY <1>3, <2>1, <2>2, <2>3, <2>4, <2>5, <2>6 DEF GuardSteps, Guard
<1>4. CASE SystemdStarts \/ OperatorStarts
    <2>1. proc' = "booting" /\ pid' = (IF target = 1 THEN 2 ELSE 1) /\ age' = 0 /\ quiet' = Never
        BY <1>4, BeginsLeaves DEF SystemdStarts, OperatorStarts
    <2>2. UNCHANGED <<target, step, failing>>
        BY <1>4, BeginsLeaves DEF SystemdStarts, OperatorStarts
    <2> QED BY <2>1, <2>2
<1>5. CASE Environment
    BY <1>5, EnvironmentLeaves DEF UnitActive, Running
<1>6. CASE Tick BY <1>6 DEF Tick, Older, Running
<1> QED BY <1>1, <1>2, <1>3, <1>4, <1>5, <1>6, StepsOfNext

LEMMA TypesInit == Init => Types
BY ProcessConstants, WatchdogConstants
   DEF Init, ProcessInit, WorkerInit, WatchdogInit, Types, Procs, Down, Never

LEMMA TypesStutter == Types /\ UNCHANGED vars => Types'
BY DEF Types, vars, server, process, watchdog

--------------------------------------------------------------------------------
(* Autosave.  What SavingResumes says of the whole is kept because, outside of  *)
(* an archive, nothing has switched saving off.                                 *)

Saves ==
    /\ SavingResumes
    /\ pc \notin {"off", "archive", "no archive"} => saving # "off"
    /\ pc \in {"archive", "no archive"} /\ ~wasUp => saving # "off"
    /\ pc \in {"save", "archive", "no archive"} =>
          /\ cur \in {"backup", "restore"}
          /\ cur = "backup" => backup = "running"
          /\ cur = "restore" => pre = "running"

LEMMA SavesStep ==
    ASSUME Types, Saves, Next
    PROVE  Saves'
<1> USE DEF Saves, SavingResumes, server, process, worker, job, rows, disk, jars
<1>1. CASE PanelSteps
    <2> USE <1>1, PanelLeaves
    <2>1. ASSUME NEW heard \in BOOLEAN, LookIfRunning(heard) \/ AskRestart(heard) \/ AskPlugMan(heard)
          PROVE  Saves'
        BY <2>1 DEF LookIfRunning, AskRestart, AskPlugMan
    <2>2. CASE AskBackup \/ AskRestore \/ QueueChange \/ PanelApplies \/ HotFails
        BY <2>2 DEF AskBackup, AskRestore, QueueChange, PanelApplies, HotFails, Active
    <2> QED BY <2>1, <2>2 DEF PanelSteps, Panel, Looks
<1>2. CASE WorkSteps
    <2>1. ASSUME NEW heard \in BOOLEAN, Start(heard)
          PROVE  Saves'
        BY <2>1 DEF Start, Resume, Drop
    <2>2. ASSUME NEW heard \in BOOLEAN, Save(heard)
          PROVE  Saves'
        <3>1. Answers => Running /\ proc # "deactivating" BY ProcessIs
        <3>2. saving' = (IF heard /\ Answers THEN "off" ELSE saving) /\ pc' \in {"archive", "no archive"}
            BY <2>2 DEF Save
        <3>3. wasUp' = (heard /\ UnitActive) BY <2>2 DEF Save
        <3>4. heard /\ Answers => wasUp' BY <3>1, <3>3, Zenon DEF UnitActive
        <3>5. pc = "save" /\ UNCHANGED <<cur, backup, pre>> BY <2>2 DEF Save
        <3>6. CASE heard /\ Answers
            <4>1. wasUp' = TRUE BY <3>3, <3>4, <3>6, Zenon
            <4> QED BY <3>2, <3>5, <4>1
        <3>7. CASE ~(heard /\ Answers)
            <4>1. saving' = saving BY <3>2, <3>7
            <4> QED BY <3>2, <3>5, <4>1
        <3> QED BY <3>6, <3>7
    <2>3. ASSUME NEW heard \in BOOLEAN, Stop(heard) \/ WaitGone(heard) \/ LookAgain(heard)
          PROVE  Saves'
        BY <2>3 DEF Stop, WaitGone, LookAgain
    <2>4. ASSUME NEW ok \in BOOLEAN, Archive(ok)
          PROVE  Saves'
        BY <2>4 DEF Archive, Resume, Over
    <2>5. ASSUME NEW ok \in BOOLEAN, Unpack(ok)
          PROVE  Saves'
        BY <2>5 DEF Unpack, Over
    <2>6. ASSUME NEW w \in Worlds, MoveOut(w) \/ MoveIn(w) \/ PutBack(w) \/ PutBackFails(w)
          PROVE  Saves'
        BY <2>6 DEF MoveOut, MoveIn, PutBack, PutBackFails
    <2>7. CASE ApplyFound \/ ApplyQueue BY <2>7 DEF ApplyFound, ApplyQueue
    <2>8. CASE TakeRestore \/ TakeRestart \/ TakeBackup \/ Leave
        BY <2>8 DEF TakeRestore, TakeRestart, TakeBackup, Leave, Over
    <2>9. CASE RaiseFlag \/ SwapFails \/ IsBack \/ Swapped BY <2>9 DEF RaiseFlag, SwapFails, IsBack, Swapped
    <2>10. CASE WaitAnswer \/ Discard \/ Finish \/ Die BY <2>10 DEF WaitAnswer, Discard, Finish, Die, Over
    <2> QED BY <1>2, <2>1, <2>2, <2>3, <2>4, <2>5, <2>6, <2>7, <2>8, <2>9, <2>10 DEF WorkSteps, Work, Looks
<1>3. CASE GuardSteps BY <1>3, GuardLeaves DEF Ends
<1>4. CASE SystemdStarts \/ OperatorStarts BY <1>4, BeginsLeaves DEF SystemdStarts, OperatorStarts
<1>5. CASE Environment BY <1>5, EnvironmentLeaves
<1>6. CASE Tick BY <1>6 DEF Tick
<1> QED BY <1>1, <1>2, <1>3, <1>4, <1>5, <1>6, StepsOfNext

\* A server is left with saving switched off only while a row still says that a
\* backup is under way, wherever the worker dies.
THEOREM SavingIsResumed == Spec => []SavingResumes
<1>1. Init => Types /\ Saves
    BY TypesInit DEF Init, ProcessInit, WorkerInit, Saves, SavingResumes
<1>2. Types /\ Saves /\ [Next]_vars => (Types /\ Saves)'
    <2>1. CASE UNCHANGED vars
        BY <2>1, TypesStutter DEF Saves, SavingResumes, vars, server, process, worker, job, rows
    <2> QED BY <2>1, TypesStep, SavesStep
<1>3. Saves => SavingResumes BY DEF Saves
<1> QED BY <1>1, <1>2, <1>3, PTL DEF Spec

--------------------------------------------------------------------------------
(* The maintenance flag keeps the watchdog away from a job, and the row of a      *)
(* restore does so without it.                                                    *)

Fenced ==
    /\ cur = "restore" => restore = "running"
    /\ pc = "off" => cur = "none"
    /\ pc \in {"save", "archive", "no archive"} => cur \in {"backup", "restore"}
    /\ pc \in Guarded \cup {"unpack", "flag"} => cur \in {"restore", "restart"}
    /\ pc \in Guarded => flag \/ cleared

\* The part of it about what is under way.
Underway ==
    /\ cur = "restore" => restore = "running"
    /\ pc = "off" => cur = "none"
    /\ pc \in {"save", "archive", "no archive"} => cur \in {"backup", "restore"}
    /\ pc \in Guarded \cup {"unpack", "flag"} => cur \in {"restore", "restart"}

LEMMA UnderwayStep ==
    ASSUME Underway, Next
    PROVE  Underway'
<1> USE DEF Underway, Guarded, server, process, worker, job, rows, disk, jars
<1>1. CASE PanelSteps
    <2> USE <1>1, PanelLeaves
    <2>1. ASSUME NEW heard \in BOOLEAN, LookIfRunning(heard) \/ AskRestart(heard) \/ AskPlugMan(heard)
          PROVE  Underway'
        BY <2>1 DEF LookIfRunning, AskRestart, AskPlugMan
    <2>2. CASE AskBackup \/ AskRestore \/ QueueChange \/ PanelApplies \/ HotFails
        BY <2>2 DEF AskBackup, AskRestore, QueueChange, PanelApplies, HotFails, Active
    <2> QED BY <2>1, <2>2 DEF PanelSteps, Panel, Looks
<1>2. CASE WorkSteps
    <2>1. ASSUME NEW heard \in BOOLEAN, Start(heard)
          PROVE  Underway'
        BY <2>1 DEF Start
    <2>2. ASSUME NEW heard \in BOOLEAN, Save(heard) \/ Stop(heard) \/ WaitGone(heard) \/ LookAgain(heard)
          PROVE  Underway'
        BY <2>2 DEF Save, Stop, WaitGone, LookAgain
    <2>3. ASSUME NEW ok \in BOOLEAN, Archive(ok) \/ Unpack(ok)
          PROVE  Underway'
        BY <2>3 DEF Archive, Unpack, Over
    <2>4. ASSUME NEW w \in Worlds, MoveOut(w) \/ MoveIn(w) \/ PutBack(w) \/ PutBackFails(w)
          PROVE  Underway'
        BY <2>4 DEF MoveOut, MoveIn, PutBack, PutBackFails
    <2>5. CASE ApplyFound \/ ApplyQueue BY <2>5 DEF ApplyFound, ApplyQueue
    <2>6. CASE TakeRestore \/ TakeRestart \/ TakeBackup \/ Leave
        BY <2>6 DEF TakeRestore, TakeRestart, TakeBackup, Leave, Over
    <2>7. CASE RaiseFlag \/ SwapFails \/ IsBack \/ Swapped BY <2>7 DEF RaiseFlag, SwapFails, IsBack, Swapped
    <2>8. CASE WaitAnswer \/ Discard \/ Finish \/ Die BY <2>8 DEF WaitAnswer, Discard, Finish, Die, Over
    <2> QED BY <1>2, <2>1, <2>2, <2>3, <2>4, <2>5, <2>6, <2>7, <2>8 DEF WorkSteps, Work, Looks
<1>3. CASE GuardSteps BY <1>3, GuardLeaves
<1>4. CASE SystemdStarts \/ OperatorStarts BY <1>4, BeginsLeaves DEF SystemdStarts, OperatorStarts
<1>5. CASE Environment BY <1>5, EnvironmentLeaves
<1>6. CASE Tick BY <1>6 DEF Tick
<1> QED BY <1>1, <1>2, <1>3, <1>4, <1>5, <1>6, StepsOfNext

\* Only the end of a job takes the flag away and lets the job out of its fence.
LEMMA WorkFlags ==
    ASSUME WorkSteps, pc' \in Guarded
    PROVE  flag' = TRUE \/ (pc \in Guarded /\ flag' = flag)
<1> USE DEF Guarded, server, process, worker, job, rows, disk, jars
<1> DEFINE Stays == pc' \in Guarded => flag' = TRUE \/ (pc \in Guarded /\ flag' = flag)
<1>1. ASSUME NEW heard \in BOOLEAN, Start(heard) \/ Save(heard) \/ Stop(heard) \/ WaitGone(heard) \/ LookAgain(heard)
      PROVE  Stays
    BY <1>1 DEF Start, Save, Stop, WaitGone, LookAgain
<1>2. ASSUME NEW ok \in BOOLEAN, Archive(ok) \/ Unpack(ok)
      PROVE  Stays
    BY <1>2 DEF Archive, Unpack, Over
<1>3. ASSUME NEW w \in Worlds, MoveOut(w) \/ MoveIn(w) \/ PutBack(w) \/ PutBackFails(w)
      PROVE  Stays
    BY <1>3 DEF MoveOut, MoveIn, PutBack, PutBackFails
<1>4. CASE ApplyFound \/ ApplyQueue BY <1>4 DEF ApplyFound, ApplyQueue
<1>5. CASE TakeRestore \/ TakeRestart \/ TakeBackup \/ Leave
    BY <1>5 DEF TakeRestore, TakeRestart, TakeBackup, Leave, Over
<1>6. CASE RaiseFlag \/ SwapFails \/ IsBack \/ Swapped BY <1>6 DEF RaiseFlag, SwapFails, IsBack, Swapped
<1>7. CASE WaitAnswer \/ Discard \/ Finish \/ Die BY <1>7 DEF WaitAnswer, Discard, Finish, Die, Over
<1> QED BY <1>1, <1>2, <1>3, <1>4, <1>5, <1>6, <1>7 DEF WorkSteps, Work, Looks

LEMMA FencedStep ==
    ASSUME Fenced, Next
    PROVE  Fenced'
<1>1. Underway' BY UnderwayStep DEF Fenced, Underway
<1>2. ASSUME pc' \in Guarded, flag' # TRUE
      PROVE  cleared'
    <2> USE DEF Fenced, server, process, worker, job
    <2>1. cleared' = (pc' \in Guarded /\ (cleared \/ (flag /\ ~flag' /\ UNCHANGED worker))) BY DEF Next
    <2>2. pc \in Guarded /\ (flag' = flag \/ UNCHANGED worker)
        <3>1. CASE PanelSteps BY <1>2, <3>1, PanelLeaves
        <3>2. CASE WorkSteps BY <1>2, <3>2, WorkFlags
        <3>3. CASE GuardSteps BY <1>2, <3>3, GuardLeaves
        <3>4. CASE SystemdStarts \/ OperatorStarts
            BY <1>2, <3>4, BeginsLeaves DEF SystemdStarts, OperatorStarts
        <3>5. CASE Environment BY <1>2, <3>5, EnvironmentLeaves
        <3>6. CASE Tick BY <1>2, <3>6 DEF Tick
        <3> QED BY <3>1, <3>2, <3>3, <3>4, <3>5, <3>6, StepsOfNext
    <2>3. (flag \/ cleared) /\ (flag' = flag \/ UNCHANGED worker) BY <2>2 DEF Fenced
    <2>4. flag' # TRUE => ~flag' \/ flag' \notin BOOLEAN OBVIOUS
    <2> QED BY <1>2, <2>1, <2>3
<1> QED BY <1>1, <1>2 DEF Fenced, Underway

\* While a job is under way on a server, the watchdog begins no check of it, but of
\* a restart whose flag an administrator took away.
THEOREM WatchdogStaysAway == Spec => StaysAway
<1>1. Init => Fenced BY DEF Init, WorkerInit, Fenced, Guarded
<1>2. Fenced /\ [Next]_vars => Fenced'
    <2>1. CASE UNCHANGED vars
        BY <2>1 DEF Fenced, vars, server, worker, job, rows
    <2> QED BY <2>1, FencedStep
<1>3. ASSUME Fenced, Next, step = "idle", step' # "idle", pc \in Guarded
      PROVE  cur = "restart" /\ cleared
    <2>1. ~flag /\ ~Restoring
        <3> USE DEF watchdog
        <3>1. CASE PanelSteps BY <1>3, <3>1, PanelLeaves
        <3>2. CASE WorkSteps BY <1>3, <3>2, WorkLeaves
        <3>3. CASE GuardSteps
            <4>1. ASSUME NEW heard \in BOOLEAN, Check(Restoring, heard)
                  PROVE  ~flag /\ ~Restoring
                BY <1>3, <4>1 DEF Check, Excused
            <4> QED BY <1>3, <3>3, <4>1 DEF GuardSteps, Guard, Answered, Silent, Report, Kill, Record, WatchdogDies
        <3>4. CASE SystemdStarts \/ OperatorStarts
            BY <1>3, <3>4, BeginsLeaves DEF SystemdStarts, OperatorStarts
        <3>5. CASE Environment BY <1>3, <3>5, EnvironmentLeaves
        <3>6. CASE Tick BY <1>3, <3>6 DEF Tick
        <3> QED BY <3>1, <3>2, <3>3, <3>4, <3>5, <3>6, StepsOfNext, <1>3
    <2>2. cur # "restore" BY <1>3, <2>1 DEF Fenced, Restoring, Active
    <2> QED BY <1>3, <2>1, <2>2 DEF Fenced
<1>4. Fenced /\ [Next]_vars =>
          [step = "idle" /\ step' # "idle" /\ pc \in Guarded => cur = "restart" /\ cleared]_vars
    BY <1>3
<1> QED BY <1>1, <1>2, <1>4, PTL DEF Spec, StaysAway

--------------------------------------------------------------------------------
(* Folders and jars change while there is no process, as far as who does it can   *)
(* be sure.                                                                       *)

AtRest ==
    /\ \A who \in Touching : pid = 0 \/ who \in Unsure
    /\ panel = "hot" => kind = "plugin"

\* Who begins to touch them has seen that there is no process, or misread the unit.
LEMMA TouchingBegins ==
    ASSUME Types, Next, NEW who \in {"worker", "panel"}, who \in Touching', who \notin Touching
    PROVE  pid' = pid /\ (pid = 0 \/ who \in blind')
<1> USE DEF Touching, Types, server, process, worker, job, jars
<1>1. CASE PanelSteps
    <2>1. UNCHANGED pid /\ pc' = pc BY <1>1, PanelLeaves
    <2>2. who = "panel" /\ panel # "apply" /\ panel' = "apply" BY <2>1
    <2>3. ASSUME NEW heard \in BOOLEAN, LookIfRunning(heard) \/ AskRestart(heard) \/ AskPlugMan(heard)
          PROVE  pid = 0 \/ who \in blind'
        <3>1. ~(heard /\ Running) /\ Blinded("panel", heard)
            BY <2>2, <2>3 DEF LookIfRunning, AskRestart, AskPlugMan
        <3> QED BY <2>2, <3>1, ProcessIs DEF Blinded, Misread
    <2> QED BY <1>1, <2>1, <2>2, <2>3
            DEF PanelSteps, Panel, Looks, AskBackup, AskRestore, QueueChange, PanelApplies, HotFails
<1>2. CASE WorkSteps
    <2>1. pid' = pid /\ panel' = panel BY <1>2, WorkLeaves
    <2>2. who = "worker" /\ pc \notin {"apply found", "swap", "put back", "apply"}
          /\ pc' \in {"apply found", "swap", "put back", "apply"}
        BY <2>1
    <2>3. ASSUME NEW heard \in BOOLEAN, Start(heard)
          PROVE  pid = 0
        BY <2>2, <2>3 DEF Start, Down
    <2>4. ASSUME NEW heard \in BOOLEAN, LookAgain(heard)
          PROVE  pid = 0 \/ who \in blind'
        <3>1. ~(heard /\ ~Gone) /\ Blinded("worker", heard) BY <2>2, <2>4 DEF LookAgain
        <3> QED BY <2>2, <3>1, ProcessIs DEF Blinded, Misread, Gone
    <2>5. ASSUME NEW heard \in BOOLEAN, Save(heard) \/ Stop(heard) \/ WaitGone(heard)
          PROVE  FALSE
        BY <2>2, <2>5 DEF Save, Stop, WaitGone
    <2>6. ASSUME NEW ok \in BOOLEAN, Archive(ok) \/ Unpack(ok)
          PROVE  FALSE
        BY <2>2, <2>6 DEF Archive, Unpack, Over
    <2>7. ASSUME NEW w \in Worlds, MoveOut(w) \/ MoveIn(w) \/ PutBack(w) \/ PutBackFails(w)
          PROVE  FALSE
        BY <2>2, <2>7 DEF MoveOut, MoveIn, PutBack, PutBackFails
    <2>8. ~(ApplyFound \/ ApplyQueue \/ TakeRestore \/ TakeRestart \/ TakeBackup \/ Leave)
        BY <2>2 DEF ApplyFound, ApplyQueue, TakeRestore, TakeRestart, TakeBackup, Leave, Over
    <2>9. ~(RaiseFlag \/ SwapFails \/ IsBack \/ Swapped \/ WaitAnswer \/ Discard \/ Finish \/ Die)
        BY <2>2 DEF RaiseFlag, SwapFails, IsBack, Swapped, WaitAnswer, Discard, Finish, Die, Over
    <2> QED BY <1>2, <2>1, <2>3, <2>4, <2>5, <2>6, <2>7, <2>8, <2>9 DEF WorkSteps, Work, Looks
<1>3. CASE GuardSteps BY <1>3, GuardLeaves
<1>4. CASE SystemdStarts \/ OperatorStarts BY <1>4, BeginsLeaves DEF SystemdStarts, OperatorStarts
<1>5. CASE Environment BY <1>5, EnvironmentLeaves
<1>6. CASE Tick BY <1>6 DEF Tick
<1> QED BY <1>1, <1>2, <1>3, <1>4, <1>5, <1>6, StepsOfNext

\* Who has misread the unit is known as such for as long as it touches them.
LEMMA BlindKept ==
    ASSUME Next, NEW who \in {"worker", "panel"}, who \in Touching, who \in Touching', who \in blind
    PROVE  who \in blind'
<1> USE DEF Touching, server, process, worker, job, rows, disk, jars
<1>1. CASE PanelSteps
    <2> USE <1>1, PanelLeaves
    <2>1. ASSUME NEW heard \in BOOLEAN, LookIfRunning(heard) \/ AskRestart(heard) \/ AskPlugMan(heard)
          PROVE  who \in blind'
        BY <2>1 DEF LookIfRunning, AskRestart, AskPlugMan, Blinded
    <2>2. CASE AskBackup \/ AskRestore \/ QueueChange \/ HotFails
        BY <2>2 DEF AskBackup, AskRestore, QueueChange, HotFails
    <2>3. CASE PanelApplies BY <2>3 DEF PanelApplies, Leaves
    <2> QED BY <2>1, <2>2, <2>3 DEF PanelSteps, Panel, Looks
<1>2. CASE WorkSteps
    <2>1. ASSUME NEW heard \in BOOLEAN, Start(heard) \/ Save(heard) \/ Stop(heard) \/ WaitGone(heard)
          PROVE  who \in blind'
        BY <2>1 DEF Start, Save, Stop, WaitGone
    <2>2. ASSUME NEW heard \in BOOLEAN, LookAgain(heard)
          PROVE  who \in blind'
        BY <2>2 DEF LookAgain, Blinded
    <2>3. ASSUME NEW ok \in BOOLEAN, Archive(ok) \/ Unpack(ok)
          PROVE  who \in blind'
        BY <2>3 DEF Archive, Unpack
    <2>4. ASSUME NEW w \in Worlds, MoveOut(w) \/ MoveIn(w) \/ PutBack(w) \/ PutBackFails(w)
          PROVE  who \in blind'
        BY <2>4 DEF MoveOut, MoveIn, PutBack, PutBackFails, Leaves
    <2>5. CASE ApplyFound \/ ApplyQueue BY <2>5 DEF ApplyFound, ApplyQueue, Leaves
    <2>6. CASE TakeRestore \/ TakeRestart \/ TakeBackup \/ Leave
        BY <2>6 DEF TakeRestore, TakeRestart, TakeBackup, Leave
    <2>7. CASE RaiseFlag \/ SwapFails \/ IsBack \/ Swapped
        BY <2>7 DEF RaiseFlag, SwapFails, IsBack, Swapped, Leaves
    <2>8. CASE WaitAnswer \/ Discard \/ Finish BY <2>8 DEF WaitAnswer, Discard, Finish
    <2>9. CASE Die BY <2>9 DEF Die, Over, Leaves
    <2> QED BY <1>2, <2>1, <2>2, <2>3, <2>4, <2>5, <2>6, <2>7, <2>8, <2>9 DEF WorkSteps, Work, Looks
<1>3. CASE GuardSteps BY <1>3, GuardLeaves
<1>4. CASE SystemdStarts \/ OperatorStarts BY <1>4, BeginsLeaves DEF SystemdStarts, OperatorStarts
<1>5. CASE Environment BY <1>5, EnvironmentLeaves
<1>6. CASE Tick BY <1>6 DEF Tick
<1> QED BY <1>1, <1>2, <1>3, <1>4, <1>5, <1>6, StepsOfNext

\* Only a plugin's change is applied to a running server.
LEMMA HotIsPlugin ==
    ASSUME AtRest, Next, panel' = "hot"
    PROVE  kind' = "plugin"
<1> USE DEF AtRest, worker, jars
<1>1. CASE PanelSteps
    <2>1. ASSUME NEW heard \in BOOLEAN, LookIfRunning(heard) \/ AskRestart(heard) \/ AskPlugMan(heard)
          PROVE  kind' = "plugin"
        BY <2>1 DEF LookIfRunning, AskRestart, AskPlugMan
    <2> QED BY <1>1, <2>1
            DEF PanelSteps, Panel, Looks, AskBackup, AskRestore, QueueChange, PanelApplies, HotFails
<1>2. CASE WorkSteps BY <1>2, WorkLeaves
<1>3. CASE GuardSteps BY <1>3, GuardLeaves
<1>4. CASE SystemdStarts \/ OperatorStarts BY <1>4, BeginsLeaves DEF SystemdStarts, OperatorStarts
<1>5. CASE Environment BY <1>5, EnvironmentLeaves
<1>6. CASE Tick BY <1>6 DEF Tick
<1> QED BY <1>1, <1>2, <1>3, <1>4, <1>5, <1>6, StepsOfNext

LEMMA AtRestStep ==
    ASSUME Types, AtRest, Next
    PROVE  AtRest'
<1>1. raced' = {who \in Touching' : who \in raced \/ (pid = 0 /\ pid' > 0)} BY DEF Next
<1>2. Types' BY TypesStep
<1>3. ASSUME NEW who \in Touching', pid' # 0
      PROVE  who \in Unsure'
    <2>1. who \in {"worker", "panel"} BY DEF Touching
    <2>2. pid' > 0 BY <1>2, <1>3 DEF Types
    <2>3. CASE who \notin Touching
        BY <1>3, <2>1, <2>3, TouchingBegins DEF Unsure
    <2>4. CASE who \in Touching
        <3>1. CASE pid = 0 BY <1>1, <2>2, <3>1 DEF Unsure
        <3>2. CASE who \in blind BY <2>1, <2>4, <3>2, BlindKept DEF Unsure
        <3>3. CASE who \in raced BY <1>1, <3>3 DEF Unsure
        <3> QED BY <2>4, <3>1, <3>2, <3>3 DEF AtRest, Unsure
    <2> QED BY <2>3, <2>4
<1>4. panel' = "hot" => kind' = "plugin" BY HotIsPlugin
<1> QED BY <1>3, <1>4 DEF AtRest

\* A jar is put in place by one of those, or through PlugMan.
LEMMA JarsStep ==
    ASSUME AtRest, Next, jar', ~jar
    PROVE  \/ pid = 0
           \/ panel' # panel /\ "panel" \in Unsure
           \/ pc' # pc /\ "worker" \in Unsure
           \/ panel = "hot" /\ kind = "plugin"
<1> USE DEF AtRest, Touching, worker, jars
<1>1. CASE PanelSteps
    <2>1. PanelApplies
        <3>1. ASSUME NEW heard \in BOOLEAN, LookIfRunning(heard) \/ AskRestart(heard) \/ AskPlugMan(heard)
              PROVE  FALSE
            BY <3>1 DEF LookIfRunning, AskRestart, AskPlugMan
        <3> QED BY <1>1, <3>1 DEF PanelSteps, Panel, Looks, AskBackup, AskRestore, QueueChange, HotFails
    <2> QED BY <2>1 DEF PanelApplies
<1>2. CASE WorkSteps
    <2>1. ApplyFound \/ ApplyQueue
        <3>1. ASSUME NEW heard \in BOOLEAN,
                     Start(heard) \/ Save(heard) \/ Stop(heard) \/ WaitGone(heard) \/ LookAgain(heard)
              PROVE  FALSE
            BY <3>1 DEF Start, Save, Stop, WaitGone, LookAgain
        <3>2. ASSUME NEW ok \in BOOLEAN, Archive(ok) \/ Unpack(ok)
              PROVE  FALSE
            BY <3>2 DEF Archive, Unpack
        <3>3. ASSUME NEW w \in Worlds, MoveOut(w) \/ MoveIn(w) \/ PutBack(w) \/ PutBackFails(w)
              PROVE  FALSE
            BY <3>3 DEF MoveOut, MoveIn, PutBack, PutBackFails
        <3>4. ~(TakeRestore \/ TakeRestart \/ TakeBackup \/ Leave)
            BY DEF TakeRestore, TakeRestart, TakeBackup, Leave
        <3>5. ~(RaiseFlag \/ SwapFails \/ IsBack \/ Swapped \/ WaitAnswer \/ Discard \/ Finish \/ Die)
            BY DEF RaiseFlag, SwapFails, IsBack, Swapped, WaitAnswer, Discard, Finish, Die
        <3> QED BY <1>2, <3>1, <3>2, <3>3, <3>4, <3>5 DEF WorkSteps, Work, Looks
    <2> QED BY <2>1 DEF ApplyFound, ApplyQueue
<1>3. CASE GuardSteps BY <1>3, GuardLeaves
<1>4. CASE SystemdStarts \/ OperatorStarts BY <1>4, BeginsLeaves DEF SystemdStarts, OperatorStarts
<1>5. CASE Environment BY <1>5, EnvironmentLeaves
<1>6. CASE Tick BY <1>6 DEF Tick
<1> QED BY <1>1, <1>2, <1>3, <1>4, <1>5, <1>6, StepsOfNext

LEMMA RestKept == Spec => [](Types /\ AtRest)
<1>1. Init => Types /\ AtRest
    BY TypesInit DEF Init, WorkerInit, AtRest, Touching
<1>2. Types /\ AtRest /\ [Next]_vars => (Types /\ AtRest)'
    <2>1. CASE UNCHANGED vars
        BY <2>1, TypesStutter DEF AtRest, Touching, Unsure, vars, server, process, worker, job, jars
    <2> QED BY <2>1, TypesStep, AtRestStep
<1> QED BY <1>1, <1>2, PTL DEF Spec

\* A jar is put in place while there is no process, as far as who does it can be sure,
\* or is a plugin's that goes in through PlugMan.
THEOREM JarsAreAtRest == Spec => JarsAtRest
<1>1. Types /\ AtRest /\ [Next]_vars =>
          [jar' /\ ~jar =>
              \/ pid = 0
              \/ panel' # panel /\ "panel" \in Unsure
              \/ pc' # pc /\ "worker" \in Unsure
              \/ panel = "hot" /\ kind = "plugin"]_vars
    BY JarsStep
<1> QED BY <1>1, RestKept, PTL DEF Spec, JarsAtRest

--------------------------------------------------------------------------------
(* The worlds.  In the middle of a swap each world is where putting back would    *)
(* find it; what is no longer staged is the backup's.                             *)

Swapping == pc \in {"swap", "put back"}

\* What a world is once it is put back.
Returned(w) == IF replaced[w] # "none" THEN replaced[w] ELSE world[w]

Whole ==
    /\ world \in [Worlds -> Contents] /\ replaced \in [Worlds -> Contents]
    /\ cur = "restore" /\ pc \in {"flag", "stop", "gone", "check"} => staging = Worlds /\ replaced = Nothing
    /\ pc = "swap" => \A w \in Worlds : w \notin staging => world[w] = "backup"
    /\ ~Swapping => OneSet \/ torn
    /\ Swapping => torn \/ \E c \in {"now", "backup"} : \A w \in Worlds : Returned(w) = c

\* What the invariants are about.
folders == <<world, replaced, kept, staging, torn>>

\* A step that leaves the folders alone disturbs it only by a change of pc or cur.
LEMMA WholeByLeaving ==
    ASSUME Whole, UNCHANGED folders, pc' = pc \/ (~Swapping /\ ~Swapping'),
           pc' \in {"flag", "stop", "gone", "check"} =>
               pc \in {"flag", "stop", "gone", "check"} \/ cur' # "restore",
           cur' = cur \/ cur' # "restore" \/ pc' \notin {"flag", "stop", "gone", "check"}
    PROVE  Whole'
BY DEF Whole, folders, Swapping, OneSet, Returned

\* A process that begins makes a missing world anew, of which there is none unless
\* one has been moved out.
LEMMA WholeAtBoot ==
    ASSUME Whole, UNCHANGED worker, world' = [w \in Worlds |-> IF world[w] = "none" THEN "other" ELSE world[w]]
    PROVE  Whole'
<1> USE DEF Whole, worker, job, disk
<1>1. world' \in [Worlds -> Contents] BY DEF Contents
<1>2. OneSet => OneSet' BY DEF OneSet
<1>3. ASSUME NEW c \in {"now", "backup"}, \A w \in Worlds : Returned(w) = c
      PROVE  \A w \in Worlds : Returned(w)' = c
    BY <1>3 DEF Returned
<1> QED BY <1>1, <1>2, <1>3 DEF Swapping

LEMMA WholeByMoving ==
    ASSUME Whole, NEW w \in Worlds, MoveOut(w) \/ MoveIn(w) \/ PutBack(w)
    PROVE  Whole'
<1> USE DEF Whole, job
<1>1. pc \in {"swap", "put back"} /\ pc' = pc /\ torn' = torn BY DEF MoveOut, MoveIn, PutBack
<1>2. world' \in [Worlds -> Contents] /\ replaced' \in [Worlds -> Contents]
    BY DEF MoveOut, MoveIn, PutBack, Contents
<1>3. pc' = "swap" => \A v \in Worlds : v \notin staging' => world'[v] = "backup"
    BY <1>1 DEF MoveOut, MoveIn, PutBack
<1>4. ASSUME NEW c \in {"now", "backup"}, \A v \in Worlds : Returned(v) = c
      PROVE  \A v \in Worlds : Returned(v)' = c
    <2>1. CASE MoveOut(w) \/ MoveIn(w) BY <1>4, <2>1 DEF Returned, MoveOut, MoveIn
    <2>2. CASE PutBack(w) BY <1>4, <2>2 DEF Returned, PutBack, MovedOut
    <2> QED BY <2>1, <2>2
<1> QED BY <1>1, <1>2, <1>3, <1>4 DEF Swapping

LEMMA WholeStep ==
    ASSUME Whole, Next
    PROVE  Whole'
<1> USE DEF server, process, worker, job, rows, disk, jars, folders, Swapping
<1>1. CASE PanelSteps BY <1>1, PanelLeaves, WholeByLeaving
<1>2. CASE WorkSteps
    <2>1. ASSUME NEW heard \in BOOLEAN, Start(heard)
          PROVE  Whole'
        BY <2>1, WholeByLeaving DEF Start
    <2>2. ASSUME NEW heard \in BOOLEAN, Save(heard) \/ Stop(heard) \/ WaitGone(heard)
          PROVE  Whole'
        BY <2>2, WholeByLeaving DEF Save, Stop, WaitGone
    <2>3. ASSUME NEW heard \in BOOLEAN, LookAgain(heard)
          PROVE  Whole'
        <3>1. CASE pc' = "swap"
            BY <2>3, <3>1 DEF LookAgain, Whole, OneSet, Returned, Nothing
        <3>2. CASE pc' # "swap"
            BY <2>3, <3>2, WholeByLeaving DEF LookAgain
        <3> QED BY <3>1, <3>2
    <2>4. ASSUME NEW ok \in BOOLEAN, Archive(ok)
          PROVE  Whole'
        BY <2>4, WholeByLeaving DEF Archive, Over
    <2>5. ASSUME NEW ok \in BOOLEAN, Unpack(ok)
          PROVE  Whole'
        <3>1. CASE ok
            BY <2>5, <3>1 DEF Unpack, Whole, OneSet, Nothing, Contents
        <3>2. CASE ~ok
            BY <2>5, <3>2, WholeByLeaving DEF Unpack, Over
        <3> QED BY <3>1, <3>2
    <2>6. ASSUME NEW w \in Worlds, MoveOut(w) \/ MoveIn(w) \/ PutBack(w)
          PROVE  Whole'
        BY <2>6, WholeByMoving
    <2>7. ASSUME NEW w \in Worlds, PutBackFails(w)
          PROVE  Whole'
        BY <2>7 DEF PutBackFails, Whole, Contents
    <2>8. CASE ApplyFound \/ ApplyQueue BY <2>8, WholeByLeaving DEF ApplyFound, ApplyQueue
    <2>9. CASE TakeRestore \/ TakeRestart \/ TakeBackup \/ Leave
        BY <2>9, WholeByLeaving DEF TakeRestore, TakeRestart, TakeBackup, Leave, Over
    <2>10. CASE RaiseFlag \/ WaitAnswer BY <2>10, WholeByLeaving DEF RaiseFlag, WaitAnswer
    <2>11. CASE SwapFails BY <2>11 DEF SwapFails, Whole, Returned
    <2>12. CASE IsBack BY <2>12 DEF IsBack, MovedOut, Whole, Returned, OneSet
    <2>13. CASE Swapped BY <2>13 DEF Swapped, Whole, OneSet
    <2>14. CASE Discard
        <3>1. world' \in [Worlds -> Contents] /\ replaced' \in [Worlds -> Contents]
            BY <2>14 DEF Discard, Whole, Nothing, Contents
        <3>2. OneSet => OneSet' BY <2>14 DEF Discard, OneSet
        <3> QED BY <2>14, <3>1, <3>2 DEF Discard, Whole
    <2>15. CASE Finish BY <2>15 DEF Finish, Keep, Over, Whole, OneSet, Nothing, Contents
    <2>16. CASE Die
        <3>1. /\ pc' = "off" /\ UNCHANGED world /\ replaced' = Nothing
              /\ torn' = (torn \/ pc \in {"swap", "put back"})
            BY <2>16 DEF Die, Keep, Over
        <3>2. replaced' \in [Worlds -> Contents] BY <3>1 DEF Nothing, Contents
        <3>3. OneSet \/ torn => OneSet' \/ torn' BY <3>1, Zenon DEF OneSet
        <3>4. Swapping => torn' BY <3>1, Zenon
        <3> QED BY <3>1, <3>2, <3>3, <3>4 DEF Whole
    <2> QED BY <1>2, <2>1, <2>2, <2>3, <2>4, <2>5, <2>6, <2>7, <2>8, <2>9, <2>10, <2>11, <2>12, <2>13, <2>14,
               <2>15, <2>16
            DEF WorkSteps, Work, Looks
<1>3. CASE GuardSteps BY <1>3, GuardLeaves, WholeByLeaving DEF Ends
<1>4. CASE SystemdStarts \/ OperatorStarts
    BY <1>4, BeginsLeaves, WholeAtBoot DEF SystemdStarts, OperatorStarts, Begins, Boot
<1>5. CASE Environment BY <1>5, EnvironmentLeaves, WholeByLeaving
<1>6. CASE Tick BY <1>6, WholeByLeaving DEF Tick
<1> QED BY <1>1, <1>2, <1>3, <1>4, <1>5, <1>6, StepsOfNext

LEMMA WholeKept == Spec => []Whole
<1>1. Init => Whole
    BY DEF Init, ProcessInit, WorkerInit, Whole, Swapping, OneSet, Nothing, Contents
<1>2. Whole /\ [Next]_vars => Whole'
    <2>1. CASE UNCHANGED vars
        BY <2>1 DEF Whole, Swapping, OneSet, Returned, vars, server, worker, job, disk
    <2> QED BY <2>1, WholeStep
<1> QED BY <1>1, <1>2, PTL DEF Spec

\* A world folder changes under a swap, as a process begins, or by name.
LEMMA WorldsStep ==
    ASSUME Types, AtRest, Next, world' # world
    PROVE  pid = 0 \/ "worker" \in Unsure \/ pc = "done"
<1> USE DEF AtRest, Touching, server, process
<1>1. CASE PanelSteps BY <1>1, PanelLeaves
<1>2. CASE WorkSteps
    <2>1. ASSUME NEW heard \in BOOLEAN,
                 Start(heard) \/ Save(heard) \/ Stop(heard) \/ WaitGone(heard) \/ LookAgain(heard)
          PROVE  FALSE
        BY <2>1 DEF Start, Save, Stop, WaitGone, LookAgain
    <2>2. ASSUME NEW ok \in BOOLEAN, Archive(ok) \/ Unpack(ok)
          PROVE  FALSE
        BY <2>2 DEF Archive, Unpack
    <2>3. ASSUME NEW w \in Worlds, MoveOut(w) \/ MoveIn(w) \/ PutBack(w) \/ PutBackFails(w)
          PROVE  pid = 0 \/ "worker" \in Unsure
        BY <2>3 DEF MoveOut, MoveIn, PutBack, PutBackFails
    <2>4. ~(ApplyFound \/ ApplyQueue \/ TakeRestore \/ TakeRestart \/ TakeBackup \/ Leave)
        BY DEF ApplyFound, ApplyQueue, TakeRestore, TakeRestart, TakeBackup, Leave
    <2>5. ~(RaiseFlag \/ SwapFails \/ IsBack \/ Swapped \/ WaitAnswer \/ Finish \/ Die)
        BY DEF RaiseFlag, SwapFails, IsBack, Swapped, WaitAnswer, Finish, Die
    <2>6. CASE Discard BY <2>6 DEF Discard
    <2> QED BY <1>2, <2>1, <2>2, <2>3, <2>4, <2>5, <2>6 DEF WorkSteps, Work, Looks
<1>3. CASE GuardSteps BY <1>3, GuardLeaves DEF Ends
<1>4. CASE SystemdStarts \/ OperatorStarts
    BY <1>4, ProcessIs DEF SystemdStarts, OperatorStarts, Down
<1>5. CASE Environment BY <1>5, EnvironmentLeaves
<1>6. CASE Tick BY <1>6 DEF Tick
<1> QED BY <1>1, <1>2, <1>3, <1>4, <1>5, <1>6, StepsOfNext

\* Only systemd and the operator begin a process, and they leave the worker alone.
LEMMA ProcessBegins ==
    ASSUME Next, pid = 0, pid' > 0
    PROVE  pc' = pc
<1> USE DEF server, process, worker, job
<1>1. CASE PanelSteps BY <1>1, PanelLeaves
<1>2. CASE WorkSteps BY <1>2, WorkLeaves
<1>3. CASE GuardSteps BY <1>3, GuardLeaves
<1>4. CASE SystemdStarts \/ OperatorStarts BY <1>4, BeginsLeaves DEF SystemdStarts, OperatorStarts
<1>5. CASE Environment BY <1>5, EnvironmentLeaves
<1>6. CASE Tick BY <1>6 DEF Tick
<1> QED BY <1>1, <1>2, <1>3, <1>4, <1>5, <1>6, StepsOfNext

\* A process begins on one set of worlds, and they change only while there is none,
\* as far as the worker can be sure, save for a swap left half done.
THEOREM WorldsAreWhole == Spec => WorldsWhole
<1>1. ASSUME Whole, Next, pid = 0, pid' > 0
      PROVE  OneSet \/ torn \/ "worker" \in Unsure'
    <2>1. CASE ~Swapping BY <1>1, <2>1 DEF Whole
    <2>2. CASE Swapping
        <3>1. pc' = pc BY <1>1, ProcessBegins
        <3>2. "worker" \in Touching' BY <2>2, <3>1 DEF Swapping, Touching
        <3>3. raced' = {who \in Touching' : who \in raced \/ (pid = 0 /\ pid' > 0)} BY <1>1 DEF Next
        <3> QED BY <1>1, <3>2, <3>3 DEF Unsure
    <2> QED BY <2>1, <2>2
<1>2. Types /\ AtRest /\ Whole /\ [Next]_vars =>
          [/\ pid = 0 /\ pid' > 0 => OneSet \/ torn \/ "worker" \in Unsure'
           /\ world' # world => pid = 0 \/ "worker" \in Unsure \/ pc = "done"]_vars
    BY <1>1, WorldsStep
<1> QED BY <1>2, RestKept, WholeKept, PTL DEF Spec, WorldsWhole

--------------------------------------------------------------------------------
(* The server's own worlds.  What has been moved out of a folder is not in it      *)
(* again until the restore is done, and then all of them are the backup's.        *)

Owned ==
    /\ OwnWorldsKept
    /\ pc \notin {"swap", "put back", "answer", "done", "failed"} => replaced = Nothing
    /\ \A w \in Worlds : replaced[w] # "none" => world[w] # "now"
    /\ pc = "apply" => cur # "restore"
    /\ cur = "restore" /\ pc \in {"answer", "done"} => \A w \in Worlds : world[w] = "backup"

\* A step that leaves the folders alone disturbs it only by a change of pc or cur.
LEMMA OwnedByLeaving ==
    ASSUME Owned, UNCHANGED folders,
           pc' \in {"swap", "put back", "answer", "done", "failed"} \/ replaced = Nothing,
           pc' = "apply" => cur' # "restore",
           cur' = "restore" /\ pc' \in {"answer", "done"} => cur = "restore" /\ pc \in {"answer", "done"}
    PROVE  Owned'
BY DEF Owned, OwnWorldsKept, folders

LEMMA OwnedByMoving ==
    ASSUME Whole, Owned, NEW w \in Worlds, MoveOut(w) \/ MoveIn(w) \/ PutBack(w) \/ PutBackFails(w)
    PROVE  Owned'
<1> USE DEF Owned, OwnWorldsKept, job
<1>1. world \in [Worlds -> Contents] /\ replaced \in [Worlds -> Contents] BY DEF Whole
<1>2. CASE MoveOut(w)
    BY <1>1, <1>2 DEF MoveOut
<1>3. CASE MoveIn(w)
    BY <1>1, <1>3 DEF MoveIn
<1>4. CASE PutBack(w)
    BY <1>1, <1>4 DEF PutBack, MovedOut
<1>5. CASE PutBackFails(w)
    BY <1>1, <1>5 DEF PutBackFails, MovedOut
<1> QED BY <1>2, <1>3, <1>4, <1>5

LEMMA OwnedStep ==
    ASSUME Whole, Owned, Next
    PROVE  Owned'
<1> USE DEF server, process, worker, job, rows, disk, jars, folders
<1>1. CASE PanelSteps BY <1>1, PanelLeaves, OwnedByLeaving DEF Owned
<1>2. CASE WorkSteps
    <2> USE DEF Owned
    <2>1. ASSUME NEW heard \in BOOLEAN,
                 Start(heard) \/ Save(heard) \/ Stop(heard) \/ WaitGone(heard) \/ LookAgain(heard)
          PROVE  Owned'
        BY <2>1, OwnedByLeaving DEF Start, Save, Stop, WaitGone, LookAgain
    <2>2. ASSUME NEW ok \in BOOLEAN, Archive(ok)
          PROVE  Owned'
        BY <2>2, OwnedByLeaving DEF Archive, Over
    <2>3. ASSUME NEW ok \in BOOLEAN, Unpack(ok)
          PROVE  Owned'
        BY <2>3 DEF Unpack, Over, OwnWorldsKept
    <2>4. ASSUME NEW w \in Worlds, MoveOut(w) \/ MoveIn(w) \/ PutBack(w) \/ PutBackFails(w)
          PROVE  Owned'
        BY <2>4, OwnedByMoving
    <2>5. CASE ApplyFound \/ ApplyQueue BY <2>5, OwnedByLeaving DEF ApplyFound, ApplyQueue
    <2>6. CASE TakeRestore \/ TakeRestart \/ TakeBackup \/ Leave
        BY <2>6, OwnedByLeaving DEF TakeRestore, TakeRestart, TakeBackup, Leave, Over
    <2>7. CASE RaiseFlag \/ SwapFails \/ IsBack \/ WaitAnswer
        BY <2>7, OwnedByLeaving DEF RaiseFlag, SwapFails, IsBack, WaitAnswer
    <2>8. CASE Swapped BY <2>8 DEF Swapped, Whole, OwnWorldsKept
    <2>9. CASE Discard BY <2>9 DEF Discard, OwnWorldsKept, Nothing
    <2>10. CASE Finish \/ Die
        <3>1. /\ UNCHANGED world /\ replaced' = Nothing /\ kept' = kept \cup {w \in Worlds : replaced[w] = "now"}
              /\ pc' \in {"loop", "off"}
            BY <2>10 DEF Finish, Die, Keep, Over
        <3> QED BY <3>1 DEF OwnWorldsKept, Nothing
    <2> QED BY <1>2, <2>1, <2>2, <2>3, <2>4, <2>5, <2>6, <2>7, <2>8, <2>9, <2>10 DEF WorkSteps, Work, Looks
<1>3. CASE GuardSteps BY <1>3, GuardLeaves, OwnedByLeaving DEF Owned, Ends
<1>4. CASE SystemdStarts \/ OperatorStarts
    <2>1. world' = [w \in Worlds |-> IF world[w] = "none" THEN "other" ELSE world[w]] /\ UNCHANGED worker
        BY <1>4 DEF SystemdStarts, OperatorStarts, Begins, Boot
    <2> QED BY <2>1 DEF Owned, OwnWorldsKept
<1>5. CASE Environment BY <1>5, EnvironmentLeaves, OwnedByLeaving DEF Owned
<1>6. CASE Tick BY <1>6, OwnedByLeaving DEF Owned, Tick
<1> QED BY <1>1, <1>2, <1>3, <1>4, <1>5, <1>6, StepsOfNext

\* No failure, death or race within a restore loses one of the server's own worlds.
THEOREM OwnWorldsAreKept == Spec => []OwnWorldsKept
<1>1. Init => Owned
    BY DEF Init, ProcessInit, WorkerInit, Owned, OwnWorldsKept, Nothing
<1>2. Whole /\ Owned /\ [Next]_vars => Owned'
    <2>1. CASE UNCHANGED vars
        BY <2>1 DEF Owned, OwnWorldsKept, vars, server, worker, job, disk
    <2> QED BY <2>1, OwnedStep
<1>3. Owned => OwnWorldsKept BY DEF Owned
<1> QED BY <1>1, <1>2, <1>3, WholeKept, PTL DEF Spec

--------------------------------------------------------------------------------
(* The watchdog.  A number once asked names one process for as long as the check *)
(* goes on, and failing_since is no older than the silence of a process that has *)
(* not inherited it.                                                             *)

Silence ==
    /\ step = "hung" => grown /\ failing = Hang
    /\ step # "idle" /\ grown /\ target = pid => age = Grace
    /\ failing # Never /\ pid # 0 /\ ~inherited => quiet # Never /\ failing <= quiet

LEMMA SilenceStep ==
    ASSUME Types, Types', Silence, Next
    PROVE  Silence'
<1> USE ProcessConstants, WatchdogConstants DEF Silence, Never, server, process, watchdog
<1>1. CASE PanelSteps BY <1>1, PanelLeaves
<1>2. CASE WorkSteps BY <1>2, WorkLeaves
<1>3. CASE GuardSteps
    <2>1. ASSUME NEW heard \in BOOLEAN, Check(Restoring, heard)
          PROVE  Silence'
        <3>1. step = "idle" /\ UNCHANGED <<pid, age>> BY <2>1 DEF Check
        <3>2. CASE step' = "asked"
            <4>1. grown' = Grown /\ UNCHANGED <<failing, inherited, quiet>>
                BY <2>1, <3>1, <3>2 DEF Check
            <4>2. Grown => age = Grace BY DEF Grown, Types
            <4>3. grown' => age' = Grace BY <3>1, <4>1, <4>2, Zenon
            <4> QED BY <3>1, <3>2, <4>1, <4>3
        <3>3. CASE step' # "asked"
            BY <2>1, <3>1, <3>3 DEF Check, Forget
        <3> QED BY <3>2, <3>3
    <2>2. CASE Answered BY <1>3, <2>2 DEF Answered, CheckEnds, Forget
    <2>3. CASE Silent BY <1>3, <2>3 DEF Silent, CheckEnds, Running, Types
    <2>4. CASE Report \/ WatchdogDies BY <1>3, <2>4 DEF Report, WatchdogDies, CheckEnds
    <2>5. CASE Kill BY <1>3, <2>5 DEF Kill, CheckEnds, Forget, Ends, Types
    <2>6. CASE Record BY <1>3, <2>6 DEF Record, CheckEnds, Forget
    <2> QED BY <1>3, <2>1, <2>2, <2>3, <2>4, <2>5, <2>6 DEF GuardSteps, Guard
<1>4. CASE SystemdStarts \/ OperatorStarts
    <2>1. Begins BY <1>4 DEF SystemdStarts, OperatorStarts
    <2>2. inherited' = (failing # Never) BY <2>1 DEF Begins
    <2>3. pid' = (IF target = 1 THEN 2 ELSE 1) /\ UNCHANGED <<step, grown, target, failing>>
        BY <2>1, BeginsLeaves
    <2>4. failing # Never => inherited' BY <2>2, Zenon
    <2> QED BY <2>3, <2>4
<1>5. CASE Environment BY <1>5, EnvironmentLeaves DEF Types
<1>6. CASE Tick BY <1>6 DEF Tick, Older, Types
<1> QED BY <1>1, <1>2, <1>3, <1>4, <1>5, <1>6, StepsOfNext

LEMMA KillsStep ==
    ASSUME Types, Silence, Next, step = "hung", step' = "killed"
    PROVE  target = pid /\ age = Grace /\ (quiet = Hang \/ inherited)
<1> USE DEF server, process, watchdog
<1>1. Kill /\ target = pid
    <2>1. CASE PanelSteps BY <2>1, PanelLeaves
    <2>2. CASE WorkSteps BY <2>2, WorkLeaves
    <2>3. CASE GuardSteps
        <3>1. ASSUME NEW heard \in BOOLEAN, Check(Restoring, heard)
              PROVE  FALSE
            BY <3>1 DEF Check
        <3> QED BY <2>3, <3>1
                DEF GuardSteps, Guard, Answered, Silent, Report, Kill, Record, WatchdogDies, CheckEnds
    <2>4. CASE SystemdStarts \/ OperatorStarts BY <2>4, BeginsLeaves DEF SystemdStarts, OperatorStarts
    <2>5. CASE Environment BY <2>5, EnvironmentLeaves
    <2>6. CASE Tick BY <2>6 DEF Tick
    <2> QED BY <2>1, <2>2, <2>3, <2>4, <2>5, <2>6, StepsOfNext
<1>2. step = "hung" BY <1>1 DEF Kill
<1>3. pid # 0 BY <1>1 DEF Types
<1>4. target = pid /\ age = Grace BY <1>1, <1>2 DEF Silence
<1>5. CASE ~inherited
    <2>1. Hang \in Nat /\ failing = Hang /\ failing # Never
        BY <1>2, WatchdogConstants DEF Silence, Never
    <2>2. quiet # Never /\ failing <= quiet BY <1>3, <1>5, <2>1 DEF Silence
    <2> QED BY <1>4, <2>1, <2>2 DEF Types, Never
<1> QED BY <1>4, <1>5

\* What the watchdog kills is the process it asked, past its grace time and silent
\* for hang_minutes, unless failing_since is older than the process.
THEOREM KillsAreDeserved == Spec => KillsOnlySilent
<1>1. Init => Types /\ Silence
    BY TypesInit DEF Init, WatchdogInit, Silence
<1>2. Types /\ Silence /\ [Next]_vars => (Types /\ Silence)'
    <2>1. CASE UNCHANGED vars
        BY <2>1, TypesStutter DEF Silence, vars, server, process, watchdog
    <2> QED BY <2>1, TypesStep, SilenceStep
<1>3. Types /\ Silence /\ [Next]_vars =>
          [step = "hung" /\ step' = "killed" =>
              /\ target = pid
              /\ age = Grace
              /\ quiet = Hang \/ inherited]_vars
    BY KillsStep
<1> QED BY <1>1, <1>2, <1>3, PTL DEF Spec, KillsOnlySilent

--------------------------------------------------------------------------------
(* The types of the whole. *)

\* The kills of the last hour, the newest first.
Newest ==
    /\ kills \in Seq(0..(Hour - 1)) /\ Len(kills) <= MaxRestarts
    /\ \A i, k \in 1..Len(kills) : i < k => kills[i] <= kills[k]

\* A kill that is not recorded yet has been allowed, and there is no other.
Allowed == step = "killed" => Len(kills) < MaxRestarts

\* What ages out of the hour is the end of the list.
LEMMA LastHourIs ==
    ASSUME NEW ages \in Seq(Nat), \A i, k \in 1..Len(ages) : i < k => ages[i] <= ages[k]
    PROVE  /\ LastHour(ages) \in Seq(0..(Hour - 1)) /\ Len(LastHour(ages)) <= Len(ages)
           /\ \A i, k \in 1..Len(LastHour(ages)) : i < k => LastHour(ages)[i] <= LastHour(ages)[k]
<1> DEFINE n == Len(ages)
           recent == {k \in DOMAIN ages : ages[k] < Hour}
           T == {k \in 1..(n + 1) : k \notin recent}
<1>1. n \in Nat /\ DOMAIN ages = 1..n /\ \A k \in 1..n : ages[k] \in Nat OBVIOUS
<1>2. PICK l \in T : \A m \in T : ~(m < l)
    <2>1. n + 1 \in T BY <1>1
    <2>2. T \subseteq Nat BY <1>1
    <2> HIDE DEF T
    <2> QED BY <2>1, <2>2, LeastNumber
<1> DEFINE c == l - 1
<1>3. c \in 0..n BY <1>1
<1>4. \A k \in 1..n : k \in recent <=> k \in 1..c
    <2> TAKE k \in 1..n
    <2>1. k < l => k \in recent BY <1>1, <1>2
    <2>2. ASSUME k >= l PROVE k \notin recent
        <3>1. l \in 1..n /\ ~(ages[l] < Hour) BY <1>1, <2>2
        <3>2. ages[l] <= ages[k] BY <2>2, <3>1
        <3> QED BY <1>1, <3>1, <3>2, WatchdogConstants
    <2> QED BY <1>1, <2>1, <2>2
<1>5. recent = 1..c BY <1>1, <1>3, <1>4
<1>6. Cardinality(recent) = c
    <2> HIDE DEF c, recent
    <2>1. Cardinality(1..c) = IF 1 > c THEN 0 ELSE c - 1 + 1 BY <1>3, FS_Interval
    <2> QED BY <1>3, <1>5, <2>1
<1>7. LastHour(ages) = SubSeq(ages, 1, c) BY <1>6 DEF LastHour
<1> DEFINE s == SubSeq(ages, 1, c)
<1>8. s \in Seq(Nat) /\ Len(s) = c /\ \A i \in 1..c : s[i] = ages[i] /\ s[i] < Hour
    BY <1>1, <1>3, <1>4
<1> HIDE DEF s, c, recent, T
<1>9. \A i \in 1..c : s[i] \in 0..(Hour - 1) BY <1>8, WatchdogConstants
<1>10. s \in Seq(0..(Hour - 1))
    <2>1. s \in [1..c -> Nat] BY <1>8, LenProperties
    <2>2. PICK minutes : minutes = 0..(Hour - 1) OBVIOUS
    <2>3. s \in [1..c -> minutes] BY <1>9, <2>1, <2>2
    <2>4. s \in Seq(minutes) BY <1>1, <1>3, <2>3, SeqDef
    <2> QED BY <2>2, <2>4
<1> QED BY <1>1, <1>3, <1>7, <1>8, <1>10 DEF s

LEMMA KillsAgain ==
    ASSUME Newest, Len(kills) < MaxRestarts, kills' = << 0 >> \o kills
    PROVE  Newest'
<1> DEFINE minutes == 0..(Hour - 1)
<1>1. 0 \in minutes BY WatchdogConstants
<1>2. kills \in Seq(minutes) BY DEF Newest
<1>3. \A m \in minutes : m \in Nat BY WatchdogConstants
<1> HIDE DEF minutes
<1>4. kills' \in Seq(minutes) /\ Len(kills') = Len(kills) + 1 BY <1>1, <1>2
<1>5. kills'[1] = 0 /\ \A k \in 2..Len(kills') : kills'[k] = kills[k - 1] /\ k - 1 \in 1..Len(kills)
    BY <1>1, <1>2, <1>4
<1>6. \A k \in 1..Len(kills) : kills[k] \in Nat BY <1>2, <1>3
<1>7. ASSUME NEW i \in 1..Len(kills'), NEW k \in 1..Len(kills'), i < k
      PROVE  kills'[i] <= kills'[k]
    <2>1. k \in 2..Len(kills') BY <1>4, <1>7
    <2>2. kills'[k] = kills[k - 1] /\ k - 1 \in 1..Len(kills) BY <1>5, <2>1
    <2>3. CASE i = 1 BY <1>5, <1>6, <2>2, <2>3
    <2>4. CASE i # 1
        <3>1. i \in 2..Len(kills') BY <2>4
        <3>2. kills'[i] = kills[i - 1] /\ i - 1 \in 1..Len(kills) BY <1>5, <3>1
        <3>3. i - 1 < k - 1 BY <1>7, <2>1, <3>1
        <3> QED BY <2>2, <3>2, <3>3 DEF Newest
    <2> QED BY <2>3, <2>4
<1> QED BY <1>2, <1>4, <1>7, WatchdogConstants DEF Newest, minutes

LEMMA NewestStep ==
    ASSUME Newest, Allowed, Next
    PROVE  Newest' /\ Allowed'
<1>1. ASSUME kills' = kills, step' = "killed" => step = "killed" PROVE Newest' /\ Allowed'
    BY <1>1 DEF Newest, Allowed
<1>2. CASE Tick
    <2> DEFINE older == [k \in DOMAIN kills |-> kills[k] + 1]
    <2>1. /\ kills \in Seq(0..(Hour - 1)) /\ Len(kills) \in Nat /\ DOMAIN kills = 1..Len(kills)
          /\ \A k \in 1..Len(kills) : kills[k] \in Nat
        BY WatchdogConstants DEF Newest
    <2>2. older \in Seq(Nat) /\ Len(older) = Len(kills) /\ \A k \in 1..Len(kills) : older[k] = kills[k] + 1
        BY <2>1
    <2>3. kills' = LastHour(older) BY <1>2 DEF Tick
    <2> HIDE DEF older
    <2>4. \A i, k \in 1..Len(older) : i < k => older[i] <= older[k]
        BY <2>1, <2>2 DEF Newest
    <2>5. /\ LastHour(older) \in Seq(0..(Hour - 1)) /\ Len(LastHour(older)) <= Len(older)
          /\ \A i, k \in 1..Len(LastHour(older)) : i < k => LastHour(older)[i] <= LastHour(older)[k]
        BY <2>2, <2>4, LastHourIs
    <2>6. Len(LastHour(older)) \in Nat BY <2>5
    <2>7. step' # "killed" BY <1>2 DEF Tick
    <2> QED BY <2>1, <2>2, <2>3, <2>5, <2>6, <2>7, WatchdogConstants DEF Newest, Allowed
<1>3. CASE GuardSteps
    <2>1. ASSUME NEW heard \in BOOLEAN, Check(Restoring, heard)
          PROVE  kills' = kills /\ step' # "killed"
        BY <2>1 DEF Check
    <2>2. CASE Answered \/ Silent \/ Report \/ WatchdogDies
        BY <1>1, <2>2 DEF Answered, Silent, Report, WatchdogDies, CheckEnds
    <2>3. CASE Kill BY <2>3 DEF Kill, MayKill, Newest, Allowed
    <2>4. CASE Record
        <3>1. Len(kills) < MaxRestarts /\ kills' = << 0 >> \o kills /\ step' # "killed"
            BY <2>4 DEF Record, Allowed, CheckEnds
        <3> QED BY <3>1, KillsAgain DEF Allowed
    <2> QED BY <1>1, <1>3, <2>1, <2>2, <2>3, <2>4 DEF GuardSteps, Guard
<1>4. CASE PanelSteps \/ WorkSteps BY <1>1, <1>4 DEF PanelSteps, WorkSteps, watchdog
<1>5. CASE SystemdStarts \/ OperatorStarts BY <1>1, <1>5 DEF SystemdStarts, OperatorStarts, Begins
<1>6. CASE Environment BY <1>1, <1>6 DEF Environment
<1> QED BY <1>2, <1>3, <1>4, <1>5, <1>6, StepsOfNext

\* What the other variables may hold.
Values ==
    /\ saving \in {"on", "off", "lost"}
    /\ staging \subseteq Worlds /\ kept \subseteq Worlds
    /\ backup \in Statuses /\ pre \in Statuses /\ restore \in Statuses /\ restart \in Statuses
    /\ kind \in {"mod", "plugin"}
    /\ blind \subseteq {"worker", "panel"} /\ raced \subseteq {"worker", "panel"}
    /\ change \in BOOLEAN /\ jar \in BOOLEAN

LEMMA RacedIs ==
    ASSUME Next
    PROVE  raced' \subseteq {"worker", "panel"}
<1>1. raced' = {who \in Touching' : who \in raced \/ (pid = 0 /\ pid' > 0)} BY DEF Next
<1> QED BY <1>1 DEF Touching

LEMMA ValuesStep ==
    ASSUME Values, Next
    PROVE  Values'
<1> USE DEF Values, Statuses, server, process, worker, job, rows, disk, jars
<1> DEFINE More == raced' \subseteq {"worker", "panel"} => Values'
<1>1. CASE PanelSteps
    <2> USE <1>1, PanelLeaves
    <2>1. ASSUME NEW heard \in BOOLEAN, LookIfRunning(heard) \/ AskRestart(heard) \/ AskPlugMan(heard)
          PROVE  More
        BY <2>1 DEF LookIfRunning, AskRestart, AskPlugMan, Blinded
    <2>2. ASSUME AskBackup \/ AskRestore \/ QueueChange \/ HotFails PROVE More
        BY <2>2 DEF AskBackup, AskRestore, QueueChange, HotFails
    <2>3. ASSUME PanelApplies PROVE More
        BY <2>3 DEF PanelApplies, Apply, Leaves
    <2>4. More BY <2>1, <2>2, <2>3 DEF PanelSteps, Panel, Looks
    <2> QED BY <2>4, RacedIs
<1>2. CASE WorkSteps
    <2>1. ASSUME NEW heard \in BOOLEAN, Start(heard) PROVE More
        BY <2>1 DEF Start, Resume, Drop
    <2>2. ASSUME NEW heard \in BOOLEAN, Save(heard) \/ Stop(heard) \/ WaitGone(heard) PROVE More
        BY <2>2 DEF Save, Stop, WaitGone
    <2>3. ASSUME NEW heard \in BOOLEAN, LookAgain(heard) PROVE More
        BY <2>3 DEF LookAgain, Blinded
    <2>4. ASSUME NEW ok \in BOOLEAN, Archive(ok) \/ Unpack(ok) PROVE More
        BY <2>4 DEF Archive, Resume, Unpack
    <2>5. ASSUME NEW w \in Worlds, MoveOut(w) \/ MoveIn(w) \/ PutBack(w) \/ PutBackFails(w) PROVE More
        BY <2>5 DEF MoveOut, MoveIn, PutBack, PutBackFails, Leaves
    <2>6. ASSUME ApplyFound \/ ApplyQueue PROVE More
        BY <2>6 DEF ApplyFound, ApplyQueue, Apply, Leaves
    <2>7. ASSUME TakeRestore \/ TakeRestart \/ TakeBackup \/ Leave PROVE More
        BY <2>7 DEF TakeRestore, TakeRestart, TakeBackup, Leave
    <2>8. ASSUME RaiseFlag \/ SwapFails \/ IsBack \/ Swapped PROVE More
        BY <2>8 DEF RaiseFlag, SwapFails, IsBack, Swapped, Leaves
    <2>9. ASSUME WaitAnswer \/ Discard PROVE More
        BY <2>9 DEF WaitAnswer, Discard
    <2>10. ASSUME Finish \/ Die PROVE More
        BY <2>10 DEF Finish, Die, Keep, Leaves
    <2>11. More BY <1>2, <2>1, <2>2, <2>3, <2>4, <2>5, <2>6, <2>7, <2>8, <2>9, <2>10 DEF WorkSteps, Work, Looks
    <2> QED BY <2>11, RacedIs
<1>3. CASE GuardSteps BY <1>3, GuardLeaves, RacedIs DEF Ends
<1>4. CASE SystemdStarts \/ OperatorStarts BY <1>4, BeginsLeaves, RacedIs DEF SystemdStarts, OperatorStarts
<1>5. CASE Environment BY <1>5, EnvironmentLeaves, RacedIs
<1>6. CASE Tick BY <1>6, RacedIs DEF Tick
<1> QED BY <1>1, <1>2, <1>3, <1>4, <1>5, <1>6, StepsOfNext

Bits ==
    /\ flag \in BOOLEAN /\ wasUp \in BOOLEAN /\ setFlag \in BOOLEAN /\ torn \in BOOLEAN
    /\ grown \in BOOLEAN /\ inherited \in BOOLEAN /\ cleared \in BOOLEAN

\* What the worker knows, has put up or has torn.
LEMMA WorkBits ==
    ASSUME Bits, Work
    PROVE  flag' \in BOOLEAN /\ wasUp' \in BOOLEAN /\ setFlag' \in BOOLEAN /\ torn' \in BOOLEAN
<1> USE DEF Bits, server, job, rows, disk, jars
<1> DEFINE Good == flag' \in BOOLEAN /\ wasUp' \in BOOLEAN /\ setFlag' \in BOOLEAN /\ torn' \in BOOLEAN
<1>1. ASSUME NEW heard \in BOOLEAN, Start(heard) \/ WaitGone(heard) \/ LookAgain(heard) PROVE Good
    BY <1>1 DEF Start, WaitGone, LookAgain
<1>2. ASSUME NEW heard \in BOOLEAN, Save(heard) \/ Stop(heard) PROVE Good
    <2>1. wasUp' = (heard /\ UnitActive) /\ UNCHANGED <<flag, setFlag, torn>> BY <1>2 DEF Save, Stop
    <2>2. (heard /\ UnitActive) \in BOOLEAN BY Zenon
    <2> QED BY <2>1, <2>2
<1>3. ASSUME NEW ok \in BOOLEAN, Archive(ok) \/ Unpack(ok) PROVE Good
    BY <1>3 DEF Archive, Unpack, Over
<1>4. ASSUME NEW w \in Worlds, MoveOut(w) \/ MoveIn(w) \/ PutBack(w) \/ PutBackFails(w) PROVE Good
    BY <1>4 DEF MoveOut, MoveIn, PutBack, PutBackFails
<1>5. CASE ApplyFound \/ ApplyQueue BY <1>5 DEF ApplyFound, ApplyQueue
<1>6. CASE TakeRestore \/ TakeRestart \/ TakeBackup \/ Leave
    BY <1>6 DEF TakeRestore, TakeRestart, TakeBackup, Leave, Over
<1>7. CASE RaiseFlag
    <2>1. flag' = TRUE /\ setFlag' = ~flag /\ UNCHANGED <<wasUp, torn>> BY <1>7 DEF RaiseFlag
    <2>2. (~flag) \in BOOLEAN OBVIOUS
    <2> QED BY <2>1, <2>2
<1>8. CASE SwapFails \/ IsBack \/ Swapped BY <1>8 DEF SwapFails, IsBack, Swapped
<1>9. CASE WaitAnswer \/ Discard BY <1>9 DEF WaitAnswer, Discard
<1>10. CASE Finish BY <1>10 DEF Finish, Over, Lower
<1>11. CASE Die
    <2>1. wasUp' = FALSE /\ setFlag' = FALSE /\ UNCHANGED flag BY <1>11 DEF Die, Over
    <2>2. torn' = (torn \/ pc \in {"swap", "put back"}) BY <1>11 DEF Die
    <2>3. torn' \in BOOLEAN BY <2>2, Zenon
    <2> QED BY <2>1, <2>3
<1> QED BY <1>1, <1>2, <1>3, <1>4, <1>5, <1>6, <1>7, <1>8, <1>9, <1>10, <1>11 DEF Work, Looks

LEMMA BitsStep ==
    ASSUME Bits, Next
    PROVE  Bits'
<1>1. cleared' \in BOOLEAN
    <2>1. cleared' = (pc' \in Guarded /\ (cleared \/ (flag /\ ~flag' /\ UNCHANGED worker))) BY DEF Next
    <2> QED BY <2>1, Zenon
<1> USE DEF server, worker, job, disk, watchdog
<1>2. CASE PanelSteps
    <2>1. UNCHANGED <<grown, inherited, wasUp, setFlag, flag, torn>> BY <1>2, PanelLeaves
    <2> QED BY <1>1, <2>1 DEF Bits
<1>3. CASE WorkSteps
    <2>1. UNCHANGED <<grown, inherited>> BY <1>3, WorkLeaves
    <2>2. Work BY <1>3 DEF WorkSteps
    <2> QED BY <1>1, <2>1, <2>2, WorkBits DEF Bits
<1>4. CASE GuardSteps
    <2>1. UNCHANGED <<wasUp, setFlag, torn>> /\ flag' = flag BY <1>4, GuardLeaves DEF Ends
    <2>2. ASSUME NEW heard \in BOOLEAN, Check(Restoring, heard)
          PROVE  Bits'
        <3>1. inherited' = inherited \/ inherited' = FALSE BY <2>2 DEF Check, Forget
        <3>2. grown' = grown \/ grown' = Grown BY <2>2 DEF Check
        <3>3. Grown \in BOOLEAN BY DEF Grown
        <3> QED BY <1>1, <2>1, <3>1, <3>2, <3>3 DEF Bits
    <2>3. CASE Answered \/ Silent \/ Report \/ Kill \/ Record \/ WatchdogDies
        <3>1. /\ inherited' = inherited \/ inherited' = FALSE
              /\ grown' = grown \/ grown' = FALSE
            BY <2>3 DEF Answered, Silent, Report, Kill, Record, WatchdogDies, CheckEnds, Forget
        <3> QED BY <1>1, <2>1, <3>1 DEF Bits
    <2> QED BY <1>4, <2>2, <2>3 DEF GuardSteps, Guard
<1>5. CASE SystemdStarts \/ OperatorStarts
    <2>1. Begins BY <1>5 DEF SystemdStarts, OperatorStarts
    <2>2. UNCHANGED <<wasUp, setFlag, torn, grown>> /\ flag' = flag BY <2>1, BeginsLeaves
    <2>3. inherited' = (failing # Never) BY <2>1, BeginsLeaves
    <2>4. inherited' \in BOOLEAN BY <2>3, Zenon
    <2> QED BY <1>1, <2>2, <2>4 DEF Bits
<1>6. CASE Environment
    <2>1. UNCHANGED <<wasUp, setFlag, torn, grown, inherited>> BY <1>6 DEF Environment
    <2>2. flag' \in BOOLEAN BY <1>6, EnvironmentLeaves DEF Bits
    <2> QED BY <1>1, <2>1, <2>2 DEF Bits
<1>7. CASE Tick
    <2>1. UNCHANGED <<wasUp, setFlag, torn, grown, inherited, flag>> BY <1>7 DEF Tick
    <2> QED BY <1>1, <2>1 DEF Bits
<1> QED BY <1>2, <1>3, <1>4, <1>5, <1>6, <1>7, StepsOfNext

\* The process, the worker and the watchdog hold what they may, and the watchdog
\* has recorded no more than max_restarts_per_hour kills of the last hour, however
\* its checks and the processes overlap (watchdog.py check).
THEOREM TypeCorrect == Spec => []TypeOK
<1> DEFINE All == Types /\ Whole /\ Newest /\ Allowed /\ Values /\ Bits
<1>1. Init => All
    <2> SUFFICES ASSUME Init PROVE All OBVIOUS
    <2> USE DEF Init, ProcessInit, WorkerInit, WatchdogInit
    <2>1. Types BY TypesInit
    <2>2. Whole BY DEF Whole, Swapping, OneSet, Nothing, Contents
    <2>3. Newest /\ Allowed BY WatchdogConstants DEF Newest, Allowed
    <2>4. Values BY DEF Values, Statuses
    <2>5. Bits BY DEF Bits
    <2> QED BY <2>1, <2>2, <2>3, <2>4, <2>5
<1>2. All /\ [Next]_vars => All'
    <2> SUFFICES ASSUME All, [Next]_vars PROVE All' OBVIOUS
    <2>1. CASE Next
        BY <2>1, TypesStep, WholeStep, NewestStep, ValuesStep, BitsStep
    <2>2. CASE UNCHANGED vars
        <3> USE <2>2 DEF vars, server, process, worker, job, rows, disk, jars, watchdog
        <3>1. Types' BY DEF Types
        <3>2. Whole' BY DEF Whole, Swapping, OneSet, Returned
        <3>3. Newest' /\ Allowed' BY DEF Newest, Allowed
        <3>4. Values' BY DEF Values
        <3>5. Bits' BY DEF Bits
        <3> QED BY <3>1, <3>2, <3>3, <3>4, <3>5
    <2> QED BY <2>1, <2>2
<1>3. All => TypeOK
    <2> SUFFICES ASSUME All PROVE TypeOK OBVIOUS
    <2>1. {backup, pre, restore, restart} \subseteq Statuses BY DEF Values
    <2>2. {flag, wasUp, setFlag, change, jar, torn, grown, inherited, cleared} \subseteq BOOLEAN
        BY DEF Bits, Values
    <2> QED BY <2>1, <2>2 DEF Types, Whole, Newest, Values, TypeOK
<1> QED BY <1>1, <1>2, <1>3, PTL DEF Spec
================================================================================
