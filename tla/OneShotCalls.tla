------------------------------ MODULE OneShotCalls ------------------------------
(***************************************************************************)
(* What remote_files.call and server_console.run promise those who call    *)
(* them, without the rows, the polls and the plugin: a job is done at most *)
(* once and never after it was dropped, a result is the one the job had,   *)
(* and a job that was reported as accepted is not dropped any more.        *)
(***************************************************************************)
CONSTANT Jobs

VARIABLES
    state,      \* of a job: "none", "open", "dropped", or what came of it
    answer      \* to its caller: "none", "waiting", a result, "accepted", "gave up"

Results == {"done", "failed"}

Init == state = [j \in Jobs |-> "none"] /\ answer = [j \in Jobs |-> "none"]

Call(j) ==
    /\ state[j] = "none"
    /\ state' = [state EXCEPT ![j] = "open"]
    /\ answer' = [answer EXCEPT ![j] = "waiting"]

Do(j, result) ==
    /\ state[j] = "open"
    /\ state' = [state EXCEPT ![j] = result]
    /\ UNCHANGED answer

Answer(j, reply) ==
    /\ answer[j] = "waiting"
    /\ reply \in Results => state[j] = reply
    /\ reply = "accepted" => state[j] # "dropped"
    /\ answer' = [answer EXCEPT ![j] = reply]
    /\ UNCHANGED state

\* A poll may drop several jobs at once.
DropOld(D) ==
    /\ \A j \in D : state[j] = "open" /\ answer[j] # "accepted"
    /\ state' = [j \in Jobs |-> IF j \in D THEN "dropped" ELSE state[j]]
    /\ UNCHANGED answer

Next ==
    \/ \E j \in Jobs :
          \/ Call(j)
          \/ \E result \in Results : Do(j, result)
          \/ \E reply \in Results \cup {"accepted", "gave up"} : Answer(j, reply)
    \/ \E D \in SUBSET Jobs : DropOld(D)

Spec == Init /\ [][Next]_<<state, answer>>
================================================================================
