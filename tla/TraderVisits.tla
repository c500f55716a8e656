------------------------------ MODULE TraderVisits ------------------------------
(***************************************************************************)
(* When the travelling trader comes (services/trader_service.py): a visit  *)
(* per slot of the schedule, rolled by whichever request needs it first,   *)
(* visits an administrator forces or ends, and the two announcements.      *)
(*                                                                         *)
(* Time: slots and forced visits start at full seconds, the even numbers;  *)
(* requests run in between, so `now` is odd.  A request creates its visit  *)
(* in a savepoint under the unique key (server, starts_at) and takes over  *)
(* the row of whoever was faster.  A request of the schedule is therefore  *)
(* one step: two of them meet at the start of the same slot.  One that     *)
(* forces a visit looks whether the trader is there and inserts a start of *)
(* its own afterwards, so these are two steps, with anything in between    *)
(* (a request of the schedule that looks before the insert and rolls after *)
(* it is, but for the order of the rows, one that came before it).         *)
(***************************************************************************)
EXTENDS Integers, Sequences, FiniteSets

CONSTANTS
    Interval,   \* interval_minutes
    Duration,   \* duration_minutes
    Elite,      \* elite_duration_minutes
    Before,     \* announce_before_minutes, 0 for no announcement
    MaxTime,    \* bounds the time of a run
    MaxForcing, \* bounds the requests under way that force a visit
    MaxVisits   \* bounds the rows of trader_visits

Even(n) == n % 2 = 0

ASSUME VisitConstants ==
    /\ Interval \in Nat \ {0} /\ Duration \in Nat \ {0} /\ Elite \in Nat \ {0} /\ Before \in Nat
    /\ Even(Interval) /\ Even(Duration) /\ Even(Elite) /\ Even(Before)
    /\ MaxTime \in Nat /\ MaxVisits \in Nat /\ MaxForcing \in Nat

VARIABLES
    now,        \* the time
    enabled,    \* config.enabled
    visits,     \* the rows of trader_visits, in the order they were created
    forcing     \* requests that found no trader and are about to force a visit

vars == <<now, enabled, visits, forcing>>

Kinds == {"normal", "elite"}   \* a weekend visit is as long as a normal one
Lasts(kind) == IF kind = "elite" THEN Elite ELSE Duration

\* `planned`, `ended` and `saw` are history: the start the visit was created for,
\* what end_visit has done to it, and how many rows there were when the request
\* that forced it looked.
NewVisit(start, source, kind, saw) ==
    [start |-> start, end |-> start + Lasts(kind), source |-> source, kind |-> kind,
     soon |-> FALSE, arrived |-> FALSE, planned |-> start, ended |-> "no", saw |-> saw]

--------------------------------------------------------------------------------
Active(vs, i) == vs[i].start <= now /\ now < vs[i].end

ActiveOnes(vs) == {i \in DOMAIN vs : Active(vs, i)}

\* ORDER BY starts_at DESC LIMIT 1
Latest(vs) == {i \in ActiveOnes(vs) : \A j \in ActiveOnes(vs) : vs[j].start <= vs[i].start}

SlotStart == now - (now % Interval)

\* Mutant of VisitAt: only a visit that is not over is found.
VisitAtLive(vs, start) == {i \in DOMAIN vs : vs[i].start = start /\ vs[i].end > now}

\* _visit_at
VisitAt(vs, start) == {i \in DOMAIN vs : vs[i].start = start}

\* The rows after a visit of the schedule was rolled, whatever its kind.
Rolled(vs, start) == {Append(vs, NewVisit(start, "schedule", kind, 0)) : kind \in Kinds}

\* It is the time of a slot of the schedule.
SlotIsOn == enabled /\ now < SlotStart + Duration

\* active_visit: the rows it may leave.
AfterActive(vs) ==
    IF ActiveOnes(vs) = {} /\ SlotIsOn /\ VisitAt(vs, SlotStart) = {}
    THEN Rolled(vs, SlotStart)
    ELSE {vs}

\* `now` is never the start of a slot, so the next one is an interval away.
NextStart == SlotStart + Interval

\* Inside the announcement window.
WindowIsOpen == enabled /\ Before > 0 /\ now >= NextStart - Before

\* upcoming_visit: the rows it may leave; asked only when no visit is active.
AfterUpcoming(vs) ==
    IF ActiveOnes(vs) = {} /\ WindowIsOpen /\ VisitAt(vs, NextStart) = {}
    THEN Rolled(vs, NextStart)
    ELSE {vs}

\* announce: which visit is told about.
AnnouncedNow(vs) ==
    [i \in DOMAIN vs |->
        [vs[i] EXCEPT
            !.arrived = @ \/ i \in Latest(vs),
            !.soon = @ \/ (ActiveOnes(vs) = {} /\ WindowIsOpen /\ i \in VisitAt(vs, NextStart))]]

--------------------------------------------------------------------------------
RoomFor(vs) == Len(vs) <= MaxVisits

\* Time passes.
Pass ==
    /\ now < MaxTime
    /\ now' = now + 2
    /\ UNCHANGED <<enabled, visits, forcing>>

\* The rows the plugin's tick may leave: announce, then the active visit once more.
AfterTick ==
    UNION {AfterActive(AnnouncedNow(us)) : us \in UNION {AfterUpcoming(vs) : vs \in AfterActive(visits)}}

Tick ==
    /\ \E vs \in AfterTick : RoomFor(vs) /\ visits' = vs
    /\ UNCHANGED <<now, enabled, forcing>>

\* A page or a player at the trader asks for the active visit.
Look ==
    /\ \E vs \in AfterActive(visits) : RoomFor(vs) /\ visits' = vs
    /\ UNCHANGED <<now, enabled, forcing>>

\* Mutant of MayForce: a visit can be forced although the trader is there.
MayForceAlways == TRUE

MayForce == ActiveOnes(visits) = {}

\* The first half of force_visit: the trader is not there.
AskForce ==
    /\ MayForce
    /\ Cardinality(forcing) < MaxForcing
    /\ forcing' = forcing \cup {[at |-> now, saw |-> Len(visits)]}
    /\ UNCHANGED <<now, enabled, visits>>

\* The second half: the visit starts at the full second of that look.  A start
\* that is taken already (the key is unique) gives the row that has it.
ForceVisit(r, kind) ==
    /\ forcing' = forcing \ {r}
    /\ visits' = IF VisitAt(visits, r.at - 1) = {}
                 THEN Append(visits, NewVisit(r.at - 1, "admin", kind, r.saw))
                 ELSE visits
    /\ RoomFor(visits')
    /\ UNCHANGED <<now, enabled>>

\* Mutant of StartOfEnded: only the end is moved.
StartOfEndedKept(i) == visits[i].start

StartOfEnded(i) == IF visits[i].start > now THEN now ELSE visits[i].start

\* end_visit
End(i) ==
    /\ visits[i].end > now
    /\ visits' = [visits EXCEPT
          ![i].ended = IF visits[i].start > now THEN "before" ELSE "during",
          ![i].start = StartOfEnded(i),
          ![i].end = now]
    /\ UNCHANGED <<now, enabled, forcing>>

\* The settings page; the other settings keep their values during a run.
Toggle ==
    /\ enabled' = ~enabled
    /\ UNCHANGED <<now, visits, forcing>>

Init ==
    /\ now = 1
    /\ enabled \in BOOLEAN
    /\ visits = <<>>
    /\ forcing = {}

Next ==
    \/ Pass
    \/ Tick
    \/ Look
    \/ AskForce
    \/ \E r \in forcing, kind \in Kinds : ForceVisit(r, kind)
    \/ \E i \in DOMAIN visits : End(i)
    \/ Toggle

Spec == Init /\ [][Next]_vars

--------------------------------------------------------------------------------
(* Properties. *)

VisitRows == [start : Nat, end : Nat, source : {"schedule", "admin"}, kind : Kinds,
              soon : BOOLEAN, arrived : BOOLEAN, planned : Nat, ended : {"no", "before", "during"}, saw : Nat]

TypeOK ==
    /\ now \in Nat /\ ~Even(now)
    /\ enabled \in BOOLEAN
    /\ visits \in Seq(VisitRows)
    /\ forcing \subseteq [at : Nat, saw : Nat]
    /\ \A i \in DOMAIN visits : visits[i].start <= visits[i].end

\* Two traders are there at once only when a visit was forced shortly before a
\* slot whose visit had been rolled already, or when two were forced at once:
\* the request of the one looked before the other's row was there.  The schedule
\* alone never does it (trader_service.py:188-208, 289-293).
TwoOnlyByForce ==
    \A i, j \in ActiveOnes(visits) : i < j =>
        \/ {visits[i].source, visits[j].source} = {"schedule", "admin"}
        \/ visits[j].source = "admin" /\ visits[j].saw < i

\* A visit that was ended in advance is an empty past visit: the trader does
\* not come for the slot it was planned for (trader_service.py:304).
EndedInAdvanceStaysAway ==
    \A i, j \in DOMAIN visits :
        /\ i # j
        /\ visits[i].source = "schedule" /\ visits[j].source = "schedule"
        /\ visits[i].ended = "before"
        /\ visits[j].planned = visits[i].planned
        => ~Active(visits, j)

\* After a tick inside a slot of an enabled schedule the trader is there and his
\* arrival announced, unless this slot's visit is over: an elite one that has
\* left, or one an administrator ended (trader_service.py:188-208, 590-600).
TickBringsTrader ==
    enabled /\ now < SlotStart + Duration =>
        \A vs \in AfterTick :
            \/ \E i \in ActiveOnes(vs) : vs[i].arrived
            \/ \E i \in DOMAIN vs : vs[i].planned = SlotStart /\ vs[i].end <= now

\* A slot gets one visit: neither a request that comes when it is over (an
\* elite one that has left, one that was ended) nor the arrival after an
\* announcement rolls another, and only a visit that was ended in advance is
\* rolled again (trader_service.py:204-206, 227, 282).
OneRollPerSlot ==
    \A i, j \in DOMAIN visits :
        /\ i < j
        /\ visits[i].source = "schedule" /\ visits[j].source = "schedule"
        /\ visits[i].planned = visits[j].planned
        => visits[i].ended = "before"
================================================================================
