--------------------------- MODULE TraderVisitsProofs ---------------------------
(***************************************************************************)
(* Proofs about the trader's visits, for any schedule of even lengths      *)
(* (elite visits shorter or longer than normal ones, visits longer than    *)
(* the interval) and any number of visits.                                 *)
(*                                                                         *)
(* A request may roll two visits and mark rows in between, so the          *)
(* invariant is a property Good of any list of rows, and each of the parts *)
(* of a tick keeps it.                                                     *)
(***************************************************************************)
EXTENDS TraderVisits, SumLemmas, SequenceTheorems, TLAPS

Rows(vs) == /\ vs \in Seq(VisitRows)
            /\ \A i \in DOMAIN vs : vs[i].start <= vs[i].end

\* What end_visit has done to a row, and that no administrator's visit is ahead.
Plans(vs) ==
    \A i \in DOMAIN vs :
        /\ vs[i].ended # "before" => vs[i].start = vs[i].planned
        /\ vs[i].ended = "before" => ~Even(vs[i].start)
        /\ vs[i].ended # "no" => vs[i].end <= now
        /\ vs[i].source = "admin" => vs[i].start <= now

\* Of two visits that are not over, one is the schedule's and one an administrator's,
\* or the later one was forced by a request that looked before the other was there.
Single(vs) ==
    \A i, j \in DOMAIN vs :
        i < j /\ vs[i].end > now /\ vs[j].end > now =>
            \/ vs[i].source # vs[j].source
            \/ vs[j].source = "admin" /\ vs[j].saw < i

\* A visit ahead is the next slot's, and this slot's can no more be rolled.
Ahead(vs) ==
    \A i \in DOMAIN vs : vs[i].start > now =>
        /\ vs[i].start = NextStart
        /\ now < SlotStart + Duration => VisitAt(vs, SlotStart) # {}

\* OneRollPerSlot, of any list of rows.
OneRoll(vs) ==
    \A i, j \in DOMAIN vs :
        /\ i < j
        /\ vs[i].source = "schedule" /\ vs[j].source = "schedule"
        /\ vs[i].planned = vs[j].planned
        => vs[i].ended = "before"

Good(vs) == Rows(vs) /\ Plans(vs) /\ Single(vs) /\ Ahead(vs) /\ OneRoll(vs)

Clock == now \in Nat /\ ~Even(now) /\ enabled \in BOOLEAN

\* What the requests that are about to force a visit have seen: no visit of an
\* administrator that they found is still to end.
Asked ==
    /\ forcing \subseteq [at : Nat, saw : Nat]
    /\ \A r \in forcing :
          /\ r.at <= now /\ ~Even(r.at) /\ r.saw <= Len(visits)
          /\ \A i \in DOMAIN visits :
                i <= r.saw /\ visits[i].source = "admin" => visits[i].end <= now

IInv == Clock /\ Good(visits) /\ Asked

--------------------------------------------------------------------------------
(* The clock and the slots. *)

LEMMA SlotFacts ==
    ASSUME Clock
    PROVE  /\ SlotStart \in Nat /\ SlotStart <= now /\ now < NextStart /\ NextStart \in Nat
           /\ Even(SlotStart) /\ Even(NextStart)
<1> DEFINE q == now \div Interval
           r == now % Interval
<1>1. Interval \in Nat /\ Interval > 0 /\ Interval % 2 = 0 /\ now \in Nat
    BY VisitConstants DEF Clock, Even
<1>2. now = Interval * q + r /\ r \in Nat /\ r < Interval /\ q \in Nat BY <1>1
<1>3. SlotStart = Interval * q BY <1>1, <1>2 DEF SlotStart
<1>4. Interval = 2 * (Interval \div 2) /\ Interval \div 2 \in Nat BY <1>1
<1> DEFINE half == Interval \div 2
<1> HIDE DEF q, r, half
<1>5. SlotStart = 2 * (half * q) /\ half * q \in Nat BY <1>2, <1>3, <1>4 DEF half
<1>6. Even(SlotStart) BY <1>5 DEF Even
<1>7. NextStart = 2 * (half * q + half) BY <1>4, <1>5 DEF NextStart, half
<1>8. Even(NextStart) BY <1>4, <1>5, <1>7 DEF Even, half
<1>9. SlotStart \in Nat /\ SlotStart <= now /\ now < SlotStart + Interval
    BY <1>1, <1>2, <1>3, <1>5
<1> QED BY <1>1, <1>6, <1>8, <1>9 DEF NextStart

\* Within a slot the slot's start stays.
LEMMA SlotStays ==
    ASSUME Clock, now' = now + 2, now + 2 < NextStart
    PROVE  SlotStart' = SlotStart /\ NextStart' = NextStart
<1> DEFINE q == now \div Interval
           r == now % Interval
<1>1. Interval \in Nat /\ Interval > 0 /\ now \in Nat BY VisitConstants DEF Clock
<1>2. now = Interval * q + r /\ r \in Nat /\ q \in Nat BY <1>1
<1>3. r + 2 < Interval BY <1>1, <1>2 DEF NextStart, SlotStart
<1>4. (now + 2) % Interval = r + 2
    <2> DEFINE p == (now + 2) \div Interval
               m == (now + 2) % Interval
    <2>1. now + 2 = Interval * p + m /\ m \in Nat /\ m < Interval /\ p \in Nat BY <1>1
    <2> HIDE DEF p, m, q, r
    <2>2. Interval * q + (r + 2) = Interval * p + m BY <1>1, <1>2, <2>1
    <2>3. q = p
        <3>1. CASE q < p
            <4>1. p = q + (p - q) /\ p - q >= 1 BY <3>1, <1>2, <2>1
            <4>2. Interval * p >= Interval * q + Interval BY <4>1, <1>1, <1>2, <2>1
            <4> QED BY <4>2, <1>1, <1>2, <1>3, <2>1, <2>2
        <3>2. CASE p < q
            <4>1. Interval * q >= Interval * p + Interval BY <3>2, <1>1, <1>2, <2>1
            <4> QED BY <4>1, <1>1, <1>2, <1>3, <2>1, <2>2
        <3> QED BY <3>1, <3>2, <1>2, <2>1
    <2>4. m = r + 2 BY <2>2, <2>3, <1>1, <1>2, <2>1
    <2> QED BY <2>4 DEF m
<1>5. SlotStart' = SlotStart
    <2>1. SlotStart' = (now + 2) - ((now + 2) % Interval) BY DEF SlotStart
    <2>2. SlotStart = now - r BY DEF SlotStart
    <2> HIDE DEF q, r
    <2> QED BY <1>1, <1>2, <1>4, <2>1, <2>2
<1> QED BY <1>5 DEF NextStart

--------------------------------------------------------------------------------
(* The parts of a request keep the rows good. *)

LEMMA NewRow ==
    ASSUME NEW start \in Nat, NEW source \in {"schedule", "admin"}, NEW kind \in Kinds,
           NEW saw \in Nat
    PROVE  LET r == NewVisit(start, source, kind, saw) IN
           /\ r \in VisitRows
           /\ r.start = start /\ r.end > start /\ r.source = source /\ r.planned = start
           /\ r.ended = "no" /\ r.end \in Nat /\ r.saw = saw
<1>1. Lasts(kind) \in Nat /\ Lasts(kind) > 0 BY VisitConstants DEF Lasts
<1> QED BY <1>1 DEF NewVisit, VisitRows

LEMMA Appended ==
    ASSUME NEW vs \in Seq(VisitRows), NEW r \in VisitRows
    PROVE  LET us == Append(vs, r)
               k == Len(vs) + 1 IN
           /\ us \in Seq(VisitRows)
           /\ DOMAIN us = DOMAIN vs \cup {k} /\ k \notin DOMAIN vs
           /\ us[k] = r
           /\ \A i \in DOMAIN vs : us[i] = vs[i] /\ i < k
BY AppendProperties, LenProperties

\* A visit may be added whose start is no visit's of the schedule (unless it is
\* forced), that is this slot's or earlier or (for the next slot) when this one
\* cannot be rolled any more, and that shares its time with none of its origin
\* but those a forced one has not seen.
LEMMA AppendGood ==
    ASSUME Clock, NEW vs, Good(vs), NEW start \in Nat, NEW source \in {"schedule", "admin"},
           NEW kind \in Kinds, NEW saw \in Nat,
           \A i \in DOMAIN vs : vs[i].end > now =>
              vs[i].source # source \/ (source = "admin" /\ saw < i),
           start <= now \/ (/\ start = NextStart
                            /\ source = "schedule"
                            /\ now < SlotStart + Duration => VisitAt(vs, SlotStart) # {}),
           source = "schedule" => VisitAt(vs, start) = {}
    PROVE  Good(Append(vs, NewVisit(start, source, kind, saw)))
<1> DEFINE r == NewVisit(start, source, kind, saw)
           us == Append(vs, r)
           k == Len(vs) + 1
<1>1. /\ r \in VisitRows /\ r.start = start /\ r.end > start /\ r.source = source
      /\ r.planned = start /\ r.ended = "no" /\ r.end \in Nat /\ r.saw = saw
    BY NewRow
<1>2. vs \in Seq(VisitRows) BY DEF Good, Rows
<1>3. /\ us \in Seq(VisitRows)
      /\ DOMAIN us = DOMAIN vs \cup {k} /\ k \notin DOMAIN vs
      /\ us[k] = r
      /\ \A i \in DOMAIN vs : us[i] = vs[i] /\ i < k
    <2> HIDE DEF r
    <2> QED BY <1>1, <1>2, Appended
<1>4. \A i \in DOMAIN vs : vs[i] \in VisitRows BY <1>2, ElementOfSeq, LenProperties
<1>5. now \in Nat /\ Len(vs) \in Nat /\ \A i \in DOMAIN vs : i \in Nat
    BY <1>2, LenProperties DEF Clock
<1> HIDE DEF r, us
<1>6. Rows(us) BY <1>1, <1>3 DEF Good, Rows
<1>7. Plans(us)
    BY <1>1, <1>3, SlotFacts DEF Good, Plans
<1>10. Single(us)
    <2> SUFFICES ASSUME NEW i \in DOMAIN us, NEW j \in DOMAIN us, i < j,
                        us[i].end > now, us[j].end > now
                 PROVE  us[i].source # us[j].source \/ (us[j].source = "admin" /\ us[j].saw < i)
        BY DEF Single
    <2>1. i \in DOMAIN vs BY <1>3, <1>5 DEF k
    <2>2. CASE j \in DOMAIN vs BY <1>3, <2>1, <2>2 DEF Good, Single
    <2>3. CASE j = k BY <1>1, <1>3, <2>1, <2>3
    <2> QED BY <1>3, <2>2, <2>3
<1> HIDE DEF k
<1>11. VisitAt(vs, SlotStart) \subseteq VisitAt(us, SlotStart) BY <1>3 DEF VisitAt
<1>12. Ahead(us)
    BY <1>1, <1>3, <1>5, <1>11 DEF Good, Ahead
<1>13. OneRoll(us)
    <2> SUFFICES ASSUME NEW i \in DOMAIN us, NEW j \in DOMAIN us, i < j,
                        us[i].source = "schedule", us[j].source = "schedule",
                        us[i].planned = us[j].planned
                 PROVE  us[i].ended = "before"
        BY DEF OneRoll
    <2>1. i \in DOMAIN vs
        BY <1>3, <1>5 DEF k
    <2>2. CASE j \in DOMAIN vs BY <1>3, <2>1, <2>2 DEF Good, OneRoll
    <2>3. CASE j = k
        <3>1. vs[i].planned = start /\ source = "schedule" BY <1>1, <1>3, <2>1, <2>3
        <3>2. vs[i].start # start BY <2>1, <3>1 DEF VisitAt
        <3> QED BY <1>3, <2>1, <3>1, <3>2 DEF Good, Plans
    <2> QED BY <1>3, <2>2, <2>3
<1> QED BY <1>6, <1>7, <1>10, <1>12, <1>13 DEF Good, us, r

\* While nobody is active or ahead, no visit of the schedule is still to end.
LEMMA NoneToEnd ==
    ASSUME Clock, NEW vs, Good(vs), ActiveOnes(vs) = {}, \A i \in DOMAIN vs : vs[i].start <= now
    PROVE  \A i \in DOMAIN vs : ~(vs[i].end > now)
<1>1. \A i \in DOMAIN vs : vs[i] \in VisitRows
    BY ElementOfSeq, LenProperties DEF Good, Rows
<1> QED BY <1>1 DEF ActiveOnes, Active, Clock, VisitRows

\* active_visit: after it, a slot that is on has its row or the trader is there.
SlotRolled(vs) == SlotIsOn /\ ActiveOnes(vs) = {} => VisitAt(vs, SlotStart) # {}

LEMMA ActiveGood ==
    ASSUME Clock, NEW vs, Good(vs), NEW us \in AfterActive(vs)
    PROVE  Good(us) /\ SlotRolled(us)
<1>1. CASE us = vs /\ ~(ActiveOnes(vs) = {} /\ SlotIsOn /\ VisitAt(vs, SlotStart) = {})
    BY <1>1 DEF SlotRolled
<1>2. CASE ActiveOnes(vs) = {} /\ SlotIsOn /\ VisitAt(vs, SlotStart) = {}
    <2>1. PICK kind \in Kinds : us = Append(vs, NewVisit(SlotStart, "schedule", kind, 0))
        BY <1>2 DEF AfterActive, Rolled
    <2>2. SlotStart \in Nat /\ SlotStart <= now BY SlotFacts
    <2>3. \A i \in DOMAIN vs : vs[i].start <= now
        <3>1. \A i \in DOMAIN vs : vs[i] \in VisitRows
            BY ElementOfSeq, LenProperties DEF Good, Rows
        <3> QED BY <1>2, <3>1 DEF Good, Ahead, SlotIsOn, Clock, VisitRows
    <2>4. Good(us) BY <1>2, <2>1, <2>2, <2>3, NoneToEnd, AppendGood
    <2>5. SlotRolled(us)
        <3> DEFINE r == NewVisit(SlotStart, "schedule", kind, 0)
        <3>1. r \in VisitRows /\ r.start = SlotStart BY <2>2, NewRow
        <3> HIDE DEF r
        <3>2. Len(vs) + 1 \in DOMAIN Append(vs, r) /\ Append(vs, r)[Len(vs) + 1] = r
            BY <3>1, Appended DEF Good, Rows
        <3> QED BY <2>1, <3>1, <3>2 DEF SlotRolled, VisitAt, r
    <2> QED BY <2>4, <2>5
<1> QED BY <1>1, <1>2 DEF AfterActive

\* upcoming_visit, asked after active_visit.
LEMMA UpcomingGood ==
    ASSUME Clock, NEW vs, Good(vs), SlotRolled(vs), NEW us \in AfterUpcoming(vs)
    PROVE  Good(us)
<1>1. CASE us = vs BY <1>1
<1>2. CASE ActiveOnes(vs) = {} /\ WindowIsOpen /\ VisitAt(vs, NextStart) = {}
    <2>1. CASE us \in Rolled(vs, NextStart)
        <3>1. PICK kind \in Kinds : us = Append(vs, NewVisit(NextStart, "schedule", kind, 0))
            BY <2>1 DEF Rolled
        <3>2. \A i \in DOMAIN vs : vs[i].start <= now
            <4>1. \A i \in DOMAIN vs : vs[i] \in VisitRows
                BY ElementOfSeq, LenProperties DEF Good, Rows
            <4> QED BY <1>2, <4>1 DEF Good, Ahead, VisitAt, Clock, VisitRows
        <3>3. now < SlotStart + Duration => VisitAt(vs, SlotStart) # {}
            BY <1>2 DEF SlotRolled, SlotIsOn, WindowIsOpen
        <3> QED BY <1>2, <3>1, <3>2, <3>3, SlotFacts, NoneToEnd, AppendGood
    <2> QED BY <1>1, <2>1 DEF AfterUpcoming
<1> QED BY <1>1, <1>2 DEF AfterUpcoming

\* announce marks rows and changes nothing else.
LEMMA AnnounceRows ==
    ASSUME NEW vs, vs \in Seq(VisitRows)
    PROVE  LET us == AnnouncedNow(vs) IN
           /\ us \in Seq(VisitRows) /\ DOMAIN us = DOMAIN vs
           /\ \A i \in DOMAIN vs :
                 /\ us[i].start = vs[i].start /\ us[i].end = vs[i].end
                 /\ us[i].source = vs[i].source /\ us[i].planned = vs[i].planned
                 /\ us[i].ended = vs[i].ended /\ us[i].saw = vs[i].saw
                 /\ us[i].arrived = (vs[i].arrived \/ i \in Latest(vs))
<1> DEFINE us == AnnouncedNow(vs)
           row(i) == [vs[i] EXCEPT
                        !.arrived = vs[i].arrived \/ i \in Latest(vs),
                        !.soon = vs[i].soon \/ (/\ ActiveOnes(vs) = {} /\ WindowIsOpen
                                                /\ i \in VisitAt(vs, NextStart))]
<1>1. \A i \in DOMAIN vs : vs[i] \in VisitRows BY ElementOfSeq, LenProperties
<1>2. DOMAIN vs = 1 .. Len(vs) /\ Len(vs) \in Nat BY LenProperties
<1>3. us = [i \in DOMAIN vs |-> row(i)] BY DEF AnnouncedNow
<1>4. \A i \in DOMAIN vs : us[i] = row(i) BY <1>3
<1>5. ASSUME NEW i \in DOMAIN vs
      PROVE  /\ row(i) \in VisitRows
             /\ row(i).start = vs[i].start /\ row(i).end = vs[i].end
             /\ row(i).source = vs[i].source /\ row(i).planned = vs[i].planned
             /\ row(i).ended = vs[i].ended /\ row(i).saw = vs[i].saw
             /\ row(i).arrived = (vs[i].arrived \/ i \in Latest(vs))
    <2> DEFINE a == vs[i].arrived \/ i \in Latest(vs)
               b == vs[i].soon \/ (/\ ActiveOnes(vs) = {} /\ WindowIsOpen
                                   /\ i \in VisitAt(vs, NextStart))
    <2>1. a \in BOOLEAN /\ b \in BOOLEAN OBVIOUS
    <2>2. row(i) = [vs[i] EXCEPT !.arrived = a, !.soon = b] OBVIOUS
    <2> HIDE DEF a, b, row
    <2>3. /\ row(i) \in VisitRows
          /\ row(i).start = vs[i].start /\ row(i).end = vs[i].end
          /\ row(i).source = vs[i].source /\ row(i).planned = vs[i].planned
          /\ row(i).ended = vs[i].ended /\ row(i).saw = vs[i].saw
          /\ row(i).arrived = a
        BY <1>1, <2>1, <2>2 DEF VisitRows
    <2> QED BY <2>3 DEF a
<1> HIDE DEF row
<1>6. us \in Seq(VisitRows) /\ DOMAIN us = DOMAIN vs
    <2>1. us \in [1 .. Len(vs) -> VisitRows] BY <1>2, <1>3, <1>5
    <2> QED BY <1>2, <2>1, SeqDef
<1> HIDE DEF us
<1> QED BY <1>4, <1>5, <1>6 DEF us

\* Rows that differ in their marks only are good or not alike.
LEMMA AnnounceGood ==
    ASSUME NEW vs, Good(vs)
    PROVE  /\ Good(AnnouncedNow(vs))
           /\ ActiveOnes(AnnouncedNow(vs)) = ActiveOnes(vs)
           /\ \A start : VisitAt(AnnouncedNow(vs), start) = VisitAt(vs, start)
<1> DEFINE us == AnnouncedNow(vs)
<1>1. vs \in Seq(VisitRows) BY DEF Good, Rows
<1>2. /\ us \in Seq(VisitRows) /\ DOMAIN us = DOMAIN vs
      /\ \A i \in DOMAIN vs :
            /\ us[i].start = vs[i].start /\ us[i].end = vs[i].end
            /\ us[i].source = vs[i].source /\ us[i].planned = vs[i].planned
            /\ us[i].ended = vs[i].ended /\ us[i].saw = vs[i].saw
    BY <1>1, AnnounceRows
<1> HIDE DEF us
<1>3. \A start : VisitAt(us, start) = VisitAt(vs, start) BY <1>2 DEF VisitAt
<1>4. ActiveOnes(us) = ActiveOnes(vs) BY <1>2 DEF ActiveOnes, Active
<1>5. Rows(us) BY <1>2 DEF Good, Rows
<1>6. Plans(us) BY <1>2 DEF Good, Plans
<1>7. Single(us) BY <1>2 DEF Good, Single
<1>8. Ahead(us) BY <1>2, <1>3 DEF Good, Ahead
<1>9. OneRoll(us) BY <1>2 DEF Good, OneRoll
<1>10. Good(us) BY <1>5, <1>6, <1>7, <1>8, <1>9 DEF Good
<1> QED BY <1>3, <1>4, <1>10 DEF us

LEMMA TickGood ==
    ASSUME Clock, NEW vs, Good(vs), NEW ws \in AfterActive(vs), NEW us \in AfterUpcoming(ws)
    PROVE  \A xs \in AfterActive(AnnouncedNow(us)) : Good(xs)
<1>1. Good(ws) /\ SlotRolled(ws) BY ActiveGood
<1>2. Good(us) BY <1>1, UpcomingGood
<1>3. Good(AnnouncedNow(us)) BY <1>2, AnnounceGood
<1> QED BY <1>3, ActiveGood

--------------------------------------------------------------------------------
(* What a request does to rows that are there: nothing but marks. *)

Grows(vs, us) ==
    /\ Len(vs) <= Len(us)
    /\ DOMAIN vs \subseteq DOMAIN us
    /\ \A i \in DOMAIN vs : us[i].source = vs[i].source /\ us[i].end = vs[i].end

LEMMA RolledGrows ==
    ASSUME NEW vs \in Seq(VisitRows), NEW start \in Nat, NEW us \in Rolled(vs, start)
    PROVE  us \in Seq(VisitRows) /\ Grows(vs, us)
<1>1. PICK kind \in Kinds : us = Append(vs, NewVisit(start, "schedule", kind, 0)) BY DEF Rolled
<1> DEFINE r == NewVisit(start, "schedule", kind, 0)
<1>2. r \in VisitRows BY NewRow
<1> HIDE DEF r
<1>3. us \in Seq(VisitRows) /\ Len(us) = Len(vs) + 1 /\ Len(vs) \in Nat
    BY <1>1, <1>2, AppendProperties, LenProperties DEF r
<1> QED BY <1>1, <1>2, <1>3, Appended DEF Grows, r

LEMMA RequestGrows ==
    ASSUME Clock, NEW vs \in Seq(VisitRows), NEW us \in AfterActive(vs) \cup AfterUpcoming(vs)
    PROVE  us \in Seq(VisitRows) /\ Grows(vs, us)
<1>1. CASE us = vs BY <1>1, LenProperties DEF Grows
<1>2. CASE us \in Rolled(vs, SlotStart) \/ us \in Rolled(vs, NextStart)
    BY <1>2, SlotFacts, RolledGrows
<1> QED BY <1>1, <1>2 DEF AfterActive, AfterUpcoming

LEMMA AnnounceGrows ==
    ASSUME NEW vs \in Seq(VisitRows)
    PROVE  AnnouncedNow(vs) \in Seq(VisitRows) /\ Grows(vs, AnnouncedNow(vs))
<1> DEFINE us == AnnouncedNow(vs)
<1>1. /\ us \in Seq(VisitRows) /\ DOMAIN us = DOMAIN vs
      /\ \A i \in DOMAIN vs : us[i].source = vs[i].source /\ us[i].end = vs[i].end
    BY AnnounceRows
<1> HIDE DEF us
<1>2. Len(us) = Len(vs) /\ Len(vs) \in Nat BY <1>1, LenProperties
<1> QED BY <1>1, <1>2 DEF Grows, us

LEMMA TickGrows ==
    ASSUME IInv, Tick \/ Look
    PROVE  visits' \in Seq(VisitRows) /\ Grows(visits, visits')
<1>1. Clock /\ visits \in Seq(VisitRows) BY DEF IInv, Good, Rows
<1>2. CASE Look
    <2>1. visits' \in AfterActive(visits) BY <1>2 DEF Look
    <2> QED BY <1>1, <2>1, RequestGrows
<1>3. CASE Tick
    <2>1. PICK us \in UNION {AfterUpcoming(vs) : vs \in AfterActive(visits)} :
             visits' \in AfterActive(AnnouncedNow(us))
        BY <1>3 DEF Tick, AfterTick
    <2>2. PICK ws \in AfterActive(visits) : us \in AfterUpcoming(ws) BY <2>1
    <2>3. ws \in Seq(VisitRows) /\ Grows(visits, ws) BY <1>1, <2>2, RequestGrows
    <2>4. us \in Seq(VisitRows) /\ Grows(ws, us) BY <1>1, <2>2, <2>3, RequestGrows
    <2> DEFINE xs == AnnouncedNow(us)
    <2>5. xs \in Seq(VisitRows) /\ Grows(us, xs) BY <2>4, AnnounceGrows
    <2>6. visits' \in Seq(VisitRows) /\ Grows(xs, visits') BY <1>1, <2>1, <2>5, RequestGrows
    <2> HIDE DEF xs
    <2>7. /\ Len(visits) \in Nat /\ Len(ws) \in Nat /\ Len(us) \in Nat
          /\ Len(xs) \in Nat /\ Len(visits') \in Nat
        BY <1>1, <2>3, <2>4, <2>5, <2>6, LenProperties
    <2>8. Grows(visits, us) BY <2>3, <2>4, <2>7 DEF Grows
    <2>9. Grows(us, visits') BY <2>5, <2>6, <2>7 DEF Grows
    <2> QED BY <2>6, <2>7, <2>8, <2>9 DEF Grows
<1> QED BY <1>2, <1>3

--------------------------------------------------------------------------------
(* The steps. *)

\* Rows that are over stay so, and what came later was not seen.
LEMMA AskedKept ==
    ASSUME IInv, now' \in Nat, now <= now', visits' \in Seq(VisitRows),
           Len(visits) <= Len(visits'),
           \A i \in DOMAIN visits : visits'[i].source = visits[i].source,
           \A i \in DOMAIN visits : visits[i].end <= now => visits'[i].end <= now',
           forcing' \subseteq forcing
    PROVE  Asked'
<1>1. /\ now \in Nat /\ visits \in Seq(VisitRows) /\ Len(visits) \in Nat /\ Len(visits') \in Nat
      /\ DOMAIN visits = 1 .. Len(visits) /\ DOMAIN visits' = 1 .. Len(visits')
    BY LenProperties DEF IInv, Clock, Good, Rows
<1>2. forcing' \subseteq [at : Nat, saw : Nat] BY DEF IInv, Asked
<1>3. ASSUME NEW r \in forcing'
      PROVE  /\ r.at <= now' /\ ~Even(r.at) /\ r.saw <= Len(visits')
             /\ \A i \in DOMAIN visits' :
                   i <= r.saw /\ visits'[i].source = "admin" => visits'[i].end <= now'
    <2>1. r \in forcing /\ r.at \in Nat /\ r.saw \in Nat BY <1>2
    <2>2. /\ r.at <= now /\ ~Even(r.at) /\ r.saw <= Len(visits)
          /\ \A i \in DOMAIN visits :
                i <= r.saw /\ visits[i].source = "admin" => visits[i].end <= now
        BY <2>1 DEF IInv, Asked
    <2>3. ASSUME NEW i \in DOMAIN visits', i <= r.saw, visits'[i].source = "admin"
          PROVE  visits'[i].end <= now'
        <3>1. i \in DOMAIN visits BY <1>1, <2>1, <2>2, <2>3
        <3>2. visits'[i].source = visits[i].source /\ (visits[i].end <= now => visits'[i].end <= now')
            BY <3>1
        <3> QED BY <2>2, <2>3, <3>1, <3>2
    <2> QED BY <1>1, <2>1, <2>2, <2>3
<1> QED BY <1>2, <1>3 DEF Asked

LEMMA NowKept ==
    ASSUME now' = now, NEW us, visits' = us
    PROVE  Good(us) <=> Good(visits)'
BY DEF Good, Rows, Plans, Single, Ahead, OneRoll, VisitAt, NextStart, SlotStart

LEMMA RequestGood ==
    ASSUME IInv, Tick \/ Look
    PROVE  Good(visits)' /\ Asked'
<1>1. now' = now BY DEF Tick, Look
<1>2. ASSUME Tick PROVE Good(visits)'
    <2>1. PICK xs \in AfterTick : visits' = xs BY <1>2 DEF Tick
    <2>2. PICK us \in UNION {AfterUpcoming(vs) : vs \in AfterActive(visits)} :
             xs \in AfterActive(AnnouncedNow(us))
        BY <2>1 DEF AfterTick
    <2>3. PICK ws \in AfterActive(visits) : us \in AfterUpcoming(ws) BY <2>2
    <2>4. Good(xs) BY <2>2, <2>3, TickGood DEF IInv
    <2>5. Good(xs) <=> Good(visits)' BY <1>1, <2>1, NowKept
    <2> QED BY <2>4, <2>5
<1>3. ASSUME Look PROVE Good(visits)'
    <2>1. PICK us \in AfterActive(visits) : visits' = us BY <1>3 DEF Look
    <2>2. Good(us) BY ActiveGood DEF IInv
    <2>3. Good(us) <=> Good(visits)' BY <1>1, <2>1, NowKept
    <2> QED BY <2>2, <2>3
<1>4. Asked'
    <2>1. visits' \in Seq(VisitRows) /\ Grows(visits, visits') BY TickGrows
    <2>2. forcing' = forcing /\ now \in Nat BY DEF Tick, Look, IInv, Clock
    <2> QED BY <1>1, <2>1, <2>2, AskedKept DEF Grows
<1> QED BY <1>2, <1>3, <1>4

\* Only what is ahead depends on the time, and it stays ahead within its slot.
LEMMA PassGood ==
    ASSUME IInv, Pass
    PROVE  IInv'
<1>1. /\ now' = now + 2 /\ visits' = visits /\ enabled' = enabled /\ forcing' = forcing
      /\ now \in Nat
    BY DEF Pass, IInv, Clock
<1>2. Clock' BY <1>1 DEF IInv, Clock, Even
<1>3. \A i \in DOMAIN visits : visits[i] \in VisitRows
    BY ElementOfSeq, LenProperties DEF IInv, Good, Rows
<1>4. Rows(visits)' BY <1>1 DEF IInv, Good, Rows
<1>5. Plans(visits)' BY <1>1, <1>3 DEF IInv, Good, Plans, VisitRows
<1>6. Single(visits)' BY <1>1, <1>3 DEF IInv, Good, Single, VisitRows
<1>7. OneRoll(visits)' BY <1>1 DEF IInv, Good, OneRoll
<1>8. Ahead(visits)'
    <2> SUFFICES ASSUME NEW i \in DOMAIN visits, visits[i].start > now'
                 PROVE  /\ visits[i].start = NextStart'
                        /\ now' < SlotStart' + Duration => VisitAt(visits, SlotStart)' # {}
        BY <1>1 DEF Ahead
    <2>1. visits[i].start \in Nat BY <1>3 DEF VisitRows
    <2>2. visits[i].start > now BY <1>1, <2>1
    <2>3. /\ visits[i].start = NextStart
          /\ now < SlotStart + Duration => VisitAt(visits, SlotStart) # {}
        BY <2>2 DEF IInv, Good, Ahead
    <2>4. SlotStart' = SlotStart /\ NextStart' = NextStart
        BY <1>1, <2>1, <2>3, SlotStays DEF IInv
    <2>5. SlotStart \in Nat /\ Duration \in Nat BY SlotFacts, VisitConstants DEF IInv
    <2> QED BY <1>1, <2>3, <2>4, <2>5 DEF VisitAt
<1>9. Asked'
    <2>1. visits \in Seq(VisitRows) /\ Len(visits) \in Nat BY LenProperties DEF IInv, Good, Rows
    <2>2. \A i \in DOMAIN visits : visits[i].end \in Nat BY <1>3 DEF VisitRows
    <2> QED BY <1>1, <2>1, <2>2, AskedKept
<1> QED BY <1>2, <1>4, <1>5, <1>6, <1>7, <1>8, <1>9 DEF IInv, Good

\* The first half of a forced visit: no visit of an administrator is to end.
LEMMA AskGood ==
    ASSUME IInv, AskForce
    PROVE  IInv'
<1>1. /\ now' = now /\ enabled' = enabled /\ visits' = visits
      /\ ActiveOnes(visits) = {} /\ now \in Nat /\ ~Even(now)
    BY DEF AskForce, MayForce, IInv, Clock
<1> DEFINE new == [at |-> now, saw |-> Len(visits)]
<1>2. forcing' = forcing \cup {new} BY DEF AskForce
<1>3. /\ visits \in Seq(VisitRows) /\ Len(visits) \in Nat
      /\ \A i \in DOMAIN visits : visits[i] \in VisitRows
    BY ElementOfSeq, LenProperties DEF IInv, Good, Rows
<1>4. new \in [at : Nat, saw : Nat] /\ new.at = now /\ new.saw = Len(visits) BY <1>1, <1>3
<1>5. \A i \in DOMAIN visits : visits[i].source = "admin" => visits[i].end <= now
    BY <1>1, <1>3 DEF ActiveOnes, Active, IInv, Good, Plans, VisitRows
<1> HIDE DEF new
<1>6. Asked' BY <1>1, <1>2, <1>3, <1>4, <1>5 DEF IInv, Asked
<1>7. Good(visits)' BY <1>1, NowKept DEF IInv
<1>8. Clock' BY <1>1 DEF IInv, Clock
<1> QED BY <1>6, <1>7, <1>8 DEF IInv

\* The second half: it meets no forced visit but one its look did not find.
LEMMA ForceGood ==
    ASSUME IInv, NEW r \in forcing, NEW kind \in Kinds, ForceVisit(r, kind)
    PROVE  Good(visits)' /\ Asked'
<1>1. now' = now /\ now \in Nat /\ forcing' \subseteq forcing
    BY DEF ForceVisit, IInv, Clock
<1>2. /\ visits \in Seq(VisitRows) /\ Len(visits) \in Nat
      /\ \A i \in DOMAIN visits : visits[i] \in VisitRows
      /\ DOMAIN visits = 1 .. Len(visits)
    BY ElementOfSeq, LenProperties DEF IInv, Good, Rows
<1>3. CASE visits' = visits
    <2>1. Asked' BY <1>1, <1>2, <1>3, AskedKept
    <2> QED BY <1>1, <1>3, <2>1, NowKept DEF IInv
<1>4. CASE visits' = Append(visits, NewVisit(r.at - 1, "admin", kind, r.saw))
    <2> DEFINE start == r.at - 1
               row == NewVisit(start, "admin", kind, r.saw)
    <2>1. r.at \in Nat /\ r.saw \in Nat /\ r.at <= now /\ ~Even(r.at)
        BY DEF IInv, Asked
    <2>2. start \in Nat /\ start <= now BY <1>1, <2>1 DEF Even
    <2>3. \A i \in DOMAIN visits :
             visits[i].end > now => visits[i].source # "admin" \/ r.saw < i
        <3>1. \A i \in DOMAIN visits :
                 i <= r.saw /\ visits[i].source = "admin" => visits[i].end <= now
            BY DEF IInv, Asked
        <3>2. \A i \in DOMAIN visits : i \in Nat /\ visits[i].end \in Nat BY <1>2 DEF VisitRows
        <3> QED BY <1>1, <2>1, <3>1, <3>2
    <2> HIDE DEF start
    <2>4. Good(Append(visits, row))
        BY <2>1, <2>2, <2>3, AppendGood DEF IInv
    <2>5. row \in VisitRows BY <2>1, <2>2, NewRow
    <2> HIDE DEF row
    <2>6. visits' = Append(visits, row) BY <1>4 DEF row, start
    <2>7. /\ visits' \in Seq(VisitRows) /\ Len(visits') = Len(visits) + 1
          /\ \A i \in DOMAIN visits : visits'[i] = visits[i]
        BY <1>2, <2>5, <2>6, Appended, AppendProperties
    <2>8. Asked' BY <1>1, <1>2, <2>7, AskedKept
    <2> QED BY <1>1, <2>4, <2>6, <2>8, NowKept
<1> QED BY <1>3, <1>4 DEF ForceVisit

\* A visit that is ended is over, and is moved out of the way of its slot only if
\* it was still ahead.
LEMMA EndGood ==
    ASSUME IInv, NEW k \in DOMAIN visits, End(k)
    PROVE  Good(visits)' /\ Asked'
<1>1. /\ now' = now /\ visits[k].end > now /\ now \in Nat /\ ~Even(now)
    BY DEF End, IInv, Clock
<1> DEFINE mark == IF visits[k].start > now THEN "before" ELSE "during"
           us == [visits EXCEPT ![k].ended = mark, ![k].start = StartOfEnded(k), ![k].end = now]
<1>2. visits' = us BY DEF End
<1>3. visits \in Seq(VisitRows) /\ \A i \in DOMAIN visits : visits[i] \in VisitRows
    BY ElementOfSeq, LenProperties DEF IInv, Good, Rows
<1>4. /\ us[k] = [visits[k] EXCEPT !.ended = mark, !.start = StartOfEnded(k), !.end = now]
      /\ \A i \in DOMAIN visits \ {k} : us[i] = visits[i]
      /\ DOMAIN us = DOMAIN visits
    OBVIOUS
<1>5. StartOfEnded(k) \in Nat /\ mark \in {"before", "during"}
    BY <1>1, <1>3 DEF StartOfEnded, VisitRows
<1>6. /\ us[k] \in VisitRows
      /\ us[k].start = StartOfEnded(k) /\ us[k].end = now /\ us[k].ended = mark
      /\ us[k].source = visits[k].source /\ us[k].planned = visits[k].planned
    <2> HIDE DEF us, mark
    <2> QED BY <1>1, <1>3, <1>4, <1>5 DEF VisitRows
<1>7. us \in Seq(VisitRows)
    <2>1. DOMAIN visits = 1 .. Len(visits) /\ Len(visits) \in Nat BY <1>3, LenProperties
    <2>2. \A i \in DOMAIN us : us[i] \in VisitRows BY <1>3, <1>4, <1>6
    <2>3. us = [i \in DOMAIN us |-> us[i]] OBVIOUS
    <2> HIDE DEF us
    <2>4. us \in [1 .. Len(visits) -> VisitRows] BY <1>4, <2>1, <2>2, <2>3
    <2> QED BY <2>1, <2>4, SeqDef
<1>8. mark = (IF visits[k].start > now THEN "before" ELSE "during")
      /\ StartOfEnded(k) = (IF visits[k].start > now THEN now ELSE visits[k].start)
    BY DEF StartOfEnded
<1>9. \A i \in DOMAIN visits : visits[i].start \in Nat /\ visits[i].end \in Nat
    BY <1>3 DEF VisitRows
<1>10. visits[k].ended = "no" BY <1>1, <1>3, <1>9 DEF IInv, Good, Plans, VisitRows
<1> HIDE DEF us, mark
<1>11. Rows(us)
    <2>1. ASSUME NEW i \in DOMAIN us, i # k
          PROVE  us[i] = visits[i] /\ i \in DOMAIN visits
        BY <1>4, <2>1
    <2>2. us[k].start <= us[k].end BY <1>1, <1>6, <1>8, <1>9
    <2> QED BY <1>7, <2>1, <2>2 DEF IInv, Good, Rows
<1>12. Plans(us)
    <2>1. ASSUME NEW i \in DOMAIN us, i # k
          PROVE  us[i] = visits[i] /\ i \in DOMAIN visits
        BY <1>4, <2>1
    <2>2. /\ us[k].ended # "before" => us[k].start = us[k].planned
          /\ us[k].ended = "before" => ~Even(us[k].start)
          /\ us[k].end <= now /\ us[k].start <= now
        BY <1>1, <1>6, <1>8, <1>9, <1>10 DEF IInv, Good, Plans
    <2> QED BY <2>1, <2>2 DEF IInv, Good, Plans
<1>13. Single(us)
    <2>1. ASSUME NEW i \in DOMAIN us, us[i].end > now
          PROVE  us[i] = visits[i] /\ i \in DOMAIN visits
        <3>1. i # k BY <1>1, <1>6, <2>1
        <3> QED BY <1>4, <3>1
    <2> QED BY <2>1 DEF IInv, Good, Single
<1>14. Ahead(us)
    <2> SUFFICES ASSUME NEW i \in DOMAIN us, us[i].start > now
                 PROVE  /\ us[i].start = NextStart
                        /\ now < SlotStart + Duration => VisitAt(us, SlotStart) # {}
        BY DEF Ahead
    <2>1. i # k BY <1>1, <1>6, <1>8, <1>9
    <2>2. us[i] = visits[i] /\ i \in DOMAIN visits BY <1>4, <2>1
    <2>3. VisitAt(visits, SlotStart) \subseteq VisitAt(us, SlotStart)
        <3>1. SlotStart \in Nat /\ SlotStart <= now BY SlotFacts DEF IInv
        <3>2. visits[k].start = SlotStart => us[k].start = SlotStart
            BY <1>1, <1>6, <1>8, <1>9, <3>1
        <3> QED BY <1>4, <3>2 DEF VisitAt
    <2> QED BY <2>2, <2>3 DEF IInv, Good, Ahead
<1>15. OneRoll(us)
    <2> SUFFICES ASSUME NEW i \in DOMAIN us, NEW j \in DOMAIN us, i < j,
                        us[i].source = "schedule", us[j].source = "schedule",
                        us[i].planned = us[j].planned
                 PROVE  us[i].ended = "before"
        BY DEF OneRoll
    <2>1. /\ visits[i].source = "schedule" /\ visits[j].source = "schedule"
          /\ visits[i].planned = visits[j].planned /\ i \in DOMAIN visits /\ j \in DOMAIN visits
        BY <1>4, <1>6
    <2>2. visits[i].ended = "before" BY <2>1 DEF IInv, Good, OneRoll
    <2> QED BY <1>4, <1>10, <2>2
<1>16. Good(us) BY <1>11, <1>12, <1>13, <1>14, <1>15 DEF Good
<1>17. Asked'
    <2>1. Len(us) = Len(visits)
        <3>1. DOMAIN us = 1 .. Len(us) /\ DOMAIN visits = 1 .. Len(visits)
              /\ Len(us) \in Nat /\ Len(visits) \in Nat
            BY <1>3, <1>7, LenProperties
        <3> DEFINE n == Len(us)
                   m == Len(visits)
        <3>2. n \in Nat /\ m \in Nat /\ 1 .. n = 1 .. m BY <1>4, <3>1
        <3> HIDE DEF n, m
        <3>3. n = m BY <3>2
        <3> QED BY <3>3 DEF n, m
    <2>2. \A i \in DOMAIN visits : us[i].source = visits[i].source
                                  /\ (visits[i].end <= now => us[i].end <= now)
        <3>1. us[k].end <= now BY <1>1, <1>6
        <3> QED BY <1>4, <1>6, <3>1
    <2>3. forcing' = forcing /\ Len(visits) \in Nat BY <1>3, LenProperties DEF End
    <2> QED BY <1>1, <1>2, <1>7, <2>1, <2>2, <2>3, AskedKept
<1> QED BY <1>1, <1>2, <1>16, <1>17, NowKept

LEMMA InitGood == Init => IInv
<1> SUFFICES ASSUME Init PROVE IInv OBVIOUS
<1>1. visits = <<>> /\ DOMAIN visits = {} /\ visits \in Seq(VisitRows) BY DEF Init
<1>2. Clock BY DEF Init, Clock, Even
<1>3. Good(visits)
    BY <1>1 DEF Good, Rows, Plans, Single, Ahead, OneRoll
<1>4. Asked BY DEF Init, Asked
<1> QED BY <1>2, <1>3, <1>4 DEF IInv

LEMMA NextGood == IInv /\ [Next]_vars => IInv'
<1> SUFFICES ASSUME IInv, [Next]_vars PROVE IInv' OBVIOUS
<1>1. CASE Pass BY <1>1, PassGood
<1>2. now' = now /\ enabled' \in BOOLEAN => Clock' BY DEF IInv, Clock
<1>3. CASE Tick \/ Look BY <1>2, <1>3, RequestGood DEF Tick, Look, IInv, Clock
<1>4. CASE \E r \in forcing, kind \in Kinds : ForceVisit(r, kind)
    BY <1>2, <1>4, ForceGood DEF ForceVisit, IInv, Clock
<1>5. CASE \E i \in DOMAIN visits : End(i)
    BY <1>2, <1>5, EndGood DEF End, IInv, Clock
<1>6. CASE Toggle \/ UNCHANGED vars
    <2>1. /\ now' = now /\ visits' = visits /\ enabled' \in BOOLEAN /\ forcing' = forcing
          /\ now \in Nat
        BY <1>6 DEF Toggle, vars, IInv, Clock
    <2>2. Good(visits)' BY <2>1, NowKept DEF IInv
    <2>3. visits \in Seq(VisitRows) /\ Len(visits) \in Nat BY LenProperties DEF IInv, Good, Rows
    <2>4. Asked' BY <2>1, <2>3, AskedKept
    <2> QED BY <1>2, <2>1, <2>2, <2>4 DEF IInv
<1>7. CASE AskForce BY <1>7, AskGood
<1> QED BY <1>1, <1>3, <1>4, <1>5, <1>6, <1>7 DEF Next

LEMMA Inductive == Spec => []IInv
BY InitGood, NextGood, PTL DEF Spec

\* The rows stay rows: no request gives a visit an end before its start, and
\* requests run between the full seconds.
THEOREM TypeCorrect == Spec => []TypeOK
<1>1. IInv => TypeOK BY DEF IInv, Clock, Good, Rows, Asked, TypeOK
<1> QED BY <1>1, Inductive, PTL

\* Whatever requests roll, force and end visits in whatever order, and whatever
\* the lengths of the schedule, two traders are there at once only if one of
\* them was forced, or both by requests of which the one that inserted last had
\* looked before the other inserted (trader_service.py:188-208, 289-293).
THEOREM TwoTradersOnlyByForce == Spec => []TwoOnlyByForce
<1>1. IInv => TwoOnlyByForce
    <2> SUFFICES ASSUME IInv, NEW i \in ActiveOnes(visits), NEW j \in ActiveOnes(visits), i < j
                 PROVE  \/ {visits[i].source, visits[j].source} = {"schedule", "admin"}
                        \/ visits[j].source = "admin" /\ visits[j].saw < i
        BY DEF TwoOnlyByForce
    <2>1. \A k \in DOMAIN visits : visits[k] \in VisitRows
        BY ElementOfSeq, LenProperties DEF IInv, Good, Rows
    <2>2. /\ i \in DOMAIN visits /\ visits[i].end > now
          /\ j \in DOMAIN visits /\ visits[j].end > now
        BY <2>1 DEF ActiveOnes, Active, IInv, Clock, VisitRows
    <2>3. \/ visits[i].source # visits[j].source
          \/ visits[j].source = "admin" /\ visits[j].saw < i
        BY <2>2 DEF IInv, Good, Single
    <2>4. visits[i].source \in {"schedule", "admin"} /\ visits[j].source \in {"schedule", "admin"}
        BY <2>1, <2>2 DEF VisitRows
    <2> QED BY <2>3, <2>4
<1> QED BY <1>1, Inductive, PTL

\* A slot is rolled once, unless its visit was ended in advance
\* (trader_service.py:204-206, 227, 282).
THEOREM OneVisitPerSlot == Spec => []OneRollPerSlot
<1>1. IInv => OneRollPerSlot BY DEF IInv, Good, OneRoll, OneRollPerSlot
<1> QED BY <1>1, Inductive, PTL

--------------------------------------------------------------------------------
(* What a tick leaves. *)

\* A visit rolled in advance is not there yet.
LEMMA UpcomingKeeps ==
    ASSUME Clock, NEW vs, Good(vs), ActiveOnes(vs) = {}, NEW us \in AfterUpcoming(vs)
    PROVE  /\ ActiveOnes(us) = {}
           /\ \A start : VisitAt(vs, start) \subseteq VisitAt(us, start)
<1>1. CASE us = vs BY <1>1
<1>2. CASE us \in Rolled(vs, NextStart)
    <2>1. PICK kind \in Kinds : us = Append(vs, NewVisit(NextStart, "schedule", kind, 0))
        BY <1>2 DEF Rolled
    <2> DEFINE r == NewVisit(NextStart, "schedule", kind, 0)
               k == Len(vs) + 1
    <2>2. r \in VisitRows /\ r.start = NextStart BY SlotFacts, NewRow
    <2> HIDE DEF r
    <2>3. /\ DOMAIN us = DOMAIN vs \cup {k} /\ us[k] = r
          /\ \A i \in DOMAIN vs : us[i] = vs[i]
        BY <2>1, <2>2, Appended DEF Good, Rows, r
    <2> HIDE DEF k
    <2>4. ~(us[k].start <= now) BY <2>2, <2>3, SlotFacts DEF Clock
    <2> QED BY <2>3, <2>4 DEF ActiveOnes, Active, VisitAt
<1> QED BY <1>1, <1>2 DEF AfterUpcoming

\* One of the active visits started last.
LEMMA LatestExists ==
    ASSUME Clock, NEW vs, Good(vs), ActiveOnes(vs) # {}
    PROVE  Latest(vs) # {}
<1> DEFINE D == DOMAIN vs
           A == ActiveOnes(vs)
           after(i) == {j \in A : vs[j].start > vs[i].start}
           B == {after(i) : i \in A}
<1>1. vs \in Seq(VisitRows) /\ \A i \in D : vs[i].start \in Nat
    <2>1. vs \in Seq(VisitRows) BY DEF Good, Rows
    <2>2. \A i \in DOMAIN vs : vs[i] \in VisitRows BY <2>1, ElementOfSeq, LenProperties
    <2> QED BY <2>1, <2>2 DEF VisitRows
<1>2. IsFiniteSet(D)
    <2>1. D = 1 .. Len(vs) /\ Len(vs) \in Nat BY <1>1, LenProperties
    <2> QED BY <2>1, FS_Interval
<1>3. A \subseteq D BY DEF ActiveOnes
<1>4. B \subseteq SUBSET D /\ B # {} BY <1>3
<1>5. \E T \in B : \A U \in SUBSET T : U # T => U \notin B
    <2> HIDE DEF B, D
    <2> QED BY <1>2, <1>4, LeastSet
<1>6. PICK i \in A : \A U \in SUBSET after(i) : U # after(i) => U \notin B BY <1>5
<1>7. \A j \in A : vs[j].start <= vs[i].start
    <2> SUFFICES ASSUME NEW j \in A, ~(vs[j].start <= vs[i].start) PROVE FALSE OBVIOUS
    <2>1. vs[j].start > vs[i].start BY <1>1, <1>3
    <2>2. after(j) \in SUBSET after(i) BY <1>1, <1>3, <2>1
    <2>3. j \in after(i) /\ j \notin after(j) BY <1>1, <1>3, <2>1
    <2>4. after(j) \in B OBVIOUS
    <2> HIDE DEF after, B, A
    <2> QED BY <1>6, <2>2, <2>3, <2>4
<1> QED BY <1>7 DEF Latest

\* After a tick in a slot the trader is there and announced, or has been
\* (trader_service.py:188-208, 590-600).
THEOREM TicksBringTheTrader == Spec => []TickBringsTrader
<1>1. IInv => TickBringsTrader
    <2> SUFFICES ASSUME IInv, enabled, now < SlotStart + Duration,
                        NEW ws \in AfterActive(visits), NEW us \in AfterUpcoming(ws),
                        NEW vs \in AfterActive(AnnouncedNow(us))
                 PROVE  \/ \E i \in ActiveOnes(vs) : vs[i].arrived
                        \/ \E i \in DOMAIN vs : vs[i].planned = SlotStart /\ vs[i].end <= now
        BY DEF TickBringsTrader, AfterTick
    <2>1. Clock /\ Good(ws) /\ SlotRolled(ws) BY ActiveGood DEF IInv
    <2>2. SlotIsOn BY DEF SlotIsOn
    <2>3. Good(us) BY <2>1, UpcomingGood
    <2> DEFINE xs == AnnouncedNow(us)
    <2>4. /\ Good(xs) /\ ActiveOnes(xs) = ActiveOnes(us)
          /\ \A start : VisitAt(xs, start) = VisitAt(us, start)
        BY <2>3, AnnounceGood
    <2>5. us \in Seq(VisitRows) BY <2>3 DEF Good, Rows
    <2>6. CASE ActiveOnes(ws) # {}
        <3>1. us = ws BY <2>6 DEF AfterUpcoming
        <3>2. vs = xs BY <2>4, <2>6, <3>1 DEF AfterActive
        <3>3. PICK i : i \in Latest(us) BY <2>1, <2>6, <3>1, LatestExists
        <3>4. i \in ActiveOnes(us) /\ i \in DOMAIN us BY <3>3 DEF Latest, ActiveOnes
        <3>5. xs[i].arrived BY <2>5, <3>3, <3>4, AnnounceRows
        <3> QED BY <2>4, <3>2, <3>4, <3>5
    <2>7. CASE ActiveOnes(ws) = {}
        <3>1. VisitAt(ws, SlotStart) # {} BY <2>1, <2>2, <2>7 DEF SlotRolled
        <3>2. /\ VisitAt(us, SlotStart) # {}
              /\ ActiveOnes(us) = {}
            BY <2>1, <2>7, <3>1, UpcomingKeeps
        <3>3. vs = xs BY <2>4, <3>2 DEF AfterActive
        <3>4. PICK i \in DOMAIN xs : xs[i].start = SlotStart BY <2>4, <3>2 DEF VisitAt
        <3>5. xs[i] \in VisitRows BY <2>4, ElementOfSeq, LenProperties DEF Good, Rows
        <3>6. SlotStart <= now /\ SlotStart \in Nat /\ now \in Nat /\ Even(SlotStart)
            BY <2>1, SlotFacts DEF Clock
        <3>7. xs[i].end <= now
            BY <2>4, <3>2, <3>4, <3>5, <3>6 DEF ActiveOnes, Active, VisitRows
        <3>8. xs[i].planned = SlotStart BY <2>4, <3>4, <3>6 DEF Good, Plans
        <3> QED BY <3>3, <3>4, <3>7, <3>8
    <2> QED BY <2>6, <2>7
<1> QED BY <1>1, Inductive, PTL
================================================================================
