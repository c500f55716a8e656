---------------------------------- MODULE Realm ----------------------------------
(***************************************************************************)
(* Nations, their treasuries and their alliance together, and the one      *)
(* request that touches all three: the leader disbands the nation          *)
(* (services/nation_service.py).                                           *)
(*                                                                         *)
(* The requests of a behaviour come from one of the mixes, each with a     *)
(* realm to start from: "members" (who belongs to a nation), "money",      *)
(* "free" (no alliance yet), "alliance" and "council" (an alliance with an *)
(* open proposal).                                                         *)
(***************************************************************************)
EXTENDS Alliances

CONSTANTS
    Mixes,      \* those of this instance
    Leader,     \* Leader[m][n]: who leads nation n at first, None if it is not there
    Officers,   \* Officers[m][n]
    Pact,       \* Pact[m]: the allies at first
    Founder,    \* and the one who founded the alliance
    Opened      \* the proposals a council starts with

\* Who belongs to nation n at first.
Core(m, n) == (Officers[m][n] \cup {Leader[m][n]}) \ {None}

ASSUME RealmConstants ==
    /\ Mixes \subseteq {"members", "money", "free", "alliance", "council"}
    /\ Leader \in [Mixes -> [Nations -> Users \cup {None}]]
    /\ Officers \in [Mixes -> [Nations -> SUBSET Users]]
    /\ \A m \in Mixes : \A n, k \in Nations :
          /\ Leader[m][n] = None => Officers[m][n] = {}
          /\ n # k => Core(m, n) \cap Core(m, k) = {}
    /\ \A m \in Mixes : Pact[m] \subseteq {n \in Nations : Leader[m][n] # None}
    /\ \A m \in Mixes \ {"free"} : Founder \in Pact[m]
    /\ "free" \in Mixes => Pact["free"] = {}
    /\ \A m \in Opened : m \in [status : {"open"}, execution : {"pending"}, by : Nations, what : Motions]

VARIABLE mix

vars == <<nations, begun, money, leagues, mix>>

--------------------------------------------------------------------------------
(* disband_current_nation *)

Founds(n) == pact = "alive" /\ founder = n

\* The founder's alliance goes first, if it has no other members.
Disband(w, u, n) ==
    /\ Home(u, n) /\ role[n][u] = "leader"
    /\ Founds(n) => allies = {n}
    /\ Begin(w, Request(IF Founds(n) THEN "dissolve" ELSE "disband", n, u))

\* Mutant of Restricted: the alliance goes with its founder.
RestrictedNot(n) == FALSE
\* ON DELETE RESTRICT: an alliance holds its founder.
Restricted(n) == Founds(n)

Bereft(n) ==
    /\ allies' = allies \ {n}
    /\ votes' = IF motion.by = n THEN NoVotes ELSE [votes EXCEPT ![n] = "none"]
    /\ motion' = IF motion.by = n THEN NoMotion ELSE motion
    /\ UNCHANGED <<pact, founder, seat, common>>

CommitDisband(w) ==
    LET n == job[w].nation IN
    /\ job[w].kind \in {"disband", "dissolve"}
    /\ n \in Alive => lock[n] = None
    /\ IF job[w].kind = "dissolve" THEN Gone
       ELSE ~Restricted(n) /\ Bereft(n)
    /\ life' = [life EXCEPT ![n] = "gone"]
    /\ role' = [role EXCEPT ![n] = [u \in Users |-> "none"]]
    /\ asked' = [asked EXCEPT ![n] = {}]
    /\ job' = [job EXCEPT ![w] = NoJob]
    /\ UNCHANGED <<row, head, begun, crossed, doubled, misled, money, deal, commonLedger, commonBlurred, mix>>

--------------------------------------------------------------------------------
Init ==
    /\ mix \in Mixes
    /\ life = [n \in Nations |-> IF Leader[mix][n] = None THEN "free" ELSE "alive"]
    /\ role = [n \in Nations |-> [u \in Users |->
                 IF u = Leader[mix][n] THEN "leader" ELSE IF u \in Officers[mix][n] THEN "officer" ELSE "none"]]
    /\ row = [n \in Nations |-> [u \in Users |-> IF role[n][u] = "none" THEN 0 ELSE 1]]
    /\ head = Leader[mix]
    /\ asked = [n \in Nations |-> {}]
    /\ job = [w \in Workers |-> NoJob]
    /\ begun = 0 /\ crossed = {} /\ doubled = {} /\ misled = {}
    /\ treasury = [n \in Nations |-> IF Leader[mix][n] = None THEN 0 ELSE 2] /\ ledger = treasury
    /\ fees = [n \in Nations |-> 0]
    /\ level = [n \in Nations |-> 0] /\ capital = {} /\ interestOn = [n \in Nations |-> 0]
    /\ seasonOn = 0 /\ week = 1
    /\ lock = [n \in Nations |-> None] /\ deed = [w \in Workers |-> NoDeed]
    /\ blurred = {} /\ again = {} /\ overlapped = {}
    /\ pact = (IF mix = "free" THEN "free" ELSE "alive")
    /\ founder = (IF mix = "free" THEN None ELSE Founder)
    /\ allies = Pact[mix]
    /\ seat = [n \in Nations |-> IF n \in Pact[mix] THEN 1 ELSE 0]
    /\ common = 0 /\ votes = NoVotes
    /\ motion \in (IF mix = "council" THEN Opened ELSE {NoMotion})
    /\ deal = [w \in Workers |-> NoDeal]
    /\ commonLedger = 0 /\ commonBlurred = FALSE

Membership(w) ==
    /\ \/ mix = "members" /\ MembershipRequest(w)
       \/ EndMembershipRequest(w)
       \/ mix # "money" /\ \E n \in Nations, u \in Users : Disband(w, u, n)
    /\ UNCHANGED <<money, leagues, mix>>

Money(w) ==
    /\ (mix = "money" /\ MoneyRequest(w)) \/ EndMoneyRequest(w)
    /\ UNCHANGED <<nations, leagues, mix>>

Diplomacy(w) ==
    \/ /\ \/ mix # "members" /\ \E n \in Nations, m \in Nations, amount \in Amounts : Pay(w, n, m, amount)
          \/ mix \in {"free", "alliance", "council"} /\ AllianceRequest(w)
       /\ UNCHANGED <<nations, money, mix>>
    \/ EndAllianceRequest(w) /\ UNCHANGED <<nations, deed, mix>>

Time == mix = "money" /\ NextWeek /\ UNCHANGED <<nations, leagues, mix>>

Market ==
    /\ mix = "money" /\ \E n \in Nations, amount \in Amounts : MarketFee(n, amount)
    /\ UNCHANGED <<nations, leagues, mix>>

Next ==
    \/ \E w \in Workers : Membership(w) \/ CommitDisband(w) \/ Money(w) \/ Diplomacy(w)
    \/ Time \/ Market

Spec == Init /\ [][Next]_vars
--------------------------------------------------------------------------------
\* What the variables hold.
TypeOK ==
    /\ life \in [Nations -> {"free", "alive", "gone"}]
    /\ role \in [Nations -> [Users -> Roles]]
    /\ row \in [Nations -> [Users -> 0..(MaxRequests + 1)]]
    /\ head \in [Nations -> Users \cup {None}] /\ asked \in [Nations -> SUBSET Users]
    /\ treasury \in [Nations -> Int] /\ lock \in [Nations -> Workers \cup {None}]
    /\ level \in [Nations -> 0..MaxLevel] /\ capital \subseteq Nations
    /\ interestOn \in [Nations -> 0..MaxWeek] /\ seasonOn \in 0..MaxWeek
    /\ pact \in {"free", "alive", "gone"} /\ seat \in [Nations -> 0..(MaxRequests + 1)]
    /\ motion.status \in {"none", "open", "approved", "rejected", "executed", "expired"}
    /\ motion.execution \in {"pending", "executed", "failed", "skipped"}

\* Every nation has one leader, the one it names, and every user one nation at
\* most, unless a change of leader met another change of the same member, the game
\* server passed the leader over, or the user was admitted twice at once: nothing in
\* nation_service.py or game_sync_service.py keeps these apart.
LeadersStay ==
    /\ \A n \in Alive \ (crossed \cup misled) : {u \in Users : role[n][u] = "leader"} = {head[n]}
    /\ \A u \in Users \ doubled : Cardinality(Homes(u)) <= 1

\* An alliance that stands has its founder, and only nations that stand, whatever
\* joins, leaves, is voted out or disbanded meanwhile: leave_alliance and
\* disband_current_nation decide on members they read earlier.
AllianceWhole ==
    /\ pact = "alive" => founder \in allies
    /\ allies \subseteq Alive
    /\ pact # "alive" => allies = {} /\ motion = NoMotion

\* A treasury is what its transactions but the fees of the players' market add up
\* to, unless one of the writers that take no lock wrote over a change it had not
\* read.  Those who read FOR UPDATE never lose a change.
LedgerAgrees ==
    /\ \A n \in Alive \ blurred : treasury[n] = ledger[n] - fees[n]
    /\ pact = "alive" /\ ~commonBlurred => common = commonLedger

\* A prize, a week's interest, a level of research and a proposal are granted, paid
\* or executed twice only if two requests were at it at the same time.
RewardsOnce == again \subseteq overlapped

\* What was executed stays so, whatever late votes find and though its author leaves:
\* only a request that was about to write the proposal when it was executed marks
\* it as skipped (alliance_service.py).
ExecutedStays ==
    [][motion.execution = "executed" /\ motion' # NoMotion
        => motion'.execution = "executed" \/ <<"motion", None>> \in overlapped]_vars
================================================================================
