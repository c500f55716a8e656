--------------------------------- MODULE Nations ---------------------------------
(***************************************************************************)
(* Nations and who belongs to them: services/nation_service.py and the     *)
(* membership that a game server sends (services/game_sync_service.py).    *)
(*                                                                         *)
(* Nothing is locked.  A request reads the nation with its members, checks *)
(* what it read (Begin), and writes at its commit, in one flush (Commit).  *)
(* What holds it up there is the database: an UPDATE of a row that is gone *)
(* fails the request (StaleDataError), so does a second row of a unique    *)
(* key or a row of a nation that is gone; a DELETE of a row that is gone   *)
(* does nothing.  An attribute that keeps its value is not written.        *)
(***************************************************************************)
EXTENDS Integers, FiniteSets

CONSTANTS
    Nations,        \* slugs; one that was disbanded is not taken again
    Users,
    Workers,        \* bounds the requests of one kind that run at once
    MaxRequests,    \* bounds the requests of a behaviour
    None

ASSUME NationsConstants == None \notin Nations \cup Users \cup Workers /\ MaxRequests \in Nat

VARIABLES
    life,       \* of a nation: "free", "alive", "gone"
    role,       \* role[n][u] of NationMember, "none" without a row
    row,        \* which row it is: they are numbered for each nation and user
    head,       \* leader_user_id
    asked,      \* the users with a pending join request
    job,        \* the requests under way
    begun,      \* requests so far, of all kinds
    crossed,    \* history: nations in which a change of leader met another change
    doubled,    \* history: users who were admitted twice at once
    misled      \* history: nations of which the game server's picture passed the leader over

members == <<life, role, row, head, asked>>
nations == <<members, job, crossed, doubled, misled>>

Roles == {"none", "member", "officer", "leader"}
Same == [u \in Users |-> "same"]

\* plan: what becomes of each user's row; new: those who get a row; rows: the rows
\* as they were read; misled: the picture passes the leader over.
NoJob == [kind |-> "none", nation |-> None, user |-> None, plan |-> Same, new |-> {},
          rows |-> [u \in Users |-> 0], head |-> None, misled |-> FALSE]

Alive == {n \in Nations : life[n] = "alive"}
Homes(u) == {n \in Alive : role[n][u] # "none"}

\* A user found in two nations is refused everything.
Home(u, n) == Homes(u) = {n}
Manages(u, n) == Home(u, n) /\ role[n][u] \in {"leader", "officer"}

\* Over officers only the leader has power, over the leader nobody.
Outranks(a, n, t) ==
    /\ role[n][t] \in {"officer", "member"}
    /\ role[n][t] = "officer" => role[n][a] = "leader"

--------------------------------------------------------------------------------
(* Requests begin. *)

Counted == begun < MaxRequests /\ begun' = begun + 1

Begin(w, j) ==
    /\ job[w] = NoJob
    /\ Counted
    /\ job' = [job EXCEPT ![w] = j]
    /\ UNCHANGED <<members, crossed, doubled, misled>>

Request(kind, n, u) == [NoJob EXCEPT !.kind = kind, !.nation = n, !.user = u, !.rows = row[n]]

Admission(kind, n, u, as) == [Request(kind, n, u) EXCEPT !.plan[u] = as, !.new = {u}]

Create(w, u, n) ==
    /\ Homes(u) = {}
    /\ life[n] = "free"
    /\ Begin(w, Admission("create", n, u, "leader"))

\* Mutant of MayLeave: the leader may leave as well.
MayLeaveAlways(u, n) == TRUE
MayLeave(u, n) == role[n][u] # "leader"

Leave(w, u, n) ==
    /\ Home(u, n)
    /\ MayLeave(u, n)
    /\ Begin(w, [Request("leave", n, u) EXCEPT !.plan[u] = "none"])

\* A nation's recruitment policy changes at will: both ways in are open.
MayApply(u, n) == Homes(u) = {} /\ n \in Alive /\ u \notin asked[n]

Join(w, u, n) == MayApply(u, n) /\ Begin(w, Admission("join", n, u, "member"))

Ask(w, u, n) == MayApply(u, n) /\ Begin(w, Request("ask", n, u))

Approve(w, a, n, u) ==
    /\ Manages(a, n) /\ u \in asked[n] /\ Homes(u) = {}
    /\ Begin(w, Admission("approve", n, u, "member"))

Reject(w, a, n, u) ==
    /\ Manages(a, n) /\ u \in asked[n]
    /\ Begin(w, Request("reject", n, u))

SetRole(w, a, n, t, as) ==
    /\ Manages(a, n) /\ Outranks(a, n, t) /\ role[n][t] # as
    /\ Begin(w, [Request("role", n, t) EXCEPT !.plan[t] = as])

Remove(w, a, n, t) ==
    /\ Manages(a, n) /\ Outranks(a, n, t)
    /\ Begin(w, [Request("remove", n, t) EXCEPT !.plan[t] = "none"])

Keep(was, as) == IF was = as THEN "same" ELSE as

TransferLeadership(w, a, n, t) ==
    /\ Home(a, n) /\ role[n][a] = "leader"
    /\ t # a /\ role[n][t] # "none"
    /\ Begin(w, [Request("transfer", n, t) EXCEPT
                    !.plan = [Same EXCEPT ![a] = "officer", ![t] = Keep(role[n][t], "leader")],
                    !.head = IF head[n] = t THEN None ELSE t])

\* Nobody hands over: a picture without a leader changes the leader's row, or one
\* with another leader leaves it alone.
PassesOver(n, leader, plan) ==
    \E u \in Users \ {leader} :
        /\ role[n][u] = "leader"
        /\ IF leader = None THEN plan[u] # "same" ELSE plan[u] = "same"

\* The game server's picture of a nation.  It need not name a leader, and need not
\* replace the members it leaves out.  A leader who is no member yet would get two
\* rows, which fails.
Sync(w, n, leader, officers, others, replace) ==
    LET named == officers \cup others \cup ({leader} \ {None})
        Wanted(u) == IF u = leader THEN "leader" ELSE IF u \in officers THEN "officer"
                     ELSE IF u \in others THEN "member" ELSE "none"
        plan == [u \in Users |-> IF u \in named \/ replace THEN Keep(role[n][u], Wanted(u)) ELSE "same"]
    IN
    /\ named # {}
    /\ leader # None => role[n][leader] # "none"
    /\ Begin(w, [Request("sync", n, None) EXCEPT
                    !.plan = plan,
                    !.new = {u \in named : role[n][u] = "none"},
                    !.head = IF leader = head[n] THEN None ELSE leader,
                    !.misled = PassesOver(n, leader, plan)])

--------------------------------------------------------------------------------
(* Requests end. *)

Abort(w) ==
    /\ job[w] # NoJob
    /\ job' = [job EXCEPT ![w] = NoJob]
    /\ UNCHANGED <<members, begun, crossed, doubled, misled>>

Touched(j) == {u \in Users : j.plan[u] # "same"}

\* Two requests that change the same member, one of them the leadership.
Crosses(a, b) ==
    /\ a.nation = b.nation
    /\ {a.kind, b.kind} \cap {"transfer", "sync"} # {}
    /\ Touched(a) \cap Touched(b) # {}

\* Every row to be written is there, and is the one that was read.
Fits(j) ==
    \A u \in Touched(j) :
        \/ j.plan[u] = "none"
        \/ IF u \in j.new THEN role[j.nation][u] = "none"
           ELSE role[j.nation][u] # "none" /\ row[j.nation][u] = j.rows[u]

NewRole(j, u) ==
    CASE j.plan[u] = "same" -> role[j.nation][u]
      [] j.plan[u] = "none" -> IF row[j.nation][u] = j.rows[u] THEN "none" ELSE role[j.nation][u]
      [] OTHER -> j.plan[u]

\* Another request admits the user as well; the game server does not ask whose
\* members it names.
Twice(w, u) ==
    \/ \E o \in Workers \ {w} : u \in job[o].new
    \/ job[w].kind = "sync" /\ Homes(u) # {}

Write(w) ==
    LET j == job[w] IN
    /\ Fits(j)
    /\ role' = [role EXCEPT ![j.nation] = [u \in Users |-> NewRole(j, u)]]
    /\ row' = [row EXCEPT ![j.nation] =
                  [u \in Users |-> row[j.nation][u] + (IF u \in j.new THEN 1 ELSE 0)]]
    /\ doubled' = doubled \cup {u \in j.new : Twice(w, u)}
    /\ crossed' = IF \E o \in Workers \ {w} : Crosses(j, job[o])
                  THEN crossed \cup {j.nation} ELSE crossed
    /\ misled' = IF j.misled THEN misled \cup {j.nation} ELSE misled
    /\ job' = [job EXCEPT ![w] = NoJob]
    /\ UNCHANGED begun

CommitCreate(w) ==
    LET j == job[w] IN
    /\ j.kind = "create" /\ life[j.nation] = "free"
    /\ life' = [life EXCEPT ![j.nation] = "alive"]
    /\ head' = [head EXCEPT ![j.nation] = j.user]
    /\ Write(w)
    /\ UNCHANGED asked

CommitMembers(w) ==
    LET j == job[w] IN
    /\ j.kind \in {"leave", "join", "approve", "role", "remove", "transfer", "sync"}
    /\ j.nation \in Alive
    /\ Write(w)
    /\ head' = IF j.head = None THEN head ELSE [head EXCEPT ![j.nation] = j.head]
    /\ asked' = IF j.kind = "approve" THEN [asked EXCEPT ![j.nation] = @ \ {j.user}] ELSE asked
    /\ UNCHANGED life

CommitApplication(w) ==
    LET j == job[w] IN
    /\ j.kind \in {"ask", "reject"} /\ j.nation \in Alive
    /\ asked' = [asked EXCEPT ![j.nation] =
                    IF j.kind = "ask" THEN @ \cup {j.user} ELSE @ \ {j.user}]
    /\ job' = [job EXCEPT ![w] = NoJob]
    /\ UNCHANGED <<life, role, row, head, begun, crossed, doubled, misled>>

--------------------------------------------------------------------------------
GameServerRequest(w) ==
    /\ job[w] = NoJob /\ begun < MaxRequests
    /\ \E n \in Alive, leader \in Users \cup {None}, replace \in BOOLEAN :
          \E officers \in SUBSET (Users \ {leader}) :
              \E others \in SUBSET (Users \ ({leader} \cup officers)) :
                  Sync(w, n, leader, officers, others, replace)

MembershipRequest(w) ==
    \/ GameServerRequest(w)
    \/ \E n \in Nations, u \in Users :
        \/ Create(w, u, n) \/ Leave(w, u, n) \/ Join(w, u, n) \/ Ask(w, u, n)
        \/ \E t \in Users :
              \/ Approve(w, u, n, t) \/ Reject(w, u, n, t)
              \/ \E as \in {"member", "officer"} : SetRole(w, u, n, t, as)
              \/ Remove(w, u, n, t) \/ TransferLeadership(w, u, n, t)

EndMembershipRequest(w) ==
    CommitCreate(w) \/ CommitMembers(w) \/ CommitApplication(w) \/ Abort(w)
================================================================================
