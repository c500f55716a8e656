-------------------------------- MODULE Alliances --------------------------------
(***************************************************************************)
(* One alliance of nations: services/alliance_service.py.                  *)
(*                                                                         *)
(* Its members found, join and leave it, pay each other, and vote on a     *)
(* proposal, which the vote that decides it executes.  Nothing is locked   *)
(* here either: a request reads (the requests below; a vote reads again at *)
(* Cast, after its own row was flushed) and writes at its commit, where    *)
(* the database holds up what no longer fits, as in Nations.               *)
(***************************************************************************)
EXTENDS Treasuries

VARIABLES
    pact,       \* of the alliance: "free", "alive", "gone"
    founder,    \* founder_nation_id
    allies,     \* the nations with an AllianceMember
    seat,       \* which row that is: they are numbered for each nation
    common,     \* treasury_balance of the alliance
    motion,     \* the proposal; a behaviour has one at a time
    votes,      \* votes[n] on it, "none" without a row
    deal,       \* the requests under way
    commonLedger,   \* history: what the fees add up to
    commonBlurred   \* history: the common balance was written from an older one

league == <<pact, founder, allies, seat, common, motion, votes>>
leagues == <<league, deal, commonLedger, commonBlurred>>

Nothing == [act |-> "none", from |-> None, to |-> None, amount |-> 0]
NoMotion == [status |-> "none", execution |-> "pending", by |-> None, what |-> Nothing]
NoVotes == [n \in Nations |-> "none"]

\* does: what becomes of members and balances; status, execution: of the proposal,
\* "same" when they are not written; votes, row, seen, common: as they were read;
\* about: whose proposal that was (a nation's proposals go with it).
NoDeal == [kind |-> "none", by |-> None, vote |-> "none", cast |-> FALSE, does |-> Nothing,
           status |-> "same", execution |-> "same", what |-> Nothing,
           votes |-> NoVotes, about |-> None, row |-> 0, seen |-> [n \in Nations |-> 0], common |-> 0]

\* The fee has a rate of one half, like the tax.
Fee(amount) == Half(amount)

CanAct(n) == n \in Alive /\ \E u \in Users : role[n][u] \in {"leader", "officer"}
IsAlly(n) == pact = "alive" /\ n \in allies

--------------------------------------------------------------------------------
(* Requests begin. *)

BeginDeal(w, n, d) ==
    /\ deal[w] = NoDeal
    /\ CanAct(n)
    /\ Counted
    /\ deal' = [deal EXCEPT ![w] = [d EXCEPT !.by = n, !.seen = treasury, !.common = common]]
    /\ UNCHANGED <<league, commonLedger, commonBlurred>>

Change(act, from, to, amount) == [act |-> act, from |-> from, to |-> to, amount |-> amount]

Found(w, n) == n \notin allies /\ pact = "free" /\ BeginDeal(w, n, [NoDeal EXCEPT !.kind = "found"])

JoinAlliance(w, n) ==
    /\ pact = "alive" /\ n \notin allies
    /\ BeginDeal(w, n, [NoDeal EXCEPT !.kind = "join", !.does = Change("add", None, n, 0)])

\* The last but one takes the alliance along.
Dissolve(w, n) ==
    /\ IsAlly(n) /\ Cardinality(allies) <= 2
    /\ BeginDeal(w, n, [NoDeal EXCEPT !.kind = "dissolve"])

\* Mutant of Expires: also one that was decided.
ExpiresDecided(n) == motion.by = n
\* A proposal of one's own expires with the membership.
Expires(n) == motion.by = n /\ motion.status = "open"

LeaveAlliance(w, n) ==
    /\ IsAlly(n) /\ Cardinality(allies) > 2 /\ n # founder
    /\ BeginDeal(w, n,
          [NoDeal EXCEPT !.kind = "leave", !.does = Change("remove", None, n, 0),
                         !.row = seat[n], !.votes = votes, !.about = motion.by,
                         !.status = IF Expires(n) THEN "expired" ELSE "same",
                         !.execution = IF Expires(n) THEN "skipped" ELSE "same"])

Propose(w, n, what) ==
    /\ IsAlly(n)
    /\ BeginDeal(w, n, [NoDeal EXCEPT !.kind = "propose", !.what = what])

\* A nation outside applies: a proposal to admit it.
ApplyToAlliance(w, n) ==
    /\ pact = "alive" /\ n \notin allies
    /\ BeginDeal(w, n, [NoDeal EXCEPT !.kind = "propose", !.what = Change("add", None, n, 0)])

Pay(w, n, to, amount) ==
    /\ IsAlly(n) /\ IsAlly(to) /\ n # to
    /\ treasury[n] >= amount
    /\ BeginDeal(w, n, [NoDeal EXCEPT !.kind = "pay", !.does = Change("transfer", n, to, amount)])

Vote(w, n, vote) ==
    /\ IsAlly(n) /\ motion.status = "open"
    /\ BeginDeal(w, n, [NoDeal EXCEPT !.kind = "vote", !.vote = vote, !.about = motion.by])

--------------------------------------------------------------------------------
(* A vote is cast: _recalculate_proposal_status and what it leads to. *)

Count(vs, v) == Cardinality({n \in Nations : vs[n] = v})

Decided(vs) ==
    CASE Count(vs, "veto") > 0 -> "rejected"
      [] Count(vs, "veto") = 0 /\ Count(vs, "yes") > Count(vs, "no") -> "approved"
      [] OTHER -> "rejected"

\* A proposal may also fail because the alliance's policy is against it.
CanExecute(what) ==
    CASE what.act = "add"    -> what.to \in Alive /\ what.to \notin allies
      [] what.act = "remove" -> what.to \in allies \ {founder}
      [] what.act = "transfer" -> /\ {what.from, what.to} \subseteq allies
                                  /\ what.from # what.to
                                  /\ treasury[what.from] >= what.amount

\* A row of the same nation that is not committed yet holds this one up.
Cast(w, succeeds) ==
    LET d == deal[w]
        seen == [votes EXCEPT ![d.by] = d.vote]
        runs == Decided(seen) = "approved" /\ motion.execution # "executed"
    IN
    /\ d.kind = "vote" /\ ~d.cast
    /\ motion # NoMotion /\ motion.by = d.about
    /\ d.by \in Alive /\ votes[d.by] = "none"
    /\ \A o \in Workers \ {w} : ~(deal[o].cast /\ deal[o].by = d.by)
    /\ succeeds => runs /\ CanExecute(motion.what)
    /\ deal' = [deal EXCEPT
          ![w].cast = TRUE,
          ![w].votes = seen,
          ![w].does = IF succeeds THEN motion.what ELSE Nothing,
          ![w].row = IF motion.what.to = None THEN 0 ELSE seat[motion.what.to],
          ![w].seen = treasury,
          ![w].status = Keep(motion.status, IF succeeds THEN "executed" ELSE Decided(seen)),
          ![w].execution = Keep(motion.execution,
                               IF runs THEN (IF succeeds THEN "executed" ELSE "failed")
                               ELSE IF motion.execution = "pending" THEN "skipped"
                               ELSE motion.execution)]
    /\ UNCHANGED <<begun, league, commonLedger, commonBlurred>>

--------------------------------------------------------------------------------
(* Requests end. *)

EndDeal(w) == deal' = [deal EXCEPT ![w] = NoDeal]

AbortDeal(w) ==
    /\ deal[w] # NoDeal
    /\ EndDeal(w)
    /\ UNCHANGED <<begun, league, commonLedger, commonBlurred, books, week, lock, accounts>>

CommitFound(w) ==
    LET n == deal[w].by IN
    /\ deal[w].kind = "found" /\ pact = "free" /\ n \in Alive
    /\ pact' = "alive" /\ founder' = n /\ allies' = {n}
    /\ seat' = [seat EXCEPT ![n] = @ + 1]
    /\ EndDeal(w)
    /\ UNCHANGED <<begun, common, motion, votes, commonLedger, commonBlurred, books, week, lock, accounts>>

\* The rows that hang on the alliance go with it.
Gone ==
    /\ pact' = IF pact = "alive" THEN "gone" ELSE pact
    /\ allies' = {} /\ motion' = NoMotion /\ votes' = NoVotes
    /\ UNCHANGED <<founder, seat, common>>

CommitDissolve(w) ==
    /\ deal[w].kind = "dissolve"
    /\ Gone
    /\ EndDeal(w)
    /\ UNCHANGED <<begun, commonLedger, commonBlurred, books, week, lock, accounts>>

CommitPropose(w) ==
    LET d == deal[w] IN
    /\ d.kind = "propose" /\ pact = "alive" /\ d.by \in Alive /\ motion = NoMotion
    /\ motion' = [NoMotion EXCEPT !.status = "open", !.by = d.by, !.what = d.what]
    /\ EndDeal(w)
    /\ UNCHANGED <<begun, pact, founder, allies, seat, common, votes, commonLedger, commonBlurred,
                   books, week, lock, accounts>>

Seats(d) ==
    CASE d.does.act = "add" ->
             /\ d.does.to \in Alive \ allies
             /\ allies' = allies \cup {d.does.to}
             /\ seat' = [seat EXCEPT ![d.does.to] = @ + 1]
      [] d.does.act = "remove" ->
             /\ allies' = IF d.does.to \in allies /\ seat[d.does.to] = d.row
                          THEN allies \ {d.does.to} ELSE allies
             /\ UNCHANGED seat
      [] OTHER -> UNCHANGED <<allies, seat>>

\* What the payer gives, the other gets but for the fee.
Moved(t, n) == IF n = t.from THEN -t.amount ELSE t.amount - Fee(t.amount)

Balances(d) ==
    LET t == d.does
        both == {t.from, t.to}
    IN
    IF t.act = "transfer"
    THEN /\ both \subseteq Alive /\ \A n \in both : lock[n] = None
         /\ treasury' = [n \in Nations |-> IF n \in both THEN d.seen[n] + Moved(t, n) ELSE treasury[n]]
         /\ common' = d.common + Fee(t.amount)
         /\ ledger' = [n \in Nations |-> IF n \in both THEN ledger[n] + Moved(t, n) ELSE ledger[n]]
         /\ commonLedger' = commonLedger + Fee(t.amount)
         /\ blurred' = blurred \cup {n \in both : treasury[n] # d.seen[n]}
         /\ commonBlurred' = (commonBlurred \/ common # d.common)
    ELSE UNCHANGED <<treasury, common, ledger, commonLedger, blurred, commonBlurred>>

Written(was, new) == IF new = "same" THEN was ELSE new

\* The votes of one who is removed go, as far as they were read.
Ballots(d) ==
    [n \in Nations |->
        IF d.does.act = "remove" /\ n = d.does.to /\ d.votes[n] # "none" /\ motion.by = d.about
        THEN "none"
        ELSE IF d.kind = "vote" /\ n = d.by THEN d.vote ELSE votes[n]]

\* A vote that is cast, or its author leaving, is about to write the proposal.
AtProposal(d) == d.cast \/ d.status = "expired"

CommitDeal(w) ==
    LET d == deal[w] IN
    /\ d.kind \in {"join", "leave", "pay", "vote"}
    /\ d.kind = "vote" => d.cast
    /\ pact = "alive"
    /\ (d.status # "same" \/ d.execution # "same" \/ d.kind = "vote") => motion # NoMotion /\ motion.by = d.about
    /\ d.kind = "vote" => d.by \in Alive
    /\ Seats(d)
    /\ Balances(d)
    /\ votes' = Ballots(d)
    /\ motion' = [motion EXCEPT !.status = Written(@, d.status), !.execution = Written(@, d.execution)]
    /\ again' = IF d.execution = "executed" /\ motion.execution = "executed"
                THEN again \cup {<<"motion", None>>} ELSE again
    /\ overlapped' = IF \E o \in Workers \ {w} : d.kind = "vote" /\ AtProposal(deal[o])
                     THEN overlapped \cup {<<"motion", None>>} ELSE overlapped
    /\ EndDeal(w)
    /\ UNCHANGED <<begun, pact, founder, level, capital, interestOn, seasonOn, week, lock, fees>>

--------------------------------------------------------------------------------
Motions ==
    {Change("add", None, n, 0) : n \in Nations} \cup {Change("remove", None, n, 0) : n \in Nations}
    \cup {Change("transfer", n, m, a) : n \in Nations, m \in Nations, a \in Amounts}

AllianceRequest(w) ==
    \E n \in Nations :
        \/ Found(w, n) \/ JoinAlliance(w, n) \/ Dissolve(w, n) \/ LeaveAlliance(w, n)
        \/ ApplyToAlliance(w, n)
        \/ \E what \in Motions : Propose(w, n, what)
        \/ \E m \in Nations, amount \in Amounts : Pay(w, n, m, amount)
        \/ \E vote \in {"yes", "no", "veto"} : Vote(w, n, vote)

EndAllianceRequest(w) ==
    \/ (\E succeeds \in BOOLEAN : Cast(w, succeeds)) /\ UNCHANGED <<books, week, lock, accounts>>
    \/ AbortDeal(w)
    \/ CommitFound(w) \/ CommitDissolve(w) \/ CommitPropose(w) \/ CommitDeal(w)
================================================================================
