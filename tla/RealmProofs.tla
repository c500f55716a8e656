------------------------------- MODULE RealmProofs -------------------------------
(***************************************************************************)
(* Proofs about nations, treasuries and the alliance, for any number of    *)
(* nations, users and requests.                                            *)
(*                                                                         *)
(* The first invariant says what the requests under way have read: one     *)
(* that locks still has the balances as they are, one that removes an ally *)
(* does not remove the founder, and what two of them would grant twice is  *)
(* already known to overlap.  The second adds who belongs to what: a       *)
(* change of members under way keeps its nation's leader, or puts another  *)
(* in his place, unless the nation or the member is known to have been     *)
(* changed twice at once; and rows are numbered no further than requests.  *)
(***************************************************************************)
EXTENDS Realm, FiniteSetTheorems, TLAPS

DeedKinds == {"none", "deposit", "withdraw", "research", "interest", "tax", "season", "capital", "sale"}
Deeds ==
    [kind : DeedKinds, nation : Nations \cup {None}, amount : Int, level : Int, week : Int,
     read : BOOLEAN, wants : Nations \cup {None}, todo : SUBSET Nations, got : SUBSET Nations,
     seen : [Nations -> Int]]

Acts == [act : {"none", "add", "remove", "transfer"}, from : Nations \cup {None},
         to : Nations \cup {None}, amount : Int]
Ballot == {"none", "yes", "no", "veto"}
Statuses == {"none", "open", "approved", "rejected", "executed", "expired"}
Executions == {"pending", "executed", "failed", "skipped"}
DealKinds == {"none", "found", "join", "dissolve", "leave", "propose", "pay", "vote"}
Deals ==
    [kind : DealKinds, by : Nations \cup {None}, vote : Ballot, cast : BOOLEAN, does : Acts,
     status : Statuses \cup {"same"}, execution : Executions \cup {"same"}, what : Acts,
     about : Nations \cup {None},
     votes : [Nations -> Ballot], row : Int, seen : [Nations -> Int], common : Int]
Proposals == [status : Statuses, execution : Executions, by : Nations \cup {None}, what : Acts]

BookTypes ==
    /\ treasury \in [Nations -> Int] /\ level \in [Nations -> Int] /\ interestOn \in [Nations -> Int]
    /\ seasonOn \in Int /\ week \in Int
    /\ lock \in [Nations -> Workers \cup {None}]

LeagueTypes ==
    /\ allies \subseteq Nations /\ seat \in [Nations -> Int] /\ common \in Int
    /\ motion \in Proposals /\ votes \in [Nations -> Ballot]

\* A request that is none has nothing to do; only some read balances without a lock.
Sound(d) ==
    /\ d.kind = "none" => d.wants = None /\ d.todo = {} /\ d.got = {}
    /\ ~d.read => d.kind \in {"season", "capital"}
    /\ d.kind \in {"research", "capital"} => d.nation \in Nations

DeedTypes == deed \in [Workers -> Deeds] /\ \A w \in Workers : Sound(deed[w])

DealTypes == deal \in [Workers -> Deals]

Types ==
    /\ life \in [Nations -> {"free", "alive", "gone"}]
    /\ BookTypes /\ LeagueTypes /\ DeedTypes /\ DealTypes

LEMMA StepsOfNext ==
    ASSUME Next
    PROVE  \/ \E w \in Workers : Membership(w) \/ CommitDisband(w) \/ Money(w) \/ Diplomacy(w)
           \/ Time
           \/ Market
BY DEF Next

--------------------------------------------------------------------------------
(* What requests are when they begin. *)

LEMMA IntHalf == ASSUME NEW b \in Int PROVE Half(b) \in Int
BY DEF Half

LEMMA NoDeedIs ==
    /\ NoDeed \in Deeds
    /\ NoDeed.kind = "none" /\ NoDeed.got = {} /\ NoDeed.todo = {} /\ NoDeed.wants = None /\ NoDeed.read
BY DEF NoDeed, Deeds, DeedKinds

LEMMA NoDealIs ==
    /\ NoDeal \in Deals
    /\ NoDeal.kind = "none" /\ ~NoDeal.cast /\ NoDeal.execution = "same" /\ NoDeal.does.act = "none"
BY DEF NoDeal, Deals, DealKinds, Nothing, Acts, NoVotes, Ballot, Statuses, Executions

\* A request for money starts without a balance, or with some it has not locked.
DeedBegins(w) ==
    \E d \in Deeds :
        /\ deed[w] = NoDeed /\ Counted
        /\ deed' = [deed EXCEPT ![w] = d]
        /\ Sound(d) /\ d.kind # "none"
        /\ d.kind \in Locking => d.got = {}
        /\ \A g \in Grants(d) : ~Had(d, g)
        /\ UNCHANGED <<books, week, lock, accounts>>

LEMMA BeginsByBegin ==
    ASSUME NEW w, NEW d \in Deeds, BeginDeed(w, d), BookTypes,
           Sound(d), d.kind # "none", d.kind \in Locking => d.got = {},
           \A g \in Grants([d EXCEPT !.week = week]) : ~Had([d EXCEPT !.week = week], g)
    PROVE  DeedBegins(w)
<1> DEFINE e == [d EXCEPT !.week = week]
<1>1. e \in Deeds /\ e.kind = d.kind /\ e.got = d.got /\ e.read = d.read /\ e.nation = d.nation
    BY DEF Deeds, BookTypes
<1> QED BY <1>1 DEF BeginDeed, DeedBegins, Sound

\* What a request that has only begun grants.
LEMMA FreshGrants ==
    ASSUME NEW d \in Deeds
    PROVE  /\ d.kind \in {"deposit", "withdraw", "sale", "tax"} => Grants(d) = {}
           /\ d.kind = "interest" /\ d.got = {} /\ d.wants = None => Grants(d) = {}
           /\ d.kind \in {"research", "capital"} => Grants(d) = {<<d.kind, d.nation>>}
           /\ d.kind = "season" => Grants(d) = {<<"season", None>>}
BY DEF Grants

LEMMA HadIs ==
    ASSUME NEW d, NEW n
    PROVE  /\ Had(d, <<"research", n>>) <=> level[n] >= d.level
           /\ Had(d, <<"capital", n>>) <=> n \in capital
           /\ Had(d, <<"interest", n>>) <=> interestOn[n] >= d.week
           /\ Had(d, <<"season", n>>) <=> seasonOn >= d.week
BY DEF Had

LEMMA HadIsNext ==
    ASSUME NEW CONSTANT d, NEW CONSTANT n
    PROVE  /\ Had(d, <<"research", n>>)' <=> level'[n] >= d.level
           /\ Had(d, <<"capital", n>>)' <=> n \in capital'
           /\ Had(d, <<"interest", n>>)' <=> interestOn'[n] >= d.week
           /\ Had(d, <<"season", n>>)' <=> seasonOn' >= d.week
BY DEF Had

LEMMA RequestsBegin ==
    ASSUME NEW w \in Workers, MoneyRequest(w), BookTypes
    PROVE  DeedBegins(w)
<1> USE NoDeedIs DEF Deeds, DeedKinds, Locking, ToLock, ToRead, BookTypes, Sound
<1>0. \A amount \in Amounts : amount \in Int BY TreasuriesConstants
<1>1. ASSUME NEW n \in Nations, NEW u \in Users, Research(w, u, n)
      PROVE  DeedBegins(w)
    <2> DEFINE d == [ToLock("research", n) EXCEPT !.level = level[n] + 1]
               e == [d EXCEPT !.week = week]
    <2>0. level[n] + 1 \in Int OBVIOUS
    <2>1. BeginDeed(w, d) BY <1>1 DEF Research
    <2>2. d \in Deeds /\ Sound(d) /\ d.kind # "none" /\ (d.kind \in Locking => d.got = {})
        BY <2>0
    <2>3. e \in Deeds /\ e.kind = "research" /\ e.level = level[n] + 1 /\ e.nation = n BY <2>2
    <2> HIDE DEF d, e
    <2>4. Grants(e) = {<<"research", n>>} BY <2>3, FreshGrants
    <2>5. ~Had(e, <<"research", n>>)
        <3>1. level[n] \in Int OBVIOUS
        <3>2. ~(level[n] >= e.level) BY <2>3, <3>1
        <3> QED BY <3>2, HadIs, Zenon
    <2> QED BY <2>1, <2>2, <2>4, <2>5, BeginsByBegin DEF e
<1>2. ASSUME NEW n \in Nations, SetCapital(w, n)
      PROVE  DeedBegins(w)
    <2> DEFINE d == ToRead("capital", n)
               e == [d EXCEPT !.week = week]
    <2>1. BeginDeed(w, d) /\ n \notin capital BY <1>2 DEF SetCapital
    <2>2. d \in Deeds /\ Sound(d) /\ d.kind # "none" /\ (d.kind \in Locking => d.got = {})
        OBVIOUS
    <2>3. e \in Deeds /\ e.kind = "capital" /\ e.nation = n BY <2>2
    <2> HIDE DEF d, e
    <2>4. Grants(e) = {<<"capital", n>>} BY <2>3, FreshGrants
    <2>5. ~Had(e, <<"capital", n>>) BY <2>1, <2>3, HadIs
    <2> QED BY <2>1, <2>2, <2>4, <2>5, BeginsByBegin DEF e
<1>3. ASSUME NEW n \in Nations, NEW u \in Users, NEW amount \in Amounts, Deposit(w, u, n, amount)
      PROVE  DeedBegins(w)
    <2> DEFINE d == [ToLock("deposit", n) EXCEPT !.amount = amount]
               e == [d EXCEPT !.week = week]
    <2>1. BeginDeed(w, d) BY <1>3 DEF Deposit
    <2>2. d \in Deeds /\ Sound(d) /\ d.kind # "none" /\ (d.kind \in Locking => d.got = {})
        BY <1>0
    <2>3. e \in Deeds /\ e.kind = "deposit" BY <2>2
    <2> HIDE DEF d, e
    <2>4. \A g \in Grants(e) : ~Had(e, g) BY <2>1, <2>3, FreshGrants
    <2> QED BY <2>1, <2>2, <2>4, BeginsByBegin DEF e
<1>4. ASSUME NEW n \in Nations, NEW amount \in Amounts, Withdraw(w, n, amount)
      PROVE  DeedBegins(w)
    <2> DEFINE d == [ToLock("withdraw", n) EXCEPT !.amount = amount]
               e == [d EXCEPT !.week = week]
    <2>1. BeginDeed(w, d) BY <1>4 DEF Withdraw
    <2>2. d \in Deeds /\ Sound(d) /\ d.kind # "none" /\ (d.kind \in Locking => d.got = {})
        BY <1>0
    <2>3. e \in Deeds /\ e.kind = "withdraw" BY <2>2
    <2> HIDE DEF d, e
    <2>4. \A g \in Grants(e) : ~Had(e, g) BY <2>1, <2>3, FreshGrants
    <2> QED BY <2>1, <2>2, <2>4, BeginsByBegin DEF e
<1>5. ASSUME NEW n \in Nations, NEW amount \in Amounts, Sale(w, n, amount)
      PROVE  DeedBegins(w)
    <2> DEFINE d == [NoDeed EXCEPT !.kind = "sale", !.nation = n, !.amount = amount, !.got = {n}, !.seen = treasury]
               e == [d EXCEPT !.week = week]
    <2>1. BeginDeed(w, d) BY <1>5 DEF Sale
    <2>2. d \in Deeds /\ Sound(d) /\ d.kind # "none" /\ (d.kind \in Locking => d.got = {})
        BY <1>0
    <2>3. e \in Deeds /\ e.kind = "sale" BY <2>2
    <2> HIDE DEF d, e
    <2>4. \A g \in Grants(e) : ~Had(e, g) BY <2>1, <2>3, FreshGrants
    <2> QED BY <2>1, <2>2, <2>4, BeginsByBegin DEF e
<1>6. CASE Interest(w)
    <2> DEFINE d == [NoDeed EXCEPT !.kind = "interest", !.todo = {n \in Alive : level[n] > 0}]
               e == [d EXCEPT !.week = week]
    <2>1. BeginDeed(w, d) BY <1>6 DEF Interest
    <2>2. d \in Deeds /\ Sound(d) /\ d.kind # "none" /\ (d.kind \in Locking => d.got = {})
        BY DEF Alive
    <2>3. e \in Deeds /\ e.kind = "interest" /\ e.got = {} /\ e.wants = None BY <2>2
    <2> HIDE DEF d, e
    <2>4. \A g \in Grants(e) : ~Had(e, g) BY <2>1, <2>3, FreshGrants
    <2> QED BY <2>1, <2>2, <2>4, BeginsByBegin DEF e
<1>7. CASE Tax(w)
    <2> DEFINE d == [NoDeed EXCEPT !.kind = "tax", !.got = {n \in Alive : treasury[n] > 0}, !.seen = treasury]
               e == [d EXCEPT !.week = week]
    <2>1. BeginDeed(w, d) BY <1>7 DEF Tax
    <2>2. d \in Deeds /\ Sound(d) /\ d.kind # "none" /\ (d.kind \in Locking => d.got = {})
        BY DEF Alive
    <2>3. e \in Deeds /\ e.kind = "tax" BY <2>2
    <2> HIDE DEF d, e
    <2>4. \A g \in Grants(e) : ~Had(e, g) BY <2>1, <2>3, FreshGrants
    <2> QED BY <2>1, <2>2, <2>4, BeginsByBegin DEF e
<1>8. CASE Season(w)
    <2> DEFINE d == ToRead("season", None)
               e == [d EXCEPT !.week = week]
    <2>1. BeginDeed(w, d) /\ seasonOn < week BY <1>8 DEF Season, SeasonDue
    <2>2. d \in Deeds /\ Sound(d) /\ d.kind # "none" /\ (d.kind \in Locking => d.got = {})
        OBVIOUS
    <2>3. e \in Deeds /\ e.kind = "season" /\ e.week = week
        <3> HIDE DEF d
        <3>1. d \in Deeds /\ d.kind = "season" BY <2>2 DEF d
        <3> QED BY <3>1
    <2> HIDE DEF d, e
    <2>4. Grants(e) = {<<"season", None>>} BY <2>3, FreshGrants
    <2>5. ~Had(e, <<"season", None>>)
        <3>1. ~(seasonOn >= e.week) BY <2>1, <2>3
        <3> QED BY <3>1, HadIs, Zenon
    <2> QED BY <2>1, <2>2, <2>4, <2>5, BeginsByBegin DEF e
<1> QED BY <1>1, <1>2, <1>3, <1>4, <1>5, <1>6, <1>7, <1>8 DEF MoneyRequest

Removes(d) == d.does.act = "remove"

\* A request to the alliance has executed nothing yet; whom it removes is an ally that
\* has not founded it.
DealBegins(w) ==
    \E d \in Deals :
        /\ deal' = [deal EXCEPT ![w] = d] /\ Counted
        /\ ~d.cast /\ d.execution # "executed"
        /\ Removes(d) => pact = "alive" /\ d.does.to # founder
        /\ UNCHANGED <<league, commonLedger, commonBlurred>>

LEMMA BeginsByBeginDeal ==
    ASSUME NEW w, NEW n \in Nations, NEW d \in Deals, BeginDeal(w, n, d), BookTypes, LeagueTypes,
           ~d.cast, d.execution # "executed",
           Removes(d) => pact = "alive" /\ d.does.to # founder
    PROVE  DealBegins(w)
<1> DEFINE e == [d EXCEPT !.by = n, !.seen = treasury, !.common = common]
<1>1. e \in Deals /\ e.kind = d.kind /\ e.cast = d.cast /\ e.execution = d.execution /\ e.does = d.does
    BY DEF Deals, BookTypes, LeagueTypes
<1>2. deal' = [deal EXCEPT ![w] = e] BY DEF BeginDeal
<1> QED BY <1>1, <1>2 DEF BeginDeal, DealBegins, Removes

LEMMA PaymentsBegin ==
    ASSUME NEW w \in Workers, NEW n \in Nations, NEW m \in Nations, NEW amount \in Amounts,
           Pay(w, n, m, amount), BookTypes, LeagueTypes
    PROVE  DealBegins(w)
<1> DEFINE d == [NoDeal EXCEPT !.kind = "pay", !.does = Change("transfer", n, m, amount)]
<1>1. Change("transfer", n, m, amount) \in Acts /\ Change("transfer", n, m, amount).act # "remove"
    BY TreasuriesConstants DEF Change, Acts
<1>2. d \in Deals /\ ~d.cast /\ d.execution # "executed" /\ ~Removes(d)
    BY <1>1, NoDealIs DEF Deals, DealKinds, Removes
<1>3. BeginDeal(w, n, d) BY DEF Pay
<1> HIDE DEF d
<1> QED BY <1>2, <1>3, BeginsByBeginDeal

LEMMA DealsBegin ==
    ASSUME NEW w \in Workers, AllianceRequest(w), BookTypes, LeagueTypes
    PROVE  DealBegins(w)
<1> USE NoDealIs, BeginsByBeginDeal DEF Deals, DealKinds, Removes
<1>1. PICK n \in Nations :
          \/ Found(w, n) \/ JoinAlliance(w, n) \/ Dissolve(w, n) \/ LeaveAlliance(w, n)
          \/ ApplyToAlliance(w, n)
          \/ \E what \in Motions : Propose(w, n, what)
          \/ \E m \in Nations, amount \in Amounts : Pay(w, n, m, amount)
          \/ \E vote \in {"yes", "no", "veto"} : Vote(w, n, vote)
    BY DEF AllianceRequest
<1>2. ASSUME NEW act \in {"add", "remove"}
      PROVE  Change(act, None, n, 0) \in Acts
    BY DEF Change, Acts
<1>3. CASE Found(w, n)
    <2> DEFINE d == [NoDeal EXCEPT !.kind = "found"]
    <2>1. d \in Deals /\ d.kind = "found" /\ ~d.cast /\ d.execution # "executed" OBVIOUS
    <2> QED BY <1>3, <2>1 DEF Found
<1>4. CASE JoinAlliance(w, n)
    <2> DEFINE d == [NoDeal EXCEPT !.kind = "join", !.does = Change("add", None, n, 0)]
    <2>1. d \in Deals /\ d.does = Change("add", None, n, 0) /\ ~d.cast /\ d.execution # "executed" BY <1>2
    <2>2. ~Removes(d) BY <2>1 DEF Change
    <2>3. BeginDeal(w, n, d) BY <1>4 DEF JoinAlliance
    <2> HIDE DEF d
    <2> QED BY <2>1, <2>2, <2>3
<1>5. CASE Dissolve(w, n)
    <2> DEFINE d == [NoDeal EXCEPT !.kind = "dissolve"]
    <2>1. d \in Deals /\ d.kind = "dissolve" /\ ~d.cast /\ d.execution # "executed" OBVIOUS
    <2> QED BY <1>5, <2>1 DEF Dissolve
<1>6. CASE LeaveAlliance(w, n)
    <2> DEFINE own == Expires(n)
               d == [NoDeal EXCEPT !.kind = "leave", !.does = Change("remove", None, n, 0),
                                   !.row = seat[n], !.votes = votes, !.about = motion.by,
                                   !.status = IF own THEN "expired" ELSE "same",
                                   !.execution = IF own THEN "skipped" ELSE "same"]
    <2>1. d \in Deals BY <1>2 DEF LeagueTypes, Proposals, Statuses, Executions
    <2>2. ~d.cast /\ d.execution # "executed" /\ d.does.to = n BY DEF Change
    <2>3. pact = "alive" /\ n # founder /\ BeginDeal(w, n, d) BY <1>6 DEF LeaveAlliance, IsAlly
    <2> HIDE DEF d
    <2> QED BY <2>1, <2>2, <2>3
<1>7. CASE ApplyToAlliance(w, n)
    <2> DEFINE d == [NoDeal EXCEPT !.kind = "propose", !.what = Change("add", None, n, 0)]
    <2>1. d \in Deals /\ d.kind = "propose" /\ ~d.cast /\ d.execution # "executed" BY <1>2
    <2> QED BY <1>7, <2>1 DEF ApplyToAlliance
<1>8. ASSUME NEW what \in Motions, Propose(w, n, what)
      PROVE  DealBegins(w)
    <2> DEFINE d == [NoDeal EXCEPT !.kind = "propose", !.what = what]
    <2>1. what \in Acts BY TreasuriesConstants DEF Motions, Change, Acts
    <2>2. d \in Deals /\ d.kind = "propose" /\ ~d.cast /\ d.execution # "executed" BY <2>1
    <2> QED BY <1>8, <2>2 DEF Propose
<1>9. ASSUME NEW vote \in {"yes", "no", "veto"}, Vote(w, n, vote)
      PROVE  DealBegins(w)
    <2> DEFINE d == [NoDeal EXCEPT !.kind = "vote", !.vote = vote, !.about = motion.by]
    <2>1. d \in Deals /\ d.does.act = "none" /\ ~d.cast /\ d.execution # "executed"
        BY DEF Ballot, LeagueTypes, Proposals
    <2> QED BY <1>9, <2>1 DEF Vote
<1> QED BY <1>1, <1>3, <1>4, <1>5, <1>6, <1>7, <1>8, <1>9, PaymentsBegin

--------------------------------------------------------------------------------
(* Balances.  Who reads FOR UPDATE holds the row until it writes, and everybody  *)
(* waits for it; who does not, blurs what it writes over a change.               *)

LocksHold ==
    \A w \in Workers, n \in Nations :
        n \in deed[w].got /\ deed[w].kind \in Locking => lock[n] = w /\ deed[w].seen[n] = treasury[n]

Agrees ==
    /\ ledger \in [Nations -> Int] /\ fees \in [Nations -> Int]
    /\ \A n \in Nations : n \notin blurred => treasury[n] = ledger[n] - fees[n]
    /\ ~commonBlurred => common = commonLedger

\* A request changes, and nobody else's locks or locked balances do.
LEMMA DeedChanges ==
    ASSUME DeedTypes, LocksHold, NEW w \in Workers, NEW d \in Deeds,
           deed' = [deed EXCEPT ![w] = d],
           Sound(d),
           \A n \in Nations : n \in d.got /\ d.kind \in Locking => lock'[n] = w /\ d.seen[n] = treasury'[n],
           \A n \in Nations, o \in Workers : o # w /\ lock[n] = o => lock'[n] = o /\ treasury'[n] = treasury[n]
    PROVE  DeedTypes' /\ LocksHold'
<1>1. \A o \in Workers : deed'[o] = IF o = w THEN d ELSE deed[o] BY DEF DeedTypes
<1>2. DeedTypes' BY <1>1 DEF DeedTypes
<1>3. ASSUME NEW o \in Workers, NEW n \in Nations, n \in deed'[o].got, deed'[o].kind \in Locking
      PROVE  lock'[n] = o /\ deed'[o].seen[n] = treasury'[n]
    <2>1. CASE o = w BY <1>1, <1>3, <2>1
    <2>2. CASE o # w BY <1>1, <1>3, <2>2 DEF LocksHold
    <2> QED BY <2>1, <2>2
<1> QED BY <1>2, <1>3 DEF LocksHold

LEMMA IntAdds ==
    ASSUME NEW d \in Deeds, d.kind # "none", NEW b \in Int
    PROVE  Adds(d, b) \in Int
<1>1. Half(b) \in Int /\ -Half(b) \in Int BY DEF Half
<1>2. d.amount \in Int /\ -d.amount \in Int BY DEF Deeds
<1>3. -Cost \in Int /\ Prize \in Int BY TreasuriesConstants
<1>4. d.kind \in DeedKinds \ {"none"} BY DEF Deeds
<1> QED BY <1>1, <1>2, <1>3, <1>4 DEF Adds, DeedKinds

Balanced == BookTypes /\ DeedTypes /\ LocksHold /\ Agrees

LEMMA DeedBeginsBalanced ==
    ASSUME Balanced, NEW w \in Workers, DeedBegins(w), UNCHANGED leagues
    PROVE  Balanced'
<1> USE DEF Balanced
<1>1. PICK d \in Deeds :
          /\ deed' = [deed EXCEPT ![w] = d]
          /\ Sound(d) /\ d.kind # "none"
          /\ d.kind \in Locking => d.got = {}
          /\ UNCHANGED <<books, week, lock, accounts>>
    BY DEF DeedBegins
<1>2. BookTypes' /\ Agrees' BY <1>1 DEF BookTypes, Agrees, books, accounts, leagues, league
<1>3. DeedTypes' /\ LocksHold' BY <1>1, DeedChanges DEF books
<1> QED BY <1>2, <1>3

LEMMA LookUpBalanced ==
    ASSUME Balanced, NEW w \in Workers, NEW n \in Nations, LookUp(w, n), UNCHANGED leagues
    PROVE  Balanced'
<1> USE DEF Balanced
<1> DEFINE d == [deed[w] EXCEPT !.todo = @ \ {n}, !.wants = IF InterestDue(n, w) THEN n ELSE None]
<1>1. deed' = [deed EXCEPT ![w] = d] BY DEF LookUp, DeedTypes
<1>2. deed[w] \in Deeds BY DEF DeedTypes
<1>3. d \in Deeds /\ d.kind = deed[w].kind /\ d.got = deed[w].got /\ d.seen = deed[w].seen /\ d.read = deed[w].read
    BY <1>2 DEF Deeds
<1>4. Sound(d) BY <1>3 DEF LookUp, DeedTypes, Sound
<1>5. UNCHANGED <<books, week, lock, accounts>> BY DEF LookUp
<1>6. BookTypes' /\ Agrees' BY <1>5 DEF BookTypes, Agrees, books, accounts, leagues, league
<1> HIDE DEF d
<1>7. UNCHANGED <<lock, treasury>> BY <1>5 DEF books
<1>8. \A m \in Nations : m \in d.got /\ d.kind \in Locking => lock'[m] = w /\ d.seen[m] = treasury'[m]
    BY <1>3, <1>7 DEF LocksHold
<1>9. DeedTypes' /\ LocksHold' BY <1>1, <1>3, <1>4, <1>7, <1>8, DeedChanges
<1> QED BY <1>6, <1>9

LEMMA LockTreasuryBalanced ==
    ASSUME Balanced, NEW w \in Workers, LockTreasury(w), UNCHANGED leagues
    PROVE  Balanced'
<1> USE DEF Balanced
<1> DEFINE n == deed[w].wants
           d == [deed[w] EXCEPT !.wants = None, !.seen[n] = treasury[n],
                                !.got = IF Adds(deed[w], treasury[n]) = 0 THEN @ ELSE @ \cup {n}]
<1>1. deed[w] \in Deeds /\ n \in Nations
    BY DEF DeedTypes, LockTreasury, Alive
<1>2. deed' = [deed EXCEPT ![w] = d] BY DEF LockTreasury, DeedTypes
<1>3. /\ d \in Deeds /\ d.kind = deed[w].kind /\ d.got \subseteq deed[w].got \cup {n}
      /\ d.seen = [deed[w].seen EXCEPT ![n] = treasury[n]] /\ d.read = deed[w].read
    BY <1>1 DEF Deeds, BookTypes
<1>4. Sound(d) BY <1>1, <1>3, NationsConstants DEF LockTreasury, DeedTypes, Sound
<1>5. lock' = [lock EXCEPT ![n] = w] /\ lock[n] = None /\ UNCHANGED <<books, week, accounts>>
    BY DEF LockTreasury, MayLock
<1>6. BookTypes' /\ Agrees' BY <1>1, <1>5 DEF BookTypes, Agrees, books, accounts, leagues, league
<1>7. \A m \in Nations : lock'[m] = IF m = n THEN w ELSE lock[m] BY <1>1, <1>5 DEF BookTypes
<1>8. \A m \in Nations : d.seen[m] = IF m = n THEN treasury[m] ELSE deed[w].seen[m] BY <1>1, <1>3 DEF Deeds
<1>9. treasury' = treasury BY <1>5 DEF books
<1> HIDE DEF d
<1>10. \A m \in Nations : m \in d.got /\ d.kind \in Locking => lock'[m] = w /\ d.seen[m] = treasury'[m]
    BY <1>3, <1>7, <1>8, <1>9 DEF LocksHold
<1>11. \A m \in Nations, o \in Workers : o # w /\ lock[m] = o => lock'[m] = o /\ treasury'[m] = treasury[m]
    BY <1>5, <1>7, <1>9, NationsConstants
<1>12. DeedTypes' /\ LocksHold' BY <1>2, <1>3, <1>4, <1>10, <1>11, DeedChanges
<1> QED BY <1>6, <1>12

LEMMA ReadBalancesBalanced ==
    ASSUME Balanced, NEW w \in Workers, NEW got \in SUBSET Nations, ReadBalances(w, got), UNCHANGED leagues
    PROVE  Balanced'
<1> USE DEF Balanced
<1> DEFINE d == [deed[w] EXCEPT !.read = TRUE, !.got = got, !.seen = treasury]
<1>1. deed[w] \in Deeds /\ ~deed[w].read BY DEF DeedTypes, ReadBalances
<1>2. deed' = [deed EXCEPT ![w] = d] BY DEF ReadBalances, DeedTypes
<1>3. d \in Deeds /\ d.kind = deed[w].kind /\ d.seen = treasury /\ d.read BY <1>1 DEF Deeds, BookTypes
<1>4. Sound(d) /\ d.kind \notin Locking BY <1>1, <1>3 DEF DeedTypes, Locking, Sound
<1>5. UNCHANGED <<books, week, lock, accounts>> BY DEF ReadBalances
<1>6. BookTypes' /\ Agrees' BY <1>5 DEF BookTypes, Agrees, books, accounts, leagues, league
<1> HIDE DEF d
<1>7. DeedTypes' /\ LocksHold' BY <1>2, <1>3, <1>4, <1>5, DeedChanges DEF books
<1> QED BY <1>6, <1>7

LEMMA ReleaseKeeps ==
    ASSUME Balanced, NEW w \in Workers, Release(w),
           \A n \in Nations : treasury'[n] # treasury[n] => lock[n] \in {None, w}
    PROVE  /\ lock' \in [Nations -> Workers \cup {None}]
           /\ DeedTypes' /\ LocksHold'
<1> USE DEF Balanced
<1>1. deed' = [deed EXCEPT ![w] = NoDeed] BY DEF Release
<1>2. \A n \in Nations : lock'[n] = IF lock[n] = w THEN None ELSE lock[n] BY DEF Release
<1>3. lock' \in [Nations -> Workers \cup {None}] BY DEF Release, BookTypes
<1>4. NoDeed \in Deeds /\ Sound(NoDeed) /\ NoDeed.got = {} BY NoDeedIs DEF Sound
<1>5. \A n \in Nations, o \in Workers : o # w /\ lock[n] = o => lock'[n] = o /\ treasury'[n] = treasury[n]
    BY <1>2, NationsConstants
<1>6. DeedTypes' /\ LocksHold' BY <1>1, <1>4, <1>5, DeedChanges
<1> QED BY <1>3, <1>6

LEMMA FailBalanced ==
    ASSUME Balanced, NEW w \in Workers, Fail(w), UNCHANGED leagues
    PROVE  Balanced'
<1> USE DEF Balanced
<1>1. UNCHANGED <<books, week, accounts>> /\ Release(w) BY DEF Fail
<1>2. Agrees' BY <1>1 DEF Agrees, books, accounts, leagues, league
<1>3. lock' \in [Nations -> Workers \cup {None}] /\ DeedTypes' /\ LocksHold'
    BY <1>1, ReleaseKeeps DEF books
<1>4. BookTypes' BY <1>1, <1>3 DEF BookTypes, books
<1> QED BY <1>2, <1>3, <1>4

LEMMA CommitDeedBalanced ==
    ASSUME Balanced, NEW w \in Workers, CommitDeed(w), UNCHANGED leagues
    PROVE  Balanced'
<1> USE DEF Balanced
<1> DEFINE d == deed[w]
<1>1. d \in Deeds /\ d.kind # "none" BY DEF DeedTypes, Sound, CommitDeed
<1>2. \A n \in d.got : n \in Nations /\ d.seen[n] \in Int /\ Adds(d, d.seen[n]) \in Int
    BY <1>1, IntAdds DEF Deeds
<1>3. /\ treasury' = [n \in Nations |-> IF n \in d.got THEN d.seen[n] + Adds(d, d.seen[n]) ELSE treasury[n]]
      /\ ledger' = [n \in Nations |-> IF n \in d.got THEN ledger[n] + Adds(d, d.seen[n]) ELSE ledger[n]]
      /\ blurred' = IF d.kind \in Locking THEN blurred
                    ELSE blurred \cup {n \in d.got : treasury[n] # d.seen[n]}
      /\ \A n \in d.got : lock[n] \in {None, w}
      /\ Release(w) /\ UNCHANGED fees
    BY DEF CommitDeed
<1>4. treasury' \in [Nations -> Int] BY <1>2, <1>3 DEF BookTypes
<1>5. /\ level' \in [Nations -> Int] /\ interestOn' \in [Nations -> Int]
      /\ seasonOn' \in Int /\ week' \in Int
    <2>1. d.level \in Int /\ d.week \in Int /\ d.got \subseteq Alive BY <1>1 DEF Deeds, CommitDeed
    <2>2. level' \in [Nations -> Int] BY <2>1 DEF CommitDeed, BookTypes
    <2>3. interestOn' \in [Nations -> Int] BY <2>1 DEF CommitDeed, BookTypes, Later
    <2>4. seasonOn' \in Int /\ week' \in Int BY <2>1 DEF CommitDeed, BookTypes, Later
    <2> QED BY <2>2, <2>3, <2>4
<1>6. \A n \in Nations : treasury'[n] # treasury[n] => lock[n] \in {None, w} BY <1>3
<1>7. lock' \in [Nations -> Workers \cup {None}] /\ DeedTypes' /\ LocksHold' BY <1>3, <1>6, ReleaseKeeps
<1>8. ASSUME NEW n \in Nations, n \notin blurred'
      PROVE  treasury'[n] = ledger'[n] - fees'[n]
    <2>1. n \notin blurred /\ (n \in d.got => d.seen[n] = treasury[n])
        BY <1>3, <1>8 DEF LocksHold
    <2>2. treasury[n] = ledger[n] - fees[n] /\ ledger[n] \in Int /\ fees[n] \in Int BY <2>1 DEF Agrees
    <2>3. CASE n \in d.got BY <1>2, <1>3, <2>1, <2>2, <2>3
    <2>4. CASE n \notin d.got BY <1>3, <2>2, <2>4
    <2> QED BY <2>3, <2>4
<1>9. ledger' \in [Nations -> Int] /\ fees' \in [Nations -> Int] BY <1>2, <1>3 DEF Agrees
<1>10. Agrees' BY <1>8, <1>9 DEF Agrees, leagues, league
<1> QED BY <1>4, <1>5, <1>7, <1>10 DEF BookTypes

LEMMA MoneyBalanced ==
    ASSUME Balanced, NEW w \in Workers, Money(w)
    PROVE  Balanced'
<1>1. UNCHANGED leagues BY DEF Money
<1>2. CASE MoneyRequest(w) BY <1>1, <1>2, RequestsBegin, DeedBeginsBalanced DEF Balanced
<1>3. CASE EndMoneyRequest(w)
    BY <1>1, <1>3, LookUpBalanced, LockTreasuryBalanced, ReadBalancesBalanced, CommitDeedBalanced, FailBalanced
       DEF EndMoneyRequest
<1> QED BY <1>2, <1>3 DEF Money

LEMMA TimeBalanced ==
    ASSUME Balanced, Time
    PROVE  Balanced'
BY DEF Time, NextWeek, Balanced, BookTypes, DeedTypes, LocksHold, Agrees, books, accounts, leagues, league

\* A fee is written to the ledger and counted, and nothing else.
LEMMA MarketBalanced ==
    ASSUME Balanced, Market
    PROVE  Balanced'
<1>1. PICK n \in Nations, amount \in Amounts : MarketFee(n, amount) BY DEF Market
<1>2. /\ ledger' = [ledger EXCEPT ![n] = @ + amount] /\ fees' = [fees EXCEPT ![n] = @ + amount]
      /\ UNCHANGED <<books, week, lock, deed, blurred, common, commonLedger, commonBlurred>>
    BY <1>1 DEF MarketFee, Market, leagues, league
<1>3. amount \in Int BY TreasuriesConstants
<1>4. ledger \in [Nations -> Int] /\ fees \in [Nations -> Int] BY DEF Balanced, Agrees
<1>5. /\ ledger' \in [Nations -> Int] /\ fees' \in [Nations -> Int]
      /\ \A m \in Nations : ledger'[m] - fees'[m] = ledger[m] - fees[m]
    BY <1>2, <1>3, <1>4
<1>6. UNCHANGED treasury BY <1>2 DEF books
<1>7. Agrees' BY <1>2, <1>5, <1>6 DEF Balanced, Agrees
<1> QED BY <1>2, <1>7 DEF Balanced, BookTypes, DeedTypes, LocksHold, books

\* A payment writes two treasuries that nobody holds.
LEMMA BalancesBalanced ==
    ASSUME Balanced, LeagueTypes, NEW d \in Deals, Balances(d),
           UNCHANGED <<level, interestOn, seasonOn, week, lock, deed, fees>>
    PROVE  Balanced' /\ common' \in Int
<1> USE DEF Balanced
<1> DEFINE t == d.does
           both == {t.from, t.to}
<1>1. CASE t.act # "transfer"
    <2>1. UNCHANGED <<treasury, common, ledger, fees, commonLedger, blurred, commonBlurred>>
        BY <1>1 DEF Balances
    <2> QED BY <2>1 DEF BookTypes, DeedTypes, LocksHold, Agrees, LeagueTypes
<1>2. CASE t.act = "transfer"
    <2>1. /\ \A n \in both : n \in Nations /\ lock[n] = None
          /\ treasury' = [n \in Nations |-> IF n \in both THEN d.seen[n] + Moved(t, n) ELSE treasury[n]]
          /\ ledger' = [n \in Nations |-> IF n \in both THEN ledger[n] + Moved(t, n) ELSE ledger[n]]
          /\ common' = d.common + Fee(t.amount) /\ commonLedger' = commonLedger + Fee(t.amount)
          /\ blurred' = blurred \cup {n \in both : treasury[n] # d.seen[n]}
          /\ commonBlurred' = (commonBlurred \/ common # d.common)
        BY <1>2 DEF Balances, Alive
    <2>2. /\ t.amount \in Int /\ d.common \in Int /\ d.seen \in [Nations -> Int]
        BY DEF Deals, Acts
    <2>3. Fee(t.amount) \in Int /\ common' \in Int BY <2>1, <2>2 DEF Fee, Half
    <2>4. \A n \in Nations : Moved(t, n) \in Int BY <2>2, <2>3 DEF Moved
    <2> HIDE DEF t, both
    <2>5. treasury' \in [Nations -> Int] BY <2>1, <2>2, <2>4 DEF BookTypes
    <2>6. ASSUME NEW n \in Nations, n \notin blurred'
          PROVE  treasury'[n] = ledger'[n] - fees'[n]
        <3>1. n \notin blurred /\ treasury[n] = ledger[n] - fees[n] /\ ledger[n] \in Int /\ fees[n] \in Int
            BY <2>1, <2>6 DEF Agrees
        <3>2. n \in both => d.seen[n] = treasury[n] BY <2>1, <2>6
        <3>3. Moved(t, n) \in Int BY <2>4
        <3> QED BY <2>1, <3>1, <3>2, <3>3
    <2>7. ~commonBlurred' => ~commonBlurred /\ common = d.common BY <2>1, Zenon
    <2>11. ledger' \in [Nations -> Int] /\ fees' \in [Nations -> Int] BY <2>1, <2>4 DEF Agrees
    <2>8. Agrees' BY <2>1, <2>6, <2>7, <2>11 DEF Agrees
    <2>9. \A w \in Workers, n \in Nations : lock[n] = w => treasury'[n] = treasury[n]
        BY <2>1, NationsConstants
    <2>10. LocksHold' BY <2>9 DEF LocksHold
    <2> QED BY <2>3, <2>5, <2>8, <2>10 DEF BookTypes, DeedTypes
<1> QED BY <1>1, <1>2

LEMMA StepsOfDiplomacy ==
    ASSUME BookTypes, LeagueTypes, NEW w \in Workers, Diplomacy(w)
    PROVE  /\ UNCHANGED <<nations, deed>>
           /\ \/ DealBegins(w) /\ UNCHANGED money
              \/ \E succeeds \in BOOLEAN : Cast(w, succeeds) /\ UNCHANGED <<books, week, lock, accounts>>
              \/ AbortDeal(w) \/ CommitFound(w) \/ CommitDissolve(w) \/ CommitPropose(w) \/ CommitDeal(w)
<1>1. CASE EndAllianceRequest(w) /\ UNCHANGED <<nations, deed, mix>>
    BY <1>1 DEF EndAllianceRequest
<1>2. CASE AllianceRequest(w) /\ UNCHANGED <<nations, money, mix>>
    BY <1>2, DealsBegin DEF money
<1>3. CASE /\ \E n \in Nations, m \in Nations, amount \in Amounts : Pay(w, n, m, amount)
           /\ UNCHANGED <<nations, money, mix>>
    BY <1>3, PaymentsBegin DEF money
<1> QED BY <1>1, <1>2, <1>3 DEF Diplomacy

\* Every step of the alliance but a payment leaves all balances as they are.
LEMMA DiplomacyBalanced ==
    ASSUME Balanced, LeagueTypes, DealTypes, NEW w \in Workers, Diplomacy(w)
    PROVE  Balanced' /\ common' \in Int
<1> DEFINE Still == UNCHANGED <<books, week, lock, accounts, deed, common, commonLedger, commonBlurred>>
<1>1. CASE Still
    BY <1>1 DEF Balanced, BookTypes, DeedTypes, LocksHold, Agrees, LeagueTypes, books, accounts
<1>2. UNCHANGED deed BY StepsOfDiplomacy DEF Balanced
<1> USE DEF league
<1>3. CASE DealBegins(w) /\ UNCHANGED money BY <1>1, <1>3 DEF DealBegins, money
<1>4. ASSUME NEW succeeds \in BOOLEAN, Cast(w, succeeds), UNCHANGED <<books, week, lock, accounts>>
      PROVE  Still
    BY <1>2, <1>4 DEF Cast
<1>5. CASE AbortDeal(w) BY <1>1, <1>2, <1>5 DEF AbortDeal
<1>6. CASE CommitFound(w) BY <1>1, <1>2, <1>6 DEF CommitFound
<1>7. CASE CommitDissolve(w) BY <1>1, <1>2, <1>7 DEF CommitDissolve, Gone
<1>8. CASE CommitPropose(w) BY <1>1, <1>2, <1>8 DEF CommitPropose
<1>9. CASE CommitDeal(w)
    <2>1. deal[w] \in Deals BY DEF DealTypes
    <2>2. Balances(deal[w]) /\ UNCHANGED <<level, interestOn, seasonOn, week, lock, fees>> BY <1>9 DEF CommitDeal
    <2> QED BY <1>2, <2>1, <2>2, BalancesBalanced
<1> QED BY <1>1, <1>3, <1>4, <1>5, <1>6, <1>7, <1>8, <1>9, StepsOfDiplomacy DEF Balanced

--------------------------------------------------------------------------------
(* Types of the alliance. *)

Lives == life \in [Nations -> {"free", "alive", "gone"}]

LEMMA DealTypesKept ==
    ASSUME BookTypes, LeagueTypes, DealTypes, NEW w \in Workers, Diplomacy(w)
    PROVE  DealTypes'
<1>1. CASE DealBegins(w) BY <1>1 DEF DealBegins, DealTypes
<1>2. ASSUME NEW succeeds \in BOOLEAN, Cast(w, succeeds)
      PROVE  DealTypes'
    <2> DEFINE d == deal[w]
               seen == [votes EXCEPT ![d.by] = d.vote]
               runs == Decided(seen) = "approved" /\ motion.execution # "executed"
               place == IF motion.what.to = None THEN 0 ELSE seat[motion.what.to]
               does == IF succeeds THEN motion.what ELSE Nothing
               status == Keep(motion.status, IF succeeds THEN "executed" ELSE Decided(seen))
               execution == Keep(motion.execution,
                                 IF runs THEN (IF succeeds THEN "executed" ELSE "failed")
                                 ELSE IF motion.execution = "pending" THEN "skipped"
                                 ELSE motion.execution)
    <2>1. d \in Deals /\ motion \in Proposals BY DEF DealTypes, LeagueTypes
    <2>2. seen \in [Nations -> Ballot] BY <2>1 DEF LeagueTypes, Deals
    <2>3. place \in Int /\ does \in Acts BY <2>1 DEF LeagueTypes, Proposals, Acts, Nothing
    <2>4. status \in Statuses \cup {"same"} BY <2>1 DEF Keep, Decided, Proposals, Statuses
    <2>5. execution \in Executions \cup {"same"} BY <2>1 DEF Keep, Proposals, Executions
    <2>6. deal' = [deal EXCEPT ![w].cast = TRUE, ![w].votes = seen, ![w].does = does, ![w].row = place,
                               ![w].seen = treasury, ![w].status = status, ![w].execution = execution]
        BY <1>2, Zenon DEF Cast
    <2> HIDE DEF seen, place, does, status, execution
    <2>7. deal' = [deal EXCEPT ![w] = [d EXCEPT !.cast = TRUE, !.votes = seen, !.does = does, !.row = place,
                                                !.seen = treasury, !.status = status, !.execution = execution]]
        BY <2>6 DEF DealTypes
    <2>8. [d EXCEPT !.cast = TRUE, !.votes = seen, !.does = does, !.row = place,
                    !.seen = treasury, !.status = status, !.execution = execution] \in Deals
        BY <2>1, <2>2, <2>3, <2>4, <2>5 DEF Deals, BookTypes
    <2> QED BY <2>7, <2>8 DEF DealTypes
<1>3. ASSUME EndDeal(w)
      PROVE  DealTypes'
    BY <1>3, NoDealIs DEF EndDeal, DealTypes
<1> QED
    BY <1>1, <1>2, <1>3, StepsOfDiplomacy
       DEF AbortDeal, CommitFound, CommitDissolve, CommitPropose, CommitDeal

LEMMA LeagueTypesKept ==
    ASSUME Balanced, LeagueTypes, DealTypes, NEW w \in Workers, Diplomacy(w)
    PROVE  LeagueTypes'
<1> USE DEF LeagueTypes
<1>1. common' \in Int BY DiplomacyBalanced
<1>2. CASE UNCHANGED league BY <1>1, <1>2 DEF league
<1>3. CASE CommitFound(w) BY <1>1, <1>3 DEF CommitFound, Alive
<1>4. NoVotes \in [Nations -> Ballot] BY DEF NoVotes, Ballot
<1>5. NoMotion \in Proposals BY DEF NoMotion, Nothing, Proposals, Acts, Statuses, Executions
<1>6. CASE CommitDissolve(w) BY <1>1, <1>4, <1>5, <1>6 DEF CommitDissolve, Gone
<1>7. deal[w] \in Deals BY DEF DealTypes
<1>8. CASE CommitPropose(w)
    <2>1. motion' = [NoMotion EXCEPT !.status = "open", !.by = deal[w].by, !.what = deal[w].what]
        BY <1>8 DEF CommitPropose
    <2>2. motion' \in Proposals BY <1>5, <1>7, <2>1 DEF Proposals, Deals, Statuses
    <2> QED BY <1>1, <1>8, <2>2 DEF CommitPropose
<1>9. CASE CommitDeal(w)
    <2>1. Seats(deal[w]) /\ votes' = Ballots(deal[w])
        BY <1>9 DEF CommitDeal
    <2>2. motion' = [motion EXCEPT !.status = Written(@, deal[w].status), !.execution = Written(@, deal[w].execution)]
        BY <1>9 DEF CommitDeal
    <2>3. allies' \subseteq Nations /\ seat' \in [Nations -> Int] BY <2>1 DEF Seats, Alive
    <2>4. votes' \in [Nations -> Ballot] BY <1>7, <2>1 DEF Ballots, Ballot, Deals
    <2>5. motion' \in Proposals
        BY <1>7, <2>2 DEF Written, Proposals, Deals, Statuses, Executions
    <2> QED BY <1>1, <2>3, <2>4, <2>5
<1> QED
    BY <1>2, <1>3, <1>6, <1>8, <1>9, StepsOfDiplomacy DEF Balanced, DealBegins, Cast, AbortDeal

--------------------------------------------------------------------------------
(* Who belongs to a nation concerns the alliance only as far as the nation stands. *)

LEMMA RequestsOnlyBegin ==
    ASSUME NEW w \in Workers, MembershipRequest(w) \/ \E n \in Nations, u \in Users : Disband(w, u, n)
    PROVE  UNCHANGED members
<1>1. \A j : Begin(w, j) => UNCHANGED members BY DEF Begin
<1>2. ASSUME NEW n \in Nations, NEW u \in Users,
             Create(w, u, n) \/ Leave(w, u, n) \/ Join(w, u, n) \/ Ask(w, u, n) \/ Disband(w, u, n)
      PROVE  UNCHANGED members
    BY <1>1, <1>2 DEF Create, Leave, Join, Ask, Disband
<1>3. ASSUME NEW n \in Nations, NEW u \in Users, NEW t \in Users,
             \/ Approve(w, u, n, t) \/ Reject(w, u, n, t)
             \/ Remove(w, u, n, t) \/ TransferLeadership(w, u, n, t)
      PROVE  UNCHANGED members
    BY <1>1, <1>3 DEF Approve, Reject, Remove, TransferLeadership
<1>4. ASSUME NEW n \in Nations, NEW u \in Users, NEW t \in Users, NEW as, SetRole(w, u, n, t, as)
      PROVE  UNCHANGED members
    BY <1>1, <1>4 DEF SetRole
<1>5. ASSUME GameServerRequest(w)
      PROVE  UNCHANGED members
    <2>1. \A n, l, officers, others, replace : Sync(w, n, l, officers, others, replace) => UNCHANGED members
        BY <1>1 DEF Sync
    <2> QED BY <1>5, <2>1 DEF GameServerRequest
<1> QED BY <1>2, <1>3, <1>4, <1>5 DEF MembershipRequest

LEMMA NationsStand ==
    ASSUME Lives, NEW w \in Workers, Membership(w)
    PROVE  Lives' /\ Alive \subseteq Alive' /\ UNCHANGED <<money, leagues>>
<1>1. UNCHANGED <<money, leagues>> BY DEF Membership
<1>2. CASE UNCHANGED life BY <1>1, <1>2 DEF Lives, Alive
<1>3. CASE CommitCreate(w) BY <1>1, <1>3 DEF CommitCreate, Lives, Alive
<1>4. CASE CommitMembers(w) \/ CommitApplication(w) \/ Abort(w)
    BY <1>2, <1>4 DEF CommitMembers, CommitApplication, Abort, members
<1> QED BY <1>2, <1>3, <1>4, RequestsOnlyBegin DEF Membership, EndMembershipRequest, members

\* Nobody who is about to be removed founded the alliance.
Whole ==
    /\ AllianceWhole
    /\ \A w \in Workers :
          Removes(deal[w]) => pact # "free" /\ (pact = "alive" => deal[w].does.to # founder)

LEMMA WholeDiplomacy ==
    ASSUME BookTypes, LeagueTypes, DealTypes, Whole, NEW w \in Workers, Diplomacy(w)
    PROVE  Whole'
<1> USE DEF Whole, AllianceWhole
<1>1. UNCHANGED life /\ Alive' = Alive BY StepsOfDiplomacy DEF nations, members, Alive
<1>2. CASE DealBegins(w) BY <1>1, <1>2 DEF DealBegins, DealTypes, league
<1>3. ASSUME NEW succeeds \in BOOLEAN, Cast(w, succeeds)
      PROVE  Whole'
    <2>1. UNCHANGED league BY <1>3 DEF Cast
    <2>2. \A o \in Workers \ {w} : deal'[o] = deal[o] BY <1>3 DEF Cast, DealTypes
    <2>3. deal'[w].does = IF succeeds THEN motion.what ELSE Nothing BY <1>3 DEF Cast, DealTypes, Deals
    <2>4. pact = "alive" BY <1>3 DEF Cast
    <2>5. succeeds /\ motion.what.act = "remove" => motion.what.to # founder BY <1>3 DEF Cast, CanExecute
    <2> QED BY <1>1, <2>1, <2>2, <2>3, <2>4, <2>5 DEF league, Removes, Nothing
<1>4. ASSUME EndDeal(w)
      PROVE  \A o \in Workers : deal'[o] = IF o = w THEN NoDeal ELSE deal[o]
    BY <1>4 DEF EndDeal, DealTypes
<1>5. ~Removes(NoDeal) BY NoDealIs DEF Removes
<1>6. CASE AbortDeal(w) BY <1>1, <1>4, <1>5, <1>6 DEF AbortDeal, league
<1>7. CASE CommitFound(w) BY <1>1, <1>4, <1>5, <1>7 DEF CommitFound
<1>8. CASE CommitDissolve(w) BY <1>1, <1>4, <1>5, <1>8 DEF CommitDissolve, Gone
<1>9. CASE CommitPropose(w) BY <1>1, <1>4, <1>5, <1>9 DEF CommitPropose
<1>10. CASE CommitDeal(w)
    <2>1. EndDeal(w) /\ pact = "alive" /\ UNCHANGED <<pact, founder>> /\ Seats(deal[w])
        BY <1>10 DEF CommitDeal
    <2>2. founder \in allies' /\ allies' \subseteq Alive BY <2>1 DEF Seats, Removes
    <2> QED BY <1>1, <1>4, <1>5, <2>1, <2>2
<1> QED BY <1>2, <1>3, <1>6, <1>7, <1>8, <1>9, <1>10, StepsOfDiplomacy

LEMMA DisbandKeeps ==
    ASSUME Lives, BookTypes, LeagueTypes, Whole, NEW w \in Workers, CommitDisband(w)
    PROVE  Lives' /\ LeagueTypes' /\ Whole' /\ UNCHANGED <<money, deal, common, commonLedger, commonBlurred>>
<1> USE DEF Whole, AllianceWhole
<1> DEFINE n == job[w].nation
<1>1. /\ life' = [life EXCEPT ![n] = "gone"]
      /\ UNCHANGED <<money, deal, commonLedger, commonBlurred>>
      /\ Gone \/ (~Restricted(n) /\ Bereft(n))
    BY DEF CommitDisband
<1>2. Lives' BY <1>1 DEF Lives
<1>3. Alive \ {n} \subseteq Alive' BY <1>1 DEF Lives, Alive
<1>4. NoVotes \in [Nations -> Ballot] /\ NoMotion \in Proposals
    BY DEF NoVotes, Ballot, NoMotion, Nothing, Proposals, Acts, Statuses, Executions
<1>5. UNCHANGED <<founder, seat, common>> BY <1>1 DEF Gone, Bereft
<1>6. CASE Gone BY <1>1, <1>2, <1>4, <1>5, <1>6 DEF Gone, LeagueTypes
<1>7. CASE ~Restricted(n) /\ Bereft(n)
    <2>1. LeagueTypes' BY <1>4, <1>5, <1>7 DEF Bereft, LeagueTypes, Ballot
    <2>2. pact = "alive" => founder \in allies' BY <1>7 DEF Bereft, Restricted, Founds
    <2>3. allies' \subseteq Alive' BY <1>3, <1>7 DEF Bereft
    <2> QED BY <1>1, <1>2, <1>5, <1>7, <2>1, <2>2, <2>3 DEF Bereft
<1> QED BY <1>1, <1>6, <1>7

--------------------------------------------------------------------------------
(* What is granted a second time has overlapped. *)

\* What a request is about to grant a second time is known.
Known == \A w \in Workers : \A g \in Grants(deed[w]) : Had(deed[w], g) => g \in overlapped

\* The same for the execution of a proposal, which only a vote brings.
KnownMotion ==
    /\ \A w \in Workers : deal[w].execution = "executed" => deal[w].cast /\ deal[w].kind = "vote"
    /\ \A w \in Workers :
          deal[w].execution = "executed" /\ motion.execution = "executed" => <<"motion", None>> \in overlapped

LEMMA SameHad ==
    ASSUME UNCHANGED books
    PROVE  \A d, g : Had(d, g)' <=> Had(d, g)
BY DEF Had, books

LEMMA KnownByChange ==
    ASSUME DeedTypes, Known, NEW w \in Workers, NEW d \in Deeds, deed' = [deed EXCEPT ![w] = d],
           UNCHANGED <<books, accounts>>,
           \A g \in Grants(d) : Had(d, g) => g \in overlapped
    PROVE  Known'
<1>1. \A o \in Workers : deed'[o] = IF o = w THEN d ELSE deed[o] BY DEF DeedTypes
<1>2. overlapped' = overlapped BY DEF accounts
<1>3. ASSUME NEW o \in Workers, NEW g \in Grants(deed'[o]), Had(deed'[o], g)
      PROVE  g \in overlapped
    <2>1. CASE o = w BY <1>1, <1>3, <2>1
    <2>2. CASE o # w BY <1>1, <1>3, <2>2 DEF Known
    <2> QED BY <2>1, <2>2
<1> QED BY <1>2, <1>3, SameHad DEF Known

LEMMA KnownBeforeCommit ==
    ASSUME DeedTypes, BookTypes, Known, NEW w \in Workers, MoneyRequest(w) \/ EndMoneyRequest(w), ~CommitDeed(w)
    PROVE  Known' /\ UNCHANGED accounts
<1>1. CASE MoneyRequest(w)
    <2>1. PICK d \in Deeds :
              /\ deed' = [deed EXCEPT ![w] = d]
              /\ \A g \in Grants(d) : ~Had(d, g)
              /\ UNCHANGED <<books, week, lock, accounts>>
        BY <1>1, RequestsBegin DEF DeedBegins
    <2> QED BY <2>1, KnownByChange
<1>2. ASSUME NEW n \in Nations, LookUp(w, n)
      PROVE  Known' /\ UNCHANGED accounts
    <2> DEFINE due == IF InterestDue(n, w) THEN n ELSE None
               d == [deed[w] EXCEPT !.todo = @ \ {n}, !.wants = due]
    <2>1. deed' = [deed EXCEPT ![w] = d] /\ deed[w] \in Deeds BY <1>2 DEF LookUp, DeedTypes
    <2>2. /\ d \in Deeds /\ d.kind = deed[w].kind /\ d.got = deed[w].got /\ d.wants = due
          /\ d.level = deed[w].level /\ d.week = deed[w].week /\ d.nation = deed[w].nation
        BY <2>1 DEF Deeds
    <2>3. UNCHANGED <<books, accounts>> BY <1>2 DEF LookUp
    <2>4. ASSUME NEW g \in Grants(d), Had(d, g)
          PROVE  g \in Grants(deed[w]) /\ Had(deed[w], g)
        <3> HIDE DEF d
        <3>1. Had(deed[w], g) BY <2>2, <2>4 DEF Had
        <3>2. g # <<"interest", n>> \/ due # n
            <4>1. SUFFICES ASSUME g = <<"interest", n>>, InterestDue(n, w)
                  PROVE  FALSE
                BY NationsConstants
            <4>2. interestOn[n] >= deed[w].week BY <3>1, <4>1, HadIs, Zenon
            <4> QED BY <2>1, <4>1, <4>2 DEF InterestDue, BookTypes, Deeds
        <3>3. g \in Grants(deed[w]) BY <2>2, <2>4, <3>2 DEF Grants
        <3> QED BY <3>1, <3>3
    <2> HIDE DEF d
    <2> QED BY <2>1, <2>2, <2>3, <2>4, KnownByChange DEF Known
<1>3. CASE LockTreasury(w)
    <2> DEFINE n == deed[w].wants
               d == [deed[w] EXCEPT !.wants = None, !.seen[n] = treasury[n],
                                    !.got = IF Adds(deed[w], treasury[n]) = 0 THEN @ ELSE @ \cup {n}]
    <2>1. deed' = [deed EXCEPT ![w] = d] /\ deed[w] \in Deeds /\ n \in Nations
        BY <1>3 DEF LockTreasury, DeedTypes, Alive
    <2>2. /\ d \in Deeds /\ d.kind = deed[w].kind /\ d.got \subseteq deed[w].got \cup {n} /\ d.wants = None
          /\ d.level = deed[w].level /\ d.week = deed[w].week /\ d.nation = deed[w].nation
        BY <2>1 DEF Deeds, BookTypes
    <2>3. UNCHANGED <<books, accounts>> BY <1>3 DEF LockTreasury
    <2>4. ASSUME NEW g \in Grants(d), Had(d, g)
          PROVE  g \in Grants(deed[w]) /\ Had(deed[w], g)
        <3> HIDE DEF d
        <3>1. Had(deed[w], g) BY <2>2, <2>4 DEF Had
        <3>2. g \in Grants(deed[w]) BY <2>1, <2>2, <2>4, NationsConstants DEF Grants
        <3> QED BY <3>1, <3>2
    <2> HIDE DEF d
    <2> QED BY <2>1, <2>2, <2>3, <2>4, KnownByChange DEF Known
<1>4. ASSUME NEW got \in SUBSET Nations, ReadBalances(w, got)
      PROVE  Known' /\ UNCHANGED accounts
    <2> DEFINE d == [deed[w] EXCEPT !.read = TRUE, !.got = got, !.seen = treasury]
    <2>1. deed' = [deed EXCEPT ![w] = d] /\ deed[w] \in Deeds /\ deed[w].kind \in {"season", "capital"}
        BY <1>4 DEF ReadBalances, DeedTypes, Sound
    <2>2. /\ d \in Deeds /\ d.kind = deed[w].kind
          /\ d.level = deed[w].level /\ d.week = deed[w].week /\ d.nation = deed[w].nation
        BY <2>1 DEF Deeds, BookTypes
    <2>3. UNCHANGED <<books, accounts>> BY <1>4 DEF ReadBalances
    <2> HIDE DEF d
    <2>4. Grants(d) = Grants(deed[w]) BY <2>1, <2>2, FreshGrants
    <2>5. \A g : Had(d, g) <=> Had(deed[w], g) BY <2>2 DEF Had
    <2> QED BY <2>1, <2>2, <2>3, <2>4, <2>5, KnownByChange DEF Known
<1>5. CASE Fail(w)
    <2>1. deed' = [deed EXCEPT ![w] = NoDeed] /\ UNCHANGED <<books, accounts>> BY <1>5 DEF Fail, Release
    <2>2. Grants(NoDeed) = {} BY NoDeedIs DEF Grants
    <2> QED BY <2>1, <2>2, NoDeedIs, KnownByChange
<1> QED BY <1>1, <1>2, <1>3, <1>4, <1>5 DEF EndMoneyRequest

\* What a request has just granted, another that is about to had overlapped with.
LEMMA KnownAfterCommit ==
    ASSUME DeedTypes, BookTypes, Known, RewardsOnce, NEW w \in Workers, CommitDeed(w)
    PROVE  Known' /\ RewardsOnce'
<1> DEFINE d == deed[w]
<1>1. d \in Deeds BY DEF DeedTypes
<1>2. /\ level' = IF d.kind = "research" THEN [level EXCEPT ![d.nation] = d.level] ELSE level
      /\ capital' = IF d.kind = "capital" THEN capital \cup {d.nation} ELSE capital
      /\ interestOn' = IF d.kind = "interest"
                       THEN [n \in Nations |-> IF n \in d.got THEN Later(interestOn[n], d.week) ELSE interestOn[n]]
                       ELSE interestOn
      /\ seasonOn' = IF d.kind = "season" THEN Later(seasonOn, d.week) ELSE seasonOn
      /\ again' = again \cup {g \in Grants(d) : Had(d, g)}
      /\ overlapped' = overlapped \cup (Grants(d) \cap UNION {Grants(deed[o]) : o \in Workers \ {w}})
      /\ deed' = [deed EXCEPT ![w] = NoDeed]
    BY DEF CommitDeed, Release
<1>3. RewardsOnce' BY <1>1, <1>2 DEF RewardsOnce, Known
<1>4. \A o \in Workers : deed'[o] = IF o = w THEN NoDeed ELSE deed[o] BY <1>2 DEF DeedTypes
<1>5. Grants(NoDeed) = {} BY NoDeedIs DEF Grants
<1>6. ASSUME NEW CONSTANT o \in Workers \ {w}, NEW CONSTANT e, e = deed[o],
             NEW CONSTANT g \in Grants(e), Had(e, g)'
      PROVE  g \in overlapped'
    <2>1. e \in Deeds BY <1>6 DEF DeedTypes
    <2>2. CASE g \in Grants(d)
        <3>1. g \in UNION {Grants(deed[v]) : v \in Workers \ {w}} BY <1>6
        <3> QED BY <1>2, <2>2, <3>1
    <2>3. CASE g \notin Grants(d)
        <3>1. e.kind \in {"research", "capital", "interest", "season"} BY <2>1 DEF Grants, Deeds, DeedKinds
        <3>2. ASSUME e.kind = "research"
              PROVE  Had(e, g)
            <4>1. g = <<"research", e.nation>> /\ e.nation \in Nations
                BY <1>6, <2>1, <3>2, FreshGrants DEF DeedTypes, Sound
            <4>2. level'[e.nation] = level[e.nation]
                BY <1>1, <1>2, <2>3, <4>1, FreshGrants DEF BookTypes
            <4> QED BY <1>6, <4>1, <4>2 DEF Had
        <3>3. ASSUME e.kind = "capital"
              PROVE  Had(e, g)
            <4>1. g = <<"capital", e.nation>> BY <2>1, <3>3, FreshGrants
            <4>2. e.nation \in capital' => e.nation \in capital
                BY <1>1, <1>2, <2>3, <4>1, FreshGrants
            <4> QED BY <1>6, <4>1, <4>2 DEF Had
        <3>4. ASSUME e.kind = "interest"
              PROVE  Had(e, g)
            <4>1. PICK n \in Nations : g = <<"interest", n>> BY <2>1, <3>4 DEF Grants, Deeds
            <4>2. d.kind = "interest" => n \notin d.got BY <1>1, <2>3, <4>1, NationsConstants DEF Grants
            <4>3. interestOn'[n] = interestOn[n] BY <1>2, <4>2
            <4> QED BY <1>6, <4>1, <4>3 DEF Had
        <3>5. ASSUME e.kind = "season"
              PROVE  Had(e, g)
            <4>1. g = <<"season", None>> BY <2>1, <3>5, FreshGrants
            <4>2. seasonOn' = seasonOn BY <1>1, <1>2, <2>3, <4>1, FreshGrants
            <4> QED BY <1>6, <4>1, <4>2 DEF Had
        <3>6. Had(e, g) BY <3>1, <3>2, <3>3, <3>4, <3>5
        <3> QED BY <1>2, <1>6, <3>6 DEF Known
    <2> QED BY <2>2, <2>3
<1>7. ASSUME NEW CONSTANT o \in Workers, NEW CONSTANT g \in Grants(deed'[o]), Had(deed[o], g)'
      PROVE  g \in overlapped'
    <2>1. o # w /\ deed'[o] = deed[o] BY <1>4, <1>5, <1>7
    <2>2. PICK e : e = deed[o] OBVIOUS
    <2>3. Had(e, g)' BY <1>7, <2>1, <2>2 DEF Had
    <2> QED BY <1>6, <1>7, <2>1, <2>2, <2>3
<1> QED BY <1>3, <1>7 DEF Known

LEMMA MotionKnown ==
    ASSUME BookTypes, LeagueTypes, DealTypes, Known, KnownMotion, RewardsOnce, NEW w \in Workers, Diplomacy(w)
    PROVE  Known' /\ KnownMotion' /\ RewardsOnce'
<1> USE DEF KnownMotion, RewardsOnce, league, accounts
<1>1. UNCHANGED deed BY StepsOfDiplomacy
<1>2. UNCHANGED books /\ overlapped \subseteq overlapped' => Known'
    BY <1>1, SameHad DEF Known
<1>3. \A o \in Workers \ {w} : deal'[o] = deal[o]
    <2>1. ASSUME NEW d, deal' = [deal EXCEPT ![w] = d]
          PROVE  \A o \in Workers \ {w} : deal'[o] = deal[o]
        BY <2>1 DEF DealTypes
    <2>2. ASSUME NEW succeeds \in BOOLEAN, Cast(w, succeeds)
          PROVE  \A o \in Workers \ {w} : deal'[o] = deal[o]
        BY <2>2 DEF Cast, DealTypes
    <2>3. CASE DealBegins(w) BY <2>1, <2>3 DEF DealBegins
    <2>4. CASE EndDeal(w) BY <2>1, <2>4 DEF EndDeal
    <2> QED
        BY <2>2, <2>3, <2>4, StepsOfDiplomacy
           DEF AbortDeal, CommitFound, CommitDissolve, CommitPropose, CommitDeal
<1>4. EndDeal(w) => deal'[w].execution # "executed" BY NoDealIs DEF EndDeal, DealTypes
<1>5. CASE DealBegins(w) /\ UNCHANGED money
    <2>1. deal'[w].execution # "executed" /\ UNCHANGED <<motion, accounts, books>>
        BY <1>5 DEF DealBegins, DealTypes, money
    <2> QED BY <1>2, <1>3, <2>1
<1>6. ASSUME NEW succeeds \in BOOLEAN, Cast(w, succeeds), UNCHANGED <<books, week, lock, accounts>>
      PROVE  Known' /\ KnownMotion' /\ RewardsOnce'
    <2>1. deal'[w].cast /\ deal'[w].kind = "vote" /\ UNCHANGED motion
        BY <1>6 DEF Cast, DealTypes, Deals
    <2>2. deal'[w].execution = "executed" => motion.execution # "executed"
        BY <1>6 DEF Cast, Keep, DealTypes, Deals
    <2> QED BY <1>2, <1>3, <1>6, <2>1, <2>2
<1>7. CASE AbortDeal(w) BY <1>2, <1>3, <1>4, <1>7 DEF AbortDeal
<1>8. CASE CommitFound(w) BY <1>2, <1>3, <1>4, <1>8 DEF CommitFound
<1>9. CASE CommitDissolve(w) BY <1>2, <1>3, <1>4, <1>9 DEF CommitDissolve, Gone, NoMotion
<1>10. CASE CommitPropose(w)
    <2>1. motion'.execution = "pending" BY <1>10 DEF CommitPropose, NoMotion
    <2> QED BY <1>2, <1>3, <1>4, <1>10, <2>1 DEF CommitPropose
<1>11. CASE CommitDeal(w)
    <2> DEFINE d == deal[w]
    <2>1. /\ again' = IF d.execution = "executed" /\ motion.execution = "executed"
                      THEN again \cup {<<"motion", None>>} ELSE again
          /\ overlapped' = IF \E o \in Workers \ {w} : d.kind = "vote" /\ AtProposal(deal[o])
                           THEN overlapped \cup {<<"motion", None>>} ELSE overlapped
          /\ motion'.execution = Written(motion.execution, d.execution)
          /\ EndDeal(w)
          /\ UNCHANGED <<level, capital, interestOn, seasonOn>>
        BY <1>11 DEF CommitDeal, LeagueTypes, Proposals
    <2>5. \A o \in Workers : deal[o].cast => AtProposal(deal[o]) BY DEF AtProposal
    <2>2. RewardsOnce' BY <2>1, <2>5
    <2>3. Known' BY <1>1, <2>1 DEF Known, Had
    <2>4. ASSUME NEW o \in Workers \ {w}, deal[o].execution = "executed", motion'.execution = "executed"
          PROVE  <<"motion", None>> \in overlapped'
        <3>1. CASE motion.execution = "executed" BY <2>1, <2>4, <3>1
        <3>2. CASE d.execution = "executed" BY <2>1, <2>4, <2>5, <3>2
        <3> QED BY <2>1, <2>4, <3>1, <3>2 DEF Written
    <2> QED BY <1>3, <1>4, <2>1, <2>2, <2>3, <2>4
<1> QED BY <1>5, <1>6, <1>7, <1>8, <1>9, <1>10, <1>11, StepsOfDiplomacy

--------------------------------------------------------------------------------
(* Leaders and homes.  A request under way either leaves the leader of its       *)
(* nation alone or replaces the one there is, as long as no change of leader     *)
(* crossed another; and whom it admits has no home yet.                          *)

JobKinds == {"none", "create", "leave", "join", "ask", "approve", "reject", "role", "remove", "transfer",
             "sync", "disband", "dissolve"}
Jobs ==
    [kind : JobKinds, nation : Nations \cup {None}, user : Users \cup {None},
     plan : [Users -> Roles \cup {"same"}], new : SUBSET Users, rows : [Users -> Int],
     head : Users \cup {None}, misled : BOOLEAN]

MemberTypes ==
    /\ role \in [Nations -> [Users -> Roles]] /\ row \in [Nations -> [Users -> Int]]
    /\ head \in [Nations -> Users \cup {None}] /\ asked \in [Nations -> SUBSET Users]
    /\ job \in [Workers -> Jobs]
    /\ \A n \in Nations : life[n] = "free" => \A u \in Users : role[n][u] = "none"

\* The nations whose leader is not in doubt.
Clear == Alive \ (crossed \cup misled)

Leads == \A n \in Clear : /\ head[n] \in Users
                          /\ \A u \in Users : role[n][u] = "leader" <=> u = head[n]

OneHome == \A u \in Users \ doubled : \A n, k \in Homes(u) : n = k

Loyal(j, l) == j.head = None /\ j.plan[l] = "same" /\ \A u \in Users : j.plan[u] # "leader"

Replaces(j, l) ==
    /\ j.kind \in {"transfer", "sync"}
    /\ j.head \in Users \ {l}
    /\ \A u \in Users : j.plan[u] = "leader" <=> u = j.head
    /\ j.plan[l] # "same" /\ row[j.nation][l] = j.rows[l]

\* What a request is, whatever becomes of the nation.
Fair(j) ==
    /\ j.kind # "none" => j.nation \in Nations
    /\ j.kind \notin {"none", "sync"} => j.user \in Users
    /\ \A u \in j.new : j.plan[u] \notin {"same", "none"}
    /\ j.kind = "create" => \A u \in Users : j.plan[u] = IF u = j.user THEN "leader" ELSE "same"

Served(j) ==
    j.kind \notin {"none", "create"} =>
        /\ life[j.nation] # "free"
        /\ j.nation \in Clear => j.misled \/ Loyal(j, head[j.nation]) \/ Replaces(j, head[j.nation])

Admits(j) == j.kind # "sync" => \A u \in j.new \ doubled : Homes(u) = {}

Upright(j) == Fair(j) /\ Served(j) /\ Admits(j)

Membered == Lives /\ MemberTypes /\ Leads /\ OneHome /\ \A w \in Workers : Upright(job[w])

LEMMA NoJobIs ==
    /\ NoJob \in Jobs
    /\ NoJob.kind = "none" /\ NoJob.new = {} /\ NoJob.head = None /\ NoJob.nation = None
    /\ ~NoJob.misled
BY DEF NoJob, Jobs, JobKinds, Same

LEMMA NoJobUpright == Upright(NoJob)
BY NoJobIs DEF Upright, Fair, Served, Admits

JobBegins(w) ==
    \E j \in Jobs :
        /\ job[w] = NoJob /\ j.kind # "none" /\ Counted
        /\ job' = [job EXCEPT ![w] = j]
        /\ Upright(j)
        /\ UNCHANGED <<members, crossed, doubled, misled>>

LEMMA BeginsByUpright ==
    ASSUME NEW w, NEW j \in Jobs, Begin(w, j), j.kind # "none", Upright(j)
    PROVE  JobBegins(w)
BY DEF Begin, JobBegins

LEMMA RequestIs ==
    ASSUME MemberTypes, NEW kind \in JobKinds, NEW n \in Nations, NEW u \in Users \cup {None}
    PROVE  /\ Request(kind, n, u) \in Jobs
           /\ Request(kind, n, u).kind = kind /\ Request(kind, n, u).nation = n
           /\ Request(kind, n, u).user = u /\ Request(kind, n, u).new = {}
           /\ Request(kind, n, u).head = None /\ Request(kind, n, u).rows = row[n]
           /\ Request(kind, n, u).plan = Same
BY NoJobIs DEF Request, Jobs, MemberTypes, NoJob

\* One that changes one user, who is not the leader.
LEMMA ModestUpright ==
    ASSUME Membered, NEW j \in Jobs, NEW t \in Users,
           j.kind \notin {"none", "create"}, j.nation \in Alive, j.user \in Users, j.head = None,
           \A u \in Users \ {t} : j.plan[u] = "same",
           j.plan[t] \in {"none", "member", "officer", "same"},
           j.plan[t] = "same" \/ role[j.nation][t] # "leader",
           j.new = {} \/ (j.new = {t} /\ j.plan[t] = "member" /\ Homes(t) = {})
    PROVE  Upright(j)
<1>1. j.nation \in Nations /\ life[j.nation] = "alive" BY DEF Alive
<1>2. Fair(j) BY <1>1 DEF Fair
<1>3. Served(j)
    <2>1. ASSUME j.nation \in Clear PROVE Loyal(j, head[j.nation])
        <3>1. head[j.nation] \in Users /\ role[j.nation][head[j.nation]] = "leader"
            BY <2>1 DEF Membered, Leads
        <3> QED BY <3>1 DEF Loyal
    <2> QED BY <1>1, <2>1 DEF Served
<1>4. Admits(j) BY DEF Admits
<1> QED BY <1>2, <1>3, <1>4 DEF Upright

LEMMA HomeIs ==
    ASSUME NEW u, NEW n, Home(u, n)
    PROVE  n \in Alive /\ role[n][u] # "none"
<1>1. n \in Homes(u) BY DEF Home
<1> QED BY <1>1 DEF Homes

LEMMA ManagesIs ==
    ASSUME NEW u, NEW n, Manages(u, n)
    PROVE  n \in Alive
BY HomeIs DEF Manages

LEMMA CreateBegins ==
    ASSUME Membered, NEW w \in Workers, NEW u \in Users, NEW n \in Nations, Create(w, u, n)
    PROVE  JobBegins(w)
<1> DEFINE r == Request("create", n, u)
           j == [r EXCEPT !.plan[u] = "leader", !.new = {u}]
<1>1. r \in Jobs /\ r.kind = "create" /\ r.user = u /\ r.nation = n /\ r.plan = Same
    BY RequestIs DEF Membered, JobKinds
<1>2. Begin(w, j) /\ Homes(u) = {} BY DEF Create, Admission
<1> HIDE DEF r
<1>3. /\ j \in Jobs /\ j.kind = "create" /\ j.user = u /\ j.nation = n /\ j.new = {u}
      /\ \A x \in Users : j.plan[x] = IF x = u THEN "leader" ELSE "same"
    BY <1>1 DEF Jobs, Same, Roles
<1> HIDE DEF j
<1>4. Upright(j) BY <1>2, <1>3 DEF Upright, Fair, Served, Admits
<1> QED BY <1>2, <1>3, <1>4, BeginsByUpright

LEMMA ChangeBegins ==
    ASSUME Membered, NEW w \in Workers, NEW kind \in JobKinds \ {"none", "create"},
           NEW n \in Alive, NEW t \in Users, NEW as \in {"none", "member", "officer"},
           role[n][t] # "leader", Begin(w, [Request(kind, n, t) EXCEPT !.plan[t] = as])
    PROVE  JobBegins(w)
<1> DEFINE r == Request(kind, n, t)
           j == [r EXCEPT !.plan[t] = as]
<1>0. n \in Nations BY DEF Alive
<1>1. r \in Jobs /\ r.kind = kind /\ r.user = t /\ r.nation = n /\ r.plan = Same /\ r.new = {} /\ r.head = None
    BY <1>0, RequestIs DEF Membered
<1>2. Begin(w, j) OBVIOUS
<1> HIDE DEF r
<1>3. /\ j \in Jobs /\ j.kind = kind /\ j.user = t /\ j.nation = n /\ j.new = {} /\ j.head = None
      /\ j.plan[t] = as /\ \A x \in Users \ {t} : j.plan[x] = "same"
    BY <1>1 DEF Jobs, Same, Roles
<1> HIDE DEF j
<1>4. Upright(j) BY <1>3, ModestUpright
<1> QED BY <1>2, <1>3, <1>4, BeginsByUpright

LEMMA AdmissionBegins ==
    ASSUME Membered, NEW w \in Workers, NEW kind \in {"join", "approve"},
           NEW n \in Alive, NEW t \in Users, Homes(t) = {}, Begin(w, Admission(kind, n, t, "member"))
    PROVE  JobBegins(w)
<1> DEFINE r == Request(kind, n, t)
           j == [r EXCEPT !.plan[t] = "member", !.new = {t}]
<1>0. n \in Nations /\ kind \in JobKinds BY DEF Alive, JobKinds
<1>1. r \in Jobs /\ r.kind = kind /\ r.user = t /\ r.nation = n /\ r.plan = Same /\ r.new = {} /\ r.head = None
    BY <1>0, RequestIs DEF Membered
<1>2. Begin(w, j) BY DEF Admission
<1> HIDE DEF r
<1>3. /\ j \in Jobs /\ j.kind = kind /\ j.user = t /\ j.nation = n /\ j.new = {t} /\ j.head = None
      /\ j.plan[t] = "member" /\ \A x \in Users \ {t} : j.plan[x] = "same"
    BY <1>1 DEF Jobs, Same, Roles
<1> HIDE DEF j
<1>4. role[n][t] = "none" BY DEF Homes
<1>5. Upright(j) BY <1>3, <1>4, ModestUpright
<1> QED BY <1>2, <1>3, <1>5, BeginsByUpright

LEMMA PlainBegins ==
    ASSUME Membered, NEW w \in Workers, NEW kind \in JobKinds \ {"none", "create"},
           NEW n \in Alive, NEW t \in Users, Begin(w, Request(kind, n, t))
    PROVE  JobBegins(w)
<1> DEFINE j == Request(kind, n, t)
<1>0. n \in Nations BY DEF Alive
<1>1. j \in Jobs /\ j.kind = kind /\ j.user = t /\ j.nation = n /\ j.plan = Same /\ j.new = {} /\ j.head = None
    BY <1>0, RequestIs DEF Membered
<1>2. Begin(w, j) OBVIOUS
<1> HIDE DEF j
<1>3. \A x \in Users : j.plan[x] = "same" BY <1>1 DEF Same
<1>4. Upright(j) BY <1>1, <1>3, ModestUpright
<1> QED BY <1>1, <1>2, <1>4, BeginsByUpright

\* The leader hands over: he is the one whom the request replaces.
LEMMA TransferBegins ==
    ASSUME Membered, NEW w \in Workers, NEW n \in Nations, NEW a \in Users, NEW t \in Users,
           TransferLeadership(w, a, n, t)
    PROVE  JobBegins(w)
<1> DEFINE r == Request("transfer", n, t)
           plan == [Same EXCEPT ![a] = "officer", ![t] = Keep(role[n][t], "leader")]
           heir == IF head[n] = t THEN None ELSE t
           j == [r EXCEPT !.plan = plan, !.head = heir]
<1>1. /\ r \in Jobs /\ r.kind = "transfer" /\ r.user = t /\ r.nation = n /\ r.new = {}
      /\ r.rows = row[n]
    BY RequestIs DEF Membered, JobKinds
<1>2. /\ Begin(w, j) /\ n \in Alive /\ role[n][a] = "leader" /\ t # a
    BY HomeIs DEF TransferLeadership
<1>3. plan \in [Users -> Roles \cup {"same"}] /\ heir \in Users \cup {None}
    BY DEF Keep, Same, Roles
<1>4. /\ \A x \in Users \ {a, t} : plan[x] = "same"
      /\ plan[a] = "officer" /\ plan[t] = Keep(role[n][t], "leader")
    BY <1>2 DEF Same
<1> HIDE DEF r, plan, heir
<1>5. /\ j \in Jobs /\ j.kind = "transfer" /\ j.user = t /\ j.nation = n /\ j.new = {}
      /\ j.plan = plan /\ j.head = heir /\ j.rows = row[n]
    BY <1>1, <1>3 DEF Jobs
<1> HIDE DEF j
<1>6. ASSUME n \in Clear PROVE Replaces(j, head[n])
    <2>1. head[n] = a /\ role[n][t] # "leader" BY <1>2, <1>6 DEF Membered, Leads
    <2>2. heir = t BY <1>2, <2>1 DEF heir
    <2>3. plan[t] = "leader" BY <1>4, <2>1 DEF Keep
    <2> QED BY <1>2, <1>4, <1>5, <2>1, <2>2, <2>3 DEF Replaces
<1>7. Upright(j) BY <1>2, <1>5, <1>6 DEF Upright, Fair, Served, Admits, Alive
<1> QED BY <1>2, <1>5, <1>7, BeginsByUpright

\* The game server names the leader there is, leaves him alone, replaces him, or
\* passes him over.
LEMMA SyncBegins ==
    ASSUME Membered, NEW w \in Workers, NEW n \in Nations, n \in Alive, NEW l \in Users \cup {None},
           NEW officers \in SUBSET (Users \ {l}), NEW others \in SUBSET Users, NEW replace \in BOOLEAN,
           Sync(w, n, l, officers, others, replace)
    PROVE  JobBegins(w)
<1> DEFINE r == Request("sync", n, None)
           named == officers \cup others \cup ({l} \ {None})
           Wanted(x) == IF x = l THEN "leader" ELSE IF x \in officers THEN "officer"
                        ELSE IF x \in others THEN "member" ELSE "none"
           plan == [x \in Users |-> IF x \in named \/ replace THEN Keep(role[n][x], Wanted(x)) ELSE "same"]
           new == {x \in named : role[n][x] = "none"}
           heir == IF l = head[n] THEN None ELSE l
           over == PassesOver(n, l, plan)
           j == [r EXCEPT !.plan = plan, !.new = new, !.head = heir, !.misled = over]
<1>1. r \in Jobs /\ r.kind = "sync" /\ r.nation = n /\ r.rows = row[n]
    BY RequestIs DEF Membered, JobKinds
<1>2. Begin(w, j) /\ n \in Alive /\ (l # None => role[n][l] # "none") BY DEF Sync
<1>3. /\ plan \in [Users -> Roles \cup {"same"}] /\ heir \in Users \cup {None} /\ new \subseteq Users
      /\ over \in BOOLEAN
    BY DEF Keep, Roles, PassesOver
<1>4. \A x \in new : plan[x] \notin {"same", "none"} BY DEF Keep
<1>5. \A x \in Users : plan[x] = "leader" <=> (x = l /\ role[n][l] # "leader") BY NationsConstants DEF Keep
<1>6. l # None /\ role[n][l] = "leader" => plan[l] = "same" BY DEF Keep
<1>7. ASSUME ~over, NEW x \in Users \ {l}, role[n][x] = "leader"
      PROVE  plan[x] = "same" <=> l = None
    BY <1>7 DEF PassesOver
<1> HIDE DEF r, plan, new, heir, over
<1>8. /\ j \in Jobs /\ j.kind = "sync" /\ j.nation = n /\ j.new = new
      /\ j.plan = plan /\ j.head = heir /\ j.rows = row[n] /\ j.misled = over
    BY <1>1, <1>3 DEF Jobs
<1> HIDE DEF j
<1>9. ASSUME n \in Clear, ~over PROVE Loyal(j, head[n]) \/ Replaces(j, head[n])
    <2>1. head[n] \in Users /\ \A x \in Users : role[n][x] = "leader" <=> x = head[n]
        BY <1>2, <1>9 DEF Membered, Leads
    <2>2. CASE head[n] = l BY <1>5, <1>6, <1>8, <2>1, <2>2, NationsConstants DEF Loyal, heir
    <2>3. CASE l = None
        <3>1. plan[head[n]] = "same" BY <1>7, <1>9, <2>1, <2>3, NationsConstants
        <3> QED BY <1>5, <1>8, <2>1, <2>3, <3>1, NationsConstants DEF Loyal, heir
    <2>4. CASE l \in Users /\ head[n] # l
        <3>1. heir = l /\ role[n][l] # "leader" /\ role[n][head[n]] = "leader" BY <2>1, <2>4 DEF heir
        <3>2. plan[head[n]] # "same" BY <1>7, <1>9, <2>1, <2>4, <3>1, NationsConstants
        <3> QED BY <1>5, <1>8, <2>1, <2>4, <3>1, <3>2 DEF Replaces
    <2> QED BY <2>2, <2>3, <2>4
<1>10. Upright(j) BY <1>2, <1>4, <1>8, <1>9 DEF Upright, Fair, Served, Admits, Alive
<1> QED BY <1>2, <1>8, <1>10, BeginsByUpright

LEMMA RequestsUpright ==
    ASSUME Membered, NEW w \in Workers,
           MembershipRequest(w) \/ \E n \in Nations, u \in Users : Disband(w, u, n)
    PROVE  JobBegins(w)
<1>1. ASSUME NEW n \in Nations, NEW u \in Users, Leave(w, u, n) PROVE JobBegins(w)
    <2>1. n \in Alive /\ role[n][u] # "leader" BY <1>1, HomeIs DEF Leave, MayLeave
    <2> QED BY <1>1, <2>1, ChangeBegins DEF Leave, JobKinds
<1>2. ASSUME NEW n \in Nations, NEW u \in Users, Join(w, u, n) \/ Ask(w, u, n) PROVE JobBegins(w)
    <2>1. n \in Alive /\ Homes(u) = {} BY <1>2 DEF Join, Ask, MayApply
    <2>2. CASE Join(w, u, n) BY <2>1, <2>2, AdmissionBegins DEF Join
    <2>3. CASE Ask(w, u, n) BY <2>1, <2>3, PlainBegins DEF Ask, JobKinds
    <2> QED BY <1>2, <2>2, <2>3
<1>3. ASSUME NEW n \in Nations, NEW a \in Users, NEW t \in Users, Approve(w, a, n, t) \/ Reject(w, a, n, t)
      PROVE  JobBegins(w)
    <2>1. n \in Alive BY <1>3, ManagesIs DEF Approve, Reject
    <2>2. CASE Approve(w, a, n, t) BY <2>1, <2>2, AdmissionBegins DEF Approve
    <2>3. CASE Reject(w, a, n, t) BY <2>1, <2>3, PlainBegins DEF Reject, JobKinds
    <2> QED BY <1>3, <2>2, <2>3
<1>4. ASSUME NEW n \in Nations, NEW a \in Users, NEW t \in Users, NEW as \in {"member", "officer"},
             SetRole(w, a, n, t, as)
      PROVE  JobBegins(w)
    <2>1. n \in Alive /\ role[n][t] # "leader" BY <1>4, ManagesIs DEF SetRole, Outranks
    <2> QED BY <1>4, <2>1, ChangeBegins DEF SetRole, JobKinds
<1>5. ASSUME NEW n \in Nations, NEW a \in Users, NEW t \in Users, Remove(w, a, n, t)
      PROVE  JobBegins(w)
    <2>1. n \in Alive /\ role[n][t] # "leader" BY <1>5, ManagesIs DEF Remove, Outranks
    <2> QED BY <1>5, <2>1, ChangeBegins DEF Remove, JobKinds
<1>6. ASSUME NEW n \in Nations, NEW u \in Users, Disband(w, u, n) PROVE JobBegins(w)
    <2>1. n \in Alive BY <1>6, HomeIs DEF Disband
    <2>2. PICK kind \in {"dissolve", "disband"} : Begin(w, Request(kind, n, u)) BY <1>6 DEF Disband
    <2> QED BY <2>1, <2>2, PlainBegins DEF JobKinds
<1>7. ASSUME GameServerRequest(w) PROVE JobBegins(w)
    <2>1. PICK n \in Alive, l \in Users \cup {None}, replace \in BOOLEAN :
              \E officers \in SUBSET (Users \ {l}) :
                  \E others \in SUBSET (Users \ ({l} \cup officers)) : Sync(w, n, l, officers, others, replace)
        BY <1>7 DEF GameServerRequest
    <2>2. PICK officers \in SUBSET (Users \ {l}), others \in SUBSET Users : Sync(w, n, l, officers, others, replace)
        BY <2>1
    <2>3. n \in Nations BY DEF Alive
    <2> QED BY <2>2, <2>3, SyncBegins
<1> QED
    BY <1>1, <1>2, <1>3, <1>4, <1>5, <1>6, <1>7, CreateBegins, TransferBegins DEF MembershipRequest

--------------------------------------------------------------------------------
(* What a commit writes. *)

LEMMA NewRoleIs ==
    ASSUME MemberTypes, NEW j \in Jobs, j.nation \in Nations, Fair(j), Fits(j), NEW u \in Users
    PROVE  /\ NewRole(j, u) \in Roles
           /\ j.plan[u] = "same" => NewRole(j, u) = role[j.nation][u]
           /\ NewRole(j, u) \in {role[j.nation][u], "none", j.plan[u]}
           /\ j.plan[u] \notin {"same", "none"} => NewRole(j, u) = j.plan[u]
           /\ j.plan[u] = "none" /\ row[j.nation][u] = j.rows[u] => NewRole(j, u) = "none"
           /\ u \notin j.new /\ NewRole(j, u) # "none" => role[j.nation][u] # "none"
<1>1. j.plan[u] \in Roles \cup {"same"} /\ role[j.nation][u] \in Roles BY DEF Jobs, MemberTypes
<1>2. u \notin j.new /\ j.plan[u] \notin {"same", "none"} => role[j.nation][u] # "none"
    BY DEF Fits, Touched
<1> QED BY <1>1, <1>2 DEF NewRole, Roles

\* Members as a commit of w leaves them.
LEMMA WriteIs ==
    ASSUME Membered, NEW w \in Workers, job[w].nation \in Nations, Write(w)
    PROVE  /\ role' \in [Nations -> [Users -> Roles]]
           /\ row' \in [Nations -> [Users -> Int]]
           /\ job' = [job EXCEPT ![w] = NoJob] /\ job' \in [Workers -> Jobs]
           /\ \A m \in Nations \ {job[w].nation} : role'[m] = role[m] /\ row'[m] = row[m]
           /\ \A u \in Users : /\ role'[job[w].nation][u] = NewRole(job[w], u)
                               /\ u \notin job[w].new => row'[job[w].nation][u] = row[job[w].nation][u]
           /\ crossed \subseteq crossed' /\ doubled \subseteq doubled' /\ misled \subseteq misled'
           /\ job[w].misled => job[w].nation \in misled'
           /\ \A o \in Workers \ {w} : Crosses(job[w], job[o]) => job[w].nation \in crossed'
           /\ \A u \in job[w].new : Twice(w, u) => u \in doubled'
<1> DEFINE j == job[w]
           n == j.nation
           roles == [u \in Users |-> NewRole(j, u)]
           rows == [u \in Users |-> row[n][u] + (IF u \in j.new THEN 1 ELSE 0)]
<1>1. j \in Jobs /\ Fair(j) /\ Fits(j) BY DEF Membered, MemberTypes, Upright, Write
<1>2. roles \in [Users -> Roles] BY <1>1, NewRoleIs DEF Membered
<1>3. \A u \in Users : row[n][u] \in Int BY DEF Membered, MemberTypes
<1>4. rows \in [Users -> Int] BY <1>3
<1>5. role' = [role EXCEPT ![n] = roles] /\ row' = [row EXCEPT ![n] = rows] BY DEF Write
<1>6. \A u \in Users : roles[u] = NewRole(j, u) /\ (u \notin j.new => rows[u] = row[n][u]) BY <1>3
<1> HIDE DEF roles, rows
<1>7. role' \in [Nations -> [Users -> Roles]] /\ role'[n] = roles /\ \A m \in Nations \ {n} : role'[m] = role[m]
    BY <1>2, <1>5 DEF Membered, MemberTypes
<1>8. row' \in [Nations -> [Users -> Int]] /\ row'[n] = rows /\ \A m \in Nations \ {n} : row'[m] = row[m]
    BY <1>4, <1>5 DEF Membered, MemberTypes
<1>9. job' = [job EXCEPT ![w] = NoJob] /\ job' \in [Workers -> Jobs]
    BY NoJobIs DEF Write, Membered, MemberTypes
<1>10. /\ crossed \subseteq crossed' /\ doubled \subseteq doubled' /\ misled \subseteq misled'
       /\ j.misled => n \in misled'
       /\ \A o \in Workers \ {w} : Crosses(j, job[o]) => n \in crossed'
       /\ \A u \in j.new : Twice(w, u) => u \in doubled'
    BY DEF Write
<1> QED BY <1>6, <1>7, <1>8, <1>9, <1>10

\* Who gets a home gets the nation of the commit, and has none.
LEMMA HomesGrow ==
    ASSUME Membered, NEW w \in Workers, job[w].nation \in Nations, Write(w), NEW u \in Users \ doubled',
           \A m \in Nations \ {job[w].nation} : life'[m] = life[m],
           \/ job[w].nation \in Alive
           \/ life[job[w].nation] = "free"
    PROVE  /\ u \notin job[w].new => Homes(u)' \subseteq Homes(u)
           /\ u \in job[w].new => Homes(u) = {}
           /\ Homes(u)' \subseteq Homes(u) \cup {job[w].nation}
<1> DEFINE j == job[w]
           n == j.nation
<1>1. j \in Jobs /\ Upright(j) /\ Fits(j) /\ u \notin doubled
    BY WriteIs DEF Membered, MemberTypes, Write
<1>2. Fair(j) /\ Admits(j) BY <1>1 DEF Upright
<1>3. Homes(u)' \subseteq Homes(u) \cup {n} BY WriteIs DEF Homes, Alive
<1>4. ASSUME u \notin j.new, n \in Homes(u)'
      PROVE  n \in Homes(u)
    <2>1. role'[n][u] # "none" /\ role'[n][u] = NewRole(j, u) BY <1>4, WriteIs DEF Homes
    <2>2. role[n][u] # "none" BY <1>1, <1>2, <1>4, <2>1, NewRoleIs DEF Membered
    <2>3. n \in Alive BY <2>2 DEF Membered, MemberTypes
    <2> QED BY <2>2, <2>3 DEF Homes
<1>5. ASSUME u \in j.new
      PROVE  Homes(u) = {}
    <2>1. ~Twice(w, u) BY <1>5, WriteIs
    <2>2. CASE j.kind = "sync" BY <2>1, <2>2 DEF Twice
    <2>3. CASE j.kind # "sync" BY <1>1, <1>2, <1>5, <2>3 DEF Admits
    <2> QED BY <2>2, <2>3
<1> QED BY <1>3, <1>4, <1>5

LEMMA OneHomeStays ==
    ASSUME Membered, NEW w \in Workers, job[w].nation \in Nations, Write(w),
           \A m \in Nations \ {job[w].nation} : life'[m] = life[m],
           job[w].nation \in Alive \/ life[job[w].nation] = "free"
    PROVE  /\ OneHome'
           /\ \A o \in Workers \ {w} : Admits(job[o])'
<1>1. doubled \subseteq doubled' BY WriteIs
<1>2. ASSUME NEW u \in Users \ doubled', NEW m \in Homes(u)', NEW k \in Homes(u)'
      PROVE  m = k
    <2>1. u \notin doubled BY <1>1
    <2>2. CASE u \in job[w].new BY <2>2, HomesGrow
    <2>3. CASE u \notin job[w].new
        <3>1. m \in Homes(u) /\ k \in Homes(u) BY <2>3, HomesGrow
        <3> QED BY <2>1, <3>1 DEF Membered, OneHome
    <2> QED BY <2>2, <2>3
<1>3. ASSUME NEW o \in Workers \ {w}
      PROVE  Admits(job[o])'
    <2>1. job'[o] = job[o] /\ job[o] \in Jobs BY WriteIs DEF Membered, MemberTypes
    <2>2. ASSUME job[o].kind # "sync", NEW u \in job[o].new, u \notin doubled'
          PROVE  Homes(u)' = {}
        <3>1. u \in Users BY <2>1, <2>2 DEF Jobs
        <3>2. u \notin job[w].new BY <2>2, WriteIs DEF Twice
        <3>3. Homes(u) = {} BY <1>1, <2>2 DEF Membered, Upright, Admits
        <3> QED BY <2>2, <3>1, <3>2, <3>3, HomesGrow
    <2> QED BY <2>1, <2>2 DEF Admits
<1> QED BY <1>2, <1>3 DEF OneHome

LEMMA CreateKeeps ==
    ASSUME Membered, NEW w \in Workers, CommitCreate(w)
    PROVE  Membered'
<1> DEFINE j == job[w]
           n == j.nation
<1>1. /\ j.kind = "create" /\ life[n] = "free" /\ Write(w)
      /\ life' = [life EXCEPT ![n] = "alive"] /\ head' = [head EXCEPT ![n] = j.user] /\ UNCHANGED asked
    BY DEF CommitCreate
<1>2. /\ j \in Jobs /\ Fair(j) /\ Fits(j) /\ n \in Nations /\ j.user \in Users
      /\ \A u \in Users : j.plan[u] = IF u = j.user THEN "leader" ELSE "same"
    BY <1>1 DEF Membered, MemberTypes, Upright, Fair, Write
<1>3. Lives' /\ life'[n] = "alive" /\ \A m \in Nations \ {n} : life'[m] = life[m]
    BY <1>1, <1>2 DEF Membered, Lives
<1>4. head' \in [Nations -> Users \cup {None}] /\ head'[n] = j.user /\ \A m \in Nations \ {n} : head'[m] = head[m]
    BY <1>1, <1>2 DEF Membered, MemberTypes
<1>5. MemberTypes' BY <1>1, <1>2, <1>3, <1>4, WriteIs DEF Membered, MemberTypes
<1>6. Leads'
    <2>1. ASSUME NEW m \in Clear', m # n
          PROVE  head'[m] \in Users /\ \A u \in Users : role'[m][u] = "leader" <=> u = head'[m]
        <3>1. m \in Clear BY <1>1, <1>2, <1>3, <2>1, WriteIs DEF Clear, Alive
        <3> QED BY <1>1, <1>2, <1>4, <2>1, <3>1, WriteIs DEF Membered, Leads, Clear, Alive
    <2>2. ASSUME NEW u \in Users
          PROVE  role'[n][u] = "leader" <=> u = j.user
        <3>1. role'[n][u] = NewRole(j, u) /\ role[n][u] = "none"
            BY <1>1, <1>2, WriteIs DEF Membered, MemberTypes
        <3> QED BY <1>2, <3>1, NewRoleIs DEF Membered
    <2> QED BY <1>2, <1>4, <2>1, <2>2 DEF Leads
<1>7. OneHome' /\ \A o \in Workers \ {w} : Admits(job[o])' BY <1>1, <1>2, <1>3, OneHomeStays
<1>8. ASSUME NEW o \in Workers \ {w}
      PROVE  Fair(job[o])' /\ Served(job[o])'
    <2> DEFINE k == job[o]
    <2>1. job'[o] = k /\ Fair(k) /\ Served(k) BY <1>1, <1>2, WriteIs DEF Membered, MemberTypes, Upright
    <2>2. ASSUME k.kind \notin {"none", "create"}
          PROVE  /\ k.nation \in Nations /\ k.nation # n /\ life'[k.nation] # "free"
                 /\ k.nation \in Clear' =>
                       k.nation \in Clear /\ head'[k.nation] = head[k.nation] /\ row'[k.nation] = row[k.nation]
        <3>1. k.nation \in Nations /\ k.nation # n BY <1>1, <2>1, <2>2 DEF Fair, Served
        <3> QED BY <1>1, <1>2, <1>3, <1>4, <2>1, <2>2, <3>1, WriteIs DEF Served, Clear, Alive
    <2>3. Served(job[o])' BY <2>1, <2>2 DEF Served, Loyal, Replaces
    <2> QED BY <2>1, <2>3 DEF Fair
<1>9. job'[w] = NoJob BY <1>1, <1>2, WriteIs DEF Membered, MemberTypes
<1>10. Upright(job[w])' BY <1>9, NoJobIs DEF Upright, Fair, Served, Admits
<1> QED BY <1>3, <1>5, <1>6, <1>7, <1>8, <1>10 DEF Membered, Upright

\* The leader a commit leaves, and the others that would change him.
LEMMA MembersKeep ==
    ASSUME Membered, NEW w \in Workers, CommitMembers(w)
    PROVE  Membered'
<1> DEFINE j == job[w]
           n == j.nation
           l == head[n]
<1>1. /\ j.kind \in {"leave", "join", "approve", "role", "remove", "transfer", "sync"}
      /\ n \in Alive /\ n \in Nations /\ Write(w) /\ UNCHANGED life
      /\ head' = IF j.head = None THEN head ELSE [head EXCEPT ![n] = j.head]
    BY DEF CommitMembers, Alive
<1>2. /\ j \in Jobs /\ Fair(j) /\ Served(j) /\ Fits(j)
    BY <1>1 DEF Membered, MemberTypes, Upright, Write
<1>3. /\ head' \in [Nations -> Users \cup {None}] /\ head'[n] = IF j.head = None THEN l ELSE j.head
      /\ \A m \in Nations \ {n} : head'[m] = head[m]
    BY <1>1, <1>2 DEF Membered, MemberTypes, Jobs
<1>4. Alive' = Alive BY <1>1 DEF Alive
<1>5. MemberTypes'
    <2>1. asked' \in [Nations -> SUBSET Users]
        BY DEF CommitMembers, Membered, MemberTypes
    <2> QED BY <1>1, <1>3, <2>1, WriteIs DEF Membered, MemberTypes, Alive
<1>6. ASSUME n \in Clear'
      PROVE  /\ l \in Users /\ role[n][l] = "leader" /\ \A u \in Users : role[n][u] = "leader" => u = l
             /\ Loyal(j, l) \/ Replaces(j, l)
    <2>1. n \in Clear /\ ~j.misled BY <1>1, <1>4, <1>6, WriteIs DEF Clear
    <2> QED BY <1>1, <1>2, <2>1 DEF Membered, Leads, Served
<1>7. Leads'
    <2>1. ASSUME NEW m \in Clear', m # n
          PROVE  head'[m] \in Users /\ \A u \in Users : role'[m][u] = "leader" <=> u = head'[m]
        <3>1. m \in Clear /\ m \in Nations BY <1>1, <1>4, <2>1, WriteIs DEF Clear, Alive
        <3> QED BY <1>1, <1>3, <2>1, <3>1, WriteIs DEF Membered, Leads
    <2>2. ASSUME n \in Clear', NEW u \in Users
          PROVE  head'[n] \in Users /\ (role'[n][u] = "leader" <=> u = head'[n])
        <3>1. /\ l \in Users /\ role[n][l] = "leader" /\ (role[n][u] = "leader" => u = l)
              /\ Loyal(j, l) \/ Replaces(j, l)
            BY <1>6, <2>2
        <3>2. role'[n][u] = NewRole(j, u) BY <1>1, WriteIs
        <3>3. CASE Loyal(j, l)
            <4>1. head'[n] = l BY <1>3, <3>3 DEF Loyal
            <4> QED BY <1>1, <1>2, <3>1, <3>2, <3>3, <4>1, NewRoleIs DEF Loyal, Membered
        <3>4. CASE Replaces(j, l)
            <4>1. head'[n] = j.head /\ j.head \in Users /\ j.head # l
                BY <1>3, <3>4, NationsConstants DEF Replaces
            <4>2. j.plan[u] = "leader" <=> u = j.head BY <3>4 DEF Replaces
            <4>3. u = l => j.plan[u] # "same" /\ row[n][u] = j.rows[u] BY <3>4 DEF Replaces
            <4> QED BY <1>1, <1>2, <3>1, <3>2, <4>1, <4>2, <4>3, NewRoleIs DEF Membered
        <3> QED BY <3>1, <3>3, <3>4
    <2>3. n \in Clear' => head'[n] \in Users BY <1>6, <2>2
    <2> QED BY <2>1, <2>2, <2>3 DEF Leads
<1>8. OneHome' /\ \A o \in Workers \ {w} : Admits(job[o])' BY <1>1, OneHomeStays
<1>9. ASSUME NEW o \in Workers \ {w}
      PROVE  Fair(job[o])' /\ Served(job[o])'
    <2>0. PICK k \in Jobs : k = job[o] BY DEF Membered, MemberTypes
    <2>1. job'[o] = k /\ Fair(k) /\ Served(k) BY <1>1, <2>0, WriteIs DEF Membered, MemberTypes, Upright
    <2>2. ASSUME k.kind \notin {"none", "create"}, k.nation # n, k.nation \in Clear'
          PROVE  k.misled \/ Loyal(k, head[k.nation])' \/ Replaces(k, head[k.nation])'
        <3>1. k.nation \in Clear /\ k.nation \in Nations BY <1>1, <1>4, <2>2, WriteIs DEF Clear, Alive
        <3>2. head'[k.nation] = head[k.nation] /\ row'[k.nation] = row[k.nation]
            BY <1>1, <1>3, <2>2, <3>1, WriteIs
        <3> QED BY <2>1, <2>2, <3>1, <3>2 DEF Served, Loyal, Replaces
    <2>3. ASSUME k.kind \notin {"none", "create"}, k.nation = n, n \in Clear', ~k.misled
          PROVE  Loyal(k, head[k.nation])' \/ Replaces(k, head[k.nation])'
        <3>1. n \in Clear /\ n \notin crossed' BY <1>1, <1>4, <2>3, WriteIs DEF Clear
        <3>2. (Loyal(k, l) \/ Replaces(k, l)) /\ l \in Users /\ (Loyal(j, l) \/ Replaces(j, l))
            BY <1>6, <2>1, <2>3, <3>1 DEF Served
        <3>3. ~Crosses(j, k) BY <1>1, <2>0, <3>1, WriteIs
        <3>4. {j.kind, k.kind} \cap {"transfer", "sync"} # {} => \A u \in Users : j.plan[u] = "same" \/ k.plan[u] = "same"
            BY <2>3, <3>3 DEF Crosses, Touched
        <3>5. CASE Loyal(j, l)
            <4>1. head'[n] = l BY <1>3, <3>5 DEF Loyal
            <4>2. CASE Loyal(k, l) BY <2>3, <4>1, <4>2 DEF Loyal
            <4>3. CASE Replaces(k, l)
                <5>1. l \notin j.new BY <1>2, <3>5 DEF Loyal, Fair
                <5>2. row'[n][l] = row[n][l] BY <1>1, <3>2, <5>1, WriteIs
                <5> QED BY <2>1, <2>3, <4>1, <4>3, <5>2 DEF Replaces
            <4> QED BY <3>2, <4>2, <4>3
        <3>6. CASE Replaces(j, l)
            <4>1. head'[n] = j.head /\ j.head \in Users /\ j.plan[j.head] = "leader" /\ j.plan[l] # "same"
                BY <1>3, <3>6, NationsConstants DEF Replaces
            <4>2. \A u \in Users : j.plan[u] = "same" \/ k.plan[u] = "same" BY <3>4, <3>6 DEF Replaces
            <4>3. k.plan[l] = "same" /\ k.plan[j.head] = "same" BY <3>2, <4>1, <4>2
            <4>4. Loyal(k, l) BY <3>2, <4>3 DEF Replaces
            <4> QED BY <2>3, <4>1, <4>3, <4>4 DEF Loyal
        <3> QED BY <3>2, <3>5, <3>6
    <2>4. k.kind \notin {"none", "create"} => life'[k.nation] # "free" BY <1>1, <2>1 DEF Served
    <2>5. Served(job[o])'
        <3>1. ASSUME k.kind \notin {"none", "create"}, (k.nation \in Clear)'
              PROVE  k.misled \/ Loyal(k, head[k.nation])' \/ Replaces(k, head[k.nation])'
            BY <2>2, <2>3, <3>1
        <3> QED BY <2>1, <2>4, <3>1 DEF Served, Loyal, Replaces
    <2> QED BY <2>1, <2>5 DEF Fair
<1>10. job'[w] = NoJob BY <1>1, WriteIs DEF Membered, MemberTypes
<1>11. Upright(job[w])' BY <1>10, NoJobIs DEF Upright, Fair, Served, Admits
<1> QED BY <1>1, <1>5, <1>7, <1>8, <1>9, <1>11 DEF Membered, Upright, Lives

\* A request that ends without a member, and a nation that ends.
LEMMA JobEndsUpright ==
    ASSUME Membered, NEW w \in Workers, job' = [job EXCEPT ![w] = NoJob],
           UNCHANGED <<life, role, row, head, crossed, doubled, misled>>, asked' \in [Nations -> SUBSET Users]
    PROVE  Membered'
<1>1. job' \in [Workers -> Jobs] /\ \A o \in Workers : job'[o] = IF o = w THEN NoJob ELSE job[o]
    BY NoJobIs DEF Membered, MemberTypes
<1>2. Lives' /\ MemberTypes' /\ Leads' /\ OneHome'
    BY <1>1 DEF Membered, Lives, MemberTypes, Leads, Clear, OneHome, Homes, Alive
<1>3. ASSUME NEW o \in Workers PROVE Upright(job[o])'
    <2>1. Upright(job'[o]) BY <1>1, NoJobUpright DEF Membered
    <2> QED BY <2>1 DEF Upright, Fair, Served, Clear, Admits, Loyal, Replaces, Homes, Alive
<1> QED BY <1>2, <1>3 DEF Membered

LEMMA DisbandMembered ==
    ASSUME Membered, NEW w \in Workers, CommitDisband(w)
    PROVE  Membered'
<1> DEFINE n == job[w].nation
<1>1. /\ life' = [life EXCEPT ![n] = "gone"]
      /\ role' = [role EXCEPT ![n] = [u \in Users |-> "none"]]
      /\ asked' = [asked EXCEPT ![n] = {}] /\ job' = [job EXCEPT ![w] = NoJob]
      /\ UNCHANGED <<row, head, crossed, doubled, misled>>
    BY DEF CommitDisband
<1>2. job' \in [Workers -> Jobs] /\ \A o \in Workers : job'[o] = IF o = w THEN NoJob ELSE job[o]
    BY <1>1, NoJobIs DEF Membered, MemberTypes
<1>3. /\ Lives' /\ \A m \in Nations : life'[m] = "free" => life[m] = "free" /\ m # n
      /\ \A m \in Alive' : m \in Alive /\ m # n
    BY <1>1 DEF Membered, Lives, Alive
<1>4. /\ role' \in [Nations -> [Users -> Roles]]
      /\ \A m \in Nations \ {n} : role'[m] = role[m]
    <2> DEFINE roles == [u \in Users |-> "none"]
    <2>1. roles \in [Users -> Roles] BY DEF Roles
    <2>2. role' = [role EXCEPT ![n] = roles] BY <1>1
    <2> HIDE DEF roles
    <2> QED BY <2>1, <2>2 DEF Membered, MemberTypes
<1>5. MemberTypes' BY <1>1, <1>2, <1>3, <1>4 DEF Membered, MemberTypes
<1>6. Leads' BY <1>1, <1>3, <1>4 DEF Membered, Leads, Clear, Alive
<1>7. \A u \in Users : Homes(u)' \subseteq Homes(u) BY <1>3, <1>4 DEF Homes, Alive
<1>8. OneHome' BY <1>1, <1>7 DEF Membered, OneHome
<1>9. ASSUME NEW o \in Workers PROVE Upright(job[o])'
    <2>0. PICK k \in Jobs : k = job'[o] BY <1>2
    <2>1. Fair(k) /\ Served(k) /\ Admits(k)
        BY <1>2, <2>0, NoJobUpright DEF Membered, Upright
    <2>2. Fair(job[o])' BY <2>0, <2>1 DEF Fair
    <2>3. ASSUME k.kind \notin {"none", "create"}
          PROVE  /\ life'[k.nation] # "free"
                 /\ k.nation \in Clear' => k.misled \/ Loyal(k, head[k.nation])' \/ Replaces(k, head[k.nation])'
        <3>1. k.nation \in Nations BY <2>1, <2>3 DEF Fair
        <3>2. life'[k.nation] # "free" BY <1>3, <2>1, <2>3, <3>1 DEF Served
        <3> QED BY <1>1, <1>3, <2>1, <2>3, <3>2 DEF Served, Clear, Loyal, Replaces
    <2>4. Served(job[o])' BY <2>0, <2>3 DEF Served, Loyal, Replaces
    <2>5. Admits(job[o])' BY <1>1, <1>7, <2>0, <2>1 DEF Admits, Jobs
    <2> QED BY <2>1, <2>2, <2>4, <2>5 DEF Upright
<1> QED BY <1>3, <1>5, <1>6, <1>8, <1>9 DEF Membered

LEMMA NationsUnchanged == Membered /\ UNCHANGED nations => Membered'
BY DEF Membered, Lives, MemberTypes, Leads, Clear, OneHome, Homes, Alive, Upright, Fair, Served, Admits, Loyal, Replaces,
       nations, members

LEMMA MembershipMembered ==
    ASSUME Membered, NEW w \in Workers, Membership(w)
    PROVE  Membered'
<1>1. CASE JobBegins(w)
    <2>1. PICK j \in Jobs :
              /\ job[w] = NoJob /\ j.kind # "none" /\ job' = [job EXCEPT ![w] = j]
              /\ Upright(j) /\ UNCHANGED <<members, crossed, doubled, misled>>
        BY <1>1 DEF JobBegins
    <2>2. job' \in [Workers -> Jobs] /\ \A o \in Workers : job'[o] = IF o = w THEN j ELSE job[o]
        BY <2>1 DEF Membered, MemberTypes
    <2>3. Lives' /\ MemberTypes' /\ Leads' /\ OneHome'
        BY <2>1, <2>2 DEF Membered, Lives, MemberTypes, Leads, Clear, OneHome, Homes, Alive, members
    <2>4. ASSUME NEW o \in Workers PROVE Upright(job[o])'
        <3>1. Upright(job'[o]) BY <2>1, <2>2 DEF Membered
        <3> QED BY <2>1, <3>1 DEF Upright, Fair, Served, Clear, Admits, Loyal, Replaces, Homes, Alive, members
    <2> QED BY <2>3, <2>4 DEF Membered
<1>2. CASE CommitApplication(w)
    <2>1. asked' \in [Nations -> SUBSET Users]
        <3>1. job[w].nation \in Nations /\ job[w].user \in Users BY <1>2 DEF CommitApplication, Alive, Membered, Upright, Fair
        <3> QED BY <1>2, <3>1 DEF CommitApplication, Membered, MemberTypes
    <2> QED BY <1>2, <2>1, JobEndsUpright DEF CommitApplication
<1>3. CASE Abort(w)
    BY <1>3, JobEndsUpright DEF Abort, members, Membered, MemberTypes
<1> QED
    BY <1>1, <1>2, <1>3, RequestsUpright, CreateKeeps, MembersKeep DEF Membership, EndMembershipRequest

--------------------------------------------------------------------------------
(* Rows are numbered no further than requests were begun, and nothing is         *)
(* granted beyond the last level and the current week.                           *)

Busy == {w \in Workers : job[w] # NoJob}
Acting == {w \in Workers : deal[w] # NoDeal}

Counts ==
    /\ begun \in 0..MaxRequests /\ IsFiniteSet(Busy) /\ IsFiniteSet(Acting)
    /\ \A n \in Nations, u \in Users : row[n][u] \in Nat /\ row[n][u] + Cardinality(Busy) <= begun + 1
    /\ \A n \in Nations : seat[n] \in Nat /\ seat[n] + Cardinality(Acting) <= begun + 1

Limits ==
    /\ \A n \in Nations : level[n] \in 0..MaxLevel /\ interestOn[n] \in 0..MaxWeek
    /\ seasonOn \in 0..MaxWeek /\ week \in 0..MaxWeek /\ capital \subseteq Nations
    /\ pact \in {"free", "alive", "gone"}
    /\ \A w \in Workers : /\ deed[w].week \in 0..MaxWeek
                          /\ deed[w].kind = "research" => deed[w].level \in 0..MaxLevel

LEMMA OneMore ==
    ASSUME NEW S, IsFiniteSet(S), NEW w, NEW T \in SUBSET (S \cup {w})
    PROVE  IsFiniteSet(T) /\ Cardinality(T) \in Nat /\ Cardinality(S) \in Nat /\ Cardinality(T) <= Cardinality(S) + 1
<1>1. IsFiniteSet(S \cup {w}) /\ Cardinality(S) \in Nat /\ Cardinality(S \cup {w}) <= Cardinality(S) + 1
    BY FS_AddElement, FS_CardinalityType
<1>2. IsFiniteSet(T) /\ Cardinality(T) <= Cardinality(S \cup {w}) BY <1>1, FS_Subset
<1>3. Cardinality(T) \in Nat /\ Cardinality(S \cup {w}) \in Nat BY <1>1, <1>2, FS_CardinalityType
<1> QED BY <1>1, <1>2, <1>3

LEMMA OneLess ==
    ASSUME NEW S, IsFiniteSet(S), NEW w \in S
    PROVE  /\ IsFiniteSet(S \ {w}) /\ Cardinality(S) \in Nat
           /\ Cardinality(S \ {w}) = Cardinality(S) - 1
BY FS_RemoveElement, FS_CardinalityType

\* A request begins: one more has begun, and one more is under way.
LEMMA CountsBegin ==
    ASSUME Counts, NEW w \in Workers, Counted, UNCHANGED <<row, seat>>,
           Busy' \subseteq Busy \cup {w}, Acting' \subseteq Acting \cup {w},
           UNCHANGED Busy \/ UNCHANGED Acting
    PROVE  Counts'
<1> DEFINE b == Cardinality(Busy)
           a == Cardinality(Acting)
           c == Cardinality(Busy')
           e == Cardinality(Acting')
<1>1. IsFiniteSet(Busy') /\ b \in Nat /\ c \in Nat /\ c <= b + 1 BY OneMore DEF Counts
<1>2. IsFiniteSet(Acting') /\ a \in Nat /\ e \in Nat /\ e <= a + 1 BY OneMore DEF Counts
<1>3. begun \in Nat /\ begun' = begun + 1 /\ begun' \in 0..MaxRequests
    BY NationsConstants DEF Counts, Counted
<1>4. \A n \in Nations, u \in Users : row[n][u] \in Nat /\ row[n][u] + b <= begun + 1 BY DEF Counts
<1>5. \A n \in Nations : seat[n] \in Nat /\ seat[n] + a <= begun + 1 BY DEF Counts
<1> HIDE DEF a, b, c, e
<1>6. \A n \in Nations, u \in Users : row[n][u] + c <= begun' + 1 BY <1>1, <1>3, <1>4
<1>7. \A n \in Nations : seat[n] + e <= begun' + 1 BY <1>2, <1>3, <1>5
<1> QED BY <1>1, <1>2, <1>3, <1>4, <1>5, <1>6, <1>7 DEF Counts, c, e

\* A membership request ends, with a row more for some.
LEMMA CountsJobEnds ==
    ASSUME Counts, NEW w \in Busy, Busy' = Busy \ {w}, UNCHANGED <<begun, seat, deal>>,
           \A n \in Nations, u \in Users : row'[n][u] \in {row[n][u], row[n][u] + 1}
    PROVE  Counts'
<1> DEFINE b == Cardinality(Busy)
           c == Cardinality(Busy')
<1>1. IsFiniteSet(Busy') /\ b \in Nat /\ c = b - 1 BY OneLess DEF Counts
<1>2. begun \in Nat /\ \A n \in Nations, u \in Users : row[n][u] \in Nat /\ row[n][u] + b <= begun + 1
    BY DEF Counts
<1> HIDE DEF b, c
<1>3. \A n \in Nations, u \in Users : row'[n][u] \in Nat /\ row'[n][u] + c <= begun + 1 BY <1>1, <1>2
<1> QED BY <1>1, <1>3 DEF Counts, Acting, c

\* A request to the alliance ends, with a seat more for some.
LEMMA CountsDealEnds ==
    ASSUME Counts, NEW w \in Acting, Acting' = Acting \ {w}, UNCHANGED <<begun, row, job>>,
           \A n \in Nations : seat'[n] \in {seat[n], seat[n] + 1}
    PROVE  Counts'
<1> DEFINE a == Cardinality(Acting)
           e == Cardinality(Acting')
<1>1. IsFiniteSet(Acting') /\ a \in Nat /\ e = a - 1 BY OneLess DEF Counts
<1>2. begun \in Nat /\ \A n \in Nations : seat[n] \in Nat /\ seat[n] + a <= begun + 1
    BY DEF Counts
<1> HIDE DEF a, e
<1>3. \A n \in Nations : seat'[n] \in Nat /\ seat'[n] + e <= begun + 1 BY <1>1, <1>2
<1> QED BY <1>1, <1>3 DEF Counts, Busy, e

LEMMA CountsUnchanged == Counts /\ UNCHANGED <<begun, row, seat, job, deal>> => Counts'
BY DEF Counts, Busy, Acting

LEMMA MembershipCounts ==
    ASSUME Membered, Counts, NEW w \in Workers, Membership(w)
    PROVE  Counts'
<1>1. UNCHANGED <<seat, deal>> BY DEF Membership, leagues, league
<1>2. UNCHANGED Acting BY <1>1 DEF Acting
<1>3. CASE JobBegins(w)
    <2>1. Counted /\ UNCHANGED row BY <1>3 DEF JobBegins, members
    <2>2. Busy' \subseteq Busy \cup {w} BY <1>3 DEF JobBegins, Busy, Membered, MemberTypes
    <2> QED BY <1>1, <1>2, <2>1, <2>2, CountsBegin
<1>4. ASSUME job[w] # NoJob, job' = [job EXCEPT ![w] = NoJob]
      PROVE  w \in Busy /\ Busy' = Busy \ {w}
    BY <1>4 DEF Busy, Membered, MemberTypes
<1>5. CASE CommitApplication(w) \/ Abort(w)
    <2>1. job[w] # NoJob /\ job' = [job EXCEPT ![w] = NoJob] /\ UNCHANGED <<begun, row>>
        BY <1>5, NoJobIs DEF CommitApplication, Abort, members
    <2> QED BY <1>1, <1>4, <2>1, CountsJobEnds DEF Counts
<1>6. CASE CommitCreate(w) \/ CommitMembers(w)
    <2>1. /\ job[w] # NoJob /\ job' = [job EXCEPT ![w] = NoJob] /\ UNCHANGED begun
          /\ row' = [row EXCEPT ![job[w].nation] =
                        [u \in Users |-> row[job[w].nation][u] + (IF u \in job[w].new THEN 1 ELSE 0)]]
        BY <1>6, NoJobIs DEF CommitCreate, CommitMembers, Write
    <2>2. \A n \in Nations, u \in Users : row[n][u] \in Nat BY DEF Counts
    <2>3. ASSUME NEW n \in Nations, NEW u \in Users
          PROVE  row'[n][u] \in {row[n][u], row[n][u] + 1}
        BY <2>1, <2>2 DEF Membered, MemberTypes
    <2> QED BY <1>1, <1>4, <2>1, <2>3, CountsJobEnds
<1> QED BY <1>3, <1>5, <1>6, RequestsUpright DEF Membership, EndMembershipRequest

LEMMA DisbandCounts ==
    ASSUME Membered, Counts, NEW w \in Workers, CommitDisband(w)
    PROVE  Counts'
<1>1. job[w] # NoJob /\ job' = [job EXCEPT ![w] = NoJob] /\ UNCHANGED <<begun, row, deal>>
    BY NoJobIs DEF CommitDisband
<1>2. UNCHANGED seat BY DEF CommitDisband, Gone, Bereft
<1>3. w \in Busy /\ Busy' = Busy \ {w} BY <1>1 DEF Busy, Membered, MemberTypes
<1> QED BY <1>1, <1>2, <1>3, CountsJobEnds DEF Counts

LEMMA DiplomacyCounts ==
    ASSUME BookTypes, LeagueTypes, DealTypes, Counts, NEW w \in Workers, Diplomacy(w)
    PROVE  Counts'
<1>1. UNCHANGED <<row, job>> BY StepsOfDiplomacy DEF nations, members
<1>2. UNCHANGED Busy BY <1>1 DEF Busy
<1>3. CASE DealBegins(w)
    <2>1. Counted /\ UNCHANGED seat BY <1>3 DEF DealBegins, league
    <2>2. Acting' \subseteq Acting \cup {w} BY <1>3 DEF DealBegins, Acting, DealTypes
    <2> QED BY <1>1, <1>2, <2>1, <2>2, CountsBegin
<1>4. ASSUME NEW succeeds \in BOOLEAN, Cast(w, succeeds)
      PROVE  Counts'
    <2>1. deal[w].kind = "vote" /\ deal'[w].kind = "vote" /\ \A o \in Workers \ {w} : deal'[o] = deal[o]
        BY <1>4 DEF Cast, DealTypes, Deals
    <2>2. deal[w] # NoDeal /\ deal'[w] # NoDeal BY <2>1, NoDealIs
    <2>3. Acting' = Acting BY <2>1, <2>2 DEF Acting
    <2>4. UNCHANGED <<begun, seat>> BY <1>4 DEF Cast, league
    <2> QED BY <1>1, <1>2, <2>3, <2>4 DEF Counts
<1>5. ASSUME deal[w] # NoDeal, EndDeal(w)
      PROVE  w \in Acting /\ Acting' = Acting \ {w}
    BY <1>5 DEF Acting, EndDeal, DealTypes
<1>6. \A n \in Nations : seat[n] \in Nat BY DEF Counts
<1>7. CASE AbortDeal(w) \/ CommitDissolve(w) \/ CommitPropose(w)
    <2>1. deal[w] # NoDeal /\ EndDeal(w) /\ UNCHANGED <<begun, seat>>
        BY <1>7, NoDealIs DEF AbortDeal, CommitDissolve, CommitPropose, Gone, league
    <2> QED BY <1>1, <1>5, <2>1, CountsDealEnds
<1>8. CASE CommitFound(w)
    <2>1. deal[w] # NoDeal /\ EndDeal(w) /\ UNCHANGED begun /\ seat' = [seat EXCEPT ![deal[w].by] = @ + 1]
        BY <1>8, NoDealIs DEF CommitFound
    <2>2. \A n \in Nations : seat'[n] \in {seat[n], seat[n] + 1} BY <1>6, <2>1 DEF LeagueTypes
    <2> QED BY <1>1, <1>5, <2>1, <2>2, CountsDealEnds
<1>9. CASE CommitDeal(w)
    <2>1. deal[w] # NoDeal /\ EndDeal(w) /\ UNCHANGED begun /\ Seats(deal[w])
        BY <1>9, NoDealIs DEF CommitDeal
    <2>2. seat' = seat \/ seat' = [seat EXCEPT ![deal[w].does.to] = @ + 1] BY <2>1 DEF Seats
    <2>3. \A n \in Nations : seat'[n] \in {seat[n], seat[n] + 1} BY <1>6, <2>2 DEF LeagueTypes
    <2> QED BY <1>1, <1>5, <2>1, <2>3, CountsDealEnds
<1> QED BY <1>3, <1>4, <1>7, <1>8, <1>9, StepsOfDiplomacy

LEMMA MoneyCounts ==
    ASSUME BookTypes, Counts, NEW w \in Workers, Money(w)
    PROVE  Counts'
<1>1. UNCHANGED <<row, seat, job, deal>> BY DEF Money, nations, members, leagues, league
<1>2. CASE MoneyRequest(w)
    <2>1. Counted BY <1>2, RequestsBegin DEF DeedBegins
    <2>2. UNCHANGED Busy /\ UNCHANGED Acting BY <1>1 DEF Busy, Acting
    <2> QED BY <1>1, <2>1, <2>2, CountsBegin
<1>3. CASE EndMoneyRequest(w)
    <2>1. \A n : LookUp(w, n) => UNCHANGED begun BY Zenon DEF LookUp
    <2>2. \A got : ReadBalances(w, got) => UNCHANGED begun BY Zenon DEF ReadBalances
    <2>3. LockTreasury(w) \/ CommitDeed(w) \/ Fail(w) => UNCHANGED begun
        BY Zenon DEF LockTreasury, CommitDeed, Fail
    <2>4. UNCHANGED begun BY <1>3, <2>1, <2>2, <2>3 DEF EndMoneyRequest
    <2> QED BY <1>1, <2>4, CountsUnchanged
<1> QED BY <1>2, <1>3 DEF Money

LEMMA MoneyLimits ==
    ASSUME BookTypes, DeedTypes, Limits, NEW w \in Workers, Money(w)
    PROVE  Limits'
<1>0. UNCHANGED pact BY DEF Money, leagues, league
<1>1. /\ deed \in [Workers -> Deeds] /\ deed[w] \in Deeds
      /\ MaxLevel \in Nat /\ MaxWeek \in Nat
    BY TreasuriesConstants DEF DeedTypes
\* What is written of a request is its week and, of research, its level.
<1>2. ASSUME NEW d \in Deeds, deed' = [deed EXCEPT ![w] = d], UNCHANGED <<level, capital, interestOn, seasonOn, week>>,
             d.week \in 0..MaxWeek, d.kind = "research" => d.level \in 0..MaxLevel
      PROVE  Limits'
    BY <1>0, <1>1, <1>2 DEF Limits
<1>3. ASSUME NEW d \in Deeds, BeginDeed(w, d), d.kind = "research" => d.level \in 0..MaxLevel
      PROVE  Limits'
    <2> DEFINE e == [d EXCEPT !.week = week]
    <2>1. e \in Deeds /\ e.week = week /\ e.kind = d.kind /\ e.level = d.level BY DEF Deeds, BookTypes
    <2>2. deed' = [deed EXCEPT ![w] = e] /\ UNCHANGED <<level, capital, interestOn, seasonOn, week>>
        BY <1>3 DEF BeginDeed, books
    <2> HIDE DEF e
    <2> QED BY <1>2, <1>3, <2>1, <2>2 DEF Limits
<1>4. CASE MoneyRequest(w)
    <2> USE NoDeedIs, <1>3 DEF Deeds, DeedKinds, ToLock, ToRead
    <2>1. \A amount \in Amounts : amount \in Int BY TreasuriesConstants
    <2>2. ASSUME NEW n \in Nations, NEW u \in Users, Research(w, u, n)
          PROVE  Limits'
        <3> DEFINE d == [ToLock("research", n) EXCEPT !.level = level[n] + 1]
        <3>1. level[n] + 1 \in 0..MaxLevel BY <1>1, <2>2 DEF Research, Unlocked, Limits
        <3>2. d \in Deeds /\ d.level = level[n] + 1
            <4>1. level[n] + 1 \in Int BY <3>1
            <4>2. d \in Deeds BY <4>1
            <4> QED BY <4>2
        <3>3. BeginDeed(w, d) BY <2>2 DEF Research
        <3> HIDE DEF d
        <3> QED BY <3>1, <3>2, <3>3
    <2>3. ASSUME NEW n \in Nations, SetCapital(w, n)
          PROVE  Limits'
        <3> DEFINE d == ToRead("capital", n)
        <3>1. d \in Deeds /\ d.kind # "research" OBVIOUS
        <3>2. BeginDeed(w, d) BY <2>3 DEF SetCapital
        <3> HIDE DEF d
        <3> QED BY <3>1, <3>2
    <2>4. ASSUME NEW n \in Nations, NEW u \in Users, NEW amount \in Amounts,
                 Deposit(w, u, n, amount) \/ Withdraw(w, n, amount)
          PROVE  Limits'
        <3>1. PICK kind \in {"deposit", "withdraw"} : BeginDeed(w, [ToLock(kind, n) EXCEPT !.amount = amount])
            BY <2>4 DEF Deposit, Withdraw
        <3> DEFINE d == [ToLock(kind, n) EXCEPT !.amount = amount]
        <3>2. d \in Deeds /\ d.kind # "research" BY <2>1
        <3> HIDE DEF d
        <3> QED BY <3>1, <3>2 DEF d
    <2>5. ASSUME NEW n \in Nations, NEW amount \in Amounts, Sale(w, n, amount)
          PROVE  Limits'
        <3> DEFINE d == [NoDeed EXCEPT !.kind = "sale", !.nation = n, !.amount = amount, !.got = {n}, !.seen = treasury]
        <3>1. d \in Deeds /\ d.kind # "research" BY <2>1 DEF BookTypes
        <3>2. BeginDeed(w, d) BY <2>5 DEF Sale
        <3> HIDE DEF d
        <3> QED BY <3>1, <3>2
    <2>6. CASE Interest(w)
        <3> DEFINE due == {n \in Alive : level[n] > 0}
                   d == [NoDeed EXCEPT !.kind = "interest", !.todo = due]
        <3>0. due \subseteq Nations BY DEF Alive
        <3> HIDE DEF due
        <3>1. d \in Deeds /\ d.kind # "research" BY <3>0
        <3>2. BeginDeed(w, d) BY <2>6 DEF Interest, due
        <3> HIDE DEF d
        <3> QED BY <3>1, <3>2
    <2>7. CASE Tax(w)
        <3> DEFINE rich == {n \in Alive : treasury[n] > 0}
                   d == [NoDeed EXCEPT !.kind = "tax", !.got = rich, !.seen = treasury]
        <3>0. rich \subseteq Nations BY DEF Alive
        <3> HIDE DEF rich
        <3>1. d \in Deeds /\ d.kind # "research" BY <3>0 DEF BookTypes
        <3>2. BeginDeed(w, d) BY <2>7 DEF Tax, rich
        <3> HIDE DEF d
        <3> QED BY <3>1, <3>2
    <2>8. CASE Season(w)
        <3> DEFINE d == ToRead("season", None)
        <3>1. d \in Deeds /\ d.kind # "research" OBVIOUS
        <3>2. BeginDeed(w, d) BY <2>8 DEF Season
        <3> HIDE DEF d
        <3> QED BY <3>1, <3>2
    <2> QED BY <1>4, <2>2, <2>3, <2>4, <2>5, <2>6, <2>7, <2>8 DEF MoneyRequest
<1>5. ASSUME NEW n \in Nations, LookUp(w, n)
      PROVE  Limits'
    <2> DEFINE todo == deed[w].todo \ {n}
               wants == IF InterestDue(n, w) THEN n ELSE None
    <2>1. deed' = [deed EXCEPT ![w].todo = todo, ![w].wants = wants] /\ UNCHANGED <<level, capital, interestOn, seasonOn, week>>
        BY <1>5, Zenon DEF LookUp, books
    <2>2. todo \subseteq Nations /\ wants \in Nations \cup {None} BY <1>1 DEF Deeds
    <2> HIDE DEF todo, wants
    <2> DEFINE e == [deed[w] EXCEPT !.todo = todo, !.wants = wants]
    <2>3. deed' = [deed EXCEPT ![w] = e] BY <1>1, <2>1
    <2>4. e \in Deeds /\ e.week = deed[w].week /\ e.kind = deed[w].kind /\ e.level = deed[w].level
        BY <1>1, <2>2 DEF Deeds
    <2> HIDE DEF e
    <2>5. e.week \in 0..MaxWeek /\ (e.kind = "research" => e.level \in 0..MaxLevel) BY <2>4 DEF Limits
    <2> QED BY <1>2, <2>1, <2>3, <2>4, <2>5
<1>6. CASE LockTreasury(w)
    <2>1. UNCHANGED <<level, capital, interestOn, seasonOn, week>> /\ \A o \in Workers \ {w} : deed'[o] = deed[o]
        BY <1>1, <1>6 DEF LockTreasury, books
    <2>2. deed'[w].week = deed[w].week /\ deed'[w].kind = deed[w].kind /\ deed'[w].level = deed[w].level
        BY <1>1, <1>6 DEF LockTreasury, Deeds
    <2> QED BY <1>0, <2>1, <2>2 DEF Limits
<1>7. ASSUME NEW got \in SUBSET Nations, ReadBalances(w, got)
      PROVE  Limits'
    <2>1. UNCHANGED <<level, capital, interestOn, seasonOn, week>> /\ \A o \in Workers \ {w} : deed'[o] = deed[o]
        BY <1>1, <1>7 DEF ReadBalances, books
    <2>2. deed'[w].week = deed[w].week /\ deed'[w].kind = deed[w].kind /\ deed'[w].level = deed[w].level
        BY <1>1, <1>7 DEF ReadBalances, Deeds
    <2> QED BY <1>0, <2>1, <2>2 DEF Limits
<1>8. NoDeed \in Deeds /\ NoDeed.week = 0 /\ NoDeed.kind = "none" BY NoDeedIs DEF NoDeed
<1>9. CASE Fail(w)
    <2>1. deed' = [deed EXCEPT ![w] = NoDeed] /\ UNCHANGED <<level, capital, interestOn, seasonOn, week>>
        BY <1>9 DEF Fail, Release, books
    <2>2. NoDeed.week \in 0..MaxWeek /\ NoDeed.kind # "research" BY <1>1, <1>8
    <2> HIDE DEF NoDeed
    <2> QED BY <1>2, <1>8, <2>1, <2>2
<1>10. CASE CommitDeed(w)
    <2> DEFINE d == deed[w]
    <2>1. d.week \in 0..MaxWeek /\ (d.kind = "research" => d.level \in 0..MaxLevel) BY DEF Limits
    <2>2. /\ level' = IF d.kind = "research" THEN [level EXCEPT ![d.nation] = d.level] ELSE level
          /\ interestOn' = IF d.kind = "interest"
                     THEN [n \in Nations |-> IF n \in d.got THEN Later(interestOn[n], d.week) ELSE interestOn[n]]
                     ELSE interestOn
          /\ seasonOn' = IF d.kind = "season" THEN Later(seasonOn, d.week) ELSE seasonOn
          /\ capital' = IF d.kind = "capital" THEN capital \cup {d.nation} ELSE capital
          /\ deed' = [deed EXCEPT ![w] = NoDeed] /\ UNCHANGED week
        BY <1>10 DEF CommitDeed, Release
    <2>3. \A o \in Workers : deed'[o] = IF o = w THEN NoDeed ELSE deed[o] BY <1>1, <2>2
    <2>4. \A n \in Nations : level'[n] \in 0..MaxLevel BY <2>1, <2>2 DEF Limits, BookTypes
    <2>5. \A n \in Nations : interestOn'[n] \in 0..MaxWeek BY <2>1, <2>2 DEF Limits, Later
    <2>6. seasonOn' \in 0..MaxWeek BY <2>1, <2>2 DEF Limits, Later
    <2>7. capital' \subseteq Nations
        <3>1. d.kind = "capital" => d.nation \in Nations BY DEF DeedTypes, Sound
        <3> QED BY <2>2, <3>1 DEF Limits
    <2> QED BY <1>0, <1>1, <1>8, <2>2, <2>3, <2>4, <2>5, <2>6, <2>7 DEF Limits
<1> QED BY <1>4, <1>5, <1>6, <1>7, <1>9, <1>10 DEF Money, EndMoneyRequest

LEMMA OthersLimits ==
    ASSUME BookTypes, LeagueTypes, Limits,
           \/ \E w \in Workers : Membership(w) \/ CommitDisband(w) \/ Diplomacy(w)
           \/ Time \/ Market
    PROVE  Limits'
<1>1. ASSUME UNCHANGED <<level, capital, interestOn, seasonOn, week, deed>>, pact' \in {"free", "alive", "gone"}
      PROVE  Limits'
    BY <1>1 DEF Limits
<1>2. ASSUME NEW w \in Workers, Membership(w)
      PROVE  Limits'
    BY <1>1, <1>2 DEF Membership, money, books, leagues, league, Limits
<1>3. ASSUME NEW w \in Workers, CommitDisband(w)
      PROVE  Limits'
    BY <1>1, <1>3 DEF CommitDisband, money, books, Gone, Bereft, Limits
<1>4. ASSUME NEW w \in Workers, Diplomacy(w)
      PROVE  Limits'
    <2>1. UNCHANGED deed BY <1>4, StepsOfDiplomacy
    <2>2. CASE DealBegins(w) /\ UNCHANGED money BY <1>1, <2>2 DEF DealBegins, league, money, books, Limits
    <2>3. ASSUME NEW succeeds \in BOOLEAN, Cast(w, succeeds), UNCHANGED <<books, week, lock, accounts>>
          PROVE  Limits'
        <3>1. UNCHANGED league BY <2>3 DEF Cast
        <3> QED BY <1>1, <2>1, <2>3, <3>1 DEF league, books, Limits
    <2>4. CASE AbortDeal(w) BY <1>1, <2>1, <2>4 DEF AbortDeal, league, books, Limits
    <2>5. CASE CommitFound(w) BY <1>1, <2>1, <2>5 DEF CommitFound, books
    <2>6. CASE CommitDissolve(w) BY <1>1, <2>1, <2>6 DEF CommitDissolve, Gone, books, Limits
    <2>7. CASE CommitPropose(w) BY <1>1, <2>1, <2>7 DEF CommitPropose, books, Limits
    <2>8. CASE CommitDeal(w) BY <1>1, <2>1, <2>8 DEF CommitDeal, Limits
    <2> QED BY <1>4, <2>2, <2>3, <2>4, <2>5, <2>6, <2>7, <2>8, StepsOfDiplomacy
<1>5. CASE Time
    <2>1. UNCHANGED <<level, capital, interestOn, seasonOn, deed, pact>> /\ week < MaxWeek /\ week' = week + 1
        BY <1>5 DEF Time, NextWeek, books, leagues, league
    <2>2. week' \in 0..MaxWeek BY <2>1, TreasuriesConstants DEF Limits
    <2> QED BY <2>1, <2>2 DEF Limits
<1>6. CASE Market BY <1>1, <1>6 DEF Market, MarketFee, books, leagues, league, Limits
<1> QED BY <1>2, <1>3, <1>4, <1>5, <1>6

--------------------------------------------------------------------------------
(* The invariant. *)

Inv ==
    /\ Lives /\ Balanced /\ LeagueTypes /\ DealTypes
    /\ Whole
    /\ Known /\ KnownMotion /\ RewardsOnce

LEMMA InvInit == Init => Inv
<1> SUFFICES ASSUME Init PROVE Inv OBVIOUS
<1> USE DEF Init
<1>1. NoDeed \in Deeds /\ Sound(NoDeed) /\ NoDeed.got = {} BY NoDeedIs DEF Sound
<1>2. Grants(NoDeed) = {} BY NoDeedIs DEF Grants
<1>3. Lives BY DEF Lives
<1>4. BookTypes BY DEF BookTypes
<1>5. DeedTypes /\ LocksHold BY <1>1 DEF DeedTypes, LocksHold
<1>6. Agrees BY DEF Agrees
<1>7. Pact[mix] \subseteq Alive BY RealmConstants DEF Alive
<1>8. motion \in Proposals
    <2>1. NoMotion \in Proposals BY DEF NoMotion, Nothing, Proposals, Acts, Statuses, Executions
    <2>2. Motions \subseteq Acts BY TreasuriesConstants DEF Motions, Change, Acts
    <2>3. \A m \in Opened : m \in Proposals BY <2>2, RealmConstants DEF Proposals, Statuses, Executions
    <2> QED BY <2>1, <2>3
<1>9. LeagueTypes
    <2>1. allies \subseteq Nations BY <1>7 DEF Alive
    <2>2. seat \in [Nations -> Int] /\ common \in Int OBVIOUS
    <2>3. votes \in [Nations -> Ballot] BY DEF NoVotes, Ballot
    <2> QED BY <1>8, <2>1, <2>2, <2>3 DEF LeagueTypes
<1>10. DealTypes BY NoDealIs DEF DealTypes
<1>11. Whole BY <1>7, NoDealIs, RealmConstants DEF Whole, AllianceWhole, Removes
<1>12. Known BY <1>2 DEF Known
<1>13. KnownMotion /\ RewardsOnce BY NoDealIs DEF KnownMotion, RewardsOnce
<1> QED BY <1>3, <1>4, <1>5, <1>6, <1>9, <1>10, <1>11, <1>12, <1>13 DEF Inv, Balanced

LEMMA InvStep ==
    ASSUME Inv, Next
    PROVE  Inv'
<1> USE DEF Inv
<1>1. ASSUME NEW w \in Workers, Membership(w)
      PROVE  Inv'
    <2>1. Lives' /\ Alive \subseteq Alive' /\ UNCHANGED <<money, leagues>> BY <1>1, NationsStand
    <2>2. Balanced' /\ LeagueTypes' /\ DealTypes'
        BY <2>1 DEF Balanced, BookTypes, DeedTypes, LocksHold, Agrees, LeagueTypes, DealTypes,
                    money, books, accounts, leagues, league
    <2>3. Whole' BY <2>1 DEF Whole, AllianceWhole, leagues, league
    <2>4. Known' /\ KnownMotion' /\ RewardsOnce'
        BY <2>1, SameHad DEF Known, KnownMotion, RewardsOnce, money, accounts, leagues, league
    <2> QED BY <2>1, <2>2, <2>3, <2>4
<1>2. ASSUME NEW w \in Workers, CommitDisband(w)
      PROVE  Inv'
    <2>1. /\ Lives' /\ LeagueTypes' /\ Whole'
          /\ UNCHANGED <<money, deal, common, commonLedger, commonBlurred>>
        BY <1>2, DisbandKeeps DEF Balanced
    <2>2. Balanced' /\ DealTypes'
        BY <2>1 DEF Balanced, BookTypes, DeedTypes, LocksHold, Agrees, DealTypes, money, books, accounts
    <2>3. motion' = motion \/ motion' = NoMotion BY <1>2 DEF CommitDisband, Gone, Bereft
    <2>4. Known' /\ KnownMotion' /\ RewardsOnce'
        BY <2>1, <2>3, SameHad DEF Known, KnownMotion, RewardsOnce, money, accounts, NoMotion
    <2> QED BY <2>1, <2>2, <2>4
<1>3. ASSUME NEW w \in Workers, Money(w)
      PROVE  Inv'
    <2>1. UNCHANGED <<nations, leagues>> /\ (MoneyRequest(w) \/ EndMoneyRequest(w)) BY <1>3 DEF Money
    <2>2. Balanced' BY <1>3, MoneyBalanced
    <2>3. Known' /\ RewardsOnce' /\ overlapped \subseteq overlapped'
        <3>1. CASE CommitDeed(w) BY <3>1, KnownAfterCommit DEF Balanced, CommitDeed
        <3>2. CASE ~CommitDeed(w) BY <2>1, <3>2, KnownBeforeCommit DEF Balanced, accounts, RewardsOnce
        <3> QED BY <3>1, <3>2
    <2>4. Lives' /\ LeagueTypes' /\ DealTypes' /\ Whole'
        BY <2>1 DEF Lives, LeagueTypes, DealTypes, Whole, AllianceWhole, Alive, nations, members, leagues, league
    <2>5. KnownMotion' BY <2>1, <2>3 DEF KnownMotion, leagues, league
    <2> QED BY <2>2, <2>3, <2>4, <2>5
<1>4. ASSUME NEW w \in Workers, Diplomacy(w)
      PROVE  Inv'
    <2>1. Lives' BY <1>4, StepsOfDiplomacy DEF Balanced, Lives, nations, members
    <2> QED
        BY <1>4, <2>1, DiplomacyBalanced, LeagueTypesKept, DealTypesKept, WholeDiplomacy, MotionKnown DEF Balanced
<1>5. ASSUME Time
      PROVE  Inv'
    <2>1. UNCHANGED <<nations, leagues, books, deed, accounts>> BY <1>5 DEF Time, NextWeek
    <2>2. Balanced' BY <1>5, TimeBalanced
    <2>3. Lives' /\ LeagueTypes' /\ DealTypes' /\ Whole'
        BY <2>1 DEF Lives, LeagueTypes, DealTypes, Whole, AllianceWhole, Alive, nations, members, leagues, league
    <2>4. Known' /\ KnownMotion' /\ RewardsOnce'
        BY <2>1, SameHad DEF Known, KnownMotion, RewardsOnce, accounts, leagues, league
    <2> QED BY <2>2, <2>3, <2>4
<1>6. ASSUME Market
      PROVE  Inv'
    <2>1. UNCHANGED <<nations, leagues, books, deed, again, overlapped>> BY <1>6 DEF Market, MarketFee
    <2>2. Balanced' BY <1>6, MarketBalanced
    <2>3. Lives' /\ LeagueTypes' /\ DealTypes' /\ Whole'
        BY <2>1 DEF Lives, LeagueTypes, DealTypes, Whole, AllianceWhole, Alive, nations, members, leagues, league
    <2>4. Known' /\ KnownMotion' /\ RewardsOnce'
        BY <2>1, SameHad DEF Known, KnownMotion, RewardsOnce, leagues, league
    <2> QED BY <2>2, <2>3, <2>4
<1> QED BY <1>1, <1>2, <1>3, <1>4, <1>5, <1>6, StepsOfNext

LEMMA InvKept == Spec => []Inv
<1>1. Inv /\ UNCHANGED vars => Inv'
    BY SameHad
       DEF Inv, Lives, Balanced, BookTypes, DeedTypes, LocksHold, Agrees, LeagueTypes, DealTypes, Whole, AllianceWhole,
           Alive, Known, KnownMotion, RewardsOnce, vars, nations, members, money, books, accounts, leagues, league
<1> QED BY <1>1, InvInit, InvStep, PTL DEF Spec

\* A treasury is what its transactions but the market's fees add up to, unless one who
\* took no lock wrote over a change; those who read FOR UPDATE never do.
THEOREM LedgersAgree == Spec => []LedgerAgrees
<1>1. Inv => LedgerAgrees BY DEF Inv, Balanced, Agrees, LedgerAgrees, Alive
<1> QED BY <1>1, InvKept, PTL

\* An alliance keeps its founder, and only nations that stand, whatever was read
\* before they left, were voted out or were disbanded.
THEOREM AllianceStaysWhole == Spec => []AllianceWhole
<1>1. Inv => AllianceWhole BY DEF Inv, Whole
<1> QED BY <1>1, InvKept, PTL

\* Nothing is granted, paid for or executed twice but by requests that overlap.
THEOREM RewardedOnce == Spec => []RewardsOnce
<1>1. Inv => RewardsOnce BY DEF Inv
<1> QED BY <1>1, InvKept, PTL

\* And who belongs to the nations, with the bounds of what is numbered.
IInv == Inv /\ Membered /\ Counts /\ Limits

LEMMA MemberedInit == Init => Membered
<1> SUFFICES ASSUME Init PROVE Membered OBVIOUS
<1>1. PICK m \in Mixes : m = mix BY DEF Init
<1>2. /\ life = [n \in Nations |-> IF Leader[m][n] = None THEN "free" ELSE "alive"]
      /\ role = [n \in Nations |-> [u \in Users |->
                 IF u = Leader[m][n] THEN "leader" ELSE IF u \in Officers[m][n] THEN "officer" ELSE "none"]]
      /\ row = [n \in Nations |-> [u \in Users |-> IF role[n][u] = "none" THEN 0 ELSE 1]]
      /\ head = Leader[m] /\ asked = [n \in Nations |-> {}] /\ job = [w \in Workers |-> NoJob]
      /\ crossed = {} /\ doubled = {} /\ misled = {}
    BY <1>1 DEF Init
<1>3. /\ \A n \in Nations : Leader[m][n] \in Users \cup {None} /\ (Leader[m][n] = None => Officers[m][n] = {})
      /\ Leader[m] \in [Nations -> Users \cup {None}]
    BY <1>1, RealmConstants
<1>4. Lives BY <1>2 DEF Lives
<1>5. MemberTypes
    <2>1. \A n \in Nations, u \in Users : role[n][u] \in Roles BY <1>2 DEF Roles
    <2>2. \A n \in Nations, u \in Users : life[n] = "free" => role[n][u] = "none"
        BY <1>2, <1>3, NationsConstants
    <2>3. job \in [Workers -> Jobs] BY <1>2, NoJobIs
    <2>4. role \in [Nations -> [Users -> Roles]] /\ row \in [Nations -> [Users -> Int]]
        BY <1>2 DEF Roles
    <2> QED BY <1>2, <1>3, <2>2, <2>3, <2>4 DEF MemberTypes
<1>6. Leads BY <1>2, <1>3, NationsConstants DEF Leads, Clear, Alive
<1>7. ASSUME NEW u \in Users, NEW n \in Homes(u)
      PROVE  n \in Nations /\ u \in Core(m, n)
    BY <1>2, <1>7, NationsConstants DEF Homes, Alive, Core
<1>8. OneHome
    <2>1. ASSUME NEW u \in Users, NEW n \in Homes(u), NEW k \in Homes(u)
          PROVE  n = k
        <3>1. n \in Nations /\ k \in Nations /\ u \in Core(m, n) \cap Core(m, k) BY <1>7
        <3> QED BY <1>1, <3>1, RealmConstants
    <2> QED BY <2>1 DEF OneHome
<1>9. \A w \in Workers : Upright(job[w]) BY <1>2, NoJobUpright
<1> QED BY <1>4, <1>5, <1>6, <1>8, <1>9 DEF Membered

LEMMA CountsInit == Init => Counts /\ Limits
<1> SUFFICES ASSUME Init PROVE Counts /\ Limits OBVIOUS
<1>1. Busy = {} /\ Acting = {} BY DEF Init, Busy, Acting
<1>2. IsFiniteSet({}) /\ Cardinality({}) = 0 BY FS_EmptySet
<1>3. \A n \in Nations, u \in Users : row[n][u] \in {0, 1} BY DEF Init
<1>4. \A n \in Nations : seat[n] \in {0, 1} BY DEF Init
<1>5. begun = 0 BY DEF Init
<1>6. Counts BY <1>1, <1>2, <1>3, <1>4, <1>5, NationsConstants DEF Counts
<1>7. NoDeed.week = 0 /\ NoDeed.kind = "none" BY NoDeedIs DEF NoDeed
<1>8. /\ \A n \in Nations : level[n] = 0 /\ interestOn[n] = 0
      /\ capital = {} /\ seasonOn = 0 /\ week = 1 /\ pact \in {"free", "alive"} /\ \A w \in Workers : deed[w] = NoDeed
    BY DEF Init
<1>9. Limits BY <1>7, <1>8, TreasuriesConstants DEF Limits
<1> QED BY <1>6, <1>9

LEMMA IInvKept == Spec => []IInv
<1>1. Init => IInv BY InvInit, MemberedInit, CountsInit DEF IInv
<1>2. ASSUME IInv, Next
      PROVE  IInv'
    <2>1. Inv' BY <1>2, InvStep DEF IInv
    <2> USE <1>2, <2>1 DEF IInv, Inv, Balanced
    <2>2. ASSUME NEW w \in Workers, Membership(w)
          PROVE  IInv'
        BY <2>2, MembershipMembered, MembershipCounts, OthersLimits
    <2>3. ASSUME NEW w \in Workers, CommitDisband(w)
          PROVE  IInv'
        BY <2>3, DisbandMembered, DisbandCounts, OthersLimits
    <2>4. ASSUME NEW w \in Workers, Money(w)
          PROVE  IInv'
        <3>1. UNCHANGED nations BY <2>4 DEF Money
        <3> QED BY <2>4, <3>1, NationsUnchanged, MoneyCounts, MoneyLimits
    <2>5. ASSUME NEW w \in Workers, Diplomacy(w)
          PROVE  IInv'
        <3>1. UNCHANGED nations BY <2>5, StepsOfDiplomacy
        <3> QED BY <2>5, <3>1, NationsUnchanged, DiplomacyCounts, OthersLimits
    <2>6. CASE Time
        <3>1. UNCHANGED <<nations, begun, leagues>> BY <2>6 DEF Time, NextWeek
        <3>2. Counts' BY <3>1, CountsUnchanged DEF nations, members, leagues, league
        <3> QED BY <2>6, <3>1, <3>2, NationsUnchanged, OthersLimits
    <2>7. CASE Market
        <3>1. UNCHANGED <<nations, leagues>> /\ Counted BY <2>7 DEF Market, MarketFee
        <3>2. UNCHANGED <<job, deal, row, seat>> BY <3>1 DEF nations, members, leagues, league
        <3>3. Counts'
            <4>1. begun \in Nat /\ begun' = begun + 1 /\ begun' \in 0..MaxRequests
                BY <3>1, NationsConstants DEF Counts, Counted
            <4>2. Cardinality(Busy) \in Nat /\ Cardinality(Acting) \in Nat BY FS_CardinalityType DEF Counts
            <4>3. UNCHANGED <<Busy, Acting>> BY <3>2 DEF Busy, Acting
            <4>4. \A n \in Nations, u \in Users : row[n][u] + Cardinality(Busy) <= begun' + 1
                BY <4>1, <4>2 DEF Counts
            <4>5. \A n \in Nations : seat[n] + Cardinality(Acting) <= begun' + 1 BY <4>1, <4>2 DEF Counts
            <4> QED BY <3>2, <4>1, <4>3, <4>4, <4>5 DEF Counts
        <3> QED BY <2>7, <3>1, <3>3, NationsUnchanged, OthersLimits
    <2> QED BY <2>2, <2>3, <2>4, <2>5, <2>6, <2>7, StepsOfNext
<1>3. UNCHANGED vars /\ Membered /\ Counts /\ Limits => Membered' /\ Counts' /\ Limits'
    <2>1. UNCHANGED vars => UNCHANGED nations /\ UNCHANGED <<begun, row, seat, job, deal>>
                            /\ UNCHANGED <<level, capital, interestOn, seasonOn, week, pact, deed>>
        BY DEF vars, nations, members, money, books, leagues, league
    <2> QED BY <2>1, NationsUnchanged, CountsUnchanged DEF Limits
<1>4. IInv /\ [Next]_vars => (Inv' => IInv')
    BY <1>2, <1>3 DEF IInv
<1> QED BY <1>1, <1>4, InvKept, PTL DEF Spec

\* All variables keep their types, for any number of nations, users, workers and
\* requests; in particular the research stops at its last level.
THEOREM TypeCorrect == Spec => []TypeOK
<1>1. IInv => TypeOK
    <2> SUFFICES ASSUME IInv PROVE TypeOK OBVIOUS
    <2>1. begun \in Nat /\ begun <= MaxRequests /\ MaxRequests \in Nat
        BY NationsConstants DEF IInv, Counts
    <2>2. Cardinality(Busy) \in Nat /\ Cardinality(Acting) \in Nat
        BY FS_CardinalityType DEF IInv, Counts
    <2>3. \A n \in Nations, u \in Users : row[n][u] \in 0..(MaxRequests + 1)
        BY <2>1, <2>2 DEF IInv, Counts
    <2>4. \A n \in Nations : seat[n] \in 0..(MaxRequests + 1)
        BY <2>1, <2>2 DEF IInv, Counts
    <2>5. row \in [Nations -> [Users -> 0..(MaxRequests + 1)]]
        <3>1. row \in [Nations -> [Users -> Int]] BY DEF IInv, Membered, MemberTypes
        <3>2. PICK numbers : numbers = 0..(MaxRequests + 1) OBVIOUS
        <3>3. \A n \in Nations : row[n] \in [Users -> numbers] BY <2>3, <3>1, <3>2
        <3> QED BY <3>1, <3>2, <3>3
    <2>6. /\ seat \in [Nations -> 0..(MaxRequests + 1)] /\ level \in [Nations -> 0..MaxLevel]
          /\ interestOn \in [Nations -> 0..MaxWeek]
        BY <2>4 DEF IInv, Inv, Balanced, BookTypes, LeagueTypes, Limits
    <2>7. capital \subseteq Nations BY DEF IInv, Limits
    <2> QED
        BY <2>5, <2>6, <2>7 DEF IInv, Inv, Membered, MemberTypes, Lives, Balanced, BookTypes, LeagueTypes, Proposals,
                    Statuses, Executions, Limits, TypeOK
<1> QED BY <1>1, IInvKept, PTL

\* A nation has one leader, the one it names, unless a change of leader met another
\* change of the same member or the game server passed the leader over; a user has
\* one nation, unless admitted twice at once.
THEOREM OneLeaderStays == Spec => []LeadersStay
<1>1. IInv => LeadersStay
    <2> SUFFICES ASSUME IInv PROVE LeadersStay OBVIOUS
    <2>1. Leads /\ OneHome BY DEF IInv, Membered
    <2>2. \A n \in Alive \ (crossed \cup misled) : {u \in Users : role[n][u] = "leader"} = {head[n]} BY <2>1 DEF Leads, Clear
    <2>3. ASSUME NEW u \in Users \ doubled
          PROVE  Cardinality(Homes(u)) <= 1
        <3>1. CASE Homes(u) = {}
            <4>1. Cardinality(Homes(u)) = 0 BY <3>1, FS_EmptySet
            <4> QED BY <4>1
        <3>2. CASE Homes(u) # {}
            <4>1. PICK n : n \in Homes(u) BY <3>2
            <4>2. Homes(u) = {n} BY <2>1, <4>1 DEF OneHome
            <4>3. Cardinality(Homes(u)) = 1 BY <4>2, FS_Singleton
            <4> QED BY <4>3
        <3> QED BY <3>1, <3>2
    <2> QED BY <2>2, <2>3 DEF LeadersStay
<1> QED BY <1>1, IInvKept, PTL
================================================================================
