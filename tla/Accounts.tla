-------------------------------- MODULE Accounts --------------------------------
(***************************************************************************)
(* Registration, progression and Rebirth by concurrent transactions of one *)
(* connection pool.  Source: PgStore (graphite-store), ProgressionService, *)
(* apply_account_xp_settlement, apply_activity_xp_mutation,                *)
(* apply_wallet_spend, and the interest refresh a Rebirth begins on a      *)
(* second connection while its own transaction is open.                    *)
(*                                                                         *)
(* A session carries a request.  It waits for a connection, finds or       *)
(* inserts the operation row of its key and holds it, takes the player     *)
(* row and works on a copy of the player's rows that is seen when it       *)
(* commits.  An error or a lost connection at any step drops the           *)
(* transaction and an operation row it has inserted.                       *)
(*                                                                         *)
(* The row of the current terms is read FOR UPDATE by ensure_tos_document  *)
(* and FOR SHARE by register_player.  At READ COMMITTED such a statement   *)
(* takes the rows of its snapshot; one it had to wait for, and that is no  *)
(* longer current once it has the lock, drops out of the result and stays  *)
(* locked all the same.  An installation then takes the row of its own     *)
(* version, or inserts it, and last the row that is current by then: two   *)
(* of them can wait for each other, and PostgreSQL ends one of them.       *)
(***************************************************************************)
EXTENDS AccountRules

CONSTANTS Persons,      \* Discord users
          Keys,         \* external request keys
          Requests,     \* what callers ask for
          Versions,     \* versions of the terms
          Starts,       \* the rows a person may have at the start
          FirstTerms,   \* the versions recorded at the start
          PoolSize,     \* connections of the pool
          OperatorStatuses, \* the statuses an operator may set
          MaxDay,       \* bound on the days that pass
          Sessions,
          MaxBegun,     \* bound on the requests made
          None

ASSUME PoolAssumption == PoolSize \in Nat \ {0}
ASSUME VersionsAssumption == Versions \subseteq Nat \ {0} /\ None \notin Versions
ASSUME RequestsAssumption == \A r \in Requests :
    /\ r.kind \in {"REGISTER", "GRANT", "REBIRTH", "OWNED", "TERMS"}
    /\ r.kind # "TERMS" => r.person \in Persons
    /\ r.kind \in {"REGISTER", "TERMS"} => r.version \in Versions
    /\ r.kind = "GRANT" => r.amount \in Nat \ {0}
    /\ r.kind = "OWNED" => r.plans \subseteq Seq(PlanLegs)
ASSUME StartsAssumption == \A w \in Starts :
    /\ IsAccount(w) /\ IsHistory(w)
    /\ Reconciles(w) /\ RewardsAreDue(w) /\ DaysArePaid(w)
    /\ \A row \in w.ledger : row.op \notin Keys
    /\ \A n \in DOMAIN w.events : w.events[n].op \notin Keys
ASSUME DaysAssumption == MaxDay \in Nat \ {0}
ASSUME OperatorAssumption == OperatorStatuses \subseteq {"ACTIVE", "SOFT_FROZEN", "DELETED"}

VARIABLES db,         \* the committed rows of each person
          terms,      \* the recorded versions of the terms and the current one
          operation,  \* the committed operation row of each key
          tx,         \* the transaction of each session
          told,       \* the receipts callers have been given
          today,
          begun       \* requests made so far

vars == <<db, terms, operation, tx, told, today, begun>>

Idle == [phase |-> "IDLE", request |-> None, key |-> None, seen |-> None, work |-> None,
         legs |-> <<>>, asked |-> 0, held |-> {}]

\* A key of which no operation has been committed.
NoEntry == [of |-> None, state |-> "NONE", receipt |-> None]

Init ==
    /\ db \in [Persons -> Starts]
    /\ terms = [recorded |-> FirstTerms,
                current |-> IF FirstTerms = {} THEN None ELSE Max(FirstTerms)]
    /\ operation = [k \in Keys |-> NoEntry]
    /\ tx = [s \in Sessions |-> Idle]
    /\ told = {}
    /\ today = 1
    /\ begun = 0

Asks(s, kinds) == tx[s].phase # "IDLE" /\ tx[s].request.kind \in kinds
Person(s) == tx[s].request.person

Waits == {"IDLE", "QUEUED"}
Holding == {"OPEN", "UNKNOWN", "ELIGIBLE", "REFRESHING", "REFRESHED", "LOCKED"}

HasRow(s) == tx[s].phase \in Holding

HasPlayer(s) == tx[s].phase = "LOCKED"

\* FOR UPDATE on the key's row, or the wait for an insertion of the same key.
RowFree(s) == \A t \in Sessions \ {s} : HasRow(t) => tx[t].key # tx[s].key

\* Mistaken: a Rebirth takes the player row as soon as it is eligible.
UnlockedByEligible(p) ==
    \A s \in Sessions :
        tx[s].phase \in {"LOCKED", "ELIGIBLE", "REFRESHING", "REFRESHED"} => Person(s) # p

Unlocked(p) == \A s \in Sessions : HasPlayer(s) => Person(s) # p
PlayerFree(s) == \A t \in Sessions \ {s} : HasPlayer(t) => Person(t) # Person(s)

\* The connections in use; a Rebirth has two while it refreshes the interest.
Used == Cardinality({s \in Sessions : tx[s].phase \notin Waits})
            + Cardinality({s \in Sessions : tx[s].phase = "REFRESHING"})
Free == PoolSize - Used

Sharing(s) == Asks(s, {"REGISTER"})

\* Mistaken: nobody waits for those who only share the row.
TermsFreeOfOwners(s, v) ==
    \A t \in Sessions \ {s} : ~ Sharing(t) => v \notin tx[t].held

\* The row of version v, locked or inserted by nobody else, or shared with it.
TermsFree(s, v) ==
    \A t \in Sessions \ {s} : v \in tx[t].held => Sharing(s) /\ Sharing(t)

Goes(s, phase) == tx' = [tx EXCEPT ![s].phase = phase]
Leave(s) == tx' = [tx EXCEPT ![s] = Idle]
Holds(s, phase, rows) == tx' = [tx EXCEPT ![s].phase = phase, ![s].held = rows]
Works(s, w, legs) ==
    tx' = [tx EXCEPT ![s].phase = "LOCKED", ![s].work = w, ![s].legs = legs]

---------------------------------------------------------------------------
(* The request and its operation row.                                      *)

KeysOf(r) == IF r.kind = "TERMS" THEN {None} ELSE Keys
PlansOf(r) == IF r.kind = "OWNED" THEN r.plans ELSE {<<>>}

Asking(r, k, legs) ==
    [phase |-> "QUEUED", request |-> r, key |-> k, seen |-> None, work |-> None,
     legs |-> legs, asked |-> today, held |-> {}]

Begin(s) ==
    /\ tx[s].phase = "IDLE"
    /\ begun < MaxBegun
    /\ begun' = begun + 1
    /\ \E r \in Requests : \E k \in KeysOf(r), legs \in PlansOf(r) :
           tx' = [tx EXCEPT ![s] = Asking(r, k, legs)]
    /\ UNCHANGED <<db, terms, operation, told, today>>

Connect(s) ==
    /\ tx[s].phase = "QUEUED"
    /\ Free > 0
    /\ Goes(s, "ASKING")
    /\ UNCHANGED <<db, terms, operation, told, today, begun>>

Entry(s) == operation[tx[s].key]
IsOfRequest(s) == Entry(s).of = tx[s].request

\* A COMMITTED row answers with its receipt, whatever the account has become.
Answer(s) ==
    /\ tx[s].phase \in {"ASKING", "AGREED"} /\ ~ Asks(s, {"TERMS"})
    /\ RowFree(s)
    /\ Entry(s) # NoEntry /\ IsOfRequest(s) /\ Entry(s).state = "COMMITTED"
    /\ told' = told \cup {[key |-> tx[s].key, of |-> tx[s].request, receipt |-> Entry(s).receipt]}
    /\ Leave(s)
    /\ UNCHANGED <<db, terms, operation, today, begun>>

\* A PENDING row is entered again; without one the request inserts its own, a
\* registration only when its terms have been agreed.
Open(s) ==
    /\ \/ tx[s].phase = "ASKING" /\ ~ Asks(s, {"REGISTER", "TERMS"})
       \/ tx[s].phase = "AGREED"
    /\ RowFree(s)
    /\ Entry(s) # NoEntry => IsOfRequest(s) /\ Entry(s).state = "PENDING"
    /\ Goes(s, "OPEN")
    /\ UNCHANGED <<db, terms, operation, told, today, begun>>

---------------------------------------------------------------------------
(* The terms.                                                              *)

\* The snapshot of the statement that reads the current version; a registration
\* that finds no operation row comes to it.
ReadTerms(s) ==
    /\ tx[s].phase = "ASKING"
    /\ Asks(s, {"REGISTER", "TERMS"})
    /\ Asks(s, {"REGISTER"}) => Entry(s) = NoEntry
    /\ tx' = [tx EXCEPT ![s].phase = "READING", ![s].seen = terms.current]
    /\ UNCHANGED <<db, terms, operation, told, today, begun>>

\* The version the statement returns once it has the lock, if any.
Returned(s) == IF terms.current = tx[s].seen THEN tx[s].seen ELSE None

Agree(s) ==
    /\ tx[s].phase = "READING" /\ Asks(s, {"REGISTER"})
    /\ TermsFree(s, tx[s].seen)
    /\ Returned(s) = tx[s].request.version
    /\ ~ db[Person(s)].cooling
    /\ Holds(s, "AGREED", {tx[s].seen})
    /\ UNCHANGED <<db, terms, operation, told, today, begun>>

\* The refusal to go back compares with the version the statement returned.
Check(s) ==
    /\ tx[s].phase = "READING" /\ Asks(s, {"TERMS"})
    /\ TermsFree(s, tx[s].seen)
    /\ Returned(s) # None => tx[s].request.version >= Returned(s)
    /\ Holds(s, "CHECKED", {tx[s].seen} \ {None})
    /\ UNCHANGED <<db, terms, operation, told, today, begun>>

Named(s) == Holds(s, "NAMED", tx[s].held \cup {tx[s].request.version})

\* The row of the version is there, and is locked.
FindVersion(s) ==
    /\ tx[s].phase = "CHECKED"
    /\ tx[s].request.version \in terms.recorded
    /\ TermsFree(s, tx[s].request.version)
    /\ Named(s)
    /\ UNCHANGED <<db, terms, operation, told, today, begun>>

\* The statement sees no committed row, and waits for none that is being inserted;
MissVersion(s) ==
    /\ tx[s].phase = "CHECKED"
    /\ tx[s].request.version \notin terms.recorded
    /\ Goes(s, "UNNAMED")
    /\ UNCHANGED <<db, terms, operation, told, today, begun>>

\* the insertion does, and fails if that one commits.
InsertVersion(s) ==
    /\ tx[s].phase = "UNNAMED"
    /\ tx[s].request.version \notin terms.recorded
    /\ TermsFree(s, tx[s].request.version)
    /\ Named(s)
    /\ UNCHANGED <<db, terms, operation, told, today, begun>>

\* The snapshot of the statement that ends the present terms: the current row, if it
\* is another.
Replace(s) ==
    /\ tx[s].phase = "NAMED"
    /\ tx' = [tx EXCEPT ![s].phase = "REPLACING",
                        ![s].seen = IF terms.current = tx[s].request.version THEN None
                                    ELSE terms.current]
    /\ UNCHANGED <<db, terms, operation, told, today, begun>>

\* The unique index on the row that is current.
Unrivalled(s) == terms.current \in {tx[s].seen, tx[s].request.version}

\* Once it has that row, the version is current in its place.
Install(s) ==
    /\ tx[s].phase = "REPLACING"
    /\ TermsFree(s, tx[s].seen)
    /\ Unrivalled(s)
    /\ terms' = [recorded |-> terms.recorded \cup {tx[s].request.version},
                 current |-> tx[s].request.version]
    /\ Leave(s)
    /\ UNCHANGED <<db, operation, told, today, begun>>

---------------------------------------------------------------------------
(* Registration.                                                           *)

Registering(s) == tx[s].phase = "OPEN" /\ Asks(s, {"REGISTER"})

\* A player who is there accepts these terms as well.
Return(s) ==
    /\ Registering(s)
    /\ PlayerFree(s)
    /\ Exists(db[Person(s)])
    /\ Works(s, [db[Person(s)] EXCEPT !.accepted = @ \cup {tx[s].request.version}], <<>>)
    /\ UNCHANGED <<db, terms, operation, told, today, begun>>

\* The statement sees no committed row, and waits for none that is being inserted.
MissPlayer(s) ==
    /\ Registering(s)
    /\ ~ Exists(db[Person(s)])
    /\ Goes(s, "UNKNOWN")
    /\ UNCHANGED <<db, terms, operation, told, today, begun>>

\* Mistaken: discord_user_id is not unique.
UnclaimedIfUnseen(s) == TRUE

\* The unique index on discord_user_id.
Unclaimed(s) == db[Person(s)].status = "NONE"

Enrol(s) ==
    /\ tx[s].phase = "UNKNOWN"
    /\ PlayerFree(s)
    /\ Unclaimed(s)
    /\ Works(s, [Created(tx[s].key, tx[s].request.version, today) EXCEPT
                     !.loadouts = @ \cup db[Person(s)].loadouts], <<>>)
    /\ UNCHANGED <<db, terms, operation, told, today, begun>>

---------------------------------------------------------------------------
(* Grants and Rebirth.                                                     *)

Grant(s) ==
    /\ tx[s].phase = "OPEN" /\ Asks(s, {"GRANT"})
    /\ PlayerFree(s)
    /\ IsActive(db[Person(s)])
    /\ Works(s, XpGranted(db[Person(s)], tx[s].key, "primary", tx[s].request.amount), <<>>)
    /\ UNCHANGED <<db, terms, operation, told, today, begun>>

\* ensure_rebirth_eligible reads without a lock.
Eligible(s) ==
    /\ tx[s].phase = "OPEN" /\ Asks(s, {"REBIRTH"})
    /\ IsActive(db[Person(s)]) /\ AtCap(db[Person(s)])
    /\ Goes(s, "ELIGIBLE")
    /\ UNCHANGED <<db, terms, operation, told, today, begun>>

\* Mistaken: Rebirth leaves the days that are due to the next refresh.
Unrefreshed(s) ==
    /\ tx[s].phase = "ELIGIBLE"
    /\ Free > 0
    /\ Goes(s, "REFRESHED")
    /\ UNCHANGED <<db, terms, operation, told, today, begun>>

\* accrue_interest begins a transaction of its own, on another connection, and
\* settles the days up to its beginning.
BeginRefresh(s) ==
    /\ tx[s].phase = "ELIGIBLE"
    /\ Free > 0
    /\ tx' = [tx EXCEPT ![s].phase = "REFRESHING", ![s].seen = today]
    /\ UNCHANGED <<db, terms, operation, told, today, begun>>

Refresh(s) ==
    /\ tx[s].phase = "REFRESHING"
    /\ Unlocked(Person(s))
    /\ Exists(db[Person(s)])
    /\ db' = [db EXCEPT ![Person(s)] = Accrued(@, tx[s].seen)]
    /\ Goes(s, "REFRESHED")
    /\ UNCHANGED <<terms, operation, told, today, begun>>

\* Mistaken: the level is not looked at again under the lock.
StillActive(w) == IsActive(w)

\* What Rebirth checks under the lock.
MayBeReborn(w) == IsActive(w) /\ AtCap(w)

Rebirth(s) ==
    /\ tx[s].phase = "REFRESHED"
    /\ PlayerFree(s)
    /\ MayBeReborn(db[Person(s)])
    /\ Works(s, Reborn(db[Person(s)], tx[s].key, tx[s].asked), <<>>)
    /\ UNCHANGED <<db, terms, operation, told, today, begun>>

---------------------------------------------------------------------------
(* An operation that owns its legs: a cast, which earns Account XP and     *)
(* then Activity XP, or an unbinding, which spends money.                  *)

Sees(s) == IF HasPlayer(s) THEN tx[s].work ELSE db[Person(s)]
Legs(s) == tx[s].phase \in {"OPEN", "LOCKED"} /\ Asks(s, {"OWNED"})
More(s) == Legs(s) /\ tx[s].legs # <<>>
Leg(s) == Head(tx[s].legs)

\* Mistaken: what an earlier run of the leg has left is not looked up.
NeverRun(s) == {}

TracesOf(s) == Traces(Sees(s), tx[s].key, Leg(s))

Prepare(s) ==
    /\ More(s) /\ ~ HasPlayer(s)
    /\ PlayerFree(s)
    /\ MayPrepare(db[Person(s)], tx[s].key, Leg(s))
    /\ Works(s, db[Person(s)], tx[s].legs)
    /\ UNCHANGED <<db, terms, operation, told, today, begun>>

\* A leg that has run answers from its row, before any lock but the operation's.
RunAgain(s) ==
    /\ More(s)
    /\ TracesOf(s) # {} /\ IsReplay(Sees(s), tx[s].key, Leg(s))
    /\ tx' = [tx EXCEPT ![s].legs = Tail(@)]
    /\ UNCHANGED <<db, terms, operation, told, today, begun>>

Run(s) ==
    /\ More(s)
    /\ TracesOf(s) = {}
    /\ PlayerFree(s)
    /\ MayRun(Sees(s), tx[s].key, Leg(s))
    /\ Works(s, Ran(Sees(s), tx[s].key, Leg(s)), Tail(tx[s].legs))
    /\ UNCHANGED <<db, terms, operation, told, today, begun>>

\* The caller commits what has run and leaves the operation PENDING.
Save(s) ==
    /\ Legs(s)
    /\ db' = [db EXCEPT ![Person(s)] = Sees(s)]
    /\ operation' = [operation EXCEPT ![tx[s].key] =
                         [of |-> tx[s].request, state |-> "PENDING", receipt |-> None]]
    /\ Leave(s)
    /\ UNCHANGED <<terms, told, today, begun>>

---------------------------------------------------------------------------
(* The ends of a transaction.                                              *)

ReceiptOf(w) == [xp |-> w.xp, activity |-> w.activity, wallet |-> w.wallet,
                 rebirths |-> w.rebirths, loadouts |-> w.loadouts]

Finished(s) == IF Asks(s, {"OWNED"}) THEN Legs(s) /\ tx[s].legs = <<>> ELSE HasPlayer(s)

Commit(s) ==
    LET receipt == ReceiptOf(Sees(s))
    IN  /\ Finished(s)
        /\ db' = [db EXCEPT ![Person(s)] = Sees(s)]
        /\ operation' = [operation EXCEPT ![tx[s].key] =
                             [of |-> tx[s].request, state |-> "COMMITTED", receipt |-> receipt]]
        /\ told' = told \cup {[key |-> tx[s].key, of |-> tx[s].request, receipt |-> receipt]}
        /\ Leave(s)
        /\ UNCHANGED <<terms, today, begun>>

---------------------------------------------------------------------------
(* Waits for rows, and the errors.                                         *)

\* An operation row that another has, or is inserting.
WaitsForKey(s, t) ==
    /\ tx[s].phase \in {"ASKING", "AGREED"} /\ ~ Asks(s, {"TERMS"})
    /\ HasRow(t) /\ tx[t].key = tx[s].key

\* The row of the terms that the session's statement is to lock or to insert.
NextTerms(s) ==
    IF tx[s].phase \in {"READING", "REPLACING"} THEN {tx[s].seen}
    ELSE IF \/ tx[s].phase = "CHECKED" /\ tx[s].request.version \in terms.recorded
            \/ tx[s].phase = "UNNAMED" /\ tx[s].request.version \notin terms.recorded
         THEN {tx[s].request.version}
    ELSE {}

WaitsForTerms(s, t) ==
    NextTerms(s) \cap tx[t].held # {} /\ ~ (Sharing(s) /\ Sharing(t))

\* The player row, of a session that works without it so far.
WaitsForPlayer(s, t) ==
    /\ tx[s].phase \in Holding \ {"LOCKED"}
    /\ HasPlayer(t) /\ Person(t) = Person(s)

WaitsFor(s, t) ==
    s # t /\ (WaitsForKey(s, t) \/ WaitsForTerms(s, t) \/ WaitsForPlayer(s, t))
Waiting(s) == \E t \in Sessions : WaitsFor(s, t)

\* PostgreSQL ends a transaction that waits in a circle: each of some sessions for
\* another of them, all around.
Deadlocked(s) ==
    \E circle \in SUBSET {t \in Sessions : Waiting(t)} :
        /\ s \in circle
        /\ \E next \in Bijection(circle, circle) :
               \A t \in circle : WaitsFor(t, next[t])

\* The pool gives up on a caller that has waited too long for a connection.
TimesOut(s) == tx[s].phase \in {"QUEUED", "ELIGIBLE"} /\ Free = 0

\* The error returns.
Fails(s) ==
    \/ /\ tx[s].phase \in {"ASKING", "AGREED"} /\ ~ Asks(s, {"TERMS"})
       /\ RowFree(s) /\ Entry(s) # NoEntry /\ ~ IsOfRequest(s)
    \/ /\ tx[s].phase = "READING"
       /\ TermsFree(s, tx[s].seen)
       /\ IF Asks(s, {"REGISTER"})
          THEN Returned(s) # tx[s].request.version \/ db[Person(s)].cooling
          ELSE Returned(s) # None /\ tx[s].request.version < Returned(s)
    \/ tx[s].phase = "UNNAMED" /\ tx[s].request.version \in terms.recorded
    \/ tx[s].phase = "REPLACING" /\ TermsFree(s, tx[s].seen) /\ ~ Unrivalled(s)
    \/ tx[s].phase = "UNKNOWN" /\ PlayerFree(s) /\ ~ Unclaimed(s)
    \/ /\ tx[s].phase = "OPEN" /\ Asks(s, {"GRANT"})
       /\ PlayerFree(s) /\ ~ IsActive(db[Person(s)])
    \/ /\ tx[s].phase = "OPEN" /\ Asks(s, {"REBIRTH"})
       /\ ~ (IsActive(db[Person(s)]) /\ AtCap(db[Person(s)]))
    \/ tx[s].phase = "REFRESHING" /\ Unlocked(Person(s)) /\ ~ Exists(db[Person(s)])
    \/ tx[s].phase = "REFRESHED" /\ PlayerFree(s) /\ ~ MayBeReborn(db[Person(s)])
    \/ More(s) /\ TracesOf(s) # {} /\ ~ IsReplay(Sees(s), tx[s].key, Leg(s))
    \/ More(s) /\ TracesOf(s) = {} /\ PlayerFree(s) /\ ~ MayRun(Sees(s), tx[s].key, Leg(s))

Refuse(s) ==
    /\ TimesOut(s) \/ Fails(s) \/ Deadlocked(s)
    /\ Leave(s)
    /\ UNCHANGED <<db, terms, operation, told, today, begun>>

RollBack(s) ==
    /\ tx[s].phase \notin Waits
    /\ Leave(s)
    /\ UNCHANGED <<db, terms, operation, told, today, begun>>

---------------------------------------------------------------------------
(* What else happens.                                                      *)

\* The worker, or another command's refresh.
Sweep(p) ==
    /\ Unlocked(p) /\ Exists(db[p]) /\ Len(db[p].paid) < today
    /\ db' = [db EXCEPT ![p] = Accrued(@, today)]
    /\ UNCHANGED <<terms, operation, tx, told, today, begun>>

\* An operator freezes an account, or deletes it with a cooldown.
SetStatus(p, status) ==
    /\ Unlocked(p) /\ Exists(db[p]) /\ db[p].status # status
    /\ db' = [db EXCEPT ![p].status = status, ![p].cooling = status = "DELETED"]
    /\ UNCHANGED <<terms, operation, tx, told, today, begun>>

EndCooldown(p) ==
    /\ db[p].cooling
    /\ db' = [db EXCEPT ![p].cooling = FALSE]
    /\ UNCHANGED <<terms, operation, tx, told, today, begun>>

NextDay ==
    /\ today < MaxDay
    /\ today' = today + 1
    /\ UNCHANGED <<db, terms, operation, tx, told, begun>>

Step(s) ==
    \/ Connect(s) \/ Answer(s) \/ Open(s) \/ ReadTerms(s) \/ Agree(s) \/ Check(s)
    \/ FindVersion(s) \/ MissVersion(s) \/ InsertVersion(s) \/ Replace(s) \/ Install(s)
    \/ Return(s) \/ MissPlayer(s) \/ Enrol(s) \/ Grant(s)
    \/ Eligible(s) \/ BeginRefresh(s) \/ Refresh(s) \/ Rebirth(s)
    \/ RunAgain(s) \/ Run(s) \/ Commit(s) \/ Refuse(s)

Else ==
    \/ \E p \in Persons :
           \/ Sweep(p) \/ EndCooldown(p)
           \/ \E status \in OperatorStatuses : SetStatus(p, status)
    \/ NextDay

Next ==
    \/ \E s \in Sessions : Begin(s) \/ Step(s) \/ Prepare(s) \/ Save(s) \/ RollBack(s)
    \/ Else

Spec == Init /\ [][Next]_vars

\* PostgreSQL grants row locks and ends a deadlock, the pool grants connections or
\* returns an error, and the executor runs the transaction on.
FairSpec == Spec /\ \A s \in Sessions : WF_vars(Step(s))

---------------------------------------------------------------------------
(* Properties.                                                             *)

\* An account is the sum of its immutable history: its Account XP of the grants since
\* the last Rebirth, its Activity XP of every grant, spend and loss, its wallet of its
\* rows of the ledger.  Nothing is granted or spent twice when an operation is entered
\* again, which has one entry under a mutation key, and nothing is lost between two
\* transactions (progression_events, ledger_transactions).
HistoryReconciles == \A p \in Persons : Reconciles(db[p])

\* The level rewards paid are those of the levels the account has climbed in this life
\* and in each one before it, however the grants were cut: no level is paid twice or
\* passed over (project_account_xp_grant).
RewardsFollowLevels == \A p \in Persons : RewardsAreDue(db[p])

\* A Rebirth happens to an active account at the cap, one at a time, and takes the
\* Account XP and nothing else, though its eligibility was read without a lock and
\* another Rebirth may have come first (ProgressionService::rebirth).
RebirthFromCap ==
    [][\A p \in Persons :
           db'[p].rebirths # db[p].rebirths =>
               /\ IsActive(db[p]) /\ AtCap(db[p])
               /\ db'[p].rebirths = db[p].rebirths + 1
               /\ db'[p].xp = 0
               /\ db'[p].activity = db[p].activity /\ db'[p].wallet = db[p].wallet]_vars

\* The days that had come when a Rebirth was asked for have been paid at the growth
\* before it; a day that comes while it runs may be paid at the growth after it
\* (rebirth's accrue_interest).
DaysPaidBefore == \A p \in Persons : DaysArePaid(db[p])

\* Whoever asks again under a key is refused or told what the first caller was told.
RepliesAgree ==
    \A a \in told, b \in told : a.key = b.key => a = b

\* However many requests register a person at once, there is one player with one
\* starter loadout, and all of them are told of it (register_player).
OneLoadout ==
    /\ \A p \in Persons :
           Cardinality(db[p].loadouts) = IF db[p].status = "NONE" THEN 0 ELSE 1
    /\ \A t \in told :
           t.of.kind = "REGISTER" => t.receipt.loadouts = db[t.of.person].loadouts

\* Terms are accepted while they are the current ones, though a new version may be
\* installed at any time (register_player's FOR SHARE).
AcceptedWasCurrent ==
    [][\A p \in Persons :
           db'[p].accepted \subseteq db[p].accepted \cup {terms.current}]_vars

\* The current terms never go back to a lower version (ensure_tos_document).
TermsNeverBack ==
    [][terms.current # None => terms'.current >= terms.current]_vars

\* Every request ends, whatever rows and connections it waits for.
EveryRequestEnds ==
    \A s \in Sessions : tx[s].phase # "IDLE" ~> tx[s].phase = "IDLE"
=============================================================================
