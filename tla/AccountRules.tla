------------------------------ MODULE AccountRules ------------------------------
(***************************************************************************)
(* A player's account rows and what the progression and wallet primitives  *)
(* do to them.  Source: graphite-progression, wallet.rs and register_      *)
(* player.  The level curve is the code's own, with all of its 200 levels. *)
(*                                                                         *)
(* A row that an operation writes besides the account's own columns is an  *)
(* entry: of events (progression_events, unique by operation and mutation  *)
(* key) or of ledger (ledger_transactions, unique by operation).           *)
(***************************************************************************)
EXTENDS Integers, SequencesExt, FiniteSetsExt

CONSTANT MaxCatchupDays   \* days of interest one accrual settles

ASSUME CatchupAssumption == MaxCatchupDays \in Nat

Lesser(a, b) == IF a < b THEN a ELSE b

MaxLevel == 200

XpToNext(level) == ((5000 + 250 * level + level * level + 250) \div 500) * 10
LevelReward(level) == ((500 + 75 * level + 50) \div 100) * 100

\* The running sums over the levels, as sequences.
XpBefore[level \in 1 .. MaxLevel] ==
    IF level = 1 THEN 0 ELSE XpBefore[level - 1] + XpToNext(level - 1)
RewardsUpTo[level \in 1 .. MaxLevel] ==
    IF level = 1 THEN 0 ELSE RewardsUpTo[level - 1] + LevelReward(level)

Threshold == SubSeq(XpBefore, 1, MaxLevel)
CumulativeReward == SubSeq(RewardsUpTo, 1, MaxLevel)

XpCap == Threshold[MaxLevel]
LevelOf(xp) == Cardinality({level \in 1 .. MaxLevel : Threshold[level] <= xp})

\* No row, and the rows a registration creates.
Absent == [status |-> "NONE", cooling |-> FALSE, loadouts |-> {}, accepted |-> {}, xp |-> 0,
           activity |-> 0, wallet |-> 0, rebirths |-> 0, paid |-> <<>>,
           events |-> <<>>, ledger |-> {}]
Created(k, version, today) ==
    [Absent EXCEPT !.status = "ACTIVE", !.loadouts = {k}, !.accepted = {version},
                   !.paid = [day \in 1 .. today |-> 0]]

\* The columns of an account, and what every account has.
IsAccount(w) ==
    /\ w = [status |-> w.status, cooling |-> w.cooling, loadouts |-> w.loadouts,
            accepted |-> w.accepted, xp |-> w.xp, activity |-> w.activity,
            wallet |-> w.wallet, rebirths |-> w.rebirths, paid |-> w.paid,
            events |-> w.events, ledger |-> w.ledger]
    /\ w.status \in {"ACTIVE", "SOFT_FROZEN", "DELETED"} \/ w = Absent
    /\ w.status # "NONE" => \E k \in w.loadouts : w.loadouts = {k}

Exists(w) == w.status \in {"ACTIVE", "SOFT_FROZEN"}
IsActive(w) == w.status = "ACTIVE"
AtCap(w) == LevelOf(w.xp) = MaxLevel

EventsOf(w, k, key) == {n \in DOMAIN w.events : w.events[n].op = k /\ w.events[n].key = key}
LedgerOf(w, k) == {row \in w.ledger : row.op = k}

---------------------------------------------------------------------------
(* Account XP.                                                             *)

\* What is beyond the cap is not granted.
Granted(w, amount) == Lesser(amount, XpCap - w.xp)

\* Mistaken: a grant that crosses several levels pays for the last of them only.
RewardOfLastLevel(w, granted) ==
    LET level == LevelOf(w.xp + granted)
    IN  IF level > LevelOf(w.xp) THEN LevelReward(level) ELSE 0

Reward(w, granted) == CumulativeReward[LevelOf(w.xp + granted)] - CumulativeReward[LevelOf(w.xp)]

XpGranted(w, k, key, amount) ==
    LET granted == Granted(w, amount)
        reward == Reward(w, granted)
    IN  [w EXCEPT !.xp = @ + granted,
                  !.wallet = @ + reward,
                  !.ledger = @ \cup (IF reward > 0
                                     THEN {[op |-> k, kind |-> "LEVEL_REWARD", amount |-> reward]}
                                     ELSE {}),
                  !.events = Append(@, [op |-> k, key |-> key, kind |-> "ACCOUNT_XP",
                                        asked |-> amount, amount |-> granted])]

\* The Rebirth growth at which each day has been paid, the days due at the present one.
Accrued(w, today) ==
    LET days == Len(w.paid) + Lesser(Max({today - Len(w.paid), 0}), MaxCatchupDays)
    IN  [w EXCEPT !.paid = [day \in 1 .. days |-> IF day <= Len(w.paid) THEN w.paid[day]
                                                  ELSE w.rebirths]]

Reborn(w, k, asked) ==
    [w EXCEPT !.xp = 0, !.rebirths = @ + 1,
              !.events = Append(@, [op |-> k, key |-> "primary", kind |-> "REBIRTH",
                                    asked |-> asked, amount |-> w.xp])]

---------------------------------------------------------------------------
(* The legs of an operation that owns its progression and its spending:    *)
(* apply_account_xp_settlement, apply_activity_xp_mutation and             *)
(* apply_wallet_spend.                                                     *)

SettlementKey == "account_xp"

PlanLegs == [kind : {"XP", "SPEND"}, amount : Nat]
                \cup [kind : {"ACTIVITY"}, key : STRING, amount : Int]

\* What an earlier run of the leg has left.
Traces(w, k, leg) ==
    CASE leg.kind = "XP" -> EventsOf(w, k, SettlementKey)
      [] leg.kind = "ACTIVITY" -> EventsOf(w, k, leg.key)
      [] leg.kind = "SPEND" -> LedgerOf(w, k)

\* The stored receipt is of the same input.
IsReplay(w, k, leg) ==
    \A trace \in Traces(w, k, leg) :
        CASE leg.kind = "SPEND" -> trace.kind = "WALLET_SPEND" /\ trace.amount = - leg.amount
          [] leg.kind = "XP" -> w.events[trace].kind = "ACCOUNT_XP" /\ w.events[trace].asked = leg.amount
          [] OTHER -> w.events[trace].kind = "ACTIVITY_XP" /\ w.events[trace].asked = leg.amount

\* Spends and losses need the points, spends of money the money; a level reward
\* needs the operation's one row of the ledger.
MayRun(w, k, leg) ==
    /\ IsActive(w)
    /\ leg.kind = "XP" => LedgerOf(w, k) = {}
    /\ leg.kind = "ACTIVITY" => w.activity + leg.amount >= 0
    /\ leg.kind = "SPEND" => w.wallet >= leg.amount

Ran(w, k, leg) ==
    CASE leg.kind = "XP" -> XpGranted(w, k, SettlementKey, leg.amount)
      [] leg.kind = "ACTIVITY" ->
            [w EXCEPT !.activity = @ + leg.amount,
                      !.events = Append(@, [op |-> k, key |-> leg.key, kind |-> "ACTIVITY_XP",
                                            asked |-> leg.amount, amount |-> leg.amount])]
      [] leg.kind = "SPEND" ->
            [w EXCEPT !.wallet = @ - leg.amount,
                      !.ledger = @ \cup {[op |-> k, kind |-> "WALLET_SPEND",
                                          amount |-> - leg.amount]}]

\* What the lock_..._context functions check when they lock ahead of a leg.
MayPrepare(w, k, leg) ==
    /\ IsActive(w)
    /\ leg.kind = "XP" => Traces(w, k, leg) = {} /\ LedgerOf(w, k) = {}
    /\ leg.kind = "SPEND" => LedgerOf(w, k) = {}

---------------------------------------------------------------------------
(* What the rows of an account's history say of it.                        *)

Rebirths(w) == {n \in DOMAIN w.events : w.events[n].kind = "REBIRTH"}

\* The amounts of the account's entries of one kind since entry n.
Total(w, kind, n) ==
    LET since == {m \in DOMAIN w.events : m > n /\ w.events[m].kind = kind}
    IN  SumFunction([m \in since |-> w.events[m].amount])
LedgerTotal(rows) == SumFunction([row \in rows |-> row.amount])
LevelRewards(w) == {row \in w.ledger : row.kind = "LEVEL_REWARD"}

\* An operation has one entry under a mutation key.
EntriesAreUnique(w) ==
    \A m, n \in DOMAIN w.events :
        w.events[m].op = w.events[n].op /\ w.events[m].key = w.events[n].key => m = n

Reconciles(w) ==
    /\ EntriesAreUnique(w)
    /\ w.xp = Total(w, "ACCOUNT_XP", Max(Rebirths(w) \cup {0}))
    /\ w.activity = Total(w, "ACTIVITY_XP", 0)
    /\ w.rebirths = Cardinality(Rebirths(w))
    /\ w.wallet = LedgerTotal(w.ledger)

RewardsAreDue(w) ==
    LedgerTotal(LevelRewards(w)) =
        CumulativeReward[LevelOf(w.xp)] + w.rebirths * CumulativeReward[MaxLevel]

DaysArePaid(w) ==
    \A n \in Rebirths(w) :
        \A day \in 1 .. w.events[n].asked :
            /\ day \in DOMAIN w.paid
            /\ w.paid[day] < Cardinality({m \in Rebirths(w) : m <= n})

\* The columns and entries an account may have: amounts are numbers, the experience
\* keeps to the cap, and no day is paid at a growth that has not been reached.
IsHistory(w) ==
    /\ w.xp \in 0 .. XpCap
    /\ w.events \in Seq({w.events[n] : n \in DOMAIN w.events})
    /\ \A n \in DOMAIN w.events : w.events[n].amount \in Int /\ w.events[n].asked \in Int
    /\ IsFiniteSet(w.ledger)
    /\ \A row \in w.ledger : row.amount \in Int
    /\ w.paid \in Seq(0 .. w.rebirths)
=============================================================================
