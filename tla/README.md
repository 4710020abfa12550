# A TLA+ verification of Graphite

Graphite is a Discord economy game written in Rust on PostgreSQL. One process
(`apps/graphite-bot`) receives commands, runs each as one or a few database
transactions through library crates, and runs one background worker. There is no
in-memory state worth the name: PostgreSQL is authoritative, every transaction is
READ COMMITTED, and correctness rests on row locks, unique indexes, CHECK
constraints and the order of the statements. That is what these modules model.

## 1. Inventory

| Part (crate, file) | State | Operations | Interacts with |
|---|---|---|---|
| Registration and terms (`graphite-store/src/lib.rs`) | `players`, `player_balances`, `tos_versions`, `tos_acceptances`, `deletion_cooldowns`, starter items | `register_player`, `ensure_tos_document` | operations, items |
| Operations, ledger, outbox (schema 0001) | `operations`, `ledger_transactions`, `ledger_postings`, `outbox_events` | written by every settlement | all |
| Bank (`graphite-economy/src/{bank,fees}.rs`) | `player_balances`, `bank_lots`, `bank_withdrawals` | `deposit`, `withdraw`, `snapshot` | interest, ledger |
| Bank interest (`graphite-economy/src/interest.rs`) | `bank_interest_state`, lots, balances | `accrue_interest`, `accrue_due_interest_batch` | commands (refresh), worker |
| Wallet spends (`graphite-economy/src/wallet.rs`) | `player_balances`, ledger | prelocked context, `apply_wallet_spend` | repair, unbind, enchant, upgrade |
| Progression (`graphite-progression`) | `player_progression`, milestones, XP events | `grant_account_xp`, `rebirth`, Account-XP and Activity-XP settlement | interest (rebirth count), ledger |
| Items (`graphite-items/src/lib.rs`) | `item_instances`, `item_stacks`, `equipment_slots`, `pending_asset_deliveries` | equip, unequip, delivery, claim, consume, loadout guard | services |
| Services (`graphite-services`) | service jobs, reservations, fishing operation and casts, enchant rows, SoulBind rows | smelting, reservation, repair, enchant apply/remove, +N, SoulBind unbind, fishing cast | items, wallet, progression |
| Fishing (`graphite-services/src/fishing_*`) | `fishing_operations`, casts, baits, area unlocks, rod durability | `commit_supported_manual_fishing_cast_request_v1`, its eleven routes and terminals, bait selection, catch claims | items, progression, operations |
| Policies (`graphite-services`: smelting, repair, upgrade cost, mining, forge, appraisal) | none | pure functions of rows and seeds | their callers, of which many are not written yet |
| Content (`graphite-content`) | item definition registry and history | load and pin registry | items |
| Bot shell (`apps/graphite-bot`) | none | command routing, interest refresh, interest worker | all |

What is hard in this code, and what each part must get right:

* **Idempotency under concurrency.** A command carries an external request key.
  Delivered twice, to two tasks, it must settle once and answer both with the same
  receipt; with another payload it must be refused.
* **Read, compute, write back.** Handlers read a row under `FOR UPDATE`, compute in
  Rust, and write absolute values. A missing lock is a lost update.
* **Several transactions per command.** Interest is brought up to date in a
  transaction of its own before the command's; days may change in between.
* **Whole settlements.** Balances, lots, ledger, operation and outbox commit
  together; a failure at any statement leaves nothing.
* **Stale reads before a lock.** `now()` and the UTC day are those of the moment the
  transaction began, not of the moment the rows were locked.
* **Integer arithmetic.** Fee bands, one rounding, Q32 interest with a remainder and
  a largest-remainder split over lots.
* **Lock order and the connection pool.** operation, player, balance, progression,
  items; and one place that takes a second connection while holding the first.
* **Many settlements under one operation.** A cast rolls, delivers, wears its rod and
  earns experience in one transaction; any of it may be entered again later, and a
  terminal written apart from the routes checks what they staged.
* **Rows that drop out.** A statement that waited for a row which then stopped
  matching returns no row, which a caller may mistake for "there is none".

`PROJECT.json` lists every part with its status, and the hazards at their lines.

## 2. Modules

| Module | What it is |
|---|---|
| `BankRules` | the arithmetic: FIFO debits, withdrawal fee, daily interest, lot shares |
| `BankAccounts` | the rows of one player and what a deposit, a withdrawal and an accrual do to them |
| `BankSerial` | the promise: one request at a time, each key at most once |
| `Bank` | the code: sessions, transactions, locks, replay, rollback, aborts |
| `BankMC` | instances for TLC |
| `BankAlgorithms` | the formulas against the loops of the code |
| `BankFreezes` | Bank with a record of frozen days (a finding) |
| `InterestWorker` | the worker's scans and batches over all due players |
| `EquipmentRules` | what may be worn, embedded, unlocked, moved, bound and unbound, and the fee |
| `Equipment` | the handlers and writers over items, slots, enchant rows and SoulBind rows |
| `StorageRules` | what one delivery, consumption, claim, reservation or runtime does to a player's rows |
| `Storage` | transactions that run sequences of these legs under one operation |
| `FishingRules` | areas, rods and baits; what the eleven routes stage; what the eleven terminals check |
| `FishingSerial` | the promise: one cast at a time, each key at most once |
| `FishingCast` | the code: casts by concurrent transactions, saved half-way, entered again, refused |
| `AccountRules` | the 200-level curve, rewards, grants, Rebirth, spends, and the replay of each |
| `Accounts` | registration, terms, progression and Rebirth by transactions of one connection pool |
| `Smelting` | one smelting job from its preview to the plan of its end |
| `Costs` | Activity levels, the price of a +N attempt, the price of a repair |
| `BankMC`, `EquipmentMC`, `StorageMC`, `FishingMC`, `AccountsMC` | instances for TLC |
| `PartsMC` | one instance of `BankAlgorithms`, `Smelting`, `Costs` and `InterestWorker`, which share no rows |
| `SumTheorems` | lemmas: sums over finite sets, induction and recursion, enumerations in an order, division |
| `BankRulesProofs` | the arithmetic of the Bank, for all lots and amounts |
| `BankProofs`, `EquipmentProofs`, `StorageProofs`, `AccountsProofs`, `FishingProofs` | each component: locks and copies first, then what its rows add up to |
| `PartsProofs` | the loops of `BankAlgorithms`, `Smelting` and `Costs` |

`Bank` EXTENDS `BankAccounts`, which EXTENDS `BankRules`; `Bank` INSTANCEs
`BankSerial`, whose parameters are the effects of `BankAccounts`. `Equipment` EXTENDS
`EquipmentRules`, and `Storage` EXTENDS `StorageRules`. `FishingRules` EXTENDS
`StorageRules`, because a cast delivers its catch by Storage's legs; `FishingCast` and
`FishingSerial` EXTEND `FishingRules`, and `FishingCast` INSTANCEs `FishingSerial`.

### How Bank corresponds to the code

A *session* is one Tokio task. `pc` names the statement it waits at:

| Action | Code |
|---|---|
| `Submit`, `Sweep` | a bank command arrives (`bank_reply`), or the worker takes a due player |
| `BeginInterest` | `pool.begin()` and `utc_today` |
| `LockInterestPlayer`, `InterestPlayerNotFound` | `lock_interest_player_by_*`, FOR UPDATE of player, balance and interest state |
| `NothingDue`, `Accrue`, `AccrualFails` | `accrue_locked_player` and commit, or an error |
| `RejectAmount`, `BeginOperation` | validation, `pool.begin()` |
| `NoOperationYet`, `InsertOperation`, `AnswerFromRow` | `resolve_operation`: select, insert ON CONFLICT DO NOTHING, select again |
| `LockPlayer`, `PlayerNotFound`, `Settle`, `Refuse` | the body of `deposit` and `withdraw` to commit, or an error |
| `Abort` | any database error, lost connection or crash: the transaction rolls back |
| `SetStatus`, `Tick` | an operator's UPDATE; the database clock |

A transaction's writes become visible at its commit, so they are one step; what
other sessions can notice earlier is the row locks (`playerLock`) and the
uncommitted row in the unique index of request keys (`opLock`), and these are taken
at their own steps. `seen` holds the columns read under the lock and is what the
session computes on, so that a missing lock would show. `start` is the
transaction's `now()`. A lost answer after a commit is a `Submit` of the same key
again. `PENDING` operation rows never outlive their transaction, which is why
`operations` holds committed rows only.

### How Equipment corresponds to the code

Here the rows are many and each handler locks several of them, in an order of its
own, so a lock is a tuple that names a row (`<<"player", p>>`, `<<"item", i>>`, ...)
and `Stages` lists, for each kind of request, the rows its statements lock, in order.
A session waits at one stage (`Lock`), and what the handler reads into locals there
is kept in `view`: the step that settles computes on those locals and never on the
tables as they are by then.

| Action | Code |
|---|---|
| `Begin` | a command arrives (equip, unequip, unbind) or an owning transaction begins a writer |
| `Lock` | the next SELECT ... FOR UPDATE of the handler is granted and its columns read |
| `AnswerFromRow` | `resolve_operation` or the unbind's replay finds the committed row |
| `Equip`, `EquipAgain`, `Unequip`, `Apply`, `Remove`, `UnlockSlot`, `MoveLevel`, `Bind`, `Unbind` | validation passes; every write of the handler, and commit |
| `Refuse` | validation fails: the error returns and the transaction rolls back |
| `Abort` | any other error, a lost connection, a crash |
| `SetStatus`, `Tick` | an operator's UPDATE; the database clock |

Three things deserve a word. A lock on "the enchant rows of an item" covers the rows
that exist, as FOR UPDATE does: it does not stop an insert. The code returns early at
some failed checks; the model refuses at the end, and an early return is what `Abort`
also allows, since both leave nothing behind. The enchant, Slot Orb and +N writers
have no caller in the repository that charges for them, and are transactions of
their own here; the caller's price and luck are the nondeterminism of the request.

### How Storage corresponds to the code

The primitives of Storage (`apply_stack_delivery_mutation`,
`apply_stack_consumption_mutation`, `apply_unique_item_bag_delivery_mutation`,
`deliver_fishing_fish_instance_v1`, the two claims, `reserve_service_job_stacks`,
`attach_smelting_job_runtime`) take a transaction that their caller owns; the delivery
command owns its own. A caller runs several of them, each under its mutation key, so
a session here has a *plan*: a sequence of legs for one operation. All of them lock
the operation row first and the player row next, so what they do afterwards is done
on `work`, a copy of the rows taken when the player row is granted; a commit makes
the copy everyone's. That this is sound is a theorem (`Invariance` of `StorageProofs`, the part `Copied`).

| Action | Code |
|---|---|
| `Begin` | the caller opens a transaction for an operation; `began` is its `now()` |
| `LockOperation`, `LockPlayer` | the first two SELECT ... FOR UPDATE of every primitive |
| `DeliverStack` | stack delivery, and the command: all of it fits or all of it is owed |
| `ConsumeStack` | stack consumption |
| `DeliverUnique`, `DeliverFish` | an item is created in its bag or in TEMP_OVERFLOW with a pending row |
| `ClaimItems`, `ClaimCatches` | pending rows in order of `created_at, id`, up to the first that does not fit |
| `Reserve`, `Attach` | a job takes its stacks; a SMELT job gets its runtime |
| `Replay` | the leg's row is found with the same input |
| `Refuse` | another input, an ended operation, a frozen account, or the leg's own reason |
| `Finish`, `Answer`, `Save`, `RollBack` | commit with the operation; a committed operation is answered; commit with the operation left PENDING; rollback |
| `TakeOut`, `SetStatus` | a fish is sold or a book used, which no code in the repository does yet; an operator's UPDATE |

The log of a record `w` stands for `asset_events` by mutation key, `service_jobs` by
operation and `smelting_job_runtimes` by job. A cast's book and treasure are legs of
kind UNIQUE and DELIVER. Stacks that overflowed (`owed`) are not claimed by any code
in the repository, and the two claims have no caller outside the tests; they are
modelled because they are public and share the rows. Nothing in the code raises a bag
level, so capacities are constants.

### How Fishing corresponds to the code

`FishingCast` is one player's casts. A request has a key and an area. What the draws
of an operation give is its *root*: for each question the routes ask (which branch,
does the line hold, how many fish) the answer under the modifiers that can change it.
The draws are functions of the operation's `rng_root` and its context, so the root is
chosen once, when the row is inserted, and pinned.

| Action | Code |
|---|---|
| `Begin`, `Resolve` | `resolve_manual_fishing_operation_v1`: the row of the key is found or inserted, and held |
| `Answer` | a COMMITTED row's typed receipt answers |
| `Preflight` | player row, area and rod are locked; a first visit opens the area |
| `SettleBaits` | the active baits are consumed, or the settlement of an earlier entry is replayed |
| `Select` | the route is chosen from the locked rod and baits, and its outcome drawn |
| `Deliver`, `Progress`, `Wear` | fish, goods or books, experience, durability, in the order of the owner |
| `Commit` | the route's terminal checks the receipt against what was staged, and commits |
| `Refuse`, `RollBack` | an error in any of the above; a lost connection |
| `SaveRow`, `SaveBaits` | a caller commits the row alone, or with its settled baits, and casts later |
| `Equip`, `ReplaceBaits`, `ClaimCatches`, `TakeOut`, `SetStatus`, `Level`, `Rebirth` | the player's other commands, each with the player row locked |

`FishingRules` keeps routes and terminals apart, as the code does: `OutcomeOf` and
`ReceiptOf` are translated from `fishing_cast_owner.rs`, `Checks` from
`fishing_terminal.rs`, and neither uses the other's definitions. The preflight, the
unlock and the baits all write under the player row, so they are done on `work` as in
Storage. Lure X has previews and a staging function but no terminal in the code: a rod
with it is a loadout no route supports.

### How Accounts corresponds to the code

A session carries a request: REGISTER, TERMS (`ensure_tos_document`), GRANT, REBIRTH,
or OWNED, an operation whose owner runs legs of experience and money.

| Action | Code |
|---|---|
| `Begin`, `Connect` | the request waits for one of the pool's connections |
| `Answer`, `Open` | the operation row answers, is entered again, or is inserted and held |
| `ReadTerms`, `Agree`, `Check` | the row of the current terms, FOR SHARE by a registration and FOR UPDATE by an installation |
| `FindVersion`, `MissVersion`, `InsertVersion` | the installation locks the row of its own version, or finds none and inserts it |
| `Replace`, `Install` | it waits for the row that is current by then, takes it out of force and commits |
| `Return`, `MissPlayer`, `Enrol` | `register_player` finds the player, or does not and inserts him with balance and starter items |
| `Grant` | `grant_account_xp` with its level rewards |
| `Eligible`, `BeginRefresh`, `Refresh`, `Rebirth` | eligibility without a lock; `accrue_interest` on a second connection; the check again under the lock |
| `Prepare`, `Run`, `RunAgain` | prelocked contexts and settlements under an owning operation, with their replay |
| `Save`, `Commit`, `Refuse`, `RollBack` | the ends of a transaction; `Refuse` includes the pool's time-out and PostgreSQL's deadlock detector |
| `Sweep`, `SetStatus`, `EndCooldown`, `NextDay` | the worker, an operator, the clock |

Two facts of PostgreSQL matter here and are part of the model. At READ COMMITTED a
locking read takes the rows of its snapshot, and one that it waited for and that no
longer matches drops out of the result: `Returned`. And a unique index makes the
second of two inserts wait and fail: `Unclaimed`, `Unrivalled`, the failure at `UNNAMED`.
The rows of the terms a transaction has locked or inserted are its `held`; whom each
statement waits for is `WaitsFor`, and a circle of such waits is `Deadlocked`. The rows of
a person are one record, whose `events` are a sequence and whose `ledger` is a set, so that
what an operation has left behind (`Traces`) decides its replay, as the code's lookups do,
and a leg that ran twice would leave two entries. Accounts knows SOFT_FROZEN only; what
accrual does under HARD_FROZEN is Bank's.

### Worker, Smelting and Costs

`InterestWorker` is the loop of `spawn_bank_interest_worker`: `Wake`, `Scan` (the due
players, the longest due first, up to the batch size), `AccrueNext` (one transaction;
an error ends the pass) and `EndBatch`; beside it commands, midnights, deletions and
players whose accrual has begun to fail. What an accrual does to the rows is Bank's.
`Smelting` is the arithmetic of one job over time, with freezes that come and go; the
rows it reserves are Storage's. `Costs` has one variable, a number that is tried as
points, as appraisal and as wear.

## 3. Runs

| Run | Question | Bounds |
|---|---|---|
| `bank_safety` | one receipt per key; lots, balances and ledger reconcile; no day paid twice; oldest lots first | 2 sessions, 3 keys: two lots and a withdrawal that spans them, a hard freeze that comes and goes, 2 days caught up one at a time, a balance at its limit |
| `bank_tasks` | types; `Bank` implements `BankSerial`; every task ends | 1 key, 2 sessions, HARD_FROZEN and DELETED, fairness, no symmetry |
| `bank_freezes` | violation: the README promises hard-freeze *pause* semantics | 1 session, clock to 3 |
| `equipment_loadout` | worn armor never conflicts; loadout and item locations agree; every transaction ends | 2 sessions, 2 keys, a chest and two helmets, excluding books, fairness |
| `equipment_structure` | an item is always sound; the cooldown is kept; an unbinding pays for the item as unbound | 2 sessions on one item, families scaled to 2 and 3 slots, a freeze, clock to 2 |
| `storage` | no bag over capacity; stacks and items agree with the audit rows; order of claims; every transaction ends | 2 sessions, 5 operations (fill, cast, claim, smelt, gift), 3 transactions, 3 slots, 4 grams, fairness |
| `fishing_routes` | every route: all of a cast or none, wear accounted for, and its terminal accepts what it stages | 14 rods, 7 roots, 5 bait selections, 1 session, 2 transactions |
| `fishing_serial` | the transactions implement `FishingSerial`; baits balance; areas stay open | 2 sessions, 2 keys, 3 transactions, two rods, symmetry |
| `accounts` | experience, rewards and spends agree with the history, which has one entry for each leg of an operation; days are paid before a Rebirth; one loadout; Rebirth from the cap; accepted terms were current | 2 sessions, 2 keys, 3 requests, pool of 2, 2 days, one person absent, capped or one point below the cap |
| `accounts_waits` | every request ends though Rebirth needs a second connection and installations of terms can wait for each other | 3 sessions, pool of 2, terms 1 to 3 of which 1 is installed, so that both the waits for connections and the circle of two installations occur, fairness |
| `terms_regression` | violation: the terms never move backwards | 2 sessions, 3 versions |
| `parts` | formulas equal loops; the end of a smelting job balances; levels and prices are exact; the worker reaches everybody | lots up to 3, amounts around each band, jobs of up to 9 units, numbers to 400, 3 players in batches of 2, fairness |

Why the bounds suffice. Rows of different players are never locked by one
transaction, so one player carries all contention; two sessions exercise every pair
of steps, and three would only queue on the same locks, except for the connection
pool, where `accounts_waits` has one session more than connections. One key gives
retry and conflict; three keys give two lots and a withdrawal across them.
`DayLength = 1` makes each tick a day boundary. `Q32One = 1` and `2` scale the
fixed-point unit down; TLC's integers have 32 bits. `MaxTime`, `MaxDay` and `LastDay`
bound clocks, `MaxMoney` the width of the columns, `MaxBegun` the transactions begun,
`MaxUpgrade` the level of an item; `MaxRebirths`, `MaxUnits`, `MaxFuel`, `MaxNow`,
`MaxTried` and `MaxLots` speak for themselves.

Storage's bags of three slots and four grams are filled by one plan and overflowed by
the next; three transactions leave room for one, a retry of it and a third that claims
or competes. Fishing's fourteen rods include one for every route, one at each limit of
a level, a worn-out and a broken one, one with two enchants and one with Lure, which no
route supports; the seven roots reach every outcome of every route. The catalog's slot
families (up to ten) are scaled to two and three so that every +N threshold, and an
item at its limit, occur within `MaxUpgrade`.

Deadlock is not checked where `MaxBegun`, or a number that has reached its bound, may
really stop the system; that no transaction waits for ever is a liveness property of
its own (`EveryTaskEnds`, `EveryTransactionEnds`, `EveryRequestEnds`).

**Fairness.** A Tokio task that can run does run, and PostgreSQL grants a free row lock.

* Bank: `WF(Step(s))`, and `SF` of the three lock steps, because PostgreSQL queues the
  waiters of a row, so a row released again and again is granted in the end.
* Equipment: the same, `SF` of `Lock` and `WF` of `Settle`.
* Storage: `WF` of `Step` only. The number of transactions is bounded, so no row is
  taken again for ever.
* Accounts: `WF` of `Step`, which includes the pool's time-out and the end PostgreSQL
  makes of a deadlock. Without the time-out as many Rebirths as there are connections
  would wait for one another for ever; with it one of them is refused. The code relies on
  sqlx's `acquire_timeout` for that, and on `deadlock_timeout` for two installations of
  terms (section 5).
* Worker: `WF` of `Work`: the interval ticks, and a transaction of the worker ends.

Nothing is assumed of aborts, operators, new work, `Prepare`, `Save` or of players whose
accrual fails.

## 4. Proofs

Everything proved here holds for any number of sessions, keys, players and
transactions and every set of requests, under the named ASSUMEs and with PostgreSQL's
row locks and atomic commit as modelled. The pattern is the same in all five
components: an inductive invariant says who holds which row, and that what a session
works on is what is committed while it holds the row; safety is read off it; what a
step may not do is read off a lemma about the committed rows. On top of it, a second
invariant accounts for what the rows add up to.

**Sums and recursion.** The library's induction principles take an operator, which
the provers cannot instantiate. A set of counterexamples is a value, though, and
`SumTheorems` argues with the smallest one: `SmallestElement` and `NatSetInduction` for
numbers, a smallest subset for finite sets. From these it derives what a
sum over a set does when an element joins, leaves or changes, that a sum does not
depend on how its indices are named (`SumRenamed`), that a set whose members are
ordered has exactly one enumeration in that order (`Listing`), and what a quotient does
under multiples. A recursive function is treated alike: `Recursion` shows that one with
the equations exists, and whatever satisfies them is the function, by the smallest index
at which the two differ.

**Assumptions.** Money, days, slots and prices are natural numbers and the sets of definitions and enchants are
finite (`FiniteDefs`, `EnchantsAssumption`); a plan of Storage names legs
and mutation keys of its operation (`PlansAssumption`), the first stacks fit in the bag
(`InitialFits`), accounts start within their limits and with the rewards of their level
(`StartsAssumption`), the tables of lots are of natural numbers (`TriedAssumption`), and
the numbers that bound a run are numbers (`BoundAssumption`, `DaysAssumption`,
`CatchupAssumption`). None limits how many there are of anything. TLC evaluates all of
them in the runs.

`BankProofs`:

* `Invariance`, `TypeCorrect`, `LocksProtect`: the inductive invariant `IInv` is
  `TypeOK`, what each point of a session's program may rely on (`SessionsInOrder`: a
  start in the past, a request key and a validated amount once past validation, a
  player not deleted), and the lock invariant. None is inductive alone: that a write
  is not stale needs the lock, that the lock is exclusive needs `NoLockLeak`.
* `NoDeadlock`: from `NoLockLeak`, no session waits for one that waits for one that
  waits: the holder of a player's rows waits for nobody.
* `Implementation`: `Spec => Serial!Spec`. Under `IInv` the account a session computes
  on *is* the committed one (`WorkingIsCommitted`), so `Settle` and `Accrue` are the
  abstract steps and all others stutter.
* `Permanence`, `FreezeHolds`, `CursorAdvances`, `NoDayPaidTwice`, `CommitsWhole`: all
  through `StepImplements`, from the abstract step.
* `ReceiptsAgree`: replies, with committed rows being permanent.
* `LotsAgree`, `DebitsFifo`: on each player's lots, through `StepImplements` from the
  three abstract steps: a deposit appends a lot, a withdrawal debits by `FifoTake`, an
  accrual credits the days' shares. `LotsReconcile` is inductive together with `IInv`.
* `LedgerAgrees`: wallet and bank balance are sums over the player's ledger rows. An
  entry is counted once because the row of its operation is new (`SettledTogether` for
  keys, `InterestBehindCursor` for days), and interest posted is what the balance gained
  only because the lots reconcile; so the invariant is all of them together.

`BankRulesProofs` is about the arithmetic alone:

* `DebitExact`: what the lots lose is the amount, whatever the lots are. `FifoTake` is a
  formula of the principal ahead of a lot; the proof sums it in the order of age.
* `InterestExact`, `ShareNearQuota`, `CatchUpPays`: the units that rounding leaves over are as
  many as the fractions add up to, fewer than the lots, so each goes to a lot of its
  own; no share is a whole unit off its quota; and day after day of a catch-up the lots
  still sum to the balance.
* `FeeWithin`: the fee is at least one and less than the amount, for every table of
  lots, balance and history; the CHECK `fee_amount < gross_amount` never fires.
* `SplittingIsFree`: the rolling surcharge is additive, for all amounts.

`EquipmentProofs`:

* `EquipmentInvariant`: a row lock has one session (`Exclusive`; enchant rows are the
  exception, since FOR UPDATE locks only the rows that exist), the locks a session has
  are of its request and were taken in the handler's order (`InOrder`), and what it
  read is what is there (`Current`). For the item it writes this is equality. For the
  other worn items it is weaker, and has to be: a removal locks the item and not the
  player, so their enchants may go after they were read, but none may come, because
  whoever adds one holds the player row. Excluded pairs can then only vanish.
* `LoadoutStaysMatched`, `NoConflictIsWorn`, `ItemsStaySound`: parts of the same
  invariant, one lemma for each handler. The two that carry the argument are
  `EquipKeeps` (the armor worn afterwards is within what was validated) and
  `ApplyKeeps` (a pair that would come about lies on the item, where the item's own
  check excludes it, or across two, where the check against the others does).
* `CooldownIsKept`, `UnbindPaysItsFee`: through `SoulMoves`, which says that a SoulBind
  changes by a bind or an unbind of that item that decided on the row as it is.
* `LoadoutChangesWithRecord`, `FrozenLoadoutStands`: from the invariant.
* `NoDeadlock`: who finds no free row waits for somebody, and no wait closes a cycle. An
  order of the rows would not show it: an equip takes the enchants of what is worn before
  the item that has to go, and a removal an item before its enchants. The invariant `Mine`
  says whose the rows are: behind a player row are only rows of that player, without one
  only those of the one item of the request, and an equip that has enchants without their
  item does not displace that item. So a session with its player row waits only for a
  writer of one item that waits for nobody (`WriterGoes`), and any other wait goes to a
  session that has locked more (`Higher`): a chain has three waits at most.

`StorageProofs`:

* `Invariance`: `Typed` (rows are of their shape, and `Linked`: each open pending row
  has an item in overflow and each such item has one), `Exclusive` (one session per
  operation row and per player row) and `Copied` (the copy of the session that has the
  player differs from the committed rows only in the log of its own operation, and not
  at all if that operation has ended or the account is frozen). `Linked` alone is not
  inductive: a commit replaces all rows by a copy, which is harmless only because
  nobody else could change them, which is `Exclusive`. The lemmas `StackLeg`,
  `MintLeg` and `ClaimLeg` show each leg keeps `Linked`.
* `ItemsAreLinked`, `OverflowHasOneOwner`: from the invariant.
* `CommittedStays`, `FrozenStays`: action properties, through `DbSteps`, which says
  what a step can do to the committed rows.
* `RowsAccounted`: the second invariant. The stacks are what the log put in less what it
  took out (`Balanced`), what is in the bags fits (`Fits`), and every item and pending
  row has its event and the other way round (`Booked`), of the committed rows and of
  each copy at work. That a command's owed stacks are counted once needs that its
  operation has not ended (`CommandsEnded`). From it `StacksAgree`, `BagsFit` and
  `EventsAreKept`.
* `ClaimsInOrder`: a claim takes the pending rows up to the first that does not fit. A
  copy may hold several claims, so the invariant `Orderly` compares each copy with the
  committed rows: none of its claims has passed an earlier row.

`AccountsProofs`:

* `LocksHold`: the invariant is about three locks. An operation row and a player row
  have one session each, and the version a registration has agreed to is current for as
  long as it shares its row.
* `OneAnswer`: all receipts are copies of committed rows, and these are permanent.
* `OnePlayer`: needs the unique index and the player row: a second registration of a
  person either finds the row or fails at the insert.
* `AcceptsCurrentTerms`: a registration that has agreed shares the row of the terms
  until it commits, and no installation gets past it.
* `RebirthsFromCap`: the check under the lock is what counts, since a copy is what is
  committed; the eligibility that was read without a lock plays no part in the proof.
* `OnlyLateDeadlock`: who waits for nobody finds its next row free, and where sessions
  wait for each other all around, one is an installation that was not given the current
  row (`Late`), and no session in the circle is anything but an installation. The rows of the
  terms have one session or registrations that share them (`TermsHeld`); an installation
  that is not late, and every registration that has agreed, has the current row among
  its own. So who is not late and has such a row waits only for somebody who is late, and
  the other waits go from reading the terms, to having agreed, to the operation row, to
  the player row (`Higher`). A chain without anybody late has four waits at most.
  Registrations that are waited for wait for no installation (`PastTerms`), which leaves
  installations in the circle. Waits for a connection are left out; they would close
  others, which only the time-out of the pool ends.
* `HistoriesHold`: every account, committed or at work, is the sum of its history: its
  experience that of the grants since the last Rebirth, its wallet that of its ledger, its
  rewards those of the levels climbed in this life and all of them for each life
  before. No operation has two entries under one mutation key: a leg looks for its own
  first, and a grant or a Rebirth has a key under which nothing was committed. From it `AccountsReconcile` and `RewardsAreOfLevels`.
* `DaysBeforeRebirths`: the days due before a Rebirth are paid at the growth before it,
  on the hypothesis `MaxDay <= MaxCatchupDays`, that no account is more than 366 days
  behind. It is needed: an accrual settles 366 days at most, and the code refreshes
  once (section 5).

`FishingProofs`:

* `RowsHeld`: exclusive rows; a copy differs from the committed rows only by what its
  operation has staged; rows keep their request and root; no area is lost between
  `db` and `work`; rods stay within their durability; settled baits keep their plan.
* `OneReceipt`, `RootsStand`, `FrozenStands`, `AreasStayOpen`: from it.
* `TerminalAccepts`: for each route, `RouteDraws`, `RouteDecides`, `RouteReceipts` and
  `RouteChecks` follow an outcome from the draws to the terminal; the cases of the
  bait plan are what couples them. It is the theorem the two long files of the code
  most need, since nothing in their types keeps them in step.
* `CastsAreWhole`, `WearIsAccounted`: a second invariant, `Books`, keeps one account
  for each key: the legs staged in a copy and those still to be staged are together the
  legs of the drawn outcome, a PENDING row has none, and the durability of a rod is its
  first less the wear in the log.
* `BaitsAccounted`: a bait stack is what was delivered less one for each operation that
  settled it, in the committed rows and in each copy.
* `CastsAreSerial`: `Spec => ImplementsSerial`. The cast of `FishingSerial` is one step:
  enter the area, settle the baits, choose the route, deliver leg by leg. The code makes
  these over many steps, so the invariant `Serving` says that a session's copy is, at each
  point, what its own steps so far make of the *committed* rows; when it commits, the
  abstract step makes the same of them. What was settled and saved by an earlier entry is
  found by both.

`PartsProofs`:

* `WithdrawalsExact`, `AllocationsExact`: the loops of `load_fifo_lot_debits` and
  `allocate_interest_to_lots` give what the formulas of `BankRules` say, in every table
  of lots. The rows in the order of SQL or of the sort are the one enumeration in that
  order (`Listing`), so the n-th row has exactly the rows before it ahead of it.
* `JobInvHolds`: of a smelting job, `now = started + paused + worked`, its reservation
  covers its units, and a plan balances. `EveryEndBalances` and `WorkCounts` follow, for
  every size of a job, unit time and number of freezes.
* `PiecesNeverSave`: a repair in two pieces takes no less material and saves at most a
  hundred, for every item, appraisal and wear; `RepairsInPieces` is the case of the run.
* `LevelReached`, `LevelsExact`: for every number of points, the level that the search
  finds. Between two rounds of halving the level is within `low .. low + width`, which
  starts true because the doubling ends (`DoublingEnds`) and stays true because the
  total grows with the level across the seams of the three curves (`TotalGrows`).
* `ContinuationExact`, `PricesRise`, `UpgradeCostsExact`: the price of a +N attempt, for
  every appraisal and every level, where the run has three levels beyond the table. `Reads`
  says which number a sequence of digits makes; multiplication multiplies it, the carries
  included (`DigitsMultiply`), and a split at a digit is a division rounded half up
  (`DigitsRound`). Rounding keeps the order of fractions (`RoundingKeepsOrder`), so the
  prices rise with the level.

Proved but in no run, since the theorem says more: `SnapshotCurrent`,
`FrozenMoneyStays`, `CursorMonotone` of Bank; `OverflowLinked`, `OneOverflowOwner`,
`CommittedStands`, `FrozenKept` of Storage; `LoadoutChangesOnce` and
`FrozenLoadoutKept` of Equipment; `RepliesAgree` of Accounts and of Fishing;
`RootsPinned` and `FrozenKept` of Fishing.

Only model-checked:

* liveness (`EveryTaskEnds`, `EveryTransactionEnds`, `EveryRequestEnds`,
  `EverybodyCaughtUp`), which needs ENABLED;
* the two properties that are violated, of course.

## 5. Findings

* `HardFreezePauses` fails: the status at the time of accrual is applied to all days
  caught up, so an account that was hard frozen through whole days and thawed before
  the next accrual is paid for them. Freeze history is not kept.
* `TermsNeverBack` fails: of two installations at once, the one that waits for the row
  of the current terms is given no row when the other commits, skips the comparison
  that refuses to go back (`graphite-store/src/lib.rs:105`), and makes the lower
  version current.

Three things that are no disagreement with any text, but that a maintainer should know.
A player whose accrual fails holds up, for the worker, every player behind him
(`EverybodyCaughtUp` states exactly whom). And a Rebirth of a player with more than 366
overdue days refreshes only 366 of them before it changes the growth; the rest are
paid at the new growth. And two installations of terms can deadlock: while 3 is being
installed over 1, one installation of 5 waits for row 1, is given no row, and inserts 5;
another installation of 5 locks row 3 and waits for that insert (`lib.rs:134`); the first
then waits for row 3 (`lib.rs:143`). PostgreSQL ends one of them with an error, and a
deployment that starts with it would have to try again; without that end
`EveryRequestEnds` fails in `accounts_waits`.

## 6. Not modelled, and what is left

* *Fishing policies and rolls, mining policies, forge, odds and appraisal*: pure functions
  of seeds and catalogs over wide fixed-point numbers, most without a caller that keeps
  state. A cast sees its rolls as a choice of root.
* *Settlement of smelting and repair*: the code plans and prices them, and nothing
  settles them yet. Lure X is staged by nothing that a terminal would commit.
* *Content registry, identifiers, seeds, grammar of commands*: immutable or stateless.
* *Outbox*: rows are written with their settlement (Bank models them); nothing in the
  repository reads them.

Freedom from deadlock is proved within the components whose sessions wait for more than
one kind of row: Bank, Equipment and, but for installations of terms, Accounts. Storage
and the fishing cast take one operation row and then the one player row, so a chain of
waits there has two. Across components every handler takes its operation row, if it has
one, before the player row, and other rows of the player after that or, like the writers
of one item, alone; a handler added in another order would need these proofs again.

Left to do, most important first: one model in which all these handlers contend for the rows
of one player, in the place of that argument; the settlement of smelting jobs and repairs
when the code has one.
