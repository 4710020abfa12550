-------------------------------- MODULE Bank --------------------------------
(***************************************************************************)
(* The Bank as the bot runs it: Discord commands and the interest worker   *)
(* run concurrently, each as a sequence of PostgreSQL transactions at READ *)
(* COMMITTED with row locks.                                               *)
(*                                                                         *)
(* A session is one asynchronous task.  A bank command first brings        *)
(* interest up to date in a transaction of its own, then runs deposit or   *)
(* withdraw in a second one; the worker runs only the first.  A session    *)
(* holds row locks (FOR UPDATE, or an uncommitted insert into the unique   *)
(* index of request keys) until its transaction ends, and what it read     *)
(* under them is in seen.  Its writes appear at commit; until then an      *)
(* error, a lost connection or a crash takes all of them back.             *)
(*                                                                         *)
(* Source: crates/graphite-economy/src/{bank,interest}.rs, and the order   *)
(* of calls in apps/graphite-bot/src/main.rs.                              *)
(***************************************************************************)
EXTENDS BankAccounts

CONSTANTS Requests,       \* the requests players may send
          InitialWallet,
          Sessions,
          NoSession,
          NoKey,          \* the task of the worker has no request key
          OperatorStatuses,  \* the statuses an operator sets
          MaxTime         \* bound on the clock, for model checking

ASSUME RequestsAssumption == Requests \subseteq Request
ASSUME WalletAssumption == InitialWallet \in Money
ASSUME SessionAssumption == NoSession \notin Sessions
ASSUME KeyAssumption == NoKey \notin Keys
ASSUME StatusAssumption == OperatorStatuses \subseteq Statuses
ASSUME MaxTimeAssumption == MaxTime \in Nat

VARIABLES accounts, operations, ledger, outbox, now,  \* the database
          opLock,      \* the session that inserted an uncommitted key
          playerLock,  \* the session that locked a player's rows
          pc,          \* where each session is
          task,        \* the request it works on
          start,       \* now() of its transaction: the time it began
          seen,        \* the locked rows as it read them
          reply        \* its last answer, until it takes a new task

database == <<accounts, operations, ledger, outbox>>
locks == <<opLock, playerLock>>
vars == <<accounts, operations, ledger, outbox, now,
          opLock, playerLock, pc, task, start, seen, reply>>

Serial == INSTANCE BankSerial WITH
              accounts <- accounts, operations <- operations, ledger <- ledger,
              outbox <- outbox, now <- now

NoRow == Serial!NoRow
CommittedRow(r, receipt) == Serial!CommittedRow(r, receipt)

Interest(p) == [player |-> p, kind |-> "INTEREST", amount |-> 0]

View == [status : Statuses, wallet : Money, bank : Money, lastDay : Nat,
         remainder : 0 .. (InterestDenominator - 1)]
NoView == [status |-> "NONE"]
ViewOf(a) == [status |-> a.status, wallet |-> a.wallet, bank |-> a.bank,
              lastDay |-> a.lastDay, remainder |-> a.remainder]

Nothing == [outcome |-> "NONE"]
Failed == [outcome |-> "ERROR"]
Done == [outcome |-> "DONE"]
Answer(receipt) == [outcome |-> "RECEIPT", receipt |-> receipt]

PlayerOf(s) == task[s].request.player
KeyOf(s) == task[s].key
RequestOf(s) == task[s].request

\* The account a session computes on: the columns it read under lock, with the
\* lots and withdrawals it reads by later statements.
Working(s) ==
    LET a == accounts[PlayerOf(s)]
    IN  [status |-> seen[s].status, wallet |-> seen[s].wallet,
         bank |-> seen[s].bank, lots |-> a.lots, lastDay |-> seen[s].lastDay,
         remainder |-> seen[s].remainder, withdrawals |-> a.withdrawals]

Init ==
    /\ Serial!Init
    /\ opLock = [k \in Keys |-> NoSession]
    /\ playerLock = [p \in Players |-> NoSession]
    /\ pc = [s \in Sessions |-> "idle"]
    /\ task = [s \in Sessions |-> [key |-> NoKey,
                                   request |-> Interest(CHOOSE p \in Players : TRUE)]]
    /\ start = [s \in Sessions |-> 0]
    /\ seen = [s \in Sessions |-> NoView]
    /\ reply = [s \in Sessions |-> Nothing]

---------------------------------------------------------------------------
(* Ending a transaction.                                                   *)

Goto(s, label) == pc' = [pc EXCEPT ![s] = label]

\* Mistaken: the player's rows stay locked.
ReleaseKeyOnly(s) ==
    /\ opLock' = [k \in Keys |-> IF opLock[k] = s THEN NoSession ELSE opLock[k]]
    /\ seen' = [seen EXCEPT ![s] = NoView]
    /\ UNCHANGED playerLock

Release(s) ==
    /\ opLock' = [k \in Keys |-> IF opLock[k] = s THEN NoSession ELSE opLock[k]]
    /\ playerLock' = [p \in Players |-> IF playerLock[p] = s THEN NoSession
                                                           ELSE playerLock[p]]
    /\ seen' = [seen EXCEPT ![s] = NoView]

\* The session answers and is free for another task.
Finish(s, answer) ==
    /\ Release(s)
    /\ Goto(s, "idle")
    /\ reply' = [reply EXCEPT ![s] = answer]
    /\ UNCHANGED <<task, start>>

Rollback(s) == Finish(s, Failed) /\ UNCHANGED database

\* The interest transaction ended without error.
AfterInterest(s) ==
    IF KeyOf(s) = NoKey
    THEN Finish(s, Done)
    ELSE Release(s) /\ Goto(s, "begin") /\ UNCHANGED <<task, start, reply>>

---------------------------------------------------------------------------
(* New work.                                                               *)

TakeTask(s, key, request) ==
    /\ pc[s] = "idle"
    /\ task' = [task EXCEPT ![s] = [key |-> key, request |-> request]]
    /\ reply' = [reply EXCEPT ![s] = Nothing]
    /\ Goto(s, "beginInterest")
    /\ UNCHANGED <<database, locks, start, seen, now>>

\* Discord may deliver the same key again, to the same or another session.
Submit(s, k, r) == TakeTask(s, k, r)

Sweep(s, p) == TakeTask(s, NoKey, Interest(p))

---------------------------------------------------------------------------
(* The interest transaction.                                               *)

\* utc_today is the date on which the transaction began, read before the lock.
BeginInterest(s) ==
    /\ pc[s] = "beginInterest"
    /\ start' = [start EXCEPT ![s] = now]
    /\ Goto(s, "lockInterest")
    /\ UNCHANGED <<database, locks, task, seen, reply, now>>

\* Mistaken: a SELECT without FOR UPDATE.
ReadPlayerRows(s) ==
    /\ accounts[PlayerOf(s)].status # "DELETED"
    /\ seen' = [seen EXCEPT ![s] = ViewOf(accounts[PlayerOf(s)])]
    /\ UNCHANGED playerLock

LockPlayerRows(s) ==
    /\ accounts[PlayerOf(s)].status # "DELETED"
    /\ playerLock[PlayerOf(s)] = NoSession
    /\ playerLock' = [playerLock EXCEPT ![PlayerOf(s)] = s]
    /\ seen' = [seen EXCEPT ![s] = ViewOf(accounts[PlayerOf(s)])]

LockInterestPlayer(s) ==
    /\ pc[s] = "lockInterest"
    /\ LockPlayerRows(s)
    /\ Goto(s, "accrue")
    /\ UNCHANGED <<database, opLock, task, start, reply, now>>

\* PlayerNotFound: a command goes on, for registration is checked later.
InterestPlayerNotFound(s) ==
    /\ pc[s] = "lockInterest"
    /\ accounts[PlayerOf(s)].status = "DELETED"
    /\ IF KeyOf(s) = NoKey THEN Finish(s, Failed) ELSE AfterInterest(s)
    /\ UNCHANGED <<database, now>>

NothingDue(s) ==
    /\ pc[s] = "accrue"
    /\ ~ Due(Working(s), DayOf(start[s]))
    /\ AfterInterest(s)
    /\ UNCHANGED <<database, now>>

\* The system operation of a day is inserted ON CONFLICT DO NOTHING, and a
\* conflict is an error.
UnpaidDays(entries) == \A e \in entries : \A old \in ledger : old.op # e.op

\* accrue_locked_player followed by commit.
Accrue(s) ==
    LET p == PlayerOf(s)
        w == Working(s)
        today == DayOf(start[s])
        after == AfterAccrual(p, w, today)
        entries == EntriesOfAccrual(p, w, today)
    IN  /\ pc[s] = "accrue"
        /\ Due(w, today)
        /\ CanAccrue(p, w, today) /\ UnpaidDays(entries)
        /\ accounts' = [accounts EXCEPT ![p].bank = after.bank,
                                        ![p].lots = after.lots,
                                        ![p].remainder = after.remainder,
                                        ![p].lastDay = after.lastDay]
        /\ ledger' = ledger \cup entries
        /\ outbox' = outbox \cup {e.op : e \in entries}
        /\ AfterInterest(s)
        /\ UNCHANGED <<operations, now>>

\* LotIntegrityMismatch, ArithmeticOverflow or OperationConflict.
AccrualFails(s) ==
    LET p == PlayerOf(s)
        w == Working(s)
        today == DayOf(start[s])
    IN  /\ pc[s] = "accrue"
        /\ Due(w, today)
        /\ ~ (/\ CanAccrue(p, w, today)
              /\ UnpaidDays(EntriesOfAccrual(p, w, today)))
        /\ Rollback(s)
        /\ UNCHANGED now

---------------------------------------------------------------------------
(* The transaction of deposit and withdraw.                                *)

RejectAmount(s) ==
    /\ pc[s] = "begin"
    /\ ~ ValidAmount(RequestOf(s))
    /\ Rollback(s)
    /\ UNCHANGED now

BeginOperation(s) ==
    /\ pc[s] = "begin"
    /\ ValidAmount(RequestOf(s))
    /\ start' = [start EXCEPT ![s] = now]
    /\ Goto(s, "select")
    /\ UNCHANGED <<database, locks, task, seen, reply, now>>

\* select_operation finds no row: an uncommitted one is not visible.
NoOperationYet(s) ==
    /\ pc[s] = "select"
    /\ operations[KeyOf(s)] = NoRow
    /\ Goto(s, "insert")
    /\ UNCHANGED <<database, locks, task, start, seen, reply, now>>

\* INSERT ... ON CONFLICT DO NOTHING waits for another session's uncommitted
\* row with the same key, then inserts a PENDING row or finds the key taken.
InsertOperation(s) ==
    /\ pc[s] = "insert"
    /\ opLock[KeyOf(s)] = NoSession
    /\ IF operations[KeyOf(s)] = NoRow
       THEN /\ opLock' = [opLock EXCEPT ![KeyOf(s)] = s]
            /\ Goto(s, "lockPlayer")
       ELSE Goto(s, "reselect") /\ UNCHANGED opLock
    /\ UNCHANGED <<database, playerLock, task, start, seen, reply, now>>

\* Mistaken: the request hash is not compared.
AnswerAnyRequest(s) ==
    LET row == operations[KeyOf(s)]
    IN  /\ pc[s] \in {"select", "reselect"}
        /\ row # NoRow
        /\ Finish(s, Answer(row.receipt))
        /\ UNCHANGED <<database, now>>

\* A committed row replays its stored receipt to the same request and rejects
\* any other: IdempotencyConflict.
AnswerFromRow(s) ==
    LET row == operations[KeyOf(s)]
    IN  /\ pc[s] \in {"select", "reselect"}
        /\ row # NoRow
        /\ Finish(s, IF row.request = RequestOf(s) THEN Answer(row.receipt)
                                                   ELSE Failed)
        /\ UNCHANGED <<database, now>>

LockPlayer(s) ==
    /\ pc[s] = "lockPlayer"
    /\ LockPlayerRows(s)
    /\ Goto(s, "settle")
    /\ UNCHANGED <<database, opLock, task, start, reply, now>>

PlayerNotFound(s) ==
    /\ pc[s] = "lockPlayer"
    /\ accounts[PlayerOf(s)].status = "DELETED"
    /\ Rollback(s)
    /\ UNCHANGED now

\* The body of deposit or withdraw after lock_player, then commit.
Settle(s) ==
    LET k == KeyOf(s)
        r == RequestOf(s)
        w == Working(s)
        after == Settled(w, r, start[s])
        receipt == ReceiptOf(w, r, start[s])
    IN  /\ pc[s] = "settle"
        /\ CanSettle(w, r, start[s])
        /\ accounts' = [accounts EXCEPT ![r.player].wallet = after.wallet,
                                        ![r.player].bank = after.bank,
                                        ![r.player].lots = after.lots,
                                        ![r.player].withdrawals = after.withdrawals]
        /\ operations' = [operations EXCEPT ![k] = CommittedRow(r, receipt)]
        /\ ledger' = ledger \cup {EntryOf(w, k, r, start[s])}
        /\ outbox' = outbox \cup {UserOp(k)}
        /\ Finish(s, Answer(receipt))
        /\ UNCHANGED now

\* AccountFrozen, InsufficientWallet, InsufficientBank, LotIntegrityMismatch,
\* InvalidFee or ArithmeticOverflow; the PENDING row goes with the transaction.
Refuse(s) ==
    /\ pc[s] = "settle"
    /\ ~ CanSettle(Working(s), RequestOf(s), start[s])
    /\ Rollback(s)
    /\ UNCHANGED now

---------------------------------------------------------------------------
(* The environment.                                                        *)

\* A database error, a lost connection or a crash.
Abort(s) ==
    /\ pc[s] # "idle"
    /\ Rollback(s)
    /\ UNCHANGED now

\* No code in the repository changes a status; an operator's UPDATE does.
SetStatus(p, status) ==
    /\ playerLock[p] = NoSession
    /\ accounts' = [accounts EXCEPT ![p].status = status]
    /\ UNCHANGED <<operations, ledger, outbox, now, locks, pc, task, start,
                   seen, reply>>

Tick ==
    /\ now < MaxTime
    /\ now' = now + 1
    /\ UNCHANGED <<database, locks, pc, task, start, seen, reply>>

---------------------------------------------------------------------------
Step(s) ==
    \/ BeginInterest(s) \/ LockInterestPlayer(s) \/ InterestPlayerNotFound(s)
    \/ NothingDue(s) \/ Accrue(s) \/ AccrualFails(s)
    \/ RejectAmount(s) \/ BeginOperation(s) \/ NoOperationYet(s)
    \/ InsertOperation(s) \/ AnswerFromRow(s)
    \/ LockPlayer(s) \/ PlayerNotFound(s) \/ Settle(s) \/ Refuse(s)

Next ==
    \/ \E s \in Sessions :
        \/ Step(s)
        \/ Abort(s)
        \/ \E k \in Keys, r \in Requests : Submit(s, k, r)
        \/ \E p \in Players : Sweep(s, p)
    \/ \E p \in Players, status \in OperatorStatuses : SetStatus(p, status)
    \/ Tick

Spec == Init /\ [][Next]_vars

\* A runnable task runs on, and PostgreSQL queues those that wait for a row, so
\* a wait ends once the row is released often enough.
Fairness ==
    \A s \in Sessions :
        /\ WF_vars(Step(s))
        /\ SF_vars(LockInterestPlayer(s))
        /\ SF_vars(InsertOperation(s))
        /\ SF_vars(LockPlayer(s))

FairSpec == Spec /\ Fairness

---------------------------------------------------------------------------
(* Types.                                                                  *)

Labels == {"idle", "beginInterest", "lockInterest", "accrue", "begin",
           "select", "insert", "reselect", "lockPlayer", "settle"}

Task == [key : Keys, request : Requests]
          \cup [key : {NoKey}, request : {Interest(p) : p \in Players}]

Row == {NoRow} \cup [state : {"COMMITTED"}, request : Requests,
                    receipt : Receipt]

UserOps == {UserOp(k) : k \in Keys}
SystemOps == Players \X Nat

LedgerEntry == [op : UserOps, kind : Kinds, player : Players,
                wallet : Int, bank : Int, system : Int]
               \cup [op : SystemOps, kind : {"INTEREST"}, player : Players,
                     wallet : Int, bank : Int, system : Int]

Answers == {Nothing, Failed, Done} \cup [outcome : {"RECEIPT"}, receipt : Receipt]

DatabaseOK ==
    /\ accounts \in [Players -> Account]
    /\ operations \in [Keys -> Row]
    /\ ledger \subseteq LedgerEntry
    /\ outbox \subseteq UserOps \cup SystemOps
    /\ now \in Nat

SessionsOK ==
    /\ opLock \in [Keys -> Sessions \cup {NoSession}]
    /\ playerLock \in [Players -> Sessions \cup {NoSession}]
    /\ pc \in [Sessions -> Labels]
    /\ task \in [Sessions -> Task]
    /\ start \in [Sessions -> Nat]
    /\ seen \in [Sessions -> View \cup {NoView}]
    /\ reply \in [Sessions -> Answers]

\* Type correctness; an account is always one the schema accepts.
TypeOK == DatabaseOK /\ SessionsOK

---------------------------------------------------------------------------
(* Safety.                                                                 *)

\* What each point of a session's program may rely on: a transaction never
\* begins in the future, and what the code checked before going on still holds.
SessionsInOrder ==
    \A s \in Sessions :
        /\ start[s] <= now
        /\ pc[s] \in {"begin", "select", "insert", "reselect", "lockPlayer",
                      "settle"} => KeyOf(s) # NoKey
        /\ pc[s] \in {"select", "insert", "reselect", "lockPlayer", "settle"} =>
              ValidAmount(RequestOf(s))
        /\ pc[s] \in {"accrue", "settle"} => seen[s].status # "DELETED"

PostingsOf(p) == {e \in ledger : e.player = p}
WalletPosted(p) == SumFunction([e \in PostingsOf(p) |-> e.wallet])
BankPosted(p) == SumFunction([e \in PostingsOf(p) |-> e.bank])

\* The materialised bank balance of a player is the principal of the lots, no
\* matter how deposits, withdrawals and interest of several sessions mix: the
\* check of reconcile_lots and load_fifo_lot_debits that raises
\* LotIntegrityMismatch never fires.
LotsReconcile == \A p \in Players : Reconciles(accounts[p])

\* The materialised wallet and bank are what the immutable ledger posted to
\* them, and every ledger transaction sums to zero over its accounts: no update
\* is lost and no money appears between the balance rows and the ledger.
LedgerReconciles ==
    /\ \A e \in ledger : e.wallet + e.bank + e.system = 0
    /\ \A p \in Players :
        /\ accounts[p].wallet = InitialWallet + WalletPosted(p)
        /\ accounts[p].bank = BankPosted(p)

\* The parts of a settlement commit together: a request key has a committed
\* operation exactly when one ledger transaction and one outbox event carry it,
\* and they moved what the stored receipt says.
SettledTogether ==
    \A k \in Keys :
        LET mine == {e \in ledger : e.op = UserOp(k)}
            row == operations[k]
        IN  IF row = NoRow
            THEN mine = {} /\ UserOp(k) \notin outbox
            ELSE /\ UserOp(k) \in outbox
                 /\ \E e \in mine :
                        /\ mine = {e}
                        /\ e.player = row.request.player
                        /\ e.kind = row.request.kind
                        /\ e.system = row.receipt.fee
                        /\ e.bank = IF e.kind = "DEPOSIT"
                                    THEN row.receipt.gross
                                    ELSE - row.receipt.gross

\* Whoever is answered with a receipt, however often the key was delivered and
\* to whichever session, holds the one receipt stored for it, and asked for
\* what it records: concurrent duplicates never settle twice.
RepliesAgree ==
    \A s \in Sessions :
        reply[s].outcome = "RECEIPT" =>
            operations[KeyOf(s)] = CommittedRow(RequestOf(s), reply[s].receipt)

\* What a session read under the row locks is still the database when it
\* computes the new balances, and no settled operation carries its key: nothing
\* is written from a stale read.
SnapshotCurrent ==
    \A s \in Sessions :
        /\ pc[s] \in {"accrue", "settle"} =>
              /\ playerLock[PlayerOf(s)] = s
              /\ seen[s] = ViewOf(accounts[PlayerOf(s)])
        /\ pc[s] \in {"lockPlayer", "settle"} =>
              /\ opLock[KeyOf(s)] = s
              /\ operations[KeyOf(s)] = NoRow

\* A session outside a transaction holds no row lock: no early return or error
\* leaves a player or a request key blocked for everybody else.
NoLockLeak ==
    /\ \A p \in Players : playerLock[p] # NoSession =>
          /\ pc[playerLock[p]] \in {"accrue", "settle"}
          /\ PlayerOf(playerLock[p]) = p
    /\ \A k \in Keys : opLock[k] # NoSession =>
          /\ pc[opLock[k]] \in {"lockPlayer", "settle"}
          /\ KeyOf(opLock[k]) = k

\* Interest is paid for no day after the accrual cursor and the cursor never
\* passes the current day, so a due day is never one already paid: the error
\* OperationConflict of the code cannot happen.
InterestBehindCursor ==
    /\ \A p \in Players : accounts[p].lastDay <= DayOf(now)
    /\ \A e \in ledger : e.kind = "INTEREST" =>
          e.op[2] <= accounts[e.player].lastDay

\* When the code's own checks pass, the schema's CHECK constraints do too: a
\* settlement is never refused by the database after the code accepted it.
ConstraintsNeverFire ==
    \A s \in Sessions :
        pc[s] = "settle" /\ Accepts(Working(s), RequestOf(s), start[s]) =>
            Settled(Working(s), RequestOf(s), start[s]) \in Account

---------------------------------------------------------------------------
(* What a step may never do.                                               *)

\* A committed operation keeps its request and receipt for ever, and ledger
\* transactions and outbox events are only added.
CommittedForever ==
    [][/\ \A k \in Keys : operations[k] # NoRow =>
            operations'[k] = operations[k]
       /\ ledger \subseteq ledger'
       /\ outbox \subseteq outbox']_vars

\* The accrual cursor never goes back, although a session computes the day to
\* catch up to before it waits for the player's rows.
CursorMonotone ==
    [][\A p \in Players : accounts'[p].lastDay >= accounts[p].lastDay]_vars

\* Money moves only in accounts whose status at that very moment allows it: the
\* wallet of a frozen or deleted account never changes, and its bank balance
\* grows by interest only under a soft freeze.
FrozenMoneyStays ==
    [][\A p \in Players :
        LET a == accounts[p]
        IN  /\ a.status # "ACTIVE" => accounts'[p].wallet = a.wallet
            /\ a.status \in {"HARD_FROZEN", "DELETED"} =>
                 accounts'[p].bank = a.bank]_vars

\* Principal leaves a lot only after every lot deposited before it is empty,
\* also when deposits commit in another order than they began.
FifoDebit ==
    [][\A p \in Players :
        LET lots == accounts[p].lots
        IN  \A i \in DOMAIN lots :
                accounts'[p].lots[i].left < lots[i].left =>
                    \A j \in Ahead(lots, i) : accounts'[p].lots[j].left = 0]_vars

\* The transactions of the code implement one-request-at-a-time settlement.
ImplementsSerial == Serial!Spec

---------------------------------------------------------------------------
(* Liveness.                                                               *)

\* Every command and every sweep comes to an end: no session waits for ever for
\* a row lock.
EveryTaskEnds == \A s \in Sessions : pc[s] # "idle" ~> pc[s] = "idle"
=============================================================================
