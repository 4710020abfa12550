----------------------------- MODULE BankProofs -----------------------------
(***************************************************************************)
(* Proofs about Bank, for every number of players, keys and sessions,      *)
(* every set of requests and every width of the money columns: the locks   *)
(* and types, the serial specification they implement, and then, through   *)
(* it, the lots, the order of debits and the ledger of every account.      *)
(***************************************************************************)
EXTENDS Bank, BankRulesProofs, TLAPS

USE DEF UserOp, SystemOp

---------------------------------------------------------------------------
(* Tasks and accounts.                                                     *)

\* The task of a session names a player, and its request if it has a key.
LEMMA TaskFacts ==
    ASSUME TypeOK, NEW s \in Sessions
    PROVE  /\ PlayerOf(s) \in Players
           /\ KeyOf(s) # NoKey => KeyOf(s) \in Keys /\ RequestOf(s) \in Requests
BY RequestsAssumption DEF TypeOK, SessionsOK, Task, PlayerOf, KeyOf, RequestOf, Interest,
   Request

\* Requests are of the two kinds.
LEMMA RequestFacts ==
    ASSUME NEW r \in Requests
    PROVE  /\ r.player \in Players
           /\ r.kind \in {"DEPOSIT", "WITHDRAW"}
           /\ r.amount \in Int
BY RequestsAssumption DEF Request, Kinds

\* What is seen under the lock of a player is a view of the account.
LEMMA ViewFacts ==
    ASSUME NEW a \in Account
    PROVE  ViewOf(a) \in View
BY DEF Account, View, ViewOf

\* A request that settles leaves a receipt and a ledger entry of the right type.
LEMMA SettleFacts ==
    ASSUME NEW a, NEW k \in Keys, NEW r \in Requests, NEW t,
           ValidAmount(r), CanSettle(a, r, t)
    PROVE  /\ Settled(a, r, t) \in Account
           /\ ReceiptOf(a, r, t) \in Receipt
           /\ EntryOf(a, k, r, t) \in LedgerEntry
<1>1. r.player \in Players /\ r.kind \in {"DEPOSIT", "WITHDRAW"} /\ r.amount \in Int
  BY RequestFacts
<1>2. Settled(a, r, t) \in Account
  BY DEF CanSettle
<1>3. Settled(a, r, t).wallet \in Money /\ Settled(a, r, t).bank \in Money
  BY <1>2 DEF Account
<1>4. FeeOf(a, r, t) \in Int
  <2>1. CASE r.kind = "DEPOSIT"
    BY <2>1 DEF FeeOf
  <2>2. CASE r.kind = "WITHDRAW"
    <3>1. CanWithdraw(a, r.amount, t)
      BY <2>2 DEF CanSettle, Accepts
    <3>2. Fee(a, r.amount, t) \in 0 .. (r.amount - 1)
      BY <3>1 DEF CanWithdraw
    <3> QED BY <1>1, <2>2, <3>2 DEF FeeOf
  <2> QED BY <1>1, <2>1, <2>2
<1>5. ReceiptOf(a, r, t) \in Receipt
  BY <1>1, <1>3, <1>4 DEF ReceiptOf, Receipt
<1>6. EntryOf(a, k, r, t) \in LedgerEntry
  BY <1>1, <1>4 DEF EntryOf, FeeOf, LedgerEntry, UserOps, Entry, Kinds
<1> QED BY <1>2, <1>5, <1>6

\* The entries of an accrual that the code can commit are of the right type, and
\* they pay days after the cursor, up to where the accrual moves it.
LEMMA AccrualFacts ==
    ASSUME NEW p \in Players, NEW a, a.lastDay \in Nat, NEW today \in Nat,
           Due(a, today), CanAccrue(p, a, today)
    PROVE  /\ AfterAccrual(p, a, today) \in Account
           /\ DaysToProcess(a, today) \in Nat
           /\ a.lastDay + DaysToProcess(a, today) <= today
           /\ \A e \in EntriesOfAccrual(p, a, today) :
                 /\ e \in LedgerEntry
                 /\ e.player = p /\ e.kind = "INTEREST"
                 /\ e.op \in Players \X Nat
                 /\ e.op[1] = p
                 /\ e.op[2] \in (a.lastDay + 1) .. (a.lastDay + DaysToProcess(a, today))
<1>1. /\ DaysToProcess(a, today) \in Nat
      /\ a.lastDay + DaysToProcess(a, today) <= today
  BY CatchupAssumption DEF Due, DaysToProcess, Lesser
<1>2. ASSUME NEW e \in EntriesOfAccrual(p, a, today)
      PROVE  /\ e \in LedgerEntry
             /\ e.player = p /\ e.kind = "INTEREST"
             /\ e.op \in Players \X Nat
             /\ e.op[1] = p
             /\ e.op[2] \in (a.lastDay + 1) .. (a.lastDay + DaysToProcess(a, today))
  <2>1. e \in InterestEntries(p, a, today)
    BY <1>2 DEF EntriesOfAccrual
  <2>2. PICK k \in 1 .. DaysToProcess(a, today) :
            e = Entry(SystemOp(p, a.lastDay + k), "INTEREST", p, 0, e.bank, - e.bank)
    BY <2>1 DEF InterestEntries, Entry
  <2>3. e.bank \in Money
    BY <1>2 DEF CanAccrue
  <2>4. e.bank \in Int
    BY <2>3, MoneyAssumption DEF Money
  <2>5. a.lastDay + k \in Nat
    BY <1>1
  <2> QED BY <1>1, <2>2, <2>4, <2>5 DEF Entry, LedgerEntry, SystemOps
<1> QED BY <1>1, <1>2 DEF CanAccrue

---------------------------------------------------------------------------
(* Type correctness.                                                       *)

\* The rows and sessions of an empty database are well typed.
LEMMA TypeInit == Init => TypeOK
<1> SUFFICES ASSUME Init PROVE TypeOK
  OBVIOUS
<1>1. Serial!NewAccount \in Account
  BY InterestUnits, MoneyAssumption, WalletAssumption
     DEF Serial!NewAccount, Account, Money, Statuses
<1>2. accounts \in [Players -> Account]
  BY <1>1 DEF Init, Serial!Init
<1>3. /\ operations \in [Keys -> Row]
      /\ ledger \subseteq LedgerEntry
      /\ outbox \subseteq UserOps \cup SystemOps
      /\ now \in Nat
  BY DEF Init, Serial!Init, Row, NoRow
<1>4. Interest(CHOOSE p \in Players : TRUE) \in {Interest(p) : p \in Players}
  BY PlayersAssumption
<1>5. task \in [Sessions -> Task]
  BY <1>4 DEF Init, Task
<1> QED BY <1>2, <1>3, <1>5 DEF Init, TypeOK, DatabaseOK, SessionsOK, Labels,
        Answers

\* Whatever ends a transaction leaves well-typed sessions.
LEMMA ReleaseTypes ==
    ASSUME TypeOK, NEW s \in Sessions, Release(s)
    PROVE  /\ opLock' \in [Keys -> Sessions \cup {NoSession}]
           /\ playerLock' \in [Players -> Sessions \cup {NoSession}]
           /\ seen' \in [Sessions -> View \cup {NoView}]
BY DEF TypeOK, SessionsOK, Release

\* Ending a task with an answer leaves well-typed sessions.
LEMMA FinishTypes ==
    ASSUME TypeOK, NEW s \in Sessions, NEW answer \in Answers, Finish(s, answer)
    PROVE  SessionsOK'
BY ReleaseTypes DEF TypeOK, SessionsOK, Finish, Goto, Labels

\* Rolling back leaves a well-typed state.
LEMMA RollbackTypes ==
    ASSUME TypeOK, NEW s \in Sessions, Rollback(s), now' = now
    PROVE  TypeOK'
<1>1. Failed \in Answers
  BY DEF Answers
<1> QED BY <1>1, FinishTypes DEF Rollback, TypeOK, DatabaseOK, database

\* Going on after the interest refresh leaves well-typed sessions.
LEMMA AfterInterestTypes ==
    ASSUME TypeOK, NEW s \in Sessions, AfterInterest(s)
    PROVE  SessionsOK'
<1>1. Done \in Answers
  BY DEF Answers
<1>2. CASE KeyOf(s) = NoKey
  BY <1>1, <1>2, FinishTypes DEF AfterInterest
<1>3. CASE KeyOf(s) # NoKey
  BY <1>3, ReleaseTypes DEF AfterInterest, TypeOK, SessionsOK, Goto, Labels
<1> QED BY <1>2, <1>3

\* What a session reads when it is granted the rows of a player is well typed.
LEMMA LockPlayerRowsTypes ==
    ASSUME TypeOK, NEW s \in Sessions, LockPlayerRows(s)
    PROVE  /\ playerLock' \in [Players -> Sessions \cup {NoSession}]
           /\ seen' \in [Sessions -> View \cup {NoView}]
<1>1. ViewOf(accounts[PlayerOf(s)]) \in View
  BY TaskFacts, ViewFacts DEF TypeOK, DatabaseOK
<1> QED BY <1>1, TaskFacts DEF TypeOK, SessionsOK, LockPlayerRows

\* Every step keeps the types, given what its session may rely on.
LEMMA TypeStep == TypeOK /\ SessionsInOrder /\ SnapshotCurrent /\ [Next]_vars => TypeOK'
<1> SUFFICES ASSUME TypeOK, SessionsInOrder, SnapshotCurrent, [Next]_vars PROVE TypeOK'
  OBVIOUS
<1> USE DEF locks, database
<1>1. ASSUME NEW s \in Sessions, Step(s) PROVE TypeOK'
  <2>1. CASE BeginInterest(s)
    BY <2>1 DEF BeginInterest, TypeOK, DatabaseOK, SessionsOK, Goto, Labels
  <2>2. CASE LockInterestPlayer(s)
    BY <2>2, LockPlayerRowsTypes
       DEF LockInterestPlayer, TypeOK, DatabaseOK, SessionsOK, Goto, Labels
  <2>3. CASE InterestPlayerNotFound(s)
    <3>1. Failed \in Answers
      BY DEF Answers
    <3>2. SessionsOK'
      BY <2>3, <3>1, FinishTypes, AfterInterestTypes DEF InterestPlayerNotFound
    <3> QED BY <2>3, <3>2 DEF InterestPlayerNotFound, TypeOK, DatabaseOK
  <2>4. CASE NothingDue(s)
    BY <2>4, AfterInterestTypes DEF NothingDue, TypeOK, DatabaseOK
  <2>5. CASE Accrue(s)
    <3> DEFINE p == PlayerOf(s)
               w == Working(s)
               today == DayOf(start[s])
               after == AfterAccrual(p, w, today)
               entries == EntriesOfAccrual(p, w, today)
    <3>1. p \in Players /\ accounts[p] \in Account
      BY TaskFacts DEF TypeOK, DatabaseOK
    <3>2. w.lastDay \in Nat /\ today \in Nat
      <4>1. seen[s] = ViewOf(accounts[PlayerOf(s)])
        BY <2>5 DEF Accrue, SnapshotCurrent
      <4>2. w.lastDay \in Nat
        BY <3>1, <4>1 DEF Working, ViewOf, Account
      <4>3. start[s] \in Nat
        BY DEF TypeOK, SessionsOK
      <4> QED BY <4>2, <4>3, DayLengthAssumption DEF DayOf
    <3>3. Due(w, today) /\ CanAccrue(p, w, today)
      BY <2>5 DEF Accrue
    <3>4. after \in Account /\ \A e \in entries : e \in LedgerEntry /\ e.op \in Players \X Nat
      BY <3>1, <3>2, <3>3, AccrualFacts
    <3> HIDE DEF p, w, today, after, entries
    <3>5. /\ accounts' = [accounts EXCEPT ![p].bank = after.bank,
                                          ![p].lots = after.lots,
                                          ![p].remainder = after.remainder,
                                          ![p].lastDay = after.lastDay]
          /\ ledger' = ledger \cup entries
          /\ outbox' = outbox \cup {e.op : e \in entries}
          /\ UNCHANGED <<operations, now>>
      BY <2>5 DEF Accrue, p, w, today, after, entries
    <3>6. accounts' \in [Players -> Account]
      BY <3>1, <3>4, <3>5 DEF TypeOK, DatabaseOK, Account
    <3>7. outbox' \subseteq UserOps \cup SystemOps /\ ledger' \subseteq LedgerEntry
      BY <3>4, <3>5 DEF TypeOK, DatabaseOK, UserOps, SystemOps
    <3>8. SessionsOK'
      BY <2>5, AfterInterestTypes DEF Accrue
    <3> QED BY <3>5, <3>6, <3>7, <3>8 DEF TypeOK, DatabaseOK
  <2>6. CASE AccrualFails(s)
    BY <2>6, RollbackTypes DEF AccrualFails
  <2>7. CASE RejectAmount(s)
    BY <2>7, RollbackTypes DEF RejectAmount
  <2>8. CASE BeginOperation(s)
    BY <2>8 DEF BeginOperation, TypeOK, DatabaseOK, SessionsOK, Goto, Labels
  <2>9. CASE NoOperationYet(s)
    BY <2>9 DEF NoOperationYet, TypeOK, DatabaseOK, SessionsOK, Goto, Labels
  <2>10. CASE InsertOperation(s)
    <3>1. opLock' \in [Keys -> Sessions \cup {NoSession}]
      BY <2>10 DEF InsertOperation, TypeOK, SessionsOK
    <3>2. pc' \in [Sessions -> Labels]
      BY <2>10 DEF InsertOperation, TypeOK, SessionsOK, Goto, Labels
    <3> QED BY <2>10, <3>1, <3>2 DEF InsertOperation, TypeOK, DatabaseOK, SessionsOK
  <2>11. CASE AnswerFromRow(s)
    <3>1. KeyOf(s) \in Keys
      BY <2>11, TaskFacts DEF AnswerFromRow, SessionsInOrder
    <3>2. operations[KeyOf(s)] \in Row /\ operations[KeyOf(s)] # NoRow
      BY <2>11, <3>1 DEF AnswerFromRow, TypeOK, DatabaseOK
    <3>3. Answer(operations[KeyOf(s)].receipt) \in Answers /\ Failed \in Answers
      BY <3>2 DEF Row, Answer, Answers
    <3>4. SessionsOK'
      BY <2>11, <3>3, FinishTypes DEF AnswerFromRow
    <3> QED BY <2>11, <3>4 DEF AnswerFromRow, TypeOK, DatabaseOK
  <2>12. CASE LockPlayer(s)
    BY <2>12, LockPlayerRowsTypes
       DEF LockPlayer, TypeOK, DatabaseOK, SessionsOK, Goto, Labels
  <2>13. CASE PlayerNotFound(s)
    BY <2>13, RollbackTypes DEF PlayerNotFound
  <2>14. CASE Settle(s)
    <3> DEFINE k == KeyOf(s)
               r == RequestOf(s)
               w == Working(s)
               t == start[s]
    <3>1. k \in Keys /\ r \in Requests /\ r.player \in Players
      BY <2>14, TaskFacts, RequestFacts DEF Settle, SessionsInOrder
    <3>2. ValidAmount(r) /\ CanSettle(w, r, t)
      BY <2>14 DEF Settle, SessionsInOrder
    <3>3. /\ Settled(w, r, t) \in Account
          /\ ReceiptOf(w, r, t) \in Receipt
          /\ EntryOf(w, k, r, t) \in LedgerEntry
      BY <3>1, <3>2, SettleFacts
    <3> HIDE DEF k, r, w, t
    <3>4. /\ accounts' = [accounts EXCEPT
                            ![r.player].wallet = Settled(w, r, t).wallet,
                            ![r.player].bank = Settled(w, r, t).bank,
                            ![r.player].lots = Settled(w, r, t).lots,
                            ![r.player].withdrawals = Settled(w, r, t).withdrawals]
          /\ operations' = [operations EXCEPT
                              ![k] = CommittedRow(r, ReceiptOf(w, r, t))]
          /\ ledger' = ledger \cup {EntryOf(w, k, r, t)}
          /\ outbox' = outbox \cup {<<k>>}
          /\ Finish(s, Answer(ReceiptOf(w, r, t)))
          /\ now' = now
      BY <2>14 DEF Settle, k, r, w, t
    <3>5. accounts' \in [Players -> Account]
      <4> DEFINE after == Settled(w, r, t)
                 row == [accounts[r.player] EXCEPT !.wallet = after.wallet,
                                                   !.bank = after.bank,
                                                   !.lots = after.lots,
                                                   !.withdrawals = after.withdrawals]
      <4>1. accounts \in [Players -> Account] /\ accounts[r.player] \in Account
        BY <3>1 DEF TypeOK, DatabaseOK
      <4>2. after \in Account
        BY <3>3
      <4>3. accounts' = [accounts EXCEPT ![r.player] = row]
        BY <3>1, <3>4, <4>1
      <4> HIDE DEF after
      <4>4. row \in Account
        BY <4>1, <4>2 DEF Account
      <4> HIDE DEF row
      <4> QED BY <4>1, <4>3, <4>4
    <3>6. CommittedRow(r, ReceiptOf(w, r, t)) \in Row
      BY <3>1, <3>3 DEF CommittedRow, Serial!CommittedRow, Row
    <3>7. DatabaseOK'
      BY <3>1, <3>3, <3>4, <3>5, <3>6 DEF TypeOK, DatabaseOK, UserOps, SystemOps
    <3>8. Answer(ReceiptOf(w, r, t)) \in Answers
      BY <3>3 DEF Answer, Answers
    <3> QED BY <3>4, <3>7, <3>8, FinishTypes DEF TypeOK
  <2>15. CASE Refuse(s)
    BY <2>15, RollbackTypes DEF Refuse
  <2> QED BY <1>1, <2>1, <2>2, <2>3, <2>4, <2>5, <2>6, <2>7, <2>8, <2>9, <2>10,
             <2>11, <2>12, <2>13, <2>14, <2>15 DEF Step
<1>2. ASSUME NEW s \in Sessions, Abort(s) PROVE TypeOK'
  BY <1>2, RollbackTypes DEF Abort
<1>3. ASSUME NEW s \in Sessions, NEW k \in Keys, NEW r \in Requests, Submit(s, k, r)
      PROVE  TypeOK'
  BY <1>3 DEF Submit, TakeTask, TypeOK, DatabaseOK, SessionsOK, Goto, Labels,
              Task, Answers
<1>4. ASSUME NEW s \in Sessions, NEW p \in Players, Sweep(s, p) PROVE TypeOK'
  BY <1>4 DEF Sweep, TakeTask, TypeOK, DatabaseOK, SessionsOK, Goto, Labels,
              Task, Answers
<1>5. ASSUME NEW p \in Players, NEW status \in OperatorStatuses, SetStatus(p, status)
      PROVE  TypeOK'
  BY <1>5, StatusAssumption DEF SetStatus, TypeOK, DatabaseOK, SessionsOK, Account
<1>6. CASE Tick
  BY <1>6 DEF Tick, TypeOK, DatabaseOK, SessionsOK
<1>7. CASE UNCHANGED vars
  BY <1>7 DEF vars, TypeOK, DatabaseOK, SessionsOK
<1> QED BY <1>1, <1>2, <1>3, <1>4, <1>5, <1>6, <1>7 DEF Next

---------------------------------------------------------------------------
(* Sessions and locks.                                                     *)

\* A session that ends its transaction holds no lock afterwards; others keep
\* theirs.
LEMMA ReleaseFacts ==
    ASSUME TypeOK, NEW s \in Sessions, Release(s)
    PROVE  /\ \A p \in Players :
                 playerLock'[p] = IF playerLock[p] = s THEN NoSession ELSE playerLock[p]
           /\ \A k \in Keys :
                 opLock'[k] = IF opLock[k] = s THEN NoSession ELSE opLock[k]
           /\ \A x \in Sessions : seen'[x] = IF x = s THEN NoView ELSE seen[x]
BY DEF TypeOK, SessionsOK, Release

\* What ending a task changes: the session is idle, has its answer, and holds nothing.
LEMMA FinishFacts ==
    ASSUME TypeOK, NEW s \in Sessions, NEW answer, Finish(s, answer)
    PROVE  /\ \A x \in Sessions : pc'[x] = IF x = s THEN "idle" ELSE pc[x]
           /\ \A x \in Sessions : reply'[x] = IF x = s THEN answer ELSE reply[x]
           /\ task' = task /\ start' = start /\ Release(s)
BY DEF TypeOK, SessionsOK, Finish, Goto

\* What the end of an interest refresh changes: the task ends, or its command begins.
LEMMA AfterInterestFacts ==
    ASSUME TypeOK, NEW s \in Sessions, AfterInterest(s)
    PROVE  /\ \A x \in Sessions : x # s => pc'[x] = pc[x] /\ reply'[x] = reply[x]
           /\ pc'[s] \in {"idle", "begin"}
           /\ pc'[s] = "begin" => KeyOf(s) # NoKey
           /\ reply'[s] = reply[s] \/ reply'[s] = Done
           /\ task' = task /\ start' = start /\ Release(s)
BY FinishFacts DEF TypeOK, SessionsOK, AfterInterest, Goto

\* What SessionsInOrder says of one session.
InOrder(s) ==
    /\ start[s] <= now
    /\ pc[s] \in {"begin", "select", "insert", "reselect", "lockPlayer",
                  "settle"} => KeyOf(s) # NoKey
    /\ pc[s] \in {"select", "insert", "reselect", "lockPlayer", "settle"} =>
          ValidAmount(RequestOf(s))
    /\ pc[s] \in {"accrue", "settle"} => seen[s].status # "DELETED"

\* A session relies at each statement only on what an earlier statement has checked.
LEMMA OrderStep ==
    TypeOK /\ SessionsInOrder /\ [Next]_vars => SessionsInOrder'
<1> SUFFICES ASSUME TypeOK, SessionsInOrder, [Next]_vars, NEW x \in Sessions
             PROVE  InOrder(x)'
  BY DEF SessionsInOrder, InOrder
<1>0. InOrder(x)
  BY DEF SessionsInOrder, InOrder
<1>a. now \in Nat /\ start[x] \in Nat
  BY DEF TypeOK, DatabaseOK, SessionsOK
<1>b. ASSUME NEW s \in Sessions, NEW answer, Finish(s, answer), now' = now
      PROVE  InOrder(x)'
  BY <1>0, <1>b, FinishFacts, ReleaseFacts DEF InOrder, KeyOf, RequestOf
<1>c. ASSUME NEW s \in Sessions, AfterInterest(s), now' = now
      PROVE  InOrder(x)'
  BY <1>0, <1>c, AfterInterestFacts, ReleaseFacts DEF InOrder, KeyOf, RequestOf
<1> USE DEF locks, database
<1>1. ASSUME NEW s \in Sessions, Step(s) PROVE InOrder(x)'
  <2> USE DEF Goto, InOrder, KeyOf, RequestOf
  <2>1. CASE BeginInterest(s)
    BY <1>0, <1>a, <2>1 DEF BeginInterest, TypeOK, SessionsOK
  <2>2. CASE LockInterestPlayer(s)
    BY <1>0, <1>a, <2>2 DEF LockInterestPlayer, LockPlayerRows, TypeOK, SessionsOK, ViewOf
  <2>3. CASE InterestPlayerNotFound(s)
    BY <1>b, <1>c, <2>3 DEF InterestPlayerNotFound
  <2>4. CASE NothingDue(s)
    BY <1>c, <2>4 DEF NothingDue
  <2>5. CASE Accrue(s)
    BY <1>c, <2>5 DEF Accrue
  <2>6. CASE AccrualFails(s)
    BY <1>b, <2>6 DEF AccrualFails, Rollback
  <2>7. CASE RejectAmount(s)
    BY <1>b, <2>7 DEF RejectAmount, Rollback
  <2>8. CASE BeginOperation(s)
    BY <1>0, <1>a, <2>8 DEF BeginOperation, TypeOK, SessionsOK
  <2>9. CASE NoOperationYet(s)
    BY <1>0, <1>a, <2>9 DEF NoOperationYet, TypeOK, SessionsOK
  <2>10. CASE InsertOperation(s)
    BY <1>0, <1>a, <2>10 DEF InsertOperation, TypeOK, SessionsOK
  <2>11. CASE AnswerFromRow(s)
    BY <1>b, <2>11 DEF AnswerFromRow
  <2>12. CASE LockPlayer(s)
    BY <1>0, <1>a, <2>12 DEF LockPlayer, LockPlayerRows, TypeOK, SessionsOK, ViewOf
  <2>13. CASE PlayerNotFound(s)
    BY <1>b, <2>13 DEF PlayerNotFound, Rollback
  <2>14. CASE Settle(s)
    BY <1>b, <2>14 DEF Settle
  <2>15. CASE Refuse(s)
    BY <1>b, <2>15 DEF Refuse, Rollback
  <2> QED BY <1>1, <2>1, <2>2, <2>3, <2>4, <2>5, <2>6, <2>7, <2>8, <2>9, <2>10,
             <2>11, <2>12, <2>13, <2>14, <2>15 DEF Step
<1>2. ASSUME NEW s \in Sessions, Abort(s) PROVE InOrder(x)'
  BY <1>b, <1>2 DEF Abort, Rollback
<1>3. ASSUME NEW s \in Sessions, NEW k, NEW r, TakeTask(s, k, r) PROVE InOrder(x)'
  BY <1>0, <1>3 DEF TakeTask, Goto, InOrder, KeyOf, RequestOf, TypeOK, SessionsOK
<1>4. ASSUME NEW p \in Players, NEW status, SetStatus(p, status) PROVE InOrder(x)'
  BY <1>0, <1>4 DEF SetStatus, InOrder, KeyOf, RequestOf
<1>5. CASE Tick
  BY <1>0, <1>a, <1>5 DEF Tick, InOrder, KeyOf, RequestOf
<1>6. CASE UNCHANGED vars
  BY <1>0, <1>6 DEF vars, InOrder, KeyOf, RequestOf
<1> QED BY <1>1, <1>2, <1>3, <1>4, <1>5, <1>6 DEF Next, Submit, Sweep

LockInv == SnapshotCurrent /\ NoLockLeak

\* A step leaves the rows alone that another session has locked.
OthersRowsStay(s) ==
    \A x \in Sessions \ {s} :
        /\ playerLock[PlayerOf(x)] = x =>
              accounts'[PlayerOf(x)] = accounts[PlayerOf(x)]
        /\ KeyOf(x) # NoKey /\ opLock[KeyOf(x)] = x =>
              operations'[KeyOf(x)] = operations[KeyOf(x)]

\* Ending a transaction keeps the lock invariant.
LEMMA ReleaseLocks ==
    ASSUME TypeOK, SessionsInOrder, LockInv, NEW s \in Sessions, Release(s),
           OthersRowsStay(s), task' = task,
           pc'[s] \in {"idle", "begin"},
           \A x \in Sessions : x # s => pc'[x] = pc[x]
    PROVE  LockInv'
<1> USE DEF LockInv, PlayerOf, KeyOf
<1>1. SnapshotCurrent'
  <2> SUFFICES ASSUME NEW x \in Sessions
               PROVE  /\ (pc[x] \in {"accrue", "settle"})' =>
                            /\ (playerLock[PlayerOf(x)] = x)'
                            /\ (seen[x] = ViewOf(accounts[PlayerOf(x)]))'
                      /\ (pc[x] \in {"lockPlayer", "settle"})' =>
                            /\ (opLock[KeyOf(x)] = x)'
                            /\ (operations[KeyOf(x)] = NoRow)'
    BY DEF SnapshotCurrent
  <2>1. CASE x = s
    BY <2>1
  <2>2. CASE x # s
    <3>1. pc'[x] = pc[x] /\ seen'[x] = seen[x]
      BY <2>2, ReleaseFacts
    <3>2. PlayerOf(x) \in Players /\ (KeyOf(x) # NoKey => KeyOf(x) \in Keys)
      BY TaskFacts
    <3>3. pc[x] \in {"lockPlayer", "settle"} => KeyOf(x) # NoKey
      BY DEF SessionsInOrder
    <3>4. ASSUME pc[x] \in {"accrue", "settle"}
          PROVE  (playerLock[PlayerOf(x)] = x /\ seen[x] = ViewOf(accounts[PlayerOf(x)]))'
      <4>1. playerLock[PlayerOf(x)] = x /\ seen[x] = ViewOf(accounts[PlayerOf(x)])
        BY <3>4 DEF SnapshotCurrent
      <4>2. accounts'[PlayerOf(x)] = accounts[PlayerOf(x)]
        BY <2>2, <4>1 DEF OthersRowsStay
      <4>3. playerLock'[PlayerOf(x)] = x
        BY <2>2, <3>2, <4>1, ReleaseFacts
      <4> QED BY <3>1, <4>1, <4>2, <4>3 DEF ViewOf
    <3>5. ASSUME pc[x] \in {"lockPlayer", "settle"}
          PROVE  (opLock[KeyOf(x)] = x /\ operations[KeyOf(x)] = NoRow)'
      <4>1. opLock[KeyOf(x)] = x /\ operations[KeyOf(x)] = NoRow
        BY <3>5 DEF SnapshotCurrent
      <4>2. operations'[KeyOf(x)] = operations[KeyOf(x)]
        BY <2>2, <3>3, <3>5, <4>1 DEF OthersRowsStay
      <4>3. opLock'[KeyOf(x)] = x
        BY <2>2, <3>2, <3>3, <3>5, <4>1, ReleaseFacts
      <4> QED BY <4>1, <4>2, <4>3 DEF NoRow, Serial!NoRow
    <3> QED BY <3>1, <3>4, <3>5
  <2> QED BY <2>1, <2>2
<1>2. NoLockLeak'
  BY ReleaseFacts, SessionAssumption DEF NoLockLeak, TypeOK, SessionsOK
<1> QED BY <1>1, <1>2

\* Every step keeps the locks exclusive and what was read under them current.
LEMMA LockStep ==
    TypeOK /\ SessionsInOrder /\ LockInv /\ [Next]_vars => LockInv'
<1> SUFFICES ASSUME TypeOK, SessionsInOrder, LockInv, [Next]_vars PROVE LockInv'
  OBVIOUS
<1> USE DEF locks, database
<1>a. ASSUME NEW s \in Sessions, NEW answer, Finish(s, answer), OthersRowsStay(s)
      PROVE  LockInv'
  BY <1>a, FinishFacts, ReleaseLocks
<1>b. ASSUME NEW s \in Sessions, AfterInterest(s), OthersRowsStay(s)
      PROVE  LockInv'
  BY <1>b, AfterInterestFacts, ReleaseLocks
<1>c. ASSUME NEW s \in Sessions, UNCHANGED <<accounts, operations>> PROVE OthersRowsStay(s)
  BY <1>c DEF OthersRowsStay
<1>d. ASSUME NEW s \in Sessions, UNCHANGED <<accounts, operations, locks, seen>>,
             \A x \in Sessions : x # s => pc'[x] = pc[x] /\ task'[x] = task[x],
             pc[s] \notin {"accrue", "settle", "lockPlayer"},
             pc'[s] \notin {"accrue", "settle", "lockPlayer"}
      PROVE  LockInv'
  BY <1>d, SessionAssumption
     DEF LockInv, SnapshotCurrent, NoLockLeak, TypeOK, SessionsOK, PlayerOf, KeyOf,
         NoRow, Serial!NoRow, ViewOf
<1>e. ASSUME NEW s \in Sessions, LockPlayerRows(s),
             UNCHANGED <<accounts, operations, opLock, task>>,
             \/ pc[s] = "lockInterest" /\ Goto(s, "accrue")
             \/ pc[s] = "lockPlayer" /\ Goto(s, "settle")
      PROVE  LockInv'
  <2>1. PlayerOf(s) \in Players
    BY TaskFacts
  <2>2. SnapshotCurrent'
    <3> SUFFICES ASSUME NEW x \in Sessions
                 PROVE  /\ (pc[x] \in {"accrue", "settle"})' =>
                              /\ (playerLock[PlayerOf(x)] = x)'
                              /\ (seen[x] = ViewOf(accounts[PlayerOf(x)]))'
                        /\ (pc[x] \in {"lockPlayer", "settle"})' =>
                              /\ (opLock[KeyOf(x)] = x)'
                              /\ (operations[KeyOf(x)] = NoRow)'
      BY DEF SnapshotCurrent
    <3>1. CASE x = s
      BY <1>e, <2>1, <3>1
         DEF LockInv, SnapshotCurrent, LockPlayerRows, Goto, TypeOK, SessionsOK,
             PlayerOf, KeyOf, ViewOf, NoRow, Serial!NoRow
    <3>2. CASE x # s
      BY <1>e, <2>1, <3>2, SessionAssumption
         DEF LockInv, SnapshotCurrent, LockPlayerRows, Goto, TypeOK, SessionsOK,
             PlayerOf, KeyOf, ViewOf, NoRow, Serial!NoRow
    <3> QED BY <3>1, <3>2
  <2>3. NoLockLeak'
    BY <1>e, <2>1, SessionAssumption
       DEF LockInv, NoLockLeak, LockPlayerRows, Goto, TypeOK, SessionsOK, PlayerOf,
           KeyOf
  <2> QED BY <2>2, <2>3 DEF LockInv
<1>1. ASSUME NEW s \in Sessions, Step(s) PROVE LockInv'
  <2>1. CASE BeginInterest(s)
    BY <1>d, <2>1 DEF BeginInterest, Goto, TypeOK, SessionsOK
  <2>2. CASE LockInterestPlayer(s)
    BY <1>e, <2>2 DEF LockInterestPlayer
  <2>3. CASE InterestPlayerNotFound(s)
    BY <1>a, <1>b, <1>c, <2>3 DEF InterestPlayerNotFound
  <2>4. CASE NothingDue(s)
    BY <1>b, <1>c, <2>4 DEF NothingDue
  <2>5. CASE Accrue(s)
    <3>1. PlayerOf(s) \in Players /\ playerLock[PlayerOf(s)] = s
      BY <2>5, TaskFacts DEF Accrue, LockInv, SnapshotCurrent
    <3>2. \A p \in Players : p # PlayerOf(s) => accounts'[p] = accounts[p]
      BY <2>5, <3>1 DEF Accrue, TypeOK, DatabaseOK
    <3>3. OthersRowsStay(s)
      BY <2>5, <3>1, <3>2, TaskFacts DEF Accrue, OthersRowsStay
    <3> QED BY <1>b, <2>5, <3>3 DEF Accrue
  <2>6. CASE AccrualFails(s)
    BY <1>a, <1>c, <2>6 DEF AccrualFails, Rollback
  <2>7. CASE RejectAmount(s)
    BY <1>a, <1>c, <2>7 DEF RejectAmount, Rollback
  <2>8. CASE BeginOperation(s)
    BY <1>d, <2>8 DEF BeginOperation, Goto, TypeOK, SessionsOK
  <2>9. CASE NoOperationYet(s)
    BY <1>d, <2>9 DEF NoOperationYet, Goto, TypeOK, SessionsOK
  <2>10. CASE InsertOperation(s)
    <3>1. KeyOf(s) \in Keys
      BY <2>10, TaskFacts DEF InsertOperation, SessionsInOrder
    <3>2. CASE operations[KeyOf(s)] # NoRow
      BY <1>d, <2>10, <3>2 DEF InsertOperation, Goto, TypeOK, SessionsOK
    <3>3. CASE operations[KeyOf(s)] = NoRow
      <4>1. /\ opLock' = [opLock EXCEPT ![KeyOf(s)] = s]
            /\ pc' = [pc EXCEPT ![s] = "lockPlayer"]
            /\ opLock[KeyOf(s)] = NoSession /\ pc[s] = "insert"
            /\ UNCHANGED <<accounts, operations, playerLock, task, seen>>
        BY <2>10, <3>3 DEF InsertOperation, Goto
      <4> QED BY <3>1, <3>3, <4>1, SessionAssumption
                 DEF LockInv, SnapshotCurrent, NoLockLeak, TypeOK, SessionsOK,
                     PlayerOf, KeyOf, ViewOf, NoRow, Serial!NoRow
    <3> QED BY <3>2, <3>3
  <2>11. CASE AnswerFromRow(s)
    BY <1>a, <1>c, <2>11 DEF AnswerFromRow
  <2>12. CASE LockPlayer(s)
    BY <1>e, <2>12 DEF LockPlayer
  <2>13. CASE PlayerNotFound(s)
    BY <1>a, <1>c, <2>13 DEF PlayerNotFound, Rollback
  <2>14. CASE Settle(s)
    <3>1. /\ PlayerOf(s) \in Players /\ playerLock[PlayerOf(s)] = s
          /\ KeyOf(s) \in Keys /\ opLock[KeyOf(s)] = s
      BY <2>14, TaskFacts DEF Settle, LockInv, SnapshotCurrent, SessionsInOrder
    <3>2. /\ \A p \in Players : p # PlayerOf(s) => accounts'[p] = accounts[p]
          /\ \A k \in Keys : k # KeyOf(s) => operations'[k] = operations[k]
      BY <2>14, <3>1 DEF Settle, TypeOK, DatabaseOK, PlayerOf, RequestOf
    <3>3. OthersRowsStay(s)
      BY <3>1, <3>2, TaskFacts DEF OthersRowsStay
    <3> QED BY <1>a, <2>14, <3>3 DEF Settle
  <2>15. CASE Refuse(s)
    BY <1>a, <1>c, <2>15 DEF Refuse, Rollback
  <2> QED BY <1>1, <2>1, <2>2, <2>3, <2>4, <2>5, <2>6, <2>7, <2>8, <2>9, <2>10,
             <2>11, <2>12, <2>13, <2>14, <2>15 DEF Step
<1>2. ASSUME NEW s \in Sessions, Abort(s) PROVE LockInv'
  BY <1>a, <1>c, <1>2 DEF Abort, Rollback
<1>3. ASSUME NEW s \in Sessions, NEW k, NEW r, TakeTask(s, k, r) PROVE LockInv'
  BY <1>d, <1>3 DEF TakeTask, Goto, TypeOK, SessionsOK
<1>4. ASSUME NEW p \in Players, NEW status, SetStatus(p, status) PROVE LockInv'
  BY <1>4, SessionAssumption
     DEF SetStatus, LockInv, SnapshotCurrent, NoLockLeak, TypeOK, DatabaseOK,
         SessionsOK, PlayerOf, KeyOf, ViewOf, NoRow, Serial!NoRow
<1>5. CASE Tick
  BY <1>5 DEF Tick, LockInv, SnapshotCurrent, NoLockLeak, PlayerOf, KeyOf, ViewOf,
              NoRow, Serial!NoRow
<1>6. CASE UNCHANGED vars
  BY <1>6 DEF vars, LockInv, SnapshotCurrent, NoLockLeak, PlayerOf, KeyOf, ViewOf,
              NoRow, Serial!NoRow
<1> QED BY <1>1, <1>2, <1>3, <1>4, <1>5, <1>6 DEF Next, Submit, Sweep

---------------------------------------------------------------------------
(* The inductive invariant.                                                *)

IInv == TypeOK /\ SessionsInOrder /\ LockInv

\* The inductive invariant holds in every reachable state.
THEOREM Invariance == Spec => []IInv
<1>1. Init => IInv
  <2> SUFFICES ASSUME Init PROVE IInv
    OBVIOUS
  <2>1. TypeOK
    BY TypeInit
  <2>2. SessionsInOrder
    BY DEF Init, Serial!Init, SessionsInOrder
  <2>3. LockInv
    BY DEF Init, LockInv, SnapshotCurrent, NoLockLeak
  <2> QED BY <2>1, <2>2, <2>3 DEF IInv
<1>2. IInv /\ [Next]_vars => IInv'
  BY TypeStep, OrderStep, LockStep DEF IInv, LockInv
<1> QED BY <1>1, <1>2, PTL DEF Spec

\* Every reachable state is well typed, and every account is one the schema's
\* CHECK constraints accept.
THEOREM TypeCorrect == Spec => []TypeOK
<1>1. IInv => TypeOK
  BY DEF IInv
<1> QED BY <1>1, Invariance, PTL

\* Sessions compute on the rows as they are in the database, and hold a row lock
\* only inside the transaction that took it.
THEOREM LocksProtect == Spec => [](SnapshotCurrent /\ NoLockLeak)
<1>1. IInv => SnapshotCurrent /\ NoLockLeak
  BY DEF IInv, LockInv
<1> QED BY <1>1, Invariance, PTL

---------------------------------------------------------------------------
(* Waits for row locks.                                                    *)

\* A session waits for another that has inserted its key, or has its player's rows.
WaitsFor(s, t) ==
    \/ pc[s] = "insert" /\ opLock[KeyOf(s)] = t
    \/ pc[s] \in {"lockInterest", "lockPlayer"} /\ playerLock[PlayerOf(s)] = t

\* Of two sessions in a row that wait for the next one, the last waits for nobody.
WaitsEnd ==
    \A s, t, u, v \in Sessions : ~ (WaitsFor(s, t) /\ WaitsFor(t, u) /\ WaitsFor(u, v))

\* Commands and the worker never wait for each other's rows in a circle: who has a
\* player's rows waits for nobody, and who has a key waits only for such rows.
THEOREM NoDeadlock == Spec => []WaitsEnd
<1>1. IInv => WaitsEnd
  <2> SUFFICES ASSUME IInv, NEW s \in Sessions, NEW t \in Sessions, NEW u \in Sessions,
                      NEW v \in Sessions, WaitsFor(s, t), WaitsFor(t, u), WaitsFor(u, v)
               PROVE  FALSE
    BY DEF WaitsEnd
  <2>1. ASSUME NEW a \in Sessions, NEW b \in Sessions, WaitsFor(a, b)
        PROVE  IF pc[a] = "insert" THEN pc[b] \in {"lockPlayer", "settle"}
                                   ELSE pc[b] \in {"accrue", "settle"}
    <3>1. PlayerOf(a) \in Players /\ (pc[a] = "insert" => KeyOf(a) \in Keys)
      BY TaskFacts DEF IInv, SessionsInOrder
    <3> QED BY <2>1, <3>1, SessionAssumption DEF IInv, LockInv, NoLockLeak, WaitsFor
  <2>2. pc[t] \in {"lockPlayer", "settle", "accrue"}
    BY <2>1
  <2>3. pc[u] \in {"settle", "accrue"}
    BY <2>1, <2>2 DEF WaitsFor
  <2> QED BY <2>3 DEF WaitsFor
<1> QED BY <1>1, Invariance, PTL

---------------------------------------------------------------------------
(* What changes the database.                                              *)

\* Under the locks, the account a session computes on is the committed one.
LEMMA WorkingIsCommitted ==
    ASSUME IInv, NEW s \in Sessions, pc[s] \in {"accrue", "settle"}
    PROVE  /\ Working(s) = accounts[PlayerOf(s)]
           /\ PlayerOf(s) \in Players
           /\ accounts[PlayerOf(s)] \in Account
           /\ accounts[PlayerOf(s)].status # "DELETED"
<1>1. PlayerOf(s) \in Players /\ accounts[PlayerOf(s)] \in Account
  BY TaskFacts DEF IInv, TypeOK, DatabaseOK
<1>2. seen[s] = ViewOf(accounts[PlayerOf(s)])
  BY DEF IInv, LockInv, SnapshotCurrent
<1>3. Working(s) = accounts[PlayerOf(s)]
  BY <1>1, <1>2 DEF Working, ViewOf, Account
<1>4. seen[s].status # "DELETED"
  BY DEF IInv, SessionsInOrder
<1> QED BY <1>1, <1>2, <1>3, <1>4 DEF ViewOf

\* A deposit or withdrawal changes wallet, bank, lots and withdrawals only, so
\* writing these columns writes the whole account.
LEMMA SettledColumns ==
    ASSUME NEW a \in Account, NEW r \in Requests, NEW t, CanSettle(a, r, t)
    PROVE  Settled(a, r, t) = [a EXCEPT !.wallet = Settled(a, r, t).wallet,
                                        !.bank = Settled(a, r, t).bank,
                                        !.lots = Settled(a, r, t).lots,
                                        !.withdrawals = Settled(a, r, t).withdrawals]
<1>1. CASE r.kind = "DEPOSIT"
  BY <1>1 DEF Settled, Deposited, Account
<1>2. CASE r.kind = "WITHDRAW"
  BY <1>2 DEF Settled, Withdrawn, Account
<1> QED BY <1>1, <1>2, RequestFacts

\* An accrual moves the cursor forward by the days it processes, and pays nothing
\* to a hard-frozen account.
LEMMA AccruedValues ==
    ASSUME NEW p, NEW a \in Account, NEW today
    PROVE  /\ AfterAccrual(p, a, today).lastDay = a.lastDay + DaysToProcess(a, today)
           /\ AfterAccrual(p, a, today).wallet = a.wallet
           /\ AfterAccrual(p, a, today).status = a.status
           /\ a.status = "HARD_FROZEN" => AfterAccrual(p, a, today).bank = a.bank
<1>1. CASE a.status = "HARD_FROZEN"
  BY <1>1 DEF AfterAccrual, Skipped, Account
<1>2. CASE a.status # "HARD_FROZEN"
  BY <1>2 DEF AfterAccrual, Accrued, Account
<1> QED BY <1>1, <1>2

---------------------------------------------------------------------------
(* Bank implements BankSerial.                                             *)

\* A later time is on no earlier day.
LEMMA DayMonotone ==
    ASSUME NEW x \in Nat, NEW y \in Nat, x <= y
    PROVE  DayOf(x) \in 0 .. DayOf(y)
BY DayLengthAssumption DEF DayOf

\* A deposit or withdrawal that commits is one step of BankSerial, on the rows as committed.
LEMMA SettleImplements ==
    ASSUME IInv, NEW s \in Sessions, Settle(s)
    PROVE  /\ KeyOf(s) \in Keys /\ RequestOf(s) \in Requests
           /\ start[s] \in 0 .. now
           /\ Serial!Settle(KeyOf(s), RequestOf(s), start[s])
<1> DEFINE k == KeyOf(s)
           r == RequestOf(s)
           a == accounts[r.player]
           t == start[s]
<1>1. pc[s] = "settle"
  BY DEF Settle
<1>2. k \in Keys /\ r \in Requests /\ r.player \in Players /\ ValidAmount(r)
  BY <1>1, TaskFacts, RequestFacts DEF IInv, SessionsInOrder
<1>3. Working(s) = a /\ a \in Account
  BY <1>1, WorkingIsCommitted DEF PlayerOf, RequestOf
<1>4. t \in 0 .. now
  BY DEF IInv, TypeOK, DatabaseOK, SessionsOK, SessionsInOrder
<1>5. operations[k] = NoRow
  BY <1>1 DEF IInv, LockInv, SnapshotCurrent
<1>6. CanSettle(a, r, t)
  BY <1>3 DEF Settle
<1>7. /\ accounts' = [accounts EXCEPT ![r.player].wallet = Settled(a, r, t).wallet,
                                      ![r.player].bank = Settled(a, r, t).bank,
                                      ![r.player].lots = Settled(a, r, t).lots,
                                      ![r.player].withdrawals =
                                            Settled(a, r, t).withdrawals]
      /\ operations' = [operations EXCEPT
                          ![k] = CommittedRow(r, ReceiptOf(a, r, t))]
      /\ ledger' = ledger \cup {EntryOf(a, k, r, t)}
      /\ outbox' = outbox \cup {UserOp(k)}
      /\ now' = now
  BY <1>3 DEF Settle
<1> HIDE DEF k, r, t
<1>8. accounts' = [accounts EXCEPT ![r.player] = Settled(a, r, t)]
  <2>1. Settled(a, r, t) = [a EXCEPT !.wallet = Settled(a, r, t).wallet,
                                     !.bank = Settled(a, r, t).bank,
                                     !.lots = Settled(a, r, t).lots,
                                     !.withdrawals = Settled(a, r, t).withdrawals]
    BY <1>2, <1>3, <1>6, SettledColumns
  <2> QED BY <1>2, <1>7, <2>1 DEF IInv, TypeOK, DatabaseOK
<1>9. Serial!Settle(k, r, t)
  BY <1>2, <1>5, <1>6, <1>7, <1>8 DEF Serial!Settle, NoRow, CommittedRow
<1> QED BY <1>2, <1>4, <1>9 DEF k, r, t

\* An accrual that commits is one step of BankSerial, on the rows as committed.
LEMMA AccrueImplements ==
    ASSUME IInv, NEW s \in Sessions, Accrue(s)
    PROVE  /\ PlayerOf(s) \in Players
           /\ DayOf(start[s]) \in 0 .. DayOf(now)
           /\ Serial!Accrue(PlayerOf(s), DayOf(start[s]))
<1> DEFINE p == PlayerOf(s)
           a == accounts[p]
           today == DayOf(start[s])
           after == AfterAccrual(p, a, today)
<1>1. /\ Working(s) = a /\ p \in Players /\ a \in Account
      /\ a.status # "DELETED"
  BY WorkingIsCommitted DEF Accrue
<1>2. today \in 0 .. DayOf(now)
  BY DayMonotone DEF IInv, TypeOK, DatabaseOK, SessionsOK, SessionsInOrder
<1>3. today \in Nat
  BY DayLengthAssumption DEF IInv, TypeOK, SessionsOK, DayOf
<1>4. /\ Due(a, today) /\ CanAccrue(p, a, today)
      /\ accounts' = [accounts EXCEPT ![p].bank = after.bank,
                                      ![p].lots = after.lots,
                                      ![p].remainder = after.remainder,
                                      ![p].lastDay = after.lastDay]
      /\ ledger' = ledger \cup EntriesOfAccrual(p, a, today)
      /\ outbox' = outbox \cup {e.op : e \in EntriesOfAccrual(p, a, today)}
      /\ UNCHANGED <<operations, now>>
  BY <1>1 DEF Accrue
<1> HIDE DEF p, today
<1>5. accounts' = [accounts EXCEPT ![p] = after]
  <2>1. after = [a EXCEPT !.bank = after.bank, !.lots = after.lots,
                          !.remainder = after.remainder, !.lastDay = after.lastDay]
    <3>1. CASE a.status = "HARD_FROZEN"
      BY <1>1, <3>1 DEF AfterAccrual, Skipped, Account
    <3>2. CASE a.status # "HARD_FROZEN"
      BY <1>1, <3>2 DEF AfterAccrual, Accrued, Account
    <3> QED BY <3>1, <3>2
  <2> HIDE DEF after
  <2> QED BY <1>1, <1>4, <2>1 DEF IInv, TypeOK, DatabaseOK
<1>6. Serial!Accrue(p, today)
  BY <1>1, <1>4, <1>5 DEF Serial!Accrue
<1> QED BY <1>1, <1>2, <1>6 DEF p, today

\* Every step of the code is one step of the abstract specification or changes
\* none of what it speaks of.
LEMMA StepImplements == IInv /\ [Next]_vars => [Serial!Next]_(Serial!vars)
<1> SUFFICES ASSUME IInv, [Next]_vars PROVE [Serial!Next]_(Serial!vars)
  OBVIOUS
<1> USE DEF Serial!vars, database
<1>1. ASSUME NEW s \in Sessions, Step(s) PROVE [Serial!Next]_(Serial!vars)
  <2>1. CASE Settle(s)
    BY <2>1, SettleImplements DEF Serial!Next
  <2>2. CASE Accrue(s)
    BY <2>2, AccrueImplements DEF Serial!Next
  <2>3. CASE ~ Settle(s) /\ ~ Accrue(s)
    BY <1>1, <2>3
       DEF Step, BeginInterest, LockInterestPlayer, InterestPlayerNotFound,
           NothingDue, AccrualFails, RejectAmount, BeginOperation, NoOperationYet,
           InsertOperation, AnswerFromRow, LockPlayer, PlayerNotFound, Refuse,
           Rollback
  <2> QED BY <2>1, <2>2, <2>3
<1>2. ASSUME NEW p \in Players, NEW status \in OperatorStatuses, SetStatus(p, status)
      PROVE  [Serial!Next]_(Serial!vars)
  BY <1>2, StatusAssumption DEF SetStatus, Serial!SetStatus, Serial!Next
<1>3. CASE Tick
  BY <1>3 DEF Tick, Serial!Tick, Serial!Next
<1>4. ASSUME NEW s \in Sessions, Abort(s) PROVE [Serial!Next]_(Serial!vars)
  BY <1>4 DEF Abort, Rollback
<1>5. ASSUME NEW s \in Sessions, NEW k, NEW r, TakeTask(s, k, r)
      PROVE  [Serial!Next]_(Serial!vars)
  BY <1>5 DEF TakeTask
<1>6. CASE UNCHANGED vars
  BY <1>6 DEF vars
<1> QED BY <1>1, <1>2, <1>3, <1>4, <1>5, <1>6 DEF Next, Submit, Sweep

\* The transactions of the code, with their locks, errors and retries, implement
\* one-request-at-a-time settlement.
THEOREM Implementation == Spec => ImplementsSerial
<1>1. Init => Serial!Init
  BY DEF Init
<1> QED BY <1>1, StepImplements, Invariance, PTL DEF Spec, ImplementsSerial, Serial!Spec

---------------------------------------------------------------------------
(* What a step may never do.                                               *)

\* A committed operation, ledger transaction or outbox event is never changed or
\* removed.
THEOREM Permanence == Spec => CommittedForever
<1> DEFINE Permanent ==
        /\ \A k \in Keys : operations[k] # NoRow => operations'[k] = operations[k]
        /\ ledger \subseteq ledger'
        /\ outbox \subseteq outbox'
<1>1. IInv /\ [Next]_vars => [Permanent]_vars
  <2> SUFFICES ASSUME IInv, [Next]_vars PROVE Permanent
    OBVIOUS
  <2>1. operations \in [Keys -> Row]
    BY DEF IInv, TypeOK, DatabaseOK
  <2>2. CASE UNCHANGED Serial!vars
    BY <2>2 DEF Serial!vars
  <2>3. CASE Serial!Next
    BY <2>1, <2>3
       DEF Serial!Next, Serial!Settle, Serial!Accrue, Serial!SetStatus, Serial!Tick,
           NoRow
  <2> QED BY <2>2, <2>3, StepImplements
<1> QED BY <1>1, Invariance, PTL DEF Spec, CommittedForever

\* Money moves only in accounts whose status at that moment allows it.
THEOREM FreezeHolds == Spec => FrozenMoneyStays
<1> DEFINE Holds(p) ==
        /\ accounts[p].status # "ACTIVE" => accounts'[p].wallet = accounts[p].wallet
        /\ accounts[p].status \in {"HARD_FROZEN", "DELETED"} =>
              accounts'[p].bank = accounts[p].bank
<1>1. IInv /\ [Next]_vars => [\A p \in Players : Holds(p)]_vars
  <2> SUFFICES ASSUME IInv, [Next]_vars, NEW p \in Players PROVE Holds(p)
    OBVIOUS
  <2>1. accounts \in [Players -> Account] /\ accounts[p] \in Account
    BY DEF IInv, TypeOK, DatabaseOK
  <2>2. ASSUME NEW k \in Keys, NEW r \in Requests, NEW t, Serial!Settle(k, r, t)
        PROVE  Holds(p)
    <3>1. r.kind \in {"DEPOSIT", "WITHDRAW"}
      BY RequestFacts
    <3>2. accounts[r.player].status = "ACTIVE"
      BY <2>2, <3>1 DEF Serial!Settle, CanSettle, Accepts, CanDeposit, CanWithdraw
    <3> QED BY <2>1, <2>2, <3>2 DEF Serial!Settle
  <2>3. ASSUME NEW x \in Players, NEW today, Serial!Accrue(x, today) PROVE Holds(p)
    <3>1. accounts[x].status # "DELETED"
      BY <2>3 DEF Serial!Accrue
    <3>2. accounts' = [accounts EXCEPT ![x] = AfterAccrual(x, accounts[x], today)]
      BY <2>3 DEF Serial!Accrue
    <3> QED BY <2>1, <3>1, <3>2, AccruedValues
  <2>4. ASSUME NEW x \in Players, NEW status, Serial!SetStatus(x, status) PROVE Holds(p)
    BY <2>1, <2>4 DEF Serial!SetStatus, Account
  <2>5. CASE Serial!Tick \/ UNCHANGED Serial!vars
    BY <2>5 DEF Serial!Tick, Serial!vars
  <2> QED BY <2>2, <2>3, <2>4, <2>5, StepImplements DEF Serial!Next
<1> QED BY <1>1, Invariance, PTL DEF Spec, FrozenMoneyStays

\* The accrual cursor never goes back.
THEOREM CursorAdvances == Spec => CursorMonotone
<1> DEFINE Forward(p) == accounts'[p].lastDay >= accounts[p].lastDay
<1>1. IInv /\ [Next]_vars => [\A p \in Players : Forward(p)]_vars
  <2> SUFFICES ASSUME IInv, [Next]_vars, NEW p \in Players PROVE Forward(p)
    OBVIOUS
  <2>1. /\ accounts \in [Players -> Account]
        /\ accounts[p] \in Account
        /\ accounts[p].lastDay \in Nat
        /\ now \in Nat
    BY DEF IInv, TypeOK, DatabaseOK, Account
  <2>2. ASSUME NEW k \in Keys, NEW r \in Requests, NEW t, Serial!Settle(k, r, t)
        PROVE  Forward(p)
    <3>1. r.kind \in {"DEPOSIT", "WITHDRAW"} /\ r.player \in Players
      BY RequestFacts
    <3>2. Settled(accounts[r.player], r, t).lastDay = accounts[r.player].lastDay
      BY <2>1, <3>1 DEF Settled, Deposited, Withdrawn, Account
    <3>3. accounts'[p].lastDay = accounts[p].lastDay
      BY <2>1, <2>2, <3>1, <3>2 DEF Serial!Settle
    <3> QED BY <2>1, <3>3
  <2>3. ASSUME NEW x \in Players, NEW today \in 0 .. DayOf(now), Serial!Accrue(x, today)
        PROVE  Forward(p)
    <3>1. accounts' = [accounts EXCEPT ![x] = AfterAccrual(x, accounts[x], today)]
      BY <2>3 DEF Serial!Accrue
    <3>2. accounts[x] \in Account /\ accounts[x].lastDay \in Nat /\ today \in Nat
      BY <2>1, <2>3 DEF Account
    <3>3. DaysToProcess(accounts[x], today) \in Nat
      BY <2>3, <3>2, AccrualFacts DEF Serial!Accrue
    <3>4. AfterAccrual(x, accounts[x], today).lastDay >= accounts[x].lastDay
      BY <3>2, <3>3, AccruedValues
    <3> QED BY <2>1, <3>1, <3>4
  <2>4. ASSUME NEW x \in Players, NEW status, Serial!SetStatus(x, status)
        PROVE  Forward(p)
    BY <2>1, <2>4 DEF Serial!SetStatus, Account
  <2>5. CASE Serial!Tick \/ UNCHANGED Serial!vars
    BY <2>1, <2>5 DEF Serial!Tick, Serial!vars
  <2> QED BY <2>2, <2>3, <2>4, <2>5, StepImplements DEF Serial!Next
<1> QED BY <1>1, Invariance, PTL DEF Spec, CursorMonotone

---------------------------------------------------------------------------
(* Invariants of the ledger.                                               *)

\* No day after the accrual cursor is paid, and the cursor is never in the future.
THEOREM NoDayPaidTwice == Spec => []InterestBehindCursor
<1>1. Init => InterestBehindCursor
  BY DayLengthAssumption
     DEF Init, Serial!Init, Serial!NewAccount, InterestBehindCursor, DayOf
<1>2. IInv /\ InterestBehindCursor /\ [Next]_vars => InterestBehindCursor'
  <2> SUFFICES ASSUME IInv, InterestBehindCursor, [Next]_vars
               PROVE  InterestBehindCursor'
    OBVIOUS
  <2>1. /\ accounts \in [Players -> Account]
        /\ \A p \in Players : accounts[p] \in Account /\ accounts[p].lastDay \in Nat
        /\ now \in Nat
        /\ ledger \subseteq LedgerEntry
    BY DEF IInv, TypeOK, DatabaseOK, Account
  <2>2. ASSUME NEW k \in Keys, NEW r \in Requests, NEW t, Serial!Settle(k, r, t)
        PROVE  InterestBehindCursor'
    <3>1. r.kind \in {"DEPOSIT", "WITHDRAW"} /\ r.player \in Players
      BY RequestFacts
    <3>2. Settled(accounts[r.player], r, t).lastDay = accounts[r.player].lastDay
      BY <2>1, <3>1 DEF Settled, Deposited, Withdrawn, Account
    <3>3. \A p \in Players : accounts'[p].lastDay = accounts[p].lastDay
      BY <2>1, <2>2, <3>1, <3>2 DEF Serial!Settle
    <3>4. EntryOf(accounts[r.player], k, r, t).kind # "INTEREST"
      BY <3>1 DEF EntryOf, Entry
    <3>5. \A e \in ledger' : e.kind = "INTEREST" => e \in ledger
      BY <2>2, <3>4 DEF Serial!Settle
    <3> QED BY <2>1, <2>2, <3>3, <3>5
               DEF InterestBehindCursor, LedgerEntry, Serial!Settle
  <2>3. ASSUME NEW x \in Players, NEW today \in 0 .. DayOf(now), Serial!Accrue(x, today)
        PROVE  InterestBehindCursor'
    <3> DEFINE a == accounts[x]
               after == AfterAccrual(x, a, today)
    <3>1. accounts' = [accounts EXCEPT ![x] = after]
      BY <2>3 DEF Serial!Accrue
    <3>2. a \in Account /\ a.lastDay \in Nat /\ today \in Nat
      BY <2>1, <2>3
    <3>3. /\ DaysToProcess(a, today) \in Nat
          /\ a.lastDay + DaysToProcess(a, today) <= today
          /\ \A e \in EntriesOfAccrual(x, a, today) :
                /\ e.player = x
                /\ e.op[2] \in (a.lastDay + 1) .. (a.lastDay + DaysToProcess(a, today))
      BY <2>3, <3>2, AccrualFacts DEF Serial!Accrue
    <3>4. after.lastDay = a.lastDay + DaysToProcess(a, today)
      BY <3>2, AccruedValues
    <3>5. after.lastDay <= DayOf(now) /\ now' = now
      <4>1. DayOf(now) \in Nat
        BY <2>1, DayLengthAssumption DEF DayOf
      <4> QED BY <2>3, <3>2, <3>3, <3>4, <4>1 DEF Serial!Accrue
    <3>6. \A p \in Players : accounts'[p].lastDay <= DayOf(now)
      BY <2>1, <3>1, <3>5 DEF InterestBehindCursor
    <3>7. ASSUME NEW e \in ledger', e.kind = "INTEREST"
          PROVE  e.op[2] <= accounts'[e.player].lastDay
      <4>1. CASE e \in EntriesOfAccrual(x, a, today)
        BY <2>1, <3>1, <3>2, <3>3, <3>4, <4>1
      <4>2. CASE e \in ledger
        <5>1. e \in LedgerEntry /\ e.op[2] <= accounts[e.player].lastDay
          BY <2>1, <3>7, <4>2 DEF InterestBehindCursor
        <5>2. e.player \in Players
          BY <5>1 DEF LedgerEntry
        <5>3. CASE e.player = x
          <6>1. e.op[2] \in Int
            BY <3>7, <5>1 DEF LedgerEntry, SystemOps, Kinds
          <6> QED BY <2>1, <3>1, <3>2, <3>3, <3>4, <5>1, <5>3, <6>1
        <5>4. CASE e.player # x
          BY <2>1, <3>1, <5>1, <5>2, <5>4
        <5> QED BY <5>3, <5>4
      <4> QED BY <2>3, <3>7, <4>1, <4>2 DEF Serial!Accrue
    <3> QED BY <3>5, <3>6, <3>7 DEF InterestBehindCursor, DayOf
  <2>4. ASSUME NEW x \in Players, NEW status, Serial!SetStatus(x, status)
        PROVE  InterestBehindCursor'
    <3>1. \A p \in Players : accounts'[p].lastDay = accounts[p].lastDay
      BY <2>1, <2>4 DEF Serial!SetStatus, Account
    <3> QED BY <2>1, <2>4, <3>1
            DEF Serial!SetStatus, InterestBehindCursor, LedgerEntry
  <2>5. CASE Serial!Tick
    <3>1. DayOf(now) <= DayOf(now')
      BY <2>1, <2>5, DayMonotone, DayLengthAssumption DEF Serial!Tick, DayOf
    <3>2. DayOf(now) \in Nat /\ DayOf(now') \in Nat
      BY <2>1, <2>5, DayLengthAssumption DEF Serial!Tick, DayOf
    <3> QED BY <2>1, <2>5, <3>1, <3>2 DEF Serial!Tick, InterestBehindCursor, DayOf
  <2>6. CASE UNCHANGED Serial!vars
    BY <2>6 DEF Serial!vars, InterestBehindCursor, DayOf
  <2> QED BY <2>2, <2>3, <2>4, <2>5, <2>6, StepImplements DEF Serial!Next
<1> QED BY <1>1, <1>2, Invariance, PTL DEF Spec

\* What SettledTogether says of one key.
Together(k) ==
    LET mine == {e \in ledger : e.op = UserOp(k)}
        row == operations[k]
    IN  IF row = NoRow
        THEN mine = {} /\ UserOp(k) \notin outbox
        ELSE /\ UserOp(k) \in outbox
             /\ \E e \in mine :
                    /\ mine = {e}
                    /\ e.player = row.request.player
                    /\ e.kind = row.request.kind
                    /\ e.system = row.receipt.fee
                    /\ e.bank = IF e.kind = "DEPOSIT" THEN row.receipt.gross
                                                     ELSE - row.receipt.gross

\* A committed operation, its one ledger transaction and its outbox event commit
\* together and agree.
THEOREM CommitsWhole == Spec => []SettledTogether
<1>1. Init => SettledTogether
  BY DEF Init, Serial!Init, SettledTogether, NoRow
<1>2. IInv /\ SettledTogether /\ [Next]_vars => SettledTogether'
  <2> SUFFICES ASSUME IInv, SettledTogether, [Next]_vars, NEW k \in Keys
               PROVE  Together(k)'
    BY DEF SettledTogether, Together
  <2>1. /\ operations \in [Keys -> Row]
        /\ accounts \in [Players -> Account]
        /\ ledger \subseteq LedgerEntry
        /\ now \in Nat
        /\ Together(k)
    BY DEF IInv, TypeOK, DatabaseOK, SettledTogether, Together
  <2>2. ASSUME NEW x \in Keys, NEW r \in Requests, NEW t, Serial!Settle(x, r, t)
        PROVE  Together(k)'
    <3> DEFINE a == accounts[r.player]
               e == EntryOf(a, x, r, t)
               receipt == ReceiptOf(a, r, t)
    <3>1. r.kind \in {"DEPOSIT", "WITHDRAW"}
      BY RequestFacts
    <3>2. /\ e.op = <<x>> /\ e.player = r.player /\ e.kind = r.kind
          /\ e.system = receipt.fee
          /\ e.bank = IF e.kind = "DEPOSIT" THEN receipt.gross ELSE - receipt.gross
      BY <3>1 DEF EntryOf, Entry, ReceiptOf, FeeOf
    <3>3. /\ operations[x] = NoRow
          /\ operations' = [operations EXCEPT ![x] = CommittedRow(r, receipt)]
          /\ ledger' = ledger \cup {e}
          /\ outbox' = outbox \cup {<<x>>}
      BY <2>2 DEF Serial!Settle, NoRow, CommittedRow
    <3> HIDE DEF e, receipt
    <3>4. CASE x = k
      <4>1. operations'[k] = CommittedRow(r, receipt)
        BY <2>1, <3>3, <3>4
      <4>2. {d \in ledger : d.op = <<k>>} = {}
        BY <2>1, <3>3, <3>4 DEF Together
      <4>3. {d \in ledger' : d.op = <<k>>} = {e}
        BY <3>2, <3>3, <3>4, <4>2
      <4> QED BY <3>2, <3>3, <3>4, <4>1, <4>3
                 DEF Together, CommittedRow, Serial!CommittedRow, NoRow, Serial!NoRow
    <3>5. CASE x # k
      <4>1. operations'[k] = operations[k]
        BY <2>1, <3>3, <3>5
      <4>2. {d \in ledger' : d.op = <<k>>} = {d \in ledger : d.op = <<k>>}
        BY <3>2, <3>3, <3>5
      <4>3. <<k>> \in outbox' <=> <<k>> \in outbox
        BY <3>3, <3>5
      <4> QED BY <2>1, <4>1, <4>2, <4>3 DEF Together, NoRow, Serial!NoRow
    <3> QED BY <3>4, <3>5
  <2>3. ASSUME NEW x \in Players, NEW today \in 0 .. DayOf(now), Serial!Accrue(x, today)
        PROVE  Together(k)'
    <3> DEFINE a == accounts[x]
               entries == EntriesOfAccrual(x, a, today)
    <3>1. a.lastDay \in Nat /\ today \in Nat
      BY <2>1, <2>3 DEF Account
    <3>2. \A e \in entries : e.op \in Players \X Nat
      BY <2>3, <3>1, AccrualFacts DEF Serial!Accrue
    <3>3. /\ operations' = operations
          /\ ledger' = ledger \cup entries
          /\ outbox' = outbox \cup {e.op : e \in entries}
      BY <2>3 DEF Serial!Accrue
    <3> HIDE DEF entries
    <3>4. \A e \in entries : e.op # <<k>>
      BY <3>2
    <3>5. {d \in ledger' : d.op = <<k>>} = {d \in ledger : d.op = <<k>>}
      BY <3>3, <3>4
    <3>6. <<k>> \in outbox' <=> <<k>> \in outbox
      BY <3>3, <3>4
    <3> QED BY <2>1, <3>3, <3>5, <3>6 DEF Together, NoRow, Serial!NoRow
  <2>4. CASE UNCHANGED <<operations, ledger, outbox>>
    BY <2>1, <2>4 DEF Together, NoRow, Serial!NoRow
  <2> QED BY <2>2, <2>3, <2>4, StepImplements
          DEF Serial!Next, Serial!SetStatus, Serial!Tick, Serial!vars
<1> QED BY <1>1, <1>2, Invariance, PTL DEF Spec

---------------------------------------------------------------------------
(* Replies.                                                                *)

\* A session that answered with a receipt worked on a request key.
Answered(s) ==
    reply[s].outcome = "RECEIPT" =>
        /\ KeyOf(s) \in Keys
        /\ operations[KeyOf(s)] = CommittedRow(RequestOf(s), reply[s].receipt)

\* Every receipt that was handed out is the one stored for its key.
THEOREM ReceiptsAgree == Spec => []RepliesAgree
<1> DEFINE AllAnswered == \A s \in Sessions : Answered(s)
<1>1. Init => AllAnswered
  BY DEF Init, Answered, Nothing
<1>2. IInv /\ AllAnswered /\ [Next]_vars => AllAnswered'
  <2> SUFFICES ASSUME IInv, AllAnswered, [Next]_vars, NEW x \in Sessions
               PROVE  Answered(x)'
    OBVIOUS
  <2>1. TypeOK /\ operations \in [Keys -> Row] /\ Answered(x)
    BY DEF IInv, TypeOK, DatabaseOK
  <2>2. \A k \in Keys : operations[k] # NoRow => operations'[k] = operations[k]
    BY <2>1, StepImplements
       DEF Serial!Next, Serial!Settle, Serial!Accrue, Serial!SetStatus, Serial!Tick,
           Serial!vars, NoRow
  <2>3. ASSUME task'[x] = task[x], reply'[x] = reply[x] PROVE Answered(x)'
    BY <2>1, <2>2, <2>3
       DEF Answered, KeyOf, RequestOf, CommittedRow, Serial!CommittedRow, NoRow,
           Serial!NoRow
  <2>4. ASSUME reply'[x].outcome # "RECEIPT" PROVE Answered(x)'
    BY <2>4 DEF Answered
  <2>5. ASSUME NEW s \in Sessions, Step(s) PROVE Answered(x)'
    <3>1. CASE Settle(s)
      <4>1. CASE x = s
        <5>1. KeyOf(s) \in Keys
          BY <3>1, SettleImplements
        <5>2. /\ task' = task
              /\ reply'[s] = Answer(ReceiptOf(Working(s), RequestOf(s), start[s]))
          BY <2>1, <3>1, FinishFacts DEF Settle
        <5>3. operations'[KeyOf(s)] =
                 CommittedRow(RequestOf(s), ReceiptOf(Working(s), RequestOf(s), start[s]))
          BY <2>1, <3>1, <5>1 DEF Settle
        <5> QED BY <4>1, <5>1, <5>2, <5>3
                   DEF Answered, Answer, KeyOf, RequestOf, CommittedRow,
                       Serial!CommittedRow
      <4>2. CASE x # s
        BY <2>1, <2>3, <3>1, <4>2, FinishFacts DEF Settle
      <4> QED BY <4>1, <4>2
    <3>2. CASE AnswerFromRow(s)
      <4>1. CASE x = s
        <5>1. KeyOf(s) \in Keys
          BY <3>2, TaskFacts DEF AnswerFromRow, IInv, SessionsInOrder
        <5>2. operations[KeyOf(s)] \in Row /\ operations[KeyOf(s)] # NoRow
              /\ operations' = operations /\ task' = task
          BY <2>1, <3>2, <5>1, FinishFacts DEF AnswerFromRow, database
        <5>3. CASE operations[KeyOf(s)].request = RequestOf(s)
          <6>1. reply'[s] = Answer(operations[KeyOf(s)].receipt)
            BY <2>1, <3>2, <5>3, FinishFacts DEF AnswerFromRow
          <6>2. operations[KeyOf(s)] = CommittedRow(RequestOf(s), operations[KeyOf(s)].receipt)
            BY <5>2, <5>3 DEF Row, CommittedRow, Serial!CommittedRow
          <6> QED BY <4>1, <5>1, <5>2, <6>1, <6>2
                     DEF Answered, Answer, KeyOf, RequestOf, CommittedRow,
                         Serial!CommittedRow
        <5>4. CASE operations[KeyOf(s)].request # RequestOf(s)
          BY <2>1, <2>4, <3>2, <4>1, <5>4, FinishFacts DEF AnswerFromRow, Failed
        <5> QED BY <5>3, <5>4
      <4>2. CASE x # s
        BY <2>1, <2>3, <3>2, <4>2, FinishFacts DEF AnswerFromRow
      <4> QED BY <4>1, <4>2
    <3>3. CASE BeginInterest(s) \/ LockInterestPlayer(s) \/ BeginOperation(s)
               \/ NoOperationYet(s) \/ InsertOperation(s) \/ LockPlayer(s)
      BY <2>3, <3>3
         DEF BeginInterest, LockInterestPlayer, BeginOperation, NoOperationYet,
             InsertOperation, LockPlayer
    <3>4. ASSUME AfterInterest(s) PROVE Answered(x)'
      BY <2>1, <2>3, <2>4, <3>4, AfterInterestFacts DEF Done
    <3>5. ASSUME Finish(s, Failed) PROVE Answered(x)'
      BY <2>1, <2>3, <2>4, <3>5, FinishFacts DEF Failed
    <3> QED BY <2>5, <3>1, <3>2, <3>3, <3>4, <3>5
            DEF Step, InterestPlayerNotFound, NothingDue, Accrue, AccrualFails,
                RejectAmount, PlayerNotFound, Refuse, Rollback
  <2>6. ASSUME NEW s \in Sessions, Abort(s) PROVE Answered(x)'
    BY <2>1, <2>3, <2>4, <2>6, FinishFacts DEF Abort, Rollback, Failed
  <2>7. ASSUME NEW s \in Sessions, NEW k, NEW r, TakeTask(s, k, r) PROVE Answered(x)'
    <3>1. CASE x = s
      BY <2>1, <2>4, <2>7, <3>1 DEF TakeTask, TypeOK, SessionsOK, Nothing
    <3>2. CASE x # s
      BY <2>1, <2>3, <2>7, <3>2 DEF TakeTask, TypeOK, SessionsOK
    <3> QED BY <3>1, <3>2
  <2>8. CASE UNCHANGED <<task, reply>>
    BY <2>3, <2>8
  <2> QED BY <2>5, <2>6, <2>7, <2>8 DEF Next, Submit, Sweep, SetStatus, Tick, vars
<1>3. AllAnswered => RepliesAgree
  BY DEF Answered, RepliesAgree
<1> QED BY <1>1, <1>2, <1>3, Invariance, PTL DEF Spec

---------------------------------------------------------------------------
(* What one settled request does to an account.                            *)

\* An account the schema accepts holds whole amounts.
LEMMA AccountFacts ==
    ASSUME NEW a \in Account
    PROVE  /\ a.lots \in Seq(OpenLot)
           /\ a.wallet \in Nat /\ a.bank \in Nat /\ a.lastDay \in Nat
           /\ a.remainder \in 0 .. (InterestDenominator - 1)
           /\ Reconciles(a) => Payable(a)
<1>1. /\ a.lots \in Seq(Lot) /\ a.wallet \in Money /\ a.bank \in Money
      /\ a.lastDay \in Nat /\ a.remainder \in 0 .. (InterestDenominator - 1)
  BY DEF Account
<1>2. Money \subseteq Nat
  BY MoneyAssumption DEF Money
<1>3. a.lots \in Seq(OpenLot)
  <2>1. Lot \subseteq OpenLot
    BY <1>2 DEF Lot, OpenLot
  <2> HIDE DEF Lot, OpenLot
  <2> QED
    BY <1>1, <2>1
<1> QED
  BY <1>1, <1>2, <1>3 DEF Payable, Reconciles

\* A deposit adds a lot and leaves the others as they are.
LEMMA DepositLots ==
    ASSUME NEW lots \in Seq(OpenLot), NEW t \in Nat, NEW amount \in Nat
    PROVE  LET new == Append(lots, [at |-> t, left |-> amount])
           IN  /\ Principal(new) = Principal(lots) + amount
               /\ \A i \in DOMAIN lots : new[i] = lots[i]
<1> DEFINE lot == [at |-> t, left |-> amount]
           new == Append(lots, lot)
           n == Len(lots) + 1
           D == DOMAIN lots
<1>1. lot \in OpenLot /\ lot.left = amount
  BY DEF OpenLot
<1> HIDE DEF lot
<1>2. /\ new \in Seq(OpenLot) /\ DOMAIN new = D \cup {n} /\ n \notin D
      /\ new[n] = lot /\ \A i \in D : new[i] = lots[i]
  BY <1>1
<1>3. /\ IsFiniteSet(D) /\ \A i \in D : Lefts(lots)[i] = lots[i].left
      /\ \A i \in D : lots[i].left \in Nat
  BY LotsFacts
<1>4. \A i \in DOMAIN new : Lefts(new)[i] = new[i].left
  BY <1>2, LotsFacts
<1>5. Principal(lots) = SumFunctionOnSet(Lefts(lots), D)
  BY PrincipalSum
<1>6. Principal(new) = SumFunctionOnSet(Lefts(new), D \cup {n})
  <2>1. Principal(new) = SumFunctionOnSet(Lefts(new), DOMAIN new)
    BY <1>2, PrincipalSum
  <2> QED
    BY <1>2, <2>1, Zenon
<1> HIDE DEF D, n, new
<1>7. /\ Lefts(new)[n] = amount
      /\ \A i \in D : Lefts(lots)[i] \in Int /\ Lefts(new)[i] = Lefts(lots)[i]
                      /\ Lefts(new)[i] \in Int
  BY <1>1, <1>2, <1>3, <1>4
<1>8. SumFunctionOnSet(Lefts(new), D \cup {n}) = SumFunctionOnSet(Lefts(new), D) + amount
  BY <1>2, <1>3, <1>7, SumAdd
<1>9. SumFunctionOnSet(Lefts(new), D) = SumFunctionOnSet(Lefts(lots), D)
  BY <1>3, <1>7, SumSame
<1> QED
  BY <1>2, <1>5, <1>6, <1>8, <1>9 DEF new, D, lot

\* A lot may hold less afterwards only if every lot read before it is empty.
TakenInOrder(old, new) ==
    \A i \in DOMAIN old :
        new[i].left < old[i].left => \A j \in Ahead(old, i) : new[j].left = 0

\* Nothing is taken where no lot holds less.
LEMMA NothingTaken ==
    ASSUME NEW old \in Seq(OpenLot), NEW new \in Seq(OpenLot), NoneLowered(old, new)
    PROVE  TakenInOrder(old, new)
<1>1. \A i \in DOMAIN old : /\ i \in DOMAIN new /\ old[i].left \in Nat
                            /\ new[i].left \in Nat /\ new[i].left >= old[i].left
  BY LotsFacts DEF NoneLowered
<1> QED
  BY <1>1 DEF TakenInOrder

\* A deposit or a withdrawal keeps the principal of the lots equal to the
\* balance, and takes from the lots in order.
LEMMA SettledLots ==
    ASSUME NEW a \in Account, Reconciles(a), NEW r \in Requests, NEW t \in Nat,
           ValidAmount(r), CanSettle(a, r, t)
    PROVE  /\ Reconciles(Settled(a, r, t))
           /\ TakenInOrder(a.lots, Settled(a, r, t).lots)
<1> DEFINE new == Settled(a, r, t)
<1>1. /\ a.lots \in Seq(OpenLot) /\ a.bank \in Nat /\ r.amount \in Nat
      /\ Principal(a.lots) = a.bank
  BY AccountFacts, RequestFacts DEF ValidAmount, Reconciles
<1>2. \A i \in DOMAIN a.lots : a.lots[i].left \in Nat
  BY <1>1, LotsFacts
<1>3. CASE r.kind = "DEPOSIT"
  <2> DEFINE lots == Append(a.lots, [at |-> t, left |-> r.amount])
  <2>1. new.bank = a.bank + r.amount /\ new.lots = lots
    BY <1>3 DEF Settled, Deposited, Account
  <2>2. Principal(lots) = Principal(a.lots) + r.amount /\ \A i \in DOMAIN a.lots : lots[i] = a.lots[i]
    BY <1>1, DepositLots
  <2> HIDE DEF lots, new
  <2>3. TakenInOrder(a.lots, new.lots)
    BY <1>2, <2>1, <2>2 DEF TakenInOrder
  <2> QED
    BY <1>1, <2>1, <2>2, <2>3 DEF Reconciles, new
<1>4. CASE r.kind = "WITHDRAW"
  <2>1. new.bank = a.bank - r.amount /\ new.lots = Debited(a.lots, r.amount)
    BY <1>4 DEF Settled, Withdrawn, Account
  <2>2. LotsCover(a.lots, r.amount)
    BY <1>4 DEF CanSettle, Accepts, CanWithdraw
  <2>3. Principal(Debited(a.lots, r.amount)) = Principal(a.lots) - r.amount
    BY <1>1, <2>2, DebitExact
  <2>4. TakenInOrder(a.lots, Debited(a.lots, r.amount))
    BY <1>1, DebitInOrder DEF TakenInOrder
  <2> HIDE DEF new
  <2> QED
    BY <1>1, <2>1, <2>3, <2>4 DEF Reconciles, new
<1> QED
  BY <1>3, <1>4, RequestFacts

\* An accrual keeps the principal of the lots equal to the balance and takes
\* nothing from them.
LEMMA AccruedLots ==
    ASSUME NEW p \in Players, NEW a \in Account, Reconciles(a), NEW today \in Nat,
           Due(a, today), CanAccrue(p, a, today)
    PROVE  /\ Reconciles(AfterAccrual(p, a, today))
           /\ TakenInOrder(a.lots, AfterAccrual(p, a, today).lots)
<1> DEFINE new == AfterAccrual(p, a, today)
           n == DaysToProcess(a, today)
           after == Compounded(p, a, today)
<1>1. /\ a.lots \in Seq(OpenLot) /\ a.lastDay \in Nat /\ Payable(a)
  BY AccountFacts
<1>2. n \in Nat
  BY <1>1, AccrualFacts
<1>3. CASE a.status = "HARD_FROZEN"
  <2>1. new.bank = a.bank /\ new.lots = a.lots
    BY <1>3 DEF AfterAccrual, Skipped, Account
  <2>2. NoneLowered(a.lots, a.lots)
    <3>1. \A i \in DOMAIN a.lots : a.lots[i].left \in Nat
      BY <1>1, LotsFacts
    <3> QED
      BY <3>1 DEF NoneLowered
  <2>3. TakenInOrder(a.lots, a.lots)
    BY <1>1, <2>2, NothingTaken
  <2> QED
    BY <2>1, <2>3 DEF Reconciles
<1>4. CASE a.status # "HARD_FROZEN"
  <2>1. new.bank = after[n].bank /\ new.lots = after[n].lots
    BY <1>4 DEF AfterAccrual, Accrued, Account
  <2>2. Growth[p] \in 0 .. Q32One
    BY GrowthAssumption
  <2>3. after = CatchUp(a, Growth[p], n)
    BY DEF Compounded
  <2> HIDE DEF after, n, new
  <2>4. Payable(after[n]) /\ NoneLowered(a.lots, after[n].lots)
    BY <1>1, <1>2, <2>2, <2>3, CatchUpPays
  <2>5. TakenInOrder(a.lots, after[n].lots)
    BY <1>1, <2>4, NothingTaken DEF Payable
  <2> QED
    BY <2>1, <2>4, <2>5 DEF Reconciles, Payable, new
<1> QED
  BY <1>3, <1>4

---------------------------------------------------------------------------
(* The lots of every player reconcile, and principal leaves them in order. *)

\* What every step keeps true of every account: the inductive invariant of the
\* lots.
LotsInv == IInv /\ LotsReconcile

\* Every step keeps the lots of every account equal to its principal, and takes from
\* them in order.
LEMMA LotsStep ==
    ASSUME LotsInv, [Next]_vars
    PROVE  /\ LotsReconcile'
           /\ \A p \in Players : TakenInOrder(accounts[p].lots, accounts'[p].lots)
<1>1. /\ accounts \in [Players -> Account]
      /\ \A p \in Players : accounts[p] \in Account /\ Reconciles(accounts[p])
      /\ now \in Nat
  BY DEF LotsInv, IInv, TypeOK, DatabaseOK, LotsReconcile
<1>2. ASSUME NEW p \in Players
      PROVE  TakenInOrder(accounts[p].lots, accounts[p].lots)
  <2>1. accounts[p].lots \in Seq(OpenLot)
    BY <1>1, AccountFacts
  <2>2. \A i \in DOMAIN accounts[p].lots : accounts[p].lots[i].left \in Nat
    BY <2>1, LotsFacts
  <2> QED
    BY <2>2 DEF TakenInOrder
<1> DEFINE Kept(p) == /\ Reconciles(accounts'[p])
                      /\ TakenInOrder(accounts[p].lots, accounts'[p].lots)
<1> SUFFICES ASSUME NEW p \in Players PROVE Kept(p)
  BY DEF LotsReconcile, Reconciles
<1>3. ASSUME accounts'[p].lots = accounts[p].lots, accounts'[p].bank = accounts[p].bank
      PROVE  Kept(p)
  BY <1>1, <1>2, <1>3 DEF Reconciles
<1>4. ASSUME NEW k \in Keys, NEW r \in Requests, NEW t \in 0 .. now, Serial!Settle(k, r, t)
      PROVE  Kept(p)
  <2> DEFINE a == accounts[r.player]
  <2>1. r.player \in Players /\ a \in Account /\ Reconciles(a) /\ t \in Nat
    BY <1>1, RequestFacts
  <2>2. /\ ValidAmount(r) /\ CanSettle(a, r, t)
        /\ accounts' = [accounts EXCEPT ![r.player] = Settled(a, r, t)]
    BY <1>4 DEF Serial!Settle
  <2> HIDE DEF a
  <2>3. Reconciles(Settled(a, r, t)) /\ TakenInOrder(a.lots, Settled(a, r, t).lots)
    BY <2>1, <2>2, SettledLots
  <2>4. CASE p = r.player
    BY <1>1, <2>2, <2>3, <2>4 DEF a
  <2>5. CASE p # r.player
    BY <1>1, <1>3, <2>2, <2>5
  <2> QED
    BY <2>4, <2>5
<1>5. ASSUME NEW x \in Players, NEW today \in 0 .. DayOf(now), Serial!Accrue(x, today)
      PROVE  Kept(p)
  <2> DEFINE a == accounts[x]
  <2>1. a \in Account /\ Reconciles(a) /\ today \in Nat
    BY <1>1
  <2>2. /\ Due(a, today) /\ CanAccrue(x, a, today)
        /\ accounts' = [accounts EXCEPT ![x] = AfterAccrual(x, a, today)]
    BY <1>5 DEF Serial!Accrue
  <2> HIDE DEF a
  <2>3. /\ Reconciles(AfterAccrual(x, a, today))
        /\ TakenInOrder(a.lots, AfterAccrual(x, a, today).lots)
    BY <2>1, <2>2, AccruedLots
  <2>4. CASE p = x
    BY <1>1, <2>2, <2>3, <2>4 DEF a
  <2>5. CASE p # x
    BY <1>1, <1>3, <2>2, <2>5
  <2> QED
    BY <2>4, <2>5
<1>6. ASSUME NEW x \in Players, NEW status, Serial!SetStatus(x, status) PROVE Kept(p)
  <2>1. accounts'[p].lots = accounts[p].lots /\ accounts'[p].bank = accounts[p].bank
    BY <1>1, <1>6 DEF Serial!SetStatus, Account
  <2> QED
    BY <1>3, <2>1
<1>7. CASE Serial!Tick \/ UNCHANGED Serial!vars
  BY <1>3, <1>7 DEF Serial!Tick, Serial!vars
<1> QED
  BY <1>4, <1>5, <1>6, <1>7, StepImplements DEF Serial!Next, LotsInv

\* The balance of every player is the principal of the player's lots, however
\* deposits, withdrawals and interest mix.
THEOREM LotsAgree == Spec => []LotsReconcile
<1>1. Init => LotsReconcile
  <2> SUFFICES ASSUME Init, NEW p \in Players PROVE Reconciles(accounts[p])
    BY DEF LotsReconcile
  <2>1. accounts[p].lots = << >> /\ accounts[p].bank = 0
    BY DEF Init, Serial!Init, Serial!NewAccount
  <2>2. Principal(<< >>) = 0
    <3>1. << >> \in Seq(OpenLot) /\ DOMAIN << >> = {}
      OBVIOUS
    <3> QED
      BY <3>1, PrincipalSum, SumEmpty
  <2> QED
    BY <2>1, <2>2 DEF Reconciles
<1>2. IInv /\ LotsReconcile /\ [Next]_vars => LotsReconcile'
  BY LotsStep DEF LotsInv
<1> QED
  BY <1>1, <1>2, Invariance, PTL DEF Spec

\* Principal leaves a lot only after every lot deposited before it is empty.
THEOREM DebitsFifo == Spec => FifoDebit
<1> DEFINE InOrderOf(p) ==
        LET lots == accounts[p].lots
        IN  \A i \in DOMAIN lots :
                accounts'[p].lots[i].left < lots[i].left =>
                    \A j \in Ahead(lots, i) : accounts'[p].lots[j].left = 0
<1>1. IInv /\ LotsReconcile /\ [Next]_vars => [\A p \in Players : InOrderOf(p)]_vars
  BY LotsStep DEF LotsInv, TakenInOrder
<1> QED
  BY <1>1, Invariance, LotsAgree, PTL DEF Spec, FifoDebit

---------------------------------------------------------------------------
(* The ledger.                                                             *)

\* What an entry posts to a wallet and to a bank balance.
ToWallet == [e \in LedgerEntry |-> e.wallet]
ToBank == [e \in LedgerEntry |-> e.bank]

\* A sum over entries is the sum of one of these functions.
LEMMA EntrySums ==
    ASSUME NEW S \in SUBSET LedgerEntry, IsFiniteSet(S)
    PROVE  /\ SumFunction([e \in S |-> e.wallet]) = SumFunctionOnSet(ToWallet, S)
           /\ SumFunction([e \in S |-> e.bank]) = SumFunctionOnSet(ToBank, S)
           /\ SumFunctionOnSet(ToWallet, S) \in Int
           /\ SumFunctionOnSet(ToBank, S) \in Int
<1> DEFINE w == [e \in S |-> e.wallet]
           b == [e \in S |-> e.bank]
<1>1. \A e \in S : /\ ToWallet[e] \in Int /\ w[e] = ToWallet[e]
                   /\ ToBank[e] \in Int /\ b[e] = ToBank[e]
  <2> SUFFICES ASSUME NEW e \in S
               PROVE  /\ ToWallet[e] \in Int /\ w[e] = ToWallet[e]
                      /\ ToBank[e] \in Int /\ b[e] = ToBank[e]
    OBVIOUS
  <2>1. e \in LedgerEntry
    OBVIOUS
  <2>2. e.wallet \in Int /\ e.bank \in Int
    BY <2>1 DEF LedgerEntry
  <2>3. ToWallet[e] = e.wallet /\ ToBank[e] = e.bank
    BY <2>1 DEF ToWallet, ToBank
  <2>4. w[e] = e.wallet /\ b[e] = e.bank
    OBVIOUS
  <2> HIDE DEF w, b
  <2> QED
    BY <2>2, <2>3, <2>4
<1>2. SumFunction(w) = SumFunctionOnSet(w, S) /\ SumFunction(b) = SumFunctionOnSet(b, S)
  BY DEF SumFunction
<1> HIDE DEF w, b
<1>3. SumFunctionOnSet(w, S) = SumFunctionOnSet(ToWallet, S)
  BY <1>1, SumSame
<1>4. SumFunctionOnSet(b, S) = SumFunctionOnSet(ToBank, S)
  BY <1>1, SumSame
<1>5. SumFunctionOnSet(ToWallet, S) \in Int /\ SumFunctionOnSet(ToBank, S) \in Int
  BY <1>1, SumInt
<1> QED
  BY <1>2, <1>3, <1>4, <1>5 DEF w, b

\* The two sums over a player's postings are sums of these functions.
LEMMA PostedSums ==
    ASSUME ledger \subseteq LedgerEntry, IsFiniteSet(ledger), NEW p
    PROVE  /\ PostingsOf(p) \subseteq LedgerEntry /\ IsFiniteSet(PostingsOf(p))
           /\ WalletPosted(p) = SumFunctionOnSet(ToWallet, PostingsOf(p))
           /\ BankPosted(p) = SumFunctionOnSet(ToBank, PostingsOf(p))
           /\ SumFunctionOnSet(ToWallet, PostingsOf(p)) \in Int
           /\ SumFunctionOnSet(ToBank, PostingsOf(p)) \in Int
<1>1. PostingsOf(p) \in SUBSET ledger /\ PostingsOf(p) \in SUBSET LedgerEntry
  BY DEF PostingsOf
<1>2. IsFiniteSet(PostingsOf(p))
  BY <1>1, FS_Subset
<1> QED
  BY <1>1, <1>2, EntrySums DEF WalletPosted, BankPosted

\* The entries of the first m days of a catch-up.
DayEntry(p, a, after, k) ==
    Entry(SystemOp(p, a.lastDay + k), "INTEREST", p, 0, after[k].bank - after[k - 1].bank,
          - (after[k].bank - after[k - 1].bank))
DayEntries(p, a, after, m) ==
    {DayEntry(p, a, after, k) : k \in {j \in 1 .. m : after[j].bank - after[j - 1].bank > 0}}

\* One more day adds its entry if it paid anything.
LEMMA NextDayEntries ==
    ASSUME NEW p, NEW a, NEW after, NEW m \in Nat
    PROVE  DayEntries(p, a, after, m + 1) =
             DayEntries(p, a, after, m) \cup
                (IF after[m + 1].bank - after[m].bank > 0
                 THEN {DayEntry(p, a, after, m + 1)} ELSE {})
<1> DEFINE Paid(j) == after[j].bank - after[j - 1].bank > 0
<1>1. {j \in 1 .. m + 1 : Paid(j)} =
        {j \in 1 .. m : Paid(j)} \cup (IF Paid(m + 1) THEN {m + 1} ELSE {})
  <2> HIDE DEF Paid
  <2> QED
    OBVIOUS
<1>2. Paid(m + 1) <=> after[m + 1].bank - after[m].bank > 0
  <2>1. (m + 1) - 1 = m
    OBVIOUS
  <2> QED
    BY <2>1
<1>3. \A x : x \in DayEntries(p, a, after, m + 1)
               <=> \E k \in {j \in 1 .. m + 1 : Paid(j)} : x = DayEntry(p, a, after, k)
  BY DEF DayEntries
<1>4. \A x : x \in DayEntries(p, a, after, m)
               <=> \E k \in {j \in 1 .. m : Paid(j)} : x = DayEntry(p, a, after, k)
  BY DEF DayEntries
<1> HIDE DEF Paid
<1> QED
  BY <1>1, <1>2, <1>3, <1>4

\* A day's entry is one of the ledger's.
LEMMA InterestEntryType ==
    ASSUME NEW p \in Players, NEW day \in Nat, NEW paid \in Int
    PROVE  Entry(<<p, day>>, "INTEREST", p, 0, paid, - paid) \in LedgerEntry
BY DEF Entry, LedgerEntry, SystemOps

\* The entries of a catch-up post, day by day, what the balance gained.
LEMMA InterestPosted ==
    ASSUME NEW p \in Players, NEW a \in Account, Reconciles(a), NEW n \in Nat,
           NEW after, after = CatchUp(a, Growth[p], n)
    PROVE  \A m \in 0 .. n :
              LET E == DayEntries(p, a, after, m)
              IN  /\ E \subseteq LedgerEntry /\ IsFiniteSet(E)
                  /\ after[m].bank \in Nat
                  /\ SumFunctionOnSet(ToBank, E) = after[m].bank - a.bank
                  /\ SumFunctionOnSet(ToWallet, E) = 0
                  /\ \A e \in E : /\ e.op[2] <= a.lastDay + m
                                  /\ e.wallet + e.bank + e.system = 0
<1> DEFINE E(m) == DayEntries(p, a, after, m)
           Good(m) == /\ E(m) \subseteq LedgerEntry /\ IsFiniteSet(E(m))
                      /\ after[m].bank \in Nat
                      /\ SumFunctionOnSet(ToBank, E(m)) = after[m].bank - a.bank
                      /\ \A e \in E(m) : /\ e.op[2] <= a.lastDay + m
                                         /\ e.wallet = 0
                                         /\ e.wallet + e.bank + e.system = 0
           T == {m \in Nat : m <= n => Good(m)}
<1>1. /\ a.bank \in Nat /\ a.lastDay \in Nat /\ Payable(a) /\ Growth[p] \in 0 .. Q32One
  BY AccountFacts, GrowthAssumption
<1>2. \A m \in 0 .. n : after[m].bank \in Nat
  <2>1. \A m \in 0 .. n : Payable(CatchUp(a, Growth[p], n)[m])
    BY <1>1, CatchUpPays
  <2> QED
    BY <2>1 DEF Payable
<1>3. after[0].bank = a.bank
  <2>1. after[0] = Unpaid(a)
    BY CatchUpDays
  <2> QED
    BY <2>1 DEF Unpaid
<1>4. 0 \in T
  <2>1. E(0) = {}
    BY DEF DayEntries
  <2>2. Good(0)
    BY <1>1, <1>3, <2>1, SumEmpty, FS_EmptySet
  <2> QED
    BY <2>2
<1>5. ASSUME NEW m \in T PROVE m + 1 \in T
  <2>1. m \in Nat
    OBVIOUS
  <2> SUFFICES ASSUME m + 1 <= n PROVE Good(m + 1)
    BY <2>1
  <2>2. /\ m \in 0 .. n /\ m + 1 \in 0 .. n
        /\ after[m].bank \in Nat /\ after[m + 1].bank \in Nat
    BY <1>2, <2>1
  <2>3. /\ E(m) \subseteq LedgerEntry /\ IsFiniteSet(E(m))
        /\ SumFunctionOnSet(ToBank, E(m)) = after[m].bank - a.bank
        /\ \A e \in E(m) : /\ e.op[2] <= a.lastDay + m /\ e.wallet = 0
                           /\ e.wallet + e.bank + e.system = 0
    BY <2>1, <2>2
  <2> DEFINE paid == after[m + 1].bank - after[m].bank
             day == DayEntry(p, a, after, m + 1)
  <2>4. E(m + 1) = E(m) \cup (IF paid > 0 THEN {day} ELSE {})
    BY <2>1, NextDayEntries
  <2>5. paid \in Int /\ after[m + 1].bank = after[m].bank + paid
    BY <2>2
  <2>6. day = Entry(<<p, a.lastDay + (m + 1)>>, "INTEREST", p, 0, paid, - paid)
    <3>1. (m + 1) - 1 = m
      BY <2>1
    <3> QED
      BY <3>1, Zenon DEF DayEntry, SystemOp
  <2>7. a.lastDay + (m + 1) \in Nat /\ a.lastDay + (m + 1) > a.lastDay + m
    BY <1>1, <2>1
  <2> HIDE DEF E, paid
  <2>8. /\ day \in LedgerEntry /\ day.op[2] = a.lastDay + (m + 1) /\ day.wallet = 0
        /\ day.bank = paid /\ day.wallet + day.bank + day.system = 0
    <3> HIDE DEF day
    <3>1. day = [op |-> <<p, a.lastDay + (m + 1)>>, kind |-> "INTEREST", player |-> p,
                 wallet |-> 0, bank |-> paid, system |-> - paid]
      BY <2>6 DEF Entry
    <3>2. <<p, a.lastDay + (m + 1)>> \in SystemOps
      BY <2>7 DEF SystemOps
    <3>3. - paid \in Int /\ 0 + paid + (- paid) = 0
      BY <2>5
    <3>4. day \in LedgerEntry
      BY <2>5, <2>6, <2>7, InterestEntryType
    <3> QED
      BY <2>5, <3>1, <3>3, <3>4
  <2>9. ToBank[day] = paid /\ \A e \in E(m) : ToBank[e] \in Int
    <3>1. \A e \in LedgerEntry : ToBank[e] = e.bank /\ e.bank \in Int
      BY DEF ToBank, LedgerEntry
    <3> HIDE DEF day
    <3> QED
      BY <2>3, <2>8, <3>1
  <2> HIDE DEF day
  <2>10. \A e \in E(m + 1) : /\ e.op[2] <= a.lastDay + (m + 1) /\ e.wallet = 0
                             /\ e.wallet + e.bank + e.system = 0
    <3>1. ASSUME NEW e \in E(m)
          PROVE  /\ e.op[2] <= a.lastDay + (m + 1) /\ e.wallet = 0
                 /\ e.wallet + e.bank + e.system = 0
      <4>1. e.op[2] \in Int
        <5>1. e \in LedgerEntry
          BY <2>3
        <5>2. e.kind = "INTEREST" /\ e.op[2] = e.op[2]
          BY DEF E, DayEntries, DayEntry, Entry
        <5> QED
          BY <5>1, <5>2 DEF LedgerEntry, SystemOps, Kinds
      <4> QED
        BY <2>3, <2>7, <4>1, <1>1, <2>1
    <3> QED
      BY <2>4, <2>7, <2>8, <3>1
  <2>11. CASE paid > 0
    <3>1. E(m + 1) = E(m) \cup {day}
      BY <2>4, <2>11
    <3>2. day \notin E(m)
      BY <1>1, <2>1, <2>3, <2>7, <2>8
    <3>3. SumFunctionOnSet(ToBank, E(m) \cup {day}) = SumFunctionOnSet(ToBank, E(m)) + paid
      BY <2>3, <2>5, <2>9, <3>2, SumAdd
    <3>4. IsFiniteSet(E(m) \cup {day})
      BY <2>3, FS_AddElement
    <3>5. SumFunctionOnSet(ToBank, E(m + 1)) = SumFunctionOnSet(ToBank, E(m)) + paid
      BY <3>1, <3>3, Zenon
    <3>6. SumFunctionOnSet(ToBank, E(m + 1)) = after[m + 1].bank - a.bank
      BY <1>1, <2>2, <2>3, <2>5, <3>5
    <3>7. IsFiniteSet(E(m + 1)) /\ E(m + 1) \subseteq LedgerEntry
      BY <2>3, <2>8, <3>1, <3>4
    <3> QED
      BY <2>2, <2>10, <3>6, <3>7 DEF E
  <2>12. CASE ~ (paid > 0)
    <3>1. E(m + 1) = E(m)
      BY <2>4, <2>12
    <3>2. paid = 0
      <4>1. after[m + 1].bank >= after[m].bank
        <5>1. \A k \in 0 .. n :
                 k > 0 => CatchUp(a, Growth[p], n)[k].bank >= CatchUp(a, Growth[p], n)[k - 1].bank
          BY <1>1, CatchUpPays
        <5>2. (m + 1) - 1 = m /\ m + 1 > 0
          BY <2>1
        <5> QED
          BY <2>2, <5>1, <5>2
      <4> QED
        BY <2>2, <2>5, <2>12, <4>1
    <3>3. SumFunctionOnSet(ToBank, E(m + 1)) = after[m + 1].bank - a.bank
      BY <2>3, <2>2, <2>5, <3>1, <3>2
    <3> QED
      BY <2>2, <2>3, <2>10, <3>1, <3>3 DEF E
  <2> QED
    BY <2>11, <2>12
<1> HIDE DEF T
<1>6. Nat \subseteq T
  BY <1>4, <1>5, NatSetInduction
<1>7. ASSUME NEW m \in 0 .. n PROVE Good(m) /\ SumFunctionOnSet(ToWallet, E(m)) = 0
  <2>1. Good(m)
    BY <1>6 DEF T
  <2>2. \A e \in E(m) : ToWallet[e] = 0
    BY <2>1 DEF ToWallet
  <2>3. SumFunctionOnSet(ToWallet, E(m)) = 0
    <3> HIDE DEF E
    <3> QED
      BY <2>1, <2>2, SumZero
  <2> QED
    BY <2>1, <2>3
<1> QED
  BY <1>7

---------------------------------------------------------------------------
(* The balances are what the ledger posted.                                *)

\* The inductive invariant of the ledger: with what commits together, the cursor
\* and the lots, it shows that an entry is never added twice.
LedgerInv ==
    /\ IInv /\ LotsReconcile /\ SettledTogether /\ InterestBehindCursor
    /\ IsFiniteSet(ledger)
    /\ LedgerReconciles

\* Player p holds what the ledger posted to p.
Posted(p) ==
    /\ accounts[p].wallet = InitialWallet + SumFunctionOnSet(ToWallet, PostingsOf(p))
    /\ accounts[p].bank = SumFunctionOnSet(ToBank, PostingsOf(p))

\* In these terms the ledger reconciles when every entry is balanced and every
\* player holds what was posted.
LEMMA ReconcilesPosted ==
    ASSUME ledger \subseteq LedgerEntry, IsFiniteSet(ledger)
    PROVE  LedgerReconciles <=> /\ \A e \in ledger : e.wallet + e.bank + e.system = 0
                                /\ \A p \in Players : Posted(p)
BY PostedSums DEF LedgerReconciles, Posted

\* New entries post to the player they name.
LEMMA EntriesAdded ==
    ASSUME ledger \subseteq LedgerEntry, IsFiniteSet(ledger),
           NEW E \in SUBSET LedgerEntry, IsFiniteSet(E), E \cap ledger = {},
           NEW x, \A e \in E : e.player = x,
           ledger' = ledger \cup E
    PROVE  /\ \A p : p # x => PostingsOf(p)' = PostingsOf(p)
           /\ SumFunctionOnSet(ToWallet, PostingsOf(x)') =
                SumFunctionOnSet(ToWallet, PostingsOf(x)) + SumFunctionOnSet(ToWallet, E)
           /\ SumFunctionOnSet(ToBank, PostingsOf(x)') =
                SumFunctionOnSet(ToBank, PostingsOf(x)) + SumFunctionOnSet(ToBank, E)
<1> DEFINE old == PostingsOf(x)
           new == PostingsOf(x)'
<1>1. \A p : p # x => PostingsOf(p)' = PostingsOf(p)
  BY DEF PostingsOf
<1>2. old \subseteq LedgerEntry /\ IsFiniteSet(old) /\ old \in SUBSET ledger
  BY PostedSums DEF PostingsOf
<1>3. new = old \cup E
  BY DEF PostingsOf
<1> HIDE DEF old, new
<1>4. new \ old = E /\ old \in SUBSET new
  BY <1>2, <1>3
<1>5. IsFiniteSet(new)
  BY <1>2, <1>3, FS_Union
<1>6. \A e \in new : ToWallet[e] \in Int /\ ToBank[e] \in Int
  <2>1. \A e \in LedgerEntry : ToWallet[e] \in Int /\ ToBank[e] \in Int
    BY DEF ToWallet, ToBank, LedgerEntry
  <2> QED
    BY <1>2, <1>3, <2>1
<1>7. /\ SumFunctionOnSet(ToWallet, new) =
           SumFunctionOnSet(ToWallet, old) + SumFunctionOnSet(ToWallet, new \ old)
      /\ SumFunctionOnSet(ToBank, new) =
           SumFunctionOnSet(ToBank, old) + SumFunctionOnSet(ToBank, new \ old)
  BY <1>4, <1>5, <1>6, SumSplit
<1>8. /\ SumFunctionOnSet(ToWallet, new) =
           SumFunctionOnSet(ToWallet, old) + SumFunctionOnSet(ToWallet, E)
      /\ SumFunctionOnSet(ToBank, new) =
           SumFunctionOnSet(ToBank, old) + SumFunctionOnSet(ToBank, E)
  BY <1>4, <1>7, Zenon
<1> QED
  BY <1>1, <1>8 DEF old, new

\* A settlement posts what it adds to wallet and balance, and its fee.
LEMMA SettledPostings ==
    ASSUME NEW a \in Account, NEW k \in Keys, NEW r \in Requests, NEW t,
           ValidAmount(r), CanSettle(a, r, t)
    PROVE  LET e == EntryOf(a, k, r, t)
           IN  /\ e.wallet + e.bank + e.system = 0
               /\ Settled(a, r, t).wallet = a.wallet + e.wallet
               /\ Settled(a, r, t).bank = a.bank + e.bank
               /\ e.wallet \in Int /\ e.bank \in Int
               /\ e.op = <<k>> /\ e.player = r.player
<1> DEFINE e == EntryOf(a, k, r, t)
<1>1. a.wallet \in Int /\ a.bank \in Int /\ r.amount \in Int
  BY AccountFacts, RequestFacts
<1>2. CASE r.kind = "DEPOSIT"
  <2>1. Settled(a, r, t).wallet = a.wallet - r.amount /\ Settled(a, r, t).bank = a.bank + r.amount
    BY <1>2 DEF Settled, Deposited, Account
  <2>2. /\ e.op = <<k>> /\ e.player = r.player /\ e.wallet = - r.amount /\ e.bank = r.amount
        /\ e.system = 0
    BY <1>2 DEF EntryOf, Entry, UserOp
  <2> HIDE DEF e
  <2> QED
    BY <1>1, <2>1, <2>2 DEF e
<1>3. CASE r.kind = "WITHDRAW"
  <2> DEFINE fee == Fee(a, r.amount, t)
  <2>1. /\ Settled(a, r, t).wallet = a.wallet + (r.amount - fee)
        /\ Settled(a, r, t).bank = a.bank - r.amount
    BY <1>3 DEF Settled, Withdrawn, Account
  <2>2. /\ e.op = <<k>> /\ e.player = r.player /\ e.wallet = r.amount - fee
        /\ e.bank = - r.amount /\ e.system = fee
    BY <1>3 DEF EntryOf, Entry, UserOp
  <2>3. fee \in 0 .. (r.amount - 1)
    BY <1>3 DEF CanSettle, Accepts, CanWithdraw
  <2>4. fee \in Int
    BY <1>1, <2>3
  <2> HIDE DEF e, fee
  <2> QED
    BY <1>1, <2>1, <2>2, <2>4 DEF e
<1> QED
  BY <1>2, <1>3, RequestFacts

\* An accrual posts what it adds to the balance.
LEMMA AccruedPostings ==
    ASSUME NEW p \in Players, NEW a \in Account, Reconciles(a), NEW today \in Nat,
           Due(a, today), CanAccrue(p, a, today)
    PROVE  LET E == EntriesOfAccrual(p, a, today)
           IN  /\ E \in SUBSET LedgerEntry /\ IsFiniteSet(E)
               /\ \A e \in E : /\ e.player = p /\ e.kind = "INTEREST"
                               /\ e.op[2] \in Int /\ e.op[2] > a.lastDay
                               /\ e.wallet + e.bank + e.system = 0
               /\ SumFunctionOnSet(ToWallet, E) = 0
               /\ AfterAccrual(p, a, today).bank = a.bank + SumFunctionOnSet(ToBank, E)
<1> DEFINE E == EntriesOfAccrual(p, a, today)
           new == AfterAccrual(p, a, today)
           n == DaysToProcess(a, today)
           after == Compounded(p, a, today)
<1>1. a.bank \in Nat /\ a.lastDay \in Nat
  BY AccountFacts
<1>2. /\ n \in Nat
      /\ \A e \in E : /\ e \in LedgerEntry /\ e.player = p /\ e.kind = "INTEREST"
                      /\ e.op[2] \in (a.lastDay + 1) .. (a.lastDay + n)
  BY <1>1, AccrualFacts
<1>3. E \in SUBSET LedgerEntry
  BY <1>2
<1>4. \A e \in E : e.op[2] \in Int /\ e.op[2] > a.lastDay
  <2> HIDE DEF E, n
  <2> QED
    BY <1>1, <1>2
<1>5. CASE a.status = "HARD_FROZEN"
  <2>1. E = {} /\ new.bank = a.bank
    BY <1>5 DEF EntriesOfAccrual, AfterAccrual, Skipped, Account
  <2> HIDE DEF E, new
  <2>2. SumFunctionOnSet(ToWallet, E) = 0 /\ SumFunctionOnSet(ToBank, E) = 0
    BY <2>1, SumEmpty
  <2> QED
    BY <1>1, <2>1, <2>2, FS_EmptySet DEF E, new
<1>6. CASE a.status # "HARD_FROZEN"
  <2>1. new.bank = after[n].bank
    BY <1>6 DEF AfterAccrual, Accrued, Account
  <2>2. E = DayEntries(p, a, after, n)
    BY <1>6, Zenon DEF EntriesOfAccrual, InterestEntries, DayEntries, DayEntry
  <2>3. after = CatchUp(a, Growth[p], n)
    BY DEF Compounded
  <2> HIDE DEF after, n, new, E
  <2>4. /\ IsFiniteSet(DayEntries(p, a, after, n))
        /\ after[n].bank \in Nat
        /\ SumFunctionOnSet(ToBank, DayEntries(p, a, after, n)) = after[n].bank - a.bank
        /\ SumFunctionOnSet(ToWallet, DayEntries(p, a, after, n)) = 0
        /\ \A e \in DayEntries(p, a, after, n) : e.wallet + e.bank + e.system = 0
    <3>1. n \in 0 .. n
      BY <1>2
    <3> QED
      BY <1>2, <2>3, <3>1, InterestPosted
  <2>5. /\ IsFiniteSet(E) /\ SumFunctionOnSet(ToWallet, E) = 0
        /\ SumFunctionOnSet(ToBank, E) = after[n].bank - a.bank
        /\ \A e \in E : e.wallet + e.bank + e.system = 0
    BY <2>2, <2>4, Zenon
  <2>6. new.bank = a.bank + SumFunctionOnSet(ToBank, E)
    BY <1>1, <2>1, <2>4, <2>5
  <2> QED
    BY <1>2, <1>3, <1>4, <2>5, <2>6 DEF E, new
<1> QED
  BY <1>5, <1>6

\* Entries that balance and post what an account gains keep the ledger
\* reconciled.
LEMMA PostingsMatch ==
    ASSUME LedgerInv, NEW x \in Players, NEW account,
           accounts' = [accounts EXCEPT ![x] = account],
           NEW E \in SUBSET LedgerEntry, IsFiniteSet(E), E \cap ledger = {},
           \A e \in E : e.player = x /\ e.wallet + e.bank + e.system = 0,
           ledger' = ledger \cup E,
           account.wallet = accounts[x].wallet + SumFunctionOnSet(ToWallet, E),
           account.bank = accounts[x].bank + SumFunctionOnSet(ToBank, E)
    PROVE  IsFiniteSet(ledger') /\ LedgerReconciles'
<1>1. /\ ledger \subseteq LedgerEntry /\ IsFiniteSet(ledger)
      /\ accounts \in [Players -> Account]
      /\ InitialWallet \in Int
  BY WalletAssumption, MoneyAssumption DEF LedgerInv, IInv, TypeOK, DatabaseOK, Money
<1>2. /\ \A e \in ledger : e.wallet + e.bank + e.system = 0
      /\ \A p \in Players : Posted(p)
  BY <1>1, ReconcilesPosted DEF LedgerInv
<1>3. ledger' \subseteq LedgerEntry /\ IsFiniteSet(ledger')
  BY <1>1, FS_Union
<1>4. \A e \in ledger' : e.wallet + e.bank + e.system = 0
  BY <1>2
<1>5. /\ \A p : p # x => PostingsOf(p)' = PostingsOf(p)
      /\ SumFunctionOnSet(ToWallet, PostingsOf(x)') =
           SumFunctionOnSet(ToWallet, PostingsOf(x)) + SumFunctionOnSet(ToWallet, E)
      /\ SumFunctionOnSet(ToBank, PostingsOf(x)') =
           SumFunctionOnSet(ToBank, PostingsOf(x)) + SumFunctionOnSet(ToBank, E)
  BY <1>1, EntriesAdded
<1>6. /\ SumFunctionOnSet(ToWallet, PostingsOf(x)) \in Int
      /\ SumFunctionOnSet(ToBank, PostingsOf(x)) \in Int
      /\ SumFunctionOnSet(ToWallet, E) \in Int
      /\ SumFunctionOnSet(ToBank, E) \in Int
  <2>1. \A e \in E : ToWallet[e] \in Int /\ ToBank[e] \in Int
    BY DEF ToWallet, ToBank, LedgerEntry
  <2> QED
    BY <1>1, <2>1, PostedSums, SumInt
<1>7. ASSUME NEW p \in Players PROVE Posted(p)'
  <2>1. CASE p = x
    <3>1. accounts'[x] = account
      BY <1>1
    <3>2. /\ accounts[x].wallet = InitialWallet + SumFunctionOnSet(ToWallet, PostingsOf(x))
          /\ accounts[x].bank = SumFunctionOnSet(ToBank, PostingsOf(x))
      BY <1>2 DEF Posted
    <3>3. /\ accounts'[x].wallet = InitialWallet + SumFunctionOnSet(ToWallet, PostingsOf(x)')
          /\ accounts'[x].bank = SumFunctionOnSet(ToBank, PostingsOf(x)')
      BY <1>1, <1>5, <1>6, <3>1, <3>2
    <3> QED
      BY <2>1, <3>3 DEF Posted
  <2>2. CASE p # x
    <3>1. accounts'[p] = accounts[p] /\ PostingsOf(p)' = PostingsOf(p)
      BY <1>1, <1>5, <2>2
    <3>2. Posted(p)
      BY <1>2
    <3> QED
      BY <3>1, <3>2 DEF Posted
  <2> QED
    BY <2>1, <2>2
<1>8. LedgerReconciles' <=> /\ \A e \in ledger' : e.wallet + e.bank + e.system = 0
                            /\ \A p \in Players : Posted(p)'
  <2>1. \A p : /\ WalletPosted(p)' = SumFunctionOnSet(ToWallet, PostingsOf(p)')
               /\ BankPosted(p)' = SumFunctionOnSet(ToBank, PostingsOf(p)')
    <3> SUFFICES ASSUME NEW p
                 PROVE  /\ WalletPosted(p)' = SumFunctionOnSet(ToWallet, PostingsOf(p)')
                        /\ BankPosted(p)' = SumFunctionOnSet(ToBank, PostingsOf(p)')
      OBVIOUS
    <3>1. PostingsOf(p)' \in SUBSET ledger' /\ PostingsOf(p)' \in SUBSET LedgerEntry
      BY <1>3 DEF PostingsOf
    <3>2. IsFiniteSet(PostingsOf(p)')
      BY <1>3, <3>1, FS_Subset
    <3> QED
      BY <3>1, <3>2, EntrySums DEF WalletPosted, BankPosted
  <2> QED
    BY <2>1 DEF LedgerReconciles, Posted
<1> QED
  BY <1>3, <1>4, <1>7, <1>8

\* A step keeps the ledger finite and reconciled.
LEMMA LedgerStep ==
    ASSUME LedgerInv, [Next]_vars
    PROVE  IsFiniteSet(ledger') /\ LedgerReconciles'
<1>1. /\ accounts \in [Players -> Account]
      /\ \A p \in Players : accounts[p] \in Account /\ Reconciles(accounts[p])
      /\ now \in Nat
      /\ ledger \subseteq LedgerEntry /\ IsFiniteSet(ledger)
      /\ \A p \in Players : accounts[p].lastDay \in Nat
  BY DEF LedgerInv, IInv, TypeOK, DatabaseOK, LotsReconcile, Account
<1>2. ASSUME NEW k \in Keys, NEW r \in Requests, NEW t \in 0 .. now, Serial!Settle(k, r, t)
      PROVE  IsFiniteSet(ledger') /\ LedgerReconciles'
  <2> DEFINE x == r.player
             a == accounts[x]
             e == EntryOf(a, k, r, t)
             new == Settled(a, r, t)
  <2>1. x \in Players /\ a \in Account /\ t \in Nat
    BY <1>1, RequestFacts
  <2>2. /\ ValidAmount(r) /\ CanSettle(a, r, t) /\ operations[k] = NoRow
        /\ accounts' = [accounts EXCEPT ![x] = new]
        /\ ledger' = ledger \cup {e}
    BY <1>2 DEF Serial!Settle, NoRow
  <2> HIDE DEF a
  <2>3. /\ e.wallet + e.bank + e.system = 0
        /\ new.wallet = a.wallet + e.wallet /\ new.bank = a.bank + e.bank
        /\ e.wallet \in Int /\ e.bank \in Int /\ e.op = <<k>> /\ e.player = x
    BY <2>1, <2>2, SettledPostings
  <2>4. e \in LedgerEntry
    BY <2>2, SettleFacts
  <2> HIDE DEF e, new
  <2>5. ToWallet[e] = e.wallet /\ ToBank[e] = e.bank
    BY <2>4 DEF ToWallet, ToBank
  <2>6. /\ SumFunctionOnSet(ToWallet, {e}) = e.wallet
        /\ SumFunctionOnSet(ToBank, {e}) = e.bank
    BY <2>3, <2>5, SumSingle
  <2>7. e \notin ledger
    <3>1. {d \in ledger : d.op = <<k>>} = {}
      BY <2>2 DEF LedgerInv, SettledTogether, UserOp
    <3> QED
      BY <2>3, <3>1
  <2>8. {e} \in SUBSET LedgerEntry /\ IsFiniteSet({e}) /\ {e} \cap ledger = {}
    BY <2>4, <2>7, FS_Singleton
  <2>9. \A d \in {e} : d.player = x /\ d.wallet + d.bank + d.system = 0
    BY <2>3
  <2>10. /\ new.wallet = accounts[x].wallet + SumFunctionOnSet(ToWallet, {e})
         /\ new.bank = accounts[x].bank + SumFunctionOnSet(ToBank, {e})
    BY <2>3, <2>6 DEF a
  <2> HIDE DEF x
  <2> QED
    BY <2>1, <2>2, <2>8, <2>9, <2>10, PostingsMatch
<1>3. ASSUME NEW x \in Players, NEW today \in 0 .. DayOf(now), Serial!Accrue(x, today)
      PROVE  IsFiniteSet(ledger') /\ LedgerReconciles'
  <2> DEFINE a == accounts[x]
             E == EntriesOfAccrual(x, a, today)
             new == AfterAccrual(x, a, today)
  <2>1. a \in Account /\ Reconciles(a) /\ today \in Nat /\ a.lastDay \in Nat
    BY <1>1
  <2>2. /\ Due(a, today) /\ CanAccrue(x, a, today)
        /\ accounts' = [accounts EXCEPT ![x] = new]
        /\ ledger' = ledger \cup E
    BY <1>3 DEF Serial!Accrue
  <2> HIDE DEF a
  <2>3. /\ E \in SUBSET LedgerEntry /\ IsFiniteSet(E)
        /\ \A e \in E : /\ e.player = x /\ e.kind = "INTEREST"
                        /\ e.op[2] \in Int /\ e.op[2] > a.lastDay
                        /\ e.wallet + e.bank + e.system = 0
        /\ SumFunctionOnSet(ToWallet, E) = 0
        /\ new.bank = a.bank + SumFunctionOnSet(ToBank, E)
    BY <2>1, <2>2, AccruedPostings
  <2>4. new.wallet = a.wallet /\ a.wallet \in Nat
    BY <2>1, AccruedValues, AccountFacts
  <2> HIDE DEF E, new
  <2>5. \A e \in E : e \notin ledger
    <3> SUFFICES ASSUME NEW e \in E, e \in ledger PROVE FALSE
      OBVIOUS
    <3>1. e.op[2] <= accounts[e.player].lastDay
      BY <2>3 DEF LedgerInv, InterestBehindCursor
    <3> QED
      BY <2>1, <2>3, <3>1 DEF a
  <2>6. E \cap ledger = {}
    BY <2>5
  <2>7. /\ new.wallet = accounts[x].wallet + SumFunctionOnSet(ToWallet, E)
        /\ new.bank = accounts[x].bank + SumFunctionOnSet(ToBank, E)
    BY <2>3, <2>4 DEF a
  <2> QED
    BY <2>2, <2>3, <2>6, <2>7, PostingsMatch
<1>4. ASSUME ledger' = ledger,
             \A p \in Players : /\ accounts'[p].wallet = accounts[p].wallet
                                /\ accounts'[p].bank = accounts[p].bank
      PROVE  IsFiniteSet(ledger') /\ LedgerReconciles'
  BY <1>1, <1>4 DEF LedgerInv, LedgerReconciles, WalletPosted, BankPosted, PostingsOf
<1>5. ASSUME NEW x \in Players, NEW status, Serial!SetStatus(x, status)
      PROVE  IsFiniteSet(ledger') /\ LedgerReconciles'
  <2>1. \A p \in Players : /\ accounts'[p].wallet = accounts[p].wallet
                           /\ accounts'[p].bank = accounts[p].bank
    BY <1>1, <1>5 DEF Serial!SetStatus, Account
  <2> QED
    BY <1>4, <1>5, <2>1 DEF Serial!SetStatus
<1>6. CASE Serial!Tick \/ UNCHANGED Serial!vars
  BY <1>4, <1>6 DEF Serial!Tick, Serial!vars
<1> QED
  BY <1>2, <1>3, <1>5, <1>6, StepImplements DEF Serial!Next, LedgerInv

\* The wallet and the bank balance of every player are what the ledger posted to
\* them, and every ledger transaction sums to zero.
THEOREM LedgerAgrees == Spec => []LedgerReconciles
<1> DEFINE Finite == IsFiniteSet(ledger)
<1>1. Init => Finite /\ LedgerReconciles
  <2> SUFFICES ASSUME Init PROVE Finite /\ LedgerReconciles
    OBVIOUS
  <2>1. ledger = {} /\ IsFiniteSet(ledger)
    BY FS_EmptySet DEF Init, Serial!Init
  <2>2. ASSUME NEW p \in Players PROVE Posted(p)
    <3>1. accounts[p].wallet = InitialWallet /\ accounts[p].bank = 0
      BY <2>2 DEF Init, Serial!Init, Serial!NewAccount
    <3>2. PostingsOf(p) = {}
      BY <2>1 DEF PostingsOf
    <3>3. InitialWallet \in Int
      BY WalletAssumption, MoneyAssumption DEF Money
    <3> QED
      BY <3>1, <3>2, <3>3, SumEmpty DEF Posted
  <2>3. ledger \subseteq LedgerEntry
    BY <2>1
  <2> QED
    BY <2>1, <2>2, <2>3, ReconcilesPosted
<1>2. /\ IInv /\ LotsReconcile /\ SettledTogether /\ InterestBehindCursor
      /\ Finite /\ LedgerReconciles /\ [Next]_vars
      => (Finite /\ LedgerReconciles)'
  BY LedgerStep DEF LedgerInv
<1> QED
  BY <1>1, <1>2, Invariance, LotsAgree, CommitsWhole, NoDayPaidTwice, PTL DEF Spec
=============================================================================
