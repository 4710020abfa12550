----------------------------- MODULE BankSerial -----------------------------
(***************************************************************************)
(* What the Bank promises: every request key settles at most once, in one  *)
(* indivisible step on the account as it is at that moment, and a day's    *)
(* interest is paid in one such step.  There are no transactions, locks or *)
(* sessions here; Bank.tla implements this specification.                  *)
(*                                                                         *)
(* What a deposit, a withdrawal and an accrual do to an account is a       *)
(* parameter: the operators of BankAccounts.                               *)
(***************************************************************************)
EXTENDS Integers

CONSTANTS Players,
          Keys,            \* external request keys of user operations
          Requests,        \* the requests players may send
          InitialWallet,
          Statuses,
          DayOf(_),        \* the day of a time
          UserOp(_),       \* the operation of a request key
          ValidAmount(_),
          CanSettle(_, _, _), Settled(_, _, _), ReceiptOf(_, _, _),
          EntryOf(_, _, _, _),
          Due(_, _), CanAccrue(_, _, _), AfterAccrual(_, _, _),
          EntriesOfAccrual(_, _, _)

VARIABLES accounts,    \* the rows of each player
          operations,  \* committed user operations by request key
          ledger,      \* committed ledger transactions
          outbox,      \* operations with an event in the transactional outbox
          now          \* the database clock

vars == <<accounts, operations, ledger, outbox, now>>

NoRow == [state |-> "NONE"]
CommittedRow(r, receipt) ==
    [state |-> "COMMITTED", request |-> r, receipt |-> receipt]

NewAccount == [status |-> "ACTIVE", wallet |-> InitialWallet, bank |-> 0,
               lots |-> << >>, lastDay |-> 0, remainder |-> 0,
               withdrawals |-> << >>]

Init ==
    /\ accounts = [p \in Players |-> NewAccount]
    /\ operations = [k \in Keys |-> NoRow]
    /\ ledger = {}
    /\ outbox = {}
    /\ now = 0

\* A request settles under key k, as of some earlier moment start.
Settle(k, r, start) ==
    LET a == accounts[r.player]
    IN  /\ operations[k] = NoRow
        /\ ValidAmount(r)
        /\ CanSettle(a, r, start)
        /\ accounts' = [accounts EXCEPT ![r.player] = Settled(a, r, start)]
        /\ operations' = [operations EXCEPT
                            ![k] = CommittedRow(r, ReceiptOf(a, r, start))]
        /\ ledger' = ledger \cup {EntryOf(a, k, r, start)}
        /\ outbox' = outbox \cup {UserOp(k)}
        /\ UNCHANGED now

\* The days up to today are paid, or passed over while hard frozen.
Accrue(p, today) ==
    LET a == accounts[p]
    IN  /\ a.status # "DELETED"
        /\ Due(a, today)
        /\ CanAccrue(p, a, today)
        /\ accounts' = [accounts EXCEPT ![p] = AfterAccrual(p, a, today)]
        /\ ledger' = ledger \cup EntriesOfAccrual(p, a, today)
        /\ outbox' = outbox \cup {e.op : e \in EntriesOfAccrual(p, a, today)}
        /\ UNCHANGED <<operations, now>>

SetStatus(p, status) ==
    /\ accounts' = [accounts EXCEPT ![p].status = status]
    /\ UNCHANGED <<operations, ledger, outbox, now>>

Tick ==
    /\ now' = now + 1
    /\ UNCHANGED <<accounts, operations, ledger, outbox>>

Next ==
    \/ \E k \in Keys, r \in Requests, start \in 0 .. now : Settle(k, r, start)
    \/ \E p \in Players, today \in 0 .. DayOf(now) : Accrue(p, today)
    \/ \E p \in Players, status \in Statuses : SetStatus(p, status)
    \/ Tick

Spec == Init /\ [][Next]_vars
=============================================================================
