---------------------------- MODULE BankAccounts ----------------------------
(***************************************************************************)
(* A player's Bank account and what one settled request does to it: the    *)
(* rows of players, player_balances, bank_lots, bank_withdrawals and       *)
(* bank_interest_state that belong to one player, and the effect of a      *)
(* deposit, a withdrawal and an interest accrual on them.                  *)
(*                                                                         *)
(* An effect is a function of the account alone.  When these effects       *)
(* happen, and what concurrent transactions may see of one another, is the *)
(* business of BankSerial (one request at a time) and of Bank (the         *)
(* transactions of the code).                                              *)
(***************************************************************************)
EXTENDS BankRules

CONSTANTS Players,
          Keys,        \* external request keys of user operations
          MaxMoney,    \* the largest value of a persisted i64
          Growth       \* rebirth_growth_q32 of each player

ASSUME PlayersAssumption == Players # {}
ASSUME MoneyAssumption == MaxMoney \in Nat
ASSUME GrowthAssumption == Growth \in [Players -> 0 .. Q32One]

Money == 0 .. MaxMoney
Kinds == {"DEPOSIT", "WITHDRAW"}
Statuses == {"ACTIVE", "SOFT_FROZEN", "HARD_FROZEN", "DELETED"}

Lot == [at : Nat, left : Money]
Withdrawal == [at : Nat, gross : Money \ {0}]

\* The rows the column types and CHECK constraints of the schema admit; a
\* transaction that would store anything else fails.
Account == [status : Statuses, wallet : Money, bank : Money, lots : Seq(Lot),
            lastDay : Nat, remainder : 0 .. (InterestDenominator - 1),
            withdrawals : Seq(Withdrawal)]

Request == [player : Players, kind : Kinds, amount : Int]
Receipt == [gross : Int, fee : Int, wallet : Money, bank : Money]

\* A ledger transaction with its postings, and the operation that owns it: the
\* one of a request key, or the system operation that pays a player's interest
\* for a day.
UserOp(k) == <<k>>
SystemOp(p, day) == <<p, day>>
Entry(op, kind, p, wallet, bank, system) ==
    [op |-> op, kind |-> kind, player |-> p, wallet |-> wallet,
     bank |-> bank, system |-> system]

ValidAmount(r) ==
    /\ r.amount > 0
    /\ r.kind = "WITHDRAW" => r.amount >= MinWithdrawal

---------------------------------------------------------------------------
(* Deposit.                                                                *)

CanDeposit(a, amount) ==
    /\ a.status = "ACTIVE"
    /\ a.wallet >= amount
    /\ a.bank + amount <= MaxMoney

Deposited(a, amount, start) ==
    [a EXCEPT !.wallet = @ - amount,
              !.bank   = @ + amount,
              !.lots   = Append(@, [at |-> start, left |-> amount])]

---------------------------------------------------------------------------
(* Withdrawal.                                                             *)

\* The gross amount withdrawn in the 24 hours before the transaction began.
PriorGross(a, start) ==
    LET recent == {i \in DOMAIN a.withdrawals :
                      a.withdrawals[i].at >= start - DayLength}
    IN  SumFunction([i \in recent |-> a.withdrawals[i].gross])

Fee(a, amount, start) ==
    WithdrawalFee(a.lots, amount, a.bank, PriorGross(a, start), start)

CanWithdraw(a, amount, start) ==
    /\ a.status = "ACTIVE"
    /\ a.bank >= amount
    /\ LotsCover(a.lots, amount)
    /\ Fee(a, amount, start) \in 0 .. (amount - 1)
    /\ a.wallet + (amount - Fee(a, amount, start)) <= MaxMoney

Withdrawn(a, amount, start) ==
    [a EXCEPT !.wallet = @ + (amount - Fee(a, amount, start)),
              !.bank   = @ - amount,
              !.lots   = Debited(@, amount),
              !.withdrawals = Append(@, [at |-> start, gross |-> amount])]

---------------------------------------------------------------------------
(* A request of either kind.                                               *)

Accepts(a, r, start) ==
    CASE r.kind = "DEPOSIT"  -> CanDeposit(a, r.amount)
      [] r.kind = "WITHDRAW" -> CanWithdraw(a, r.amount, start)

Settled(a, r, start) ==
    CASE r.kind = "DEPOSIT"  -> Deposited(a, r.amount, start)
      [] r.kind = "WITHDRAW" -> Withdrawn(a, r.amount, start)

\* Mistaken: neither balances nor the schema's constraints are checked.
CanSettleAnything(a, r, start) == a.status = "ACTIVE"

CanSettle(a, r, start) ==
    /\ Accepts(a, r, start)
    /\ Settled(a, r, start) \in Account

FeeOf(a, r, start) ==
    IF r.kind = "WITHDRAW" THEN Fee(a, r.amount, start) ELSE 0

ReceiptOf(a, r, start) ==
    LET after == Settled(a, r, start)
    IN  [gross |-> r.amount, fee |-> FeeOf(a, r, start),
         wallet |-> after.wallet, bank |-> after.bank]

\* Mistaken: a withdrawal posts its gross amount to the wallet.
GrossEntryOf(a, k, r, start) ==
    LET gain == IF r.kind = "DEPOSIT" THEN r.amount ELSE - r.amount
    IN  Entry(UserOp(k), r.kind, r.player, - gain, gain, FeeOf(a, r, start))

\* The postings name the amount moved, not the difference of two balances.
EntryOf(a, k, r, start) ==
    CASE r.kind = "DEPOSIT"  -> Entry(UserOp(k), r.kind, r.player, - r.amount, r.amount, 0)
      [] r.kind = "WITHDRAW" ->
            Entry(UserOp(k), r.kind, r.player,
                  r.amount - Fee(a, r.amount, start), - r.amount,
                  Fee(a, r.amount, start))

---------------------------------------------------------------------------
(* Interest.                                                               *)

Due(a, today) == a.lastDay < today

\* Mistaken: counts the day of the cursor too.
OneDayTooMany(a, today) == Lesser(today - a.lastDay, MaxCatchupDays) + 1

DaysToProcess(a, today) == Lesser(today - a.lastDay, MaxCatchupDays)

\* A hard-frozen account lets the days pass unpaid.
Skipped(a, today) == [a EXCEPT !.lastDay = @ + DaysToProcess(a, today)]

Compounded(p, a, today) == CatchUp(a, Growth[p], DaysToProcess(a, today))

Accrued(p, a, today) ==
    LET n == DaysToProcess(a, today)
        after == Compounded(p, a, today)
    IN  [a EXCEPT !.bank = after[n].bank, !.lots = after[n].lots,
                  !.remainder = after[n].remainder, !.lastDay = @ + n]

\* One system operation and one ledger entry for each day that paid something.
InterestEntries(p, a, today) ==
    LET after == Compounded(p, a, today)
        Paid(k) == after[k].bank - after[k - 1].bank
    IN  {Entry(SystemOp(p, a.lastDay + k), "INTEREST", p, 0, Paid(k),
                - Paid(k)) :
            k \in {j \in 1 .. DaysToProcess(a, today) : Paid(j) > 0}}

\* reconcile_lots, before the first day is paid.
Reconciles(a) == Principal(a.lots) = a.bank

AfterAccrual(p, a, today) ==
    IF a.status = "HARD_FROZEN" THEN Skipped(a, today) ELSE Accrued(p, a, today)

EntriesOfAccrual(p, a, today) ==
    IF a.status = "HARD_FROZEN" THEN {} ELSE InterestEntries(p, a, today)

\* A day's interest and the new balance must fit the columns.
CanAccrue(p, a, today) ==
    /\ a.status = "HARD_FROZEN" \/ Reconciles(a)
    /\ AfterAccrual(p, a, today) \in Account
    /\ \A e \in EntriesOfAccrual(p, a, today) : e.bank \in Money
=============================================================================
