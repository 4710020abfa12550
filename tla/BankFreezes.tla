----------------------------- MODULE BankFreezes -----------------------------
(***************************************************************************)
(* Bank with a record of the days an account spent hard frozen, which the  *)
(* database does not keep: accrue_locked_player knows the status of the    *)
(* moment at which it runs, and applies it to every day it catches up.     *)
(***************************************************************************)
EXTENDS BankMC

VARIABLES thawed,  \* players not hard frozen at some moment of the current day
          frozen   \* the days each player was hard frozen from end to end

HardFrozen(p) == accounts[p].status = "HARD_FROZEN"

FreezeInit ==
    /\ Init
    /\ thawed = Players
    /\ frozen = [p \in Players |-> {}]

NewDay == DayOf(now') # DayOf(now)

FreezeNext ==
    /\ Next
    /\ thawed' = (IF NewDay THEN {} ELSE thawed) \cup {p \in Players : ~ HardFrozen(p)'}
    /\ frozen' = [p \in Players |->
                    IF NewDay /\ p \notin thawed THEN frozen[p] \cup {DayOf(now)}
                                                 ELSE frozen[p]]

FreezeSpec == FreezeInit /\ [][FreezeNext]_<<vars, thawed, frozen>>

\* README.md promises "hard-freeze pause semantics for Bank interest": no
\* interest for a day when the account was hard frozen all through that day and
\* the day before.
HardFreezePauses ==
    \A e \in ledger :
        e.kind = "INTEREST" => ~ ({e.op[2] - 1, e.op[2]} \subseteq frozen[e.player])
=============================================================================
