----------------------------- MODULE InterestWorker -----------------------------
(***************************************************************************)
(* The worker that accrues interest for players who issue no commands.     *)
(* Source: interest.rs (accrue_due_interest_batch) and main.rs             *)
(* (spawn_bank_interest_worker).  Every few minutes it takes the due       *)
(* players in batches, the longest due first; an error ends the batch and  *)
(* the pass.  What one accrual does to a player's rows is Bank's; here it  *)
(* moves the cursor, or fails.                                             *)
(***************************************************************************)
EXTENDS BankRules, SequencesExt

CONSTANTS Players,            \* ids, which are ordered
          BatchSize,          \* BANK_INTEREST_BATCH_SIZE
          MaxBatches,         \* BANK_INTEREST_MAX_BATCHES_PER_TICK
          LastDay             \* bound on the days that come

ASSUME WorkerAssumption ==
    /\ Players \subseteq Nat
    /\ {BatchSize, MaxBatches} \subseteq Nat \ {0}

VARIABLES cursor,    \* last_accrual_day
          gone,      \* DELETED players
          failing,   \* players whose accrual returns an error, while they are due
          today,
          worker     \* where the loop stands: the rows of a batch still to be taken,
                     \* players_processed, and the batches of this pass

workerVars == <<cursor, gone, failing, today, worker>>

Asleep == [phase |-> "ASLEEP", rows |-> <<>>, processed |-> 0, batches |-> 0]

WorkerInit ==
    /\ cursor = [p \in Players |-> 0]
    /\ gone = {} /\ failing = {}
    /\ today = 0
    /\ worker = Asleep

Due(p) == p \notin gone /\ cursor[p] < today

\* ORDER BY last_accrual_day, id.
LongerDue(p, q) == cursor[p] < cursor[q] \/ (cursor[p] = cursor[q] /\ p < q)

\* Mistaken: in the order of the ids.
DueRowsById == SetToSortSeq({p \in Players : Due(p)}, <)

DueRows == SetToSortSeq({p \in Players : Due(p)}, LongerDue)

Accrued(p) == cursor[p] + Lesser(today - cursor[p], MaxCatchupDays)

CanAccrue(p) == p \notin gone /\ (p \in failing => ~ Due(p))

---------------------------------------------------------------------------
(* The worker.                                                             *)

Wake ==
    /\ worker.phase = "ASLEEP"
    /\ worker' = [worker EXCEPT !.phase = "SCANNING"]
    /\ UNCHANGED <<cursor, gone, failing, today>>

Scan ==
    /\ worker.phase = "SCANNING"
    /\ worker' = [worker EXCEPT !.phase = "ACCRUING", !.processed = 0,
                                !.rows = SubSeq(DueRows, 1, Lesser(BatchSize, Len(DueRows)))]
    /\ UNCHANGED <<cursor, gone, failing, today>>

\* One transaction for the next row of the batch, as that player is by now.
AccrueNext ==
    /\ worker.phase = "ACCRUING" /\ worker.rows # <<>>
    /\ LET p == Head(worker.rows)
       IN  \/ /\ CanAccrue(p)
              /\ cursor' = [cursor EXCEPT ![p] = IF Due(p) THEN Accrued(p) ELSE @]
              /\ worker' = [worker EXCEPT !.rows = Tail(@), !.processed = @ + 1]
           \/ /\ ~ CanAccrue(p)
              /\ worker' = Asleep
              /\ UNCHANGED cursor
    /\ UNCHANGED <<gone, failing, today>>

EndBatch ==
    /\ worker.phase = "ACCRUING" /\ worker.rows = <<>>
    /\ worker' = IF worker.processed < BatchSize \/ worker.batches + 1 = MaxBatches
                 THEN Asleep
                 ELSE [worker EXCEPT !.phase = "SCANNING", !.batches = @ + 1]
    /\ UNCHANGED <<cursor, gone, failing, today>>

Work == Wake \/ Scan \/ AccrueNext \/ EndBatch

---------------------------------------------------------------------------
(* Everybody else.                                                         *)

\* A bank command brings its player up to date first.
Command(p) ==
    /\ Due(p) /\ CanAccrue(p)
    /\ cursor' = [cursor EXCEPT ![p] = Accrued(p)]
    /\ UNCHANGED <<gone, failing, today, worker>>

\* Lots that disagree with the balance, or a balance at its limit; put right later.
GoWrong(p) == failing' = failing \cup {p} /\ UNCHANGED <<cursor, gone, today, worker>>
PutRight(p) == failing' = failing \ {p} /\ UNCHANGED <<cursor, gone, today, worker>>

Delete(p) == gone' = gone \cup {p} /\ UNCHANGED <<cursor, failing, today, worker>>

Midnight ==
    /\ today < LastDay
    /\ today' = today + 1
    /\ UNCHANGED <<cursor, gone, failing, worker>>

WorkerNext ==
    \/ Work \/ Midnight
    \/ \E p \in Players : Command(p) \/ GoWrong(p) \/ PutRight(p) \/ Delete(p)

---------------------------------------------------------------------------
(* Property.                                                               *)

Stuck(p) == \E q \in failing : Due(q) /\ (q = p \/ LongerDue(q, p))

\* A player who issues no commands is brought up to date again and again, whatever
\* size the batches have and whoever is deleted between the scan and his row, unless
\* from some time on there is always a player at least as long due whose accrual
\* fails: one such player holds up those behind him and nobody else
\* (accrue_due_interest_batch).
EverybodyCaughtUp ==
    \A p \in Players : <>[] ~ Stuck(p) => []<> ~ Due(p)
=============================================================================
