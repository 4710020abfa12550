-------------------------------- MODULE PartsMC --------------------------------
(***************************************************************************)
(* One instance of the parts that share no rows: the lots of a bank, a     *)
(* smelting job, a number tried and the interest worker have nothing to do *)
(* with one another.  One of them moves while the others are at their      *)
(* start, so that their state spaces add up and do not multiply.           *)
(***************************************************************************)
EXTENDS BankAlgorithms, Smelting, Costs, InterestWorker

vars == <<lots, jobVars, tried, workerVars>>

Init == LotsInit /\ JobInit /\ CostsInit /\ WorkerInit

Lots == JobInit /\ CostsInit /\ WorkerInit /\ LotsNext /\ UNCHANGED <<jobVars, tried, workerVars>>
Job == LotsInit /\ CostsInit /\ WorkerInit /\ JobNext /\ UNCHANGED <<lots, tried, workerVars>>
Cost == LotsInit /\ JobInit /\ WorkerInit /\ CostsNext /\ UNCHANGED <<lots, jobVars, workerVars>>

Others == LotsInit /\ JobInit /\ CostsInit /\ UNCHANGED <<lots, jobVars, tried>>
Worker == Others /\ WorkerNext

\* The loop of the worker goes on, and its transactions end (EveryTaskEnds of Bank).
FairSpec ==
    /\ Init
    /\ [][Lots \/ Job \/ Cost \/ Worker]_vars
    /\ WF_vars(Others /\ Work)
=============================================================================
