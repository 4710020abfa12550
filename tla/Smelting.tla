-------------------------------- MODULE Smelting --------------------------------
(***************************************************************************)
(* One smelting job from its preview to the plan of its end.  Source:      *)
(* smelting.rs, smelting_terminal.rs and the projection of                 *)
(* smelting_runtime.rs.  Progress is computed from the clock when somebody *)
(* looks, and nothing is written while the job runs; the time under a Hard *)
(* Freeze is supplied by its owner, which keeps it here.  Times are ticks. *)
(***************************************************************************)
EXTENDS Integers

CONSTANTS UnitTime,     \* ticks that one unit takes
          MaxUnits,     \* bound on the units asked for
          MaxFuel,      \* bound on the fuel at hand
          MaxNow,       \* bound on the clock
          NoJob

ASSUME UnitTimeAssumption == UnitTime \in Nat \ {0}

VARIABLES job,      \* the runtime snapshot of the job
          now,
          frozen,   \* a Hard Freeze holds
          paused,   \* ticks of Hard Freeze since the job has started
          worked,   \* ticks since then without one
          plan      \* what the end of the job has been planned to be

jobVars == <<job, now, frozen, paused, worked, plan>>

JobInit ==
    /\ job = NoJob /\ plan = NoJob
    /\ now = 0 /\ paused = 0 /\ worked = 0
    /\ frozen = FALSE

---------------------------------------------------------------------------
(* The arithmetic of fuel, in half units of heat.                          *)

Smaller(a, b) == IF a < b THEN a ELSE b
Quotient(a, b) == a \div b + (IF a % b # 0 THEN 1 ELSE 0)

Fuels == {"COAL", "WOOD_LOG"}
Heat(fuel) == IF fuel = "COAL" THEN 16 ELSE 3
HeatPerUnit == 2
UnitsPerAexp == 8

Needed(units, fuel) == Quotient(units * HeatPerUnit, Heat(fuel))

\* Mistaken: a partly burnt item counts as whole.
OpenedDown(units, fuel) == (units * HeatPerUnit) \div Heat(fuel)

Opened(units, fuel) == Needed(units, fuel)

Preview(requested, fuel, available) ==
    LET items == Smaller(available, Needed(requested, fuel))
    IN  [items |-> items,
         units |-> Smaller((items * Heat(fuel)) \div HeatPerUnit, requested)]

\* What a snapshot must be for the plan of its end to be made.
Covered(j) == Preview(j.units, j.fuel, j.items) = [items |-> j.items, units |-> j.units]

---------------------------------------------------------------------------
(* The projection of the progress.                                         *)

CompletesAt(j) == j.started + j.units * UnitTime

\* Mistaken: the time of a Hard Freeze counts.
ObservedUnpaused == now

Observed == now - paused

\* Ticks of work: none before the start, all of them from completes_at on.
Elapsed ==
    IF Observed <= job.started THEN 0
    ELSE IF Observed >= CompletesAt(job) THEN job.units * UnitTime
    ELSE Observed - job.started

Completed == Smaller(Elapsed \div UnitTime, job.units)
IsFinished == Completed = job.units

---------------------------------------------------------------------------
(* Actions.                                                                *)

Confirm ==
    /\ job = NoJob /\ plan = NoJob /\ ~ frozen
    /\ \E requested \in 1 .. MaxUnits, fuel \in Fuels, available \in 0 .. MaxFuel :
           LET preview == Preview(requested, fuel, available)
           IN  /\ preview.units > 0
               /\ job' = [units |-> preview.units, fuel |-> fuel, items |-> preview.items,
                          started |-> now]
    /\ paused' = 0 /\ worked' = 0
    /\ UNCHANGED <<now, frozen, plan>>

Tick ==
    /\ now < MaxNow
    /\ now' = now + 1
    /\ IF frozen
       THEN paused' = paused + 1 /\ UNCHANGED worked
       ELSE worked' = worked + 1 /\ UNCHANGED paused
    /\ UNCHANGED <<job, frozen, plan>>

Freeze == frozen' = ~ frozen /\ UNCHANGED <<job, now, paused, worked, plan>>

\* plan_smelting_terminal; it refuses a snapshot that is not covered, and a Complete
\* until all of it is done.
End(kind) ==
    /\ job # NoJob
    /\ Covered(job)
    /\ kind = "COMPLETE" => IsFinished
    /\ plan' = [kind |-> kind,
                of |-> job,
                made |-> Completed,
                input |-> job.units - Completed,
                opened |-> Opened(Completed, job.fuel),
                fuel |-> job.items - Opened(Completed, job.fuel),
                lost |-> Opened(Completed, job.fuel) * Heat(job.fuel) - Completed * HeatPerUnit,
                wasted |-> IF IsFinished THEN 0 ELSE Elapsed % UnitTime,
                aexp |-> Completed \div UnitsPerAexp]
    /\ job' = NoJob
    /\ UNCHANGED <<now, frozen, paused, worked>>

JobNext ==
    \/ Confirm \/ Tick \/ Freeze
    \/ \E kind \in {"COMPLETE", "STOP", "CANCEL"} : End(kind)

JobSpec == JobInit /\ [][JobNext]_jobVars

---------------------------------------------------------------------------
(* Properties.                                                             *)

\* Whatever was asked for and at hand, the fuel reserved is the least that the
\* confirmed units need, which is what the plan of an end demands of the snapshot, so
\* that no job is started that cannot be ended; and the end gives back what was
\* reserved: every input is smelted or returned, every fuel item is opened or returned
\* whole, no item is opened that is not needed, and the heat of the opened ones is used
\* or lost (RuntimeFuelInvariant, plan_smelting_terminal).
EndBalances ==
    /\ job # NoJob => Covered(job)
    /\ plan # NoJob =>
        /\ plan.made >= 0 /\ plan.input >= 0 /\ plan.fuel >= 0 /\ plan.lost >= 0
        /\ plan.made + plan.input = plan.of.units
        /\ plan.opened + plan.fuel = plan.of.items
        /\ plan.made * HeatPerUnit + plan.lost = plan.opened * Heat(plan.of.fuel)
        /\ plan.lost < Heat(plan.of.fuel)

\* The units that count are those the work outside every Hard Freeze has completed,
\* however often the job was frozen, and what is thrown away at the end is less than
\* one unit's work (project_smelting_runtime_progress).
WorkIsCounted ==
    /\ job # NoJob =>
           /\ Completed = Smaller(worked \div UnitTime, job.units)
           /\ IsFinished <=> worked >= job.units * UnitTime
    /\ plan # NoJob => plan.wasted < UnitTime
=============================================================================
