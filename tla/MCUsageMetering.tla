-------------------------- MODULE MCUsageMetering --------------------------
(* The two halves of the usage rollup on small instances: raw events of two *)
(* orgs, and the repair of used_bytes while two jobs record one derivative. *)
EXTENDS UsageMetering, TLC

CONSTANTS
  Halves,         \* the halves a run checks, of {"usage", "capacity"}
  e1, e2, o1, o2, v1, j1, j2,
  Objects, Variants, Makers, Deletable, ObjectBytes, MaxSize, MaxMade, MaxStalls, Rollups,
  AutoModes, InitialAllocated, Increment, MaxAllocated, DriftScale

MCOrgOf == (e1 :> o1) @@ (e2 :> o2)
MCKindOf == (e1 :> "request") @@ (e2 :> "egress")
MCBytesOf == (e1 :> 1) @@ (e2 :> 2)
MCObjectOf == v1 :> o1
MCTargetOf == (j1 :> v1) @@ (j2 :> v1)

VARIABLES half, used, allocated, auto, deltaSum, live, derived, stored, making, removal, passes

Making == INSTANCE VariantLedger WITH
  Jobs <- Makers, MaxAttempts <- MaxMade, ObjectOf <- MCObjectOf, TargetOf <- MCTargetOf,
  job <- making, rollup <- passes

ASSUME MakingAssumption == Making!VariantAssumption /\ Making!AllocationAssumption

madeVars == <<used, allocated, auto, deltaSum, live, derived, stored, making, removal, passes>>

MCInit == half \in Halves /\ Init /\ Making!Init /\ (half = "usage" => auto)

MCNext ==
  /\ UNCHANGED half
  /\ \/ half = "usage" /\ Next /\ UNCHANGED madeVars
     \/ half = "capacity" /\ Making!Next /\ UNCHANGED vars

\* The fairness of each half (UsageMetering, VariantLedger).
MCSpec ==
  /\ MCInit /\ [][MCNext]_<<half, vars, madeVars>>
  /\ WF_vars(half = "usage" /\ Tick) /\ WF_vars(half = "usage" /\ Consume)
  /\ WF_vars(half = "usage" /\ Rollup)
  /\ \A j \in Makers : WF_madeVars(half = "capacity" /\ Making!Attempt(j))
  /\ \A o \in Deletable :
       WF_madeVars(half = "capacity" /\ removal[o].pc # "start" /\ Making!Removal(o))
  /\ \A r \in Rollups : /\ WF_madeVars(half = "capacity" /\ Making!RollupSnapshot(r))
                        /\ WF_madeVars(half = "capacity" /\ Making!RollupRepair(r))

\* Nothing uncounted is trimmed, entries of the stream are settled, and a row
\* that a rollup is still to reach is counted in the end (UsageMetering).
UsageSettles == TrimSparesUncounted /\ EntriesSettle /\ EventuallyCounted

\* Every job comes to an end, also when two wait for one row (VariantLedger).
JobsSettle == half = "capacity" => Making!JobsSettle

\* The rollup removes the drift of two first recordings for good, and no other
\* step leaves the counter below what is recorded (VariantLedger).
RollupMends == Making!OnlyRepairsUndercount /\ Making!DriftRepaired
=============================================================================
