------------------------ MODULE VariantLedgerProofs ------------------------
(***************************************************************************)
(* Proofs about VariantLedger, for every set of objects, variants and      *)
(* jobs, every assignment of jobs to variants and every number of retries. *)
(***************************************************************************)
EXTENDS VariantLedger, SizeTotalsProofs

USE VariantAssumption, AllocationAssumption

-----------------------------------------------------------------------------
(* Type correctness *)

\* The sums a state is judged by are naturals.
LEMMA TotalsType ==
  ASSUME TypeOK
  PROVE  /\ ObjectCharge \in [Objects -> Nat] /\ ObjectTotal \in Nat
         /\ derived \in [Variants -> Nat] /\ DerivedTotal \in Nat
         /\ ActualBytes \in Nat
<1>1. ObjectCharge \in [Objects -> Nat]
  BY DEF ObjectCharge
<1>2. derived \in [Variants -> Nat]
  BY DEF TypeOK
<1>3. [v \in Variants |-> IF ObjectOf[v] \in live THEN derived[v] ELSE 0] \in [Variants -> Nat]
  BY <1>2
<1>4. Total([v \in Variants |-> IF ObjectOf[v] \in live THEN derived[v] ELSE 0]) \in Nat
  BY <1>3, TotalNat
<1>5. ObjectTotal \in Nat
  BY <1>1, TotalNat DEF ObjectTotal
<1>6. DerivedTotal \in Nat
  BY <1>2, TotalNat DEF DerivedTotal
<1> QED
  BY <1>1, <1>2, <1>4, <1>5, <1>6 DEF ActualBytes

\* What a running job and its target are.
LEMMA RunningType ==
  ASSUME TypeOK, NEW j \in Jobs, job[j].pc \in Running
  PROVE  /\ job[j] \in JobRecord(Running, MaxAttempts - 1)
         /\ TargetOf[j] \in Variants
         /\ derived[TargetOf[j]] \in 0 .. MaxSize
BY DEF TypeOK, JobState, JobRecord, Running, Ended

\* A running job whose attempt throws is queued again or failed.
LEMMA FailedType ==
  ASSUME TypeOK, NEW j \in Jobs, job[j].pc \in Running
  PROVE  Failed(j) \in [Jobs -> JobState]
<1>1. PICK m \in 0 .. MaxAttempts - 1, s \in 0 .. MaxStalls : m = job[j].made /\ s = job[j].stalls
  BY RunningType DEF JobRecord
<1>2. CASE m + 1 >= MaxAttempts
  <2>1. Idle("failed", m + 1, s) \in JobState
    BY <1>2 DEF Idle, JobState, JobRecord, Ended
  <2> QED
    BY <1>1, <1>2, <2>1 DEF Failed, Final, TypeOK
<1>3. CASE ~(m + 1 >= MaxAttempts)
  <2>1. Idle("queued", m + 1, s) \in JobState
    BY <1>3 DEF Idle, JobState, JobRecord, Running
  <2> QED
    BY <1>1, <1>3, <2>1 DEF Failed, Final, TypeOK
<1> QED
  BY <1>2, <1>3

\* A step of a running job within its attempt.
LEMMA StepType ==
  ASSUME TypeOK, NEW j \in Jobs, NEW r, r \in JobRecord(Running, MaxAttempts - 1)
  PROVE  [job EXCEPT ![j] = r] \in [Jobs -> JobState]
BY DEF TypeOK, JobState

\* A job that is done.
LEMMA DoneType ==
  ASSUME TypeOK, NEW j \in Jobs, job[j].pc \in Running
  PROVE  [job EXCEPT ![j] = Idle("done", job[j].made, job[j].stalls)] \in [Jobs -> JobState]
<1>1. Idle("done", job[j].made, job[j].stalls) \in JobState
  BY RunningType DEF Idle, JobState, JobRecord, Ended
<1> QED
  BY <1>1 DEF TypeOK

\* The initial state is well typed.
LEMMA InitTypeOK == Init => TypeOK
<1> SUFFICES ASSUME Init PROVE TypeOK
  OBVIOUS
<1> USE DEF Init
<1>1. ObjectCharge \in [Objects -> Nat]
  BY DEF ObjectCharge
<1>2. ObjectTotal \in Nat
  BY <1>1, TotalNat DEF ObjectTotal
<1>3. Idle("queued", 0, 0) \in JobState
  BY DEF Idle, JobState, JobRecord, Running
<1>4. job \in [Jobs -> JobState]
  BY <1>3
<1> QED
  BY <1>2, <1>4 DEF TypeOK, NoBytes

\* Every step of a job keeps the types.
LEMMA AttemptTypeOK ==
  ASSUME TypeOK, NEW j \in Jobs, Attempt(j) \/ Stall(j)
  PROVE  TypeOK'
<1> DEFINE r == job[j]
<1>0. 0 \in 0 .. MaxSize /\ Sizes \subseteq 0 .. MaxSize
  BY DEF Sizes
<1>1. ASSUME Render(j) PROVE TypeOK'
  <2>1. job[j].pc \in Running
    BY <1>1 DEF Render, Running
  <2>2. ASSUME NEW n \in Sizes PROVE [job EXCEPT ![j] = [@ EXCEPT !.pc = "rendered", !.size = n]] \in [Jobs -> JobState]
    <3>1. [r EXCEPT !.pc = "rendered", !.size = n] \in JobRecord(Running, MaxAttempts - 1)
      BY <1>0, <2>1, RunningType DEF JobRecord, Running
    <3> QED
      BY <3>1, StepType
  <2>3. job' \in [Jobs -> JobState]
    BY <1>1, <2>1, <2>2, FailedType DEF Render
  <2> QED
    BY <1>1, <2>3 DEF Render, TypeOK, capacityVars
<1>2. ASSUME RecordRead(j) PROVE TypeOK'
  <2>1. job[j].pc \in Running
    BY <1>2 DEF RecordRead, Running
  <2>2. [r EXCEPT !.pc = "read", !.prior = derived[TargetOf[j]], !.holds = derived[TargetOf[j]] # NoBytes]
          \in JobRecord(Running, MaxAttempts - 1)
    BY <1>0, <2>1, RunningType DEF JobRecord, Running
  <2>3. job' \in [Jobs -> JobState]
    BY <1>2, <2>2, StepType DEF RecordRead
  <2> QED
    BY <1>2, <2>3 DEF RecordRead, TypeOK, capacityVars
<1>3. ASSUME RecordCommit(j) PROVE TypeOK'
  <2>1. job[j].pc \in Running
    BY <1>3 DEF RecordCommit, Running
  <2>2. [r EXCEPT !.pc = "recorded", !.prior = 0, !.holds = FALSE]
          \in JobRecord(Running, MaxAttempts - 1)
    BY <1>0, <2>1, RunningType DEF JobRecord, Running
  <2>3. job' \in [Jobs -> JobState]
    BY <1>3, <2>2, StepType DEF RecordCommit
  <2>4. job[j].size \in 0 .. MaxSize /\ job[j].prior \in 0 .. MaxSize
    BY <2>1, RunningType DEF JobRecord
  <2>5. DeltaBytes(j) \in Int
    BY <2>4 DEF DeltaBytes
  <2>6. used' \in Nat /\ deltaSum' \in Int
    BY <1>3, <2>5 DEF RecordCommit, Released, TypeOK
  <2>7. derived' \in [Variants -> 0 .. MaxSize]
    BY <1>3, <2>4 DEF RecordCommit, TypeOK
  <2> QED
    BY <1>3, <2>3, <2>6, <2>7 DEF RecordCommit, TypeOK
<1>4. ASSUME RecordRefused(j) PROVE TypeOK'
  <2>1. job[j].pc \in Running
    BY <1>4 DEF RecordRefused, Running
  <2>2. [r EXCEPT !.pc = "full", !.prior = 0, !.holds = FALSE]
          \in JobRecord(Running, MaxAttempts - 1)
    BY <1>0, <2>1, RunningType DEF JobRecord, Running
  <2>3. job' \in [Jobs -> JobState]
    BY <1>4, <2>1, <2>2, StepType, FailedType DEF RecordRefused
  <2> QED
    BY <1>4, <2>3 DEF RecordRefused, TypeOK, capacityVars
<1>5. ASSUME RecordAbort(j) \/ CompensateFails(j) PROVE TypeOK'
  <2>1. job[j].pc \in Running /\ job' = Failed(j)
    BY <1>5 DEF RecordAbort, CompensateFails, Running
  <2> QED
    BY <1>5, <2>1, FailedType DEF RecordAbort, CompensateFails, TypeOK, capacityVars
<1>6. ASSUME TopUp(j) PROVE TypeOK'
  <2>1. job[j].pc \in Running
    BY <1>6 DEF TopUp, Running
  <2>2. [r EXCEPT !.pc = "rendered", !.retried = TRUE] \in JobRecord(Running, MaxAttempts - 1)
    BY <1>0, <2>1, RunningType DEF JobRecord, Running
  <2>3. job' \in [Jobs -> JobState]
    BY <1>6, <2>1, <2>2, StepType, FailedType DEF TopUp
  <2>4. allocated' \in Nat
    BY <1>6 DEF TopUp, TypeOK
  <2> QED
    BY <1>6, <2>3, <2>4 DEF TopUp, TypeOK
<1>7. ASSUME Upload(j) PROVE TypeOK'
  <2>1. job[j].pc \in Running
    BY <1>7 DEF Upload, Running
  <2>2. job[j].size \in 0 .. MaxSize
    BY <2>1, RunningType DEF JobRecord
  <2>3. stored' \in [Variants -> 0 .. MaxSize]
    BY <1>7, <2>2 DEF Upload, TypeOK
  <2>4. job' \in [Jobs -> JobState]
    BY <1>7, <2>1, DoneType DEF Upload
  <2> QED
    BY <1>7, <2>3, <2>4 DEF Upload, TypeOK, capacityVars
<1>8. ASSUME UploadFails(j) PROVE TypeOK'
  <2>1. job[j].pc \in Running
    BY <1>8 DEF UploadFails, Running
  <2>2. job[j].size \in 0 .. MaxSize
    BY <2>1, RunningType DEF JobRecord
  <2>3. stored' \in [Variants -> 0 .. MaxSize]
    BY <1>8, <2>2 DEF UploadFails, Landed, TypeOK
  <2>4. [r EXCEPT !.pc = "compensate"] \in JobRecord(Running, MaxAttempts - 1)
    BY <1>0, <2>1, RunningType DEF JobRecord, Running
  <2>5. job' \in [Jobs -> JobState]
    BY <1>8, <2>1, <2>4, StepType, FailedType DEF UploadFails, At
  <2> QED
    BY <1>8, <2>3, <2>5 DEF UploadFails, TypeOK, capacityVars
<1>9. ASSUME Compensate(j) PROVE TypeOK'
  <2>1. job[j].pc \in Running
    BY <1>9 DEF Compensate, Running
  <2>2. [r EXCEPT !.pc = "sweep"] \in JobRecord(Running, MaxAttempts - 1)
    BY <1>0, <2>1, RunningType DEF JobRecord, Running
  <2>3. job' \in [Jobs -> JobState]
    BY <1>9, <2>2, StepType DEF Compensate, At
  <2>4. used' \in Nat /\ deltaSum' \in Int
    BY <1>9, <2>1, RunningType DEF Compensate, Released, TypeOK
  <2>5. derived' \in [Variants -> 0 .. MaxSize]
    BY <1>9 DEF Compensate, TypeOK, NoBytes
  <2> QED
    BY <1>9, <2>3, <2>4, <2>5 DEF Compensate, TypeOK
<1>10. ASSUME Sweep(j) PROVE TypeOK'
  <2>1. job[j].pc \in Running
    BY <1>10 DEF Sweep, Running
  <2>2. stored' \in [Variants -> 0 .. MaxSize]
    BY <1>10 DEF Sweep, TypeOK, NoBytes
  <2> QED
    BY <1>10, <2>1, <2>2, FailedType DEF Sweep, TypeOK, capacityVars
<1>11. ASSUME Stall(j) PROVE TypeOK'
  <2>1. job[j].pc \in Running
    BY <1>11 DEF Stall, Running
  <2>2. PICK m \in 0 .. MaxAttempts - 1, s \in 0 .. MaxStalls : m = job[j].made /\ s = job[j].stalls
    BY <2>1, RunningType DEF JobRecord
  <2>3. s < MaxStalls => Idle("queued", m, s + 1) \in JobState
    BY DEF Idle, JobState, JobRecord, Running
  <2>4. Idle("failed", m, s) \in JobState
    BY DEF Idle, JobState, JobRecord, Ended
  <2>5. job' \in [Jobs -> JobState]
    BY <1>11, <2>2, <2>3, <2>4 DEF Stall, TypeOK
  <2>6. job[j].size \in 0 .. MaxSize
    BY <2>1, RunningType DEF JobRecord
  <2>7. stored' \in [Variants -> 0 .. MaxSize]
    BY <1>11, <2>6 DEF Stall, Landed, TypeOK
  <2> QED
    BY <1>11, <2>5, <2>7 DEF Stall, TypeOK, capacityVars
<1> QED
  BY <1>1, <1>2, <1>3, <1>4, <1>5, <1>6, <1>7, <1>8, <1>9, <1>10, <1>11 DEF Attempt

\* So does every step of a delete and of the rollup.
LEMMA OtherTypeOK ==
  ASSUME TypeOK,
         \/ \E o \in Deletable : Removal(o)
         \/ \E r \in Rollups : RollupSnapshot(r) \/ RollupRepair(r)
         \/ UNCHANGED vars
  PROVE  TypeOK'
<1>1. ASSUME NEW o \in Deletable, Removal(o) PROVE TypeOK'
  <2>1. ASSUME RemovalList(o) PROVE TypeOK'
    <3>1. removal' \in [Deletable -> [pc : {"start", "listed", "bytes", "done"}, keys : SUBSET Variants]]
      BY <2>1 DEF RemovalList, TypeOK, VariantsOf
    <3> QED
      BY <2>1, <3>1 DEF RemovalList, TypeOK, capacityVars
  <2>2. ASSUME RemovalCommit(o) PROVE TypeOK'
    <3>1. removal' \in [Deletable -> [pc : {"start", "listed", "bytes", "done"}, keys : SUBSET Variants]]
      BY <2>2 DEF RemovalCommit, TypeOK
    <3>2. derived' \in [Variants -> 0 .. MaxSize]
      BY <2>2 DEF RemovalCommit, TypeOK, NoBytes
    <3>3. used' \in Nat /\ deltaSum' \in Int
      BY <2>2 DEF RemovalCommit, TypeOK, Released
    <3> QED
      BY <2>2, <3>1, <3>2, <3>3 DEF RemovalCommit, TypeOK
  <2>3. ASSUME RemovalBytes(o) PROVE TypeOK'
    <3>1. removal' \in [Deletable -> [pc : {"start", "listed", "bytes", "done"}, keys : SUBSET Variants]]
      BY <2>3 DEF RemovalBytes, TypeOK
    <3>2. stored' \in [Variants -> 0 .. MaxSize]
      BY <2>3 DEF RemovalBytes, TypeOK, NoBytes
    <3> QED
      BY <2>3, <3>1, <3>2 DEF RemovalBytes, TypeOK, capacityVars
  <2> QED
    BY <1>1, <2>1, <2>2, <2>3 DEF Removal
<1>2. ASSUME NEW r \in Rollups, RollupSnapshot(r) PROVE TypeOK'
  BY <1>2, TotalsType DEF RollupSnapshot, TypeOK, capacityVars
<1>3. ASSUME NEW r \in Rollups, RollupRepair(r) PROVE TypeOK'
  BY <1>3 DEF RollupRepair, TypeOK
<1>4. ASSUME UNCHANGED vars PROVE TypeOK'
  BY <1>4 DEF vars, TypeOK
<1> QED
  BY <1>1, <1>2, <1>3, <1>4

\* Whatever jobs, deletes and rollups do, the counter stays a natural number
\* and no job makes more attempts than it has.
THEOREM TypeCorrect == Spec => []TypeOK
<1>1. TypeOK /\ [Next]_vars => TypeOK'
  BY AttemptTypeOK, OtherTypeOK DEF Next
<1> QED
  BY InitTypeOK, <1>1, PTL DEF Spec

-----------------------------------------------------------------------------
(* The reservation covers what is recorded *)

\* Rewriting one row moves DerivedTotal by the difference.
LEMMA DerivedUpdate ==
  ASSUME TypeOK, TypeOK', NEW v \in Variants, NEW n \in Nat,
         derived' = [derived EXCEPT ![v] = n]
  PROVE  DerivedTotal' = DerivedTotal - derived[v] + n
<1> DEFINE new == [derived EXCEPT ![v] = n]
<1>1. derived \in [Variants -> Nat] /\ IsFiniteSet(Variants)
  BY DEF TypeOK
<1>2. /\ new \in [Variants -> Nat] /\ new[v] = n /\ derived' = new
      /\ \A x \in Variants \ {v} : new[x] = derived[x]
  BY <1>1
<1> HIDE DEF new
<1>3. Total(new) = Total(derived) - derived[v] + new[v]
  BY <1>1, <1>2, TotalUpdate
<1> QED
  BY <1>2, <1>3 DEF DerivedTotal

\* No row holds more than all rows together.
LEMMA RowWithinTotal ==
  ASSUME TypeOK, NEW v \in Variants
  PROVE  derived[v] <= DerivedTotal
<1> DEFINE without == [derived EXCEPT ![v] = 0]
<1>1. derived \in [Variants -> Nat] /\ IsFiniteSet(Variants) /\ DerivedTotal \in Nat
  BY TotalsType
<1>2. /\ without \in [Variants -> Nat] /\ without[v] = 0
      /\ \A x \in Variants \ {v} : without[x] = derived[x]
  BY <1>1
<1> HIDE DEF without
<1>3. Total(without) = Total(derived) - derived[v] + without[v]
  BY <1>1, <1>2, TotalUpdate
<1>4. Total(without) \in Nat
  BY <1>1, <1>2, TotalNat
<1> QED
  BY <1>1, <1>2, <1>3, <1>4 DEF DerivedTotal

\* What a step of a job or a delete keeps: the locks, a counter that covers the
\* recorded bytes, and events that follow such a counter.
KeepsCover ==
  /\ LockInv'
  /\ NeverUndercounted => NeverUndercounted'
  /\ NeverUndercounted /\ EventsFollowCounter => EventsFollowCounter'

\* A step that leaves counter, rows, jobs and removals alone.
LEMMA CoverFrame ==
  ASSUME LockInv, UNCHANGED <<used, deltaSum, live, derived, job, removal>>
  PROVE  KeepsCover
<1>1. ObjectTotal' = ObjectTotal /\ DerivedTotal' = DerivedTotal
  BY DEF ObjectTotal, ObjectCharge, DerivedTotal
<1> QED
  BY <1>1 DEF KeepsCover, LockInv, Recorded, NeverUndercounted, EventsFollowCounter

\* A step of a job that ends or does not enter its transaction, and touches no
\* row or counter.
LEMMA CoverLeave ==
  ASSUME LockInv, UNCHANGED <<used, deltaSum, live, derived, removal>>, NEW j \in Jobs,
         job'[j].pc # "read", ~job'[j].holds,
         \A h \in Jobs \ {j} : job'[h] = job[h]
  PROVE  KeepsCover
<1>1. ObjectTotal' = ObjectTotal /\ DerivedTotal' = DerivedTotal
  BY DEF ObjectTotal, ObjectCharge, DerivedTotal
<1>2. \A h \in Jobs : job'[h].pc = "read" \/ job'[h].holds => h # j /\ job'[h] = job[h]
  OBVIOUS
<1>3. LockInv'
  BY <1>2 DEF LockInv
<1> QED
  BY <1>1, <1>3 DEF KeepsCover, Recorded, NeverUndercounted, EventsFollowCounter

\* An attempt that throws holds nothing.
LEMMA FailedLeaves ==
  ASSUME TypeOK, NEW j \in Jobs, job' = Failed(j)
  PROVE  /\ job'[j].pc # "read" /\ ~job'[j].holds
         /\ \A h \in Jobs \ {j} : job'[h] = job[h]
BY DEF Failed, Idle, TypeOK

\* Initially the objects are what is charged.
LEMMA InitCoverInv == Init => CoverInv
<1> SUFFICES ASSUME Init PROVE CoverInv
  OBVIOUS
<1>1. TypeOK
  BY InitTypeOK
<1>2. DOMAIN derived = Variants /\ \A v \in Variants : derived[v] = 0
  BY DEF Init, NoBytes
<1>3. DerivedTotal = 0
  BY <1>2, TotalZero DEF DerivedTotal
<1>4. ObjectTotal \in Nat /\ used = ObjectTotal /\ deltaSum = ObjectTotal
  BY <1>1, TotalsType DEF Init
<1>5. \A j \in Jobs : job[j].pc = "queued" /\ ~job[j].holds
  BY DEF Init, Idle
<1> QED
  BY <1>3, <1>4, <1>5 DEF CoverInv, LockInv, Recorded, NeverUndercounted, EventsFollowCounter, Init

\* The read of a job subtracts nothing, or what it has locked.
LEMMA ReadKeepsCover ==
  ASSUME TypeOK, LockInv, NEW j \in Jobs, RecordRead(j)
  PROVE  KeepsCover
<1>1. ObjectTotal' = ObjectTotal /\ DerivedTotal' = DerivedTotal
  BY DEF RecordRead, ObjectTotal, ObjectCharge, DerivedTotal, capacityVars
<1>2. NeverUndercounted' = NeverUndercounted /\ EventsFollowCounter' = EventsFollowCounter
  BY <1>1 DEF Recorded, NeverUndercounted, EventsFollowCounter, RecordRead, capacityVars
<1>3. /\ job'[j].pc = "read" /\ job'[j].prior = derived[TargetOf[j]]
      /\ job'[j].holds = (derived[TargetOf[j]] # NoBytes)
      /\ \A h \in Jobs \ {j} : job'[h] = job[h]
  BY DEF RecordRead, TypeOK, JobState, JobRecord
<1>4. \A h \in Jobs : job[h].holds => TargetOf[h] # TargetOf[j]
  BY DEF RecordRead, Locked
<1>5. \A h \in Jobs : job'[h].holds => job'[h].pc = "read"
  BY <1>3 DEF LockInv
<1>6. derived' = derived /\ removal' = removal /\ live' = live
  BY DEF RecordRead
<1>7. \A h \in Jobs : job'[h].pc = "read" =>
        job'[h].prior = IF job'[h].holds THEN derived'[TargetOf[h]] ELSE 0
  BY <1>3, <1>6 DEF LockInv, NoBytes
<1>8. \A g, h \in Jobs : job'[g].holds /\ job'[h].holds /\ TargetOf[g] = TargetOf[h] => g = h
  BY <1>3, <1>4 DEF LockInv
<1> QED
  BY <1>2, <1>5, <1>6, <1>7, <1>8 DEF KeepsCover, LockInv

\* The commit of a job moves the counter at least as far as the rows, because
\* the row it overwrites holds at least what it subtracts.
LEMMA CommitKeepsCover ==
  ASSUME TypeOK, TypeOK', LockInv, NEW j \in Jobs, RecordCommit(j)
  PROVE  KeepsCover
<1>1. job[j].pc \in Running
  BY DEF RecordCommit, Running
<1>2. PICK v \in Variants, n \in Nat, p \in Nat :
        v = TargetOf[j] /\ n = job[j].size /\ p = job[j].prior
  BY <1>1, RunningType DEF JobRecord
<1>3. derived[v] \in Nat /\ p <= derived[v]
  BY <1>1, <1>2, RunningType DEF LockInv, RecordCommit
<1>4. derived' = [derived EXCEPT ![v] = n]
  BY <1>2 DEF RecordCommit
<1>5. DerivedTotal' = DerivedTotal - derived[v] + n
  BY <1>2, <1>4, DerivedUpdate
<1>6. ObjectTotal' = ObjectTotal
  BY DEF RecordCommit, ObjectTotal, ObjectCharge
<1>7. /\ ObjectTotal \in Nat /\ DerivedTotal \in Nat /\ used \in Nat /\ deltaSum \in Int
  BY TotalsType DEF TypeOK
<1>8. ASSUME NeverUndercounted PROVE used' = used + n - p /\ deltaSum' = deltaSum + n - p
  <2>1. used >= p
    <3>1. derived[v] <= DerivedTotal
      BY RowWithinTotal
    <3> QED
      BY <1>3, <1>7, <1>8, <3>1 DEF Recorded, NeverUndercounted
  <2>2. DeltaBytes(j) = n - p
    BY <1>2 DEF DeltaBytes
  <2>3. CASE n >= p
    BY <1>2, <1>7, <2>2, <2>3 DEF RecordCommit
  <2>4. CASE ~(n >= p)
    <3>1. used' = Released(p - n)
      BY <1>2, <2>2, <2>4 DEF RecordCommit
    <3>2. used > p - n \/ used = p - n
      BY <1>2, <1>7, <2>1
    <3>3. used' = used + n - p
      BY <1>2, <1>7, <3>1, <3>2 DEF Released
    <3> QED
      BY <1>2, <1>7, <2>2, <3>3 DEF RecordCommit
  <2> QED
    BY <2>3, <2>4
<1>9. /\ NeverUndercounted => NeverUndercounted'
      /\ NeverUndercounted /\ EventsFollowCounter => EventsFollowCounter'
  BY <1>2, <1>3, <1>5, <1>6, <1>7, <1>8 DEF Recorded, NeverUndercounted, EventsFollowCounter
<1>10. /\ job'[j].pc # "read" /\ ~job'[j].holds
       /\ \A h \in Jobs \ {j} : job'[h] = job[h]
  BY DEF RecordCommit, TypeOK, JobState, JobRecord
<1>11. \A h \in Jobs \ {j} : job[h].holds => derived'[TargetOf[h]] = derived[TargetOf[h]]
  BY <1>2, <1>4 DEF RecordCommit, LockedByOther, TypeOK
<1> QED
  BY <1>9, <1>10, <1>11 DEF KeepsCover, LockInv, RecordCommit

\* The compensation of a job takes one row and its bytes.
LEMMA CompensateKeepsCover ==
  ASSUME TypeOK, TypeOK', LockInv, NEW j \in Jobs, Compensate(j)
  PROVE  KeepsCover
<1>1. job[j].pc \in Running
  BY DEF Compensate, Running
<1>2. PICK v \in Variants : v = TargetOf[j]
  BY <1>1, RunningType
<1>3. derived[v] \in Nat /\ derived[v] <= DerivedTotal
  BY <1>1, <1>2, RunningType, RowWithinTotal
<1>4. derived' = [derived EXCEPT ![v] = 0]
  BY <1>2 DEF Compensate, NoBytes
<1>5. DerivedTotal' = DerivedTotal - derived[v] + 0
  BY <1>2, <1>4, DerivedUpdate
<1>6. ObjectTotal' = ObjectTotal
  BY DEF Compensate, ObjectTotal, ObjectCharge
<1>7. /\ ObjectTotal \in Nat /\ DerivedTotal \in Nat /\ used \in Nat /\ deltaSum \in Int
  BY TotalsType DEF TypeOK
<1>8. used' = Released(derived[v]) /\ deltaSum' = deltaSum - derived[v]
  BY <1>2 DEF Compensate
<1>9. ASSUME NeverUndercounted PROVE used' = used - derived[v]
  <2>1. used > derived[v] \/ used = derived[v]
    BY <1>3, <1>7, <1>9 DEF Recorded, NeverUndercounted
  <2> QED
    BY <1>3, <1>7, <1>8, <2>1 DEF Released
<1>10. /\ NeverUndercounted => NeverUndercounted'
       /\ NeverUndercounted /\ EventsFollowCounter => EventsFollowCounter'
  BY <1>3, <1>5, <1>6, <1>7, <1>8, <1>9 DEF Recorded, NeverUndercounted, EventsFollowCounter
<1>11. /\ job'[j].pc = "sweep" /\ job'[j].holds = job[j].holds
       /\ \A h \in Jobs \ {j} : job'[h] = job[h]
  BY DEF Compensate, At, TypeOK, JobState, JobRecord
<1>12. ~job[j].holds
  BY DEF Compensate, LockInv
<1>13. \A h \in Jobs : job[h].holds => derived'[TargetOf[h]] = derived[TargetOf[h]]
  BY <1>2, <1>4 DEF Compensate, Locked, TypeOK
<1> QED
  BY <1>10, <1>11, <1>12, <1>13 DEF KeepsCover, LockInv, Compensate

\* A delete releases the object once, and its derivatives not at all.
LEMMA RemovalKeepsCover ==
  ASSUME TypeOK, TypeOK', LockInv, NEW o \in Deletable, RemovalCommit(o)
  PROVE  KeepsCover
<1>1. o \in live /\ o \in Objects
  BY DEF LockInv, RemovalCommit
<1>2. ObjectTotal' = ObjectTotal - ObjectBytes
  <2> DEFINE new == [x \in Objects |-> IF x \in live \ {o} THEN ObjectBytes ELSE 0]
  <2>1. ObjectCharge \in [Objects -> Nat] /\ ObjectCharge[o] = ObjectBytes /\ IsFiniteSet(Objects)
    BY <1>1 DEF ObjectCharge
  <2>2. /\ new \in [Objects -> Nat] /\ new[o] = 0
        /\ \A x \in Objects \ {o} : new[x] = ObjectCharge[x]
    BY <1>1 DEF ObjectCharge
  <2>3. ObjectCharge' = new
    BY DEF ObjectCharge, RemovalCommit
  <2> HIDE DEF new
  <2>4. Total(new) = Total(ObjectCharge) - ObjectCharge[o] + new[o]
    BY <1>1, <2>1, <2>2, TotalUpdate
  <2>5. Total(ObjectCharge) \in Nat
    BY <2>1, TotalNat
  <2> QED
    BY <2>1, <2>2, <2>3, <2>4, <2>5 DEF ObjectTotal
<1>3. DerivedTotal' \in Nat /\ DerivedTotal' <= DerivedTotal
  <2> DEFINE new == [v \in Variants |-> IF ObjectOf[v] = o THEN NoBytes ELSE derived[v]]
  <2>1. derived \in [Variants -> Nat] /\ IsFiniteSet(Variants)
    BY TotalsType
  <2>2. new \in [Variants -> Nat] /\ \A v \in Variants : new[v] <= derived[v]
    BY <2>1 DEF NoBytes
  <2>3. derived' = new
    BY DEF RemovalCommit
  <2> HIDE DEF new
  <2>4. Total(new) \in Nat /\ Total(new) <= Total(derived)
    BY <2>1, <2>2, TotalNat, TotalMonotone
  <2> QED
    BY <2>3, <2>4 DEF DerivedTotal
<1>4. ObjectTotal' \in Nat
  <2>1. live' \in SUBSET Objects
    BY DEF TypeOK
  <2>2. ObjectCharge' \in [Objects -> Nat] /\ IsFiniteSet(Objects)
    BY DEF ObjectCharge
  <2> QED
    BY <2>2, TotalNat DEF ObjectTotal
<1>5. /\ ObjectTotal \in Nat /\ DerivedTotal \in Nat /\ used \in Nat /\ deltaSum \in Int
  BY TotalsType DEF TypeOK
<1>6. ASSUME NeverUndercounted PROVE used' = used - ObjectBytes
  <2>1. used > ObjectBytes \/ used = ObjectBytes
    BY <1>2, <1>4, <1>5, <1>6 DEF Recorded, NeverUndercounted
  <2> QED
    BY <1>5, <2>1 DEF RemovalCommit, Released
<1>7. /\ NeverUndercounted => NeverUndercounted'
      /\ NeverUndercounted /\ EventsFollowCounter => EventsFollowCounter'
  BY <1>2, <1>3, <1>4, <1>5, <1>6
     DEF Recorded, NeverUndercounted, EventsFollowCounter, RemovalCommit
<1>8. \A h \in Jobs : job[h].holds => derived'[TargetOf[h]] = derived[TargetOf[h]]
  <2>1. \A h \in Jobs : job[h].holds => TargetOf[h] \in Variants /\ ObjectOf[TargetOf[h]] # o
    BY DEF RemovalCommit, Locked, VariantsOf
  <2> QED
    BY <2>1 DEF RemovalCommit
<1>9. \A x \in Deletable : removal'[x].pc \in {"start", "listed"} => x # o /\ removal'[x] = removal[x]
  BY DEF RemovalCommit, TypeOK
<1>10. job' = job
  BY DEF RemovalCommit
<1>11. \A x \in Deletable : removal'[x].pc \in {"start", "listed"} => x \in live'
  BY <1>9 DEF LockInv, RemovalCommit
<1> QED
  BY <1>7, <1>8, <1>10, <1>11 DEF KeepsCover, LockInv

\* Steps of a delete outside its transaction.
LEMMA RemovalFrame ==
  ASSUME TypeOK, LockInv, NEW o \in Deletable, RemovalList(o) \/ RemovalBytes(o)
  PROVE  KeepsCover
<1>1. UNCHANGED <<used, deltaSum, live, derived, job>>
  BY DEF RemovalList, RemovalBytes, capacityVars
<1>2. \A x \in Deletable : removal'[x].pc \in {"start", "listed"} => removal[x].pc \in {"start", "listed"}
  BY DEF RemovalList, RemovalBytes, TypeOK
<1>3. ObjectTotal' = ObjectTotal /\ DerivedTotal' = DerivedTotal
  BY <1>1 DEF ObjectTotal, ObjectCharge, DerivedTotal
<1>4. LockInv'
  BY <1>1, <1>2 DEF LockInv
<1> QED
  BY <1>1, <1>3, <1>4 DEF KeepsCover, Recorded, NeverUndercounted, EventsFollowCounter

\* Every step but the repair of a rollup keeps a counter that covers.
LEMMA NextKeepsCover ==
  ASSUME TypeOK, TypeOK', LockInv, [Next]_vars
  PROVE  KeepsCover \/ (Repairs /\ LockInv')
<1>1. ASSUME NEW j \in Jobs, Attempt(j) \/ Stall(j) PROVE KeepsCover
  <2>1. ASSUME Render(j) PROVE KeepsCover
    <3>1. job'[j].pc # "read" /\ ~job'[j].holds /\ \A h \in Jobs \ {j} : job'[h] = job[h]
      <4>1. CASE job' = Failed(j)
        BY <4>1, FailedLeaves
      <4>2. CASE \E n \in Sizes : job' = [job EXCEPT ![j] = [@ EXCEPT !.pc = "rendered", !.size = n]]
        <5>1. ~job[j].holds
          BY <2>1 DEF Render, LockInv
        <5> QED
          BY <4>2, <5>1 DEF TypeOK, JobState, JobRecord
      <4> QED
        BY <2>1, <4>1, <4>2 DEF Render
    <3> QED
      BY <2>1, <3>1, CoverLeave DEF Render, capacityVars
  <2>2. ASSUME RecordRead(j) PROVE KeepsCover
    BY <2>2, ReadKeepsCover
  <2>3. ASSUME RecordCommit(j) PROVE KeepsCover
    BY <2>3, CommitKeepsCover
  <2>4. ASSUME RecordRefused(j) PROVE KeepsCover
    <3>1. job'[j].pc # "read" /\ ~job'[j].holds /\ \A h \in Jobs \ {j} : job'[h] = job[h]
      <4>1. CASE job' = Failed(j)
        BY <4>1, FailedLeaves
      <4>2. CASE job' = [job EXCEPT ![j] = [@ EXCEPT !.pc = "full", !.prior = 0, !.holds = FALSE]]
        BY <4>2 DEF TypeOK, JobState, JobRecord
      <4> QED
        BY <2>4, <4>1, <4>2 DEF RecordRefused
    <3> QED
      BY <2>4, <3>1, CoverLeave DEF RecordRefused, capacityVars
  <2>5. ASSUME RecordAbort(j) \/ CompensateFails(j) PROVE KeepsCover
    BY <2>5, FailedLeaves, CoverLeave DEF RecordAbort, CompensateFails, capacityVars
  <2>6. ASSUME TopUp(j) PROVE KeepsCover
    <3>1. job'[j].pc # "read" /\ ~job'[j].holds /\ \A h \in Jobs \ {j} : job'[h] = job[h]
      <4>1. CASE job' = Failed(j)
        BY <4>1, FailedLeaves
      <4>2. CASE job' = [job EXCEPT ![j] = [@ EXCEPT !.pc = "rendered", !.retried = TRUE]]
        <5>1. ~job[j].holds
          BY <2>6 DEF TopUp, LockInv
        <5> QED
          BY <4>2, <5>1 DEF TypeOK, JobState, JobRecord
      <4> QED
        BY <2>6, <4>1, <4>2 DEF TopUp
    <3> QED
      BY <2>6, <3>1, CoverLeave DEF TopUp
  <2>7. ASSUME Upload(j) PROVE KeepsCover
    <3>1. job'[j].pc # "read" /\ ~job'[j].holds /\ \A h \in Jobs \ {j} : job'[h] = job[h]
      BY <2>7 DEF Upload, Idle, TypeOK
    <3> QED
      BY <2>7, <3>1, CoverLeave DEF Upload, capacityVars
  <2>8. ASSUME UploadFails(j) PROVE KeepsCover
    <3>1. job'[j].pc # "read" /\ ~job'[j].holds /\ \A h \in Jobs \ {j} : job'[h] = job[h]
      <4>1. CASE job' = Failed(j)
        BY <4>1, FailedLeaves
      <4>2. CASE job' = At(j, "compensate")
        <5>1. ~job[j].holds
          BY <2>8 DEF UploadFails, LockInv
        <5> QED
          BY <4>2, <5>1 DEF At, TypeOK, JobState, JobRecord
      <4> QED
        BY <2>8, <4>1, <4>2 DEF UploadFails
    <3> QED
      BY <2>8, <3>1, CoverLeave DEF UploadFails, capacityVars
  <2>9. ASSUME Compensate(j) PROVE KeepsCover
    BY <2>9, CompensateKeepsCover
  <2>10. ASSUME Sweep(j) PROVE KeepsCover
    BY <2>10, FailedLeaves, CoverLeave DEF Sweep, capacityVars
  <2>11. ASSUME Stall(j) PROVE KeepsCover
    <3>1. job'[j].pc # "read" /\ ~job'[j].holds /\ \A h \in Jobs \ {j} : job'[h] = job[h]
      BY <2>11 DEF Stall, Idle, TypeOK
    <3> QED
      BY <2>11, <3>1, CoverLeave DEF Stall, capacityVars
  <2> QED
    BY <1>1, <2>1, <2>2, <2>3, <2>4, <2>5, <2>6, <2>7, <2>8, <2>9, <2>10, <2>11 DEF Attempt
<1>2. ASSUME NEW o \in Deletable, Removal(o) PROVE KeepsCover
  BY <1>2, RemovalFrame, RemovalKeepsCover DEF Removal
<1>3. ASSUME UNCHANGED vars PROVE KeepsCover
  BY <1>3, CoverFrame DEF vars
<1>4. ASSUME NEW r \in Rollups, RollupSnapshot(r) PROVE KeepsCover
  BY <1>4, CoverFrame DEF RollupSnapshot, capacityVars
<1>5. ASSUME NEW r \in Rollups, RollupRepair(r) PROVE Repairs /\ LockInv'
  BY <1>5 DEF RollupRepair, Repairs, LockInv, TypeOK
<1> QED
  BY <1>1, <1>2, <1>3, <1>4, <1>5 DEF Next

\* Without a rollup no step disturbs the invariant.
LEMMA NextCoverInv ==
  ASSUME Rollups = {}, TypeOK, TypeOK', CoverInv, [Next]_vars
  PROVE  CoverInv'
<1>1. ~Repairs
  BY DEF Repairs
<1> QED
  BY <1>1, NextKeepsCover DEF CoverInv, KeepsCover

\* Whatever jobs write one derivative at the same time, are retried, die or
\* take each other's record back, whatever is deleted meanwhile, and however
\* many rollups run beside them: a counter that covers every live object and
\* recorded derivative covers them after every step of a job or a delete; the
\* repair of a rollup is the only step that can leave it below.
THEOREM OnlyTheRollupUndercounts == Spec => OnlyRepairsUndercount
<1>1. Init => LockInv
  BY InitCoverInv DEF CoverInv
<1>2. TypeOK /\ TypeOK' /\ LockInv /\ [Next]_vars => LockInv'
  BY NextKeepsCover DEF KeepsCover
<1>3. TypeOK /\ TypeOK' /\ LockInv /\ [Next]_vars
        => [NeverUndercounted => NeverUndercounted' \/ Repairs]_vars
  BY NextKeepsCover DEF KeepsCover
<1> QED
  BY TypeCorrect, <1>1, <1>2, <1>3, PTL DEF Spec, OnlyRepairsUndercount

\* Billing is told of every change of the counter, by whatever path a job ends.
THEOREM BillingSeesEveryChange ==
  ASSUME Rollups = {}
  PROVE  Spec => []EventsFollowCounter
<1>1. TypeOK /\ TypeOK' /\ CoverInv /\ [Next]_vars => CoverInv'
  BY NextCoverInv
<1>2. CoverInv => EventsFollowCounter
  BY DEF CoverInv
<1> QED
  BY InitCoverInv, TypeCorrect, <1>1, <1>2, PTL DEF Spec

-----------------------------------------------------------------------------
(* The ledger is exact until two jobs write one derivative *)

\* A job that has started stays started.
LEMMA StartedStays ==
  ASSUME TypeOK, NEW j \in Jobs, Attempt(j) \/ Stall(j)
  PROVE  Started(j)'
<1>1. job[j] \in JobRecord(Running, MaxAttempts - 1)
  BY RunningType DEF Attempt, Stall, Render, RecordRead, RecordCommit, RecordRefused, RecordAbort,
     TopUp, Upload, UploadFails, Compensate, CompensateFails, Sweep, Running
<1>2. ASSUME job'[j].pc # "queued" \/ job'[j].made # 0 \/ job'[j].stalls # 0 PROVE Started(j)'
  BY <1>2 DEF Started, Idle
<1>3. CASE job' = Failed(j)
  <2>1. job'[j].made = job[j].made + 1
    BY <1>3 DEF Failed, Idle, TypeOK
  <2> QED
    BY <1>1, <1>2, <2>1 DEF JobRecord
<1>4. CASE Stall(j)
  <2>1. job'[j].stalls = job[j].stalls + 1 \/ job'[j].pc = "failed"
    BY <1>4 DEF Stall, Idle, TypeOK
  <2> QED
    BY <1>1, <1>2, <2>1 DEF JobRecord
<1>5. CASE Attempt(j) /\ job' # Failed(j)
  <2>1. job'[j].pc # "queued"
    <3>1. CASE Render(j)
      <4>1. PICK n \in Sizes : job' = [job EXCEPT ![j] = [@ EXCEPT !.pc = "rendered", !.size = n]]
        BY <1>5, <3>1 DEF Render
      <4> QED
        BY <4>1 DEF TypeOK, JobState, JobRecord
    <3>2. CASE RecordRead(j)
      BY <3>2 DEF RecordRead, TypeOK, JobState, JobRecord
    <3>3. CASE RecordCommit(j)
      BY <3>3 DEF RecordCommit, TypeOK, JobState, JobRecord
    <3>4. CASE RecordRefused(j)
      BY <1>5, <3>4 DEF RecordRefused, TypeOK, JobState, JobRecord
    <3>5. CASE TopUp(j)
      <4>1. job' = [job EXCEPT ![j] = [@ EXCEPT !.pc = "rendered", !.retried = TRUE]]
        BY <1>5, <3>5 DEF TopUp
      <4> QED
        BY <4>1 DEF TypeOK, JobState, JobRecord
    <3>6. CASE Upload(j) \/ UploadFails(j) \/ Compensate(j)
      BY <1>5, <3>6 DEF Upload, UploadFails, Compensate, Idle, At, TypeOK, JobState, JobRecord
    <3> QED
      BY <1>5, <3>1, <3>2, <3>3, <3>4, <3>5, <3>6
         DEF Attempt, RecordAbort, CompensateFails, Sweep
  <2> QED
    BY <1>2, <2>1
<1> QED
  BY <1>3, <1>4, <1>5

\* What is undisturbed now was undisturbed before.
LEMMA UndisturbedBefore ==
  ASSUME TypeOK, [Next]_vars, Undisturbed'
  PROVE  Undisturbed
<1>1. live' \subseteq live /\ live \subseteq Objects
  BY DEF Next, Attempt, Stall, Render, RecordRead, RecordCommit, RecordRefused, RecordAbort,
     TopUp, Upload, UploadFails, Compensate, CompensateFails, Sweep, Removal, RemovalList,
     RemovalCommit, RemovalBytes, RollupSnapshot, RollupRepair, vars, TypeOK
<1>2. \A j \in Jobs : Started(j) => Started(j)'
  <2>1. ASSUME NEW j \in Jobs, job'[j] = job[j], Started(j) PROVE Started(j)'
    BY <2>1 DEF Started, Idle
  <2>2. ASSUME NEW h \in Jobs, Attempt(h) \/ Stall(h), NEW j \in Jobs \ {h} PROVE job'[j] = job[j]
    BY <2>2 DEF Attempt, Stall, Render, RecordRead, RecordCommit, RecordRefused, RecordAbort,
       TopUp, Upload, UploadFails, Compensate, CompensateFails, Sweep, Failed, At, TypeOK
  <2>3. ASSUME NEW h \in Jobs, Attempt(h) \/ Stall(h) PROVE \A j \in Jobs : Started(j) => Started(j)'
    BY <2>1, <2>2, <2>3, StartedStays
  <2>4. CASE UNCHANGED job
    BY <2>1, <2>4
  <2> QED
    BY <2>3, <2>4 DEF Next, Removal, RemovalList, RemovalCommit, RemovalBytes, RollupSnapshot,
       RollupRepair, vars
<1> QED
  BY <1>1, <1>2 DEF Undisturbed

\* Nobody else is recording the key of a job that writes it.
LEMMA NobodyElse ==
  ASSUME Undisturbed, NEW j \in Jobs, job[j].pc # "queued"
  PROVE  \A h \in Jobs \ {j} : job[h].pc = "read" => TargetOf[h] # TargetOf[j]
BY DEF Undisturbed, Started, Idle

\* A step that leaves the rows and the counter alone, and after which a job
\* that is recording was recording before.
LEMMA ExactFrame ==
  ASSUME ExactInv, CoverInv', UNCHANGED <<used, live, derived>>,
         \A j \in Jobs : job'[j].pc = "read" =>
           job[j].pc = "read" /\ job'[j].prior = job[j].prior
  PROVE  ExactInv'
<1>1. ObjectTotal' = ObjectTotal /\ DerivedTotal' = DerivedTotal
  BY DEF ObjectTotal, ObjectCharge, DerivedTotal
<1> QED
  BY <1>1 DEF ExactInv, LedgerExact

\* The commit of a job moves counter and rows alike.
LEMMA CommitKeepsExact ==
  ASSUME Undisturbed, TypeOK, TypeOK', ExactInv, CoverInv', NEW j \in Jobs, RecordCommit(j)
  PROVE  ExactInv'
<1>1. job[j].pc \in Running
  BY DEF RecordCommit, Running
<1>2. PICK v \in Variants, n \in Nat : v = TargetOf[j] /\ n = job[j].size
  BY <1>1, RunningType DEF JobRecord
<1>3. derived[v] \in Nat /\ derived[v] <= DerivedTotal /\ job[j].prior = derived[v]
  BY <1>1, <1>2, RunningType, RowWithinTotal DEF ExactInv, RecordCommit
<1>4. derived' = [derived EXCEPT ![v] = n]
  BY <1>2 DEF RecordCommit
<1>5. DerivedTotal' = DerivedTotal - derived[v] + n
  BY <1>2, <1>4, DerivedUpdate
<1>6. ObjectTotal' = ObjectTotal
  BY DEF RecordCommit, ObjectTotal, ObjectCharge
<1>7. ObjectTotal \in Nat /\ DerivedTotal \in Nat /\ used = ObjectTotal + DerivedTotal
  BY TotalsType DEF ExactInv, LedgerExact
<1>8. DeltaBytes(j) = n - derived[v]
  BY <1>2, <1>3 DEF DeltaBytes
<1>9. used' = used + n - derived[v]
  <2>1. CASE n >= derived[v]
    BY <1>2, <1>3, <1>7, <1>8, <2>1 DEF RecordCommit
  <2>2. CASE ~(n >= derived[v])
    <3>1. used' = Released(derived[v] - n)
      BY <1>2, <1>3, <1>8, <2>2 DEF RecordCommit
    <3>2. used > derived[v] - n \/ used = derived[v] - n
      BY <1>2, <1>3, <1>7
    <3> QED
      BY <1>2, <1>3, <1>7, <3>1, <3>2 DEF Released
  <2> QED
    BY <2>1, <2>2
<1>10. LedgerExact'
  BY <1>2, <1>3, <1>5, <1>6, <1>7, <1>9 DEF LedgerExact
<1>11. /\ job'[j].pc = "recorded"
       /\ \A h \in Jobs \ {j} : job'[h] = job[h]
  BY <1>2 DEF RecordCommit, TypeOK, JobState, JobRecord
<1>12. \A h \in Jobs \ {j} : job[h].pc = "read" => derived'[TargetOf[h]] = derived[TargetOf[h]]
  BY <1>2, <1>4, NobodyElse DEF TypeOK, RecordCommit
<1> QED
  BY <1>10, <1>11, <1>12 DEF ExactInv

\* The compensation of a job moves counter and rows alike.
LEMMA CompensateKeepsExact ==
  ASSUME Undisturbed, TypeOK, TypeOK', ExactInv, CoverInv', NEW j \in Jobs, Compensate(j)
  PROVE  ExactInv'
<1>1. job[j].pc \in Running
  BY DEF Compensate, Running
<1>2. PICK v \in Variants : v = TargetOf[j]
  BY <1>1, RunningType
<1>3. derived[v] \in Nat /\ derived[v] <= DerivedTotal
  BY <1>1, <1>2, RunningType, RowWithinTotal
<1>4. derived' = [derived EXCEPT ![v] = 0]
  BY <1>2 DEF Compensate, NoBytes
<1>5. DerivedTotal' = DerivedTotal - derived[v] + 0
  BY <1>2, <1>4, DerivedUpdate
<1>6. ObjectTotal' = ObjectTotal
  BY DEF Compensate, ObjectTotal, ObjectCharge
<1>7. ObjectTotal \in Nat /\ DerivedTotal \in Nat /\ used = ObjectTotal + DerivedTotal
  BY TotalsType DEF ExactInv, LedgerExact
<1>8. used' = used - derived[v]
  <2>1. used' = Released(derived[v])
    BY <1>2 DEF Compensate
  <2>2. used > derived[v] \/ used = derived[v]
    BY <1>3, <1>7
  <2> QED
    BY <1>3, <1>7, <2>1, <2>2 DEF Released
<1>9. LedgerExact'
  BY <1>3, <1>5, <1>6, <1>7, <1>8 DEF LedgerExact
<1>10. /\ job'[j].pc = "sweep"
       /\ \A h \in Jobs \ {j} : job'[h] = job[h]
  BY <1>2 DEF Compensate, At, TypeOK, JobState, JobRecord
<1>11. \A h \in Jobs \ {j} : job[h].pc = "read" => derived'[TargetOf[h]] = derived[TargetOf[h]]
  BY <1>2, <1>4, NobodyElse DEF TypeOK, Compensate
<1> QED
  BY <1>9, <1>10, <1>11 DEF ExactInv

\* Every step that leaves the jobs undisturbed keeps the ledger exact.
LEMMA NextExactInv ==
  ASSUME Rollups = {}, Undisturbed, Undisturbed',
         TypeOK, TypeOK', ExactInv, CoverInv', [Next]_vars
  PROVE  ExactInv'
<1>1. ASSUME NEW j \in Jobs, Attempt(j) \/ Stall(j) PROVE ExactInv'
  <2>1. CASE RecordCommit(j)
    BY <2>1, CommitKeepsExact
  <2>2. CASE Compensate(j)
    BY <2>2, CompensateKeepsExact
  <2>3. CASE RecordRead(j)
    <3>1. UNCHANGED <<used, live, derived>>
      BY <2>3 DEF RecordRead, capacityVars
    <3>2. ObjectTotal' = ObjectTotal /\ DerivedTotal' = DerivedTotal
      BY <3>1 DEF ObjectTotal, ObjectCharge, DerivedTotal
    <3>3. job'[j].prior = derived[TargetOf[j]] /\ \A h \in Jobs \ {j} : job'[h] = job[h]
      BY <2>3 DEF RecordRead, TypeOK, JobState, JobRecord
    <3> QED
      BY <3>1, <3>2, <3>3 DEF ExactInv, LedgerExact
  <2>4. CASE ~(RecordCommit(j) \/ Compensate(j) \/ RecordRead(j))
    <3>1. UNCHANGED <<used, live, derived>>
      BY <1>1, <2>4 DEF Attempt, Render, RecordRefused, RecordAbort, TopUp, Upload,
         UploadFails, CompensateFails, Sweep, Stall, capacityVars
    <3> DEFINE left == job'[j].pc # "read" /\ \A h \in Jobs \ {j} : job'[h] = job[h]
    <3>2. CASE job' = Failed(j)
      BY <3>1, <3>2, FailedLeaves, ExactFrame
    <3>3. CASE Render(j) /\ job' # Failed(j)
      <4>1. \E n \in Sizes : job' = [job EXCEPT ![j] = [@ EXCEPT !.pc = "rendered", !.size = n]]
        BY <3>3 DEF Render
      <4>2. left
        BY <4>1 DEF TypeOK, JobState, JobRecord
      <4> QED
        BY <3>1, <4>2, ExactFrame
    <3>4. CASE (RecordRefused(j) \/ TopUp(j)) /\ job' # Failed(j)
      <4>1. \/ job' = [job EXCEPT ![j] = [@ EXCEPT !.pc = "full", !.prior = 0, !.holds = FALSE]]
            \/ job' = [job EXCEPT ![j] = [@ EXCEPT !.pc = "rendered", !.retried = TRUE]]
        BY <3>4 DEF RecordRefused, TopUp
      <4>2. left
        <5>1. CASE job' = [job EXCEPT ![j] = [@ EXCEPT !.pc = "full", !.prior = 0, !.holds = FALSE]]
          BY <5>1 DEF TypeOK, JobState, JobRecord
        <5>2. CASE job' = [job EXCEPT ![j] = [@ EXCEPT !.pc = "rendered", !.retried = TRUE]]
          BY <5>2 DEF TypeOK, JobState, JobRecord
        <5> QED
          BY <4>1, <5>1, <5>2
      <4> QED
        BY <3>1, <4>2, ExactFrame
    <3>5. CASE (Upload(j) \/ UploadFails(j)) /\ job' # Failed(j)
      <4>1. \/ job' = [job EXCEPT ![j] = Idle("done", job[j].made, job[j].stalls)]
            \/ job' = At(j, "compensate")
        BY <3>5 DEF Upload, UploadFails
      <4>2. left
        <5>1. CASE job' = [job EXCEPT ![j] = Idle("done", job[j].made, job[j].stalls)]
          BY <5>1 DEF Idle, TypeOK
        <5>2. CASE job' = At(j, "compensate")
          BY <5>2 DEF At, TypeOK, JobState, JobRecord
        <5> QED
          BY <4>1, <5>1, <5>2
      <4> QED
        BY <3>1, <4>2, ExactFrame
    <3>6. CASE Stall(j)
      <4>1. left
        BY <3>6 DEF Stall, Idle, TypeOK
      <4> QED
        BY <3>1, <4>1, ExactFrame
    <3> QED
      BY <1>1, <2>4, <3>2, <3>3, <3>4, <3>5, <3>6
         DEF Attempt, RecordAbort, CompensateFails, Sweep
  <2> QED
    BY <2>1, <2>2, <2>3, <2>4
<1>2. ASSUME UNCHANGED vars PROVE ExactInv'
  BY <1>2, ExactFrame DEF vars
<1>3. ASSUME NEW o \in Deletable, Removal(o) PROVE ExactInv'
  <2>1. ~RemovalCommit(o)
    BY DEF RemovalCommit, Undisturbed
  <2>2. UNCHANGED <<used, live, derived, job>>
    BY <1>3, <2>1 DEF Removal, RemovalList, RemovalBytes, capacityVars
  <2> QED
    BY <2>2, ExactFrame
<1> QED
  BY <1>1, <1>2, <1>3 DEF Next

\* Initially there is no derivative.
LEMMA InitExactInv == Init => ExactInv
<1> SUFFICES ASSUME Init PROVE ExactInv
  OBVIOUS
<1>1. CoverInv
  BY InitCoverInv
<1>2. DOMAIN derived = Variants /\ \A v \in Variants : derived[v] = 0
  BY DEF Init, NoBytes
<1>3. DerivedTotal = 0
  BY <1>2, TotalZero DEF DerivedTotal
<1>4. ObjectTotal \in Nat /\ used = ObjectTotal
  BY InitTypeOK, TotalsType DEF Init
<1>5. \A j \in Jobs : job[j].pc = "queued"
  BY DEF Init, Idle
<1> QED
  BY <1>1, <1>3, <1>4, <1>5 DEF ExactInv, LedgerExact

\* "The derivative row is the ledger": retries, crashes, refused reservations,
\* automatic adds and compensations of any number of jobs keep used_bytes equal
\* to the live objects and recorded derivatives, until two jobs have written one
\* derivative or an object is deleted.
THEOREM RetriesKeepTheLedger ==
  ASSUME Rollups = {}
  PROVE  Spec => []ExactUntilDisturbed
<1> DEFINE Inv == CoverInv /\ (Undisturbed => ExactInv)
<1>1. Init => Inv
  BY InitExactInv DEF ExactInv
<1>2. TypeOK /\ TypeOK' /\ Inv /\ [Next]_vars => Inv'
  <2> SUFFICES ASSUME TypeOK, TypeOK', Inv, [Next]_vars PROVE Inv'
    OBVIOUS
  <2>1. CoverInv'
    BY NextCoverInv
  <2>2. ASSUME Undisturbed' PROVE ExactInv'
    BY <2>1, <2>2, UndisturbedBefore, NextExactInv
  <2> QED
    BY <2>1, <2>2
<1>3. Inv => ExactUntilDisturbed
  BY DEF ExactInv, ExactUntilDisturbed
<1> HIDE DEF Inv
<1> QED
  BY TypeCorrect, <1>1, <1>2, <1>3, PTL DEF Spec
-----------------------------------------------------------------------------
(* A job that is done has left its bytes *)

Rendering == {"rendered", "read", "full", "recorded"}

\* What a job has got done so far is in its row, and at the end in the bucket.
Kept(j) ==
  /\ job[j].pc = "recorded" => derived[TargetOf[j]] = job[j].size
  /\ job[j].pc = "done" =>
       derived[TargetOf[j]] # NoBytes /\ stored[TargetOf[j]] = derived[TargetOf[j]]

\* Why: a rendition is never empty, a delete that removes bytes has taken its
\* object out of live, and nobody else writes the key of a job that has started.
StoredInv ==
  /\ \A j \in Jobs : job[j].pc \in Rendering => job[j].size # NoBytes
  /\ \A o \in Deletable : removal[o].pc = "bytes" => o \notin live
  /\ Undisturbed => \A j \in Jobs : Kept(j)

LEMMA InitStored == Init => StoredInv
BY DEF Init, StoredInv, Idle, Rendering, Kept

\* Where one step of a job leaves it: an attempt that goes on, the commit, the
\* upload, or an attempt that is over without an effect a reader relies on.
LEMMA JobOutcome ==
  ASSUME TypeOK, StoredInv, NEW j \in Jobs, Attempt(j) \/ Stall(j)
  PROVE  /\ \A h \in Jobs \ {j} : job'[h] = job[h]
         /\ \A v \in Variants \ {TargetOf[j]} : derived'[v] = derived[v] /\ stored'[v] = stored[v]
         /\ UNCHANGED <<live, removal>>
         /\ job'[j].pc \in Rendering => job'[j].size # NoBytes
         /\ job'[j].pc = "recorded" => derived'[TargetOf[j]] = job'[j].size
         /\ job'[j].pc = "done" => Upload(j)
<1> DEFINE others == \A h \in Jobs \ {j} : job'[h] = job[h]
           own == /\ job'[j].pc \in Rendering => job'[j].size # NoBytes
                  /\ job'[j].pc = "recorded" => derived'[TargetOf[j]] = job'[j].size
                  /\ job'[j].pc = "done" => Upload(j)
<1>1. job[j] \in JobRecord(Running, MaxAttempts - 1) /\ TargetOf[j] \in Variants
  BY RunningType DEF Attempt, Stall, Render, RecordRead, RecordCommit, RecordRefused, RecordAbort,
     TopUp, Upload, UploadFails, Compensate, CompensateFails, Sweep, Running
<1>2. UNCHANGED <<live, removal>>
  BY DEF Attempt, Stall, Render, RecordRead, RecordCommit, RecordRefused, RecordAbort,
     TopUp, Upload, UploadFails, Compensate, CompensateFails, Sweep
<1>3. \A v \in Variants \ {TargetOf[j]} : derived'[v] = derived[v] /\ stored'[v] = stored[v]
  <2>1. \A v \in Variants \ {TargetOf[j]} : derived'[v] = derived[v]
    BY DEF TypeOK, Attempt, Stall, Render, RecordRead, RecordCommit, RecordRefused, RecordAbort,
       TopUp, Upload, UploadFails, Compensate, CompensateFails, Sweep
  <2>2. CASE UNCHANGED stored \/ stored' \in Landed(j)
             \/ stored' = [stored EXCEPT ![TargetOf[j]] = NoBytes]
    BY <2>1, <2>2 DEF Landed, TypeOK
  <2> QED
    BY <2>2 DEF Attempt, Stall, Render, RecordRead, RecordCommit, RecordRefused, RecordAbort,
       TopUp, Upload, UploadFails, Compensate, CompensateFails, Sweep, Landed
<1>4. ASSUME NEW r, job' = [job EXCEPT ![j] = r] PROVE job'[j] = r /\ others
  BY <1>4 DEF TypeOK
<1>5. ASSUME job'[j].pc \in {"queued", "failed"} PROVE own
  BY <1>5 DEF Rendering
<1>6. CASE job' = Failed(j)
  <2>1. job'[j].pc \in {"queued", "failed"} /\ others
    BY <1>6 DEF Failed, Idle, TypeOK
  <2> QED
    BY <1>2, <1>3, <1>5, <2>1
<1>7. CASE Stall(j)
  <2>1. job'[j].pc \in {"queued", "failed"} /\ others
    BY <1>7 DEF Stall, Idle, TypeOK
  <2> QED
    BY <1>2, <1>3, <1>5, <2>1
<1>8. CASE Render(j) /\ job' # Failed(j)
  <2>1. PICK n \in Sizes : job' = [job EXCEPT ![j] = [job[j] EXCEPT !.pc = "rendered", !.size = n]]
    BY <1>8 DEF Render
  <2>2. job'[j] = [job[j] EXCEPT !.pc = "rendered", !.size = n] /\ others
    BY <1>4, <2>1
  <2> QED
    BY <1>1, <1>2, <1>3, <2>2 DEF JobRecord, Rendering, Sizes, NoBytes
<1>9. CASE RecordRead(j)
  <2>1. /\ job'[j] = [job[j] EXCEPT !.pc = "read", !.prior = derived[TargetOf[j]],
                                    !.holds = derived[TargetOf[j]] # NoBytes]
        /\ others
    BY <1>4, <1>9 DEF RecordRead
  <2>2. job[j].size # NoBytes
    BY <1>9 DEF StoredInv, RecordRead, Rendering
  <2> QED
    BY <1>1, <1>2, <1>3, <2>1, <2>2 DEF JobRecord, Rendering
<1>10. CASE RecordCommit(j)
  <2>1. job'[j] = [job[j] EXCEPT !.pc = "recorded", !.prior = 0, !.holds = FALSE] /\ others
    BY <1>4, <1>10 DEF RecordCommit
  <2>2. job[j].size # NoBytes
    BY <1>10 DEF StoredInv, RecordCommit, Rendering
  <2>3. derived'[TargetOf[j]] = job[j].size
    BY <1>1, <1>10 DEF RecordCommit, TypeOK
  <2> QED
    BY <1>1, <1>2, <1>3, <2>1, <2>2, <2>3 DEF JobRecord, Rendering
<1>11. CASE RecordRefused(j) /\ job' # Failed(j)
  <2>1. job'[j] = [job[j] EXCEPT !.pc = "full", !.prior = 0, !.holds = FALSE] /\ others
    BY <1>4, <1>11 DEF RecordRefused
  <2>2. job[j].size # NoBytes
    BY <1>11 DEF StoredInv, RecordRefused, Rendering
  <2> QED
    BY <1>1, <1>2, <1>3, <2>1, <2>2 DEF JobRecord, Rendering
<1>12. CASE TopUp(j) /\ job' # Failed(j)
  <2>1. job'[j] = [job[j] EXCEPT !.pc = "rendered", !.retried = TRUE] /\ others
    BY <1>4, <1>12 DEF TopUp
  <2>2. job[j].size # NoBytes
    BY <1>12 DEF StoredInv, TopUp, Rendering
  <2> QED
    BY <1>1, <1>2, <1>3, <2>1, <2>2 DEF JobRecord, Rendering
<1>13. CASE Upload(j)
  <2>1. job'[j].pc = "done" /\ others
    BY <1>4, <1>13 DEF Upload, Idle
  <2> QED
    BY <1>2, <1>3, <1>13, <2>1 DEF Rendering
<1>14. CASE (UploadFails(j) \/ Compensate(j)) /\ job' # Failed(j)
  <2>1. job' = At(j, "compensate") \/ job' = At(j, "sweep")
    BY <1>14 DEF UploadFails, Compensate
  <2>2. job'[j].pc \in {"compensate", "sweep"} /\ others
    BY <1>1, <2>1 DEF At, TypeOK, JobRecord
  <2> QED
    BY <1>2, <1>3, <2>2 DEF Rendering
<1> QED
  BY <1>2, <1>3, <1>6, <1>7, <1>8, <1>9, <1>10, <1>11, <1>12, <1>13, <1>14
     DEF Attempt, RecordAbort, CompensateFails, Sweep

\* A step of a job leaves what the others have stored, and stores its own.
LEMMA JobKeepsStored ==
  ASSUME TypeOK, StoredInv, NEW j \in Jobs, Attempt(j) \/ Stall(j), [Next]_vars
  PROVE  StoredInv'
<1>1. \A h \in Jobs : job'[h].pc \in Rendering => job'[h].size # NoBytes
  BY JobOutcome DEF StoredInv
<1>2. \A o \in Deletable : removal'[o].pc = "bytes" => o \notin live'
  BY JobOutcome DEF StoredInv
<1>3. ASSUME Undisturbed', NEW h \in Jobs PROVE Kept(h)'
  <2>1. Kept(h)
    BY <1>3, UndisturbedBefore DEF StoredInv
  <2>2. CASE h # j /\ ~Started(h)
    <3>1. job'[h].pc = "queued"
      BY <2>2, JobOutcome DEF Started, Idle
    <3> QED
      BY <3>1 DEF Kept
  <2>3. CASE h # j /\ Started(h)
    <3>1. job'[h] = job[h]
      BY <2>3, JobOutcome
    <3>2. Started(h)'
      BY <2>3, <3>1 DEF Started, Idle
    <3>3. TargetOf[h] # TargetOf[j]
      BY <1>3, <2>3, <3>2, StartedStays DEF Undisturbed
    <3>4. CASE TargetOf[h] \in Variants
      BY <2>1, <3>1, <3>3, <3>4, JobOutcome DEF Kept
    <3> QED
      BY <3>4
  <2>4. CASE h = j
    <3>1. job'[j].pc = "recorded" => derived'[TargetOf[j]] = job'[j].size
      BY JobOutcome
    <3>2. CASE Upload(j)
      <4>1. job[j].pc = "recorded" /\ derived' = derived
            /\ stored' = [stored EXCEPT ![TargetOf[j]] = job[j].size]
        BY <3>2 DEF Upload
      <4>2. job[j].size # NoBytes /\ TargetOf[j] \in Variants
        BY <4>1 DEF StoredInv, Rendering
      <4>3. derived[TargetOf[j]] = job[j].size
        BY <2>1, <2>4, <4>1 DEF Kept
      <4> QED
        BY <2>4, <3>1, <4>1, <4>2, <4>3 DEF Kept, TypeOK
    <3>3. CASE ~Upload(j)
      BY <2>4, <3>1, <3>3, JobOutcome DEF Kept
    <3> QED
      BY <3>2, <3>3
  <2> QED
    BY <2>2, <2>3, <2>4
<1> QED
  BY <1>1, <1>2, <1>3 DEF StoredInv

LEMMA NextStored == TypeOK /\ StoredInv /\ [Next]_vars => StoredInv'
<1> SUFFICES ASSUME TypeOK, StoredInv, [Next]_vars PROVE StoredInv'
  OBVIOUS
<1>1. CASE \E r \in Rollups : RollupSnapshot(r) \/ RollupRepair(r)
  <2>1. UNCHANGED <<live, derived, stored, job, removal>>
    BY <1>1 DEF RollupSnapshot, RollupRepair
  <2> QED
    BY <2>1 DEF StoredInv, Kept, Undisturbed, Started
<1>2. CASE UNCHANGED vars
  BY <1>2 DEF vars, StoredInv, Kept, Undisturbed, Started
<1>3. ASSUME NEW o \in Deletable, Removal(o) PROVE StoredInv'
  <2>1. UNCHANGED job
    BY <1>3 DEF Removal, RemovalList, RemovalCommit, RemovalBytes
  <2>2. \A x \in Deletable : removal'[x].pc = "bytes" => x \notin live'
    <3>1. CASE RemovalList(o)
      BY <3>1 DEF RemovalList, StoredInv, TypeOK
    <3>2. CASE RemovalCommit(o)
      BY <3>2 DEF RemovalCommit, StoredInv, TypeOK
    <3>3. CASE RemovalBytes(o)
      BY <3>3 DEF RemovalBytes, StoredInv, TypeOK
    <3> QED
      BY <1>3, <3>1, <3>2, <3>3 DEF Removal
  <2>3. ASSUME Undisturbed' PROVE UNCHANGED <<derived, stored>>
    <3>1. live' = Objects /\ Undisturbed
      BY <2>3, UndisturbedBefore DEF Undisturbed
    <3>2. ~RemovalCommit(o) /\ ~RemovalBytes(o)
      BY <3>1 DEF RemovalCommit, RemovalBytes, StoredInv, Undisturbed
    <3> QED
      BY <1>3, <3>2 DEF Removal, RemovalList
  <2>4. ASSUME Undisturbed', NEW j \in Jobs PROVE Kept(j)'
    BY <2>1, <2>3, <2>4, UndisturbedBefore DEF Kept, StoredInv
  <2> QED
    BY <2>1, <2>2, <2>4 DEF StoredInv
<1> QED
  BY <1>1, <1>2, <1>3, JobKeepsStored DEF Next

\* A job that reports success has its bytes in the bucket, of the size its row
\* is charged for: until two jobs have written one key or an object is deleted,
\* whatever attempts fail, die or are taken back, and also while the rollup runs.
THEOREM FinishedJobsLeaveTheirBytes == Spec => []DoneIsStored
<1>1. StoredInv => DoneIsStored
  BY DEF StoredInv, Kept, DoneIsStored
<1> QED
  BY TypeCorrect, InitStored, NextStored, <1>1, PTL DEF Spec
=============================================================================
