---------------------------- MODULE PartsProofs ----------------------------
(***************************************************************************)
(* Proofs about what runs beside the requests, for any releases and        *)
(* deployments, jobs and shutdowns, buckets and listings, contents of an   *)
(* object and their derivatives; and about what a tenant does in the       *)
(* dashboard, for any pages, clips, moves and batches, sets, items and     *)
(* generations, files, parts and failures, and lists of any length.        *)
(***************************************************************************)
EXTENDS MCParts, Sequences, FiniteSets, FiniteSetTheorems, SequenceTheorems, TLAPS

-----------------------------------------------------------------------------
(* Migrations *)

Walking == {"file", "backfill", "run"}
RunRecord == [at : {"start", "file", "backfill", "run", "done", "failed"}, file : Nat]

\* A run that walks holds the lock, unless a pooler took it, and leaves behind
\* it files that are on record, with its own texts if it held the lock.
WalkInv ==
  \A r \in Runners :
    /\ runner[r].at \in Walking =>
         /\ ~pooled => lock = r
         /\ \A g \in Deploying!Files(r) : g < runner[r].file =>
              record[g] # Absent /\ (~pooled => record[g] = Release[r][g])
    /\ runner[r].at = "backfill" =>
         /\ record[runner[r].file] # Absent
         /\ ~pooled => record[runner[r].file] = Unsummed

ReleaseInv ==
  /\ Deploying!TypeOK /\ WalkInv
  /\ Deploying!AppliedOnce /\ Deploying!InOrder /\ Deploying!DoneIsApplied

LEMMA ReleaseFiles ==
  /\ \A r \in Runners : /\ Deploying!Files(r) = 1 .. Len(Release[r])
                        /\ Len(Release[r]) \in Nat \ {0}
                        /\ Deploying!Files(r) \subseteq Deploying!AllFiles
                        /\ \A f \in Deploying!Files(r) : Release[r][f] \in Texts
  /\ Deploying!AllFiles \subseteq Nat \ {0}
  /\ None \notin Runners /\ Absent \notin Texts /\ Unsummed \notin Texts /\ Absent # Unsummed
<1> USE MigrationsAssumption DEF Deploying!MigrationsAssumption
<1>1. ASSUME NEW r \in Runners
      PROVE  /\ Deploying!Files(r) = 1 .. Len(Release[r]) /\ Len(Release[r]) \in Nat \ {0}
             /\ \A f \in Deploying!Files(r) : Release[r][f] \in Texts
  <2>1. Release[r] \in Seq(Texts) /\ Release[r] # <<>>
    OBVIOUS
  <2> QED
    BY <2>1 DEF Deploying!Files
<1> QED
  BY <1>1 DEF Deploying!AllFiles

LEMMA InitRelease == Deploying!Init => ReleaseInv
<1> SUFFICES ASSUME Deploying!Init PROVE ReleaseInv
  OBVIOUS
<1>1. PICK n \in {0} \cup Deploying!AllFiles :
        /\ record = [f \in Deploying!AllFiles |-> IF f <= n THEN Unsummed ELSE Absent]
        /\ effects = [f \in Deploying!AllFiles |-> IF f <= n THEN 1 ELSE 0]
  BY DEF Deploying!Init
<1>2. \A f \in Deploying!AllFiles :
        /\ record[f] = IF f <= n THEN Unsummed ELSE Absent
        /\ effects[f] = IF f <= n THEN 1 ELSE 0
  BY <1>1
<1>3. \A r \in Runners : runner[r].at = "start"
  BY DEF Deploying!Init
<1>4. Deploying!TypeOK
  <2>1. runner \in [Runners -> RunRecord]
    BY DEF Deploying!Init, RunRecord
  <2>2. record \in [Deploying!AllFiles -> Texts \cup {Absent, Unsummed}]
        /\ effects \in [Deploying!AllFiles -> Nat]
    BY <1>1
  <2>3. crashes \in 0 .. MaxCrashes /\ lock \in Runners \cup {None} /\ pooled \in BOOLEAN
    BY MigrationsAssumption DEF Deploying!Init, Deploying!MigrationsAssumption
  <2> QED
    BY <1>3, <2>1, <2>2, <2>3 DEF Deploying!TypeOK, RunRecord
<1>5. WalkInv /\ Deploying!DoneIsApplied
  BY <1>3 DEF WalkInv, Walking, Deploying!DoneIsApplied
<1>6. Deploying!AppliedOnce
  BY <1>2, ReleaseFiles DEF Deploying!AppliedOnce
<1>7. Deploying!InOrder
  BY <1>1, <1>2, ReleaseFiles DEF Deploying!InOrder
<1> QED
  BY <1>4, <1>5, <1>6, <1>7 DEF ReleaseInv

\* A run that dies, fails or loses its way writes nothing.
LEMMA RunStops ==
  ASSUME ReleaseInv, NEW r \in Runners, NEW to \in RunRecord, to.at \in {"start", "failed"},
         runner' = [runner EXCEPT ![r] = to],
         lock' = Deploying!Unlocked(r), crashes' \in 0 .. MaxCrashes,
         UNCHANGED <<record, effects, pooled>>
  PROVE  ReleaseInv'
<1> USE DEF ReleaseInv
<1>1. /\ \A p \in Runners \ {r} : runner'[p] = runner[p]
      /\ runner'[r] = to
      /\ \A p \in Runners \ {r} : lock = p => lock' = p
  BY DEF Deploying!TypeOK, Deploying!Unlocked
<1>2. Deploying!TypeOK'
  <2>1. runner' \in [Runners -> RunRecord]
    BY DEF Deploying!TypeOK, RunRecord
  <2>2. lock' \in Runners \cup {None}
    BY DEF Deploying!TypeOK, Deploying!Unlocked
  <2> QED
    BY <1>1, <2>1, <2>2 DEF Deploying!TypeOK, RunRecord, WalkInv, Walking
<1>3. WalkInv'
  BY <1>1 DEF WalkInv, Walking
<1>4. Deploying!DoneIsApplied'
  BY <1>1 DEF Deploying!DoneIsApplied
<1>5. Deploying!AppliedOnce' /\ Deploying!InOrder'
  BY DEF Deploying!AppliedOnce, Deploying!InOrder
<1> QED
  BY <1>2, <1>3, <1>4, <1>5

\* A run goes to the next file, and to the end after the last one, when the one
\* it is at is on record.
LEMMA RunForward ==
  ASSUME ReleaseInv, NEW r \in Runners, runner[r].at \in Walking, Deploying!Forward(r),
         UNCHANGED <<pooled, crashes>>,
         Deploying!AppliedOnce', Deploying!InOrder',
         record' \in [Deploying!AllFiles -> Texts \cup {Absent, Unsummed}],
         effects' \in [Deploying!AllFiles -> Nat],
         \A g \in Deploying!AllFiles \ {runner[r].file} : record'[g] = record[g],
         record'[runner[r].file] = Release[r][runner[r].file],
         ~pooled => record[runner[r].file] \notin Texts \/ record' = record,
         record' = record \/ record[runner[r].file] = Absent \/ runner[r].at = "backfill"
  PROVE  ReleaseInv'
<1> USE DEF ReleaseInv
<1> DEFINE f == runner[r].file
           last == f = Len(Release[r])
<1>1. /\ f \in Deploying!Files(r) /\ f \in Nat \ {0} /\ f <= Len(Release[r]) /\ f \in Deploying!AllFiles
      /\ Release[r][f] \in Texts
  BY ReleaseFiles DEF Deploying!TypeOK, Walking
<1>2. /\ \A p \in Runners \ {r} : runner'[p] = runner[p]
      /\ last => runner'[r].at = "done" /\ lock' = Deploying!Unlocked(r)
      /\ ~last => runner'[r].at = "file" /\ runner'[r].file = f + 1 /\ lock' = lock
  BY DEF Deploying!Forward, Deploying!To, Deploying!TypeOK
<1>3. runner' \in [Runners -> RunRecord]
  <2>0. runner \in [Runners -> RunRecord]
    BY DEF Deploying!TypeOK, RunRecord
  <2>1. CASE last
    <3>1. runner' = [runner EXCEPT ![r].at = "done"]
      BY <2>1 DEF Deploying!Forward, Deploying!To
    <3> QED
      BY <2>0, <3>1 DEF RunRecord
  <2>2. CASE ~last
    <3>1. runner' = [runner EXCEPT ![r] = [at |-> "file", file |-> f + 1]]
      BY <2>0, <2>2 DEF Deploying!Forward
    <3>2. [at |-> "file", file |-> f + 1] \in RunRecord
      BY <1>1 DEF RunRecord
    <3> QED
      BY <2>0, <3>1, <3>2
  <2> QED
    BY <2>1, <2>2
<1>4. lock' \in Runners \cup {None} /\ \A p \in Runners \ {r} : lock = p => lock' = p
  BY <1>2 DEF Deploying!TypeOK, Deploying!Unlocked
<1>5. ASSUME NEW g \in Deploying!Files(r), g <= f
      PROVE  record'[g] # Absent /\ (~pooled => record'[g] = Release[r][g])
  <2>1. CASE g = f
    BY <1>1, <2>1, ReleaseFiles
  <2>2. CASE g # f
    <3>1. g < f /\ g \in Deploying!AllFiles
      BY <1>1, <1>5, <2>2, ReleaseFiles
    <3> QED
      BY <2>2, <3>1 DEF WalkInv
  <2> QED
    BY <2>1, <2>2
<1>6. Deploying!TypeOK'
  <2>1. ~last => f + 1 \in Deploying!Files(r)
    BY <1>1, ReleaseFiles
  <2> QED
    BY <1>2, <1>3, <1>4, <2>1 DEF Deploying!TypeOK, RunRecord, Walking
\* Another run loses nothing: what was recorded stays, and who has the lock is alone.
<1>7. \A g \in Deploying!AllFiles : record[g] # Absent => record'[g] # Absent
  BY <1>1, ReleaseFiles
<1>8. ASSUME NEW p \in Runners \ {r}, ~pooled PROVE runner[p].at \notin Walking
  BY <1>8 DEF WalkInv
<1>9. WalkInv'
  <2>1. ASSUME NEW p \in Runners \ {r}, runner'[p].at \in Walking
        PROVE  /\ ~pooled' => lock' = p
               /\ \A g \in Deploying!Files(p) : g < runner'[p].file =>
                    record'[g] # Absent /\ (~pooled' => record'[g] = Release[p][g])
               /\ runner'[p].at = "backfill" => record'[runner'[p].file] # Absent
               /\ runner'[p].at = "backfill" /\ ~pooled' => record'[runner'[p].file] = Unsummed
    <3>1. pooled /\ pooled'
      BY <1>2, <1>8, <2>1 DEF Deploying!TypeOK
    <3>2. runner'[p] = runner[p] /\ runner[p].file \in Deploying!AllFiles
      BY <1>2, <2>1, ReleaseFiles DEF Deploying!TypeOK, Walking
    <3>3. \A g \in Deploying!Files(p) : g \in Deploying!AllFiles
      BY ReleaseFiles
    <3> QED
      BY <1>7, <2>1, <3>1, <3>2, <3>3 DEF WalkInv
  <2>2. ASSUME runner'[r].at \in Walking
        PROVE  /\ runner'[r].at = "file" /\ (~pooled' => lock' = r)
               /\ \A g \in Deploying!Files(r) : g < runner'[r].file =>
                    record'[g] # Absent /\ (~pooled' => record'[g] = Release[r][g])
    <3>1. ~last /\ runner'[r].at = "file" /\ runner'[r].file = f + 1 /\ lock' = lock
      BY <1>2, <2>2 DEF Walking
    <3>2. \A g \in Deploying!Files(r) : g < f + 1 => g <= f
      BY <1>1, ReleaseFiles
    <3> QED
      BY <1>5, <3>1, <3>2 DEF WalkInv
  <2>3. \A p \in Runners : runner'[p].at = "backfill" => runner'[p].at \in Walking
    BY DEF Walking
  <2> QED
    BY <2>1, <2>2, <2>3 DEF WalkInv
<1>10. Deploying!DoneIsApplied'
  <2>1. ASSUME NEW p \in Runners, ~pooled', runner'[p].at = "done", NEW g \in Deploying!Files(p)
        PROVE  record'[g] = Release[p][g]
    <3>1. CASE p = r
      <4>1. last
        BY <1>2, <2>1, <3>1
      <4>2. g <= f
        BY <1>1, <3>1, <4>1, ReleaseFiles
      <4> QED
        BY <1>5, <2>1, <3>1, <4>2
    <3>2. CASE p # r
      <4>1. record[g] = Release[p][g] /\ g \in Deploying!AllFiles /\ Release[p][g] \in Texts
        BY <1>2, <2>1, <3>2, ReleaseFiles DEF Deploying!DoneIsApplied
      <4>2. g # f \/ record' = record
        BY <2>1, <4>1
      <4> QED
        BY <4>1, <4>2
    <3> QED
      BY <3>1, <3>2
  <2> QED
    BY <2>1 DEF Deploying!DoneIsApplied
<1> QED
  BY <1>6, <1>9, <1>10

LEMMA ReleaseKeeps == ReleaseInv /\ Deploying!Next => ReleaseInv'
<1> SUFFICES ASSUME ReleaseInv, Deploying!Next PROVE ReleaseInv'
  OBVIOUS
<1>0. /\ runner \in [Runners -> RunRecord] /\ crashes \in 0 .. MaxCrashes
      /\ lock \in Runners \cup {None} /\ pooled \in BOOLEAN
      /\ record \in [Deploying!AllFiles -> Texts \cup {Absent, Unsummed}]
      /\ effects \in [Deploying!AllFiles -> Nat]
  BY DEF ReleaseInv, Deploying!TypeOK, RunRecord
\* A run fails where it is.
<1>1. ASSUME NEW r \in Runners, Deploying!Fails(r) \/ (Deploying!To(r, "failed") /\ lock' = lock /\ lock # r),
             UNCHANGED <<record, effects, pooled, crashes>>
      PROVE  ReleaseInv'
  <2> DEFINE to == [runner[r] EXCEPT !.at = "failed"]
  <2>0. to \in RunRecord /\ to.at \in {"start", "failed"}
    BY <1>0 DEF RunRecord
  <2>1. runner' = [runner EXCEPT ![r] = to]
    BY <1>0, <1>1 DEF Deploying!Fails, Deploying!To
  <2> HIDE DEF to
  <2>2. lock' = Deploying!Unlocked(r)
    BY <1>1 DEF Deploying!Fails, Deploying!Unlocked
  <2> QED
    BY <1>0, <1>1, <2>0, <2>1, <2>2, RunStops
<1>2. ASSUME NEW r \in Runners, Deploying!TryLock(r) PROVE ReleaseInv'
  <2>1. CASE lock # None /\ Deploying!To(r, "failed") /\ lock' = lock
    <3>1. CASE lock # r
      BY <1>1, <1>2, <2>1, <3>1 DEF Deploying!TryLock
    <3>2. CASE lock = r
      <4>1. runner' = [runner EXCEPT ![r].at = "failed"]
        BY <2>1 DEF Deploying!To
      <4>2. \A p \in Runners : runner'[p] = IF p = r THEN [at |-> "failed", file |-> runner[r].file] ELSE runner[p]
        BY <1>0, <4>1 DEF RunRecord
      <4>3. runner' \in [Runners -> RunRecord]
        BY <1>0, <4>1 DEF RunRecord
      <4>4. Deploying!TypeOK'
        BY <1>2, <2>1, <4>2, <4>3 DEF Deploying!TryLock, ReleaseInv, Deploying!TypeOK, RunRecord
      <4>5. WalkInv' /\ Deploying!DoneIsApplied'
        BY <1>2, <2>1, <4>2 DEF Deploying!TryLock, ReleaseInv, WalkInv, Walking, Deploying!DoneIsApplied
      <4> QED
        BY <1>2, <4>4, <4>5 DEF Deploying!TryLock, ReleaseInv, Deploying!AppliedOnce, Deploying!InOrder
    <3> QED
      BY <3>1, <3>2
  <2>2. CASE lock = None /\ lock' = r /\ runner' = [runner EXCEPT ![r] = [at |-> "file", file |-> 1]]
    <3>1. \A p \in Runners : runner'[p] = IF p = r THEN [at |-> "file", file |-> 1] ELSE runner[p]
      BY <1>0, <2>2
    <3>2. runner' \in [Runners -> RunRecord]
      BY <1>0, <2>2 DEF RunRecord
    <3>3. \A p \in Runners : 1 \in Deploying!Files(p) /\ \A g \in Deploying!Files(p) : ~(g < 1)
      BY ReleaseFiles
    <3>4. ASSUME NEW p \in Runners, ~pooled PROVE runner[p].at \notin Walking
      BY <2>2, <3>4, ReleaseFiles DEF ReleaseInv, WalkInv
    <3>5. Deploying!TypeOK'
      BY <1>2, <2>2, <3>1, <3>2, <3>3, <3>4 DEF Deploying!TryLock, ReleaseInv, Deploying!TypeOK, RunRecord, Walking
    <3>6. WalkInv'
      BY <1>2, <2>2, <3>1, <3>3, <3>4 DEF Deploying!TryLock, ReleaseInv, WalkInv, Walking
    <3>7. Deploying!DoneIsApplied'
      BY <1>2, <3>1 DEF Deploying!TryLock, ReleaseInv, Deploying!DoneIsApplied
    <3> QED
      BY <1>2, <3>5, <3>6, <3>7 DEF Deploying!TryLock, ReleaseInv, Deploying!AppliedOnce, Deploying!InOrder
  <2> QED
    BY <1>2, <2>1, <2>2 DEF Deploying!TryLock
<1>3. ASSUME NEW r \in Runners, Deploying!Check(r) PROVE ReleaseInv'
  <2> DEFINE f == runner[r].file
  <2>1. /\ runner[r].at = "file" /\ f \in Deploying!Files(r) /\ f \in Deploying!AllFiles
        /\ UNCHANGED <<record, effects, pooled, crashes>>
    BY <1>3, ReleaseFiles DEF Deploying!Check, ReleaseInv, Deploying!TypeOK
  <2>2. ASSUME NEW to \in {"run", "backfill"}, Deploying!To(r, to), lock' = lock,
               to = "backfill" => record[f] = Unsummed
        PROVE  ReleaseInv'
    <3>1. \A p \in Runners : /\ p # r => runner'[p] = runner[p]
                             /\ runner'[p].file = runner[p].file
                             /\ p = r => runner'[p].at = to
      BY <1>0, <2>2 DEF Deploying!To, RunRecord
    <3>2. runner' \in [Runners -> RunRecord]
      BY <1>0, <2>2 DEF Deploying!To, RunRecord
    <3>3. Deploying!TypeOK'
      BY <2>1, <2>2, <3>1, <3>2 DEF ReleaseInv, Deploying!TypeOK, RunRecord, WalkInv, Walking
    <3>4. WalkInv'
      BY <2>1, <2>2, <3>1, ReleaseFiles DEF ReleaseInv, WalkInv, Walking
    <3>5. Deploying!DoneIsApplied'
      BY <2>1, <2>2, <3>1 DEF ReleaseInv, Deploying!DoneIsApplied
    <3> QED
      BY <2>1, <3>3, <3>4, <3>5 DEF ReleaseInv, Deploying!AppliedOnce, Deploying!InOrder
  <2>3. CASE record[f] = Absent
    <3>1. Deploying!To(r, "run") /\ lock' = lock
      BY <1>3, <2>1, <2>3, ReleaseFiles DEF Deploying!Check
    <3> QED
      BY <2>2, <3>1
  <2>4. CASE record[f] = Unsummed
    <3>1. Deploying!To(r, "backfill") /\ lock' = lock
      BY <1>3, <2>1, <2>4, ReleaseFiles DEF Deploying!Check
    <3> QED
      BY <2>2, <2>4, <3>1
  <2>5. CASE record[f] \in Texts \ {Release[r][f]}
    <3>1. Deploying!Fails(r)
      BY <1>3, <2>5, ReleaseFiles DEF Deploying!Check
    <3> QED
      BY <1>1, <2>1, <3>1
  <2>6. CASE record[f] = Release[r][f]
    <3>1. Deploying!Forward(r)
      BY <1>3, <2>1, <2>6, ReleaseFiles DEF Deploying!Check
    <3>2. runner[r].at \in Walking
      BY <2>1 DEF Walking
    <3>3. Deploying!AppliedOnce' /\ Deploying!InOrder'
      BY <2>1 DEF ReleaseInv, Deploying!AppliedOnce, Deploying!InOrder
    <3> QED
      BY <1>0, <2>1, <2>6, <3>1, <3>2, <3>3, RunForward
  <2> QED
    BY <1>0, <2>1, <2>3, <2>4, <2>5, <2>6
<1>4. ASSUME NEW r \in Runners, Deploying!Backfill(r) PROVE ReleaseInv'
  <2> DEFINE f == runner[r].file
  <2>1. /\ runner[r].at = "backfill" /\ f \in Deploying!Files(r) /\ f \in Deploying!AllFiles
        /\ Release[r][f] \in Texts /\ runner[r].at \in Walking
        /\ Deploying!Forward(r) /\ UNCHANGED <<effects, pooled, crashes>>
    BY <1>4, ReleaseFiles DEF Deploying!Backfill, ReleaseInv, Deploying!TypeOK, Walking
  <2>2. record' = [record EXCEPT ![f] = Release[r][f]]
    BY <1>4 DEF Deploying!Backfill
  <2>3. /\ record' \in [Deploying!AllFiles -> Texts \cup {Absent, Unsummed}]
        /\ record'[f] = Release[r][f]
        /\ \A g \in Deploying!AllFiles \ {f} : record'[g] = record[g]
    BY <1>0, <2>1, <2>2
  <2>4. record[f] # Absent /\ record'[f] # Absent
    BY <2>1, <2>3, ReleaseFiles DEF ReleaseInv, WalkInv
  <2>5. Deploying!AppliedOnce' /\ Deploying!InOrder'
    BY <2>1, <2>3, <2>4 DEF ReleaseInv, Deploying!AppliedOnce, Deploying!InOrder
  <2>6. ~pooled => record[f] = Unsummed
    BY <2>1 DEF ReleaseInv, WalkInv
  <2> QED
    BY <1>0, <2>1, <2>3, <2>5, <2>6, RunForward, ReleaseFiles
<1>5. ASSUME NEW r \in Runners, Deploying!Apply(r) PROVE ReleaseInv'
  <2> DEFINE f == runner[r].file
  <2>1. /\ runner[r].at = "run" /\ f \in Deploying!Files(r) /\ f \in Deploying!AllFiles
        /\ Release[r][f] \in Texts /\ runner[r].at \in Walking
        /\ UNCHANGED <<pooled, crashes>>
    BY <1>5, ReleaseFiles DEF Deploying!Apply, ReleaseInv, Deploying!TypeOK, Walking
  <2>2. CASE /\ record[f] = Absent /\ Deploying!Forward(r)
             /\ effects' = [effects EXCEPT ![f] = @ + 1] /\ record' = [record EXCEPT ![f] = Release[r][f]]
    <3>1. /\ record' \in [Deploying!AllFiles -> Texts \cup {Absent, Unsummed}]
          /\ effects' \in [Deploying!AllFiles -> Nat]
          /\ record'[f] = Release[r][f] /\ effects'[f] = effects[f] + 1
          /\ \A g \in Deploying!AllFiles \ {f} : record'[g] = record[g] /\ effects'[g] = effects[g]
      BY <1>0, <2>1, <2>2
    <3>2. Deploying!AppliedOnce'
      BY <1>0, <2>1, <2>2, <3>1, ReleaseFiles DEF ReleaseInv, Deploying!AppliedOnce
    <3>3. ASSUME NEW g \in Deploying!AllFiles, NEW h \in Deploying!AllFiles, g < h, effects'[h] > 0
          PROVE  effects'[g] > 0
      <4>1. CASE h = f
        <5>1. g \in Deploying!Files(r) /\ g < f
          BY <2>1, <3>3, <4>1, ReleaseFiles
        <5>2. record[g] # Absent
          BY <2>1, <5>1 DEF ReleaseInv, WalkInv
        <5> QED
          BY <3>1, <5>1, <5>2 DEF ReleaseInv, Deploying!AppliedOnce
      <4>2. CASE h # f
        <5>1. effects[g] > 0
          BY <3>1, <3>3, <4>2 DEF ReleaseInv, Deploying!InOrder
        <5> QED
          BY <1>0, <3>1, <5>1
      <4> QED
        BY <4>1, <4>2
    <3>4. Deploying!InOrder'
      BY <3>3 DEF Deploying!InOrder
    <3> QED
      BY <2>1, <2>2, <3>1, <3>2, <3>4, RunForward, ReleaseFiles
  <2>3. CASE Deploying!Fails(r) /\ UNCHANGED <<effects, record>>
    BY <1>1, <2>1, <2>3
  <2> QED
    BY <1>5, <2>2, <2>3 DEF Deploying!Apply
<1>6. ASSUME NEW r \in Runners, Deploying!Dies(r) PROVE ReleaseInv'
  <2>1. crashes' \in 0 .. MaxCrashes
    BY <1>0, <1>6, MigrationsAssumption DEF Deploying!Dies, Deploying!MigrationsAssumption
  <2> DEFINE to == [at |-> "start", file |-> 0]
  <2>2. to \in RunRecord /\ to.at \in {"start", "failed"}
    BY DEF RunRecord
  <2>3. runner' = [runner EXCEPT ![r] = to]
    BY <1>6 DEF Deploying!Dies
  <2> HIDE DEF to
  <2> QED
    BY <1>6, <2>1, <2>2, <2>3, RunStops DEF Deploying!Dies
<1>7. CASE Deploying!LockDrops
  <2>1. pooled /\ lock' = None /\ UNCHANGED <<record, effects, pooled, runner, crashes>>
    BY <1>7 DEF Deploying!LockDrops
  <2>2. Deploying!TypeOK'
    BY <2>1 DEF ReleaseInv, Deploying!TypeOK
  <2>3. WalkInv'
    BY <2>1 DEF ReleaseInv, WalkInv
  <2> QED
    BY <2>1, <2>2, <2>3 DEF ReleaseInv, Deploying!AppliedOnce, Deploying!InOrder, Deploying!DoneIsApplied
<1> QED
  BY <1>2, <1>3, <1>4, <1>5, <1>6, <1>7 DEF Deploying!Next, Deploying!Works

\* For any releases and any number of deployments that die, meet and are behind
\* a pooler or not: a file takes effect once and is then on record, none before
\* an earlier one, and a run that kept its lock and ended well leaves its
\* release on record, as it has it.
THEOREM ReleasesAreApplied == Spec => []ReleasesHold
<1> DEFINE Inv == part = "migrations" => ReleaseInv
<1>1. Init => Inv
  BY InitRelease DEF Init
<1>2. Inv /\ [Next]_vars => Inv'
  <2> SUFFICES ASSUME Inv, [Next]_vars, part' = "migrations" PROVE ReleaseInv'
    OBVIOUS
  <2>1. CASE Deploying!Next /\ part = "migrations"
    BY <2>1, ReleaseKeeps
  <2>2. CASE UNCHANGED vars
    <3>1. part = "migrations" /\ UNCHANGED migrationVars
      BY <2>2 DEF vars, besideVars
    <3> QED
      BY <3>1 DEF migrationVars, ReleaseInv, WalkInv, Deploying!TypeOK, Deploying!AppliedOnce,
         Deploying!InOrder, Deploying!DoneIsApplied
  <2> QED
    BY <2>1, <2>2 DEF Next, Beside, Dashboard
<1>3. Inv => ReleasesHold
  BY DEF ReleaseInv, ReleasesHold
<1> QED
  BY <1>1, <1>2, <1>3, PTL DEF Spec

-----------------------------------------------------------------------------
(* The worker process *)

\* Once the queue workers are closed no job is held; a process that is up has
\* an ffmpeg for each job that renders, and knows them all.
HeldInv ==
  /\ Working!Held # {} => exit = "no" /\ stage <= 1
  /\ exit = "no" => alive = running /\ running = {j \in Jobs : task[j] = "rendering"}
  /\ \A j \in Jobs : task[j] \notin {"done", "failed"} => tries[j] < MaxAttempts

ProcessInv == Working!TypeOK /\ HeldInv /\ Working!NoChildLeft

LEMMA ClosingSteps ==
  /\ DOMAIN Working!Closing = 1 .. 6 /\ Len(Working!Closing) = 6
  /\ Working!Closing[1] = "workers"
BY DEF Working!Closing

LEMMA InitProcess == Working!Init => ProcessInv
BY LifecycleAssumption, ClosingSteps
   DEF Working!Init, Working!LifecycleAssumption, ProcessInv, HeldInv, Working!TypeOK, Working!Held,
       Working!NoChildLeft

LEMMA JobSteps ==
  ASSUME ProcessInv, NEW j \in Jobs, Working!Works(j)
  PROVE  ProcessInv'
<1> USE DEF ProcessInv
<1>0. /\ task \in [Jobs -> {"waiting", "active", "rendering", "storing", "stalled", "done", "failed"}]
      /\ stalls \in [Jobs -> 0 .. MaxStalls] /\ tries \in [Jobs -> 0 .. MaxAttempts]
      /\ running \subseteq Jobs /\ alive \subseteq Jobs /\ MaxAttempts \in Nat /\ MaxStalls \in Nat
  BY LifecycleAssumption DEF Working!TypeOK, Working!LifecycleAssumption
<1>1. exit = "no" /\ UNCHANGED <<stage, exit, stops>>
  BY DEF Working!Works, Working!Take, Working!Render, Working!Rendered, Working!TimesOut, Working!Store,
     Working!Redeliver
<1>2. PICK to \in {"waiting", "active", "rendering", "storing", "stalled", "done", "failed"} :
        task' = [task EXCEPT ![j] = to]
  BY DEF Working!Works, Working!Take, Working!Render, Working!Rendered, Working!TimesOut, Working!Store,
     Working!Redeliver, Working!To
<1>3. \A i \in Jobs : task'[i] = IF i = j THEN to ELSE task[i]
  BY <1>0, <1>2
<1>4. tries' \in [Jobs -> 0 .. MaxAttempts] /\ \A i \in Jobs : task'[i] \notin {"done", "failed"} => tries'[i] < MaxAttempts
  <2>1. CASE Working!TimesOut(j)
    <3>1. tries[j] + 1 \in 0 .. MaxAttempts
      BY <1>0, <2>1 DEF Working!TimesOut, HeldInv
    <3>2. tries' = [tries EXCEPT ![j] = tries[j] + 1]
      BY <2>1 DEF Working!TimesOut
    <3>3. tries' \in [Jobs -> 0 .. MaxAttempts] /\ \A i \in Jobs : tries'[i] = IF i = j THEN tries[j] + 1 ELSE tries[i]
      BY <1>0, <3>1, <3>2
    <3>4. task'[j] = IF tries[j] + 1 < MaxAttempts THEN "waiting" ELSE "failed"
      BY <1>0, <2>1 DEF Working!TimesOut, Working!To
    <3> QED
      BY <1>0, <1>3, <3>3, <3>4 DEF HeldInv
  <2>2. CASE Working!Take(j) \/ Working!Render(j) \/ Working!Rendered(j) \/ Working!Store(j) \/ Working!Redeliver(j)
    <3>1. tries' = tries /\ task[j] \notin {"done", "failed"}
      BY <2>2 DEF Working!Take, Working!Render, Working!Rendered, Working!Store, Working!Redeliver
    <3> QED
      BY <1>0, <1>3, <3>1 DEF HeldInv
  <2> QED
    BY <2>1, <2>2 DEF Working!Works
<1>5. stalls' \in [Jobs -> 0 .. MaxStalls]
  <2>1. CASE stalls' = stalls
    BY <1>0, <2>1
  <2>2. CASE stalls[j] < MaxStalls /\ stalls' = [stalls EXCEPT ![j] = stalls[j] + 1]
    <3>1. stalls[j] + 1 \in 0 .. MaxStalls
      BY <1>0, <2>2
    <3> QED
      BY <1>0, <2>2, <3>1
  <2> QED
    BY <2>1, <2>2 DEF Working!Works, Working!Take, Working!Render, Working!Rendered, Working!TimesOut,
       Working!Store, Working!Redeliver
<1>6. /\ running' \subseteq Jobs /\ alive' = running'
      /\ running' = {i \in Jobs : task'[i] = "rendering"}
  <2>1. alive = running /\ running = {i \in Jobs : task[i] = "rendering"}
    BY <1>1 DEF HeldInv
  <2>2. CASE Working!Render(j)
    <3>1. running' = running \cup {j} /\ alive' = alive \cup {j} /\ task' = [task EXCEPT ![j] = "rendering"]
      BY <2>2 DEF Working!Render, Working!To
    <3> QED
      BY <1>0, <2>1, <3>1
  <2>3. CASE Working!Rendered(j) \/ Working!TimesOut(j)
    <3>1. running' = running \ {j} /\ alive' = alive \ {j} /\ to # "rendering"
      BY <1>0, <1>2, <2>3 DEF Working!Rendered, Working!TimesOut, Working!To
    <3> QED
      BY <1>0, <1>3, <2>1, <3>1
  <2>4. CASE Working!Take(j) \/ Working!Store(j) \/ Working!Redeliver(j)
    <3>1. running' = running /\ alive' = alive /\ to # "rendering" /\ task[j] # "rendering"
      BY <1>0, <1>2, <2>4 DEF Working!Take, Working!Store, Working!Redeliver, Working!To
    <3> QED
      BY <1>0, <1>3, <2>1, <3>1
  <2> QED
    BY <2>2, <2>3, <2>4 DEF Working!Works
<1>7. Working!Held' # {} => stage <= 1
  <2>1. CASE Working!Take(j)
    BY <2>1 DEF Working!Take
  <2>2. CASE Working!Redeliver(j)
    <3>1. to \in {"waiting", "failed"}
      BY <1>0, <1>2, <2>2 DEF Working!Redeliver, Working!To
    <3> QED
      BY <1>3, <3>1 DEF HeldInv, Working!Held
  <2>3. CASE Working!Render(j) \/ Working!Rendered(j) \/ Working!TimesOut(j) \/ Working!Store(j)
    <3>1. j \in Working!Held
      BY <2>3 DEF Working!Render, Working!Rendered, Working!TimesOut, Working!Store, Working!Held
    <3> QED
      BY <3>1 DEF HeldInv
  <2> QED
    BY <2>1, <2>2, <2>3 DEF Working!Works
<1>8. Working!TypeOK'
  <2>1. task' \in [Jobs -> {"waiting", "active", "rendering", "storing", "stalled", "done", "failed"}]
    BY <1>0, <1>2
  <2> QED
    BY <1>1, <1>4, <1>5, <1>6, <2>1 DEF Working!TypeOK
<1> QED
  BY <1>1, <1>4, <1>6, <1>7, <1>8 DEF HeldInv, Working!NoChildLeft

LEMMA ProcessKeeps == ProcessInv /\ Working!Next => ProcessInv'
<1> SUFFICES ASSUME ProcessInv, Working!Next PROVE ProcessInv'
  OBVIOUS
<1> USE DEF ProcessInv
<1>0. /\ task \in [Jobs -> {"waiting", "active", "rendering", "storing", "stalled", "done", "failed"}]
      /\ running \subseteq Jobs /\ alive \subseteq Jobs /\ stage \in 0 .. 7 /\ MaxStops \in Nat
      /\ stops \in 0 .. MaxStops
  BY LifecycleAssumption, ClosingSteps DEF Working!TypeOK, Working!LifecycleAssumption
\* The end of the process.
<1>1. ASSUME NEW how \in {"clean", "error", "forced", "killed"}, Working!Exits(how),
             UNCHANGED <<stalls, tries>>, stage' \in 0 .. 7, stops' \in 0 .. MaxStops,
             running' \subseteq Jobs, alive' \subseteq Jobs, how \in {"clean", "forced"} => alive' = {}
      PROVE  ProcessInv'
  <2>1. \A j \in Jobs : task'[j] = IF j \in Working!Held THEN "stalled" ELSE task[j]
    BY <1>1 DEF Working!Exits
  <2>2. task' \in [Jobs -> {"waiting", "active", "rendering", "storing", "stalled", "done", "failed"}]
    BY <1>0, <1>1 DEF Working!Exits
  <2>3. Working!Held' = {}
    BY <2>1 DEF Working!Held
  <2>4. exit' = how
    BY <1>1 DEF Working!Exits
  <2>5. Working!TypeOK'
    BY <1>1, <2>2, <2>4, ClosingSteps DEF Working!TypeOK
  <2>6. HeldInv'
    BY <1>1, <2>1, <2>3, <2>4 DEF HeldInv, Working!Held
  <2> QED
    BY <1>1, <2>4, <2>5, <2>6 DEF Working!NoChildLeft
<1>2. CASE \E j \in Jobs : Working!Works(j)
  BY <1>2, JobSteps
<1>3. CASE Working!Signal
  <2>1. Working!Held' = Working!Held
    BY <1>3 DEF Working!Signal, Working!Held
  <2> QED
    BY <1>0, <1>3, <2>1, ClosingSteps DEF Working!Signal, Working!TypeOK, HeldInv, Working!NoChildLeft
<1>4. CASE Working!Close
  <2>1. /\ exit = "no" /\ stage \in 1 .. 6 /\ stage' = stage + 1
        /\ UNCHANGED <<stalls, tries, running, alive, stops>> /\ (stage = 1 => Working!Held = {})
    BY <1>4, ClosingSteps DEF Working!Close
  <2>2. Working!Held = {}
    BY <1>0, <2>1 DEF HeldInv
  <2>3. CASE stage = 6 /\ Working!Exits("clean")
    <3>1. alive = {}
      BY <2>1, <2>2 DEF HeldInv, Working!Held
    <3> QED
      BY <1>0, <1>1, <2>1, <2>3, <3>1
  <2>4. CASE stage # 6 /\ UNCHANGED <<exit, task>>
    <3>1. Working!Held' = Working!Held
      BY <2>4 DEF Working!Held
    <3> QED
      BY <1>0, <2>1, <2>2, <2>4, <3>1, ClosingSteps DEF Working!TypeOK, HeldInv, Working!NoChildLeft
  <2> QED
    BY <1>4, <2>3, <2>4, ClosingSteps DEF Working!Close
<1>5. CASE Working!CloseFails
  BY <1>0, <1>1, <1>5 DEF Working!CloseFails
<1>6. CASE Working!Force
  <2>1. alive' = {}
    BY <1>6 DEF Working!Force, HeldInv
  <2> QED
    BY <1>0, <1>1, <1>6, <2>1 DEF Working!Force
<1>7. CASE Working!Crash
  BY <1>0, <1>1, <1>7 DEF Working!Crash
<1>8. CASE Working!Restart
  <2>1. Working!Held' = Working!Held /\ Working!Held = {}
    BY <1>8 DEF Working!Restart, Working!Held, HeldInv
  <2> QED
    BY <1>0, <1>8, <2>1, ClosingSteps
       DEF Working!Restart, Working!TypeOK, HeldInv, Working!Held, Working!NoChildLeft
<1> QED
  BY <1>2, <1>3, <1>4, <1>5, <1>6, <1>7, <1>8 DEF Working!Next

LEMMA HeldKeepTheirDb == ProcessInv => Working!JobsKeepTheirDb
BY DEF ProcessInv, HeldInv, Working!TypeOK, Working!JobsKeepTheirDb, Working!Open, Working!Closing

-----------------------------------------------------------------------------
(* The nightly comparisons *)

Under == at \in {"listing", "listed"}

\* The keys of the bucket's first pages, and those the listing has been past.
Upto(n) == UNION {Pages[bucket][i] : i \in 1 .. n}
Reached == IF at = "listing" THEN Upto(page - 1) ELSE Drift!Keys(bucket)

\* The keys of the buckets that are done with.
Counted == UNION {Drift!Keys(b) : b \in {c \in Drift!Buckets \ todo : Under => c # bucket}}

\* Of a key that did not change meanwhile, what was read is what is: by the
\* listing as far as it got, by the rows for the whole bucket, and by the
\* total, unless a listing failed, for the buckets that are done with.
SteadyInv(k) ==
  /\ Under => (k \in seen <=> k \in found /\ k \in Reached)
  /\ Under /\ kind = "keys" => (k \in listed <=> k \in live /\ k \in Drift!Keys(bucket))
  /\ kind = "bytes" /\ ~failed /\ at # "idle" => (k \in sum <=> k \in found /\ k \in Counted)
  /\ report.of \in Drift!Buckets /\ k \in Drift!Keys(report.of) =>
       /\ k \in report.orphans <=> k \in found /\ k \notin live
       /\ k \in report.ghosts <=> k \in live /\ k \notin found
  /\ report.of = "org" => (k \in report.physical <=> k \in found)

SweepInv ==
  /\ Under => bucket \in Drift!Buckets \ todo
  /\ at = "idle" => sum = {} /\ report = Drift!Silent
  /\ report.physical \subseteq Drift!AllKeys
  /\ \A k \in Drift!AllKeys \ moved : SteadyInv(k)

DriftInv == Drift!TypeOK /\ SweepInv

LEMMA PagesOfBuckets ==
  ASSUME NEW b \in Drift!Buckets
  PROVE  /\ Pages[b] \in Seq(SUBSET Drift!AllKeys) /\ Len(Pages[b]) \in Nat \ {0}
         /\ DOMAIN Pages[b] = 1 .. Len(Pages[b])
         /\ Drift!Keys(b) = UNION {Pages[b][i] : i \in 1 .. Len(Pages[b])}
         /\ Drift!Keys(b) \subseteq Drift!AllKeys
<1>1. Pages[b] \in Seq(SUBSET Drift!AllKeys) /\ Pages[b] # <<>>
  BY DriftAssumption DEF Drift!DriftAssumption
<1>2. Drift!Keys(b) \subseteq Drift!AllKeys
  BY DEF Drift!AllKeys
<1> HIDE DEF Drift!AllKeys, Drift!Buckets
<1>3. Len(Pages[b]) \in Nat \ {0} /\ DOMAIN Pages[b] = 1 .. Len(Pages[b])
  BY <1>1
<1> QED
  BY <1>1, <1>2, <1>3 DEF Drift!Keys

\* What the comparisons say follows, key by key.
LEMMA SteadyIsTrue == DriftInv => Drift!ReportIsTrue /\ Drift!TotalIsWhole
<1> SUFFICES ASSUME DriftInv PROVE Drift!ReportIsTrue /\ Drift!TotalIsWhole
  OBVIOUS
<1>1. Drift!ReportIsTrue
  <2>1. \A b \in Drift!Buckets : Drift!Keys(b) \subseteq Drift!AllKeys
    BY PagesOfBuckets
  <2>2. ASSUME report.of \in Drift!Buckets, NEW k \in Drift!Keys(report.of) \ moved
        PROVE  /\ k \in report.orphans <=> k \in found /\ k \notin live
               /\ k \in report.ghosts <=> k \in live /\ k \notin found
    BY <2>1, <2>2 DEF DriftInv, SweepInv, SteadyInv
  <2> QED
    BY <2>2 DEF Drift!ReportIsTrue
<1>2. Drift!TotalIsWhole
  BY DEF DriftInv, SweepInv, SteadyInv, Drift!TypeOK, Drift!TotalIsWhole
<1> QED
  BY <1>1, <1>2

LEMMA InitDrift == Drift!Init => DriftInv
<1> SUFFICES ASSUME Drift!Init PROVE DriftInv
  OBVIOUS
<1>1. report = Drift!Silent /\ Drift!Silent.of = None /\ Drift!Silent.physical = {}
  BY DEF Drift!Init, Drift!Silent
<1>2. None \notin Drift!Buckets /\ None # "org"
  BY DriftAssumption DEF Drift!DriftAssumption
<1>3. Drift!TypeOK
  <2>1. MaxEvents \in Nat /\ MaxFaults \in Nat
    BY DriftAssumption DEF Drift!DriftAssumption
  <2>2. found \subseteq Drift!AllKeys /\ live \subseteq Drift!AllKeys
    BY DEF Drift!Init
  <2>3. events \in 0 .. MaxEvents /\ refused \in 0 .. MaxFaults
    BY <2>1 DEF Drift!Init
  <2>4. /\ moved = {} /\ listed = {} /\ seen = {} /\ sum = {} /\ todo = {} /\ failed = FALSE
        /\ bucket = None /\ at = "idle" /\ kind \in {"keys", "bytes"}
    BY DEF Drift!Init
  <2> QED
    BY <2>2, <2>3, <2>4 DEF Drift!TypeOK
<1>4. SweepInv
  BY <1>1, <1>2 DEF Drift!Init, SweepInv, SteadyInv, Under
<1> QED
  BY <1>3, <1>4 DEF DriftInv

\* An object that comes or goes: one key more that is not vouched for.
LEMMA ChangeKeeps == DriftInv /\ Drift!Changes => DriftInv'
<1> SUFFICES ASSUME DriftInv, Drift!Changes PROVE DriftInv'
  OBVIOUS
<1>1. PICK k \in Drift!AllKeys :
        /\ moved' = moved \cup {k}
        /\ \/ live' \in {live \cup {k}, live \ {k}} /\ found' = found
           \/ found' \in {found \cup {k}, found \ {k}} /\ live' = live
  BY DEF Drift!Changes
<1>2. /\ UNCHANGED <<kind, at, bucket, page, todo, listed, seen, sum, failed, report, refused>>
      /\ events' = events + 1 /\ events < MaxEvents
  BY DEF Drift!Changes
<1>3. Drift!TypeOK'
  BY <1>1, <1>2, DriftAssumption DEF DriftInv, Drift!TypeOK, Drift!DriftAssumption
<1>4. Under' = Under /\ Reached' = Reached /\ Counted' = Counted
  BY <1>2 DEF Under, Reached, Upto, Counted
<1>5. ASSUME NEW i \in Drift!AllKeys \ moved' PROVE SteadyInv(i)'
  <2>1. SteadyInv(i) /\ (i \in found' <=> i \in found) /\ (i \in live' <=> i \in live)
    BY <1>1, <1>5 DEF DriftInv, SweepInv
  <2> QED
    BY <1>2, <1>4, <2>1 DEF SteadyInv
<1>6. SweepInv'
  BY <1>2, <1>4, <1>5 DEF DriftInv, SweepInv
<1> QED
  BY <1>3, <1>6 DEF DriftInv

LEMMA NextBucketKeeps == DriftInv /\ Drift!NextBucket => DriftInv'
<1> SUFFICES ASSUME DriftInv, Drift!NextBucket PROVE DriftInv'
  OBVIOUS
<1>1. PICK b \in todo :
        /\ bucket' = b /\ todo' = todo \ {b}
        /\ listed' = IF kind = "keys" THEN live \cap Drift!Keys(b) ELSE {}
  BY DEF Drift!NextBucket
<1>2. /\ at = "next" /\ at' = "listing" /\ page' = 1 /\ seen' = {}
      /\ UNCHANGED <<kind, sum, failed, report, refused, found, live, moved, events>>
  BY DEF Drift!NextBucket, Drift!objectVars
<1>3. b \in Drift!Buckets
  BY <1>1 DEF DriftInv, Drift!TypeOK
<1>4. Drift!TypeOK'
  <2>1. listed' \subseteq Drift!AllKeys
    BY <1>1, <1>3, PagesOfBuckets
  <2>2. 1 \in DOMAIN Pages[b]
    BY <1>3, PagesOfBuckets
  <2> QED
    BY <1>1, <1>2, <1>3, <2>1, <2>2 DEF DriftInv, Drift!TypeOK
<1>5. ~Under /\ Under' /\ Reached' = {} /\ Counted' = Counted
  <2>1. ~Under /\ Under'
    BY <1>2 DEF Under
  <2>2. Reached' = {}
    BY <1>2 DEF Reached, Upto
  <2>3. \A c \in Drift!Buckets : (c \in todo' \/ c = b) <=> c \in todo
    BY <1>1
  <2> QED
    BY <1>1, <2>1, <2>2, <2>3 DEF Counted
<1>6. ASSUME NEW k \in Drift!AllKeys \ moved PROVE SteadyInv(k)'
  <2>1. SteadyInv(k)
    BY <1>6 DEF DriftInv, SweepInv
  <2> QED
    BY <1>1, <1>2, <1>5, <2>1 DEF SteadyInv
<1>7. SweepInv'
  BY <1>1, <1>2, <1>3, <1>6 DEF DriftInv, SweepInv
<1> QED
  BY <1>4, <1>7 DEF DriftInv

LEMMA ListPageKeeps == DriftInv /\ Drift!ListPage => DriftInv'
<1> SUFFICES ASSUME DriftInv, Drift!ListPage PROVE DriftInv'
  OBVIOUS
<1>1. /\ at = "listing" /\ seen' = seen \cup (found \cap Pages[bucket][page])
      /\ UNCHANGED <<kind, bucket, todo, listed, sum, failed, report, refused, found, live, moved, events>>
      /\ \/ page < Len(Pages[bucket]) /\ page' = page + 1 /\ at' = at
         \/ ~(page < Len(Pages[bucket])) /\ page' = page /\ at' = "listed"
  BY DEF Drift!ListPage, Drift!objectVars
<1>2. Under /\ Under' /\ bucket \in Drift!Buckets /\ page \in DOMAIN Pages[bucket]
  BY <1>1 DEF DriftInv, SweepInv, Under, Drift!TypeOK
<1>3. /\ page \in 1 .. Len(Pages[bucket]) /\ Len(Pages[bucket]) \in Nat
      /\ DOMAIN Pages[bucket] = 1 .. Len(Pages[bucket])
      /\ Drift!Keys(bucket) = Upto(Len(Pages[bucket]))
  BY <1>2, PagesOfBuckets DEF Upto
<1>4. Reached' = Reached \cup Pages[bucket][page]
  <2>1. Upto(page) = Upto(page - 1) \cup Pages[bucket][page]
    <3>1. \A i : i \in 1 .. page <=> i \in 1 .. page - 1 \/ i = page
      BY <1>3
    <3> QED
      BY <3>1 DEF Upto
  <2>2. CASE at' = "listing"
    <3>1. page' - 1 = page
      BY <1>1, <1>3, <2>2
    <3> QED
      BY <1>1, <2>1, <2>2, <3>1 DEF Reached, Upto
  <2>3. CASE at' = "listed"
    <3>1. page = Len(Pages[bucket])
      BY <1>1, <1>3, <2>3
    <3> QED
      BY <1>1, <1>3, <2>1, <2>3, <3>1 DEF Reached
  <2> QED
    BY <1>1, <2>2, <2>3
<1>5. Drift!TypeOK'
  <2>1. seen' \subseteq Drift!AllKeys
    BY <1>1 DEF DriftInv, Drift!TypeOK
  <2>2. at' = "listing" => page' \in DOMAIN Pages[bucket]
    BY <1>1, <1>3
  <2> QED
    BY <1>1, <2>1, <2>2 DEF DriftInv, Drift!TypeOK
<1>6. Counted' = Counted
  BY <1>1, <1>2 DEF Counted
<1>7. ASSUME NEW k \in Drift!AllKeys \ moved PROVE SteadyInv(k)'
  <2>1. SteadyInv(k)
    BY <1>7 DEF DriftInv, SweepInv
  <2>2. at' # "idle"
    BY <1>1
  <2> QED
    BY <1>1, <1>2, <1>4, <1>6, <2>1, <2>2 DEF SteadyInv
<1>8. SweepInv'
  BY <1>1, <1>2, <1>7 DEF DriftInv, SweepInv
<1> QED
  BY <1>5, <1>8 DEF DriftInv

\* What the total gains when a bucket has been listed to the end.
LEMMA CountedGrows ==
  ASSUME DriftInv, Under, ~Under', UNCHANGED <<bucket, todo>>
  PROVE  Counted' = Counted \cup Drift!Keys(bucket)
<1>1. bucket \in Drift!Buckets \ todo
  BY DEF DriftInv, SweepInv
<1>2. {c \in Drift!Buckets \ todo' : Under' => c # bucket'}
        = {c \in Drift!Buckets \ todo : Under => c # bucket} \cup {bucket}
  BY <1>1
<1> QED
  BY <1>2 DEF Counted

LEMMA ListFailsKeeps == DriftInv /\ Drift!ListFails => DriftInv'
<1> SUFFICES ASSUME DriftInv, Drift!ListFails PROVE DriftInv'
  OBVIOUS
<1>1. /\ at = "listing" /\ at' = "next" /\ refused < MaxFaults /\ refused' = refused + 1
      /\ failed' = (kind = "bytes" \/ failed)
      /\ sum' = IF kind = "bytes" THEN sum \cup seen ELSE sum
      /\ UNCHANGED <<kind, bucket, page, todo, listed, seen, report, found, live, moved, events>>
  BY DEF Drift!ListFails, Drift!objectVars
<1>2. failed' \in BOOLEAN /\ (kind = "bytes" => failed')
  BY <1>1 DEF DriftInv, Drift!TypeOK
<1>3. Drift!TypeOK'
  <2>1. sum' \subseteq Drift!AllKeys /\ MaxFaults \in Nat
    BY <1>1, DriftAssumption DEF DriftInv, Drift!TypeOK, Drift!DriftAssumption
  <2> QED
    BY <1>1, <1>2, <2>1 DEF DriftInv, Drift!TypeOK
<1>4. ~Under'
  BY <1>1 DEF Under
<1>5. ASSUME NEW k \in Drift!AllKeys \ moved PROVE SteadyInv(k)'
  <2>1. SteadyInv(k)
    BY <1>5 DEF DriftInv, SweepInv
  <2> QED
    BY <1>1, <1>2, <1>4, <2>1 DEF SteadyInv
<1>6. SweepInv'
  BY <1>1, <1>4, <1>5 DEF DriftInv, SweepInv
<1> QED
  BY <1>3, <1>6 DEF DriftInv

LEMMA CompareKeeps == DriftInv /\ Drift!Compare => DriftInv'
<1> SUFFICES ASSUME DriftInv, Drift!Compare PROVE DriftInv'
  OBVIOUS
<1>1. /\ at = "listed" /\ at' = "next"
      /\ UNCHANGED <<kind, bucket, page, todo, listed, seen, failed, refused, found, live, moved, events>>
  BY DEF Drift!Compare, Drift!objectVars
<1>2. Under /\ ~Under' /\ Reached = Drift!Keys(bucket) /\ bucket \in Drift!Buckets
  BY <1>1 DEF Under, Reached, DriftInv, SweepInv
<1>3. Counted' = Counted \cup Drift!Keys(bucket)
  BY <1>1, <1>2, CountedGrows
<1>4. CASE kind = "keys"
  <2>1. /\ report'.of = bucket /\ report'.orphans = seen \ listed /\ report'.ghosts = listed \ seen
        /\ report'.physical = {} /\ sum' = sum
    BY <1>4 DEF Drift!Compare, Drift!Silent
  <2>2. bucket # "org"
    BY <1>2, DriftAssumption DEF Drift!DriftAssumption
  <2>3. Drift!TypeOK'
    BY <1>1, <2>1 DEF DriftInv, Drift!TypeOK
  <2>4. ASSUME NEW k \in Drift!AllKeys \ moved PROVE SteadyInv(k)'
    <3>1. SteadyInv(k)
      BY <2>4 DEF DriftInv, SweepInv
    <3> QED
      BY <1>1, <1>2, <1>4, <2>1, <2>2, <3>1 DEF SteadyInv
  <2>5. SweepInv'
    BY <1>1, <1>2, <2>1, <2>4 DEF DriftInv, SweepInv
  <2> QED
    BY <2>3, <2>5 DEF DriftInv
<1>5. CASE kind = "bytes"
  <2>1. sum' = sum \cup seen /\ report' = report
    BY <1>5 DEF Drift!Compare
  <2>2. Drift!TypeOK'
    BY <1>1, <2>1 DEF DriftInv, Drift!TypeOK
  <2>3. ASSUME NEW k \in Drift!AllKeys \ moved PROVE SteadyInv(k)'
    <3>1. SteadyInv(k)
      BY <2>3 DEF DriftInv, SweepInv
    <3> QED
      BY <1>1, <1>2, <1>3, <1>5, <2>1, <3>1 DEF SteadyInv
  <2>4. SweepInv'
    BY <1>1, <1>2, <2>1, <2>3 DEF DriftInv, SweepInv
  <2> QED
    BY <2>2, <2>4 DEF DriftInv
<1> QED
  BY <1>4, <1>5 DEF DriftInv, Drift!TypeOK

LEMMA FinishKeeps == DriftInv /\ Drift!Finish => DriftInv'
<1> SUFFICES ASSUME DriftInv, Drift!Finish PROVE DriftInv'
  OBVIOUS
<1>1. /\ at = "next" /\ todo = {} /\ at' = "done"
      /\ UNCHANGED <<kind, bucket, page, todo, listed, seen, sum, failed, refused, found, live, moved, events>>
  BY DEF Drift!Finish, Drift!objectVars
<1>2. ~Under /\ ~Under' /\ Counted' = Counted
  BY <1>1 DEF Under, Counted
<1>3. Counted = Drift!AllKeys
  BY <1>1, <1>2 DEF Counted, Drift!AllKeys
<1>4. Drift!TypeOK'
  BY <1>1 DEF DriftInv, Drift!TypeOK
<1>5. CASE kind = "bytes" /\ ~failed
  <2>1. report'.of = "org" /\ report'.physical = sum
    BY <1>5 DEF Drift!Finish, Drift!Silent
  <2>2. "org" \notin Drift!Buckets
    BY DriftAssumption DEF Drift!DriftAssumption
  <2>3. ASSUME NEW k \in Drift!AllKeys \ moved PROVE SteadyInv(k)'
    <3>1. SteadyInv(k)
      BY <2>3 DEF DriftInv, SweepInv
    <3> QED
      BY <1>1, <1>2, <1>3, <1>5, <2>1, <2>2, <2>3, <3>1 DEF SteadyInv
  <2>4. SweepInv'
    BY <1>1, <1>2, <2>1, <2>3 DEF DriftInv, SweepInv, Drift!TypeOK
  <2> QED
    BY <1>4, <2>4 DEF DriftInv
<1>6. CASE ~(kind = "bytes" /\ ~failed)
  <2>1. report' = report
    BY <1>6 DEF Drift!Finish
  <2>2. ASSUME NEW k \in Drift!AllKeys \ moved PROVE SteadyInv(k)'
    <3>1. SteadyInv(k)
      BY <2>2 DEF DriftInv, SweepInv
    <3> QED
      BY <1>1, <1>2, <1>6, <2>1, <3>1 DEF SteadyInv
  <2>3. SweepInv'
    BY <1>1, <1>2, <2>1, <2>2 DEF DriftInv, SweepInv
  <2> QED
    BY <1>4, <2>3 DEF DriftInv
<1> QED
  BY <1>5, <1>6

LEMMA DriftKeeps == DriftInv /\ Drift!Next => DriftInv'
<1> SUFFICES ASSUME DriftInv, Drift!Next PROVE DriftInv'
  OBVIOUS
<1>1. CASE Drift!Begin
  <2>1. /\ at = "idle" /\ at' = "next" /\ todo' = Drift!Buckets
        /\ UNCHANGED <<kind, bucket, page, listed, seen, sum, failed, report, refused, found, live, moved, events>>
    BY <1>1 DEF Drift!Begin, Drift!objectVars
  <2>2. Drift!TypeOK'
    BY <2>1 DEF DriftInv, Drift!TypeOK
  <2>3. ~Under' /\ Counted' = {} /\ sum = {}
    BY <2>1 DEF Under, Counted, DriftInv, SweepInv
  <2>4. ASSUME NEW k \in Drift!AllKeys \ moved PROVE SteadyInv(k)'
    <3>1. SteadyInv(k)
      BY <2>4 DEF DriftInv, SweepInv
    <3> QED
      BY <2>1, <2>3, <3>1 DEF SteadyInv
  <2>5. SweepInv'
    BY <2>1, <2>3, <2>4 DEF DriftInv, SweepInv
  <2> QED
    BY <2>2, <2>5 DEF DriftInv
<1> QED
  BY <1>1, ChangeKeeps, NextBucketKeeps, ListPageKeeps, ListFailsKeeps, CompareKeeps, FinishKeeps
     DEF Drift!Next, Drift!Sweeps

\* For any buckets and pages, and however objects come and go meanwhile: of the
\* keys that stayed as they are a report names those of one side only, and no
\* others, and a total that is compared is whole.  For any jobs, queue limits
\* and stops: a job keeps its database while it is held, and a shutdown that
\* ends, in time or forced, leaves no ffmpeg behind.
THEOREM ReportsAndShutdowns == Spec => []ProcessHolds
<1> DEFINE Inv == (part = "drift" => DriftInv) /\ (part = "process" => ProcessInv)
<1>1. Init => Inv
  BY InitDrift, InitProcess DEF Init
<1>2. Inv /\ [Next]_vars => Inv'
  <2> SUFFICES ASSUME Inv, [Next]_vars PROVE Inv'
    OBVIOUS
  <2>1. part' = part
    BY DEF Next, vars
  <2>2. CASE part = "drift"
    <3>1. CASE Drift!Next
      BY <2>1, <2>2, <3>1, DriftKeeps
    <3>2. CASE UNCHANGED driftVars
      BY <2>1, <2>2, <3>2 DEF driftVars, DriftInv, SweepInv, SteadyInv, Under, Reached, Upto, Counted, Drift!TypeOK
    <3> QED
      BY <2>2, <3>1, <3>2 DEF Next, Beside, Dashboard, vars, besideVars
  <2>3. CASE part = "process"
    <3>1. CASE Working!Next
      BY <2>1, <2>3, <3>1, ProcessKeeps
    <3>2. CASE UNCHANGED processVars
      BY <2>1, <2>3, <3>2
         DEF processVars, ProcessInv, HeldInv, Working!TypeOK, Working!Held, Working!NoChildLeft
    <3> QED
      BY <2>3, <3>1, <3>2 DEF Next, Beside, Dashboard, vars, besideVars
  <2> QED
    BY <2>1, <2>2, <2>3
<1>3. Inv => ProcessHolds
  BY SteadyIsTrue, HeldKeepTheirDb DEF ProcessHolds, DriftInv, ProcessInv
<1> QED
  BY <1>1, <1>2, <1>3, PTL DEF Spec

-----------------------------------------------------------------------------
(* Derivatives and their jobs *)

Taken == {"fetched", "probed", "enqueue", "stored"}
Busy == Taken \cup {"waiting"}
JobRecord ==
  [at : Busy \cup {"none", "done", "failed"}, tries : Nat, stalls : Nat,
   kind : Media!Kinds \cup {None}, by : Versions \cup {None}, seen : Versions \cup {None},
   todo : SUBSET (Types \X Versions)]

MediaTypes ==
  /\ stored \in Versions \cup {None} /\ row \in Versions \cup {None}
  /\ assets \in [kind : Media!Kinds \cup {None}, of : Versions \cup {None}]
  /\ bytes \in [Types -> [of : Versions \cup {None}, by : Versions \cup {None}]]
  /\ rows \subseteq Types
  /\ confirm \in [pc : {"idle", "commit", "enqueue"}, ver : Versions \cup {None}]
  /\ confirm.pc # "idle" => confirm.ver # None
  /\ confirm.pc = "enqueue" => row # None
  /\ removal \in [pc : {"idle", "tx", "source", "derived", "done"}, todo : SUBSET Types]
  /\ deleted \in BOOLEAN /\ (deleted <=> removal.pc \in {"source", "derived", "done"})
  /\ calm \in BOOLEAN /\ asked \in BOOLEAN /\ flawed \in BOOLEAN /\ touched \in BOOLEAN

\* What a job's record says of it; a job is queued for an object that has a row.
JobFits(i, job) ==
  /\ job.tries < MaxAttempts /\ job.stalls <= MaxStalls + 1
  /\ job.at \in Busy => job.stalls <= MaxStalls
  /\ job.at \in Taken <=> job.seen # None
  /\ job.at \in {"probed", "enqueue"} => i[1] = "probe"
  /\ job.at = "stored" => i[1] \in Types
  /\ job.at # "none" => row # None

JobsInv == jobs \in [Media!Ids -> JobRecord] /\ \A i \in Media!Ids : JobFits(i, jobs[i])

\* A row of a derivative has its bytes, and a job about to write one as well.
ServedInv ==
  ~deleted =>
    /\ \A t \in rows : bytes[t].of # None
    /\ \A i \in Media!Ids : jobs[i].at = "stored" => bytes[i[1]].of # None

\* Unless a derivative was in the making, a DELETE knows all there is to
\* remove, and what it has not removed yet it still will.
RemovedInv ==
  removal.pc # "idle" /\ ~touched =>
    /\ \A i \in Media!Ids : i[1] # "probe" => jobs[i].at \notin Taken
    /\ rows = IF removal.pc = "tx" THEN removal.todo ELSE {}
    /\ \A t \in Types \ removal.todo : bytes[t] = Media!NoBytes
    /\ removal.pc \in {"derived", "done"} => stored = None
    /\ removal.pc = "done" => removal.todo = {}

\* The last upload came to a quiet key, and nothing was given up since.
Quiet == calm /\ ~flawed /\ ~deleted

Kind == Media!Probed(Media!Classify(stored))
Probe == <<"probe", stored>>
Measured == assets = [kind |-> Kind, of |-> stored]
Made(t) == bytes[t] = [of |-> stored, by |-> stored]
Sent(t) == jobs[<<t, stored>>].at \in Busy \/ (t \in rows /\ Made(t))

\* Then every job under way is about that upload ...
OfUpload(i, job) ==
  job.at \in Busy =>
    /\ i[2] = stored /\ asked /\ job.seen \in {None, stored}
    /\ i[1] = "probe" => job.kind = Media!Classify(stored)
    /\ i[1] # "probe" => job.by = stored
    /\ \A k \in job.todo : k[2] = stored

\* ... what a derivative's job has done so far is there ...
DoneSoFar(t) ==
  LET point == jobs[<<t, stored>>].at IN
  /\ point # "failed" /\ (point = "stored" => Made(t)) /\ (point = "done" => t \in rows /\ Made(t))

\* ... and so is what its probe has done.
ProbeSoFar ==
  LET probe == jobs[Probe] IN
  /\ probe.at \in {"probed", "enqueue"} \/ (asked /\ probe.at \notin Busy) => Measured
  /\ asked /\ probe.at \notin Busy => \A t \in Media!Wanted(Kind) : Sent(t)
  /\ probe.at = "enqueue" => \A t \in Media!Wanted(Kind) : Sent(t) \/ <<t, stored>> \in probe.todo

UploadInv ==
  Quiet =>
    /\ stored # None /\ (confirm.pc # "idle" => confirm.ver = stored /\ ~asked)
    /\ confirm.pc = "enqueue" \/ asked => row = stored
    /\ ~asked => \A what \in {"probe"} \cup Types : jobs[<<what, stored>>].at = "none"
    /\ \A i \in Media!Ids : OfUpload(i, jobs[i])
    /\ \A t \in Types : DoneSoFar(t)
    /\ ProbeSoFar

MediaInv == MediaTypes /\ JobsInv /\ ServedInv /\ RemovedInv /\ UploadInv

-----------------------------------------------------------------------------

LEMMA MediaConstants ==
  /\ Types \subseteq {"thumbnail", "poster", "sprite"} /\ "probe" \notin Types /\ None \notin Versions
  /\ MaxAttempts \in Nat \ {0} /\ MaxStalls \in Nat
  /\ Media!Ids = ({"probe"} \cup Types) \X Versions
  /\ \A k \in Media!Kinds \cup {None} : Media!Wanted(k) \subseteq Types
BY MediaAssumption DEF Media!MediaAssumption, Media!Ids, Media!Wanted

LEMMA KindsOfVersions ==
  ASSUME NEW v \in Versions
  PROVE  Media!Classify(v) \in Media!Kinds /\ Media!Probed(Media!Classify(v)) \in Media!Kinds
BY MediaAssumption DEF Media!MediaAssumption, Media!Classify, Media!Probed, Media!Kinds

\* The sets of jobs, by their records.
LEMMA JobSets ==
  ASSUME JobsInv
  PROVE  /\ \A i \in Media!Ids : i \in Media!Pending <=> jobs[i].at \in Busy
         /\ \A i \in Media!Ids : i \in Media!Active <=> jobs[i].at \in Taken
         /\ \A i \in Media!Ids : i \in Media!Making <=> jobs[i].at \in Taken /\ i[1] # "probe"
BY DEF JobsInv, JobRecord, Media!Pending, Media!Active, Media!Making, Busy, Taken

\* What the dashboard and the storage get from it.
LEMMA MediaIsSound ==
  MediaInv => /\ Media!TypeOK /\ Media!PreviewIsServed /\ Media!OverwriteRegenerates
              /\ Media!DeletedLeavesNothing
<1> SUFFICES ASSUME MediaInv
             PROVE  /\ Media!TypeOK /\ Media!PreviewIsServed /\ Media!OverwriteRegenerates
                    /\ Media!DeletedLeavesNothing
  OBVIOUS
<1> USE DEF MediaInv
<1>1. Media!TypeOK
  <2>1. ASSUME NEW i \in Media!Ids
        PROVE  /\ jobs[i].at \in {"none", "waiting", "fetched", "probed", "enqueue", "stored", "done", "failed"}
               /\ jobs[i].tries < MaxAttempts /\ jobs[i].stalls <= MaxStalls + 1
               /\ jobs[i].todo \subseteq Media!Ids
               /\ (i \in Media!Active) = (jobs[i].seen # None)
    <3>1. jobs[i] \in JobRecord /\ JobFits(i, jobs[i]) /\ (i \in Media!Active <=> jobs[i].at \in Taken)
      BY JobSets DEF JobsInv
    <3>2. jobs[i].todo \subseteq Media!Ids
      BY <3>1, MediaConstants DEF JobRecord
    <3> QED
      BY <3>1, <3>2 DEF JobRecord, JobFits, Busy, Taken
  <2> QED
    BY <2>1 DEF MediaTypes, Media!TypeOK
<1>2. Media!PreviewIsServed
  BY DEF ServedInv, Media!PreviewIsServed, Media!Preview
<1>3. Media!OverwriteRegenerates
  <2> SUFFICES ASSUME calm, asked, ~flawed, ~deleted, stored = row, Media!Pending = {}
               PROVE  Media!Complete
    BY DEF Media!OverwriteRegenerates
  <2>1. Quiet /\ UploadInv /\ stored \in Versions /\ Probe \in Media!Ids
    BY MediaConstants DEF Quiet, UploadInv, MediaTypes, Probe
  <2>2. \A i \in Media!Ids : jobs[i].at \notin Busy
    BY JobSets
  <2>3. Measured /\ \A t \in Media!Wanted(Kind) : Sent(t)
    BY <2>1, <2>2 DEF UploadInv, ProbeSoFar
  <2>4. ASSUME NEW t \in Media!Wanted(Kind) PROVE t \in rows /\ Made(t)
    <3>1. Kind \in Media!Kinds
      BY <2>1, KindsOfVersions DEF Kind
    <3>2. <<t, stored>> \in Media!Ids
      BY <2>1, <3>1, MediaConstants
    <3> QED
      BY <2>2, <2>3, <3>2 DEF Sent
  <2> QED
    BY <2>1, <2>3, <2>4 DEF UploadInv, Media!Complete, Measured, Made, Kind
<1>4. Media!DeletedLeavesNothing
  BY DEF RemovedInv, Media!DeletedLeavesNothing
<1> QED
  BY <1>1, <1>2, <1>3, <1>4

LEMMA InitMedia == Media!Init => MediaInv
<1> SUFFICES ASSUME Media!Init PROVE MediaInv
  OBVIOUS
<1>1. MediaTypes
  <2>1. bytes \in [Types -> [of : Versions \cup {None}, by : Versions \cup {None}]]
    BY DEF Media!Init, Media!NoBytes
  <2>2. assets \in [kind : Media!Kinds \cup {None}, of : Versions \cup {None}]
    BY DEF Media!Init
  <2>3. /\ confirm \in [pc : {"idle", "commit", "enqueue"}, ver : Versions \cup {None}] /\ confirm.pc = "idle"
        /\ removal \in [pc : {"idle", "tx", "source", "derived", "done"}, todo : SUBSET Types]
        /\ removal.pc = "idle"
    BY DEF Media!Init
  <2>4. /\ stored = None /\ row = None /\ deleted = FALSE /\ rows = {}
        /\ calm = FALSE /\ asked = FALSE /\ flawed = FALSE /\ touched = FALSE
    BY DEF Media!Init
  <2>5. deleted <=> removal.pc \in {"source", "derived", "done"}
    BY <2>3, <2>4
  <2>6. confirm.pc # "idle" => confirm.ver # None
    BY <2>3
  <2>7. confirm.pc = "enqueue" => row # None
    BY <2>3
  <2> QED
    BY <2>1, <2>2, <2>3, <2>4, <2>5, <2>6, <2>7 DEF MediaTypes
<1>2. JobsInv
  BY MediaConstants DEF Media!Init, JobsInv, JobFits, JobRecord, Media!NoJob, Busy, Taken
<1>3. ServedInv /\ RemovedInv /\ UploadInv
  BY DEF Media!Init, ServedInv, RemovedInv, UploadInv, Quiet, Media!NoJob
<1> QED
  BY <1>1, <1>2, <1>3 DEF MediaInv

-----------------------------------------------------------------------------

\* A client uploads: what is said of an upload is said of the new one.
LEMMA PutKeeps ==
  ASSUME MediaInv, NEW v \in Versions, Media!Put(v)
  PROVE  MediaInv'
<1> USE DEF MediaInv
<1>1. /\ ~deleted /\ removal.pc = "idle" /\ stored' = v /\ asked' = FALSE /\ flawed' = FALSE
      /\ calm' = (Media!Pending = {} /\ confirm.pc = "idle" /\ \A i \in Media!Ids : i[2] = v => jobs[i].at = "none")
      /\ UNCHANGED <<row, deleted, assets, bytes, rows, jobs, confirm, removal, touched>>
  BY DEF Media!Put, Media!mediaVars
<1>2. MediaTypes'
  BY <1>1 DEF MediaTypes
<1>3. JobsInv'
  BY <1>1 DEF JobsInv, JobFits
<1>4. ServedInv' /\ RemovedInv'
  BY <1>1 DEF ServedInv, RemovedInv
<1>5. ASSUME Quiet' PROVE UploadInv'
  <2>1. \A i \in Media!Ids : jobs'[i].at \notin Busy
    BY <1>1, <1>5, JobSets DEF Quiet
  <2>2. \A what \in {"probe"} \cup Types : <<what, v>> \in Media!Ids /\ jobs'[<<what, v>>].at = "none"
    BY <1>1, <1>5, MediaConstants DEF Quiet
  <2>3. \A i \in Media!Ids : OfUpload(i, jobs[i])'
    BY <2>1 DEF OfUpload
  <2>4. \A t \in Types : DoneSoFar(t)'
    BY <1>1, <2>2 DEF DoneSoFar
  <2>5. ProbeSoFar'
    BY <1>1, <2>2 DEF ProbeSoFar, Probe
  <2>6. confirm'.pc = "idle" /\ v # None
    BY <1>1, <1>5, MediaConstants DEF Quiet
  <2> QED
    BY <1>1, <2>2, <2>3, <2>4, <2>5, <2>6 DEF UploadInv
<1> QED
  BY <1>2, <1>3, <1>4, <1>5 DEF UploadInv

\* What UploadInv needs of a step that leaves the upload, the jobs and what
\* they made as they are.
LEMMA UploadStays ==
  ASSUME UploadInv, Quiet' => Quiet, Quiet' => UNCHANGED <<stored, row, asked, jobs, assets, bytes, rows>>,
         Quiet' => (confirm'.pc # "idle" => confirm'.ver = stored /\ ~asked),
         Quiet' => (confirm'.pc = "enqueue" => row = stored)
  PROVE  UploadInv'
<1> SUFFICES ASSUME Quiet'
             PROVE  /\ stored' # None /\ (confirm'.pc # "idle" => confirm'.ver = stored' /\ ~asked')
                    /\ confirm'.pc = "enqueue" \/ asked' => row' = stored'
                    /\ ~asked' => \A what \in {"probe"} \cup Types : jobs'[<<what, stored'>>].at = "none"
                    /\ \A i \in Media!Ids : OfUpload(i, jobs[i])'
                    /\ \A t \in Types : DoneSoFar(t)'
                    /\ ProbeSoFar'
  BY DEF UploadInv
<1>1. UNCHANGED <<stored, row, asked, jobs, assets, bytes, rows>>
  OBVIOUS
<1>2. \A i \in Media!Ids : OfUpload(i, jobs[i])'
  BY <1>1 DEF UploadInv, OfUpload
<1>3. \A t \in Types : DoneSoFar(t)'
  BY <1>1 DEF UploadInv, DoneSoFar, Made
<1>4. ProbeSoFar'
  BY <1>1 DEF UploadInv, ProbeSoFar, Probe, Measured, Kind, Sent, Made
<1> QED
  BY <1>1, <1>2, <1>3, <1>4 DEF UploadInv

LEMMA ConfirmsKeep ==
  ASSUME MediaInv, Media!Head \/ Media!Commit
  PROVE  MediaInv'
<1> USE DEF MediaInv
<1>1. CASE Media!Head
  <2>1. /\ confirm.pc = "idle" /\ stored # None /\ ~asked /\ confirm' = [pc |-> "commit", ver |-> stored]
        /\ UNCHANGED <<stored, row, deleted, assets, bytes, rows, jobs, removal, calm, asked, flawed, touched>>
    BY <1>1 DEF Media!Head, Media!objectVars, Media!mediaVars, Media!history
  <2>2. confirm'.pc = "commit" /\ confirm'.ver = stored
    BY <2>1
  <2>3. MediaTypes'
    BY <2>1, <2>2 DEF MediaTypes
  <2>4. JobsInv' /\ ServedInv' /\ RemovedInv'
    BY <2>1 DEF JobsInv, JobFits, ServedInv, RemovedInv
  <2>5. UploadInv'
    BY <2>1, <2>2, UploadStays DEF Quiet
  <2> QED
    BY <2>3, <2>4, <2>5
<1>2. CASE Media!Commit /\ ~deleted
  <2>1. /\ confirm.pc = "commit" /\ row' = confirm.ver /\ confirm' = [confirm EXCEPT !.pc = "enqueue"]
        /\ UNCHANGED <<stored, deleted, assets, bytes, rows, jobs, removal, calm, asked, flawed, touched>>
    BY <1>2 DEF Media!Commit, Media!mediaVars, Media!history
  <2>2. confirm'.pc = "enqueue" /\ confirm'.ver = confirm.ver /\ row' # None /\ row' \in Versions
    BY <2>1 DEF MediaTypes
  <2>3. MediaTypes'
    BY <2>1, <2>2 DEF MediaTypes
  <2>4. JobsInv' /\ ServedInv' /\ RemovedInv'
    BY <2>1, <2>2 DEF JobsInv, JobFits, ServedInv, RemovedInv
  <2>5. UploadInv'
    <3> SUFFICES ASSUME Quiet' PROVE UploadInv'
      BY DEF UploadInv
    <3>1. Quiet /\ confirm.ver = stored /\ ~asked
      BY <2>1 DEF Quiet, UploadInv
    <3>2. \A i \in Media!Ids : OfUpload(i, jobs[i])'
      BY <2>1, <3>1 DEF UploadInv, OfUpload
    <3>3. \A t \in Types : DoneSoFar(t)'
      BY <2>1, <3>1 DEF UploadInv, DoneSoFar, Made
    <3>4. ProbeSoFar'
      BY <2>1, <3>1 DEF UploadInv, ProbeSoFar, Probe, Measured, Kind, Sent, Made
    <3> QED
      BY <2>1, <2>2, <3>1, <3>2, <3>3, <3>4 DEF UploadInv
  <2> QED
    BY <2>3, <2>4, <2>5
<1>3. CASE Media!Commit /\ deleted
  <2>1. /\ confirm' = [pc |-> "idle", ver |-> None]
        /\ UNCHANGED <<stored, row, deleted, assets, bytes, rows, jobs, removal, calm, asked, flawed, touched>>
    BY <1>3 DEF Media!Commit, Media!mediaVars, Media!history
  <2>2. confirm'.pc = "idle"
    BY <2>1
  <2>3. MediaTypes'
    BY <2>1, <2>2 DEF MediaTypes
  <2>4. JobsInv' /\ ServedInv' /\ RemovedInv'
    BY <2>1 DEF JobsInv, JobFits, ServedInv, RemovedInv
  <2>5. UploadInv'
    BY <1>3, <2>1 DEF Quiet, UploadInv
  <2> QED
    BY <2>3, <2>4, <2>5
<1> QED
  BY <1>1, <1>2, <1>3

\* A job that is added to a queue that does not know its id.
LEMMA JobIsAdded ==
  ASSUME JobsInv, row # None, NEW i \in Media!Ids, jobs[i].at = "none",
         NEW kind0 \in Media!Kinds, NEW by0 \in Versions \cup {None}, NEW js, js = jobs,
         jobs' = Media!WithJob(js, i, [kind |-> kind0, by |-> by0]), row' = row
  PROVE  /\ JobsInv'
         /\ jobs'[i].at = "waiting" /\ jobs'[i].seen = None /\ jobs'[i].todo = {}
         /\ jobs'[i].kind = kind0 /\ jobs'[i].by = by0
         /\ \A h \in Media!Ids : h # i => jobs'[h] = jobs[h]
<1> DEFINE to == [Media!NoJob EXCEPT !.at = "waiting", !.kind = kind0, !.by = by0]
<1>1. /\ to \in JobRecord /\ to.at = "waiting" /\ to.seen = None /\ to.todo = {} /\ to.kind = kind0
      /\ to.by = by0 /\ to.tries = 0 /\ to.stalls = 0
  BY DEF Media!NoJob, JobRecord, Busy
<1>2. jobs' = [jobs EXCEPT ![i] = to]
  BY DEF Media!WithJob
<1> HIDE DEF to
<1>3. /\ jobs' \in [Media!Ids -> JobRecord] /\ jobs'[i] = to
      /\ \A h \in Media!Ids : h # i => jobs'[h] = jobs[h]
  BY <1>1, <1>2 DEF JobsInv
<1>4. \A h \in Media!Ids : JobFits(h, jobs[h])'
  BY <1>1, <1>3, MediaConstants DEF JobsInv, JobFits, Busy, Taken
<1> QED
  BY <1>1, <1>3, <1>4 DEF JobsInv

LEMMA EnqueueProbeKeeps ==
  ASSUME MediaInv, Media!EnqueueProbe
  PROVE  MediaInv'
<1> USE DEF MediaInv
<1> DEFINE v == confirm.ver
           i == <<"probe", v>>
<1>1. /\ confirm.pc = "enqueue" /\ v \in Versions /\ row # None /\ i \in Media!Ids
      /\ confirm' = [pc |-> "idle", ver |-> None]
      /\ UNCHANGED <<stored, row, deleted, assets, bytes, rows, removal, calm, flawed, touched>>
  BY MediaConstants DEF Media!EnqueueProbe, Media!objectVars, Media!mediaVars, MediaTypes
<1>2. confirm'.pc = "idle" /\ asked' \in BOOLEAN
  <2>1. asked \in BOOLEAN
    BY DEF MediaTypes
  <2>2. asked' = asked \/ asked' = (asked \/ v = stored)
    BY DEF Media!EnqueueProbe
  <2> QED
    BY <1>1, <2>1, <2>2
<1>3. MediaTypes'
  BY <1>1, <1>2 DEF MediaTypes
<1>4. CASE UNCHANGED <<jobs, asked>>
  <2>1. JobsInv' /\ ServedInv' /\ RemovedInv'
    BY <1>1, <1>4 DEF JobsInv, JobFits, ServedInv, RemovedInv
  <2>2. UploadInv'
    BY <1>1, <1>2, <1>4, UploadStays DEF Quiet
  <2> QED
    BY <1>3, <2>1, <2>2
<1>5. CASE /\ jobs' = Media!WithJob(jobs, i, [kind |-> Media!Classify(v), by |-> None])
           /\ asked' = (asked \/ v = stored)
  <2>1. CASE jobs[i].at # "none"
    <3>1. jobs' = jobs
      BY <1>5, <2>1 DEF Media!WithJob
    <3>2. ~Quiet
      BY <1>1, <2>1 DEF UploadInv
    <3>3. UploadInv'
      BY <1>1, <3>2 DEF UploadInv, Quiet
    <3>4. JobsInv' /\ ServedInv' /\ RemovedInv'
      BY <1>1, <3>1 DEF JobsInv, JobFits, ServedInv, RemovedInv
    <3> QED
      BY <1>3, <3>3, <3>4
  <2>2. CASE jobs[i].at = "none"
    <3>1. /\ JobsInv' /\ jobs'[i].at = "waiting" /\ jobs'[i].seen = None /\ jobs'[i].todo = {}
          /\ jobs'[i].kind = Media!Classify(v)
          /\ \A h \in Media!Ids : h # i => jobs'[h] = jobs[h]
      BY <1>1, <1>5, <2>2, JobIsAdded, KindsOfVersions
    <3>2. ServedInv' /\ RemovedInv'
      BY <1>1, <3>1 DEF ServedInv, RemovedInv, Taken
    <3>3. UploadInv'
      <4> SUFFICES ASSUME Quiet' PROVE UploadInv'
        BY DEF UploadInv
      <4>1. Quiet /\ v = stored /\ ~asked /\ asked' /\ row = stored /\ i = Probe /\ Probe' = Probe
        BY <1>1, <1>5 DEF Quiet, UploadInv, Probe
      <4>2. \A what \in Types : <<what, stored>> \in Media!Ids /\ <<what, stored>> # i
        BY <1>1, <4>1, MediaConstants
      <4>3. \A h \in Media!Ids : OfUpload(h, jobs[h])'
        BY <1>1, <3>1, <4>1 DEF UploadInv, OfUpload
      <4>4. \A t \in Types : DoneSoFar(t)'
        BY <1>1, <3>1, <4>1, <4>2 DEF UploadInv, DoneSoFar, Made
      <4>5. ProbeSoFar'
        BY <3>1, <4>1 DEF ProbeSoFar, Busy
      <4> QED
        BY <1>1, <1>2, <4>1, <4>3, <4>4, <4>5 DEF UploadInv
    <3> QED
      BY <1>3, <3>1, <3>2, <3>3
  <2> QED
    BY <2>1, <2>2
<1> QED
  BY <1>4, <1>5 DEF Media!EnqueueProbe

LEMMA DeletesKeep ==
  ASSUME MediaInv, Media!Deletes
  PROVE  MediaInv'
<1> USE DEF MediaInv
<1>1. CASE Media!DeleteRead
  <2>1. /\ row # None /\ ~deleted /\ removal.pc = "idle" /\ removal' = [pc |-> "tx", todo |-> rows]
        /\ touched' = (Media!Making # {} \/ Media!Unrecorded # {})
        /\ UNCHANGED <<stored, row, deleted, assets, bytes, rows, jobs, confirm, calm, asked, flawed>>
    BY <1>1 DEF Media!DeleteRead, Media!objectVars, Media!mediaVars
  <2>2. removal'.pc = "tx" /\ removal'.todo = rows
    BY <2>1
  <2>3. MediaTypes'
    BY <2>1, <2>2 DEF MediaTypes
  <2>4. JobsInv' /\ ServedInv'
    BY <2>1 DEF JobsInv, JobFits, ServedInv
  <2>5. RemovedInv'
    <3> SUFFICES ASSUME ~touched' PROVE RemovedInv'
      BY DEF RemovedInv
    <3>1. \A i \in Media!Ids : i[1] # "probe" => jobs[i].at \notin Taken
      BY <2>1, JobSets
    <3>2. \A t \in Types \ rows : bytes[t] = Media!NoBytes
      BY <2>1 DEF Media!Unrecorded
    <3> QED
      BY <2>1, <2>2, <3>1, <3>2 DEF RemovedInv
  <2>6. UploadInv'
    BY <2>1, UploadStays DEF Quiet, UploadInv
  <2> QED
    BY <2>3, <2>4, <2>5, <2>6
<1>2. CASE Media!DeleteRows
  <2>1. /\ removal.pc = "tx" /\ removal' = [removal EXCEPT !.pc = "source"] /\ deleted' = TRUE /\ rows' = {}
        /\ UNCHANGED <<stored, row, assets, bytes, jobs, confirm, calm, asked, flawed, touched>>
    BY <1>2 DEF Media!DeleteRows, Media!history
  <2>2. removal'.pc = "source" /\ removal'.todo = removal.todo /\ removal.todo \subseteq Types
    BY <2>1 DEF MediaTypes
  <2>3. MediaTypes'
    BY <2>1, <2>2 DEF MediaTypes
  <2>4. JobsInv' /\ ServedInv' /\ RemovedInv' /\ UploadInv'
    BY <2>1, <2>2 DEF JobsInv, JobFits, ServedInv, RemovedInv, UploadInv, Quiet
  <2> QED
    BY <2>3, <2>4
<1>3. CASE Media!DeleteSource
  <2>1. /\ removal.pc = "source" /\ removal' = [removal EXCEPT !.pc = "derived"]
        /\ \/ stored' = None /\ touched' = touched
           \/ stored' = stored /\ touched' = TRUE
        /\ UNCHANGED <<row, deleted, assets, bytes, rows, jobs, confirm, calm, asked, flawed>>
    BY <1>3 DEF Media!DeleteSource, Media!mediaVars
  <2>2. removal'.pc = "derived" /\ removal'.todo = removal.todo /\ removal.todo \subseteq Types /\ deleted
    BY <2>1 DEF MediaTypes
  <2>3. MediaTypes'
    BY <2>1, <2>2 DEF MediaTypes
  <2>4. JobsInv' /\ ServedInv' /\ UploadInv'
    BY <2>1, <2>2 DEF JobsInv, JobFits, ServedInv, UploadInv, Quiet
  <2>5. RemovedInv'
    BY <2>1, <2>2 DEF RemovedInv
  <2> QED
    BY <2>3, <2>4, <2>5
<1>4. ASSUME NEW t \in Types, Media!DeleteDerived(t) PROVE MediaInv'
  <2>1. /\ removal.pc = "derived" /\ removal' = [removal EXCEPT !.todo = removal.todo \ {t}]
        /\ \/ bytes' = [bytes EXCEPT ![t] = Media!NoBytes] /\ touched' = touched
           \/ bytes' = bytes /\ touched' = TRUE
        /\ UNCHANGED <<stored, row, deleted, assets, rows, jobs, confirm, calm, asked, flawed>>
    BY <1>4 DEF Media!DeleteDerived, Media!objectVars
  <2>2. removal'.pc = "derived" /\ removal'.todo = removal.todo \ {t} /\ removal.todo \subseteq Types /\ deleted
    BY <2>1 DEF MediaTypes
  <2>3. /\ bytes' \in [Types -> [of : Versions \cup {None}, by : Versions \cup {None}]]
        /\ \A u \in Types : bytes'[u] = bytes[u] \/ (u = t /\ bytes'[u] = Media!NoBytes)
        /\ touched' = touched => bytes'[t] = Media!NoBytes \/ touched
    <3>1. Media!NoBytes \in [of : Versions \cup {None}, by : Versions \cup {None}]
      BY DEF Media!NoBytes
    <3> QED
      BY <2>1, <3>1 DEF MediaTypes
  <2>4. MediaTypes'
    BY <2>1, <2>2, <2>3 DEF MediaTypes
  <2>5. JobsInv' /\ ServedInv' /\ UploadInv'
    BY <2>1, <2>2 DEF JobsInv, JobFits, ServedInv, UploadInv, Quiet
  <2>6. RemovedInv'
    BY <2>1, <2>2, <2>3 DEF RemovedInv
  <2> QED
    BY <2>4, <2>5, <2>6
<1>5. CASE Media!DeleteAnswer
  <2>1. /\ removal.pc = "derived" /\ removal.todo = {} /\ removal' = [removal EXCEPT !.pc = "done"]
        /\ UNCHANGED <<stored, row, deleted, assets, bytes, rows, jobs, confirm, calm, asked, flawed, touched>>
    BY <1>5 DEF Media!DeleteAnswer, Media!objectVars, Media!mediaVars, Media!history
  <2>2. removal'.pc = "done" /\ removal'.todo = {} /\ deleted
    BY <2>1 DEF MediaTypes
  <2>3. MediaTypes'
    BY <2>1, <2>2 DEF MediaTypes
  <2>4. JobsInv' /\ ServedInv' /\ RemovedInv' /\ UploadInv'
    BY <2>1, <2>2 DEF JobsInv, JobFits, ServedInv, RemovedInv, UploadInv, Quiet
  <2> QED
    BY <2>3, <2>4
<1> QED
  BY <1>1, <1>2, <1>3, <1>4, <1>5 DEF Media!Deletes

-----------------------------------------------------------------------------
\* A step of one job, and what the parts of the invariant need of it.

LEMMA OneJobMoves ==
  ASSUME JobsInv, NEW i \in Media!Ids, NEW to \in JobRecord, jobs' = [jobs EXCEPT ![i] = to],
         row' = row, JobFits(i, to)
  PROVE  /\ JobsInv' /\ jobs'[i] = to
         /\ \A h \in Media!Ids : h # i => jobs'[h] = jobs[h]
<1>1. /\ jobs' \in [Media!Ids -> JobRecord] /\ jobs'[i] = to
      /\ \A h \in Media!Ids : h # i => jobs'[h] = jobs[h]
  BY DEF JobsInv
<1> QED
  BY <1>1 DEF JobsInv, JobFits

LEMMA StaysServed ==
  ASSUME ServedInv, JobsInv, MediaTypes, NEW i \in Media!Ids, NEW to \in JobRecord, jobs'[i] = to,
         \A h \in Media!Ids : h # i => jobs'[h] = jobs[h], deleted' = deleted,
         \A t \in Types : bytes'[t] = bytes[t] \/ bytes'[t].of # None,
         \A t \in rows' : t \in rows \/ (t \in Types /\ bytes'[t].of # None),
         to.at = "stored" => i[1] \in Types /\ bytes'[i[1]].of # None
  PROVE  ServedInv'
<1> SUFFICES ASSUME ~deleted
             PROVE  /\ \A t \in rows' : bytes'[t].of # None
                    /\ \A h \in Media!Ids : jobs'[h].at = "stored" => bytes'[h[1]].of # None
  BY DEF ServedInv
<1>1. \A t \in rows' : bytes'[t].of # None
  BY DEF ServedInv, MediaTypes
<1>2. ASSUME NEW h \in Media!Ids, jobs'[h].at = "stored" PROVE bytes'[h[1]].of # None
  <2>1. CASE h = i
    BY <1>2, <2>1
  <2>2. CASE h # i
    BY <1>2, <2>2 DEF ServedInv, JobsInv, JobFits
  <2> QED
    BY <2>1, <2>2
<1> QED
  BY <1>1, <1>2

LEMMA StaysRemoved ==
  ASSUME RemovedInv, NEW i \in Media!Ids, NEW to \in JobRecord, jobs'[i] = to,
         \A h \in Media!Ids : h # i => jobs'[h] = jobs[h], UNCHANGED <<removal, stored>>, touched => touched',
         removal.pc # "idle" /\ ~touched' /\ RemovedInv =>
           UNCHANGED <<bytes, rows>> /\ (i[1] # "probe" => to.at \notin Taken)
  PROVE  RemovedInv'
BY DEF RemovedInv

\* A probe moves on, while it is under way.
LEMMA ProbeMoves ==
  ASSUME UploadInv, NEW i \in Media!Ids, i[1] = "probe", jobs[i].at \in Busy, NEW to \in JobRecord, jobs'[i] = to,
         \A h \in Media!Ids : h # i => jobs'[h] = jobs[h], flawed => flawed',
         UNCHANGED <<stored, row, deleted, confirm, calm, asked, bytes, rows>>, stored \in Versions \cup {None},
         Quiet /\ Quiet' =>
           /\ OfUpload(i, to) /\ (assets' = assets \/ assets' = [kind |-> Kind, of |-> stored])
           /\ to.at \in {"probed", "enqueue"} \/ to.at \notin Busy => assets' = [kind |-> Kind, of |-> stored]
           /\ to.at \notin Busy => \A t \in Media!Wanted(Kind) : Sent(t)
           /\ to.at = "enqueue" => \A t \in Media!Wanted(Kind) : Sent(t) \/ <<t, stored>> \in to.todo
  PROVE  UploadInv'
<1> SUFFICES ASSUME Quiet' PROVE UploadInv'
  BY DEF UploadInv
<1>1. Quiet /\ stored \in Versions /\ Kind \in Media!Kinds
  BY KindsOfVersions DEF Quiet, UploadInv, Kind
<1>2. i = Probe /\ asked
  BY <1>1, MediaConstants DEF UploadInv, OfUpload, Probe
<1>3. \A t \in Types : <<t, stored>> \in Media!Ids /\ <<t, stored>> # i
  BY <1>1, <1>2, MediaConstants DEF Probe
<1>4. Kind' = Kind /\ Probe' = Probe /\ \A t \in Types : (Sent(t)' <=> Sent(t)) /\ (Made(t)' <=> Made(t))
  BY <1>3 DEF Kind, Probe, Sent, Made
<1>5. \A h \in Media!Ids : OfUpload(h, jobs[h])'
  BY <1>1 DEF UploadInv, OfUpload
<1>6. \A t \in Types : DoneSoFar(t)'
  BY <1>1, <1>3, <1>4 DEF UploadInv, DoneSoFar
<1>7. \A t \in Media!Wanted(Kind) : t \in Types
  BY <1>1, MediaConstants
<1>8. ProbeSoFar'
  BY <1>1, <1>2, <1>4, <1>7 DEF UploadInv, ProbeSoFar, Measured
<1> QED
  BY <1>1, <1>2, <1>5, <1>6, <1>8 DEF UploadInv

\* A derivative's job moves on, while it is under way.
LEMMA DerivativeMoves ==
  ASSUME UploadInv, NEW i \in Media!Ids, i[1] \in Types, jobs[i].at \in Busy, NEW to \in JobRecord, jobs'[i] = to,
         \A h \in Media!Ids : h # i => jobs'[h] = jobs[h], flawed => flawed',
         UNCHANGED <<stored, row, deleted, confirm, calm, asked, assets>>, stored \in Versions \cup {None},
         \A t \in Types \ {i[1]} : bytes'[t] = bytes[t] /\ (t \in rows' <=> t \in rows),
         Quiet /\ Quiet' =>
           /\ OfUpload(i, to) /\ to.at \in Busy \cup {"done"}
           /\ to.at = "stored" => bytes'[i[1]] = [of |-> stored, by |-> stored]
           /\ to.at = "done" => i[1] \in rows' /\ bytes'[i[1]] = [of |-> stored, by |-> stored]
  PROVE  UploadInv'
<1> SUFFICES ASSUME Quiet' PROVE UploadInv'
  BY DEF UploadInv
<1>1. Quiet /\ stored \in Versions /\ Kind \in Media!Kinds
  BY KindsOfVersions DEF Quiet, UploadInv, Kind
<1>2. i = <<i[1], stored>> /\ asked
  BY <1>1, MediaConstants DEF UploadInv, OfUpload
<1>3. \A t \in Types : <<t, stored>> \in Media!Ids /\ (t # i[1] => <<t, stored>> # i)
  BY <1>1, <1>2, MediaConstants
<1>4. Probe \in Media!Ids /\ Probe # i /\ Kind' = Kind /\ Probe' = Probe
  BY <1>1, <1>2, MediaConstants DEF Probe, Kind
<1>5. \A h \in Media!Ids : OfUpload(h, jobs[h])'
  BY <1>1 DEF UploadInv, OfUpload
<1>6. ASSUME NEW t \in Types PROVE DoneSoFar(t)' /\ (Sent(t) => Sent(t)')
  <2>1. CASE t = i[1]
    <3>1. jobs'[<<t, stored'>>] = to
      BY <1>2, <2>1
    <3>2. to.at \in Busy \cup {"done"} /\ (to.at = "stored" => Made(t)') /\ (to.at = "done" => t \in rows' /\ Made(t)')
      BY <1>1, <2>1 DEF Made
    <3>3. "failed" \notin Busy \cup {"done"}
      BY DEF Busy, Taken
    <3> QED
      BY <3>1, <3>2, <3>3 DEF DoneSoFar, Sent
  <2>2. CASE t # i[1]
    BY <1>1, <1>3, <2>2 DEF UploadInv, DoneSoFar, Sent, Made
  <2> QED
    BY <2>1, <2>2
<1>7. \A t \in Media!Wanted(Kind) : t \in Types
  BY <1>1, MediaConstants
<1>8. ProbeSoFar'
  BY <1>1, <1>4, <1>6, <1>7 DEF UploadInv, ProbeSoFar, Measured
<1> QED
  BY <1>1, <1>2, <1>5, <1>6, <1>8 DEF UploadInv

\* A job throws: it waits for its next attempt, or is given up.
LEMMA ThrowKeeps ==
  ASSUME MediaInv, NEW i \in Media!Ids, jobs[i].at \in Busy, Media!Throw(i),
         touched' \in BOOLEAN, touched => touched',
         UNCHANGED <<stored, row, deleted, assets, bytes, rows, confirm, removal, calm, asked>>
  PROVE  MediaInv'
<1> USE DEF MediaInv
<1> DEFINE job == jobs[i]
           to == Media!Retried(job)
<1>1. job \in JobRecord /\ JobFits(i, job) /\ MaxAttempts \in Nat
  BY MediaConstants DEF JobsInv
<1>2. /\ to \in JobRecord /\ to.at \in {"waiting", "failed"} /\ to.seen = None /\ to.todo = {}
      /\ to.kind = job.kind /\ to.by = job.by /\ to.stalls = job.stalls /\ to.tries < MaxAttempts
  <2>1. CASE job.tries + 1 < MaxAttempts
    <3>1. to = [job EXCEPT !.at = "waiting", !.tries = job.tries + 1, !.seen = None, !.todo = {}]
      BY <2>1 DEF Media!Retried
    <3> HIDE DEF to
    <3>2. job.tries \in Nat /\ job.tries + 1 \in Nat
      BY <1>1 DEF JobRecord
    <3>3. /\ to.at = "waiting" /\ to.tries = job.tries + 1 /\ to.seen = None /\ to.todo = {}
          /\ to.kind = job.kind /\ to.by = job.by /\ to.stalls = job.stalls
      BY <1>1, <3>1 DEF JobRecord
    <3>4. to \in JobRecord
      BY <1>1, <3>1, <3>2 DEF JobRecord, Busy
    <3> QED
      BY <2>1, <3>3, <3>4
  <2>2. CASE ~(job.tries + 1 < MaxAttempts)
    <3>1. to = [job EXCEPT !.at = "failed", !.seen = None, !.todo = {}]
      BY <2>2 DEF Media!Retried
    <3> HIDE DEF to
    <3> QED
      BY <1>1, <2>2, <3>1 DEF JobRecord, JobFits
  <2> QED
    BY <2>1, <2>2
<1>3. jobs' = [jobs EXCEPT ![i] = to] /\ flawed' = (flawed \/ to.at = "failed")
  BY DEF Media!Throw, Media!Set
<1> HIDE DEF to
<1>4. JobFits(i, to)
  BY <1>1, <1>2 DEF JobFits, Busy, Taken
<1>5. JobsInv' /\ jobs'[i] = to /\ \A h \in Media!Ids : h # i => jobs'[h] = jobs[h]
  BY <1>2, <1>3, <1>4, OneJobMoves
<1>6. MediaTypes'
  BY <1>3 DEF MediaTypes
<1>7. ServedInv'
  BY <1>2, <1>5, StaysServed DEF MediaTypes
<1>8. RemovedInv'
  BY <1>2, <1>5, StaysRemoved DEF Taken
<1>9. Quiet /\ Quiet' => OfUpload(i, to) /\ to.at = "waiting"
  BY <1>2, <1>3 DEF UploadInv, OfUpload, Quiet
<1>10. stored \in Versions \cup {None} /\ (i[1] = "probe" \/ i[1] \in Types)
  BY MediaConstants DEF MediaTypes
<1>11. UploadInv'
  <2>1. CASE i[1] = "probe"
    BY <1>2, <1>3, <1>5, <1>9, <1>10, <2>1, ProbeMoves DEF Busy
  <2>2. CASE i[1] \in Types
    BY <1>2, <1>3, <1>5, <1>9, <1>10, <2>2, DerivativeMoves DEF Busy
  <2> QED
    BY <1>10, <2>1, <2>2
<1> QED
  BY <1>5, <1>6, <1>7, <1>8, <1>11

-----------------------------------------------------------------------------

LEMMA FailsKeeps ==
  ASSUME MediaInv, NEW i \in Media!Ids, Media!Fails(i)
  PROVE  MediaInv'
<1>1. jobs[i].at \in Busy
  BY JobSets DEF MediaInv, Media!Fails
<1>2. /\ Media!Throw(i) /\ touched' = touched /\ touched \in BOOLEAN
      /\ UNCHANGED <<stored, row, deleted, assets, bytes, rows, confirm, removal, calm, asked>>
  BY DEF Media!Fails, Media!objectVars, Media!mediaVars, MediaInv, MediaTypes
<1> QED
  BY <1>1, <1>2, ThrowKeeps

\* The process ends: what was under way waits again, or is given up.
LEMMA WorkerDiesKeeps ==
  ASSUME MediaInv, Media!WorkerDies
  PROVE  MediaInv'
<1> USE DEF MediaInv
<1> DEFINE Lost(job) == [job EXCEPT !.at = IF job.stalls < MaxStalls THEN "waiting" ELSE "failed",
                                    !.stalls = @ + 1, !.seen = None, !.todo = {}]
<1>1. /\ jobs' = [i \in Media!Ids |-> IF i \in Media!Active THEN Lost(jobs[i]) ELSE jobs[i]]
      /\ flawed' = (flawed \/ \E i \in Media!Active : Lost(jobs[i]).at = "failed")
      /\ UNCHANGED <<stored, row, deleted, assets, bytes, rows, confirm, removal, calm, asked, touched>>
  BY DEF Media!WorkerDies, Media!objectVars, Media!mediaVars
<1>2. ASSUME NEW i \in Media!Ids, jobs[i].at \in Taken, NEW to, to = Lost(jobs[i])
      PROVE  /\ to \in JobRecord /\ to.at = (IF jobs[i].stalls < MaxStalls THEN "waiting" ELSE "failed")
             /\ to.seen = None /\ to.todo = {} /\ to.stalls = jobs[i].stalls + 1
             /\ to.kind = jobs[i].kind /\ to.by = jobs[i].by /\ to.tries = jobs[i].tries
  <2>1. jobs[i] \in JobRecord /\ jobs[i].stalls + 1 \in Nat
    BY DEF JobsInv, JobRecord
  <2>2. CASE jobs[i].stalls < MaxStalls
    <3>1. to = [jobs[i] EXCEPT !.at = "waiting", !.stalls = jobs[i].stalls + 1, !.seen = None, !.todo = {}]
      BY <1>2, <2>2
    <3>2. /\ to.at = "waiting" /\ to.seen = None /\ to.todo = {} /\ to.stalls = jobs[i].stalls + 1
          /\ to.kind = jobs[i].kind /\ to.by = jobs[i].by /\ to.tries = jobs[i].tries
      BY ONLY <2>1, <3>1 DEF JobRecord
    <3>3. to \in JobRecord
      BY ONLY <2>1, <3>1 DEF JobRecord, Busy
    <3> QED
      BY <2>2, <3>2, <3>3
  <2>3. CASE ~(jobs[i].stalls < MaxStalls)
    <3>1. to = [jobs[i] EXCEPT !.at = "failed", !.stalls = jobs[i].stalls + 1, !.seen = None, !.todo = {}]
      BY <1>2, <2>3
    <3>2. /\ to.at = "failed" /\ to.seen = None /\ to.todo = {} /\ to.stalls = jobs[i].stalls + 1
          /\ to.kind = jobs[i].kind /\ to.by = jobs[i].by /\ to.tries = jobs[i].tries
      BY ONLY <2>1, <3>1 DEF JobRecord
    <3>3. to \in JobRecord
      BY ONLY <2>1, <3>1 DEF JobRecord
    <3> QED
      BY <2>3, <3>2, <3>3
  <2> QED
    BY <2>2, <2>3
<1>3. \A i \in Media!Ids : jobs'[i] = IF jobs[i].at \in Taken THEN Lost(jobs[i]) ELSE jobs[i]
  BY <1>1, JobSets
<1>4. flawed => flawed'
  BY <1>1
<1>5. \A i \in Media!Ids : jobs[i].at \in Taken /\ ~flawed' => Lost(jobs[i]).at # "failed"
  BY <1>1, JobSets
<1>6. flawed' \in BOOLEAN /\ UNCHANGED <<stored, row, deleted, assets, bytes, rows, confirm, removal, calm, asked, touched>>
  BY <1>1
<1>7. DOMAIN jobs' = Media!Ids /\ jobs' = [i \in Media!Ids |-> jobs'[i]]
  BY <1>1
<1> HIDE DEF Lost
\* Record by record.
<1>8. ASSUME NEW i \in Media!Ids
      PROVE  /\ jobs'[i] \in JobRecord /\ JobFits(i, jobs[i])'
             /\ jobs'[i].at \notin Taken /\ (jobs'[i].at = "none" <=> jobs[i].at = "none")
             /\ jobs'[i].at = "done" <=> jobs[i].at = "done"
             /\ OfUpload(i, jobs[i]) /\ jobs'[i].at \in Busy => OfUpload(i, jobs[i])'
             /\ ~flawed' /\ jobs[i].at \in Busy => jobs'[i].at = "waiting"
             /\ jobs'[i].at = "failed" => jobs[i].at = "failed" \/ flawed'
             /\ jobs'[i].at \in Busy => jobs[i].at \in Busy
  <2>1. jobs[i] \in JobRecord /\ JobFits(i, jobs[i]) /\ MaxStalls \in Nat
    BY MediaConstants DEF JobsInv
  <2>2. CASE jobs[i].at \in Taken
    <3> DEFINE to == Lost(jobs[i])
    <3>1. /\ to \in JobRecord /\ to.at = (IF jobs[i].stalls < MaxStalls THEN "waiting" ELSE "failed")
          /\ to.seen = None /\ to.todo = {} /\ to.stalls = jobs[i].stalls + 1
          /\ to.kind = jobs[i].kind /\ to.by = jobs[i].by /\ to.tries = jobs[i].tries
      BY <1>2, <2>2
    <3>2. jobs'[i] = to /\ (~flawed' => to.at # "failed")
      BY <1>3, <1>5, <2>2
    <3> HIDE DEF to
    <3> QED
      BY <1>6, <2>1, <2>2, <3>1, <3>2 DEF JobFits, JobRecord, OfUpload, Busy, Taken
  <2>3. CASE jobs[i].at \notin Taken
    <3>1. jobs'[i] = jobs[i]
      BY <1>3, <2>3
    <3> QED
      BY <1>6, <2>1, <2>3, <3>1 DEF JobFits, JobRecord, OfUpload, Busy
  <2> QED
    BY <2>2, <2>3
<1>9. MediaTypes'
  BY <1>6 DEF MediaTypes
<1>10. JobsInv'
  BY <1>7, <1>8 DEF JobsInv
<1>11. ServedInv' /\ RemovedInv'
  BY <1>6, <1>8 DEF ServedInv, RemovedInv, Taken
<1>12. ASSUME Quiet' PROVE UploadInv'
  <2>1. Quiet /\ ~flawed' /\ stored \in Versions /\ Kind \in Media!Kinds /\ Kind' = Kind /\ Probe' = Probe
    BY <1>4, <1>6, <1>12, KindsOfVersions DEF Quiet, UploadInv, Kind, Probe, MediaTypes
  <2>2. \A what \in {"probe"} \cup Types : <<what, stored>> \in Media!Ids
    BY <2>1, MediaConstants
  <2>3. \A i \in Media!Ids : OfUpload(i, jobs[i])'
    <3> SUFFICES ASSUME NEW i \in Media!Ids, jobs'[i].at \in Busy PROVE OfUpload(i, jobs[i])'
      BY DEF OfUpload
    <3> QED
      BY <1>8, <2>1 DEF UploadInv
  <2>4. \A t \in Types : DoneSoFar(t)' /\ (Sent(t) => Sent(t)')
    <3> SUFFICES ASSUME NEW t \in Types PROVE DoneSoFar(t)' /\ (Sent(t) => Sent(t)')
      OBVIOUS
    <3>1. /\ <<t, stored>> \in Media!Ids /\ DoneSoFar(t) /\ jobs'[<<t, stored>>].at # "stored"
          /\ jobs'[<<t, stored>>].at # "failed"
      BY <1>8, <2>1, <2>2 DEF UploadInv, Taken, DoneSoFar
    <3> QED
      BY <1>6, <1>8, <2>1, <3>1 DEF DoneSoFar, Sent, Made, Busy
  <2>5. \A t \in Media!Wanted(Kind) : t \in Types
    BY <2>1, MediaConstants
  <2>6. Probe \in Media!Ids /\ jobs'[Probe].at \notin {"probed", "enqueue"}
    BY <1>8, <2>2 DEF Probe, Taken
  <2>7. jobs'[Probe].at \notin Busy => jobs[Probe].at \notin Busy
    BY <1>8, <2>1, <2>6 DEF Busy
  <2>8. ProbeSoFar'
    BY <1>6, <2>1, <2>4, <2>5, <2>6, <2>7 DEF UploadInv, ProbeSoFar, Measured
  <2> QED
    BY <1>6, <1>8, <2>1, <2>2, <2>3, <2>4, <2>8 DEF UploadInv
<1> QED
  BY <1>9, <1>10, <1>11, <1>12 DEF UploadInv

LEMMA ForgetKeeps ==
  ASSUME MediaInv, NEW i \in Media!Ids, Media!Forget(i)
  PROVE  MediaInv'
<1> USE DEF MediaInv
<1>1. /\ jobs[i].at \in {"done", "failed"} /\ jobs' = [jobs EXCEPT ![i] = Media!NoJob]
      /\ UNCHANGED <<stored, row, deleted, assets, bytes, rows, confirm, removal, calm, asked, flawed, touched>>
  BY DEF Media!Forget, Media!Set, Media!objectVars, Media!mediaVars, Media!history
<1>2. /\ Media!NoJob \in JobRecord /\ Media!NoJob.at = "none" /\ JobFits(i, Media!NoJob)
  BY MediaConstants DEF Media!NoJob, JobRecord, JobFits, Busy, Taken
<1>3. /\ JobsInv' /\ jobs'[i].at = "none"
      /\ \A h \in Media!Ids : h # i => jobs'[h] = jobs[h]
  BY <1>1, <1>2, OneJobMoves
<1>4. MediaTypes'
  BY <1>1 DEF MediaTypes
<1>5. ServedInv' /\ RemovedInv'
  BY <1>1, <1>3 DEF ServedInv, RemovedInv, Taken
<1>6. ASSUME Quiet' PROVE UploadInv'
  <2>1. Quiet /\ stored \in Versions /\ Kind \in Media!Kinds /\ Kind' = Kind /\ Probe' = Probe
    BY <1>1, <1>6, KindsOfVersions DEF Quiet, UploadInv, Kind, Probe, MediaTypes
  <2>2. \A what \in {"probe"} \cup Types : <<what, stored>> \in Media!Ids
    BY <2>1, MediaConstants
  <2>3. \A h \in Media!Ids : OfUpload(h, jobs[h])'
    BY <1>1, <1>3, <2>1 DEF UploadInv, OfUpload, Busy, Taken
  <2>4. \A t \in Types : DoneSoFar(t)' /\ (Sent(t) => Sent(t)')
    <3> SUFFICES ASSUME NEW t \in Types PROVE DoneSoFar(t)' /\ (Sent(t) => Sent(t)')
      OBVIOUS
    <3>1. <<t, stored>> \in Media!Ids /\ DoneSoFar(t)
      BY <2>1, <2>2 DEF UploadInv
    <3>2. CASE <<t, stored>> = i
      BY <1>1, <1>3, <3>1, <3>2 DEF DoneSoFar, Sent, Made, Busy, Taken
    <3>3. CASE <<t, stored>> # i
      BY <1>1, <1>3, <3>1, <3>3 DEF DoneSoFar, Sent, Made
    <3> QED
      BY <3>2, <3>3
  <2>5. \A t \in Media!Wanted(Kind) : t \in Types
    BY <2>1, MediaConstants
  <2>6. Probe \in Media!Ids
    BY <2>2 DEF Probe
  <2>7. ProbeSoFar'
    <3>1. CASE Probe = i
      BY <1>1, <1>3, <2>1, <2>4, <2>5, <3>1 DEF UploadInv, ProbeSoFar, Measured, Busy, Taken
    <3>2. CASE Probe # i
      BY <1>1, <1>3, <2>1, <2>4, <2>5, <2>6, <3>2 DEF UploadInv, ProbeSoFar, Measured
    <3> QED
      BY <3>1, <3>2
  <2> QED
    BY <1>1, <1>3, <2>1, <2>2, <2>3, <2>4, <2>7 DEF UploadInv
<1> QED
  BY <1>3, <1>4, <1>5, <1>6 DEF UploadInv

LEMMA FetchKeeps ==
  ASSUME MediaInv, NEW i \in Media!Ids, Media!Fetch(i)
  PROVE  MediaInv'
<1> USE DEF MediaInv
<1>1. /\ jobs[i].at = "waiting" /\ jobs[i].at \in Busy /\ jobs[i] \in JobRecord /\ JobFits(i, jobs[i])
      /\ touched' = (touched \/ (i[1] # "probe" /\ removal.pc # "idle" /\ stored # None))
      /\ UNCHANGED <<stored, row, deleted, assets, bytes, rows, confirm, removal, calm, asked>>
  BY DEF Media!Fetch, Media!objectVars, Media!mediaVars, JobsInv, Busy
<1>2. touched' \in BOOLEAN /\ (touched => touched')
  BY <1>1
<1>3. CASE stored = None
  BY <1>1, <1>2, <1>3, ThrowKeeps DEF Media!Fetch
<1>4. CASE stored # None
  <2> DEFINE to == [jobs[i] EXCEPT !.at = "fetched", !.seen = stored]
  <2>1. jobs' = [jobs EXCEPT ![i] = to] /\ flawed' = flawed /\ stored \in Versions
    BY <1>4 DEF Media!Fetch, Media!Set, MediaTypes
  <2>2. /\ to \in JobRecord /\ to.at = "fetched" /\ to.seen = stored /\ to.todo = jobs[i].todo
        /\ to.kind = jobs[i].kind /\ to.by = jobs[i].by /\ to.stalls = jobs[i].stalls /\ to.tries = jobs[i].tries
    BY <1>1, <2>1 DEF JobRecord, Busy, Taken
  <2> HIDE DEF to
  <2>3. JobFits(i, to)
    BY <1>1, <1>4, <2>2 DEF JobFits, Busy, Taken
  <2>4. JobsInv' /\ jobs'[i] = to /\ \A h \in Media!Ids : h # i => jobs'[h] = jobs[h]
    BY <1>1, <2>1, <2>2, <2>3, OneJobMoves
  <2>5. MediaTypes'
    BY <1>1, <1>2, <2>1 DEF MediaTypes
  <2>6. ServedInv'
    BY <1>1, <2>2, <2>4, StaysServed DEF MediaTypes
  <2>7. RemovedInv'
    BY <1>1, <1>2, <1>4, <2>2, <2>4, StaysRemoved
  <2>8. Quiet => OfUpload(i, to)
    BY <1>1, <2>2 DEF UploadInv, OfUpload
  <2>9. i[1] = "probe" \/ i[1] \in Types
    BY MediaConstants
  <2>10. UploadInv'
    <3>1. CASE i[1] = "probe"
      BY <1>1, <2>1, <2>2, <2>4, <2>8, <3>1, ProbeMoves DEF Busy, Taken
    <3>2. CASE i[1] \in Types
      BY <1>1, <2>1, <2>2, <2>4, <2>8, <3>2, DerivativeMoves DEF Busy, Taken
    <3> QED
      BY <2>9, <3>1, <3>2
  <2> QED
    BY <2>4, <2>5, <2>6, <2>7, <2>10
<1> QED
  BY <1>3, <1>4

LEMMA ProbedKinds ==
  ASSUME NEW k \in Media!Kinds \cup {None}
  PROVE  Media!Probed(k) \in Media!Kinds \cup {None}
BY DEF Media!Probed, Media!Kinds

\* The measures are written: those of the content that was fetched.
LEMMA ProbeWritesKeeps ==
  ASSUME MediaInv, NEW i \in Media!Ids, Media!ProbeWrites(i)
  PROVE  MediaInv'
<1> USE DEF MediaInv
<1>1. /\ i[1] = "probe" /\ jobs[i].at = "fetched" /\ jobs[i].at \in Busy
      /\ jobs[i] \in JobRecord /\ JobFits(i, jobs[i])
      /\ UNCHANGED <<stored, row, deleted, bytes, rows, confirm, removal, calm, asked, touched>>
  BY DEF Media!ProbeWrites, Media!objectVars, JobsInv, Busy, Taken
<1>2. CASE assets' = assets /\ Media!Throw(i)
  BY <1>1, <1>2, ThrowKeeps DEF MediaTypes
<1>3. CASE /\ assets' = [kind |-> Media!Probed(jobs[i].kind), of |-> jobs[i].seen]
           /\ Media!Set(i, [jobs[i] EXCEPT !.at = "probed"]) /\ flawed' = flawed
  <2> DEFINE to == [jobs[i] EXCEPT !.at = "probed"]
  <2>1. jobs' = [jobs EXCEPT ![i] = to]
    BY <1>3 DEF Media!Set
  <2>2. /\ to \in JobRecord /\ to.at = "probed" /\ to.seen = jobs[i].seen /\ to.todo = jobs[i].todo
        /\ to.kind = jobs[i].kind /\ to.by = jobs[i].by /\ to.stalls = jobs[i].stalls /\ to.tries = jobs[i].tries
    BY <1>1 DEF JobRecord, Busy, Taken
  <2> HIDE DEF to
  <2>3. JobFits(i, to)
    BY <1>1, <2>2 DEF JobFits, Busy, Taken
  <2>4. JobsInv' /\ jobs'[i] = to /\ \A h \in Media!Ids : h # i => jobs'[h] = jobs[h]
    BY <1>1, <2>1, <2>2, <2>3, OneJobMoves
  <2>5. assets' \in [kind : Media!Kinds \cup {None}, of : Versions \cup {None}]
    <3>1. jobs[i].kind \in Media!Kinds \cup {None} /\ jobs[i].seen \in Versions \cup {None}
      BY <1>1 DEF JobRecord
    <3> QED
      BY <1>3, <3>1, ProbedKinds
  <2>6. MediaTypes'
    BY <1>1, <1>3, <2>5 DEF MediaTypes
  <2>7. ServedInv'
    BY <1>1, <2>2, <2>4, StaysServed DEF MediaTypes
  <2>8. RemovedInv'
    BY <1>1, <2>2, <2>4, StaysRemoved
  <2>9. Quiet => OfUpload(i, to) /\ assets' = [kind |-> Kind, of |-> stored]
    <3> SUFFICES ASSUME Quiet PROVE OfUpload(i, to) /\ assets' = [kind |-> Kind, of |-> stored]
      OBVIOUS
    <3>1. OfUpload(i, jobs[i]) /\ jobs[i].kind = Media!Classify(stored) /\ jobs[i].seen = stored
      BY <1>1 DEF UploadInv, OfUpload, JobFits, Taken
    <3>2. OfUpload(i, to)
      BY <1>1, <2>2, <3>1 DEF OfUpload
    <3> QED
      BY <1>3, <3>1, <3>2 DEF Kind
  <2>10. stored \in Versions \cup {None} /\ "probed" \in Busy
    BY DEF MediaTypes, Busy, Taken
  <2>11. UploadInv'
    BY <1>1, <1>3, <2>2, <2>4, <2>9, <2>10, ProbeMoves
  <2> QED
    BY <2>4, <2>6, <2>7, <2>8, <2>11
<1> QED
  BY <1>2, <1>3 DEF Media!ProbeWrites

\* The row's etag names the jobs that are to be queued.
LEMMA ProbeReadsKeeps ==
  ASSUME MediaInv, NEW i \in Media!Ids, Media!ProbeReads(i)
  PROVE  MediaInv'
<1> USE DEF MediaInv
<1> DEFINE wanted == {<<t, row>> : t \in Media!Wanted(Media!Probed(jobs[i].kind))}
           to == [jobs[i] EXCEPT !.at = "enqueue", !.todo = wanted]
<1>1. /\ i[1] = "probe" /\ jobs[i].at = "probed" /\ jobs[i].at \in Busy
      /\ jobs[i] \in JobRecord /\ JobFits(i, jobs[i]) /\ jobs' = [jobs EXCEPT ![i] = to]
      /\ UNCHANGED <<stored, row, deleted, assets, bytes, rows, confirm, removal, calm, asked, flawed, touched>>
  BY DEF Media!ProbeReads, Media!Set, Media!JobVersion, Media!objectVars, Media!mediaVars, Media!history,
     JobsInv, Busy, Taken
<1>2. wanted \subseteq Types \X Versions
  <2>1. row \in Versions /\ jobs[i].kind \in Media!Kinds \cup {None}
    BY <1>1 DEF JobFits, JobRecord, MediaTypes
  <2>2. Media!Wanted(Media!Probed(jobs[i].kind)) \subseteq Types
    BY <2>1, ProbedKinds, MediaConstants
  <2> QED
    BY <2>1, <2>2
<1>3. Quiet => wanted = {<<t, stored>> : t \in Media!Wanted(Kind)}
  BY <1>1 DEF UploadInv, OfUpload, Kind
<1> HIDE DEF wanted
<1>4. /\ to \in JobRecord /\ to.at = "enqueue" /\ to.seen = jobs[i].seen /\ to.todo = wanted
      /\ to.kind = jobs[i].kind /\ to.by = jobs[i].by /\ to.stalls = jobs[i].stalls /\ to.tries = jobs[i].tries
  BY <1>1, <1>2 DEF JobRecord, Busy, Taken
<1> HIDE DEF to
<1>5. JobFits(i, to)
  BY <1>1, <1>4 DEF JobFits, Busy, Taken
<1>6. JobsInv' /\ jobs'[i] = to /\ \A h \in Media!Ids : h # i => jobs'[h] = jobs[h]
  BY <1>1, <1>4, <1>5, OneJobMoves
<1>7. MediaTypes'
  BY <1>1 DEF MediaTypes
<1>8. ServedInv'
  BY <1>1, <1>4, <1>6, StaysServed DEF MediaTypes
<1>9. RemovedInv'
  BY <1>1, <1>4, <1>6, StaysRemoved
<1>10. Quiet => /\ OfUpload(i, to) /\ assets = [kind |-> Kind, of |-> stored]
                /\ \A t \in Media!Wanted(Kind) : <<t, stored>> \in to.todo
  <2> SUFFICES ASSUME Quiet
               PROVE  /\ OfUpload(i, to) /\ assets = [kind |-> Kind, of |-> stored]
                      /\ \A t \in Media!Wanted(Kind) : <<t, stored>> \in to.todo
    OBVIOUS
  <2>1. OfUpload(i, jobs[i]) /\ i[2] = stored
    BY <1>1 DEF UploadInv, OfUpload
  <2>2. i = Probe
    BY <1>1, <2>1, MediaConstants DEF Probe
  <2>3. \A k \in to.todo : k[2] = stored
    BY <1>3, <1>4
  <2>4. OfUpload(i, to)
    BY <1>1, <1>4, <2>1, <2>3 DEF OfUpload
  <2>5. assets = [kind |-> Kind, of |-> stored]
    BY <1>1, <2>2 DEF UploadInv, ProbeSoFar, Measured
  <2> QED
    BY <1>3, <1>4, <2>4, <2>5
<1>11. stored \in Versions \cup {None} /\ "enqueue" \in Busy
  BY DEF MediaTypes, Busy, Taken
<1>12. UploadInv'
  BY <1>1, <1>4, <1>6, <1>10, <1>11, ProbeMoves
<1> QED
  BY <1>6, <1>7, <1>8, <1>9, <1>12

\* The probe is over once all its jobs are queued.
LEMMA ProbeEndsKeeps ==
  ASSUME MediaInv, NEW i \in Media!Ids, Media!ProbeEnds(i)
  PROVE  MediaInv'
<1> USE DEF MediaInv
<1> DEFINE to == [jobs[i] EXCEPT !.at = "done", !.seen = None]
<1>1. /\ jobs[i].at = "enqueue" /\ jobs[i].at \in Busy /\ jobs[i].todo = {}
      /\ jobs[i] \in JobRecord /\ JobFits(i, jobs[i]) /\ jobs' = [jobs EXCEPT ![i] = to]
      /\ UNCHANGED <<stored, row, deleted, assets, bytes, rows, confirm, removal, calm, asked, flawed, touched>>
  BY DEF Media!ProbeEnds, Media!Set, Media!objectVars, Media!mediaVars, Media!history,
     JobsInv, Busy, Taken
<1>2. /\ to \in JobRecord /\ to.at = "done" /\ to.seen = None /\ to.todo = {}
      /\ to.kind = jobs[i].kind /\ to.by = jobs[i].by /\ to.stalls = jobs[i].stalls /\ to.tries = jobs[i].tries
  BY <1>1 DEF JobRecord
<1> HIDE DEF to
<1>3. JobFits(i, to) /\ i[1] = "probe"
  BY <1>1, <1>2 DEF JobFits, Busy, Taken
<1>4. JobsInv' /\ jobs'[i] = to /\ \A h \in Media!Ids : h # i => jobs'[h] = jobs[h]
  BY <1>1, <1>2, <1>3, OneJobMoves
<1>5. MediaTypes'
  BY <1>1 DEF MediaTypes
<1>6. ServedInv'
  BY <1>1, <1>2, <1>4, StaysServed DEF MediaTypes
<1>7. RemovedInv'
  BY <1>1, <1>2, <1>3, <1>4, StaysRemoved
<1>8. Quiet => /\ assets = [kind |-> Kind, of |-> stored]
               /\ \A t \in Media!Wanted(Kind) : Sent(t)
  <2> SUFFICES ASSUME Quiet
               PROVE  /\ assets = [kind |-> Kind, of |-> stored]
                      /\ \A t \in Media!Wanted(Kind) : Sent(t)
    OBVIOUS
  <2>1. i = Probe
    BY <1>1, <1>3, MediaConstants DEF UploadInv, OfUpload, Probe
  <2> QED
    BY <1>1, <2>1 DEF UploadInv, ProbeSoFar, Measured
<1>9. OfUpload(i, to) /\ stored \in Versions \cup {None} /\ "done" \notin Busy
  BY <1>2 DEF OfUpload, MediaTypes, Busy, Taken
<1>10. UploadInv'
  BY <1>1, <1>2, <1>3, <1>4, <1>8, <1>9, ProbeMoves
<1> QED
  BY <1>4, <1>5, <1>6, <1>7, <1>10

\* The bytes of a derivative are put in place.
LEMMA ConvertKeeps ==
  ASSUME MediaInv, NEW i \in Media!Ids, Media!Convert(i)
  PROVE  MediaInv'
<1> USE DEF MediaInv
<1>1. /\ jobs[i].at = "fetched" /\ jobs[i].at \in Busy /\ jobs[i] \in JobRecord /\ JobFits(i, jobs[i])
      /\ i[1] \in {"thumbnail", "poster", "sprite"}
      /\ UNCHANGED <<stored, row, deleted, assets, rows, confirm, removal, calm, asked, touched>>
  BY DEF Media!Convert, Media!Thumbnail, Media!Poster, Media!Sprite, Media!objectVars, JobsInv, Busy, Taken
<1>2. i[1] \in Types /\ i[1] # "probe"
  BY <1>1, MediaConstants
<1>3. CASE Media!Throw(i) /\ bytes' = bytes
  BY <1>1, <1>3, ThrowKeeps DEF MediaTypes
<1>4. ASSUME NEW b \in {jobs[i].seen, jobs[i].by}, Media!Stores(i, [of |-> jobs[i].seen, by |-> b])
      PROVE  MediaInv'
  <2> DEFINE to == [jobs[i] EXCEPT !.at = "stored"]
             ended == [of |-> jobs[i].seen, by |-> b]
  <2>1. jobs' = [jobs EXCEPT ![i] = to] /\ flawed' = flawed /\ bytes' = [bytes EXCEPT ![i[1]] = ended]
    BY <1>4 DEF Media!Stores, Media!Set
  <2>2. /\ to \in JobRecord /\ to.at = "stored" /\ to.seen = jobs[i].seen /\ to.todo = jobs[i].todo
        /\ to.kind = jobs[i].kind /\ to.by = jobs[i].by /\ to.stalls = jobs[i].stalls /\ to.tries = jobs[i].tries
    BY <1>1 DEF JobRecord, Busy, Taken
  <2>3. ended \in [of : Versions \cup {None}, by : Versions \cup {None}] /\ ended.of # None
    BY <1>1, <1>4 DEF JobRecord, JobFits, Taken
  <2>4. Quiet => ended = [of |-> stored, by |-> stored] /\ OfUpload(i, jobs[i])
    BY <1>1, <1>2, <1>4 DEF UploadInv, OfUpload, JobFits, Taken
  <2> HIDE DEF to, ended
  <2>5. /\ bytes' \in [Types -> [of : Versions \cup {None}, by : Versions \cup {None}]]
        /\ bytes'[i[1]] = ended /\ \A t \in Types \ {i[1]} : bytes'[t] = bytes[t]
    BY <1>2, <2>1, <2>3 DEF MediaTypes
  <2>6. JobFits(i, to)
    BY <1>1, <1>2, <2>2 DEF JobFits, Busy, Taken
  <2>7. JobsInv' /\ jobs'[i] = to /\ \A h \in Media!Ids : h # i => jobs'[h] = jobs[h]
    BY <1>1, <2>1, <2>2, <2>6, OneJobMoves
  <2>8. MediaTypes'
    BY <1>1, <2>1, <2>5 DEF MediaTypes
  <2>9. ServedInv'
    <3>1. \A t \in Types : bytes'[t] = bytes[t] \/ bytes'[t].of # None
      BY <2>3, <2>5
    <3>2. bytes'[i[1]].of # None /\ rows' \subseteq rows
      BY <1>1, <2>3, <2>5
    <3> QED
      BY <1>1, <1>2, <2>2, <2>7, <3>1, <3>2, StaysServed
  <2>10. RemovedInv'
    <3>1. removal.pc # "idle" /\ ~touched' /\ RemovedInv => FALSE
      BY <1>1, <1>2 DEF RemovedInv, Taken
    <3> QED
      BY <1>1, <2>2, <2>7, <3>1, StaysRemoved
  <2>11. Quiet => OfUpload(i, to)
    BY <1>1, <2>2, <2>4 DEF OfUpload
  <2>12. stored \in Versions \cup {None} /\ "stored" \in Busy
    BY DEF MediaTypes, Busy, Taken
  <2>13. UploadInv'
    BY <1>1, <1>2, <2>1, <2>2, <2>4, <2>5, <2>7, <2>11, <2>12, DerivativeMoves
  <2> QED
    BY <2>7, <2>8, <2>9, <2>10, <2>13
<1> QED
  BY <1>3, <1>4 DEF Media!Convert, Media!Thumbnail, Media!Poster, Media!Sprite

\* The row of a derivative is written: its bytes are there.
LEMMA WriteRowKeeps ==
  ASSUME MediaInv, NEW i \in Media!Ids, Media!WriteRow(i)
  PROVE  MediaInv'
<1> USE DEF MediaInv
<1> DEFINE to == [jobs[i] EXCEPT !.at = "done", !.seen = None]
<1>1. /\ jobs[i].at = "stored" /\ jobs[i].at \in Busy /\ jobs[i] \in JobRecord /\ JobFits(i, jobs[i])
      /\ jobs' = [jobs EXCEPT ![i] = to] /\ rows' = rows \cup {i[1]}
      /\ UNCHANGED <<stored, row, deleted, assets, bytes, confirm, removal, calm, asked, flawed, touched>>
  BY DEF Media!WriteRow, Media!Set, Media!objectVars, Media!history, JobsInv, Busy, Taken
<1>2. /\ to \in JobRecord /\ to.at = "done" /\ to.seen = None
      /\ to.kind = jobs[i].kind /\ to.by = jobs[i].by /\ to.stalls = jobs[i].stalls /\ to.tries = jobs[i].tries
  BY <1>1 DEF JobRecord
<1> HIDE DEF to
<1>3. JobFits(i, to) /\ i[1] \in Types /\ i[1] # "probe"
  BY <1>1, <1>2, MediaConstants DEF JobFits, Busy, Taken
<1>4. JobsInv' /\ jobs'[i] = to /\ \A h \in Media!Ids : h # i => jobs'[h] = jobs[h]
  BY <1>1, <1>2, <1>3, OneJobMoves
<1>5. MediaTypes'
  BY <1>1, <1>3 DEF MediaTypes
<1>6. ServedInv'
  <2> SUFFICES ASSUME ~deleted PROVE ServedInv'
    BY <1>1 DEF ServedInv
  <2>1. bytes[i[1]].of # None
    BY <1>1 DEF ServedInv
  <2> QED
    BY <1>1, <1>2, <1>3, <1>4, <2>1, StaysServed
<1>7. RemovedInv'
  <2>1. removal.pc # "idle" /\ ~touched' /\ RemovedInv => FALSE
    BY <1>1, <1>3 DEF RemovedInv, Taken
  <2> QED
    BY <1>1, <1>2, <1>4, <2>1, StaysRemoved
<1>8. Quiet => bytes[i[1]] = [of |-> stored, by |-> stored]
  <2> SUFFICES ASSUME Quiet PROVE bytes[i[1]] = [of |-> stored, by |-> stored]
    OBVIOUS
  <2>1. i = <<i[1], stored>>
    BY <1>1, MediaConstants DEF UploadInv, OfUpload
  <2> QED
    BY <1>1, <1>3, <2>1 DEF UploadInv, DoneSoFar, Made
<1>9. OfUpload(i, to) /\ stored \in Versions \cup {None}
  BY <1>2 DEF OfUpload, MediaTypes, Busy, Taken
<1>10. UploadInv'
  BY <1>1, <1>2, <1>3, <1>4, <1>8, <1>9, DerivativeMoves
<1> QED
  BY <1>4, <1>5, <1>6, <1>7, <1>10

\* One of the probe's jobs is queued, unless the queue still knows its id.
LEMMA ProbeEnqueuesKeeps ==
  ASSUME MediaInv, NEW i \in Media!Ids, Media!ProbeEnqueues(i)
  PROVE  MediaInv'
<1> USE DEF MediaInv
<1>1. /\ jobs[i].at = "enqueue" /\ jobs[i].at \in Busy /\ jobs[i] \in JobRecord /\ JobFits(i, jobs[i])
      /\ i[1] = "probe" /\ row # None
      /\ UNCHANGED <<stored, row, deleted, assets, bytes, rows, confirm, removal, calm, asked, flawed, touched>>
  BY DEF Media!ProbeEnqueues, Media!objectVars, Media!mediaVars, Media!history, JobsInv, JobFits, Busy, Taken
<1>2. PICK k \in jobs[i].todo :
        jobs' = Media!WithJob([jobs EXCEPT ![i].todo = @ \ {k}], k,
                              [kind |-> Media!Probed(jobs[i].kind), by |-> jobs[i].seen])
  BY DEF Media!ProbeEnqueues
<1> DEFINE to == [jobs[i] EXCEPT !.todo = @ \ {k}]
           ended == [Media!NoJob EXCEPT !.at = "waiting", !.kind = Media!Probed(jobs[i].kind), !.by = jobs[i].seen]
<1>3. k \in Media!Ids /\ k[1] \in Types /\ k = <<k[1], k[2]>> /\ k # i
  BY <1>1, MediaConstants DEF JobRecord
<1>4. /\ to \in JobRecord /\ to.at = "enqueue" /\ to.seen = jobs[i].seen /\ to.todo = jobs[i].todo \ {k}
      /\ to.kind = jobs[i].kind /\ to.by = jobs[i].by /\ to.stalls = jobs[i].stalls /\ to.tries = jobs[i].tries
  BY <1>1 DEF JobRecord
<1>5. /\ ended \in JobRecord /\ ended.at = "waiting" /\ ended.seen = None /\ ended.todo = {}
      /\ ended.by = jobs[i].seen /\ ended.tries = 0 /\ ended.stalls = 0
  <2>1. jobs[i].kind \in Media!Kinds \cup {None} /\ jobs[i].seen \in Versions \cup {None}
    BY <1>1 DEF JobRecord
  <2>2. Media!Probed(jobs[i].kind) \in Media!Kinds \cup {None}
    BY <2>1, ProbedKinds
  <2> QED
    BY <2>1, <2>2 DEF Media!NoJob, JobRecord, Busy
<1>6. /\ jobs[k].at # "none" => jobs' = [jobs EXCEPT ![i] = to]
      /\ jobs[k].at = "none" => jobs' = [[jobs EXCEPT ![i] = to] EXCEPT ![k] = ended]
  <2>1. [jobs EXCEPT ![i].todo = @ \ {k}] = [jobs EXCEPT ![i] = to]
    BY DEF JobsInv
  <2>2. [jobs EXCEPT ![i] = to][k] = jobs[k]
    BY <1>3 DEF JobsInv
  <2> HIDE DEF to
  <2> QED
    BY <1>2, <2>1, <2>2 DEF Media!WithJob
<1> HIDE DEF to, ended
<1>7. /\ jobs' \in [Media!Ids -> JobRecord] /\ jobs'[i] = to
      /\ \A h \in Media!Ids : h \notin {i, k} => jobs'[h] = jobs[h]
      /\ jobs'[k] = IF jobs[k].at = "none" THEN ended ELSE jobs[k]
  BY <1>3, <1>4, <1>5, <1>6 DEF JobsInv
<1>8. MediaTypes'
  BY <1>1 DEF MediaTypes
<1>9. JobsInv'
  <2>1. JobFits(i, to)
    BY <1>1, <1>4 DEF JobFits, Busy, Taken
  <2>2. JobFits(k, ended)
    BY <1>1, <1>5, MediaConstants DEF JobFits, Busy, Taken
  <2>3. \A h \in Media!Ids : JobFits(h, jobs'[h])
    BY <1>7, <2>1, <2>2 DEF JobsInv
  <2> QED
    BY <1>1, <1>7, <2>3 DEF JobsInv, JobFits
<1>10. \A h \in Media!Ids : /\ jobs'[h].at = "stored" => jobs[h].at = "stored"
                            /\ h[1] # "probe" /\ jobs'[h].at \in Taken => jobs[h].at \in Taken
  BY <1>1, <1>4, <1>5, <1>7 DEF Taken
<1>11. ServedInv' /\ RemovedInv'
  BY <1>1, <1>10 DEF ServedInv, RemovedInv
<1>12. UploadInv'
  <2> SUFFICES ASSUME Quiet' PROVE UploadInv'
    BY DEF UploadInv
  <2>1. Quiet /\ stored \in Versions /\ OfUpload(i, jobs[i]) /\ asked /\ i[2] = stored
    BY <1>1 DEF Quiet, UploadInv, OfUpload, MediaTypes
  <2>2. k[2] = stored /\ jobs[i].seen = stored /\ i = Probe /\ Kind \in Media!Kinds /\ k = <<k[1], stored>>
    BY <1>1, <1>3, <2>1, MediaConstants, KindsOfVersions DEF OfUpload, JobFits, Taken, Probe, Kind
  <2>3. OfUpload(i, to) /\ OfUpload(k, ended)
    BY <1>1, <1>3, <1>4, <1>5, <2>1, <2>2, MediaConstants DEF OfUpload
  <2>4. \A h \in Media!Ids : OfUpload(h, jobs[h])'
    <3> SUFFICES ASSUME NEW h \in Media!Ids PROVE OfUpload(h, jobs[h])'
      OBVIOUS
    <3>1. UNCHANGED <<stored, asked>>
      BY <1>1
    <3>2. CASE h = i
      <4>1. jobs'[h] = to
        BY <1>7, <3>2
      <4> QED
        BY ONLY <2>3, <3>1, <3>2, <4>1 DEF OfUpload
    <3>3. CASE h = k /\ jobs[k].at = "none"
      <4>1. jobs'[h] = ended
        BY <1>7, <3>3
      <4> QED
        BY ONLY <2>3, <3>1, <3>3, <4>1 DEF OfUpload
    <3>4. CASE h # i /\ ~(h = k /\ jobs[k].at = "none")
      <4>1. jobs'[h] = jobs[h] /\ OfUpload(h, jobs[h])
        BY <1>7, <2>1, <3>4 DEF UploadInv
      <4> QED
        BY ONLY <3>1, <4>1 DEF OfUpload
    <3> QED
      BY <3>2, <3>3, <3>4
  <2>5. \A t \in Types : <<t, stored>> \in Media!Ids /\ <<t, stored>> # i /\ (<<t, stored>> = k <=> t = k[1])
    BY <1>1, <2>1, <2>2, MediaConstants
  <2>6. ASSUME NEW t \in Types
        PROVE  /\ DoneSoFar(t)' /\ (Sent(t) => Sent(t)') /\ (t = k[1] => Sent(t)')
    <3>1. DoneSoFar(t) /\ (Made(t)' <=> Made(t)) /\ jobs[<<t, stored>>] \in JobRecord
      BY <1>1, <2>1, <2>5 DEF UploadInv, Made, JobsInv
    <3>2. CASE jobs'[<<t, stored>>] = jobs[<<t, stored>>] /\ (t = k[1] => jobs[k].at # "none")
      BY <1>1, <2>2, <3>1, <3>2 DEF DoneSoFar, Sent, JobRecord
    <3>3. CASE jobs'[<<t, stored>>] = ended
      BY <1>1, <1>5, <3>3 DEF DoneSoFar, Sent, Busy
    <3> QED
      BY <1>7, <2>5, <3>2, <3>3
  <2>7. Kind' = Kind /\ Probe' = Probe /\ Measured' /\ jobs'[Probe] = to
    BY <1>1, <1>7, <2>1, <2>2 DEF Kind, Probe, Measured, UploadInv, ProbeSoFar
  <2>8. ProbeSoFar'
    <3>1. \A t \in Media!Wanted(Kind) : t \in Types
      BY <2>2, MediaConstants
    <3>2. \A t \in Media!Wanted(Kind) : Sent(t) \/ <<t, stored>> \in jobs[i].todo
      BY <1>1, <2>1, <2>2 DEF UploadInv, ProbeSoFar
    <3>3. \A t \in Media!Wanted(Kind) : Sent(t)' \/ <<t, stored>> \in to.todo
      BY <1>4, <2>5, <2>6, <3>1, <3>2
    <3>4. to.at = "enqueue" /\ to.at \in Busy
      BY <1>4 DEF Busy, Taken
    <3> QED
      BY <1>1, <2>7, <3>3, <3>4 DEF ProbeSoFar
  <2> QED
    BY <1>1, <2>1, <2>4, <2>6, <2>8 DEF UploadInv
<1> QED
  BY <1>8, <1>9, <1>11, <1>12

LEMMA MediaKeeps == MediaInv /\ Media!Next => MediaInv'
<1> SUFFICES ASSUME MediaInv, Media!Next PROVE MediaInv'
  OBVIOUS
<1>1. ASSUME NEW i \in Media!Ids, Media!Works(i) PROVE MediaInv'
  BY <1>1, FetchKeeps, ProbeWritesKeeps, ProbeReadsKeeps, ProbeEnqueuesKeeps, ProbeEndsKeeps, ConvertKeeps,
     WriteRowKeeps DEF Media!Works
<1>2. CASE Media!Confirms
  BY <1>2, ConfirmsKeep, EnqueueProbeKeeps DEF Media!Confirms
<1> QED
  BY <1>1, <1>2, PutKeeps, DeletesKeep, WorkerDiesKeeps, FailsKeeps, ForgetKeeps DEF Media!Next

\* Whatever is uploaded over what, confirmed, deleted, retried or lost: a
\* preview with a link is in the storage; once the queue is empty an upload that
\* came to a quiet key has all its derivatives and measures; and a deletion that
\* was answered, with none in the making, leaves nothing.
THEOREM DerivativesFollow == Spec => []MediaFollows
<1> DEFINE Inv == part \in {"overwrite", "delete"} => MediaInv
<1>1. Init => Inv
  BY InitMedia DEF Init
<1>2. Inv /\ [Next]_vars => Inv'
  <2> SUFFICES ASSUME Inv, [Next]_vars PROVE Inv'
    OBVIOUS
  <2>1. part' = part
    BY DEF Next, vars
  <2>2. SUFFICES ASSUME part \in {"overwrite", "delete"} PROVE MediaInv'
    BY <2>1
  <2>3. CASE Overwrites
    <3>1. Media!Next
      BY <2>3, MediaAssumption DEF Overwrites, Media!Next
    <3> QED
      BY <2>2, <3>1, MediaKeeps
  <2>4. CASE Deletion
    <3>1. Media!Next
      BY <2>4, MediaAssumption DEF Deletion, Media!Next
    <3> QED
      BY <2>2, <3>1, MediaKeeps
  <2>5. CASE UNCHANGED mediaVars
    <3>1. UNCHANGED <<stored, row, deleted, assets, bytes, rows, jobs, confirm, removal, calm, asked, flawed, touched>>
      BY <2>5 DEF mediaVars
    <3>2. MediaTypes' /\ JobsInv' /\ ServedInv' /\ RemovedInv'
      BY <2>2, <3>1 DEF MediaInv, MediaTypes, JobsInv, JobFits, ServedInv, RemovedInv
    <3>3. UploadInv'
      BY <2>2, <3>1, UploadStays DEF MediaInv, Quiet, UploadInv
    <3> QED
      BY <3>2, <3>3 DEF MediaInv
  <2> QED
    BY <2>2, <2>3, <2>4, <2>5 DEF Next, Beside, Dashboard, vars, besideVars
<1>3. Inv => MediaFollows
  BY MediaIsSound DEF MediaFollows
<1> QED
  BY <1>1, <1>2, <1>3, PTL DEF Spec

-----------------------------------------------------------------------------
(* Uploads *)

\* The large files whose upload is open on the storage as far as the page knows.
Open == {f \in Uploaded : upload[f] \in {"parts", "complete"}}

\* A part no worker has still to take is recorded or in the air; all are, once
\* the workers are through.  What is recorded has landed.
PartsInv(f) ==
  /\ recorded[f] \subseteq landed[f]
  /\ upload[f] = "init" => next[f] = 1
  /\ upload[f] = "parts" => \A p \in Sending!Parts : p < next[f] => p \in recorded[f] \/ \E q \in flying[f] : q[1] = p
  /\ upload[f] = "complete" => recorded[f] = Sending!Parts

\* Parts are aborted only where the file was cancelled, or met a fault.
SendingInv ==
  /\ Sending!TypeOK /\ Sending!WholeOrNothing /\ Sending!CancelsOnlyItself
  /\ IsFiniteSet(Open) /\ Cardinality(Open) <= debris
  /\ aborted \subseteq cancelled \cup blamed
  /\ \A f \in Uploaded : PartsInv(f)

Steps == {"idle", "put", "init", "parts", "complete", "done", "error"}

LEMMA InitSending == Sending!Init => SendingInv
<1> SUFFICES ASSUME Sending!Init PROVE SendingInv
  OBVIOUS
<1> USE DEF Sending!Init
<1>1. Sending!TypeOK
  BY UploadsAssumption DEF Sending!TypeOK, Sending!UploadsAssumption, Sending!Parts
<1>2. Open = {}
  BY DEF Open
<1>3. IsFiniteSet(Open) /\ Cardinality(Open) <= debris
  BY <1>2, FS_EmptySet
<1>4. \A f \in Uploaded : PartsInv(f)
  BY DEF PartsInv, Sending!Parts
<1> QED
  BY <1>1, <1>3, <1>4 DEF SendingInv, Sending!WholeOrNothing, Sending!CancelsOnlyItself

\* One file goes on, and the others stay as they are.
OnlyOf(f) ==
  \A g \in Uploaded \ {f} :
    /\ upload'[g] = upload[g] /\ flying'[g] = flying[g] /\ next'[g] = next[g]
    /\ recorded'[g] = recorded[g] /\ landed'[g] = landed[g] /\ object'[g] = object[g]

\* The count of the open uploads follows the one file that moves.
LEMMA OpenFollows ==
  ASSUME SendingInv, NEW f \in Uploaded, OnlyOf(f), debris' \in Int,
         debris' >= debris + (IF f \in Open' THEN 1 ELSE 0) - (IF f \in Open THEN 1 ELSE 0)
  PROVE  /\ IsFiniteSet(Open') /\ Cardinality(Open') <= debris' /\ debris' \in Nat
<1>1. Open \ {f} = Open' \ {f}
  BY DEF Open, OnlyOf
<1>2. /\ IsFiniteSet(Open) /\ Cardinality(Open) \in Nat /\ Cardinality(Open) <= debris /\ debris \in Nat
  BY FS_CardinalityType DEF SendingInv, Sending!TypeOK
<1>3. /\ IsFiniteSet(Open \ {f})
      /\ Cardinality(Open \ {f}) = Cardinality(Open) - (IF f \in Open THEN 1 ELSE 0)
  BY <1>2, FS_RemoveElement
<1>4. Open' = IF f \in Open' THEN (Open \ {f}) \cup {f} ELSE Open \ {f}
  BY <1>1
<1>5. /\ IsFiniteSet(Open')
      /\ Cardinality(Open') = Cardinality(Open \ {f}) + (IF f \in Open' THEN 1 ELSE 0)
  <2>1. CASE f \in Open'
    <3>1. f \notin Open \ {f}
      OBVIOUS
    <3>2. IsFiniteSet((Open \ {f}) \cup {f}) /\ Cardinality((Open \ {f}) \cup {f}) = Cardinality(Open \ {f}) + 1
      BY <1>3, <3>1, FS_AddElement
    <3> QED
      BY <1>4, <2>1, <3>2
  <2>2. CASE f \notin Open'
    <3>1. Open' = Open \ {f} /\ Cardinality(Open \ {f}) \in Nat
      BY <1>3, <1>4, <2>2, FS_CardinalityType
    <3> QED
      BY <1>3, <2>2, <3>1
  <2> QED
    BY <2>1, <2>2
<1>6. Cardinality(Open') <= debris' /\ Cardinality(Open') \in Nat
  BY <1>2, <1>3, <1>5, FS_CardinalityType
<1> QED
  BY <1>5, <1>6

\* What a step of one file has to establish, about that file.
LEMMA FileKeeps ==
  ASSUME SendingInv, NEW f \in Uploaded, OnlyOf(f), Sending!TypeOK',
         debris' >= debris + (IF f \in Open' THEN 1 ELSE 0) - (IF f \in Open THEN 1 ELSE 0),
         cancelled \ {f} = cancelled' \ {f}, blamed \ {f} = blamed' \ {f}, aborted' \ {f} \subseteq aborted,
         f \in aborted' => f \in cancelled' \cup blamed',
         PartsInv(f)',
         object'[f] \in {{}, Sending!Parts}, upload'[f] = "done" => object'[f] = Sending!Parts,
         upload'[f] = "error" => f \in cancelled' \cup blamed'
  PROVE  SendingInv'
<1>1. IsFiniteSet(Open') /\ Cardinality(Open') <= debris'
  BY OpenFollows DEF Sending!TypeOK
<1>2. \A g \in Uploaded : PartsInv(g)'
  BY DEF OnlyOf, PartsInv, SendingInv, Sending!Parts
<1>3. Sending!WholeOrNothing'
  BY DEF OnlyOf, SendingInv, Sending!WholeOrNothing, Sending!Parts
<1>4. Sending!CancelsOnlyItself'
  BY DEF OnlyOf, SendingInv, Sending!CancelsOnlyItself
<1>5. aborted' \subseteq cancelled' \cup blamed'
  BY DEF SendingInv
<1> QED
  BY <1>1, <1>2, <1>3, <1>4, <1>5 DEF SendingInv

LEMMA StartKeeps == ASSUME SendingInv, NEW f \in Uploaded, Sending!Start(f) PROVE SendingInv'
<1> USE DEF Sending!Start, Sending!Goes
<1>0. Sending!TypeOK
  BY DEF SendingInv
<1>1. OnlyOf(f) /\ upload'[f] \in {"put", "init"}
  BY <1>0 DEF OnlyOf, Sending!TypeOK
<1>2. Sending!TypeOK'
  <2>1. 1 \in 1 .. PartCount + 1 /\ MaxStarts \in Nat
    BY UploadsAssumption DEF Sending!UploadsAssumption
  <2> QED
    BY <1>0, <2>1 DEF Sending!TypeOK, Sending!Parts
<1>3. PartsInv(f)' /\ object'[f] = {}
  BY <1>0, <1>1 DEF PartsInv, Sending!TypeOK
<1>4. f \notin Open' /\ f \notin Open /\ debris' = debris /\ debris \in Nat
  BY <1>0, <1>1 DEF Open, Sending!TypeOK
<1> QED
  BY <1>1, <1>2, <1>3, <1>4, FileKeeps

LEMMA CancelKeeps == ASSUME SendingInv, NEW f \in Uploaded, Sending!Cancel(f) PROVE SendingInv'
<1> USE DEF Sending!Cancel, Sending!partVars
<1>0. Sending!TypeOK
  BY DEF SendingInv
<1>1. OnlyOf(f) /\ upload' = upload /\ object' = object
  BY DEF OnlyOf
<1>2. Sending!TypeOK'
  BY <1>0 DEF Sending!TypeOK, Sending!Parts
<1>3. PartsInv(f)'
  BY DEF PartsInv, SendingInv, Sending!Parts
<1>4. Open' = Open /\ debris' = debris /\ debris \in Nat
  BY <1>0, <1>1 DEF Open, Sending!TypeOK
<1>5. object'[f] \in {{}, Sending!Parts} /\ (upload'[f] = "done" => object'[f] = Sending!Parts)
  BY <1>1 DEF SendingInv, Sending!WholeOrNothing
<1> QED
  BY <1>1, <1>2, <1>3, <1>4, <1>5, FileKeeps

LEMMA UnmountKeeps == ASSUME SendingInv, Sending!Unmount PROVE SendingInv'
<1> USE DEF Sending!Unmount, Sending!partVars
<1>1. Sending!TypeOK'
  BY DEF SendingInv, Sending!TypeOK, Sending!Parts
<1>2. Open' = Open /\ debris' = debris
  BY DEF Open
<1>3. \A f \in Uploaded : PartsInv(f)'
  BY DEF PartsInv, SendingInv, Sending!Parts
<1>4. Sending!WholeOrNothing' /\ Sending!CancelsOnlyItself'
  BY DEF SendingInv, Sending!WholeOrNothing, Sending!CancelsOnlyItself, Sending!Parts
<1>5. aborted' \subseteq cancelled' \cup blamed'
  BY DEF SendingInv
<1> QED
  BY <1>1, <1>2, <1>3, <1>4, <1>5 DEF SendingInv

LEMMA PutFileKeeps == ASSUME SendingInv, NEW f \in Uploaded, Sending!Put(f) PROVE SendingInv'
<1> USE DEF Sending!Put, Sending!Goes, Sending!Fault, Sending!partVars
<1>0. Sending!TypeOK /\ upload[f] = "put"
  BY DEF SendingInv
<1>1. /\ OnlyOf(f) /\ upload'[f] \in {"done", "error"} /\ object'[f] \in {object[f], Sending!Parts}
      /\ upload'[f] = "done" => object'[f] = Sending!Parts
      /\ upload'[f] = "error" => f \in cancelled' \cup blamed'
  BY <1>0 DEF OnlyOf, Sending!TypeOK
<1>2. Sending!TypeOK'
  <2>1. upload' \in [Uploaded -> Steps] /\ object' \in [Uploaded -> SUBSET Sending!Parts]
    BY <1>0 DEF Sending!TypeOK, Steps
  <2>2. failures' \in 0 .. MaxFailures /\ blamed' \subseteq Uploaded
    BY <1>0, UploadsAssumption DEF Sending!UploadsAssumption, Sending!TypeOK
  <2> QED
    BY <1>0, <2>1, <2>2 DEF Sending!TypeOK, Sending!Parts, Steps
<1>3. PartsInv(f)'
  BY <1>1 DEF PartsInv, SendingInv
<1>4. f \notin Open' /\ f \notin Open /\ debris' = debris /\ debris \in Nat
  BY <1>0, <1>1 DEF Open, Sending!TypeOK
<1>5. object'[f] \in {{}, Sending!Parts}
  BY <1>1 DEF SendingInv, Sending!WholeOrNothing
<1>6. cancelled' = cancelled /\ blamed \ {f} = blamed' \ {f} /\ aborted' = aborted /\ blamed \subseteq blamed'
  OBVIOUS
<1>7. f \in aborted' => f \in cancelled' \cup blamed'
  BY <1>6 DEF SendingInv
<1> QED
  BY <1>1, <1>2, <1>3, <1>4, <1>5, <1>6, <1>7, FileKeeps

LEMMA InitiateKeeps == ASSUME SendingInv, NEW f \in Uploaded, Sending!Initiate(f) PROVE SendingInv'
<1> USE DEF Sending!Initiate, Sending!Goes, Sending!Fault, Sending!partVars
<1>0. Sending!TypeOK /\ upload[f] = "init"
  BY DEF SendingInv
<1>1. OnlyOf(f) /\ upload'[f] \in {"parts", "error"} /\ (upload'[f] = "error" => f \in blamed')
  BY <1>0 DEF OnlyOf, Sending!TypeOK
<1>2. Sending!TypeOK'
  <2>1. upload' \in [Uploaded -> Steps]
    BY <1>0 DEF Sending!TypeOK, Steps
  <2>2. failures' \in 0 .. MaxFailures /\ blamed' \subseteq Uploaded /\ aborted' \subseteq Uploaded /\ debris' \in Nat
        /\ sending' \in Uploaded \cup {None}
    BY <1>0, UploadsAssumption DEF Sending!UploadsAssumption, Sending!TypeOK
  <2> QED
    BY <1>0, <2>1, <2>2 DEF Sending!TypeOK, Sending!Parts, Steps
<1>3. PartsInv(f)'
  BY <1>0, <1>1 DEF PartsInv, SendingInv, Sending!Parts
<1>4. /\ f \notin Open /\ debris \in Nat /\ debris' \in Nat
      /\ debris' >= debris + (IF f \in Open' THEN 1 ELSE 0)
  BY <1>0, <1>1 DEF Open, Sending!TypeOK
<1>5. object'[f] \in {{}, Sending!Parts}
  BY DEF SendingInv, Sending!WholeOrNothing
<1>6. cancelled' = cancelled /\ blamed \ {f} = blamed' \ {f} /\ aborted' \ {f} \subseteq aborted /\ blamed \subseteq blamed'
  OBVIOUS
<1>7. f \in aborted' => f \in cancelled' \cup blamed'
  BY <1>6 DEF SendingInv
<1> QED
  BY <1>1, <1>2, <1>3, <1>4, <1>5, <1>6, <1>7, FileKeeps

LEMMA TakePartKeeps == ASSUME SendingInv, NEW f \in Uploaded, Sending!TakePart(f) PROVE SendingInv'
<1> USE DEF Sending!TakePart
<1>0. Sending!TypeOK /\ PartsInv(f) /\ upload[f] = "parts" /\ PartCount \in Nat /\ next[f] \in 1 .. PartCount + 1
  BY UploadsAssumption DEF SendingInv, Sending!TypeOK, Sending!UploadsAssumption
<1>1. /\ OnlyOf(f) /\ upload' = upload /\ object' = object
      /\ flying'[f] = flying[f] \cup {<<next[f], 0>>} /\ next'[f] = next[f] + 1
  BY <1>0 DEF OnlyOf, Sending!TypeOK
<1>2. Sending!TypeOK'
  <2>1. <<next[f], 0>> \in Sending!Parts \X (0 .. MaxRetries) /\ next[f] + 1 \in 1 .. PartCount + 1
    BY <1>0, UploadsAssumption DEF Sending!Parts, Sending!UploadsAssumption
  <2>2. flying' \in [Uploaded -> SUBSET (Sending!Parts \X (0 .. MaxRetries))]
    BY <1>0, <2>1 DEF Sending!TypeOK
  <2>3. next' \in [Uploaded -> 1 .. PartCount + 1]
    BY <1>0, <2>1 DEF Sending!TypeOK
  <2> QED
    BY <1>0, <2>2, <2>3 DEF Sending!TypeOK, Sending!Parts
<1>3. PartsInv(f)'
  <2>1. ASSUME NEW p \in Sending!Parts, p < next[f] + 1
        PROVE  p \in recorded[f] \/ \E q \in flying'[f] : q[1] = p
    <3>1. CASE p = next[f]
      <4> DEFINE q == <<next[f], 0>>
      <4>1. q \in flying'[f] /\ q[1] = p
        BY <1>1, <3>1
      <4> QED
        BY <4>1
    <3>2. CASE p < next[f]
      BY <1>0, <1>1, <3>2 DEF PartsInv
    <3> QED
      BY <1>0, <2>1, <3>1, <3>2 DEF Sending!Parts
  <2> QED
    BY <1>0, <1>1, <2>1 DEF PartsInv, Sending!Parts
<1>4. Open' = Open /\ debris' = debris /\ debris \in Nat
  BY <1>0, <1>1 DEF Open, Sending!TypeOK
<1>5. object'[f] \in {{}, Sending!Parts} /\ f \in aborted' => f \in cancelled' \cup blamed'
  BY DEF SendingInv, Sending!WholeOrNothing
<1>6. object'[f] \in {{}, Sending!Parts}
  BY DEF SendingInv, Sending!WholeOrNothing
<1> QED
  BY <1>0, <1>1, <1>2, <1>3, <1>4, <1>5, <1>6, FileKeeps DEF SendingInv

LEMMA PartStoredKeeps ==
  ASSUME SendingInv, NEW f \in Uploaded, NEW p \in flying[f], Sending!PartStored(f, p) PROVE SendingInv'
<1> USE DEF Sending!PartStored
<1>0. Sending!TypeOK /\ PartsInv(f) /\ upload[f] = "parts" /\ p[1] \in Sending!Parts
  BY DEF SendingInv, Sending!TypeOK
<1>1. /\ OnlyOf(f) /\ upload' = upload /\ object' = object /\ next' = next
      /\ flying'[f] = flying[f] \ {p} /\ recorded'[f] = recorded[f] \cup {p[1]} /\ landed'[f] = landed[f] \cup {p[1]}
  BY <1>0 DEF OnlyOf, Sending!TypeOK
<1>2. Sending!TypeOK'
  <2>1. flying' \in [Uploaded -> SUBSET (Sending!Parts \X (0 .. MaxRetries))]
        /\ recorded' \in [Uploaded -> SUBSET Sending!Parts] /\ landed' \in [Uploaded -> SUBSET Sending!Parts]
    BY <1>0 DEF Sending!TypeOK
  <2> QED
    BY <1>0, <2>1 DEF Sending!TypeOK, Sending!Parts
<1>3. PartsInv(f)'
  <2>1. ASSUME NEW r \in Sending!Parts, r < next[f]
        PROVE  r \in recorded'[f] \/ \E q \in flying'[f] : q[1] = r
    BY <1>0, <1>1, <2>1 DEF PartsInv
  <2> QED
    BY <1>0, <1>1, <2>1 DEF PartsInv, Sending!Parts
<1>4. Open' = Open /\ debris' = debris /\ debris \in Nat
  BY <1>0, <1>1 DEF Open, Sending!TypeOK
<1>5. object'[f] \in {{}, Sending!Parts} /\ (f \in aborted' => f \in cancelled' \cup blamed')
  BY DEF SendingInv, Sending!WholeOrNothing
<1> QED
  BY <1>0, <1>1, <1>2, <1>3, <1>4, <1>5, FileKeeps

\* A large file that ends in an error, and nothing of it is put together.
LEMMA PartsGivenUp ==
  ASSUME SendingInv, NEW f \in Uploaded, upload[f] = "parts", Sending!TypeOK', OnlyOf(f),
         upload'[f] = "error", recorded' = recorded, recorded[f] \subseteq landed'[f],
         UNCHANGED <<cancelled, debris, object>>,
         blamed' \in {blamed, blamed \cup {f}}, aborted' \in {aborted, aborted \cup {f}},
         f \in cancelled \cup blamed'
  PROVE  SendingInv'
<1>1. PartsInv(f)'
  BY DEF PartsInv
<1>2. debris' >= debris + (IF f \in Open' THEN 1 ELSE 0) - (IF f \in Open THEN 1 ELSE 0)
  BY DEF Open, SendingInv, Sending!TypeOK
<1>3. object'[f] \in {{}, Sending!Parts}
  BY DEF SendingInv, Sending!WholeOrNothing
<1> QED
  BY <1>1, <1>2, <1>3, FileKeeps

LEMMA PartFailsKeeps ==
  ASSUME SendingInv, NEW f \in Uploaded, NEW p \in flying[f], Sending!PartFails(f, p) PROVE SendingInv'
<1> USE DEF Sending!PartFails, Sending!Fault
<1>0. /\ Sending!TypeOK /\ PartsInv(f) /\ upload[f] = "parts" /\ p[1] \in Sending!Parts /\ p[2] \in 0 .. MaxRetries
      /\ MaxRetries \in Nat /\ MaxFailures \in Nat
  BY UploadsAssumption DEF SendingInv, Sending!TypeOK, Sending!UploadsAssumption
<1>1. /\ failures' \in 0 .. MaxFailures /\ blamed' = blamed \cup {f} /\ blamed' \subseteq Uploaded
      /\ landed' \in [Uploaded -> SUBSET Sending!Parts] /\ recorded[f] \subseteq landed'[f]
      /\ \A g \in Uploaded \ {f} : landed'[g] = landed[g]
  BY <1>0 DEF Sending!TypeOK, PartsInv
<1>2. CASE Sending!GivesUp(f)
  <2> USE DEF Sending!GivesUp, Sending!Goes
  <2>1. OnlyOf(f) /\ upload'[f] = "error" /\ aborted' = aborted \cup {f}
    BY <1>0, <1>1, <1>2 DEF OnlyOf, Sending!TypeOK
  <2>2. upload' \in [Uploaded -> Steps] /\ flying' \in [Uploaded -> SUBSET (Sending!Parts \X (0 .. MaxRetries))]
    BY <1>0, <1>2 DEF Sending!TypeOK, Steps
  <2>3. aborted' \subseteq Uploaded /\ sending' \in Uploaded \cup {None}
    BY <1>0, <1>2 DEF Sending!TypeOK
  <2>4. Sending!TypeOK'
    BY <1>0, <1>1, <2>2, <2>3 DEF Sending!TypeOK, Sending!Parts, Steps
  <2> QED
    BY <1>0, <1>1, <2>1, <2>4, PartsGivenUp
<1>3. CASE /\ p[2] < MaxRetries /\ UNCHANGED <<upload, aborted, sending>>
           /\ flying' = [flying EXCEPT ![f] = (@ \ {p}) \cup {<<p[1], p[2] + 1>>}]
  <2>1. OnlyOf(f) /\ flying'[f] = (flying[f] \ {p}) \cup {<<p[1], p[2] + 1>>}
    BY <1>0, <1>1, <1>3 DEF OnlyOf, Sending!TypeOK
  <2>2. flying' \in [Uploaded -> SUBSET (Sending!Parts \X (0 .. MaxRetries))]
    <3>1. <<p[1], p[2] + 1>> \in Sending!Parts \X (0 .. MaxRetries)
      BY <1>0, <1>3
    <3> QED
      BY <1>0, <1>3, <3>1 DEF Sending!TypeOK
  <2>3. Sending!TypeOK'
    BY <1>0, <1>1, <1>3, <2>2 DEF Sending!TypeOK, Sending!Parts
  <2>4. PartsInv(f)'
    <3>1. ASSUME NEW r \in Sending!Parts, r < next[f]
          PROVE  r \in recorded[f] \/ \E q \in flying'[f] : q[1] = r
      <4>1. CASE r = p[1]
        <5> DEFINE q == <<p[1], p[2] + 1>>
        <5>1. q \in flying'[f] /\ q[1] = r
          BY <2>1, <4>1
        <5> QED
          BY <5>1
      <4>2. CASE r # p[1]
        BY <1>0, <2>1, <3>1, <4>2 DEF PartsInv
      <4> QED
        BY <4>1, <4>2
    <3> QED
      BY <1>0, <1>1, <1>3, <3>1 DEF PartsInv, Sending!Parts
  <2>5. Open' = Open /\ debris' = debris /\ debris \in Nat
    BY <1>0, <1>3 DEF Open, Sending!TypeOK
  <2>6. object'[f] \in {{}, Sending!Parts} /\ (f \in aborted' => f \in cancelled' \cup blamed')
    BY <1>1 DEF SendingInv, Sending!WholeOrNothing
  <2> QED
    BY <1>0, <1>1, <1>3, <2>1, <2>3, <2>4, <2>5, <2>6, FileKeeps
<1> QED
  BY <1>2, <1>3

LEMMA StopKeeps == ASSUME SendingInv, NEW f \in Uploaded, Sending!Stop(f) PROVE SendingInv'
<1> USE DEF Sending!Stop, Sending!Goes
<1>0. Sending!TypeOK /\ PartsInv(f)
  BY DEF SendingInv
<1>1. OnlyOf(f) /\ upload'[f] = "error"
  BY <1>0 DEF OnlyOf, Sending!TypeOK
<1>2. upload' \in [Uploaded -> Steps] /\ flying' \in [Uploaded -> SUBSET (Sending!Parts \X (0 .. MaxRetries))]
      /\ sending' \in Uploaded \cup {None}
  BY <1>0 DEF Sending!TypeOK, Steps
<1>3. Sending!TypeOK'
  BY <1>0, <1>2 DEF Sending!TypeOK, Sending!Parts, Steps
<1>4. f \in cancelled \cup blamed
  BY DEF SendingInv
<1> QED
  BY <1>0, <1>1, <1>3, <1>4, PartsGivenUp DEF PartsInv

LEMMA PartsDoneKeeps == ASSUME SendingInv, NEW f \in Uploaded, Sending!PartsDone(f) PROVE SendingInv'
<1> USE DEF Sending!PartsDone, Sending!Goes, Sending!partVars
<1>0. Sending!TypeOK /\ PartsInv(f) /\ PartCount \in Nat /\ next[f] \in 1 .. PartCount + 1
  BY UploadsAssumption DEF SendingInv, Sending!TypeOK, Sending!UploadsAssumption
<1>1. OnlyOf(f) /\ upload'[f] = "complete"
  BY <1>0 DEF OnlyOf, Sending!TypeOK
<1>2. Sending!TypeOK'
  <2>1. upload' \in [Uploaded -> Steps] /\ sending' \in Uploaded \cup {None}
    BY <1>0 DEF Sending!TypeOK, Steps
  <2> QED
    BY <1>0, <2>1 DEF Sending!TypeOK, Sending!Parts, Steps
<1>3. PartsInv(f)'
  <2>1. \A p \in Sending!Parts : p < next[f]
    BY <1>0 DEF Sending!Parts
  <2>2. \A p \in Sending!Parts : p \in recorded[f]
    BY <1>0, <2>1 DEF PartsInv
  <2>3. recorded[f] = Sending!Parts
    BY <1>0, <2>2 DEF Sending!TypeOK
  <2> QED
    BY <1>0, <1>1, <2>3 DEF PartsInv, Sending!Parts
<1>4. f \in Open' /\ f \in Open /\ debris' = debris /\ debris \in Nat
  BY <1>0, <1>1 DEF Open, Sending!TypeOK
<1>5. object'[f] \in {{}, Sending!Parts} /\ (f \in aborted' => f \in cancelled' \cup blamed')
  BY DEF SendingInv, Sending!WholeOrNothing
<1> QED
  BY <1>1, <1>2, <1>3, <1>4, <1>5, FileKeeps

LEMMA CompleteKeeps == ASSUME SendingInv, NEW f \in Uploaded, Sending!Complete(f) PROVE SendingInv'
<1> USE DEF Sending!Complete, Sending!Goes, Sending!Fault, Sending!partVars
<1>0. /\ Sending!TypeOK /\ upload[f] = "complete" /\ MaxFailures \in Nat
      /\ recorded[f] = Sending!Parts /\ landed[f] = Sending!Parts
  <2>1. Sending!TypeOK /\ PartsInv(f) /\ upload[f] = "complete" /\ MaxFailures \in Nat
    BY UploadsAssumption DEF SendingInv, Sending!UploadsAssumption
  <2>2. landed[f] \subseteq Sending!Parts
    BY <2>1 DEF Sending!TypeOK
  <2> QED
    BY <2>1, <2>2 DEF PartsInv
<1>1. /\ OnlyOf(f) /\ upload'[f] \in {"done", "error"} /\ object'[f] \in {object[f], Sending!Parts}
      /\ upload'[f] = "done" => object'[f] = Sending!Parts
      /\ upload'[f] = "error" => f \in blamed'
  BY <1>0 DEF OnlyOf, Sending!TypeOK
<1>2. IsFiniteSet(Open) /\ Cardinality(Open) <= debris /\ f \in Open /\ f \notin Open' /\ debris \in Nat
  BY <1>0, <1>1 DEF SendingInv, Open, Sending!TypeOK
<1>3. debris' \in Int /\ debris' >= debris - 1
  BY <1>2
<1>4. debris' \in Nat
  BY <1>1, <1>2, <1>3, OpenFollows
<1>5. Sending!TypeOK'
  <2>1. upload' \in [Uploaded -> Steps] /\ object' \in [Uploaded -> SUBSET Sending!Parts]
    BY <1>0 DEF Sending!TypeOK, Steps
  <2>2. failures' \in 0 .. MaxFailures /\ blamed' \subseteq Uploaded
    BY <1>0 DEF Sending!TypeOK
  <2> QED
    BY <1>0, <1>4, <2>1, <2>2 DEF Sending!TypeOK, Sending!Parts, Steps
<1>6. PartsInv(f)'
  BY <1>0, <1>1 DEF PartsInv
<1>7. object'[f] \in {{}, Sending!Parts}
  BY <1>1 DEF SendingInv, Sending!WholeOrNothing
<1>8. cancelled' = cancelled /\ blamed \ {f} = blamed' \ {f} /\ aborted' = aborted /\ blamed \subseteq blamed'
  OBVIOUS
<1>9. f \in aborted' => f \in cancelled' \cup blamed'
  BY <1>8 DEF SendingInv
<1> QED
  BY <1>1, <1>2, <1>3, <1>5, <1>6, <1>7, <1>8, <1>9, FileKeeps

LEMMA SendingKeeps == SendingInv /\ Sending!Next => SendingInv'
<1> SUFFICES ASSUME SendingInv, Sending!Next PROVE SendingInv'
  OBVIOUS
<1>1. ASSUME NEW f \in Uploaded, Sending!Upload(f) PROVE SendingInv'
  BY <1>1, PutFileKeeps, InitiateKeeps, TakePartKeeps, PartStoredKeeps, PartFailsKeeps, StopKeeps, PartsDoneKeeps,
     CompleteKeeps DEF Sending!Upload
<1> QED
  BY <1>1, StartKeeps, CancelKeeps, UnmountKeeps DEF Sending!Next

-----------------------------------------------------------------------------
(* The list of the library *)

\* A sequence without one of its elements.
LEMMA Without ==
  ASSUME NEW S, NEW s \in Seq(S), NEW i \in 1..Len(s)
  PROVE  LET t == SubSeq(s, 1, i - 1) \o SubSeq(s, i + 1, Len(s)) IN
         t \in Seq(S) /\ Len(t) = Len(s) - 1
<1>1. Len(s) \in Nat /\ i \in 1..Len(s) /\ \A n \in 1..Len(s) : s[n] \in S
  OBVIOUS
<1> DEFINE before == SubSeq(s, 1, i - 1)
           after == SubSeq(s, i + 1, Len(s))
<1>2. before \in Seq(S) /\ Len(before) = IF 1 <= i - 1 THEN i - 1 - 1 + 1 ELSE 0
  BY <1>1, SubSeqProperties
<1>3. /\ after \in Seq(S)
      /\ Len(after) = IF i + 1 <= Len(s) THEN Len(s) - (i + 1) + 1 ELSE 0
  BY <1>1, SubSeqProperties
<1> HIDE DEF before, after
<1>4. before \o after \in Seq(S) /\ Len(before \o after) = Len(before) + Len(after)
  BY <1>2, <1>3, ConcatProperties
<1>5. Len(before) + Len(after) = Len(s) - 1
  <2>1. Len(before) = i - 1
    BY <1>1, <1>2
  <2>2. Len(after) = Len(s) - i
    BY <1>1, <1>3
  <2> QED
    BY <1>1, <2>1, <2>2
<1>6. before \o after \in Seq(S) /\ Len(before \o after) = Len(s) - 1
  BY <1>4, <1>5
<1> QED
  BY <1>6 DEF before, after

\* A function on 1..n is a sequence.
LEMMA FunIsSeq ==
  ASSUME NEW S, NEW n \in Nat, NEW f \in [1..n -> S]
  PROVE  f \in Seq(S) /\ Len(f) = n
  OBVIOUS

Lists == [data : Seq(Nat), number : Nat, total : Nat]
Fetches == [mode : {"none", "more", "all"}, read : Lists, total : SUBSET Nat, changed : BOOLEAN]

InLists(l) == Len(l.data) <= l.number * Limit

ListTypes ==
  /\ files \in Seq(Nat) /\ \A i \in 1..Len(files) : files[i] \in 1..newest
  /\ newest \in Nat /\ FirstFiles <= newest /\ Len(files) <= newest /\ newest <= FirstFiles + MaxChanges
  /\ pages \in Lists /\ InLists(pages)
  /\ fetch \in Fetches /\ InLists(fetch.read)
  /\ changed \in BOOLEAN /\ inView \in BOOLEAN /\ armed \in BOOLEAN
  /\ missed \in Nat /\ missed <= MaxFails

\* A list of the first rows, and of all of them when its last page is short.
Whole(l) ==
  /\ Len(l.data) <= Len(files) /\ l.data = SubSeq(files, 1, Len(l.data))
  /\ Len(l.data) = l.number * Limit \/ Len(l.data) = Len(files)
  /\ l.number > 0 => l.total = Len(files)

\* What is shown is whole, and what is fetched, unless files have come or gone.
WholeInv ==
  /\ ~changed => Whole(pages)
  /\ ~fetch.changed => Whole(fetch.read)
  /\ ~fetch.changed /\ fetch.read.number = 0 => \A t \in fetch.total : t = Len(files)
  /\ fetch.read.number = 0 => fetch.read = Library!NoPages
  /\ pages.number = 0 => pages = Library!NoPages

ListInv == ListTypes /\ WholeInv

\* The invariant of the library says what its property says.
LEMMA ListIsSound == ListInv => Library!TypeOK /\ Library!ListIsWhole
<1> SUFFICES ASSUME ListInv PROVE Library!TypeOK /\ Library!ListIsWhole
  OBVIOUS
<1> USE DEF ListInv
<1>1. Library!TypeOK
  <2>1. newest \in 0..(FirstFiles + MaxChanges) /\ missed \in 0..MaxFails
    BY InfiniteListAssumption DEF ListTypes, Library!InfiniteListAssumption
  <2>2. fetch.mode \in {"none", "more", "all"} /\ fetch.changed \in BOOLEAN
    BY DEF ListTypes, Fetches
  <2> QED
    BY <2>1, <2>2 DEF ListTypes, InLists, Library!TypeOK
<1>2. Library!ListIsWhole
  <2> SUFFICES ASSUME pages # Library!NoPages, ~changed
               PROVE  /\ Len(pages.data) <= Len(files) /\ pages.data = SubSeq(files, 1, Len(pages.data))
                      /\ ~Library!HasNext(pages) => pages.data = files
    BY DEF Library!ListIsWhole
  <2>1. Whole(pages) /\ pages.number > 0 /\ pages.data \in Seq(Nat) /\ Len(pages.data) \in Nat /\ Len(files) \in Nat
    BY DEF WholeInv, ListTypes, Lists
  <2>2. SubSeq(pages.data, 1, Len(pages.data)) = pages.data /\ SubSeq(files, 1, Len(files)) = files
    BY SubSeqFull DEF ListTypes, Lists
  <2>3. ASSUME ~Library!HasNext(pages) PROVE pages.data = files
    BY <2>1, <2>2, <2>3 DEF Whole, Library!HasNext
  <2> QED
    BY <2>1, <2>3 DEF Whole
<1> QED
  BY <1>1, <1>2

\* No pages are whole.
LEMMA NoListFits ==
  ASSUME files \in Seq(Nat)
  PROVE  /\ Library!NoPages \in Lists /\ InLists(Library!NoPages) /\ Whole(Library!NoPages)
         /\ Library!NoPages.number = 0
<1>1. Limit \in Nat /\ 0 * Limit = 0 /\ Len(files) \in Nat
  BY InfiniteListAssumption, LenProperties DEF Library!InfiniteListAssumption
<1>2. Library!NoPages.data = <<>> /\ Library!NoPages.number = 0 /\ Library!NoPages.total = 0
  BY DEF Library!NoPages
<1>3. <<>> \in Seq(Nat) /\ Len(<<>>) = 0 /\ SubSeq(files, 1, 0) = <<>>
  BY EmptySeq, SubSeqEmpty
<1>4. Library!NoPages \in Lists
  BY <1>3 DEF Lists, Library!NoPages
<1> QED
  BY <1>1, <1>2, <1>3, <1>4 DEF InLists, Whole

\* It holds at first.
LEMMA InitList == Library!Init => ListInv
<1> SUFFICES ASSUME Library!Init PROVE ListInv
  OBVIOUS
<1> USE InfiniteListAssumption DEF Library!InfiniteListAssumption
<1>1. files \in Seq(Nat) /\ Len(files) = FirstFiles /\ \A i \in 1..FirstFiles : files[i] \in 1..newest
  <2>1. files = [i \in 1..FirstFiles |-> FirstFiles + 1 - i] /\ newest = FirstFiles
    BY DEF Library!Init
  <2>2. files \in [1..FirstFiles -> Nat]
    BY <2>1
  <2> QED
    BY <2>1, <2>2, FunIsSeq
<1>2. fetch = [mode |-> "all", read |-> Library!NoPages, total |-> {}, changed |-> FALSE] /\ pages = Library!NoPages
  BY DEF Library!Init, Library!Fetch
<1>3. fetch \in Fetches
  BY <1>1, <1>2, NoListFits DEF Fetches
<1>4. ListTypes
  <2>1. /\ newest = FirstFiles /\ changed = FALSE /\ inView = TRUE /\ armed = FALSE /\ missed = 0
        /\ FirstFiles \in Nat /\ MaxChanges \in Nat /\ MaxFails \in Nat
    BY DEF Library!Init
  <2>2. pages \in Lists /\ InLists(pages) /\ fetch.read = Library!NoPages /\ InLists(fetch.read)
    BY <1>1, <1>2, NoListFits
  <2> QED
    <3>1. /\ files \in Seq(Nat) /\ \A i \in 1..Len(files) : files[i] \in 1..newest
          /\ newest \in Nat /\ FirstFiles <= newest /\ Len(files) <= newest /\ newest <= FirstFiles + MaxChanges
          /\ missed \in Nat /\ missed <= MaxFails
      BY <1>1, <2>1
    <3> QED
      BY <1>3, <2>1, <2>2, <3>1 DEF ListTypes
<1> QED
  BY <1>1, <1>2, <1>4, NoListFits DEF ListInv, WholeInv

\* The rows of a page.
LEMMA PageRows ==
  ASSUME files \in Seq(Nat), NEW offset \in Nat
  PROVE  LET to == IF offset + Limit < Len(files) THEN offset + Limit ELSE Len(files) IN
         /\ Library!PageAt(offset) = SubSeq(files, offset + 1, to)
         /\ Library!PageAt(offset) \in Seq(Nat) /\ Len(Library!PageAt(offset)) <= Limit
         /\ Len(Library!PageAt(offset)) = IF offset + 1 <= to THEN to - offset ELSE 0
<1> DEFINE to == IF offset + Limit < Len(files) THEN offset + Limit ELSE Len(files)
<1>1. Limit \in Nat \ {0} /\ Len(files) \in Nat
  BY InfiniteListAssumption, LenProperties DEF Library!InfiniteListAssumption
<1>2. Library!PageAt(offset) = SubSeq(files, offset + 1, to)
  BY DEF Library!PageAt
<1>3. to \in Nat /\ to <= Len(files) /\ to <= offset + Limit
  BY <1>1
<1> HIDE DEF to
<1>4. \A i \in (offset + 1)..to : files[i] \in Nat
  BY <1>1, <1>3
<1>5. /\ SubSeq(files, offset + 1, to) \in Seq(Nat)
      /\ Len(SubSeq(files, offset + 1, to)) = IF offset + 1 <= to THEN to - (offset + 1) + 1 ELSE 0
  BY <1>3, <1>4, SubSeqProperties
<1>6. /\ Len(Library!PageAt(offset)) <= Limit
      /\ Len(Library!PageAt(offset)) = IF offset + 1 <= to THEN to - offset ELSE 0
  BY <1>1, <1>2, <1>3, <1>5
<1> QED
  BY <1>2, <1>5, <1>6 DEF to

\* A page more: a whole list stays whole.
LEMMA PageMore ==
  ASSUME ListInv, fetch.total # {}
  PROVE  LET l == Library!WithPage(fetch.read) IN
         /\ l \in Lists /\ InLists(l) /\ l.number > 0
         /\ ~fetch.changed => Whole(l)
<1> USE DEF ListInv
<1> DEFINE l == fetch.read
           more == Library!PageAt(Library!RowOffset(l))
           t == IF l.number = 0 THEN CHOOSE u \in fetch.total : TRUE ELSE l.total
<1>1. Limit \in Nat \ {0} /\ files \in Seq(Nat) /\ Len(files) \in Nat
  BY InfiniteListAssumption DEF Library!InfiniteListAssumption, ListTypes
<1>2. /\ l \in Lists /\ InLists(l) /\ l.data \in Seq(Nat) /\ Len(l.data) \in Nat /\ l.number \in Nat /\ l.total \in Nat
      /\ fetch.total \in SUBSET Nat
  BY DEF ListTypes, Fetches, Lists
<1>3. l.number * Limit \in Nat /\ (l.number + 1) * Limit = l.number * Limit + Limit
  BY <1>1, <1>2
<1>4. Library!RowOffset(l) \in {Len(l.data), l.number * Limit} /\ Library!RowOffset(l) \in Nat
  BY <1>2, <1>3 DEF Library!RowOffset
<1>5. t \in Nat /\ (~fetch.changed => t = Len(files))
  BY <1>2 DEF WholeInv, Whole
<1>6. Library!WithPage(l) = [data |-> l.data \o more, number |-> l.number + 1, total |-> t]
  BY DEF Library!WithPage
<1> DEFINE offset == Library!RowOffset(l)
           to == IF offset + Limit < Len(files) THEN offset + Limit ELSE Len(files)
<1>7. /\ more = SubSeq(files, offset + 1, to) /\ more \in Seq(Nat) /\ Len(more) <= Limit
      /\ Len(more) = IF offset + 1 <= to THEN to - offset ELSE 0
  BY <1>1, <1>4, PageRows
<1>8. offset \in Nat /\ to \in Nat /\ to <= Len(files) /\ to <= offset + Limit /\ (to < Len(files) => to = offset + Limit)
  BY <1>1, <1>4
<1>9. l.data \o more \in Seq(Nat) /\ Len(l.data \o more) = Len(l.data) + Len(more)
  BY <1>2, <1>7, ConcatProperties
<1>10. offset = Len(l.data) \/ offset = l.number * Limit
  BY <1>4
<1> HIDE DEF l, more, t, offset, to
<1> DEFINE w == [data |-> l.data \o more, number |-> l.number + 1, total |-> t]
<1>11. w \in Lists /\ w.data = l.data \o more /\ w.number = l.number + 1 /\ w.total = t
  BY <1>2, <1>5, <1>9 DEF Lists
<1> HIDE DEF w
<1>12. InLists(w) /\ w.number > 0
  <2>1. Len(l.data) <= l.number * Limit
    BY <1>2 DEF InLists
  <2> QED
    <3>1. w.number * Limit = l.number * Limit + Limit
      BY <1>3, <1>11
    <3>2. Len(w.data) = Len(l.data) + Len(more)
      BY <1>9, <1>11
    <3>3. Len(more) \in Nat /\ Len(more) <= Limit
      BY <1>7, LenProperties
    <3> QED
      BY <1>1, <1>2, <1>3, <1>11, <2>1, <3>1, <3>2, <3>3 DEF InLists
<1>13. ASSUME ~fetch.changed PROVE Whole(w)
  <2>1. Whole(l)
    BY <1>13 DEF WholeInv, l
  <2>2. /\ Len(l.data) <= Len(files) /\ l.data = SubSeq(files, 1, Len(l.data))
        /\ Len(l.data) = l.number * Limit \/ Len(l.data) = Len(files)
        /\ Len(l.data) <= l.number * Limit
    BY <1>2, <2>1 DEF Whole, InLists
  <2>3. CASE Len(l.data) = Len(files)
    <3>1. offset >= Len(files)
      BY <1>1, <1>2, <1>3, <1>8, <1>10, <2>2, <2>3
    <3>2. Len(more) = 0
      BY <1>1, <1>7, <1>8, <3>1
    <3>3. more = <<>>
      BY <1>7, <3>2, EmptySeq
    <3>4. w.data = l.data
      BY <1>2, <1>11, <3>3, ConcatEmptySeq
    <3> QED
      BY <1>5, <1>11, <1>13, <2>2, <2>3, <3>4 DEF Whole
  <2>4. CASE Len(l.data) # Len(files)
    <3>1. offset = Len(l.data) /\ Len(l.data) = l.number * Limit /\ offset < Len(files)
      BY <1>1, <1>2, <1>10, <2>2, <2>4
    <3>2. Len(more) = to - offset /\ offset < to
      <4>1. offset < to
        BY <1>1, <1>8, <3>1
      <4>2. offset + 1 <= to
        BY <1>8, <4>1
      <4> QED
        BY <1>7, <4>1, <4>2
    <3>3. l.data \o more = SubSeq(files, 1, to)
      <4>1. 1 \in 1..Len(files) + 1 /\ offset \in 0..Len(files) /\ to \in offset..Len(files)
        BY <1>1, <1>8, <3>1, <3>2
      <4>2. 1 - 1 = 0
        OBVIOUS
      <4>3. SubSeq(files, 1, offset) \o SubSeq(files, offset + 1, to) = SubSeq(files, 1, to)
        BY <1>1, <4>1, <4>2, ConcatAdjacentSubSeq
      <4> QED
        BY <1>7, <2>2, <3>1, <4>3
    <3>4. Len(w.data) = to
      BY <1>2, <1>8, <1>9, <1>11, <3>1, <3>2
    <3>5. to = Len(files) \/ to = (l.number + 1) * Limit
      BY <1>1, <1>3, <1>8, <3>1
    <3> QED
      BY <1>5, <1>8, <1>11, <1>13, <3>3, <3>4, <3>5 DEF Whole
  <2> QED
    BY <2>3, <2>4
<1> QED
  BY <1>6, <1>11, <1>12, <1>13 DEF w, l

\* A file comes or goes: what is shown and what is fetched are noted as old.
LEMMA ListChanges ==
  ASSUME ListInv, Library!Touched, files' \in Seq(1..newest'), newest' \in Nat,
         newest <= newest', Len(files') <= newest', newest' <= FirstFiles + MaxChanges
  PROVE  ListInv'
<1> USE DEF ListInv
<1>1. /\ changed' = TRUE /\ fetch' = [fetch EXCEPT !.changed = TRUE] /\ UNCHANGED <<pages, inView, armed, missed>>
  BY DEF Library!Touched
<1>2. /\ fetch' \in Fetches /\ fetch'.changed = TRUE /\ fetch'.read = fetch.read
  BY <1>1 DEF ListTypes, Fetches
<1>3. 1..newest' \subseteq Nat
  OBVIOUS
<1>4. files' \in Seq(Nat) /\ \A i \in 1..Len(files') : files'[i] \in 1..newest'
  BY <1>3, SeqMonotonic
<1>5. FirstFiles <= newest'
  BY InfiniteListAssumption DEF ListTypes, Library!InfiniteListAssumption
<1>6. ListTypes'
  BY <1>1, <1>2, <1>4, <1>5 DEF ListTypes, InLists
<1>7. WholeInv'
  BY <1>1, <1>2 DEF WholeInv
<1> QED
  BY <1>6, <1>7

\* Every step of the library keeps its invariant.
LEMMA ListKeeps == ListInv /\ Library!Next => ListInv'
<1> SUFFICES ASSUME ListInv, Library!Next PROVE ListInv'
  OBVIOUS
<1> USE DEF ListInv
<1>0. /\ Limit \in Nat \ {0} /\ FirstFiles \in Nat /\ MaxChanges \in Nat /\ MaxFails \in Nat
      /\ files \in Seq(Nat) /\ Len(files) \in Nat /\ newest \in Nat /\ fetch \in Fetches /\ pages \in Lists
  BY InfiniteListAssumption DEF Library!InfiniteListAssumption, ListTypes
<1>1. files \in Seq(1..newest)
  <2>1. files \in [1..Len(files) -> 1..newest]
    BY <1>0 DEF ListTypes
  <2> QED
    BY <1>0, <2>1, FunIsSeq
<1>2. \A mode \in {"none", "more", "all"}, l \in Lists, since \in BOOLEAN :
        LET f == Library!Fetch(mode, l, since) IN
        f \in Fetches /\ f.read = l /\ f.total = {} /\ f.changed = since
  BY DEF Library!Fetch, Fetches
<1>3. /\ Library!NoPages \in Lists /\ InLists(Library!NoPages) /\ Whole(Library!NoPages)
      /\ Library!NoPages.number = 0
  BY <1>0, NoListFits
<1>4. /\ Library!Idle \in Fetches /\ Library!Idle.read = Library!NoPages /\ Library!Idle.total = {}
      /\ Library!Idle.changed = FALSE
  BY <1>2, <1>3 DEF Library!Idle
<1>5. CASE Library!Counts
  <2>1. /\ fetch' = [fetch EXCEPT !.total = {Len(files)}, !.changed = fetch.changed /\ fetch.read # Library!NoPages]
        /\ UNCHANGED <<files, newest, pages, changed, inView, armed, missed>>
    BY <1>5 DEF Library!Counts
  <2>2. /\ fetch' \in Fetches /\ fetch'.read = fetch.read /\ fetch'.total = {Len(files)}
        /\ fetch'.changed = (fetch.changed /\ fetch.read # Library!NoPages)
    BY <1>0, <2>1 DEF Fetches
  <2>3. ListTypes'
    BY <2>1, <2>2 DEF ListTypes, InLists
  <2>4. WholeInv'
    BY <1>3, <2>1, <2>2 DEF WholeInv, Whole
  <2> QED
    BY <2>3, <2>4
<1>6. CASE Library!Reads
  <2> DEFINE l == Library!WithPage(fetch.read)
  <2>1. fetch.total # {} /\ UNCHANGED <<files, newest, missed>>
    BY <1>6 DEF Library!Reads
  <2>2. l \in Lists /\ InLists(l) /\ l.number > 0 /\ (~fetch.changed => Whole(l))
    BY <2>1, PageMore
  <2>3. \/ /\ fetch' = Library!Fetch("all", l, fetch.changed)
           /\ UNCHANGED <<pages, changed, inView, armed>>
        \/ /\ pages' = l /\ changed' = fetch.changed /\ fetch' = Library!Idle
           /\ inView' \in {inView, FALSE}
           /\ armed' \in BOOLEAN
    BY <1>6 DEF Library!Reads
  <2>4. fetch.changed \in BOOLEAN /\ l.number # 0
    BY <1>0, <2>2 DEF Fetches, Lists
  <2> HIDE DEF l
  <2>5. CASE /\ fetch' = Library!Fetch("all", l, fetch.changed)
             /\ UNCHANGED <<pages, changed, inView, armed>>
    <3>1. fetch' \in Fetches /\ fetch'.read = l /\ fetch'.changed = fetch.changed
      BY <1>2, <2>2, <2>4, <2>5
    <3>2. ListTypes'
      BY <2>1, <2>2, <2>5, <3>1 DEF ListTypes, InLists
    <3>3. WholeInv'
      BY <2>1, <2>2, <2>4, <2>5, <3>1 DEF WholeInv, Whole
    <3> QED
      BY <3>2, <3>3
  <2>6. CASE /\ pages' = l /\ changed' = fetch.changed /\ fetch' = Library!Idle
             /\ inView' \in {inView, FALSE}
             /\ armed' \in BOOLEAN
    <3>1. ListTypes'
      BY <1>3, <1>4, <2>1, <2>2, <2>4, <2>6 DEF ListTypes, InLists
    <3>2. WholeInv'
      BY <1>3, <1>4, <2>1, <2>2, <2>4, <2>6 DEF WholeInv, Whole
    <3> QED
      BY <3>1, <3>2
  <2> QED
    BY <2>3, <2>5, <2>6
<1>7. CASE Library!SentinelSeen
  <2>1. /\ \/ fetch' = Library!Fetch("more", pages, changed)
           \/ UNCHANGED fetch
        /\ armed' \in BOOLEAN /\ UNCHANGED <<files, newest, pages, changed, inView, missed>>
    BY <1>7 DEF Library!SentinelSeen
  <2>2. CASE fetch' = Library!Fetch("more", pages, changed)
    <3>1. fetch' \in Fetches /\ fetch'.read = pages /\ fetch'.changed = changed /\ fetch'.total = {}
      BY <1>0, <1>2, <2>2 DEF ListTypes
    <3>2. ListTypes'
      BY <2>1, <3>1 DEF ListTypes, InLists
    <3> QED
      BY <2>1, <3>1, <3>2 DEF WholeInv, Whole
  <2>3. CASE UNCHANGED fetch
    <3>1. ListTypes'
      BY <2>1, <2>3 DEF ListTypes, InLists
    <3> QED
      BY <2>1, <2>3, <3>1 DEF WholeInv, Whole
  <2> QED
    BY <2>1, <2>2, <2>3
<1>8. CASE Library!Scrolls
  <2>1. inView' \in BOOLEAN /\ armed' \in BOOLEAN /\ UNCHANGED <<files, newest, pages, fetch, changed, missed>>
    BY <1>8 DEF Library!Scrolls, Library!HasNext
  <2>2. ListTypes'
    BY <2>1 DEF ListTypes, InLists
  <2> QED
    BY <2>1, <2>2 DEF WholeInv, Whole
<1>9. CASE Library!Refetch
  <2>1. fetch' = Library!Fetch("all", Library!NoPages, FALSE)
        /\ UNCHANGED <<files, newest, pages, changed, inView, armed, missed>>
    BY <1>9 DEF Library!Refetch
  <2>2. fetch' \in Fetches /\ fetch'.read = Library!NoPages /\ fetch'.total = {}
    BY <1>2, <1>3, <2>1
  <2>3. ListTypes'
    BY <1>3, <2>1, <2>2 DEF ListTypes, InLists
  <2> QED
    BY <1>3, <2>1, <2>2, <2>3 DEF WholeInv, Whole
<1>10. CASE Library!FetchFails
  <2>1. /\ missed < MaxFails /\ missed' = missed + 1 /\ fetch' = Library!Idle /\ armed' \in BOOLEAN
        /\ UNCHANGED <<files, newest, pages, changed, inView>>
    BY <1>10 DEF Library!FetchFails, ListTypes
  <2>2. ListTypes'
    BY <1>0, <1>3, <1>4, <2>1 DEF ListTypes, InLists
  <2> QED
    BY <1>3, <1>4, <2>1, <2>2 DEF WholeInv, Whole
<1>11. CASE Library!Confirmed
  <2>1. /\ (newest - FirstFiles) + (newest - Len(files)) < MaxChanges
        /\ newest' = newest + 1 /\ files' = <<newest + 1>> \o files /\ Library!Touched
    BY <1>11 DEF Library!Confirmed, Library!Changes
  <2>2. files' \in Seq(1..newest') /\ Len(files') = Len(files) + 1
    <3>1. 1..newest \subseteq 1..newest' /\ newest + 1 \in 1..newest'
      BY <1>0, <2>1
    <3>2. <<newest + 1>> \in Seq(1..newest') /\ Len(<<newest + 1>>) = 1
      BY <3>1
    <3>3. files \in Seq(1..newest')
      BY <1>1, <3>1, SeqMonotonic
    <3>4. <<newest + 1>> \o files \in Seq(1..newest') /\ Len(<<newest + 1>> \o files) = 1 + Len(files)
      BY <3>2, <3>3, ConcatProperties
    <3> QED
      BY <1>0, <2>1, <3>4
  <2>3. Len(files) <= newest /\ FirstFiles <= newest
    BY DEF ListTypes
  <2> QED
    BY <1>0, <2>1, <2>2, <2>3, ListChanges
<1>12. ASSUME NEW i \in DOMAIN files, Library!Deleted(i) PROVE ListInv'
  <2>1. files' = SubSeq(files, 1, i - 1) \o SubSeq(files, i + 1, Len(files)) /\ newest' = newest /\ Library!Touched
    BY <1>12 DEF Library!Deleted
  <2>2. i \in 1..Len(files)
    BY <1>0, <1>12
  <2>3. files' \in Seq(1..newest') /\ Len(files') = Len(files) - 1
    BY <1>1, <2>1, <2>2, Without
  <2>4. Len(files) <= newest /\ newest <= FirstFiles + MaxChanges
    BY DEF ListTypes
  <2> QED
    BY <1>0, <2>1, <2>3, <2>4, ListChanges
<1> QED
  BY <1>5, <1>6, <1>7, <1>8, <1>9, <1>10, <1>11, <1>12 DEF Library!Next

\* The uploads stay sound through every step, theirs or not.
LEMMA FilesKeep ==
  ASSUME part = "uploads" => SendingInv, [Next]_vars
  PROVE  part' = "uploads" => SendingInv'
<1>1. part' = part
  BY DEF Next, vars
<1>2. ASSUME part = "uploads" PROVE SendingInv'
  <2>1. CASE Sending!Next
    BY <1>2, <2>1, SendingKeeps
  <2>2. CASE UNCHANGED sendingVars
    <3>1. UNCHANGED <<upload, starts, cancelled, aborted, flying, next, recorded, landed, debris, object,
                      sending, onScreen, failures, blamed>>
      BY <2>2 DEF sendingVars
    <3> QED
      BY <1>2, <3>1 DEF SendingInv, Sending!TypeOK, Open, PartsInv, Sending!WholeOrNothing, Sending!CancelsOnlyItself
  <2> QED
    BY <1>2, <2>1, <2>2 DEF Next, Beside, Dashboard, vars, dashboardVars
<1> QED
  BY <1>1, <1>2

\* Whatever is sent, cancelled, retried or stopped: an uploaded file is whole or
\* not there, and a cancel stops no other file; and the list of the library is
\* whole however its pages are read, as long as nothing is added or removed.
THEOREM FilesAreWhole == Spec => []FilesHold
<1> DEFINE Inv == (part = "uploads" => SendingInv) /\ (part = "library" => ListInv)
<1>1. Init => Inv
  BY InitSending, InitList DEF Init
<1>2. Inv /\ [Next]_vars => Inv'
  <2> SUFFICES ASSUME Inv, [Next]_vars PROVE Inv'
    OBVIOUS
  <2>1. part' = part
    BY DEF Next, vars
  <2>2. CASE part = "uploads"
    BY <2>1, <2>2, FilesKeep
  <2>3. CASE part = "library"
    <3>1. CASE Library!Next
      BY <2>1, <2>3, <3>1, ListKeeps
    <3>2. CASE UNCHANGED listVars
      <4>1. UNCHANGED <<files, newest, pages, fetch, changed, inView, armed, missed>>
        BY <3>2 DEF listVars
      <4>2. ListInv'
        BY <2>3, <4>1 DEF ListInv, ListTypes, WholeInv, Whole
      <4> QED
        BY <2>1, <2>3, <4>2
    <3> QED
      BY <2>3, <3>1, <3>2 DEF Next, Beside, Dashboard, vars, dashboardVars
  <2> QED
    BY <2>1, <2>2, <2>3
<1>3. Inv => FilesHold
  BY ListIsSound DEF FilesHold, SendingInv
<1> QED
  BY <1>1, <1>2, <1>3, PTL DEF Spec

-----------------------------------------------------------------------------
(* Sets *)

Kinds == {"image", "video", "audio", "other"}
KindFor(i) == KindOf[ObjectOf[i]]
Todos == [item : Items, width : Nat \cup {None}, kind : Kinds]
Generations == [at : {"idle", "adding"}, todo : SUBSET Todos]
SetJobs == [id : Items \X {0}, item : Items, width : Nat \ {0}, kind : Kinds, at : {"waiting", "completed", "failed"}]

SetTypes ==
  /\ sets \subseteq Arranging!SetIds /\ status \in [Items -> {"new", "in", "out"}]
  /\ gone \subseteq Arranging!Objects /\ probed \subseteq Arranging!Objects
  /\ widths \in [Items -> Nat \cup {None}] /\ made \in [Arranging!Keys -> Nat \cup {None}]
  /\ generations \in [Doors -> Generations]
  /\ queue \subseteq SetJobs /\ \A j \in queue : j.id = <<j.item, 0>>
  /\ \A i, j \in queue : i.item = j.item => i = j
  /\ count \in 0 .. MaxCalls /\ broken \in 0 .. MaxFaults /\ removals \in 0 .. MaxRemovals
  /\ answered \subseteq Items /\ renders \in [Items -> {0, 1}]

\* The widths the row of an item comes to: what it asked, and what that fits to.
Fitted(i) == IF Asked[i] = None THEN {None} ELSE {Asked[i], Arranging!Fit(KindFor(i), Asked[i])}

\* What is known of an item whose kind was known whenever it was read: its row,
\* what the doors have read of it, and its job.
WidthsInv(i) ==
  /\ widths[i] \in Fitted(i) \cup {None}
  /\ \A d \in Doors : \A t \in generations[d].todo :
       t.item = i => t.width \in Fitted(i) \cup {None} /\ t.kind = KindFor(i)
  /\ \A j \in queue : j.item = i => Asked[i] # None /\ j.width \in Fitted(i) /\ j.kind = KindFor(i)

\* A rendering leaves its job completed, until it is forgotten.
RenderInv == \A i \in Items : renders[i] # 0 => \E j \in queue : j.item = i /\ j.at = "completed"

SetsInv ==
  /\ SetTypes /\ RenderInv /\ Arranging!GeneratedFits
  /\ \A i \in Items : Arranging!Key(i) \notin early => WidthsInv(i)

LEMMA SetConstants ==
  /\ \A i \in Items : /\ Arranging!Key(i) \in Arranging!Keys /\ ObjectOf[i] \in Arranging!Objects
                      /\ KindFor(i) \in Kinds /\ Asked[i] \in (Nat \ {0}) \cup {None}
                      /\ Arranging!Key(i)[1] = ObjectOf[i] /\ SetOf[i] \in Arranging!SetIds
  /\ \A o \in Arranging!Objects : Arranging!KindRead(o) \in Kinds
  /\ Source \in Nat \ {0} /\ MaxCalls \in Nat /\ MaxFaults \in Nat /\ MaxRemovals \in Nat
<1> USE SetsAssumption DEF Arranging!SetsAssumption
<1>1. \A i \in Items : Arranging!Key(i) \in Arranging!Keys /\ ObjectOf[i] \in Arranging!Objects /\ SetOf[i] \in Arranging!SetIds
  BY DEF Arranging!Keys, Arranging!Objects, Arranging!SetIds
<1>2. \A i \in Items : Arranging!Key(i)[1] = ObjectOf[i]
  BY DEF Arranging!Key
<1>3. KindOf \in [Arranging!Objects -> Kinds]
  BY DEF Kinds
<1> QED
  BY <1>1, <1>2, <1>3 DEF KindFor, Arranging!KindRead, Kinds

\* A fitted width is a width, and fits to the same again: generating an item
\* from what its row came to asks for nothing else.
LEMMA FitAgain ==
  ASSUME NEW kind_ \in Kinds, NEW w \in Nat \ {0}
  PROVE  /\ Arranging!Fit(kind_, w) \in Nat
         /\ LET v == Arranging!Fit(kind_, w) IN v # 0 => Arranging!Fit(kind_, v) = v
<1>1. Source \in Nat \ {0}
  BY SetConstants
<1>2. CASE kind_ = "image"
  <2>1. \A v \in Nat : Arranging!Fit(kind_, v) = IF v < Source THEN v ELSE Source
    BY <1>2 DEF Arranging!Fit
  <2> QED
    BY <1>1, <2>1
<1>3. CASE kind_ = "audio"
  BY <1>3 DEF Arranging!Fit
<1>4. CASE kind_ \in {"video", "other"}
  BY <1>4 DEF Arranging!Fit
<1> QED
  BY <1>2, <1>3, <1>4 DEF Kinds

LEMMA FitsAsAsked ==
  ASSUME NEW i \in Items, Asked[i] # None, NEW w \in Fitted(i), w # 0
  PROVE  Arranging!Fit(KindFor(i), w) = Arranging!Fit(KindFor(i), Asked[i])
<1>1. Asked[i] \in Nat \ {0} /\ KindFor(i) \in Kinds
  BY SetConstants
<1>2. w \in {Asked[i], Arranging!Fit(KindFor(i), Asked[i])}
  BY DEF Fitted
<1> QED
  BY <1>1, <1>2, FitAgain

LEMMA SetsAreSound == SetsInv => Arranging!TypeOK /\ Arranging!GeneratedFits /\ Arranging!RendersOnce
<1> SUFFICES ASSUME SetsInv PROVE Arranging!TypeOK /\ Arranging!RendersOnce
  BY DEF SetsInv
<1>1. \A i, j \in queue : i.id = j.id => i = j
  <2> SUFFICES ASSUME NEW i \in queue, NEW j \in queue, i.id = j.id PROVE i = j
    OBVIOUS
  <2>1. <<i.item, 0>> = <<j.item, 0>>
    BY DEF SetsInv, SetTypes
  <2>2. i.item = j.item
    BY <2>1
  <2> QED
    BY <2>2 DEF SetsInv, SetTypes
<1>2. \A j \in queue : j.item \in Items /\ j.at \in {"waiting", "completed", "failed"}
  BY DEF SetsInv, SetTypes, SetJobs
<1>3. Arranging!RendersOnce
  BY DEF SetsInv, SetTypes, Arranging!RendersOnce
<1> QED
  BY <1>1, <1>2, <1>3 DEF SetsInv, SetTypes, Arranging!TypeOK

LEMMA InitSets == Arranging!Init => SetsInv
<1> SUFFICES ASSUME Arranging!Init PROVE SetsInv
  OBVIOUS
<1> USE DEF Arranging!Init
<1>1. generations \in [Doors -> Generations] /\ \A d \in Doors : generations[d].todo = {}
  BY DEF Generations, Arranging!NoCall
<1>2. widths \in [Items -> Nat \cup {None}] /\ \A i \in Items : widths[i] \in {Asked[i], None}
  BY SetConstants
<1>3. SetTypes
  BY <1>1, <1>2, SetConstants DEF SetTypes
<1>4. \A i \in Items : WidthsInv(i)
  BY <1>1, <1>2 DEF WidthsInv, Fitted
<1>5. RenderInv /\ Arranging!GeneratedFits
  BY DEF RenderInv, Arranging!GeneratedFits
<1> QED
  BY <1>3, <1>4, <1>5 DEF SetsInv

\* A change of the catalogue leaves the jobs and what was read.
LEMMA CatalogueKeeps ==
  ASSUME SetsInv, UNCHANGED <<generations, queue, made, count, broken, early, renders>>,
         sets' \subseteq sets, status' \in [Items -> {"new", "in", "out"}],
         gone' \subseteq Arranging!Objects, probed' \subseteq Arranging!Objects,
         widths' \in [Items -> Nat \cup {None}], \A i \in Items : widths'[i] \in {widths[i], Asked[i], None},
         removals' \in 0 .. MaxRemovals, answered' \subseteq Items
  PROVE  SetsInv'
<1>1. SetTypes'
  BY DEF SetsInv, SetTypes
<1>2. ASSUME NEW i \in Items, Arranging!Key(i) \notin early PROVE WidthsInv(i)'
  <2>1. WidthsInv(i)
    BY <1>2 DEF SetsInv
  <2>2. widths'[i] \in Fitted(i) \cup {None}
    BY <2>1 DEF WidthsInv, Fitted
  <2> QED
    BY <2>1, <2>2 DEF WidthsInv
<1>3. RenderInv' /\ Arranging!GeneratedFits'
  BY DEF SetsInv, RenderInv, Arranging!GeneratedFits
<1> QED
  BY <1>1, <1>2, <1>3 DEF SetsInv

LEMMA CatalogueSteps ==
  SetsInv /\ (Arranging!AddItem \/ Arranging!RemoveItem \/ Arranging!DeleteSet \/ Arranging!DeleteObject \/ Arranging!Probe) => SetsInv'
<1> SUFFICES ASSUME SetsInv PROVE (Arranging!AddItem \/ Arranging!RemoveItem \/ Arranging!DeleteSet \/ Arranging!DeleteObject \/ Arranging!Probe) => SetsInv'
  OBVIOUS
<1>0. SetTypes
  BY DEF SetsInv
<1>1. CASE Arranging!AddItem
  <2>1. PICK i \in Items : status' = [status EXCEPT ![i] = "in"] /\ widths' = [widths EXCEPT ![i] = Asked[i]]
    BY <1>1 DEF Arranging!AddItem
  <2>2. UNCHANGED <<sets, gone, probed, generations, queue, made, count, broken, removals, answered, early, renders>>
    BY <1>1 DEF Arranging!AddItem, Arranging!history
  <2>3. status' \in [Items -> {"new", "in", "out"}] /\ widths' \in [Items -> Nat \cup {None}]
        /\ \A h \in Items : widths'[h] \in {widths[h], Asked[h]}
    BY <1>0, <2>1, SetConstants DEF SetTypes
  <2> QED
    BY <1>0, <2>2, <2>3, CatalogueKeeps DEF SetTypes
<1>2. ASSUME NEW out \in SUBSET Items, Arranging!Leave(out), sets' \subseteq sets PROVE SetsInv'
  <2>1. /\ status' = [i \in Items |-> IF i \in out THEN "out" ELSE status[i]]
        /\ widths' = [i \in Items |-> IF i \in out THEN None ELSE widths[i]]
        /\ removals < MaxRemovals /\ removals' = removals + 1 /\ answered' \subseteq answered
        /\ UNCHANGED <<gone, probed, queue, generations, made, count, broken, early, renders>>
    BY <1>2 DEF Arranging!Leave, Arranging!Removal
  <2>2. status' \in [Items -> {"new", "in", "out"}] /\ widths' \in [Items -> Nat \cup {None}]
        /\ \A h \in Items : widths'[h] \in {widths[h], None}
    BY <1>0, <2>1 DEF SetTypes
  <2>3. removals' \in 0 .. MaxRemovals
    BY <1>0, <2>1, SetConstants DEF SetTypes
  <2> QED
    BY <1>0, <1>2, <2>1, <2>2, <2>3, CatalogueKeeps DEF SetTypes
<1>3. CASE Arranging!RemoveItem
  BY <1>2, <1>3 DEF Arranging!RemoveItem, Arranging!present
<1>4. CASE Arranging!DeleteSet
  BY <1>2, <1>4 DEF Arranging!DeleteSet, Arranging!present
<1>5. CASE Arranging!DeleteObject
  <2>1. /\ gone' \subseteq Arranging!Objects /\ answered' \subseteq answered
        /\ removals < MaxRemovals /\ removals' = removals + 1
        /\ UNCHANGED <<sets, widths, status, probed, queue, generations, made, count, broken, early, renders>>
    BY <1>0, <1>5 DEF Arranging!DeleteObject, Arranging!Removal, SetTypes
  <2>2. removals' \in 0 .. MaxRemovals
    BY <1>0, <2>1, SetConstants DEF SetTypes
  <2> QED
    BY <1>0, <2>1, <2>2, CatalogueKeeps DEF SetTypes
<1>6. CASE Arranging!Probe
  <2>1. /\ probed' \subseteq Arranging!Objects
        /\ UNCHANGED <<sets, widths, status, gone, queue, generations, made, count, broken, removals, answered, early, renders>>
    BY <1>0, <1>6 DEF Arranging!Probe, Arranging!history, SetTypes
  <2> QED
    BY <1>0, <2>1, CatalogueKeeps DEF SetTypes
<1> QED
  BY <1>1, <1>3, <1>4, <1>5, <1>6

LEMMA GenerateKeeps == ASSUME SetsInv, NEW d \in Doors, Arranging!Generate(d) PROVE SetsInv'
<1>0. SetTypes
  BY DEF SetsInv
<1>1. PICK s \in sets :
        LET read == {i \in Arranging!present : SetOf[i] = s /\ ObjectOf[i] \notin gone}
        IN  /\ generations' = [generations EXCEPT ![d] = [at |-> "adding",
                 todo |-> {[item |-> i, width |-> widths[i], kind |-> Arranging!KindRead(ObjectOf[i])] : i \in read}]]
            /\ early' = early \cup {Arranging!Key(i) : i \in {j \in read : ObjectOf[j] \notin probed}}
  BY DEF Arranging!Generate
<1> DEFINE read == {i \in Arranging!present : SetOf[i] = s /\ ObjectOf[i] \notin gone}
           todos == {[item |-> i, width |-> widths[i], kind |-> Arranging!KindRead(ObjectOf[i])] : i \in read}
<1>2. /\ UNCHANGED <<sets, widths, status, gone, probed, removals, queue, made, broken, answered, renders>>
      /\ count < MaxCalls /\ count' = count + 1
  BY DEF Arranging!Generate, Arranging!catalogue
<1>3. read \subseteq Items
  BY DEF Arranging!present
<1>4. todos \subseteq Todos
  BY <1>0, <1>3, SetConstants DEF SetTypes, Todos
<1>5. /\ generations' \in [Doors -> Generations]
      /\ generations'[d].todo = todos /\ \A e \in Doors \ {d} : generations'[e] = generations[e]
  BY <1>0, <1>1, <1>4 DEF SetTypes, Generations
<1>6. SetTypes'
  BY <1>0, <1>2, <1>5, SetConstants DEF SetTypes
<1>7. ASSUME NEW i \in Items, Arranging!Key(i) \notin early' PROVE WidthsInv(i)'
  <2>1. WidthsInv(i)
    BY <1>1, <1>7 DEF SetsInv
  <2>2. i \in read => ObjectOf[i] \in probed
    BY <1>1, <1>7
  <2>3. \A t \in todos : t.item = i => t.width \in Fitted(i) \cup {None} /\ t.kind = KindFor(i)
    BY <2>1, <2>2 DEF WidthsInv, KindFor, Arranging!KindRead
  <2>4. \A e \in Doors : \A t \in generations'[e].todo :
          t.item = i => t.width \in Fitted(i) \cup {None} /\ t.kind = KindFor(i)
    BY <1>5, <2>1, <2>3 DEF WidthsInv
  <2> QED
    BY <1>2, <2>1, <2>4 DEF WidthsInv
<1>8. RenderInv' /\ Arranging!GeneratedFits'
  BY <1>1, <1>2 DEF SetsInv, RenderInv, Arranging!GeneratedFits
<1> QED
  BY <1>6, <1>7, <1>8 DEF SetsInv

LEMMA EnqueueKeeps == ASSUME SetsInv, NEW d \in Doors, Arranging!Enqueue(d) PROVE SetsInv'
<1>0. SetTypes
  BY DEF SetsInv
<1>1. PICK t \in generations[d].todo :
        /\ generations' = [generations EXCEPT ![d].todo = @ \ {t}]
        /\ IF t.width \in {None, 0} THEN UNCHANGED <<queue, answered>>
           ELSE /\ Arranging!Queued([id |-> Arranging!JobId(t.item, count), item |-> t.item, width |-> t.width,
                                     kind |-> t.kind, at |-> "waiting"])
                /\ answered' = IF Arranging!Wanting(t.item) THEN answered \cup {t.item} ELSE answered
  BY DEF Arranging!Enqueue
<1>2. UNCHANGED <<sets, widths, status, gone, probed, removals, made, count, broken, early, renders>>
  BY DEF Arranging!Enqueue, Arranging!catalogue
<1>3. t \in Todos
  BY <1>0 DEF SetTypes, Generations
<1> DEFINE job == [id |-> <<t.item, 0>>, item |-> t.item, width |-> t.width, kind |-> t.kind, at |-> "waiting"]
<1>4. /\ generations' \in [Doors -> Generations]
      /\ \A e \in Doors : generations'[e].todo \subseteq generations[e].todo
  BY <1>0, <1>1 DEF SetTypes, Generations
<1>5. /\ answered' \subseteq Items
      /\ \/ queue' = queue
         \/ /\ t.width \notin {None, 0} /\ queue' = queue \cup {job} /\ \A j \in queue : j.item # t.item
  <2>1. CASE t.width \in {None, 0}
    BY <1>0, <1>1, <2>1 DEF SetTypes
  <2>2. CASE t.width \notin {None, 0}
    <3>1. Arranging!Queued(job) /\ answered' \subseteq Items
      BY <1>0, <1>1, <1>3, <2>2 DEF SetTypes, Todos, Arranging!JobId
    <3>2. CASE \E j \in queue : j.id = job.id
      BY <3>1, <3>2 DEF Arranging!Queued
    <3>3. CASE ~\E j \in queue : j.id = job.id
      <4>1. queue' = queue \cup {job}
        BY <3>1, <3>3 DEF Arranging!Queued
      <4>2. \A j \in queue : j.item # t.item
        BY <1>0, <3>3 DEF SetTypes
      <4> QED
        BY <2>2, <3>1, <4>1, <4>2
    <3> QED
      BY <3>1, <3>2, <3>3
  <2> QED
    BY <2>1, <2>2
<1>6. t.width \notin {None, 0} => job \in SetJobs
  BY <1>3 DEF Todos, SetJobs
<1>6a. /\ job.item = t.item /\ job.id = <<job.item, 0>> /\ job.width = t.width /\ job.kind = t.kind
  OBVIOUS
<1> HIDE DEF job
<1>7. SetTypes'
  <2>1. queue' \subseteq SetJobs /\ \A j \in queue' : j.id = <<j.item, 0>>
    BY <1>0, <1>5, <1>6, <1>6a DEF SetTypes
  <2>2. \A i, j \in queue' : i.item = j.item => i = j
    BY <1>0, <1>5, <1>6a DEF SetTypes
  <2> QED
    BY <1>0, <1>2, <1>4, <1>5, <2>1, <2>2 DEF SetTypes
<1>8. ASSUME NEW i \in Items, Arranging!Key(i) \notin early PROVE WidthsInv(i)'
  <2>1. WidthsInv(i)
    BY <1>8 DEF SetsInv
  <2>2. \A j \in queue' : j.item = i => Asked[i] # None /\ j.width \in Fitted(i) /\ j.kind = KindFor(i)
    <3> SUFFICES ASSUME NEW j \in queue', j.item = i, j \notin queue
                 PROVE  Asked[i] # None /\ j.width \in Fitted(i) /\ j.kind = KindFor(i)
      BY <2>1 DEF WidthsInv
    <3>1. t.width \notin {None, 0} /\ j = job /\ t.item = i
      BY <1>5, <1>6a
    <3>2. t.width \in Fitted(i) /\ t.kind = KindFor(i)
      BY <2>1, <3>1 DEF WidthsInv
    <3> QED
      BY <1>6a, <3>1, <3>2 DEF Fitted
  <2> QED
    BY <1>2, <1>4, <2>1, <2>2 DEF WidthsInv
<1>9. RenderInv' /\ Arranging!GeneratedFits'
  BY <1>2, <1>5 DEF SetsInv, RenderInv, Arranging!GeneratedFits
<1> QED
  BY <1>2, <1>7, <1>8, <1>9 DEF SetsInv

LEMMA CallEnds ==
  ASSUME SetsInv, NEW d \in Doors, generations' = [generations EXCEPT ![d] = Arranging!NoCall],
         broken' \in 0 .. MaxFaults,
         UNCHANGED <<sets, widths, status, gone, probed, removals, queue, made, count, answered, early, renders>>
  PROVE  SetsInv'
<1>1. /\ generations' \in [Doors -> Generations]
      /\ \A e \in Doors : generations'[e].todo \subseteq generations[e].todo
  BY DEF SetsInv, SetTypes, Generations, Arranging!NoCall
<1>2. SetTypes'
  BY <1>1 DEF SetsInv, SetTypes
<1>3. \A i \in Items : Arranging!Key(i) \notin early => WidthsInv(i)'
  BY <1>1 DEF SetsInv, WidthsInv
<1>4. RenderInv' /\ Arranging!GeneratedFits'
  BY DEF SetsInv, RenderInv, Arranging!GeneratedFits
<1> QED
  BY <1>2, <1>3, <1>4 DEF SetsInv

\* A job that is settled takes its own place in the queue.
LEMMA JobSettles ==
  ASSUME SetsInv, NEW j \in queue, NEW to \in {"completed", "failed"}, Arranging!Ends(j, to)
  PROVE  LET done == [j EXCEPT !.at = to] IN
         /\ done \in SetJobs /\ done.item = j.item /\ done.width = j.width /\ done.kind = j.kind /\ done.at = to
         /\ queue' = (queue \ {j}) \cup {done}
         /\ queue' \subseteq SetJobs /\ \A i \in queue' : i.id = <<i.item, 0>>
         /\ \A h, i \in queue' : h.item = i.item => h = i
<1>1. j \in SetJobs /\ j.id = <<j.item, 0>>
  BY DEF SetsInv, SetTypes
<1> DEFINE done == [j EXCEPT !.at = to]
<1>2. /\ done \in SetJobs /\ done.item = j.item /\ done.width = j.width /\ done.kind = j.kind /\ done.at = to
      /\ done.id = j.id
  BY <1>1 DEF SetJobs
<1>3. queue' = (queue \ {j}) \cup {done}
  BY DEF Arranging!Ends
<1> HIDE DEF done
<1>4. queue' \subseteq SetJobs /\ \A i \in queue' : i.id = <<i.item, 0>>
  BY <1>1, <1>2, <1>3 DEF SetsInv, SetTypes
<1>5. \A h, i \in queue' : h.item = i.item => h = i
  BY <1>2, <1>3 DEF SetsInv, SetTypes
<1> QED
  BY <1>2, <1>3, <1>4, <1>5 DEF done

LEMMA RenderKeeps == ASSUME SetsInv, Arranging!Render PROVE SetsInv'
<1>0. SetTypes
  BY DEF SetsInv
<1>1. PICK j \in queue :
        /\ j.at = "waiting" /\ Arranging!Ends(j, "completed")
        /\ made' = [made EXCEPT ![Arranging!Key(j.item)] = Arranging!Fit(j.kind, j.width)]
        /\ widths' = IF j.item \in Arranging!present THEN [widths EXCEPT ![j.item] = Arranging!Fit(j.kind, j.width)] ELSE widths
        /\ renders' = [renders EXCEPT ![j.item] = @ + 1]
        /\ answered' = {i \in answered : Arranging!Key(i) # Arranging!Key(j.item)}
  BY DEF Arranging!Render
<1>2. UNCHANGED <<sets, status, gone, probed, generations, count, broken, removals, early>>
  BY DEF Arranging!Render
<1>3. j \in SetJobs /\ j.item \in Items /\ j.width \in Nat \ {0} /\ j.kind \in Kinds
  BY <1>0 DEF SetTypes, SetJobs
<1> DEFINE done == [j EXCEPT !.at = "completed"]
<1>4. /\ done.item = j.item /\ done.width = j.width /\ done.kind = j.kind /\ done.at = "completed"
      /\ queue' = (queue \ {j}) \cup {done}
      /\ queue' \subseteq SetJobs /\ \A i \in queue' : i.id = <<i.item, 0>>
      /\ \A h, i \in queue' : h.item = i.item => h = i
  BY <1>1, JobSettles
<1> HIDE DEF done
<1>5. Arranging!Fit(j.kind, j.width) \in Nat
  BY <1>3, FitAgain
<1>6. renders[j.item] = 0
  BY <1>0, <1>1, <1>3 DEF SetsInv, SetTypes, RenderInv
<1>7. SetTypes'
  <2>1. widths' \in [Items -> Nat \cup {None}] /\ made' \in [Arranging!Keys -> Nat \cup {None}]
    BY <1>0, <1>1, <1>5 DEF SetTypes
  <2>2. renders' = [renders EXCEPT ![j.item] = 1] /\ answered' \subseteq Items
    BY <1>0, <1>1, <1>6 DEF SetTypes
  <2>3. renders' \in [Items -> {0, 1}]
    BY <1>0, <2>2 DEF SetTypes
  <2> QED
    BY <1>0, <1>2, <1>4, <2>1, <2>2, <2>3 DEF SetTypes
<1>8. ASSUME Arranging!Key(j.item) \notin early
      PROVE  /\ Asked[j.item] # None /\ j.width \in Fitted(j.item) /\ j.kind = KindFor(j.item)
             /\ Arranging!Fit(j.kind, j.width) = Arranging!Fit(KindFor(j.item), Asked[j.item])
  BY <1>3, <1>8, FitsAsAsked DEF SetsInv, WidthsInv
<1>9. ASSUME NEW i \in Items, Arranging!Key(i) \notin early PROVE WidthsInv(i)'
  <2>1. WidthsInv(i)
    BY <1>9 DEF SetsInv
  <2>2. widths'[i] \in Fitted(i) \cup {None}
    <3>1. CASE widths'[i] = widths[i]
      BY <2>1, <3>1 DEF WidthsInv
    <3>2. CASE i = j.item /\ widths'[i] = Arranging!Fit(j.kind, j.width)
      BY <1>8, <1>9, <3>2 DEF Fitted
    <3> QED
      BY <1>0, <1>1, <1>3, <3>1, <3>2 DEF SetTypes
  <2>3. \A h \in queue' : h.item = i => Asked[i] # None /\ h.width \in Fitted(i) /\ h.kind = KindFor(i)
    BY <1>4, <2>1 DEF WidthsInv
  <2> QED
    BY <1>2, <2>1, <2>2, <2>3 DEF WidthsInv
<1>10. RenderInv'
  <2> SUFFICES ASSUME NEW i \in Items, renders'[i] # 0 PROVE \E h \in queue' : h.item = i /\ h.at = "completed"
    BY DEF RenderInv
  <2>1. CASE i = j.item
    BY <1>4, <2>1
  <2>2. CASE i # j.item
    <3>1. renders[i] # 0
      BY <1>0, <1>1, <2>2 DEF SetTypes
    <3> QED
      BY <1>4, <2>2, <3>1 DEF SetsInv, RenderInv
  <2> QED
    BY <2>1, <2>2
<1>11. Arranging!GeneratedFits'
  <2> SUFFICES ASSUME NEW k \in Arranging!Keys \ early, made'[k] # None
               PROVE  \E i \in Items : Arranging!Key(i) = k /\ Asked[i] # None /\ made'[k] = Arranging!Fit(KindOf[k[1]], Asked[i])
    BY <1>2 DEF Arranging!GeneratedFits
  <2>1. CASE k = Arranging!Key(j.item)
    <3>1. made'[k] = Arranging!Fit(j.kind, j.width)
      BY <1>0, <1>1, <2>1 DEF SetTypes
    <3>2. KindFor(j.item) = KindOf[k[1]]
      BY <1>3, <2>1, SetConstants DEF KindFor
    <3> QED
      BY <1>3, <1>8, <2>1, <3>1, <3>2
  <2>2. CASE k # Arranging!Key(j.item)
    <3>1. made'[k] = made[k]
      BY <1>0, <1>1, <2>2 DEF SetTypes
    <3> QED
      BY <3>1 DEF SetsInv, Arranging!GeneratedFits
  <2> QED
    BY <2>1, <2>2
<1> QED
  BY <1>2, <1>7, <1>9, <1>10, <1>11 DEF SetsInv

LEMMA GiveUpKeeps == ASSUME SetsInv, Arranging!GiveUp PROVE SetsInv'
<1>0. SetTypes
  BY DEF SetsInv
<1>1. PICK j \in queue :
        /\ j.at = "waiting" /\ Arranging!Ends(j, "failed")
        /\ IF ObjectOf[j.item] \in gone THEN broken' = broken ELSE broken < MaxFaults /\ broken' = broken + 1
        /\ answered' = answered \ {j.item}
  BY DEF Arranging!GiveUp
<1>2. UNCHANGED <<sets, widths, status, gone, probed, removals, generations, made, count, early, renders>>
  BY DEF Arranging!GiveUp, Arranging!catalogue
<1> DEFINE done == [j EXCEPT !.at = "failed"]
<1>3. /\ done.item = j.item /\ done.width = j.width /\ done.kind = j.kind
      /\ queue' = (queue \ {j}) \cup {done}
      /\ queue' \subseteq SetJobs /\ \A i \in queue' : i.id = <<i.item, 0>>
      /\ \A h, i \in queue' : h.item = i.item => h = i
  BY <1>1, JobSettles
<1> HIDE DEF done
<1>4. broken' \in 0 .. MaxFaults
  BY <1>0, <1>1, SetConstants DEF SetTypes
<1>5. SetTypes'
  BY <1>0, <1>1, <1>2, <1>3, <1>4 DEF SetTypes
<1>6. \A i \in Items : Arranging!Key(i) \notin early => WidthsInv(i)'
  BY <1>2, <1>3 DEF SetsInv, WidthsInv
<1>7. RenderInv' /\ Arranging!GeneratedFits'
  BY <1>1, <1>2, <1>3 DEF SetsInv, RenderInv, Arranging!GeneratedFits
<1> QED
  BY <1>2, <1>5, <1>6, <1>7 DEF SetsInv

LEMMA ForgetJobKeeps == ASSUME SetsInv, Arranging!Forget PROVE SetsInv'
<1>0. SetTypes
  BY DEF SetsInv
<1>1. PICK j \in queue : queue' = queue \ {j} /\ renders' = [renders EXCEPT ![j.item] = 0]
  BY DEF Arranging!Forget
<1>2. UNCHANGED <<sets, widths, status, gone, probed, removals, generations, made, count, broken, answered, early>>
  BY DEF Arranging!Forget, Arranging!catalogue
<1>3. SetTypes'
  <2>1. renders' \in [Items -> {0, 1}]
    BY <1>0, <1>1 DEF SetTypes
  <2> QED
    BY <1>0, <1>1, <1>2, <2>1 DEF SetTypes
<1>4. \A i \in Items : Arranging!Key(i) \notin early => WidthsInv(i)'
  BY <1>1, <1>2 DEF SetsInv, WidthsInv
<1>5. RenderInv'
  <2> SUFFICES ASSUME NEW i \in Items, renders'[i] # 0 PROVE \E h \in queue' : h.item = i /\ h.at = "completed"
    BY DEF RenderInv
  <2>1. i # j.item /\ renders[i] # 0
    BY <1>0, <1>1 DEF SetTypes
  <2> QED
    BY <1>1, <2>1 DEF SetsInv, RenderInv
<1>6. Arranging!GeneratedFits'
  BY <1>2 DEF SetsInv, Arranging!GeneratedFits
<1> QED
  BY <1>2, <1>3, <1>4, <1>5, <1>6 DEF SetsInv

LEMMA SetsKeep == SetsInv /\ Arranging!Next => SetsInv'
<1> SUFFICES ASSUME SetsInv, Arranging!Next PROVE SetsInv'
  OBVIOUS
<1>1. ASSUME NEW d \in Doors, Arranging!Answer(d) PROVE SetsInv'
  <2>1. broken' \in 0 .. MaxFaults
    BY <1>1 DEF Arranging!Answer, SetsInv, SetTypes
  <2> QED
    BY <1>1, <2>1, CallEnds DEF Arranging!Answer, Arranging!catalogue, Arranging!history
<1>2. ASSUME NEW d \in Doors, Arranging!Breaks(d) PROVE SetsInv'
  <2>1. broken' \in 0 .. MaxFaults
    BY <1>2, SetConstants DEF Arranging!Breaks, SetsInv, SetTypes
  <2> QED
    BY <1>2, <2>1, CallEnds DEF Arranging!Breaks, Arranging!catalogue, Arranging!history
<1> QED
  BY <1>1, <1>2, CatalogueSteps, GenerateKeeps, EnqueueKeeps, RenderKeeps, GiveUpKeeps, ForgetJobKeeps
     DEF Arranging!Next, Arranging!Works

-----------------------------------------------------------------------------
(* Storyboards *)

Distinct(s) == \A i, j \in 1 .. Len(s) : s[i] = s[j] => i = j

Written == UNION {[S -> Nat] : S \in SUBSET Storyboard!Clips}
Reorders ==
  [at : {"idle", "check", "writing", "moved", "failed", "refused"}, order : Seq(Storyboard!Clips), step : Nat,
   wrote : Written, held : SUBSET Storyboard!Clips]
Additions == [clip : New, order : Nat, at : {"sent", "added", "failed"}]

StoryTypes ==
  /\ place \in [Storyboard!Clips -> Nat \cup {None}] /\ hidden \subseteq Storyboard!Clips
  /\ view \in [Editors -> Seq(Storyboard!Clips)] /\ tx \in [Editors -> Reorders]
  /\ batch \in [Editors -> Seq(Additions)]
  /\ adding \in [clip : New \cup {None}, place : Int \cup {None}]
  /\ moves \in 0 .. MaxMoves /\ alien \in 0 .. MaxAlien
  /\ known \subseteq Editors /\ alone \subseteq Editors

\* Every clip added, and every write of others, may raise the highest position,
\* by the clips of a batch and one; all of them stay below where the first loop
\* of a reorder writes.
Raises == Cardinality(New \cap Storyboard!Live) + alien
Top == MaxPlace + Cardinality(Storyboard!Clips) + 1 + Raises * (Cardinality(New) + 1)

\* The unique index, on the committed positions.
Apart == \A c, d \in Storyboard!Live : place[c] = place[d] => c = d
TableInv == Apart /\ \A c \in Storyboard!Live : place[c] <= Top

\* A clip that is being added is being added once, and has no position before.
PendingInv ==
  /\ \A e \in Editors : \A i \in DOMAIN batch[e] :
       /\ batch[e][i].at = "sent" => place[batch[e][i].clip] = None /\ batch[e][i].order <= Top + Cardinality(New)
       /\ batch[e][i].clip # adding.clip
       /\ \A f \in Editors : \A j \in DOMAIN batch[f] : batch[e][i].clip = batch[f][j].clip => e = f /\ i = j
  /\ adding.clip # None => place[adding.clip] = None /\ adding.place \in -1 .. Top

\* What a reorder has written: on rows it holds; by the first loop or by the
\* second, when that has come by; where it sees no other row and where no other
\* reorder has written.
HoldsRows(e) == DOMAIN tx[e].wrote \subseteq tx[e].held /\ tx[e].held \subseteq Storyboard!Live
InLoop(e) ==
  \A c \in DOMAIN tx[e].wrote : \E i \in 1 .. Len(tx[e].order) :
    /\ tx[e].order[i] = c /\ tx[e].wrote[c] \in {i - 1, i - 1 + Offset}
    /\ tx[e].step >= Len(tx[e].order) + i => tx[e].wrote[c] = i - 1
SeesApart(e) ==
  \A c \in DOMAIN tx[e].wrote : \A d \in Storyboard!Live : Storyboard!Sees(e)[d] = tx[e].wrote[c] => c = d
WritesApart(e) ==
  \A f \in Storyboard!Busy \ {e} : \A c \in DOMAIN tx[e].wrote : \A d \in DOMAIN tx[f].wrote :
    tx[e].wrote[c] # tx[f].wrote[d]
WroteInv(e) == HoldsRows(e) /\ InLoop(e) /\ SeesApart(e) /\ WritesApart(e)

ReorderInv(e) ==
  /\ tx[e].at \in {"check", "writing"} => Distinct(tx[e].order) /\ tx[e].step <= 2 * Len(tx[e].order)
  /\ tx[e].at = "check" => tx[e] = [Storyboard!NoTx EXCEPT !.at = "check", !.order = tx[e].order]
  /\ tx[e].at = "writing" => WroteInv(e)

ViewInv(e) == Distinct(view[e]) /\ (e \in known => view[e] = Storyboard!InOrder(Storyboard!Shown))

\* A move that met no other: its order has all the clips there are.
MoveAlone(e) ==
  /\ tx[e].at \notin {"failed", "refused"}
  /\ tx[e].at \in {"check", "writing"} => batch[e] = <<>> /\ Storyboard!Range(tx[e].order) = Storyboard!Live
  /\ tx[e].at = "writing" =>
       /\ Storyboard!Busy = {e}
       /\ \A k \in 1 .. Len(tx[e].order) : k <= tx[e].step => tx[e].order[k] \in DOMAIN tx[e].wrote

\* An addition that met no other: its clips come after those there were, at
\* successive positions.
AddAlone(e) ==
  LET last == batch[e][1].order - 1
  IN  batch[e] # <<>> =>
        /\ tx[e].at = "idle" /\ Storyboard!Range(view[e]) \subseteq Storyboard!Live /\ last \in Nat
        /\ \A i \in DOMAIN batch[e] :
             /\ batch[e][i].order = last + i /\ batch[e][i].at # "failed"
             /\ batch[e][i].at = "added" => place[batch[e][i].clip] = last + i + 1
        /\ \A c \in Storyboard!Live :
             place[c] <= last \/ \E i \in DOMAIN batch[e] : batch[e][i].at = "added" /\ batch[e][i].clip = c

StoryInv ==
  /\ StoryTypes /\ TableInv /\ PendingInv
  /\ \A e \in Editors : ReorderInv(e) /\ ViewInv(e)
  /\ \A e \in alone : MoveAlone(e) /\ AddAlone(e)

LEMMA SetSizes ==
  /\ \A S : Storyboard!Cardinality(S) = Cardinality(S)
  /\ \A S : Storyboard!IsFiniteSet(S) <=> IsFiniteSet(S)
<1>1. \A S : Storyboard!Cardinality(S) = Cardinality(S)
  BY Zenon DEF Storyboard!Cardinality, Cardinality
<1>2. \A S : Storyboard!IsFiniteSet(S) <=> IsFiniteSet(S)
  BY Zenon DEF Storyboard!IsFiniteSet, IsFiniteSet
<1> QED
  BY <1>1, <1>2

LEMMA StoryConstants ==
  /\ IsFiniteSet(Storyboard!Clips) /\ IsFiniteSet(New) /\ New \subseteq Storyboard!Clips
  /\ Cardinality(Storyboard!Clips) \in Nat /\ Cardinality(New) \in Nat
  /\ None \notin Storyboard!Clips /\ None \notin Editors /\ None \notin Int
  /\ MaxMoves \in Nat /\ MaxAlien \in Nat /\ MaxPlace \in Nat /\ Offset \in Nat
  /\ Storyboard!Old = Storyboard!Range(FirstClips) /\ Storyboard!Old \cap New = {}
  /\ Storyboard!Clips = Storyboard!Old \cup New
<1> USE StoryboardsAssumption DEF Storyboard!StoryboardsAssumption
<1>1. FirstClips \in Surjection(1 .. Len(FirstClips), Storyboard!Range(FirstClips))
  <2>1. FirstClips \in [1 .. Len(FirstClips) -> Storyboard!Range(FirstClips)] /\ DOMAIN FirstClips = 1 .. Len(FirstClips)
    OBVIOUS
  <2>2. \A c \in Storyboard!Range(FirstClips) : \E i \in 1 .. Len(FirstClips) : FirstClips[i] = c
    BY <2>1 DEF Storyboard!Range
  <2> QED
    BY <2>1, <2>2 DEF Surjection
<1>2. IsFiniteSet(Storyboard!Range(FirstClips))
  <2>1. Len(FirstClips) \in Nat
    OBVIOUS
  <2> QED
    BY <1>1, <2>1, FS_Interval, FS_Surjection
<1>3. IsFiniteSet(Storyboard!Clips)
  BY <1>2, SetSizes, FS_Union DEF Storyboard!Clips, Storyboard!Old
<1>4. Cardinality(Storyboard!Clips) \in Nat /\ Cardinality(New) \in Nat
  BY <1>3, SetSizes, FS_CardinalityType
<1> QED
  BY <1>3, <1>4, SetSizes DEF Storyboard!Clips, Storyboard!Old

\* A sequence without repetitions is no longer than a set it takes from.
LEMMA DistinctLength ==
  ASSUME NEW S, IsFiniteSet(S), NEW s \in Seq(S), Distinct(s)
  PROVE  Len(s) <= Cardinality(S)
<1>1. s \in Injection(1 .. Len(s), S) /\ Len(s) \in Nat
  BY DEF Distinct, Injection, IsInjective
<1>2. Cardinality(1 .. Len(s)) = Len(s)
  <2>1. 1 \in Int /\ Len(s) \in Int /\ (1 > Len(s) => Len(s) = 0) /\ Len(s) - 1 + 1 = Len(s)
    BY <1>1
  <2> QED
    BY <2>1, FS_Interval
<1> QED
  BY <1>1, <1>2, FS_Injection

\* InOrder lists the clips of a set once each, the highest at the end.
LEMMA InOrderLists ==
  ASSUME StoryTypes, Apart, NEW S \in SUBSET Storyboard!Live
  PROVE  /\ Storyboard!InOrder(S) \in Seq(S) /\ Distinct(Storyboard!InOrder(S))
         /\ Storyboard!Range(Storyboard!InOrder(S)) = S
         /\ S # {} => Storyboard!Highest(S) \in Nat /\ \A c \in S : place[c] <= Storyboard!Highest(S)
         /\ S # {} => \E c \in S : Storyboard!Highest(S) = place[c]
<1> DEFINE n == Cardinality(S)
           rank == [c \in S |-> Cardinality(Storyboard!Before(S, c))]
           ordered == Storyboard!InOrder(S)
<1>0. ordered = [i \in 1 .. n |-> CHOOSE c \in S : Cardinality(Storyboard!Before(S, c)) = i - 1]
  BY SetSizes DEF Storyboard!InOrder
<1>1. IsFiniteSet(S) /\ n \in Nat
  <2>1. S \subseteq Storyboard!Clips
    BY DEF Storyboard!Live
  <2> QED
    BY <2>1, StoryConstants, FS_Subset, FS_CardinalityType
<1>2. \A c \in S : place[c] \in Nat
  BY DEF StoryTypes, Storyboard!Live
<1>3. \A c, d \in S : place[c] = place[d] => c = d
  BY DEF Apart
<1>4. ASSUME NEW c \in S
      PROVE  /\ Storyboard!Before(S, c) \subseteq S \ {c} /\ IsFiniteSet(Storyboard!Before(S, c))
             /\ rank[c] \in 0 .. n - 1
  <2>1. Storyboard!Before(S, c) \subseteq S \ {c}
    BY <1>2 DEF Storyboard!Before
  <2>2. IsFiniteSet(S \ {c}) /\ Cardinality(S \ {c}) = n - 1
    BY <1>1, FS_RemoveElement
  <2>3. IsFiniteSet(Storyboard!Before(S, c)) /\ Cardinality(Storyboard!Before(S, c)) <= n - 1
    BY <2>1, <2>2, FS_Subset
  <2>4. Cardinality(Storyboard!Before(S, c)) \in Nat
    BY <2>3, FS_CardinalityType
  <2> QED
    BY <1>1, <2>1, <2>3, <2>4
<1>5. ASSUME NEW c \in S, NEW d \in S, place[c] < place[d]
      PROVE  rank[c] < rank[d]
  <2>1. Storyboard!Before(S, c) \subseteq Storyboard!Before(S, d) \ {c} /\ c \in Storyboard!Before(S, d)
    BY <1>2, <1>4, <1>5 DEF Storyboard!Before
  <2>2. /\ IsFiniteSet(Storyboard!Before(S, d) \ {c})
        /\ Cardinality(Storyboard!Before(S, d) \ {c}) = Cardinality(Storyboard!Before(S, d)) - 1
    BY <1>4, <2>1, FS_RemoveElement
  <2>3. Cardinality(Storyboard!Before(S, c)) <= Cardinality(Storyboard!Before(S, d) \ {c})
    BY <2>1, <2>2, FS_Subset
  <2> QED
    BY <1>1, <1>4, <2>2, <2>3
<1>6. \A c, d \in S : rank[c] = rank[d] => c = d
  <2> SUFFICES ASSUME NEW c \in S, NEW d \in S, c # d PROVE rank[c] # rank[d]
    OBVIOUS
  <2>1. place[c] < place[d] \/ place[d] < place[c]
    BY <1>2, <1>3
  <2>2. rank[c] \in 0 .. n - 1 /\ rank[d] \in 0 .. n - 1
    BY <1>4
  <2>3. rank[c] < rank[d] \/ rank[d] < rank[c]
    BY <1>5, <2>1
  <2> QED
    BY <1>1, <2>2, <2>3
<1>7. rank \in Surjection(S, 0 .. n - 1)
  <2>1. rank \in Injection(S, 0 .. n - 1)
    BY <1>4, <1>6 DEF Injection, IsInjective
  <2>2. IsFiniteSet(0 .. n - 1) /\ Cardinality(0 .. n - 1) = n
    BY <1>1, FS_Interval
  <2> QED
    BY <2>1, <2>2, FS_Injection
<1>8. ASSUME NEW i \in 1 .. n
      PROVE  ordered[i] \in S /\ rank[ordered[i]] = i - 1
  <2>1. i - 1 \in 0 .. n - 1
    BY <1>1
  <2>2. \E c \in S : rank[c] = i - 1
    BY <1>7, <2>1 DEF Surjection
  <2>3. ordered[i] = CHOOSE c \in S : Cardinality(Storyboard!Before(S, c)) = i - 1
    BY <1>0
  <2> QED
    BY <2>2, <2>3
<1>9. ordered \in [1 .. n -> S] /\ ordered \in Seq(S) /\ Len(ordered) = n
  <2>1. DOMAIN ordered = 1 .. n /\ ordered = [i \in 1 .. n |-> ordered[i]]
    BY <1>0
  <2>2. ordered \in [1 .. n -> S]
    BY <1>8, <2>1
  <2> QED
    BY <1>1, <2>2, FunIsSeq
<1>10. Distinct(ordered)
  <2> SUFFICES ASSUME NEW i \in 1 .. n, NEW j \in 1 .. n, ordered[i] = ordered[j] PROVE i = j
    BY <1>9 DEF Distinct
  <2>1. rank[ordered[i]] = i - 1 /\ rank[ordered[j]] = j - 1
    BY <1>8
  <2> QED
    BY <1>1, <2>1
<1>11. ASSUME NEW c \in S
       PROVE  \E i \in 1 .. n : ordered[i] = c
  <2>1. rank[c] \in 0 .. n - 1
    BY <1>4
  <2>2. rank[c] + 1 \in 1 .. n
    BY <1>1, <2>1
  <2>3. ordered[rank[c] + 1] \in S /\ rank[ordered[rank[c] + 1]] = rank[c]
    BY <1>1, <1>8, <2>1, <2>2
  <2> QED
    BY <1>6, <2>2, <2>3
<1>12. Storyboard!Range(ordered) = S
  <2>1. DOMAIN ordered = 1 .. n
    BY <1>9
  <2>2. Storyboard!Range(ordered) = {ordered[i] : i \in 1 .. n}
    BY <2>1 DEF Storyboard!Range
  <2> QED
    BY <1>8, <1>11, <2>2
<1>13. ASSUME S # {}
       PROVE  /\ Storyboard!Highest(S) \in Nat /\ \A c \in S : place[c] <= Storyboard!Highest(S)
              /\ \E c \in S : Storyboard!Highest(S) = place[c]
  <2>1. n \in 1 .. n /\ Storyboard!Highest(S) = place[ordered[n]]
    <3>1. n # 0
      BY <1>1, <1>13, FS_EmptySet
    <3> QED
      BY <1>1, <1>13, <3>1, SetSizes DEF Storyboard!Highest
  <2>2. ordered[n] \in S /\ rank[ordered[n]] = n - 1
    BY <1>8, <2>1
  <2>3. \A c \in S : place[c] <= place[ordered[n]]
    <3> SUFFICES ASSUME NEW c \in S, place[ordered[n]] < place[c] PROVE FALSE
      BY <1>2, <2>2
    <3>1. rank[ordered[n]] < rank[c] /\ rank[c] \in 0 .. n - 1
      BY <1>4, <1>5, <2>2
    <3> QED
      BY <1>1, <2>2, <3>1
  <2> QED
    BY <1>2, <2>1, <2>2, <2>3
<1> QED
  BY <1>9, <1>10, <1>12, <1>13

LEMMA TopBounds ==
  ASSUME StoryTypes
  PROVE  /\ Raises \in Nat /\ Top \in Nat /\ Top < Offset
         /\ MaxPlace <= Top /\ Cardinality(Storyboard!Clips) <= Top
<1> USE StoryConstants
<1>1. IsFiniteSet(New \cap Storyboard!Live) /\ Cardinality(New \cap Storyboard!Live) <= Cardinality(New)
  BY FS_Subset
<1>2. Cardinality(New \cap Storyboard!Live) \in Nat
  BY <1>1, FS_CardinalityType
<1>3. Raises \in Nat /\ Raises <= Cardinality(New) + MaxAlien
  BY <1>1, <1>2 DEF Raises, StoryTypes
<1> DEFINE k == Cardinality(New) + 1
           highest == Cardinality(New) + MaxAlien
<1>4. Raises * k \in Nat /\ Raises * k <= highest * k
  <2>1. k \in Nat /\ highest \in Nat
    OBVIOUS
  <2> HIDE DEF k, highest
  <2>2. \A a, b, m \in Nat : a <= b => a * m \in Nat /\ a * m <= b * m
    OBVIOUS
  <2> QED
    BY <1>3, <2>1, <2>2 DEF highest
<1>5. Offset > MaxPlace + Cardinality(Storyboard!Clips) + 1 + highest * k
  BY StoryboardsAssumption, SetSizes DEF Storyboard!StoryboardsAssumption, Storyboard!Clips, Storyboard!Old
<1>6. highest * k \in Nat
  OBVIOUS
<1> HIDE DEF highest
<1>7. Top = MaxPlace + Cardinality(Storyboard!Clips) + 1 + Raises * k
  BY DEF Top
<1> HIDE DEF k
<1> DEFINE least == Raises * k
           most == highest * k
<1>8. least \in Nat /\ most \in Nat /\ least <= most
  BY <1>4, <1>6
<1>9. Top = MaxPlace + Cardinality(Storyboard!Clips) + 1 + least /\ Offset > MaxPlace + Cardinality(Storyboard!Clips) + 1 + most
  BY <1>5, <1>7
<1> HIDE DEF least, most
<1> QED
  BY <1>3, <1>8, <1>9

LEMMA TopGrows ==
  ASSUME StoryTypes, StoryTypes', Raises <= Raises'
  PROVE  Top <= Top' /\ (Raises + 1 <= Raises' => Top + Cardinality(New) + 1 <= Top')
<1> DEFINE k == Cardinality(New) + 1
<1>1. Raises \in Nat /\ Raises' \in Nat /\ k \in Nat
  <2>1. Raises' = Cardinality(New \cap Storyboard!Live') + alien' /\ alien' \in Nat
    BY DEF Raises, StoryTypes
  <2>2. Cardinality(New \cap Storyboard!Live') \in Nat
    BY StoryConstants, FS_Subset, FS_CardinalityType
  <2> QED
    BY <2>1, <2>2, TopBounds, StoryConstants
<1>2. /\ Top = MaxPlace + Cardinality(Storyboard!Clips) + 1 + Raises * k
      /\ Top' = MaxPlace + Cardinality(Storyboard!Clips) + 1 + Raises' * k
      /\ Storyboard!Clips' = Storyboard!Clips
  BY DEF Top, Storyboard!Clips, Storyboard!Old
<1> HIDE DEF k
<1>3. \A a, b, m \in Nat : a <= b => a * m \in Nat /\ b * m \in Nat /\ a * m <= b * m
  OBVIOUS
<1>4. \A a, b, m \in Nat : a + 1 <= b => a * m + m <= b * m
  <2> SUFFICES ASSUME NEW a \in Nat, NEW b \in Nat, NEW m \in Nat, a + 1 <= b PROVE a * m + m <= b * m
    OBVIOUS
  <2>1. (a + 1) * m <= b * m
    BY <1>3
  <2> QED
    BY <2>1
<1> DEFINE was == Raises * k
           is == Raises' * k
<1>5. was \in Nat /\ is \in Nat /\ was <= is /\ (Raises + 1 <= Raises' => was + k <= is)
  BY <1>1, <1>3, <1>4
<1>6. /\ Top = MaxPlace + Cardinality(Storyboard!Clips) + 1 + was
      /\ Top' = MaxPlace + Cardinality(Storyboard!Clips) + 1 + is
  BY <1>2
<1> HIDE DEF was, is
<1> QED
  BY <1>1, <1>5, <1>6, StoryConstants DEF k

LEMMA TopIsInt == StoryTypes' => Top' \in Int
<1> SUFFICES ASSUME StoryTypes' PROVE Top' \in Int
  OBVIOUS
<1>1. Raises' \in Nat
  <2>1. Raises' = Cardinality(New \cap Storyboard!Live') + alien' /\ alien' \in Nat
    BY DEF Raises, StoryTypes
  <2>2. Cardinality(New \cap Storyboard!Live') \in Nat
    BY StoryConstants, FS_Subset, FS_CardinalityType
  <2> QED
    BY <2>1, <2>2
<1>2. Top' = MaxPlace + Cardinality(Storyboard!Clips) + 1 + Raises' * (Cardinality(New) + 1)
  BY DEF Top, Storyboard!Clips, Storyboard!Old
<1> QED
  BY <1>1, <1>2, StoryConstants

LEMMA BatchTypes ==
  ASSUME StoryTypes, NEW e \in Editors
  PROVE  /\ batch[e] \in Seq(Additions) /\ DOMAIN batch[e] = 1 .. Len(batch[e]) /\ Len(batch[e]) \in Nat
         /\ \A i \in DOMAIN batch[e] : /\ batch[e][i].clip \in New /\ batch[e][i].order \in Nat
                                      /\ batch[e][i].at \in {"sent", "added", "failed"}
<1>1. batch[e] \in Seq(Additions)
  BY DEF StoryTypes
<1>2. \A i \in DOMAIN batch[e] : batch[e][i] \in Additions
  BY <1>1
<1> QED
  BY <1>1, <1>2 DEF Additions

\* While nothing is added and no position changes, the highest one may stay.
LEMMA TableStays ==
  ASSUME StoryTypes, StoryTypes', UNCHANGED place, alien <= alien'
  PROVE  Top <= Top' /\ (TableInv => TableInv')
<1>1. Storyboard!Live' = Storyboard!Live
  BY DEF Storyboard!Live, Storyboard!Clips, Storyboard!Old
<1>2. Raises <= Raises'
  <2>1. Raises' = Cardinality(New \cap Storyboard!Live) + alien' /\ Raises = Cardinality(New \cap Storyboard!Live) + alien
    BY <1>1 DEF Raises
  <2>2. alien \in Nat /\ alien' \in Nat /\ Cardinality(New \cap Storyboard!Live) \in Nat
    BY StoryConstants, FS_Subset, FS_CardinalityType DEF StoryTypes
  <2> QED
    BY <2>1, <2>2
<1>3. Top \in Nat /\ Top <= Top'
  BY <1>2, TopGrows, TopBounds
<1>4. \A c \in Storyboard!Live : place[c] \in Nat
  BY DEF StoryTypes, Storyboard!Live
<1>5. Top' \in Int
  BY <1>2, TopIsInt
<1> QED
  BY <1>1, <1>3, <1>4, <1>5 DEF TableInv, Apart

LEMMA PendingStays ==
  ASSUME StoryTypes, StoryTypes', PendingInv, UNCHANGED <<place, batch, adding>>, alien <= alien'
  PROVE  PendingInv'
<1>1. Top \in Nat /\ Top <= Top' /\ Top' \in Int /\ Cardinality(New) \in Nat
  BY TableStays, TopBounds, TopIsInt, StoryConstants
<1>2. ASSUME NEW e \in Editors, NEW i \in DOMAIN batch[e] PROVE batch[e][i].order \in Nat
  BY <1>2, BatchTypes
<1>3. ASSUME adding.clip # None PROVE adding.place \in -1 .. Top'
  BY <1>1, <1>3 DEF PendingInv
<1>4. ASSUME NEW e \in Editors, NEW i \in DOMAIN batch[e], batch[e][i].at = "sent"
      PROVE  batch[e][i].order <= Top' + Cardinality(New)
  BY <1>1, <1>2, <1>4 DEF PendingInv
<1> QED
  BY <1>3, <1>4 DEF PendingInv

\* A step of one reorder keeps what is known of the others.
LEMMA ReorderSteps ==
  ASSUME StoryInv, NEW e \in Editors, NEW t \in Reorders, tx' = [tx EXCEPT ![e] = t],
         UNCHANGED <<place, hidden, view, batch, adding, alien, known>>,
         moves' \in 0 .. MaxMoves, alone' \subseteq Editors, ReorderInv(e)',
         \A f \in alone' : f # e => f \in alone /\ (tx[f].at = "writing" => t.at # "writing"),
         e \in alone' => MoveAlone(e)' /\ AddAlone(e)'
  PROVE  StoryInv'
<1>0. StoryTypes /\ TableInv /\ PendingInv /\ \A f \in Editors : ReorderInv(f) /\ ViewInv(f)
  BY DEF StoryInv
<1>1. tx'[e] = t /\ \A f \in Editors \ {e} : tx'[f] = tx[f]
  BY <1>0 DEF StoryTypes
<1>2. StoryTypes'
  BY <1>0 DEF StoryTypes, Storyboard!Clips, Storyboard!Old
<1>3. TableInv' /\ PendingInv'
  <2>1. alien <= alien'
    BY <1>0 DEF StoryTypes
  <2> QED
    BY <1>0, <1>2, <2>1, TableStays, PendingStays
<1>4. /\ Storyboard!Live' = Storyboard!Live /\ Storyboard!Shown' = Storyboard!Shown
      /\ Storyboard!Clips' = Storyboard!Clips
  BY DEF Storyboard!Live, Storyboard!Shown, Storyboard!Clips, Storyboard!Old
<1>5. Storyboard!Busy' \ {e} = Storyboard!Busy \ {e} /\ (e \in Storyboard!Busy' <=> t.at = "writing")
  BY <1>1 DEF Storyboard!Busy
<1>6. ASSUME NEW f \in Editors PROVE ReorderInv(f)'
  <2>1. CASE f = e
    BY <2>1
  <2>2. CASE f # e
    <3>1. tx'[f] = tx[f] /\ ReorderInv(f) /\ Storyboard!NoTx' = Storyboard!NoTx
      BY <1>0, <1>1, <2>2 DEF Storyboard!NoTx
    <3>2. ASSUME WroteInv(f), tx[f].at = "writing" PROVE WroteInv(f)'
      <4>1. Storyboard!Sees(f)' = Storyboard!Sees(f)
        BY <1>4, <3>1 DEF Storyboard!Sees
      <4>2. \A g \in Storyboard!Busy' \ {f} : \A c \in DOMAIN tx[f].wrote : \A d \in DOMAIN tx'[g].wrote :
              tx[f].wrote[c] # tx'[g].wrote[d]
        <5> SUFFICES ASSUME NEW g \in Storyboard!Busy' \ {f}, NEW c \in DOMAIN tx[f].wrote,
                            NEW d \in DOMAIN tx'[g].wrote
                     PROVE  tx[f].wrote[c] # tx'[g].wrote[d]
          OBVIOUS
        <5>1. CASE g = e
          <6>1. tx'[e].at = "writing" /\ WroteInv(e)'
            BY <5>1, <2>2, <1>1 DEF Storyboard!Busy, ReorderInv
          <6>2. f \in Storyboard!Busy' \ {e}
            BY <1>1, <2>2, <3>2 DEF Storyboard!Busy
          <6>3. tx'[e].wrote[d] # tx'[f].wrote[c]
            BY <3>1, <5>1, <6>1, <6>2 DEF WroteInv, WritesApart
          <6> QED
            BY <3>1, <5>1, <6>3
        <5>2. CASE g # e
          <6>1. g \in Storyboard!Busy \ {f} /\ tx'[g] = tx[g]
            BY <1>1, <1>5, <5>2 DEF Storyboard!Busy
          <6> QED
            BY <3>2, <6>1 DEF WroteInv, WritesApart
        <5> QED
          BY <5>1, <5>2
      <4>3. HoldsRows(f)'
        BY <1>4, <3>1, <3>2 DEF WroteInv, HoldsRows
      <4>4. InLoop(f)'
        <5>1. InLoop(f) /\ tx'[f] = tx[f]
          BY <3>1, <3>2 DEF WroteInv
        <5> QED
          BY ONLY <5>1 DEF InLoop
      <4>5. SeesApart(f)'
        BY <1>4, <3>1, <3>2, <4>1 DEF WroteInv, SeesApart
      <4>6. WritesApart(f)'
        BY <3>1, <4>2 DEF WritesApart
      <4> QED
        BY <4>3, <4>4, <4>5, <4>6 DEF WroteInv
    <3> QED
      BY <3>1, <3>2 DEF ReorderInv
  <2> QED
    BY <2>1, <2>2
<1>7. ASSUME NEW f \in Editors PROVE ViewInv(f)'
  <2>1. Storyboard!InOrder(Storyboard!Shown)' = Storyboard!InOrder(Storyboard!Shown)
    BY <1>4, SetSizes DEF Storyboard!InOrder, Storyboard!Before
  <2> QED
    BY <1>0, <2>1 DEF ViewInv
<1>8. ASSUME NEW f \in alone' PROVE MoveAlone(f)' /\ AddAlone(f)'
  <2>1. CASE f = e
    BY <1>8, <2>1
  <2>2. CASE f # e
    <3>1. f \in alone /\ (tx[f].at = "writing" => t.at # "writing") /\ f \in Editors /\ tx'[f] = tx[f]
      BY <1>1, <2>2
    <3>2. MoveAlone(f) /\ AddAlone(f)
      BY <3>1 DEF StoryInv
    <3>3. MoveAlone(f)'
      <4>1. tx[f].at = "writing" => Storyboard!Busy' = {f}
        BY <1>5, <2>2, <3>1, <3>2 DEF MoveAlone
      <4> QED
        BY <1>4, <3>1, <3>2, <4>1 DEF MoveAlone, Storyboard!Range
    <3>4. AddAlone(f)'
      BY <1>4, <3>1, <3>2 DEF AddAlone, Storyboard!Range
    <3> QED
      BY <3>3, <3>4
  <2> QED
    BY <2>1, <2>2
<1> QED
  BY <1>2, <1>3, <1>6, <1>7, <1>8 DEF StoryInv

LEMMA WrittenIs ==
  /\ \A S \in SUBSET Storyboard!Clips : \A w \in [S -> Nat] : w \in Written
  /\ \A w \in Written : DOMAIN w \subseteq Storyboard!Clips /\ \A c \in DOMAIN w : w[c] \in Nat
  /\ Storyboard!NoTx \in Reorders /\ DOMAIN Storyboard!NoTx.wrote = {}
<1>1. \A S \in SUBSET Storyboard!Clips : \A w \in [S -> Nat] : w \in Written
  BY DEF Written
<1>2. \A w \in Written : DOMAIN w \subseteq Storyboard!Clips /\ \A c \in DOMAIN w : w[c] \in Nat
  BY DEF Written
<1>3. [c \in {} |-> 0] \in Written
  <2>1. [c \in {} |-> 0] \in [{} -> Nat] /\ {} \in SUBSET Storyboard!Clips
    OBVIOUS
  <2> QED
    BY <1>1, <2>1
<1>4. Storyboard!NoTx \in Reorders /\ DOMAIN Storyboard!NoTx.wrote = {}
  BY <1>3 DEF Storyboard!NoTx, Reorders
<1> QED
  BY <1>1, <1>2, <1>4

LEMMA InitStory == Storyboard!Init => StoryInv
<1> SUFFICES ASSUME Storyboard!Init PROVE StoryInv
  OBVIOUS
<1> DEFINE index(m, c) == CHOOSE i \in 1 .. m : FirstClips[i] = c
<1>1. PICK n \in 0 .. Len(FirstClips) :
        place = [c \in Storyboard!Clips |-> IF \E i \in 1 .. n : FirstClips[i] = c THEN index(n, c) - 1 ELSE None]
  BY DEF Storyboard!Init
<1>2. /\ hidden = {} /\ view = [e \in Editors |-> <<>>] /\ tx = [e \in Editors |-> Storyboard!NoTx]
      /\ batch = [e \in Editors |-> <<>>] /\ adding = [clip |-> None, place |-> None]
      /\ moves = 0 /\ alien = 0 /\ known = {} /\ alone = {}
  BY DEF Storyboard!Init
<1>3. Len(FirstClips) \in Nat /\ Len(FirstClips) <= Cardinality(Storyboard!Clips) /\ n \in Nat
  <2>1. FirstClips \in Seq(Storyboard!Clips)
    BY StoryboardsAssumption DEF Storyboard!StoryboardsAssumption, Storyboard!Clips, Storyboard!Old
  <2>2. Distinct(FirstClips)
    BY <2>1, StoryboardsAssumption DEF Storyboard!StoryboardsAssumption, Storyboard!IsInjective, Distinct
  <2> QED
    BY <2>1, <2>2, DistinctLength, StoryConstants
<1>4. ASSUME NEW c \in Storyboard!Live
      PROVE  index(n, c) \in 1 .. n /\ FirstClips[index(n, c)] = c /\ place[c] = index(n, c) - 1
  BY <1>1 DEF Storyboard!Live
<1>5. StoryTypes
  <2>1. place \in [Storyboard!Clips -> Nat \cup {None}]
    <3> SUFFICES ASSUME NEW c \in Storyboard!Clips, place[c] # None PROVE place[c] \in Nat
      BY <1>1
    <3>1. c \in Storyboard!Live
      BY DEF Storyboard!Live
    <3>2. index(n, c) \in 1 .. n /\ place[c] = index(n, c) - 1
      BY <1>4, <3>1
    <3> HIDE DEF index
    <3> QED
      BY <1>3, <3>2
  <2> QED
    BY <1>2, <2>1, WrittenIs, StoryConstants DEF StoryTypes
<1>6. TableInv
  <2>1. Apart
    BY <1>3, <1>4 DEF Apart
  <2>2. \A c \in Storyboard!Live : place[c] <= Top
    BY <1>3, <1>4, <1>5, TopBounds, StoryConstants
  <2> QED
    BY <2>1, <2>2 DEF TableInv
<1>7. PendingInv
  BY <1>2 DEF PendingInv
<1>8. \A e \in Editors : ReorderInv(e) /\ ViewInv(e)
  BY <1>2 DEF ReorderInv, ViewInv, Distinct, Storyboard!NoTx
<1> QED
  BY <1>2, <1>5, <1>6, <1>7, <1>8 DEF StoryInv

LEMMA LoadKeeps == ASSUME StoryInv, NEW e \in Editors, Storyboard!Load(e) PROVE StoryInv'
<1>0. StoryTypes /\ TableInv /\ PendingInv /\ \A f \in Editors : ReorderInv(f) /\ ViewInv(f)
  BY DEF StoryInv
<1>1. /\ view' = [view EXCEPT ![e] = Storyboard!InOrder(Storyboard!Shown)] /\ known' = known \cup {e}
      /\ UNCHANGED <<place, hidden, tx, batch, adding, moves, alien, alone>>
  BY DEF Storyboard!Load
<1>2. /\ Storyboard!InOrder(Storyboard!Shown) \in Seq(Storyboard!Shown)
      /\ Distinct(Storyboard!InOrder(Storyboard!Shown))
      /\ Storyboard!Range(Storyboard!InOrder(Storyboard!Shown)) = Storyboard!Shown
  <2>1. Storyboard!Shown \in SUBSET Storyboard!Live
    BY DEF Storyboard!Shown
  <2> QED
    BY <1>0, <2>1, InOrderLists DEF TableInv
<1>3. /\ Storyboard!Live' = Storyboard!Live /\ Storyboard!Shown' = Storyboard!Shown
      /\ Storyboard!Clips' = Storyboard!Clips /\ Storyboard!Busy' = Storyboard!Busy
  BY <1>1 DEF Storyboard!Live, Storyboard!Shown, Storyboard!Clips, Storyboard!Old, Storyboard!Busy
<1>4. Storyboard!Shown \subseteq Storyboard!Live /\ Storyboard!Live \subseteq Storyboard!Clips
  BY DEF Storyboard!Shown, Storyboard!Live
<1>5. view' \in [Editors -> Seq(Storyboard!Clips)] /\ view'[e] = Storyboard!InOrder(Storyboard!Shown)
  <2>1. Storyboard!InOrder(Storyboard!Shown) \in Seq(Storyboard!Clips)
    BY <1>2, <1>4
  <2> QED
    BY <1>0, <1>1, <2>1 DEF StoryTypes
<1>6. StoryTypes'
  BY <1>0, <1>1, <1>3, <1>5 DEF StoryTypes, Reorders, Written
<1>7. TableInv' /\ PendingInv'
  <2>1. alien <= alien'
    BY <1>0, <1>1 DEF StoryTypes
  <2> QED
    BY <1>0, <1>1, <1>6, <2>1, TableStays, PendingStays
<1>8. ASSUME NEW f \in Editors PROVE ReorderInv(f)'
  <2>1. ReorderInv(f) /\ tx' = tx /\ place' = place
    BY <1>0, <1>1
  <2>2. Storyboard!Sees(f)' = Storyboard!Sees(f) /\ Storyboard!NoTx' = Storyboard!NoTx
    BY <1>3, <2>1 DEF Storyboard!Sees, Storyboard!NoTx
  <2> QED
    BY <1>3, <2>1, <2>2 DEF ReorderInv, WroteInv, HoldsRows, InLoop, SeesApart, WritesApart
<1>9. ASSUME NEW f \in Editors PROVE ViewInv(f)'
  <2>1. Storyboard!InOrder(Storyboard!Shown)' = Storyboard!InOrder(Storyboard!Shown)
    BY <1>1, <1>3, SetSizes DEF Storyboard!InOrder, Storyboard!Before
  <2>2. view'[f] = IF f = e THEN Storyboard!InOrder(Storyboard!Shown) ELSE view[f]
    BY <1>0, <1>1 DEF StoryTypes
  <2> QED
    BY <1>0, <1>1, <1>2, <2>1, <2>2 DEF ViewInv
<1>10. ASSUME NEW f \in alone' PROVE MoveAlone(f)' /\ AddAlone(f)'
  <2>1. MoveAlone(f) /\ AddAlone(f) /\ f \in Editors
    BY <1>0, <1>1 DEF StoryInv, StoryTypes
  <2>2. MoveAlone(f)'
    BY <1>1, <1>3, <2>1 DEF MoveAlone, Storyboard!Range
  <2>3. Storyboard!Range(view[f]) \subseteq Storyboard!Live => Storyboard!Range(view'[f]) \subseteq Storyboard!Live
    <3>1. view'[f] = IF f = e THEN Storyboard!InOrder(Storyboard!Shown) ELSE view[f]
      BY <1>0, <1>1, <2>1 DEF StoryTypes
    <3> QED
      BY <1>2, <1>4, <3>1
  <2>4. AddAlone(f)'
    BY <1>1, <1>3, <2>1, <2>3 DEF AddAlone, Storyboard!Range
  <2> QED
    BY <2>2, <2>4
<1> QED
  BY <1>6, <1>7, <1>8, <1>9, <1>10 DEF StoryInv

LEMMA Swapped ==
  ASSUME NEW S, NEW s \in Seq(S), Distinct(s), NEW i \in 1 .. Len(s) - 1
  PROVE  LET t == [s EXCEPT ![i] = s[i + 1], ![i + 1] = s[i]]
         IN  t \in Seq(S) /\ Len(t) = Len(s) /\ Distinct(t) /\ Storyboard!Range(t) = Storyboard!Range(s)
<1> DEFINE t == [s EXCEPT ![i] = s[i + 1], ![i + 1] = s[i]]
<1>1. Len(s) \in Nat /\ DOMAIN s = 1 .. Len(s) /\ i \in 1 .. Len(s) /\ i + 1 \in 1 .. Len(s)
  OBVIOUS
<1>2. t \in Seq(S) /\ Len(t) = Len(s) /\ DOMAIN t = 1 .. Len(s)
  OBVIOUS
<1>3. /\ t[i] = s[i + 1] /\ t[i + 1] = s[i]
      /\ \A j \in 1 .. Len(s) : j # i /\ j # i + 1 => t[j] = s[j]
  BY <1>1
<1> HIDE DEF t
<1>4. Distinct(t)
  BY <1>1, <1>2, <1>3 DEF Distinct
<1>5. Storyboard!Range(t) = Storyboard!Range(s)
  <2>1. \A j \in 1 .. Len(s) : \E k \in 1 .. Len(s) : t[j] = s[k]
    BY <1>1, <1>3
  <2>2. \A j \in 1 .. Len(s) : \E k \in 1 .. Len(s) : s[j] = t[k]
    BY <1>1, <1>3
  <2>3. Storyboard!Range(t) = {t[j] : j \in 1 .. Len(s)} /\ Storyboard!Range(s) = {s[j] : j \in 1 .. Len(s)}
    BY <1>1, <1>2 DEF Storyboard!Range
  <2> QED
    BY <2>1, <2>2, <2>3
<1> QED
  BY <1>2, <1>4, <1>5 DEF t

LEMMA MoveKeeps == ASSUME StoryInv, NEW e \in Editors, Storyboard!Move(e) PROVE StoryInv'
<1>0. StoryTypes /\ TableInv /\ PendingInv /\ \A f \in Editors : ReorderInv(f) /\ ViewInv(f)
  BY DEF StoryInv
<1>1. PICK i \in 1 .. Len(view[e]) - 1 :
        tx' = [tx EXCEPT ![e] = [Storyboard!NoTx EXCEPT !.at = "check",
                                   !.order = [view[e] EXCEPT ![i] = view[e][i + 1], ![i + 1] = view[e][i]]]]
  BY DEF Storyboard!Move
<1> DEFINE order == [view[e] EXCEPT ![i] = view[e][i + 1], ![i + 1] = view[e][i]]
           t == [Storyboard!NoTx EXCEPT !.at = "check", !.order = order]
<1>2. /\ moves < MaxMoves /\ moves' = moves + 1
      /\ alone' = IF e \in known /\ batch[e] = <<>> /\ Storyboard!Live \cap hidden = {} THEN alone \cup {e} ELSE alone \ {e}
      /\ UNCHANGED <<place, hidden, view, batch, adding, alien, known>>
  BY DEF Storyboard!Move
<1>3. view[e] \in Seq(Storyboard!Clips) /\ Distinct(view[e])
  BY <1>0 DEF StoryTypes, ViewInv
<1>4. /\ order \in Seq(Storyboard!Clips) /\ Len(order) \in Nat /\ Distinct(order)
      /\ Storyboard!Range(order) = Storyboard!Range(view[e])
  BY <1>3, Swapped
<1> HIDE DEF order
<1>5. t \in Reorders /\ t.at = "check" /\ t.step = 0 /\ t.order = order
  BY <1>4, WrittenIs DEF Reorders, Storyboard!NoTx
<1>6. tx' = [tx EXCEPT ![e] = t] /\ tx'[e] = t
  BY <1>0, <1>1 DEF StoryTypes, order
<1>7. ReorderInv(e)'
  <2>1. t = [Storyboard!NoTx EXCEPT !.at = "check", !.order = t.order] /\ Storyboard!NoTx' = Storyboard!NoTx
    BY DEF Storyboard!NoTx
  <2> HIDE DEF t
  <2>2. tx'[e] = [Storyboard!NoTx EXCEPT !.at = "check", !.order = tx'[e].order]
    BY <1>6, <2>1
  <2>3. Distinct(tx'[e].order) /\ tx'[e].step <= 2 * Len(tx'[e].order) /\ tx'[e].at # "writing"
    BY <1>4, <1>5, <1>6
  <2> QED
    BY <2>1, <2>2, <2>3 DEF ReorderInv
<1>8. moves' \in 0 .. MaxMoves /\ alone' \subseteq Editors
  BY <1>0, <1>2, StoryConstants DEF StoryTypes
<1>9. ASSUME e \in alone' PROVE MoveAlone(e)' /\ AddAlone(e)'
  <2>1. e \in known /\ batch[e] = <<>> /\ Storyboard!Live \cap hidden = {}
    BY <1>2, <1>9
  <2>2. Storyboard!Shown = Storyboard!Live
    BY <2>1 DEF Storyboard!Shown
  <2>3. Storyboard!Range(view[e]) = Storyboard!Live
    BY <1>0, <2>1, <2>2, InOrderLists DEF ViewInv, TableInv
  <2>4. Storyboard!Live' = Storyboard!Live
    BY <1>2 DEF Storyboard!Live, Storyboard!Clips, Storyboard!Old
  <2> HIDE DEF t
  <2>5. MoveAlone(e)'
    BY <1>2, <1>4, <1>5, <1>6, <2>1, <2>3, <2>4 DEF MoveAlone, Storyboard!Range
  <2>6. AddAlone(e)'
    BY <1>2, <2>1 DEF AddAlone
  <2> QED
    BY <2>5, <2>6
<1>10. \A f \in alone' : f # e => f \in alone /\ (tx[f].at = "writing" => t.at # "writing")
  BY <1>2, <1>5
<1> HIDE DEF t
<1> QED
  BY <1>2, <1>5, <1>6, <1>7, <1>8, <1>9, <1>10, ReorderSteps

LEMMA CheckKeeps == ASSUME StoryInv, NEW e \in Editors, Storyboard!Check(e) PROVE StoryInv'
<1>0. StoryTypes /\ TableInv /\ PendingInv /\ \A f \in Editors : ReorderInv(f) /\ ViewInv(f)
  BY DEF StoryInv
<1> DEFINE t == [tx[e] EXCEPT !.at = IF Storyboard!Range(tx[e].order) \subseteq Storyboard!Live THEN "writing" ELSE "refused"]
<1>1. /\ tx[e].at = "check" /\ tx' = [tx EXCEPT ![e] = t]
      /\ alone' = IF Storyboard!Busy = {} THEN alone ELSE {}
      /\ UNCHANGED <<place, hidden, view, batch, adding, moves, alien, known>>
  BY <1>0 DEF Storyboard!Check, StoryTypes
<1>2. tx[e] \in Reorders /\ t \in Reorders /\ tx'[e] = t
  BY <1>0, <1>1 DEF StoryTypes, Reorders
<1>3. /\ Distinct(tx[e].order) /\ tx[e].step = 0 /\ DOMAIN tx[e].wrote = {} /\ tx[e].held = {}
      /\ Len(tx[e].order) \in Nat
  <2>1. Distinct(tx[e].order) /\ tx[e] = [Storyboard!NoTx EXCEPT !.at = "check", !.order = tx[e].order]
    BY <1>0, <1>1 DEF ReorderInv
  <2>2. tx[e].order \in Seq(Storyboard!Clips)
    BY <1>2 DEF Reorders
  <2>3. tx[e].step = 0 /\ tx[e].wrote = Storyboard!NoTx.wrote /\ tx[e].held = {}
    BY <2>1 DEF Storyboard!NoTx
  <2> QED
    BY <2>1, <2>2, <2>3, WrittenIs
<1>4. /\ t.order = tx[e].order /\ t.step = 0 /\ DOMAIN t.wrote = {} /\ t.held = {} /\ t.at # "check"
      /\ t.at = IF Storyboard!Range(tx[e].order) \subseteq Storyboard!Live THEN "writing" ELSE "refused"
  BY <1>2, <1>3 DEF Reorders
<1> HIDE DEF t
<1>5. ReorderInv(e)'
  <2>1. WroteInv(e)'
    BY <1>2, <1>4 DEF WroteInv, HoldsRows, InLoop, SeesApart, WritesApart
  <2> QED
    BY <1>2, <1>3, <1>4, <2>1 DEF ReorderInv
<1>6. ASSUME e \in alone' PROVE MoveAlone(e)' /\ AddAlone(e)'
  <2>1. e \in alone /\ Storyboard!Busy = {} /\ MoveAlone(e)
    BY <1>1, <1>6 DEF StoryInv
  <2>2. batch[e] = <<>> /\ Storyboard!Range(tx[e].order) = Storyboard!Live
    BY <1>1, <2>1 DEF MoveAlone
  <2>3. t.at = "writing" /\ Storyboard!Busy' = {e}
    BY <1>0, <1>1, <1>2, <1>4, <2>1, <2>2 DEF Storyboard!Busy, StoryTypes
  <2>4. Storyboard!Live' = Storyboard!Live
    BY <1>1 DEF Storyboard!Live, Storyboard!Clips, Storyboard!Old
  <2>5. MoveAlone(e)'
    BY <1>1, <1>2, <1>3, <1>4, <2>2, <2>3, <2>4 DEF MoveAlone, Storyboard!Range
  <2>6. AddAlone(e)'
    BY <1>1, <2>2 DEF AddAlone
  <2> QED
    BY <2>5, <2>6
<1>7. \A f \in alone' : f # e => f \in alone /\ (tx[f].at = "writing" => t.at # "writing")
  BY <1>0, <1>1 DEF Storyboard!Busy, StoryTypes
<1>8. moves' \in 0 .. MaxMoves /\ alone' \subseteq Editors
  BY <1>0, <1>1 DEF StoryTypes
<1> QED
  BY <1>1, <1>2, <1>5, <1>6, <1>7, <1>8, ReorderSteps

\* A reorder that ends without success met another one.
LEMMA EndsKeep ==
  ASSUME StoryInv, NEW e \in Editors, NEW t \in Reorders, t.at \notin {"check", "writing"},
         tx' = [tx EXCEPT ![e] = t],
         e \in alone => t.at = "idle" /\ tx[e].at # "idle",
         UNCHANGED <<place, hidden, view, batch, adding, moves, alien, known, alone>>
  PROVE  StoryInv'
<1>0. StoryTypes
  BY DEF StoryInv
<1>1. tx'[e] = t /\ moves' \in 0 .. MaxMoves /\ alone' \subseteq Editors
  BY <1>0 DEF StoryTypes
<1>2. ReorderInv(e)'
  BY <1>1 DEF ReorderInv
<1>3. ASSUME e \in alone' PROVE MoveAlone(e)' /\ AddAlone(e)'
  <2>1. t.at = "idle" /\ tx[e].at # "idle" /\ AddAlone(e)
    BY <1>3 DEF StoryInv
  <2>2. batch[e] = <<>>
    BY <2>1 DEF AddAlone
  <2> QED
    BY <1>1, <2>1, <2>2 DEF MoveAlone, AddAlone
<1> QED
  BY <1>1, <1>2, <1>3, ReorderSteps

LEMMA DeadlockKeeps == ASSUME StoryInv, NEW e \in Editors, Storyboard!Deadlock(e) PROVE StoryInv'
<1> DEFINE t == [Storyboard!NoTx EXCEPT !.at = "failed"]
<1>1. /\ tx' = [tx EXCEPT ![e] = t]
      /\ UNCHANGED <<place, hidden, view, batch, adding, moves, alien, known, alone>>
  BY DEF Storyboard!Deadlock
<1>2. t \in Reorders /\ t.at = "failed"
  BY WrittenIs DEF Reorders, Storyboard!NoTx
<1>3. e \notin alone
  <2>1. PICK f \in Editors : Storyboard!Waits(e, f)
    BY DEF Storyboard!Deadlock
  <2>2. tx[e].at = "writing" /\ f \in Storyboard!Busy \ {e}
    BY <2>1 DEF Storyboard!Waits, Storyboard!Unfinished
  <2> QED
    BY <2>2 DEF StoryInv, MoveAlone
<1> HIDE DEF t
<1> QED
  BY <1>1, <1>2, <1>3, EndsKeep

LEMMA AnsweredKeeps == ASSUME StoryInv, NEW e \in Editors, Storyboard!Answered(e) PROVE StoryInv'
<1>1. /\ tx' = [tx EXCEPT ![e] = Storyboard!NoTx] /\ tx[e].at # "idle"
      /\ UNCHANGED <<place, hidden, view, batch, adding, moves, alien, known, alone>>
  BY DEF Storyboard!Answered
<1>2. Storyboard!NoTx \in Reorders /\ Storyboard!NoTx.at = "idle"
  BY WrittenIs DEF Storyboard!NoTx
<1> QED
  BY <1>1, <1>2, EndsKeep

LEMMA WritesTwice ==
  ASSUME NEW s \in Seq(Storyboard!Clips)
  PROVE  LET n == Len(s)
         IN  /\ Len(Storyboard!Writes(s)) = 2 * n
             /\ \A k \in 1 .. n : Storyboard!Writes(s)[k] = <<s[k], k - 1 + Offset>>
             /\ \A k \in n + 1 .. 2 * n : Storyboard!Writes(s)[k] = <<s[k - n], k - n - 1>>
<1> DEFINE n == Len(s)
           away == [i \in 1 .. n |-> <<s[i], i - 1 + Offset>>]
           into == [i \in 1 .. n |-> <<s[i], i - 1>>]
           Pairs == Storyboard!Clips \X Nat
<1>1. n \in Nat /\ DOMAIN s = 1 .. n
  OBVIOUS
<1>2. \A i \in 1 .. n : s[i] \in Storyboard!Clips /\ i - 1 \in Nat /\ i - 1 + Offset \in Nat
  BY <1>1, StoryConstants
<1>3. away \in Seq(Pairs) /\ Len(away) = n /\ into \in Seq(Pairs) /\ Len(into) = n
  <2>1. away \in [1 .. n -> Pairs] /\ into \in [1 .. n -> Pairs]
    BY <1>2
  <2> HIDE DEF away, into, Pairs, n
  <2> QED
    BY <1>1, <2>1, FunIsSeq
<1>4. Storyboard!Writes(s) = away \o into
  BY <1>1 DEF Storyboard!Writes
<1>5. \A i \in 1 .. n : away[i] = <<s[i], i - 1 + Offset>> /\ into[i] = <<s[i], i - 1>>
  OBVIOUS
<1> HIDE DEF away, into, Pairs, n
<1>6. /\ Len(away \o into) = Len(away) + Len(into)
      /\ \A k \in 1 .. Len(away) + Len(into) :
           (away \o into)[k] = IF k <= Len(away) THEN away[k] ELSE into[k - Len(away)]
  BY <1>3, ConcatProperties
<1>7. Len(Storyboard!Writes(s)) = 2 * n
  BY <1>1, <1>3, <1>4, <1>6
<1>8. \A k \in 1 .. n : Storyboard!Writes(s)[k] = <<s[k], k - 1 + Offset>>
  BY <1>1, <1>3, <1>4, <1>5, <1>6
<1>9. ASSUME NEW k \in n + 1 .. 2 * n PROVE Storyboard!Writes(s)[k] = <<s[k - n], k - n - 1>>
  <2>1. k \in 1 .. n + n /\ ~(k <= n) /\ k - n \in 1 .. n
    BY <1>1
  <2> QED
    BY <1>3, <1>4, <1>5, <1>6, <2>1
<1> QED
  BY <1>7, <1>8, <1>9 DEF n

\* The statements of a reorder, in their order: out of the way, then in place.
LEMMA Statements ==
  ASSUME StoryTypes, NEW e \in Editors, Storyboard!Unfinished(e)
  PROVE  LET n == Len(tx[e].order)
             k == tx[e].step + 1
         IN  /\ n \in Nat /\ k \in 1 .. 2 * n
             /\ k <= n => /\ Storyboard!Clip(e) = tx[e].order[k] /\ Storyboard!Target(e) = k - 1 + Offset
             /\ k > n => /\ k - n \in 1 .. n /\ Storyboard!Clip(e) = tx[e].order[k - n]
                         /\ Storyboard!Target(e) = k - n - 1
<1> DEFINE s == tx[e].order
           n == Len(s)
           k == tx[e].step + 1
<1>1. s \in Seq(Storyboard!Clips) /\ n \in Nat /\ tx[e].step \in Nat
  BY DEF StoryTypes, Reorders
<1>2. /\ Len(Storyboard!Writes(s)) = 2 * n
      /\ \A i \in 1 .. n : Storyboard!Writes(s)[i] = <<s[i], i - 1 + Offset>>
      /\ \A i \in n + 1 .. 2 * n : Storyboard!Writes(s)[i] = <<s[i - n], i - n - 1>>
  BY <1>1, WritesTwice
<1>3. tx[e].step < Len(Storyboard!Writes(s))
  BY DEF Storyboard!Unfinished
<1>4. /\ Storyboard!Clip(e) = Storyboard!Writes(s)[k][1] /\ Storyboard!Target(e) = Storyboard!Writes(s)[k][2]
  BY DEF Storyboard!Clip, Storyboard!Target
<1> HIDE DEF n, s
<1>5. k \in 1 .. 2 * n
  BY <1>1, <1>2, <1>3
<1> HIDE DEF k
<1>6. CASE k <= n
  <2>1. k \in 1 .. n /\ ~(k > n)
    BY <1>1, <1>5, <1>6
  <2> QED
    BY <1>1, <1>2, <1>4, <1>5, <2>1 DEF k, n, s
<1>7. CASE k > n
  <2>1. k \in n + 1 .. 2 * n /\ k - n \in 1 .. n /\ ~(k <= n)
    BY <1>1, <1>5, <1>7
  <2>2. Storyboard!Writes(s)[k] = <<s[k - n], k - n - 1>>
    BY <1>2, <2>1
  <2>3. Storyboard!Clip(e) = s[k - n] /\ Storyboard!Target(e) = k - n - 1
    BY <1>4, <2>2
  <2> QED
    BY <1>1, <1>5, <1>7, <2>1, <2>3 DEF k, n, s
<1> QED
  BY <1>1, <1>5, <1>6, <1>7

\* The statement that comes next is the only one of its loop about its clip.
LEMMA LoopGoesOn ==
  ASSUME StoryTypes, NEW e \in Editors, ReorderInv(e), Storyboard!Unfinished(e),
         NEW i \in 1 .. Len(tx[e].order), tx[e].step + 1 >= Len(tx[e].order) + i,
         tx[e].order[i] # Storyboard!Clip(e)
  PROVE  tx[e].step >= Len(tx[e].order) + i
<1> DEFINE n == Len(tx[e].order)
<1>1. n \in Nat /\ tx[e].step \in Nat
  BY DEF StoryTypes, Reorders
<1>2. tx[e].step + 1 # n + i
  <2> SUFFICES ASSUME tx[e].step + 1 = n + i PROVE FALSE
    OBVIOUS
  <2>1. tx[e].step + 1 > n /\ tx[e].step + 1 - n = i
    BY <1>1
  <2> QED
    BY <2>1, Statements
<1> QED
  BY <1>1, <1>2

LEMMA LockKeeps == ASSUME StoryInv, NEW e \in Editors, Storyboard!Lock(e) PROVE StoryInv'
<1>0. StoryTypes /\ ReorderInv(e)
  BY DEF StoryInv
<1>1. /\ Storyboard!Unfinished(e) /\ tx[e].at = "writing" /\ WroteInv(e) /\ tx[e] \in Reorders
      /\ UNCHANGED <<place, hidden, view, batch, adding, moves, alien, known, alone>>
  BY <1>0 DEF Storyboard!Lock, Storyboard!Unfinished, ReorderInv, StoryTypes
<1>2. moves' \in 0 .. MaxMoves /\ alone' \subseteq Editors /\ \A f \in alone' : f \in alone
  BY <1>0, <1>1 DEF StoryTypes
<1>3. \A f \in alone' : f # e => f \in alone /\ tx[f].at # "writing"
  BY <1>0, <1>1, <1>2 DEF StoryInv, MoveAlone, Storyboard!Busy
<1>4. /\ Storyboard!Live' = Storyboard!Live /\ Storyboard!Clips' = Storyboard!Clips
      /\ \A f \in Storyboard!Clips : f \in Storyboard!Live \/ f \notin Storyboard!Live
  BY <1>1 DEF Storyboard!Live, Storyboard!Clips, Storyboard!Old
<1>5. ASSUME NEW t \in Reorders, tx' = [tx EXCEPT ![e] = t],
             t.at = "writing" /\ t.order = tx[e].order /\ t.wrote = tx[e].wrote
      PROVE  /\ tx'[e] = t /\ Storyboard!Busy' = Storyboard!Busy
             /\ SeesApart(e)' /\ WritesApart(e)' /\ Distinct(tx'[e].order)
  <2>1. tx'[e] = t /\ \A f \in Editors : tx'[f].wrote = tx[f].wrote /\ (tx'[f].at = "writing" <=> tx[f].at = "writing")
    BY <1>0, <1>1, <1>5 DEF StoryTypes
  <2>2. Storyboard!Busy' = Storyboard!Busy
    BY <2>1 DEF Storyboard!Busy
  <2>3. Storyboard!Sees(e)' = Storyboard!Sees(e)
    BY <1>1, <1>4, <2>1 DEF Storyboard!Sees
  <2>4. SeesApart(e)'
    BY <1>1, <1>4, <1>5, <2>1, <2>3 DEF WroteInv, SeesApart
  <2>5. WritesApart(e)'
    <3>1. Storyboard!Busy \subseteq Editors
      BY DEF Storyboard!Busy
    <3> QED
      BY <1>1, <2>1, <2>2, <3>1 DEF WroteInv, WritesApart
  <2>6. Distinct(tx'[e].order)
    BY <1>0, <1>1, <1>5, <2>1 DEF ReorderInv
  <2> QED
    BY <2>1, <2>2, <2>4, <2>5, <2>6
<1>6. CASE Storyboard!Clip(e) \in Storyboard!Live \ tx[e].held /\ tx' = [tx EXCEPT ![e].held = @ \cup {Storyboard!Clip(e)}]
  <2> DEFINE t == [tx[e] EXCEPT !.held = @ \cup {Storyboard!Clip(e)}]
  <2>1. Storyboard!Clip(e) \in Storyboard!Clips
    BY <1>6 DEF Storyboard!Live
  <2>2. t \in Reorders /\ tx' = [tx EXCEPT ![e] = t]
    BY <1>0, <1>1, <1>6, <2>1 DEF Reorders, StoryTypes
  <2>3. /\ t.at = "writing" /\ t.order = tx[e].order /\ t.wrote = tx[e].wrote /\ t.step = tx[e].step
        /\ t.held = tx[e].held \cup {Storyboard!Clip(e)}
    BY <1>1 DEF Reorders
  <2> HIDE DEF t
  <2>4. tx'[e] = t /\ Storyboard!Busy' = Storyboard!Busy /\ SeesApart(e)' /\ WritesApart(e)' /\ Distinct(tx'[e].order)
    BY <1>5, <2>2, <2>3
  <2>5. HoldsRows(e)'
    BY <1>1, <1>4, <1>6, <2>3, <2>4 DEF WroteInv, HoldsRows
  <2>6. InLoop(e)'
    <3>1. /\ InLoop(e) /\ tx'[e].order = tx[e].order /\ tx'[e].wrote = tx[e].wrote
          /\ tx'[e].step = tx[e].step
      BY <1>1, <2>3, <2>4 DEF WroteInv
    <3> QED
      BY ONLY <3>1 DEF InLoop
  <2>7. ReorderInv(e)'
    BY <1>0, <1>1, <2>3, <2>4, <2>5, <2>6 DEF ReorderInv, WroteInv
  <2>8. ASSUME e \in alone' PROVE MoveAlone(e)' /\ AddAlone(e)'
    <3>1. MoveAlone(e) /\ batch[e] = <<>>
      BY <1>1, <1>2, <2>8 DEF StoryInv, MoveAlone
    <3>2. MoveAlone(e)'
      BY <1>1, <1>4, <2>3, <2>4, <3>1 DEF MoveAlone, Storyboard!Range
    <3>3. AddAlone(e)'
      BY <1>1, <3>1 DEF AddAlone
    <3> QED
      BY <3>2, <3>3
  <2> QED
    BY <1>1, <1>2, <1>3, <2>2, <2>7, <2>8, ReorderSteps
<1>7. CASE Storyboard!Clip(e) \notin Storyboard!Live /\ tx' = [tx EXCEPT ![e].step = @ + 1]
  <2> DEFINE t == [tx[e] EXCEPT !.step = @ + 1]
             n == Len(tx[e].order)
  <2>1. n \in Nat /\ tx[e].step \in Nat /\ tx[e].step + 1 \in 1 .. 2 * n
    BY <1>0, <1>1, Statements DEF Reorders
  <2>2. t \in Reorders /\ tx' = [tx EXCEPT ![e] = t]
    <3>1. tx[e].step + 1 \in Nat
      BY <2>1
    <3>2. t \in Reorders
      BY <1>1, <3>1 DEF Reorders
    <3> QED
      BY <1>0, <1>7, <3>2 DEF StoryTypes
  <2>3. /\ t.at = "writing" /\ t.order = tx[e].order /\ t.wrote = tx[e].wrote /\ t.step = tx[e].step + 1
        /\ t.held = tx[e].held
    BY <1>1 DEF Reorders
  <2> HIDE DEF t
  <2>4. tx'[e] = t /\ Storyboard!Busy' = Storyboard!Busy /\ SeesApart(e)' /\ WritesApart(e)' /\ Distinct(tx'[e].order)
    BY <1>5, <2>2, <2>3
  <2>5. HoldsRows(e)'
    BY <1>1, <1>4, <2>3, <2>4 DEF WroteInv, HoldsRows
  <2>6. InLoop(e)'
    <3>1. ASSUME NEW c \in DOMAIN tx[e].wrote
          PROVE  \E i \in 1 .. n : /\ tx[e].order[i] = c /\ tx[e].wrote[c] \in {i - 1, i - 1 + Offset}
                                   /\ tx[e].step + 1 >= n + i => tx[e].wrote[c] = i - 1
      <4>1. PICK i \in 1 .. n : /\ tx[e].order[i] = c /\ tx[e].wrote[c] \in {i - 1, i - 1 + Offset}
                                /\ tx[e].step >= n + i => tx[e].wrote[c] = i - 1
        BY <1>1 DEF WroteInv, InLoop
      <4>2. tx[e].order[i] # Storyboard!Clip(e)
        BY <1>1, <1>7, <4>1 DEF WroteInv, HoldsRows
      <4> QED
        BY <1>0, <1>1, <4>1, <4>2, LoopGoesOn
    <3>2. /\ tx'[e].order = tx[e].order /\ tx'[e].wrote = tx[e].wrote /\ tx'[e].step = tx[e].step + 1
      BY <2>3, <2>4
    <3> QED
      BY ONLY <3>1, <3>2 DEF InLoop
  <2>7. ReorderInv(e)'
    BY <2>1, <2>3, <2>4, <2>5, <2>6 DEF ReorderInv, WroteInv
  <2>8. e \notin alone
    <3> SUFFICES ASSUME e \in alone PROVE FALSE
      OBVIOUS
    <3>1. Storyboard!Range(tx[e].order) = Storyboard!Live
      BY <1>1 DEF StoryInv, MoveAlone
    <3>2. \E i \in 1 .. n : Storyboard!Clip(e) = tx[e].order[i]
      BY <1>0, <1>1, <2>1, Statements
    <3>3. DOMAIN tx[e].order = 1 .. n
      BY <1>1 DEF Reorders
    <3> QED
      BY <1>7, <3>1, <3>2, <3>3 DEF Storyboard!Range
  <2> QED
    BY <1>1, <1>2, <1>3, <2>2, <2>7, <2>8, ReorderSteps
<1> QED
  BY <1>6, <1>7 DEF Storyboard!Lock

\* A position free of the other reorders and of the rows a reorder sees.
LEMMA PlaceKeeps == ASSUME StoryInv, NEW e \in Editors, Storyboard!Place(e) PROVE StoryInv'
<1> DEFINE about == Storyboard!Clip(e)
           to == Storyboard!Target(e)
           n == Len(tx[e].order)
           written == [c \in DOMAIN tx[e].wrote \cup {about} |-> IF c = about THEN to ELSE tx[e].wrote[c]]
<1>0. StoryTypes /\ ReorderInv(e) /\ \A f \in Editors : ReorderInv(f)
  BY DEF StoryInv
<1>1. /\ Storyboard!Unfinished(e) /\ tx[e].at = "writing" /\ WroteInv(e) /\ tx[e] \in Reorders
      /\ about \in tx[e].held /\ ~Storyboard!Contended(e, to)
      /\ UNCHANGED <<place, hidden, view, batch, adding, moves, alien, known, alone>>
  BY <1>0 DEF Storyboard!Place, Storyboard!Unfinished, ReorderInv, StoryTypes
<1>2. /\ Storyboard!Live' = Storyboard!Live /\ Storyboard!Clips' = Storyboard!Clips
      /\ Storyboard!Live \subseteq Storyboard!Clips /\ about \in Storyboard!Live
  BY <1>1 DEF Storyboard!Live, Storyboard!Clips, Storyboard!Old, WroteInv, HoldsRows
<1>3. /\ n \in Nat /\ tx[e].step \in Nat /\ tx[e].step + 1 \in 1 .. 2 * n /\ to \in Nat
      /\ \E i \in 1 .. n : /\ tx[e].order[i] = about /\ to \in {i - 1, i - 1 + Offset}
                           /\ tx[e].step + 1 >= n + i => to = i - 1
      /\ \A i \in 1 .. n : i = tx[e].step + 1 => tx[e].order[i] = about
  <2> DEFINE k == tx[e].step + 1
  <2>1. /\ n \in Nat /\ k \in 1 .. 2 * n /\ tx[e].step \in Nat /\ Offset \in Nat
        /\ k <= n => about = tx[e].order[k] /\ to = k - 1 + Offset
        /\ k > n => k - n \in 1 .. n /\ about = tx[e].order[k - n] /\ to = k - n - 1
    BY <1>0, <1>1, Statements, StoryConstants DEF Reorders
  <2> HIDE DEF about, to, n
  <2>2. CASE k <= n
    BY <2>1, <2>2
  <2>3. CASE k > n
    BY <2>1, <2>3
  <2> QED
    BY <2>1, <2>2, <2>3
<1>4. CASE Storyboard!Occupied(Storyboard!Sees(e), about, to)
  <2> DEFINE t == [Storyboard!NoTx EXCEPT !.at = "failed"]
  <2>1. tx' = [tx EXCEPT ![e] = t]
    BY <1>4 DEF Storyboard!Place
  <2>2. t \in Reorders /\ t.at = "failed"
    BY WrittenIs DEF Reorders, Storyboard!NoTx
  <2>3. e \notin alone
    <3> SUFFICES ASSUME e \in alone PROVE FALSE
      OBVIOUS
    <3>1. /\ Storyboard!Range(tx[e].order) = Storyboard!Live
          /\ \A i \in 1 .. n : i <= tx[e].step => tx[e].order[i] \in DOMAIN tx[e].wrote
      BY <1>1 DEF StoryInv, MoveAlone
    <3>2. PICK d \in Storyboard!Live \ {about} : Storyboard!Sees(e)[d] = to
      BY <1>4 DEF Storyboard!Occupied
    <3>3. PICK j \in 1 .. n : tx[e].order[j] = d
      <4>1. DOMAIN tx[e].order = 1 .. n
        BY <1>1 DEF Reorders
      <4> QED
        BY <3>1, <3>2, <4>1 DEF Storyboard!Range
    <3>4. /\ d \in DOMAIN tx[e].wrote => Storyboard!Sees(e)[d] = tx[e].wrote[d]
          /\ d \notin DOMAIN tx[e].wrote => Storyboard!Sees(e)[d] = place[d] /\ place[d] < Offset /\ place[d] \in Nat
      <4>1. place[d] <= Top /\ place[d] \in Nat /\ Top < Offset /\ Top \in Nat
        BY <1>0, <3>2, TopBounds DEF StoryInv, TableInv, Storyboard!Live, StoryTypes
      <4> QED
        BY <1>2, <3>2, <4>1, StoryConstants DEF Storyboard!Sees
    <3>5. Distinct(tx[e].order) /\ Offset \in Nat
      BY <1>0, <1>1, StoryConstants DEF ReorderInv
    <3>6. \A c \in DOMAIN tx[e].wrote : \E i \in 1 .. n : tx[e].order[i] = c /\ tx[e].wrote[c] \in {i - 1, i - 1 + Offset}
      BY <1>1 DEF WroteInv, InLoop
    <3>7. n < Offset
      <4>1. n <= Cardinality(Storyboard!Clips)
        BY <1>1, <3>5, StoryConstants, DistinctLength DEF Reorders
      <4> QED
        BY <1>0, <1>3, <4>1, TopBounds, StoryConstants
    <3>8. ASSUME d \in DOMAIN tx[e].wrote PROVE tx[e].wrote[d] \in {j - 1, j - 1 + Offset}
      BY <3>3, <3>5, <3>6, <3>8 DEF Distinct
    <3>9. PICK i \in 1 .. n : /\ tx[e].order[i] = about /\ to \in {i - 1, i - 1 + Offset}
                              /\ tx[e].step + 1 >= n + i => to = i - 1
      BY <1>3
    <3>10. i # j
      BY <3>2, <3>3, <3>9
    <3>11. d \notin DOMAIN tx[e].wrote /\ to < Offset
      <4> HIDE DEF n, to
      <4> QED
        BY <1>3, <3>2, <3>4, <3>5, <3>7, <3>8, <3>9, <3>10
    <3>12. ~(j <= tx[e].step)
      BY <3>1, <3>3, <3>11
    <3>13. tx[e].step + 1 <= n
      <4> HIDE DEF n
      <4> QED
        BY <1>3, <3>3, <3>12
    <3>14. to = tx[e].step + Offset
      BY <1>0, <1>1, <1>3, <3>13, Statements, StoryConstants
    <3> QED
      BY <1>3, <3>5, <3>11, <3>14
  <2> HIDE DEF t
  <2> QED
    BY <1>1, <2>1, <2>2, <2>3, EndsKeep
<1>5. CASE ~Storyboard!Occupied(Storyboard!Sees(e), about, to)
  <2> DEFINE t == [tx[e] EXCEPT !.step = @ + 1, !.wrote = written]
  <2>1. tx' = [tx EXCEPT ![e] = t] /\ tx'[e] = t
    BY <1>0, <1>5 DEF Storyboard!Place, StoryTypes
  <2>2. written \in Written /\ DOMAIN written = DOMAIN tx[e].wrote \cup {about}
    <3>1. DOMAIN tx[e].wrote \subseteq Storyboard!Clips /\ \A c \in DOMAIN tx[e].wrote : tx[e].wrote[c] \in Nat
      BY <1>1, WrittenIs DEF Reorders
    <3>2. DOMAIN tx[e].wrote \cup {about} \in SUBSET Storyboard!Clips
      BY <1>2, <3>1
    <3>3. written \in [DOMAIN tx[e].wrote \cup {about} -> Nat]
      BY <1>3, <3>1
    <3> QED
      BY <3>2, <3>3, WrittenIs
  <2>3. /\ written[about] = to /\ \A c \in DOMAIN tx[e].wrote : c # about => written[c] = tx[e].wrote[c]
    OBVIOUS
  <2> HIDE DEF written
  <2>4. /\ t \in Reorders /\ t.at = "writing" /\ t.order = tx[e].order /\ t.wrote = written
        /\ t.step = tx[e].step + 1 /\ t.held = tx[e].held
    <3>1. tx[e].step + 1 \in Nat
      BY <1>3
    <3> QED
      BY <1>1, <2>2, <3>1 DEF Reorders
  <2> HIDE DEF t
  <2>5. HoldsRows(e)'
    BY <1>1, <1>2, <2>1, <2>2, <2>4 DEF WroteInv, HoldsRows
  <2>6. InLoop(e)'
    <3>1. ASSUME NEW c \in DOMAIN written
          PROVE  \E i \in 1 .. n : /\ tx[e].order[i] = c /\ written[c] \in {i - 1, i - 1 + Offset}
                                   /\ tx[e].step + 1 >= n + i => written[c] = i - 1
      <4>1. CASE c = about
        BY <1>3, <2>3, <4>1
      <4>2. CASE c # about
        <5>1. PICK i \in 1 .. n : /\ tx[e].order[i] = c /\ tx[e].wrote[c] \in {i - 1, i - 1 + Offset}
                                  /\ tx[e].step >= n + i => tx[e].wrote[c] = i - 1
          BY <1>1, <2>2, <4>2 DEF WroteInv, InLoop
        <5>2. tx[e].step + 1 >= n + i => tx[e].step >= n + i
          BY <1>0, <1>1, <4>2, <5>1, LoopGoesOn
        <5> QED
          BY <2>2, <2>3, <4>2, <5>1, <5>2
      <4> QED
        BY <4>1, <4>2
    <3>2. tx'[e].order = tx[e].order /\ tx'[e].wrote = written /\ tx'[e].step = tx[e].step + 1
      BY <2>1, <2>4
    <3> QED
      BY ONLY <3>1, <3>2 DEF InLoop
  <2>7. SeesApart(e)'
    <3>1. \A d \in Storyboard!Live : Storyboard!Sees(e)'[d] = IF d = about THEN to ELSE Storyboard!Sees(e)[d]
      <4> SUFFICES ASSUME NEW d \in Storyboard!Live
                   PROVE  Storyboard!Sees(e)'[d] = IF d = about THEN to ELSE Storyboard!Sees(e)[d]
        OBVIOUS
      <4>1. Storyboard!Sees(e)'[d] = IF d \in DOMAIN written THEN written[d] ELSE place[d]
        BY <1>1, <1>2, <2>1, <2>4 DEF Storyboard!Sees
      <4>2. Storyboard!Sees(e)[d] = IF d \in DOMAIN tx[e].wrote THEN tx[e].wrote[d] ELSE place[d]
        BY <1>2 DEF Storyboard!Sees
      <4> HIDE DEF about, to
      <4> QED
        BY <2>2, <2>3, <4>1, <4>2
    <3>2. \A d \in Storyboard!Live \ {about} : Storyboard!Sees(e)[d] # to
      BY <1>5 DEF Storyboard!Occupied
    <3>3. /\ DOMAIN tx[e].wrote \subseteq Storyboard!Live
          /\ \A c \in DOMAIN tx[e].wrote : \A d \in Storyboard!Live : Storyboard!Sees(e)[d] = tx[e].wrote[c] => c = d
          /\ \A c \in DOMAIN tx[e].wrote : Storyboard!Sees(e)[c] = tx[e].wrote[c]
      BY <1>1, <1>2 DEF WroteInv, HoldsRows, SeesApart, Storyboard!Sees
    <3>4. ASSUME NEW c \in DOMAIN written, NEW d \in Storyboard!Live, Storyboard!Sees(e)'[d] = written[c]
          PROVE  c = d
      <4> HIDE DEF about, to
      <4>1. CASE c = about
        BY <2>3, <3>1, <3>2, <3>4, <4>1
      <4>2. CASE c # about /\ d = about
        BY <2>2, <2>3, <3>1, <3>2, <3>3, <3>4, <4>2
      <4>3. CASE c # about /\ d # about
        BY <2>2, <2>3, <3>1, <3>3, <3>4, <4>3
      <4> QED
        BY <4>1, <4>2, <4>3
    <3> QED
      BY <1>2, <2>1, <2>4, <3>4 DEF SeesApart
  <2>8. WritesApart(e)'
    <3>1. \A f \in Editors \ {e} : tx'[f] = tx[f]
      BY <1>0, <2>1 DEF StoryTypes
    <3>2. Storyboard!Busy' \ {e} \subseteq Storyboard!Busy \ {e} /\ Storyboard!Busy \subseteq Editors
      BY <3>1 DEF Storyboard!Busy
    <3>3. \A f \in Storyboard!Busy \ {e} : \A d \in DOMAIN tx[f].wrote : tx[f].wrote[d] # to
      BY <1>1 DEF Storyboard!Contended
    <3>4. \A f \in Storyboard!Busy \ {e} : \A c \in DOMAIN tx[e].wrote : \A d \in DOMAIN tx[f].wrote :
             tx[e].wrote[c] # tx[f].wrote[d]
      BY <1>1 DEF WroteInv, WritesApart
    <3>5. ASSUME NEW f \in Storyboard!Busy \ {e}, NEW c \in DOMAIN written, NEW d \in DOMAIN tx[f].wrote
          PROVE  written[c] # tx[f].wrote[d]
      <4> HIDE DEF about, to
      <4> QED
        BY <2>2, <2>3, <3>3, <3>4
    <3> QED
      BY <2>1, <2>4, <3>1, <3>2, <3>5 DEF WritesApart
  <2>9. ReorderInv(e)'
    <3>1. Distinct(tx[e].order)
      BY <1>0, <1>1 DEF ReorderInv
    <3> QED
      BY <1>3, <2>1, <2>4, <2>5, <2>6, <2>7, <2>8, <3>1 DEF ReorderInv, WroteInv
  <2>10. \A f \in alone' : f # e => f \in alone /\ tx[f].at # "writing"
    BY <1>0, <1>1 DEF StoryInv, StoryTypes, MoveAlone, Storyboard!Busy
  <2>11. ASSUME e \in alone' PROVE MoveAlone(e)' /\ AddAlone(e)'
    <3>1. MoveAlone(e) /\ batch[e] = <<>> /\ e \in alone
      BY <1>1, <2>11 DEF StoryInv, MoveAlone
    <3>2. Storyboard!Busy' = {e}
      BY <1>0, <1>1, <2>1, <2>4, <3>1 DEF MoveAlone, Storyboard!Busy, StoryTypes
    <3>3. \A i \in 1 .. n : i <= tx[e].step + 1 => tx[e].order[i] \in DOMAIN written
      <4> SUFFICES ASSUME NEW i \in 1 .. n, i <= tx[e].step + 1 PROVE tx[e].order[i] \in DOMAIN written
        OBVIOUS
      <4>1. i <= tx[e].step \/ i = tx[e].step + 1
        <5> HIDE DEF n
        <5> QED
          BY <1>3
      <4> QED
        BY <1>1, <1>3, <2>2, <3>1, <4>1 DEF MoveAlone
    <3>4. MoveAlone(e)'
      BY <1>1, <1>2, <2>1, <2>4, <3>1, <3>2, <3>3 DEF MoveAlone, Storyboard!Range
    <3>5. AddAlone(e)'
      BY <1>1, <3>1 DEF AddAlone
    <3> QED
      BY <3>4, <3>5
  <2>12. moves' \in 0 .. MaxMoves /\ alone' \subseteq Editors
    BY <1>0, <1>1 DEF StoryTypes
  <2> QED
    BY <1>1, <2>1, <2>4, <2>9, <2>10, <2>11, <2>12, ReorderSteps
<1> QED
  BY <1>4, <1>5

\* What a reorder leaves: what the second loop wrote, and the rest as it was.
LEMMA CommitPlaces ==
  ASSUME StoryInv, NEW e \in Editors, Storyboard!Commit(e)
  PROVE  /\ Storyboard!Clips' = Storyboard!Clips /\ Storyboard!Live' = Storyboard!Live
         /\ Storyboard!Live \subseteq Storyboard!Clips
         /\ \A c \in Storyboard!Clips : place'[c] = IF c \in DOMAIN tx[e].wrote THEN tx[e].wrote[c] ELSE place[c]
         /\ \A c \in DOMAIN tx[e].wrote : c \in Storyboard!Live /\ tx[e].wrote[c] \in Nat /\ tx[e].wrote[c] <= Top
         /\ \A i \in 1 .. Len(tx[e].order) :
              i <= tx[e].step /\ (tx[e].order[i] \in DOMAIN tx[e].wrote => tx[e].wrote[tx[e].order[i]] = i - 1)
<1> DEFINE n == Len(tx[e].order)
<1>0. StoryTypes /\ TableInv /\ PendingInv /\ (\A f \in Editors : ReorderInv(f) /\ ViewInv(f))
  BY DEF StoryInv
<1>1. /\ tx[e].at = "writing" /\ ~Storyboard!Unfinished(e) /\ WroteInv(e) /\ tx[e] \in Reorders
      /\ place' = Storyboard!Sees(e)
  BY <1>0 DEF Storyboard!Commit, ReorderInv, StoryTypes
<1>2. n \in Nat /\ tx[e].step = 2 * n /\ n <= Cardinality(Storyboard!Clips)
  <2>1. n \in Nat /\ tx[e].step \in Nat /\ tx[e].order \in Seq(Storyboard!Clips)
    BY <1>1 DEF Reorders
  <2>2. Distinct(tx[e].order) /\ tx[e].step <= 2 * n
    BY <1>0, <1>1 DEF ReorderInv
  <2>3. Len(Storyboard!Writes(tx[e].order)) = 2 * n
    BY <1>1, WritesTwice DEF Reorders
  <2>4. tx[e].step >= 2 * n
    BY <1>1, <2>1, <2>3 DEF Storyboard!Unfinished
  <2> QED
    BY <2>1, <2>2, <2>4, DistinctLength, StoryConstants
<1>3. ASSUME NEW i \in 1 .. n, NEW c \in DOMAIN tx[e].wrote, tx[e].order[i] = c
      PROVE  tx[e].wrote[c] = i - 1
  <2>1. PICK k \in 1 .. n : /\ tx[e].order[k] = c
                            /\ tx[e].step >= n + k => tx[e].wrote[c] = k - 1
    BY <1>1 DEF WroteInv, InLoop
  <2>2. k = i
    BY <1>0, <1>1, <1>3, <2>1 DEF ReorderInv, Distinct
  <2>3. tx[e].step >= n + k
    <3> HIDE DEF n
    <3> QED
      BY <1>2
  <2> QED
    BY <2>1, <2>2, <2>3
<1>4. ASSUME NEW c \in DOMAIN tx[e].wrote
      PROVE  c \in Storyboard!Live /\ tx[e].wrote[c] \in Nat /\ tx[e].wrote[c] <= Top
  <2>1. PICK i \in 1 .. n : tx[e].wrote[c] = i - 1
    <3>1. PICK i \in 1 .. n : tx[e].step >= n + i => tx[e].wrote[c] = i - 1
      BY <1>1, <1>4 DEF WroteInv, InLoop
    <3>2. tx[e].step >= n + i
      <4> HIDE DEF n
      <4> QED
        BY <1>2
    <3> QED
      BY <3>1, <3>2
  <2>2. Top \in Nat /\ Cardinality(Storyboard!Clips) <= Top /\ Cardinality(Storyboard!Clips) \in Nat
    BY <1>0, TopBounds, StoryConstants
  <2> HIDE DEF n
  <2> QED
    BY <1>1, <1>2, <2>1, <2>2 DEF WroteInv, HoldsRows
<1>5. \A c \in Storyboard!Clips : place'[c] = IF c \in DOMAIN tx[e].wrote THEN tx[e].wrote[c] ELSE place[c]
  BY <1>1 DEF Storyboard!Sees
<1>6. /\ Storyboard!Clips' = Storyboard!Clips /\ Storyboard!Live' = Storyboard!Live
      /\ Storyboard!Live \subseteq Storyboard!Clips
  <2>1. Storyboard!Clips' = Storyboard!Clips /\ Storyboard!Live \subseteq Storyboard!Clips
    BY DEF Storyboard!Clips, Storyboard!Old, Storyboard!Live
  <2>2. \A c \in DOMAIN tx[e].wrote : tx[e].wrote[c] # None
    BY <1>4, StoryConstants
  <2> QED
    BY <1>4, <1>5, <2>1, <2>2 DEF Storyboard!Live
<1>7. \A i \in 1 .. n : i <= tx[e].step
  <2> HIDE DEF n
  <2> QED
    BY <1>2
<1> QED
  BY <1>3, <1>4, <1>5, <1>6, <1>7

LEMMA CommitKeeps == ASSUME StoryInv, NEW e \in Editors, Storyboard!Commit(e) PROVE StoryInv'
<1> DEFINE t == [tx[e] EXCEPT !.at = "moved", !.held = {}]
<1>0. StoryTypes /\ TableInv /\ PendingInv /\ (\A f \in Editors : ReorderInv(f) /\ ViewInv(f))
  BY DEF StoryInv
<1>1. /\ tx[e].at = "writing" /\ ~Storyboard!Unfinished(e) /\ WroteInv(e) /\ tx[e] \in Reorders
      /\ place' = Storyboard!Sees(e) /\ tx' = [tx EXCEPT ![e] = t]
      /\ known' = {} /\ alone' = alone \cap {e}
      /\ UNCHANGED <<hidden, view, batch, adding, moves, alien>>
  BY <1>0 DEF Storyboard!Commit, Storyboard!Changed, ReorderInv, StoryTypes
<1>2. /\ t \in Reorders /\ tx'[e] = t /\ t.at = "moved" /\ \A f \in Editors \ {e} : tx'[f] = tx[f]
  BY <1>0, <1>1 DEF StoryTypes, Reorders
<1>3. \A c \in DOMAIN tx[e].wrote : c \in Storyboard!Live /\ tx[e].wrote[c] \in Nat /\ tx[e].wrote[c] <= Top
  BY CommitPlaces
<1>4. \A c \in Storyboard!Clips : place'[c] = IF c \in DOMAIN tx[e].wrote THEN tx[e].wrote[c] ELSE place[c]
  BY CommitPlaces
<1>5. /\ Storyboard!Clips' = Storyboard!Clips /\ Storyboard!Live' = Storyboard!Live
      /\ Storyboard!Live \subseteq Storyboard!Clips
  BY CommitPlaces
<1>6. place' \in [Storyboard!Clips -> Nat \cup {None}]
  BY <1>0, <1>1, <1>3 DEF Storyboard!Sees, StoryTypes
<1>7. StoryTypes'
  BY <1>0, <1>1, <1>2, <1>5, <1>6 DEF StoryTypes, Reorders, Written
<1>8. Top' = Top /\ Top \in Nat
  BY <1>0, <1>1, <1>5, TopBounds DEF Top, Raises
<1>9. TableInv'
  <2>1. ASSUME NEW c \in Storyboard!Live, NEW d \in Storyboard!Live, place'[c] = place'[d] PROVE c = d
    <3>1. /\ Storyboard!Sees(e)[c] = place'[c] /\ Storyboard!Sees(e)[d] = place'[d]
      BY <1>1
    <3>2. CASE c \in DOMAIN tx[e].wrote
      BY <1>1, <1>4, <1>5, <2>1, <3>1, <3>2 DEF WroteInv, SeesApart
    <3>3. CASE d \in DOMAIN tx[e].wrote
      BY <1>1, <1>4, <1>5, <2>1, <3>1, <3>3 DEF WroteInv, SeesApart
    <3>4. CASE c \notin DOMAIN tx[e].wrote /\ d \notin DOMAIN tx[e].wrote
      BY <1>0, <1>4, <1>5, <2>1, <3>4 DEF TableInv, Apart
    <3> QED
      BY <3>2, <3>3, <3>4
  <2>2. \A c \in Storyboard!Live : place'[c] <= Top
    BY <1>0, <1>3, <1>4, <1>5 DEF TableInv
  <2> QED
    BY <1>5, <1>8, <2>1, <2>2 DEF TableInv, Apart
<1>10. PendingInv'
  <2>1. \A c \in Storyboard!Clips : place[c] = None => place'[c] = None
    BY <1>5 DEF Storyboard!Live
  <2>2. \A f \in Editors : \A i \in DOMAIN batch[f] : batch[f][i].clip \in Storyboard!Clips
    BY <1>0, BatchTypes, StoryConstants
  <2>3. adding.clip # None => adding.clip \in Storyboard!Clips
    BY <1>0, StoryConstants DEF StoryTypes
  <2> QED
    BY <1>0, <1>1, <1>8, <2>1, <2>2, <2>3 DEF PendingInv
<1>11. ASSUME NEW f \in Editors PROVE ReorderInv(f)'
  <2>1. CASE f = e
    BY <1>2, <2>1 DEF ReorderInv
  <2>2. CASE f # e
    <3>1. tx'[f] = tx[f] /\ ReorderInv(f) /\ Storyboard!NoTx' = Storyboard!NoTx
      BY <1>0, <1>2, <2>2 DEF Storyboard!NoTx
    <3>2. ASSUME WroteInv(f), tx[f].at = "writing" PROVE WroteInv(f)'
      <4>1. HoldsRows(f)'
        BY <1>5, <3>1, <3>2 DEF WroteInv, HoldsRows
      <4>2. InLoop(f)'
        <5>1. InLoop(f) /\ tx'[f] = tx[f]
          BY <3>1, <3>2 DEF WroteInv
        <5> QED
          BY ONLY <5>1 DEF InLoop
      <4>3. WritesApart(f)'
        <5>1. Storyboard!Busy' \subseteq Storyboard!Busy /\ Storyboard!Busy' \subseteq Editors \ {e}
          BY <1>2 DEF Storyboard!Busy
        <5> QED
          BY <1>2, <3>1, <3>2, <5>1 DEF WroteInv, WritesApart
      <4>4. ASSUME NEW c \in DOMAIN tx[f].wrote, NEW d \in Storyboard!Live,
                   Storyboard!Sees(f)'[d] = tx[f].wrote[c]
            PROVE  c = d
        <5>1. Storyboard!Sees(f)'[d] = IF d \in DOMAIN tx[f].wrote THEN tx[f].wrote[d] ELSE place'[d]
          BY <1>5, <3>1 DEF Storyboard!Sees
        <5>2. Storyboard!Sees(f)[d] = IF d \in DOMAIN tx[f].wrote THEN tx[f].wrote[d] ELSE place[d]
          BY <1>5 DEF Storyboard!Sees
        <5>3. ASSUME d \in DOMAIN tx[e].wrote PROVE tx[e].wrote[d] # tx[f].wrote[c]
          <6>1. e \in Storyboard!Busy \ {f}
            BY <1>1, <2>2 DEF Storyboard!Busy
          <6> QED
            BY <3>2, <5>3, <6>1 DEF WroteInv, WritesApart
        <5> QED
          BY <1>4, <1>5, <3>2, <4>4, <5>1, <5>2, <5>3 DEF WroteInv, SeesApart
      <4>5. SeesApart(f)'
        BY <1>5, <3>1, <4>4 DEF SeesApart
      <4> QED
        BY <4>1, <4>2, <4>3, <4>5 DEF WroteInv
    <3> QED
      BY <3>1, <3>2 DEF ReorderInv
  <2> QED
    BY <2>1, <2>2
<1>12. \A f \in Editors : ViewInv(f)'
  BY <1>0, <1>1 DEF ViewInv
<1>13. ASSUME NEW f \in alone' PROVE MoveAlone(f)' /\ AddAlone(f)'
  <2>1. f = e /\ e \in alone /\ batch[e] = <<>>
    BY <1>1, <1>13 DEF StoryInv, MoveAlone
  <2> QED
    BY <1>1, <1>2, <2>1 DEF MoveAlone, AddAlone
<1> QED
  BY <1>7, <1>9, <1>10, <1>11, <1>12, <1>13 DEF StoryInv

\* A row whose new position no other has, nor a reorder under way has written.
LEMMA PositionGiven ==
  ASSUME StoryInv, StoryTypes', NEW c \in Storyboard!Clips, NEW p \in Nat,
         place' = [place EXCEPT ![c] = p], p <= Top', Top <= Top',
         ~Storyboard!Contended(None, p), ~Storyboard!Occupied(place, c, p),
         UNCHANGED <<tx, view>>, known' = {}
  PROVE  /\ TableInv' /\ \A f \in Editors : ReorderInv(f)' /\ ViewInv(f)'
         /\ Storyboard!Live' = Storyboard!Live \cup {c}
<1>0. StoryTypes /\ TableInv /\ \A f \in Editors : ReorderInv(f) /\ ViewInv(f)
  BY DEF StoryInv
<1>1. /\ Storyboard!Clips' = Storyboard!Clips /\ Storyboard!Live \subseteq Storyboard!Clips
      /\ Storyboard!Busy' = Storyboard!Busy /\ Storyboard!NoTx' = Storyboard!NoTx
  BY DEF Storyboard!Clips, Storyboard!Old, Storyboard!Live, Storyboard!Busy, Storyboard!NoTx
<1>2. \A d \in Storyboard!Clips : place'[d] = IF d = c THEN p ELSE place[d]
  BY <1>0 DEF StoryTypes
<1>3. Storyboard!Live' = Storyboard!Live \cup {c}
  BY <1>1, <1>2, StoryConstants DEF Storyboard!Live
<1>4. \A d \in Storyboard!Live \ {c} : place[d] # p
  BY DEF Storyboard!Occupied
<1>5. TableInv'
  <2>1. Apart'
    BY <1>0, <1>1, <1>2, <1>3, <1>4 DEF TableInv, Apart
  <2>2. \A d \in Storyboard!Live' : place'[d] <= Top'
    <3>1. Top \in Nat /\ Top' \in Int /\ \A d \in Storyboard!Live : place[d] \in Nat /\ place[d] <= Top
      BY <1>0, TopBounds, TopIsInt DEF TableInv, StoryTypes, Storyboard!Live
    <3> QED
      BY <1>1, <1>2, <1>3, <3>1
  <2> QED
    BY <2>1, <2>2 DEF TableInv
<1>6. ASSUME NEW f \in Editors PROVE ReorderInv(f)'
  <2>1. tx'[f] = tx[f] /\ ReorderInv(f)
    BY <1>0
  <2>2. ASSUME WroteInv(f), tx[f].at = "writing" PROVE WroteInv(f)'
    <3>1. HoldsRows(f)' /\ WritesApart(f)'
      BY <1>1, <1>3, <2>1, <2>2 DEF WroteInv, HoldsRows, WritesApart
    <3>2. InLoop(f)'
      <4>1. InLoop(f) /\ tx'[f] = tx[f]
        BY <2>1, <2>2 DEF WroteInv
      <4> QED
        BY ONLY <4>1 DEF InLoop
    <3>3. ASSUME NEW b \in DOMAIN tx[f].wrote, NEW d \in Storyboard!Live \cup {c},
                 Storyboard!Sees(f)'[d] = tx[f].wrote[b]
          PROVE  b = d
      <4>1. Storyboard!Sees(f)'[d] = IF d \in DOMAIN tx[f].wrote THEN tx[f].wrote[d] ELSE place'[d]
        BY <1>1, <2>1 DEF Storyboard!Sees
      <4>2. Storyboard!Sees(f)[d] = IF d \in DOMAIN tx[f].wrote THEN tx[f].wrote[d] ELSE place[d]
        BY <1>1 DEF Storyboard!Sees
      <4>3. tx[f].wrote[b] # p
        <5>1. f \in Storyboard!Busy \ {None}
          BY <2>2, StoryConstants DEF Storyboard!Busy
        <5> QED
          BY <3>3, <5>1 DEF Storyboard!Contended
      <4>4. d \in DOMAIN tx[f].wrote => d \in Storyboard!Live
        BY <2>2 DEF WroteInv, HoldsRows
      <4> QED
        BY <1>1, <1>2, <2>2, <3>3, <4>1, <4>2, <4>3, <4>4 DEF WroteInv, SeesApart
    <3>4. SeesApart(f)'
      BY <1>3, <2>1, <3>3 DEF SeesApart
    <3> QED
      BY <3>1, <3>2, <3>4 DEF WroteInv
  <2> QED
    BY <1>1, <2>1, <2>2 DEF ReorderInv
<1>7. \A f \in Editors : ViewInv(f)'
  BY <1>0 DEF ViewInv
<1> QED
  BY <1>3, <1>5, <1>6, <1>7

LEMMA ReorderStays ==
  ASSUME NEW f \in Editors, ReorderInv(f), UNCHANGED <<place, tx>>
  PROVE  ReorderInv(f)'
<1>1. /\ Storyboard!Live' = Storyboard!Live /\ Storyboard!Clips' = Storyboard!Clips
      /\ Storyboard!Busy' = Storyboard!Busy /\ Storyboard!NoTx' = Storyboard!NoTx
  BY DEF Storyboard!Live, Storyboard!Clips, Storyboard!Old, Storyboard!Busy, Storyboard!NoTx
<1>2. Storyboard!Sees(f)' = Storyboard!Sees(f)
  BY <1>1 DEF Storyboard!Sees
<1> QED
  BY <1>1, <1>2 DEF ReorderInv, WroteInv, HoldsRows, InLoop, SeesApart, WritesApart

LEMMA ViewStays ==
  ASSUME NEW f \in Editors, ViewInv(f), UNCHANGED <<place, hidden, view, known>>
  PROVE  ViewInv(f)'
<1>1. Storyboard!Shown' = Storyboard!Shown
  BY DEF Storyboard!Shown, Storyboard!Live, Storyboard!Clips, Storyboard!Old
<1>2. Storyboard!InOrder(Storyboard!Shown)' = Storyboard!InOrder(Storyboard!Shown)
  BY <1>1, SetSizes DEF Storyboard!InOrder, Storyboard!Before
<1> QED
  BY <1>2 DEF ViewInv

LEMMA AloneStays ==
  ASSUME NEW f \in Editors, MoveAlone(f), AddAlone(f), UNCHANGED <<place, view, tx>>, batch'[f] = batch[f]
  PROVE  MoveAlone(f)' /\ AddAlone(f)'
<1>1. Storyboard!Live' = Storyboard!Live /\ Storyboard!Busy' = Storyboard!Busy
  BY DEF Storyboard!Live, Storyboard!Busy, Storyboard!Clips, Storyboard!Old
<1>2. MoveAlone(f)'
  BY <1>1 DEF MoveAlone, Storyboard!Range
<1>3. AddAlone(f)'
  BY <1>1 DEF AddAlone, Storyboard!Range
<1> QED
  BY <1>2, <1>3

\* A write of others that changes nothing.
LEMMA OthersWrite ==
  ASSUME StoryInv, alien < MaxAlien, alien' = alien + 1,
         UNCHANGED <<place, hidden, view, tx, batch, adding, moves, known, alone>>
  PROVE  StoryInv'
<1>0. StoryTypes /\ TableInv /\ PendingInv /\ (\A f \in Editors : ReorderInv(f) /\ ViewInv(f))
  BY DEF StoryInv
<1>1. alien' \in 0 .. MaxAlien /\ alien <= alien'
  BY <1>0, StoryConstants DEF StoryTypes
<1>2. StoryTypes'
  BY <1>0, <1>1 DEF StoryTypes, Reorders, Written, Storyboard!Clips, Storyboard!Old
<1>3. TableInv' /\ PendingInv'
  BY <1>0, <1>1, <1>2, TableStays, PendingStays
<1>4. \A f \in Editors : ReorderInv(f)'
  BY <1>0, ReorderStays
<1>5. \A f \in Editors : ViewInv(f)'
  BY <1>0, ViewStays
<1>6. \A f \in alone : MoveAlone(f)' /\ AddAlone(f)'
  BY AloneStays DEF StoryInv, StoryTypes
<1> QED
  BY <1>2, <1>3, <1>4, <1>5, <1>6 DEF StoryInv

\* Positions given to rows there are, or taken from them, are none of those
\* that clips are being added at.
LEMMA RowsKeepPending ==
  ASSUME StoryTypes, StoryTypes', PendingInv, UNCHANGED <<batch, adding>>,
         Storyboard!Live' \subseteq Storyboard!Live, Top <= Top'
  PROVE  PendingInv'
<1>1. \A c \in Storyboard!Clips : place[c] = None => place'[c] = None
  BY DEF Storyboard!Live, Storyboard!Clips, Storyboard!Old
<1>2. \A f \in Editors : \A i \in DOMAIN batch[f] : batch[f][i].clip \in Storyboard!Clips /\ batch[f][i].order \in Nat
  BY BatchTypes, StoryConstants
<1>3. adding.clip # None => adding.clip \in Storyboard!Clips
  BY StoryConstants DEF StoryTypes
<1>4. Top \in Nat /\ Top' \in Int /\ Cardinality(New) \in Nat
  BY TopBounds, TopIsInt, StoryConstants
<1>5. ASSUME adding.clip # None PROVE place'[adding.clip] = None /\ adding.place \in -1 .. Top'
  BY <1>1, <1>3, <1>4, <1>5 DEF PendingInv
<1>6. ASSUME NEW e \in Editors, NEW i \in DOMAIN batch[e], batch[e][i].at = "sent"
      PROVE  place'[batch[e][i].clip] = None /\ batch[e][i].order <= Top' + Cardinality(New)
  BY <1>1, <1>2, <1>4, <1>6 DEF PendingInv
<1> QED
  BY <1>5, <1>6 DEF PendingInv

LEMMA PutClipKeeps == ASSUME StoryInv, Storyboard!PutClip PROVE StoryInv'
<1>0. StoryTypes /\ TableInv /\ PendingInv /\ (\A f \in Editors : ReorderInv(f) /\ ViewInv(f))
  BY DEF StoryInv
<1>1. PICK c \in Storyboard!Live, p \in 0 .. MaxPlace :
        /\ ~Storyboard!Contended(None, p)
        /\ IF Storyboard!Occupied(place, c, p) THEN UNCHANGED <<place, known, alone>>
           ELSE place' = [place EXCEPT ![c] = p] /\ Storyboard!Changed(None)
  BY DEF Storyboard!PutClip
<1>2. /\ alien < MaxAlien /\ alien' = alien + 1 /\ alien \in Nat
      /\ UNCHANGED <<hidden, view, tx, batch, adding, moves>>
  BY <1>0, StoryConstants DEF Storyboard!PutClip, Storyboard!Alien, StoryTypes
<1>3. c \in Storyboard!Clips /\ p \in Nat /\ p <= MaxPlace /\ MaxPlace \in Nat
  BY StoryConstants DEF Storyboard!Live
<1>4. CASE UNCHANGED <<place, known, alone>>
  BY <1>0, <1>2, <1>4, OthersWrite
<1>5. CASE place' = [place EXCEPT ![c] = p] /\ Storyboard!Changed(None) /\ ~Storyboard!Occupied(place, c, p)
  <2>1. known' = {} /\ alone' = {}
    BY <1>0, <1>5, StoryConstants DEF Storyboard!Changed, StoryTypes
  <2>2. StoryTypes'
    BY <1>0, <1>2, <1>3, <1>5, <2>1, StoryConstants DEF StoryTypes, Reorders, Written, Storyboard!Clips, Storyboard!Old
  <2>3. Storyboard!Live' = Storyboard!Live
    <3>1. \A d \in Storyboard!Clips : place'[d] = IF d = c THEN p ELSE place[d]
      BY <1>0, <1>5 DEF StoryTypes
    <3>2. place[c] # None /\ p # None /\ Storyboard!Clips' = Storyboard!Clips
      BY <1>3, StoryConstants DEF Storyboard!Live, Storyboard!Clips, Storyboard!Old
    <3> QED
      BY <3>1, <3>2 DEF Storyboard!Live
  <2>4. Top <= Top' /\ Top \in Nat /\ Top' \in Int /\ p <= Top'
    <3>1. Raises <= Raises'
      <4>1. Raises \in Nat /\ Raises' = Raises + 1
        BY <1>0, <1>2, <2>3, TopBounds, StoryConstants, FS_Subset, FS_CardinalityType DEF Raises
      <4> QED
        BY <4>1
    <3>2. Top <= Top' /\ Top \in Nat /\ Top' \in Int /\ MaxPlace <= Top
      BY <1>0, <2>2, <3>1, TopGrows, TopBounds, TopIsInt
    <3> QED
      BY <1>3, <3>2
  <2>5. TableInv' /\ (\A f \in Editors : ReorderInv(f)' /\ ViewInv(f)')
    BY <1>1, <1>2, <1>3, <1>5, <2>1, <2>2, <2>4, PositionGiven
  <2>6. PendingInv'
    BY <1>0, <1>2, <2>2, <2>3, <2>4, RowsKeepPending
  <2> QED
    BY <2>1, <2>2, <2>5, <2>6 DEF StoryInv
<1> QED
  BY <1>1, <1>4, <1>5

LEMMA DeleteClipKeeps == ASSUME StoryInv, Storyboard!DeleteClip PROVE StoryInv'
<1>0. StoryTypes /\ TableInv /\ PendingInv /\ (\A f \in Editors : ReorderInv(f) /\ ViewInv(f))
  BY DEF StoryInv
<1>1. PICK c \in Storyboard!Live : ~Storyboard!Locked(None, c) /\ place' = [place EXCEPT ![c] = None]
  BY DEF Storyboard!DeleteClip
<1>2. /\ alien < MaxAlien /\ alien' = alien + 1 /\ alien \in Nat /\ known' = {} /\ alone' = {}
      /\ UNCHANGED <<hidden, view, tx, batch, adding, moves>>
  BY <1>0, StoryConstants DEF Storyboard!DeleteClip, Storyboard!Alien, Storyboard!Changed, StoryTypes
<1>3. c \in Storyboard!Clips /\ Storyboard!Clips' = Storyboard!Clips /\ Storyboard!Live \subseteq Storyboard!Clips
  BY DEF Storyboard!Live, Storyboard!Clips, Storyboard!Old
<1>4. \A d \in Storyboard!Clips : place'[d] = IF d = c THEN None ELSE place[d]
  BY <1>0, <1>1 DEF StoryTypes
<1>5. Storyboard!Live' = Storyboard!Live \ {c}
  BY <1>3, <1>4 DEF Storyboard!Live
<1>6. StoryTypes'
  BY <1>0, <1>1, <1>2, <1>3, StoryConstants DEF StoryTypes, Reorders, Written
<1>7. Top <= Top' /\ Top \in Nat /\ Top' \in Int
  <2>1. Raises <= Raises'
    <3> DEFINE added == New \cap Storyboard!Live
    <3>1. IsFiniteSet(added) /\ Cardinality(added) \in Nat
      BY StoryConstants, FS_Subset, FS_CardinalityType
    <3>2. New \cap Storyboard!Live' = added \ {c}
      BY <1>5
    <3>3. Cardinality(added \ {c}) = IF c \in added THEN Cardinality(added) - 1 ELSE Cardinality(added)
      BY <3>1, FS_RemoveElement
    <3>4. Raises = Cardinality(added) + alien /\ Raises' = Cardinality(added \ {c}) + alien'
      BY <3>2 DEF Raises
    <3> HIDE DEF added
    <3> QED
      BY <1>2, <3>1, <3>3, <3>4
  <2> QED
    BY <1>0, <1>6, <2>1, TopGrows, TopBounds, TopIsInt
<1>8. TableInv'
  <2>1. \A d \in Storyboard!Live : place[d] \in Nat /\ place[d] <= Top
    BY <1>0 DEF TableInv, StoryTypes, Storyboard!Live
  <2> QED
    BY <1>0, <1>3, <1>4, <1>5, <1>7, <2>1 DEF TableInv, Apart
<1>9. PendingInv'
  BY <1>0, <1>2, <1>5, <1>6, <1>7, RowsKeepPending
<1>10. ASSUME NEW f \in Editors PROVE ReorderInv(f)'
  <2>1. tx'[f] = tx[f] /\ ReorderInv(f) /\ Storyboard!NoTx' = Storyboard!NoTx /\ Storyboard!Busy' = Storyboard!Busy
    BY <1>0, <1>2 DEF Storyboard!NoTx, Storyboard!Busy
  <2>2. ASSUME WroteInv(f), tx[f].at = "writing" PROVE WroteInv(f)'
    <3>1. c \notin tx[f].held
      <4>1. f \in Storyboard!Busy \ {None}
        BY <2>2, StoryConstants DEF Storyboard!Busy
      <4> QED
        BY <1>1, <4>1 DEF Storyboard!Locked
    <3>2. HoldsRows(f)' /\ WritesApart(f)'
      <4>1. HoldsRows(f)'
        BY <1>5, <2>1, <2>2, <3>1 DEF WroteInv, HoldsRows
      <4>2. WritesApart(f)'
        BY <1>2, <2>1, <2>2 DEF WroteInv, WritesApart
      <4> QED
        BY <4>1, <4>2
    <3>3. InLoop(f)'
      <4>1. InLoop(f) /\ tx'[f] = tx[f]
        BY <2>1, <2>2 DEF WroteInv
      <4> QED
        BY ONLY <4>1 DEF InLoop
    <3>4. \A d \in Storyboard!Live \ {c} : Storyboard!Sees(f)'[d] = Storyboard!Sees(f)[d]
      BY <1>3, <1>4, <2>1 DEF Storyboard!Sees
    <3>5. SeesApart(f)'
      BY <1>5, <2>1, <2>2, <3>4 DEF WroteInv, SeesApart
    <3> QED
      BY <3>2, <3>3, <3>5 DEF WroteInv
  <2> QED
    BY <2>1, <2>2 DEF ReorderInv
<1>11. \A f \in Editors : ViewInv(f)'
  BY <1>0, <1>2 DEF ViewInv
<1> QED
  BY <1>2, <1>6, <1>8, <1>9, <1>10, <1>11 DEF StoryInv

LEMMA HideKeeps == ASSUME StoryInv, Storyboard!Hide PROVE StoryInv'
<1>0. StoryTypes /\ TableInv /\ PendingInv /\ (\A f \in Editors : ReorderInv(f) /\ ViewInv(f))
  BY DEF StoryInv
<1>1. /\ alien < MaxAlien /\ alien' = alien + 1 /\ alien \in Nat /\ known' = {} /\ alone' = {}
      /\ hidden' \subseteq Storyboard!Clips
      /\ UNCHANGED <<place, view, tx, batch, adding, moves>>
  BY <1>0, StoryConstants
  DEF Storyboard!Hide, Storyboard!Alien, Storyboard!Changed, Storyboard!Shown, Storyboard!Live, StoryTypes
<1>2. StoryTypes'
  BY <1>0, <1>1, StoryConstants DEF StoryTypes, Reorders, Written, Storyboard!Clips, Storyboard!Old
<1>3. TableInv' /\ PendingInv'
  BY <1>0, <1>1, <1>2, TableStays, PendingStays
<1>4. \A f \in Editors : ReorderInv(f)'
  BY <1>0, <1>1, ReorderStays
<1>5. \A f \in Editors : ViewInv(f)'
  BY <1>0, <1>1 DEF ViewInv
<1> QED
  BY <1>1, <1>2, <1>3, <1>4, <1>5 DEF StoryInv

\* A clip more raises the highest position there may be.
LEMMA OneMore ==
  ASSUME StoryTypes, StoryTypes', NEW c \in New, c \notin Storyboard!Live,
         Storyboard!Live' = Storyboard!Live \cup {c}, alien <= alien'
  PROVE  /\ Top + Cardinality(New) + 1 <= Top'
         /\ Top \in Nat /\ Top' \in Int /\ Cardinality(New) \in Nat
<1> DEFINE added == New \cap Storyboard!Live
<1>1. IsFiniteSet(added) /\ Cardinality(added) \in Nat
  BY StoryConstants, FS_Subset, FS_CardinalityType
<1>2. New \cap Storyboard!Live' = added \cup {c} /\ c \notin added
  OBVIOUS
<1>3. Cardinality(added \cup {c}) = Cardinality(added) + 1
  BY <1>1, <1>2, FS_AddElement
<1>4. Raises = Cardinality(added) + alien /\ Raises' = Cardinality(added \cup {c}) + alien'
  BY <1>2 DEF Raises
<1>5. alien \in Nat /\ alien' \in Nat
  BY DEF StoryTypes
<1> HIDE DEF added
<1>6. Raises <= Raises' /\ Raises + 1 <= Raises'
  BY <1>1, <1>3, <1>4, <1>5
<1> QED
  BY <1>6, TopGrows, TopBounds, TopIsInt, StoryConstants

\* A page adds after the highest clip it shows.
LEMMA OrdersFollow ==
  ASSUME StoryInv, NEW e \in Editors
  PROVE  \E last \in Nat :
           /\ last <= Top
           /\ \A n \in Nat : Storyboard!Orders(e, n) = [i \in 1 .. n |-> i + last]
           /\ \A c \in Storyboard!Range(view[e]) \cap Storyboard!Live : place[c] <= last
<1> DEFINE shown == Storyboard!Range(view[e]) \cap Storyboard!Live
           last == IF shown = {} THEN 0 ELSE Storyboard!Highest(shown)
<1>1. StoryTypes /\ Apart /\ \A c \in Storyboard!Live : place[c] <= Top
  BY DEF StoryInv, TableInv
<1>2. Top \in Nat
  BY <1>1, TopBounds
<1>3. shown # {} => /\ Storyboard!Highest(shown) \in Nat /\ (\A c \in shown : place[c] <= Storyboard!Highest(shown))
                    /\ \E c \in shown : Storyboard!Highest(shown) = place[c]
  <2>1. shown \in SUBSET Storyboard!Live
    OBVIOUS
  <2> HIDE DEF shown
  <2> QED
    BY <1>1, <2>1, InOrderLists
<1>4. \A n \in Nat : Storyboard!Orders(e, n) = [i \in 1 .. n |-> i + last]
  BY DEF Storyboard!Orders
<1>5. shown \subseteq Storyboard!Live
  OBVIOUS
<1> HIDE DEF shown
<1>6. last \in Nat /\ last <= Top /\ \A c \in shown : place[c] <= last
  BY <1>1, <1>2, <1>3, <1>5
<1> HIDE DEF last
<1> QED
  BY <1>4, <1>6 DEF shown

LEMMA AddClipsKeeps == ASSUME StoryInv, NEW e \in Editors, Storyboard!AddClips(e) PROVE StoryInv'
<1>0. StoryTypes /\ TableInv /\ PendingInv /\ (\A f \in Editors : ReorderInv(f) /\ ViewInv(f))
  BY DEF StoryInv
<1>1. /\ batch[e] = <<>> /\ e \in known /\ Storyboard!Cardinality(Storyboard!Unused) > 1
      /\ alone' = IF tx[e].at = "idle" /\ Storyboard!Busy = {} /\ Storyboard!Live \cap hidden = {}
                  THEN alone \cup {e} ELSE alone \ {e}
      /\ UNCHANGED <<place, hidden, view, tx, adding, moves, alien, known>>
  BY DEF Storyboard!AddClips
<1>2. PICK s \in Storyboard!Injection(1 .. Storyboard!Cardinality(Storyboard!Unused), Storyboard!Unused) :
        batch' = [batch EXCEPT ![e] = [i \in DOMAIN s |-> [clip |-> s[i], order |-> Storyboard!Orders(e, Len(s))[i], at |-> "sent"]]]
  BY DEF Storyboard!AddClips
<1>3. PICK last \in Nat :
        /\ last <= Top
        /\ \A n \in Nat : Storyboard!Orders(e, n) = [i \in 1 .. n |-> i + last]
        /\ \A c \in Storyboard!Range(view[e]) \cap Storyboard!Live : place[c] <= last
  BY OrdersFollow
<1> DEFINE m == Cardinality(Storyboard!Unused)
           fresh == [i \in 1 .. m |-> [clip |-> s[i], order |-> i + last, at |-> "sent"]]
<1>4. /\ Storyboard!Unused \subseteq New /\ m \in Nat /\ m > 1 /\ m <= Cardinality(New) /\ Cardinality(New) \in Nat
  <2>1. Storyboard!Unused \subseteq New
    BY DEF Storyboard!Unused
  <2> QED
    BY <1>1, <2>1, StoryConstants, SetSizes, FS_Subset, FS_CardinalityType
<1>5. s \in [1 .. m -> Storyboard!Unused] /\ \A i, j \in 1 .. m : i # j => s[i] # s[j]
  BY SetSizes DEF Storyboard!Injection, Storyboard!IsInjective
<1>6. s \in Seq(Storyboard!Unused) /\ Len(s) = m
  <2> HIDE DEF m
  <2> QED
    BY <1>4, <1>5, FunIsSeq
<1>7. /\ fresh \in Seq(Additions) /\ DOMAIN fresh = 1 .. m
      /\ \A i \in 1 .. m : fresh[i].clip = s[i] /\ fresh[i].order = i + last /\ fresh[i].at = "sent"
  <2> HIDE DEF m
  <2>1. \A i \in 1 .. m : s[i] \in New /\ i + last \in Nat
    BY <1>3, <1>4, <1>5
  <2>2. fresh \in [1 .. m -> Additions]
    BY <2>1 DEF Additions
  <2>3. fresh \in Seq(Additions)
    <3> HIDE DEF fresh
    <3> QED
      BY <1>4, <2>2, FunIsSeq
  <2> QED
    BY <2>3
<1>8. batch' = [batch EXCEPT ![e] = fresh]
  <2>1. Storyboard!Orders(e, Len(s)) = [i \in 1 .. m |-> i + last] /\ DOMAIN s = 1 .. m
    BY <1>3, <1>4, <1>5, <1>6
  <2> HIDE DEF m
  <2>2. [i \in DOMAIN s |-> [clip |-> s[i], order |-> Storyboard!Orders(e, Len(s))[i], at |-> "sent"]] = fresh
    BY <2>1
  <2> QED
    BY <1>2, <2>2
<1> HIDE DEF fresh, m
<1>9. batch'[e] = fresh /\ \A f \in Editors \ {e} : batch'[f] = batch[f]
  BY <1>0, <1>8 DEF StoryTypes
<1>10. /\ DOMAIN batch'[e] = 1 .. m
       /\ \A i \in 1 .. m : batch'[e][i].clip = s[i] /\ batch'[e][i].order = i + last /\ batch'[e][i].at = "sent"
  BY <1>7, <1>9
<1>11. StoryTypes'
  BY <1>0, <1>1, <1>7, <1>8 DEF StoryTypes, Reorders, Written, Storyboard!Clips, Storyboard!Old
<1>12. TableInv' /\ Top' = Top /\ Top \in Nat /\ Storyboard!Live' = Storyboard!Live
  <2>1. Storyboard!Live' = Storyboard!Live /\ Storyboard!Clips' = Storyboard!Clips
    BY <1>1 DEF Storyboard!Live, Storyboard!Clips, Storyboard!Old
  <2>2. Top' = Top
    BY <1>1, <2>1 DEF Top, Raises
  <2> QED
    BY <1>0, <1>1, <2>1, <2>2, TopBounds DEF TableInv, Apart
<1>13. PendingInv'
  <2>1. \A i \in 1 .. m : /\ place[s[i]] = None /\ s[i] # adding.clip
                          /\ \A f \in Editors : \A j \in DOMAIN batch[f] : batch[f][j].clip # s[i]
    BY <1>5 DEF Storyboard!Unused
  <2>2. \A i \in 1 .. m : i + last <= Top + Cardinality(New)
    BY <1>3, <1>4, <1>12
  <2>3. ASSUME NEW f \in Editors, NEW j \in DOMAIN batch'[f]
        PROVE  /\ batch'[f][j].at = "sent" => place[batch'[f][j].clip] = None /\ batch'[f][j].order <= Top + Cardinality(New)
               /\ batch'[f][j].clip # adding.clip
    <3>1. CASE f = e
      <4>1. j \in 1 .. m
        BY <1>10, <2>3, <3>1
      <4>2. batch'[f][j].clip = s[j] /\ batch'[f][j].order = j + last
        BY <1>10, <3>1, <4>1
      <4> QED
        BY <2>1, <2>2, <4>1, <4>2
    <3>2. CASE f # e
      BY <1>0, <1>9, <2>3, <3>2 DEF PendingInv
    <3> QED
      BY <3>1, <3>2
  <2>4. ASSUME NEW f \in Editors, NEW j \in DOMAIN batch'[f], NEW g \in Editors, NEW k \in DOMAIN batch'[g],
               batch'[f][j].clip = batch'[g][k].clip
        PROVE  f = g /\ j = k
    <3>1. CASE f = e /\ g = e
      <4>1. j \in 1 .. m /\ k \in 1 .. m
        BY <1>10, <2>4, <3>1
      <4>2. batch'[f][j].clip = s[j] /\ batch'[g][k].clip = s[k]
        BY <1>10, <3>1, <4>1
      <4> QED
        BY <1>5, <2>4, <3>1, <4>1, <4>2
    <3>2. CASE f # e /\ g # e
      BY <1>0, <1>9, <2>4, <3>2 DEF PendingInv
    <3>3. CASE f = e /\ g # e
      <4>1. j \in 1 .. m /\ k \in DOMAIN batch[g] /\ batch'[g] = batch[g]
        BY <1>9, <1>10, <2>4, <3>3
      <4>2. batch'[f][j].clip = s[j]
        BY <1>10, <3>3, <4>1
      <4> QED
        BY <2>1, <2>4, <4>1, <4>2
    <3>4. CASE f # e /\ g = e
      <4>1. k \in 1 .. m /\ j \in DOMAIN batch[f] /\ batch'[f] = batch[f]
        BY <1>9, <1>10, <2>4, <3>4
      <4>2. batch'[g][k].clip = s[k]
        BY <1>10, <3>4, <4>1
      <4> QED
        BY <2>1, <2>4, <4>1, <4>2
    <3> QED
      BY <3>1, <3>2, <3>3, <3>4
  <2> QED
    BY <1>0, <1>1, <1>12, <2>3, <2>4 DEF PendingInv
<1>14. \A f \in Editors : ReorderInv(f)' /\ ViewInv(f)'
  BY <1>0, <1>1, ReorderStays, ViewStays
<1>15. ASSUME NEW f \in alone' PROVE f \in Editors /\ MoveAlone(f)' /\ AddAlone(f)'
  <2>1. CASE f # e
    <3>1. f \in alone /\ f \in Editors /\ batch'[f] = batch[f]
      BY <1>0, <1>1, <1>9, <1>15, <2>1 DEF StoryTypes
    <3> QED
      BY <1>1, <3>1, AloneStays DEF StoryInv
  <2>2. CASE f = e
    <3>1. tx[e].at = "idle" /\ Storyboard!Live \cap hidden = {}
      BY <1>1, <1>15, <2>2
    <3>2. Storyboard!Range(view[e]) = Storyboard!Live
      <4>1. Storyboard!Shown = Storyboard!Live
        BY <3>1 DEF Storyboard!Shown
      <4> QED
        BY <1>0, <1>1, <4>1, InOrderLists DEF ViewInv, TableInv
    <3>3. MoveAlone(e)'
      BY <1>1, <3>1 DEF MoveAlone
    <3>4. 1 \in 1 .. m /\ fresh[1].order - 1 = last
      <4>1. 1 \in 1 .. m
        BY <1>4
      <4>2. fresh[1].order = 1 + last
        BY <1>10, <1>9, <4>1
      <4> QED
        BY <1>3, <4>1, <4>2
    <3>5. \A c \in Storyboard!Live : place[c] <= last
      BY <1>3, <3>2
    <3>6. Storyboard!Range(view[e])' = Storyboard!Range(view[e])
      BY <1>1 DEF Storyboard!Range
    <3>7. \A i \in DOMAIN batch'[e] : batch'[e][i].order = last + i /\ batch'[e][i].at = "sent"
      <4> SUFFICES ASSUME NEW i \in DOMAIN batch'[e]
                   PROVE  batch'[e][i].order = last + i /\ batch'[e][i].at = "sent"
        OBVIOUS
      <4>1. i \in 1 .. m /\ i \in Int
        BY <1>10
      <4>2. batch'[e][i].order = i + last /\ batch'[e][i].at = "sent"
        BY <1>10, <4>1
      <4> QED
        BY <1>3, <4>1, <4>2
    <3>8. AddAlone(e)'
      BY <1>1, <1>3, <1>9, <1>12, <3>1, <3>2, <3>4, <3>5, <3>6, <3>7 DEF AddAlone
    <3> QED
      BY <2>2, <3>3, <3>8
  <2> QED
    BY <2>1, <2>2
<1> QED
  BY <1>11, <1>12, <1>13, <1>14, <1>15 DEF StoryInv

LEMMA BatchEndsKeeps == ASSUME StoryInv, NEW e \in Editors, Storyboard!BatchEnds(e) PROVE StoryInv'
<1>0. StoryTypes /\ TableInv /\ PendingInv /\ (\A f \in Editors : ReorderInv(f) /\ ViewInv(f))
  BY DEF StoryInv
<1>1. /\ batch' = [batch EXCEPT ![e] = <<>>]
      /\ UNCHANGED <<place, hidden, view, tx, adding, moves, alien, known, alone>>
  BY DEF Storyboard!BatchEnds
<1>2. batch'[e] = <<>> /\ \A f \in Editors \ {e} : batch'[f] = batch[f]
  BY <1>0, <1>1 DEF StoryTypes
<1>3. StoryTypes'
  BY <1>0, <1>1 DEF StoryTypes, Reorders, Written, Storyboard!Clips, Storyboard!Old
<1>4. TableInv' /\ Top' = Top
  <2>1. Storyboard!Live' = Storyboard!Live /\ Storyboard!Clips' = Storyboard!Clips
    BY <1>1 DEF Storyboard!Live, Storyboard!Clips, Storyboard!Old
  <2>2. Top' = Top
    BY <1>1, <2>1 DEF Top, Raises
  <2> QED
    BY <1>0, <1>1, <2>1, <2>2 DEF TableInv, Apart
<1>5. PendingInv'
  <2>1. \A f \in Editors : \A j \in DOMAIN batch'[f] : f # e /\ j \in DOMAIN batch[f] /\ batch'[f] = batch[f]
    BY <1>2
  <2> QED
    BY <1>0, <1>1, <1>4, <2>1 DEF PendingInv
<1>6. \A f \in Editors : ReorderInv(f)' /\ ViewInv(f)'
  BY <1>0, <1>1, ReorderStays, ViewStays
<1>7. ASSUME NEW f \in alone' PROVE MoveAlone(f)' /\ AddAlone(f)'
  <2>1. f \in Editors /\ MoveAlone(f) /\ AddAlone(f)
    BY <1>0, <1>1, <1>7 DEF StoryInv, StoryTypes
  <2>2. CASE f # e
    BY <1>1, <1>2, <2>1, <2>2, AloneStays
  <2>3. CASE f = e
    <3>1. Storyboard!Live' = Storyboard!Live /\ Storyboard!Busy' = Storyboard!Busy
      BY <1>1 DEF Storyboard!Live, Storyboard!Busy, Storyboard!Clips, Storyboard!Old
    <3>2. MoveAlone(e)'
      BY <1>1, <1>2, <2>1, <2>3, <3>1 DEF MoveAlone, Storyboard!Range
    <3> QED
      BY <1>2, <2>3, <3>2 DEF AddAlone
  <2> QED
    BY <2>2, <2>3
<1> QED
  BY <1>3, <1>4, <1>5, <1>6, <1>7 DEF StoryInv

\* What becomes of the batches when a clip of one is answered.
ClipAnswered(e, i, answer) ==
  /\ batch' \in [Editors -> Seq(Additions)]
  /\ \A f \in Editors \ {e} : batch'[f] = batch[f]
  /\ DOMAIN batch'[e] = DOMAIN batch[e] /\ batch'[e] # <<>>
  /\ \A j \in DOMAIN batch[e] : /\ batch'[e][j].clip = batch[e][j].clip
                                /\ batch'[e][j].order = batch[e][j].order
                                /\ batch'[e][j].at = IF j = i THEN answer ELSE batch[e][j].at

\* One clip of a batch is answered.
LEMMA OneAnswered ==
  ASSUME StoryTypes, NEW e \in Editors, NEW i \in DOMAIN batch[e], NEW answer \in {"added", "failed"},
         batch' = [batch EXCEPT ![e][i].at = answer]
  PROVE  ClipAnswered(e, i, answer)
<1> DEFINE b == batch[e]
           was == b[i]
           is == [was EXCEPT !.at = answer]
<1>1. b \in Seq(Additions) /\ DOMAIN b = 1 .. Len(b) /\ Len(b) \in Nat /\ was \in Additions
  BY BatchTypes DEF StoryTypes
<1>2. is \in Additions /\ is.clip = was.clip /\ is.order = was.order /\ is.at = answer
  BY <1>1 DEF Additions
<1>3. batch' = [batch EXCEPT ![e] = [b EXCEPT ![i] = is]]
  BY DEF StoryTypes
<1> HIDE DEF is
<1> DEFINE c == [b EXCEPT ![i] = is]
<1>4. /\ c \in Seq(Additions) /\ DOMAIN c = DOMAIN b /\ Len(c) = Len(b)
      /\ \A j \in DOMAIN b : c[j] = IF j = i THEN is ELSE b[j]
  BY <1>1, <1>2
<1> HIDE DEF c
<1>5. batch' = [batch EXCEPT ![e] = c]
  BY <1>3 DEF c
<1>6. batch'[e] = c /\ (\A f \in Editors \ {e} : batch'[f] = batch[f]) /\ batch' \in [Editors -> Seq(Additions)]
  BY <1>4, <1>5 DEF StoryTypes
<1>7. c # <<>>
  BY <1>1, <1>4
<1> QED
  BY <1>2, <1>4, <1>6, <1>7 DEF ClipAnswered

LEMMA InsertKeeps == ASSUME StoryInv, NEW e \in Editors, Storyboard!Insert(e) PROVE StoryInv'
<1>0. StoryTypes /\ TableInv /\ PendingInv /\ (\A f \in Editors : ReorderInv(f) /\ ViewInv(f))
  BY DEF StoryInv
<1>1. PICK i \in DOMAIN batch[e] :
        /\ batch[e][i].at = "sent" /\ ~Storyboard!Contended(None, batch[e][i].order + 1)
        /\ IF Storyboard!Occupied(place, batch[e][i].clip, batch[e][i].order + 1)
           THEN batch' = [batch EXCEPT ![e][i].at = "failed"] /\ UNCHANGED <<place, known, alone>>
           ELSE /\ batch' = [batch EXCEPT ![e][i].at = "added"]
                /\ place' = [place EXCEPT ![batch[e][i].clip] = batch[e][i].order + 1] /\ Storyboard!Changed(e)
  BY DEF Storyboard!Insert
<1>2. UNCHANGED <<hidden, view, tx, adding, moves, alien>>
  BY DEF Storyboard!Insert
<1> DEFINE c == batch[e][i].clip
           p == batch[e][i].order + 1
<1>3. /\ c \in New /\ c \in Storyboard!Clips /\ p \in Nat /\ place[c] = None /\ p <= Top + Cardinality(New) + 1
      /\ c # adding.clip /\ c # None
      /\ \A f \in Editors : \A j \in DOMAIN batch[f] : batch[f][j].clip = c => f = e /\ j = i
  <2>1. c \in New /\ batch[e][i].order \in Nat
    BY <1>0, BatchTypes
  <2>2. place[c] = None /\ batch[e][i].order <= Top + Cardinality(New)
    BY <1>0, <1>1 DEF PendingInv
  <2>3. c # adding.clip /\ \A f \in Editors : \A j \in DOMAIN batch[f] : batch[f][j].clip = c => f = e /\ j = i
    BY <1>0 DEF PendingInv
  <2>4. Top \in Nat /\ Cardinality(New) \in Nat
    BY <1>0, TopBounds, StoryConstants
  <2> HIDE DEF c
  <2> QED
    BY <2>1, <2>2, <2>3, <2>4, StoryConstants
<1>4. PICK answer \in {"added", "failed"} : batch' = [batch EXCEPT ![e][i].at = answer]
  BY <1>1
<1>5. /\ batch' \in [Editors -> Seq(Additions)]
      /\ \A f \in Editors \ {e} : batch'[f] = batch[f]
      /\ DOMAIN batch'[e] = DOMAIN batch[e] /\ batch'[e] # <<>>
      /\ \A j \in DOMAIN batch[e] : /\ batch'[e][j].clip = batch[e][j].clip
                                    /\ batch'[e][j].order = batch[e][j].order
                                    /\ batch'[e][j].at = IF j = i THEN answer ELSE batch[e][j].at
  <2>1. ClipAnswered(e, i, answer)
    BY <1>0, <1>4, OneAnswered
  <2> QED
    BY <2>1 DEF ClipAnswered
<1>6. ASSUME NEW f \in Editors, NEW j \in DOMAIN batch'[f]
      PROVE  /\ j \in DOMAIN batch[f] /\ batch'[f][j].clip = batch[f][j].clip /\ batch'[f][j].order = batch[f][j].order
             /\ batch'[f][j].at = "sent" => batch[f][j].at = "sent" /\ batch[f][j].clip # c
  <2>1. CASE f = e
    BY <1>3, <1>5, <1>6, <2>1
  <2>2. CASE f # e
    BY <1>3, <1>5, <1>6, <2>2
  <2> QED
    BY <2>1, <2>2
<1>7. ASSUME e \in alone
      PROVE  ~Storyboard!Occupied(place, c, p)
  <2>1. AddAlone(e) /\ batch[e] # <<>> /\ 1 \in DOMAIN batch[e]
    <3>1. DOMAIN batch[e] = 1 .. Len(batch[e]) /\ Len(batch[e]) \in Nat
      BY <1>0, BatchTypes
    <3> QED
      BY <1>7, <3>1 DEF StoryInv
  <2> DEFINE last == batch[e][1].order - 1
  <2>2. /\ last \in Nat /\ batch[e][i].order = last + i /\ i \in Int
        /\ \A j \in DOMAIN batch[e] : batch[e][j].at = "added" => place[batch[e][j].clip] = last + j + 1
        /\ \A d \in Storyboard!Live :
             place[d] <= last \/ \E j \in DOMAIN batch[e] : batch[e][j].at = "added" /\ batch[e][j].clip = d
    BY <1>0, <2>1, BatchTypes DEF AddAlone
  <2> HIDE DEF last
  <2> SUFFICES ASSUME NEW d \in Storyboard!Live \ {c}, place[d] = p PROVE FALSE
    BY DEF Storyboard!Occupied
  <2>3. p = last + i + 1 /\ i >= 1
    BY <1>0, <2>2, BatchTypes
  <2>4. CASE place[d] <= last
    <3> HIDE DEF p
    <3> QED
      BY <2>2, <2>3, <2>4
  <2>5. ASSUME NEW j \in DOMAIN batch[e], batch[e][j].at = "added", batch[e][j].clip = d PROVE FALSE
    <3>1. place[d] = last + j + 1 /\ j \in Int
      BY <1>0, <2>2, <2>5, BatchTypes
    <3>2. j = i
      <4> HIDE DEF p
      <4> QED
        BY <2>2, <2>3, <3>1
    <3> QED
      BY <2>5, <3>2
  <2> QED
    BY <2>2, <2>4, <2>5
<1> HIDE DEF c, p
<1>8. CASE Storyboard!Occupied(place, c, p)
  <2>1. batch' = [batch EXCEPT ![e][i].at = "failed"] /\ UNCHANGED <<place, known, alone>>
    BY <1>1, <1>8 DEF c, p
  <2>2. StoryTypes'
    BY <1>0, <1>2, <1>5, <2>1 DEF StoryTypes, Reorders, Written, Storyboard!Clips, Storyboard!Old
  <2>3. TableInv' /\ Top' = Top
    <3>1. Storyboard!Live' = Storyboard!Live /\ Storyboard!Clips' = Storyboard!Clips
      BY <2>1 DEF Storyboard!Live, Storyboard!Clips, Storyboard!Old
    <3>2. Top' = Top
      BY <1>2, <3>1 DEF Top, Raises
    <3> QED
      BY <1>0, <2>1, <3>1, <3>2 DEF TableInv, Apart
  <2>4. PendingInv'
    BY <1>0, <1>2, <1>6, <2>1, <2>3 DEF PendingInv
  <2>5. \A f \in Editors : ReorderInv(f)' /\ ViewInv(f)'
    BY <1>0, <1>2, <2>1, ReorderStays, ViewStays
  <2>6. ASSUME NEW f \in alone' PROVE MoveAlone(f)' /\ AddAlone(f)'
    <3>1. f \in alone /\ f \in Editors /\ f # e
      BY <1>0, <1>7, <1>8, <2>1, <2>6 DEF StoryTypes
    <3> QED
      BY <1>2, <1>5, <2>1, <3>1, AloneStays DEF StoryInv
  <2> QED
    BY <2>2, <2>3, <2>4, <2>5, <2>6 DEF StoryInv
<1>9. CASE ~Storyboard!Occupied(place, c, p)
  <2>1. /\ batch' = [batch EXCEPT ![e][i].at = "added"] /\ place' = [place EXCEPT ![c] = p]
        /\ known' = {} /\ alone' = alone \cap {e}
    BY <1>1, <1>9 DEF c, p, Storyboard!Changed
  <2>2. StoryTypes'
    BY <1>0, <1>2, <1>3, <1>5, <2>1 DEF StoryTypes, Reorders, Written, Storyboard!Clips, Storyboard!Old
  <2>3. \A d \in Storyboard!Clips : place'[d] = IF d = c THEN p ELSE place[d]
    BY <1>0, <2>1 DEF StoryTypes
  <2>4. Storyboard!Live' = Storyboard!Live \cup {c} /\ c \notin Storyboard!Live /\ Storyboard!Clips' = Storyboard!Clips
    <3>1. Storyboard!Clips' = Storyboard!Clips
      BY DEF Storyboard!Clips, Storyboard!Old
    <3> QED
      BY <1>3, <2>3, <3>1, StoryConstants DEF Storyboard!Live
  <2>5. Top + Cardinality(New) + 1 <= Top' /\ Top \in Nat /\ Top' \in Int /\ Cardinality(New) \in Nat
    <3>1. alien \in Nat /\ alien' = alien /\ c \in New \ Storyboard!Live
      BY <1>0, <1>2, <1>3, <2>4, StoryConstants DEF StoryTypes
    <3> QED
      BY <1>0, <2>2, <2>4, <3>1, OneMore
  <2>6. p <= Top' /\ Top <= Top'
    BY <1>3, <2>5
  <2>7. /\ TableInv' /\ (\A f \in Editors : ReorderInv(f)' /\ ViewInv(f)')
    <3>1. ~Storyboard!Contended(None, p)
      BY <1>1 DEF p
    <3> QED
      BY <1>2, <1>3, <1>9, <2>1, <2>2, <2>6, <3>1, PositionGiven
  <2>8. PendingInv'
    <3>1. ASSUME adding.clip # None PROVE place'[adding.clip] = None /\ adding.place \in -1 .. Top'
      <4>1. adding.clip \in Storyboard!Clips /\ adding.clip # c
        BY <1>0, <1>3, <3>1, StoryConstants DEF StoryTypes
      <4> QED
        BY <1>0, <2>3, <2>5, <2>6, <3>1, <4>1 DEF PendingInv
    <3>2. ASSUME NEW f \in Editors, NEW j \in DOMAIN batch'[f], batch'[f][j].at = "sent"
          PROVE  place'[batch'[f][j].clip] = None /\ batch'[f][j].order <= Top' + Cardinality(New)
      <4>1. /\ j \in DOMAIN batch[f] /\ batch'[f][j].clip = batch[f][j].clip /\ batch'[f][j].order = batch[f][j].order
            /\ batch[f][j].at = "sent" /\ batch[f][j].clip # c
        BY <1>6, <3>2
      <4>2. batch[f][j].clip \in Storyboard!Clips /\ batch[f][j].order \in Nat
        BY <1>0, <4>1, BatchTypes, StoryConstants
      <4> QED
        BY <1>0, <2>3, <2>5, <2>6, <4>1, <4>2 DEF PendingInv
    <3>3. ASSUME NEW f \in Editors, NEW j \in DOMAIN batch'[f]
          PROVE  /\ batch'[f][j].clip # adding.clip
                 /\ \A g \in Editors : \A k \in DOMAIN batch'[g] : batch'[f][j].clip = batch'[g][k].clip => f = g /\ j = k
      BY <1>0, <1>6, <3>3 DEF PendingInv
    <3> QED
      BY <1>2, <3>1, <3>2, <3>3 DEF PendingInv
  <2>9. ASSUME e \in alone PROVE MoveAlone(e)' /\ AddAlone(e)'
    <3> DEFINE last == batch[e][1].order - 1
    <3>1. /\ tx[e].at = "idle" /\ Storyboard!Range(view[e]) \subseteq Storyboard!Live /\ last \in Nat
          /\ \A j \in DOMAIN batch[e] :
               /\ batch[e][j].order = last + j /\ batch[e][j].at # "failed"
               /\ batch[e][j].at = "added" => place[batch[e][j].clip] = last + j + 1
          /\ \A d \in Storyboard!Live :
               place[d] <= last \/ \E j \in DOMAIN batch[e] : batch[e][j].at = "added" /\ batch[e][j].clip = d
      <4>1. AddAlone(e) /\ batch[e] # <<>>
        <5>1. DOMAIN batch[e] = 1 .. Len(batch[e]) /\ Len(batch[e]) \in Nat
          BY <1>0, BatchTypes
        <5> QED
          BY <2>9, <5>1 DEF StoryInv
      <4> QED
        BY <4>1 DEF AddAlone
    <3>2. 1 \in DOMAIN batch[e] /\ \A j \in DOMAIN batch[e] : j \in Int
      <4>1. DOMAIN batch[e] = 1 .. Len(batch[e]) /\ Len(batch[e]) \in Nat
        BY <1>0, BatchTypes
      <4> QED
        BY <4>1
    <3> HIDE DEF last
    <3>3. batch'[e][1].order - 1 = last
      BY <1>5, <3>2 DEF last
    <3>4. answer = "added"
      BY <1>5, <2>1, <1>0, OneAnswered
    <3>5. p = last + i + 1
      BY <3>1, <3>2 DEF p
    <3>6. ASSUME NEW j \in DOMAIN batch'[e]
          PROVE  /\ batch'[e][j].order = last + j /\ batch'[e][j].at # "failed"
                 /\ batch'[e][j].at = "added" => place'[batch'[e][j].clip] = last + j + 1
      <4>1. /\ j \in DOMAIN batch[e] /\ batch'[e][j].order = last + j /\ batch'[e][j].clip = batch[e][j].clip
            /\ batch'[e][j].at = IF j = i THEN "added" ELSE batch[e][j].at
        BY <1>5, <3>1, <3>4, <3>6
      <4>2. CASE j = i
        BY <1>3, <2>3, <3>5, <4>1, <4>2 DEF c
      <4>3. CASE j # i
        <5>1. batch[e][j].clip \in Storyboard!Clips /\ batch[e][j].clip # c
          BY <1>0, <1>3, <4>1, <4>3, BatchTypes, StoryConstants
        <5> QED
          BY <2>3, <3>1, <4>1, <4>3, <5>1
      <4> QED
        BY <4>2, <4>3
    <3>7. ASSUME NEW d \in Storyboard!Live \cup {c}
          PROVE  place'[d] <= last \/ \E j \in DOMAIN batch'[e] : batch'[e][j].at = "added" /\ batch'[e][j].clip = d
      <4>1. CASE d = c
        BY <1>5, <3>4, <4>1 DEF c
      <4>2. CASE d # c
        <5>1. d \in Storyboard!Live /\ d \in Storyboard!Clips /\ place'[d] = place[d]
          BY <2>3, <3>7, <4>2 DEF Storyboard!Live
        <5>2. ASSUME NEW j \in DOMAIN batch[e], batch[e][j].at = "added", batch[e][j].clip = d
              PROVE  j \in DOMAIN batch'[e] /\ batch'[e][j].at = "added" /\ batch'[e][j].clip = d
          BY <1>5, <3>4, <5>2
        <5> QED
          BY <3>1, <5>1, <5>2
      <4> QED
        BY <4>1, <4>2
    <3>8. Storyboard!Range(view[e])' \subseteq Storyboard!Live'
      <4>1. Storyboard!Range(view[e])' = Storyboard!Range(view[e])
        BY <1>2 DEF Storyboard!Range
      <4> QED
        BY <2>4, <3>1, <4>1
    <3>9. AddAlone(e)'
      BY <1>2, <2>4, <3>1, <3>3, <3>6, <3>7, <3>8 DEF AddAlone
    <3>10. MoveAlone(e)'
      BY <1>2, <3>1 DEF MoveAlone
    <3> QED
      BY <3>9, <3>10
  <2> QED
    BY <2>1, <2>2, <2>7, <2>8, <2>9 DEF StoryInv
<1> QED
  BY <1>8, <1>9

LEMMA AsksKeeps == ASSUME StoryInv, Storyboard!Asks PROVE StoryInv'
<1>0. StoryTypes /\ TableInv /\ PendingInv /\ (\A f \in Editors : ReorderInv(f) /\ ViewInv(f))
  BY DEF StoryInv
<1>1. /\ alien < MaxAlien /\ alien' = alien + 1 /\ alien \in Nat
      /\ UNCHANGED <<place, hidden, view, tx, batch, moves, known, alone>>
  BY <1>0, StoryConstants DEF Storyboard!Asks, Storyboard!Alien, StoryTypes
<1>2. PICK c \in Storyboard!Unused, p \in 0 .. MaxPlace \cup {None} :
        adding' = [clip |-> c, place |-> IF p # None THEN p
                                         ELSE IF Storyboard!Live = {} THEN -1 ELSE Storyboard!Highest(Storyboard!Live)]
  BY DEF Storyboard!Asks
<1> DEFINE q == IF p # None THEN p ELSE IF Storyboard!Live = {} THEN -1 ELSE Storyboard!Highest(Storyboard!Live)
<1>3. q \in -1 .. Top
  <2>1. Top \in Nat /\ MaxPlace <= Top /\ MaxPlace \in Nat
    BY <1>0, TopBounds, StoryConstants
  <2>2. CASE p # None
    BY <2>1, <2>2
  <2>3. CASE p = None /\ Storyboard!Live = {}
    BY <2>1, <2>3
  <2>4. CASE p = None /\ Storyboard!Live # {}
    <3>1. /\ Storyboard!Highest(Storyboard!Live) \in Nat
          /\ \E d \in Storyboard!Live : Storyboard!Highest(Storyboard!Live) = place[d]
      BY <1>0, <2>4, InOrderLists DEF TableInv
    <3>2. Storyboard!Highest(Storyboard!Live) <= Top
      BY <1>0, <3>1 DEF TableInv
    <3> QED
      BY <2>1, <2>4, <3>1, <3>2
  <2> QED
    BY <2>2, <2>3, <2>4
<1> HIDE DEF q
<1>4. adding'.clip = c /\ adding'.place = q
  BY <1>2 DEF q
<1>5. c \in New /\ c # None /\ place[c] = None /\ \A f \in Editors : \A i \in DOMAIN batch[f] : batch[f][i].clip # c
  BY StoryConstants DEF Storyboard!Unused
<1>6. StoryTypes'
  <2>1. adding' \in [clip : New \cup {None}, place : Int \cup {None}]
    <3>1. adding' = [clip |-> c, place |-> q]
      BY <1>2 DEF q
    <3>2. q \in Int
      BY <1>0, <1>3, TopBounds
    <3> QED
      BY <1>5, <3>1, <3>2
  <2>2. alien' \in 0 .. MaxAlien
    BY <1>1, StoryConstants
  <2> QED
    BY <1>0, <1>1, <2>1, <2>2 DEF StoryTypes, Reorders, Written, Storyboard!Clips, Storyboard!Old
<1>7. Top <= Top' /\ TableInv' /\ Top \in Nat /\ Top' \in Int
  BY <1>0, <1>1, <1>6, TableStays, TopBounds, TopIsInt
<1>8. PendingInv'
  <2>1. ASSUME NEW f \in Editors, NEW j \in DOMAIN batch[f], batch[f][j].at = "sent"
        PROVE  place[batch[f][j].clip] = None /\ batch[f][j].order <= Top' + Cardinality(New)
    <3>1. place[batch[f][j].clip] = None /\ batch[f][j].order <= Top + Cardinality(New)
      BY <1>0, <2>1 DEF PendingInv
    <3>2. batch[f][j].order \in Nat /\ Cardinality(New) \in Nat
      BY <1>0, BatchTypes, StoryConstants
    <3> QED
      BY <1>7, <3>1, <3>2
  <2>2. q \in -1 .. Top'
    BY <1>3, <1>7
  <2> QED
    BY <1>0, <1>1, <1>4, <1>5, <2>1, <2>2 DEF PendingInv
<1>9. \A f \in Editors : ReorderInv(f)' /\ ViewInv(f)'
  BY <1>0, <1>1, ReorderStays, ViewStays
<1>10. ASSUME NEW f \in alone' PROVE MoveAlone(f)' /\ AddAlone(f)'
  <2>1. f \in Editors /\ MoveAlone(f) /\ AddAlone(f)
    BY <1>0, <1>1, <1>10 DEF StoryInv, StoryTypes
  <2> QED
    BY <1>1, <2>1, AloneStays
<1> QED
  BY <1>6, <1>7, <1>8, <1>9, <1>10 DEF StoryInv

LEMMA GetsKeeps == ASSUME StoryInv, Storyboard!Gets PROVE StoryInv'
<1>0. StoryTypes /\ TableInv /\ PendingInv /\ (\A f \in Editors : ReorderInv(f) /\ ViewInv(f))
  BY DEF StoryInv
<1> DEFINE c == adding.clip
           p == adding.place + 1
<1>1. /\ c # None /\ ~Storyboard!Contended(None, p) /\ adding' = [clip |-> None, place |-> None]
      /\ UNCHANGED <<hidden, view, tx, batch, moves, alien>>
      /\ IF Storyboard!Occupied(place, c, p) THEN UNCHANGED <<place, known, alone>>
         ELSE place' = [place EXCEPT ![c] = p] /\ Storyboard!Changed(None)
  BY DEF Storyboard!Gets
<1>2. Top \in Nat /\ Cardinality(New) \in Nat
  BY <1>0, TopBounds, StoryConstants
<1>3. /\ c \in New /\ c \in Storyboard!Clips /\ place[c] = None /\ p \in Nat /\ p <= Top + 1
      /\ \A f \in Editors : \A i \in DOMAIN batch[f] : batch[f][i].clip # c
  <2>1. c \in New /\ c \in Storyboard!Clips
    BY <1>0, <1>1, StoryConstants DEF StoryTypes
  <2>2. place[c] = None /\ adding.place \in -1 .. Top
    BY <1>0, <1>1 DEF PendingInv
  <2>3. \A f \in Editors : \A i \in DOMAIN batch[f] : batch[f][i].clip # c
    BY <1>0 DEF PendingInv
  <2> QED
    BY <1>2, <2>1, <2>2, <2>3
<1>4. adding'.clip = None
  BY <1>1
<1> HIDE DEF c, p
<1>5. ASSUME StoryTypes', Top <= Top', \A d \in Storyboard!Clips \ {c} : place'[d] = place[d]
      PROVE  PendingInv'
  <2>1. Top' \in Int
    BY <1>5, TopIsInt
  <2>2. ASSUME NEW f \in Editors, NEW j \in DOMAIN batch[f]
        PROVE  /\ batch[f][j].at = "sent" => place'[batch[f][j].clip] = None /\ batch[f][j].order <= Top' + Cardinality(New)
               /\ batch[f][j].clip # None
    <3>1. batch[f][j].clip \in Storyboard!Clips \ {c} /\ batch[f][j].order \in Nat
      BY <1>0, <1>3, BatchTypes, StoryConstants
    <3>2. batch[f][j].at = "sent" => place[batch[f][j].clip] = None /\ batch[f][j].order <= Top + Cardinality(New)
      BY <1>0 DEF PendingInv
    <3>3. place'[batch[f][j].clip] = place[batch[f][j].clip]
      BY <1>5, <3>1
    <3> QED
      BY <1>2, <1>5, <2>1, <3>1, <3>2, <3>3, StoryConstants
  <2> QED
    BY <1>0, <1>1, <1>4, <2>2 DEF PendingInv
<1>6. CASE Storyboard!Occupied(place, c, p)
  <2>1. UNCHANGED <<place, known, alone>>
    BY <1>1, <1>6
  <2>2. StoryTypes'
    BY <1>0, <1>1, <2>1 DEF StoryTypes, Reorders, Written, Storyboard!Clips, Storyboard!Old
  <2>3. Top <= Top' /\ TableInv'
    <3>1. alien <= alien'
      BY <1>0, <1>1 DEF StoryTypes
    <3> QED
      BY <1>0, <2>1, <2>2, <3>1, TableStays
  <2>4. PendingInv'
    BY <1>5, <2>1, <2>2, <2>3
  <2>5. \A f \in Editors : ReorderInv(f)' /\ ViewInv(f)'
    BY <1>0, <1>1, <2>1, ReorderStays, ViewStays
  <2>6. ASSUME NEW f \in alone' PROVE MoveAlone(f)' /\ AddAlone(f)'
    <3>1. f \in Editors /\ MoveAlone(f) /\ AddAlone(f)
      BY <1>0, <2>1, <2>6 DEF StoryInv, StoryTypes
    <3> QED
      BY <1>1, <2>1, <3>1, AloneStays
  <2> QED
    BY <2>2, <2>3, <2>4, <2>5, <2>6 DEF StoryInv
<1>7. CASE ~Storyboard!Occupied(place, c, p)
  <2>1. place' = [place EXCEPT ![c] = p] /\ known' = {} /\ alone' = {}
    BY <1>0, <1>1, <1>7, StoryConstants DEF Storyboard!Changed, StoryTypes
  <2>2. StoryTypes'
    BY <1>0, <1>1, <1>3, <2>1 DEF StoryTypes, Reorders, Written, Storyboard!Clips, Storyboard!Old
  <2>3. \A d \in Storyboard!Clips : place'[d] = IF d = c THEN p ELSE place[d]
    BY <1>0, <2>1 DEF StoryTypes
  <2>4. Storyboard!Live' = Storyboard!Live \cup {c} /\ c \notin Storyboard!Live
    <3>1. Storyboard!Clips' = Storyboard!Clips
      BY DEF Storyboard!Clips, Storyboard!Old
    <3> QED
      BY <1>3, <2>3, <3>1, StoryConstants DEF Storyboard!Live
  <2>5. Top <= Top' /\ p <= Top'
    <3>1. alien <= alien'
      BY <1>0, <1>1 DEF StoryTypes
    <3>2. Top + Cardinality(New) + 1 <= Top' /\ Top' \in Int
      BY <1>0, <1>3, <2>2, <2>4, <3>1, OneMore
    <3> QED
      BY <1>2, <1>3, <3>2
  <2>6. TableInv' /\ (\A f \in Editors : ReorderInv(f)' /\ ViewInv(f)')
    BY <1>1, <1>3, <1>7, <2>1, <2>2, <2>5, PositionGiven
  <2>7. PendingInv'
    BY <1>5, <2>2, <2>3, <2>5
  <2> QED
    BY <2>1, <2>2, <2>6, <2>7 DEF StoryInv
<1> QED
  BY <1>6, <1>7

LEMMA RequestsKeep == ASSUME StoryInv, NEW e \in Editors, Storyboard!Requests(e) PROVE StoryInv'
  BY CheckKeeps, LockKeeps, PlaceKeeps, DeadlockKeeps, CommitKeeps, AnsweredKeeps, InsertKeeps, BatchEndsKeeps
  DEF Storyboard!Requests

LEMMA StoryKeeps == ASSUME StoryInv, Storyboard!Next PROVE StoryInv'
<1>1. ASSUME NEW e \in Editors, Storyboard!Load(e) \/ Storyboard!Move(e) \/ Storyboard!AddClips(e) PROVE StoryInv'
  BY <1>1, LoadKeeps, MoveKeeps, AddClipsKeeps
<1> QED
  BY <1>1, RequestsKeep, AsksKeeps, GetsKeeps, PutClipKeeps, DeleteClipKeeps, HideKeeps DEF Storyboard!Next

\* What the invariant says of the storyboard.
LEMMA StoryIsSound ==
  ASSUME StoryInv
  PROVE  Storyboard!TypeOK /\ Storyboard!CurrentViewMoves /\ Storyboard!AddsAppend
<1>0. StoryTypes /\ TableInv /\ PendingInv /\ (\A f \in Editors : ReorderInv(f) /\ ViewInv(f))
  BY DEF StoryInv
<1>1. Storyboard!TypeOK
  <2>1. place \in [Storyboard!Clips -> 0 .. Offset + Storyboard!Cardinality(Storyboard!Clips) \cup {None}]
    <3>1. ASSUME NEW c \in Storyboard!Clips, place[c] # None
          PROVE  place[c] \in 0 .. Offset + Cardinality(Storyboard!Clips)
      <4>1. place[c] \in Nat /\ place[c] <= Top
        BY <1>0, <3>1 DEF StoryTypes, TableInv, Storyboard!Live
      <4>2. Top \in Nat /\ Top < Offset /\ Offset \in Nat /\ Cardinality(Storyboard!Clips) \in Nat
        BY <1>0, TopBounds, StoryConstants
      <4> QED
        BY <4>1, <4>2
    <3> QED
      BY <1>0, <3>1, SetSizes DEF StoryTypes
  <2>2. ASSUME NEW e \in Editors
        PROVE  /\ Storyboard!Range(view[e]) \subseteq Storyboard!Clips
               /\ tx[e].at \in {"idle", "check", "writing", "moved", "failed", "refused"}
               /\ tx[e].held \subseteq Storyboard!Clips /\ DOMAIN tx[e].wrote \subseteq Storyboard!Clips
    <3>1. tx[e] \in Reorders /\ view[e] \in Seq(Storyboard!Clips)
      BY <1>0 DEF StoryTypes
    <3>2. tx[e].wrote \in Written /\ tx[e].held \subseteq Storyboard!Clips
          /\ tx[e].at \in {"idle", "check", "writing", "moved", "failed", "refused"}
      BY <3>1 DEF Reorders
    <3>3. DOMAIN tx[e].wrote \subseteq Storyboard!Clips
      BY <3>2, WrittenIs
    <3>4. Storyboard!Range(view[e]) \subseteq Storyboard!Clips
      BY <3>1 DEF Storyboard!Range
    <3> QED
      BY <3>2, <3>3, <3>4
  <2> QED
    BY <1>0, <2>1, <2>2 DEF Storyboard!TypeOK, StoryTypes
<1>2. Storyboard!CurrentViewMoves
  BY DEF StoryInv, MoveAlone, Storyboard!CurrentViewMoves
<1>3. ASSUME NEW e \in alone, NEW i \in DOMAIN batch[e]
      PROVE  /\ batch[e][i].at # "failed"
             /\ batch[e][i].at = "added" =>
                  /\ \A c \in Storyboard!Range(view[e]) \cap Storyboard!Old : place[c] < place[batch[e][i].clip]
                  /\ \A j \in 1 .. i - 1 : batch[e][j].at = "added" => place[batch[e][j].clip] < place[batch[e][i].clip]
  <2> DEFINE last == batch[e][1].order - 1
  <2>1. e \in Editors /\ AddAlone(e)
    BY <1>0 DEF StoryInv, StoryTypes
  <2>2. DOMAIN batch[e] = 1 .. Len(batch[e]) /\ Len(batch[e]) \in Nat /\ \A j \in DOMAIN batch[e] : batch[e][j].clip \in New
    BY <1>0, <2>1, BatchTypes
  <2>3. batch[e] # <<>>
    BY <2>2
  <2>4. /\ Storyboard!Range(view[e]) \subseteq Storyboard!Live /\ last \in Nat
        /\ \A j \in DOMAIN batch[e] :
             batch[e][j].at # "failed" /\ (batch[e][j].at = "added" => place[batch[e][j].clip] = last + j + 1)
        /\ \A c \in Storyboard!Live :
             place[c] <= last \/ \E j \in DOMAIN batch[e] : batch[e][j].at = "added" /\ batch[e][j].clip = c
    BY <2>1, <2>3 DEF AddAlone
  <2> HIDE DEF last
  <2>5. ASSUME batch[e][i].at = "added", NEW c \in Storyboard!Range(view[e]) \cap Storyboard!Old
        PROVE  place[c] < place[batch[e][i].clip]
    <3>1. c \in Storyboard!Live /\ c \notin New
      BY <2>4, StoryConstants
    <3>2. place[c] <= last
      BY <2>2, <2>4, <3>1
    <3>3. place[c] \in Nat
      BY <1>0, <3>1 DEF StoryTypes, Storyboard!Live
    <3>4. place[batch[e][i].clip] = last + i + 1 /\ i \in Nat
      BY <2>2, <2>4, <2>5
    <3> QED
      BY <2>4, <3>2, <3>3, <3>4
  <2>6. ASSUME batch[e][i].at = "added", NEW j \in 1 .. i - 1, batch[e][j].at = "added"
        PROVE  place[batch[e][j].clip] < place[batch[e][i].clip]
    <3>1. j \in DOMAIN batch[e] /\ i \in Nat /\ j \in Nat /\ j < i
      BY <2>2
    <3>2. place[batch[e][i].clip] = last + i + 1 /\ place[batch[e][j].clip] = last + j + 1
      BY <2>4, <2>6, <3>1
    <3> QED
      BY <2>4, <3>1, <3>2
  <2> QED
    BY <2>4, <2>5, <2>6
<1> QED
  BY <1>1, <1>2, <1>3 DEF Storyboard!AddsAppend

-----------------------------------------------------------------------------
(* A reorder takes effect as a whole *)

\* The statements of a reorder that have run wrote, but for rows that are gone.
Passed(e) ==
  tx[e].at = "writing" =>
    \A i \in 1 .. Len(tx[e].order) : i <= tx[e].step => tx[e].order[i] \in DOMAIN tx[e].wrote \/ tx[e].order[i] \notin Storyboard!Live
There(e) == tx[e].at = "writing" => \A i \in 1 .. Len(tx[e].order) : tx[e].order[i] \in Storyboard!Live
NoAdds == adding.clip = None /\ \A e \in Editors : batch[e] = <<>>

\* What is deleted does not come back: nothing is added where clips are deleted,
\* and nothing is deleted where clips are added.
EffectInv ==
  /\ \A e \in Editors : Passed(e)
  /\ part = "moves" => NoAdds
  /\ part = "adds" => \A e \in Editors : There(e)

LEMMA PassedStays ==
  ASSUME NEW f \in Editors, Passed(f), tx'[f] = tx[f],
         Storyboard!Live' \subseteq Storyboard!Live \/ (There(f) /\ Storyboard!Live \subseteq Storyboard!Live')
  PROVE  Passed(f)'
<1>1. SUFFICES ASSUME tx[f].at = "writing", NEW i \in 1 .. Len(tx[f].order), i <= tx[f].step
               PROVE  tx[f].order[i] \in DOMAIN tx[f].wrote \/ tx[f].order[i] \notin Storyboard!Live'
  BY DEF Passed
<1>2. tx[f].order[i] \in DOMAIN tx[f].wrote \/ tx[f].order[i] \notin Storyboard!Live
  BY <1>1 DEF Passed
<1> QED
  BY <1>1, <1>2 DEF There

\* What a step of a reorder does to it and to the clips there are.
LEMMA ReorderGoesOn ==
  ASSUME StoryInv, NEW e \in Editors, Passed(e),
         \/ Storyboard!Move(e) \/ Storyboard!Check(e) \/ Storyboard!Lock(e) \/ Storyboard!Place(e)
         \/ Storyboard!Deadlock(e) \/ Storyboard!Commit(e) \/ Storyboard!Answered(e)
  PROVE  /\ Storyboard!Live' = Storyboard!Live /\ UNCHANGED <<batch, adding>>
         /\ \A f \in Editors \ {e} : tx'[f] = tx[f]
         /\ Passed(e)' /\ (There(e) => There(e)')
         /\ tx[e].at = "writing" /\ tx'[e].at = "moved" => Storyboard!Commit(e)
<1>0. StoryTypes /\ ReorderInv(e) /\ tx[e] \in Reorders
  BY DEF StoryInv, StoryTypes
<1>1. ASSUME UNCHANGED place PROVE Storyboard!Live' = Storyboard!Live
  BY <1>1 DEF Storyboard!Live, Storyboard!Clips, Storyboard!Old
<1>2. ASSUME NEW t, tx' = [tx EXCEPT ![e] = t]
      PROVE  tx'[e] = t /\ \A f \in Editors \ {e} : tx'[f] = tx[f]
  BY <1>0, <1>2 DEF StoryTypes
<1>3. CASE Storyboard!Move(e)
  <2>1. PICK order : tx' = [tx EXCEPT ![e] = [Storyboard!NoTx EXCEPT !.at = "check", !.order = order]]
    <3>1. PICK i \in 1 .. Len(view[e]) - 1 :
            tx' = [tx EXCEPT ![e] = [Storyboard!NoTx EXCEPT !.at = "check",
                                       !.order = [view[e] EXCEPT ![i] = view[e][i + 1], ![i + 1] = view[e][i]]]]
      BY <1>3 DEF Storyboard!Move
    <3> QED
      BY <3>1
  <2>2. UNCHANGED <<place, batch, adding>>
    BY <1>3 DEF Storyboard!Move
  <2>3. tx'[e] = [Storyboard!NoTx EXCEPT !.at = "check", !.order = order] /\ \A f \in Editors \ {e} : tx'[f] = tx[f]
    BY <1>2, <2>1
  <2>4. tx'[e].at = "check"
    BY <2>3 DEF Storyboard!NoTx
  <2> QED
    BY <1>1, <2>2, <2>3, <2>4 DEF Passed, There
<1>4. CASE Storyboard!Check(e)
  <2> DEFINE t == [tx[e] EXCEPT !.at = IF Storyboard!Range(tx[e].order) \subseteq Storyboard!Live THEN "writing" ELSE "refused"]
  <2>1. tx' = [tx EXCEPT ![e] = t] /\ tx[e].at = "check" /\ UNCHANGED <<place, batch, adding>>
    BY <1>0, <1>4 DEF Storyboard!Check, StoryTypes
  <2>2. /\ t.order = tx[e].order /\ t.step = tx[e].step /\ t.at \in {"writing", "refused"}
        /\ t.at = "writing" => Storyboard!Range(tx[e].order) \subseteq Storyboard!Live
    BY <1>0 DEF Reorders
  <2>3. tx[e].step = 0 /\ tx[e].order \in Seq(Storyboard!Clips)
    BY <1>0, <2>1 DEF ReorderInv, Storyboard!NoTx, Reorders
  <2> HIDE DEF t
  <2>4. tx'[e] = t /\ Storyboard!Live' = Storyboard!Live /\ \A f \in Editors \ {e} : tx'[f] = tx[f]
    BY <1>1, <1>2, <2>1
  <2>5. Passed(e)'
    BY <2>2, <2>3, <2>4 DEF Passed
  <2>6. There(e)'
    BY <2>2, <2>3, <2>4 DEF There, Storyboard!Range
  <2> QED
    BY <2>1, <2>2, <2>4, <2>5, <2>6
<1>5. CASE Storyboard!Unfinished(e) /\ (Storyboard!Lock(e) \/ Storyboard!Place(e))
  <2> DEFINE n == Len(tx[e].order)
  <2>1. /\ n \in Nat /\ tx[e].at = "writing" /\ tx[e].step \in Nat
        /\ \A i \in 1 .. n : i = tx[e].step + 1 => tx[e].order[i] = Storyboard!Clip(e)
    BY <1>0, <1>5, Statements DEF Storyboard!Unfinished, Reorders
  <2>2. UNCHANGED <<place, batch, adding>>
    BY <1>5 DEF Storyboard!Lock, Storyboard!Place
  <2>3. ASSUME NEW t \in Reorders, tx' = [tx EXCEPT ![e] = t], t.order = tx[e].order, t.at = "writing",
               DOMAIN tx[e].wrote \subseteq DOMAIN t.wrote,
               \/ t.step = tx[e].step
               \/ t.step = tx[e].step + 1 /\ (Storyboard!Clip(e) \in DOMAIN t.wrote \/ Storyboard!Clip(e) \notin Storyboard!Live)
        PROVE  Passed(e)' /\ (There(e) => There(e)')
    <3>1. tx'[e] = t /\ Storyboard!Live' = Storyboard!Live
      BY <1>1, <1>2, <2>2, <2>3
    <3>2. ASSUME NEW i \in 1 .. n, i <= t.step
          PROVE  tx[e].order[i] \in DOMAIN t.wrote \/ tx[e].order[i] \notin Storyboard!Live
      <4>1. CASE i <= tx[e].step
        BY <2>1, <2>3, <4>1 DEF Passed
      <4>2. CASE i = tx[e].step + 1
        BY <2>1, <2>3, <3>2, <4>2
      <4> HIDE DEF n
      <4> QED
        BY <2>1, <2>3, <3>2, <4>1, <4>2
    <3> QED
      BY <2>1, <2>3, <3>1, <3>2 DEF Passed, There
  <2>4. CASE Storyboard!Lock(e)
    <3>1. CASE tx' = [tx EXCEPT ![e].held = @ \cup {Storyboard!Clip(e)}] /\ Storyboard!Clip(e) \in Storyboard!Live
      <4> DEFINE t == [tx[e] EXCEPT !.held = @ \cup {Storyboard!Clip(e)}]
      <4>1. tx' = [tx EXCEPT ![e] = t]
        BY <1>0, <3>1 DEF StoryTypes
      <4>2. /\ t \in Reorders /\ t.order = tx[e].order /\ t.at = "writing" /\ t.wrote = tx[e].wrote
            /\ t.step = tx[e].step
        BY <1>0, <2>1, <3>1 DEF Reorders, Storyboard!Live
      <4> HIDE DEF t
      <4> QED
        BY <1>1, <1>2, <2>2, <2>3, <4>1, <4>2
    <3>2. CASE tx' = [tx EXCEPT ![e].step = @ + 1] /\ Storyboard!Clip(e) \notin Storyboard!Live
      <4> DEFINE t == [tx[e] EXCEPT !.step = @ + 1]
      <4>1. tx' = [tx EXCEPT ![e] = t]
        BY <1>0, <3>2 DEF StoryTypes
      <4>2. /\ t.order = tx[e].order /\ t.at = "writing" /\ t.wrote = tx[e].wrote
            /\ t.step = tx[e].step + 1
        BY <1>0, <2>1 DEF Reorders
      <4>3. t \in Reorders
        <5>1. tx[e].step + 1 \in Nat
          BY <2>1
        <5> QED
          BY <1>0, <5>1 DEF Reorders
      <4> HIDE DEF t
      <4> QED
        BY <1>1, <1>2, <2>2, <2>3, <3>2, <4>1, <4>2, <4>3
    <3> QED
      BY <2>4, <3>1, <3>2 DEF Storyboard!Lock
  <2>5. CASE Storyboard!Place(e)
    <3>1. CASE tx' = [tx EXCEPT ![e] = [Storyboard!NoTx EXCEPT !.at = "failed"]]
      <4>1. tx'[e] = [Storyboard!NoTx EXCEPT !.at = "failed"] /\ \A f \in Editors \ {e} : tx'[f] = tx[f]
        BY <1>2, <3>1
      <4>2. tx'[e].at = "failed"
        BY <4>1 DEF Storyboard!NoTx
      <4> QED
        BY <1>1, <2>2, <4>1, <4>2 DEF Passed, There
    <3>2. CASE tx' = [tx EXCEPT ![e].step = @ + 1,
                                ![e].wrote = [c \in DOMAIN @ \cup {Storyboard!Clip(e)} |->
                                                IF c = Storyboard!Clip(e) THEN Storyboard!Target(e) ELSE @[c]]]
      <4> DEFINE written == [c \in DOMAIN tx[e].wrote \cup {Storyboard!Clip(e)} |->
                               IF c = Storyboard!Clip(e) THEN Storyboard!Target(e) ELSE tx[e].wrote[c]]
                 t == [tx[e] EXCEPT !.step = @ + 1, !.wrote = written]
      <4>1. tx' = [tx EXCEPT ![e] = t] /\ tx'[e] = t /\ \A f \in Editors \ {e} : tx'[f] = tx[f]
        BY <1>0, <3>2 DEF StoryTypes
      <4>2. DOMAIN written = DOMAIN tx[e].wrote \cup {Storyboard!Clip(e)}
        OBVIOUS
      <4> HIDE DEF written
      <4>3. /\ t.order = tx[e].order /\ t.at = "writing" /\ t.wrote = written /\ t.step = tx[e].step + 1
        BY <1>0, <2>1 DEF Reorders
      <4> HIDE DEF t
      <4>4. t \in Reorders
        <5>1. StoryTypes'
          BY <2>5, PlaceKeeps DEF StoryInv
        <5>2. Reorders' = Reorders
          BY DEF Reorders, Written, Storyboard!Clips, Storyboard!Old
        <5> QED
          BY <4>1, <5>1, <5>2 DEF StoryTypes
      <4> QED
        BY <1>1, <2>2, <2>3, <4>1, <4>2, <4>3, <4>4
    <3> QED
      BY <2>5, <3>1, <3>2 DEF Storyboard!Place
  <2> QED
    BY <1>5, <2>4, <2>5
<1>6. CASE Storyboard!Deadlock(e)
  <2>1. /\ tx' = [tx EXCEPT ![e] = [Storyboard!NoTx EXCEPT !.at = "failed"]]
        /\ UNCHANGED <<place, batch, adding>>
    BY <1>6 DEF Storyboard!Deadlock
  <2>2. tx'[e].at = "failed" /\ \A f \in Editors \ {e} : tx'[f] = tx[f]
    BY <1>2, <2>1 DEF Storyboard!NoTx
  <2> QED
    BY <1>1, <2>1, <2>2 DEF Passed, There
<1>7. CASE Storyboard!Commit(e)
  <2>1. tx' = [tx EXCEPT ![e].at = "moved", ![e].held = {}] /\ UNCHANGED <<batch, adding>>
    BY <1>7 DEF Storyboard!Commit
  <2>2. tx'[e].at = "moved" /\ \A f \in Editors \ {e} : tx'[f] = tx[f]
    BY <1>0, <2>1 DEF StoryTypes, Reorders
  <2> QED
    BY <1>7, <2>1, <2>2, CommitPlaces DEF Passed, There
<1>8. CASE Storyboard!Answered(e)
  <2>1. /\ tx' = [tx EXCEPT ![e] = Storyboard!NoTx] /\ tx[e].at # "writing"
        /\ UNCHANGED <<place, batch, adding>>
    BY <1>8 DEF Storyboard!Answered
  <2>2. tx'[e].at = "idle" /\ \A f \in Editors \ {e} : tx'[f] = tx[f]
    BY <1>2, <2>1 DEF Storyboard!NoTx
  <2> QED
    BY <1>1, <2>1, <2>2 DEF Passed, There
<1> QED
  BY <1>3, <1>4, <1>5, <1>6, <1>7, <1>8 DEF Storyboard!Lock, Storyboard!Place

\* The clips that are there when a reorder is done are in its order.
LEMMA CommitOrders ==
  ASSUME StoryInv, NEW e \in Editors, Storyboard!Commit(e), Passed(e),
         NEW i \in DOMAIN tx[e].order, NEW j \in DOMAIN tx[e].order, i < j,
         place'[tx[e].order[i]] # None, place'[tx[e].order[j]] # None
  PROVE  place'[tx[e].order[i]] < place'[tx[e].order[j]]
<1>1. tx[e].order \in Seq(Storyboard!Clips) /\ tx[e].at = "writing"
  BY DEF StoryInv, StoryTypes, Reorders, Storyboard!Commit
<1>2. ASSUME NEW k \in DOMAIN tx[e].order, place'[tx[e].order[k]] # None
      PROVE  place'[tx[e].order[k]] = k - 1 /\ k \in Nat
  <2>1. k \in 1 .. Len(tx[e].order) /\ tx[e].order[k] \in Storyboard!Clips /\ k \in Nat
    BY <1>1
  <2>2. tx[e].order[k] \in Storyboard!Live
    BY <1>2, <2>1, CommitPlaces DEF Storyboard!Live
  <2>3. tx[e].order[k] \in DOMAIN tx[e].wrote
    BY <1>1, <2>1, <2>2, CommitPlaces DEF Passed
  <2> QED
    BY <2>1, <2>3, CommitPlaces
<1> QED
  BY <1>2

-----------------------------------------------------------------------------
(* The edits: storyboards and sets *)

EditsInv == (part \in {"moves", "adds"} => StoryInv) /\ (part = "sets" => SetsInv)

LEMMA EditsBegin == Init => EditsInv
  BY InitStory, InitSets DEF Init, EditsInv

LEMMA EditsKeep == EditsInv /\ [Next]_vars => EditsInv'
<1> SUFFICES ASSUME EditsInv, [Next]_vars PROVE EditsInv'
  OBVIOUS
<1>1. part' = part
  BY DEF Next, vars
<1>2. CASE part \in {"moves", "adds"}
  <2>1. StoryInv
    BY <1>2 DEF EditsInv
  <2>2. CASE Moving
    <3>1. StoryInv'
      <4>1. ASSUME NEW e \in Editors, Storyboard!Load(e) \/ Storyboard!Move(e) \/ Storyboard!Requests(e) PROVE StoryInv'
        BY <2>1, <4>1, LoadKeeps, MoveKeeps, RequestsKeep
      <4> QED
        BY <2>1, <2>2, <4>1, PutClipKeeps, DeleteClipKeeps, HideKeeps DEF Moving
    <3> QED
      BY <1>1, <1>2, <3>1 DEF EditsInv
  <2>3. CASE Adding
    <3>1. StoryInv'
      <4>1. ASSUME NEW e \in Editors,
                   Storyboard!Load(e) \/ Storyboard!AddClips(e) \/ Storyboard!Requests(e) \/ Storyboard!Move(e)
            PROVE  StoryInv'
        BY <2>1, <4>1, LoadKeeps, AddClipsKeeps, MoveKeeps, RequestsKeep
      <4> QED
        BY <2>1, <2>3, <4>1, AsksKeeps, GetsKeeps DEF Adding
    <3> QED
      BY <1>1, <1>2, <3>1 DEF EditsInv
  <2>4. CASE UNCHANGED storyVars
    <3>0. StoryTypes /\ TableInv /\ PendingInv /\ (\A f \in Editors : ReorderInv(f) /\ ViewInv(f))
      BY <2>1 DEF StoryInv
    <3>1. UNCHANGED <<place, hidden, view, tx, batch, adding, moves, alien, known, alone>>
      BY <2>4 DEF storyVars
    <3>2. StoryTypes'
      BY <3>0, <3>1 DEF StoryTypes, Reorders, Written, Storyboard!Clips, Storyboard!Old
    <3>3. TableInv' /\ PendingInv'
      <4>1. alien <= alien'
        BY <3>0, <3>1 DEF StoryTypes
      <4> QED
        BY <3>0, <3>1, <3>2, <4>1, TableStays, PendingStays
    <3>4. \A f \in Editors : ReorderInv(f)' /\ ViewInv(f)'
      BY <3>0, <3>1, ReorderStays, ViewStays
    <3>5. ASSUME NEW f \in alone' PROVE MoveAlone(f)' /\ AddAlone(f)'
      <4>1. f \in Editors /\ MoveAlone(f) /\ AddAlone(f)
        BY <2>1, <3>0, <3>1, <3>5 DEF StoryInv, StoryTypes
      <4> QED
        BY <3>1, <4>1, AloneStays
    <3>6. StoryInv'
      BY <3>2, <3>3, <3>4, <3>5 DEF StoryInv
    <3> QED
      BY <1>1, <1>2, <3>6 DEF EditsInv
  <2> QED
    BY <1>2, <2>2, <2>3, <2>4 DEF Next, Beside, Dashboard, vars, dashboardVars
<1>3. CASE part = "sets"
  <2>1. SetsInv
    BY <1>3 DEF EditsInv
  <2>2. CASE Arranging!Next
    BY <1>1, <1>3, <2>1, <2>2, SetsKeep DEF EditsInv
  <2>3. CASE UNCHANGED setVars
    <3>1. UNCHANGED <<sets, widths, status, gone, probed, queue, generations, made, count, broken, removals, answered, early, renders>>
      BY <2>3 DEF setVars
    <3>2. SetsInv'
      BY <2>1, <3>1 DEF SetsInv, SetTypes, RenderInv, WidthsInv, Arranging!GeneratedFits
    <3> QED
      BY <1>1, <1>3, <3>2 DEF EditsInv
  <2> QED
    BY <1>3, <2>2, <2>3 DEF Next, Beside, Dashboard, vars, dashboardVars
<1>4. CASE part \notin {"moves", "adds", "sets"}
  BY <1>1, <1>4 DEF EditsInv
<1> QED
  BY <1>2, <1>3, <1>4

\* However many pages edit a storyboard: the move of a page that is up to date
\* goes through while nobody else writes, and the clips it adds come last and
\* in their order; and what is generated for a set is what an item asked, made
\* to fit, and rendered once however often it is asked for.
THEOREM EditsAreSound == Spec => []EditsHold
<1>1. EditsInv => EditsHold
  <2>1. SetsInv => Arranging!TypeOK /\ Arranging!GeneratedFits /\ Arranging!RendersOnce
    <3> SUFFICES ASSUME SetsInv PROVE Arranging!TypeOK /\ Arranging!GeneratedFits /\ Arranging!RendersOnce
      OBVIOUS
    <3>1. Arranging!TypeOK
      BY DEF SetsInv, SetTypes, SetJobs, Arranging!TypeOK
    <3>2. Arranging!RendersOnce
      BY DEF SetsInv, SetTypes, Arranging!RendersOnce
    <3> QED
      BY <3>1, <3>2 DEF SetsInv
  <2> QED
    BY <2>1, StoryIsSound DEF EditsInv, EditsHold
<1> QED
  BY <1>1, EditsBegin, EditsKeep, PTL DEF Spec

\* A step that leaves the reorders as they are: it adds no clip, or deletes none.
LEMMA OthersGoOn ==
  ASSUME StoryInv
  PROVE  /\ \A e \in Editors : Storyboard!Load(e) \/ Storyboard!AddClips(e) \/ Storyboard!BatchEnds(e)
                              => UNCHANGED tx /\ Storyboard!Live' = Storyboard!Live
         /\ Storyboard!Asks \/ Storyboard!Hide => UNCHANGED tx /\ Storyboard!Live' = Storyboard!Live
         /\ (\E e \in Editors : Storyboard!Insert(e)) \/ Storyboard!Gets
              => UNCHANGED tx /\ Storyboard!Live \subseteq Storyboard!Live'
         /\ Storyboard!PutClip \/ Storyboard!DeleteClip => UNCHANGED tx /\ Storyboard!Live' \subseteq Storyboard!Live
<1>0. StoryTypes /\ PendingInv
  BY DEF StoryInv
<1>1. ASSUME UNCHANGED place PROVE Storyboard!Live' = Storyboard!Live
  BY <1>1 DEF Storyboard!Live, Storyboard!Clips, Storyboard!Old
<1>2. ASSUME NEW c, NEW p \in Int, place' = [place EXCEPT ![c] = p] PROVE Storyboard!Live \subseteq Storyboard!Live'
  BY <1>0, <1>2, StoryConstants DEF StoryTypes, Storyboard!Live, Storyboard!Clips, Storyboard!Old
<1>3. ASSUME NEW c \in Storyboard!Live, NEW p, place' = [place EXCEPT ![c] = p] PROVE Storyboard!Live' \subseteq Storyboard!Live
  BY <1>0, <1>3 DEF StoryTypes, Storyboard!Live, Storyboard!Clips, Storyboard!Old
<1>4. ASSUME NEW e \in Editors, Storyboard!Load(e) \/ Storyboard!AddClips(e) \/ Storyboard!BatchEnds(e)
      PROVE  UNCHANGED <<place, tx>>
  BY <1>4 DEF Storyboard!Load, Storyboard!AddClips, Storyboard!BatchEnds
<1>5. ASSUME Storyboard!Asks \/ Storyboard!Hide PROVE UNCHANGED <<place, tx>>
  BY <1>5 DEF Storyboard!Asks, Storyboard!Hide
<1>6. ASSUME NEW e \in Editors, Storyboard!Insert(e) PROVE UNCHANGED tx /\ Storyboard!Live \subseteq Storyboard!Live'
  <2>1. PICK i \in DOMAIN batch[e] :
          \/ UNCHANGED place
          \/ place' = [place EXCEPT ![batch[e][i].clip] = batch[e][i].order + 1]
    BY <1>6 DEF Storyboard!Insert
  <2>2. batch[e][i].order + 1 \in Int
    BY <1>0, BatchTypes
  <2>3. UNCHANGED tx
    BY <1>6 DEF Storyboard!Insert
  <2>4. CASE UNCHANGED place
    BY <1>1, <2>3, <2>4
  <2>5. CASE place' = [place EXCEPT ![batch[e][i].clip] = batch[e][i].order + 1]
    BY <1>2, <2>2, <2>3, <2>5
  <2> QED
    BY <2>1, <2>4, <2>5
<1>7. ASSUME Storyboard!Gets PROVE UNCHANGED tx /\ Storyboard!Live \subseteq Storyboard!Live'
  <2>1. /\ adding.clip # None /\ UNCHANGED tx
        /\ UNCHANGED place \/ place' = [place EXCEPT ![adding.clip] = adding.place + 1]
    BY <1>7 DEF Storyboard!Gets
  <2>2. adding.place + 1 \in Int
    BY <1>0, <2>1, TopBounds DEF PendingInv
  <2>3. CASE UNCHANGED place
    BY <1>1, <2>1, <2>3
  <2>4. CASE place' = [place EXCEPT ![adding.clip] = adding.place + 1]
    BY <1>2, <2>1, <2>2, <2>4
  <2> QED
    BY <2>1, <2>3, <2>4
<1>8. ASSUME Storyboard!PutClip \/ Storyboard!DeleteClip PROVE UNCHANGED tx /\ Storyboard!Live' \subseteq Storyboard!Live
  <2>1. UNCHANGED tx
    BY <1>8 DEF Storyboard!PutClip, Storyboard!DeleteClip
  <2>2. UNCHANGED place \/ \E c \in Storyboard!Live : \E p : place' = [place EXCEPT ![c] = p]
    <3>1. CASE Storyboard!PutClip
      BY <3>1 DEF Storyboard!PutClip
    <3>2. CASE Storyboard!DeleteClip
      BY <3>2 DEF Storyboard!DeleteClip
    <3> QED
      BY <1>8, <3>1, <3>2
  <2> QED
    BY <1>1, <1>3, <2>1, <2>2
<1> QED
  BY <1>1, <1>4, <1>5, <1>6, <1>7, <1>8

LEMMA EffectKeeps == ASSUME EditsInv, EffectInv, [Next]_vars, part \in {"moves", "adds"} PROVE EffectInv'
<1>0. StoryInv /\ part' = part /\ \A f \in Editors : Passed(f)
  BY DEF EditsInv, EffectInv, Next, vars
<1>1. ASSUME UNCHANGED tx, \/ part = "moves" /\ Storyboard!Live' \subseteq Storyboard!Live
                           \/ part = "adds" /\ Storyboard!Live \subseteq Storyboard!Live'
      PROVE  (\A f \in Editors : Passed(f)') /\ (part = "adds" => \A f \in Editors : There(f)')
  <2>1. ASSUME NEW f \in Editors PROVE Passed(f)'
    BY <1>0, <1>1, PassedStays DEF EffectInv
  <2>2. ASSUME part = "adds", NEW f \in Editors PROVE There(f)'
    <3>1. There(f) /\ tx'[f] = tx[f] /\ Storyboard!Live \subseteq Storyboard!Live'
      BY <1>1, <2>2 DEF EffectInv
    <3> QED
      BY <3>1 DEF There
  <2> QED
    BY <2>1, <2>2
<1>2. ASSUME NEW e \in Editors,
             \/ Storyboard!Move(e) \/ Storyboard!Check(e) \/ Storyboard!Lock(e) \/ Storyboard!Place(e)
             \/ Storyboard!Deadlock(e) \/ Storyboard!Commit(e) \/ Storyboard!Answered(e)
      PROVE  EffectInv'
  <2>1. /\ Storyboard!Live' = Storyboard!Live /\ UNCHANGED <<batch, adding>>
        /\ \A f \in Editors \ {e} : tx'[f] = tx[f]
        /\ Passed(e)' /\ (There(e) => There(e)')
    BY <1>0, <1>2, ReorderGoesOn
  <2>2. ASSUME NEW f \in Editors PROVE Passed(f)' /\ (There(f) => There(f)')
    <3>1. CASE f = e
      BY <2>1, <3>1
    <3>2. CASE f # e
      <4>1. tx'[f] = tx[f]
        BY <2>1, <3>2
      <4>2. Passed(f)'
        BY <1>0, <2>1, <4>1, PassedStays
      <4> QED
        BY <2>1, <4>1, <4>2 DEF There
    <3> QED
      BY <3>1, <3>2
  <2>3. NoAdds => NoAdds'
    BY <2>1 DEF NoAdds
  <2> QED
    BY <1>0, <2>2, <2>3 DEF EffectInv
<1>3. CASE part = "moves" /\ Moving
  <2>1. NoAdds
    BY <1>3 DEF EffectInv
  <2>2. ASSUME NEW e \in Editors PROVE ~Storyboard!Insert(e) /\ ~Storyboard!BatchEnds(e)
    BY <2>1 DEF NoAdds, Storyboard!Insert, Storyboard!BatchEnds
  <2>3. CASE (\E e \in Editors : Storyboard!Load(e)) \/ Storyboard!PutClip \/ Storyboard!DeleteClip \/ Storyboard!Hide
    <3>1. UNCHANGED <<batch, adding>>
      BY <2>3 DEF Storyboard!Load, Storyboard!PutClip, Storyboard!DeleteClip, Storyboard!Hide
    <3>2. UNCHANGED tx /\ Storyboard!Live' \subseteq Storyboard!Live
      BY <1>0, <2>3, OthersGoOn
    <3>3. \A f \in Editors : Passed(f)'
      BY <1>1, <1>3, <3>2
    <3>4. NoAdds'
      BY <2>1, <3>1 DEF NoAdds
    <3> QED
      BY <1>0, <1>3, <3>3, <3>4 DEF EffectInv
  <2> QED
    BY <1>2, <1>3, <2>2, <2>3 DEF Moving, Storyboard!Requests
<1>4. CASE part = "adds" /\ Adding
  <2>1. CASE \/ \E e \in Editors : Storyboard!Load(e) \/ Storyboard!AddClips(e) \/ Storyboard!Insert(e) \/ Storyboard!BatchEnds(e)
             \/ Storyboard!Asks \/ Storyboard!Gets
    <3>1. UNCHANGED tx /\ Storyboard!Live \subseteq Storyboard!Live'
      BY <1>0, <2>1, OthersGoOn
    <3>2. (\A f \in Editors : Passed(f)') /\ \A f \in Editors : There(f)'
      BY <1>1, <1>4, <3>1
    <3> QED
      BY <1>0, <1>4, <3>2 DEF EffectInv
  <2> QED
    BY <1>2, <1>4, <2>1 DEF Adding, Storyboard!Requests
<1>5. CASE UNCHANGED storyVars
  <2>1. UNCHANGED <<place, tx, batch, adding>>
    BY <1>5 DEF storyVars
  <2>2. Storyboard!Live' = Storyboard!Live
    BY <2>1 DEF Storyboard!Live, Storyboard!Clips, Storyboard!Old
  <2>3. (\A f \in Editors : Passed(f)') /\ (part = "adds" => \A f \in Editors : There(f)')
    BY <1>1, <2>1, <2>2
  <2>4. NoAdds => NoAdds'
    BY <2>1 DEF NoAdds
  <2> QED
    BY <1>0, <2>3, <2>4 DEF EffectInv
<1> QED
  BY <1>3, <1>4, <1>5 DEF Next, Beside, Dashboard, vars, dashboardVars

\* The parts of a file that is cancelled are aborted.
CancelInv == \A f \in Uploaded : upload[f] = "parts" /\ f \in cancelled => f \in aborted

LEMMA CancelSteps ==
  ASSUME SendingInv, CancelInv, Sending!Next
  PROVE  /\ CancelInv'
         /\ \A f \in Uploaded : f \in cancelled => recorded'[f] \in {recorded[f], {}}
<1>0. Sending!TypeOK
  BY DEF SendingInv
<1>1. ASSUME NEW g \in Uploaded, Sending!Start(g)
      PROVE  CancelInv' /\ \A f \in Uploaded : f \in cancelled => recorded'[f] \in {recorded[f], {}}
  BY <1>0, <1>1 DEF CancelInv, Sending!Start, Sending!Goes, Sending!TypeOK
<1>2. ASSUME NEW g \in Uploaded, Sending!Cancel(g)
      PROVE  CancelInv' /\ \A f \in Uploaded : f \in cancelled => recorded'[f] \in {recorded[f], {}}
  BY <1>0, <1>2 DEF CancelInv, Sending!Cancel, Sending!partVars, Sending!TypeOK
<1>3. ASSUME Sending!Unmount
      PROVE  CancelInv' /\ \A f \in Uploaded : f \in cancelled => recorded'[f] \in {recorded[f], {}}
  BY <1>0, <1>3 DEF CancelInv, Sending!Unmount, Sending!partVars, Sending!TypeOK
<1>4. ASSUME NEW g \in Uploaded, Sending!Upload(g)
      PROVE  CancelInv' /\ \A f \in Uploaded : f \in cancelled => recorded'[f] \in {recorded[f], {}}
  <2>1. cancelled' = cancelled
    BY <1>4 DEF Sending!Upload, Sending!Put, Sending!Initiate, Sending!TakePart, Sending!Stop, Sending!PartsDone,
                Sending!Complete, Sending!PartStored, Sending!PartFails
  <2>2. aborted \subseteq aborted'
    BY <1>4 DEF Sending!Upload, Sending!Put, Sending!Initiate, Sending!TakePart, Sending!Stop, Sending!PartsDone,
                Sending!Complete, Sending!PartStored, Sending!PartFails, Sending!GivesUp
  <2>3. ASSUME NEW f \in Uploaded PROVE upload'[f] = "parts" => upload[f] = "parts" \/ (f \in cancelled => f \in aborted')
    <3>1. CASE Sending!Initiate(g)
      BY <1>0, <3>1 DEF Sending!Initiate, Sending!Goes, Sending!TypeOK
    <3>2. CASE Sending!Put(g) \/ Sending!Stop(g) \/ Sending!PartsDone(g) \/ Sending!Complete(g)
      BY <1>0, <3>2 DEF Sending!Put, Sending!Stop, Sending!PartsDone, Sending!Complete, Sending!Goes, Sending!TypeOK
    <3>3. CASE Sending!TakePart(g) \/ \E q \in flying[g] : Sending!PartStored(g, q)
      BY <3>3 DEF Sending!TakePart, Sending!PartStored
    <3>4. CASE \E q \in flying[g] : Sending!PartFails(g, q)
      BY <1>0, <3>4 DEF Sending!PartFails, Sending!GivesUp, Sending!Goes, Sending!TypeOK
    <3> QED
      BY <1>4, <3>1, <3>2, <3>3, <3>4 DEF Sending!Upload
  <2>4. CancelInv'
    BY <2>1, <2>2, <2>3 DEF CancelInv
  <2>5. ASSUME NEW f \in Uploaded, f \in cancelled PROVE recorded'[f] = recorded[f]
    <3>1. CASE \E q \in flying[g] : Sending!PartStored(g, q)
      <4>1. PICK q \in flying[g] : Sending!PartStored(g, q)
        BY <3>1
      <4>2. upload[g] = "parts" /\ g \notin aborted /\ recorded' = [recorded EXCEPT ![g] = @ \cup {q[1]}]
        BY <4>1 DEF Sending!PartStored
      <4>3. f # g
        BY <2>5, <4>2 DEF CancelInv
      <4> QED
        BY <1>0, <4>2, <4>3 DEF Sending!TypeOK
    <3>2. CASE ~\E q \in flying[g] : Sending!PartStored(g, q)
      <4>1. UNCHANGED recorded
        BY <1>4, <3>2 DEF Sending!Upload, Sending!Put, Sending!Initiate, Sending!TakePart, Sending!Stop, Sending!PartsDone,
                          Sending!Complete, Sending!PartFails, Sending!partVars
      <4> QED
        BY <4>1
    <3> QED
      BY <3>1, <3>2
  <2> QED
    BY <2>4, <2>5
<1> QED
  BY <1>1, <1>2, <1>3, <1>4 DEF Sending!Next

\* A reorder that is answered with success has put the clips it names in their
\* order, whatever was moved, placed, added or deleted meanwhile; and a large
\* file that is cancelled before its last part is recorded gets no further part.
THEOREM EditsDoAsAsked == Spec => EditsTakeEffect
<1> DEFINE Inv == /\ EditsInv /\ (part \in {"moves", "adds"} => EffectInv)
                  /\ part = "uploads" => SendingInv /\ CancelInv
           InOrder == \A e \in Editors : tx[e].at = "writing" /\ tx'[e].at = "moved" =>
                        LET left == {i \in DOMAIN tx[e].order : place'[tx[e].order[i]] # None}
                        IN  \A i, j \in left : i < j => place'[tx[e].order[i]] < place'[tx[e].order[j]]
           Stops == \A f \in Uploaded : f \in cancelled /\ recorded[f] # Sending!Parts /\ f \notin Small
                                     => recorded'[f] \in {recorded[f], {}}
<1>1. Init => Inv
  <2> SUFFICES ASSUME Init PROVE Inv
    OBVIOUS
  <2>1. EffectInv
    BY DEF Init, Storyboard!Init, Storyboard!NoTx, EffectInv, Passed, There, NoAdds
  <2>2. CancelInv
    BY DEF Init, Sending!Init, CancelInv
  <2> QED
    BY <2>1, <2>2, EditsBegin, InitSending DEF Init
<1>2. Inv /\ [Next]_vars => Inv' /\ [Stops]_Sending!vars
  <2> SUFFICES ASSUME Inv, [Next]_vars PROVE Inv' /\ [Stops]_Sending!vars
    OBVIOUS
  <2>1. part' = part
    BY DEF Next, vars
  <2>2. EditsInv' /\ (part' = "uploads" => SendingInv')
    BY EditsKeep, FilesKeep
  <2>3. part' \in {"moves", "adds"} => EffectInv'
    BY <2>1, EffectKeeps
  <2>4. (part' = "uploads" => CancelInv') /\ [Stops]_Sending!vars
    <3>1. CASE part = "uploads" /\ Sending!Next
      BY <3>1, CancelSteps
    <3>2. CASE UNCHANGED sendingVars
      <4>1. UNCHANGED <<upload, starts, cancelled, aborted, flying, next, recorded, landed, debris, object,
                        sending, onScreen, failures, blamed>>
        BY <3>2 DEF sendingVars
      <4> QED
        BY <2>1, <4>1 DEF CancelInv, Sending!vars, Sending!partVars
    <3> QED
      BY <3>1, <3>2 DEF Next, Beside, Dashboard, vars, dashboardVars
  <2> QED
    BY <2>2, <2>3, <2>4
<1>3. Inv /\ [Next]_vars => [InOrder]_Storyboard!storyVars
  <2> SUFFICES ASSUME Inv, [Next]_vars PROVE [InOrder]_Storyboard!storyVars
    OBVIOUS
  <2>1. CASE UNCHANGED storyVars
    BY <2>1 DEF storyVars, Storyboard!storyVars
  <2>2. CASE part \in {"moves", "adds"} /\ (Moving \/ Adding)
    <3>0. StoryInv /\ EffectInv
      BY <2>2 DEF EditsInv
    <3>1. ASSUME NEW e \in Editors, tx[e].at = "writing", tx'[e].at = "moved" PROVE Storyboard!Commit(e)
      <4>1. PICK f \in Editors :
              \/ Storyboard!Move(f) \/ Storyboard!Check(f) \/ Storyboard!Lock(f) \/ Storyboard!Place(f)
              \/ Storyboard!Deadlock(f) \/ Storyboard!Commit(f) \/ Storyboard!Answered(f)
        <5>1. ~UNCHANGED tx
          BY <3>1
        <5> QED
          BY <2>2, <3>0, <5>1, OthersGoOn DEF Moving, Adding, Storyboard!Requests
      <4>2. Passed(f) /\ Passed(e)
        BY <3>0 DEF EffectInv
      <4>3. /\ \A g \in Editors \ {f} : tx'[g] = tx[g]
            /\ tx[f].at = "writing" /\ tx'[f].at = "moved" => Storyboard!Commit(f)
        BY <3>0, <4>1, <4>2, ReorderGoesOn
      <4> QED
        BY <3>1, <4>3
    <3>2. InOrder
      BY <3>0, <3>1, CommitOrders DEF EffectInv
    <3> QED
      BY <3>2
  <2> QED
    BY <2>1, <2>2 DEF Next, Beside, Dashboard, vars, dashboardVars
<1> QED
  BY <1>1, <1>2, <1>3, PTL DEF Spec, EditsTakeEffect, Storyboard!MoveTakesEffect, Sending!CancelStops
=============================================================================
