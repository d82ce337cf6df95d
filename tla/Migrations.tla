----------------------------- MODULE Migrations -----------------------------
(***************************************************************************)
(* runMigrations: the migration files of a release are applied in the      *)
(* order of their names, each in a transaction that also records it with   *)
(* the checksum of its text.  Several releases may be deployed at once;    *)
(* the runner holds a session advisory lock, which a transaction pooler    *)
(* drops between two transactions, and it may die at any point.            *)
(***************************************************************************)
EXTENDS Integers, Sequences

CONSTANTS
  Runners,      \* the deployments
  Release,      \* the texts of the files that each has, in the order of their names
  Texts,
  Absent, Unsummed, None,
  MaxCrashes    \* bound: the runs that die and are started again

Files(r) == 1 .. Len(Release[r])
AllFiles == UNION {Files(r) : r \in Runners}

MigrationsAssumption ==
  /\ \A r \in Runners : Release[r] \in Seq(Texts) /\ Release[r] # <<>>
  /\ {Absent, Unsummed} \cap Texts = {} /\ Absent # Unsummed
  /\ None \notin Runners /\ MaxCrashes \in Nat

VARIABLES
  record,    \* the migrations table: Absent, the checksum, or none recorded
  effects,   \* how often the statements of a file have taken effect
  lock, pooled,  \* the advisory lock, and whether it is through the pooler
  run,       \* where each run is, and the file it is at
  crashes

vars == <<record, effects, lock, pooled, run, crashes>>

\* Installs older than the checksum have rows without one.
Init ==
  /\ \E n \in {0} \cup AllFiles :
       /\ record = [f \in AllFiles |-> IF f <= n THEN Unsummed ELSE Absent]
       /\ effects = [f \in AllFiles |-> IF f <= n THEN 1 ELSE 0]
  /\ lock = None /\ pooled \in BOOLEAN /\ crashes = 0
  /\ run = [r \in Runners |-> [at |-> "start", file |-> 0]]

To(r, at) == run' = [run EXCEPT ![r].at = at]

\* pg_advisory_unlock, in the finally: its own lock only.
Unlocked(r) == IF lock = r THEN None ELSE lock

Fails(r) == To(r, "failed") /\ lock' = Unlocked(r)

\* The next file of the release; after the last one the run is over.
Forward(r) ==
  IF run[r].file = Len(Release[r]) THEN To(r, "done") /\ lock' = Unlocked(r)
  ELSE run' = [run EXCEPT ![r] = [at |-> "file", file |-> @.file + 1]] /\ UNCHANGED lock

-----------------------------------------------------------------------------

\* The tracker is created and altered, idempotently; pg_try_advisory_lock.
TryLock(r) ==
  /\ run[r].at = "start"
  /\ IF lock # None THEN To(r, "failed") /\ UNCHANGED lock
     ELSE lock' = r /\ run' = [run EXCEPT ![r] = [at |-> "file", file |-> 1]]
  /\ UNCHANGED <<record, effects, pooled, crashes>>

\* Mutant: the checksum of a recorded file is not looked at.
CheckName(r) ==
  LET f == run[r].file IN
  /\ run[r].at = "file"
  /\ IF record[f] = Absent THEN To(r, "run") /\ UNCHANGED lock ELSE Forward(r)
  /\ UNCHANGED <<record, effects, pooled, crashes>>

\* The row of the file: not there, without a checksum, another's, or its own.
Check(r) ==
  LET f == run[r].file  text == Release[r][f] IN
  /\ run[r].at = "file"
  /\ CASE record[f] = Absent -> To(r, "run") /\ UNCHANGED lock
       [] record[f] = Unsummed -> To(r, "backfill") /\ UNCHANGED lock
       [] record[f] \in Texts \ {text} -> Fails(r)
       [] record[f] = text -> Forward(r)
  /\ UNCHANGED <<record, effects, pooled, crashes>>

\* A row older than the checksum gets that of the text at hand.
Backfill(r) ==
  /\ run[r].at = "backfill" /\ Forward(r)
  /\ record' = [record EXCEPT ![run[r].file] = Release[r][run[r].file]]
  /\ UNCHANGED <<effects, pooled, crashes>>

\* The statements and the row in one transaction, which fails with a statement
\* of the file, or by the UNIQUE name.
Apply(r) ==
  LET f == run[r].file IN
  /\ run[r].at = "run"
  /\ \/ /\ record[f] = Absent /\ Forward(r)
        /\ effects' = [effects EXCEPT ![f] = @ + 1] /\ record' = [record EXCEPT ![f] = Release[r][f]]
     \/ Fails(r) /\ UNCHANGED <<effects, record>>
  /\ UNCHANGED <<pooled, crashes>>

\* The process dies; the session and its lock go with it.  It is started again.
Dies(r) ==
  /\ run[r].at \in {"file", "backfill", "run"} /\ crashes < MaxCrashes /\ crashes' = crashes + 1
  /\ run' = [run EXCEPT ![r] = [at |-> "start", file |-> 0]] /\ lock' = Unlocked(r)
  /\ UNCHANGED <<record, effects, pooled>>

\* The pooler hands the session on.
LockDrops == pooled /\ lock # None /\ lock' = None /\ UNCHANGED <<record, effects, pooled, run, crashes>>

Works(r) == TryLock(r) \/ Check(r) \/ Backfill(r) \/ Apply(r)

Next == (\E r \in Runners : Works(r) \/ Dies(r)) \/ LockDrops

Spec == Init /\ [][Next]_vars /\ WF_vars(\E r \in Runners : Works(r))

-----------------------------------------------------------------------------
TypeOK ==
  /\ record \in [AllFiles -> Texts \cup {Absent, Unsummed}] /\ effects \in [AllFiles -> Nat]
  /\ lock \in Runners \cup {None} /\ pooled \in BOOLEAN /\ crashes \in 0 .. MaxCrashes
  /\ run \in [Runners -> [at : {"start", "file", "backfill", "run", "done", "failed"}, file : Nat]]
  /\ \A r \in Runners :
       /\ run[r].at \in {"file", "backfill", "run"} => run[r].file \in Files(r)
       /\ run[r].at = "run" /\ ~pooled => lock = r

\* A file takes effect once and is then on record, though runs die, meet, and
\* lose the lock to a pooler.
AppliedOnce == \A f \in AllFiles : effects[f] = IF record[f] = Absent THEN 0 ELSE 1

\* What is applied is a beginning of the files: none before an earlier one.
InOrder == \A f, g \in AllFiles : f < g /\ effects[g] > 0 => effects[f] > 0

\* A run that held its lock and ended well leaves all of its release on record,
\* as it has it: a file that was edited after it was applied is found out.
DoneIsApplied ==
  \A r \in Runners : ~pooled /\ run[r].at = "done" => \A f \in Files(r) : record[f] = Release[r][f]

\* A run ends, and does not keep the lock.
Ended == \A r \in Runners : run[r].at \in {"done", "failed"} /\ lock # r
=============================================================================
