------------------------ MODULE ObjectLedgerProofs ------------------------
(***************************************************************************)
(* Proofs about ObjectLedger, for every set of keys, sizes and requests.   *)
(***************************************************************************)
EXTENDS ObjectLedger, SizeTotalsProofs

USE SizesAssumption, RequestsAssumption, CapacityAssumption

-----------------------------------------------------------------------------
(* Type correctness, whatever the requests do *)

\* What one live row of a key holds is a size.
LEMMA LiveSizeType ==
  ASSUME TypeOK, NEW k
  PROVE  LiveSize(k) \in Sizes
<1>1. CASE LiveRows(k) = {}
  BY <1>1 DEF LiveSize, Sizes
<1>2. CASE LiveRows(k) # {}
  <2>1. AnyOf(LiveRows(k)) \in Confirms
    BY <1>2 DEF LiveRows, AnyOf
  <2> QED
    BY <1>2, <2>1 DEF LiveSize, TypeOK, Row
<1> QED
  BY <1>1, <1>2

\* The charges are naturals, and so is their sum.
LEMMA LiveBytesType ==
  ASSUME TypeOK
  PROVE  Charge \in [Confirms -> Nat] /\ LiveBytes \in Nat
<1>1. Charge \in [Confirms -> Nat]
  BY DEF Charge, TypeOK, Row, Sizes
<1> QED
  BY <1>1, TotalNat DEF LiveBytes

\* The initial state is well typed.
LEMMA InitTypeOK == Init => TypeOK
BY DEF Init, TypeOK, Row, Sizes, ConfirmState, DeleteState, PurgeState, RollupState

\* Every step keeps the types.
LEMMA NextTypeOK ==
  ASSUME TypeOK, [Next]_vars
  PROVE  TypeOK'
<1> USE DEF TypeOK
<1>1. ASSUME NEW k \in Keys, NEW n \in Sizes, ClientPut(k, n) PROVE TypeOK'
  BY <1>1 DEF ClientPut, capacityVars
<1>2. ASSUME NEW n \in Sizes, PresignUpload(n) PROVE TypeOK'
  BY <1>2 DEF PresignUpload, AutoAdd
<1>3. ASSUME NEW a \in 0 .. MaxAllocated, ChangeAllocation(a) PROVE TypeOK'
  BY <1>3 DEF ChangeAllocation
<1>4. ASSUME NEW e \in AutoModes, SetAuto(e) PROVE TypeOK'
  BY <1>4 DEF SetAuto
<1>5. ASSUME NEW c \in Confirms, Confirm(c) PROVE TypeOK'
  <2> USE DEF ConfirmAt, ConfirmState
  <2>1. ASSUME NEW k \in Keys, ConfirmHead(c, k) PROVE TypeOK'
    <3>1. stored[k] # NoBytes => stored[k] \in Sizes
      OBVIOUS
    <3> QED
      BY <2>1, <3>1 DEF ConfirmHead, capacityVars, Sizes
  <2>2. ASSUME ConfirmLock(c) PROVE TypeOK'
    <3>1. LiveSize(confirm[c].key) \in Sizes
      BY LiveSizeType
    <3>2. confirm[c] \in [pc : {"headed", "locked"}, key : Keys, size : Sizes, prior : Sizes]
      BY <2>2 DEF ConfirmLock
    <3>3. confirm' \in [Confirms -> ConfirmState]
      BY <2>2, <3>1, <3>2 DEF ConfirmLock
    <3> QED
      BY <2>2, <3>3 DEF ConfirmLock, capacityVars
  <2>3. ASSUME ConfirmCommit(c) PROVE TypeOK'
    <3>1. confirm[c] \in [pc : {"headed", "locked"}, key : Keys, size : Sizes, prior : Sizes]
      BY <2>3 DEF ConfirmCommit
    <3>2. [st |-> "live", key |-> confirm[c].key, size |-> confirm[c].size] \in Row
      BY <3>1 DEF Row
    <3>3. \A i \in Confirms : [rows[i] EXCEPT !.size = confirm[c].size] \in Row
      BY <3>1 DEF Row
    <3>4. rows' \in [Confirms -> Row]
      BY <2>3, <3>2, <3>3 DEF ConfirmCommit, Upserted
    <3>5. confirm' \in [Confirms -> ConfirmState]
      BY <2>3 DEF ConfirmCommit
    <3>6. Delta(c) \in Int
      BY <3>1 DEF Delta, Sizes
    <3> QED
      BY <2>3, <3>4, <3>5, <3>6 DEF ConfirmCommit, CapacityCheck
  <2>4. ASSUME ConfirmAbort(c) PROVE TypeOK'
    BY <2>4 DEF ConfirmAbort, capacityVars
  <2>5. ASSUME ConfirmBackstop(c) PROVE TypeOK'
    BY <2>5 DEF ConfirmBackstop, AutoAdd
  <2> QED
    BY <1>5, <2>1, <2>2, <2>3, <2>4, <2>5 DEF Confirm
<1>6. ASSUME NEW d \in Deletes, Delete(d) PROVE TypeOK'
  <2> USE DEF DeleteAt, DeleteState
  <2> DEFINE Running == [pc : {"found", "read", "bytes"}, row : Confirms,
                         src : BOOLEAN, size : Sizes]
  <2>1. ASSUME NEW i \in Confirms, DeleteStart(d, i) PROVE TypeOK'
    BY <2>1 DEF DeleteStart, Sizes, capacityVars
  <2>2. ASSUME DeleteRead(d) PROVE TypeOK'
    <3>1. delete[d] \in Running
      BY <2>2 DEF DeleteRead
    <3>2. rows[delete[d].row].size \in Sizes
      BY <3>1 DEF Row
    <3>3. [delete[d] EXCEPT !.pc = "read", !.size = rows[delete[d].row].size] \in Running
      BY <3>1, <3>2
    <3> QED
      BY <2>2, <3>3 DEF DeleteRead, capacityVars
  <2>3. ASSUME DeleteCommit(d) PROVE TypeOK'
    <3>1. delete[d] \in Running
      BY <2>3 DEF DeleteCommit
    <3>0. 0 \in Sizes
      BY DEF Sizes
    <3>2. [delete[d] EXCEPT !.pc = "bytes", !.size = 0] \in Running
      BY <3>0, <3>1
    <3>3. delete' \in [Deletes -> DeleteState]
      BY <2>3, <3>2 DEF DeleteCommit
    <3>4. rows' \in [Confirms -> Row]
      BY <2>3, <3>1 DEF DeleteCommit, Row
    <3>5. used' \in Nat /\ deltaSum' \in Int
      BY <2>3, <3>1 DEF DeleteCommit, Sizes
    <3> QED
      BY <2>3, <3>3, <3>4, <3>5 DEF DeleteCommit
  <2>4. ASSUME DeleteAbort(d) PROVE TypeOK'
    BY <2>4 DEF DeleteAbort, capacityVars
  <2>5. ASSUME DeleteBytes(d) PROVE TypeOK'
    <3>1. stored' \in [Keys -> Sizes \cup {NoBytes}]
      BY <2>5 DEF DeleteBytes
    <3> QED
      BY <2>5, <3>1 DEF DeleteBytes, capacityVars
  <2> QED
    BY <1>6, <2>1, <2>2, <2>3, <2>4, <2>5 DEF Delete
<1>7. ASSUME NEW p \in Purges, Purge(p) PROVE TypeOK'
  <2>1. ASSUME PurgeCount(p) PROVE TypeOK'
    BY <2>1 DEF PurgeCount, PurgeState, capacityVars
  <2>2. ASSUME PurgeRows(p) PROVE TypeOK'
    <3>1. rows' \in [Confirms -> Row]
      BY <2>2 DEF PurgeRows, Row
    <3>2. {rows[i].key : i \in Tombstones} \in SUBSET (Keys \cup {NoKey})
      BY DEF Tombstones, Row
    <3>3. purge' \in [Purges -> PurgeState]
      BY <2>2, <3>2 DEF PurgeRows, PurgeState
    <3> QED
      BY <2>2, <3>1, <3>3 DEF PurgeRows, capacityVars
  <2>3. ASSUME PurgeBytes(p) PROVE TypeOK'
    BY <2>3 DEF PurgeBytes, PurgeState, NoBytes, capacityVars
  <2> QED
    BY <1>7, <2>1, <2>2, <2>3 DEF Purge
<1>8. ASSUME RollupSnapshot PROVE TypeOK'
  <2>1. LiveBytes \in Nat
    BY LiveBytesType
  <2> QED
    BY <1>8, <2>1 DEF RollupSnapshot, RollupState, capacityVars
<1>9. ASSUME RollupRepair PROVE TypeOK'
  BY <1>9 DEF RollupRepair, RollupState
<1>10. ASSUME UNCHANGED vars PROVE TypeOK'
  BY <1>10 DEF vars
<1> QED
  BY <1>1, <1>2, <1>3, <1>4, <1>5, <1>6, <1>7, <1>8, <1>9, <1>10 DEF Next

\* Under every interleaving of confirms, deletes, purges and rollups the
\* capacity row keeps its types: used_bytes never goes below zero.
THEOREM TypeCorrect == Spec => []TypeOK
<1>1. TypeOK /\ [Next]_vars => TypeOK'
  BY NextTypeOK
<1> QED
  BY InitTypeOK, <1>1, PTL DEF Spec

-----------------------------------------------------------------------------
(* The ledger is exact as long as nothing is deleted *)

\* What is read from the rows alone does not change while they do not.
LEMMA RowsFrame ==
  ASSUME rows' = rows
  PROVE  /\ \A k : LiveRows(k)' = LiveRows(k) /\ LiveSize(k)' = LiveSize(k)
         /\ \A i : IsLive(i)' = IsLive(i)
         /\ LiveBytes' = LiveBytes
<1>1. \A k : LiveRows(k)' = LiveRows(k)
  BY DEF LiveRows, IsLive
<1>2. \A k : LiveSize(k)' = LiveSize(k)
  BY <1>1 DEF LiveSize
<1>3. Charge' = Charge
  BY DEF Charge, IsLive
<1> QED
  BY <1>1, <1>2, <1>3 DEF IsLive, LiveBytes

\* A step that leaves rows, counters, confirms, lock, purges and rollup alone.
LEMMA ConfirmInvFrame ==
  ASSUME ConfirmInv, UNCHANGED <<rows, used, deltaSum, confirm, lock, purge, rollup>>
  PROVE  ConfirmInv'
BY RowsFrame DEF ConfirmInv, LedgerExact

\* The live row of a key gives the live size of the key.
LEMMA LiveSizeOfRow ==
  ASSUME ConfirmInv, NEW i \in Confirms, IsLive(i)
  PROVE  LiveRows(rows[i].key) = {i} /\ LiveSize(rows[i].key) = rows[i].size
<1>1. LiveRows(rows[i].key) = {i}
  BY DEF ConfirmInv, LiveRows
<1> QED
  BY <1>1 DEF LiveSize, AnyOf

\* Initially no row is live and nothing is charged.
LEMMA InitConfirmInv == Init => ConfirmInv
<1> SUFFICES ASSUME Init PROVE ConfirmInv
  OBVIOUS
<1> USE DEF Init
<1>1. DOMAIN Charge = Confirms /\ \A i \in Confirms : Charge[i] = 0
  BY DEF Charge, IsLive
<1>2. LiveBytes = 0
  BY <1>1, TotalZero DEF LiveBytes
<1> QED
  BY <1>2 DEF ConfirmInv, LedgerExact, IsLive, ConfirmAt

\* The commit of a confirm moves the sum of the live sizes by its delta, and
\* leaves the live sizes of the other keys alone.
LEMMA CommitMovesLiveBytes ==
  ASSUME TypeOK, ConfirmInv, NEW c \in Confirms, ConfirmCommit(c)
  PROVE  /\ LiveBytes' = LiveBytes + Delta(c)
         /\ \A k \in Keys : LiveSize(k)' = IF k = confirm[c].key THEN confirm[c].size
                                           ELSE LiveSize(k)
         /\ \A i \in Confirms : rows'[i].st \in {"none", "live"}
         /\ \A i, j \in Confirms :
              IsLive(i)' /\ IsLive(j)' /\ rows'[i].key = rows'[j].key => i = j
         /\ \A i \in Confirms \ {c} : IsLive(i)' => IsLive(i)
<1>1. confirm[c] \in [pc : {"headed", "locked"}, key : Keys, size : Sizes, prior : Sizes]
  BY DEF ConfirmCommit, TypeOK, ConfirmState, ConfirmAt
<1>2. PICK k \in Keys, n \in Nat : k = confirm[c].key /\ n = confirm[c].size
  BY <1>1 DEF Sizes
<1>11. Delta(c) = n - LiveSize(k) /\ LiveSize(k) \in Nat
  BY <1>2, LiveSizeType DEF ConfirmCommit, ConfirmInv, Delta, Sizes
<1>3. Charge \in [Confirms -> Nat] /\ LiveBytes \in Nat
  BY LiveBytesType
<1>4. ~IsLive(c)
  BY DEF ConfirmCommit, ConfirmInv
<1>5. CASE LiveRows(k) = {}
  <2>1. rows' = [rows EXCEPT ![c] = [st |-> "live", key |-> k, size |-> n]]
    BY <1>2, <1>5 DEF ConfirmCommit, Upserted
  <2>2. rows'[c] = [st |-> "live", key |-> k, size |-> n] /\ IsLive(c)'
        /\ \A i \in Confirms \ {c} : rows'[i] = rows[i] /\ IsLive(i)' = IsLive(i)
    BY <2>1 DEF TypeOK, IsLive
  <2>3. Charge' \in [Confirms -> Nat] /\ Charge'[c] = n
        /\ \A i \in Confirms \ {c} : Charge'[i] = Charge[i]
    BY <1>2, <1>3, <2>2 DEF Charge
  <2>4. Charge[c] = 0 /\ LiveSize(k) = 0
    BY <1>4, <1>5 DEF Charge, LiveSize
  <2>5. Total(Charge') = Total(Charge) - Charge[c] + n
    BY <1>3, <2>3, TotalUpdate
  <2>6. LiveBytes' = LiveBytes + Delta(c)
    BY <1>3, <1>11, <2>3, <2>4, <2>5 DEF LiveBytes
  <2>7. LiveRows(k)' = {c}
    BY <1>5, <2>2 DEF LiveRows
  <2>8. \A x \in Keys \ {k} : LiveRows(x)' = LiveRows(x) /\ c \notin LiveRows(x)
    BY <1>4, <2>2 DEF LiveRows
  <2>9. LiveSize(k)' = n
    <3>1. AnyOf(LiveRows(k)') = c
      BY <2>7 DEF AnyOf
    <3> QED
      BY <2>2, <2>7, <3>1 DEF LiveSize
  <2>10. \A x \in Keys \ {k} : LiveSize(x)' = LiveSize(x)
    <3> TAKE x \in Keys \ {k}
    <3>1. CASE LiveRows(x) = {}
      BY <2>8, <3>1 DEF LiveSize
    <3>2. CASE LiveRows(x) # {}
      <4>1. AnyOf(LiveRows(x)) \in Confirms \ {c}
        BY <2>8, <3>2 DEF LiveRows, AnyOf
      <4> QED
        BY <2>2, <2>8, <3>2, <4>1 DEF LiveSize
    <3> QED
      BY <3>1, <3>2
  <2>11. \A i \in Confirms : rows'[i].st \in {"none", "live"}
    BY <2>2 DEF ConfirmInv
  <2>12. \A i, j \in Confirms :
           IsLive(i)' /\ IsLive(j)' /\ rows'[i].key = rows'[j].key => i = j
    BY <1>5, <2>2 DEF ConfirmInv, LiveRows
  <2> QED
    BY <1>2, <2>2, <2>6, <2>9, <2>10, <2>11, <2>12
<1>6. CASE LiveRows(k) # {}
  <2>1. PICK r \in Confirms : IsLive(r) /\ rows[r].key = k
    BY <1>6 DEF LiveRows
  <2>2. LiveRows(k) = {r} /\ LiveSize(k) = rows[r].size
    BY <2>1, LiveSizeOfRow
  <2>3. rows' = [i \in Confirms |-> IF i = r THEN [rows[i] EXCEPT !.size = n] ELSE rows[i]]
    BY <1>2, <1>6, <2>2 DEF ConfirmCommit, Upserted
  <2>4. /\ \A i \in Confirms : rows'[i].st = rows[i].st /\ rows'[i].key = rows[i].key
        /\ rows'[r].size = n
        /\ \A i \in Confirms \ {r} : rows'[i].size = rows[i].size
    BY <2>3 DEF TypeOK, Row
  <2>5. \A i \in Confirms : IsLive(i)' = IsLive(i)
    BY <2>4 DEF IsLive
  <2>6. Charge' \in [Confirms -> Nat] /\ Charge'[r] = n
        /\ \A i \in Confirms \ {r} : Charge'[i] = Charge[i]
    BY <1>2, <1>3, <2>1, <2>4, <2>5 DEF Charge
  <2>7. Charge[r] = LiveSize(k)
    BY <2>1, <2>2 DEF Charge
  <2>8. Total(Charge') = Total(Charge) - Charge[r] + n
    BY <1>3, <2>6, TotalUpdate
  <2>10. LiveBytes' = LiveBytes + Delta(c)
    BY <1>3, <1>11, <2>6, <2>7, <2>8 DEF LiveBytes
  <2>11. \A x : LiveRows(x)' = LiveRows(x)
    BY <2>4, <2>5 DEF LiveRows
  <2>12. LiveSize(k)' = n
    <3>1. AnyOf(LiveRows(k)') = r
      BY <2>2, <2>11 DEF AnyOf
    <3> QED
      BY <2>2, <2>4, <2>11, <3>1 DEF LiveSize
  <2>13. \A x \in Keys \ {k} : LiveSize(x)' = LiveSize(x)
    <3> TAKE x \in Keys \ {k}
    <3>1. CASE LiveRows(x) = {}
      BY <2>11, <3>1 DEF LiveSize
    <3>2. CASE LiveRows(x) # {}
      <4>1. AnyOf(LiveRows(x)) \in Confirms \ {r}
        BY <2>1, <3>2 DEF LiveRows, AnyOf
      <4> QED
        BY <2>4, <2>11, <3>2, <4>1 DEF LiveSize
    <3> QED
      BY <3>1, <3>2
  <2> QED
    BY <1>2, <2>4, <2>5, <2>10, <2>12, <2>13 DEF ConfirmInv
<1> QED
  BY <1>5, <1>6

\* Without deletes no step disturbs the invariant.
LEMMA NextConfirmInv ==
  ASSUME Deletes = {}, TypeOK, TypeOK', ConfirmInv, [Next]_vars
  PROVE  ConfirmInv'
<1>1. ASSUME NEW k \in Keys, NEW n \in Sizes, ClientPut(k, n) PROVE ConfirmInv'
  BY <1>1, ConfirmInvFrame DEF ClientPut, capacityVars
<1>2. ASSUME NEW n \in Sizes, PresignUpload(n) PROVE ConfirmInv'
  BY <1>2, ConfirmInvFrame DEF PresignUpload
<1>3. ASSUME NEW a \in 0 .. MaxAllocated, ChangeAllocation(a) PROVE ConfirmInv'
  BY <1>3, ConfirmInvFrame DEF ChangeAllocation
<1>4. ASSUME NEW e \in AutoModes, SetAuto(e) PROVE ConfirmInv'
  BY <1>4, ConfirmInvFrame DEF SetAuto
<1>5. ASSUME NEW c \in Confirms, Confirm(c) PROVE ConfirmInv'
  <2>1. ASSUME NEW k \in Keys, ConfirmHead(c, k) PROVE ConfirmInv'
    <3>1. /\ confirm'[c].pc \in {"headed", "failed"} /\ confirm[c].pc = "start"
          /\ \A d \in Confirms \ {c} : confirm'[d] = confirm[d]
      BY <2>1 DEF ConfirmHead, ConfirmAt, TypeOK
    <3> QED
      BY <2>1, <3>1, RowsFrame DEF ConfirmHead, ConfirmInv, LedgerExact, capacityVars
  <2>2. ASSUME ConfirmLock(c) PROVE ConfirmInv'
    <3>1. /\ confirm'[c].pc = "locked" /\ confirm[c].pc = "headed"
          /\ confirm'[c].key = confirm[c].key /\ confirm'[c].prior = LiveSize(confirm[c].key)
          /\ \A d \in Confirms \ {c} : confirm'[d] = confirm[d]
      BY <2>2 DEF ConfirmLock, TypeOK, ConfirmState, ConfirmAt
    <3>2. \A d \in Confirms \ {c} : confirm'[d].pc # "locked"
      BY <2>2, <3>1 DEF ConfirmLock, ConfirmInv
    <3>3. lock' = c
      BY <2>2 DEF ConfirmLock
    <3>4. \A d \in Confirms : confirm'[d].pc = "locked" <=> lock' = d
      BY <3>1, <3>2, <3>3
    <3>5. \A d \in Confirms : confirm'[d].pc = "locked" =>
            confirm'[d].prior = LiveSize(confirm'[d].key)
      BY <3>1, <3>2
    <3> QED
      BY <2>2, <3>1, <3>4, <3>5, RowsFrame DEF ConfirmLock, ConfirmInv, LedgerExact, capacityVars
  <2>3. ASSUME ConfirmCommit(c) PROVE ConfirmInv'
    <3>1. /\ confirm'[c].pc \in {"charged", "done"} /\ confirm[c].pc = "locked" /\ lock = c
          /\ \A d \in Confirms \ {c} : confirm'[d] = confirm[d] /\ confirm[d].pc # "locked"
      BY <2>3 DEF ConfirmCommit, ConfirmAt, TypeOK, ConfirmInv
    <3>2. \A d \in Confirms : confirm'[d].pc # "locked" /\ lock' # d
      BY <2>3, <3>1 DEF ConfirmCommit
    <3>3. LedgerExact'
      <4>1. LiveBytes' = LiveBytes + Delta(c)
        BY <2>3, CommitMovesLiveBytes
      <4> QED
        BY <2>3, <4>1 DEF ConfirmCommit, ConfirmInv, LedgerExact
    <3>4. \A d \in Confirms :
            confirm'[d].pc \in {"start", "headed", "locked"} => ~IsLive(d)'
      BY <2>3, <3>1, CommitMovesLiveBytes DEF ConfirmInv
    <3>5. /\ \A i \in Confirms : rows'[i].st \in {"none", "live"}
          /\ \A i, j \in Confirms :
               IsLive(i)' /\ IsLive(j)' /\ rows'[i].key = rows'[j].key => i = j
      BY <2>3, CommitMovesLiveBytes
    <3> QED
      BY <2>3, <3>2, <3>3, <3>4, <3>5 DEF ConfirmCommit, ConfirmInv
  <2>4. ASSUME ConfirmAbort(c) PROVE ConfirmInv'
    <3>1. /\ confirm'[c].pc = "failed" /\ confirm[c].pc = "locked" /\ lock = c
          /\ \A d \in Confirms \ {c} : confirm'[d] = confirm[d] /\ confirm[d].pc # "locked"
      BY <2>4 DEF ConfirmAbort, ConfirmAt, TypeOK, ConfirmInv
    <3> QED
      BY <2>4, <3>1, RowsFrame DEF ConfirmAbort, ConfirmInv, LedgerExact, capacityVars
  <2>5. ASSUME ConfirmBackstop(c) PROVE ConfirmInv'
    <3>1. /\ confirm'[c].pc = "done" /\ confirm[c].pc = "charged"
          /\ \A d \in Confirms \ {c} : confirm'[d] = confirm[d]
      BY <2>5 DEF ConfirmBackstop, ConfirmAt, TypeOK
    <3> QED
      BY <2>5, <3>1, RowsFrame DEF ConfirmBackstop, ConfirmInv, LedgerExact
  <2> QED
    BY <1>5, <2>1, <2>2, <2>3, <2>4, <2>5 DEF Confirm
<1>6. ASSUME NEW p \in Purges, Purge(p) PROVE ConfirmInv'
  <2>1. Tombstones = {}
    BY DEF Tombstones, ConfirmInv
  <2>2. Cardinality(Tombstones) \notin 1 .. MaxPurge
    BY <2>1, FS_EmptySet
  <2> QED
    BY <1>6, <2>2 DEF Purge, PurgeCount, PurgeRows, PurgeBytes, ConfirmInv
<1>7. ASSUME RollupSnapshot PROVE ConfirmInv'
  BY <1>7, RowsFrame DEF RollupSnapshot, ConfirmInv, LedgerExact, capacityVars
<1>8. ASSUME RollupRepair PROVE ConfirmInv'
  <2>1. ~Drifted(rollup.used, rollup.actual)
    BY <1>8 DEF RollupRepair, ConfirmInv, Drifted, TypeOK, RollupState
  <2> QED
    BY <1>8, <2>1, RowsFrame DEF RollupRepair, ConfirmInv, LedgerExact
<1>9. ASSUME UNCHANGED vars PROVE ConfirmInv'
  BY <1>9, ConfirmInvFrame DEF vars
<1> QED
  BY <1>1, <1>2, <1>3, <1>4, <1>5, <1>6, <1>7, <1>8, <1>9 DEF Next

\* The invariant holds throughout.
THEOREM ConfirmInvariant ==
  ASSUME Deletes = {}
  PROVE  Spec => [](TypeOK /\ ConfirmInv)
<1>1. TypeOK /\ ConfirmInv /\ [Next]_vars => (TypeOK /\ ConfirmInv)'
  BY NextTypeOK, NextConfirmInv
<1> QED
  BY InitTypeOK, InitConfirmInv, <1>1, PTL DEF Spec

\* However many confirms of however many keys overlap, with clients
\* overwriting the objects meanwhile and the rollup reconciling: used_bytes
\* and the usage events both equal the sum of the live sizes.
THEOREM ConfirmsKeepTheLedger ==
  ASSUME Deletes = {}
  PROVE  Spec => []LedgerExact
<1>1. ConfirmInv => LedgerExact
  BY DEF ConfirmInv
<1> QED
  BY ConfirmInvariant, <1>1, PTL

-----------------------------------------------------------------------------
(* The hard quota *)

\* Every writer of the capacity row, checked or not by its own code, keeps the
\* CHECKs; deletes and purges included.
THEOREM CounterStaysChecked == Spec => []CounterChecked
<1>1. Init => CounterChecked
  BY DEF Init, CounterChecked, CapacityCheck
<1>2. ASSUME TypeOK, TypeOK', CounterChecked, [Next]_vars PROVE CounterChecked'
  <2> USE DEF CounterChecked, CapacityCheck
  <2>1. ASSUME NEW k \in Keys, NEW n \in Sizes, ClientPut(k, n) PROVE CounterChecked'
    BY <1>2, <2>1 DEF ClientPut, capacityVars
  <2>2. ASSUME NEW n \in Sizes, PresignUpload(n) PROVE CounterChecked'
    BY <1>2, <2>2 DEF PresignUpload, AutoAdd, TypeOK
  <2>3. ASSUME NEW a \in 0 .. MaxAllocated, ChangeAllocation(a) PROVE CounterChecked'
    BY <1>2, <2>3 DEF ChangeAllocation
  <2>4. ASSUME NEW e \in AutoModes, SetAuto(e) PROVE CounterChecked'
    BY <1>2, <2>4 DEF SetAuto
  <2>5. ASSUME NEW c \in Confirms, Confirm(c) PROVE CounterChecked'
    BY <1>2, <2>5 DEF Confirm, ConfirmHead, ConfirmLock, ConfirmCommit, ConfirmAbort,
                      ConfirmBackstop, AutoAdd, TypeOK, capacityVars
  <2>6. ASSUME NEW d \in Deletes, Delete(d) PROVE CounterChecked'
    <3>1. ASSUME DeleteCommit(d) PROVE CounterChecked'
      <4>1. delete[d].size \in Nat
        BY <1>2 DEF TypeOK, DeleteState, DeleteAt, Sizes
      <4>2. used' <= used /\ used' >= 0
        BY <1>2, <3>1, <4>1 DEF DeleteCommit, TypeOK
      <4>3. allocated' = allocated /\ auto' = auto
        BY <3>1 DEF DeleteCommit
      <4> QED
        BY <1>2, <4>2, <4>3 DEF TypeOK
    <3> QED
      BY <1>2, <2>6, <3>1 DEF Delete, DeleteStart, DeleteRead, DeleteAbort, DeleteBytes,
                              capacityVars
  <2>7. ASSUME NEW p \in Purges, Purge(p) PROVE CounterChecked'
    BY <1>2, <2>7 DEF Purge, PurgeCount, PurgeRows, PurgeBytes, capacityVars
  <2>8. ASSUME RollupSnapshot PROVE CounterChecked'
    BY <1>2, <2>8 DEF RollupSnapshot, capacityVars
  <2>9. ASSUME RollupRepair PROVE CounterChecked'
    BY <1>2, <2>9 DEF RollupRepair
  <2>10. ASSUME UNCHANGED vars PROVE CounterChecked'
    BY <1>2, <2>10 DEF vars
  <2> QED
    BY <1>2, <2>1, <2>2, <2>3, <2>4, <2>5, <2>6, <2>7, <2>8, <2>9, <2>10 DEF Next
<1> QED
  BY <1>1, <1>2, TypeCorrect, PTL DEF Spec

\* Without auto-capacity, an org whose objects are only confirmed never stores
\* more live bytes than it is allocated, however the allocation, the mode and
\* the confirms interleave.
THEOREM QuotaIsHard ==
  ASSUME Deletes = {}
  PROVE  Spec => []HardQuota
<1>1. CounterChecked /\ LedgerExact => HardQuota
  BY DEF CounterChecked, CapacityCheck, LedgerExact, HardQuota
<1> QED
  BY CounterStaysChecked, ConfirmsKeepTheLedger, <1>1, PTL

-----------------------------------------------------------------------------
(* The confirm path implements the abstract meter *)

\* A step either leaves the live sizes and the counter alone or is the commit
\* of one confirm, which records one key.
LEMMA StepImplementsMeter ==
  ASSUME Deletes = {}, TypeOK, ConfirmInv, [Next]_vars
  PROVE  [Meter!Next]_(<<[k \in Keys |-> LiveSize(k)], used>>)
<1> DEFINE usage == [k \in Keys |-> LiveSize(k)]
<1>1. ASSUME UNCHANGED <<rows, used>> PROVE UNCHANGED <<usage, used>>
  BY <1>1, RowsFrame
<1>2. ASSUME NEW c \in Confirms, ConfirmCommit(c) PROVE Meter!Next
  <2>1. confirm[c] \in [pc : {"headed", "locked"}, key : Keys, size : Sizes, prior : Sizes]
    BY <1>2 DEF ConfirmCommit, TypeOK, ConfirmState, ConfirmAt
  <2>2. PICK k \in Keys, n \in Sizes : k = confirm[c].key /\ n = confirm[c].size
    BY <2>1
  <2>3. \A x \in Keys : LiveSize(x)' = IF x = k THEN n ELSE LiveSize(x)
    BY <1>2, <2>2, CommitMovesLiveBytes
  <2>4. usage' = [usage EXCEPT ![k] = n]
    BY <2>3
  <2>5. used' = used + n - usage[k]
    <3>1. confirm[c].prior = LiveSize(k) /\ LiveSize(k) \in Sizes
      BY <1>2, <2>2, LiveSizeType DEF ConfirmCommit, ConfirmInv
    <3> QED
      BY <1>2, <2>2, <3>1 DEF ConfirmCommit, Delta, Sizes, TypeOK
  <2> QED
    BY <2>4, <2>5 DEF Meter!Next, Meter!Record, Sizes
<1>3. CASE UNCHANGED vars
  BY <1>1, <1>3 DEF vars
<1>4. ASSUME Next, \A c \in Confirms : ~ConfirmCommit(c) PROVE UNCHANGED <<rows, used>>
  <2>1. ASSUME NEW p \in Purges, Purge(p) PROVE UNCHANGED <<rows, used>>
    <3>1. Tombstones = {}
      BY DEF Tombstones, ConfirmInv
    <3>2. Cardinality(Tombstones) \notin 1 .. MaxPurge
      BY <3>1, FS_EmptySet
    <3> QED
      BY <2>1, <3>2 DEF Purge, PurgeCount, PurgeRows, PurgeBytes, ConfirmInv
  <2>2. ASSUME RollupRepair PROVE UNCHANGED <<rows, used>>
    <3>1. ~Drifted(rollup.used, rollup.actual)
      BY <2>2 DEF RollupRepair, ConfirmInv, Drifted, TypeOK, RollupState
    <3> QED
      BY <2>2, <3>1 DEF RollupRepair
  <2>3. ASSUME NEW c \in Confirms, Confirm(c) PROVE UNCHANGED <<rows, used>>
    BY <1>4, <2>3 DEF Confirm, ConfirmHead, ConfirmLock, ConfirmAbort, ConfirmBackstop,
                      capacityVars
  <2> QED
    BY <1>4, <2>1, <2>2, <2>3 DEF Next, ClientPut, PresignUpload, ChangeAllocation, SetAuto,
                                  RollupSnapshot, capacityVars
<1>5. CASE Next
  <2>1. CASE \E c \in Confirms : ConfirmCommit(c)
    BY <1>2, <2>1
  <2>2. CASE \A c \in Confirms : ~ConfirmCommit(c)
    BY <1>1, <1>4, <1>5, <2>2
  <2> QED
    BY <2>1, <2>2
<1> QED
  BY <1>3, <1>5

\* Every behaviour of the confirm path is a behaviour of the meter.
THEOREM ConfirmsImplementMeter ==
  ASSUME Deletes = {}
  PROVE  Spec => MeterSpec
<1>1. Init => Meter!Init
  <2> SUFFICES ASSUME Init PROVE Meter!Init
    OBVIOUS
  <2>1. \A k \in Keys : LiveSize(k) = 0
    BY DEF Init, LiveSize, LiveRows, IsLive
  <2> QED
    BY <2>1 DEF Init, Meter!Init
<1>2. TypeOK /\ ConfirmInv /\ [Next]_vars
        => [Meter!Next]_(<<[k \in Keys |-> LiveSize(k)], used>>)
  BY StepImplementsMeter
<1> QED
  BY ConfirmInvariant, <1>1, <1>2, PTL DEF Spec, MeterSpec, Meter!Spec
=============================================================================
