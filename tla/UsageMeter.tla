---------------------------- MODULE UsageMeter ----------------------------
(***************************************************************************)
(* What the storage ledger promises, whatever handlers write it: a charge  *)
(* that moves with the recorded sizes, key by key.                         *)
(***************************************************************************)
EXTENDS SizeTotals

CONSTANTS Keys, MaxSize

VARIABLES
  usage,    \* the recorded size of each key, 0 when nothing is stored
  charged   \* the bytes the organisation is charged for

Init == usage = [k \in Keys |-> 0] /\ charged = 0

\* One key is recorded with a new size, and the charge moves by the difference.
Record(k, n) ==
  /\ usage' = [usage EXCEPT ![k] = n]
  /\ charged' = charged + n - usage[k]

Next == \E k \in Keys, n \in 0 .. MaxSize : Record(k, n)

Spec == Init /\ [][Next]_<<usage, charged>>
=============================================================================
