-------------------------- MODULE MCVariantLedger --------------------------
(* VariantLedger on a small instance: two jobs of one key.                  *)
EXTENDS VariantLedger

CONSTANTS o1, v1, j1, j2

MCOneKey == [j \in {j1, j2} |-> v1]
MCObjectOfOne == [v \in {v1} |-> o1]
=============================================================================
