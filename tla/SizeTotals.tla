---------------------------- MODULE SizeTotals ----------------------------
(***************************************************************************)
(* The sums of byte counts (SUM(o.size), SUM(gb)) the system's queries     *)
(* compute.  A sum over a finite set of rows is the number of units the    *)
(* rows hold, each unit a pair of its row and its rank in the row: stated  *)
(* this way the sum needs no recursion, and its laws follow from those of  *)
(* Cardinality.                                                            *)
(***************************************************************************)
EXTENDS Integers, FiniteSets

\* The units row x holds, and those all rows hold.
Units(size, x) == {x} \X (1 .. size[x])
AllUnits(size) == UNION {Units(size, x) : x \in DOMAIN size}

\* The sum of size over the domain of size.
Total(size) == Cardinality(AllUnits(size))
=============================================================================
