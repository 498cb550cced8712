--------------------------- MODULE MCMethodTable ---------------------------
(***************************************************************************)
(* Instances of MethodTable for TLC.                                       *)
(***************************************************************************)
EXTENDS MethodTable, TLC

\* One pattern that matches every address but the first.
MCSelects == [pattern \in Patterns |-> Address \ {1}]

\* The tables do the same.
MCSymmetry == Permutations(Tables)
=============================================================================
