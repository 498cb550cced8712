--------------------------- MODULE MCPartMatching ---------------------------
(***************************************************************************)
(* Instances of PartMatching for TLC: `x` and `y` are two address parts,   *)
(* `onlyX` is a pattern part that matches one of them and `any` one that   *)
(* matches both.                                                           *)
(***************************************************************************)
EXTENDS PartMatching

CONSTANTS x, y, onlyX, any

\* What the constants are meant to be.  The instances for the check are so, and
\* nothing that is proved about PartMatching needs it.
ASSUME PartsAssumption ==
    /\ Operator \notin PatternParts
    /\ Fits \subseteq PatternParts \X AddressParts
    /\ MaxTokens \in Nat
    /\ MaxParts \in Nat

MCFits == {<<onlyX, x>>, <<any, x>>, <<any, y>>}
=============================================================================
