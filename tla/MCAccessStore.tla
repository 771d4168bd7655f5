--------------------------- MODULE MCAccessStore ---------------------------
(***************************************************************************)
(* AccessStore for TLC: three entries, so that a record with two of them   *)
(* has a neighbour on either side and the free entries may be parted.      *)
(***************************************************************************)
EXTENDS AccessStore, TLC

CONSTANTS k1, k2

MCKeys == {k1, k2}

MCInputs ==
  {r \in Records : /\ HasCard(r.type) => r.card # Zero
                   /\ HasPin(r.type) => r.pin # Zero
                   /\ ~r.used}

Symmetry == Permutations(MCKeys)
=============================================================================
