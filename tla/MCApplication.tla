--------------------------- MODULE MCApplication ---------------------------
(* Small instances of Application for TLC. *)
EXTENDS ApplicationRefinement, TLC

CONSTANTS v1, v2, v3

TwoValidators == {v1, v2}
ThreeValidators == {v1, v2, v3}

NoFaults == {}
LostBlocks == {"lost"}
LateBlocks == {"late"}
AllFaults == FaultKinds

Interchangeable == Permutations(Validators)
=============================================================================
