--------------------------- MODULE MCThreadQueue ---------------------------
(* Instances of ThreadQueue for TLC.                                       *)
EXTENDS ThreadQueue, TLC

CONSTANTS p1, p2, c

MCProducers == {p1, p2}
MCSymmetry  == Permutations(MCProducers)
=============================================================================
