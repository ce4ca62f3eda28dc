--------------------------- MODULE MCAtomSequence ---------------------------
(* Events at two times with bodies of 3 bytes (padded to 8) and 12 bytes    *)
(* (padded to 16): three words and four, in a buffer with room for three.   *)
EXTENDS AtomSequence

MCEvents == [frames : {0, 1}, size : {3, 12}]
=============================================================================
