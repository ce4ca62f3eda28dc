--------------------------- MODULE MCOptionArray ---------------------------
(* Three arrays of up to two options, in two buffers and one to move to;    *)
(* one key that a BufferDetails has a field for and one that it has not.    *)
(* Arrays and buffers are only compared, so they are interchangeable.       *)
EXTENDS OptionArray

ArraySymmetry == Permutations(Arrays) \cup Permutations(Buffers)
=============================================================================
