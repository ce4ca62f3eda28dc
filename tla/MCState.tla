------------------------------ MODULE MCState ------------------------------
(* Two instances, so that a save of one overlaps a save or a restore of    *)
(* the other, and its own run().                                           *)
EXTENDS State, TLC

MCSymmetry == Permutations(Instances) \cup Permutations(Snapshots)
                \cup Permutations(Keys) \cup Permutations(Values)
=============================================================================
