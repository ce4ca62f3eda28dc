------------------------------ MODULE MCAtoms ------------------------------
(***************************************************************************)
(* AtomSequence with the events of MCAtomSequence, and AtomForge with up   *)
(* to three nested scopes and values of one or two words in a buffer of 14 *)
(* words.  The two work on buffers of their own and share no variable:     *)
(* each is explored while the other rests.                                 *)
(***************************************************************************)
EXTENDS MCAtomSequence, AtomForge

AtomsInit == Init /\ ForgeInit

AtomsNext == \/ ForgeInit /\ NextAsWide /\ UNCHANGED forgeVars
             \/ Init /\ ForgeNext /\ UNCHANGED vars

AtomsSpec == AtomsInit /\ [][AtomsNext]_<<vars, forgeVars>>
=============================================================================
