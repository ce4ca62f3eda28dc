------------------------------- MODULE MCCore -------------------------------
(***************************************************************************)
(* SpinLock and WeakRef for TLC: three threads and the 20 spins of the     *)
(* source; two addresses and three references, with a cell for each and    *)
(* one to spare.                                                           *)
(*                                                                         *)
(* The two share no variable and no call, so that no property can tell     *)
(* the order of their steps: each is explored while the other rests.       *)
(***************************************************************************)
EXTENDS SpinLock, WeakRef

CoreVars == <<vars, weakVars>>

CoreInit == Init /\ WeakInit

CoreNext == \/ WeakInit /\ Next     /\ UNCHANGED weakVars
            \/ Init     /\ WeakNext /\ UNCHANGED vars

CoreSpec == CoreInit /\ [][CoreNext]_CoreVars /\ Fairness
=============================================================================
