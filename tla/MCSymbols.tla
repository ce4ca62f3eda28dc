----------------------------- MODULE MCSymbols -----------------------------
(***************************************************************************)
(* Instances of module Symbols for TLC.                                    *)
(***************************************************************************)
EXTENDS Symbols

CONSTANTS s1, s2, s3, ka, kb

(* A table whose id is beyond the number of its keys. *)
SparsePreload == [k \in {ka} |-> 2]

(* A table as map() numbers it, a sparse one, and one with an id twice. *)
MCPreloads == {[k \in {ka} |-> 1], SparsePreload, [k \in {ka, kb} |-> 1]}

SparsePreloads == {SparsePreload}

(* The names of the objects are interchangeable: they are taken in order. *)
InOrder == \A i \in DOMAIN scope : scope[i] = <<s1, s2, s3>>[i]
=============================================================================
