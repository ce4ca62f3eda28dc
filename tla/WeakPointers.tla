---------------------------- MODULE WeakPointers ----------------------------
(***************************************************************************)
(* What weak references promise: a reference yields the object it was made *)
(* for while that object lives and nothing once it has been deleted, also  *)
(* when a new object has taken its address; and what happens to one        *)
(* reference is no concern of the others.                                  *)
(***************************************************************************)
CONSTANTS
  Objects, \* the addresses objects live at
  Refs,    \* the references
  Null     \* no object

VARIABLES
  live,    \* the addresses an object lives at
  target   \* what every reference yields

vars == <<live, target>>

Init == live = {} /\ target = [r \in Refs |-> Null]

Create(o) == o \notin live /\ live' = live \cup {o} /\ UNCHANGED target

Delete(o) == /\ o \in live
             /\ live'   = live \ {o}
             /\ target' = [r \in Refs |-> IF target[r] = o THEN Null ELSE target[r]]

Point(r, o) == o \in live /\ target' = [target EXCEPT ![r] = o] /\ UNCHANGED live
Clear(r)    == target' = [target EXCEPT ![r] = Null] /\ UNCHANGED live
Copy(r, q)  == target' = [target EXCEPT ![r] = target[q]] /\ UNCHANGED live
Move(r, q)  == /\ r # q
               /\ target' = [target EXCEPT ![r] = target[q], ![q] = Null]
               /\ UNCHANGED live

Next == \/ \E o \in Objects : Create(o) \/ Delete(o)
        \/ \E r \in Refs, o \in Objects : Point(r, o)
        \/ \E r \in Refs : Clear(r)
        \/ \E r, q \in Refs : Copy(r, q) \/ Move(r, q)

Spec == Init /\ [][Next]_vars
=============================================================================
