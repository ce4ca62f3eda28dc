------------------------------ MODULE WeakRef ------------------------------
(***************************************************************************)
(* lvtk::WeakStatus and lvtk::WeakRef: an object and the references to it  *)
(* share one Status cell through std::shared_ptr; the object's constructor *)
(* stores its address there and its destructor clears it.                  *)
(*                                                                         *)
(* The objects are of the class weak_ref.hpp documents: a constructor that *)
(* calls reset (this) and a destructor that calls reset(), and are neither *)
(* copied nor assigned.                                                    *)
(***************************************************************************)
CONSTANTS
  Objects,  \* the addresses objects live at
  Refs,     \* the WeakRef variables
  Cells,    \* the Status cells std::make_shared can return
  Null      \* nullptr, for objects and for cells

ASSUME NullAssumption == Null \notin Objects \cup Cells

VARIABLES
  live,   \* the addresses an object lives at
  own,    \* the cell of every object's WeakStatus member, or Null
  status, \* the cell of every reference's _status, or Null
  ptr     \* Status::ptr of every cell

weakVars == <<live, own, status, ptr>>

WeakInit ==
  /\ live   = {}
  /\ own    = [o \in Objects |-> Null]
  /\ status = [r \in Refs |-> Null]
  /\ ptr    = [c \in Cells |-> Null]

(* Nothing shares c: it was never allocated, or freed with its last owner. *)
Free(c) == c \in Cells /\ (\A o \in Objects : own[o] # c) /\ (\A r \in Refs : status[r] # c)

(* WeakStatus::operator!= (nullptr) and get(), of a WeakStatus with cell s *)
NotNull(s) == s # Null /\ ptr[s] # Null
get(s)     == IF s # Null THEN ptr[s] ELSE Null

(* WeakRef::lock() *)
lock(r) == IF NotNull(status[r]) THEN get(status[r]) ELSE Null
-----------------------------------------------------------------------------
Construct(o) ==
  /\ o \notin live
  /\ live' = live \cup {o}
  /\ \E c \in Cells : /\ Free(c)
                      /\ own' = [own EXCEPT ![o] = c]
                      /\ ptr' = [ptr EXCEPT ![c] = o]
  /\ UNCHANGED status

(* Mutant: the destructor does not call reset(). *)
DestroyWithoutReset(o) ==
  /\ o \in live
  /\ live' = live \ {o}
  /\ own'  = [own EXCEPT ![o] = Null]
  /\ UNCHANGED <<status, ptr>>

(* Mutant: the destructor clears the cell and keeps its share of it. *)
DestroyKeepsShare(o) ==
  /\ o \in live
  /\ live' = live \ {o}
  /\ ptr'  = [ptr EXCEPT ![own[o]] = Null]
  /\ UNCHANGED <<own, status>>

(* reset() in the destructor, then the member gives up its share.          *)
Destroy(o) ==
  /\ o \in live
  /\ live' = live \ {o}
  /\ ptr'  = [ptr EXCEPT ![own[o]] = Null]
  /\ own'  = [own EXCEPT ![o] = Null]
  /\ UNCHANGED status

(* WeakRef (Obj* ) for a live object. *)
Refer(r, o) ==
  /\ o \in live
  /\ status' = [status EXCEPT ![r] = own[o]]
  /\ UNCHANGED <<live, own, ptr>>

(* Mutant: a reference is emptied through the cell it shares. *)
EmptyThroughCell(r) ==
  /\ status[r] # Null
  /\ ptr' = [ptr EXCEPT ![status[r]] = Null]
  /\ UNCHANGED <<live, own, status>>

(* WeakRef() and WeakRef (nullptr): a new cell that nothing ever fills.    *)
Empty(r) ==
  /\ \E c \in Cells : /\ Free(c)
                      /\ status' = [status EXCEPT ![r] = c]
                      /\ ptr'    = [ptr EXCEPT ![c] = Null]
  /\ UNCHANGED <<live, own>>

Copy(r, q) ==
  /\ status' = [status EXCEPT ![r] = status[q]]
  /\ UNCHANGED <<live, own, ptr>>

(* A moved-from reference has no cell, like one that has been destroyed.   *)
Move(r, q) ==
  /\ r # q
  /\ status' = [status EXCEPT ![r] = status[q], ![q] = Null]
  /\ UNCHANGED <<live, own, ptr>>

WeakNext ==
  \/ \E o \in Objects : Construct(o) \/ Destroy(o)
  \/ \E r \in Refs, o \in Objects : Refer(r, o)
  \/ \E r \in Refs : Empty(r)
  \/ \E r, q \in Refs : Copy(r, q) \/ Move(r, q)

WeakSpec == WeakInit /\ [][WeakNext]_weakVars
-----------------------------------------------------------------------------
(* Type correctness; exactly the live objects hold a share of a cell.      *)
(* weak_ref.hpp:66-70 and :149.                                            *)
WeakTypeOK ==
  /\ live   \subseteq Objects
  /\ own    \in [Objects -> Cells \cup {Null}]
  /\ status \in [Refs -> Cells \cup {Null}]
  /\ ptr    \in [Cells -> Objects \cup {Null}]
  /\ \A o \in Objects : own[o] # Null <=> o \in live

(* "Returns the reference if not deleted, otherwise nullptr": lock() never *)
(* returns an object that is gone, whatever references were copied, moved  *)
(* and emptied in between.                                                 *)
LockIsLive == \A r \in Refs : lock(r) # Null => lock(r) \in live

(* The cell of a live object holds that object's address, so a reference   *)
(* made from it yields it and no other object shares the cell.             *)
StatusFaithful == \A o \in live : ptr[own[o]] = o

(* References implement WeakPointers.  An address may be reused: the       *)
(* references to the first object must not come alive with the second.     *)
Pointers == INSTANCE WeakPointers WITH target <- [r \in Refs |-> lock(r)]
ImplementsWeakPointers == Pointers!Spec
=============================================================================
