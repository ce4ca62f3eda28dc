---------------------------- MODULE FeatureList ----------------------------
(***************************************************************************)
(* lvtk::FeatureList: a std::vector of features with a cached,             *)
(* null-terminated array of pointers to its elements for C functions.      *)
(*                                                                         *)
(* The cache is made again only when its length does not fit the list or   *)
(* it does not end in nullptr; that it points to the elements is not       *)
(* looked at.  The class derives publicly from std::vector, which is       *)
(* external, and has the assignment the compiler makes.  What is stored in *)
(* an element makes no difference here, only where it is.                  *)
(***************************************************************************)
EXTENDS Naturals, Sequences

CONSTANTS
  Lists,   \* the FeatureList variables
  Blocks,  \* the addresses a vector's storage can have
  MaxSize, \* bound on the number of features in a list
  Nullptr

ASSUME FeatureListAssumption ==
  /\ MaxSize \in Nat
  /\ Nullptr \notin Blocks /\ Nullptr \notin Blocks \X Nat

VARIABLES
  lists,    \* the lists that are constructed and not destroyed
  buffer,   \* the storage of every list, or Nullptr
  size,     \* its size()
  capacity, \* its capacity()
  raw,      \* _raw: pointers, each the buffer and index of an element, or Nullptr
  valid,    \* lists whose null_terminated() array is documented to be valid
  since     \* history: what became of the storage since _raw was made

listVars == <<lists, buffer, size, capacity, raw, valid, since>>

(* The storage is where it was; it was left for a larger one by a list     *)
(* that grew, and has not lost an element since; or anything else.         *)
Fates == {"kept", "outgrown", "other"}

ListInit == /\ lists    = {}
            /\ buffer   = [l \in Lists |-> Nullptr]
            /\ size     = [l \in Lists |-> 0]
            /\ capacity = [l \in Lists |-> 0]
            /\ raw      = [l \in Lists |-> <<>>]
            /\ valid    = {}
            /\ since    = [l \in Lists |-> "kept"]

Becomes(l, fate) == since' = [since EXCEPT ![l] = fate]

(* External: storage for n elements of list l that stays where it is.      *)
InPlace(l, n) == n <= capacity[l] /\ UNCHANGED <<buffer, capacity>>

(* External: other storage for n elements, nobody else's; after two moves  *)
(* in one call it may be where it was.                                     *)
Moves(l, n) ==
  /\ n > capacity[l]
  /\ \E b \in Blocks : /\ \A k \in Lists \ {l} : buffer[k] # b
                       /\ b = buffer[l] => n > size[l] + 1
                       /\ buffer' = [buffer EXCEPT ![l] = b]
  /\ \E c \in n .. 2 * n : capacity' = [capacity EXCEPT ![l] = c]

Reserve(l, n) == InPlace(l, n) \/ Moves(l, n)

(* External: the elements are copied to storage nobody has, at once.       *)
Elsewhere(l, capacities) ==
  /\ \E b \in Blocks : /\ \A k \in Lists : buffer[k] # b
                       /\ buffer' = [buffer EXCEPT ![l] = b]
  /\ \E c \in capacities : capacity' = [capacity EXCEPT ![l] = c]
-----------------------------------------------------------------------------
(* FeatureList(), or a copy or array constructor, that adds n features and *)
(* leaves _raw empty, whatever the list that is copied has in it.          *)
ConstructList(l, n) ==
  /\ l \notin lists
  /\ Reserve(l, n)
  /\ lists' = lists \cup {l}
  /\ size'  = [size EXCEPT ![l] = n]
  /\ UNCHANGED <<raw, valid, since>>

DestroyList(l) ==
  /\ l \in lists
  /\ lists'    = lists \ {l}
  /\ buffer'   = [buffer EXCEPT ![l] = Nullptr]
  /\ size'     = [size EXCEPT ![l] = 0]
  /\ capacity' = [capacity EXCEPT ![l] = 0]
  /\ raw'      = [raw EXCEPT ![l] = <<>>]
  /\ valid'    = valid \ {l}
  /\ Becomes(l, "kept")

(* add() of n features, push_back() or insert() of one. *)
AddFeatures(l, n) ==
  /\ l \in lists
  /\ size[l] + n <= MaxSize
  /\ \/ InPlace(l, size[l] + n) /\ UNCHANGED since
     \/ Moves(l, size[l] + n) /\ Becomes(l, IF since[l] = "other" THEN "other" ELSE "outgrown")
  /\ size'  = [size EXCEPT ![l] = @ + n]
  /\ valid' = valid \ {l}
  /\ UNCHANGED <<lists, raw>>

(* Inherited: pop_back(), erase() or clear(), which keep the storage.      *)
RemoveFeatures(l, n) ==
  /\ l \in lists /\ n <= size[l]
  /\ size'  = [size EXCEPT ![l] = @ - n]
  /\ valid' = valid \ {l}
  /\ Becomes(l, IF since[l] = "kept" THEN "kept" ELSE "other")
  /\ UNCHANGED <<lists, buffer, capacity, raw>>

(* Inherited: reserve() or shrink_to_fit() moves the features.             *)
Relocate(l) ==
  /\ l \in lists
  /\ Elsewhere(l, size[l] .. 2 * MaxSize \ {0, capacity[l]})
  /\ valid' = valid \ {l}
  /\ Becomes(l, "other")
  /\ UNCHANGED <<lists, size, raw>>

(* l = k: the elements are copied into l's storage, and so is _raw, which  *)
(* points to those of k.                                                   *)
Assign(l, k) ==
  /\ l \in lists /\ k \in lists \ {l}
  /\ \/ InPlace(l, size[k])
     \/ size[k] > capacity[l] /\ Elsewhere(l, size[k] .. 2 * MaxSize)
  /\ size'  = [size EXCEPT ![l] = size[k]]
  /\ raw'   = [raw EXCEPT ![l] = raw[k]]
  /\ valid' = valid \ {l}
  /\ Becomes(l, "other")
  /\ UNCHANGED lists

(* Inherited: l.swap (k) exchanges the storage, but not _raw.              *)
Swap(l, k) ==
  /\ l \in lists /\ k \in lists \ {l}
  /\ buffer'   = [buffer   EXCEPT ![l] = buffer[k],   ![k] = buffer[l]]
  /\ size'     = [size     EXCEPT ![l] = size[k],     ![k] = size[l]]
  /\ capacity' = [capacity EXCEPT ![l] = capacity[k], ![k] = capacity[l]]
  /\ valid'    = valid \ {l, k}
  /\ since'    = [since EXCEPT ![l] = "other", ![k] = "other"]
  /\ UNCHANGED <<lists, raw>>

(* Mutant: the cache is made once and kept. *)
FitsOnceMade(l) == raw[l] # <<>>

(* null_terminated() returns _raw as it is. *)
Fits(l) == Len(raw[l]) = size[l] + 1 /\ raw[l][Len(raw[l])] = Nullptr

(* The addresses of n elements in buffer b, then nullptr. *)
PointersTo(b, n) == [i \in 1 .. n + 1 |-> IF i <= n THEN <<b, i>> ELSE Nullptr]

(* Mutant: one pointer more than there are features. *)
AddressesBeyond(l) == PointersTo(buffer[l], size[l] + 1)

(* &f for every f in the list, then nullptr. *)
Addresses(l) == PointersTo(buffer[l], size[l])

NullTerminated(l) ==
  /\ l \in lists
  /\ \/ Fits(l) /\ UNCHANGED <<raw, since>>
     \/ /\ ~ Fits(l)
        /\ raw' = [raw EXCEPT ![l] = Addresses(l)]
        /\ Becomes(l, "kept")
  /\ valid' = valid \cup {l}
  /\ UNCHANGED <<lists, buffer, size, capacity>>
-----------------------------------------------------------------------------
ListNext ==
  \E l \in Lists :
    \/ \E n \in 0 .. MaxSize : ConstructList(l, n)
    \/ DestroyList(l)
    \/ \E n \in 1 .. MaxSize : AddFeatures(l, n) \/ RemoveFeatures(l, n)
    \/ Relocate(l)
    \/ \E k \in Lists : Assign(l, k) \/ Swap(l, k)
    \/ NullTerminated(l)

ListSpec == ListInit /\ [][ListNext]_listVars
-----------------------------------------------------------------------------
AddressSet == Blocks \X (1 .. MaxSize) \cup {Nullptr}

(* Of every value of the state; only live lists have anything. *)
ListTypeOK ==
  /\ lists \subseteq Lists /\ valid \subseteq lists
  /\ buffer \in [Lists -> Blocks \cup {Nullptr}]
  /\ size \in [Lists -> 0 .. MaxSize]
  /\ capacity \in [Lists -> 0 .. 2 * MaxSize]
  /\ raw \in [Lists -> Seq(AddressSet)]
  /\ since \in [Lists -> Fates]
  /\ \A l \in Lists : size[l] <= capacity[l] /\ (capacity[l] > 0 => buffer[l] # Nullptr)

(* "Returns a null-terminated version of these Features", valid until the  *)
(* list is "deleted, or the contents modified by adding and removing       *)
(* features": the array that was returned points to the elements of this   *)
(* very list, in order.  lvtk.hpp:187-193.                                 *)
ArrayIsCurrent == \A l \in valid : raw[l] = Addresses(l)

(* Where null_terminated() can be relied on: its array is that of the list *)
(* if, since the array was made, the list has only grown, or has grown and *)
(* lost features in any order without its storage being left.  In between, *)
(* other lists may have been made, moved and destroyed at any address.     *)
CurrentUnlessDisturbed ==
  \A l \in valid : since[l] # "other" => raw[l] = Addresses(l)

(* A reader of the array always stops behind as many pointers as the list  *)
(* has features, also where they point to what is gone: after removals,    *)
(* assignments from and swaps with lists of other sizes.                   *)
ArrayEndsInTime ==
  \A l \in valid : /\ Len(raw[l]) = size[l] + 1
                   /\ \A i \in DOMAIN raw[l] : raw[l][i] = Nullptr <=> i = size[l] + 1
=============================================================================
