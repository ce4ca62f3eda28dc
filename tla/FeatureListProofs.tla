------------------------- MODULE FeatureListProofs -------------------------
(***************************************************************************)
(* For lists of any number and size, whatever is added, removed, moved,    *)
(* assigned and swapped: where the cached array of pointers is right, and  *)
(* that it always ends in time.                                            *)
(***************************************************************************)
EXTENDS FeatureList, SequenceTheorems, TLAPS

(* A cache has one nullptr, at its end. *)
OneEnd(l) ==
  raw[l] # <<>> => \A i \in DOMAIN raw[l] : raw[l][i] = Nullptr <=> i = Len(raw[l])

(* As long as the storage was kept, the cache points into it, to no more   *)
(* elements than it has room for: a list that leaves it because it grows   *)
(* has then more features than the cache has pointers to elements.         *)
CacheFits(l) ==
  /\ since[l] = "kept" => \/ raw[l] = <<>>
                          \/ \E n \in 0 .. capacity[l] : raw[l] = PointersTo(buffer[l], n)
  /\ since[l] = "outgrown" => Len(raw[l]) <= size[l]

(* What the invariant says of one list, in its own variables only.         *)
ListOK(l) ==
  /\ size[l] <= capacity[l]
  /\ capacity[l] > 0 => buffer[l] # Nullptr
  /\ OneEnd(l)
  /\ CacheFits(l)
  /\ l \in valid => Len(raw[l]) = size[l] + 1
  /\ l \notin lists => raw[l] = <<>>

IInv == ListTypeOK /\ \A l \in Lists : ListOK(l)

LEMMA PointersToType ==
  ASSUME NEW b \in Blocks \cup {Nullptr}, NEW n \in 0 .. MaxSize, n > 0 => b # Nullptr
  PROVE  /\ PointersTo(b, n) \in Seq(AddressSet)
         /\ Len(PointersTo(b, n)) = n + 1
         /\ \A i \in 1 .. n + 1 : PointersTo(b, n)[i] = Nullptr <=> i = n + 1
<1> DEFINE P == [i \in 1 .. n + 1 |-> IF i <= n THEN <<b, i>> ELSE Nullptr]
<1>1. ASSUME NEW i \in 1 .. n + 1
      PROVE  P[i] \in AddressSet /\ (P[i] = Nullptr <=> i = n + 1)
  <2>1. CASE i <= n
    <3>1. b \in Blocks /\ i \in 1 .. MaxSize /\ i \in Nat /\ i # n + 1
      BY <2>1, FeatureListAssumption
    <3>2. <<b, i>> # Nullptr  BY <3>1, FeatureListAssumption
    <3> QED  BY <2>1, <3>1, <3>2 DEF AddressSet
  <2>2. CASE ~ i <= n
    <3>1. i = n + 1  BY <2>2, FeatureListAssumption
    <3> QED  BY <2>2, <3>1 DEF AddressSet
  <2> QED  BY <2>1, <2>2
<1>2. n + 1 \in Nat  BY FeatureListAssumption
<1>3. P \in [1 .. n + 1 -> AddressSet]  BY <1>1
<1>4. P \in Seq(AddressSet) /\ Len(P) = n + 1
  <2> HIDE DEF P
  <2> QED  BY <1>2, <1>3, LenProperties, SeqDef
<1> QED  BY <1>1, <1>4 DEF PointersTo

(* The array of a list.                                                    *)
LEMMA AddressesType ==
  ASSUME ListTypeOK, NEW l \in Lists
  PROVE  /\ Addresses(l) \in Seq(AddressSet)
         /\ Len(Addresses(l)) = size[l] + 1
         /\ \A i \in 1 .. size[l] + 1 : Addresses(l)[i] = Nullptr <=> i = size[l] + 1
<1>1. size[l] \in 0 .. MaxSize /\ buffer[l] \in Blocks \cup {Nullptr}
  BY DEF ListTypeOK
<1>2. size[l] > 0 => buffer[l] # Nullptr
  BY FeatureListAssumption DEF ListTypeOK
<1> QED  BY <1>1, <1>2, PointersToType DEF Addresses

(* How storage changes, in the only form the steps below need.             *)
LEMMA MovesFacts ==
  ASSUME ListTypeOK, NEW l \in Lists, NEW n \in 0 .. MaxSize, Moves(l, n)
  PROVE  /\ buffer' \in [Lists -> Blocks \cup {Nullptr}]
         /\ capacity' \in [Lists -> 0 .. 2 * MaxSize]
         /\ n <= capacity'[l] /\ n > capacity[l]
         /\ buffer'[l] # Nullptr
         /\ \A k \in Lists \ {l} : buffer'[k] = buffer[k] /\ capacity'[k] = capacity[k]
<1>1. PICK b \in Blocks : buffer' = [buffer EXCEPT ![l] = b]
  BY DEF Moves
<1>2. PICK c \in n .. 2 * n : capacity' = [capacity EXCEPT ![l] = c]
  BY DEF Moves
<1>3. c \in 0 .. 2 * MaxSize /\ n <= c
  BY FeatureListAssumption
<1> QED  BY <1>1, <1>2, <1>3, FeatureListAssumption DEF Moves, ListTypeOK

LEMMA ElsewhereFacts ==
  ASSUME ListTypeOK, NEW l \in Lists, NEW n \in 0 .. MaxSize,
         NEW cs \in SUBSET (n .. 2 * MaxSize), Elsewhere(l, cs)
  PROVE  /\ buffer' \in [Lists -> Blocks \cup {Nullptr}]
         /\ capacity' \in [Lists -> 0 .. 2 * MaxSize]
         /\ n <= capacity'[l]
         /\ buffer'[l] # Nullptr
         /\ \A k \in Lists \ {l} : buffer'[k] = buffer[k] /\ capacity'[k] = capacity[k]
<1>1. PICK b \in Blocks : buffer' = [buffer EXCEPT ![l] = b]
  BY DEF Elsewhere
<1>2. PICK c \in cs : capacity' = [capacity EXCEPT ![l] = c]
  BY DEF Elsewhere
<1>3. c \in 0 .. 2 * MaxSize /\ n <= c
  BY FeatureListAssumption
<1> QED  BY <1>1, <1>2, <1>3, FeatureListAssumption DEF ListTypeOK

(* A step that leaves a list's variables alone keeps what is said of it.   *)
LEMMA Untouched ==
  ASSUME NEW l \in Lists, ListOK(l), l \in valid' => l \in valid, l \in lists' <=> l \in lists,
         size'[l] = size[l], capacity'[l] = capacity[l], buffer'[l] = buffer[l],
         raw'[l] = raw[l], since'[l] = since[l]
  PROVE  ListOK(l)'
BY DEF ListOK, OneEnd, CacheFits
-----------------------------------------------------------------------------
(* The types, without what ListOK repeats. *)
Shapes ==
  /\ lists \subseteq Lists /\ valid \subseteq lists
  /\ buffer \in [Lists -> Blocks \cup {Nullptr}]
  /\ size \in [Lists -> 0 .. MaxSize]
  /\ capacity \in [Lists -> 0 .. 2 * MaxSize]
  /\ raw \in [Lists -> Seq(AddressSet)]
  /\ since \in [Lists -> Fates]

LEMMA ConstructKeeps ==
  ASSUME IInv, NEW l \in Lists, NEW n \in 0 .. MaxSize, ConstructList(l, n)
  PROVE  Shapes' /\ \A k \in Lists : ListOK(k)'
<1> USE FeatureListAssumption
<1>0. ListTypeOK /\ \A k \in Lists : ListOK(k)  BY DEF IInv
<1>1. /\ buffer' \in [Lists -> Blocks \cup {Nullptr}]
      /\ capacity' \in [Lists -> 0 .. 2 * MaxSize]
      /\ n <= capacity'[l] /\ (capacity'[l] > 0 => buffer'[l] # Nullptr)
      /\ \A k \in Lists \ {l} : buffer'[k] = buffer[k] /\ capacity'[k] = capacity[k]
  <2>1. CASE InPlace(l, n)  BY <1>0, <2>1 DEF InPlace, ListTypeOK
  <2>2. CASE Moves(l, n)  BY <1>0, <2>2, MovesFacts
  <2> QED  BY <2>1, <2>2 DEF ConstructList, Reserve
<1>2. Shapes'
  BY <1>0, <1>1 DEF ConstructList, ListTypeOK, Shapes
<1>3. ASSUME NEW k \in Lists \ {l} PROVE ListOK(k)'
  BY <1>0, <1>1, <1>3, Untouched DEF ConstructList, ListTypeOK
<1>4. ListOK(l)'
  <2>1. /\ raw'[l] = <<>> /\ since'[l] = since[l] /\ l \in lists' /\ size'[l] = n
        /\ l \notin valid'
    BY <1>0 DEF ConstructList, ListOK, ListTypeOK
  <2>2. Len(raw'[l]) = 0  BY <2>1
  <2> QED  BY <1>1, <2>1, <2>2 DEF ListOK, OneEnd, CacheFits
<1> QED  BY <1>2, <1>3, <1>4

LEMMA DestroyKeeps ==
  ASSUME IInv, NEW l \in Lists, DestroyList(l)
  PROVE  Shapes' /\ \A k \in Lists : ListOK(k)'
<1> USE FeatureListAssumption
<1>0. ListTypeOK /\ \A k \in Lists : ListOK(k)  BY DEF IInv
<1>1. Shapes'
  BY <1>0, EmptySeq DEF DestroyList, Becomes, ListTypeOK, Shapes, Fates
<1>2. ASSUME NEW k \in Lists \ {l} PROVE ListOK(k)'
  BY <1>0, <1>2, Untouched DEF DestroyList, Becomes, ListTypeOK
<1>3. ListOK(l)'
  <2>1. /\ raw'[l] = <<>> /\ since'[l] = "kept" /\ size'[l] = 0 /\ capacity'[l] = 0
        /\ l \notin valid'
    BY <1>0 DEF DestroyList, Becomes, ListTypeOK
  <2> QED  BY <2>1 DEF ListOK, OneEnd, CacheFits
<1> QED  BY <1>1, <1>2, <1>3

(* A list that grows out of its storage grows longer than its cache.       *)
LEMMA AddKeeps ==
  ASSUME IInv, NEW l \in Lists, NEW n \in 1 .. MaxSize, AddFeatures(l, n)
  PROVE  Shapes' /\ \A k \in Lists : ListOK(k)'
<1> USE FeatureListAssumption
<1> DEFINE m == size[l] + n
<1>0. ListTypeOK /\ \A k \in Lists : ListOK(k)  BY DEF IInv
<1>1. /\ m \in 0 .. MaxSize /\ m > size[l] /\ size[l] \in Nat /\ capacity[l] \in Nat
      /\ size'[l] = m /\ raw' = raw /\ lists' = lists /\ valid' = valid \ {l}
      /\ \A k \in Lists \ {l} : size'[k] = size[k]
      /\ size' \in [Lists -> 0 .. MaxSize]
  BY <1>0 DEF AddFeatures, ListTypeOK
<1>2. ListOK(l)  BY <1>0
<1>3. CASE InPlace(l, m) /\ UNCHANGED since
  <2>1. m <= capacity[l] /\ buffer' = buffer /\ capacity' = capacity /\ since' = since
    BY <1>3 DEF InPlace
  <2>2. Shapes'
    BY <1>0, <1>1, <2>1 DEF ListTypeOK, Shapes
  <2>3. ASSUME NEW k \in Lists \ {l} PROVE ListOK(k)'
    BY <1>0, <1>1, <2>1, <2>3, Untouched
  <2>4. Len(raw[l]) \in Nat  BY <1>0 DEF ListTypeOK
  <2>5. ListOK(l)'
    BY <1>1, <1>2, <2>1, <2>4 DEF ListOK, OneEnd, CacheFits
  <2> QED  BY <2>2, <2>3, <2>5
<1>4. ASSUME Moves(l, m), Becomes(l, IF since[l] = "other" THEN "other" ELSE "outgrown")
      PROVE  Shapes' /\ \A k \in Lists : ListOK(k)'
  <2>1. /\ buffer' \in [Lists -> Blocks \cup {Nullptr}]
        /\ capacity' \in [Lists -> 0 .. 2 * MaxSize]
        /\ m <= capacity'[l] /\ m > capacity[l] /\ buffer'[l] # Nullptr
        /\ \A k \in Lists \ {l} : buffer'[k] = buffer[k] /\ capacity'[k] = capacity[k]
    <3> HIDE DEF m
    <3> QED  BY <1>0, <1>1, <1>4, MovesFacts
  <2>2. /\ since' \in [Lists -> Fates]
        /\ since'[l] = IF since[l] = "other" THEN "other" ELSE "outgrown"
        /\ \A k \in Lists \ {l} : since'[k] = since[k]
    BY <1>0, <1>4 DEF Becomes, ListTypeOK, Fates
  <2>3. Shapes'
    BY <1>0, <1>1, <2>1, <2>2 DEF ListTypeOK, Shapes
  <2>4. ASSUME NEW k \in Lists \ {l} PROVE ListOK(k)'
    BY <1>0, <1>1, <2>1, <2>2, <2>4, Untouched
  <2>5. since[l] # "other" => Len(raw[l]) <= m
    <3>1. CASE since[l] = "kept" /\ raw[l] = <<>>
      BY <1>1, <3>1
    <3>2. ASSUME NEW j \in 0 .. capacity[l], raw[l] = PointersTo(buffer[l], j) PROVE Len(raw[l]) <= m
      <4>1. DOMAIN raw[l] = 1 .. j + 1  BY <3>2 DEF PointersTo
      <4>2. Len(raw[l]) = j + 1
        <5>1. raw[l] \in Seq(AddressSet) /\ j + 1 \in Nat  BY <1>0, <1>1 DEF ListTypeOK
        <5> QED  BY <4>1, <5>1, LenProperties
      <4>3. j + 1 <= m  BY <1>1, <2>1
      <4> QED  BY <4>2, <4>3
    <3>3. CASE since[l] = "outgrown"
      <4>1. Len(raw[l]) <= size[l]  BY <1>2, <3>3 DEF ListOK, CacheFits
      <4>2. Len(raw[l]) \in Nat  BY <1>0 DEF ListTypeOK
      <4> QED  BY <1>1, <4>1, <4>2
    <3>4. since[l] \in {"kept", "outgrown", "other"}  BY <1>0 DEF ListTypeOK, Fates
    <3> QED  BY <1>2, <3>1, <3>2, <3>3, <3>4 DEF ListOK, CacheFits
  <2>6. ListOK(l)'
    BY <1>1, <1>2, <2>1, <2>2, <2>5 DEF ListOK, OneEnd, CacheFits
  <2> QED  BY <2>3, <2>4, <2>6
<1> QED  BY <1>3, <1>4 DEF AddFeatures

LEMMA RemoveKeeps ==
  ASSUME IInv, NEW l \in Lists, NEW n \in 1 .. MaxSize, RemoveFeatures(l, n)
  PROVE  Shapes' /\ \A k \in Lists : ListOK(k)'
<1> USE FeatureListAssumption
<1>0. ListTypeOK /\ \A k \in Lists : ListOK(k)  BY DEF IInv
<1>1. /\ size' \in [Lists -> 0 .. MaxSize] /\ size'[l] <= size[l]
      /\ \A k \in Lists \ {l} : size'[k] = size[k]
  BY <1>0 DEF RemoveFeatures, ListTypeOK
<1>2. /\ since' \in [Lists -> Fates]
      /\ since'[l] = IF since[l] = "kept" THEN "kept" ELSE "other"
      /\ \A k \in Lists \ {l} : since'[k] = since[k]
  BY <1>0 DEF RemoveFeatures, Becomes, ListTypeOK, Fates
<1>3. Shapes'
  BY <1>0, <1>1, <1>2 DEF RemoveFeatures, ListTypeOK, Shapes
<1>4. ASSUME NEW k \in Lists \ {l} PROVE ListOK(k)'
  BY <1>0, <1>1, <1>2, <1>4, Untouched DEF RemoveFeatures
<1>5. ListOK(l)'
  <2>1. /\ raw' = raw /\ buffer' = buffer /\ capacity' = capacity /\ lists' = lists
        /\ l \notin valid'
    BY DEF RemoveFeatures
  <2>2. size'[l] <= capacity[l]
    BY <1>0, <1>1 DEF ListOK, ListTypeOK
  <2> QED  BY <1>0, <1>2, <2>1, <2>2 DEF ListOK, OneEnd, CacheFits
<1> QED  BY <1>3, <1>4, <1>5

LEMMA RelocateKeeps ==
  ASSUME IInv, NEW l \in Lists, Relocate(l)
  PROVE  Shapes' /\ \A k \in Lists : ListOK(k)'
<1> USE FeatureListAssumption
<1>0. ListTypeOK /\ \A k \in Lists : ListOK(k)  BY DEF IInv
<1> DEFINE cs == size[l] .. 2 * MaxSize \ {0, capacity[l]}
<1>1. size[l] \in 0 .. MaxSize /\ cs \in SUBSET (size[l] .. 2 * MaxSize) /\ Elsewhere(l, cs)
  BY <1>0 DEF Relocate, ListTypeOK
<1> HIDE DEF cs
<1>2. /\ buffer' \in [Lists -> Blocks \cup {Nullptr}]
      /\ capacity' \in [Lists -> 0 .. 2 * MaxSize]
      /\ size[l] <= capacity'[l] /\ buffer'[l] # Nullptr
      /\ \A k \in Lists \ {l} : buffer'[k] = buffer[k] /\ capacity'[k] = capacity[k]
  BY <1>0, <1>1, ElsewhereFacts
<1>3. /\ since' \in [Lists -> Fates] /\ since'[l] = "other"
      /\ \A k \in Lists \ {l} : since'[k] = since[k]
      /\ size' = size /\ raw' = raw /\ lists' = lists /\ valid' = valid \ {l}
  BY <1>0 DEF Relocate, Becomes, ListTypeOK, Fates
<1>4. Shapes'
  BY <1>0, <1>2, <1>3 DEF ListTypeOK, Shapes
<1>5. ASSUME NEW k \in Lists \ {l} PROVE ListOK(k)'
  BY <1>0, <1>2, <1>3, <1>5, Untouched
<1>6. ListOK(l)'
  BY <1>0, <1>2, <1>3 DEF ListOK, OneEnd, CacheFits
<1> QED  BY <1>4, <1>5, <1>6

LEMMA AssignKeeps ==
  ASSUME IInv, NEW l \in Lists, NEW k \in Lists, Assign(l, k)
  PROVE  Shapes' /\ \A q \in Lists : ListOK(q)'
<1> USE FeatureListAssumption
<1>0. ListTypeOK /\ \A q \in Lists : ListOK(q)  BY DEF IInv
<1>1. size[k] \in 0 .. MaxSize /\ k # l /\ l \in lists
  BY <1>0 DEF Assign, ListTypeOK
<1>2. /\ buffer' \in [Lists -> Blocks \cup {Nullptr}]
      /\ capacity' \in [Lists -> 0 .. 2 * MaxSize]
      /\ size[k] <= capacity'[l] /\ (capacity'[l] > 0 => buffer'[l] # Nullptr)
      /\ \A q \in Lists \ {l} : buffer'[q] = buffer[q] /\ capacity'[q] = capacity[q]
  <2>1. CASE InPlace(l, size[k])  BY <1>0, <2>1 DEF InPlace, ListTypeOK
  <2>2. CASE Elsewhere(l, size[k] .. 2 * MaxSize)
    BY <1>0, <1>1, <2>2, ElsewhereFacts
  <2> QED  BY <2>1, <2>2 DEF Assign
<1>3. /\ since' \in [Lists -> Fates] /\ since'[l] = "other"
      /\ \A q \in Lists \ {l} : since'[q] = since[q]
      /\ lists' = lists /\ valid' = valid \ {l}
      /\ size' \in [Lists -> 0 .. MaxSize] /\ size'[l] = size[k]
      /\ raw' \in [Lists -> Seq(AddressSet)] /\ raw'[l] = raw[k]
      /\ \A q \in Lists \ {l} : size'[q] = size[q] /\ raw'[q] = raw[q]
  BY <1>0 DEF Assign, Becomes, ListTypeOK, Fates
<1>4. Shapes'
  BY <1>0, <1>2, <1>3 DEF ListTypeOK, Shapes
<1>5. ASSUME NEW q \in Lists \ {l} PROVE ListOK(q)'
  BY <1>0, <1>2, <1>3, <1>5, Untouched
<1>6. ListOK(l)'
  <2>1. OneEnd(l)'  BY <1>0, <1>3 DEF ListOK, OneEnd
  <2> QED  BY <1>1, <1>2, <1>3, <2>1 DEF ListOK, CacheFits
<1> QED  BY <1>4, <1>5, <1>6

LEMMA SwapKeeps ==
  ASSUME IInv, NEW l \in Lists, NEW k \in Lists, Swap(l, k)
  PROVE  Shapes' /\ \A q \in Lists : ListOK(q)'
<1> USE FeatureListAssumption
<1>0. ListTypeOK /\ \A q \in Lists : ListOK(q)  BY DEF IInv
<1>1. k # l /\ l \in lists /\ k \in lists /\ lists' = lists /\ raw' = raw /\ valid' = valid \ {l, k}
  BY DEF Swap
<1>2. /\ buffer'[l] = buffer[k] /\ size'[l] = size[k] /\ capacity'[l] = capacity[k]
      /\ buffer'[k] = buffer[l] /\ size'[k] = size[l] /\ capacity'[k] = capacity[l]
      /\ since'[l] = "other" /\ since'[k] = "other"
  BY <1>0, <1>1 DEF Swap, ListTypeOK
<1>3. \A q \in Lists \ {l, k} : /\ buffer'[q] = buffer[q] /\ size'[q] = size[q]
                                /\ capacity'[q] = capacity[q] /\ since'[q] = since[q]
  BY <1>0 DEF Swap, ListTypeOK
<1>4. Shapes'
  BY <1>0, <1>1 DEF Swap, ListTypeOK, Shapes, Fates
<1>5. ASSUME NEW q \in Lists \ {l, k} PROVE ListOK(q)'
  BY <1>0, <1>1, <1>3, <1>5, Untouched
<1>6. ListOK(l)'  BY <1>0, <1>1, <1>2 DEF ListOK, OneEnd, CacheFits
<1>7. ListOK(k)'  BY <1>0, <1>1, <1>2 DEF ListOK, OneEnd, CacheFits
<1> QED  BY <1>4, <1>5, <1>6, <1>7

LEMMA ReadKeeps ==
  ASSUME IInv, NEW l \in Lists, NullTerminated(l)
  PROVE  Shapes' /\ \A k \in Lists : ListOK(k)'
<1> USE FeatureListAssumption
<1>0. ListTypeOK /\ \A k \in Lists : ListOK(k)  BY DEF IInv
<1>1. /\ l \in lists /\ lists' = lists /\ valid' = valid \cup {l}
      /\ buffer' = buffer /\ size' = size /\ capacity' = capacity
  BY DEF NullTerminated
<1>2. CASE Fits(l) /\ UNCHANGED <<raw, since>>
  <2>1. Shapes'
    BY <1>0, <1>1, <1>2 DEF ListTypeOK, Shapes
  <2>2. ASSUME NEW k \in Lists \ {l} PROVE ListOK(k)'
    BY <1>0, <1>1, <1>2, <2>2, Untouched
  <2>3. ListOK(l)'
    BY <1>0, <1>1, <1>2 DEF ListOK, OneEnd, CacheFits, Fits
  <2> QED  BY <2>1, <2>2, <2>3
<1>3. ASSUME raw' = [raw EXCEPT ![l] = Addresses(l)], Becomes(l, "kept")
      PROVE  Shapes' /\ \A k \in Lists : ListOK(k)'
  <2>1. /\ raw' \in [Lists -> Seq(AddressSet)] /\ raw'[l] = Addresses(l)
        /\ \A k \in Lists \ {l} : raw'[k] = raw[k]
    BY <1>0, <1>3, AddressesType DEF ListTypeOK
  <2>2. /\ since' \in [Lists -> Fates] /\ since'[l] = "kept"
        /\ \A k \in Lists \ {l} : since'[k] = since[k]
    BY <1>0, <1>3 DEF Becomes, ListTypeOK, Fates
  <2>3. Shapes'
    BY <1>0, <1>1, <2>1, <2>2 DEF ListTypeOK, Shapes
  <2>4. ASSUME NEW k \in Lists \ {l} PROVE ListOK(k)'
    BY <1>0, <1>1, <2>1, <2>2, <2>4, Untouched
  <2>5. OneEnd(l)'
    <3>1. DOMAIN Addresses(l) = 1 .. size[l] + 1  BY DEF Addresses, PointersTo
    <3> QED  BY <1>0, <2>1, <3>1, AddressesType DEF OneEnd
  <2>6. CacheFits(l)'
    <3>1. size[l] \in 0 .. capacity[l]  BY <1>0 DEF ListOK, ListTypeOK
    <3> QED  BY <1>1, <2>1, <2>2, <3>1 DEF CacheFits, Addresses
  <2>7. ListOK(l)'
    BY <1>0, <1>1, <2>1, <2>5, <2>6, AddressesType DEF ListOK
  <2> QED  BY <2>3, <2>4, <2>7
<1> QED  BY <1>2, <1>3 DEF NullTerminated

LEMMA Invariance == ListSpec => []IInv
<1>1. ListInit => IInv
  <2> SUFFICES ASSUME ListInit PROVE IInv
    OBVIOUS
  <2>1. ListTypeOK
    BY FeatureListAssumption, EmptySeq DEF ListInit, ListTypeOK, Fates
  <2>2. ASSUME NEW l \in Lists PROVE ListOK(l)
    BY <2>2, FeatureListAssumption DEF ListInit, ListOK, OneEnd, CacheFits
  <2> QED  BY <2>1, <2>2 DEF IInv
<1>2. ASSUME IInv, [ListNext]_listVars PROVE IInv'
  <2> SUFFICES Shapes' /\ \A l \in Lists : ListOK(l)'
    BY DEF IInv, ListTypeOK, Shapes, ListOK
  <2> USE <1>2
  <2>1. ASSUME NEW l \in Lists, NEW n \in 0 .. MaxSize, ConstructList(l, n)
        PROVE  Shapes' /\ \A k \in Lists : ListOK(k)'
    BY <2>1, ConstructKeeps
  <2>2. ASSUME NEW l \in Lists, DestroyList(l) PROVE Shapes' /\ \A k \in Lists : ListOK(k)'
    BY <2>2, DestroyKeeps
  <2>3. ASSUME NEW l \in Lists, NEW n \in 1 .. MaxSize, AddFeatures(l, n)
        PROVE  Shapes' /\ \A k \in Lists : ListOK(k)'
    BY <2>3, AddKeeps
  <2>4. ASSUME NEW l \in Lists, NEW n \in 1 .. MaxSize, RemoveFeatures(l, n)
        PROVE  Shapes' /\ \A k \in Lists : ListOK(k)'
    BY <2>4, RemoveKeeps
  <2>5. ASSUME NEW l \in Lists, Relocate(l) PROVE Shapes' /\ \A k \in Lists : ListOK(k)'
    BY <2>5, RelocateKeeps
  <2>6. ASSUME NEW l \in Lists, NEW k \in Lists, Assign(l, k)
        PROVE  Shapes' /\ \A q \in Lists : ListOK(q)'
    BY <2>6, AssignKeeps
  <2>7. ASSUME NEW l \in Lists, NEW k \in Lists, Swap(l, k)
        PROVE  Shapes' /\ \A q \in Lists : ListOK(q)'
    BY <2>7, SwapKeeps
  <2>8. ASSUME NEW l \in Lists, NullTerminated(l) PROVE Shapes' /\ \A k \in Lists : ListOK(k)'
    BY <2>8, ReadKeeps
  <2>9. CASE UNCHANGED listVars
    <3>1. Shapes'  BY <2>9 DEF IInv, ListTypeOK, Shapes, listVars
    <3>2. ASSUME NEW l \in Lists PROVE ListOK(l)'
      BY <2>9, <3>2, Untouched DEF IInv, listVars
    <3> QED  BY <3>1, <3>2
  <2> QED  BY <2>1, <2>2, <2>3, <2>4, <2>5, <2>6, <2>7, <2>8, <2>9 DEF ListNext
<1> QED  BY <1>1, <1>2, PTL DEF ListSpec
-----------------------------------------------------------------------------
(* The state of any number of lists is well typed: lvtk.hpp:131, :212.     *)
THEOREM TypeCorrect == ListSpec => []ListTypeOK
BY Invariance, PTL DEF IInv

(* null_terminated() describes the list it was called on unless the list's *)
(* storage was left otherwise than by growing, or the list shrank after it *)
(* had left it: what the length check of lvtk.hpp:196 does suffice for.    *)
THEOREM UndisturbedIsCurrent == ListSpec => []CurrentUnlessDisturbed
<1>1. IInv => CurrentUnlessDisturbed
  <2> SUFFICES ASSUME IInv, NEW l \in valid, since[l] # "other" PROVE raw[l] = Addresses(l)
    BY DEF CurrentUnlessDisturbed
  <2>1. /\ l \in Lists /\ ListOK(l) /\ since[l] \in {"kept", "outgrown", "other"}
        /\ size[l] \in Nat /\ capacity[l] \in Nat /\ raw[l] \in Seq(AddressSet)
    BY FeatureListAssumption DEF IInv, ListTypeOK, Fates
  <2>2. Len(raw[l]) = size[l] + 1
    BY <2>1 DEF ListOK
  <2>3. since[l] = "kept" /\ raw[l] # <<>>
    BY <2>1, <2>2 DEF ListOK, CacheFits
  <2>4. PICK n \in 0 .. capacity[l] : raw[l] = PointersTo(buffer[l], n)
    BY <2>1, <2>3 DEF ListOK, CacheFits
  <2>5. DOMAIN raw[l] = 1 .. n + 1
    BY <2>4 DEF PointersTo
  <2>6. Len(raw[l]) = n + 1
    <3>1. n + 1 \in Nat  BY <2>1
    <3> QED  BY <2>1, <2>5, <3>1, LenProperties
  <2>7. n = size[l]  BY <2>1, <2>2, <2>6
  <2> QED  BY <2>4, <2>7 DEF Addresses
<1> QED  BY <1>1, Invariance, PTL

(* Whatever was added, removed, moved, assigned or swapped, a reader of    *)
(* the array stops where the list does: lvtk.hpp:194-204.                  *)
THEOREM ArraysEndInTime == ListSpec => []ArrayEndsInTime
<1>1. IInv => ArrayEndsInTime
  <2> SUFFICES ASSUME IInv, NEW l \in valid
               PROVE  /\ Len(raw[l]) = size[l] + 1
                      /\ \A i \in DOMAIN raw[l] : raw[l][i] = Nullptr <=> i = size[l] + 1
    BY DEF ArrayEndsInTime
  <2>1. l \in Lists /\ ListOK(l) /\ size[l] \in Nat
    BY FeatureListAssumption DEF IInv, ListTypeOK
  <2>2. Len(raw[l]) = size[l] + 1 /\ raw[l] # <<>>
    BY <2>1 DEF ListOK
  <2> QED  BY <2>1, <2>2 DEF ListOK, OneEnd
<1> QED  BY <1>1, Invariance, PTL
=============================================================================
