--------------------------- MODULE SymbolsProofs ---------------------------
(***************************************************************************)
(* Proofs about module Symbols, for any number of objects and keys.        *)
(***************************************************************************)
EXTENDS Symbols, FiniteSetTheorems, WellFoundedInduction, TLAPS

(* The empty table and the preloads are finite functions to Nat.           *)
LEMMA LoadedTables ==
  ASSUME NEW m \in Preloads \cup {NoTable}
  PROVE  /\ DOMAIN m \subseteq Keys
         /\ IsFiniteSet(DOMAIN m)
         /\ m \in [DOMAIN m -> Nat]
BY PreloadsAssumption, FS_EmptySet DEF NoTable

(* What the preloading constructor of s does with the table m.             *)
Loads(s, m, u) ==
  /\ mapped'   = [mapped   EXCEPT ![s] = m]
  /\ unmapped' = [unmapped EXCEPT ![s] = u]
  /\ loaded'   = [loaded   EXCEPT ![s] = DOMAIN m]

(* An id map() takes next is a positive integer.                           *)
LEMMA NextUridType ==
  ASSUME TypeOK, NEW s \in Syms
  PROVE  NextUrid(s) \in Nat \ {0}
BY FS_CardinalityType DEF TypeOK, NextUrid

(* The owner whose pointers an object publishes is an object.              *)
LEMMA FeatureType ==
  ASSUME TypeOK, NEW o \in Syms
  PROVE  MapFeature(o) \in Syms /\ UnmapFeature(o) \in Syms
BY DEF TypeOK, MapFeature, UnmapFeature

(* Type correctness of the Symbols objects, for every program that uses    *)
(* them: symbols.hpp, the members at the end of the class.                 *)
THEOREM TypeCorrect == Spec => []TypeOK
<1>1. Init => TypeOK
  BY FS_EmptySet, NullAssumption DEF Init, TypeOK, NoTable, NoCall
<1>2. TypeOK /\ [Next]_vars => TypeOK'
  <2> SUFFICES ASSUME TypeOK, [Next]_vars PROVE TypeOK'
    OBVIOUS
  <2>1. ASSUME NEW s \in Syms, Construct(s) PROVE TypeOK'
    <3>1. PICK m \in Preloads \cup {NoTable} : \E u \in Unmappings(m) : Loads(s, m, u)
      BY <2>1 DEF Construct, Loads
    <3>2. PICK u \in Unmappings(m) : Loads(s, m, u)
      BY <3>1
    <3>3. /\ DOMAIN u \subseteq Nat
          /\ u \in [DOMAIN u -> Keys]
      BY LoadedTables DEF Unmappings
    <3>4. scope' \in Seq(Syms)
      BY <2>1 DEF Construct, TypeOK
    <3>5. /\ mapref'   \in [Syms -> Syms \cup {Null}]
          /\ unmapref' \in [Syms -> Syms \cup {Null}]
      BY <2>1 DEF Construct, refer_to, TypeOK
    <3>6. call' = NoCall /\ mixed' \subseteq Syms
      BY <2>1 DEF Construct, Idle, TypeOK
    <3>7. loaded' \in [Syms -> SUBSET Keys]
      BY <3>2, LoadedTables DEF Loads, TypeOK
    <3> QED
      BY <3>2, <3>3, <3>4, <3>5, <3>6, <3>7, LoadedTables DEF Loads, TypeOK
  <2>2. ASSUME NEW s \in Syms, Clear(s) PROVE TypeOK'
    BY <2>2, FS_EmptySet DEF Clear, Idle, TypeOK, NoTable
  <2>3. ASSUME Destroy PROVE TypeOK'
    <3> DEFINE s == scope[Len(scope)]
    <3>1. s \in Syms /\ scope' \in Seq(Syms)
      BY <2>3 DEF Destroy, TypeOK
    <3>2. /\ mapped'   = [mapped   EXCEPT ![s] = NoTable]
          /\ unmapped' = [unmapped EXCEPT ![s] = NoTable]
          /\ mapref'   = [mapref EXCEPT ![s] = Null]
          /\ unmapref' = [unmapref EXCEPT ![s] = Null]
          /\ loaded' = [loaded EXCEPT ![s] = {}]
          /\ mixed' = mixed \ {s}
          /\ call' = NoCall
      BY <2>3 DEF Destroy, refer_to, Idle
    <3> QED
      BY <3>1, <3>2, FS_EmptySet DEF TypeOK, NoTable
  <2>4. ASSUME NEW s \in Syms, NEW o \in Syms, ReferTo(s, o) PROVE TypeOK'
    BY <2>4, FeatureType DEF ReferTo, refer_to, Idle, TypeOK
  <2>5. ASSUME NEW s \in Syms, NEW m \in Syms \cup {Null}, NEW um \in Syms \cup {Null},
               ReferToRaw(s, m, um)
        PROVE TypeOK'
    BY <2>5 DEF ReferToRaw, refer_to, Idle, TypeOK
  <2>6. ASSUME NEW s \in Syms, NEW k \in Keys, Call(s, "map", k) PROVE TypeOK'
    BY <2>6 DEF Call, tables, TypeOK
  <2>7. ASSUME NEW s \in Syms, NEW i \in Urids \cup {0}, Call(s, "unmap", i) PROVE TypeOK'
    BY <2>7 DEF Call, tables, TypeOK, Urids
  <2>8. ASSUME Forward PROVE TypeOK'
    <3>1. call.at \in Syms /\ call.op \in {"map", "unmap"}
      BY <2>8 DEF Forward, TypeOK
    <3>2. mapref[call.at] \in Syms /\ unmapref[call.at] \in Syms
      BY <3>1, <2>8 DEF Forward, owner, TypeOK
    <3> QED
      BY <2>8, <3>1, <3>2 DEF Forward, tables, TypeOK
  <2>9. ASSUME MapNew PROVE TypeOK'
    <3> DEFINE s == call.at
               k == call.arg
               urid == NextUrid(s)
    <3>1. s \in Syms /\ k \in Keys
      BY <2>9 DEF MapNew, TypeOK, NoCall
    <3>2. urid \in Nat
      BY <3>1, NextUridType
    <3> HIDE DEF urid
    <3>3. /\ mapped'   = [mapped   EXCEPT ![s] = Extend(mapped[s], k, urid)]
          /\ unmapped' = [unmapped EXCEPT ![s] = Extend(unmapped[s], urid, k)]
          /\ call' = NoCall
          /\ UNCHANGED <<scope, mapref, unmapref, loaded, mixed>>
      BY <2>9, <3>1 DEF MapNew, Return, TypeOK, urid
    <3>4. /\ DOMAIN Extend(mapped[s], k, urid) \subseteq Keys
          /\ IsFiniteSet(DOMAIN Extend(mapped[s], k, urid))
          /\ Extend(mapped[s], k, urid) \in [DOMAIN Extend(mapped[s], k, urid) -> Nat]
      <4>1. /\ DOMAIN mapped[s] \subseteq Keys /\ IsFiniteSet(DOMAIN mapped[s])
            /\ mapped[s] \in [DOMAIN mapped[s] -> Nat]
        BY <3>1 DEF TypeOK
      <4>2. /\ Extend(mapped[s], k, urid) \in [DOMAIN mapped[s] \cup {k} -> Nat]
            /\ DOMAIN Extend(mapped[s], k, urid) = DOMAIN mapped[s] \cup {k}
        BY <3>2, <4>1 DEF Extend
      <4> QED
        BY <3>1, <4>1, <4>2, FS_AddElement
    <3>5. /\ DOMAIN Extend(unmapped[s], urid, k) \subseteq Nat
          /\ Extend(unmapped[s], urid, k) \in [DOMAIN Extend(unmapped[s], urid, k) -> Keys]
      <4>1. DOMAIN unmapped[s] \subseteq Nat /\ unmapped[s] \in [DOMAIN unmapped[s] -> Keys]
        BY <3>1 DEF TypeOK
      <4>2. /\ Extend(unmapped[s], urid, k) \in [DOMAIN unmapped[s] \cup {urid} -> Keys]
            /\ DOMAIN Extend(unmapped[s], urid, k) = DOMAIN unmapped[s] \cup {urid}
        BY <3>1, <4>1 DEF Extend
      <4> QED
        BY <3>2, <4>1, <4>2
    <3> QED
      BY <3>1, <3>3, <3>4, <3>5 DEF TypeOK
  <2>10. ASSUME MapKnown PROVE TypeOK'
    BY <2>10 DEF MapKnown, Return, tables, TypeOK
  <2>11. ASSUME Unmap PROVE TypeOK'
    BY <2>11 DEF Unmap, Return, tables, TypeOK
  <2>12. CASE UNCHANGED vars
    BY <2>12 DEF vars, TypeOK
  <2> QED
    BY <2>1, <2>2, <2>3, <2>4, <2>5, <2>6, <2>7, <2>8, <2>9, <2>10, <2>11, <2>12 DEF Next
<1> QED
  BY <1>1, <1>2, PTL DEF Spec
-----------------------------------------------------------------------------
(* TablesInverse of one object: its two tables and the keys it took over.  *)
InverseTables(m, u, L) ==
  LET counted == Cardinality(L) + 1 .. Cardinality(DOMAIN m) IN
  /\ L \subseteq DOMAIN m
  /\ \A i \in DOMAIN u : u[i] \in DOMAIN m /\ m[u[i]] = i
  /\ \A k \in DOMAIN m :
       /\ k \notin L => m[k] \in counted
       /\ m[k] \in DOMAIN u
       /\ \/ u[m[k]] = k
          \/ k \in L /\ (m[k] \in counted \/ \E j \in L \ {k} : m[j] = m[k])

LEMMA TablesInverseEach ==
  TablesInverse <=> \A s \in Syms : InverseTables(mapped[s], unmapped[s], loaded[s])
BY DEF TablesInverse, InverseTables, Counted, Lost

(* The empty tables are inverse.                                           *)
LEMMA EmptyInverse == InverseTables(NoTable, NoTable, {})
BY DEF InverseTables, NoTable

(* The preloading constructor builds an inverse of any table, up to the    *)
(* keys that share an id.                                                  *)
LEMMA LoadInverse ==
  ASSUME NEW m, NEW u \in Unmappings(m)
  PROVE  InverseTables(m, u, DOMAIN m)
<1>1. /\ \A k \in DOMAIN m : m[k] \in DOMAIN u
      /\ \A i \in DOMAIN u : u[i] \in DOMAIN m /\ m[u[i]] = i
  BY DEF Unmappings
<1> QED
  BY <1>1 DEF InverseTables

(* Numbering a new key with one more than the number of keys keeps the     *)
(* tables inverse: the id is fresh among those map() gave, and the loaded  *)
(* keys that had it lose it to the new one.                                *)
LEMMA ExtendInverse ==
  ASSUME NEW m, NEW u, NEW L, NEW k, k \notin DOMAIN m,
         IsFiniteSet(DOMAIN m), InverseTables(m, u, L)
  PROVE  LET i == 1 + Cardinality(DOMAIN m)
         IN  InverseTables(Extend(m, k, i), Extend(u, i, k), L)
<1> DEFINE l == Cardinality(L)
           n == Cardinality(DOMAIN m)
           i == 1 + n
           mm == Extend(m, k, i)
           uu == Extend(u, i, k)
<1>1. n \in Nat /\ Cardinality(DOMAIN m \cup {k}) = n + 1
  BY FS_AddElement, FS_CardinalityType
<1>2. l \in Nat /\ l <= n /\ L \subseteq DOMAIN m /\ k \notin L
  BY FS_Subset, FS_CardinalityType DEF InverseTables
<1>3. /\ DOMAIN mm = DOMAIN m \cup {k}
      /\ mm[k] = i
      /\ \A j \in DOMAIN m : mm[j] = m[j]
  BY DEF Extend
<1>4. /\ DOMAIN uu = DOMAIN u \cup {i}
      /\ uu[i] = k
      /\ \A j \in DOMAIN u \ {i} : uu[j] = u[j]
  BY DEF Extend
<1>5. /\ \A j \in DOMAIN u : u[j] \in DOMAIN m /\ m[u[j]] = j
      /\ \A j \in DOMAIN m :
           /\ j \notin L => m[j] \in l + 1 .. n
           /\ m[j] \in DOMAIN u
           /\ \/ u[m[j]] = j
              \/ j \in L /\ (m[j] \in l + 1 .. n \/ \E h \in L \ {j} : m[h] = m[j])
  BY DEF InverseTables
<1>6. Cardinality(DOMAIN mm) = n + 1
  BY <1>1, <1>3
<1> HIDE DEF mm, uu, l, n
<1>7. /\ i \in l + 1 .. n + 1 /\ i \notin l + 1 .. n
      /\ \A x \in l + 1 .. n : x \in l + 1 .. n + 1
  BY <1>1, <1>2
<1> HIDE DEF i
<1>8. \A j \in DOMAIN uu : uu[j] \in DOMAIN mm /\ mm[uu[j]] = j
  BY <1>3, <1>4, <1>5
<1>9. ASSUME NEW j \in DOMAIN mm
      PROVE  /\ j \notin L => mm[j] \in l + 1 .. n + 1
             /\ mm[j] \in DOMAIN uu
             /\ \/ uu[mm[j]] = j
                \/ j \in L /\ (mm[j] \in l + 1 .. n + 1 \/ \E h \in L \ {j} : mm[h] = mm[j])
  <2>1. CASE j = k
    BY <1>3, <1>4, <1>7, <2>1
  <2>2. CASE j # k
    <3>1. j \in DOMAIN m /\ mm[j] = m[j]
      BY <1>3, <1>9, <2>2
    <3>2. j \notin L => m[j] \in l + 1 .. n
      BY <1>5, <3>1
    <3>3. CASE m[j] = i
      BY <1>4, <1>7, <3>1, <3>2, <3>3
    <3>4. CASE m[j] # i
      <4>1. m[j] \in DOMAIN u /\ uu[m[j]] = u[m[j]]
        BY <1>4, <1>5, <3>1, <3>4
      <4>2. \A h \in L : mm[h] = m[h]
        BY <1>2, <1>3
      <4>3. \/ u[m[j]] = j
            \/ j \in L /\ (m[j] \in l + 1 .. n \/ \E h \in L \ {j} : m[h] = m[j])
        BY <1>5, <3>1
      <4>4. mm[j] \in DOMAIN uu
        BY <1>4, <3>1, <4>1
      <4>5. j \notin L => mm[j] \in l + 1 .. n + 1
        BY <1>7, <3>1, <3>2
      <4>6. CASE u[m[j]] = j
        BY <3>1, <4>1, <4>4, <4>5, <4>6
      <4>7. CASE j \in L /\ m[j] \in l + 1 .. n
        BY <1>7, <3>1, <4>4, <4>7
      <4>8. CASE j \in L /\ \E h \in L \ {j} : m[h] = m[j]
        BY <3>1, <4>2, <4>4, <4>8
      <4> QED  BY <4>3, <4>6, <4>7, <4>8
    <3> QED  BY <3>3, <3>4
  <2> QED  BY <2>1, <2>2
<1>10. L \subseteq DOMAIN mm
  BY <1>2, <1>3
<1>11. InverseTables(mm, uu, L)
  BY <1>6, <1>8, <1>9, <1>10 DEF InverseTables, l
<1> QED
  BY <1>11 DEF mm, uu, i, n

(* map() never gives two keys one id and unmap() answers with the key, but *)
(* for preloaded keys whose id was never their own, whatever table is      *)
(* preloaded and whatever is cleared meanwhile: symbols.hpp:36-63, :94-102.*)
THEOREM TablesStayInverse == Spec => []TablesInverse
<1> DEFINE One(s) == InverseTables(mapped[s], unmapped[s], loaded[s])
<1>1. Init => TablesInverse
  BY EmptyInverse, TablesInverseEach DEF Init
<1>2. TypeOK /\ TablesInverse /\ [Next]_vars => TablesInverse'
  <2> SUFFICES ASSUME TypeOK, \A s \in Syms : One(s), [Next]_vars, NEW q \in Syms
               PROVE  InverseTables(mapped'[q], unmapped'[q], loaded'[q])
    <3>1. TablesInverse <=> \A s \in Syms : One(s)
      BY TablesInverseEach
    <3>2. TablesInverse' <=> \A s \in Syms : InverseTables(mapped'[s], unmapped'[s], loaded'[s])
      BY DEF TablesInverse, InverseTables, Counted, Lost
    <3> QED  BY <3>1, <3>2
  <2>0. InverseTables(mapped[q], unmapped[q], loaded[q])
    OBVIOUS
  <2>1. ASSUME NEW s \in Syms, Construct(s)
        PROVE  InverseTables(mapped'[q], unmapped'[q], loaded'[q])
    <3>1. PICK m \in Preloads \cup {NoTable} : \E u \in Unmappings(m) : Loads(s, m, u)
      BY <2>1 DEF Construct, Loads
    <3>2. PICK u \in Unmappings(m) : Loads(s, m, u)
      BY <3>1
    <3>3. InverseTables(m, u, DOMAIN m)
      BY LoadInverse
    <3> QED
      BY <2>0, <3>2, <3>3 DEF Loads, TypeOK
  <2>2. ASSUME NEW s, /\ mapped'   = [mapped   EXCEPT ![s] = NoTable]
                     /\ unmapped' = [unmapped EXCEPT ![s] = NoTable]
                     /\ loaded'   = [loaded   EXCEPT ![s] = {}]
        PROVE  InverseTables(mapped'[q], unmapped'[q], loaded'[q])
    BY <2>0, <2>2, EmptyInverse DEF TypeOK
  <2>3. ASSUME MapNew PROVE InverseTables(mapped'[q], unmapped'[q], loaded'[q])
    <3> DEFINE s == call.at
               k == call.arg
    <3>1. s \in Syms /\ k \notin DOMAIN mapped[s]
      BY <2>3 DEF MapNew, TypeOK, NoCall
    <3>2. IsFiniteSet(DOMAIN mapped[s]) /\ InverseTables(mapped[s], unmapped[s], loaded[s])
      BY <3>1 DEF TypeOK
    <3>3. InverseTables(Extend(mapped[s], k, NextUrid(s)), Extend(unmapped[s], NextUrid(s), k),
                        loaded[s])
      BY <3>1, <3>2, ExtendInverse DEF NextUrid
    <3>4. /\ mapped'   = [mapped   EXCEPT ![s] = Extend(mapped[s], k, NextUrid(s))]
          /\ unmapped' = [unmapped EXCEPT ![s] = Extend(unmapped[s], NextUrid(s), k)]
          /\ loaded'   = loaded
      BY <2>3, <3>1 DEF MapNew, TypeOK
    <3> QED
      BY <2>0, <3>1, <3>3, <3>4 DEF TypeOK
  <2>4. ASSUME UNCHANGED <<mapped, unmapped, loaded>>
        PROVE  InverseTables(mapped'[q], unmapped'[q], loaded'[q])
    BY <2>0, <2>4
  <2> QED
    BY <2>1, <2>2, <2>3, <2>4
       DEF Next, vars, tables, Clear, Destroy, ReferTo, ReferToRaw, Call, Forward, MapKnown, Unmap
<1> QED
  BY <1>1, <1>2, TypeCorrect, PTL DEF Spec
-----------------------------------------------------------------------------
(* No object is in scope twice. *)
ScopeDistinct == \A i, j \in DOMAIN scope : scope[i] = scope[j] => i = j

(* What the referrals need: the scope order is a total order of the live   *)
(* objects.                                                                *)
ReferralInv == ScopeDistinct /\ NoDanglingReferral

(* Being older is transitive when the scope has no duplicates.             *)
LEMMA OlderTransitive ==
  ASSUME TypeOK, ScopeDistinct, NEW a, NEW b, NEW c, Older(a, b), Older(b, c)
  PROVE  Older(a, c)
<1>1. PICK i, j \in DOMAIN scope : i < j /\ scope[i] = a /\ scope[j] = b
  BY DEF Older
<1>2. PICK k, l \in DOMAIN scope : k < l /\ scope[k] = b /\ scope[l] = c
  BY DEF Older
<1>3. j = k
  BY <1>1, <1>2 DEF ScopeDistinct
<1>4. i \in Nat /\ j \in Nat /\ l \in Nat
  BY <1>1, <1>2 DEF TypeOK
<1> QED
  BY <1>1, <1>2, <1>3, <1>4 DEF Older

(* The objects whose pointers o publishes are o or older than o.           *)
LEMMA FeatureOlder ==
  ASSUME TypeOK, ReferralInv, NEW o \in Syms, Alive(o), ~ owner(o)
  PROVE  Older(MapFeature(o), o) /\ Older(UnmapFeature(o), o)
BY DEF ReferralInv, NoDanglingReferral, owner, MapFeature, UnmapFeature

(* An object refers to a map and an unmap or to neither, and to those of   *)
(* one object unless a caller gave it, or one it copied them from, a mixed *)
(* pair.                                                                   *)
Paired ==
  \A s \in Syms : /\ mapref[s] = Null <=> unmapref[s] = Null
                  /\ s \notin mixed => mapref[s] = unmapref[s]

(* refer_to() sets both references or neither: symbols.hpp:110-130.        *)
LEMMA ReferralsPaired ==
  ASSUME TypeOK, Paired, [Next]_vars PROVE Paired'
<1>1. ASSUME NEW s \in Syms, NEW m \in Syms \cup {Null}, NEW um \in Syms \cup {Null},
             refer_to(s, m, um), mixed \ {s} \subseteq mixed',
             m = um \/ m = Null \/ um = Null \/ s \in mixed'
      PROVE  Paired'
  BY <1>1, NullAssumption DEF refer_to, Paired, TypeOK
<1>2. ASSUME UNCHANGED <<mapref, unmapref, mixed>> PROVE Paired'
  BY <1>2 DEF Paired
<1>3. ASSUME NEW s \in Syms, Construct(s) PROVE Paired'
  BY <1>1, <1>3 DEF Construct
<1>4. ASSUME Destroy PROVE Paired'
  <2>1. scope[Len(scope)] \in Syms
    BY <1>4 DEF Destroy, TypeOK
  <2> QED
    BY <1>1, <1>4, <2>1 DEF Destroy
<1>5. ASSUME NEW s \in Syms, NEW o \in Syms, ReferTo(s, o) PROVE Paired'
  <2>1. MapFeature(o) = UnmapFeature(o) \/ o \in mixed
    BY DEF Paired, MapFeature, UnmapFeature
  <2>2. mixed \ {s} \subseteq mixed' /\ (o \in mixed => s \in mixed')
    BY <1>5 DEF ReferTo
  <2>3. refer_to(s, MapFeature(o), UnmapFeature(o))
    BY <1>5 DEF ReferTo
  <2> QED
    BY <1>1, <2>1, <2>2, <2>3, FeatureType
<1>6. ASSUME NEW s \in Syms, NEW m \in Syms \cup {Null}, NEW um \in Syms \cup {Null},
             ReferToRaw(s, m, um)
      PROVE  Paired'
  <2>1. mixed \ {s} \subseteq mixed' /\ (m = um \/ m = Null \/ um = Null \/ s \in mixed')
    BY <1>6 DEF ReferToRaw
  <2> QED
    BY <1>1, <1>6, <2>1 DEF ReferToRaw
<1> QED
  BY <1>2, <1>3, <1>4, <1>5, <1>6
     DEF Next, vars, tables, Clear, Call, Forward, MapNew, MapKnown, Unmap

LEMMA ReferralInvariance == Spec => [](ReferralInv /\ Paired)
<1> DEFINE IInv == ReferralInv /\ Paired
<1>1. Init => IInv
  BY DEF Init, ReferralInv, ScopeDistinct, NoDanglingReferral, Paired, Alive
<1>2. TypeOK /\ IInv /\ [Next]_vars => IInv'
  <2> SUFFICES ASSUME TypeOK, IInv, [Next]_vars PROVE ReferralInv'
    BY ReferralsPaired
  <2>1. ASSUME NEW s \in Syms, Construct(s) PROVE ReferralInv'
    <3>1. /\ scope' = Append(scope, s) /\ ~ Alive(s)
          /\ mapref' = [mapref EXCEPT ![s] = Null]
          /\ unmapref' = [unmapref EXCEPT ![s] = Null]
      BY <2>1 DEF Construct, refer_to
    <3>2. ScopeDistinct'
      BY <3>1 DEF ScopeDistinct, ReferralInv, Alive, TypeOK
    <3>3. ASSUME NEW q \in Syms, Alive(q)', (~ owner(q))'
          PROVE  Older(mapref[q], q)' /\ Older(unmapref[q], q)'
      <4>1. q # s /\ Alive(q) /\ ~ owner(q) /\ mapref'[q] = mapref[q] /\ unmapref'[q] = unmapref[q]
        BY <3>1, <3>3 DEF owner, Alive, TypeOK
      <4>2. Older(mapref[q], q) /\ Older(unmapref[q], q)
        BY <4>1 DEF ReferralInv, NoDanglingReferral
      <4>3. ASSUME NEW o \in Syms, Older(o, q) PROVE Older(o, q)'
        <5>1. PICK i, j \in DOMAIN scope : i < j /\ scope[i] = o /\ scope[j] = q
          BY <4>3 DEF Older
        <5>2. /\ i \in DOMAIN scope' /\ scope'[i] = scope[i]
              /\ j \in DOMAIN scope' /\ scope'[j] = scope[j]
          BY <3>1, <5>1 DEF TypeOK
        <5> QED
          BY <5>1, <5>2 DEF Older
      <4> QED
        BY <4>1, <4>2, <4>3 DEF owner, TypeOK
    <3> QED
      BY <3>2, <3>3 DEF ReferralInv, NoDanglingReferral
  <2>2. ASSUME Destroy PROVE ReferralInv'
    <3> DEFINE n == Len(scope)
               s == scope[n]
    <3>1. /\ n \in Nat \ {0} /\ DOMAIN scope = 1 .. n /\ s \in Syms
          /\ scope' = SubSeq(scope, 1, n - 1)
          /\ mapref' = [mapref EXCEPT ![s] = Null]
          /\ unmapref' = [unmapref EXCEPT ![s] = Null]
      BY <2>2 DEF Destroy, refer_to, TypeOK
    <3>2. DOMAIN scope' = 1 .. n - 1 /\ \A i \in 1 .. n - 1 : scope'[i] = scope[i]
      BY <3>1 DEF TypeOK
    <3>3. ScopeDistinct'
      BY <3>1, <3>2 DEF ScopeDistinct, ReferralInv
    <3>4. ASSUME NEW q \in Syms, Alive(q)', (~ owner(q))'
          PROVE  Older(mapref[q], q)' /\ Older(unmapref[q], q)'
      <4>1. q # s /\ Alive(q) /\ ~ owner(q) /\ mapref'[q] = mapref[q] /\ unmapref'[q] = unmapref[q]
        BY <3>1, <3>2, <3>4 DEF owner, Alive, TypeOK
      <4>2. Older(mapref[q], q) /\ Older(unmapref[q], q)
        BY <4>1 DEF ReferralInv, NoDanglingReferral
      <4>3. ASSUME NEW o \in Syms, Older(o, q) PROVE Older(o, q)'
        <5>1. PICK i, j \in 1 .. n : i < j /\ scope[i] = o /\ scope[j] = q
          BY <4>3, <3>1 DEF Older
        <5>2. j # n
          BY <4>1, <5>1
        <5>3. i \in 1 .. n - 1 /\ j \in 1 .. n - 1
          <6> HIDE DEF n
          <6> QED
            BY <3>1, <5>1, <5>2
        <5> QED
          BY <3>2, <5>1, <5>3 DEF Older
      <4> QED
        BY <4>1, <4>2, <4>3 DEF owner, TypeOK
    <3> QED
      BY <3>3, <3>4 DEF ReferralInv, NoDanglingReferral
  <2>3. ASSUME NEW s \in Syms, NEW o \in Syms, ReferTo(s, o) PROVE ReferralInv'
    <3>1. /\ Older(o, s) /\ scope' = scope
          /\ mapref' = [mapref EXCEPT ![s] = MapFeature(o)]
          /\ unmapref' = [unmapref EXCEPT ![s] = UnmapFeature(o)]
      BY <2>3, FeatureType, NullAssumption DEF ReferTo, refer_to
    <3>2. Alive(o)
      BY <3>1 DEF Older, Alive
    <3>3. Older(MapFeature(o), s) /\ Older(UnmapFeature(o), s)
      <4>1. CASE owner(o)
        BY <3>1, <4>1 DEF owner, Paired, MapFeature, UnmapFeature
      <4>2. CASE ~ owner(o)
        BY <3>1, <3>2, <4>2, FeatureOlder, OlderTransitive DEF ReferralInv
      <4> QED
        BY <4>1, <4>2
    <3>4. ASSUME NEW q \in Syms, Alive(q)', (~ owner(q))'
          PROVE  Older(mapref'[q], q) /\ Older(unmapref'[q], q)
      BY <3>1, <3>3, <3>4 DEF ReferralInv, NoDanglingReferral, owner, Alive, TypeOK
    <3> QED
      BY <3>1, <3>4 DEF ReferralInv, ScopeDistinct, NoDanglingReferral, Older
  <2>4. ASSUME NEW s \in Syms, NEW m \in Syms \cup {Null}, NEW um \in Syms \cup {Null},
               ReferToRaw(s, m, um)
        PROVE ReferralInv'
    <3>1. /\ scope' = scope
          /\ mapref'   \in {[mapref   EXCEPT ![s] = m],  [mapref   EXCEPT ![s] = Null]}
          /\ unmapref' \in {[unmapref EXCEPT ![s] = um], [unmapref EXCEPT ![s] = Null]}
          /\ m # Null => Older(m, s)
          /\ um # Null => Older(um, s)
      BY <2>4 DEF ReferToRaw, refer_to
    <3>2. ASSUME NEW q \in Syms, Alive(q)', (~ owner(q))'
          PROVE  Older(mapref'[q], q) /\ Older(unmapref'[q], q)
      <4>1. CASE q = s
        BY <3>1, <3>2, <4>1 DEF owner, TypeOK
      <4>2. CASE q # s
        BY <3>1, <3>2, <4>2 DEF ReferralInv, NoDanglingReferral, owner, Alive, TypeOK
      <4> QED  BY <4>1, <4>2
    <3> QED
      BY <3>1, <3>2 DEF ReferralInv, ScopeDistinct, NoDanglingReferral, Older
  <2>5. ASSUME UNCHANGED <<scope, mapref, unmapref>> PROVE ReferralInv'
    BY <2>5 DEF ReferralInv, ScopeDistinct, NoDanglingReferral, owner, Alive, Older
  <2> QED
    BY <2>1, <2>2, <2>3, <2>4, <2>5
       DEF Next, vars, tables, Clear, Call, Forward, MapNew, MapKnown, Unmap
<1> QED
  BY <1>1, <1>2, TypeCorrect, PTL DEF Spec

(* No live object forwards to a dead or younger one, however referrals are *)
(* made, re-pointed and dropped: symbols.hpp:110-130 and :43-46.           *)
THEOREM ReferralsSound == Spec => []NoDanglingReferral
BY ReferralInvariance, PTL DEF ReferralInv
-----------------------------------------------------------------------------
(* A call in progress is inside a live object.                             *)
CallAlive == call # NoCall => Alive(call.at)

(* A call follows references only to live objects: symbols.hpp:51-53, :71. *)
LEMMA CallsStayAlive == Spec => []CallAlive
<1>1. Init => CallAlive
  BY DEF Init, CallAlive
<1>2. TypeOK /\ NoDanglingReferral /\ CallAlive /\ [Next]_vars => CallAlive'
  <2> SUFFICES ASSUME TypeOK, NoDanglingReferral, CallAlive, [Next]_vars PROVE CallAlive'
    OBVIOUS
  <2>1. ASSUME Forward PROVE CallAlive'
    <3>1. call \in [op : {"map"}, from : Syms, at : Syms, arg : Keys]
          \/ call \in [op : {"unmap"}, from : Syms, at : Syms, arg : Nat]
      BY <2>1 DEF Forward, TypeOK
    <3>2. call.at \in Syms /\ Alive(call.at) /\ ~ owner(call.at)
      BY <2>1, <3>1 DEF Forward, CallAlive
    <3>3. Alive(mapref[call.at]) /\ Alive(unmapref[call.at])
      BY <3>2 DEF NoDanglingReferral, Older, Alive
    <3>4. /\ call'.at \in {mapref[call.at], unmapref[call.at]}
          /\ scope' = scope
      BY <2>1, <3>1 DEF Forward, tables
    <3> QED
      BY <3>3, <3>4 DEF CallAlive, Alive
  <2>2. ASSUME NEW s \in Syms, NEW op, NEW arg, Call(s, op, arg) PROVE CallAlive'
    BY <2>2 DEF Call, tables, CallAlive, Alive
  <2>3. ASSUME call' = NoCall PROVE CallAlive'
    BY <2>3 DEF CallAlive
  <2>4. ASSUME UNCHANGED vars PROVE CallAlive'
    BY <2>4 DEF vars, CallAlive, Alive
  <2> QED
    BY <2>1, <2>2, <2>3, <2>4
       DEF Next, Idle, Construct, Clear, Destroy, ReferTo, ReferToRaw,
           MapNew, MapKnown, Unmap, Return
<1> QED
  BY <1>1, <1>2, TypeCorrect, ReferralsSound, PTL DEF Spec

(* For any objects and referrals: the hops of a call lead to ever older    *)
(* live objects, of which there are finitely many.  symbols.hpp:51, :71.   *)
THEOREM CallsTravelToOlder == Spec => CallsGoToOlder
<1>1. TypeOK /\ NoDanglingReferral /\ CallAlive /\ Forward => Older(call'.at, call.at)
  <2> SUFFICES ASSUME TypeOK, NoDanglingReferral, CallAlive, Forward PROVE Older(call'.at, call.at)
    OBVIOUS
  <2>1. \/ call \in [op : {"map"}, from : Syms, at : Syms, arg : Keys]
        \/ call \in [op : {"unmap"}, from : Syms, at : Syms, arg : Nat]
    BY DEF Forward, TypeOK
  <2>2. call.at \in Syms /\ Alive(call.at) /\ ~ owner(call.at)
    BY <2>1 DEF Forward, CallAlive
  <2>3. Older(mapref[call.at], call.at) /\ Older(unmapref[call.at], call.at)
    BY <2>2 DEF NoDanglingReferral
  <2>4. call'.at \in {mapref[call.at], unmapref[call.at]}
    BY <2>1 DEF Forward
  <2> QED  BY <2>3, <2>4
<1>2. TypeOK /\ NoDanglingReferral /\ CallAlive
      => [Forward => Older(call'.at, call.at)]_vars
  BY <1>1
<1> QED
  BY <1>2, TypeCorrect, ReferralsSound, CallsStayAlive, PTL DEF CallsGoToOlder

(* An object that is not alive holds no bindings: a new one starts empty.  *)
DeadEmpty == \A s \in Syms : ~ Alive(s) => mapped[s] = NoTable

(* The destructor empties the table: symbols.hpp:43-46.                    *)
LEMMA DeadStayEmpty == Spec => []DeadEmpty
<1>1. Init => DeadEmpty
  BY DEF Init, DeadEmpty
<1>2. TypeOK /\ CallAlive /\ DeadEmpty /\ [Next]_vars => DeadEmpty'
  <2> SUFFICES ASSUME TypeOK, CallAlive, DeadEmpty, [Next]_vars PROVE DeadEmpty'
    OBVIOUS
  <2>1. ASSUME NEW s \in Syms, Construct(s) PROVE DeadEmpty'
    <3>1. scope' = Append(scope, s) /\ \A q \in Syms \ {s} : mapped'[q] = mapped[q]
      BY <2>1 DEF Construct, TypeOK
    <3>2. ASSUME NEW q \in Syms, ~ Alive(q)' PROVE q # s /\ ~ Alive(q)
      <4>1. /\ \A i \in DOMAIN scope : i \in DOMAIN scope' /\ scope'[i] = scope[i]
            /\ Len(scope) + 1 \in DOMAIN scope' /\ scope'[Len(scope) + 1] = s
        BY <3>1 DEF TypeOK
      <4> QED
        BY <3>2, <4>1 DEF Alive
    <3> QED
      BY <3>1, <3>2 DEF DeadEmpty
  <2>2. ASSUME Destroy PROVE DeadEmpty'
    <3> DEFINE n == Len(scope)
    <3>1. /\ n \in Nat \ {0} /\ DOMAIN scope = 1 .. n /\ scope[n] \in Syms
          /\ DOMAIN scope' = 1 .. n - 1
          /\ \A i \in 1 .. n - 1 : scope'[i] = scope[i]
          /\ mapped' = [mapped EXCEPT ![scope[n]] = NoTable]
      BY <2>2 DEF Destroy, TypeOK
    <3>2. ASSUME NEW q \in Syms, q # scope[n], Alive(q) PROVE Alive(q)'
      <4>1. PICK i \in 1 .. n : scope[i] = q
        BY <3>1, <3>2 DEF Alive
      <4>2. i \in 1 .. n - 1
        <5> HIDE DEF n
        <5> QED
          BY <3>1, <3>2, <4>1
      <4> QED
        BY <3>1, <4>1, <4>2 DEF Alive
    <3> QED
      BY <3>1, <3>2 DEF DeadEmpty, TypeOK
  <2>3. ASSUME NEW s \in Syms, Clear(s) PROVE DeadEmpty'
    BY <2>3 DEF Clear, DeadEmpty, Alive, TypeOK
  <2>4. ASSUME UNCHANGED <<scope, mapped>> PROVE DeadEmpty'
    BY <2>4 DEF DeadEmpty, Alive
  <2>5. ASSUME MapNew PROVE DeadEmpty'
    <3>1. /\ call.at \in Syms /\ scope' = scope
          /\ \A q \in Syms \ {call.at} : mapped'[q] = mapped[q]
      BY <2>5 DEF MapNew, TypeOK, NoCall
    <3>2. Alive(call.at)
      BY <2>5 DEF MapNew, NoCall, CallAlive
    <3> QED
      BY <3>1, <3>2 DEF DeadEmpty, Alive
  <2> QED
    BY <2>1, <2>2, <2>3, <2>4, <2>5
       DEF Next, vars, tables, ReferTo, ReferToRaw, Call, Forward, MapKnown, Unmap
<1> QED
  BY <1>1, <1>2, TypeCorrect, CallsStayAlive, PTL DEF Spec

(* The id a key gets next is that of no other key, but for a loaded one    *)
(* whose id is beyond the number of loaded keys.                           *)
LEMMA NextUridFresh ==
  ASSUME TypeOK, TablesInverse, NEW s \in Syms, NEW j \in DOMAIN mapped[s],
         mapped[s][j] = NextUrid(s)
  PROVE  j \in loaded[s] /\ NextUrid(s) > Cardinality(loaded[s])
<1> DEFINE l == Cardinality(loaded[s])
           n == Cardinality(DOMAIN mapped[s])
<1>1. IsFiniteSet(DOMAIN mapped[s]) /\ loaded[s] \subseteq DOMAIN mapped[s]
  BY DEF TypeOK, TablesInverse
<1>2. l \in Nat /\ n \in Nat /\ l <= n
  BY <1>1, FS_Subset, FS_CardinalityType
<1>3. NextUrid(s) = 1 + n /\ (j \notin loaded[s] => mapped[s][j] \in l + 1 .. n)
  BY DEF NextUrid, TablesInverse, Counted
<1> HIDE DEF l, n
<1>4. 1 + n \notin l + 1 .. n /\ 1 + n > l
  BY <1>2
<1>5. j \in loaded[s] /\ NextUrid(s) > l
  BY <1>3, <1>4
<1> QED
  BY <1>5 DEF l

(* The objects' _mapped tables implement the abstract registries: a client *)
(* sees bindings taken over as they are, new bindings to unused ids, or a  *)
(* table emptied as a whole, and nothing else, whatever is cleared,        *)
(* re-pointed or destroyed meanwhile: symbols.hpp:36-63, :97-130.          *)
THEOREM SymbolsImplementRegistry == Spec => ImplementsRegistry
<1>1. Init => Registry!Init
  BY DEF Init, Registry!Init, Registry!NoBindings, NoTable
<1>2. /\ TypeOK /\ TypeOK' /\ TablesInverse /\ DeadEmpty
      /\ [Next]_vars
      => [Registry!Next]_<<mapped, loaded>>
  <2> SUFFICES ASSUME TypeOK, TypeOK', TablesInverse, DeadEmpty, [Next]_vars
               PROVE  [Registry!Next]_<<mapped, loaded>>
    OBVIOUS
  <2>1. ASSUME NEW s \in Syms, Construct(s) PROVE Registry!Adopt(s)
    <3>1. mapped[s] = NoTable
      BY <2>1 DEF Construct, DeadEmpty
    <3>2. \A q \in Syms \ {s} : mapped'[q] = mapped[q] /\ loaded'[q] = loaded[q]
      BY <2>1 DEF Construct, TypeOK
    <3>3. /\ DOMAIN mapped' = Syms /\ DOMAIN mapped'[s] \subseteq Keys
          /\ DOMAIN loaded' = Syms
      BY DEF TypeOK
    <3>4. loaded'[s] = DOMAIN mapped'[s]
      BY <2>1 DEF Construct, TypeOK
    <3> QED
      BY <3>1, <3>2, <3>3, <3>4 DEF Registry!Adopt, Registry!Only, Registry!NoBindings, NoTable
  <2>2. ASSUME NEW s \in Syms, /\ mapped' = [mapped EXCEPT ![s] = NoTable]
                               /\ loaded' = [loaded EXCEPT ![s] = {}]
        PROVE  Registry!Forget(s)
    BY <2>2 DEF Registry!Forget, Registry!Only, Registry!NoBindings, NoTable, TypeOK
  <2>3. ASSUME MapNew PROVE \E s \in Syms, k \in Keys : Registry!Bind(s, k)
    <3> DEFINE s == call.at
               k == call.arg
    <3>1. s \in Syms /\ k \in Keys /\ k \notin DOMAIN mapped[s]
      BY <2>3 DEF MapNew, TypeOK, NoCall
    <3>2. /\ mapped'[s] = Extend(mapped[s], k, NextUrid(s))
          /\ \A q \in Syms \ {s} : mapped'[q] = mapped[q]
          /\ DOMAIN mapped' = Syms /\ DOMAIN loaded' = Syms
          /\ loaded' = loaded
      BY <2>3, <3>1 DEF MapNew, TypeOK
    <3>3. /\ DOMAIN mapped'[s] = DOMAIN mapped[s] \cup {k}
          /\ \A j \in DOMAIN mapped[s] : mapped'[s][j] = mapped[s][j]
          /\ mapped'[s][k] = NextUrid(s)
      BY <3>1, <3>2 DEF Extend
    <3>4. NextUrid(s) # 0
      BY <3>1, NextUridType
    <3>5. ASSUME NEW j \in DOMAIN mapped[s]
          PROVE  NextUrid(s) # mapped[s][j] \/ Registry!Beyond(s, j)
      <4>1. ASSUME NEW S PROVE Registry!Cardinality(S) = Cardinality(S)
        BY DEF Registry!Cardinality, Registry!IsFiniteSet, Cardinality, IsFiniteSet
      <4> QED
        BY <3>1, <4>1, NextUridFresh DEF Registry!Beyond
    <3>6. Registry!Bind(s, k)
      <4> HIDE DEF s, k
      <4> QED
        BY <3>1, <3>2, <3>3, <3>4, <3>5 DEF Registry!Bind, Registry!Only
    <3> QED
      BY <3>1, <3>6
  <2>4. ASSUME NEW s \in Syms, Clear(s) PROVE Registry!Forget(s)
    BY <2>2, <2>4 DEF Clear
  <2>5. ASSUME Destroy PROVE \E s \in Syms : Registry!Forget(s)
    <3>1. /\ scope[Len(scope)] \in Syms
          /\ mapped' = [mapped EXCEPT ![scope[Len(scope)]] = NoTable]
          /\ loaded' = [loaded EXCEPT ![scope[Len(scope)]] = {}]
      BY <2>5 DEF Destroy, TypeOK
    <3> QED
      BY <2>2, <3>1
  <2>6. ASSUME UNCHANGED <<mapped, loaded>> PROVE [Registry!Next]_<<mapped, loaded>>
    BY <2>6
  <2> QED
    BY <2>1, <2>3, <2>4, <2>5, <2>6
       DEF Next, vars, tables, ReferTo, ReferToRaw, Call, Forward, MapKnown, Unmap, Registry!Next
<1> QED
  BY <1>1, <1>2, TypeCorrect, TablesStayInverse, DeadStayEmpty, PTL
     DEF Spec, ImplementsRegistry, Registry!Spec
-----------------------------------------------------------------------------
(* An id a plugin was given keeps its meaning until the whole table is     *)
(* emptied: the new id of symbols.hpp:56 is never one in use, unless by a  *)
(* preloaded key beyond the number of the preloaded keys.                  *)
THEOREM IdsAreStable == Spec => IdsKeepMeaning
<1> DEFINE Stable == \A s \in Syms : \A i \in DOMAIN unmapped[s] :
                       mapped'[s] # NoTable =>
                         /\ i \in DOMAIN unmapped'[s]
                         /\ \/ unmapped'[s][i] = unmapped[s][i]
                            \/ unmapped[s][i] \in loaded[s] /\ i > Cardinality(loaded[s])
<1>1. TypeOK /\ TablesInverse /\ DeadEmpty /\ [Next]_vars => [Stable]_vars
  <2> SUFFICES ASSUME TypeOK, TablesInverse, DeadEmpty, [Next]_vars,
                      NEW q \in Syms, NEW i \in DOMAIN unmapped[q], mapped'[q] # NoTable
               PROVE  /\ i \in DOMAIN unmapped'[q]
                      /\ \/ unmapped'[q][i] = unmapped[q][i]
                         \/ unmapped[q][i] \in loaded[q] /\ i > Cardinality(loaded[q])
    OBVIOUS
  <2>0. mapped[q] # NoTable
    BY DEF TablesInverse, NoTable
  <2>1. CASE unmapped' = unmapped
    BY <2>1
  <2>2. ASSUME NEW s \in Syms, Construct(s) PROVE unmapped'[q] = unmapped[q]
    BY <2>0, <2>2 DEF Construct, DeadEmpty, TypeOK
  <2>3. ASSUME NEW s, /\ mapped'   = [mapped   EXCEPT ![s] = NoTable]
                     /\ unmapped' = [unmapped EXCEPT ![s] = NoTable]
        PROVE unmapped'[q] = unmapped[q]
    BY <2>3 DEF TypeOK
  <2>4. ASSUME MapNew
        PROVE  /\ i \in DOMAIN unmapped'[q]
               /\ \/ unmapped'[q][i] = unmapped[q][i]
                  \/ unmapped[q][i] \in loaded[q] /\ i > Cardinality(loaded[q])
    <3> DEFINE s == call.at
    <3>1. s \in Syms
      BY <2>4 DEF MapNew, TypeOK, NoCall
    <3>2. unmapped' = [unmapped EXCEPT ![s] = Extend(unmapped[s], NextUrid(s), call.arg)]
      BY <2>4, <3>1 DEF MapNew, TypeOK
    <3>3. CASE q # s
      BY <3>1, <3>2, <3>3 DEF TypeOK
    <3>4. CASE q = s
      <4>1. unmapped'[q] = Extend(unmapped[q], NextUrid(q), call.arg)
        BY <3>1, <3>2, <3>4 DEF TypeOK
      <4>2. CASE i # NextUrid(q)
        BY <4>1, <4>2 DEF Extend
      <4>3. CASE i = NextUrid(q)
        <5>1. unmapped[q][i] \in DOMAIN mapped[q] /\ mapped[q][unmapped[q][i]] = i
          BY DEF TablesInverse
        <5>2. unmapped[q][i] \in loaded[q] /\ i > Cardinality(loaded[q])
          BY <4>3, <5>1, NextUridFresh
        <5>3. i \in DOMAIN unmapped'[q]
          BY <4>1 DEF Extend
        <5> QED  BY <5>2, <5>3
      <4> QED
        BY <4>2, <4>3
    <3> QED
      BY <3>3, <3>4
  <2> QED
    BY <2>1, <2>2, <2>3, <2>4
       DEF Next, vars, tables, Clear, Destroy, ReferTo, ReferToRaw, Call, Forward, MapKnown, Unmap
<1> QED
  BY <1>1, TypeCorrect, TablesStayInverse, DeadStayEmpty, PTL DEF Spec, IdsKeepMeaning
-----------------------------------------------------------------------------
(* Every set of naturals has a least one: induction on sets, which asks    *)
(* for no operator.                                                        *)
LEMMA LeastNumber ==
  ASSUME NEW T, T \subseteq Nat, T # {}
  PROVE  \E n \in T : \A m \in T : n <= m
<1> DEFINE R == {ss \in Nat \X Nat : ss[1] < ss[2]}
<1>1. IsWellFoundedOn(R, Nat)
  BY NatLessThanWellFounded DEF OpToRel
<1> HIDE DEF R
<1>2. PICK n \in T : \A m \in T : ~ (<<m, n>> \in R)
  BY <1>1, WFMin
<1>3. ASSUME NEW m \in T PROVE n <= m
  <2>1. m \in Nat /\ n \in Nat /\ <<m, n>> \notin R
    BY <1>2
  <2> QED  BY <2>1 DEF R
<1> QED  BY <1>3

(* One hop of a call along the references ref, and the hops from s on.     *)
Hop(ref, o) == IF owner(o) THEN o ELSE ref[o]

HopsFrom(ref, s, hop) ==
  hop = [n \in 0 .. Len(scope) |->
           IF n = 0 THEN s
           ELSE IF owner(hop[n - 1]) THEN hop[n - 1] ELSE ref[hop[n - 1]]]

(* The hops up to the m-th. *)
Hops(ref, s, m, f) ==
  /\ DOMAIN f = 0 .. m /\ f[0] = s
  /\ \A n \in 1 .. m : f[n] = Hop(ref, f[n - 1])

LEMMA HopsExist ==
  ASSUME TypeOK, NEW ref, NEW s PROVE \E f : HopsFrom(ref, s, f)
<1> DEFINE N == Len(scope)
           Missing == {m \in 0 .. N : ~ \E f : Hops(ref, s, m, f)}
<1>1. N \in Nat
  BY DEF TypeOK
<1> HIDE DEF N
<1>2. Missing = {}
  <2> SUFFICES ASSUME Missing # {} PROVE FALSE
    OBVIOUS
  <2>1. Missing \subseteq Nat
    OBVIOUS
  <2>2. PICK m \in Missing : \A k \in Missing : m <= k
    <3> HIDE DEF Missing
    <3> QED  BY <2>1, LeastNumber
  <2>3. CASE m = 0
    <3> DEFINE f == [n \in 0 .. 0 |-> s]
    <3>1. Hops(ref, s, 0, f)
      BY DEF Hops
    <3> QED  BY <2>3, <3>1
  <2>4. CASE m # 0
    <3>1. m - 1 \in 0 .. N /\ m - 1 \notin Missing /\ m \in Nat
      BY <1>1, <2>2, <2>4
    <3>2. PICK g : Hops(ref, s, m - 1, g)
      BY <3>1
    <3> DEFINE f == [n \in 0 .. m |-> IF n = m THEN Hop(ref, g[m - 1]) ELSE g[n]]
    <3> HIDE DEF Missing
    <3>3. f[0] = s
      BY <2>4, <3>1, <3>2 DEF Hops
    <3>4. ASSUME NEW n \in 1 .. m PROVE f[n] = Hop(ref, f[n - 1])
      <4>1. CASE n = m
        BY <3>1, <4>1
      <4>2. CASE n # m
        <5>1. n \in 1 .. m - 1 /\ n \in 0 .. m /\ n - 1 \in 0 .. m /\ n - 1 # m
          BY <3>1, <4>2
        <5> QED  BY <3>2, <4>2, <5>1 DEF Hops
      <4> QED  BY <4>1, <4>2
    <3>5. Hops(ref, s, m, f)
      BY <3>3, <3>4 DEF Hops
    <3> QED  BY <2>2, <3>5 DEF Missing
  <2> QED  BY <2>3, <2>4
<1>3. PICK f : Hops(ref, s, N, f)
  <2>1. N \in 0 .. N /\ N \notin Missing
    BY <1>1, <1>2
  <2> QED  BY <2>1
<1> DEFINE g == [n \in 0 .. N |-> f[n]]
<1>4. g[0] = s /\ \A n \in 1 .. N : n - 1 \in 0 .. N /\ g[n] = Hop(ref, g[n - 1])
  BY <1>1, <1>3 DEF Hops
<1>5. \A n \in 0 .. N : n = 0 \/ n \in 1 .. N
  BY <1>1
<1>6. g = [n \in 0 .. N |-> IF n = 0 THEN s ELSE Hop(ref, g[n - 1])]
  <2>1. \A n \in 0 .. N : g[n] = IF n = 0 THEN s ELSE Hop(ref, g[n - 1])
    <3> HIDE DEF g
    <3> QED  BY <1>4, <1>5
  <2> QED  BY <2>1
<1> QED  BY <1>6 DEF HopsFrom, Hop, N

(* A route takes as many hops as there are objects.                        *)
LEMMA RouteHops ==
  ASSUME TypeOK, NEW ref, NEW s
  PROVE  Hops(ref, s, Len(scope), Route(ref, s))
<1> DEFINE f == CHOOSE hop : HopsFrom(ref, s, hop)
<1>1. Route(ref, s) = f
  BY DEF Route, HopsFrom
<1>2. HopsFrom(ref, s, f)
  BY HopsExist
<1> HIDE DEF f
<1>3. Len(scope) \in Nat
  BY DEF TypeOK
<1>4. DOMAIN f = 0 .. Len(scope)
  BY <1>2 DEF HopsFrom
<1>5. f[0] = s
  BY <1>2, <1>3 DEF HopsFrom
<1>6. ASSUME NEW n \in 1 .. Len(scope) PROVE f[n] = Hop(ref, f[n - 1])
  <2>1. n \in 0 .. Len(scope) /\ n # 0
    BY <1>3
  <2> QED  BY <1>2, <2>1 DEF HopsFrom, Hop
<1> QED  BY <1>1, <1>4, <1>5, <1>6 DEF Hops

LEMMA RootOfOwner ==
  ASSUME TypeOK, NEW s, owner(s) PROVE MapRoot(s) = s
<1> DEFINE N == Len(scope)
           f == Route(mapref, s)
<1>1. N \in Nat
  BY DEF TypeOK
<1>2. Hops(mapref, s, N, f) /\ MapRoot(s) = f[N]
  BY RouteHops DEF MapRoot
<1> HIDE DEF f
<1> HIDE DEF N
<1> DEFINE Away == {n \in 0 .. N : f[n] # s}
<1>3. Away = {}
  <2> SUFFICES ASSUME Away # {} PROVE FALSE
    OBVIOUS
  <2>1. Away \subseteq Nat
    OBVIOUS
  <2>2. PICK n \in Away : \A k \in Away : n <= k
    <3> HIDE DEF Away
    <3> QED  BY <2>1, LeastNumber
  <2>3. n # 0 /\ n \in Nat
    BY <1>2 DEF Hops
  <2>4. n - 1 \in 0 .. N /\ n - 1 \notin Away /\ n \in 1 .. N
    BY <1>1, <2>2, <2>3
  <2> QED  BY <1>2, <2>4 DEF Hops, Hop
<1> QED  BY <1>1, <1>2, <1>3

(* An object that refers to another ends up where that one does: the older *)
(* objects are fewer, so that the hops from there on are enough.           *)
LEMMA RootOfReferral ==
  ASSUME TypeOK, ReferralInv, NEW s \in Syms, Alive(s), ~ owner(s)
  PROVE  MapRoot(s) = MapRoot(mapref[s])
<1> DEFINE N == Len(scope)
           t == mapref[s]
           f == Route(mapref, s)
           g == Route(mapref, t)
<1>1. N \in Nat /\ scope \in Seq(Syms) /\ DOMAIN scope = 1 .. N
  BY DEF TypeOK
<1>2. Hops(mapref, s, N, f) /\ MapRoot(s) = f[N]
  BY RouteHops DEF MapRoot
<1>3. Hops(mapref, t, N, g) /\ MapRoot(t) = g[N]
  BY RouteHops DEF MapRoot
<1> HIDE DEF f, g
<1>4. PICK j \in 1 .. N : j + 1 <= N /\ scope[j] = t
  <2>1. Older(t, s)
    BY DEF ReferralInv, NoDanglingReferral
  <2> QED  BY <1>1, <2>1 DEF Older
<1> HIDE DEF N, t
<1>5. \A n \in 0 .. N - 1 : f[n + 1] = g[n]
  <2> DEFINE Apart == {n \in 0 .. N - 1 : f[n + 1] # g[n]}
  <2> SUFFICES ASSUME Apart # {} PROVE FALSE
    OBVIOUS
  <2>1. Apart \subseteq Nat
    BY <1>1
  <2>2. PICK n \in Apart : \A k \in Apart : n <= k
    <3> HIDE DEF Apart
    <3> QED  BY <2>1, LeastNumber
  <2>3. n # 0
    <3>1. 1 \in 1 .. N  BY <1>1, <1>4
    <3>2. f[1] = t /\ g[0] = t
      BY <1>2, <1>3, <3>1 DEF Hops, Hop, t
    <3> QED  BY <3>2
  <2>4. n - 1 \in 0 .. N - 1 /\ n - 1 \notin Apart /\ n \in 1 .. N /\ n + 1 \in 1 .. N
    BY <1>1, <2>2, <2>3
  <2>5. f[n] = g[n - 1]
    BY <2>4
  <2>6. f[n + 1] = Hop(mapref, f[n]) /\ g[n] = Hop(mapref, g[n - 1])
    BY <1>2, <1>3, <2>4 DEF Hops
  <2> QED  BY <2>5, <2>6
<1>6. owner(g[N - 1])
  <2> DEFINE Left(n) == owner(g[n]) \/ \E i \in 1 .. N - 1 - n : scope[i] = g[n]
             Late == {n \in 0 .. N - 1 : ~ Left(n)}
  <2>1. Late = {}
    <3> SUFFICES ASSUME Late # {} PROVE FALSE
      OBVIOUS
    <3>1. Late \subseteq Nat
      BY <1>1
    <3>2. PICK n \in Late : \A k \in Late : n <= k
      <4> HIDE DEF Late
      <4> QED  BY <3>1, LeastNumber
    <3>3. n # 0
      <4>1. g[0] = t /\ j \in 1 .. N - 1 - 0
        BY <1>1, <1>3, <1>4 DEF Hops
      <4> QED  BY <1>4, <4>1
    <3>4. n - 1 \in 0 .. N - 1 /\ n - 1 \notin Late /\ n \in 1 .. N
      BY <1>1, <3>2, <3>3
    <3>5. Left(n - 1) /\ ~ Left(n)
      BY <3>4
    <3>6. g[n] = Hop(mapref, g[n - 1])
      BY <1>3, <3>4 DEF Hops
    <3>7. ~ owner(g[n - 1])
      BY <3>5, <3>6 DEF Hop
    <3>8. PICK i \in 1 .. N - 1 - (n - 1) : scope[i] = g[n - 1]
      BY <3>5, <3>7
    <3>9. i \in 1 .. N /\ g[n - 1] \in Syms /\ Alive(g[n - 1])
      BY <1>1, <3>4, <3>8 DEF Alive
    <3>10. Older(g[n], g[n - 1])
      BY <3>6, <3>7, <3>9 DEF ReferralInv, NoDanglingReferral, Hop
    <3>11. PICK k, l \in 1 .. N : k < l /\ scope[k] = g[n] /\ scope[l] = g[n - 1]
      BY <1>1, <3>10 DEF Older
    <3>12. l = i
      BY <1>1, <3>8, <3>9, <3>11 DEF ReferralInv, ScopeDistinct
    <3>13. k \in 1 .. N - 1 - n
      BY <1>1, <3>4, <3>8, <3>11, <3>12
    <3> QED  BY <3>5, <3>11, <3>13
  <2>2. N - 1 \in 0 .. N - 1 /\ N - 1 \notin Late
    BY <1>1, <1>4, <2>1
  <2>3. Left(N - 1)
    BY <2>2
  <2> QED  BY <1>1, <2>3
<1>7. N \in 1 .. N /\ N - 1 \in 0 .. N - 1 /\ N - 1 + 1 = N
  BY <1>1, <1>4
<1>8. f[N] = g[N - 1]
  BY <1>5, <1>7
<1>9. g[N] = g[N - 1]
  BY <1>3, <1>6, <1>7 DEF Hops, Hop
<1> QED  BY <1>2, <1>3, <1>8, <1>9 DEF t

(* The map chain and the unmap chain of an object go through the same      *)
(* objects as long as none of them was referred to a mixed pair.           *)
LEMMA ChainsMeet ==
  ASSUME TypeOK, Paired, NEW s \in Syms, ~ MixedOnTheWay(s)
  PROVE  UnmapRoot(s) = MapRoot(s)
<1> DEFINE N == Len(scope)
           f == Route(mapref, s)
           g == Route(unmapref, s)
<1>1. N \in Nat
  BY DEF TypeOK
<1>2. Hops(mapref, s, N, f) /\ MapRoot(s) = f[N]
  BY RouteHops DEF MapRoot
<1>3. Hops(unmapref, s, N, g) /\ UnmapRoot(s) = g[N]
  BY RouteHops DEF UnmapRoot
<1>4. \A n \in 0 .. N : f[n] \notin mixed
  BY DEF MixedOnTheWay
<1> HIDE DEF N, f, g
<1> DEFINE Apart == {n \in 0 .. N : ~ (f[n] \in Syms /\ f[n] = g[n])}
<1>5. Apart = {}
  <2> SUFFICES ASSUME Apart # {} PROVE FALSE
    OBVIOUS
  <2>1. Apart \subseteq Nat
    OBVIOUS
  <2>2. PICK n \in Apart : \A k \in Apart : n <= k
    <3> HIDE DEF Apart
    <3> QED  BY <2>1, LeastNumber
  <2>3. n # 0
    BY <1>2, <1>3 DEF Hops
  <2>4. n - 1 \in 0 .. N /\ n - 1 \notin Apart /\ n \in 1 .. N
    BY <1>1, <2>2, <2>3
  <2>5. f[n - 1] \in Syms /\ f[n - 1] = g[n - 1] /\ f[n - 1] \notin mixed
    BY <1>4, <2>4
  <2>6. f[n] = Hop(mapref, f[n - 1]) /\ g[n] = Hop(unmapref, f[n - 1])
    BY <1>2, <1>3, <2>4, <2>5 DEF Hops
  <2>7. f[n] = g[n] /\ f[n] \in Syms
    BY <2>5, <2>6 DEF Hop, owner, Paired, TypeOK
  <2> QED  BY <2>7
<1> QED  BY <1>1, <1>2, <1>3, <1>5
-----------------------------------------------------------------------------
(* A map() in progress is at an object from which it ends where it would   *)
(* from the object it entered at.                                          *)
CallOnTheWay ==
  /\ call # NoCall => Alive(call.at)
  /\ call.op = "map" => MapRoot(call.from) = MapRoot(call.at)

(* The root depends on the scope and the references only.                  *)
LEMMA RootUnchanged ==
  ASSUME UNCHANGED <<scope, mapref, unmapref, mixed>>
  PROVE  /\ \A s : MapRoot(s)' = MapRoot(s)
         /\ \A s : UnmapRoot(s)' = UnmapRoot(s)
         /\ \A s : MixedOnTheWay(s)' = MixedOnTheWay(s)
         /\ \A s : Alive(s)' = Alive(s)
BY DEF MapRoot, UnmapRoot, MixedOnTheWay, Route, owner, Alive

(* The hops of a map() keep it on the way to its table.                    *)
LEMMA CallsOnTheWay == Spec => []CallOnTheWay
<1>1. Init => CallOnTheWay
  BY DEF Init, CallOnTheWay, NoCall
<1>2. TypeOK /\ ReferralInv /\ CallOnTheWay /\ [Next]_vars => CallOnTheWay'
  <2> SUFFICES ASSUME TypeOK, ReferralInv, CallOnTheWay, [Next]_vars
               PROVE  CallOnTheWay'
    OBVIOUS
  <2>1. ASSUME call' = NoCall PROVE CallOnTheWay'
    BY <2>1 DEF CallOnTheWay, NoCall
  <2>2. ASSUME NEW s \in Syms, NEW op, NEW arg, Call(s, op, arg) PROVE CallOnTheWay'
    <3>1. Alive(s) /\ UNCHANGED <<scope, mapref, unmapref, mixed>>
      BY <2>2 DEF Call, tables
    <3>2. call'.from = s /\ call'.at = s
      BY <2>2 DEF Call
    <3> QED  BY <3>1, <3>2, RootUnchanged DEF CallOnTheWay
  <2>3. ASSUME Forward PROVE CallOnTheWay'
    <3> DEFINE at == call.at
    <3>1. /\ call # NoCall /\ at \in Syms /\ ~ owner(at)
          /\ UNCHANGED <<scope, mapref, unmapref, mixed>>
      BY <2>3 DEF Forward, tables, TypeOK
    <3>2. /\ call'.from = call.from /\ call'.op = call.op
          /\ call'.at \in {mapref[at], unmapref[at]}
          /\ call.op = "map" => call'.at = mapref[at]
      BY <2>3, <3>1 DEF Forward, TypeOK
    <3>3. Alive(at) /\ (call.op = "map" => MapRoot(call.from) = MapRoot(at))
      BY <3>1 DEF CallOnTheWay
    <3>4. Older(mapref[at], at) /\ Older(unmapref[at], at)
      BY <3>1, <3>3 DEF ReferralInv, NoDanglingReferral
    <3>5. Alive(call'.at)
      BY <3>2, <3>4 DEF Older, Alive
    <3>6. MapRoot(at) = MapRoot(mapref[at])
      BY <3>1, <3>3, RootOfReferral
    <3> HIDE DEF at
    <3>7. call'.op = "map" => MapRoot(call'.from) = MapRoot(call'.at)
      BY <3>2, <3>3, <3>6
    <3> QED  BY <3>1, <3>5, <3>7, RootUnchanged DEF CallOnTheWay
  <2>4. CASE UNCHANGED vars
    BY <2>4, RootUnchanged DEF vars, CallOnTheWay
  <2> QED
    BY <2>1, <2>2, <2>3, <2>4
       DEF Next, Idle, Construct, Clear, Destroy, ReferTo, ReferToRaw, MapNew, MapKnown, Unmap, Return
<1> QED
  BY <1>1, <1>2, TypeCorrect, ReferralInvariance, PTL DEF Spec

(* When one table answers both, an id that map() returned through an       *)
(* object unmaps, through the same object, to the key, unless the key was  *)
(* preloaded with an id that is not its own; and one table does answer     *)
(* both unless a caller paired two objects, whatever was re-pointed,       *)
(* cleared or destroyed before: symbols.hpp:36-63, :68-84, :106-130.       *)
THEOREM MappedIdsUnmap == Spec => []MapThenUnmap
<1>1. Init => MapThenUnmap
  BY DEF Init, MapThenUnmap, NoCall
<1>2. /\ TypeOK /\ TypeOK' /\ Paired /\ Paired' /\ TablesInverse /\ TablesInverse'
      /\ CallOnTheWay /\ MapThenUnmap /\ [Next]_vars
      => MapThenUnmap'
  <2> SUFFICES ASSUME TypeOK, Paired, TablesInverse', CallOnTheWay, MapThenUnmap, [Next]_vars
               PROVE  MapThenUnmap'
    OBVIOUS
  <2>1. ASSUME ret' = NoCall PROVE MapThenUnmap'
    BY <2>1 DEF MapThenUnmap, NoCall
  <2>2. ASSUME UNCHANGED <<tables, ret>> PROVE MapThenUnmap'
    <3>1. \A s, k : Lost(s, k)' = Lost(s, k)
      BY <2>2 DEF Lost, Counted, tables
    <3> QED  BY <2>2, <3>1, RootUnchanged DEF MapThenUnmap, tables
  <2>3. ASSUME NEW urid, call.op = "map", owner(call.at), Return(urid),
               UNCHANGED <<scope, mapref, unmapref, mixed>>,
               mapped'[call.at][call.arg] = urid, call.arg \in DOMAIN mapped'[call.at]
        PROVE  MapThenUnmap'
    <3>1. call # NoCall
      BY <2>3 DEF NoCall
    <3>2. call.at \in Syms /\ call.from \in Syms /\ call.arg \in Keys
      BY <2>3, <3>1 DEF TypeOK
    <3>3. PICK r \in Syms, f \in Syms, k \in Keys : r = call.at /\ f = call.from /\ k = call.arg
      BY <3>2
    <3>4. MapRoot(f) = r
      BY <2>3, <3>1, <3>3, RootOfOwner DEF CallOnTheWay
    <3>5. UnmapRoot(f) = r \/ MixedOnTheWay(f)
      BY <3>4, ChainsMeet
    <3>6. ret'.from = f /\ ret'.val = urid /\ ret'.arg = k
      BY <2>3, <3>3 DEF Return
    <3>7. /\ k \in DOMAIN mapped'[r] /\ mapped'[r][k] = urid
      BY <2>3, <3>3
    <3>8. urid \in DOMAIN unmapped'[r] /\ (unmapped'[r][urid] = k \/ Lost(r, k)')
      BY <3>7 DEF TablesInverse
    <3>9. MapRoot(f)' = r /\ (UnmapRoot(f)' = r \/ MixedOnTheWay(f)')
      BY <2>3, <3>4, <3>5, RootUnchanged
    <3> QED  BY <3>6, <3>8, <3>9 DEF MapThenUnmap
  <2>4. ASSUME MapNew PROVE MapThenUnmap'
    <3> DEFINE urid == NextUrid(call.at)
    <3>1. call.at \in Syms
      BY <2>4 DEF MapNew, TypeOK, NoCall
    <3>2. mapped' = [mapped EXCEPT ![call.at] = Extend(mapped[call.at], call.arg, urid)]
      BY <2>4 DEF MapNew
    <3>3. mapped'[call.at] = Extend(mapped[call.at], call.arg, urid)
      BY <3>1, <3>2 DEF TypeOK
    <3>4. call.arg \in DOMAIN mapped'[call.at] /\ mapped'[call.at][call.arg] = urid
      BY <3>3 DEF Extend
    <3>5. /\ call.op = "map" /\ owner(call.at) /\ Return(urid)
          /\ UNCHANGED <<scope, mapref, unmapref, mixed>>
      BY <2>4 DEF MapNew
    <3> HIDE DEF urid
    <3> QED  BY <2>3, <3>4, <3>5
  <2>5. ASSUME MapKnown PROVE MapThenUnmap'
    <3> DEFINE urid == mapped[call.at][call.arg]
    <3>1. call.arg \in DOMAIN mapped'[call.at] /\ mapped'[call.at][call.arg] = urid
      BY <2>5 DEF MapKnown, tables
    <3>2. /\ call.op = "map" /\ owner(call.at) /\ Return(urid)
          /\ UNCHANGED <<scope, mapref, unmapref, mixed>>
      BY <2>5 DEF MapKnown, tables
    <3> HIDE DEF urid
    <3> QED  BY <2>3, <3>1, <3>2
  <2>6. ASSUME Unmap PROVE MapThenUnmap'
    BY <2>6 DEF Unmap, Return, MapThenUnmap
  <2> QED
    BY <2>1, <2>2, <2>4, <2>5, <2>6
       DEF Next, vars, tables, Idle, Construct, Clear, Destroy, ReferTo, ReferToRaw, Call, Forward
<1>3. Spec => []Paired
  BY ReferralInvariance, PTL
<1> QED
  BY <1>1, <1>2, <1>3, TypeCorrect, TablesStayInverse, CallsOnTheWay, PTL DEF Spec
=============================================================================
