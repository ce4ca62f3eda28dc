---------------------------- MODULE PluginProofs ----------------------------
(***************************************************************************)
(* For any classes, registrations and features: instantiate() hands out    *)
(* only instances whose requirements are met, a class overrides the        *)
(* extension data of its mixins, and all of it holds of a host with audio  *)
(* and worker threads as well, which implements the channels of            *)
(* WorkChannels.  Of the mixins: each holds the data given for its         *)
(* features, in whatever order the host lists them.                        *)
(***************************************************************************)
EXTENDS Worker, PluginMixins, SequenceTheorems, FiniteSetTheorems, WellFoundedInduction, TLAPS

(* The list of a class holds what each of its Descriptors requires. *)
RequiredIsDeclared ==
  \A d \in Offered : descriptors[d].requires \subseteq required[descriptors[d].class]

StateShape ==
  /\ descriptors \in Seq(Registrations)
  /\ required \in [Classes -> SUBSET Features]
  /\ instance \in [Handles -> [desc : Offered, features : FeatureLists] \cup {Null}]
  /\ returned \in [desc : Offered, features : FeatureLists, handle : Handles \cup {Null}]
                    \cup {Null}

LEMMA DescriptorType ==
  ASSUME StateShape, NEW d \in Offered
  PROVE  descriptors[d].class \in Classes /\ descriptors[d].requires \subseteq Features
<1>1. descriptors \in Seq(Registrations)  BY DEF StateShape
<1>2. descriptors[d] \in Registrations
  BY <1>1, LenProperties DEF Offered
<1> QED  BY <1>2 DEF Registrations

LEMMA RegisterFacts ==
  ASSUME StateShape, NEW c \in Classes, NEW reqs \in SUBSET Features, Register(c, reqs)
  PROVE  /\ descriptors' \in Seq(Registrations)
         /\ Offered \subseteq Offered'
         /\ \A d \in Offered : descriptors'[d] = descriptors[d]
         /\ \A d \in Offered' : d \notin Offered => descriptors'[d] = [class |-> c, requires |-> reqs]
         /\ \E d \in Offered' : descriptors'[d] = [class |-> c, requires |-> reqs]
<1> DEFINE r == [class |-> c, requires |-> reqs]
<1>1. r \in Registrations /\ descriptors \in Seq(Registrations) /\ descriptors' = Append(descriptors, r)
  BY DEF Registrations, StateShape, Register
<1> HIDE DEF r
<1>2. /\ Append(descriptors, r) \in Seq(Registrations)
      /\ DOMAIN Append(descriptors, r) = 1 .. Len(descriptors) + 1
      /\ DOMAIN descriptors = 1 .. Len(descriptors)
      /\ Len(descriptors) \in Nat
      /\ \A d \in 1 .. Len(descriptors) : Append(descriptors, r)[d] = descriptors[d]
      /\ Append(descriptors, r)[Len(descriptors) + 1] = r
  BY <1>1, AppendProperties, LenProperties
<1> QED  BY <1>1, <1>2 DEF Offered, r

IInv == StateShape /\ RequiredIsDeclared /\ RequirementsMet
-----------------------------------------------------------------------------
LEMMA PluginInvariance == Spec => []IInv
<1>1. Init => IInv
  BY EmptySeq DEF Init, IInv, StateShape, RequiredIsDeclared, RequirementsMet, Offered
<1>2. ASSUME IInv, [Next]_pluginVars PROVE IInv'
  <2> USE <1>2 DEF IInv
  <2>1. ASSUME NEW c \in Classes, NEW reqs \in SUBSET Features, Register(c, reqs) PROVE IInv'
    <3>1. StateShape'
      BY <2>1, RegisterFacts DEF StateShape, Register
    <3>2. RequiredIsDeclared'
      <4>1. /\ required'[c] = required[c] \cup reqs
            /\ \A k \in Classes \ {c} : required'[k] = required[k]
        BY <2>1 DEF Register, StateShape
      <4>2. ASSUME NEW d \in Offered'
            PROVE  descriptors'[d].requires \subseteq required'[descriptors'[d].class]
        <5>1. CASE d \in Offered
          <6>1. descriptors[d].class \in Classes
            BY <5>1, DescriptorType
          <6>2. descriptors[d].requires \subseteq required[descriptors[d].class]
            BY <5>1 DEF RequiredIsDeclared
          <6>3. descriptors'[d] = descriptors[d]  BY <2>1, <5>1, RegisterFacts
          <6>4. CASE descriptors[d].class = c
            BY <4>1, <6>2, <6>3, <6>4
          <6>5. CASE descriptors[d].class # c
            BY <4>1, <6>1, <6>2, <6>3, <6>5
          <6> QED  BY <6>4, <6>5
        <5>2. CASE d \notin Offered
          <6>1. descriptors'[d] = [class |-> c, requires |-> reqs]
            BY <2>1, <4>2, <5>2, RegisterFacts
          <6>2. descriptors'[d].class = c /\ descriptors'[d].requires = reqs
            BY <6>1
          <6> QED  BY <4>1, <6>2
        <5> QED  BY <5>1, <5>2
      <4> QED  BY <4>2 DEF RequiredIsDeclared
    <3>3. RequirementsMet'
      <4> SUFFICES ASSUME NEW h \in Handles, instance'[h] # Null
                   PROVE  descriptors'[instance'[h].desc].requires \subseteq DOMAIN instance'[h].features
        BY DEF RequirementsMet
      <4>1. instance' = instance  BY <2>1 DEF Register
      <4>2. instance[h].desc \in Offered  BY <4>1 DEF StateShape
      <4>3. descriptors'[instance[h].desc] = descriptors[instance[h].desc]
        BY <2>1, <4>2, RegisterFacts
      <4> QED  BY <4>1, <4>3 DEF RequirementsMet
    <3> QED  BY <3>1, <3>2, <3>3
  <2>2. ASSUME NEW d \in Offered, NEW F \in FeatureLists, Refuse(d, F) PROVE IInv'
    BY <2>2 DEF Refuse, StateShape, RequiredIsDeclared, RequirementsMet, Offered
  <2>3. ASSUME NEW d \in Offered, NEW F \in FeatureLists, NEW h \in Handles, Instantiate(d, F, h)
        PROVE IInv'
    <3>1. descriptors[d].requires \subseteq DOMAIN F
      BY <2>3 DEF Instantiate, AllProvided, Provided, RequiredIsDeclared
    <3>2. RequirementsMet'
      BY <2>3, <3>1 DEF RequirementsMet, Instantiate, StateShape
    <3> QED  BY <2>3, <3>2 DEF Instantiate, StateShape, RequiredIsDeclared, Offered
  <2>4. ASSUME NEW h \in Handles, Cleanup(h) PROVE IInv'
    BY <2>4 DEF Cleanup, StateShape, RequiredIsDeclared, RequirementsMet, Offered
  <2>5. CASE UNCHANGED pluginVars
    BY <2>5 DEF pluginVars, StateShape, RequiredIsDeclared, RequirementsMet, Offered
  <2> QED  BY <2>1, <2>2, <2>3, <2>4, <2>5 DEF Next
<1> QED  BY <1>1, <1>2, PTL DEF Spec

(* However many Descriptors of whatever classes share required(): an       *)
(* instance the host holds has what its own Descriptor required.           *)
THEOREM InstancesHaveTheirFeatures == Spec => []RequirementsMet
BY PluginInvariance, PTL DEF IInv
-----------------------------------------------------------------------------
(* Every set of naturals has a least one: induction on sets, which asks    *)
(* for no operator.                                                        *)
LEMMA LeastNumber ==
  ASSUME NEW T, T \subseteq Nat, T # {}
  PROVE  \E n \in T : \A m \in T : n <= m
<1> DEFINE R == {ss \in Nat \X Nat : ss[1] < ss[2]}
<1>1. IsWellFoundedOn(R, Nat)
  BY NatLessThanWellFounded DEF OpToRel
<1> HIDE DEF R
<1>2. PICK n \in T : \A m \in T : ~ (<<m, n>> \in R)
  BY <1>1, WFMin
<1>3. ASSUME NEW m \in T PROVE n <= m
  <2>1. m \in Nat /\ n \in Nat /\ <<m, n>> \notin R
    BY <1>2
  <2> QED  BY <2>1 DEF R
<1> QED  BY <1>3

LEMMA LargestIndex ==
  ASSUME NEW n \in Nat, NEW s, s \subseteq 1 .. n, s # {}
  PROVE  Max(s) \in s /\ \A i \in s : i <= Max(s)
<1> DEFINE T == {n - i : i \in s}
<1>1. T \subseteq Nat /\ T # {}
  <2>1. \A i \in s : n - i \in Nat
    OBVIOUS
  <2> QED  BY <2>1
<1>2. PICK k \in T : \A m \in T : k <= m
  <2> HIDE DEF T
  <2> QED  BY <1>1, LeastNumber
<1>3. PICK j \in s : k = n - j
  BY <1>2
<1>4. \A i \in s : i <= j
  BY <1>2, <1>3
<1> QED  BY <1>4 DEF Max
-----------------------------------------------------------------------------
(* The fold of initialize_extensions(), one writer of the table at a time, *)
(* over a set of positions in the list of those who write it.              *)
Writers(c) == Mixins[c] \o <<c>>

ByTurns(c, dmap, f) ==
  f = [s \in SUBSET DOMAIN Writers(c) |->
         IF s = {} THEN dmap ELSE MapExtensionData(f[s \ {Max(s)}], Writers(c)[Max(s)])]

(* What it comes to: the last writer of a URI has it. *)
Mapping(c, s, u) == {i \in s : u \in Provides[Writers(c)[i]]}

LastOf(c, dmap) ==
  [s \in SUBSET DOMAIN Writers(c) |->
     [u \in Uris |-> IF Mapping(c, s, u) # {} THEN Writers(c)[Max(Mapping(c, s, u))] ELSE dmap[u]]]

LEMMA WritersType ==
  ASSUME NEW c \in Classes
  PROVE  /\ Len(Mixins[c]) \in Nat /\ DOMAIN Writers(c) = 1 .. Len(Mixins[c]) + 1
         /\ \A i \in 1 .. Len(Mixins[c]) : /\ Writers(c)[i] = Mixins[c][i]
                                           /\ Mixins[c][i] \in DOMAIN Provides
         /\ Writers(c)[Len(Mixins[c]) + 1] = c /\ c \in DOMAIN Provides
<1>1. c \in DOMAIN Provides /\ Mixins[c] \in Seq(DOMAIN Provides)
  BY PluginAssumption
<1>2. Append(Mixins[c], c) = Writers(c)
  BY <1>1, AppendIsConcat DEF Writers
<1>3. /\ Append(Mixins[c], c) \in Seq(DOMAIN Provides)
      /\ Len(Append(Mixins[c], c)) = Len(Mixins[c]) + 1
      /\ \A i \in 1 .. Len(Mixins[c]) : Append(Mixins[c], c)[i] = Mixins[c][i]
      /\ Append(Mixins[c], c)[Len(Mixins[c]) + 1] = c
  BY <1>1, AppendProperties
<1>4. Len(Mixins[c]) \in Nat /\ \A i \in 1 .. Len(Mixins[c]) : Mixins[c][i] \in DOMAIN Provides
  BY <1>1, LenProperties, ElementOfSeq
<1>5. DOMAIN Append(Mixins[c], c) = 1 .. Len(Mixins[c]) + 1
  BY <1>3, LenProperties
<1> QED  BY <1>1, <1>2, <1>3, <1>4, <1>5

LEMMA LastOfByTurns ==
  ASSUME NEW c \in Classes, NEW S, NEW dmap \in [Uris -> S] PROVE ByTurns(c, dmap, LastOf(c, dmap))
<1> DEFINE n == Len(Mixins[c]) + 1
<1>1. n \in Nat /\ DOMAIN Writers(c) = 1 .. n
  BY WritersType
<1> HIDE DEF n
<1>2. LastOf(c, dmap)[{}] = dmap
  BY DEF LastOf, Mapping
<1>3. ASSUME NEW s \in SUBSET DOMAIN Writers(c), s # {}
      PROVE  LastOf(c, dmap)[s] = MapExtensionData(LastOf(c, dmap)[s \ {Max(s)}], Writers(c)[Max(s)])
  <2> DEFINE m == Max(s)
  <2>1. m \in s /\ \A i \in s : i <= m
    BY <1>1, <1>3, LargestIndex
  <2> HIDE DEF m
  <2>2. ASSUME NEW u \in Uris
        PROVE  LastOf(c, dmap)[s][u] = IF u \in Provides[Writers(c)[m]] THEN Writers(c)[m]
                                       ELSE LastOf(c, dmap)[s \ {m}][u]
    <3>1. CASE u \in Provides[Writers(c)[m]]
      <4>1. m \in Mapping(c, s, u) /\ Mapping(c, s, u) \subseteq s
        BY <2>1, <3>1 DEF Mapping
      <4>2. Max(Mapping(c, s, u)) \in s /\ Max(Mapping(c, s, u)) >= m
        BY <1>1, <4>1, LargestIndex
      <4>3. Max(Mapping(c, s, u)) = m
        BY <1>1, <2>1, <4>2
      <4> QED  BY <3>1, <4>1, <4>3 DEF LastOf
    <3>2. CASE u \notin Provides[Writers(c)[m]]
      <4>1. Mapping(c, s, u) = Mapping(c, s \ {m}, u)
        BY <2>1, <3>2 DEF Mapping
      <4> QED  BY <3>2, <4>1 DEF LastOf
    <3> QED  BY <3>1, <3>2
  <2> QED  BY <2>2 DEF LastOf, MapExtensionData, m
<1> QED  BY <1>2, <1>3 DEF ByTurns, LastOf

(* Two functions on the sets of positions that start alike and take the    *)
(* same step from like values agree: a fold over a list has one result.    *)
LEMMA SameFold ==
  ASSUME NEW N \in Nat, NEW f, NEW g, f[{}] = g[{}],
         \A s \in SUBSET (1 .. N) : s # {} /\ f[s \ {Max(s)}] = g[s \ {Max(s)}] => f[s] = g[s]
  PROVE  f[1 .. N] = g[1 .. N]
<1> DEFINE Differ == {n \in 0 .. N : \E s \in SUBSET (1 .. n) : f[s] # g[s]}
<1>1. SUFFICES Differ = {}
  <2>1. N \in 0 .. N /\ 1 .. N \in SUBSET (1 .. N)
    OBVIOUS
  <2> QED  BY <1>1, <2>1
<1>2. SUFFICES ASSUME Differ # {} PROVE FALSE
  OBVIOUS
<1>3. PICK n \in Differ : \A k \in Differ : n <= k
  <2>1. Differ \subseteq Nat
    OBVIOUS
  <2> HIDE DEF Differ
  <2> QED  BY <1>2, <2>1, LeastNumber
<1>4. PICK s \in SUBSET (1 .. n) : f[s] # g[s]
  OBVIOUS
<1>5. s \in SUBSET (1 .. N) /\ s # {} /\ n \in 0 .. N
  <2>1. n \in 0 .. N
    BY <1>3
  <2>2. 1 .. n \subseteq 1 .. N
    BY <2>1
  <2>3. s # {}
    BY <1>4
  <2> QED  BY <1>4, <2>1, <2>2, <2>3
<1> DEFINE m == Max(s)
<1>6. m \in s /\ \A i \in s : i <= m
  <2> HIDE DEF Differ
  <2> QED  BY <1>5, LargestIndex
<1>7. f[s \ {m}] = g[s \ {m}]
  <2> HIDE DEF m
  <2>1. s \ {m} \in SUBSET (1 .. m - 1) /\ m - 1 \in 0 .. N /\ m - 1 < n
    BY <1>5, <1>6
  <2>2. m - 1 \notin Differ
    BY <1>3, <2>1
  <2> QED  BY <2>1, <2>2
<1> QED  BY <1>4, <1>5, <1>7

LEMMA OneResult ==
  ASSUME NEW c \in Classes, NEW dmap, NEW f, NEW g, ByTurns(c, dmap, f), ByTurns(c, dmap, g)
  PROVE  f[DOMAIN Writers(c)] = g[DOMAIN Writers(c)]
<1> DEFINE N == Len(Mixins[c]) + 1
<1>1. N \in Nat /\ DOMAIN Writers(c) = 1 .. N
  BY WritersType
<1> HIDE DEF N
<1>2. f[{}] = g[{}]
  BY DEF ByTurns
<1>3. ASSUME NEW s \in SUBSET (1 .. N), s # {}, f[s \ {Max(s)}] = g[s \ {Max(s)}]
      PROVE  f[s] = g[s]
  BY <1>1, <1>3 DEF ByTurns
<1> QED  BY <1>1, <1>2, <1>3, SameFold

(* initialize_extensions() gives every URI to the class, if it maps it,    *)
(* else to the last mixin that does, else leaves it as it was:             *)
(* plugin.hpp:241-245.                                                     *)
LEMMA LastWriterMaps ==
  ASSUME NEW c \in Classes, NEW S, NEW dmap \in [Uris -> S]
  PROVE  initialize_extensions(dmap, c) =
           [u \in Uris |-> IF LastMapper(c, u) # Null THEN LastMapper(c, u) ELSE dmap[u]]
<1> DEFINE n == Len(Mixins[c])
<1>1. initialize_extensions(dmap, c) = (CHOOSE f : ByTurns(c, dmap, f))[DOMAIN Writers(c)]
  BY DEF initialize_extensions, FoldLeft, MapThenFoldSet, ByTurns, Writers
<1>2. ByTurns(c, dmap, CHOOSE f : ByTurns(c, dmap, f))
  BY LastOfByTurns
<1>3. initialize_extensions(dmap, c) = LastOf(c, dmap)[DOMAIN Writers(c)]
  BY <1>1, <1>2, LastOfByTurns, OneResult
<1>4. /\ n \in Nat /\ DOMAIN Writers(c) = 1 .. n + 1
      /\ \A i \in 1 .. n : Writers(c)[i] = Mixins[c][i] /\ Mixins[c][i] \in DOMAIN Provides
      /\ Writers(c)[n + 1] = c /\ c # Null
  BY WritersType, PluginAssumption
<1> HIDE DEF n
<1>5. ASSUME NEW u \in Uris
      PROVE  LastOf(c, dmap)[DOMAIN Writers(c)][u] =
               IF LastMapper(c, u) # Null THEN LastMapper(c, u) ELSE dmap[u]
  <2> DEFINE I == Mapping(c, DOMAIN Writers(c), u)
             J == {i \in 1 .. n : u \in Provides[Mixins[c][i]]}
  <2>1. CASE u \in Provides[c]
    <3>1. n + 1 \in I /\ I \subseteq 1 .. n + 1
      BY <1>4, <2>1 DEF Mapping
    <3>2. Max(I) \in I /\ \A i \in I : i <= Max(I)
      <4>1. n + 1 \in Nat /\ I # {}
        BY <1>4, <3>1
      <4> HIDE DEF I
      <4> QED  BY <3>1, <4>1, LargestIndex
    <3>3. Max(I) = n + 1
      BY <1>4, <3>1, <3>2
    <3> QED  BY <1>4, <2>1, <3>1, <3>3 DEF LastOf, LastMapper
  <2>2. CASE u \notin Provides[c]
    <3>1. I = J
      BY <1>4, <2>2 DEF Mapping
    <3>2. CASE J = {}
      <4>1. LastMapper(c, u) = Null
        BY <2>2, <3>2 DEF LastMapper, SelectLastInSeq, n
      <4> QED  BY <3>1, <3>2, <4>1 DEF LastOf
    <3>3. CASE J # {}
      <4>1. Max(J) \in 1 .. n
        <5>1. J \subseteq 1 .. n  OBVIOUS
        <5> HIDE DEF J
        <5> QED  BY <1>4, <3>3, <5>1, LargestIndex
      <4>2. LastMapper(c, u) = Mixins[c][Max(J)]
        BY <1>4, <2>2, <3>3, <4>1 DEF LastMapper, SelectLastInSeq, n
      <4>3. Mixins[c][Max(J)] # Null /\ Writers(c)[Max(J)] = Mixins[c][Max(J)]
        BY <1>4, <4>1, PluginAssumption
      <4> QED  BY <3>1, <3>3, <4>2, <4>3 DEF LastOf
    <3> QED  BY <3>2, <3>3
  <2> QED  BY <2>1, <2>2
<1> QED  BY <1>3, <1>5 DEF LastOf

(* A class has no extension data before its first Descriptor, and all of   *)
(* it from then on.                                                        *)
Registered(c) == \E d \in Offered : descriptors[d].class = c

TableOK ==
  /\ Len(descriptors) <= MaxDescriptors
  /\ extensions \in [Classes -> [Uris -> DOMAIN Provides \cup {Null}]]
  /\ \A c \in Classes, u \in Uris : extensions[c][u] = IF Registered(c) THEN LastMapper(c, u) ELSE Null

LEMMA LastMapperType ==
  ASSUME NEW c \in Classes, NEW u \in Uris PROVE LastMapper(c, u) \in DOMAIN Provides \cup {Null}
<1> DEFINE J == {i \in 1 .. Len(Mixins[c]) : u \in Provides[Mixins[c][i]]}
<1>1. /\ Len(Mixins[c]) \in Nat /\ c \in DOMAIN Provides
      /\ \A i \in 1 .. Len(Mixins[c]) : Mixins[c][i] \in DOMAIN Provides
  BY WritersType
<1>2. J # {} => Max(J) \in 1 .. Len(Mixins[c])
  <2>1. J \subseteq 1 .. Len(Mixins[c])  OBVIOUS
  <2> HIDE DEF J
  <2> QED  BY <1>1, <2>1, LargestIndex
<1> QED  BY <1>1, <1>2 DEF LastMapper, SelectLastInSeq

LEMMA TableInvariance == Spec => []TableOK
<1>1. Init => TableOK
  BY EmptySeq, PluginAssumption DEF Init, TableOK, Registered, Offered
<1>2. ASSUME IInv, TableOK, [Next]_pluginVars PROVE TableOK'
  <2>1. ASSUME NEW c \in Classes, NEW reqs \in SUBSET Features, Register(c, reqs) PROVE TableOK'
    <3>1. /\ StateShape /\ descriptors \in Seq(Registrations)
          /\ extensions \in [Classes -> [Uris -> DOMAIN Provides \cup {Null}]]
      BY <1>2 DEF IInv, StateShape, TableOK
    <3>2. Len(descriptors') <= MaxDescriptors
      <4>1. descriptors' = Append(descriptors, [class |-> c, requires |-> reqs])
            /\ [class |-> c, requires |-> reqs] \in Registrations /\ Len(descriptors) < MaxDescriptors
        BY <2>1 DEF Register, Registrations
      <4>2. Len(descriptors') = Len(descriptors) + 1 /\ Len(descriptors) \in Nat
        BY <3>1, <4>1, AppendProperties, LenProperties
      <4> QED  BY <4>1, <4>2, PluginAssumption
    <3>3. extensions'[c] = [u \in Uris |-> IF LastMapper(c, u) # Null THEN LastMapper(c, u)
                                           ELSE extensions[c][u]]
          /\ \A k \in Classes \ {c} : extensions'[k] = extensions[k]
      <4>1. extensions' = [extensions EXCEPT ![c] = initialize_extensions(extensions[c], c)]
        BY <2>1 DEF Register
      <4>2. extensions[c] \in [Uris -> DOMAIN Provides \cup {Null}]
        BY <3>1
      <4>3. /\ extensions'[c] = initialize_extensions(extensions[c], c)
            /\ \A k \in Classes \ {c} : extensions'[k] = extensions[k]
        BY <3>1, <4>1
      <4> QED  BY <4>2, <4>3, LastWriterMaps
    <3>4. \A u \in Uris : LastMapper(c, u) = Null => extensions[c][u] = Null
      BY <1>2 DEF TableOK
    <3>5. \A u \in Uris : extensions'[c][u] = LastMapper(c, u)
      BY <3>3, <3>4
    <3>6. extensions' \in [Classes -> [Uris -> DOMAIN Provides \cup {Null}]]
      <4>1. extensions'[c] \in [Uris -> DOMAIN Provides \cup {Null}]
        BY <3>3, <3>5, LastMapperType
      <4>2. extensions' = [extensions EXCEPT ![c] = extensions'[c]]
        BY <2>1, <3>1 DEF Register
      <4> QED  BY <3>1, <4>1, <4>2
    <3>7. Registered(c)'
      <4>1. PICK d \in Offered' : descriptors'[d] = [class |-> c, requires |-> reqs]
        BY <2>1, <3>1, RegisterFacts
      <4> QED  BY <4>1 DEF Registered
    <3>8. ASSUME NEW k \in Classes \ {c} PROVE Registered(k)' <=> Registered(k)
      <4>1. /\ Offered \subseteq Offered'
            /\ \A d \in Offered : descriptors'[d] = descriptors[d]
            /\ \A d \in Offered' : d \notin Offered => descriptors'[d] = [class |-> c, requires |-> reqs]
        BY <2>1, <3>1, RegisterFacts
      <4>2. \A d \in Offered' : d \notin Offered => descriptors'[d].class = c
        BY <4>1
      <4> QED  BY <3>8, <4>1, <4>2 DEF Registered
    <3>9. ASSUME NEW k \in Classes, NEW u \in Uris
          PROVE  extensions'[k][u] = IF Registered(k)' THEN LastMapper(k, u) ELSE Null
      <4>1. CASE k = c  BY <3>5, <3>7, <4>1
      <4>2. CASE k # c
        BY <1>2, <3>3, <3>8, <4>2 DEF TableOK
      <4> QED  BY <4>1, <4>2
    <3> QED  BY <3>2, <3>6, <3>9 DEF TableOK
  <2>2. CASE UNCHANGED <<descriptors, extensions>>
    BY <1>2, <2>2 DEF TableOK, Registered, Offered
  <2>3. ASSUME NEW d \in Offered, NEW F \in FeatureLists,
               Refuse(d, F) \/ \E h \in Handles : Instantiate(d, F, h)
        PROVE  UNCHANGED <<descriptors, extensions>>
    BY <2>3 DEF Refuse, Instantiate
  <2>4. ASSUME NEW h \in Handles, Cleanup(h) PROVE UNCHANGED <<descriptors, extensions>>
    BY <2>4 DEF Cleanup
  <2>5. CASE UNCHANGED pluginVars
    BY <2>2, <2>5 DEF pluginVars
  <2> QED  BY <1>2, <2>1, <2>2, <2>3, <2>4, <2>5 DEF Next
<1> QED  BY <1>1, <1>2, PluginInvariance, PTL DEF Spec

(* Every value of the state of Plugin is of its type. *)
THEOREM PluginTypeCorrect == Spec => []PluginTypeOK
<1>1. IInv /\ TableOK => PluginTypeOK
  BY DEF IInv, StateShape, TableOK, PluginTypeOK
<1> QED  BY <1>1, PluginInvariance, TableInvariance, PTL

(* What a class maps itself overrides what its mixins map, and a later     *)
(* mixin an earlier one, however many mixins there are and however often   *)
(* the class is registered: plugin.hpp:241-245.                            *)
THEOREM ClassesOverrideMixins == Spec => []ExtensionsOverride
<1>1. ASSUME IInv, TableOK, NEW d \in Offered, NEW u \in Uris
      PROVE  extension_data(descriptors[d].class, u) = LastMapper(descriptors[d].class, u)
  <2>1. descriptors[d].class \in Classes /\ Registered(descriptors[d].class)
    BY <1>1, DescriptorType DEF IInv, Registered
  <2> QED  BY <1>1, <2>1 DEF TableOK, extension_data
<1>2. IInv /\ TableOK => ExtensionsOverride
  BY <1>1 DEF ExtensionsOverride
<1> QED  BY <1>2, PluginInvariance, TableInvariance, PTL
-----------------------------------------------------------------------------
(* Queues hold what was appended to them. *)
LEMMA RangeAppend ==
  ASSUME NEW S, NEW q \in Seq(S), NEW h \in S
  PROVE  Append(q, h) \in Seq(S) /\ Range(Append(q, h)) = Range(q) \cup {h}
<1>1. /\ Append(q, h) \in Seq(S)
      /\ DOMAIN Append(q, h) = 1 .. Len(q) + 1
      /\ \A i \in 1 .. Len(q) : Append(q, h)[i] = q[i]
      /\ Append(q, h)[Len(q) + 1] = h
      /\ Len(q) \in Nat /\ DOMAIN q = 1 .. Len(q)
  BY AppendProperties, LenProperties
<1> QED  BY <1>1 DEF Range

LEMMA RangeTail ==
  ASSUME NEW S, NEW q \in Seq(S), q # <<>>
  PROVE  Tail(q) \in Seq(S) /\ Range(Tail(q)) \subseteq Range(q) /\ Head(q) \in S \cap Range(q)
<1>1. /\ Tail(q) \in Seq(S) /\ Len(Tail(q)) = Len(q) - 1
      /\ \A i \in 1 .. Len(Tail(q)) : Tail(q)[i] = q[i + 1]
      /\ Len(q) \in Nat \ {0} /\ DOMAIN q = 1 .. Len(q) /\ Head(q) = q[1] /\ q[1] \in S
      /\ DOMAIN Tail(q) = 1 .. Len(Tail(q))
  BY HeadTailProperties, LenProperties, EmptySeq
<1> QED  BY <1>1 DEF Range

LEMMA RangeElements ==
  ASSUME NEW S, NEW q \in Seq(S) PROVE Range(q) \subseteq S
BY LenProperties DEF Range

LEMMA RangeEmpty == \A S : <<>> \in Seq(S) /\ Range(<<>>) = {}
BY EmptySeq, LenProperties DEF Range
-----------------------------------------------------------------------------
(* The host's bookkeeping: one slot per instance and one instance per      *)
(* slot, and an instance knows no schedule but its own slot's.             *)
HostShape ==
  /\ descriptors \in Seq(Registrations)
  /\ instance \in [Handles -> [desc : Nat, features : FeatureLists] \cup {Null}]
  /\ schedule \in [Handles -> Slots \cup {Null}]
  /\ plugin \in [Slots -> Handles \cup {Null}]
  /\ phase \in [Slots -> {"inactive", "active", "running", "responding"}]
  /\ requests \in [Slots -> Seq(Handles)]
  /\ responses \in [Slots -> Seq(Handles)]
  /\ working \in [Slots -> [on : Handles, by : Handles, respond : Slots] \cup {Null}]

SlotOK(s) ==
  /\ phase[s] # "inactive" => plugin[s] # Null
  /\ plugin[s] # Null => instance[plugin[s]] # Null /\ schedule[plugin[s]] \in {s, Null}
  /\ \A h \in Range(requests[s]) \cup Range(responses[s]) : h = plugin[s]
  /\ working[s] # Null => working[s] = [on |-> plugin[s], by |-> plugin[s], respond |-> s]

HostInv ==
  /\ HostShape
  /\ \A s, t \in Slots : plugin[s] = plugin[t] /\ plugin[s] # Null => s = t
  /\ \A h \in Handles : instance[h] = Null => schedule[h] = Null
  /\ \A s \in Slots : SlotOK(s)

LEMMA SlotUntouched ==
  ASSUME NEW s \in Slots, SlotOK(s),
         phase'[s] = phase[s], plugin'[s] = plugin[s], requests'[s] = requests[s],
         responses'[s] = responses[s], working'[s] = working[s],
         plugin[s] # Null => /\ instance'[plugin[s]] = instance[plugin[s]]
                             /\ schedule'[plugin[s]] = schedule[plugin[s]]
  PROVE  SlotOK(s)'
BY DEF SlotOK

(* The steps that only move slot s of the host on. *)
LEMMA MoveKeepsHost ==
  ASSUME HostInv, NEW s \in Slots, NEW from, NEW to, Move(s, from, to),
         to \in {"inactive", "active", "running", "responding"}
  PROVE  HostInv'
<1>1. SlotOK(s)'
  BY DEF Move, pluginVars, HostInv, HostShape, SlotOK
<1>2. ASSUME NEW t \in Slots \ {s} PROVE SlotOK(t)'
  BY <1>2, SlotUntouched DEF Move, pluginVars, HostInv, HostShape
<1> QED  BY <1>1, <1>2 DEF Move, pluginVars, HostInv, HostShape

LEMMA HostInvariance == WorkerSpec => []HostInv
<1>1. WorkerInit => HostInv
  BY RangeEmpty, EmptySeq DEF WorkerInit, Init, HostInv, HostShape, SlotOK
<1>2. ASSUME HostInv, [WorkerNext]_vars PROVE HostInv'
  <2> DEFINE OneSlotEach == \A s, t \in Slots : plugin[s] = plugin[t] /\ plugin[s] # Null => s = t
             NoneLeft    == \A h \in Handles : instance[h] = Null => schedule[h] = Null
  <2>0. HostShape /\ OneSlotEach /\ NoneLeft /\ \A s \in Slots : SlotOK(s)
    BY <1>2 DEF HostInv
  <2>1. CASE Load
    <3>1. PICK c \in Classes, reqs \in SUBSET Features : Register(c, reqs)
      BY <2>1 DEF Load
    <3>2. UNCHANGED <<instance, schedule, told, plugin, phase, requests, working, responses>>
      BY <2>1, <3>1 DEF Load, Register, workerVars
    <3>3. descriptors' \in Seq(Registrations)
      BY <2>0, <3>1, AppendProperties DEF Register, HostShape, Registrations
    <3>4. \A s \in Slots : SlotOK(s)'
      BY <2>0, <3>2, SlotUntouched DEF HostShape
    <3> QED  BY <2>0, <3>2, <3>3, <3>4 DEF HostInv, HostShape
  <2>2. ASSUME NEW s \in Slots, New(s) PROVE HostInv'
    <3>1. PICK d \in Offered, F \in FeaturesFor(s), h \in Handles :
            /\ Instantiate(d, F, h)
            /\ schedule' = IF WorkerMixin \in Range(Mixins[descriptors[d].class])
                           THEN WithSchedule(h, F) ELSE schedule
            /\ plugin' = [plugin EXCEPT ![s] = h]
      BY <2>2 DEF New
    <3>2. plugin[s] = Null /\ UNCHANGED <<told, phase, requests, working, responses>>
      BY <2>2 DEF New
    <3>3. [desc |-> d, features |-> F] \in [desc : Nat, features : FeatureLists]
      BY <2>0, LenProperties DEF HostShape, Offered, FeaturesFor
    <3>4. /\ descriptors' = descriptors /\ instance[h] = Null
          /\ instance' = [instance EXCEPT ![h] = [desc |-> d, features |-> F]]
      BY <3>1 DEF Instantiate
    <3>5. instance'[h] # Null
      BY <2>0, <3>3, <3>4, PluginAssumption DEF HostShape
    <3>6. schedule' \in [Handles -> Slots \cup {Null}] /\ schedule'[h] \in {s, Null}
          /\ \A k \in Handles \ {h} : schedule'[k] = schedule[k]
      <4>1. WorkSchedule \in DOMAIN F => F[WorkSchedule] \in {s, Null}
        BY DEF FeaturesFor
      <4> QED  BY <2>0, <3>1, <3>4, <4>1 DEF WithSchedule, HostShape
    <3>7. \A t \in Slots : plugin[t] # h
      BY <2>0, <3>4, PluginAssumption DEF SlotOK, HostShape
    <3>8. SlotOK(s)'
      <4>1. Range(requests[s]) = {} /\ Range(responses[s]) = {}
        <5>1. Range(requests[s]) \subseteq Handles /\ Range(responses[s]) \subseteq Handles
          <6>1. requests[s] \in Seq(Handles) /\ responses[s] \in Seq(Handles)
            BY <2>0 DEF HostShape
          <6> QED  BY <6>1, RangeElements
        <5>2. \A k \in Range(requests[s]) \cup Range(responses[s]) : k = Null
          BY <2>0, <3>2 DEF SlotOK
        <5>3. Null \notin Handles
          BY PluginAssumption
        <5> QED  BY <5>1, <5>2, <5>3
      <4>2. working[s] = Null
        <5>1. working[s] # Null => working[s].on \in Handles /\ working[s].on = Null
          BY <2>0, <3>2 DEF SlotOK, HostShape
        <5> QED  BY <5>1, PluginAssumption
      <4>3. plugin'[s] = h  BY <2>0, <3>1 DEF HostShape
      <4> QED  BY <3>2, <3>5, <3>6, <4>1, <4>2, <4>3, PluginAssumption DEF SlotOK
    <3>9. ASSUME NEW t \in Slots \ {s} PROVE SlotOK(t)'
      BY <2>0, <3>1, <3>2, <3>4, <3>6, <3>7, <3>9, SlotUntouched DEF HostShape
    <3>10. OneSlotEach'
      BY <2>0, <3>1, <3>7 DEF HostShape
    <3>11. NoneLeft'
      BY <2>0, <3>4, <3>5, <3>6 DEF HostShape
    <3>12. HostShape'
      BY <2>0, <3>1, <3>2, <3>3, <3>4, <3>6 DEF HostShape
    <3> QED  BY <3>8, <3>9, <3>10, <3>11, <3>12 DEF HostInv
  <2>3. ASSUME NEW s \in Slots, NewRefused(s) PROVE HostInv'
    <3>1. UNCHANGED <<descriptors, instance, schedule, told, plugin, phase, requests, working, responses>>
      BY <2>3 DEF NewRefused, Refuse, workerVars
    <3>2. \A t \in Slots : SlotOK(t)'
      BY <2>0, <3>1, SlotUntouched DEF HostShape
    <3> QED  BY <2>0, <3>1, <3>2 DEF HostInv, HostShape
  <2>4. ASSUME NEW s \in Slots,
               Activate(s) \/ Run(s) \/ Ran(s) \/ EndRun(s) \/ Deactivate(s)
        PROVE  HostInv'
    BY <1>2, <2>4, MoveKeepsHost DEF Activate, Run, Ran, EndRun, Deactivate
  <2>5. ASSUME NEW s \in Slots, Delete(s) PROVE HostInv'
    <3> DEFINE h == plugin[s]
    <3>1. h \in Handles /\ phase[s] = "inactive" /\ working[s] = Null
      BY <2>0, <2>5 DEF Delete, HostShape
    <3>2. /\ instance' = [instance EXCEPT ![h] = Null]
          /\ schedule' = [schedule EXCEPT ![h] = Null]
          /\ plugin' = [plugin EXCEPT ![s] = Null]
          /\ requests' = [requests EXCEPT ![s] = <<>>]
          /\ responses' = [responses EXCEPT ![s] = <<>>]
          /\ UNCHANGED <<descriptors, phase, working>>
      BY <2>5 DEF Delete, Cleanup
    <3>3. \A t \in Slots \ {s} : plugin[t] # h
      BY <2>0, <3>1, PluginAssumption
    <3>4. SlotOK(s)'
      BY <2>0, <3>1, <3>2, RangeEmpty DEF SlotOK, HostShape
    <3>5. ASSUME NEW t \in Slots \ {s} PROVE SlotOK(t)'
      BY <2>0, <3>1, <3>2, <3>3, <3>5, SlotUntouched DEF HostShape
    <3>6. HostShape'
      BY <2>0, <3>1, <3>2, EmptySeq DEF HostShape
    <3>7. NoneLeft' /\ OneSlotEach'
      BY <2>0, <3>1, <3>2 DEF HostShape
    <3> QED  BY <3>4, <3>5, <3>6, <3>7 DEF HostInv
  <2>6. ASSUME NEW s \in Slots, ScheduleNowhere(s) PROVE HostInv'
    <3>1. UNCHANGED <<descriptors, instance, schedule, plugin, phase, requests, working, responses>>
      BY <2>6 DEF ScheduleNowhere, vars, pluginVars, workerVars
    <3>2. \A t \in Slots : SlotOK(t)'
      BY <2>0, <3>1, SlotUntouched DEF HostShape
    <3> QED  BY <2>0, <3>1, <3>2 DEF HostInv, HostShape
  <2>7. ASSUME NEW s \in Slots, ScheduleWork(s) PROVE HostInv'
    <3>1. plugin[s] \in Handles /\ schedule[plugin[s]] = s
      BY <2>0, <2>7 DEF ScheduleWork, SlotOK, HostShape
    <3>2. /\ requests' = requests \/ requests' = [requests EXCEPT ![s] = Append(requests[s], plugin[s])]
          /\ UNCHANGED <<descriptors, instance, schedule, plugin, phase, working, responses>>
      BY <2>7, <3>1 DEF ScheduleWork, pluginVars
    <3>3. requests[s] \in Seq(Handles)  BY <2>0 DEF HostShape
    <3>4. requests' \in [Slots -> Seq(Handles)] /\ Range(requests'[s]) \subseteq Range(requests[s]) \cup {plugin[s]}
      <4>1. /\ Append(requests[s], plugin[s]) \in Seq(Handles)
            /\ Range(Append(requests[s], plugin[s])) = Range(requests[s]) \cup {plugin[s]}
        BY <3>1, <3>3, RangeAppend
      <4>2. requests \in [Slots -> Seq(Handles)]
        BY <2>0 DEF HostShape
      <4>3. CASE requests' = requests
        BY <4>2, <4>3
      <4>4. CASE requests' = [requests EXCEPT ![s] = Append(requests[s], plugin[s])]
        BY <4>1, <4>2, <4>4
      <4> QED  BY <3>2, <4>3, <4>4
    <3>5. SlotOK(s)'
      BY <2>0, <3>2, <3>4 DEF SlotOK
    <3>6. ASSUME NEW t \in Slots \ {s} PROVE SlotOK(t)'
      BY <2>0, <3>2, <3>6, SlotUntouched DEF HostShape
    <3> QED  BY <2>0, <3>2, <3>4, <3>5, <3>6 DEF HostInv, HostShape
  <2>8. ASSUME NEW s \in Slots, Work(s) PROVE HostInv'
    <3>1. /\ requests[s] # <<>> /\ requests' = [requests EXCEPT ![s] = Tail(requests[s])]
          /\ working' = [working EXCEPT ![s] = [on |-> plugin[s], by |-> Head(requests[s]), respond |-> s]]
          /\ UNCHANGED <<descriptors, instance, schedule, plugin, phase, responses>>
      BY <2>8 DEF Work, pluginVars
    <3>2. requests[s] \in Seq(Handles)  BY <2>0 DEF HostShape
    <3>3. /\ Tail(requests[s]) \in Seq(Handles) /\ Range(Tail(requests[s])) \subseteq Range(requests[s])
          /\ Head(requests[s]) \in Handles /\ Head(requests[s]) = plugin[s]
      BY <2>0, <3>1, <3>2, RangeTail DEF SlotOK
    <3>4. SlotOK(s)'
      BY <2>0, <3>1, <3>3 DEF SlotOK, HostShape
    <3>5. ASSUME NEW t \in Slots \ {s} PROVE SlotOK(t)'
      BY <2>0, <3>1, <3>5, SlotUntouched DEF HostShape
    <3> QED  BY <2>0, <3>1, <3>3, <3>4, <3>5 DEF HostInv, HostShape
  <2>9. ASSUME NEW s \in Slots, Respond(s) PROVE HostInv'
    <3>1. working[s] # Null /\ working[s].respond = s /\ working[s].on = plugin[s] /\ plugin[s] \in Handles
      BY <2>0, <2>9 DEF Respond, SlotOK, HostShape
    <3>2. /\ responses' = [responses EXCEPT ![s] = Append(responses[s], plugin[s])]
          /\ UNCHANGED <<descriptors, instance, schedule, plugin, phase, working, requests>>
      BY <2>9, <3>1 DEF Respond, pluginVars
    <3>3. responses[s] \in Seq(Handles)  BY <2>0 DEF HostShape
    <3>4. responses' \in [Slots -> Seq(Handles)] /\ Range(responses'[s]) = Range(responses[s]) \cup {plugin[s]}
      BY <2>0, <3>1, <3>2, <3>3, RangeAppend DEF HostShape
    <3>5. SlotOK(s)'
      BY <2>0, <3>2, <3>4 DEF SlotOK
    <3>6. ASSUME NEW t \in Slots \ {s} PROVE SlotOK(t)'
      BY <2>0, <3>2, <3>6, SlotUntouched DEF HostShape
    <3> QED  BY <2>0, <3>2, <3>4, <3>5, <3>6 DEF HostInv, HostShape
  <2>10. ASSUME NEW s \in Slots, WorkDone(s) PROVE HostInv'
    <3>1. /\ working' = [working EXCEPT ![s] = Null]
          /\ UNCHANGED <<descriptors, instance, schedule, plugin, phase, requests, responses>>
      BY <2>10 DEF WorkDone, pluginVars
    <3>2. SlotOK(s)'
      BY <2>0, <3>1 DEF SlotOK, HostShape
    <3>3. ASSUME NEW t \in Slots \ {s} PROVE SlotOK(t)'
      BY <2>0, <3>1, <3>3, SlotUntouched DEF HostShape
    <3> QED  BY <2>0, <3>1, <3>2, <3>3 DEF HostInv, HostShape
  <2>11. ASSUME NEW s \in Slots, WorkResponse(s) PROVE HostInv'
    <3>1. /\ responses[s] # <<>> /\ responses' = [responses EXCEPT ![s] = Tail(responses[s])]
          /\ UNCHANGED <<descriptors, instance, schedule, plugin, phase, requests, working>>
      BY <2>11 DEF WorkResponse, pluginVars
    <3>2. responses[s] \in Seq(Handles)  BY <2>0 DEF HostShape
    <3>3. Tail(responses[s]) \in Seq(Handles) /\ Range(Tail(responses[s])) \subseteq Range(responses[s])
      BY <3>1, <3>2, RangeTail
    <3>4. SlotOK(s)'
      BY <2>0, <3>1, <3>3 DEF SlotOK, HostShape
    <3>5. ASSUME NEW t \in Slots \ {s} PROVE SlotOK(t)'
      BY <2>0, <3>1, <3>5, SlotUntouched DEF HostShape
    <3> QED  BY <2>0, <3>1, <3>3, <3>4, <3>5 DEF HostInv, HostShape
  <2>12. CASE UNCHANGED vars
    <3>1. UNCHANGED <<descriptors, instance, schedule, plugin, phase, requests, working, responses>>
      BY <2>12 DEF vars, pluginVars, workerVars
    <3>2. \A t \in Slots : SlotOK(t)'
      BY <2>0, <3>1, SlotUntouched DEF HostShape
    <3> QED  BY <2>0, <3>1, <3>2 DEF HostInv, HostShape
  <2> QED
    BY <1>2, <2>1, <2>2, <2>3, <2>4, <2>5, <2>6, <2>7, <2>8, <2>9, <2>10, <2>11, <2>12 DEF WorkerNext
<1> QED  BY <1>1, <1>2, PTL DEF WorkerSpec

(* For any number of slots, instances and queue sizes: no request and no   *)
(* response ever reaches another instance than the one it belongs to, or a *)
(* deleted one.                                                            *)
THEOREM WorkNeverStrays == WorkerSpec => []WorkStaysHome
<1>1. HostInv => WorkStaysHome
  <2> SUFFICES ASSUME HostInv, NEW s \in Slots
               PROVE  /\ \A h \in Range(requests[s]) \cup Range(responses[s]) :
                           h = plugin[s] /\ instance[h] # Null
                      /\ working[s] # Null => /\ working[s].on = working[s].by
                                              /\ working[s].on = plugin[s]
                                              /\ instance[plugin[s]] # Null
    BY DEF WorkStaysHome
  <2>1. requests[s] \in Seq(Handles) /\ responses[s] \in Seq(Handles)
    BY DEF HostInv, HostShape
  <2>2. Range(requests[s]) \subseteq Handles /\ Range(responses[s]) \subseteq Handles
    BY <2>1, RangeElements
  <2>3. Null \notin Handles
    BY PluginAssumption
  <2>4. plugin[s] \in Handles => instance[plugin[s]] # Null
    BY <2>3 DEF HostInv, SlotOK
  <2>5. ASSUME NEW h \in Range(requests[s]) \cup Range(responses[s])
        PROVE  h = plugin[s] /\ instance[h] # Null
    <3>1. h = plugin[s]  BY DEF HostInv, SlotOK
    <3> QED  BY <2>2, <2>4, <3>1
  <2>6. ASSUME working[s] # Null
        PROVE  working[s].on = working[s].by /\ working[s].on = plugin[s] /\ instance[plugin[s]] # Null
    <3>1. working[s].on = plugin[s] /\ working[s].by = plugin[s]
      <4>1. working[s] = [on |-> plugin[s], by |-> plugin[s], respond |-> s]
        BY <2>6, SMT DEF HostInv, SlotOK
      <4> QED  BY <4>1
    <3>2. working[s].on \in Handles
      BY <2>6 DEF HostInv, HostShape
    <3> QED  BY <2>4, <3>1, <3>2
  <2> QED  BY <2>5, <2>6
<1> QED  BY <1>1, HostInvariance, PTL

(* A host with its three threads instantiates and cleans up as Plugin      *)
(* says, so that what holds of Plugin holds there, too.                    *)
THEOREM WorkerImplementsPlugin == WorkerSpec => Spec
<1>1. WorkerInit => Init
  BY DEF WorkerInit
<1>2. ASSUME HostInv, [WorkerNext]_vars PROVE [Next]_pluginVars
  <2>1. CASE Load  BY <2>1 DEF Load, Next
  <2>2. ASSUME NEW s \in Slots, New(s) PROVE Next
    BY <2>2 DEF New, FeaturesFor, Next
  <2>3. ASSUME NEW s \in Slots, NewRefused(s) PROVE Next
    BY <2>3 DEF NewRefused, FeaturesFor, Next
  <2>4. ASSUME NEW s \in Slots, Delete(s) PROVE Next
    <3>1. plugin[s] \in Handles  BY <1>2, <2>4 DEF Delete, HostInv, HostShape
    <3> QED  BY <2>4, <3>1 DEF Delete, Next
  <2>5. ASSUME NEW s \in Slots,
               \/ Activate(s) \/ Run(s) \/ Ran(s) \/ EndRun(s) \/ Deactivate(s)
               \/ ScheduleNowhere(s) \/ ScheduleWork(s) \/ Work(s) \/ Respond(s)
               \/ WorkDone(s) \/ WorkResponse(s)
        PROVE  UNCHANGED pluginVars
    BY <2>5 DEF Activate, Run, Ran, EndRun, Deactivate, Move, ScheduleNowhere, ScheduleWork,
         Work, Respond, WorkDone, WorkResponse, vars
  <2>6. CASE UNCHANGED vars  BY <2>6 DEF vars
  <2> QED  BY <1>2, <2>1, <2>2, <2>3, <2>4, <2>5, <2>6 DEF WorkerNext
<1> QED  BY <1>1, <1>2, HostInvariance, PTL DEF WorkerSpec, Spec
-----------------------------------------------------------------------------
(* An instance was told of as many requests as are waiting for it, and a   *)
(* slot without one has empty queues.                                      *)
CountsOK(s) ==
  /\ Len(requests[s]) <= QueueSize /\ Len(responses[s]) <= QueueSize
  /\ plugin[s] = Null => requests[s] = <<>> /\ responses[s] = <<>>
  /\ plugin[s] # Null => told[plugin[s]] = Len(requests[s])

CountsInv ==
  /\ told \in [Handles -> Nat]
  /\ \A h \in Handles : (\A s \in Slots : plugin[s] # h) => told[h] = 0
  /\ \A s \in Slots : CountsOK(s)

LEMMA CountsSame ==
  ASSUME CountsInv, UNCHANGED <<told, plugin, requests, responses>> PROVE CountsInv'
BY DEF CountsInv, CountsOK

(* The steps that change the queues of one slot, or what its instance was  *)
(* told.                                                                   *)
LEMMA CountsStep ==
  ASSUME HostInv, CountsInv, NEW s \in Slots, plugin[s] # Null, plugin' = plugin,
         NEW n \in Nat, told' = [told EXCEPT ![plugin[s]] = n],
         \A t \in Slots \ {s} : requests'[t] = requests[t] /\ responses'[t] = responses[t],
         Len(requests'[s]) = n, n <= QueueSize, Len(responses'[s]) <= QueueSize
  PROVE  CountsInv'
<1>1. /\ told' \in [Handles -> Nat] /\ plugin[s] \in Handles /\ told'[plugin[s]] = n
      /\ \A h \in Handles \ {plugin[s]} : told'[h] = told[h]
  BY DEF CountsInv, HostInv, HostShape
<1>2. ASSUME NEW t \in Slots PROVE CountsOK(t)'
  <2>1. CASE t = s  BY <1>1, <2>1 DEF CountsOK
  <2>2. CASE t # s
    <3>1. plugin[t] # Null => plugin[t] \in Handles \ {plugin[s]}
      BY <2>2 DEF HostInv, HostShape
    <3> QED  BY <1>1, <2>2, <3>1 DEF CountsInv, CountsOK
  <2> QED  BY <2>1, <2>2
<1>3. ASSUME NEW h \in Handles, \A t \in Slots : plugin'[t] # h PROVE told'[h] = 0
  BY <1>1, <1>3 DEF CountsInv
<1> QED  BY <1>1, <1>2, <1>3 DEF CountsInv

(* What the steps of the two threads do to the queues of slot s.           *)
LEMMA ScheduleWorkDoes ==
  ASSUME HostInv, CountsInv, NEW s \in Slots, ScheduleWork(s)
  PROVE  /\ plugin[s] \in Handles /\ UNCHANGED <<plugin, responses>>
         /\ \/ UNCHANGED <<requests, told>>
            \/ /\ Len(requests[s]) < QueueSize
               /\ told' = [told EXCEPT ![plugin[s]] = told[plugin[s]] + 1]
               /\ requests' = [requests EXCEPT ![s] = Append(requests[s], plugin[s])]
               /\ Len(requests'[s]) = Len(requests[s]) + 1
<1>1. plugin[s] \in Handles /\ schedule[plugin[s]] = s
  BY DEF ScheduleWork, HostInv, HostShape, SlotOK
<1>2. /\ UNCHANGED <<plugin, responses>>
      /\ requests' = IF Len(requests[s]) = QueueSize THEN requests
                     ELSE [requests EXCEPT ![s] = Append(requests[s], plugin[s])]
      /\ told' = IF Len(requests[s]) = QueueSize THEN told
                 ELSE [told EXCEPT ![plugin[s]] = told[plugin[s]] + 1]
  BY <1>1 DEF ScheduleWork
<1>3. requests \in [Slots -> Seq(Handles)] /\ requests[s] \in Seq(Handles)
  BY DEF HostInv, HostShape
<1>4. Len(Append(requests[s], plugin[s])) = Len(requests[s]) + 1 /\ Len(requests[s]) \in Nat
  BY <1>1, <1>3, AppendProperties, LenProperties
<1>5. Len(requests[s]) <= QueueSize
  BY DEF CountsInv, CountsOK
<1>6. CASE Len(requests[s]) = QueueSize
  BY <1>1, <1>2, <1>6
<1>7. CASE Len(requests[s]) # QueueSize
  <2>1. Len(requests[s]) < QueueSize
    BY <1>4, <1>5, <1>7, WorkerAssumption
  <2>2. requests' = [requests EXCEPT ![s] = Append(requests[s], plugin[s])]
    BY <1>2, <1>7
  <2>3. requests'[s] = Append(requests[s], plugin[s])
    BY <1>3, <2>2
  <2> QED  BY <1>1, <1>2, <1>4, <1>7, <2>1, <2>2, <2>3
<1> QED  BY <1>6, <1>7

LEMMA WorkDoes ==
  ASSUME HostInv, CountsInv, NEW s \in Slots, Work(s)
  PROVE  /\ plugin[s] \in Handles /\ UNCHANGED <<plugin, responses>>
         /\ told' = [told EXCEPT ![plugin[s]] = told[plugin[s]] - 1]
         /\ requests' = [requests EXCEPT ![s] = Tail(requests[s])]
         /\ Len(requests[s]) \in Nat \ {0} /\ Len(requests'[s]) = Len(requests[s]) - 1
<1>1. requests \in [Slots -> Seq(Handles)] /\ requests[s] \in Seq(Handles) /\ requests[s] # <<>>
  BY DEF Work, HostInv, HostShape
<1>2. Len(Tail(requests[s])) = Len(requests[s]) - 1 /\ Len(requests[s]) \in Nat \ {0}
  BY <1>1, HeadTailProperties, EmptySeq
<1>3. plugin[s] \in Handles
  BY <1>1 DEF CountsInv, CountsOK, HostInv, HostShape
<1> QED  BY <1>1, <1>2, <1>3 DEF Work

LEMMA RespondDoes ==
  ASSUME HostInv, NEW s \in Slots, Respond(s)
  PROVE  /\ plugin[s] \in Handles /\ UNCHANGED <<plugin, requests, told>>
         /\ responses' = [responses EXCEPT ![s] = Append(responses[s], plugin[s])]
         /\ Len(responses[s]) \in Nat /\ Len(responses[s]) < QueueSize
         /\ Len(responses'[s]) = Len(responses[s]) + 1
<1>1. working[s].respond = s /\ working[s].on = plugin[s] /\ plugin[s] \in Handles
  BY DEF Respond, SlotOK, HostInv, HostShape
<1>2. responses \in [Slots -> Seq(Handles)] /\ responses[s] \in Seq(Handles)
  BY DEF HostInv, HostShape
<1>3. Len(Append(responses[s], plugin[s])) = Len(responses[s]) + 1 /\ Len(responses[s]) \in Nat
  BY <1>1, <1>2, AppendProperties, LenProperties
<1>4. /\ responses' = [responses EXCEPT ![s] = Append(responses[s], plugin[s])]
      /\ Len(responses[s]) < QueueSize /\ UNCHANGED <<plugin, requests, told>>
  BY <1>1 DEF Respond
<1> QED  BY <1>1, <1>2, <1>3, <1>4

LEMMA WorkResponseDoes ==
  ASSUME HostInv, NEW s \in Slots, WorkResponse(s)
  PROVE  /\ plugin[s] \in Handles /\ UNCHANGED <<plugin, requests, told>>
         /\ responses' = [responses EXCEPT ![s] = Tail(responses[s])]
         /\ Len(responses[s]) \in Nat \ {0} /\ Len(responses'[s]) = Len(responses[s]) - 1
<1>1. responses \in [Slots -> Seq(Handles)] /\ responses[s] \in Seq(Handles) /\ responses[s] # <<>>
  BY DEF WorkResponse, HostInv, HostShape
<1>2. Len(Tail(responses[s])) = Len(responses[s]) - 1 /\ Len(responses[s]) \in Nat \ {0}
  BY <1>1, HeadTailProperties, EmptySeq
<1>3. plugin[s] \in Handles
  BY DEF WorkResponse, SlotOK, HostInv, HostShape
<1> QED  BY <1>1, <1>2, <1>3 DEF WorkResponse

LEMMA NewDoes ==
  ASSUME HostInv, NEW s \in Slots, New(s)
  PROVE  /\ plugin[s] = Null /\ UNCHANGED <<requests, responses, told>>
         /\ \E h \in Handles : plugin' = [plugin EXCEPT ![s] = h] /\ \A t \in Slots : plugin[t] # h
<1>1. PICK h \in Handles : instance[h] = Null /\ plugin' = [plugin EXCEPT ![s] = h]
  BY DEF New, Instantiate
<1>2. \A t \in Slots : plugin[t] # h
  BY <1>1, PluginAssumption DEF HostInv, SlotOK
<1> QED  BY <1>1, <1>2 DEF New

LEMMA DeleteDoes ==
  ASSUME HostInv, NEW s \in Slots, Delete(s)
  PROVE  /\ plugin[s] \in Handles
         /\ told' = [told EXCEPT ![plugin[s]] = 0] /\ plugin' = [plugin EXCEPT ![s] = Null]
         /\ requests' = [requests EXCEPT ![s] = <<>>] /\ responses' = [responses EXCEPT ![s] = <<>>]
         /\ \A t \in Slots \ {s} : plugin[t] # plugin[s]
BY DEF Delete, HostInv, HostShape

(* The other steps leave queues and counts alone. *)
LEMMA OthersDoNothing ==
  ASSUME NEW s \in Slots,
         \/ NewRefused(s) \/ Activate(s) \/ Run(s) \/ Ran(s) \/ EndRun(s) \/ Deactivate(s)
         \/ ScheduleNowhere(s) \/ WorkDone(s)
  PROVE  UNCHANGED <<told, plugin, requests, responses>>
BY DEF NewRefused, Activate, Run, Ran, EndRun, Deactivate, Move, ScheduleNowhere, WorkDone,
       vars, workerVars

LEMMA CountsInvariance == WorkerSpec => []CountsInv
<1>1. WorkerInit => CountsInv
  BY EmptySeq, WorkerAssumption DEF WorkerInit, CountsInv, CountsOK
<1>2. ASSUME HostInv, CountsInv, [WorkerNext]_vars PROVE CountsInv'
  <2>0. \A s \in Slots : CountsOK(s) /\ requests[s] \in Seq(Handles) /\ responses[s] \in Seq(Handles)
    BY <1>2 DEF CountsInv, HostInv, HostShape
  <2>1. CASE Load
    BY <1>2, <2>1, CountsSame DEF Load, workerVars
  <2>2. ASSUME NEW s \in Slots, New(s) PROVE CountsInv'
    <3>1. PICK h \in Handles : plugin' = [plugin EXCEPT ![s] = h] /\ \A t \in Slots : plugin[t] # h
      BY <1>2, <2>2, NewDoes
    <3>2. plugin[s] = Null /\ UNCHANGED <<requests, responses, told>>
      BY <1>2, <2>2, NewDoes
    <3>3. told[h] = 0 /\ requests[s] = <<>> /\ plugin'[s] = h
      BY <1>2, <3>1, <3>2 DEF CountsInv, CountsOK, HostInv, HostShape
    <3>4. CountsOK(s)'
      BY <2>0, <3>1, <3>2, <3>3, EmptySeq, PluginAssumption DEF CountsOK
    <3>5. ASSUME NEW t \in Slots \ {s} PROVE CountsOK(t)'
      <4>1. plugin'[t] = plugin[t]  BY <1>2, <3>1, <3>5 DEF HostInv, HostShape
      <4> QED  BY <2>0, <3>2, <4>1 DEF CountsOK
    <3>6. ASSUME NEW k \in Handles, \A t \in Slots : plugin'[t] # k PROVE told'[k] = 0
      <4>1. k # h  BY <3>3, <3>6
      <4>2. \A t \in Slots : plugin[t] # k
        BY <1>2, <3>1, <3>2, <3>6, PluginAssumption DEF HostInv, HostShape
      <4> QED  BY <1>2, <3>2, <4>2 DEF CountsInv
    <3> QED  BY <1>2, <3>2, <3>4, <3>5, <3>6 DEF CountsInv
  <2>3. ASSUME NEW s \in Slots, Delete(s) PROVE CountsInv'
    <3> DEFINE h == plugin[s]
    <3>1. /\ h \in Handles /\ \A t \in Slots \ {s} : plugin[t] # h
          /\ told' = [told EXCEPT ![h] = 0] /\ plugin' = [plugin EXCEPT ![s] = Null]
          /\ requests' = [requests EXCEPT ![s] = <<>>] /\ responses' = [responses EXCEPT ![s] = <<>>]
      BY <1>2, <2>3, DeleteDoes
    <3>2. /\ plugin'[s] = Null /\ requests'[s] = <<>> /\ responses'[s] = <<>>
          /\ \A t \in Slots \ {s} : plugin'[t] = plugin[t] /\ requests'[t] = requests[t]
                                    /\ responses'[t] = responses[t]
          /\ told' \in [Handles -> Nat] /\ told'[h] = 0
          /\ \A k \in Handles \ {h} : told'[k] = told[k]
      BY <1>2, <3>1 DEF CountsInv, HostInv, HostShape
    <3>3. CountsOK(s)'
      BY <3>2, EmptySeq, WorkerAssumption DEF CountsOK
    <3>4. ASSUME NEW t \in Slots \ {s} PROVE CountsOK(t)'
      <4>1. plugin[t] # Null => plugin[t] \in Handles \ {h}
        BY <1>2, <3>1, <3>4 DEF HostInv, HostShape
      <4> QED  BY <2>0, <3>2, <3>4, <4>1 DEF CountsOK
    <3>5. ASSUME NEW k \in Handles, \A t \in Slots : plugin'[t] # k PROVE told'[k] = 0
      BY <1>2, <3>2, <3>5 DEF CountsInv
    <3> QED  BY <3>2, <3>3, <3>4, <3>5 DEF CountsInv
  <2>4. ASSUME NEW s \in Slots, ScheduleWork(s) PROVE CountsInv'
    <3>1. plugin[s] \in Handles /\ UNCHANGED <<plugin, responses>>
      BY <1>2, <2>4, ScheduleWorkDoes
    <3>2. CASE UNCHANGED <<requests, told>>
      BY <1>2, <3>1, <3>2, CountsSame
    <3>3. CASE /\ Len(requests[s]) < QueueSize
               /\ told' = [told EXCEPT ![plugin[s]] = told[plugin[s]] + 1]
               /\ requests' = [requests EXCEPT ![s] = Append(requests[s], plugin[s])]
               /\ Len(requests'[s]) = Len(requests[s]) + 1
      <4> DEFINE n == Len(requests[s]) + 1
      <4>1. Len(requests[s]) \in Nat  BY <2>0, LenProperties
      <4>2. plugin[s] # Null  BY <3>1, PluginAssumption
      <4>3. n \in Nat /\ n <= QueueSize /\ told' = [told EXCEPT ![plugin[s]] = n]
        <5>1. told[plugin[s]] = Len(requests[s])
          BY <2>0, <4>2 DEF CountsOK
        <5>2. n \in Nat /\ n <= QueueSize
          BY <3>3, <4>1, WorkerAssumption
        <5>3. told' = [told EXCEPT ![plugin[s]] = n]
          BY <3>3, <5>1
        <5> QED  BY <5>2, <5>3
      <4>4. \A t \in Slots \ {s} : requests'[t] = requests[t] /\ responses'[t] = responses[t]
        BY <1>2, <3>1, <3>3 DEF HostInv, HostShape
      <4>5. Len(requests'[s]) = n /\ Len(responses'[s]) <= QueueSize
        BY <2>0, <3>1, <3>3 DEF CountsOK
      <4> QED  BY <1>2, <3>1, <4>2, <4>3, <4>4, <4>5, CountsStep
    <3> QED  BY <1>2, <2>4, <3>2, <3>3, ScheduleWorkDoes
  <2>5. ASSUME NEW s \in Slots, Work(s) PROVE CountsInv'
    <3> DEFINE n == Len(requests[s]) - 1
    <3>1. /\ plugin[s] \in Handles /\ UNCHANGED <<plugin, responses>>
          /\ told' = [told EXCEPT ![plugin[s]] = told[plugin[s]] - 1]
          /\ requests' = [requests EXCEPT ![s] = Tail(requests[s])]
          /\ Len(requests[s]) \in Nat \ {0} /\ Len(requests'[s]) = n
      BY <1>2, <2>5, WorkDoes
    <3>2. plugin[s] # Null  BY <3>1, PluginAssumption
    <3>3. n \in Nat /\ n <= QueueSize /\ told' = [told EXCEPT ![plugin[s]] = n]
      <4>1. told[plugin[s]] = Len(requests[s]) /\ Len(requests[s]) <= QueueSize
        BY <2>0, <3>2 DEF CountsOK
      <4>2. n \in Nat /\ n <= QueueSize
        BY <3>1, <4>1, WorkerAssumption
      <4>3. told' = [told EXCEPT ![plugin[s]] = n]
        BY <3>1, <4>1
      <4> QED  BY <4>2, <4>3
    <3>4. \A t \in Slots \ {s} : requests'[t] = requests[t] /\ responses'[t] = responses[t]
      BY <1>2, <3>1 DEF HostInv, HostShape
    <3>5. Len(responses'[s]) <= QueueSize
      BY <2>0, <3>1 DEF CountsOK
    <3> QED  BY <1>2, <3>1, <3>2, <3>3, <3>4, <3>5, CountsStep
  <2>6. ASSUME NEW s \in Slots, Respond(s) \/ WorkResponse(s) PROVE CountsInv'
    <3> DEFINE n == Len(requests[s])
    <3>1. /\ plugin[s] \in Handles /\ UNCHANGED <<plugin, requests, told>>
          /\ \A t \in Slots \ {s} : responses'[t] = responses[t]
          /\ Len(responses'[s]) <= QueueSize
      <4>1. responses \in [Slots -> Seq(Handles)] /\ Len(responses[s]) <= QueueSize
        BY <1>2, <2>0 DEF HostInv, HostShape, CountsOK
      <4>2. CASE Respond(s)
        BY <1>2, <4>1, <4>2, RespondDoes, WorkerAssumption
      <4>3. CASE WorkResponse(s)
        BY <1>2, <4>1, <4>3, WorkResponseDoes, WorkerAssumption
      <4> QED  BY <2>6, <4>2, <4>3
    <3>2. plugin[s] # Null  BY <3>1, PluginAssumption
    <3>3. n \in Nat /\ n <= QueueSize /\ told[plugin[s]] = n
      BY <2>0, <3>2, LenProperties DEF CountsOK
    <3>4. told' = [told EXCEPT ![plugin[s]] = n]
      BY <1>2, <3>1, <3>3 DEF CountsInv
    <3> QED  BY <1>2, <3>1, <3>2, <3>3, <3>4, CountsStep
  <2>7. ASSUME NEW s \in Slots,
               \/ NewRefused(s) \/ Activate(s) \/ Run(s) \/ Ran(s) \/ EndRun(s) \/ Deactivate(s)
               \/ ScheduleNowhere(s) \/ WorkDone(s)
        PROVE  CountsInv'
    BY <1>2, <2>7, OthersDoNothing, CountsSame
  <2>8. CASE UNCHANGED vars
    BY <1>2, <2>8, CountsSame DEF vars, workerVars
  <2> QED
    BY <1>2, <2>1, <2>2, <2>3, <2>4, <2>5, <2>6, <2>7, <2>8 DEF WorkerNext
<1> QED  BY <1>1, <1>2, HostInvariance, PTL DEF WorkerSpec

(* Every value the host, the library and the plugin keep has its type, and *)
(* no queue and no count of accepted requests exceeds the host's queues.   *)
THEOREM WorkerTypeCorrect == WorkerSpec => []TypeOK
<1>1. PluginTypeOK /\ HostInv /\ CountsInv => TypeOK
  <2> SUFFICES ASSUME PluginTypeOK, HostInv, CountsInv PROVE TypeOK
    OBVIOUS
  <2>1. ASSUME NEW h \in Handles PROVE told[h] \in 0 .. QueueSize
    <3>1. CASE \A s \in Slots : plugin[s] # h
      BY <3>1, WorkerAssumption DEF CountsInv
    <3>2. ASSUME NEW s \in Slots, plugin[s] = h PROVE told[h] \in 0 .. QueueSize
      BY <3>2, PluginAssumption DEF CountsInv, CountsOK
    <3> QED  BY <3>1, <3>2
  <2>2. told \in [Handles -> 0 .. QueueSize]
    BY <2>1 DEF CountsInv
  <2>3. \A q \in {requests, responses} :
          q \in [Slots -> Seq(Handles)] /\ \A s \in Slots : Len(q[s]) <= QueueSize
    BY DEF HostInv, HostShape, CountsInv, CountsOK
  <2> QED  BY <2>2, <2>3 DEF TypeOK, HostInv, HostShape
<1> QED
  BY <1>1, WorkerImplementsPlugin, PluginTypeCorrect, HostInvariance, CountsInvariance, PTL
-----------------------------------------------------------------------------
(* What WorkChannels sees of the host's queues. *)
Pending == [h \in Handles |-> Waiting(requests, h)]
Undelivered == [h \in Handles |-> Waiting(responses, h)]

SlotCounts ==
  \A h \in Handles :
    /\ (\A s \in Slots : plugin[s] # h) => Pending[h] = 0 /\ Undelivered[h] = 0
    /\ \A s \in Slots : plugin[s] = h => Pending[h] = Len(requests[s]) /\ Undelivered[h] = Len(responses[s])

LEMMA SlotCountsInvariance == WorkerSpec => []SlotCounts
<1>1. HostInv => SlotCounts
  <2> SUFFICES ASSUME HostInv, NEW h \in Handles
               PROVE  /\ (\A s \in Slots : plugin[s] # h) => Pending[h] = 0 /\ Undelivered[h] = 0
                      /\ \A s \in Slots : plugin[s] = h => /\ Pending[h] = Len(requests[s])
                                                           /\ Undelivered[h] = Len(responses[s])
    BY DEF SlotCounts
  <2>1. Pending[h] = Waiting(requests, h) /\ Undelivered[h] = Waiting(responses, h)
    BY DEF Pending, Undelivered
  <2>2. ASSUME NEW s \in Slots, plugin[s] = h
        PROVE  Waiting(requests, h) = Len(requests[s]) /\ Waiting(responses, h) = Len(responses[s])
    <3>1. \A t \in Slots : plugin[t] = h <=> t = s
      BY <2>2, PluginAssumption DEF HostInv
    <3>2. (CHOOSE t \in Slots : plugin[t] = h) = s
      BY <3>1
    <3> QED  BY <2>2, <3>2 DEF Waiting
  <2>3. ASSUME \A s \in Slots : plugin[s] # h
        PROVE  Waiting(requests, h) = 0 /\ Waiting(responses, h) = 0
    BY <2>3 DEF Waiting
  <2> QED  BY <2>1, <2>2, <2>3
<1> QED  BY <1>1, HostInvariance, PTL

(* A step that changes only the queues of one slot changes what its        *)
(* instance is owed, and nothing else.                                     *)
LEMMA OneSlotChanges ==
  ASSUME SlotCounts, SlotCounts', NEW s \in Slots, plugin[s] \in Handles, plugin' = plugin,
         \A t \in Slots \ {s} : requests'[t] = requests[t] /\ responses'[t] = responses[t]
  PROVE  /\ Pending[plugin[s]] = Len(requests[s]) /\ Undelivered[plugin[s]] = Len(responses[s])
         /\ Pending' = [Pending EXCEPT ![plugin[s]] = Len(requests'[s])]
         /\ Undelivered' = [Undelivered EXCEPT ![plugin[s]] = Len(responses'[s])]
<1> DEFINE h == plugin[s]
<1>1. /\ Pending[h] = Len(requests[s]) /\ Undelivered[h] = Len(responses[s])
      /\ Pending'[h] = Len(requests'[s]) /\ Undelivered'[h] = Len(responses'[s])
  BY DEF SlotCounts
<1>2. ASSUME NEW k \in Handles \ {h} PROVE Pending'[k] = Pending[k] /\ Undelivered'[k] = Undelivered[k]
  <2>1. CASE \A t \in Slots : plugin[t] # k
    BY <2>1 DEF SlotCounts
  <2>2. ASSUME NEW t \in Slots, plugin[t] = k PROVE Pending'[k] = Pending[k] /\ Undelivered'[k] = Undelivered[k]
    <3>1. requests'[t] = requests[t] /\ responses'[t] = responses[t] /\ plugin'[t] = k
      BY <1>2, <2>2
    <3> QED  BY <2>2, <3>1 DEF SlotCounts
  <2> QED  BY <2>1, <2>2
<1>3. /\ Pending = [k \in Handles |-> Pending[k]] /\ Pending' = [k \in Handles |-> Pending'[k]]
      /\ Undelivered = [k \in Handles |-> Undelivered[k]] /\ Undelivered' = [k \in Handles |-> Undelivered'[k]]
  BY DEF Pending, Undelivered
<1> QED  BY <1>1, <1>2, <1>3

(* The steps of WorkChannels, said of Pending and Undelivered. *)
LEMMA ChannelSteps ==
  ASSUME NEW h \in Handles
  PROVE  /\ /\ Pending' = [Pending EXCEPT ![h] = Pending[h] + 1]
            /\ told' = [told EXCEPT ![h] = told[h] + 1] /\ Undelivered' = Undelivered
            => Channels!Next
         /\ /\ Pending[h] > 0 /\ Pending' = [Pending EXCEPT ![h] = Pending[h] - 1]
            /\ told' = [told EXCEPT ![h] = told[h] - 1] /\ Undelivered' = Undelivered
            => Channels!Next
         /\ /\ Undelivered' = [Undelivered EXCEPT ![h] = Undelivered[h] + 1]
            /\ Pending' = Pending /\ told' = told
            => Channels!Next
         /\ /\ Undelivered[h] > 0 /\ Undelivered' = [Undelivered EXCEPT ![h] = Undelivered[h] - 1]
            /\ Pending' = Pending /\ told' = told
            => Channels!Next
         /\ /\ Pending' = [Pending EXCEPT ![h] = 0] /\ Undelivered' = [Undelivered EXCEPT ![h] = 0]
            /\ told' = [told EXCEPT ![h] = 0]
            => Channels!Next
         /\ UNCHANGED <<Pending, Undelivered, told>> => UNCHANGED Channels!vars
BY DEF Channels!Next, Channels!Accept, Channels!Work, Channels!Respond, Channels!Deliver,
       Channels!Discard, Channels!vars, Pending, Undelivered

LEMMA QueuesSame ==
  ASSUME UNCHANGED <<plugin, requests, responses>> PROVE UNCHANGED <<Pending, Undelivered>>
BY DEF Pending, Undelivered, Waiting

(* Making an instance, in a slot of its own, owes nobody anything. *)
LEMMA NewOwesNothing ==
  ASSUME HostInv, CountsInv, SlotCounts, SlotCounts', NEW s \in Slots, New(s)
  PROVE  UNCHANGED <<Pending, Undelivered>>
<1>1. PICK h \in Handles : plugin' = [plugin EXCEPT ![s] = h] /\ \A t \in Slots : plugin[t] # h
  BY NewDoes
<1>2. plugin[s] = Null /\ UNCHANGED <<requests, responses>>
  BY NewDoes
<1>3. plugin \in [Slots -> Handles \cup {Null}]
  BY DEF HostInv, HostShape
<1>4. requests[s] = <<>> /\ responses[s] = <<>>
  BY <1>2 DEF CountsInv, CountsOK
<1>5. ASSUME NEW k \in Handles PROVE Pending'[k] = Pending[k] /\ Undelivered'[k] = Undelivered[k]
  <2>1. CASE k = h
    <3>1. plugin'[s] = k  BY <1>1, <1>3, <2>1
    <3>2. Pending'[k] = Len(requests'[s]) /\ Undelivered'[k] = Len(responses'[s])
      BY <3>1 DEF SlotCounts
    <3>3. Pending[k] = 0 /\ Undelivered[k] = 0
      BY <1>1, <2>1 DEF SlotCounts
    <3> QED  BY <1>2, <1>4, <3>2, <3>3, EmptySeq
  <2>2. CASE k # h
    <3>1. \A t \in Slots : plugin'[t] = k <=> plugin[t] = k
      BY <1>1, <1>2, <1>3, <2>2, PluginAssumption
    <3>2. CASE \A t \in Slots : plugin[t] # k
      BY <3>1, <3>2 DEF SlotCounts
    <3>3. ASSUME NEW t \in Slots, plugin[t] = k PROVE Pending'[k] = Pending[k] /\ Undelivered'[k] = Undelivered[k]
      BY <1>2, <3>1, <3>3 DEF SlotCounts
    <3> QED  BY <3>2, <3>3
  <2> QED  BY <2>1, <2>2
<1> QED  BY <1>5 DEF Pending, Undelivered

(* cleanup() of an instance discards what it is owed, and nothing else. *)
LEMMA DeleteDiscards ==
  ASSUME HostInv, SlotCounts, SlotCounts', NEW s \in Slots, Delete(s)
  PROVE  /\ Pending' = [Pending EXCEPT ![plugin[s]] = 0]
         /\ Undelivered' = [Undelivered EXCEPT ![plugin[s]] = 0]
<1> DEFINE h == plugin[s]
<1>1. /\ h \in Handles /\ plugin' = [plugin EXCEPT ![s] = Null]
      /\ \A t \in Slots \ {s} : plugin[t] # h
      /\ requests' = [requests EXCEPT ![s] = <<>>] /\ responses' = [responses EXCEPT ![s] = <<>>]
  BY DeleteDoes
<1>2. /\ plugin'[s] = Null
      /\ \A t \in Slots \ {s} : plugin'[t] = plugin[t] /\ requests'[t] = requests[t]
                                /\ responses'[t] = responses[t]
  BY <1>1 DEF HostInv, HostShape
<1>3. Pending'[h] = 0 /\ Undelivered'[h] = 0
  <2>1. \A t \in Slots : plugin'[t] # h
    BY <1>1, <1>2, PluginAssumption
  <2> QED  BY <1>1, <2>1 DEF SlotCounts
<1>4. ASSUME NEW k \in Handles \ {h} PROVE Pending'[k] = Pending[k] /\ Undelivered'[k] = Undelivered[k]
  <2>1. CASE \A t \in Slots : plugin[t] # k
    <3>1. \A t \in Slots : plugin'[t] # k
      BY <1>2, <2>1, PluginAssumption
    <3> QED  BY <2>1, <3>1 DEF SlotCounts
  <2>2. ASSUME NEW t \in Slots, plugin[t] = k PROVE Pending'[k] = Pending[k] /\ Undelivered'[k] = Undelivered[k]
    <3>1. plugin'[t] = k /\ requests'[t] = requests[t] /\ responses'[t] = responses[t]
      BY <1>2, <1>4, <2>2
    <3> QED  BY <2>2, <3>1 DEF SlotCounts
  <2> QED  BY <2>1, <2>2
<1>5. /\ Pending = [k \in Handles |-> Pending[k]] /\ Pending' = [k \in Handles |-> Pending'[k]]
      /\ Undelivered = [k \in Handles |-> Undelivered[k]] /\ Undelivered' = [k \in Handles |-> Undelivered'[k]]
  BY DEF Pending, Undelivered
<1> QED  BY <1>1, <1>3, <1>4, <1>5

(* The host, the instances and the two threads implement WorkChannels: a   *)
(* request is owed to an instance exactly when it was told SUCCESS, and    *)
(* what is owed is only ever delivered to it, or discarded with it.        *)
THEOREM WorkerImplementsChannels == WorkerSpec => ImplementsSafeChannels
<1>1. WorkerInit => Channels!Init
  BY PluginAssumption DEF WorkerInit, Channels!Init, Waiting
<1>2. HostInv /\ CountsInv /\ SlotCounts /\ SlotCounts' /\ [WorkerNext]_vars
      => [Channels!Next]_(Channels!vars)
  <2> SUFFICES ASSUME HostInv, CountsInv, SlotCounts, SlotCounts', [WorkerNext]_vars
               PROVE  Channels!Next \/ UNCHANGED Channels!vars
    OBVIOUS
  <2>0. /\ requests \in [Slots -> Seq(Handles)] /\ responses \in [Slots -> Seq(Handles)]
        /\ \A s \in Slots : CountsOK(s)
    BY DEF HostInv, HostShape, CountsInv
  <2>1. ASSUME UNCHANGED <<plugin, requests, responses, told>> PROVE UNCHANGED Channels!vars
    <3>1. UNCHANGED <<Pending, Undelivered, told>>  BY <2>1, QueuesSame
    <3> QED  BY <3>1 DEF Channels!vars, Pending, Undelivered
  <2>2. CASE Load
    BY <2>1, <2>2 DEF Load, workerVars
  <2>3. ASSUME NEW s \in Slots, New(s) PROVE UNCHANGED Channels!vars
    <3>1. UNCHANGED <<Pending, Undelivered, told>>  BY <2>3, NewOwesNothing, NewDoes
    <3> QED  BY <3>1 DEF Channels!vars, Pending, Undelivered
  <2>4. ASSUME NEW s \in Slots, Delete(s) PROVE Channels!Next
    BY <2>4, DeleteDoes, DeleteDiscards, ChannelSteps
  <2>5. ASSUME NEW s \in Slots, ScheduleWork(s) PROVE Channels!Next \/ UNCHANGED Channels!vars
    <3>1. plugin[s] \in Handles /\ UNCHANGED <<plugin, responses>>
      BY <2>5, ScheduleWorkDoes
    <3>2. CASE UNCHANGED <<requests, told>>
      BY <2>1, <3>1, <3>2
    <3>3. CASE /\ told' = [told EXCEPT ![plugin[s]] = told[plugin[s]] + 1]
               /\ requests' = [requests EXCEPT ![s] = Append(requests[s], plugin[s])]
               /\ Len(requests'[s]) = Len(requests[s]) + 1
      <4>1. \A t \in Slots \ {s} : requests'[t] = requests[t] /\ responses'[t] = responses[t]
        BY <2>0, <3>1, <3>3
      <4>2. /\ Pending[plugin[s]] = Len(requests[s]) /\ Undelivered[plugin[s]] = Len(responses[s])
            /\ Pending' = [Pending EXCEPT ![plugin[s]] = Len(requests'[s])]
            /\ Undelivered' = [Undelivered EXCEPT ![plugin[s]] = Len(responses'[s])]
        BY <3>1, <4>1, OneSlotChanges
      <4>3. Pending' = [Pending EXCEPT ![plugin[s]] = Pending[plugin[s]] + 1] /\ Undelivered' = Undelivered
        BY <3>1, <3>3, <4>2 DEF Undelivered
      <4> QED  BY <3>1, <3>3, <4>3, ChannelSteps
    <3> QED  BY <2>5, <3>2, <3>3, ScheduleWorkDoes
  <2>6. ASSUME NEW s \in Slots, Work(s) PROVE Channels!Next
    <3>1. /\ plugin[s] \in Handles /\ UNCHANGED <<plugin, responses>>
          /\ told' = [told EXCEPT ![plugin[s]] = told[plugin[s]] - 1]
          /\ requests' = [requests EXCEPT ![s] = Tail(requests[s])]
          /\ Len(requests[s]) \in Nat \ {0} /\ Len(requests'[s]) = Len(requests[s]) - 1
      BY <2>6, WorkDoes
    <3>2. \A t \in Slots \ {s} : requests'[t] = requests[t] /\ responses'[t] = responses[t]
      BY <2>0, <3>1
    <3>3. /\ Pending[plugin[s]] = Len(requests[s]) /\ Undelivered[plugin[s]] = Len(responses[s])
          /\ Pending' = [Pending EXCEPT ![plugin[s]] = Len(requests'[s])]
          /\ Undelivered' = [Undelivered EXCEPT ![plugin[s]] = Len(responses'[s])]
      BY <3>1, <3>2, OneSlotChanges
    <3>4. Pending' = [Pending EXCEPT ![plugin[s]] = Pending[plugin[s]] - 1] /\ Undelivered' = Undelivered
      BY <3>1, <3>3 DEF Undelivered
    <3>5. Pending[plugin[s]] > 0  BY <3>1, <3>3
    <3> QED  BY <3>1, <3>4, <3>5, ChannelSteps
  <2>7. ASSUME NEW s \in Slots, Respond(s) PROVE Channels!Next
    <3>1. /\ plugin[s] \in Handles /\ UNCHANGED <<plugin, requests, told>>
          /\ responses' = [responses EXCEPT ![s] = Append(responses[s], plugin[s])]
          /\ Len(responses'[s]) = Len(responses[s]) + 1
      BY <2>7, RespondDoes
    <3>2. \A t \in Slots \ {s} : requests'[t] = requests[t] /\ responses'[t] = responses[t]
      BY <2>0, <3>1
    <3>3. /\ Pending[plugin[s]] = Len(requests[s]) /\ Undelivered[plugin[s]] = Len(responses[s])
          /\ Pending' = [Pending EXCEPT ![plugin[s]] = Len(requests'[s])]
          /\ Undelivered' = [Undelivered EXCEPT ![plugin[s]] = Len(responses'[s])]
      BY <3>1, <3>2, OneSlotChanges
    <3>4. Undelivered' = [Undelivered EXCEPT ![plugin[s]] = Undelivered[plugin[s]] + 1] /\ Pending' = Pending
      BY <3>1, <3>3 DEF Pending
    <3> QED  BY <3>1, <3>4, ChannelSteps
  <2>8. ASSUME NEW s \in Slots, WorkResponse(s) PROVE Channels!Next
    <3>1. /\ plugin[s] \in Handles /\ UNCHANGED <<plugin, requests, told>>
          /\ responses' = [responses EXCEPT ![s] = Tail(responses[s])]
          /\ Len(responses[s]) \in Nat \ {0} /\ Len(responses'[s]) = Len(responses[s]) - 1
      BY <2>8, WorkResponseDoes
    <3>2. \A t \in Slots \ {s} : requests'[t] = requests[t] /\ responses'[t] = responses[t]
      BY <2>0, <3>1
    <3>3. /\ Pending[plugin[s]] = Len(requests[s]) /\ Undelivered[plugin[s]] = Len(responses[s])
          /\ Pending' = [Pending EXCEPT ![plugin[s]] = Len(requests'[s])]
          /\ Undelivered' = [Undelivered EXCEPT ![plugin[s]] = Len(responses'[s])]
      BY <3>1, <3>2, OneSlotChanges
    <3>4. Undelivered' = [Undelivered EXCEPT ![plugin[s]] = Undelivered[plugin[s]] - 1] /\ Pending' = Pending
      BY <3>1, <3>3 DEF Pending
    <3>5. Undelivered[plugin[s]] > 0  BY <3>1, <3>3
    <3> QED  BY <3>1, <3>4, <3>5, ChannelSteps
  <2>9. ASSUME NEW s \in Slots,
               \/ NewRefused(s) \/ Activate(s) \/ Run(s) \/ Ran(s) \/ EndRun(s) \/ Deactivate(s)
               \/ ScheduleNowhere(s) \/ WorkDone(s)
        PROVE  UNCHANGED Channels!vars
    BY <2>1, <2>9, OthersDoNothing
  <2>10. CASE UNCHANGED vars
    BY <2>1, <2>10 DEF vars, workerVars
  <2> QED
    BY <2>2, <2>3, <2>4, <2>5, <2>6, <2>7, <2>8, <2>9, <2>10 DEF WorkerNext
<1> QED
  BY <1>1, <1>2, HostInvariance, CountsInvariance, SlotCountsInvariance, PTL
  DEF WorkerSpec, ImplementsSafeChannels, Channels!SafeSpec
-----------------------------------------------------------------------------
(* A host's list of the features F: every URI once, with its data.         *)
Lists(list, F) ==
  /\ Len(list) \in Nat /\ DOMAIN list = 1 .. Len(list)
  /\ \A i \in DOMAIN list : list[i].uri \in DOMAIN F /\ list[i].data = F[list[i].uri]
  /\ \A i, j \in DOMAIN list : list[i].uri = list[j].uri => i = j
  /\ \A u \in DOMAIN F : \E i \in DOMAIN list : list[i].uri = u

LEMMA ListingsList ==
  ASSUME NEW F, IsFiniteSet(DOMAIN F), NEW list \in Listings(F)
  PROVE  Lists(list, F)
<1> DEFINE n == Cardinality(DOMAIN F)
<1>1. PICK uris \in SetToSeqs(DOMAIN F) :
        list = [i \in DOMAIN uris |-> [uri |-> uris[i], data |-> F[uris[i]]]]
  BY DEF Listings
<1>2. n \in Nat /\ IsFiniteSet(1 .. n) /\ Cardinality(1 .. n) = n
  BY FS_CardinalityType, FS_Interval
<1>3. /\ uris \in [1 .. n -> DOMAIN F]
      /\ \A i, j \in 1 .. n : i # j => uris[i] # uris[j]
  BY DEF SetToSeqs
<1>4. uris \in Surjection(1 .. n, DOMAIN F)
  <2>1. uris \in Injection(1 .. n, DOMAIN F)
    BY <1>3 DEF Injection, IsInjective
  <2> QED  BY <1>2, <2>1, FS_Injection
<1>5. \A u \in DOMAIN F : \E i \in 1 .. n : uris[i] = u
  BY <1>4 DEF Surjection
<1> HIDE DEF n
<1>6. DOMAIN list = 1 .. n /\ \A i \in 1 .. n : list[i].uri = uris[i] /\ list[i].data = F[uris[i]]
  BY <1>1, <1>3
<1>7. Len(list) = n
  <2> DEFINE Entries == {list[i] : i \in 1 .. n}
  <2>1. list \in [1 .. n -> Entries]
    BY <1>1, <1>3
  <2> HIDE DEF Entries
  <2>2. list \in Seq(Entries)
    BY <1>2, <2>1
  <2> QED  BY <1>2, <1>6, <2>2
<1> QED  BY <1>2, <1>3, <1>5, <1>6, <1>7 DEF Lists

(* What the features at the positions s of the list give for a URI.        *)
Part(list, F, s, u) == IF \E i \in s : list[i].uri = u THEN F[u] ELSE Null

LEMMA PartOfAll ==
  ASSUME NEW list, NEW F, Lists(list, F), NEW u
  PROVE  Part(list, F, DOMAIN list, u) = DataGiven(F, u)
BY DEF Lists, Part, DataGiven

(* The feature at the last position is the first one for its URI.          *)
LEMMA PartStep ==
  ASSUME NEW list, NEW F, Lists(list, F), NEW s \in SUBSET DOMAIN list, s # {}, NEW u
  PROVE  LET m   == Max(s)
             old == Part(list, F, s \ {m}, u)
         IN  /\ Part(list, F, s, u) = IF old # Null THEN old ELSE set(Null, list[m], u)
             /\ Part(list, F, s, u) = set(old, list[m], u)
             /\ Part(list, F, s, u) = IF is_for(list[m], u) THEN list[m].data ELSE old
<1> DEFINE m == Max(s)
<1>1. m \in s
  BY LargestIndex DEF Lists
<1> HIDE DEF m
<1>2. CASE list[m].uri = u
  <2>1. \A i \in s \ {m} : list[i].uri # u
    BY <1>1, <1>2 DEF Lists
  <2>2. Part(list, F, s \ {m}, u) = Null /\ Part(list, F, s, u) = list[m].data
    BY <1>1, <1>2, <2>1 DEF Part, Lists
  <2> QED  BY <1>2, <2>2 DEF set, is_for, m
<1>3. CASE list[m].uri # u
  <2>1. Part(list, F, s \ {m}, u) = Part(list, F, s, u)
    BY <1>1, <1>3 DEF Part
  <2> QED  BY <1>3, <2>1 DEF set, is_for, m
<1> QED  BY <1>2, <1>3

(* The loops that stop at the first feature with a URI find its data.      *)
LEMMA FirstFinds ==
  ASSUME NEW list, NEW F, Lists(list, F), NEW u
  PROVE  First(list, u) = DataGiven(F, u) /\ data(list, u) = DataGiven(F, u)
<1> DEFINE I == {i \in 1 .. Len(list) : is_for(list[i], u)}
           k == IF I # {} THEN Min(I) ELSE 0
<1>1. SelectInSeq(list, LAMBDA f : is_for(f, u)) = k
  BY DEF SelectInSeq
<1>2. CASE \E i \in DOMAIN list : list[i].uri = u
  <2>1. PICK i \in DOMAIN list : list[i].uri = u
    BY <1>2
  <2>2. I = {i} /\ i \in Nat \ {0}
    BY <2>1 DEF Lists, is_for
  <2>3. k = i
    <3> HIDE DEF I
    <3> QED  BY <2>2 DEF Min
  <2>4. list[i].data = DataGiven(F, u)
    BY <2>1 DEF Lists, DataGiven
  <2> HIDE DEF k
  <2> QED  BY <1>1, <2>1, <2>2, <2>3, <2>4 DEF First, data, set, is_for
<1>3. CASE ~ \E i \in DOMAIN list : list[i].uri = u
  <2>1. I = {}
    BY <1>3 DEF Lists, is_for
  <2>2. DataGiven(F, u) = Null
    BY <1>3 DEF Lists, DataGiven
  <2> QED  BY <1>1, <2>1, <2>2 DEF First, data
<1> QED  BY <1>2, <1>3
-----------------------------------------------------------------------------
(* The scans of URID, BufSize and Log, one feature of the list at a time,  *)
(* over a set of positions, and what each comes to.                        *)
URIDTurns(list, f) ==
  f = [s \in SUBSET DOMAIN list |->
         IF s = {} THEN [map |-> Null, unmap |-> Null]
         ELSE ScanURID(f[s \ {Max(s)}], list[Max(s)])]

URIDOf(list, F) ==
  [s \in SUBSET DOMAIN list |->
     [map |-> Part(list, F, s, "urid:map"), unmap |-> Part(list, F, s, "urid:unmap")]]

(* URID holds the data of both of its features: urid.hpp, URID().           *)
LEMMA URIDFinds ==
  ASSUME NEW list, NEW F, Lists(list, F)
  PROVE  URID(list) = [map |-> DataGiven(F, "urid:map"), unmap |-> DataGiven(F, "urid:unmap")]
<1> DEFINE N == Len(list)
           chosen == CHOOSE f : URIDTurns(list, f)
<1>1. N \in Nat /\ DOMAIN list = 1 .. N
  BY DEF Lists
<1>2. URID(list) = chosen[DOMAIN list]
  BY DEF URID, FoldLeft, MapThenFoldSet, URIDTurns
<1>3. URIDTurns(list, URIDOf(list, F))
  <2>1. URIDOf(list, F)[{}] = [map |-> Null, unmap |-> Null]
    BY DEF URIDOf, Part
  <2>2. ASSUME NEW s \in SUBSET DOMAIN list, s # {}
        PROVE  URIDOf(list, F)[s] = ScanURID(URIDOf(list, F)[s \ {Max(s)}], list[Max(s)])
    <3> DEFINE m == Max(s)
               r == s \ {m}
    <3>1. Part(list, F, s, "urid:map") = IF Part(list, F, r, "urid:map") # Null THEN Part(list, F, r, "urid:map")
                                       ELSE set(Null, list[m], "urid:map")
      BY <2>2, PartStep
    <3>2. Part(list, F, s, "urid:unmap") = IF Part(list, F, r, "urid:unmap") # Null THEN Part(list, F, r, "urid:unmap")
                                       ELSE set(Null, list[m], "urid:unmap")
      BY <2>2, PartStep
    <3>3. r \in SUBSET DOMAIN list
      OBVIOUS
    <3> HIDE DEF m, r
    <3>4. URIDOf(list, F)[s] = ScanURID(URIDOf(list, F)[r], list[m])
      BY <3>1, <3>2, <3>3 DEF URIDOf, ScanURID
    <3> QED  BY <3>4 DEF m, r
  <2> QED  BY <2>1, <2>2 DEF URIDTurns, URIDOf
<1>4. URIDTurns(list, chosen)
  BY <1>3
<1> HIDE DEF N, chosen
<1>5. chosen[1 .. N] = URIDOf(list, F)[1 .. N]
  <2> DEFINE g == URIDOf(list, F)
  <2>1. URIDTurns(list, g)
    BY <1>3
  <2> HIDE DEF g
  <2>2. chosen[{}] = g[{}]
    BY <1>4, <2>1 DEF URIDTurns
  <2>3. ASSUME NEW s \in SUBSET (1 .. N), s # {}, chosen[s \ {Max(s)}] = g[s \ {Max(s)}]
        PROVE  chosen[s] = g[s]
    BY <1>1, <1>4, <2>1, <2>3 DEF URIDTurns
  <2> QED  BY <1>1, <2>2, <2>3, SameFold DEF g
<1>6. URIDOf(list, F)[1 .. N] = [map |-> DataGiven(F, "urid:map"), unmap |-> DataGiven(F, "urid:unmap")]
  BY <1>1, PartOfAll DEF URIDOf
<1> QED  BY <1>1, <1>2, <1>5, <1>6

BufSizeTurns(list, f) ==
  f = [s \in SUBSET DOMAIN list |->
         IF s = {} THEN [map |-> Null, options |-> Null, details |-> FALSE]
         ELSE ScanBufSize(f[s \ {Max(s)}], list[Max(s)])]

BufSizeOf(list, F) ==
  [s \in SUBSET DOMAIN list |->
     [map     |-> Part(list, F, s, "urid:map"),
      options |-> Part(list, F, s, "opts:options"),
      details |-> Null \notin {Part(list, F, s, "urid:map"), Part(list, F, s, "opts:options")}]]

(* BufSize applies the options once it has both: bufsize.hpp, BufSize().   *)
LEMMA BufSizeFinds ==
  ASSUME NEW list, NEW F, Lists(list, F)
  PROVE  BufSize(list) = [map     |-> DataGiven(F, "urid:map"),
                            options |-> DataGiven(F, "opts:options"),
                            details |-> Null \notin {DataGiven(F, "urid:map"), DataGiven(F, "opts:options")}]
<1> DEFINE N == Len(list)
           chosen == CHOOSE f : BufSizeTurns(list, f)
<1>1. N \in Nat /\ DOMAIN list = 1 .. N
  BY DEF Lists
<1>2. BufSize(list) = chosen[DOMAIN list]
  BY DEF BufSize, FoldLeft, MapThenFoldSet, BufSizeTurns
<1>3. BufSizeTurns(list, BufSizeOf(list, F))
  <2>1. BufSizeOf(list, F)[{}] = [map |-> Null, options |-> Null, details |-> FALSE]
    BY DEF BufSizeOf, Part
  <2>2. ASSUME NEW s \in SUBSET DOMAIN list, s # {}
        PROVE  BufSizeOf(list, F)[s] = ScanBufSize(BufSizeOf(list, F)[s \ {Max(s)}], list[Max(s)])
    <3> DEFINE m == Max(s)
               r == s \ {m}
    <3>1. Part(list, F, s, "urid:map") = IF Part(list, F, r, "urid:map") # Null THEN Part(list, F, r, "urid:map")
                                       ELSE set(Null, list[m], "urid:map")
      BY <2>2, PartStep
    <3>2. Part(list, F, s, "opts:options") = IF Part(list, F, r, "opts:options") # Null THEN Part(list, F, r, "opts:options")
                                       ELSE set(Null, list[m], "opts:options")
      BY <2>2, PartStep
    <3>3. r \in SUBSET DOMAIN list
      OBVIOUS
    <3> HIDE DEF m, r
    <3>4. BufSizeOf(list, F)[s] = ScanBufSize(BufSizeOf(list, F)[r], list[m])
      BY <3>1, <3>2, <3>3 DEF BufSizeOf, ScanBufSize
    <3> QED  BY <3>4 DEF m, r
  <2> QED  BY <2>1, <2>2 DEF BufSizeTurns, BufSizeOf
<1>4. BufSizeTurns(list, chosen)
  BY <1>3
<1> HIDE DEF N, chosen
<1>5. chosen[1 .. N] = BufSizeOf(list, F)[1 .. N]
  <2> DEFINE g == BufSizeOf(list, F)
  <2>1. BufSizeTurns(list, g)
    BY <1>3
  <2> HIDE DEF g
  <2>2. chosen[{}] = g[{}]
    BY <1>4, <2>1 DEF BufSizeTurns
  <2>3. ASSUME NEW s \in SUBSET (1 .. N), s # {}, chosen[s \ {Max(s)}] = g[s \ {Max(s)}]
        PROVE  chosen[s] = g[s]
    BY <1>1, <1>4, <2>1, <2>3 DEF BufSizeTurns
  <2> QED  BY <1>1, <2>2, <2>3, SameFold DEF g
<1>6. BufSizeOf(list, F)[1 .. N] = [map     |-> DataGiven(F, "urid:map"),
                            options |-> DataGiven(F, "opts:options"),
                            details |-> Null \notin {DataGiven(F, "urid:map"), DataGiven(F, "opts:options")}]
  BY <1>1, PartOfAll DEF BufSizeOf
<1> QED  BY <1>1, <1>2, <1>5, <1>6

LogTurns(list, f) ==
  f = [s \in SUBSET DOMAIN list |->
         IF s = {} THEN [log |-> Null, types |-> Null]
         ELSE ScanLog(f[s \ {Max(s)}], list[Max(s)])]

LogOf(list, F) ==
  [s \in SUBSET DOMAIN list |->
     [log |-> Part(list, F, s, "log:log"), types |-> Part(list, F, s, "urid:map")]]

(* Log holds the log and maps its types with the map: log.hpp, Log().      *)
LEMMA LogFinds ==
  ASSUME NEW list, NEW F, Lists(list, F)
  PROVE  Log(list) = [log |-> DataGiven(F, "log:log"), types |-> DataGiven(F, "urid:map")]
<1> DEFINE N == Len(list)
           chosen == CHOOSE f : LogTurns(list, f)
<1>1. N \in Nat /\ DOMAIN list = 1 .. N
  BY DEF Lists
<1>2. Log(list) = chosen[DOMAIN list]
  BY DEF Log, FoldLeft, MapThenFoldSet, LogTurns
<1>3. LogTurns(list, LogOf(list, F))
  <2>1. LogOf(list, F)[{}] = [log |-> Null, types |-> Null]
    BY DEF LogOf, Part
  <2>2. ASSUME NEW s \in SUBSET DOMAIN list, s # {}
        PROVE  LogOf(list, F)[s] = ScanLog(LogOf(list, F)[s \ {Max(s)}], list[Max(s)])
    <3> DEFINE m == Max(s)
               r == s \ {m}
    <3>1. Part(list, F, s, "log:log") = set(Part(list, F, r, "log:log"), list[m], "log:log")
      BY <2>2, PartStep
    <3>2. Part(list, F, s, "urid:map") = IF is_for(list[m], "urid:map") THEN list[m].data
                                         ELSE Part(list, F, r, "urid:map")
      BY <2>2, PartStep
    <3>3. r \in SUBSET DOMAIN list
      OBVIOUS
    <3> HIDE DEF m, r
    <3> DEFINE old == [log |-> Part(list, F, r, "log:log"), types |-> Part(list, F, r, "urid:map")]
    <3>4. ScanLog(old, list[m]) = [log |-> Part(list, F, s, "log:log"), types |-> Part(list, F, s, "urid:map")]
      BY <3>1, <3>2 DEF ScanLog, init
    <3>5. LogOf(list, F)[r] = old
      BY <3>3 DEF LogOf
    <3> HIDE DEF old
    <3>6. LogOf(list, F)[s] = ScanLog(LogOf(list, F)[r], list[m])
      BY <3>4, <3>5 DEF LogOf
    <3> QED  BY <3>6 DEF m, r
  <2> QED  BY <2>1, <2>2 DEF LogTurns, LogOf
<1>4. LogTurns(list, chosen)
  BY <1>3
<1> HIDE DEF N, chosen
<1>5. chosen[1 .. N] = LogOf(list, F)[1 .. N]
  <2> DEFINE g == LogOf(list, F)
  <2>1. LogTurns(list, g)
    BY <1>3
  <2> HIDE DEF g
  <2>2. chosen[{}] = g[{}]
    BY <1>4, <2>1 DEF LogTurns
  <2>3. ASSUME NEW s \in SUBSET (1 .. N), s # {}, chosen[s \ {Max(s)}] = g[s \ {Max(s)}]
        PROVE  chosen[s] = g[s]
    BY <1>1, <1>4, <2>1, <2>3 DEF LogTurns
  <2> QED  BY <1>1, <2>2, <2>3, SameFold DEF g
<1>6. LogOf(list, F)[1 .. N] = [log |-> DataGiven(F, "log:log"), types |-> DataGiven(F, "urid:map")]
  BY <1>1, PartOfAll DEF LogOf
<1> QED  BY <1>1, <1>2, <1>5, <1>6
-----------------------------------------------------------------------------
(* What the mixins of an instance with the features F hold.                *)
MixinHolds(m, p, F) ==
  /\ m \in DOMAIN FeatureOf => p = DataGiven(F, FeatureOf[m])
  /\ m = "URID" => p = [map |-> DataGiven(F, "urid:map"), unmap |-> DataGiven(F, "urid:unmap")]
  /\ m = "BufSize" => p.details = (Null \notin {DataGiven(F, "urid:map"), DataGiven(F, "opts:options")})
  /\ m = "Log" => p = [log |-> DataGiven(F, "log:log"), types |-> DataGiven(F, "urid:map")]

LEMMA ConstructedHolds ==
  ASSUME NEW list, NEW F, Lists(list, F), NEW m
  PROVE  MixinHolds(m, Constructed(m, list), F)
<1>1. ASSUME m \in DOMAIN FeatureOf PROVE Constructed(m, list) = DataGiven(F, FeatureOf[m])
  <2>1. m \in {"Options", "Worker", "ResizePort", "InstanceAccess", "DataAccess", "Parent",
               "PortMap", "Touch", "PortSubscribe", "Resize"}
    BY <1>1 DEF FeatureOf
  <2>2. CASE m \in {"Options", "Worker", "ResizePort"}
    BY <2>2, FirstFinds DEF FeatureOf, Constructed, Options, Worker, ResizePort
  <2>3. CASE m \in {"InstanceAccess", "DataAccess", "Parent"}
    BY <2>3, FirstFinds DEF FeatureOf, Constructed, InstanceAccess, DataAccess, Parent
  <2>4. CASE m \in {"PortMap", "Touch", "PortSubscribe", "Resize"}
    BY <2>4, FirstFinds DEF FeatureOf, Constructed, PortMap, Touch, PortSubscribe, Resize
  <2> QED  BY <2>1, <2>2, <2>3, <2>4
<1>2. m = "URID" => Constructed(m, list) = URID(list)
  BY DEF Constructed
<1>3. m = "BufSize" => Constructed(m, list) = BufSize(list)
  BY DEF Constructed
<1>4. m = "Log" => Constructed(m, list) = Log(list)
  BY DEF Constructed
<1> QED  BY <1>1, <1>2, <1>3, <1>4, URIDFinds, BufSizeFinds, LogFinds DEF MixinHolds

(* Hosts that give few lists of features, and classes that require few,    *)
(* are hosts and classes of Plugin.                                        *)
LEMMA MixedIsPlugin == MixedSpec => Spec
<1>1. MixedInit => Init
  BY DEF MixedInit
<1>2. [MixedNext]_mixedVars => [Next]_pluginVars
  <2> SUFFICES ASSUME [MixedNext]_mixedVars PROVE [Next]_pluginVars
    OBVIOUS
  <2>1. ASSUME RegisterMixed PROVE Next
    BY <2>1, MixinsAssumption DEF RegisterMixed, Next
  <2>2. ASSUME NEW d \in Offered, NEW F \in Given, RefuseMixed(d, F) PROVE Next
    BY <2>2, MixinsAssumption DEF RefuseMixed, Next
  <2>3. ASSUME NEW d \in Offered, NEW F \in Given, NEW h \in Handles, InstantiateMixed(d, F, h)
        PROVE  Next
    BY <2>3, MixinsAssumption DEF InstantiateMixed, Next
  <2>4. ASSUME NEW h \in Handles, CleanupMixed(h) PROVE Next
    BY <2>4 DEF CleanupMixed, Next
  <2>5. CASE UNCHANGED mixedVars
    BY <2>5 DEF mixedVars
  <2> QED  BY <2>1, <2>2, <2>3, <2>4, <2>5 DEF MixedNext
<1> QED  BY <1>1, <1>2, PTL DEF MixedSpec, Spec

(* The mixins of an instance were constructed on a list of the features it *)
(* was instantiated with, by the constructors of its class.                *)
ConstructedOnList(i, held) ==
  /\ i.features \in Given
  /\ \E list \in Listings(i.features) : held = NewMixins(descriptors[i.desc].class, list)

MixedInv ==
  /\ DOMAIN mixins = Handles
  /\ \A h \in Handles : IF instance[h] = Null THEN mixins[h] = Null
                        ELSE ConstructedOnList(instance[h], mixins[h])

LEMMA MixedInvariance == MixedSpec => []MixedInv
<1>1. MixedInit => MixedInv
  BY DEF MixedInit, Init, MixedInv
<1>2. StateShape /\ MixedInv /\ [MixedNext]_mixedVars => MixedInv'
  <2> SUFFICES ASSUME StateShape, MixedInv, [MixedNext]_mixedVars PROVE MixedInv'
    OBVIOUS
  <2>1. ASSUME RegisterMixed PROVE MixedInv'
    <3>1. PICK c \in Classes, reqs \in Required : Register(c, reqs) /\ UNCHANGED mixins
      BY <2>1 DEF RegisterMixed
    <3>2. /\ descriptors' = Append(descriptors, [class |-> c, requires |-> reqs])
          /\ UNCHANGED <<instance, mixins>>
      BY <3>1 DEF Register
    <3>3. descriptors \in Seq(Registrations)
      BY DEF StateShape
    <3>4. \A d \in Offered : descriptors'[d] = descriptors[d]
      BY <3>2, <3>3 DEF Offered
    <3>5. \A h \in Handles : instance[h] # Null => instance[h].desc \in Offered
      BY DEF StateShape
    <3> QED  BY <3>2, <3>4, <3>5 DEF MixedInv, ConstructedOnList
  <2>2. ASSUME NEW d \in Offered, NEW F \in Given, NEW h \in Handles, InstantiateMixed(d, F, h)
        PROVE  MixedInv'
    <3> DEFINE i == [desc |-> d, features |-> F]
    <3>1. /\ instance' = [instance EXCEPT ![h] = i] /\ descriptors' = descriptors
          /\ \E held \in {NewMixins(descriptors[d].class, list) : list \in Listings(F)} :
                mixins' = [mixins EXCEPT ![h] = held]
      BY <2>2 DEF InstantiateMixed, Instantiate
    <3>2. PICK list \in Listings(F) :
            mixins' = [mixins EXCEPT ![h] = NewMixins(descriptors[d].class, list)]
      BY <3>1
    <3>3. DOMAIN mixins = Handles /\ DOMAIN instance = Handles
      BY DEF MixedInv, StateShape
    <3>4. i # Null
      <4>1. d \in Nat
        BY DEF Offered, StateShape
      <4>2. F \in FeatureLists
        BY MixinsAssumption
      <4> QED  BY <4>1, <4>2, PluginAssumption
    <3>5. ConstructedOnList(i, NewMixins(descriptors[d].class, list))'
      BY <3>1 DEF ConstructedOnList
    <3>6. instance'[h] = i /\ mixins'[h] = NewMixins(descriptors'[d].class, list)
      BY <3>1, <3>2, <3>3
    <3>7. ASSUME NEW k \in Handles \ {h} PROVE instance'[k] = instance[k] /\ mixins'[k] = mixins[k]
      BY <3>1, <3>2, <3>3
    <3> HIDE DEF i
    <3>8. ASSUME NEW k \in Handles
          PROVE  IF instance'[k] = Null THEN mixins'[k] = Null
                 ELSE ConstructedOnList(instance[k], mixins[k])'
      <4>1. CASE k = h
        BY <3>1, <3>4, <3>5, <3>6, <4>1 DEF ConstructedOnList
      <4>2. CASE k # h
        BY <3>1, <3>7, <4>2 DEF ConstructedOnList, MixedInv
      <4> QED  BY <4>1, <4>2
    <3>9. DOMAIN mixins' = Handles
      BY <3>2, <3>3
    <3> QED  BY <3>8, <3>9 DEF MixedInv
  <2>3. ASSUME NEW h \in Handles, CleanupMixed(h) PROVE MixedInv'
    <3>1. /\ instance' = [instance EXCEPT ![h] = Null] /\ mixins' = [mixins EXCEPT ![h] = Null]
          /\ descriptors' = descriptors
      BY <2>3 DEF CleanupMixed, Cleanup
    <3>2. DOMAIN mixins = Handles /\ DOMAIN instance = Handles
      BY DEF MixedInv, StateShape
    <3> QED  BY <3>1, <3>2 DEF MixedInv, ConstructedOnList
  <2>4. ASSUME UNCHANGED <<descriptors, instance, mixins>> PROVE MixedInv'
    BY <2>4 DEF MixedInv, ConstructedOnList
  <2> QED
    BY <2>1, <2>2, <2>3, <2>4 DEF MixedNext, RefuseMixed, Refuse, mixedVars, pluginVars
<1> QED
  BY <1>1, <1>2, MixedIsPlugin, PluginInvariance, PTL DEF MixedSpec, IInv

(* Type correctness: an instance has exactly the mixins of its class, also *)
(* after further Descriptors were registered: plugin.hpp:171-182, :256.    *)
THEOREM MixedTypeCorrect == MixedSpec => []MixedTypeOK
<1>1. PluginTypeOK /\ MixedInv => MixedTypeOK
  BY DEF MixedInv, ConstructedOnList, NewMixins, MixedTypeOK
<1> QED
  BY <1>1, MixedIsPlugin, PluginTypeCorrect, MixedInvariance, PTL

LEMMA InstanceMixins ==
  ASSUME MixedInv, NEW h \in Handles, instance[h] # Null, NEW m \in DOMAIN mixins[h]
  PROVE  MixinHolds(m, mixins[h][m], instance[h].features)
<1> DEFINE F == instance[h].features
           c == descriptors[instance[h].desc].class
<1>1. PICK list \in Listings(F) : F \in Given /\ mixins[h] = NewMixins(c, list)
  BY DEF MixedInv, ConstructedOnList
<1>2. Lists(list, F)
  BY <1>1, ListingsList, MixinsAssumption
<1>3. mixins[h][m] = Constructed(m, list)
  BY <1>1 DEF NewMixins
<1> QED  BY <1>2, <1>3, ConstructedHolds

LEMMA DataOrNull ==
  ASSUME MixedInv, NEW h \in Handles, instance[h] # Null, NEW u
  PROVE  DataGiven(instance[h].features, u) \in Data \cup {Null}
<1>1. instance[h].features \in FeatureLists
  BY MixinsAssumption DEF MixedInv, ConstructedOnList
<1> QED  BY <1>1 DEF FeatureLists, DataGiven

(* In whatever order a host lists its features, with whatever others,      *)
(* every mixin of an instance holds the data given for its own features:   *)
(* the constructors of ext/*.hpp.                                          *)
THEOREM MixinsHoldTheirs == MixedSpec => []HoldsItsFeatures
<1>1. MixedInv => HoldsItsFeatures
  <2> SUFFICES ASSUME MixedInv, NEW h \in Handles, instance[h] # Null, NEW m \in DOMAIN mixins[h]
               PROVE  LET given(u) == DataGiven(instance[h].features, u)
                          held     == mixins[h][m]
                      IN /\ m \in DOMAIN FeatureOf => held = given(FeatureOf[m])
                         /\ m = "URID" => held = [map |-> given("urid:map"), unmap |-> given("urid:unmap")]
                         /\ m = "BufSize" =>
                              held.details = (Null \notin {given("urid:map"), given("opts:options")})
                         /\ m = "Log" => /\ held = [log |-> given("log:log"), types |-> given("urid:map")]
                                         /\ trace(held) \in Data <=>
                                              Null \notin {given("urid:map"), given("log:log")}
    BY DEF HoldsItsFeatures
  <2> DEFINE given(u) == DataGiven(instance[h].features, u)
  <2>1. MixinHolds(m, mixins[h][m], instance[h].features)
    BY InstanceMixins
  <2>2. ASSUME m = "Log"
        PROVE  trace(mixins[h][m]) \in Data <=> Null \notin {given("urid:map"), given("log:log")}
    <3> DEFINE log == given("log:log")
               map == given("urid:map")
    <3>1. mixins[h][m] = [log |-> log, types |-> map]
      BY <2>1, <2>2 DEF MixinHolds
    <3>2. log \in Data \cup {Null} /\ map \in Data \cup {Null}
      BY DataOrNull
    <3> HIDE DEF log, map
    <3>3. trace(mixins[h][m]) = IF map # Null /\ log # Null THEN log ELSE "nothing printed"
      <4>1. mixins[h][m].log = log /\ mixins[h][m].types = map
        BY <3>1
      <4>2. CASE map = Null
        BY <4>1, <4>2 DEF trace
      <4>3. CASE map # Null
        BY <4>1, <4>3 DEF trace, vprintf, Through
      <4> QED  BY <4>2, <4>3
    <3>4. Null \notin Data /\ "nothing printed" \notin Data
      BY PluginAssumption, MixinsAssumption
    <3>5. trace(mixins[h][m]) \in Data <=> Null \notin {map, log}
      BY <3>2, <3>3, <3>4
    <3> QED  BY <3>5 DEF log, map
  <2> QED  BY <2>1, <2>2 DEF MixinHolds
<1> QED  BY <1>1, MixedInvariance, PTL

(* A call that finds data asks the host, and finds what was given.         *)
LEMMA AnswerGiven ==
  ASSUME NEW F, NEW m, NEW p, MixinHolds(m, p, F), NEW a \in Answers(m, p),
         DataGiven(F, a.feature) # Null
  PROVE  a.value = DataGiven(F, a.feature)
<1>1. CASE m = "URID"
  <2>1. /\ p.map = DataGiven(F, "urid:map") /\ p.unmap = DataGiven(F, "urid:unmap")
        /\ a \in {Answer("urid:map", map_uri(p)), Answer("urid:unmap", unmap_urid(p))}
    BY <1>1 DEF MixinHolds, Answers
  <2>2. CASE a = Answer("urid:map", map_uri(p))
    BY <2>1, <2>2 DEF Answer, map_uri, Through
  <2>3. CASE a = Answer("urid:unmap", unmap_urid(p))
    BY <2>1, <2>3 DEF Answer, unmap_urid, Through
  <2> QED  BY <2>1, <2>2, <2>3
<1>2. CASE m = "Log"
  <2>1. p.log = DataGiven(F, "log:log") /\ a = Answer("log:log", vprintf(p))
    BY <1>2 DEF MixinHolds, Answers
  <2> QED  BY <2>1 DEF Answer, vprintf, Through
<1>3. CASE m \in {"ResizePort", "DataAccess", "PortMap", "Touch", "Resize"}
  <2>1. p = DataGiven(F, FeatureOf[m])
    BY <1>3 DEF MixinHolds, FeatureOf
  <2>2. CASE m = "ResizePort"
    <3>1. a = Answer("rsz:resize", resize_port(p)) /\ FeatureOf[m] = "rsz:resize"
      BY <2>2 DEF Answers, FeatureOf
    <3> QED  BY <2>1, <3>1 DEF Answer, resize_port, Through
  <2>3. CASE m = "DataAccess"
    <3>1. a = Answer("data-access", data_access(p)) /\ FeatureOf[m] = "data-access"
      BY <2>3 DEF Answers, FeatureOf
    <3> QED  BY <2>1, <3>1 DEF Answer, data_access, Through
  <2>4. CASE m = "PortMap"
    <3>1. a = Answer("ui:portMap", port_index(p)) /\ FeatureOf[m] = "ui:portMap"
      BY <2>4 DEF Answers, FeatureOf
    <3> QED  BY <2>1, <3>1 DEF Answer, port_index, Through
  <2>5. CASE m = "Touch"
    <3>1. a = Answer("ui:touch", touch(p)) /\ FeatureOf[m] = "ui:touch"
      BY <2>5 DEF Answers, FeatureOf
    <3> QED  BY <2>1, <3>1 DEF Answer, touch, Through
  <2>6. CASE m = "Resize"
    <3>1. a = Answer("ui:resize", notify_size(p)) /\ FeatureOf[m] = "ui:resize"
      BY <2>6 DEF Answers, FeatureOf
    <3> QED  BY <2>1, <3>1 DEF Answer, notify_size, Through
  <2> QED  BY <1>3, <2>2, <2>3, <2>4, <2>5, <2>6
<1>4. CASE m \notin {"URID", "Log", "ResizePort", "DataAccess", "PortMap", "Touch", "Resize"}
  <2>1. Answers(m, p) = {}
    BY <1>4 DEF Answers
  <2> QED  BY <2>1
<1> QED  BY <1>1, <1>2, <1>3, <1>4

(* What the Descriptor of an instance requires, its mixins can use:        *)
(* plugin.hpp:256-266 and the methods of ext/*.hpp.                        *)
THEOREM RequiredFeaturesAnswer == MixedSpec => []RequiredAnswers
<1>1. RequirementsMet /\ MixedInv => RequiredAnswers
  <2> SUFFICES ASSUME RequirementsMet, MixedInv, NEW h \in Handles, instance[h] # Null,
                      NEW m \in DOMAIN mixins[h], NEW a \in Answers(m, mixins[h][m]),
                      a.feature \in descriptors[instance[h].desc].requires
               PROVE  \/ a.value \in Data
                      \/ /\ a.feature \in DOMAIN instance[h].features
                         /\ instance[h].features[a.feature] = Null
    BY DEF RequiredAnswers
  <2> DEFINE F == instance[h].features
  <2>1. a.feature \in DOMAIN F
    BY DEF RequirementsMet
  <2>2. DataGiven(F, a.feature) = F[a.feature]
    BY <2>1 DEF DataGiven
  <2>3. DataGiven(F, a.feature) \in Data \cup {Null}
    BY DataOrNull
  <2>4. MixinHolds(m, mixins[h][m], F)
    BY InstanceMixins
  <2>5. DataGiven(F, a.feature) # Null => a.value = DataGiven(F, a.feature)
    BY <2>4, AnswerGiven
  <2> QED  BY <2>1, <2>2, <2>3, <2>5
<1> QED
  BY <1>1, MixedIsPlugin, InstancesHaveTheirFeatures, MixedInvariance, PTL
=============================================================================
