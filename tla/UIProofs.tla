------------------------------ MODULE UIProofs ------------------------------
(***************************************************************************)
(* For any number of views, addresses, ports and registrations: the host   *)
(* and the library agree on which UI belongs to which view, every UI it    *)
(* has was given what its descriptor requires, and a UI shows the plugin's *)
(* values or will be sent them.                                            *)
(***************************************************************************)
EXTENDS UI, SequenceTheorems, WellFoundedInduction, TLAPS

(* Every set of naturals has a least one: induction on sets, which asks    *)
(* for no operator.                                                        *)
LEMMA LeastNumber ==
  ASSUME NEW T, T \subseteq Nat, T # {}
  PROVE  \E n \in T : \A m \in T : n <= m
<1> DEFINE R == {ss \in Nat \X Nat : ss[1] < ss[2]}
<1>1. IsWellFoundedOn(R, Nat)
  BY NatLessThanWellFounded DEF OpToRel
<1> HIDE DEF R
<1>2. PICK n \in T : \A m \in T : ~ (<<m, n>> \in R)
  BY <1>1, WFMin
<1>3. ASSUME NEW m \in T PROVE n <= m
  <2>1. m \in Nat /\ n \in Nat /\ <<m, n>> \notin R
    BY <1>2
  <2> QED  BY <2>1 DEF R
<1> QED  BY <1>3

LEMMA LargestIndex ==
  ASSUME NEW n \in Nat, NEW s, s \subseteq 1 .. n, s # {}
  PROVE  Max(s) \in s /\ \A i \in s : i <= Max(s)
<1> DEFINE T == {n - i : i \in s}
<1>1. T \subseteq Nat /\ T # {}
  <2>1. \A i \in s : n - i \in Nat
    OBVIOUS
  <2> QED  BY <2>1
<1>2. PICK k \in T : \A m \in T : k <= m
  <2> HIDE DEF T
  <2> QED  BY <1>1, LeastNumber
<1>3. PICK j \in s : k = n - j
  BY <1>2
<1>4. \A i \in s : i <= j
  BY <1>2, <1>3
<1> QED  BY <1>4 DEF Max
-----------------------------------------------------------------------------
(* The fold of map_extension_data(), one mixin at a time, over a set of    *)
(* the mixins' positions.                                                  *)
ByTurns(dmap, f) ==
  f = [s \in SUBSET DOMAIN Mixins |->
         IF s = {} THEN dmap ELSE MapExtensionData(f[s \ {Max(s)}], Mixins[Max(s)])]

(* What it comes to: the last mixin that maps a URI has it.                *)
Mapping(s, u) == {i \in s : u \in Provides[Mixins[i]]}

LastOf(dmap) ==
  [s \in SUBSET DOMAIN Mixins |->
     [u \in Uris |-> IF Mapping(s, u) # {} THEN Mixins[Max(Mapping(s, u))] ELSE dmap[u]]]

LEMMA LastOfByTurns ==
  ASSUME NEW S, NEW dmap \in [Uris -> S] PROVE ByTurns(dmap, LastOf(dmap))
<1>1. Len(Mixins) \in Nat /\ DOMAIN Mixins = 1 .. Len(Mixins)
  BY UIAssumption, LenProperties
<1>2. LastOf(dmap)[{}] = dmap
  BY DEF LastOf, Mapping
<1>3. ASSUME NEW s \in SUBSET DOMAIN Mixins, s # {}
      PROVE  LastOf(dmap)[s] = MapExtensionData(LastOf(dmap)[s \ {Max(s)}], Mixins[Max(s)])
  <2> DEFINE m == Max(s)
  <2>1. m \in s /\ \A i \in s : i <= m
    BY <1>1, <1>3, LargestIndex
  <2> HIDE DEF m
  <2>2. ASSUME NEW u \in Uris
        PROVE  LastOf(dmap)[s][u] = IF u \in Provides[Mixins[m]] THEN Mixins[m]
                                    ELSE LastOf(dmap)[s \ {m}][u]
    <3>1. CASE u \in Provides[Mixins[m]]
      <4>1. m \in Mapping(s, u) /\ Mapping(s, u) \subseteq s
        BY <2>1, <3>1 DEF Mapping
      <4>2. Max(Mapping(s, u)) \in s /\ Max(Mapping(s, u)) >= m
        BY <1>1, <4>1, LargestIndex
      <4>3. Max(Mapping(s, u)) = m
        BY <1>1, <2>1, <4>2
      <4> QED  BY <3>1, <4>1, <4>3 DEF LastOf
    <3>2. CASE u \notin Provides[Mixins[m]]
      <4>1. Mapping(s, u) = Mapping(s \ {m}, u)
        BY <2>1, <3>2 DEF Mapping
      <4> QED  BY <3>2, <4>1 DEF LastOf
    <3> QED  BY <3>1, <3>2
  <2> QED  BY <2>2 DEF LastOf, MapExtensionData, m
<1> QED  BY <1>2, <1>3 DEF ByTurns, LastOf

LEMMA OneResult ==
  ASSUME NEW dmap, NEW f, NEW g, ByTurns(dmap, f), ByTurns(dmap, g)
  PROVE  f[DOMAIN Mixins] = g[DOMAIN Mixins]
<1>1. Len(Mixins) \in Nat /\ DOMAIN Mixins = 1 .. Len(Mixins)
  BY UIAssumption, LenProperties
<1> DEFINE Differ == {n \in 0 .. Len(Mixins) : \E s \in SUBSET (1 .. n) : f[s] # g[s]}
<1>2. SUFFICES Differ = {}
  <2>1. f[1 .. Len(Mixins)] = g[1 .. Len(Mixins)]
    BY <1>1, <1>2
  <2> QED  BY <1>1, <2>1
<1>3. SUFFICES ASSUME Differ # {} PROVE FALSE
  OBVIOUS
<1>4. Differ \subseteq Nat
  OBVIOUS
<1>5. PICK n \in Differ : \A k \in Differ : n <= k
  <2> HIDE DEF Differ
  <2> QED  BY <1>4, <1>3, LeastNumber
<1>6. PICK s \in SUBSET (1 .. n) : f[s] # g[s]
  OBVIOUS
<1>7. s \in SUBSET DOMAIN Mixins
  BY <1>1, <1>5
<1>8. s # {}
  BY <1>6, <1>7 DEF ByTurns
<1>9. Max(s) \in s /\ \A i \in s : i <= Max(s)
  BY <1>1, <1>8, LargestIndex
<1>10. f[s \ {Max(s)}] = g[s \ {Max(s)}]
  <2> DEFINE m == Max(s)
  <2>1. m \in s /\ \A i \in s : i <= m
    BY <1>9
  <2> HIDE DEF m
  <2>2. s \ {m} \in SUBSET (1 .. m - 1) /\ m - 1 \in 0 .. Len(Mixins) /\ m - 1 < n
    BY <1>1, <2>1
  <2>3. m - 1 \notin Differ
    BY <1>5, <2>2
  <2> QED  BY <2>2, <2>3 DEF m
<1>11. s \ {Max(s)} \in SUBSET DOMAIN Mixins
  BY <1>7
<1> QED  BY <1>6, <1>7, <1>8, <1>10, <1>11 DEF ByTurns

(* map_extension_data() leaves every URI that a mixin maps to the last     *)
(* such mixin, and every other as it was: ui.hpp:224-227.                  *)
LEMMA LastMixinMaps ==
  ASSUME NEW S, NEW dmap \in [Uris -> S]
  PROVE  map_extension_data(dmap) =
           [u \in Uris |-> IF LastMapper(u) # Null THEN LastMapper(u) ELSE dmap[u]]
<1>1. map_extension_data(dmap) = (CHOOSE f : ByTurns(dmap, f))[DOMAIN Mixins]
  BY DEF map_extension_data, FoldLeft, MapThenFoldSet, ByTurns
<1>2. ByTurns(dmap, CHOOSE f : ByTurns(dmap, f))
  BY LastOfByTurns
<1>3. map_extension_data(dmap) = LastOf(dmap)[DOMAIN Mixins]
  BY <1>1, <1>2, LastOfByTurns, OneResult
<1>4. Len(Mixins) \in Nat /\ DOMAIN Mixins = 1 .. Len(Mixins) /\ \A i \in DOMAIN Mixins : Mixins[i] \in Range(Mixins)
  BY UIAssumption, LenProperties DEF Range
<1>5. ASSUME NEW u \in Uris
      PROVE  LastOf(dmap)[DOMAIN Mixins][u] = IF LastMapper(u) # Null THEN LastMapper(u) ELSE dmap[u]
  <2> DEFINE I == Mapping(DOMAIN Mixins, u)
  <2>1. I = {i \in 1 .. Len(Mixins) : u \in Provides[Mixins[i]]}
    BY <1>4 DEF Mapping
  <2>2. CASE I = {}
    <3>1. LastMapper(u) = Null
      BY <2>1, <2>2 DEF LastMapper, SelectLastInSeq
    <3> QED  BY <2>2, <3>1 DEF LastOf
  <2>3. CASE I # {}
    <3>1. Max(I) \in DOMAIN Mixins /\ Max(I) # 0
      BY <1>4, <2>1, <2>3, LargestIndex
    <3>2. LastMapper(u) = Mixins[Max(I)]
      BY <2>1, <2>3, <3>1 DEF LastMapper, SelectLastInSeq
    <3>3. Mixins[Max(I)] # Null
      BY <1>4, <3>1, UIAssumption
    <3> QED  BY <2>3, <3>2, <3>3 DEF LastOf
  <2> QED  BY <2>2, <2>3
<1> QED  BY <1>3, <1>5 DEF LastOf
-----------------------------------------------------------------------------
(* instantiate() is at work for one view at a time. *)
OneMaking == \A c, d \in Views : making[c] # Null /\ making[d] # Null => c = d

(* UI::required() has what every descriptor asked for, and the table of    *)
(* extensions is complete as soon as there is a descriptor.                *)
ClassOK ==
  /\ \A d \in DOMAIN descriptors : descriptors[d] \subseteq required
  /\ descriptors # <<>> => \A u \in Uris : extensions[u] = LastMapper(u)
  /\ descriptors = <<>> => \A u \in Uris : extensions[u] = Null

(* The host's side: the handle it has, or waits for, is that of a live UI  *)
(* with the view's controller.                                             *)
ViewOK(c) ==
  /\ widget[c] = ui[c]
  /\ ui[c] # Null => instance[ui[c]] # Null /\ instance[ui[c]].controller = c
  /\ making[c] # Null => /\ ui[c] = Null
                         /\ instance[making[c]] # Null /\ instance[making[c]].controller = c

(* The library's side: a live UI is the one its controller's view has or   *)
(* waits for, subscribes in that view's name, and knows no subscription    *)
(* that the host does not know; once the host has it, it has its features, *)
(* and the values of its ports, or will be sent them.                      *)
InstanceOK(h) == instance[h] # Null =>
  LET i == instance[h]
      c == instance[h].controller
  IN /\ h = ui[c] \/ h = making[c]
     /\ i.port_subscribe \in {c, Null}
     /\ i.listening \subseteq subscribed[c]
     /\ h = ui[c] => /\ descriptors[i.desc] \subseteq i.features
                     /\ \A p \in i.listening : p \in pending[c] \/ i.display[p] = value[p]

IInv == /\ TypeOK /\ OneMaking /\ ClassOK
        /\ \A c \in Views : ViewOK(c)
        /\ \A h \in Handles : InstanceOK(h)
-----------------------------------------------------------------------------
LEMMA LiveType ==
  ASSUME TypeOK, NEW h \in Handles, instance[h] # Null
  PROVE  /\ instance[h] \in InstancesOf(DOMAIN descriptors)
         /\ instance[h].desc \in DOMAIN descriptors
         /\ instance[h].features \subseteq Features
         /\ instance[h].controller \in Views
         /\ instance[h].port_subscribe \in Views \cup {Null}
         /\ instance[h].listening \subseteq Ports
         /\ instance[h].display \in [Ports -> Values \cup {Null}]
<1>1. instance[h] \in InstancesOf(DOMAIN descriptors)  BY DEF TypeOK
<1> QED  BY <1>1 DEF InstancesOf

LEMMA LiveNotNull ==
  ASSUME descriptors \in Seq(Required)
  PROVE  \A i \in InstancesOf(DOMAIN descriptors) : i # Null
<1>1. DOMAIN descriptors \subseteq Nat  BY LenProperties
<1> QED  BY <1>1, UIAssumption DEF InstancesOf

(* A live UI notes a subscription, or drops it. *)
LEMMA ListeningSet ==
  ASSUME TypeOK, NEW h \in Handles, instance[h] # Null, NEW L \in SUBSET Ports,
         instance' = [instance EXCEPT ![h].listening = L]
  PROVE  /\ instance' \in [Handles -> InstancesOf(DOMAIN descriptors) \cup {Null}]
         /\ \A k \in Handles \ {h} : instance'[k] = instance[k]
         /\ instance'[h] # Null
         /\ instance'[h] = [instance[h] EXCEPT !.listening = L]
         /\ instance'[h].desc = instance[h].desc /\ instance'[h].features = instance[h].features
         /\ instance'[h].controller = instance[h].controller
         /\ instance'[h].port_subscribe = instance[h].port_subscribe
         /\ instance'[h].listening = L /\ instance'[h].display = instance[h].display
<1>1. instance \in [Handles -> InstancesOf(DOMAIN descriptors) \cup {Null}]  BY DEF TypeOK
<1>2. instance[h] \in InstancesOf(DOMAIN descriptors)  BY LiveType
<1>3. [instance[h] EXCEPT !.listening = L] \in InstancesOf(DOMAIN descriptors)
  BY <1>2 DEF InstancesOf
<1>4. instance'[h] = [instance[h] EXCEPT !.listening = L]  BY <1>1
<1>5. instance'[h] # Null  BY <1>3, <1>4, LiveNotNull DEF TypeOK
<1>6. instance' \in [Handles -> InstancesOf(DOMAIN descriptors) \cup {Null}]  BY <1>1, <1>3
<1>7. \A k \in Handles \ {h} : instance'[k] = instance[k]  BY <1>1
<1> QED  BY <1>2, <1>4, <1>5, <1>6, <1>7 DEF InstancesOf

(* A live UI shows other values. *)
LEMMA DisplaySet ==
  ASSUME TypeOK, NEW h \in Handles, instance[h] # Null, NEW D \in [Ports -> Values \cup {Null}],
         instance' = [instance EXCEPT ![h].display = D]
  PROVE  /\ instance' \in [Handles -> InstancesOf(DOMAIN descriptors) \cup {Null}]
         /\ \A k \in Handles \ {h} : instance'[k] = instance[k]
         /\ instance'[h] # Null
         /\ instance'[h].desc = instance[h].desc /\ instance'[h].features = instance[h].features
         /\ instance'[h].controller = instance[h].controller
         /\ instance'[h].port_subscribe = instance[h].port_subscribe
         /\ instance'[h].listening = instance[h].listening /\ instance'[h].display = D
<1>1. instance \in [Handles -> InstancesOf(DOMAIN descriptors) \cup {Null}]  BY DEF TypeOK
<1>2. instance[h] \in InstancesOf(DOMAIN descriptors)  BY LiveType
<1>3. [instance[h] EXCEPT !.display = D] \in InstancesOf(DOMAIN descriptors)
  BY <1>2 DEF InstancesOf
<1>4. instance'[h] = [instance[h] EXCEPT !.display = D]  BY <1>1
<1>5. instance'[h] # Null  BY <1>3, <1>4, LiveNotNull DEF TypeOK
<1>6. instance' \in [Handles -> InstancesOf(DOMAIN descriptors) \cup {Null}]  BY <1>1, <1>3
<1>7. \A k \in Handles \ {h} : instance'[k] = instance[k]  BY <1>1
<1> QED  BY <1>2, <1>4, <1>5, <1>6, <1>7 DEF InstancesOf

(* What a step must leave alone for an instance to stay as it should be.   *)
LEMMA InstanceUntouched ==
  ASSUME NEW h \in Handles, TypeOK, InstanceOK(h), instance'[h] = instance[h],
         instance[h] # Null =>
           LET i == instance[h]
               c == instance[h].controller
           IN /\ ui'[c] = ui[c] /\ (making'[c] = making[c] \/ h # making[c])
              /\ subscribed'[c] = subscribed[c] /\ descriptors'[i.desc] = descriptors[i.desc]
              /\ \A p \in i.listening :
                   \/ p \in pending'[c]
                   \/ value'[p] = value[p] /\ (p \in pending[c] => p \in pending'[c])
  PROVE  InstanceOK(h)'
BY DEF InstanceOK
-----------------------------------------------------------------------------
LEMMA InitInv == Init => IInv
<1> SUFFICES ASSUME Init PROVE IInv
  OBVIOUS
<1>1. descriptors \in Seq(Required) /\ Len(descriptors) = 0 /\ DOMAIN descriptors = {}
  BY EmptySeq, LenProperties DEF Init
<1>2. TypeOK
  BY <1>1, UIAssumption DEF Init, TypeOK
<1> QED  BY <1>1, <1>2 DEF Init, IInv, OneMaking, ClassOK, ViewOK, InstanceOK

(* While instantiate() is not at work, every live UI is its view's.        *)
LEMMA Idle ==
  ASSUME IInv, ~ Making, NEW h \in Handles, instance[h] # Null
  PROVE  h = ui[instance[h].controller]
<1>1. instance[h].controller \in Views  BY LiveType DEF IInv
<1>2. making[instance[h].controller] = Null  BY <1>1 DEF Making
<1> QED  BY <1>2, UIAssumption DEF IInv, InstanceOK

LEMMA RegisterKeeps ==
  ASSUME IInv, NEW reqs \in Required, Register(reqs) PROVE IInv'
<1>1. /\ descriptors \in Seq(Required) /\ descriptors' = Append(descriptors, reqs)
      /\ UNCHANGED <<instance, making, ui, widget, value, subscribed, pending>>
  BY DEF IInv, TypeOK, Register, hostVars
<1>2. /\ descriptors' \in Seq(Required) /\ descriptors' # <<>>
      /\ Len(descriptors') = Len(descriptors) + 1
      /\ \A d \in DOMAIN descriptors : d \in DOMAIN descriptors' /\ descriptors'[d] = descriptors[d]
      /\ \A d \in DOMAIN descriptors' : d \in DOMAIN descriptors \/ descriptors'[d] = reqs
  <2>1. /\ Append(descriptors, reqs) \in Seq(Required) /\ Append(descriptors, reqs) # <<>>
        /\ Len(Append(descriptors, reqs)) = Len(descriptors) + 1
        /\ \A i \in 1 .. Len(descriptors) : Append(descriptors, reqs)[i] = descriptors[i]
        /\ Append(descriptors, reqs)[Len(descriptors) + 1] = reqs
    BY <1>1, AppendProperties
  <2>2. /\ DOMAIN descriptors = 1 .. Len(descriptors) /\ Len(descriptors) \in Nat
        /\ DOMAIN Append(descriptors, reqs) = 1 .. Len(descriptors) + 1
    BY <1>1, <2>1, LenProperties
  <2> QED  BY <1>1, <2>1, <2>2
<1>3. extensions' = [u \in Uris |-> IF LastMapper(u) # Null THEN LastMapper(u) ELSE extensions[u]]
  BY LastMixinMaps DEF IInv, TypeOK, Register
<1>4. ASSUME NEW u \in Uris
      PROVE  extensions'[u] = LastMapper(u) /\ extensions'[u] \in Range(Mixins) \cup {Null}
  <2>1. LastMapper(u) = Null => extensions[u] = Null
    BY DEF IInv, ClassOK
  <2>2. extensions'[u] = IF LastMapper(u) # Null THEN LastMapper(u) ELSE extensions[u]
    BY <1>3
  <2>3. LastMapper(u) \in Range(Mixins) \cup {Null}
    <3>1. Len(Mixins) \in Nat /\ \A i \in 1 .. Len(Mixins) : Mixins[i] \in Range(Mixins)
      BY UIAssumption, LenProperties, ElementOfSeq
    <3>2. ASSUME {i \in 1 .. Len(Mixins) : u \in Provides[Mixins[i]]} # {}
          PROVE  Max({i \in 1 .. Len(Mixins) : u \in Provides[Mixins[i]]}) \in 1 .. Len(Mixins)
      BY <3>1, <3>2, LargestIndex
    <3> QED  BY <3>1, <3>2 DEF LastMapper, SelectLastInSeq
  <2> QED  BY <2>1, <2>2, <2>3
<1>5. ClassOK'
  <2>1. required' = required \cup reqs  BY DEF Register
  <2>2. \A d \in DOMAIN descriptors' : descriptors'[d] \subseteq required'
    BY <1>2, <2>1 DEF IInv, ClassOK
  <2>3. \A u \in Uris : extensions'[u] = LastMapper(u)
    BY <1>4
  <2> QED  BY <1>2, <2>2, <2>3 DEF ClassOK
<1>6. TypeOK'
  <2>1. instance' \in [Handles -> InstancesOf(DOMAIN descriptors') \cup {Null}]
    BY <1>1, <1>2 DEF IInv, TypeOK, InstancesOf
  <2>2. extensions' \in [Uris -> Range(Mixins) \cup {Null}]
    BY <1>3, <1>4
  <2>3. required' \subseteq Features /\ Len(descriptors') <= MaxDescriptors
    <3>1. Len(descriptors) \in Nat  BY <1>1, LenProperties
    <3> QED  BY <1>2, <3>1, UIAssumption DEF Register, IInv, TypeOK
  <2> QED  BY <1>1, <1>2, <2>1, <2>2, <2>3 DEF IInv, TypeOK
<1>7. ASSUME NEW h \in Handles PROVE InstanceOK(h)'
  <2>1. instance[h] # Null => instance[h].desc \in DOMAIN descriptors
    BY LiveType DEF IInv
  <2> QED  BY <1>1, <1>2, <2>1, InstanceUntouched DEF IInv
<1> QED  BY <1>1, <1>5, <1>6, <1>7 DEF IInv, OneMaking, ViewOK

LEMMA ConstructKeeps ==
  ASSUME IInv, NEW c \in Views, NEW d \in Offered, NEW F \in SUBSET Features, NEW h \in Handles,
         Construct(c, d, F, h)
  PROVE  IInv'
<1> DEFINE new == NewUI(d, UIArgs(c, F))
<1>1. /\ ~ Making /\ ui[c] = Null /\ instance[h] = Null
      /\ instance' = [instance EXCEPT ![h] = new] /\ making' = [making EXCEPT ![c] = h]
      /\ UNCHANGED <<descriptors, required, extensions, ui, widget, value, subscribed, pending>>
  BY DEF Construct, classVars, hostVars
<1>2. /\ new \in InstancesOf(DOMAIN descriptors)
      /\ new.controller = c /\ new.port_subscribe \in {c, Null} /\ new.listening = {}
  BY DEF NewUI, UIArgs, InstancesOf, Offered
<1> HIDE DEF new
<1>3. new # Null
  BY <1>2, LiveNotNull DEF IInv, TypeOK
<1>4. instance'[h] = new /\ \A k \in Handles \ {h} : instance'[k] = instance[k]
  BY <1>1 DEF IInv, TypeOK
<1>5. making'[c] = h /\ \A e \in Views \ {c} : making'[e] = Null
  BY <1>1 DEF IInv, TypeOK, Making
<1>6. TypeOK'
  BY <1>1, <1>2 DEF IInv, TypeOK
<1>7. ASSUME NEW e \in Views PROVE ViewOK(e)'
  BY <1>1, <1>2, <1>3, <1>4, <1>5, UIAssumption DEF IInv, TypeOK, ViewOK
<1>8. ASSUME NEW k \in Handles PROVE InstanceOK(k)'
  <2>1. CASE k = h
    BY <1>1, <1>2, <1>4, <1>5, <2>1, UIAssumption DEF InstanceOK, IInv, TypeOK
  <2>2. CASE k # h
    <3>1. instance'[k] = instance[k]  BY <1>4, <2>2
    <3>2. instance[k] # Null => making[instance[k].controller] = Null /\ instance[k].controller \in Views
      BY <1>1, LiveType DEF IInv, Making
    <3>3. TypeOK /\ InstanceOK(k) /\ k # Null  BY UIAssumption DEF IInv
    <3> QED  BY <1>1, <3>1, <3>2, <3>3, InstanceUntouched
  <2> QED  BY <2>1, <2>2
<1>9. OneMaking'
  BY <1>5 DEF OneMaking
<1> QED  BY <1>1, <1>6, <1>7, <1>8, <1>9 DEF IInv, ClassOK

(* The handle instantiate() is at work on is the address of a live UI that *)
(* no view has.                                                            *)
LEMMA MakingFacts ==
  ASSUME IInv, NEW c \in Views, making[c] # Null
  PROVE  /\ making[c] \in Handles /\ instance[making[c]] # Null /\ ui[c] = Null
         /\ instance[making[c]].controller = c
         /\ \A e \in Views \ {c} : making[e] = Null /\ ui[e] # making[c]
BY DEF IInv, TypeOK, OneMaking, ViewOK

LEMMA AcceptKeeps ==
  ASSUME IInv, NEW c \in Views, Accept(c) PROVE IInv'
<1> DEFINE h == making[c]
           L == instance[h].listening \cup Default
<1>1. /\ h \in Handles /\ instance[h] # Null /\ ui[c] = Null /\ instance[h].controller = c
      /\ \A e \in Views \ {c} : making[e] = Null /\ ui[e] # h
  BY MakingFacts DEF Accept
<1>2. /\ AllProvided(instance[h].features)
      /\ ui' = [ui EXCEPT ![c] = h] /\ widget' = [widget EXCEPT ![c] = h]
      /\ making' = [making EXCEPT ![c] = Null]
      /\ instance' = [instance EXCEPT ![h].listening = L]
      /\ subscribed' = [subscribed EXCEPT ![c] = subscribed[c] \cup Default]
      /\ pending' = [pending EXCEPT ![c] = subscribed'[c]]
      /\ UNCHANGED <<descriptors, required, extensions, value>>
  BY DEF Accept, classVars
<1> HIDE DEF h
<1>3. L \in SUBSET Ports /\ subscribed'[c] \in SUBSET Ports /\ subscribed'[c] = subscribed[c] \cup Default
  BY <1>1, <1>2, LiveType, UIAssumption DEF IInv, TypeOK
<1> HIDE DEF L
<1>4. /\ instance' \in [Handles -> InstancesOf(DOMAIN descriptors) \cup {Null}]
      /\ \A k \in Handles \ {h} : instance'[k] = instance[k]
      /\ instance'[h] # Null
      /\ instance'[h].desc = instance[h].desc /\ instance'[h].features = instance[h].features
      /\ instance'[h].controller = instance[h].controller
      /\ instance'[h].port_subscribe = instance[h].port_subscribe
      /\ instance'[h].listening = L
  <2>1. /\ TypeOK /\ h \in Handles /\ instance[h] # Null /\ L \in SUBSET Ports
        /\ instance' = [instance EXCEPT ![h].listening = L]
    BY <1>1, <1>2, <1>3 DEF IInv
  <2> QED  BY <2>1, ListeningSet
<1>5. /\ ui'[c] = h /\ widget'[c] = h /\ making'[c] = Null /\ pending'[c] = subscribed'[c]
      /\ \A e \in Views \ {c} : /\ ui'[e] = ui[e] /\ widget'[e] = widget[e] /\ making'[e] = making[e]
                                /\ subscribed'[e] = subscribed[e] /\ pending'[e] = pending[e]
  BY <1>2 DEF IInv, TypeOK
<1>6. TypeOK'
  BY <1>1, <1>2, <1>3, <1>4 DEF IInv, TypeOK
<1>7. ASSUME NEW e \in Views PROVE ViewOK(e)'
  <2>1. CASE e = c
    BY <1>1, <1>4, <1>5, <2>1 DEF ViewOK
  <2>2. CASE e # c
    <3>1. ui[e] # Null => ui[e] \in Handles \ {h}
      BY <1>1, <2>2 DEF IInv, TypeOK
    <3> QED  BY <1>1, <1>4, <1>5, <2>2, <3>1 DEF IInv, ViewOK
  <2> QED  BY <2>1, <2>2
<1>8. ASSUME NEW k \in Handles PROVE InstanceOK(k)'
  <2>1. CASE k = h
    <3>1. /\ instance[h].desc \in DOMAIN descriptors
          /\ instance[h].listening \subseteq subscribed[c] /\ instance[h].port_subscribe \in {c, Null}
      BY <1>1, LiveType DEF IInv, InstanceOK
    <3>2. descriptors[instance[h].desc] \subseteq instance[h].features
      BY <1>2, <3>1 DEF IInv, ClassOK, AllProvided
    <3>3. L \subseteq subscribed'[c]
      BY <1>3, <3>1 DEF L
    <3>4. /\ instance'[h].controller = c /\ h = ui'[c] /\ instance'[h].port_subscribe \in {c, Null}
          /\ instance'[h].listening \subseteq subscribed'[c] /\ instance'[h].listening \subseteq pending'[c]
          /\ descriptors'[instance'[h].desc] \subseteq instance'[h].features
      BY <1>1, <1>2, <1>4, <1>5, <3>1, <3>2, <3>3
    <3> QED  BY <2>1, <3>4 DEF InstanceOK
  <2>2. CASE k # h
    <3>1. instance'[k] = instance[k]  BY <1>4, <2>2
    <3>2. instance[k] # Null => instance[k].controller \in Views
      BY LiveType DEF IInv
    <3>3. instance[k] # Null => instance[k].controller # c
      BY <1>1, <2>2, UIAssumption DEF IInv, InstanceOK, h
    <3>4. TypeOK /\ InstanceOK(k)  BY DEF IInv
    <3> QED  BY <1>2, <1>5, <3>1, <3>2, <3>3, <3>4, InstanceUntouched
  <2> QED  BY <2>1, <2>2
<1>9. OneMaking'
  BY <1>1, <1>5 DEF OneMaking
<1> QED  BY <1>2, <1>6, <1>7, <1>8, <1>9 DEF IInv, ClassOK

(* The host's view c and the instance at address h are gone: a refusal, or *)
(* cleanup().                                                              *)
LEMMA GoneKeeps ==
  ASSUME IInv, NEW c \in Views, NEW h \in Handles,
         instance[h] # Null, instance[h].controller = c, h \in {ui[c], making[c]},
         instance' = [instance EXCEPT ![h] = Null],
         ui' = [ui EXCEPT ![c] = Null], widget' = [widget EXCEPT ![c] = Null],
         making' = [making EXCEPT ![c] = Null],
         subscribed' = [subscribed EXCEPT ![c] = {}], pending' = [pending EXCEPT ![c] = {}],
         UNCHANGED <<classVars, value>>
  PROVE  IInv'
<1>1. /\ instance'[h] = Null /\ \A k \in Handles \ {h} : instance'[k] = instance[k]
      /\ ui'[c] = Null /\ widget'[c] = Null /\ making'[c] = Null
      /\ \A e \in Views \ {c} : /\ ui'[e] = ui[e] /\ widget'[e] = widget[e] /\ making'[e] = making[e]
                                /\ subscribed'[e] = subscribed[e] /\ pending'[e] = pending[e]
      /\ UNCHANGED <<descriptors, required, extensions, value>>
  BY DEF IInv, TypeOK, classVars
<1>2. TypeOK'
  BY <1>1 DEF IInv, TypeOK
<1>3. ASSUME NEW e \in Views PROVE ViewOK(e)'
  <2>1. CASE e = c
    BY <1>1, <2>1 DEF ViewOK
  <2>2. CASE e # c
    <3>1. /\ ui[e] # Null => ui[e] \in Handles \ {h}
          /\ making[e] # Null => making[e] \in Handles \ {h}
      BY <2>2 DEF IInv, TypeOK, ViewOK
    <3> QED  BY <1>1, <2>2, <3>1 DEF IInv, ViewOK
  <2> QED  BY <2>1, <2>2
<1>4. ASSUME NEW k \in Handles PROVE InstanceOK(k)'
  <2>1. CASE k = h
    BY <1>1, <2>1 DEF InstanceOK
  <2>2. CASE k # h
    <3>1. instance[k] # Null => instance[k].controller \in Views
      BY LiveType DEF IInv
    <3>2. ui[c] = Null \/ making[c] = Null
      BY DEF IInv, ViewOK
    <3>3. instance[k] # Null => instance[k].controller # c
      BY <2>2, <3>2, UIAssumption DEF IInv, InstanceOK
    <3>4. TypeOK /\ InstanceOK(k)  BY DEF IInv
    <3> QED  BY <1>1, <2>2, <3>1, <3>3, <3>4, InstanceUntouched
  <2> QED  BY <2>1, <2>2
<1>5. OneMaking'
  BY <1>1 DEF IInv, OneMaking
<1> QED  BY <1>1, <1>2, <1>3, <1>4, <1>5 DEF IInv, ClassOK

LEMMA RefuseKeeps ==
  ASSUME IInv, NEW c \in Views, Refuse(c) PROVE IInv'
<1>1. /\ making[c] \in Handles /\ instance[making[c]] # Null /\ ui[c] = Null
      /\ instance[making[c]].controller = c
  BY MakingFacts DEF Refuse
<1>2. widget[c] = Null
  BY <1>1 DEF IInv, ViewOK
<1>3. ui' = [ui EXCEPT ![c] = Null] /\ widget' = [widget EXCEPT ![c] = Null]
  BY <1>1, <1>2 DEF Refuse, IInv, TypeOK
<1> QED  BY <1>1, <1>3, GoneKeeps DEF Refuse

LEMMA CleanupKeeps ==
  ASSUME IInv, NEW c \in Views, Cleanup(c) PROVE IInv'
<1>1. ui[c] \in Handles /\ instance[ui[c]] # Null /\ instance[ui[c]].controller = c
  BY DEF Cleanup, IInv, TypeOK, ViewOK
<1>2. making' = [making EXCEPT ![c] = Null]
  BY DEF Cleanup, Making, IInv, TypeOK
<1> QED  BY <1>1, <1>2, GoneKeeps DEF Cleanup
-----------------------------------------------------------------------------
(* A step that leaves the addresses, views and classes alone, and updates  *)
(* at most the instance at h without giving it to another controller,      *)
(* keeps what does not depend on ports.                                    *)
LEMMA SamePlaces ==
  ASSUME IInv, NEW h \in Handles, instance[h] # Null => instance'[h] # Null,
         instance[h] # Null => instance'[h].controller = instance[h].controller,
         \A k \in Handles \ {h} : instance'[k] = instance[k],
         UNCHANGED <<classVars, making, ui, widget>>
  PROVE  OneMaking' /\ ClassOK' /\ \A c \in Views : ViewOK(c)'
<1>1. OneMaking' /\ ClassOK'
  BY DEF IInv, OneMaking, ClassOK, classVars
<1>2. ASSUME NEW c \in Views PROVE ViewOK(c)'
  <2>1. ui[c] \in Handles \cup {Null} /\ making[c] \in Handles \cup {Null}
    BY DEF IInv, TypeOK
  <2> QED  BY <2>1 DEF IInv, ViewOK
<1> QED  BY <1>1, <1>2

(* The port p has a new value, and every view that has a subscription for  *)
(* it will be sent it, if its controller is not the one that wrote.        *)
LEMMA ValueSet ==
  ASSUME TypeOK, NEW p \in Ports, NEW v \in Values, NEW writer,
         value' = [value EXCEPT ![p] = v],
         pending' = [c \in Views |-> IF c # writer /\ p \in subscribed[c]
                                     THEN pending[c] \cup {p} ELSE pending[c]]
  PROVE  /\ value' \in [Ports -> Values] /\ pending' \in [Views -> SUBSET Ports]
         /\ value'[p] = v /\ \A q \in Ports \ {p} : value'[q] = value[q]
         /\ \A c \in Views : pending[c] \subseteq pending'[c]
         /\ \A c \in Views : c # writer /\ p \in subscribed[c] => p \in pending'[c]
BY DEF TypeOK

(* An instance whose controller did not write.                             *)
LEMMA OthersAreTold ==
  ASSUME IInv, NEW h \in Handles, instance'[h] = instance[h],
         NEW p \in Ports, NEW writer,
         \A q \in Ports \ {p} : value'[q] = value[q],
         \A c \in Views : pending[c] \subseteq pending'[c],
         \A c \in Views : c # writer /\ p \in subscribed[c] => p \in pending'[c],
         instance[h] # Null => instance[h].controller # writer,
         UNCHANGED <<descriptors, making, ui, subscribed>>
  PROVE  InstanceOK(h)'
<1>1. CASE instance[h] = Null
  BY <1>1 DEF InstanceOK
<1>2. CASE instance[h] # Null
  <2>1. instance[h].controller \in Views /\ instance[h].listening \subseteq Ports
    BY <1>2, LiveType DEF IInv
  <2>2. instance[h].listening \subseteq subscribed[instance[h].controller]
    BY <1>2 DEF IInv, InstanceOK
  <2>3. ASSUME NEW q \in instance[h].listening
        PROVE  \/ q \in pending'[instance[h].controller]
               \/ value'[q] = value[q] /\ (q \in pending[instance[h].controller]
                                             => q \in pending'[instance[h].controller])
    BY <1>2, <2>1, <2>2
  <2> QED  BY <2>3, InstanceUntouched DEF IInv
<1> QED  BY <1>1, <1>2

(* Two live UIs never have the same controller. *)
LEMMA OneEach ==
  ASSUME IInv, NEW h \in Handles, NEW k \in Handles, instance[h] # Null, instance[k] # Null,
         instance[h].controller = instance[k].controller
  PROVE  h = k
<1>1. instance[h].controller \in Views  BY LiveType DEF IInv
<1>2. /\ h = ui[instance[h].controller] \/ h = making[instance[h].controller]
      /\ k = ui[instance[h].controller] \/ k = making[instance[h].controller]
      /\ making[instance[h].controller] # Null => ui[instance[h].controller] = Null
  BY <1>1 DEF IInv, InstanceOK, ViewOK
<1> QED  BY <1>2, UIAssumption

LEMMA WriteKeeps ==
  ASSUME IInv, NEW p \in Ports, NEW h \in Handles, NEW v \in Values, WritePort(h, p, v) PROVE IInv'
<1> DEFINE c == instance[h].controller
<1>1. /\ instance[h] # Null /\ ControllerWrite(c, p, v)
      /\ instance' = [instance EXCEPT ![h].display[p] = v]
      /\ UNCHANGED <<descriptors, required, extensions, making, ui, widget, subscribed>>
  BY DEF WritePort, MayCall, classVars
<1>2. /\ c \in Views /\ instance[h].desc \in DOMAIN descriptors /\ instance[h].listening \subseteq Ports
      /\ instance[h].display \in [Ports -> Values \cup {Null}]
  BY <1>1, LiveType DEF IInv
<1> HIDE DEF c
<1>3. /\ value' \in [Ports -> Values] /\ pending' \in [Views -> SUBSET Ports]
      /\ value'[p] = v /\ \A q \in Ports \ {p} : value'[q] = value[q]
      /\ \A e \in Views : pending[e] \subseteq pending'[e]
      /\ \A e \in Views : e # c /\ p \in subscribed[e] => p \in pending'[e]
  <2>1. TypeOK
    BY DEF IInv
  <2>2. /\ value' = [value EXCEPT ![p] = v]
        /\ pending' = [e \in Views |-> IF e # c /\ p \in subscribed[e]
                                       THEN pending[e] \cup {p} ELSE pending[e]]
    BY <1>1 DEF ControllerWrite
  <2> QED  BY <2>1, <2>2, ValueSet
<1>4. /\ instance' \in [Handles -> InstancesOf(DOMAIN descriptors) \cup {Null}]
      /\ \A k \in Handles \ {h} : instance'[k] = instance[k]
      /\ instance'[h] # Null
      /\ instance'[h].desc = instance[h].desc /\ instance'[h].features = instance[h].features
      /\ instance'[h].controller = instance[h].controller
      /\ instance'[h].port_subscribe = instance[h].port_subscribe
      /\ instance'[h].listening = instance[h].listening
      /\ instance'[h].display = [instance[h].display EXCEPT ![p] = v]
  <2> DEFINE D == [instance[h].display EXCEPT ![p] = v]
  <2>1. TypeOK /\ instance[h] # Null /\ D \in [Ports -> Values \cup {Null}]
    BY <1>1, <1>2 DEF IInv
  <2>2. instance' = [instance EXCEPT ![h].display = D]
    BY <1>1
  <2> HIDE DEF D
  <2>3. instance'[h].display = D
    BY <2>1, <2>2, DisplaySet
  <2> QED  BY <2>1, <2>2, <2>3, DisplaySet DEF D
<1>5. TypeOK'
  BY <1>1, <1>3, <1>4 DEF IInv, TypeOK
<1>6. ASSUME NEW k \in Handles PROVE InstanceOK(k)'
  <2>1. CASE k = h
    <3>1. ASSUME h = ui[c], NEW q \in instance[h].listening
          PROVE  q \in pending'[c] \/ instance'[h].display[q] = value'[q]
      <4>1. q \in pending[c] \/ instance[h].display[q] = value[q]
        BY <1>1, <3>1 DEF IInv, InstanceOK, c
      <4> QED  BY <1>2, <1>3, <1>4, <3>1, <4>1
    <3>2. /\ h = ui[c] \/ h = making[c]
          /\ instance[h].port_subscribe \in {c, Null} /\ instance[h].listening \subseteq subscribed[c]
          /\ h = ui[c] => descriptors[instance[h].desc] \subseteq instance[h].features
      BY <1>1 DEF IInv, InstanceOK, c
    <3>3. instance'[h].controller = c
      BY <1>4 DEF c
    <3> QED  BY <1>1, <1>4, <2>1, <3>1, <3>2, <3>3 DEF InstanceOK
  <2>2. CASE k # h
    <3>1. instance[k] # Null => instance[k].controller # c
      BY <1>1, <2>2, OneEach DEF c
    <3> QED  BY <1>1, <1>3, <1>4, <2>2, <3>1, OthersAreTold
  <2> QED  BY <2>1, <2>2
<1> QED  BY <1>1, <1>4, <1>5, <1>6, SamePlaces DEF IInv, classVars

LEMMA AutomateKeeps ==
  ASSUME IInv, NEW p \in Ports, NEW v \in Values, Automate(p, v) PROVE IInv'
<1>1. /\ value' = [value EXCEPT ![p] = v]
      /\ UNCHANGED <<descriptors, required, extensions, instance, making, ui, widget, subscribed>>
  BY DEF Automate, uiVars, classVars
<1>2. pending' = [c \in Views |-> IF c # Null /\ p \in subscribed[c]
                                  THEN pending[c] \cup {p} ELSE pending[c]]
  BY UIAssumption DEF Automate
<1>3. /\ value' \in [Ports -> Values] /\ pending' \in [Views -> SUBSET Ports]
      /\ \A q \in Ports \ {p} : value'[q] = value[q]
      /\ \A e \in Views : pending[e] \subseteq pending'[e]
      /\ \A e \in Views : e # Null /\ p \in subscribed[e] => p \in pending'[e]
  <2> DEFINE writer == Null
  <2>1. TypeOK /\ value' = [value EXCEPT ![p] = v]
    BY <1>1 DEF IInv
  <2>2. pending' = [c \in Views |-> IF c # writer /\ p \in subscribed[c]
                                    THEN pending[c] \cup {p} ELSE pending[c]]
    BY <1>2
  <2> HIDE DEF writer
  <2>3. /\ value' \in [Ports -> Values] /\ pending' \in [Views -> SUBSET Ports]
        /\ value'[p] = v /\ \A q \in Ports \ {p} : value'[q] = value[q]
        /\ \A e \in Views : pending[e] \subseteq pending'[e]
        /\ \A e \in Views : e # writer /\ p \in subscribed[e] => p \in pending'[e]
    BY <2>1, <2>2, ValueSet
  <2> QED  BY <2>3 DEF writer
<1>4. TypeOK'
  BY <1>1, <1>3 DEF IInv, TypeOK
<1>5. ASSUME NEW k \in Handles PROVE InstanceOK(k)'
  <2>1. instance[k] # Null => instance[k].controller # Null
    BY LiveType, UIAssumption DEF IInv
  <2> QED  BY <1>1, <1>3, <2>1, OthersAreTold
<1> QED  BY <1>1, <1>4, <1>5 DEF IInv, OneMaking, ClassOK, ViewOK

(* subscribe() and unsubscribe() change the subscription of the instance's *)
(* own view, together with what the instance knows of it.                  *)
LEMMA SubscriptionKeeps ==
  ASSUME IInv, NEW h \in Handles, instance[h] # Null, instance[h].port_subscribe # Null,
         NEW L \in SUBSET Ports, NEW S \in SUBSET Ports, NEW P \in SUBSET Ports,
         L \subseteq S,
         \A p \in L : p \in P \/ (p \in instance[h].listening /\ p \notin pending[instance[h].port_subscribe]),
         instance' = [instance EXCEPT ![h].listening = L],
         subscribed' = [subscribed EXCEPT ![instance[h].port_subscribe] = S],
         pending' = [pending EXCEPT ![instance[h].port_subscribe] = P],
         UNCHANGED <<classVars, making, ui, widget, value>>
  PROVE  IInv'
<1> DEFINE c == instance[h].port_subscribe
<1>1. /\ instance[h].controller = c /\ c \in Views
      /\ instance[h].desc \in DOMAIN descriptors
      /\ UNCHANGED <<descriptors, required, extensions, making, ui, widget, value>>
  BY LiveType DEF IInv, InstanceOK, classVars
<1>2. subscribed' = [subscribed EXCEPT ![c] = S] /\ pending' = [pending EXCEPT ![c] = P]
  OBVIOUS
<1>3. \A p \in L : p \in P \/ (p \in instance[h].listening /\ p \notin pending[c])
  OBVIOUS
<1> HIDE DEF c
<1>4. /\ instance' \in [Handles -> InstancesOf(DOMAIN descriptors) \cup {Null}]
      /\ \A k \in Handles \ {h} : instance'[k] = instance[k]
      /\ instance'[h] # Null
      /\ instance'[h].desc = instance[h].desc /\ instance'[h].features = instance[h].features
      /\ instance'[h].controller = instance[h].controller
      /\ instance'[h].port_subscribe = instance[h].port_subscribe
      /\ instance'[h].listening = L /\ instance'[h].display = instance[h].display
  BY ListeningSet DEF IInv
<1>5. /\ subscribed'[c] = S /\ pending'[c] = P
      /\ \A e \in Views \ {c} : subscribed'[e] = subscribed[e] /\ pending'[e] = pending[e]
  BY <1>1, <1>2 DEF IInv, TypeOK
<1>6. TypeOK'
  BY <1>1, <1>2, <1>4 DEF IInv, TypeOK
<1>7. ASSUME NEW k \in Handles PROVE InstanceOK(k)'
  <2>1. CASE k = h
    <3>1. ASSUME h = ui[c], NEW p \in L PROVE p \in pending'[c] \/ instance'[h].display[p] = value'[p]
      <4>1. p \in instance[h].listening => p \in pending[c] \/ instance[h].display[p] = value[p]
        BY <1>1, <3>1 DEF IInv, InstanceOK
      <4> QED  BY <1>1, <1>3, <1>4, <1>5, <3>1, <4>1
    <3>2. /\ h = ui[c] \/ h = making[c]
          /\ h = ui[c] => descriptors[instance[h].desc] \subseteq instance[h].features
      BY <1>1 DEF IInv, InstanceOK
    <3>3. instance'[h].controller = c /\ instance'[h].port_subscribe = c
      BY <1>1, <1>4 DEF c
    <3> QED  BY <1>1, <1>4, <1>5, <2>1, <3>1, <3>2, <3>3 DEF InstanceOK
  <2>2. CASE k # h
    <3>1. instance[k] # Null => instance[k].controller # c /\ instance[k].controller \in Views
      BY <1>1, <2>2, OneEach, LiveType DEF IInv
    <3>2. TypeOK /\ InstanceOK(k)  BY DEF IInv
    <3> QED  BY <1>1, <1>4, <1>5, <2>2, <3>1, <3>2, InstanceUntouched
  <2> QED  BY <2>1, <2>2
<1> QED  BY <1>1, <1>4, <1>6, <1>7, SamePlaces DEF IInv, classVars

LEMMA SubscribeKeeps ==
  ASSUME IInv, NEW h \in Handles, NEW p \in Ports, Subscribe(h, p) PROVE IInv'
<1> DEFINE c == instance[h].port_subscribe
           L == instance[h].listening \cup {p}
           S == subscribed[c] \cup {p}
           P == pending[c] \cup {p}
<1>1. CASE c = Null
  <2>1. UNCHANGED vars
    BY <1>1 DEF Subscribe, vars, uiVars, hostVars
  <2> QED
    BY <2>1 DEF vars, uiVars, hostVars, classVars, IInv, TypeOK, OneMaking, ClassOK, ViewOK, InstanceOK
<1>2. CASE c # Null
  <2>1. instance[h] # Null
    BY DEF Subscribe, MayCall
  <2>2. /\ c \in Views /\ instance[h].controller = c
        /\ instance[h].listening \subseteq Ports /\ instance[h].listening \subseteq subscribed[c]
    BY <1>2, <2>1, LiveType DEF IInv, InstanceOK
  <2>3. L \in SUBSET Ports /\ S \in SUBSET Ports /\ P \in SUBSET Ports /\ L \subseteq S
    BY <2>2 DEF IInv, TypeOK
  <2>4. \A q \in L : q \in P \/ (q \in instance[h].listening /\ q \notin pending[c])
    OBVIOUS
  <2>5. /\ instance' = [instance EXCEPT ![h].listening = L]
        /\ subscribed' = [subscribed EXCEPT ![c] = S] /\ pending' = [pending EXCEPT ![c] = P]
        /\ UNCHANGED <<classVars, making, ui, widget, value>>
    BY <1>2 DEF Subscribe
  <2> HIDE DEF L, S, P
  <2> QED  BY <1>2, <2>1, <2>3, <2>4, <2>5, SubscriptionKeeps
<1> QED  BY <1>1, <1>2

LEMMA UnsubscribeKeeps ==
  ASSUME IInv, NEW h \in Handles, NEW p \in Ports, Unsubscribe(h, p) PROVE IInv'
<1> DEFINE c == instance[h].port_subscribe
           L == instance[h].listening \ {p}
           S == subscribed[c] \ {p}
           P == pending[c] \ {p}
<1>1. instance[h] # Null /\ c # Null
  BY DEF Unsubscribe, MayCall
<1>2. /\ c \in Views /\ instance[h].controller = c
      /\ instance[h].listening \subseteq Ports /\ instance[h].listening \subseteq subscribed[c]
  BY <1>1, LiveType DEF IInv, InstanceOK
<1>3. L \in SUBSET Ports /\ S \in SUBSET Ports /\ P \in SUBSET Ports /\ L \subseteq S
  BY <1>2 DEF IInv, TypeOK
<1>4. \A q \in L : q \in P \/ (q \in instance[h].listening /\ q \notin pending[c])
  OBVIOUS
<1>5. /\ instance' = [instance EXCEPT ![h].listening = L]
      /\ subscribed' = [subscribed EXCEPT ![c] = S] /\ pending' = [pending EXCEPT ![c] = P]
      /\ UNCHANGED <<classVars, making, ui, widget, value>>
  BY DEF Unsubscribe
<1> HIDE DEF L, S, P
<1> QED  BY <1>1, <1>3, <1>4, <1>5, SubscriptionKeeps

LEMMA PortEventKeeps ==
  ASSUME IInv, NEW c \in Views, NEW p \in Ports, PortEvent(c, p) PROVE IInv'
<1> DEFINE h == ui[c]
           D == [instance[h].display EXCEPT ![p] = value[p]]
<1>1. /\ h \in Handles /\ instance[h] # Null /\ instance[h].controller = c
      /\ UNCHANGED <<descriptors, required, extensions, making, ui, widget, value, subscribed>>
  BY DEF PortEvent, IInv, TypeOK, ViewOK, classVars
<1>2. /\ instance[h].display \in [Ports -> Values \cup {Null}] /\ value[p] \in Values
      /\ instance[h].listening \subseteq Ports /\ instance[h].desc \in DOMAIN descriptors
  BY <1>1, LiveType DEF IInv, TypeOK
<1>3. instance' = [instance EXCEPT ![h].display = D] /\ D \in [Ports -> Values \cup {Null}]
  BY <1>2 DEF PortEvent
<1>4. pending'[c] = pending[c] \ {p} /\ \A e \in Views \ {c} : pending'[e] = pending[e]
  BY DEF PortEvent, IInv, TypeOK
<1>5. D[p] = value[p] /\ \A q \in Ports \ {p} : D[q] = instance[h].display[q]
  BY <1>2
<1> HIDE DEF D
<1>6. /\ instance' \in [Handles -> InstancesOf(DOMAIN descriptors) \cup {Null}]
      /\ \A k \in Handles \ {h} : instance'[k] = instance[k]
      /\ instance'[h] # Null
      /\ instance'[h].desc = instance[h].desc /\ instance'[h].features = instance[h].features
      /\ instance'[h].controller = instance[h].controller
      /\ instance'[h].port_subscribe = instance[h].port_subscribe
      /\ instance'[h].listening = instance[h].listening /\ instance'[h].display = D
  <2> HIDE DEF h
  <2> QED  BY <1>1, <1>3, DisplaySet DEF IInv
<1>7. TypeOK'
  <2>1. pending' \in [Views -> SUBSET Ports]
    BY DEF PortEvent, IInv, TypeOK
  <2> QED  BY <1>1, <1>6, <2>1 DEF IInv, TypeOK
<1> HIDE DEF h
<1>8. ASSUME NEW k \in Handles PROVE InstanceOK(k)'
  <2>1. CASE k = h
    <3>1. ASSUME NEW q \in instance[h].listening
          PROVE  q \in pending'[c] \/ D[q] = value[q]
      <4>1. q \in pending[c] \/ instance[h].display[q] = value[q]
        BY <1>1, <3>1 DEF IInv, InstanceOK, h
      <4> QED  BY <1>2, <1>4, <1>5, <3>1, <4>1
    <3>2. /\ h = ui[c] /\ instance[h].port_subscribe \in {c, Null}
          /\ instance[h].listening \subseteq subscribed[c]
          /\ descriptors[instance[h].desc] \subseteq instance[h].features
      BY <1>1 DEF IInv, InstanceOK, h
    <3> QED  BY <1>1, <1>6, <2>1, <3>1, <3>2 DEF InstanceOK
  <2>2. CASE k # h
    <3>1. instance[k] # Null => instance[k].controller # c /\ instance[k].controller \in Views
      BY <1>1, <2>2, OneEach, LiveType DEF IInv
    <3>2. TypeOK /\ InstanceOK(k)  BY DEF IInv
    <3> QED  BY <1>1, <1>4, <1>6, <2>2, <3>1, <3>2, InstanceUntouched
  <2> QED  BY <2>1, <2>2
<1> QED  BY <1>1, <1>6, <1>7, <1>8, SamePlaces DEF IInv, classVars
-----------------------------------------------------------------------------
LEMMA NextInv == IInv /\ [Next]_vars => IInv'
<1> SUFFICES ASSUME IInv, [Next]_vars PROVE IInv'
  OBVIOUS
<1>1. ASSUME NEW reqs \in Required, Register(reqs) PROVE IInv'
  BY <1>1, RegisterKeeps
<1>2. ASSUME NEW c \in Views,
             \/ \E d \in Offered, F \in SUBSET Features, h \in Handles : Construct(c, d, F, h)
             \/ Accept(c) \/ Refuse(c) \/ Cleanup(c)
      PROVE  IInv'
  BY <1>2, ConstructKeeps, AcceptKeeps, RefuseKeeps, CleanupKeeps
<1>3. ASSUME NEW p \in Ports, NEW h \in Handles,
             \/ Subscribe(h, p) \/ Unsubscribe(h, p) \/ \E v \in Values : WritePort(h, p, v)
      PROVE  IInv'
  BY <1>3, SubscribeKeeps, UnsubscribeKeeps, WriteKeeps
<1>4. ASSUME NEW p \in Ports,
             (\E c \in Views : PortEvent(c, p)) \/ (\E v \in Values : Automate(p, v))
      PROVE  IInv'
  BY <1>4, PortEventKeeps, AutomateKeeps
<1>5. CASE UNCHANGED vars
  BY <1>5 DEF vars, uiVars, hostVars, classVars, IInv, TypeOK, OneMaking, ClassOK, ViewOK, InstanceOK
<1> QED  BY <1>1, <1>2, <1>3, <1>4, <1>5 DEF Next

(* The invariant holds in every reachable state: ui.hpp:114-284.           *)
THEOREM Invariance == Spec => []IInv
BY InitInv, NextInv, PTL DEF Spec

(* An instance is made through a registered descriptor, and the state of   *)
(* class, views and ports is well formed.                                  *)
THEOREM TypeCorrect == Spec => []TypeOK
BY Invariance, PTL DEF IInv

(* However often a class is registered and however the views come and go:  *)
(* handle and widget of a view belong to one live UI with the features its *)
(* descriptor requires, its extensions are those of the last mixin, and    *)
(* nothing that was refused is left behind.                                *)
THEOREM HostHasItsUIs == Spec => []HostHoldsItsUI
<1>1. ASSUME IInv, NEW c \in Views, ui[c] # Null
      PROVE  /\ instance[ui[c]] # Null /\ instance[ui[c]].controller = c
             /\ descriptors[instance[ui[c]].desc] \subseteq instance[ui[c]].features
             /\ \A u \in Uris : extension_data(u) = LastMapper(u)
  <2>1. ui[c] \in Handles /\ instance[ui[c]] # Null /\ instance[ui[c]].controller = c
    BY <1>1 DEF IInv, TypeOK, ViewOK
  <2>2. instance[ui[c]].desc \in DOMAIN descriptors
    BY <1>1, <2>1, LiveType DEF IInv
  <2>3. descriptors # <<>>
    BY <2>2, EmptySeq, LenProperties
  <2> QED  BY <1>1, <2>1, <2>3 DEF IInv, InstanceOK, ClassOK, extension_data
<1>2. ASSUME IInv, NEW h \in Handles, instance[h] # Null PROVE \E c \in Views : h \in {ui[c], making[c]}
  BY <1>2, LiveType DEF IInv, InstanceOK
<1>3. IInv => HostHoldsItsUI
  BY <1>1, <1>2 DEF HostHoldsItsUI, IInv, ViewOK
<1> QED  BY <1>3, Invariance, PTL

(* A UI never shows a stale value that it will not be sent: whoever writes *)
(* the port, from whichever constructor, and whatever UI lived at the same *)
(* address before.                                                         *)
THEOREM UIsShowPluginValues == Spec => []ShowsPluginValues
<1>1. IInv => ShowsPluginValues
  <2> SUFFICES ASSUME IInv, NEW c \in Views, ui[c] # Null, NEW p \in instance[ui[c]].listening
               PROVE  p \in pending[c] \/ instance[ui[c]].display[p] = value[p]
    BY DEF ShowsPluginValues
  <2>1. ui[c] \in Handles /\ instance[ui[c]] # Null /\ instance[ui[c]].controller = c
    BY DEF IInv, TypeOK, ViewOK
  <2> QED  BY <2>1 DEF IInv, InstanceOK
<1> QED  BY <1>1, Invariance, PTL
=============================================================================
