------------------------------- MODULE Plugin -------------------------------
(***************************************************************************)
(* lvtk::Plugin and lvtk::Descriptor: plugin classes are registered with   *)
(* the features they require, and the host instantiates and cleans them up *)
(* through the C functions of LV2_Descriptor.                              *)
(*                                                                         *)
(* A class keeps ONE list of required features and ONE map of extension    *)
(* data, however many Descriptors name it (function-local statics of the   *)
(* template).  A feature list is a function from the URIs the host passes  *)
(* to their data pointers, one entry per URI.                              *)
(***************************************************************************)
EXTENDS Naturals, Sequences, SequencesExt

CONSTANTS
  Classes,        \* the S of Plugin<S, E...>
  Features,       \* URIs of host features
  Data,           \* what a feature's data pointer points to
  Uris,           \* URIs of extension data
  Mixins,         \* Mixins[c]: the E... of class c, in order
  Provides,       \* Provides[m]: the extension URIs mixin m or class c maps
  Handles,        \* the addresses an instance can have
  MaxDescriptors, \* bound on the number of registrations
  Null            \* nullptr

FeatureLists == UNION {[given -> Data \cup {Null}] : given \in SUBSET Features}

ASSUME PluginAssumption ==
  /\ Null \notin Handles \cup Data
  /\ Null \notin [desc : Nat, features : FeatureLists]
  /\ Null \notin DOMAIN Provides
  /\ \A c \in Classes : c \in DOMAIN Provides /\ Mixins[c] \in Seq(DOMAIN Provides)
  /\ MaxDescriptors \in Nat

VARIABLES
  descriptors, \* descriptors(): class, and the features its author required
  required,    \* Plugin::required() of every class, as a set
  extensions,  \* Plugin::extensions() of every class
  instance,    \* what lives at every address: descriptor and features, or Null
  returned     \* the last return of instantiate(): descriptor, features, handle

pluginVars == <<descriptors, required, extensions, instance, returned>>

Init == /\ descriptors = <<>>
        /\ required    = [c \in Classes |-> {}]
        /\ extensions  = [c \in Classes |-> [u \in Uris |-> Null]]
        /\ instance    = [h \in Handles |-> Null]
        /\ returned    = Null
-----------------------------------------------------------------------------
(* map_extension_data() of mixin or class m writes its entries into dmap.  *)
MapExtensionData(dmap, m) == [u \in Uris |-> IF u \in Provides[m] THEN m ELSE dmap[u]]

(* Mutant: the class writes first, so that its mixins override it. *)
MixinsLast(dmap, c) == FoldLeft(MapExtensionData, dmap, <<c>> \o Mixins[c])

(* initialize_extensions(): the mixins in order, then the class itself.    *)
initialize_extensions(dmap, c) == FoldLeft(MapExtensionData, dmap, Mixins[c] \o <<c>>)

(* Mutant: the constructor with a list of features registers twice. *)
RegisterTwice(c, reqs) ==
  /\ Len(descriptors) < MaxDescriptors
  /\ required'    = [required EXCEPT ![c] = @ \cup reqs]
  /\ descriptors' = descriptors \o [i \in 1 .. IF reqs = {} THEN 1 ELSE 2 |->
                                       [class |-> c, requires |-> reqs]]
  /\ extensions'  = [extensions EXCEPT ![c] = initialize_extensions(@, c)]
  /\ UNCHANGED <<instance, returned>>

(* A Descriptor<c> is constructed; without a list of features, reqs = {}.  *)
Register(c, reqs) ==
  /\ Len(descriptors) < MaxDescriptors
  /\ required'    = [required EXCEPT ![c] = @ \cup reqs]
  /\ descriptors' = Append(descriptors, [class |-> c, requires |-> reqs])
  /\ extensions'  = [extensions EXCEPT ![c] = initialize_extensions(@, c)]
  /\ UNCHANGED <<instance, returned>>
-----------------------------------------------------------------------------
(* The inner loop of _instantiate: some feature of the host has that URI.  *)
Provided(F, rq) == rq \in DOMAIN F

(* Mutant: `provided' is not reset for the next required feature. *)
AnyProvided(c, F) == required[c] = {} \/ \E rq \in required[c] : Provided(F, rq)

(* The outer loop of _instantiate: every required feature is provided.     *)
AllProvided(c, F) == \A rq \in required[c] : Provided(F, rq)

(* lv2_descriptor (index) is the descriptor; beyond the last it is null.   *)
Offered == DOMAIN descriptors

(* _instantiate constructs the instance before it looks at required().     *)
Instantiate(d, F, h) ==
  /\ d \in Offered
  /\ instance[h] = Null
  /\ AllProvided(descriptors[d].class, F)
  /\ instance' = [instance EXCEPT ![h] = [desc |-> d, features |-> F]]
  /\ returned' = [desc |-> d, features |-> F, handle |-> h]
  /\ UNCHANGED <<descriptors, required, extensions>>

(* A feature is missing: the unique_ptr deletes the instance on return.    *)
Refuse(d, F) ==
  /\ d \in Offered
  /\ ~ AllProvided(descriptors[d].class, F)
  /\ returned' = [desc |-> d, features |-> F, handle |-> Null]
  /\ UNCHANGED <<descriptors, required, extensions, instance>>

(* _cleanup: S::cleanup(), then delete.                                    *)
Cleanup(h) ==
  /\ instance[h] # Null
  /\ instance' = [instance EXCEPT ![h] = Null]
  /\ UNCHANGED <<descriptors, required, extensions, returned>>

(* _extension_data (uri), called through any descriptor of the class.      *)
extension_data(c, u) == extensions[c][u]
-----------------------------------------------------------------------------
Next == \/ \E c \in Classes, reqs \in SUBSET Features : Register(c, reqs)
        \/ \E d \in Offered, F \in FeatureLists : \/ Refuse(d, F)
                                                  \/ \E h \in Handles : Instantiate(d, F, h)
        \/ \E h \in Handles : Cleanup(h)

Spec == Init /\ [][Next]_pluginVars
-----------------------------------------------------------------------------
Registrations == [class : Classes, requires : SUBSET Features]

(* Of every value of the state: descriptors() is bounded, the tables have  *)
(* one entry per class, and an instance has a descriptor and features.     *)
PluginTypeOK ==
  /\ descriptors \in Seq(Registrations) /\ Len(descriptors) <= MaxDescriptors
  /\ required \in [Classes -> SUBSET Features]
  /\ extensions \in [Classes -> [Uris -> DOMAIN Provides \cup {Null}]]
  /\ instance \in [Handles -> [desc : Offered, features : FeatureLists] \cup {Null}]
  /\ returned \in [desc : Offered, features : FeatureLists, handle : Handles \cup {Null}]
                    \cup {Null}

(* "If the host fails to provide any of these, instantiate will return a   *)
(* nullptr": an instance the host holds was given every feature required   *)
(* by the Descriptor it was made through, whatever else was registered for *)
(* its class before or since.                                              *)
RequirementsMet ==
  \A h \in Handles : instance[h] # Null =>
    descriptors[instance[h].desc].requires \subseteq DOMAIN instance[h].features

(* "If the host fails to provide any of these", the features its own       *)
(* Descriptor was constructed with, and only then, instantiate() returns   *)
(* nullptr; one without required features is never refused.                *)
(* plugin.hpp:63-67 and :75.                                               *)
RefusedForOwnFeatures ==
  returned # Null /\ returned.handle = Null =>
    ~ descriptors[returned.desc].requires \subseteq DOMAIN returned.features

LastMapper(c, u) ==
  LET i == SelectLastInSeq(Mixins[c], LAMBDA m : u \in Provides[m])
  IN IF u \in Provides[c] THEN c ELSE IF i = 0 THEN Null ELSE Mixins[c][i]

(* extension_data() of a registered class gives what the class itself maps *)
(* ("you can effectively override mixin extension data"), else what the    *)
(* last of its mixins maps, also after the class is registered again.      *)
ExtensionsOverride ==
  \A d \in Offered, u \in Uris :
    extension_data(descriptors[d].class, u) = LastMapper(descriptors[d].class, u)
=============================================================================
