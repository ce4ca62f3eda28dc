---------------------------- MODULE PluginMixins ----------------------------
(***************************************************************************)
(* Plugin with the mixins of FeatureScan: the constructors E<S> (features) *)
(* of an instance run before the required features are looked for, on the  *)
(* list in the order in which the host passes its features.                *)
(*                                                                         *)
(* A mixin is named like its class; those of UIs are constructed and their *)
(* extension data is mapped in the same way.  The host is external: it     *)
(* lists a URI once, and a feature whose data a constructor dereferences   *)
(* (urid:map in Log, ui:portSubscribe) with data.                          *)
(***************************************************************************)
EXTENDS Plugin

INSTANCE FeatureScan

CONSTANTS
  Given,   \* the feature lists of hosts, as functions from URIs to data
  Required \* the lists of required features of Descriptors

Dereferenced == {"urid:map", "ui:portSubscribe"}

ASSUME MixinsAssumption ==
  /\ Given \subseteq FeatureLists /\ Required \subseteq SUBSET Features
  /\ \A F \in Given : /\ IsFiniteSet(DOMAIN F)
                      /\ \A u \in DOMAIN F \cap Dereferenced : F[u] # Null
  /\ "nothing printed" \notin Data

VARIABLE mixins \* what the mixins of every instance hold, or Null

mixedVars == <<pluginVars, mixins>>

MixedInit == Init /\ mixins = [h \in Handles |-> Null]

(* Every order in which a host can list the features F. *)
Listings(F) == {[i \in DOMAIN uris |-> [uri |-> uris[i], data |-> F[uris[i]]]] :
                  uris \in SetToSeqs(DOMAIN F)}

(* The constructor of a mixin; others take nothing from the list.          *)
Constructed(m, list) ==
  CASE m = "URID" -> URID(list)
    [] m = "Log" -> Log(list)
    [] m = "BufSize" -> BufSize(list)
    [] m = "Options" -> Options(list)
    [] m = "Worker" -> Worker(list)
    [] m = "ResizePort" -> ResizePort(list)
    [] m = "InstanceAccess" -> InstanceAccess(list)
    [] m = "DataAccess" -> DataAccess(list)
    [] m = "Parent" -> Parent(list)
    [] m = "PortMap" -> PortMap(list)
    [] m = "Touch" -> Touch(list)
    [] m = "PortSubscribe" -> PortSubscribe(list)
    [] m = "Resize" -> Resize(list)
    [] OTHER -> Null

(* Plugin (args) : E<S> (args.features)...                                 *)
NewMixins(c, list) == [m \in Range(Mixins[c]) |-> Constructed(m, list)]

RegisterMixed == \E c \in Classes, reqs \in Required : Register(c, reqs) /\ UNCHANGED mixins

InstantiateMixed(d, F, h) ==
  /\ Instantiate(d, F, h)
  /\ \E held \in {NewMixins(descriptors[d].class, list) : list \in Listings(F)} :
       mixins' = [mixins EXCEPT ![h] = held]

(* The constructors have run, too, and the destructors of their mixins.    *)
RefuseMixed(d, F) == Refuse(d, F) /\ UNCHANGED mixins

CleanupMixed(h) == Cleanup(h) /\ mixins' = [mixins EXCEPT ![h] = Null]

MixedNext ==
  \/ RegisterMixed
  \/ \E d \in Offered, F \in Given : \/ RefuseMixed(d, F)
                                     \/ \E h \in Handles : InstantiateMixed(d, F, h)
  \/ \E h \in Handles : CleanupMixed(h)

MixedSpec == MixedInit /\ [][MixedNext]_mixedVars
-----------------------------------------------------------------------------
(* Type correctness: an instance has exactly the mixins of its class.      *)
MixedTypeOK ==
  /\ PluginTypeOK
  /\ \A h \in Handles :
       IF instance[h] = Null THEN mixins[h] = Null
       ELSE DOMAIN mixins[h] = Range(Mixins[descriptors[instance[h].desc].class])

DataGiven(F, u) == IF u \in DOMAIN F THEN F[u] ELSE Null

(* The feature of every mixin that keeps the data of one. *)
FeatureOf ==
  [Options |-> "opts:options", Worker |-> "work:schedule", ResizePort |-> "rsz:resize",
   InstanceAccess |-> "instance-access", DataAccess |-> "data-access", Parent |-> "ui:parent",
   PortMap |-> "ui:portMap", Touch |-> "ui:touch", PortSubscribe |-> "ui:portSubscribe",
   Resize |-> "ui:resize"]

(* In whatever order the host lists its features, with whatever others,    *)
(* every mixin of an instance holds the data given for its own features:   *)
(* all those that need urid:map use the same one, and those that need two  *)
(* features find both.                                                     *)
HoldsItsFeatures ==
  \A h \in Handles : instance[h] # Null =>
    LET given(u) == DataGiven(instance[h].features, u)
        held(m)  == mixins[h][m]
    IN \A m \in DOMAIN mixins[h] :
         /\ m \in DOMAIN FeatureOf => held(m) = given(FeatureOf[m])
         /\ m = "URID" => held(m) = [map |-> given("urid:map"), unmap |-> given("urid:unmap")]
         /\ m = "BufSize" => held(m).details = (Null \notin {given("urid:map"), given("opts:options")})
         /\ m = "Log" => /\ held(m) = [log |-> given("log:log"), types |-> given("urid:map")]
                         /\ trace(held(m)) \in Data <=>
                              Null \notin {given("urid:map"), given("log:log")}

(* What the methods of a mixin that holds p answer, by the feature used.   *)
Answer(u, v) == [feature |-> u, value |-> v]

Answers(m, p) ==
  CASE m = "URID" -> {Answer("urid:map", map_uri(p)), Answer("urid:unmap", unmap_urid(p))}
    [] m = "Log" -> {Answer("log:log", vprintf(p))}
    [] m = "ResizePort" -> {Answer("rsz:resize", resize_port(p))}
    [] m = "DataAccess" -> {Answer("data-access", data_access(p))}
    [] m = "PortMap" -> {Answer("ui:portMap", port_index(p))}
    [] m = "Touch" -> {Answer("ui:touch", touch(p))}
    [] m = "Resize" -> {Answer("ui:resize", notify_size(p))}
    [] OTHER -> {}

(* The two scans of instantiate() go together: what the Descriptor of an   *)
(* instance requires, its mixins can use.  Their methods then reach the    *)
(* host, unless it gave the feature without data.                          *)
RequiredAnswers ==
  \A h \in Handles : instance[h] # Null =>
    \A m \in DOMAIN mixins[h] : \A a \in Answers(m, mixins[h][m]) :
      a.feature \in descriptors[instance[h].desc].requires =>
        \/ a.value \in Data
        \/ /\ a.feature \in DOMAIN instance[h].features
           /\ instance[h].features[a.feature] = Null
=============================================================================
