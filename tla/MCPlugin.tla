------------------------------ MODULE MCPlugin ------------------------------
(***************************************************************************)
(* A plugin class with the mixins that scan for two features, and a class  *)
(* with a mixin of its author, before which Options maps the same URI, and *)
(* mixins of UIs; it maps some of these URIs itself.  A host lists at most *)
(* one feature, or those that mixins need together.  And two FeatureLists  *)
(* of up to two features, with three addresses for their storage.          *)
(*                                                                         *)
(* Plugins and FeatureLists share no variable: which list the features     *)
(* come from makes no difference to a plugin, nor does a plugin to a list, *)
(* so that each is explored while the other rests.                         *)
(***************************************************************************)
EXTENDS PluginMixins, FeatureList, FiniteSets

CONSTANTS ca, cb, own

MCMixins   == ca :> <<"URID", "Log", "BufSize", "State", "ResizePort">> @@
              cb :> <<"Options", own, "Show", "Resize">>
MCProvides == ca :> {} @@ cb :> {"ui:resize"} @@
              own :> {"opts:interface"} @@ "Options" :> OptionsData @@
              "State" :> StateData @@ "Show" :> ShowData @@ "Resize" :> ResizeData @@
              [m \in {"URID", "Log", "BufSize", "ResizePort"} |-> NullData]

Together == {{"urid:map", "urid:unmap"}, {"urid:map", "opts:options"}, {"urid:map", "log:log"},
             {"urid:map", "opts:options", "log:log"}}
MCGiven  == {F \in FeatureLists :
               /\ \A u \in DOMAIN F : F[u] = Null => u = "opts:options"
               /\ Cardinality(DOMAIN F) <= 1 \/ DOMAIN F \in Together}
MCRequired == {{}, {"opts:options"}, {"urid:map", "log:log"}}

HostVars == <<mixedVars, listVars>>

HostInit == MixedInit /\ ListInit

HostNext == \/ ListInit  /\ MixedNext /\ UNCHANGED listVars
            \/ MixedInit /\ ListNext  /\ UNCHANGED mixedVars

HostSpec == HostInit /\ [][HostNext]_HostVars

MCSymmetry == Permutations(Handles) \cup Permutations(Blocks)
=============================================================================
