-------------------------------- MODULE MCUI --------------------------------
(***************************************************************************)
(* Two views of one plugin with a port all UIs are subscribed to and one   *)
(* that has to be subscribed, a feature beside PortSubscribe, and a class  *)
(* that is registered twice.  Its mixin Show maps the idle interface, too, *)
(* and the author's own mixin overrides it.  Views, handles and values are *)
(* interchangeable.                                                        *)
(***************************************************************************)
EXTENDS UI, TLC

MCRequired == {{}, Features}

MCMixins   == <<"PortSubscribe", "Show", "Author">>
MCProvides == [PortSubscribe |-> {}, Show |-> {"idle", "show"}, Author |-> {"idle"}]
MCUris     == {"idle", "show", "resize"}

Interchangeable == Permutations(Views) \cup Permutations(Handles) \cup Permutations(Values)
=============================================================================
