------------------------------ MODULE MCWorker ------------------------------
(* One class with the mixin Worker, in a host with two slots.               *)
EXTENDS Worker

CONSTANTS ca, worker, iface, sched

MCMixins   == ca :> <<worker>>
MCProvides == ca :> {} @@ worker :> {iface}
=============================================================================
