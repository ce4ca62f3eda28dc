---------------------------- MODULE UridRegistry ----------------------------
(***************************************************************************)
(* What URID maps promise their clients, independent of how lvtk::Symbols  *)
(* keeps them: every registry is a table from symbols to integers, which   *)
(* starts with bindings it adopted, as they are, and changes only by       *)
(* binding a new symbol to an integer that is free or by being emptied.    *)
(***************************************************************************)
EXTENDS Naturals, FiniteSets

CONSTANTS
  Registries,  \* the registries of the program
  Keys         \* the symbols (URIs) a client may map

VARIABLES
  table,       \* the bindings of every registry
  adopted      \* the symbols it adopted bindings of

(* The table with no bindings at all. *)
NoBindings == [k \in {} |-> 0]

Init == /\ table   = [r \in Registries |-> NoBindings]
        /\ adopted = [r \in Registries |-> {}]

(* The other registries are not concerned. *)
Only(r) == /\ DOMAIN table' = Registries /\ DOMAIN adopted' = Registries
           /\ \A q \in Registries \ {r} : /\ table'[q]   = table[q]
                                          /\ adopted'[q] = adopted[q]

(* An empty registry takes its bindings over from elsewhere, any bindings. *)
Adopt(r) == /\ table[r] = NoBindings
            /\ DOMAIN table'[r] \subseteq Keys
            /\ adopted'[r] = DOMAIN table'[r]
            /\ Only(r)

(* Integers beyond the number of adopted bindings are the registry's own   *)
(* to give: whoever has it adopt such a binding may find it bound again.   *)
Beyond(r, j) == j \in adopted[r] /\ table[r][j] > Cardinality(adopted[r])

(* One symbol is bound to a non-zero integer nothing else is bound to.     *)
Bind(r, k) ==
  /\ k \notin DOMAIN table[r]
  /\ DOMAIN table'[r] = DOMAIN table[r] \cup {k}
  /\ table'[r][k] # 0
  /\ \A j \in DOMAIN table[r] :
       /\ table'[r][j] = table[r][j]
       /\ table'[r][k] # table[r][j] \/ Beyond(r, j)
  /\ adopted'[r] = adopted[r]
  /\ Only(r)

Forget(r) == table'[r] = NoBindings /\ adopted'[r] = {} /\ Only(r)

Next == \E r \in Registries : Adopt(r) \/ Forget(r) \/ \E k \in Keys : Bind(r, k)

Spec == Init /\ [][Next]_<<table, adopted>>
=============================================================================
