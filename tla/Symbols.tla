------------------------------ MODULE Symbols ------------------------------
(***************************************************************************)
(* lvtk::Symbols: the table of URIDs a host offers to its plugins, and the *)
(* referral of one Symbols object to the map of another.                   *)
(*                                                                         *)
(* An object that refers to another forwards map() and unmap() through the *)
(* raw LV2_URID_Map pointer it was given; refer_to(Symbols&) copies the    *)
(* pointer the other object publishes at that moment, so the chain a call  *)
(* travels depends on the order in which the referrals were made.  A call  *)
(* is therefore modelled hop by hop.                                       *)
(*                                                                         *)
(* The two pointers need not belong together: refer_to (m, um) takes any    *)
(* map and any unmap, so map() and unmap() of an object may end in         *)
(* different tables.  And a preloaded table may give its keys any ids.     *)
(*                                                                         *)
(* Objects live in C++ scopes: they are destroyed in the reverse order of  *)
(* their construction, and an object refers to objects constructed before  *)
(* it, of which some stand for the maps of an external host.  The class    *)
(* itself enforces neither; see the README.                                *)
(***************************************************************************)
EXTENDS Naturals, Sequences, FiniteSets

CONSTANTS
  Syms,      \* names for the Symbols objects a program constructs
  Keys,      \* the symbols that are mapped
  Preloads,  \* tables handed to Symbols (map_type&)
  Null,      \* a null pointer
  EmptyStr   \* the string ""

(* A preloaded table is a std::unordered_map<std::string, uint32_t>. *)
ASSUME PreloadsAssumption ==
  \A p \in Preloads : /\ DOMAIN p \subseteq Keys
                      /\ IsFiniteSet(DOMAIN p)
                      /\ p \in [DOMAIN p -> Nat]

ASSUME NullAssumption == Null \notin Syms

VARIABLES
  scope,     \* the objects alive, in the order of their construction
  mapped,    \* _mapped of every object: a function from keys to ids
  unmapped,  \* _unmapped of every object: a function from ids to keys
  mapref,    \* _mapref: the object whose _mapd it points at, or Null
  unmapref,  \* _unmapref: the object whose _unmapd it points at, or Null
  call,      \* the map() or unmap() in progress, or NoCall
  ret,       \* what the last call returned, or NoCall
  loaded,    \* history: the keys the table of every object took over
  mixed      \* history: the objects referred to a map and an unmap that
             \* are not of one object

vars == <<scope, mapped, unmapped, mapref, unmapref, call, ret, loaded, mixed>>

NoCall  == [op |-> "none"]
NoTable == [k \in {} |-> 0]

(* f with x bound to v. *)
Extend(f, x, v) == [y \in DOMAIN f \cup {x} |-> IF y = x THEN v ELSE f[y]]

(* The inverse the preloading constructor builds: when two keys carry the  *)
(* same id the one inserted last wins, and the order is unspecified.       *)
Unmappings(m) ==
  {u \in [{m[k] : k \in DOMAIN m} -> DOMAIN m] : \A i \in DOMAIN u : m[u[i]] = i}

Alive(s) == \E i \in DOMAIN scope : scope[i] = s

(* o was constructed before s, and both are alive. *)
Older(o, s) == \E i, j \in DOMAIN scope : i < j /\ scope[i] = o /\ scope[j] = s

owner(s) == mapref[s] = Null \/ unmapref[s] = Null

(* The objects behind _mapf.data and _unmapf.data: what s publishes. *)
MapFeature(s)   == IF mapref[s]   = Null THEN s ELSE mapref[s]
UnmapFeature(s) == IF unmapref[s] = Null THEN s ELSE unmapref[s]
-----------------------------------------------------------------------------
Init ==
  /\ scope    = <<>>
  /\ mapped   = [s \in Syms |-> NoTable]
  /\ unmapped = [s \in Syms |-> NoTable]
  /\ mapref   = [s \in Syms |-> Null]
  /\ unmapref = [s \in Syms |-> Null]
  /\ call = NoCall
  /\ ret  = NoCall
  /\ loaded = [s \in Syms |-> {}]
  /\ mixed  = {}

(* Nothing else runs on the thread while a call is in progress. *)
Idle == call = NoCall /\ ret' = NoCall /\ UNCHANGED call

(* Mutant: refer_to() assigns each pointer, whatever the other one is. *)
ReferToEither(s, m, um) ==
  /\ mapref'   = [mapref   EXCEPT ![s] = m]
  /\ unmapref' = [unmapref EXCEPT ![s] = um]

(* Assigning both references, or dropping both when either is null. *)
refer_to(s, m, um) ==
  LET raw == m # Null /\ um # Null IN
  /\ mapref'   = [mapref   EXCEPT ![s] = IF raw THEN m  ELSE Null]
  /\ unmapref' = [unmapref EXCEPT ![s] = IF raw THEN um ELSE Null]

(* Symbols() and Symbols (map_type&): the empty table is the first one. *)
Construct(s) ==
  /\ Idle
  /\ ~ Alive(s)
  /\ scope' = Append(scope, s)
  /\ \E m \in Preloads \cup {NoTable} : \E u \in Unmappings(m) :
        /\ mapped'   = [mapped   EXCEPT ![s] = m]
        /\ unmapped' = [unmapped EXCEPT ![s] = u]
        /\ loaded'   = [loaded   EXCEPT ![s] = DOMAIN m]
  /\ refer_to(s, Null, Null)
  /\ UNCHANGED mixed

(* ~Symbols() drops the referral first, so clear() empties the table. *)
Destroy ==
  /\ Idle
  /\ scope # <<>>
  /\ LET s == scope[Len(scope)] IN
       /\ mapped'   = [mapped   EXCEPT ![s] = NoTable]
       /\ unmapped' = [unmapped EXCEPT ![s] = NoTable]
       /\ loaded'   = [loaded   EXCEPT ![s] = {}]
       /\ refer_to(s, Null, Null)
       /\ mixed' = mixed \ {s}
  /\ scope' = SubSeq(scope, 1, Len(scope) - 1)

Clear(s) ==
  /\ Idle
  /\ Alive(s)
  /\ owner(s)
  /\ mapped'   = [mapped   EXCEPT ![s] = NoTable]
  /\ unmapped' = [unmapped EXCEPT ![s] = NoTable]
  /\ loaded'   = [loaded   EXCEPT ![s] = {}]
  /\ UNCHANGED <<scope, mapref, unmapref, mixed>>

(* Mutant: refer_to (Symbols&) reads this object's features, not o's. *)
ReferToSelf(s, o) ==
  /\ Idle
  /\ Older(o, s)
  /\ refer_to(s, MapFeature(s), UnmapFeature(s))
  /\ UNCHANGED <<scope, mapped, unmapped, loaded, mixed>>

(* refer_to (Symbols&): the pointers o publishes now, not o itself. *)
ReferTo(s, o) ==
  /\ Idle
  /\ Older(o, s)
  /\ refer_to(s, MapFeature(o), UnmapFeature(o))
  /\ mixed' = IF o \in mixed THEN mixed \cup {s} ELSE mixed \ {s}
  /\ UNCHANGED <<scope, mapped, unmapped, loaded>>

(* refer_to (m, um): any two pointers to objects that outlive s, or null. *)
ReferToRaw(s, m, um) ==
  /\ Idle
  /\ Alive(s)
  /\ \A o \in {m, um} \ {Null} : Older(o, s)
  /\ refer_to(s, m, um)
  /\ mixed' = IF Null \notin {m, um} /\ m # um THEN mixed \cup {s} ELSE mixed \ {s}
  /\ UNCHANGED <<scope, mapped, unmapped, loaded>>
-----------------------------------------------------------------------------
tables == <<scope, mapped, unmapped, mapref, unmapref, loaded, mixed>>

Call(s, op, arg) ==
  /\ call = NoCall
  /\ Alive(s)
  /\ call' = [op |-> op, from |-> s, at |-> s, arg |-> arg]
  /\ ret'  = NoCall
  /\ UNCHANGED tables

(* Mutant: map() and unmap() do not ask owner() first. *)
ForwardUnchecked ==
  /\ call # NoCall
  /\ call' = [call EXCEPT !.at = IF call.op = "map" THEN mapref[call.at]
                                                    ELSE unmapref[call.at]]
  /\ UNCHANGED <<tables, ret>>

(* An object that is not an owner passes the call on through its pointer. *)
Forward ==
  /\ call # NoCall
  /\ ~ owner(call.at)
  /\ call' = [call EXCEPT !.at = IF call.op = "map" THEN mapref[call.at]
                                                    ELSE unmapref[call.at]]
  /\ UNCHANGED <<tables, ret>>

Return(v) ==
  /\ call' = NoCall
  /\ ret'  = [op |-> call.op, from |-> call.from, arg |-> call.arg, val |-> v]

(* Mutant: the first id is 0. *)
NextUridFromZero(s) == Cardinality(DOMAIN mapped[s])

(* The id a key gets when it is seen for the first time. *)
NextUrid(s) == 1 + Cardinality(DOMAIN mapped[s])

(* map() at the owner of the table, for a key it has not seen. *)
MapNew ==
  /\ call.op = "map" /\ owner(call.at)
  /\ call.arg \notin DOMAIN mapped[call.at]
  /\ LET urid == NextUrid(call.at) IN
       /\ mapped'   = [mapped   EXCEPT ![call.at] = Extend(@, call.arg, urid)]
       /\ unmapped' = [unmapped EXCEPT ![call.at] = Extend(@, urid, call.arg)]
       /\ Return(urid)
  /\ UNCHANGED <<scope, mapref, unmapref, loaded, mixed>>

MapKnown ==
  /\ call.op = "map" /\ owner(call.at)
  /\ call.arg \in DOMAIN mapped[call.at]
  /\ Return(mapped[call.at][call.arg])
  /\ UNCHANGED tables

Unmap ==
  /\ call.op = "unmap" /\ owner(call.at)
  /\ Return(IF call.arg \in DOMAIN unmapped[call.at]
            THEN unmapped[call.at][call.arg] ELSE EmptyStr)
  /\ UNCHANGED tables

(* The ids a client may try: any it could have been given, and one more. *)
Urids == UNION {DOMAIN unmapped[s] : s \in Syms}

Next ==
  \/ \E s \in Syms : Construct(s) \/ Clear(s)
  \/ Destroy
  \/ \E s, o \in Syms : ReferTo(s, o)
  \/ \E s \in Syms, m, um \in Syms \cup {Null} : ReferToRaw(s, m, um)
  \/ \E s \in Syms, k \in Keys : Call(s, "map", k)
  \/ \E s \in Syms, i \in Urids \cup {0} : Call(s, "unmap", i)
  \/ Forward \/ MapNew \/ MapKnown \/ Unmap

(* The calling thread keeps running while it is inside map() or unmap(). *)
Fairness == WF_vars(Forward \/ MapNew \/ MapKnown \/ Unmap)

Spec == Init /\ [][Next]_vars /\ Fairness
-----------------------------------------------------------------------------
(* Type correctness of the two tables, the two references and the call.    *)
(* symbols.hpp, the members at the end of the class.                       *)
TypeOK ==
  /\ scope \in Seq(Syms)
  /\ DOMAIN mapped = Syms /\ DOMAIN unmapped = Syms
  /\ \A s \in Syms : /\ DOMAIN mapped[s] \subseteq Keys
                     /\ IsFiniteSet(DOMAIN mapped[s])
                     /\ mapped[s] \in [DOMAIN mapped[s] -> Nat]
                     /\ DOMAIN unmapped[s] \subseteq Nat
                     /\ unmapped[s] \in [DOMAIN unmapped[s] -> Keys]
  /\ mapref   \in [Syms -> Syms \cup {Null}]
  /\ unmapref \in [Syms -> Syms \cup {Null}]
  /\ \/ call = NoCall
     \/ call \in [op : {"map"}, from : Syms, at : Syms, arg : Keys]
     \/ call \in [op : {"unmap"}, from : Syms, at : Syms, arg : Nat]
  /\ loaded \in [Syms -> SUBSET Keys]
  /\ mixed \subseteq Syms

(* The ids map() has counted up since the table was taken over. *)
Counted(s) == Cardinality(loaded[s]) + 1 .. Cardinality(DOMAIN mapped[s])

(* A preloaded key whose id is not its own: another preloaded key has it,  *)
(* or it is beyond the number of preloaded keys and map() has reached it.  *)
Lost(s, k) ==
  /\ k \in loaded[s]
  /\ \/ mapped[s][k] \in Counted(s)
     \/ \E j \in loaded[s] \ {k} : mapped[s][j] = mapped[s][k]

(* The two tables of every object belong together, however maps, clears,   *)
(* preloads and referrals interleave: no id unmaps to a key that was not   *)
(* mapped to it, the keys map() numbered itself have an id of 1 .. n that  *)
(* is theirs alone, also in unmap(), and a preloaded key keeps its id      *)
(* unless it is Lost by what the preloaded table looked like.              *)
TablesInverse ==
  \A s \in Syms :
    /\ loaded[s] \subseteq DOMAIN mapped[s]
    /\ \A i \in DOMAIN unmapped[s] :
          unmapped[s][i] \in DOMAIN mapped[s] /\ mapped[s][unmapped[s][i]] = i
    /\ \A k \in DOMAIN mapped[s] :
          /\ k \notin loaded[s] => mapped[s][k] \in Counted(s)
          /\ mapped[s][k] \in DOMAIN unmapped[s]
          /\ unmapped[s][mapped[s][k]] = k \/ Lost(s, k)

(* An object never refers to one that is dead or younger than itself, also *)
(* when the object it was told to refer to has been re-pointed or reset    *)
(* since: refer_to (Symbols&) copies pointers, and the copies must not     *)
(* outlive what they point at.                                             *)
NoDanglingReferral ==
  \A s \in Syms : Alive(s) /\ ~ owner(s) => Older(mapref[s], s) /\ Older(unmapref[s], s)

(* The objects a call that enters at s meets, along the references ref. *)
Route(ref, s) ==
  LET hop[n \in 0 .. Len(scope)] ==
        IF n = 0 THEN s
        ELSE IF owner(hop[n - 1]) THEN hop[n - 1] ELSE ref[hop[n - 1]]
  IN  hop

(* Where map() and unmap() of s are answered. *)
MapRoot(s)   == Route(mapref, s)[Len(scope)]
UnmapRoot(s) == Route(unmapref, s)[Len(scope)]

(* A caller paired the map of one object with the unmap of another one for *)
(* an object that map() through s meets.                                   *)
MixedOnTheWay(s) == \E n \in 0 .. Len(scope) : Route(mapref, s)[n] \in mixed

(* map() and unmap() through one object are answered by one table unless a *)
(* caller referred an object on the way to a map and an unmap that do not  *)
(* belong together; refer_to() itself never tears a pair apart.  And when  *)
(* one table answers both, the id map() returned unmaps to the key that    *)
(* was mapped, unless the key is Lost.                                     *)
MapThenUnmap ==
  ret.op = "map" =>
    LET r == MapRoot(ret.from) IN
    /\ UnmapRoot(ret.from) = r \/ MixedOnTheWay(ret.from)
    /\ UnmapRoot(ret.from) = r =>
         /\ ret.val \in DOMAIN unmapped[r]
         /\ unmapped[r][ret.val] = ret.arg \/ Lost(r, ret.arg)

(* What symbols.hpp:65-68 says of unmap(): it returns the symbol that was  *)
(* mapped.  A preloaded table whose ids are not 1 .. n breaks it.          *)
MappedUnmaps ==
  ret.op = "map" /\ MapRoot(ret.from) = UnmapRoot(ret.from) =>
    unmapped[UnmapRoot(ret.from)][ret.val] = ret.arg

(* An id keeps its meaning until its table is emptied as a whole, unless a *)
(* preloaded table used it beyond the number of its keys.  Plugins keep    *)
(* the ids they were given, so rebinding one would be noticed nowhere.     *)
IdsKeepMeaning ==
  [][\A s \in Syms : \A i \in DOMAIN unmapped[s] :
        mapped'[s] # NoTable =>
          /\ i \in DOMAIN unmapped'[s]
          /\ \/ unmapped'[s][i] = unmapped[s][i]
             \/ unmapped[s][i] \in loaded[s] /\ i > Cardinality(loaded[s])]_vars

(* The _mapped tables implement the abstract registries of UridRegistry:   *)
(* whatever map(), clear(), referrals and destructors do to them, a client *)
(* sees new bindings to unused ids, or a table emptied as a whole.         *)
Registry == INSTANCE UridRegistry WITH Registries <- Syms, table <- mapped, adopted <- loaded
ImplementsRegistry == Registry!Spec

(* A call is only ever passed on to an object that is older than the one   *)
(* that passes it on, whatever was re-pointed since the referrals were     *)
(* made: no call meets an object twice, nor one that was destroyed.        *)
CallsGoToOlder == [][Forward => Older(call'.at, call.at)]_vars

(* Every call to map() or unmap() returns: no referral leads in a circle. *)
CallsReturn == (call # NoCall) ~> (call = NoCall)
=============================================================================
