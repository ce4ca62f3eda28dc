---------------------------- MODULE FeatureScan ----------------------------
(***************************************************************************)
(* The mixin classes of include/lvtk/ext: what the constructor of each one *)
(* takes from the list of features it is given, whom its methods then call *)
(* and what extension data it maps.                                        *)
(*                                                                         *)
(* A list is a sequence of features, each a URI and a data pointer.  What  *)
(* a call of the host returns is represented by the data it was made with. *)
(***************************************************************************)
EXTENDS Naturals, Sequences, SequencesExt

CONSTANT Null \* nullptr

(* Feature::operator== *)
is_for(f, uri) == f.uri = uri

(* FeatureData::set(), for a FeatureData that holds p. *)
set(p, f, uri) == IF is_for(f, uri) THEN f.data ELSE p

(* FeatureList::data(): that of the first feature with the URI. *)
data(list, uri) == LET i == SelectInSeq(list, LAMBDA f : is_for(f, uri))
                   IN IF i = 0 THEN Null ELSE list[i].data

(* FeatureList::contains() *)
contains(list, uri) == data(list, uri) # Null

(* for (const auto& f : features) if (p.set (f)) break;                    *)
First(list, uri) == LET i == SelectInSeq(list, LAMBDA f : is_for(f, uri))
                    IN IF i = 0 THEN Null ELSE set(Null, list[i], uri)
-----------------------------------------------------------------------------
(* One turn of the loop of URID: each pointer is set until it is not null. *)
ScanURID(u, f) ==
  IF u.map # Null /\ u.unmap # Null THEN u
  ELSE [map   |-> IF u.map # Null THEN u.map ELSE set(Null, f, "urid:map"),
        unmap |-> IF u.unmap # Null THEN u.unmap ELSE set(Null, f, "urid:unmap")]

URID(list) == FoldLeft(ScanURID, [map |-> Null, unmap |-> Null], list)

(* Mutant: the loop ends as soon as one of the two is found. *)
ScanBufSizeOnce(b, f) ==
  IF b.map # Null \/ b.options # Null THEN b
  ELSE LET m == set(Null, f, "urid:map")
           o == set(Null, f, "opts:options")
       IN [map |-> m, options |-> o, details |-> m # Null /\ o # Null]

(* One turn of the loop of BufSize; details is whether apply_options() was *)
(* called, with which the loop ends.                                       *)
ScanBufSize(b, f) ==
  IF b.details THEN b
  ELSE LET m == IF b.map # Null THEN b.map ELSE set(Null, f, "urid:map")
           o == IF b.options # Null THEN b.options ELSE set(Null, f, "opts:options")
       IN [map |-> m, options |-> o, details |-> m # Null /\ o # Null]

BufSize(list) == FoldLeft(ScanBufSize, [map |-> Null, options |-> Null, details |-> FALSE], list)

(* Logger::init() maps the five types of messages; types is with which map.*)
init(l, map) == [l EXCEPT !.types = map]

(* One turn of the loop of Log, which n_ok never ends early.               *)
ScanLog(l, f) ==
  LET logger == [l EXCEPT !.log = set(@, f, "log:log")]
  IN IF is_for(f, "urid:map") THEN init(logger, f.data) ELSE logger

Log(list) == FoldLeft(ScanLog, [log |-> Null, types |-> Null], list)

(* The mixins that keep the data of one feature.                           *)
Options(list)        == First(list, "opts:options")
Worker(list)         == First(list, "work:schedule")
ResizePort(list)     == First(list, "rsz:resize")
InstanceAccess(list) == First(list, "instance-access")
DataAccess(list)     == First(list, "data-access")
Parent(list)         == First(list, "ui:parent")
PortMap(list)        == First(list, "ui:portMap")
Touch(list)          == First(list, "ui:touch")
PortSubscribe(list)  == First(list, "ui:portSubscribe")
Resize(list)         == data(list, "ui:resize")
-----------------------------------------------------------------------------
(* The methods call the host through what their mixin holds, or do without.*)
Through(p, otherwise) == IF p # Null THEN p ELSE otherwise

map_uri(u)     == Through(u.map, "no URID")
unmap_urid(u)  == Through(u.unmap, "empty string")
vprintf(l)     == Through(l.log, "nothing printed")
resize_port(p) == Through(p, "ERR_UNKNOWN")
data_access(p) == Through(p, Null)
port_index(p)  == Through(p, "INVALID_PORT_INDEX")
touch(p)       == Through(p, "no call")
notify_size(p) == Through(p, "1")

(* Logger::operator<< prints only when log:Trace was mapped.               *)
trace(l) == IF l.types # Null THEN vprintf(l) ELSE "nothing printed"
-----------------------------------------------------------------------------
(* map_extension_data(): the URIs the mixins map.  All others are          *)
(* NullExtensions, which map none.                                         *)
StateData   == {"state:interface"}
WorkerData  == {"work:interface"}
OptionsData == {"opts:interface"}
ResizeData  == {"ui:resize"}
IdleData    == {"ui:idleInterface"}
ShowData    == IdleData \cup {"ui:showInterface"}
NullData    == {}
=============================================================================
