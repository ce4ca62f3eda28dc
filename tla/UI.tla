--------------------------------- MODULE UI ---------------------------------
(***************************************************************************)
(* lvtk::UI, UIDescriptor and Controller with the mixin PortSubscribe, in  *)
(* a host that shows several UIs of one plugin instance.                   *)
(*                                                                         *)
(* instantiate() first constructs the UI, whose constructor may already    *)
(* write to ports and subscribe to them, and then looks for the required   *)
(* features.  One UI class is modelled: classes share only the list of     *)
(* descriptors; a class has one list of required features and one map of   *)
(* extension data, however many UIDescriptors name it.  The host is        *)
(* external.  It has a controller for every view, knows a UI by it, and    *)
(* passes features that are its own; it tells a UI of changes to the ports *)
(* it subscribed to, one event at a time.                                  *)
(***************************************************************************)
EXTENDS Naturals, Sequences, SequencesExt

CONSTANTS
  Views,          \* the host's controllers
  Handles,        \* the addresses a UI instance can have
  Features,       \* URIs of host features
  Required,       \* the lists of required features of UIDescriptors
  PortSubscribe,  \* LV2_UI__portSubscribe, one of them
  Ports, Values,  \* the plugin's ports and what they can hold
  Uris,           \* URIs of extension data
  Mixins,         \* the E... of the class, in order
  Provides,       \* Provides[m]: the extension URIs mixin m maps
  Default,        \* the ports the host subscribes every UI to
  MaxDescriptors, \* bound on the number of registrations
  Null            \* nullptr

(* What can live at an address. *)
InstancesOf(descs) ==
  [desc : descs, features : SUBSET Features, controller : Views,
   port_subscribe : Views \cup {Null}, listening : SUBSET Ports,
   display : [Ports -> Values \cup {Null}]]

ASSUME UIAssumption ==
  /\ PortSubscribe \in Features /\ Required \subseteq SUBSET Features
  /\ Default \subseteq Ports /\ MaxDescriptors \in Nat
  /\ Mixins \in Seq(Range(Mixins))
  /\ Null \notin Views \cup Handles \cup Values \cup Range(Mixins) \cup InstancesOf(Nat)

VARIABLES
  descriptors, \* ui_descriptors(): the features their authors required
  required,    \* UI::required(), as a set
  extensions,  \* UI::extensions(): the mixin every URI is mapped by, or Null
  instance,    \* what lives at every address, or Null
  making,      \* the handle that instantiate() is at work on for a view, or Null
  ui, widget,  \* external: the handle and the widget instantiate() gave a view
  value,       \* external: the plugin's ports
  subscribed,  \* external: the ports every view has a subscription for
  pending      \* external: those whose last change was not sent yet

classVars == <<descriptors, required, extensions>>
uiVars    == <<classVars, instance, making, ui, widget>>
hostVars  == <<value, subscribed, pending>>
vars      == <<uiVars, hostVars>>

Init == /\ descriptors = <<>>
        /\ required    = {}
        /\ extensions  = [u \in Uris |-> Null]
        /\ instance    = [h \in Handles |-> Null]
        /\ making      = [c \in Views |-> Null]
        /\ ui          = [c \in Views |-> Null]
        /\ widget      = [c \in Views |-> Null]
        /\ value      \in [Ports -> Values]
        /\ subscribed  = [c \in Views |-> {}]
        /\ pending     = [c \in Views |-> {}]

(* The host makes one UI at a time, on one thread. *)
Making == \E c \in Views : making[c] # Null
-----------------------------------------------------------------------------
(* map_extension_data() of mixin m; the class itself maps none.            *)
MapExtensionData(dmap, m) == [u \in Uris |-> IF u \in Provides[m] THEN m ELSE dmap[u]]

map_extension_data(dmap) == FoldLeft(MapExtensionData, dmap, Mixins)

(* A UIDescriptor is constructed. *)
Register(reqs) ==
  /\ ~ Making /\ Len(descriptors) < MaxDescriptors
  /\ descriptors' = Append(descriptors, reqs)
  /\ required'    = required \cup reqs
  /\ extensions'  = map_extension_data(extensions)
  /\ UNCHANGED <<instance, making, ui, widget, hostVars>>

(* _extension_data (uri) *)
extension_data(u) == extensions[u]

(* Mutant: index <= size(). *)
OfferedBeyond == 1 .. Len(descriptors) + 1

(* lv2ui_descriptor (index); beyond the last it is null.                   *)
Offered == DOMAIN descriptors

UIArgs(c, F) == [controller |-> c, features |-> F]

(* The mixin PortSubscribe copies the host's struct; the UI copies the     *)
(* controller.  listening and display are what the author's UI keeps: the  *)
(* ports it knows it is subscribed to and the values it shows.             *)
NewUI(d, args) ==
  [desc |-> d, features |-> args.features, controller |-> args.controller,
   port_subscribe |-> IF PortSubscribe \in args.features THEN args.controller ELSE Null,
   listening |-> {}, display |-> [p \in Ports |-> Null]]

(* instantiate (): new S (args). *)
Construct(c, d, F, h) ==
  /\ ~ Making /\ ui[c] = Null /\ instance[h] = Null
  /\ instance' = [instance EXCEPT ![h] = NewUI(d, UIArgs(c, F))]
  /\ making'   = [making EXCEPT ![c] = h]
  /\ UNCHANGED <<classVars, ui, widget, hostVars>>

(* Every required URI is looked for among the features. *)
AllProvided(F) == \A rq \in required : rq \in F

(* It then sets *widget and returns the instance; the host sends the       *)
(* values of all subscribed ports.                                         *)
Accept(c) ==
  /\ making[c] # Null
  /\ AllProvided(instance[making[c]].features)
  /\ ui'       = [ui EXCEPT ![c] = making[c]]
  /\ widget'   = [widget EXCEPT ![c] = making[c]]
  /\ making'   = [making EXCEPT ![c] = Null]
  /\ instance' = [instance EXCEPT ![making[c]].listening = @ \cup Default]
  /\ subscribed' = [subscribed EXCEPT ![c] = @ \cup Default]
  /\ pending'    = [pending EXCEPT ![c] = subscribed'[c]]
  /\ UNCHANGED <<classVars, value>>

(* Mutant: *widget is set before the features are looked for. *)
RefuseWithWidget(c) ==
  /\ making[c] # Null
  /\ ~ AllProvided(instance[making[c]].features)
  /\ instance'   = [instance EXCEPT ![making[c]] = Null]
  /\ widget'     = [widget EXCEPT ![c] = making[c]]
  /\ making'     = [making EXCEPT ![c] = Null]
  /\ subscribed' = [subscribed EXCEPT ![c] = {}]
  /\ pending'    = [pending EXCEPT ![c] = {}]
  /\ UNCHANGED <<classVars, ui, value>>

(* Or deletes it and returns nullptr; the host drops its subscriptions.    *)
Refuse(c) ==
  /\ making[c] # Null
  /\ ~ AllProvided(instance[making[c]].features)
  /\ instance'   = [instance EXCEPT ![making[c]] = Null]
  /\ making'     = [making EXCEPT ![c] = Null]
  /\ subscribed' = [subscribed EXCEPT ![c] = {}]
  /\ pending'    = [pending EXCEPT ![c] = {}]
  /\ UNCHANGED <<classVars, ui, widget, value>>

(* _cleanup: S::cleanup(), then delete. *)
Cleanup(c) ==
  /\ ~ Making /\ ui[c] # Null
  /\ instance'   = [instance EXCEPT ![ui[c]] = Null]
  /\ ui'         = [ui EXCEPT ![c] = Null]
  /\ widget'     = [widget EXCEPT ![c] = Null]
  /\ subscribed' = [subscribed EXCEPT ![c] = {}]
  /\ pending'    = [pending EXCEPT ![c] = {}]
  /\ UNCHANGED <<classVars, making, value>>
-----------------------------------------------------------------------------
(* The calls of an instance: from its constructor, or while no other UI is *)
(* in its own.                                                             *)
MayCall(h) == instance[h] # Null /\ (Making => \E c \in Views : making[c] = h)

(* Controller::write(): the host changes the port and tells the views      *)
(* other than that of the controller.                                      *)
ControllerWrite(controller, p, v) ==
  /\ value'   = [value EXCEPT ![p] = v]
  /\ pending' = [c \in Views |-> IF c # controller /\ p \in subscribed[c]
                                 THEN pending[c] \cup {p} ELSE pending[c]]

(* write() *)
WritePort(h, p, v) ==
  /\ MayCall(h)
  /\ ControllerWrite(instance[h].controller, p, v)
  /\ instance' = [instance EXCEPT ![h].display[p] = v]
  /\ UNCHANGED <<classVars, making, ui, widget, subscribed>>

(* Mutant: without the feature, it returns success. *)
SubscribeUnchecked(h, p) ==
  /\ MayCall(h)
  /\ LET c == instance[h].port_subscribe
     IN /\ instance'   = [instance EXCEPT ![h].listening = @ \cup {p}]
        /\ subscribed' = IF c = Null THEN subscribed ELSE [subscribed EXCEPT ![c] = @ \cup {p}]
        /\ pending'    = IF c = Null THEN pending ELSE [pending EXCEPT ![c] = @ \cup {p}]
  /\ UNCHANGED <<classVars, making, ui, widget, value>>

(* subscribe(): 1, or what the host's subscribe returns: 0 for success.    *)
Subscribe(h, p) ==
  /\ MayCall(h)
  /\ LET c == instance[h].port_subscribe
     IN IF c = Null THEN UNCHANGED <<instance, subscribed, pending>>
        ELSE /\ instance'   = [instance EXCEPT ![h].listening = @ \cup {p}]
             /\ subscribed' = [subscribed EXCEPT ![c] = @ \cup {p}]
             /\ pending'    = [pending EXCEPT ![c] = @ \cup {p}]
  /\ UNCHANGED <<classVars, making, ui, widget, value>>

(* unsubscribe() *)
Unsubscribe(h, p) ==
  /\ MayCall(h)
  /\ LET c == instance[h].port_subscribe
     IN /\ c # Null
        /\ instance'   = [instance EXCEPT ![h].listening = @ \ {p}]
        /\ subscribed' = [subscribed EXCEPT ![c] = @ \ {p}]
        /\ pending'    = [pending EXCEPT ![c] = @ \ {p}]
  /\ UNCHANGED <<classVars, making, ui, widget, value>>

(* _port_event, of the handle the host has for view c. *)
PortEvent(c, p) ==
  /\ ~ Making /\ ui[c] # Null /\ p \in pending[c]
  /\ instance' = [instance EXCEPT ![ui[c]].display[p] = value[p]]
  /\ pending'  = [pending EXCEPT ![c] = @ \ {p}]
  /\ UNCHANGED <<classVars, making, ui, widget, value, subscribed>>

(* External: the plugin or the host changes a port. *)
Automate(p, v) ==
  /\ ~ Making
  /\ value'   = [value EXCEPT ![p] = v]
  /\ pending' = [c \in Views |-> IF p \in subscribed[c] THEN pending[c] \cup {p} ELSE pending[c]]
  /\ UNCHANGED <<uiVars, subscribed>>

Next ==
  \/ \E reqs \in Required : Register(reqs)
  \/ \E c \in Views :
       \/ \E d \in Offered, F \in SUBSET Features, h \in Handles : Construct(c, d, F, h)
       \/ Accept(c) \/ Refuse(c) \/ Cleanup(c)
  \/ \E p \in Ports :
       \/ \E h \in Handles : \/ Subscribe(h, p) \/ Unsubscribe(h, p)
                             \/ \E v \in Values : WritePort(h, p, v)
       \/ \E c \in Views : PortEvent(c, p)
       \/ \E v \in Values : Automate(p, v)

Spec == Init /\ [][Next]_vars
-----------------------------------------------------------------------------
(* Of every value of the state; a UI is made through a registered          *)
(* descriptor.                                                             *)
TypeOK ==
  /\ descriptors \in Seq(Required) /\ Len(descriptors) <= MaxDescriptors
  /\ required \subseteq Features
  /\ extensions \in [Uris -> Range(Mixins) \cup {Null}]
  /\ instance \in [Handles -> InstancesOf(DOMAIN descriptors) \cup {Null}]
  /\ making \in [Views -> Handles \cup {Null}]
  /\ ui \in [Views -> Handles \cup {Null}] /\ widget \in [Views -> Handles \cup {Null}]
  /\ value \in [Ports -> Values]
  /\ subscribed \in [Views -> SUBSET Ports] /\ pending \in [Views -> SUBSET Ports]

LastMapper(u) == LET i == SelectLastInSeq(Mixins, LAMBDA m : u \in Provides[m])
                 IN IF i = 0 THEN Null ELSE Mixins[i]

(* The host has the handle and the widget of a live UI that was made for   *)
(* this view and has the features its descriptor requires, or neither; it  *)
(* drives a UI it has through the last mixin that maps an interface; and   *)
(* no instance is left that instantiate() refused.                         *)
HostHoldsItsUI ==
  /\ \A c \in Views :
       /\ widget[c] = ui[c]
       /\ ui[c] # Null => /\ instance[ui[c]] # Null
                          /\ instance[ui[c]].controller = c
                          /\ descriptors[instance[ui[c]].desc] \subseteq instance[ui[c]].features
                          /\ \A u \in Uris : extension_data(u) = LastMapper(u)
  /\ \A h \in Handles : instance[h] # Null => \E c \in Views : h \in {ui[c], making[c]}

(* A UI shows the value the plugin has for every port it was told it is    *)
(* subscribed to, or will be sent it: writes from its constructor, other   *)
(* UIs of the same plugin, and deleted ones at the same address included.  *)
ShowsPluginValues ==
  \A c \in Views : ui[c] # Null =>
    \A p \in instance[ui[c]].listening :
      p \in pending[c] \/ instance[ui[c]].display[p] = value[p]
=============================================================================
