------------------------------- MODULE State -------------------------------
(***************************************************************************)
(* The State mixin: the host saves and restores instances through _save    *)
(* and _restore of the one static LV2_State_Interface, each call with a    *)
(* function and a state handle of its own, wrapped in a StateStore or      *)
(* StateRetrieve that lives as long as the call.                           *)
(*                                                                         *)
(* Threads are those of LV2: a call of save may overlap run() of the same  *)
(* instance and calls for other instances, restore only the latter.  A     *)
(* state handle stands for one snapshot, which a single save() writes; the *)
(* host may refuse a key.  save() and restore() are the author's: they     *)
(* store or retrieve every key and return the status of the first one that *)
(* fails.                                                                  *)
(***************************************************************************)
CONSTANTS
  Instances, \* live instances of plugins with State
  Snapshots, \* the state handles of the host
  Keys,      \* the properties of an instance
  Values,    \* what they can be
  Null       \* nullptr

Statuses == {"SUCCESS", "ERR_UNKNOWN"}
Calls    == [op : {"save", "restore"}, handle : Snapshots, todo : SUBSET Keys, status : Statuses]
Restores == [from : Snapshots, status : Statuses]

ASSUME StateAssumption == Null \notin Values \cup Statuses \cup Calls \cup Restores

VARIABLES
  value,    \* the properties of every instance
  kept,     \* what the host keeps in every snapshot; Null when not stored
  call,     \* the call of every instance, or Null
  saved,    \* what the save() of a snapshot returned, or Null
  restored, \* the snapshot of the last restore(), until the instance runs
  during    \* history: the values of the saved instance since save() began

vars == <<value, kept, call, saved, restored, during>>

Empty == [k \in Keys |-> Null]

Init == /\ value    \in [Instances -> [Keys -> Values]]
        /\ kept     = [s \in Snapshots |-> Empty]
        /\ call     = [i \in Instances |-> Null]
        /\ saved    = [s \in Snapshots |-> Null]
        /\ restored = [i \in Instances |-> Null]
        /\ during   = [s \in Snapshots |-> [k \in Keys |-> {}]]

Saving(i)    == call[i] # Null /\ call[i].op = "save"
Restoring(i) == call[i] # Null /\ call[i].op = "restore"
InUse(s)     == \E i \in Instances : call[i] # Null /\ call[i].handle = s
-----------------------------------------------------------------------------
(* StateStore store (..., state_handle) or StateRetrieve retrieve (...).   *)
Called(i, op, s) == call' = [call EXCEPT ![i] =
                               [op |-> op, handle |-> s, todo |-> Keys, status |-> "SUCCESS"]]

(* _save() is entered with the handle of a snapshot not written before.    *)
_save(i, s) ==
  /\ call[i] = Null /\ ~ InUse(s) /\ saved[s] = Null
  /\ Called(i, "save", s)
  /\ during' = [during EXCEPT ![s] = [k \in Keys |-> {value[i][k]}]]
  /\ UNCHANGED <<value, kept, saved, restored>>

(* Mutant: the wrapper is one static object, which another call set up.    *)
SharedHandle(i) == call[CHOOSE j \in Instances : call[j] # Null].handle

(* p_handle of the wrapper of the call of i. *)
p_handle(i) == call[i].handle

(* Mutant: the wrapper does not pass on what the host's function returns.  *)
StatusDropped(status) == "SUCCESS"

(* (StateStatus) f_store (...), and (LV2_State_Status) plugin->save (...). *)
Forwarded(status) == status

(* The author goes on with the other keys, or returns with the status.     *)
Then(i, k, status) ==
  call' = [call EXCEPT ![i].todo   = IF status = "SUCCESS" THEN @ \ {k} ELSE {},
                       ![i].status = status]

(* store (key, ...): the host keeps the value or refuses the key.          *)
StateStore(i, k) ==
  /\ Saving(i) /\ k \in call[i].todo
  /\ \/ /\ kept' = [kept EXCEPT ![p_handle(i)][k] = value[i][k]]
        /\ Then(i, k, Forwarded("SUCCESS"))
     \/ /\ kept' = kept
        /\ Then(i, k, Forwarded("ERR_UNKNOWN"))
  /\ UNCHANGED <<value, saved, restored, during>>

(* _save() returns.                                                        *)
SaveReturns(i) ==
  /\ Saving(i) /\ call[i].todo = {}
  /\ saved' = [saved EXCEPT ![call[i].handle] = call[i].status]
  /\ call'  = [call EXCEPT ![i] = Null]
  /\ UNCHANGED <<value, kept, restored, during>>
-----------------------------------------------------------------------------
(* _restore() is entered, for any instance, with a snapshot that is        *)
(* complete or not.                                                        *)
_restore(i, s) ==
  /\ call[i] = Null /\ saved[s] # Null
  /\ Called(i, "restore", s)
  /\ restored' = [restored EXCEPT ![i] = Null]
  /\ UNCHANGED <<value, kept, saved, during>>

(* Mutant: the author uses what is retrieved without a look at it.         *)
StateRetrieveUnchecked(i, k) ==
  /\ Restoring(i) /\ k \in call[i].todo
  /\ value' = [value EXCEPT ![i][k] = kept[p_handle(i)][k]]
  /\ Then(i, k, "SUCCESS")
  /\ UNCHANGED <<kept, saved, restored, during>>

(* retrieve (key, ...) returns nullptr for a key that is not there.        *)
StateRetrieve(i, k) ==
  /\ Restoring(i) /\ k \in call[i].todo
  /\ LET found == kept[p_handle(i)][k]
     IN IF found # Null
        THEN value' = [value EXCEPT ![i][k] = found] /\ Then(i, k, "SUCCESS")
        ELSE value' = value /\ Then(i, k, "ERR_UNKNOWN")
  /\ UNCHANGED <<kept, saved, restored, during>>

(* _restore() returns.                                                     *)
RestoreReturns(i) ==
  /\ Restoring(i) /\ call[i].todo = {}
  /\ restored' = [restored EXCEPT ![i] = [from |-> call[i].handle, status |-> call[i].status]]
  /\ call'     = [call EXCEPT ![i] = Null]
  /\ UNCHANGED <<value, kept, saved, during>>
-----------------------------------------------------------------------------
(* run() or a port changes a property, also while the instance is saved.   *)
Run(i, k, v) ==
  /\ ~ Restoring(i)
  /\ value'    = [value EXCEPT ![i][k] = v]
  /\ restored' = [restored EXCEPT ![i] = Null]
  /\ during'   = [s \in Snapshots |->
                    IF Saving(i) /\ call[i].handle = s
                    THEN [during[s] EXCEPT ![k] = @ \cup {v}] ELSE during[s]]
  /\ UNCHANGED <<kept, call, saved>>

(* The host deletes a snapshot. *)
Discard(s) ==
  /\ saved[s] # Null /\ ~ InUse(s)
  /\ saved'    = [saved EXCEPT ![s] = Null]
  /\ kept'     = [kept EXCEPT ![s] = Empty]
  /\ during'   = [during EXCEPT ![s] = [k \in Keys |-> {}]]
  /\ restored' = [i \in Instances |->
                    IF restored[i] # Null /\ restored[i].from = s THEN Null ELSE restored[i]]
  /\ UNCHANGED <<value, call>>

Next == \/ \E i \in Instances, s \in Snapshots : _save(i, s) \/ _restore(i, s)
        \/ \E i \in Instances, k \in Keys : StateStore(i, k) \/ StateRetrieve(i, k)
        \/ \E i \in Instances : SaveReturns(i) \/ RestoreReturns(i)
        \/ \E i \in Instances, k \in Keys, v \in Values : Run(i, k, v)
        \/ \E s \in Snapshots : Discard(s)

Spec == Init /\ [][Next]_vars
-----------------------------------------------------------------------------
(* Type correctness: a property is never null, whatever a restore() finds. *)
TypeOK ==
  /\ value \in [Instances -> [Keys -> Values]]
  /\ kept \in [Snapshots -> [Keys -> Values \cup {Null}]]
  /\ call \in [Instances -> Calls \cup {Null}]
  /\ saved \in [Snapshots -> Statuses \cup {Null}]
  /\ restored \in [Instances -> Restores \cup {Null}]
  /\ during \in [Snapshots -> [Keys -> SUBSET Values]]

(* However the calls of several instances and run() interleave, a snapshot *)
(* has for every key a value that the instance it was made of had at some  *)
(* moment of that save(): never one of another instance, nor an older one. *)
SnapshotIsOwn ==
  \A s \in Snapshots, k \in Keys : kept[s][k] # Null => kept[s][k] \in during[s][k]

(* The status that reaches the host tells the truth: save() succeeded just *)
(* when every key is in the snapshot, and an instance whose restore()      *)
(* succeeded is in the state of its snapshot until it runs.                *)
StatusTruthful ==
  /\ \A s \in Snapshots : saved[s] # Null =>
       (saved[s] = "SUCCESS" <=> \A k \in Keys : kept[s][k] # Null)
  /\ \A i \in Instances : restored[i] # Null =>
       (restored[i].status = "SUCCESS" <=> value[i] = kept[restored[i].from])
=============================================================================
