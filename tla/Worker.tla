------------------------------- MODULE Worker -------------------------------
(***************************************************************************)
(* Plugins with the mixin lvtk::Worker in a host: instances are made and   *)
(* deleted as in Plugin, the audio thread runs them and delivers           *)
(* responses, and the worker thread calls work() with their requests.      *)
(*                                                                         *)
(* The host is external: it gives every instance a slot of its own, with a *)
(* request queue, a response queue and the LV2_Worker_Schedule that leads  *)
(* to them, and follows the LV2 rules: run() only between activate() and   *)
(* deactivate(), cleanup() only when no call is in progress.  A request    *)
(* and a response are represented by the instance whose code sent them.    *)
(***************************************************************************)
EXTENDS Plugin

CONSTANTS
  WorkerMixin,   \* the mixin Worker
  WorkSchedule,  \* LV2_WORKER__schedule, a feature
  WorkInterface, \* LV2_WORKER__interface, extension data
  QueueSize      \* bound on the host's queues

(* A schedule feature's data is the LV2_Worker_Schedule of a slot. *)
Slots == Data

ASSUME WorkerAssumption ==
  WorkSchedule \in Features /\ WorkInterface \in Uris /\ QueueSize \in Nat

VARIABLES
  schedule, \* Worker::_schedule of every instance: a slot, or Null
  told,     \* requests an instance was told were taken and has not worked on
  plugin,   \* external: the handle in every slot
  phase,    \* external: where the audio thread is with it
  requests, \* external: requests not yet passed to work()
  working,  \* the call of work() in progress, or Null
  responses \* external: responses not yet passed to work_response()

workerVars == <<schedule, told, plugin, phase, requests, working, responses>>
vars == <<pluginVars, workerVars>>

WorkerInit ==
  /\ Init
  /\ schedule  = [h \in Handles |-> Null]
  /\ told      = [h \in Handles |-> 0]
  /\ plugin    = [s \in Slots |-> Null]
  /\ phase     = [s \in Slots |-> "inactive"]
  /\ requests  = [s \in Slots |-> <<>>]
  /\ working   = [s \in Slots |-> Null]
  /\ responses = [s \in Slots |-> <<>>]

HasWorker(h) == WorkerMixin \in Range(Mixins[descriptors[instance[h].desc].class])
-----------------------------------------------------------------------------
(* Mutant: _schedule is shared by all instances; the last one to be made   *)
(* sets it.                                                                *)
SharedSchedule(h, F) ==
  [i \in Handles |->
     IF instance[i] # Null \/ i = h
     THEN IF WorkSchedule \in DOMAIN F THEN F[WorkSchedule] ELSE Null
     ELSE schedule[i]]

(* The constructor Worker (const FeatureList&) sets _schedule to the data  *)
(* of the schedule feature.                                                *)
WithSchedule(h, F) ==
  [schedule EXCEPT ![h] = IF WorkSchedule \in DOMAIN F THEN F[WorkSchedule] ELSE Null]

(* The features a host passes for an instance in slot s. *)
FeaturesFor(s) == {F \in FeatureLists : \A u \in DOMAIN F : F[u] \in {s, Null}}

New(s) ==
  /\ plugin[s] = Null
  /\ \E d \in Offered, F \in FeaturesFor(s), h \in Handles :
       /\ Instantiate(d, F, h)
       /\ schedule' = IF WorkerMixin \in Range(Mixins[descriptors[d].class])
                      THEN WithSchedule(h, F) ELSE schedule
       /\ plugin' = [plugin EXCEPT ![s] = h]
  /\ UNCHANGED <<told, phase, requests, working, responses>>

NewRefused(s) ==
  /\ plugin[s] = Null
  /\ \E d \in Offered, F \in FeaturesFor(s) : Refuse(d, F)
  /\ UNCHANGED workerVars

Load == /\ \E c \in Classes, reqs \in SUBSET Features : Register(c, reqs)
        /\ UNCHANGED workerVars

(* The host moves slot s of its audio thread on. *)
Move(s, from, to) ==
  /\ plugin[s] # Null
  /\ phase[s] = from
  /\ phase' = [phase EXCEPT ![s] = to]
  /\ UNCHANGED <<pluginVars, schedule, told, plugin, requests, working, responses>>

Activate(s)   == Move(s, "inactive", "active")    \* _activate
Run(s)        == Move(s, "active", "running")     \* _run
Ran(s)        == Move(s, "running", "responding") \* run() returns
Deactivate(s) == Move(s, "active", "inactive")    \* _deactivate

(* _end_run, after the responses that were waiting. *)
EndRun(s) == responses[s] = <<>> /\ Move(s, "responding", "active")

(* _cleanup; the host then drops what is left in the slot's queues. *)
Delete(s) ==
  /\ plugin[s] # Null /\ phase[s] = "inactive" /\ working[s] = Null
  /\ Cleanup(plugin[s])
  /\ schedule'  = [schedule EXCEPT ![plugin[s]] = Null]
  /\ told'      = [told EXCEPT ![plugin[s]] = 0]
  /\ plugin'    = [plugin EXCEPT ![s] = Null]
  /\ requests'  = [requests EXCEPT ![s] = <<>>]
  /\ responses' = [responses EXCEPT ![s] = <<>>]
  /\ UNCHANGED <<phase, working>>
-----------------------------------------------------------------------------
(* Audio thread: run() of the instance in slot s calls schedule_work().    *)
(* WorkerSchedule::operator() without data returns ERR_UNKNOWN.            *)
ScheduleNowhere(s) ==
  /\ phase[s] = "running"
  /\ HasWorker(plugin[s])
  /\ schedule[plugin[s]] = Null
  /\ UNCHANGED vars

(* Mutant: SUCCESS whatever the host's schedule_work returned. *)
ScheduleUnchecked(s) ==
  /\ phase[s] = "running"
  /\ HasWorker(plugin[s])
  /\ schedule[plugin[s]] # Null
  /\ LET q == schedule[plugin[s]]
     IN requests' = IF Len(requests[q]) < QueueSize
                    THEN [requests EXCEPT ![q] = Append(@, plugin[s])] ELSE requests
  /\ told' = [told EXCEPT ![plugin[s]] = @ + 1]
  /\ UNCHANGED <<pluginVars, schedule, plugin, phase, working, responses>>

(* It returns what the host returns, whose queue may be full: ERR_NO_SPACE.*)
ScheduleWork(s) ==
  /\ phase[s] = "running"
  /\ HasWorker(plugin[s])
  /\ schedule[plugin[s]] # Null
  /\ LET q == schedule[plugin[s]]
         full == Len(requests[q]) = QueueSize
     IN /\ requests' = IF full THEN requests
                       ELSE [requests EXCEPT ![q] = Append(@, plugin[s])]
        /\ told' = IF full THEN told ELSE [told EXCEPT ![plugin[s]] = @ + 1]
  /\ UNCHANGED <<pluginVars, schedule, plugin, phase, working, responses>>

(* Worker thread: _work with the instance, a respond function and a handle *)
(* of the slot's response queue.                                           *)
Work(s) ==
  /\ working[s] = Null
  /\ requests[s] # <<>>
  /\ extension_data(descriptors[instance[plugin[s]].desc].class, WorkInterface) # Null
  /\ working'  = [working EXCEPT ![s] = [on |-> plugin[s], by |-> Head(requests[s]), respond |-> s]]
  /\ requests' = [requests EXCEPT ![s] = Tail(@)]
  /\ told'     = [told EXCEPT ![plugin[s]] = @ - 1]
  /\ UNCHANGED <<pluginVars, schedule, plugin, phase, responses>>

(* WorkerRespond::operator() in work().                                    *)
Respond(s) ==
  /\ working[s] # Null
  /\ LET q == working[s].respond
     IN /\ Len(responses[q]) < QueueSize
        /\ responses' = [responses EXCEPT ![q] = Append(@, working[s].on)]
  /\ UNCHANGED <<pluginVars, schedule, told, plugin, phase, requests, working>>

WorkDone(s) ==
  /\ working[s] # Null
  /\ working' = [working EXCEPT ![s] = Null]
  /\ UNCHANGED <<pluginVars, schedule, told, plugin, phase, requests, responses>>

(* Audio thread: _work_response after run().                               *)
WorkResponse(s) ==
  /\ phase[s] = "responding"
  /\ responses[s] # <<>>
  /\ responses' = [responses EXCEPT ![s] = Tail(@)]
  /\ UNCHANGED <<pluginVars, schedule, told, plugin, phase, requests, working>>
-----------------------------------------------------------------------------
WorkerNext ==
  \/ Load
  \/ \E s \in Slots :
       \/ New(s) \/ NewRefused(s) \/ Activate(s) \/ Run(s) \/ Ran(s) \/ EndRun(s)
       \/ Deactivate(s) \/ Delete(s) \/ ScheduleNowhere(s) \/ ScheduleWork(s)
       \/ Work(s) \/ Respond(s) \/ WorkDone(s) \/ WorkResponse(s)

(* The worker thread runs; nothing is assumed of the other threads. *)
WorkerSpec == /\ WorkerInit /\ [][WorkerNext]_vars
              /\ \A s \in Slots : WF_vars(Work(s)) /\ WF_vars(WorkDone(s))
-----------------------------------------------------------------------------
(* Of every value of the state, with at most QueueSize entries per queue.  *)
TypeOK ==
  /\ PluginTypeOK
  /\ schedule \in [Handles -> Slots \cup {Null}]
  /\ told \in [Handles -> 0 .. QueueSize]
  /\ plugin \in [Slots -> Handles \cup {Null}]
  /\ phase \in [Slots -> {"inactive", "active", "running", "responding"}]
  /\ working \in [Slots -> [on : Handles, by : Handles, respond : Slots] \cup {Null}]
  /\ \A q \in {requests, responses} :
       q \in [Slots -> Seq(Handles)] /\ \A s \in Slots : Len(q[s]) <= QueueSize

(* work() is called, and work_response() will be, on the very instance     *)
(* whose code sent the request or the response, and never on one that was  *)
(* deleted, although audio and worker thread never meet in the library.    *)
WorkStaysHome ==
  \A s \in Slots :
    /\ \A h \in Range(requests[s]) \cup Range(responses[s]) :
         h = plugin[s] /\ instance[h] # Null
    /\ working[s] # Null => /\ working[s].on = working[s].by
                            /\ working[s].on = plugin[s] /\ instance[plugin[s]] # Null

(* The length of h's queue of the two families of queues. *)
Waiting(queues, h) ==
  IF \E s \in Slots : plugin[s] = h THEN Len(queues[CHOOSE s \in Slots : plugin[s] = h]) ELSE 0

Channels == INSTANCE WorkChannels WITH
  pending <- [h \in Handles |-> Waiting(requests, h)],
  answers <- [h \in Handles |-> Waiting(responses, h)]

(* What an instance was told with SUCCESS is queued for it, whenever it is *)
(* scheduled and worked on (refinement of WorkChannels); and a queued      *)
(* request reaches work() unless the instance is deleted first, whatever   *)
(* the audio thread does.                                                  *)
ImplementsWorkChannels == Channels!Spec

(* Its safety part: no step loses, invents or misplaces a request or a     *)
(* response.                                                               *)
ImplementsSafeChannels == Channels!SafeSpec
=============================================================================
