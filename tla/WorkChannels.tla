---------------------------- MODULE WorkChannels ----------------------------
(***************************************************************************)
(* What the worker extension promises a plugin: a request whose            *)
(* schedule_work() succeeded is passed to work() of the same instance, and *)
(* what work() responds comes back to that instance, unless it is deleted. *)
(***************************************************************************)
EXTENDS Naturals

CONSTANTS Handles

VARIABLES
  pending, \* requests of every instance that were queued and not worked on
  answers, \* responses of every instance that were not delivered yet
  told     \* requests every instance was told were queued and has not got

vars == <<pending, answers, told>>

Init == /\ pending = [h \in Handles |-> 0]
        /\ answers = [h \in Handles |-> 0]
        /\ told    = [h \in Handles |-> 0]

(* A request is queued exactly when the instance is told so; one that is   *)
(* rejected changes nothing.                                               *)
Accept(h) == /\ pending' = [pending EXCEPT ![h] = @ + 1]
             /\ told'    = [told EXCEPT ![h] = @ + 1]
             /\ UNCHANGED answers

Work(h) == /\ pending[h] > 0
           /\ pending' = [pending EXCEPT ![h] = @ - 1]
           /\ told'    = [told EXCEPT ![h] = @ - 1]
           /\ UNCHANGED answers

Respond(h) == /\ answers' = [answers EXCEPT ![h] = @ + 1]
              /\ UNCHANGED <<pending, told>>

Deliver(h) == /\ answers[h] > 0
              /\ answers' = [answers EXCEPT ![h] = @ - 1]
              /\ UNCHANGED <<pending, told>>

Discard(h) == /\ pending' = [pending EXCEPT ![h] = 0]
              /\ answers' = [answers EXCEPT ![h] = 0]
              /\ told'    = [told EXCEPT ![h] = 0]

Next == \E h \in Handles : \/ Accept(h) \/ Work(h) \/ Respond(h)
                           \/ Deliver(h) \/ Discard(h)

SafeSpec == Init /\ [][Next]_vars

Spec == SafeSpec /\ \A h \in Handles : WF_vars(Work(h))
=============================================================================
