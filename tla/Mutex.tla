------------------------------- MODULE Mutex -------------------------------
(***************************************************************************)
(* What a lock promises its users, whatever it does inside: at most one    *)
(* thread holds it, an attempt that does not wait is refused only while    *)
(* somebody holds it, and while threads wait a free lock is granted.       *)
(***************************************************************************)
CONSTANTS
  Threads, \* the threads that use the lock
  Nobody   \* stands for no thread

VARIABLES
  holder,  \* the thread that holds the lock, or Nobody
  waiting, \* the threads that wait until they hold it
  trying   \* the threads that ask for it without waiting

vars == <<holder, waiting, trying>>

Init == holder = Nobody /\ waiting = {} /\ trying = {}

Uses(t) == holder = t \/ t \in waiting \cup trying

Wait(t) == ~ Uses(t) /\ waiting' = waiting \cup {t} /\ UNCHANGED <<holder, trying>>
Try(t)  == ~ Uses(t) /\ trying'  = trying  \cup {t} /\ UNCHANGED <<holder, waiting>>

Grant(t) == /\ holder = Nobody
            /\ t \in waiting \cup trying
            /\ holder'  = t
            /\ waiting' = waiting \ {t}
            /\ trying'  = trying  \ {t}

Refuse(t) == /\ holder # Nobody
             /\ t \in trying
             /\ trying' = trying \ {t}
             /\ UNCHANGED <<holder, waiting>>

Release(t) == holder = t /\ holder' = Nobody /\ UNCHANGED <<waiting, trying>>

Next == \E t \in Threads : Wait(t) \/ Try(t) \/ Grant(t) \/ Refuse(t) \/ Release(t)

SafeSpec == Init /\ [][Next]_vars

(* A free lock somebody waits for is granted, to whom is not said; and an  *)
(* attempt that does not wait ends.                                        *)
Spec == /\ SafeSpec
        /\ WF_vars(\E t \in Threads : Grant(t))
        /\ \A t \in Threads : WF_vars(t \in trying /\ (Grant(t) \/ Refuse(t)))
=============================================================================
