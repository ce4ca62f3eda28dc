------------------------------ MODULE SpinLock ------------------------------
(***************************************************************************)
(* lvtk::SpinLock, one atomic step per access to its std::atomic<int>, and *)
(* threads that lock and unlock it in any order they like.                 *)
(*                                                                         *)
(* Every access is sequentially consistent (the class names no weaker      *)
(* order), and compare_exchange_strong does not fail spuriously.           *)
(***************************************************************************)
EXTENDS Naturals

CONSTANTS
  Threads, \* the threads that use the lock
  Nobody,  \* stands for no thread
  Spins    \* how often lock() spins before it yields: 20

ASSUME SpinsAssumption  == Spins \in Nat \ {0}
ASSUME NobodyAssumption == Nobody \notin Threads

VARIABLES
  flag, \* _lock: 0 or 1
  pc,   \* where each thread is
  left  \* the spins each thread has left

vars == <<flag, pc, left>>

Labels == {"idle", "first", "spin", "poll", "yield", "try", "critical"}

Init == /\ flag = 0
        /\ pc   = [t \in Threads |-> "idle"]
        /\ left = [t \in Threads |-> 0]

Goto(t, from, to) == pc[t] = from /\ pc' = [pc EXCEPT ![t] = to]

(* Mutant: load, then store, instead of compare and exchange. *)
WonUnchecked(t, from) ==
  flag' = 1 /\ Goto(t, from, "critical") /\ left' = [left EXCEPT ![t] = 0]

(* try_lock (0, 1): the compare and exchange finds 0, and the caller leaves *)
(* with its local counter, or it does not.                                  *)
Won(t, from) == /\ flag = 0
                /\ flag' = 1
                /\ Goto(t, from, "critical")
                /\ left' = [left EXCEPT ![t] = 0]

Lost(t, from, to) == flag # 0 /\ Goto(t, from, to) /\ UNCHANGED flag
-----------------------------------------------------------------------------
(* lock() is called. *)
Lock(t) == Goto(t, "idle", "first") /\ UNCHANGED <<flag, left>>

First(t) == \/ Won(t, "first")
            \/ /\ Lost(t, "first", "spin")
               /\ left' = [left EXCEPT ![t] = Spins]

(* Mutant: the spinning loop does not test its counter. *)
SpinOneMore(t) ==
  \/ Won(t, "spin")
  \/ /\ Lost(t, "spin", "spin")
     /\ left' = [left EXCEPT ![t] = @ - 1]

Spin(t) ==
  \/ Won(t, "spin")
  \/ /\ Lost(t, "spin", IF left[t] = 1 THEN "poll" ELSE "spin")
     /\ left' = [left EXCEPT ![t] = @ - 1]

(* Mutant: the last attempt counts as a success. *)
PollOnce(t) == Won(t, "poll") \/ (Lost(t, "poll", "critical") /\ UNCHANGED left)

Poll(t) == Won(t, "poll") \/ (Lost(t, "poll", "yield") /\ UNCHANGED left)

(* sched_yield() or Sleep (0) *)
Yield(t) == Goto(t, "yield", "poll") /\ UNCHANGED <<flag, left>>

(* try_lock() is called. *)
TryLock(t) == Goto(t, "idle", "try") /\ UNCHANGED <<flag, left>>

(* Mutant: try_lock() waits. *)
TryAgain(t) == Won(t, "try") \/ (Lost(t, "try", "try") /\ UNCHANGED left)

Try(t) == Won(t, "try") \/ (Lost(t, "try", "idle") /\ UNCHANGED left)

(* unlock() does not look at the lock: the caller must hold it. *)
Unlock(t) == flag' = 0 /\ Goto(t, "critical", "idle") /\ UNCHANGED left

locked == flag = 1

(* The steps of lock() and try_lock(). *)
Run(t) == First(t) \/ Spin(t) \/ Poll(t) \/ Yield(t) \/ Try(t)

Next == \E t \in Threads : Lock(t) \/ TryLock(t) \/ Unlock(t) \/ Run(t)

(* The scheduler runs every thread that is inside lock() or try_lock(); a  *)
(* thread need not ever unlock.                                            *)
Fairness == \A t \in Threads : WF_vars(Run(t))

Spec == Init /\ [][Next]_vars /\ Fairness
-----------------------------------------------------------------------------
(* Type correctness; the spin counter never runs below zero.               *)
(* spin_lock.ipp:19-34, spin_lock.hpp:34.                                  *)
TypeOK == /\ flag \in {0, 1}
          /\ pc   \in [Threads -> Labels]
          /\ left \in [Threads -> 0 .. Spins]
          /\ \A t \in Threads : pc[t] = "spin" => left[t] # 0

(* Two threads are never between lock() (or a successful try_lock()) and   *)
(* unlock() at once.                                                       *)
MutualExclusion ==
  \A t, u \in Threads : pc[t] = "critical" /\ pc[u] = "critical" => t = u

(* locked() is true exactly while some thread holds the lock.              *)
LockedIsHeld == locked <=> \E t \in Threads : pc[t] = "critical"

holder  == IF \E t \in Threads : pc[t] = "critical"
           THEN CHOOSE t \in Threads : pc[t] = "critical" ELSE Nobody
waiting == {t \in Threads : pc[t] \in {"first", "spin", "poll", "yield"}}
trying  == {t \in Threads : pc[t] = "try"}

(* The lock implements Mutex: refusals only while the lock is held, and a  *)
(* free lock is granted to somebody however the spinning, yielding and     *)
(* trying threads interleave.                                              *)
Abstract == INSTANCE Mutex
ImplementsMutex     == Abstract!Spec
ImplementsSafeMutex == Abstract!SafeSpec

(* "Lock immediately or return false. (realtime)": try_lock() returns even *)
(* if the holder never unlocks.                                            *)
TryLockReturns == \A t \in Threads : pc[t] = "try" ~> pc[t] # "try"
=============================================================================
