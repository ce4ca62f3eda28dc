--------------------------- MODULE SharingProofs ---------------------------
(***************************************************************************)
(* Proofs about the two utilities that share state between their users:    *)
(* SpinLock, for any set of threads and any number of spins, and WeakRef,  *)
(* for any objects, references and cells.                                  *)
(***************************************************************************)
EXTENDS SpinLock, WeakRef, TLAPS

(* The atomic int is a faithful record of who is in the critical section.  *)
(* Mutual exclusion alone is not inductive: a thread may enter only because*)
(* a zero flag means that nobody is inside.                                *)
IInv == TypeOK /\ MutualExclusion /\ LockedIsHeld

LEMMA InitInv == Init => IInv
BY SpinsAssumption DEF Init, IInv, TypeOK, MutualExclusion, LockedIsHeld, locked, Labels

(* A compare and exchange that finds 0 lets its thread in alone.           *)
LEMMA WonInv ==
  ASSUME IInv, NEW t \in Threads, NEW from, Won(t, from)
  PROVE  IInv'
BY SpinsAssumption
   DEF IInv, TypeOK, MutualExclusion, LockedIsHeld, locked, Labels, Won, Goto

(* Moving a thread about outside the critical section, the counter within  *)
(* its bounds, disturbs nothing.                                           *)
LEMMA MoveInv ==
  ASSUME IInv, NEW t \in Threads,
         NEW from \in Labels \ {"critical"}, NEW to \in Labels \ {"critical"},
         Goto(t, from, to), flag' = flag, left' \in [Threads -> 0 .. Spins],
         to = "spin" => left'[t] # 0,
         \A u \in Threads \ {t} : left'[u] = left[u]
  PROVE  IInv'
<1>1. /\ pc' \in [Threads -> Labels] /\ pc[t] = from /\ pc'[t] = to
      /\ \A u \in Threads \ {t} : pc'[u] = pc[u]
  BY DEF IInv, TypeOK, Goto
<1>2. \A u \in Threads : pc'[u] = "critical" <=> pc[u] = "critical"
  BY <1>1
<1>3. TypeOK'
  BY <1>1 DEF IInv, TypeOK
<1> QED
  BY <1>2, <1>3 DEF IInv, MutualExclusion, LockedIsHeld, locked

LEMMA NextInv == IInv /\ [Next]_vars => IInv'
<1> SUFFICES ASSUME IInv, [Next]_vars PROVE IInv'
  OBVIOUS
<1>0. left \in [Threads -> 0 .. Spins] /\ Spins \in Nat \ {0}
  BY SpinsAssumption DEF IInv, TypeOK
<1>1. ASSUME NEW t \in Threads, Lock(t) PROVE IInv'
  BY <1>0, <1>1, MoveInv DEF Lock, Labels
<1>2. ASSUME NEW t \in Threads, TryLock(t) PROVE IInv'
  BY <1>0, <1>2, MoveInv DEF TryLock, Labels
<1>3. ASSUME NEW t \in Threads, First(t) PROVE IInv'
  <2>1. CASE Won(t, "first")
    BY <2>1, WonInv
  <2>2. CASE Lost(t, "first", "spin") /\ left' = [left EXCEPT ![t] = Spins]
    BY <1>0, <2>2, MoveInv DEF Lost, Labels
  <2> QED
    BY <1>3, <2>1, <2>2 DEF First
<1>4. ASSUME NEW t \in Threads, Spin(t) PROVE IInv'
  <2>1. CASE Won(t, "spin")
    BY <2>1, WonInv
  <2>2. CASE /\ Lost(t, "spin", IF left[t] = 1 THEN "poll" ELSE "spin")
             /\ left' = [left EXCEPT ![t] = @ - 1]
    <3>1. pc[t] = "spin" /\ left[t] \in 1 .. Spins
      BY <1>0, <2>2 DEF Lost, Goto, IInv, TypeOK
    <3>2. left' \in [Threads -> 0 .. Spins] /\ (left[t] # 1 => left'[t] # 0)
      BY <1>0, <2>2, <3>1
    <3> QED
      BY <1>0, <2>2, <3>2, MoveInv DEF Lost, Labels
  <2> QED
    BY <1>4, <2>1, <2>2 DEF Spin
<1>5. ASSUME NEW t \in Threads, Poll(t) PROVE IInv'
  <2>1. CASE Won(t, "poll")
    BY <2>1, WonInv
  <2>2. CASE Lost(t, "poll", "yield") /\ UNCHANGED left
    BY <1>0, <2>2, MoveInv DEF Lost, Labels
  <2> QED
    BY <1>5, <2>1, <2>2 DEF Poll
<1>6. ASSUME NEW t \in Threads, Yield(t) PROVE IInv'
  BY <1>0, <1>6, MoveInv DEF Yield, Labels
<1>7. ASSUME NEW t \in Threads, Try(t) PROVE IInv'
  <2>1. CASE Won(t, "try")
    BY <2>1, WonInv
  <2>2. CASE Lost(t, "try", "idle") /\ UNCHANGED left
    BY <1>0, <2>2, MoveInv DEF Lost, Labels
  <2> QED
    BY <1>7, <2>1, <2>2 DEF Try
<1>8. ASSUME NEW t \in Threads, Unlock(t) PROVE IInv'
  BY <1>8 DEF IInv, TypeOK, MutualExclusion, LockedIsHeld, locked, Labels, Unlock, Goto
<1>9. CASE UNCHANGED vars
  BY <1>9 DEF vars, IInv, TypeOK, MutualExclusion, LockedIsHeld, locked
<1> QED
  BY <1>1, <1>2, <1>3, <1>4, <1>5, <1>6, <1>7, <1>8, <1>9 DEF Next, Run

(* The invariant holds in every reachable state: spin_lock.ipp:19-34.      *)
THEOREM Invariance == Spec => []IInv
BY InitInv, NextInv, PTL DEF Spec

(* Every thread is at a label of the code, the flag is 0 or 1, and a       *)
(* thread that spins has turns of its burst left.                          *)
THEOREM TypeCorrect == Spec => []TypeOK
BY Invariance, PTL DEF IInv

(* No two threads hold the lock at once, however many there are.           *)
THEOREM Exclusion == Spec => []MutualExclusion
BY Invariance, PTL DEF IInv

(* locked() tells the truth: spin_lock.hpp:31.                             *)
THEOREM LockedTruthful == Spec => []LockedIsHeld
BY Invariance, PTL DEF IInv
-----------------------------------------------------------------------------
(* The abstract holder is the thread in the critical section, if any.      *)
LEMMA HolderFacts ==
  ASSUME IInv
  PROVE  /\ \A t \in Threads : pc[t] = "critical" <=> holder = t
         /\ holder = Nobody <=> flag = 0
         /\ holder \in Threads \cup {Nobody}
<1>1. CASE \E t \in Threads : pc[t] = "critical"
  <2>1. PICK t \in Threads : pc[t] = "critical"
    BY <1>1
  <2>2. holder \in Threads /\ pc[holder] = "critical"
    BY <2>1 DEF holder
  <2>3. holder = t /\ \A u \in Threads : pc[u] = "critical" => u = t
    BY <2>1, <2>2 DEF IInv, MutualExclusion
  <2>4. flag = 1
    BY <2>1 DEF IInv, LockedIsHeld, locked
  <2> QED
    BY <2>1, <2>3, <2>4, NobodyAssumption
<1>2. CASE ~ \E t \in Threads : pc[t] = "critical"
  <2>1. holder = Nobody /\ flag = 0
    BY <1>2 DEF holder, IInv, LockedIsHeld, locked, TypeOK
  <2> QED
    BY <1>2, <2>1, NobodyAssumption
<1> QED
  BY <1>1, <1>2

(* Where a thread is after it moved. *)
LEMMA GotoFacts ==
  ASSUME TypeOK, NEW t \in Threads, NEW from, NEW to, Goto(t, from, to)
  PROVE  /\ pc[t] = from /\ pc'[t] = to
         /\ \A u \in Threads \ {t} : pc'[u] = pc[u]
BY DEF TypeOK, Goto

(* A successful compare and exchange grants the lock.                      *)
LEMMA WonGrants ==
  ASSUME IInv, IInv', NEW t \in Threads, NEW from \in {"first", "spin", "poll", "try"},
         Won(t, from)
  PROVE  Abstract!Grant(t)
<1>1. pc[t] = from /\ pc'[t] = "critical" /\ \A u \in Threads \ {t} : pc'[u] = pc[u]
  BY GotoFacts DEF IInv, Won
<1>2. holder = Nobody /\ holder' = t
  <2>1. flag = 0
    BY DEF Won
  <2>2. \A u \in Threads : pc'[u] = "critical" => u = t
    BY <1>1, IInv' DEF IInv, MutualExclusion
  <2> QED
    BY <1>1, <2>1, <2>2, HolderFacts DEF holder
<1>3. waiting' = waiting \ {t} /\ trying' = trying \ {t} /\ t \in waiting \cup trying
  BY <1>1 DEF waiting, trying
<1> QED
  BY <1>2, <1>3 DEF Abstract!Grant

(* The holder changes only when a thread enters or leaves.                 *)
LEMMA HolderSame ==
  ASSUME IInv, \A u \in Threads : pc'[u] = "critical" <=> pc[u] = "critical"
  PROVE  holder' = holder
<1>1. CASE \E u \in Threads : pc[u] = "critical"
  <2>1. PICK u \in Threads : pc[u] = "critical"
    BY <1>1
  <2>2. /\ \A v \in Threads : pc[v] = "critical" => v = u
        /\ \A v \in Threads : pc'[v] = "critical" => v = u
    BY <2>1 DEF IInv, MutualExclusion
  <2> QED
    BY <2>1, <2>2 DEF holder
<1>2. CASE ~ \E u \in Threads : pc[u] = "critical"
  BY <1>2 DEF holder
<1> QED
  BY <1>1, <1>2

(* A thread that moves inside lock() is still waiting.                     *)
LEMMA MoveStutters ==
  ASSUME IInv, NEW t \in Threads, NEW from \in {"first", "spin", "poll", "yield"},
         NEW to \in {"first", "spin", "poll", "yield"}, Goto(t, from, to)
  PROVE  UNCHANGED <<holder, waiting, trying>>
<1>1. pc[t] = from /\ pc'[t] = to /\ \A u \in Threads \ {t} : pc'[u] = pc[u]
  BY GotoFacts DEF IInv
<1>2. \A u \in Threads : pc'[u] = "critical" <=> pc[u] = "critical"
  BY <1>1
<1>3. holder' = holder
  BY <1>2, HolderSame
<1>4. waiting' = waiting /\ trying' = trying
  BY <1>1 DEF waiting, trying
<1> QED
  BY <1>3, <1>4

(* The spinning, yielding lock implements the abstract one: every step of  *)
(* a thread inside lock() is a grant or invisible, try_lock() refuses only *)
(* while the lock is held.  (That a free lock is granted eventually is     *)
(* liveness, and model-checked.)                                           *)
THEOREM SpinLockImplementsMutex == Spec => ImplementsSafeMutex
<1>1. Init => Abstract!Init
  BY DEF Init, Abstract!Init, holder, waiting, trying
<1>2. IInv /\ IInv' /\ [Next]_vars => [Abstract!Next]_(Abstract!vars)
  <2> SUFFICES ASSUME IInv, IInv', [Next]_vars
               PROVE  [Abstract!Next]_(Abstract!vars)
    OBVIOUS
  <2>1. ASSUME NEW t \in Threads, NEW from \in {"first", "spin", "poll", "try"}, Won(t, from)
        PROVE  Abstract!Next
    BY <2>1, WonGrants DEF Abstract!Next
  <2>2. ASSUME NEW t \in Threads, NEW from \in {"first", "spin", "poll", "yield"},
               NEW to \in {"first", "spin", "poll", "yield"}, Goto(t, from, to)
        PROVE  UNCHANGED Abstract!vars
    BY <2>2, MoveStutters DEF Abstract!vars
  <2>3. ASSUME NEW t \in Threads, NEW to \in {"first", "try"}, Goto(t, "idle", to)
        PROVE  Abstract!Next
    <3>1. pc[t] = "idle" /\ pc'[t] = to /\ \A u \in Threads \ {t} : pc'[u] = pc[u]
      BY <2>3, GotoFacts DEF IInv
    <3>2. holder' = holder /\ holder # t
      <4>1. \A u \in Threads : pc'[u] = "critical" <=> pc[u] = "critical"
        BY <3>1
      <4> QED
        BY <3>1, <4>1, HolderFacts, HolderSame
    <3>3. t \notin waiting /\ t \notin trying
      BY <3>1 DEF waiting, trying
    <3>4. CASE to = "first"
      <4>1. waiting' = waiting \cup {t} /\ trying' = trying
        BY <3>1, <3>4 DEF waiting, trying
      <4> QED
        BY <3>2, <3>3, <4>1 DEF Abstract!Next, Abstract!Wait, Abstract!Uses
    <3>5. CASE to = "try"
      <4>1. trying' = trying \cup {t} /\ waiting' = waiting
        BY <3>1, <3>5 DEF waiting, trying
      <4> QED
        BY <3>2, <3>3, <4>1 DEF Abstract!Next, Abstract!Try, Abstract!Uses
    <3> QED
      BY <3>4, <3>5
  <2>4. ASSUME NEW t \in Threads, Lost(t, "try", "idle") PROVE Abstract!Next
    <3>1. pc[t] = "try" /\ pc'[t] = "idle" /\ \A u \in Threads \ {t} : pc'[u] = pc[u]
      BY <2>4, GotoFacts DEF IInv, Lost
    <3>2. holder' = holder /\ holder # Nobody
      <4>1. \A u \in Threads : pc'[u] = "critical" <=> pc[u] = "critical"
        BY <3>1
      <4>2. flag # 0
        BY <2>4 DEF Lost
      <4> QED
        BY <4>1, <4>2, HolderFacts, HolderSame
    <3>3. t \in trying /\ trying' = trying \ {t} /\ waiting' = waiting
      BY <3>1 DEF waiting, trying
    <3> QED
      BY <3>2, <3>3 DEF Abstract!Next, Abstract!Refuse
  <2>5. ASSUME NEW t \in Threads, Unlock(t) PROVE Abstract!Next
    <3>1. pc[t] = "critical" /\ pc'[t] = "idle" /\ \A u \in Threads \ {t} : pc'[u] = pc[u]
      BY <2>5, GotoFacts DEF IInv, Unlock
    <3>2. holder = t
      BY <3>1, HolderFacts
    <3>3. holder' = Nobody
      <4>1. \A u \in Threads : pc'[u] # "critical"
        BY <3>1 DEF IInv, MutualExclusion
      <4> QED
        BY <4>1 DEF holder
    <3>4. waiting' = waiting /\ trying' = trying
      BY <3>1 DEF waiting, trying
    <3> QED
      BY <3>2, <3>3, <3>4 DEF Abstract!Next, Abstract!Release
  <2>6. CASE UNCHANGED vars
    BY <2>6 DEF vars, Abstract!vars, holder, waiting, trying
  <2>7. ASSUME NEW t \in Threads, Lock(t) \/ TryLock(t) PROVE Abstract!Next
    BY <2>3, <2>7 DEF Lock, TryLock
  <2>8. ASSUME NEW t \in Threads, Run(t) PROVE [Abstract!Next]_(Abstract!vars)
    BY <2>1, <2>2, <2>4, <2>8 DEF Run, First, Spin, Poll, Yield, Try, Lost
  <2> QED
    BY <2>5, <2>6, <2>7, <2>8 DEF Next
<1> QED
  BY <1>1, <1>2, Invariance, PTL DEF Spec, ImplementsSafeMutex, Abstract!SafeSpec
-----------------------------------------------------------------------------
(* An address in a cell is that of a live object, which shares that cell.  *)
PtrOwned == \A c \in Cells : ptr[c] # Null => ptr[c] \in live /\ own[ptr[c]] = c

(* lock() follows a reference to a cell, so that it returns live objects   *)
(* is inductive only with what the cells hold, and the cells' contents     *)
(* only with which object shares them.                                     *)
WeakInv == WeakTypeOK /\ StatusFaithful /\ PtrOwned

LEMMA WeakInitInv == WeakInit => WeakInv
BY DEF WeakInit, WeakInv, WeakTypeOK, StatusFaithful, PtrOwned

LEMMA WeakNextInv == WeakInv /\ [WeakNext]_weakVars => WeakInv'
<1> SUFFICES ASSUME WeakInv, [WeakNext]_weakVars PROVE WeakInv'
  OBVIOUS
<1> USE NullAssumption
<1>1. ASSUME NEW o \in Objects, Construct(o) PROVE WeakInv'
  <2>1. PICK c \in Cells : /\ Free(c)
                           /\ own' = [own EXCEPT ![o] = c]
                           /\ ptr' = [ptr EXCEPT ![c] = o]
    BY <1>1 DEF Construct, Free
  <2>2. o \notin live /\ live' = live \cup {o} /\ status' = status
    BY <1>1 DEF Construct
  <2>3. WeakTypeOK'
    BY <2>1, <2>2 DEF WeakInv, WeakTypeOK
  <2>4. StatusFaithful'
    BY <2>1, <2>2 DEF WeakInv, WeakTypeOK, StatusFaithful, Free
  <2>5. PtrOwned'
    BY <2>1, <2>2 DEF WeakInv, WeakTypeOK, PtrOwned
  <2> QED
    BY <2>3, <2>4, <2>5 DEF WeakInv
<1>2. ASSUME NEW o \in Objects, Destroy(o) PROVE WeakInv'
  <2>1. own[o] \in Cells /\ ptr[own[o]] = o
    BY <1>2 DEF Destroy, WeakInv, WeakTypeOK, StatusFaithful
  <2>2. WeakTypeOK'
    BY <1>2, <2>1 DEF Destroy, WeakInv, WeakTypeOK
  <2>3. StatusFaithful'
    BY <1>2, <2>1 DEF Destroy, WeakInv, WeakTypeOK, StatusFaithful
  <2>4. PtrOwned'
    BY <1>2, <2>1 DEF Destroy, WeakInv, WeakTypeOK, PtrOwned
  <2> QED
    BY <2>2, <2>3, <2>4 DEF WeakInv
<1>3. ASSUME NEW r \in Refs, NEW o \in Objects, Refer(r, o) PROVE WeakInv'
  BY <1>3 DEF Refer, WeakInv, WeakTypeOK, StatusFaithful, PtrOwned
<1>4. ASSUME NEW r \in Refs, Empty(r) PROVE WeakInv'
  <2>1. PICK c \in Cells : /\ Free(c)
                           /\ status' = [status EXCEPT ![r] = c]
                           /\ ptr'    = [ptr EXCEPT ![c] = Null]
    BY <1>4 DEF Empty, Free
  <2>2. live' = live /\ own' = own
    BY <1>4 DEF Empty
  <2>3. WeakTypeOK'
    BY <2>1, <2>2 DEF WeakInv, WeakTypeOK
  <2>4. StatusFaithful'
    BY <2>1, <2>2 DEF WeakInv, WeakTypeOK, StatusFaithful, Free
  <2>5. PtrOwned'
    BY <2>1, <2>2 DEF WeakInv, WeakTypeOK, PtrOwned
  <2> QED
    BY <2>3, <2>4, <2>5 DEF WeakInv
<1>5. ASSUME NEW r \in Refs, NEW q \in Refs, Copy(r, q) \/ Move(r, q) PROVE WeakInv'
  BY <1>5 DEF Copy, Move, WeakInv, WeakTypeOK, StatusFaithful, PtrOwned
<1>6. CASE UNCHANGED weakVars
  BY <1>6 DEF weakVars, WeakInv, WeakTypeOK, StatusFaithful, PtrOwned
<1> QED
  BY <1>1, <1>2, <1>3, <1>4, <1>5, <1>6 DEF WeakNext

(* The invariant holds in every reachable state: weak_ref.hpp:19-71.       *)
THEOREM WeakInvariance == WeakSpec => []WeakInv
BY WeakInitInv, WeakNextInv, PTL DEF WeakSpec

(* Every live object, and no other, has a share of a cell.                 *)
THEOREM WeakTypeCorrect == WeakSpec => []WeakTypeOK
BY WeakInvariance, PTL DEF WeakInv

(* What lock() returns has an object that shares the reference's cell.     *)
LEMMA LockFacts ==
  ASSUME WeakInv, NEW r \in Refs, lock(r) # Null
  PROVE  lock(r) \in live /\ lock(r) \in Objects /\ own[lock(r)] = status[r]
BY DEF WeakInv, WeakTypeOK, PtrOwned, lock, NotNull, get

(* lock() never returns an object that is gone: weak_ref.hpp:112-115.      *)
THEOREM LocksAreLive == WeakSpec => []LockIsLive
<1>1. WeakInv => LockIsLive
  BY LockFacts DEF LockIsLive
<1> QED
  BY <1>1, WeakInvariance, PTL

(* A reference made from a live object yields it: weak_ref.hpp:109-110.    *)
THEOREM StatusesAreFaithful == WeakSpec => []StatusFaithful
BY WeakInvariance, PTL DEF WeakInv
-----------------------------------------------------------------------------
(* References with the cells and shares hidden are WeakPointers: what they *)
(* yield changes only when they are assigned or their object is deleted.   *)
THEOREM WeakRefImplementsWeakPointers == WeakSpec => ImplementsWeakPointers
<1> USE NullAssumption
<1>1. WeakInit => Pointers!Init
  BY DEF WeakInit, Pointers!Init, lock, NotNull, get
<1>2. WeakInv /\ WeakInv' /\ [WeakNext]_weakVars => [Pointers!Next]_(Pointers!vars)
  <2> SUFFICES ASSUME WeakInv, WeakInv', [WeakNext]_weakVars PROVE [Pointers!Next]_(Pointers!vars)
    OBVIOUS
  <2> DEFINE target == [r \in Refs |-> lock(r)]
  <2>1. ASSUME NEW o \in Objects, Construct(o) PROVE Pointers!Create(o)
    <3>1. PICK c \in Cells : Free(c) /\ ptr' = [ptr EXCEPT ![c] = o]
      BY <2>1 DEF Construct, Free
    <3>2. \A r \in Refs : lock(r)' = lock(r)
      BY <2>1, <3>1 DEF Construct, Free, lock, NotNull, get, WeakInv, WeakTypeOK
    <3> QED
      BY <2>1, <3>2 DEF Construct, Pointers!Create
  <2>2. ASSUME NEW o \in Objects, Destroy(o) PROVE Pointers!Delete(o)
    <3>1. own[o] \in Cells /\ ptr[own[o]] = o /\ ptr' = [ptr EXCEPT ![own[o]] = Null]
          /\ status' = status
      BY <2>2 DEF Destroy, WeakInv, WeakTypeOK, StatusFaithful
    <3>2. ASSUME NEW r \in Refs PROVE lock(r)' = IF lock(r) = o THEN Null ELSE lock(r)
      <4>1. CASE status[r] = own[o]
        BY <3>1, <4>1 DEF lock, NotNull, get, WeakInv, WeakTypeOK
      <4>2. CASE status[r] # own[o]
        <5>1. lock(r) # o
          BY <4>2, LockFacts
        <5>2. lock(r)' = lock(r)
          BY <3>1, <4>2 DEF lock, NotNull, get, WeakInv, WeakTypeOK
        <5> QED
          BY <5>1, <5>2
      <4> QED
        BY <4>1, <4>2
    <3> QED
      BY <2>2, <3>2 DEF Destroy, Pointers!Delete
  <2>3. ASSUME NEW r \in Refs, NEW o \in Objects, Refer(r, o) PROVE Pointers!Point(r, o)
    <3>1. own[o] \in Cells /\ ptr[own[o]] = o
      BY <2>3 DEF Refer, WeakInv, WeakTypeOK, StatusFaithful
    <3>2. \A q \in Refs : lock(q)' = IF q = r THEN o ELSE lock(q)
      BY <2>3, <3>1 DEF Refer, lock, NotNull, get, WeakInv, WeakTypeOK
    <3> QED
      BY <2>3, <3>2 DEF Refer, Pointers!Point
  <2>4. ASSUME NEW r \in Refs, Empty(r) PROVE Pointers!Clear(r)
    <3>1. PICK c \in Cells : /\ Free(c)
                             /\ status' = [status EXCEPT ![r] = c]
                             /\ ptr'    = [ptr EXCEPT ![c] = Null]
      BY <2>4 DEF Empty, Free
    <3>2. \A q \in Refs : lock(q)' = IF q = r THEN Null ELSE lock(q)
      BY <3>1 DEF Free, lock, NotNull, get, WeakInv, WeakTypeOK
    <3> QED
      BY <2>4, <3>2 DEF Empty, Pointers!Clear
  <2>5. ASSUME NEW r \in Refs, NEW q \in Refs, Copy(r, q) PROVE Pointers!Copy(r, q)
    <3>1. \A p \in Refs : lock(p)' = IF p = r THEN lock(q) ELSE lock(p)
      BY <2>5 DEF Copy, lock, NotNull, get, WeakInv, WeakTypeOK
    <3> QED
      BY <2>5, <3>1 DEF Copy, Pointers!Copy
  <2>6. ASSUME NEW r \in Refs, NEW q \in Refs, Move(r, q) PROVE Pointers!Move(r, q)
    <3>1. \A p \in Refs : lock(p)' = IF p = r THEN lock(q) ELSE IF p = q THEN Null ELSE lock(p)
      BY <2>6 DEF Move, lock, NotNull, get, WeakInv, WeakTypeOK
    <3> QED
      BY <2>6, <3>1 DEF Move, Pointers!Move
  <2>7. CASE UNCHANGED weakVars
    BY <2>7 DEF weakVars, Pointers!vars, lock, NotNull, get
  <2> QED
    BY <2>1, <2>2, <2>3, <2>4, <2>5, <2>6, <2>7 DEF WeakNext, Pointers!Next
<1> QED
  BY <1>1, <1>2, WeakInvariance, PTL DEF WeakSpec, ImplementsWeakPointers, Pointers!Spec
=============================================================================
