SPECIFICATION CoreSpec
CONSTANTS
  Threads = {t1, t2, t3}
  Nobody = Nobody
  Spins = 20
  Objects = {o1, o2}
  Refs = {r1, r2, r3}
  Cells = {c1, c2, c3, c4, c5, c6}
  Null = Null
INVARIANTS
  TypeOK
  MutualExclusion
  WeakTypeOK
  LockIsLive
PROPERTIES
  ImplementsMutex
  TryLockReturns
  ImplementsWeakPointers
