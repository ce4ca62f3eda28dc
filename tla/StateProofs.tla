---------------------------- MODULE StateProofs ----------------------------
(***************************************************************************)
(* Proofs about module State, for any instances, snapshots, keys and       *)
(* values: any number of calls in progress at once.                        *)
(***************************************************************************)
EXTENDS State, TLAPS

(* A snapshot that is being saved is not in use by any other call, and one *)
(* that is being restored was saved.                                       *)
CallsApart ==
  \A i \in Instances :
    /\ Saving(i) => /\ saved[call[i].handle] = Null
                    /\ \A j \in Instances \ {i} : call[j] # Null => call[j].handle # call[i].handle
    /\ Restoring(i) => saved[call[i].handle] # Null /\ restored[i] = Null
    /\ restored[i] # Null => saved[restored[i].from] # Null

(* What the call c of an instance with the properties v has done so far to *)
(* the snapshot x, of which h is the history.                              *)
Progress(c, v, x, h) ==
  /\ c.op = "save" => \A k \in Keys : v[k] \in h[k]
  /\ c.status = "SUCCESS" => \A k \in Keys \ c.todo :
       x[k] # Null /\ (c.op = "restore" => v[k] = x[k])
  /\ c.status = "SUCCESS" /\ c.op = "save" => \A k \in c.todo : x[k] = Null
  /\ c.status # "SUCCESS" => c.todo = {} /\ \E k \in Keys : x[k] = Null

CallsProgress ==
  \A i \in Instances : call[i] # Null =>
    Progress(call[i], value[i], kept[call[i].handle], during[call[i].handle])

(* A snapshot without a saver is empty until it is saved.                  *)
FreshEmpty ==
  \A s \in Snapshots :
    saved[s] = Null /\ (\A i \in Instances : Saving(i) => call[i].handle # s) => kept[s] = Empty

(* What a call finds depends on what others left, so the promises about    *)
(* finished calls are inductive only with the progress of those that run.  *)
IInv == TypeOK /\ SnapshotIsOwn /\ StatusTruthful /\ CallsApart /\ CallsProgress /\ FreshEmpty

LEMMA InitInv == Init => IInv
BY StateAssumption
   DEF Init, IInv, TypeOK, SnapshotIsOwn, StatusTruthful, CallsApart, CallsProgress, FreshEmpty,
       Empty, Saving, Restoring

LEMMA NextInv == IInv /\ [Next]_vars => IInv'
<1> SUFFICES ASSUME IInv, [Next]_vars PROVE IInv'
  OBVIOUS
<1> USE StateAssumption
<1>1. ASSUME NEW i \in Instances, NEW s \in Snapshots, _save(i, s) PROVE IInv'
  <2>1. TypeOK'
    BY <1>1 DEF _save, Called, IInv, TypeOK, Calls, Restores, Statuses
  <2>2. SnapshotIsOwn'
    BY <1>1 DEF _save, Called, IInv, TypeOK, Calls, Restores, Statuses,
       SnapshotIsOwn, CallsApart, CallsProgress, Progress, Saving, Restoring, FreshEmpty, Empty, InUse
  <2>3. StatusTruthful'
    BY <1>1 DEF _save, Called, IInv, TypeOK, Calls, Restores, Statuses,
       StatusTruthful, CallsApart, CallsProgress, Progress, Saving, Restoring, InUse
  <2>4. CallsApart'
    BY <1>1 DEF _save, Called, IInv, TypeOK, Calls, Restores, Statuses,
       CallsApart, Saving, Restoring, InUse
  <2>5. CallsProgress'
    BY <1>1 DEF _save, Called, IInv, TypeOK, Calls, Restores, Statuses,
       CallsProgress, Progress, CallsApart, FreshEmpty, Empty, Saving, Restoring, StatusTruthful, InUse
  <2>6. FreshEmpty'
    BY <1>1 DEF _save, Called, IInv, TypeOK, Calls, Restores, Statuses,
       FreshEmpty, CallsApart, Saving, Restoring, Empty
  <2> QED
    BY <2>1, <2>2, <2>3, <2>4, <2>5, <2>6 DEF IInv
<1>2. ASSUME NEW i \in Instances, NEW s \in Snapshots, _restore(i, s) PROVE IInv'
  <2>1. TypeOK'
    BY <1>2 DEF _restore, Called, IInv, TypeOK, Calls, Restores, Statuses
  <2>2. SnapshotIsOwn'
    BY <1>2 DEF _restore, Called, IInv, TypeOK, Calls, Restores, Statuses,
       SnapshotIsOwn, CallsApart, CallsProgress, Progress, Saving, Restoring, FreshEmpty, Empty, InUse
  <2>3. StatusTruthful'
    BY <1>2 DEF _restore, Called, IInv, TypeOK, Calls, Restores, Statuses,
       StatusTruthful, CallsApart, CallsProgress, Progress, Saving, Restoring, InUse
  <2>4. CallsApart'
    BY <1>2 DEF _restore, Called, IInv, TypeOK, Calls, Restores, Statuses,
       CallsApart, Saving, Restoring, InUse
  <2>5. CallsProgress'
    BY <1>2 DEF _restore, Called, IInv, TypeOK, Calls, Restores, Statuses,
       CallsProgress, Progress, CallsApart, FreshEmpty, Empty, Saving, Restoring, StatusTruthful, InUse
  <2>6. FreshEmpty'
    BY <1>2 DEF _restore, Called, IInv, TypeOK, Calls, Restores, Statuses,
       FreshEmpty, CallsApart, Saving, Restoring, Empty
  <2> QED
    BY <2>1, <2>2, <2>3, <2>4, <2>5, <2>6 DEF IInv
<1>3. ASSUME NEW i \in Instances, NEW k \in Keys, StateStore(i, k) PROVE IInv'
  <2> DEFINE h == call[i].handle
             then(todo, status) == [op |-> "save", handle |-> h, todo |-> todo, status |-> status]
  <2>1. /\ Saving(i) /\ call[i] \in Calls /\ k \in call[i].todo /\ call[i].status = "SUCCESS"
        /\ h \in Snapshots /\ saved[h] = Null /\ value[i][k] \in Values
        /\ value[i][k] \in during[h][k] /\ kept[h][k] = Null
    BY <1>3 DEF StateStore, Saving, IInv, TypeOK, Calls, Statuses, CallsApart, CallsProgress, Progress
  <2>2. UNCHANGED <<value, saved, restored, during>>
    BY <1>3 DEF StateStore
  <2>3. CASE /\ kept' = [kept EXCEPT ![h][k] = value[i][k]]
              /\ call' = [call EXCEPT ![i] = then(call[i].todo \ {k}, "SUCCESS")]
    <3>1. TypeOK'
      BY <2>1, <2>2, <2>3 DEF IInv, TypeOK, Calls, Restores, Statuses,
         Saving, Restoring
    <3>2. SnapshotIsOwn'
      BY <2>1, <2>2, <2>3 DEF IInv, TypeOK, Calls, Restores, Statuses,
         SnapshotIsOwn, CallsProgress, Progress
    <3>3. StatusTruthful'
      BY <2>1, <2>2, <2>3 DEF IInv, TypeOK, Calls, Restores, Statuses,
         StatusTruthful, CallsApart
    <3>4. CallsApart'
      BY <2>1, <2>2, <2>3 DEF IInv, TypeOK, Calls, Restores, Statuses,
         CallsApart, Saving, Restoring
    <3>5. CallsProgress'
      <4>1. ASSUME NEW j \in Instances \ {i}, call[j] # Null
            PROVE  Progress(call[j], value[j], kept[call[j].handle], during[call[j].handle])'
        <5>1. call'[j] = call[j] /\ call[j].handle \in Snapshots
          BY <2>3, <4>1 DEF IInv, TypeOK, Calls
        <5>2. value'[j] = value[j] /\ kept'[call[j].handle] = kept[call[j].handle]
          <6>1. call[j].handle # h
            BY <2>1, <4>1 DEF IInv, CallsApart
          <6> QED  BY <2>2, <2>3, <5>1, <6>1 DEF IInv, TypeOK
        <5>3. Progress(call[j], value[j], kept[call[j].handle], during[call[j].handle])
          BY <4>1 DEF IInv, CallsProgress
        <5> QED  BY <2>2, <5>1, <5>2, <5>3
      <4>2. Progress(call[i], value[i], kept[call[i].handle], during[call[i].handle])'
        <5>1. Progress(call[i], value[i], kept[h], during[h])
          BY <2>1 DEF IInv, CallsProgress, Saving, Restoring
        <5>2. call'[i] = then(call[i].todo \ {k}, "SUCCESS") /\ call'[i].handle = h
          BY <2>3 DEF IInv, TypeOK
        <5>3. kept'[h] = [kept[h] EXCEPT ![k] = value[i][k]] /\ kept[h] \in [Keys -> Values \cup {Null}]
          BY <2>1, <2>2, <2>3 DEF IInv, TypeOK
        <5>4. call[i].todo \in SUBSET Keys
          BY <2>1 DEF Calls
        <5> QED  BY <2>1, <2>2, <5>1, <5>2, <5>3, <5>4 DEF Progress, Saving, Restoring
      <4>3. \A j \in Instances \ {i} : call'[j] = call[j]
        BY <2>3
      <4> QED  BY <4>1, <4>2, <4>3 DEF CallsProgress
    <3>6. FreshEmpty'
      BY <2>1, <2>2, <2>3 DEF IInv, TypeOK, Calls, Restores, Statuses,
         FreshEmpty, CallsApart, Saving, Restoring
    <3> QED
      BY <3>1, <3>2, <3>3, <3>4, <3>5, <3>6 DEF IInv
  <2>4. CASE /\ kept' = kept
              /\ call' = [call EXCEPT ![i] = then({}, "ERR_UNKNOWN")]
    <3>1. TypeOK'
      BY <2>1, <2>2, <2>4 DEF IInv, TypeOK, Calls, Restores, Statuses,
         Saving, Restoring
    <3>2. SnapshotIsOwn'
      BY <2>1, <2>2, <2>4 DEF IInv, TypeOK, Calls, Restores, Statuses,
         SnapshotIsOwn, CallsProgress, Progress
    <3>3. StatusTruthful'
      BY <2>1, <2>2, <2>4 DEF IInv, TypeOK, Calls, Restores, Statuses,
         StatusTruthful, CallsApart
    <3>4. CallsApart'
      BY <2>1, <2>2, <2>4 DEF IInv, TypeOK, Calls, Restores, Statuses,
         CallsApart, Saving, Restoring
    <3>5. CallsProgress'
      <4>1. ASSUME NEW j \in Instances \ {i}, call[j] # Null
            PROVE  Progress(call[j], value[j], kept[call[j].handle], during[call[j].handle])'
        <5>1. call'[j] = call[j] /\ call[j].handle \in Snapshots
          BY <2>4, <4>1 DEF IInv, TypeOK, Calls
        <5>2. value'[j] = value[j] /\ kept'[call[j].handle] = kept[call[j].handle]
          BY <2>2, <2>4, <4>1 DEF IInv, TypeOK
        <5>3. Progress(call[j], value[j], kept[call[j].handle], during[call[j].handle])
          BY <4>1 DEF IInv, CallsProgress
        <5> QED  BY <2>2, <5>1, <5>2, <5>3
      <4>2. Progress(call[i], value[i], kept[call[i].handle], during[call[i].handle])'
        <5>1. Progress(call[i], value[i], kept[h], during[h])
          BY <2>1 DEF IInv, CallsProgress, Saving, Restoring
        <5>2. call'[i] = then({}, "ERR_UNKNOWN") /\ call'[i].handle = h
          BY <2>4 DEF IInv, TypeOK
        <5>3. kept'[h] = kept[h]
          BY <2>1, <2>2, <2>4 DEF IInv, TypeOK
        <5>4. call[i].todo \in SUBSET Keys
          BY <2>1 DEF Calls
        <5> QED  BY <2>1, <2>2, <5>1, <5>2, <5>3, <5>4 DEF Progress, Saving, Restoring
      <4>3. \A j \in Instances \ {i} : call'[j] = call[j]
        BY <2>4
      <4> QED  BY <4>1, <4>2, <4>3 DEF CallsProgress
    <3>6. FreshEmpty'
      BY <2>1, <2>2, <2>4 DEF IInv, TypeOK, Calls, Restores, Statuses,
         FreshEmpty, CallsApart, Saving, Restoring
    <3> QED
      BY <3>1, <3>2, <3>3, <3>4, <3>5, <3>6 DEF IInv
  <2> QED
    BY <1>3, <2>1, <2>3, <2>4 DEF StateStore, Then, Forwarded, p_handle, Saving, IInv, TypeOK, Calls
<1>4. ASSUME NEW i \in Instances, NEW k \in Keys, StateRetrieve(i, k) PROVE IInv'
  <2> DEFINE h == call[i].handle
             then(todo, status) == [op |-> "restore", handle |-> h, todo |-> todo, status |-> status]
  <2>1. /\ Restoring(i) /\ call[i] \in Calls /\ k \in call[i].todo /\ call[i].status = "SUCCESS"
        /\ h \in Snapshots /\ saved[h] # Null /\ restored[i] = Null
        /\ kept[h][k] \in Values \cup {Null}
    BY <1>4 DEF StateRetrieve, Restoring, IInv, TypeOK, Calls, Statuses, CallsApart, CallsProgress, Progress
  <2>2. UNCHANGED <<kept, saved, restored, during>>
    BY <1>4 DEF StateRetrieve
  <2>3. CASE /\ kept[h][k] # Null
              /\ value' = [value EXCEPT ![i][k] = kept[h][k]]
              /\ call' = [call EXCEPT ![i] = then(call[i].todo \ {k}, "SUCCESS")]
    <3>1. TypeOK'
      BY <2>1, <2>2, <2>3 DEF IInv, TypeOK, Calls, Restores, Statuses,
         Saving, Restoring
    <3>2. SnapshotIsOwn'
      BY <2>1, <2>2, <2>3 DEF IInv, TypeOK, Calls, Restores, Statuses,
         SnapshotIsOwn, CallsProgress, Progress
    <3>3. StatusTruthful'
      BY <2>1, <2>2, <2>3 DEF IInv, TypeOK, Calls, Restores, Statuses,
         StatusTruthful, CallsApart
    <3>4. CallsApart'
      BY <2>1, <2>2, <2>3 DEF IInv, TypeOK, Calls, Restores, Statuses,
         CallsApart, Saving, Restoring
    <3>5. CallsProgress'
      <4>1. ASSUME NEW j \in Instances \ {i}, call[j] # Null
            PROVE  Progress(call[j], value[j], kept[call[j].handle], during[call[j].handle])'
        <5>1. call'[j] = call[j] /\ call[j].handle \in Snapshots
          BY <2>3, <4>1 DEF IInv, TypeOK, Calls
        <5>2. value'[j] = value[j] /\ kept'[call[j].handle] = kept[call[j].handle]
          BY <2>2, <2>3, <4>1 DEF IInv, TypeOK
        <5>3. Progress(call[j], value[j], kept[call[j].handle], during[call[j].handle])
          BY <4>1 DEF IInv, CallsProgress
        <5> QED  BY <2>2, <5>1, <5>2, <5>3
      <4>2. Progress(call[i], value[i], kept[call[i].handle], during[call[i].handle])'
        <5>1. Progress(call[i], value[i], kept[h], during[h])
          BY <2>1 DEF IInv, CallsProgress, Saving, Restoring
        <5>2. call'[i] = then(call[i].todo \ {k}, "SUCCESS") /\ call'[i].handle = h
          BY <2>3 DEF IInv, TypeOK
        <5>3. value'[i] = [value[i] EXCEPT ![k] = kept[h][k]] /\ value[i] \in [Keys -> Values]
          BY <2>1, <2>2, <2>3 DEF IInv, TypeOK
        <5>4. /\ call[i].op = "restore" /\ call'[i].op = "restore" /\ call'[i].status = "SUCCESS"
              /\ call'[i].todo = call[i].todo \ {k}
          BY <2>1, <5>2 DEF Restoring
        <5>5. ASSUME NEW x \in Keys, x \notin call[i].todo \ {k}
              PROVE  kept[h][x] # Null /\ value'[i][x] = kept[h][x]
          <6>1. CASE x = k
            BY <2>3, <5>3, <6>1
          <6>2. CASE x # k
            BY <2>1, <5>1, <5>3, <5>4, <5>5, <6>2 DEF Progress
          <6> QED  BY <6>1, <6>2
        <5> QED  BY <2>2, <5>2, <5>4, <5>5 DEF Progress
      <4>3. \A j \in Instances \ {i} : call'[j] = call[j]
        BY <2>3
      <4> QED  BY <4>1, <4>2, <4>3 DEF CallsProgress
    <3>6. FreshEmpty'
      BY <2>1, <2>2, <2>3 DEF IInv, TypeOK, Calls, Restores, Statuses,
         FreshEmpty, CallsApart, Saving, Restoring
    <3> QED
      BY <3>1, <3>2, <3>3, <3>4, <3>5, <3>6 DEF IInv
  <2>4. CASE /\ kept[h][k] = Null
              /\ value' = value
              /\ call' = [call EXCEPT ![i] = then({}, "ERR_UNKNOWN")]
    <3>1. TypeOK'
      BY <2>1, <2>2, <2>4 DEF IInv, TypeOK, Calls, Restores, Statuses,
         Saving, Restoring
    <3>2. SnapshotIsOwn'
      BY <2>1, <2>2, <2>4 DEF IInv, TypeOK, Calls, Restores, Statuses,
         SnapshotIsOwn, CallsProgress, Progress
    <3>3. StatusTruthful'
      BY <2>1, <2>2, <2>4 DEF IInv, TypeOK, Calls, Restores, Statuses,
         StatusTruthful, CallsApart
    <3>4. CallsApart'
      BY <2>1, <2>2, <2>4 DEF IInv, TypeOK, Calls, Restores, Statuses,
         CallsApart, Saving, Restoring
    <3>5. CallsProgress'
      BY <2>1, <2>2, <2>4 DEF IInv, TypeOK, Calls, Restores, Statuses,
         CallsProgress, Progress, CallsApart, Saving, Restoring
    <3>6. FreshEmpty'
      BY <2>1, <2>2, <2>4 DEF IInv, TypeOK, Calls, Restores, Statuses,
         FreshEmpty, CallsApart, Saving, Restoring
    <3> QED
      BY <3>1, <3>2, <3>3, <3>4, <3>5, <3>6 DEF IInv
  <2> QED
    BY <1>4, <2>1, <2>3, <2>4 DEF StateRetrieve, Then, p_handle, Restoring, IInv, TypeOK, Calls
<1>5. ASSUME NEW i \in Instances, SaveReturns(i) PROVE IInv'
  <2>1. TypeOK'
    BY <1>5 DEF SaveReturns, IInv, TypeOK, Calls, Restores, Statuses, Saving, Restoring, Empty
  <2>2. SnapshotIsOwn'
    BY <1>5 DEF SaveReturns, IInv, TypeOK, Calls, Restores, Statuses,
       SnapshotIsOwn, CallsApart, CallsProgress, Progress, Saving, Restoring, FreshEmpty, Empty, InUse
  <2>3. StatusTruthful'
    BY <1>5 DEF SaveReturns, IInv, TypeOK, Calls, Restores, Statuses,
       StatusTruthful, CallsApart, CallsProgress, Progress, Saving, Restoring, InUse
  <2>4. CallsApart'
    BY <1>5 DEF SaveReturns, IInv, TypeOK, Calls, Restores, Statuses,
       CallsApart, Saving, Restoring, InUse
  <2>5. CallsProgress'
    BY <1>5 DEF SaveReturns, IInv, TypeOK, Calls, Restores, Statuses,
       CallsProgress, Progress, CallsApart, FreshEmpty, Empty, Saving, Restoring, StatusTruthful, InUse
  <2>6. FreshEmpty'
    BY <1>5 DEF SaveReturns, IInv, TypeOK, Calls, Restores, Statuses,
       FreshEmpty, CallsApart, Saving, Restoring, Empty
  <2> QED
    BY <2>1, <2>2, <2>3, <2>4, <2>5, <2>6 DEF IInv
<1>6. ASSUME NEW i \in Instances, RestoreReturns(i) PROVE IInv'
  <2>1. TypeOK'
    BY <1>6 DEF RestoreReturns, IInv, TypeOK, Calls, Restores, Statuses, Saving, Restoring, Empty
  <2>2. SnapshotIsOwn'
    BY <1>6 DEF RestoreReturns, IInv, TypeOK, Calls, Restores, Statuses,
       SnapshotIsOwn, CallsApart, CallsProgress, Progress, Saving, Restoring, FreshEmpty, Empty, InUse
  <2>3. StatusTruthful'
    BY <1>6 DEF RestoreReturns, IInv, TypeOK, Calls, Restores, Statuses,
       StatusTruthful, CallsApart, CallsProgress, Progress, Saving, Restoring, InUse
  <2>4. CallsApart'
    BY <1>6 DEF RestoreReturns, IInv, TypeOK, Calls, Restores, Statuses,
       CallsApart, Saving, Restoring, InUse
  <2>5. CallsProgress'
    BY <1>6 DEF RestoreReturns, IInv, TypeOK, Calls, Restores, Statuses,
       CallsProgress, Progress, CallsApart, FreshEmpty, Empty, Saving, Restoring, StatusTruthful, InUse
  <2>6. FreshEmpty'
    BY <1>6 DEF RestoreReturns, IInv, TypeOK, Calls, Restores, Statuses,
       FreshEmpty, CallsApart, Saving, Restoring, Empty
  <2> QED
    BY <2>1, <2>2, <2>3, <2>4, <2>5, <2>6 DEF IInv
<1>7. ASSUME NEW i \in Instances, NEW k \in Keys, NEW v \in Values, Run(i, k, v) PROVE IInv'
  <2>1. TypeOK'
    BY <1>7 DEF Run, IInv, TypeOK, Calls, Restores, Statuses
  <2>2. SnapshotIsOwn'
    BY <1>7 DEF Run, IInv, TypeOK, Calls, Restores, Statuses,
       SnapshotIsOwn, CallsApart, CallsProgress, Progress, Saving, Restoring, FreshEmpty, Empty, InUse
  <2>3. StatusTruthful'
    BY <1>7 DEF Run, IInv, TypeOK, Calls, Restores, Statuses,
       StatusTruthful, CallsApart, CallsProgress, Progress, Saving, Restoring, InUse
  <2>4. CallsApart'
    BY <1>7 DEF Run, IInv, TypeOK, Calls, Restores, Statuses,
       CallsApart, Saving, Restoring, InUse
  <2>5. CallsProgress'
    <3>1. call' = call /\ kept' = kept
      BY <1>7 DEF Run
    <3>2. ASSUME NEW j \in Instances, call[j] # Null
          PROVE  Progress(call[j], value'[j], kept[call[j].handle], during'[call[j].handle])
      <4> DEFINE s == call[j].handle
      <4>1. Progress(call[j], value[j], kept[s], during[s]) /\ s \in Snapshots
        BY <3>2 DEF IInv, TypeOK, Calls, CallsProgress
      <4>2. during[s] \in [Keys -> SUBSET Values] /\ value[j] \in [Keys -> Values]
        BY <4>1 DEF IInv, TypeOK
      <4> HIDE DEF s
      <4>3. CASE j # i
        <5>1. value'[j] = value[j] /\ \A x \in Keys : during[s][x] \subseteq during'[s][x]
          BY <1>7, <4>1, <4>2, <4>3 DEF Run, IInv, TypeOK
        <5> QED  BY <4>1, <5>1 DEF Progress, s
      <4>4. CASE j = i
        <5>1. call[j].op # "restore"
          BY <1>7, <3>2, <4>4 DEF Run, Restoring
        <5>2. value'[j] = [value[j] EXCEPT ![k] = v]
          BY <1>7, <4>4 DEF Run, IInv, TypeOK
        <5>3. call[j].op = "save" => during'[s] = [during[s] EXCEPT ![k] = @ \cup {v}]
          BY <1>7, <3>2, <4>1, <4>4 DEF Run, Saving, s
        <5> QED  BY <4>1, <4>2, <5>1, <5>2, <5>3 DEF Progress, s
      <4> QED  BY <4>3, <4>4
    <3> QED  BY <3>1, <3>2 DEF CallsProgress
  <2>6. FreshEmpty'
    BY <1>7 DEF Run, IInv, TypeOK, Calls, Restores, Statuses,
       FreshEmpty, CallsApart, Saving, Restoring, Empty
  <2> QED
    BY <2>1, <2>2, <2>3, <2>4, <2>5, <2>6 DEF IInv
<1>8. ASSUME NEW s \in Snapshots, Discard(s) PROVE IInv'
  <2>1. TypeOK'
    BY <1>8 DEF Discard, IInv, TypeOK, Calls, Restores, Statuses, Saving, Restoring, Empty
  <2>2. SnapshotIsOwn'
    BY <1>8 DEF Discard, IInv, TypeOK, Calls, Restores, Statuses,
       SnapshotIsOwn, CallsApart, CallsProgress, Progress, Saving, Restoring, FreshEmpty, Empty, InUse
  <2>3. StatusTruthful'
    BY <1>8 DEF Discard, IInv, TypeOK, Calls, Restores, Statuses,
       StatusTruthful, CallsApart, CallsProgress, Progress, Saving, Restoring, InUse
  <2>4. CallsApart'
    BY <1>8 DEF Discard, IInv, TypeOK, Calls, Restores, Statuses,
       CallsApart, Saving, Restoring, InUse
  <2>5. CallsProgress'
    BY <1>8 DEF Discard, IInv, TypeOK, Calls, Restores, Statuses,
       CallsProgress, Progress, CallsApart, FreshEmpty, Empty, Saving, Restoring, StatusTruthful, InUse
  <2>6. FreshEmpty'
    BY <1>8 DEF Discard, IInv, TypeOK, Calls, Restores, Statuses,
       FreshEmpty, CallsApart, Saving, Restoring, Empty
  <2> QED
    BY <2>1, <2>2, <2>3, <2>4, <2>5, <2>6 DEF IInv
<1>9. CASE UNCHANGED vars
  BY <1>9 DEF vars, IInv, TypeOK, SnapshotIsOwn, StatusTruthful, CallsApart, CallsProgress,
              FreshEmpty, Saving, Restoring
<1> QED
  BY <1>1, <1>2, <1>3, <1>4, <1>5, <1>6, <1>7, <1>8, <1>9 DEF Next

LEMMA InvHolds == Spec => []IInv
BY InitInv, NextInv, PTL DEF Spec

(* The state is always well typed: whatever retrieve() finds, no property  *)
(* of an instance becomes null.                                            *)
THEOREM TypeCorrect == Spec => []TypeOK
<1>1. IInv => TypeOK
  BY DEF IInv
<1> QED
  BY <1>1, InvHolds, PTL

(* For any number of calls of _save and _restore at once: a snapshot holds *)
(* what its own instance had while it was saved, and of no other instance. *)
THEOREM SnapshotsAreOwn == Spec => []SnapshotIsOwn
<1>1. IInv => SnapshotIsOwn
  BY DEF IInv
<1> QED
  BY <1>1, InvHolds, PTL

(* The statuses that _save and _restore return tell the host whether the   *)
(* snapshot is complete and the instance restored.                         *)
THEOREM StatusesAreTruthful == Spec => []StatusTruthful
<1>1. IInv => StatusTruthful
  BY DEF IInv
<1> QED
  BY <1>1, InvHolds, PTL
=============================================================================
