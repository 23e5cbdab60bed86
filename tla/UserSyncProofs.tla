--------------------------- MODULE UserSyncProofs ---------------------------
(***************************************************************************)
(* Proofs about the service's user management, for any number of handlers, *)
(* workers, users, tags and messages.                                      *)
(***************************************************************************)
EXTENDS UserSync, SequenceTheorems, TLAPS

\* The history variables stay sets of users.
LEMMA ObserveHistory ==
    ASSUME HistoryTypeOK, Observe, sent' \in [Handlers -> Seq(Message)],
           \A g \in Goroutines : failed'[g] => job[g].uid \in Uids
    PROVE  HistoryTypeOK'
  <1>1. suspect' \subseteq Uids
    BY DEF HistoryTypeOK, Observe
  <1>2. collided' \subseteq Uids
    BY DEF HistoryTypeOK, Observe
  <1>3. QED
    BY <1>1, <1>2 DEF HistoryTypeOK

\* What a step leaves alone keeps its type.
LEMMA TypeFrame ==
    ASSUME TypeOK
    PROVE  /\ UNCHANGED storageVars => StorageTypeOK'
           /\ UNCHANGED accounts => accounts' \in [Uids -> SUBSET Tags]
           /\ UNCHANGED lockVars => Mutex!MutexTypeOK'
           /\ UNCHANGED attemptVars => AttemptTypeOK'
           /\ UNCHANGED handlerVars => HandlerTypeOK'
           /\ UNCHANGED sent => sent' \in [Handlers -> Seq(Message)]
  <1>1. UNCHANGED storageVars => StorageTypeOK'
    BY DEF TypeOK, StorageTypeOK, storageVars
  <1>2. UNCHANGED lockVars => Mutex!MutexTypeOK'
    BY DEF TypeOK, Mutex!MutexTypeOK, lockVars
  <1>3. UNCHANGED attemptVars => AttemptTypeOK'
    BY DEF TypeOK, AttemptTypeOK, attemptVars
  <1>4. UNCHANGED handlerVars => HandlerTypeOK'
    BY DEF TypeOK, HandlerTypeOK, handlerVars
  <1>5. QED
    BY <1>1, <1>2, <1>3, <1>4 DEF TypeOK, HistoryTypeOK


-----------------------------------------------------------------------------
(* Steps of one goroutine *)

\* Only the locals of g change.
LocalMove(g) ==
    \A h \in Goroutines \ {g} :
        /\ pc'[h] = pc[h] /\ job'[h] = job[h] /\ try'[h] = try[h]
        /\ snap'[h] = snap[h] /\ new'[h] = new[h] /\ failed'[h] = failed[h]

SnapshotSteps == {"resolveNew", "resolveRemoved", "remove", "resolveAdded", "add", "commit"}

SnapshotOf(g) == pc[g] \in SnapshotSteps => users[job[g].uid] \in {snap[g], NotStored}

LEMMA SnapshotCurrentAlt == SnapshotCurrent <=> \A g \in Goroutines : SnapshotOf(g)
  BY DEF SnapshotCurrent, SnapshotOf, SnapshotSteps

\* The other goroutines stay consistent while no phase and no lock changes.
LEMMA LocalMoveAttempts ==
    ASSUME IInv, NEW g \in Goroutines, LocalMove(g), UNCHANGED phase, AttemptConsistent(g)'
    PROVE  AttemptsConsistent'
  <1> SUFFICES ASSUME NEW h \in Goroutines \ {g} PROVE AttemptConsistent(h)'
    BY DEF AttemptsConsistent
  <1>1. AttemptConsistent(h)
    BY DEF IInv, AttemptsConsistent
  <1>2. QED
    BY <1>1 DEF AttemptConsistent, LocalMove

LEMMA LocalMoveLocks ==
    ASSUME IInv, NEW g \in Goroutines, LocalMove(g), UNCHANGED lockVars,
           job'[g] = job[g] \/ pc[g] \notin Inside, pc[g] # "wait", pc'[g] # "wait",
           pc[g] \in Inside <=> pc'[g] \in Inside
    PROVE  LocksConsistent'
  <1>1. ASSUME NEW h \in Goroutines
        PROVE  LockConsistent(h)'
    <2>1. LockConsistent(h)
      BY DEF IInv, LocksConsistent
    <2>2. CASE h = g
      BY <2>1, <2>2 DEF LockConsistent, lockVars
    <2>3. CASE h # g
      BY <2>1, <2>3 DEF LockConsistent, LocalMove, lockVars
    <2>4. QED
      BY <2>2, <2>3
  <1>2. ASSUME NEW u \in Uids, holder'[u] # Free
        PROVE  pc'[holder'[u]] \in Inside /\ job'[holder'[u]].uid = u
    <2>1. /\ holder[u] = holder'[u] /\ holder[u] \in Goroutines
          /\ pc[holder[u]] \in Inside /\ job[holder[u]].uid = u
      BY <1>2 DEF IInv, TypeOK, Mutex!MutexTypeOK, LocksConsistent, lockVars
    <2>2. QED
      BY <2>1 DEF LocalMove
  <1>3. QED
    BY <1>1, <1>2 DEF LocksConsistent

LEMMA LocalMoveSnapshots ==
    ASSUME IInv, NEW g \in Goroutines, LocalMove(g), UNCHANGED users, SnapshotOf(g)'
    PROVE  SnapshotCurrent'
  <1> SUFFICES ASSUME NEW h \in Goroutines \ {g} PROVE SnapshotOf(h)'
    BY DEF SnapshotCurrent, SnapshotOf, SnapshotSteps
  <1>1. SnapshotOf(h)
    BY SnapshotCurrentAlt DEF IInv
  <1>2. QED
    BY <1>1 DEF SnapshotOf, LocalMove

-----------------------------------------------------------------------------
(* Decisions: no shared variable changes *)

\* A resolved list holds tags only.
LEMMA ResolveTags ==
    ASSUME StorageTypeOK, NEW tags
    PROVE  ResolveInbounds(tags) \in SUBSET Tags
  BY DEF StorageTypeOK, ResolveInbounds, ListInbounds

LEMMA DecidingKeeps ==
    ASSUME IInv, NEW g \in Goroutines, UNCHANGED <<storageVars, lockVars, handlerVars>>,
           \/ Lookup(g) \/ ResolveNew(g) \/ ResolveRemoved(g) \/ ResolveAdded(g)
           \/ RemoveDone(g) \/ AddDone(g) \/ Retry(g) \/ GiveUp(g) \/ PurgeDone(g)
    PROVE  /\ AttemptTypeOK' /\ AttemptsConsistent' /\ LocksConsistent' /\ SnapshotCurrent'
           /\ LocalMove(g) /\ pc[g] # "idle"
  <1> DEFINE u == job[g].uid
  <1> USE DEF AttemptSteps, Inside, Goto
  <1>1. /\ pc \in [Goroutines -> AttemptSteps \cup {"idle", "purge", "drop"}]
        /\ job \in [Goroutines -> Message \cup {NoJob}]
        /\ try \in [Goroutines -> 0..Retries]
        /\ snap \in [Goroutines -> Records]
        /\ new \in [Goroutines -> Records]
        /\ todo \in [Goroutines -> SUBSET Tags]
        /\ failed \in [Goroutines -> BOOLEAN]
    BY DEF IInv, TypeOK, AttemptTypeOK
  <1>2. AttemptConsistent(g) /\ SnapshotOf(g) /\ StorageTypeOK
    BY SnapshotCurrentAlt DEF IInv, TypeOK, AttemptsConsistent
  <1>3. UNCHANGED phase /\ UNCHANGED users /\ UNCHANGED lockVars
    BY DEF storageVars, handlerVars
  <1> DEFINE Good ==
        /\ AttemptTypeOK' /\ LocalMove(g) /\ AttemptConsistent(g)' /\ SnapshotOf(g)'
        /\ job'[g] = job[g] \/ pc[g] \notin Inside
        /\ pc[g] # "wait" /\ pc'[g] # "wait" /\ pc[g] # "idle"
        /\ pc[g] \in Inside <=> pc'[g] \in Inside
  <1>4. ASSUME Lookup(g) PROVE Good
    <2>1. job[g] \in Message /\ u \in Uids /\ users[u] \in Records
      BY <1>2, <1>4 DEF AttemptConsistent, StorageTypeOK, Lookup
    <2>2. AttemptTypeOK'
      BY <1>1, <1>4, <2>1 DEF AttemptTypeOK, GetUser, Records, Lookup
    <2>3. AttemptConsistent(g)'
      BY <1>1, <1>2, <1>3, <1>4, <2>1 DEF AttemptConsistent, Lookup
    <2>4. SnapshotOf(g)'
      BY <1>1, <1>3, <1>4, <2>1 DEF SnapshotOf, GetUser, Lookup
    <2>5. LocalMove(g)
      BY <1>1, <1>4 DEF LocalMove, Lookup
    <2>6. pc[g] = "lookup" /\ pc'[g] \in {"resolveNew", "unlock", "remove"} /\ job' = job
      BY <1>1, <1>4 DEF Lookup
    <2>7. QED
      BY <2>2, <2>3, <2>4, <2>5, <2>6
  <1>5. ASSUME ResolveNew(g) PROVE Good
    <2> USE <1>5 DEF ResolveNew
    <2>1. job[g] \in Message /\ u \in Uids /\ ResolveInbounds(job[g].tags) \in SUBSET Tags
      BY <1>2, ResolveTags DEF AttemptConsistent
    <2>2. AttemptTypeOK'
      BY <1>1, <2>1 DEF AttemptTypeOK, Records
    <2>3. AttemptConsistent(g)'
      BY <1>1, <1>2, <1>3, <2>1 DEF AttemptConsistent
    <2>4. QED
      BY <1>1, <1>2, <1>3, <2>2, <2>3 DEF LocalMove, SnapshotOf, SnapshotSteps
  <1>6. ASSUME ResolveRemoved(g) PROVE Good
    <2> USE <1>6 DEF ResolveRemoved
    <2>1. ResolveInbounds(snap[g] \ job[g].tags) \in SUBSET Tags
      BY <1>2, ResolveTags
    <2>2. AttemptTypeOK'
      BY <1>1, <2>1 DEF AttemptTypeOK
    <2>3. QED
      BY <1>1, <1>2, <1>3, <2>2 DEF LocalMove, SnapshotOf, SnapshotSteps, AttemptConsistent
  <1>7. ASSUME ResolveAdded(g) PROVE Good
    <2> USE <1>7 DEF ResolveAdded
    <2>1. new[g] \in SUBSET Tags /\ ResolveInbounds(job[g].tags \ snap[g]) \in SUBSET Tags
      BY <1>2, ResolveTags DEF AttemptConsistent
    <2>2. AttemptTypeOK'
      BY <1>1, <2>1 DEF AttemptTypeOK
    <2>3. QED
      BY <1>1, <1>2, <1>3, <2>2 DEF LocalMove, SnapshotOf, SnapshotSteps, AttemptConsistent
  <1>8. ASSUME RemoveDone(g) PROVE Good
    <2> USE <1>8 DEF RemoveDone
    <2>1. AttemptTypeOK'
      BY <1>1 DEF AttemptTypeOK
    <2>2. QED
      BY <1>1, <1>2, <1>3, <2>1 DEF LocalMove, SnapshotOf, SnapshotSteps, AttemptConsistent
  <1>9. ASSUME AddDone(g) PROVE Good
    <2> USE <1>9 DEF AddDone
    <2>1. AttemptTypeOK'
      BY <1>1 DEF AttemptTypeOK
    <2>2. QED
      BY <1>1, <1>2, <1>3, <2>1 DEF LocalMove, SnapshotOf, SnapshotSteps, AttemptConsistent
  <1>10. ASSUME Retry(g) PROVE Good
    <2> USE <1>10, SizesAssumption DEF Retry, ClearLocals, NextTry
    <2>1. try[g] + 1 \in 0..Retries
      BY <1>1, <1>2 DEF AttemptConsistent
    <2>2. AttemptTypeOK'
      BY <1>1, <2>1 DEF AttemptTypeOK, Records
    <2>3. QED
      BY <1>1, <1>2, <1>3, <2>2 DEF LocalMove, SnapshotOf, SnapshotSteps, AttemptConsistent
  <1>11. ASSUME GiveUp(g) PROVE Good
    <2> USE <1>11, SizesAssumption DEF GiveUp, Idle, ClearLocals
    <2>1. AttemptTypeOK'
      BY <1>1 DEF AttemptTypeOK, Records
    <2>2. QED
      BY <1>1, <1>2, <1>3, <2>1 DEF LocalMove, SnapshotOf, SnapshotSteps, AttemptConsistent
  <1>12. ASSUME PurgeDone(g) PROVE Good
    <2> USE <1>12, SizesAssumption DEF PurgeDone, Idle, ClearLocals
    <2>1. AttemptTypeOK'
      <3>1. CASE failed[g]
        <4>1. Idle(g)
          BY <3>1
        <4>2. QED
          BY <1>1, <4>1 DEF AttemptTypeOK, Records
      <3>2. CASE ~failed[g]
        BY <1>1, <3>2 DEF AttemptTypeOK
      <3>3. QED
        BY <3>1, <3>2
    <2>2. QED
      BY <1>1, <1>2, <1>3, <2>1 DEF LocalMove, SnapshotOf, SnapshotSteps, AttemptConsistent
  <1>13. Good
    BY <1>4, <1>5, <1>6, <1>7, <1>8, <1>9, <1>10, <1>11, <1>12
  <1>14. QED
    BY <1>3, <1>13, LocalMoveAttempts, LocalMoveLocks, LocalMoveSnapshots

-----------------------------------------------------------------------------
(* The user lock *)

LEMMA LockingKeeps ==
    ASSUME IInv, NEW g \in Goroutines, UNCHANGED <<storageVars, handlerVars>>,
           CallLockUser(g) \/ EnterLock(g) \/ Unlock(g)
    PROVE  /\ AttemptTypeOK' /\ AttemptsConsistent' /\ LocksConsistent' /\ SnapshotCurrent'
           /\ Mutex!MutexTypeOK' /\ LocalMove(g) /\ pc[g] # "idle"
  <1> DEFINE u == job[g].uid
  <1> USE DEF AttemptSteps, Inside, Goto
  <1>1. /\ pc \in [Goroutines -> AttemptSteps \cup {"idle", "purge", "drop"}]
        /\ job \in [Goroutines -> Message \cup {NoJob}]
        /\ try \in [Goroutines -> 0..Retries]
        /\ snap \in [Goroutines -> Records]
        /\ new \in [Goroutines -> Records]
        /\ todo \in [Goroutines -> SUBSET Tags]
        /\ failed \in [Goroutines -> BOOLEAN]
        /\ holder \in [Uids -> Goroutines \cup {Free}]
        /\ waiting \in [Goroutines -> Uids \cup {NoUid}]
    BY DEF IInv, TypeOK, AttemptTypeOK, Mutex!MutexTypeOK
  <1>2. AttemptConsistent(g) /\ SnapshotOf(g)
    BY SnapshotCurrentAlt DEF IInv, AttemptsConsistent
  <1>3. /\ \A h \in Goroutines : LockConsistent(h)
        /\ \A v \in Uids :
              holder[v] # Free => pc[holder[v]] \in Inside /\ job[holder[v]].uid = v
        /\ \A h \in Goroutines : pc[h] # "idle" => job[h].uid \in Uids
    BY DEF IInv, LocksConsistent, AttemptsConsistent, AttemptConsistent
  <1>4. UNCHANGED phase /\ UNCHANGED users
    BY DEF storageVars, handlerVars
  <1>5. CASE CallLockUser(g)
    <2>1. /\ pc[g] = "start" /\ pc' = [pc EXCEPT ![g] = "wait"] /\ u \in Uids
          /\ waiting' = [waiting EXCEPT ![g] = u] /\ holder' = holder
          /\ UNCHANGED <<job, try, snap, new, todo, failed>>
      BY <1>3, <1>5 DEF CallLockUser, Mutex!Request
    <2>2. AttemptTypeOK' /\ Mutex!MutexTypeOK'
      BY <1>1, <2>1 DEF AttemptTypeOK, Mutex!MutexTypeOK
    <2>3. LocalMove(g)
      BY <1>1, <2>1 DEF LocalMove
    <2>4. AttemptConsistent(g)' /\ SnapshotOf(g)'
      BY <1>1, <1>2, <1>4, <2>1 DEF AttemptConsistent, SnapshotOf, SnapshotSteps
    <2>5. LocksConsistent'
      <3>1. \A h \in Goroutines : LockConsistent(h)'
        BY <1>1, <1>3, <2>1 DEF LockConsistent
      <3>2. \A v \in Uids :
               holder'[v] # Free => pc'[holder'[v]] \in Inside /\ job'[holder'[v]].uid = v
        BY <1>1, <1>3, <2>1
      <3>3. QED
        BY <3>1, <3>2 DEF LocksConsistent
    <2>6. QED
      BY <1>4, <2>1, <2>2, <2>3, <2>4, <2>5, LocalMoveAttempts, LocalMoveSnapshots
  <1>6. CASE EnterLock(g)
    <2>1. /\ pc[g] = "wait" /\ pc' = [pc EXCEPT ![g] = "lookup"]
          /\ waiting[g] = u /\ u \in Uids /\ holder[u] = Free
          /\ waiting' = [waiting EXCEPT ![g] = NoUid] /\ holder' = [holder EXCEPT ![u] = g]
          /\ UNCHANGED <<job, try, snap, new, todo, failed>>
      BY <1>3, <1>6 DEF EnterLock, Mutex!Enter, Mutex!MayEnter, LockConsistent
    <2>2. AttemptTypeOK' /\ Mutex!MutexTypeOK'
      BY <1>1, <2>1 DEF AttemptTypeOK, Mutex!MutexTypeOK
    <2>3. LocalMove(g)
      BY <1>1, <2>1 DEF LocalMove
    <2>4. AttemptConsistent(g)' /\ SnapshotOf(g)'
      BY <1>1, <1>2, <1>4, <2>1 DEF AttemptConsistent, SnapshotOf, SnapshotSteps
    <2>5. LocksConsistent'
      <3>1. \A h \in Goroutines : LockConsistent(h)'
        BY <1>1, <1>3, <2>1, SentinelsAssumption DEF LockConsistent
      <3>2. \A v \in Uids :
               holder'[v] # Free => pc'[holder'[v]] \in Inside /\ job'[holder'[v]].uid = v
        BY <1>1, <1>3, <2>1
      <3>3. QED
        BY <3>1, <3>2 DEF LocksConsistent
    <2>6. QED
      BY <1>4, <2>1, <2>2, <2>3, <2>4, <2>5, LocalMoveAttempts, LocalMoveSnapshots
  <1>7. CASE Unlock(g)
    <2>1. /\ pc[g] = "unlock" /\ u \in Uids /\ holder[u] = g
          /\ waiting' = waiting /\ holder' = [holder EXCEPT ![u] = Free]
      BY <1>3, <1>7 DEF Unlock, Mutex!Leave
    <2>2. /\ AttemptTypeOK' /\ LocalMove(g)
          /\ \/ pc'[g] = "backoff" /\ try[g] < Retries /\ UNCHANGED <<job, try, failed>>
             \/ pc'[g] = "idle" /\ ~failed'[g]
      <3>1. CASE failed[g] /\ AttemptsLeft(g)
        <4>1. /\ pc' = [pc EXCEPT ![g] = "backoff"] /\ try[g] < Retries
              /\ UNCHANGED <<job, try, snap, new, todo, failed>>
          BY <1>7, <3>1 DEF Unlock, AttemptsLeft
        <4>2. QED
          BY <1>1, <4>1 DEF AttemptTypeOK, LocalMove
      <3>2. CASE ~(failed[g] /\ AttemptsLeft(g))
        <4>1. Idle(g)
          BY <1>7, <3>2 DEF Unlock
        <4>2. QED
          BY <1>1, <4>1, SizesAssumption DEF AttemptTypeOK, LocalMove, Idle, ClearLocals, Records
      <3>3. QED
        BY <3>1, <3>2
    <2>3. Mutex!MutexTypeOK'
      BY <1>1, <2>1 DEF Mutex!MutexTypeOK
    <2>4. AttemptConsistent(g)' /\ SnapshotOf(g)'
      BY <1>2, <1>4, <2>1, <2>2 DEF AttemptConsistent, SnapshotOf, SnapshotSteps
    <2>5. LocksConsistent'
      <3>1. \A h \in Goroutines : LockConsistent(h)'
        <4> TAKE h \in Goroutines
        <4>1. CASE h = g
          BY <1>3, <2>1, <2>2, <4>1 DEF LockConsistent
        <4>2. CASE h # g
          BY <1>1, <1>3, <2>1, <2>2, <4>2 DEF LockConsistent, LocalMove
        <4>3. QED
          BY <4>1, <4>2
      <3>2. ASSUME NEW v \in Uids, holder'[v] # Free
            PROVE  pc'[holder'[v]] \in Inside /\ job'[holder'[v]].uid = v
        <4>1. v # u /\ holder'[v] = holder[v] /\ holder[v] \in Goroutines
          BY <1>1, <2>1, <3>2
        <4>2. pc[holder[v]] \in Inside /\ job[holder[v]].uid = v /\ holder[v] # g
          BY <1>3, <3>2, <4>1
        <4>3. QED
          BY <2>2, <4>1, <4>2 DEF LocalMove
      <3>3. QED
        BY <3>1, <3>2 DEF LocksConsistent
    <2>6. QED
      BY <1>4, <2>1, <2>2, <2>3, <2>4, <2>5, LocalMoveAttempts, LocalMoveSnapshots
  <1>8. QED
    BY <1>5, <1>6, <1>7

-----------------------------------------------------------------------------
(* Backend calls: accounts and the list of calls still to make *)

LEMMA CallEffect ==
    ASSUME IInv, NEW g \in Goroutines, pc[g] \notin {"idle", "start", "wait"},
           RemoveCall(g) \/ AddCall(g) \/ PurgeCall(g)
    PROVE  /\ accounts' \in [Uids -> SUBSET Tags]
           /\ \E t \in Tags : todo' = [todo EXCEPT ![g] = @ \ {t}]
           /\ \E b \in BOOLEAN : failed' = [failed EXCEPT ![g] = b]
           /\ UNCHANGED <<pc, job, try, snap, new>>
  <1> DEFINE u == job[g].uid
  <1>1. /\ accounts \in [Uids -> SUBSET Tags] /\ u \in Uids
        /\ todo[g] \subseteq Tags /\ failed[g] \in BOOLEAN
    BY DEF IInv, TypeOK, AttemptTypeOK, AttemptsConsistent, AttemptConsistent
  <1>2. JoinedError(g, TRUE) \in BOOLEAN /\ JoinedError(g, FALSE) \in BOOLEAN
    BY <1>1 DEF JoinedError
  <1>3. UNCHANGED <<pc, job, try, snap, new>>
    BY DEF RemoveCall, AddCall, PurgeCall
  \* Either effect of a call is one of these.
  <1>4. \E t \in todo[g] :
           /\ todo' = [todo EXCEPT ![g] = @ \ {t}]
           /\ accounts' \in {accounts, [accounts EXCEPT ![u] = @ \ {t}],
                                      [accounts EXCEPT ![u] = @ \cup {t}]}
           /\ failed' \in {[failed EXCEPT ![g] = JoinedError(g, TRUE)],
                           [failed EXCEPT ![g] = JoinedError(g, FALSE)]}
    <2>1. Call(g)
      BY DEF RemoveCall, AddCall, PurgeCall
    <2>2. QED
      BY <2>1 DEF Call, BackendAdd, BackendRemove
  <1>5. PICK t \in todo[g] :
           /\ todo' = [todo EXCEPT ![g] = @ \ {t}]
           /\ accounts' \in {accounts, [accounts EXCEPT ![u] = @ \ {t}],
                                      [accounts EXCEPT ![u] = @ \cup {t}]}
           /\ failed' \in {[failed EXCEPT ![g] = JoinedError(g, TRUE)],
                           [failed EXCEPT ![g] = JoinedError(g, FALSE)]}
    BY <1>4
  <1>6. t \in Tags
    BY <1>1
  <1>7. accounts' \in [Uids -> SUBSET Tags]
    BY <1>1, <1>5, <1>6
  <1>8. \E b \in BOOLEAN : failed' = [failed EXCEPT ![g] = b]
    BY <1>2, <1>5
  <1>9. QED
    BY <1>3, <1>5, <1>6, <1>7, <1>8

LEMMA CallingKeeps ==
    ASSUME IInv, NEW g \in Goroutines, UNCHANGED <<storageVars, lockVars, handlerVars>>,
           RemoveCall(g) \/ AddCall(g) \/ PurgeCall(g)
    PROVE  /\ AttemptTypeOK' /\ AttemptsConsistent' /\ LocksConsistent' /\ SnapshotCurrent'
           /\ accounts' \in [Uids -> SUBSET Tags]
           /\ LocalMove(g) /\ pc[g] # "idle"
  <1>1. pc[g] \in {"remove", "add", "purge"}
    BY DEF RemoveCall, AddCall, PurgeCall
  <1>2. /\ accounts' \in [Uids -> SUBSET Tags]
        /\ \E t \in Tags : todo' = [todo EXCEPT ![g] = @ \ {t}]
        /\ \E b \in BOOLEAN : failed' = [failed EXCEPT ![g] = b]
        /\ UNCHANGED <<pc, job, try, snap, new>>
    BY <1>1, CallEffect
  <1>3. AttemptTypeOK'
    BY <1>2 DEF IInv, TypeOK, AttemptTypeOK
  <1>4. LocalMove(g)
    BY <1>2 DEF IInv, TypeOK, AttemptTypeOK, LocalMove
  <1>5. UNCHANGED phase /\ UNCHANGED users
    BY DEF storageVars, handlerVars
  <1>6. AttemptConsistent(g)'
    <2>1. AttemptConsistent(g)
      BY DEF IInv, AttemptsConsistent
    <2>2. QED
      BY <1>1, <1>2, <1>5, <2>1 DEF AttemptConsistent
  <1>7. SnapshotOf(g)'
    <2>1. SnapshotOf(g)
      BY SnapshotCurrentAlt DEF IInv
    <2>2. QED
      BY <1>2, <1>5, <2>1 DEF SnapshotOf
  <1>8. LocksConsistent'
    BY <1>1, <1>2, <1>4, LocalMoveLocks
  <1>9. QED
    BY <1>1, <1>2, <1>3, <1>4, <1>5, <1>6, <1>7, <1>8, LocalMoveAttempts, LocalMoveSnapshots

-----------------------------------------------------------------------------
(* The storage: a commit under the user lock, or a drop without it *)

LEMMA StoringKeeps ==
    ASSUME IInv, NEW g \in Goroutines, UNCHANGED <<lockVars, handlerVars>>,
           Commit(g) \/ Drop(g)
    PROVE  /\ StorageTypeOK' /\ AttemptTypeOK'
           /\ AttemptsConsistent' /\ LocksConsistent' /\ SnapshotCurrent'
           /\ LocalMove(g) /\ pc[g] # "idle"
  <1> DEFINE u == job[g].uid
  <1> USE DEF AttemptSteps, Inside, Goto
  <1>1. /\ pc \in [Goroutines -> AttemptSteps \cup {"idle", "purge", "drop"}]
        /\ job \in [Goroutines -> Message \cup {NoJob}]
        /\ try \in [Goroutines -> 0..Retries]
        /\ snap \in [Goroutines -> Records]
        /\ new \in [Goroutines -> Records]
        /\ todo \in [Goroutines -> SUBSET Tags]
        /\ failed \in [Goroutines -> BOOLEAN]
    BY DEF IInv, TypeOK, AttemptTypeOK
  <1>2. /\ AttemptConsistent(g) /\ StorageTypeOK
        /\ \A h \in Goroutines : SnapshotOf(h) /\ LockConsistent(h)
    BY SnapshotCurrentAlt DEF IInv, TypeOK, AttemptsConsistent, LocksConsistent
  <1>3. UNCHANGED phase
    BY DEF handlerVars
  <1>4. CASE Commit(g)
    <2>1. /\ pc[g] = "commit" /\ pc' = [pc EXCEPT ![g] = "unlock"] /\ u \in Uids
          /\ UNCHANGED <<inbounds, job, try, snap, new, todo, failed>>
          /\ \E r \in Records : users' = [users EXCEPT ![u] = r]
      BY <1>1, <1>2, <1>4 DEF Commit, AttemptConsistent, RemoveUser, UpdateUserInbounds, Records
    <2>2. StorageTypeOK' /\ AttemptTypeOK' /\ LocalMove(g)
      BY <1>1, <1>2, <2>1 DEF StorageTypeOK, AttemptTypeOK, LocalMove
    <2>3. AttemptConsistent(g)'
      BY <1>1, <1>2, <1>3, <2>1 DEF AttemptConsistent
    \* Whoever else has read a record holds another user's lock.
    <2>4. \A h \in Goroutines : SnapshotOf(h)'
      <3> SUFFICES ASSUME NEW h \in Goroutines, pc'[h] \in SnapshotSteps
                   PROVE  users'[job'[h].uid] \in {snap'[h], NotStored}
        BY DEF SnapshotOf
      <3>1. h # g /\ pc[h] \in SnapshotSteps
        BY <1>1, <2>1 DEF SnapshotSteps
      <3>2. holder[job[h].uid] = h /\ holder[u] = g
        BY <1>2, <2>1, <3>1 DEF LockConsistent, SnapshotSteps
      <3>3. QED
        BY <1>2, <2>1, <3>1, <3>2 DEF SnapshotOf, StorageTypeOK
    <2>5. LocksConsistent'
      BY <2>1, <2>2, <1>1, LocalMoveLocks
    <2>6. QED
      BY <1>3, <2>1, <2>2, <2>3, <2>4, <2>5, LocalMoveAttempts DEF SnapshotCurrent, SnapshotOf, SnapshotSteps
  <1>5. CASE Drop(g)
    <2>1. /\ pc[g] = "drop" /\ pc' = [pc EXCEPT ![g] = "idle"] /\ u \in Uids
          /\ inbounds' = inbounds /\ users' = [users EXCEPT ![u] = NotStored]
          /\ job' = [job EXCEPT ![g] = NoJob] /\ failed' = [failed EXCEPT ![g] = FALSE]
      BY <1>2, <1>5 DEF Drop, AttemptConsistent, RemoveUser, Idle, ClearLocals
    <2>2. StorageTypeOK' /\ AttemptTypeOK' /\ LocalMove(g)
      BY <1>1, <1>2, <1>5, <2>1, SizesAssumption
         DEF Drop, Idle, ClearLocals, StorageTypeOK, AttemptTypeOK, LocalMove, Records
    <2>3. AttemptConsistent(g)'
      BY <1>1, <2>1 DEF AttemptConsistent
    <2>4. \A h \in Goroutines : SnapshotOf(h)'
      <3> SUFFICES ASSUME NEW h \in Goroutines, pc'[h] \in SnapshotSteps
                   PROVE  users'[job'[h].uid] \in {snap'[h], NotStored}
        BY DEF SnapshotOf
      <3>1. h # g
        BY <1>1, <2>1 DEF SnapshotSteps
      <3>2. pc[h] \in SnapshotSteps /\ job'[h] = job[h] /\ snap'[h] = snap[h]
        BY <2>2, <3>1 DEF LocalMove
      <3>3. QED
        BY <1>2, <2>1, <3>2 DEF SnapshotOf, StorageTypeOK
    <2>5. LocksConsistent'
      BY <2>1, <2>2, <1>1, LocalMoveLocks
    <2>6. QED
      BY <1>3, <2>1, <2>2, <2>3, <2>4, <2>5, LocalMoveAttempts DEF SnapshotCurrent, SnapshotOf, SnapshotSteps
  <1>6. QED
    BY <1>4, <1>5

-----------------------------------------------------------------------------
(* Taking the next message, or the next user of the cleanup *)

LEMMA HandlerOfType ==
    ASSUME NEW g \in Goroutines
    PROVE  HandlerOf(g) \in Handlers
  BY ParentAssumption DEF HandlerOf, Goroutines

LEMMA DispatchingKeeps ==
    ASSUME IInv, NEW g \in Goroutines, UNCHANGED <<storageVars, lockVars>>,
           Take(g) \/ (g \in Handlers /\ \E u \in Uids : PurgeNext(g, u))
    PROVE  /\ AttemptTypeOK' /\ HandlerTypeOK'
           /\ AttemptsConsistent' /\ LocksConsistent' /\ SnapshotCurrent'
           /\ UNCHANGED failed
  <1> USE DEF AttemptSteps, Inside, Goto
  <1>1. /\ pc \in [Goroutines -> AttemptSteps \cup {"idle", "purge", "drop"}]
        /\ job \in [Goroutines -> Message \cup {NoJob}]
        /\ try \in [Goroutines -> 0..Retries]
        /\ snap \in [Goroutines -> Records]
        /\ new \in [Goroutines -> Records]
        /\ todo \in [Goroutines -> SUBSET Tags]
        /\ failed \in [Goroutines -> BOOLEAN]
    BY DEF IInv, TypeOK, AttemptTypeOK
  <1>2. /\ batch \in [Handlers -> Seq(Message)]
        /\ doomed \in [Handlers -> [Uids -> Records]]
    BY DEF IInv, TypeOK, HandlerTypeOK
  <1>3. AttemptConsistent(g) /\ SnapshotOf(g)
    BY SnapshotCurrentAlt DEF IInv, AttemptsConsistent
  <1>4. UNCHANGED users
    BY DEF storageVars
  <1> DEFINE Good ==
        /\ AttemptTypeOK' /\ HandlerTypeOK' /\ LocalMove(g)
        /\ AttemptConsistent(g)' /\ SnapshotOf(g)'
        /\ UNCHANGED <<phase, failed>>
        /\ pc[g] = "idle" /\ pc'[g] \in {"idle", "start", "purge"}
  <1>5. ASSUME Take(g) PROVE Good
    <2> DEFINE h == HandlerOf(g)
               m == Head(batch[h])
    <2>1. /\ h \in Handlers /\ batch[h] # <<>> /\ phase[h] = "apply" /\ pc[g] = "idle"
          /\ batch' = [batch EXCEPT ![h] = Tail(@)]
          /\ UNCHANGED <<snap, new, todo, failed>>
          /\ UNCHANGED <<phase, mode, pooled, keep, eof, cancelled, doomed>>
      BY <1>5, HandlerOfType DEF Take
    <2>2. m \in Message /\ Tail(batch[h]) \in Seq(Message)
      BY <1>2, <2>1, HeadTailProperties
    <2>3. HandlerTypeOK'
      BY <2>1, <2>2 DEF IInv, TypeOK, HandlerTypeOK
    <2>4. CASE Ignored(m)
      <3>1. UNCHANGED <<pc, job, try>>
        BY <1>5, <2>4 DEF Take
      <3>2. AttemptConsistent(g)' /\ SnapshotOf(g)' /\ LocalMove(g)
        BY <1>3, <1>4, <2>1, <3>1 DEF AttemptConsistent, SnapshotOf, LocalMove
      <3>3. QED
        BY <1>1, <2>1, <2>3, <3>1, <3>2 DEF AttemptTypeOK
    <2>5. CASE ~Ignored(m)
      <3>1. /\ pc' = [pc EXCEPT ![g] = "start"] /\ job' = [job EXCEPT ![g] = m]
            /\ try' = [try EXCEPT ![g] = 1]
        BY <1>5, <2>5 DEF Take
      <3>2. m.uid \in Uids
        BY <2>2, <2>5 DEF Ignored, Message
      <3>3. AttemptTypeOK'
        BY <1>1, <2>1, <2>2, <3>1, SizesAssumption DEF AttemptTypeOK
      <3>4. LocalMove(g)
        BY <1>1, <2>1, <3>1 DEF LocalMove
      <3>5. AttemptConsistent(g)' /\ SnapshotOf(g)'
        BY <1>1, <1>3, <2>1, <2>2, <3>1, <3>2
           DEF AttemptConsistent, SnapshotOf, SnapshotSteps
      <3>6. QED
        BY <1>1, <2>1, <2>3, <3>1, <3>3, <3>4, <3>5
    <2>6. QED
      BY <2>4, <2>5
  <1>6. ASSUME g \in Handlers, NEW u \in Uids, PurgeNext(g, u) PROVE Good
    <2> DEFINE m == [uid |-> u, named |-> TRUE, tags |-> {}]
    <2>1. /\ pc[g] = "idle" /\ phase[g] = "cleanup" /\ doomed[g][u] # NotStored
          /\ pc' = [pc EXCEPT ![g] = "purge"] /\ job' = [job EXCEPT ![g] = m]
          /\ todo' = [todo EXCEPT ![g] = doomed[g][u]]
          /\ doomed' = [doomed EXCEPT ![g][u] = NotStored]
          /\ UNCHANGED <<try, snap, new, failed>>
          /\ UNCHANGED <<phase, mode, batch, pooled, keep, eof, cancelled>>
      BY <1>6 DEF PurgeNext
    <2>2. m \in Message /\ m.uid \in Uids
      BY DEF Message
    <2>3. doomed[g][u] \in SUBSET Tags
      BY <1>2, <1>6, <2>1 DEF Records
    <2>4. AttemptTypeOK'
      BY <1>1, <2>1, <2>2, <2>3 DEF AttemptTypeOK
    <2>5. doomed' \in [Handlers -> [Uids -> Records]]
      BY <1>2, <1>6, <2>1 DEF Records
    <2>6. HandlerTypeOK'
      BY <2>1, <2>5 DEF IInv, TypeOK, HandlerTypeOK
    <2>7. LocalMove(g)
      BY <1>1, <2>1 DEF LocalMove
    <2>8. AttemptConsistent(g)' /\ SnapshotOf(g)'
      BY <1>1, <1>6, <2>1, <2>2 DEF AttemptConsistent, SnapshotOf, SnapshotSteps
    <2>9. QED
      BY <1>1, <2>1, <2>4, <2>6, <2>7, <2>8
  <1>7. Good
    BY <1>5, <1>6
  <1>8. QED
    BY <1>4, <1>7, LocalMoveAttempts, LocalMoveLocks, LocalMoveSnapshots

-----------------------------------------------------------------------------
(* The handlers' own steps: no goroutine's locals, no lock, no storage *)

\* A handler that is receiving, listing or done has no attempt and no purge, so
\* that whatever it does to its phase concerns nobody.
LEMMA HandlerMove ==
    ASSUME IInv, UNCHANGED <<storageVars, lockVars, attemptVars>>,
           NEW h \in Handlers,
           \A x \in Handlers \ {h} : phase'[x] = phase[x],
           \/ phase'[h] = phase[h]
           \/ phase[h] \in {"recv", "list"}
           \/ phase[h] = "apply" /\ \A g \in GoroutinesOf(h) : pc[g] = "idle"
           \/ phase[h] = "cleanup" /\ pc[h] = "idle"
    PROVE  AttemptsConsistent' /\ LocksConsistent' /\ SnapshotCurrent'
  <1>1. UNCHANGED <<users, holder, waiting, pc, job, try, snap, new, todo, failed>>
    BY DEF storageVars, lockVars, attemptVars
  <1>2. ASSUME NEW g \in Goroutines
        PROVE  AttemptConsistent(g)'
    <2>1. AttemptConsistent(g) /\ HandlerOf(g) \in Handlers
      BY HandlerOfType DEF IInv, AttemptsConsistent
    <2>2. pc[g] \in AttemptSteps => phase'[HandlerOf(g)] = "apply"
      <3>1. CASE HandlerOf(g) # h
        BY <2>1, <3>1 DEF AttemptConsistent
      <3>2. CASE HandlerOf(g) = h
        BY <2>1, <3>2 DEF AttemptConsistent, GoroutinesOf, AttemptSteps
      <3>3. QED
        BY <3>1, <3>2
    <2>3. pc[g] \in {"purge", "drop"} => g \in Handlers /\ phase'[g] = "cleanup"
      <3>1. CASE g # h
        BY <2>1, <3>1 DEF AttemptConsistent
      <3>2. CASE g = h
        BY <2>1, <3>2 DEF AttemptConsistent
      <3>3. QED
        BY <3>1, <3>2
    <2>4. QED
      BY <1>1, <2>1, <2>2, <2>3 DEF AttemptConsistent
  <1>3. LocksConsistent'
    BY <1>1 DEF IInv, LocksConsistent, LockConsistent
  <1>4. SnapshotCurrent'
    BY <1>1 DEF IInv, SnapshotCurrent
  <1>5. QED
    BY <1>2, <1>3, <1>4 DEF AttemptsConsistent

LEMMA ReceivingKeeps ==
    ASSUME IInv, NEW h \in Handlers,
           UNCHANGED <<storageVars, accounts, lockVars, attemptVars>>,
           \/ ReceiveMarker(h)
           \/ \E m \in Messages \cup FirstMessages : Receive(h, m)
           \/ ReceiveEOF(h) \/ ReceiveError(h) \/ CallRepopulate(h) \/ Cancel(h)
    PROVE  /\ HandlerTypeOK' /\ sent' \in [Handlers -> Seq(Message)]
           /\ AttemptsConsistent' /\ LocksConsistent' /\ SnapshotCurrent'
  <1>1. /\ phase \in [Handlers -> {"recv", "apply", "list", "cleanup", "done"}]
        /\ mode \in [Handlers -> {"new", "sync", "repop"}]
        /\ batch \in [Handlers -> Seq(Message)]
        /\ pooled \in [Handlers -> BOOLEAN]
        /\ keep \in [Handlers -> SUBSET Uids]
        /\ eof \in [Handlers -> BOOLEAN]
        /\ cancelled \in [Handlers -> BOOLEAN]
        /\ doomed \in [Handlers -> [Uids -> Records]]
        /\ sent \in [Handlers -> Seq(Message)]
    BY DEF IInv, TypeOK, HandlerTypeOK, HistoryTypeOK
  <1> DEFINE Good ==
        /\ HandlerTypeOK' /\ sent' \in [Handlers -> Seq(Message)]
        /\ \A x \in Handlers \ {h} : phase'[x] = phase[x]
        /\ phase'[h] = phase[h] \/ phase[h] = "recv"
  <1>2. ASSUME ReceiveMarker(h) PROVE Good
    BY <1>1, <1>2 DEF ReceiveMarker, HandlerTypeOK
  <1>3. ASSUME NEW m \in Messages \cup FirstMessages, Receive(h, m) PROVE Good
    <2> DEFINE big == Len(batch[h]) + 1 >= BulkThreshold
    <2>1. m \in Message
      BY MessagesAssumption
    <2>2. /\ Append(sent[h], m) \in Seq(Message) /\ Append(batch[h], m) \in Seq(Message)
          /\ KeepWith(keep[h], m) \subseteq Uids /\ big \in BOOLEAN
      BY <1>1, <2>1 DEF KeepWith
    <2>3. /\ sent' = [sent EXCEPT ![h] = Append(@, m)]
          /\ batch' = [batch EXCEPT ![h] = Append(@, m)]
          /\ phase[h] = "recv" /\ UNCHANGED <<eof, cancelled, doomed>>
      BY <1>3 DEF Receive
    <2>4. /\ keep' = keep \/ keep' = [keep EXCEPT ![h] = KeepWith(@, m)]
          /\ phase' = phase \/ phase' = [phase EXCEPT ![h] = "apply"]
          /\ mode' = mode \/ mode' = [mode EXCEPT ![h] = "sync"]
          /\ pooled' = pooled \/ pooled' = [pooled EXCEPT ![h] = big]
      BY <1>3 DEF Receive
    <2> HIDE DEF big
    <2>5. /\ keep' \in [Handlers -> SUBSET Uids]
          /\ pooled' \in [Handlers -> BOOLEAN]
      <3>1. keep' \in [Handlers -> SUBSET Uids]
        <4>1. keep \in [Handlers -> SUBSET Uids]
          BY <1>1
        <4>2. KeepWith(keep[h], m) \in SUBSET Uids
          BY <2>2
        <4>3. keep' = keep \/ keep' = [keep EXCEPT ![h] = KeepWith(keep[h], m)]
          BY <2>4
        <4>4. QED
          BY <4>1, <4>2, <4>3
      <3>2. pooled' \in [Handlers -> BOOLEAN]
        BY <1>1, <2>2, <2>4
      <3>3. QED
        BY <3>1, <3>2
    <2>6. /\ sent' \in [Handlers -> Seq(Message)] /\ batch' \in [Handlers -> Seq(Message)]
          /\ phase' \in [Handlers -> {"recv", "apply", "list", "cleanup", "done"}]
          /\ mode' \in [Handlers -> {"new", "sync", "repop"}]
      BY <1>1, <2>2, <2>3, <2>4
    <2>7. QED
      BY <1>1, <2>3, <2>4, <2>5, <2>6 DEF HandlerTypeOK
  <1>4. ASSUME ReceiveEOF(h) PROVE Good
    <2> DEFINE big == Len(batch[h]) >= BulkThreshold
    <2>1. /\ phase[h] = "recv" /\ eof' = [eof EXCEPT ![h] = TRUE]
          /\ \E p \in {"apply", "list", "done"} : phase' = [phase EXCEPT ![h] = p]
          /\ pooled' = pooled \/ pooled' = [pooled EXCEPT ![h] = big]
          /\ UNCHANGED <<mode, batch, keep, cancelled, doomed, sent>>
          /\ big \in BOOLEAN
      BY <1>4 DEF ReceiveEOF
    <2> HIDE DEF big
    <2>2. pooled' \in [Handlers -> BOOLEAN]
      BY <1>1, <2>1
    <2>3. QED
      BY <1>1, <2>1, <2>2 DEF HandlerTypeOK
  <1>5. ASSUME ReceiveError(h) PROVE Good
    <2>1. <<>> \in Seq(Message)
      OBVIOUS
    <2>2. QED
      BY <1>1, <1>5, <2>1 DEF ReceiveError, HandlerTypeOK
  <1>6. ASSUME CallRepopulate(h) PROVE Good
    <2>1. PICK n \in 0..MaxMsgs : \E data \in [1..n -> Messages] :
             /\ batch' = [batch EXCEPT ![h] = data]
             /\ sent' = [sent EXCEPT ![h] = data]
             /\ keep' = [keep EXCEPT ![h] = {data[i].uid : i \in 1..n} \cap Uids]
             /\ phase' = [phase EXCEPT ![h] = IF n = 0 THEN "list" ELSE "apply"]
      BY <1>6 DEF CallRepopulate
    <2>2. PICK data \in [1..n -> Messages] :
             /\ batch' = [batch EXCEPT ![h] = data]
             /\ sent' = [sent EXCEPT ![h] = data]
             /\ keep' = [keep EXCEPT ![h] = {data[i].uid : i \in 1..n} \cap Uids]
             /\ phase' = [phase EXCEPT ![h] = IF n = 0 THEN "list" ELSE "apply"]
      BY <2>1
    <2>3. data \in Seq(Message)
      <3>1. n \in Nat /\ data \in [1..n -> Message]
        BY MessagesAssumption, SizesAssumption
      <3>2. QED
        BY <3>1
    <2>4. /\ phase[h] = "recv" /\ eof' = [eof EXCEPT ![h] = TRUE]
          /\ UNCHANGED <<mode, pooled, cancelled, doomed>>
      BY <1>6 DEF CallRepopulate
    <2>5. keep' \in [Handlers -> SUBSET Uids]
      BY <1>1, <2>2
    <2>6. QED
      BY <1>1, <2>2, <2>3, <2>4, <2>5 DEF HandlerTypeOK
  <1>7. ASSUME Cancel(h) PROVE Good
    BY <1>1, <1>7 DEF Cancel, HandlerTypeOK
  <1>8. Good
    BY <1>2, <1>3, <1>4, <1>5, <1>6, <1>7
  <1>9. QED
    BY <1>8, HandlerMove

LEMMA AdvancingKeeps ==
    ASSUME IInv, NEW h \in Handlers,
           UNCHANGED <<storageVars, accounts, lockVars, attemptVars>>,
           ApplyDone(h) \/ ListDoomed(h) \/ CleanupDone(h)
    PROVE  /\ HandlerTypeOK' /\ UNCHANGED sent
           /\ AttemptsConsistent' /\ LocksConsistent' /\ SnapshotCurrent'
  <1>1. HandlerTypeOK /\ StorageTypeOK
    BY DEF IInv, TypeOK
  <1> DEFINE Good ==
        /\ HandlerTypeOK' /\ UNCHANGED sent
        /\ \A x \in Handlers \ {h} : phase'[x] = phase[x]
        /\ \/ phase[h] = "list"
           \/ phase[h] = "apply" /\ \A g \in GoroutinesOf(h) : pc[g] = "idle"
           \/ phase[h] = "cleanup" /\ pc[h] = "idle"
  <1>2. ASSUME ApplyDone(h) PROVE Good
    BY <1>1, <1>2 DEF ApplyDone, Waited, HandlerTypeOK
  <1>3. ASSUME ListDoomed(h) PROVE Good
    <2> DEFINE copy == [u \in Uids |-> IF u \in Unnamed(h) THEN users[u] ELSE NotStored]
    <2>1. copy \in [Uids -> Records]
      BY <1>1 DEF StorageTypeOK, Records
    <2>2. /\ phase[h] = "list" /\ doomed' = [doomed EXCEPT ![h] = copy]
          /\ phase' = [phase EXCEPT ![h] = "cleanup"]
          /\ UNCHANGED <<mode, batch, pooled, keep, eof, cancelled, sent>>
      BY <1>3 DEF ListDoomed
    <2>3. doomed' \in [Handlers -> [Uids -> Records]]
      <3> HIDE DEF copy
      <3>1. QED
        BY <1>1, <2>1, <2>2 DEF HandlerTypeOK
    <2>4. QED
      BY <1>1, <2>2, <2>3 DEF HandlerTypeOK
  <1>4. ASSUME CleanupDone(h) PROVE Good
    BY <1>1, <1>4 DEF CleanupDone, HandlerTypeOK
  <1>5. Good
    BY <1>2, <1>3, <1>4
  <1>6. QED
    BY <1>5, HandlerMove

-----------------------------------------------------------------------------
(* The invariant *)

LEMMA InitIInv ==
    ASSUME Init
    PROVE  IInv
  <1>1. StorageTypeOK /\ accounts \in [Uids -> SUBSET Tags]
    BY InitUsersAssumption, TagsAssumption, NoRecordAssumption
       DEF Init, StorageTypeOK, Records, Granted, NotStored
  <1>2. Mutex!MutexTypeOK
    BY DEF Init, Mutex!MutexInit, Mutex!MutexTypeOK
  <1>3. AttemptTypeOK
    BY SizesAssumption DEF Init, AttemptTypeOK, Records
  <1>4. HandlerTypeOK /\ HistoryTypeOK
    BY DEF Init, HandlerTypeOK, HistoryTypeOK, Records
  <1>5. AttemptsConsistent
    BY DEF Init, AttemptsConsistent, AttemptConsistent, AttemptSteps
  <1>6. LocksConsistent
    BY DEF Init, Mutex!MutexInit, LocksConsistent, LockConsistent, Inside, AttemptSteps
  <1>7. SnapshotCurrent
    BY DEF Init, SnapshotCurrent
  <1>8. QED
    BY <1>1, <1>2, <1>3, <1>4, <1>5, <1>6, <1>7 DEF IInv, TypeOK

LEMMA NextIInv ==
    ASSUME IInv, [Next]_vars
    PROVE  IInv'
  \* A failed call is a call for a user: of an attempt or of a purge.
  <1>1. ASSUME NEW g \in Goroutines, failed[g]
        PROVE  job[g].uid \in Uids
    BY <1>1 DEF IInv, AttemptsConsistent, AttemptConsistent
  <1>2. ASSUME NEW g \in Goroutines, LocalMove(g), pc[g] # "idle",
               NEW x \in Goroutines, failed'[x]
        PROVE  job[x].uid \in Uids
    BY <1>1, <1>2 DEF IInv, AttemptsConsistent, AttemptConsistent, LocalMove
  <1>3. ASSUME NEW h \in Handlers, Receiving(h)
        PROVE  IInv'
    <2>1. /\ HandlerTypeOK' /\ sent' \in [Handlers -> Seq(Message)]
          /\ AttemptsConsistent' /\ LocksConsistent' /\ SnapshotCurrent'
      BY <1>3, ReceivingKeeps DEF Receiving
    <2>2. /\ StorageTypeOK' /\ accounts' \in [Uids -> SUBSET Tags]
          /\ Mutex!MutexTypeOK' /\ AttemptTypeOK'
      BY <1>3, TypeFrame DEF Receiving, IInv
    <2>3. HistoryTypeOK'
      BY <1>1, <1>3, <2>1, ObserveHistory DEF Receiving, IInv, TypeOK, attemptVars
    <2>4. QED
      BY <2>1, <2>2, <2>3 DEF IInv, TypeOK
  <1>4. ASSUME NEW h \in Handlers, Advancing(h)
        PROVE  IInv'
    <2>1. /\ HandlerTypeOK' /\ UNCHANGED sent
          /\ AttemptsConsistent' /\ LocksConsistent' /\ SnapshotCurrent'
      BY <1>4, AdvancingKeeps DEF Advancing
    <2>2. /\ StorageTypeOK' /\ accounts' \in [Uids -> SUBSET Tags]
          /\ Mutex!MutexTypeOK' /\ AttemptTypeOK' /\ sent' \in [Handlers -> Seq(Message)]
      BY <1>4, <2>1, TypeFrame DEF Advancing, IInv
    <2>3. HistoryTypeOK'
      BY <1>1, <1>4, <2>2, ObserveHistory DEF Advancing, IInv, TypeOK, attemptVars
    <2>4. QED
      BY <2>1, <2>2, <2>3 DEF IInv, TypeOK
  <1>5. ASSUME NEW g \in Goroutines, Dispatching(g)
        PROVE  IInv'
    <2>1. /\ AttemptTypeOK' /\ HandlerTypeOK' /\ UNCHANGED failed
          /\ AttemptsConsistent' /\ LocksConsistent' /\ SnapshotCurrent'
      BY <1>5, DispatchingKeeps DEF Dispatching
    <2>2. /\ StorageTypeOK' /\ accounts' \in [Uids -> SUBSET Tags]
          /\ Mutex!MutexTypeOK' /\ sent' \in [Handlers -> Seq(Message)]
      BY <1>5, TypeFrame DEF Dispatching, IInv
    <2>3. HistoryTypeOK'
      BY <1>1, <1>5, <2>1, <2>2, ObserveHistory DEF Dispatching, IInv, TypeOK
    <2>4. QED
      BY <2>1, <2>2, <2>3 DEF IInv, TypeOK
  <1>6. ASSUME NEW g \in Goroutines, Locking(g)
        PROVE  IInv'
    <2>1. /\ AttemptTypeOK' /\ Mutex!MutexTypeOK'
          /\ AttemptsConsistent' /\ LocksConsistent' /\ SnapshotCurrent'
          /\ LocalMove(g) /\ pc[g] # "idle"
      BY <1>6, LockingKeeps DEF Locking
    <2>2. /\ StorageTypeOK' /\ accounts' \in [Uids -> SUBSET Tags]
          /\ HandlerTypeOK' /\ sent' \in [Handlers -> Seq(Message)]
      BY <1>6, TypeFrame DEF Locking, IInv
    <2>3. HistoryTypeOK'
      BY <1>2, <1>6, <2>1, <2>2, ObserveHistory DEF Locking, IInv, TypeOK
    <2>4. QED
      BY <2>1, <2>2, <2>3 DEF IInv, TypeOK
  <1>7. ASSUME NEW g \in Goroutines, Deciding(g)
        PROVE  IInv'
    <2>1. /\ AttemptTypeOK' /\ AttemptsConsistent' /\ LocksConsistent' /\ SnapshotCurrent'
          /\ LocalMove(g) /\ pc[g] # "idle"
      BY <1>7, DecidingKeeps DEF Deciding
    <2>2. /\ StorageTypeOK' /\ accounts' \in [Uids -> SUBSET Tags] /\ Mutex!MutexTypeOK'
          /\ HandlerTypeOK' /\ sent' \in [Handlers -> Seq(Message)]
      BY <1>7, TypeFrame DEF Deciding, IInv
    <2>3. HistoryTypeOK'
      BY <1>2, <1>7, <2>1, <2>2, ObserveHistory DEF Deciding, IInv, TypeOK
    <2>4. QED
      BY <2>1, <2>2, <2>3 DEF IInv, TypeOK
  <1>8. ASSUME NEW g \in Goroutines, Calling(g)
        PROVE  IInv'
    <2>1. /\ AttemptTypeOK' /\ AttemptsConsistent' /\ LocksConsistent' /\ SnapshotCurrent'
          /\ accounts' \in [Uids -> SUBSET Tags] /\ LocalMove(g) /\ pc[g] # "idle"
      BY <1>8, CallingKeeps DEF Calling
    <2>2. /\ StorageTypeOK' /\ Mutex!MutexTypeOK'
          /\ HandlerTypeOK' /\ sent' \in [Handlers -> Seq(Message)]
      BY <1>8, TypeFrame DEF Calling, IInv
    <2>3. HistoryTypeOK'
      BY <1>2, <1>8, <2>1, <2>2, ObserveHistory DEF Calling, IInv, TypeOK
    <2>4. QED
      BY <2>1, <2>2, <2>3 DEF IInv, TypeOK
  <1>9. ASSUME NEW g \in Goroutines, Storing(g)
        PROVE  IInv'
    <2>1. /\ StorageTypeOK' /\ AttemptTypeOK'
          /\ AttemptsConsistent' /\ LocksConsistent' /\ SnapshotCurrent'
          /\ LocalMove(g) /\ pc[g] # "idle"
      BY <1>9, StoringKeeps DEF Storing
    <2>2. /\ accounts' \in [Uids -> SUBSET Tags] /\ Mutex!MutexTypeOK'
          /\ HandlerTypeOK' /\ sent' \in [Handlers -> Seq(Message)]
      BY <1>9, TypeFrame DEF Storing, IInv
    <2>3. HistoryTypeOK'
      BY <1>2, <1>9, <2>1, <2>2, ObserveHistory DEF Storing, IInv, TypeOK
    <2>4. QED
      BY <2>1, <2>2, <2>3 DEF IInv, TypeOK
  <1>10. ASSUME UNCHANGED vars
         PROVE  IInv'
    <2>1. /\ UNCHANGED <<storageVars, accounts, lockVars, attemptVars>>
          /\ UNCHANGED <<handlerVars, historyVars>>
      BY <1>10 DEF vars, storageVars, lockVars, attemptVars, handlerVars, historyVars
    <2>2. TypeOK'
      BY <2>1, TypeFrame DEF IInv, TypeOK, HistoryTypeOK, historyVars
    <2>3. AttemptsConsistent' /\ LocksConsistent' /\ SnapshotCurrent'
      BY <2>1 DEF IInv, AttemptsConsistent, AttemptConsistent, LocksConsistent, LockConsistent,
                  SnapshotCurrent, storageVars, lockVars, attemptVars, handlerVars
    <2>4. QED
      BY <2>2, <2>3 DEF IInv
  <1>11. QED
    BY <1>3, <1>4, <1>5, <1>6, <1>7, <1>8, <1>9, <1>10 DEF Next, Finished

-----------------------------------------------------------------------------
(* Theorems *)

\* The inductive invariant: types, what a goroutine may be doing for whom, the
\* agreement of locks and goroutines, and the snapshots (applyUserData under
\* lockUser, the worker pool, the cleanup).
THEOREM SyncInvariant == Spec => []IInv
  <1>1. Init => IInv
    BY InitIInv
  <1>2. IInv /\ [Next]_vars => IInv'
    BY NextIInv
  <1>3. QED
    BY <1>1, <1>2, PTL DEF Spec

\* Every variable keeps its type; in particular no attempt exceeds
\* userApplyRetries, and the attempts and purges are for real users.
THEOREM SyncTypes == Spec => []TypeOK
  <1>1. IInv => TypeOK
    BY DEF IInv
  <1>2. QED
    BY <1>1, SyncInvariant, PTL

\* No lost update: whatever streams, workers, retries and cleanups run, between
\* store.GetUser and the store at the end of applyUserData nobody else stores a
\* record of that user, and only a cleanup can have dropped it.
THEOREM SyncNoLostUpdate == Spec => []SnapshotCurrent
  <1>1. IInv => SnapshotCurrent
    BY DEF IInv
  <1>2. QED
    BY <1>1, SyncInvariant, PTL

\* No error, retry or cancellation leaves a user lock behind: a lock is held by
\* a goroutine inside its attempt for that user, whose handler waits for it.
THEOREM SyncNoLockLeftBehind == Spec => []LockHeldOnlyWhileApplying
  <1>1. ASSUME IInv, NEW u \in Uids, holder[u] # Free
        PROVE  /\ phase[HandlerOf(holder[u])] = "apply"
               /\ job[holder[u]].uid = u /\ pc[holder[u]] \in Inside
    <2>1. holder[u] \in Goroutines /\ pc[holder[u]] \in Inside /\ job[holder[u]].uid = u
      BY <1>1 DEF IInv, TypeOK, Mutex!MutexTypeOK, LocksConsistent
    <2>2. AttemptConsistent(holder[u])
      BY <1>1, <2>1 DEF IInv, AttemptsConsistent
    <2>3. QED
      BY <2>1, <2>2 DEF AttemptConsistent, Inside
  <1>2. IInv => LockHeldOnlyWhileApplying
    BY <1>1 DEF LockHeldOnlyWhileApplying
  <1>3. QED
    BY <1>2, SyncInvariant, PTL
=============================================================================
