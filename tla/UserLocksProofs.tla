-------------------------- MODULE UserLocksProofs --------------------------
(***************************************************************************)
(* Proofs about lockUser, for any number of goroutines and user ids.  The  *)
(* inductive invariant IInv says that a goroutine in flight for a user     *)
(* holds that user's map entry; without it neither mutual exclusion nor    *)
(* the absence of leaked entries is preserved by Release.                  *)
(***************************************************************************)
EXTENDS UserLocks, FiniteSetTheorems, TLAPS

\* The goroutines that share a lock can be counted.
LEMMA SharersFinite ==
    ASSUME NEW locals, NEW l
    PROVE  IsFiniteSet(Sharers(locals, l)) /\ Cardinality(Sharers(locals, l)) \in Nat
  BY GoroutinesAssumption, FS_Subset, FS_CardinalityType DEF Sharers

\* The initial map is empty and nobody is in flight.
LEMMA InitIInv == Init => IInv
  <1> SUFFICES ASSUME Init PROVE IInv
    OBVIOUS
  <1>1. TypeOK
    BY DEF Init, TypeOK
  <1>2. HoldsEntry /\ EntriesDistinct /\ OwnerHolds /\ RefsExact /\ NoLeak
    BY LocksAssumption DEF Init, HoldsEntry, EntriesDistinct, OwnerHolds,
        RefsExact, NoLeak, Active
  <1>3. QED
    BY <1>1, <1>2 DEF IInv

\* Joining an existing entry: the count and the set of sharers both grow by g.
LEMMA RegisterExistingIInv ==
    ASSUME IInv, NEW g \in Goroutines, NEW u \in Uids, RegisterExisting(g, u)
    PROVE  IInv'
  <1> DEFINE l == userLocks[u]
  <1> USE LocksAssumption, UidsAssumption
  <1>1. l \in Locks /\ lk[g] = NoLock /\ refs[l] \in Nat
    BY DEF IInv, TypeOK, HoldsEntry, Active, RegisterExisting
  <1>2. TypeOK'
    BY <1>1 DEF IInv, TypeOK, RegisterExisting, Join, CountIn
  <1>3. HoldsEntry'
    BY <1>1 DEF IInv, TypeOK, HoldsEntry, Active, RegisterExisting, Join
  <1>4. EntriesDistinct'
    BY DEF IInv, EntriesDistinct, RegisterExisting
  <1>5. OwnerHolds'
    <2>1. \A h \in Goroutines : pc'[h] = "holding" => h # g
      BY DEF IInv, TypeOK, RegisterExisting, Join
    <2>2. \A v \in Uids : userLocks[v] # NoLock /\ owner[userLocks[v]] # None =>
              owner[userLocks[v]] # g /\ owner[userLocks[v]] \in Goroutines
      BY DEF IInv, TypeOK, OwnerHolds, RegisterExisting
    <2>3. QED
      BY <2>1, <2>2 DEF IInv, TypeOK, OwnerHolds, RegisterExisting, Join
  <1>6. RefsExact'
    <2> SUFFICES ASSUME NEW v \in Uids, userLocks[v] # NoLock
                 PROVE  refs'[userLocks[v]] = Cardinality(Sharers(lk', userLocks[v]))
      BY DEF RefsExact, Sharers, RegisterExisting
    <2>1. userLocks[v] \in Locks /\ refs[userLocks[v]] = Cardinality(Sharers(lk, userLocks[v]))
      BY DEF IInv, TypeOK, RefsExact, Sharers
    <2>2. CASE v = u
      <3>1. Sharers(lk', l) = Sharers(lk, l) \cup {g} /\ g \notin Sharers(lk, l)
        BY <1>1 DEF IInv, TypeOK, Sharers, RegisterExisting, Join
      <3>2. Cardinality(Sharers(lk, l) \cup {g}) = Cardinality(Sharers(lk, l)) + 1
        BY <1>1, <3>1, SharersFinite, FS_AddElement
      <3>3. refs'[l] = refs[l] + 1
        BY <1>1 DEF IInv, TypeOK, RegisterExisting, CountIn
      <3>4. QED
        BY <2>1, <2>2, <3>1, <3>2, <3>3
    <2>3. CASE v # u
      <3>1. userLocks[v] # l
        BY <1>1, <2>3 DEF IInv, EntriesDistinct
      <3>2. Sharers(lk', userLocks[v]) = Sharers(lk, userLocks[v])
        BY <1>1, <2>1, <3>1 DEF IInv, TypeOK, Sharers, RegisterExisting, Join
      <3>3. refs'[userLocks[v]] = refs[userLocks[v]]
        BY <2>1, <3>1 DEF IInv, TypeOK, RegisterExisting, CountIn
      <3>4. QED
        BY <2>1, <3>2, <3>3
    <2>4. QED
      BY <2>2, <2>3
  <1>7. NoLeak'
    BY DEF IInv, TypeOK, NoLeak, Active, RegisterExisting, Join
  <1>8. QED
    BY <1>2, <1>3, <1>4, <1>5, <1>6, <1>7 DEF IInv

\* A fresh entry: no goroutine and no user shares it, so its count of one is
\* exact and the entries stay distinct.
LEMMA RegisterNewIInv ==
    ASSUME IInv, NEW g \in Goroutines, NEW u \in Uids, RegisterNew(g, u)
    PROVE  IInv'
  <1> USE LocksAssumption, UidsAssumption
  <1>1. PICK l \in Locks :
            /\ Unreachable(l)
            /\ userLocks' = [userLocks EXCEPT ![u] = l]
            /\ refs' = [refs EXCEPT ![l] = 1]
            /\ owner' = [owner EXCEPT ![l] = None]
            /\ Join(g, u, l)
    BY DEF RegisterNew
  <1>2. pc[g] = "idle" /\ userLocks[u] = NoLock /\ lk[g] = NoLock
    BY DEF IInv, HoldsEntry, Active, RegisterNew
  <1>3. TypeOK'
    BY <1>1 DEF IInv, TypeOK, Join
  <1>4. HoldsEntry'
    <2> SUFFICES ASSUME NEW h \in Goroutines
                 PROVE  /\ Active(h)' => uid'[h] \in Uids /\ lk'[h] \in Locks
                                           /\ userLocks'[uid'[h]] = lk'[h]
                        /\ ~Active(h)' => lk'[h] = NoLock /\ uid'[h] = NoUid
      BY DEF HoldsEntry, Active
    <2>1. CASE h = g
      BY <1>1, <2>1 DEF IInv, TypeOK, Active, Join
    <2>2. CASE h # g
      <3>1. Active(h) => uid[h] # u
        BY <1>2 DEF IInv, HoldsEntry
      <3>2. QED
        BY <1>1, <2>2, <3>1 DEF IInv, TypeOK, HoldsEntry, Active, Join
    <2>3. QED
      BY <2>1, <2>2
  <1>5. EntriesDistinct'
    BY <1>1 DEF IInv, TypeOK, EntriesDistinct, Unreachable
  <1>6. OwnerHolds'
    <2>1. \A h \in Goroutines : pc'[h] = "holding" =>
              h # g /\ lk'[h] = lk[h] /\ lk[h] # l /\ owner[lk[h]] = h /\ lk[h] \in Locks
      BY <1>1 DEF IInv, TypeOK, HoldsEntry, OwnerHolds, Active, Join, Unreachable
    <2>2. \A h \in Goroutines : pc'[h] = "holding" => owner'[lk'[h]] = h
      BY <1>1, <2>1 DEF IInv, TypeOK
    <2>3. ASSUME NEW v \in Uids, userLocks'[v] # NoLock, owner'[userLocks'[v]] # None
          PROVE  LET h == owner'[userLocks'[v]]
                 IN  pc'[h] = "holding" /\ lk'[h] = userLocks'[v]
      <3>1. v # u /\ userLocks'[v] = userLocks[v] /\ userLocks[v] # l
        BY <1>1, <2>3 DEF IInv, TypeOK, Unreachable
      <3>2. owner'[userLocks'[v]] = owner[userLocks[v]]
        BY <1>1, <2>3, <3>1 DEF IInv, TypeOK
      <3>3. owner[userLocks[v]] # g /\ owner[userLocks[v]] \in Goroutines
        BY <1>2, <2>3, <3>1, <3>2 DEF IInv, TypeOK, OwnerHolds
      <3>4. QED
        BY <1>1, <2>3, <3>1, <3>2, <3>3 DEF IInv, TypeOK, OwnerHolds, Join
    <2>4. QED
      BY <2>2, <2>3 DEF OwnerHolds
  <1>7. RefsExact'
    <2> SUFFICES ASSUME NEW v \in Uids, userLocks'[v] # NoLock
                 PROVE  refs'[userLocks'[v]] = Cardinality(Sharers(lk', userLocks'[v]))
      BY DEF RefsExact, Sharers
    <2>1. CASE v = u
      <3>1. userLocks'[v] = l /\ refs'[l] = 1
        BY <1>1, <2>1 DEF IInv, TypeOK
      <3>2. Sharers(lk', l) = {g}
        <4>1. \A h \in Goroutines : lk'[h] = l <=> h = g
          BY <1>1 DEF IInv, TypeOK, Unreachable, Join
        <4>2. QED
          BY <4>1 DEF Sharers
      <3>3. Sharers(lk', userLocks'[v]) = {g}
        BY <3>1, <3>2 DEF Sharers
      <3>4. QED
        <4>1. Cardinality({g}) = 1
          BY FS_Singleton
        <4>2. QED
          BY <2>1, <3>1, <3>3, <4>1
    <2>2. CASE v # u
      <3>1. userLocks'[v] = userLocks[v] /\ userLocks[v] # l /\ userLocks[v] \in Locks
        BY <1>1, <2>2 DEF IInv, TypeOK, Unreachable
      <3>2. refs[userLocks[v]] = Cardinality(Sharers(lk, userLocks[v]))
        BY <3>1 DEF IInv, RefsExact, Sharers
      <3>3. Sharers(lk', userLocks[v]) = Sharers(lk, userLocks[v])
        BY <1>1, <1>2, <3>1 DEF IInv, TypeOK, Sharers, Join
      <3>4. refs'[userLocks[v]] = refs[userLocks[v]]
        BY <1>1, <3>1 DEF IInv, TypeOK
      <3>5. QED
        BY <3>1, <3>2, <3>3, <3>4 DEF Sharers
    <2>3. QED
      BY <2>1, <2>2
  <1>8. NoLeak'
    BY <1>1, <1>2 DEF IInv, TypeOK, NoLeak, Active, Join
  <1>9. QED
    BY <1>3, <1>4, <1>5, <1>6, <1>7, <1>8 DEF IInv

\* Locking and unlocking the mutex changes owner and pc together.
LEMMA AcquireIInv ==
    ASSUME IInv, NEW g \in Goroutines, Acquire(g)
    PROVE  IInv'
  <1>1. lk[g] \in Locks /\ uid[g] \in Uids /\ userLocks[uid[g]] = lk[g]
    BY DEF IInv, HoldsEntry, Active, Acquire
  <1>2. TypeOK'
    BY <1>1 DEF IInv, TypeOK, Acquire
  <1>3. HoldsEntry' /\ EntriesDistinct' /\ NoLeak'
    BY DEF IInv, TypeOK, HoldsEntry, EntriesDistinct, NoLeak, Active, Acquire
  <1>4. RefsExact'
    BY DEF IInv, RefsExact, Acquire
  <1>5. OwnerHolds'
    <2>1. \A h \in Goroutines : pc'[h] = "holding" => owner'[lk'[h]] = h
      BY <1>1, GoroutinesAssumption DEF IInv, TypeOK, HoldsEntry, OwnerHolds, Active, Acquire, Unlocked
    <2>2. ASSUME NEW v \in Uids, userLocks'[v] # NoLock, owner'[userLocks'[v]] # None
          PROVE  LET h == owner'[userLocks'[v]]
                 IN  pc'[h] = "holding" /\ lk'[h] = userLocks'[v]
      <3>1. userLocks[v] \in Locks
        BY <2>2 DEF IInv, TypeOK, Acquire
      <3>2. CASE userLocks[v] = lk[g]
        BY <1>1, <3>1, <3>2 DEF IInv, TypeOK, Acquire
      <3>3. CASE userLocks[v] # lk[g]
        <4>1. owner'[userLocks'[v]] = owner[userLocks[v]]
          BY <1>1, <3>1, <3>3 DEF IInv, TypeOK, Acquire
        <4>2. owner[userLocks[v]] # g /\ owner[userLocks[v]] \in Goroutines
          BY <2>2, <3>1, <4>1 DEF IInv, TypeOK, OwnerHolds, Acquire
        <4>3. QED
          BY <2>2, <4>1, <4>2 DEF IInv, TypeOK, OwnerHolds, Acquire
      <3>4. QED
        BY <3>2, <3>3
    <2>3. QED
      BY <2>1, <2>2 DEF OwnerHolds
  <1>6. QED
    BY <1>2, <1>3, <1>4, <1>5 DEF IInv

LEMMA UnlockIInv ==
    ASSUME IInv, NEW g \in Goroutines, Unlock(g)
    PROVE  IInv'
  <1>1. lk[g] \in Locks /\ uid[g] \in Uids /\ userLocks[uid[g]] = lk[g] /\ owner[lk[g]] = g
    BY DEF IInv, HoldsEntry, OwnerHolds, Active, Unlock
  <1>2. TypeOK'
    BY <1>1 DEF IInv, TypeOK, Unlock
  <1>3. HoldsEntry' /\ EntriesDistinct' /\ NoLeak'
    BY DEF IInv, TypeOK, HoldsEntry, EntriesDistinct, NoLeak, Active, Unlock
  <1>4. RefsExact'
    BY DEF IInv, RefsExact, Unlock
  <1>5. OwnerHolds'
    <2>1. \A h \in Goroutines : pc'[h] = "holding" => owner'[lk'[h]] = h
      BY <1>1 DEF IInv, TypeOK, HoldsEntry, OwnerHolds, Active, Unlock
    <2>2. ASSUME NEW v \in Uids, userLocks'[v] # NoLock, owner'[userLocks'[v]] # None
          PROVE  LET h == owner'[userLocks'[v]]
                 IN  pc'[h] = "holding" /\ lk'[h] = userLocks'[v]
      <3>1. userLocks[v] \in Locks /\ userLocks[v] # lk[g]
        BY <1>1, <2>2 DEF IInv, TypeOK, Unlock
      <3>2. owner'[userLocks'[v]] = owner[userLocks[v]]
        BY <1>1, <3>1 DEF IInv, TypeOK, Unlock
      <3>3. owner[userLocks[v]] # g /\ owner[userLocks[v]] \in Goroutines
        BY <2>2, <3>1, <3>2 DEF IInv, TypeOK, OwnerHolds, Unlock
      <3>4. QED
        BY <2>2, <3>2, <3>3 DEF IInv, TypeOK, OwnerHolds, Unlock
    <2>3. QED
      BY <2>1, <2>2 DEF OwnerHolds
  <1>6. QED
    BY <1>2, <1>3, <1>4, <1>5 DEF IInv

\* Counting out: the entry is deleted exactly when g is its last sharer, and
\* every goroutine in flight for the user shares it.
LEMMA ReleaseIInv ==
    ASSUME IInv, NEW g \in Goroutines, Release(g)
    PROVE  IInv'
  <1> DEFINE l == lk[g]
             u == uid[g]
  <1> USE LocksAssumption, UidsAssumption
  <1>1. l \in Locks /\ u \in Uids /\ userLocks[u] = l
    BY DEF IInv, HoldsEntry, Active, Release
  <1>2. IsFiniteSet(Sharers(lk, l)) /\ g \in Sharers(lk, l) /\ Cardinality(Sharers(lk, l)) \in Nat
    BY <1>1, SharersFinite DEF Sharers
  <1>3. refs[l] = Cardinality(Sharers(lk, l))
    BY <1>1 DEF IInv, RefsExact, Sharers
  <1>4. /\ IsFiniteSet(Sharers(lk, l) \ {g})
        /\ Cardinality(Sharers(lk, l) \ {g}) \in Nat
        /\ refs[l] - 1 = Cardinality(Sharers(lk, l) \ {g})
    <2>1. Cardinality(Sharers(lk, l) \ {g}) = Cardinality(Sharers(lk, l)) - 1
          /\ IsFiniteSet(Sharers(lk, l) \ {g})
      BY <1>2, FS_RemoveElement
    <2>2. QED
      BY <1>3, <2>1, FS_CardinalityType
  <1>5. Sharers(lk', l) = Sharers(lk, l) \ {g}
    BY <1>1 DEF IInv, TypeOK, Sharers, Release
  <1>6. refs'[l] \in Nat /\ refs'[l] = Cardinality(Sharers(lk', l))
    BY <1>1, <1>4, <1>5 DEF IInv, TypeOK, Release
  <1>7. \A h \in Goroutines : Active(h) /\ uid[h] = u => h \in Sharers(lk, l)
    BY <1>1 DEF IInv, HoldsEntry, Sharers
  <1>8. \A h \in Sharers(lk, l) : Active(h) /\ uid[h] = u
    BY <1>1 DEF IInv, TypeOK, HoldsEntry, EntriesDistinct, Sharers
  \* Either g was the last sharer and the entry goes, or it stays for another.
  <1>9. \/ userLocks' = [userLocks EXCEPT ![u] = NoLock] /\ Sharers(lk, l) = {g}
        \/ userLocks' = userLocks /\ \E h \in Sharers(lk, l) : h # g
    <2>1. CASE refs[l] - 1 <= 0
      <3>1. Cardinality(Sharers(lk, l) \ {g}) = 0
        BY <1>4, <2>1
      <3>2. Sharers(lk, l) \ {g} = {}
        BY <1>4, <3>1, FS_EmptySet
      <3>3. QED
        BY <1>1, <1>2, <2>1, <3>2 DEF Release, LastOut
    <2>2. CASE ~(refs[l] - 1 <= 0)
      <3>1. Sharers(lk, l) \ {g} # {}
        BY <1>4, <2>2, FS_EmptySet
      <3>2. QED
        BY <2>2, <3>1 DEF Release, LastOut
    <2>3. QED
      BY <2>1, <2>2
  <1>10. TypeOK'
    BY <1>1, <1>6, <1>9 DEF IInv, TypeOK, Release
  <1>11. HoldsEntry'
    <2> SUFFICES ASSUME NEW h \in Goroutines
                 PROVE  /\ Active(h)' => uid'[h] \in Uids /\ lk'[h] \in Locks
                                           /\ userLocks'[uid'[h]] = lk'[h]
                        /\ ~Active(h)' => lk'[h] = NoLock /\ uid'[h] = NoUid
      BY DEF HoldsEntry, Active
    <2>1. CASE h = g
      BY <2>1 DEF IInv, TypeOK, Active, Release
    <2>2. CASE h # g
      <3>1. pc'[h] = pc[h] /\ lk'[h] = lk[h] /\ uid'[h] = uid[h]
        BY <2>2 DEF IInv, TypeOK, Release
      <3>2. Active(h) => userLocks'[uid[h]] = userLocks[uid[h]]
        BY <1>1, <1>7, <1>9, <2>2 DEF IInv, TypeOK, HoldsEntry
      <3>3. QED
        BY <3>1, <3>2 DEF IInv, HoldsEntry, Active
    <2>3. QED
      BY <2>1, <2>2
  <1>12. EntriesDistinct'
    BY <1>1, <1>9 DEF IInv, TypeOK, EntriesDistinct
  <1>13. OwnerHolds'
    BY <1>1, <1>9 DEF IInv, TypeOK, OwnerHolds, Release
  <1>14. RefsExact'
    <2> SUFFICES ASSUME NEW v \in Uids, userLocks'[v] # NoLock
                 PROVE  refs'[userLocks'[v]] = Cardinality(Sharers(lk', userLocks'[v]))
      BY DEF RefsExact
    <2>1. userLocks'[v] = userLocks[v] /\ userLocks[v] \in Locks
      BY <1>1, <1>9 DEF IInv, TypeOK
    <2>2. CASE v = u
      BY <1>1, <1>6, <2>1, <2>2
    <2>3. CASE v # u
      <3>1. userLocks[v] # l
        BY <1>1, <2>1, <2>3 DEF IInv, EntriesDistinct
      <3>2. Sharers(lk', userLocks[v]) = Sharers(lk, userLocks[v])
        BY <2>1, <3>1 DEF IInv, TypeOK, Sharers, Release
      <3>3. refs'[userLocks[v]] = refs[userLocks[v]]
        BY <2>1, <3>1 DEF IInv, TypeOK, Release
      <3>4. QED
        BY <2>1, <3>2, <3>3 DEF IInv, RefsExact
    <2>4. QED
      BY <2>2, <2>3
  <1>15. NoLeak'
    <2> SUFFICES ASSUME NEW v \in Uids, userLocks'[v] # NoLock
                 PROVE  \E h \in Goroutines : pc'[h] # "idle" /\ uid'[h] = v
      BY DEF NoLeak, Active
    <2>1. userLocks'[v] = userLocks[v]
      BY <1>1, <1>9 DEF IInv, TypeOK
    <2>2. \E h \in Goroutines : h # g /\ Active(h) /\ uid[h] = v
      <3>1. CASE v = u
        BY <1>1, <1>8, <1>9, <2>1, <3>1 DEF IInv, TypeOK, Sharers
      <3>2. CASE v # u
        BY <2>1, <3>2 DEF IInv, NoLeak
      <3>3. QED
        BY <3>1, <3>2
    <2>3. QED
      BY <2>2 DEF IInv, TypeOK, Active, Release
  <1>16. QED
    BY <1>10, <1>11, <1>12, <1>13, <1>14, <1>15 DEF IInv

\* IInv is inductive.
LEMMA NextIInv == IInv /\ [Next]_vars => IInv'
  <1> SUFFICES ASSUME IInv, [Next]_vars PROVE IInv'
    OBVIOUS
  <1>1. ASSUME NEW g \in Goroutines, NEW u \in Uids, RegisterExisting(g, u) PROVE IInv'
    BY <1>1, RegisterExistingIInv
  <1>2. ASSUME NEW g \in Goroutines, NEW u \in Uids, RegisterNew(g, u) PROVE IInv'
    BY <1>2, RegisterNewIInv
  <1>3. ASSUME NEW g \in Goroutines, Acquire(g) PROVE IInv'
    BY <1>3, AcquireIInv
  <1>4. ASSUME NEW g \in Goroutines, Unlock(g) PROVE IInv'
    BY <1>4, UnlockIInv
  <1>5. ASSUME NEW g \in Goroutines, Release(g) PROVE IInv'
    BY <1>5, ReleaseIInv
  <1>6. CASE UNCHANGED vars
    BY <1>6 DEF vars, IInv, TypeOK, HoldsEntry, EntriesDistinct, OwnerHolds,
        RefsExact, Sharers, NoLeak, Active
  <1>7. QED
    BY <1>1, <1>2, <1>3, <1>4, <1>5, <1>6 DEF Next

\* Every reachable state satisfies IInv: the map entry, the mutex, the count
\* and the goroutines of a user agree (lockUser, service.go:91-116).
THEOREM LocksInvariant == Spec => []IInv
  BY InitIInv, NextIInv, PTL DEF Spec

\* Types of the map, the locks and the locals of lockUser (service.go:93-116).
THEOREM LocksTypes == Spec => []TypeOK
  <1>1. IInv => TypeOK
    BY DEF IInv
  <1>2. QED
    BY LocksInvariant, <1>1, PTL

\* The reference count of a reachable lock is the number of goroutines between
\* their two sections under lockMu (service.go:98, 108).
THEOREM LocksRefsExact == Spec => []RefsExact
  <1>1. IInv => RefsExact
    BY DEF IInv
  <1>2. QED
    BY LocksInvariant, <1>1, PTL

\* Two callers are never both inside lockUser(u) .. unlock.
THEOREM LocksMutualExclusion == Spec => []MutualExclusion
  <1>1. IInv => MutualExclusion
    BY DEF IInv, HoldsEntry, OwnerHolds, MutualExclusion, Active
  <1>2. QED
    BY <1>1, LocksInvariant, PTL

\* The map holds no entry without a caller in flight for its user.
THEOREM LocksNoLeak == Spec => []NoLeak
  <1>1. IInv => NoLeak
    BY DEF IInv
  <1>2. QED
    BY <1>1, LocksInvariant, PTL

\* The abstract holder of u is the one goroutine inside u's section.
HolderInside ==
    /\ \A g \in Goroutines : pc[g] = "holding" => HolderOf(uid[g]) = g
    /\ \A u \in Uids :
          (\A g \in Goroutines : ~(pc[g] = "holding" /\ uid[g] = u)) => HolderOf(u) = None

LEMMA HolderIsInside == IInv => HolderInside
  <1> SUFFICES ASSUME IInv PROVE HolderInside
    OBVIOUS
  <1>1. ASSUME NEW g \in Goroutines, pc[g] = "holding"
        PROVE  HolderOf(uid[g]) = g
    <2>1. {h \in Goroutines : pc[h] = "holding" /\ uid[h] = uid[g]} = {g}
      BY <1>1 DEF IInv, HoldsEntry, OwnerHolds, Active
    <2>2. (CHOOSE h \in {g} : TRUE) = g
      OBVIOUS
    <2>3. QED
      BY <2>1, <2>2 DEF HolderOf
  <1>2. ASSUME NEW u \in Uids, \A g \in Goroutines : ~(pc[g] = "holding" /\ uid[g] = u)
        PROVE  HolderOf(u) = None
    <2>1. {h \in Goroutines : pc[h] = "holding" /\ uid[h] = u} = {}
      BY <1>2
    <2>2. QED
      BY <2>1 DEF HolderOf
  <1>3. QED
    BY <1>1, <1>2 DEF HolderInside

\* Steps that let nobody in or out leave the abstract holder of u unchanged.
LEMMA HolderUnchanged ==
    ASSUME HolderInside, HolderInside', NEW u \in Uids,
           \A g \in Goroutines :
              (pc[g] = "holding" /\ uid[g] = u) <=> (pc'[g] = "holding" /\ uid'[g] = u)
    PROVE  HolderOf(u)' = HolderOf(u)
  <1>1. CASE \E g \in Goroutines : pc[g] = "holding" /\ uid[g] = u
    <2>1. PICK g \in Goroutines : pc[g] = "holding" /\ uid[g] = u
      BY <1>1
    <2>2. HolderOf(u) = g
      BY <2>1 DEF HolderInside
    <2>3. pc'[g] = "holding" /\ uid'[g] = u
      BY <2>1
    <2>4. HolderOf(u)' = g
      BY <2>3 DEF HolderInside
    <2>5. QED
      BY <2>2, <2>4
  <1>2. CASE \A g \in Goroutines : ~(pc[g] = "holding" /\ uid[g] = u)
    <2>1. HolderOf(u) = None
      BY <1>2 DEF HolderInside
    <2>2. \A g \in Goroutines : ~(pc'[g] = "holding" /\ uid'[g] = u)
      BY <1>2
    <2>3. HolderOf(u)' = None
      BY <2>2 DEF HolderInside
    <2>4. QED
      BY <2>1, <2>3
  <1>3. QED
    BY <1>1, <1>2

\* Counting in is a Request.
LEMMA RegisterRequests ==
    ASSUME IInv, HolderInside, HolderInside', NEW g \in Goroutines, NEW u \in Uids,
           RegisterExisting(g, u) \/ RegisterNew(g, u)
    PROVE  Mutex!Request(g, u)
  <1>1. /\ pc[g] = "idle"
        /\ pc' = [pc EXCEPT ![g] = "waiting"]
        /\ uid' = [uid EXCEPT ![g] = u]
        /\ pc \in [Goroutines -> {"idle", "waiting", "holding", "releasing"}]
        /\ uid \in [Goroutines -> Uids \cup {NoUid}]
    BY DEF RegisterExisting, RegisterNew, Join, IInv, TypeOK
  <1>2. \A h \in Goroutines : WaitingFor(h)' = IF h = g THEN u ELSE WaitingFor(h)
    BY <1>1 DEF WaitingFor
  <1>3. WaitingFor(g) = NoUid
    BY <1>1 DEF WaitingFor
  <1>4. \A v \in Uids : HolderOf(v)' = HolderOf(v)
    <2> TAKE v \in Uids
    <2>1. \A h \in Goroutines :
             (pc[h] = "holding" /\ uid[h] = v) <=> (pc'[h] = "holding" /\ uid'[h] = v)
      BY <1>1
    <2>2. QED
      BY <2>1, HolderUnchanged
  <1>5. \A v \in Uids : HolderOf(v) # g
    <2> TAKE v \in Uids
    <2>1. CASE \E h \in Goroutines : pc[h] = "holding" /\ uid[h] = v
      BY <1>1, <2>1 DEF HolderInside
    <2>2. CASE \A h \in Goroutines : ~(pc[h] = "holding" /\ uid[h] = v)
      BY <2>2, GoroutinesAssumption DEF HolderInside
    <2>3. QED
      BY <2>1, <2>2
  <1>6. QED
    BY <1>2, <1>3, <1>4, <1>5 DEF Mutex!Request

\* Locking the mutex is an Enter.
LEMMA AcquireEnters ==
    ASSUME IInv, HolderInside, HolderInside', NEW g \in Goroutines, Acquire(g)
    PROVE  Mutex!Enter(g)
  <1> DEFINE u == uid[g]
  <1>1. /\ pc[g] = "waiting" /\ u \in Uids /\ userLocks[u] = lk[g] /\ owner[lk[g]] = None
        /\ pc' = [pc EXCEPT ![g] = "holding"] /\ uid' = uid
        /\ pc \in [Goroutines -> {"idle", "waiting", "holding", "releasing"}]
    BY DEF Acquire, Unlocked, IInv, TypeOK, HoldsEntry, Active
  <1>2. \A h \in Goroutines : WaitingFor(h)' = IF h = g THEN NoUid ELSE WaitingFor(h)
    BY <1>1 DEF WaitingFor
  <1>3. WaitingFor(g) = u /\ u # NoUid
    BY <1>1, UidsAssumption DEF WaitingFor
  <1>4. \A h \in Goroutines : ~(pc[h] = "holding" /\ uid[h] = u)
    BY <1>1, GoroutinesAssumption DEF IInv, HoldsEntry, OwnerHolds, Active
  <1>5. HolderOf(u) = None
    BY <1>1, <1>4 DEF HolderInside
  <1>6. \A v \in Uids : HolderOf(v)' = IF v = u THEN g ELSE HolderOf(v)
    <2> TAKE v \in Uids
    <2>1. CASE v = u
      <3>1. pc'[g] = "holding" /\ uid'[g] = v
        BY <1>1, <2>1
      <3>2. HolderOf(v)' = g
        BY <3>1 DEF HolderInside
      <3>3. QED
        BY <2>1, <3>2
    <2>2. CASE v # u
      <3>1. \A h \in Goroutines :
               (pc[h] = "holding" /\ uid[h] = v) <=> (pc'[h] = "holding" /\ uid'[h] = v)
        BY <1>1, <2>2
      <3>2. QED
        BY <2>2, <3>1, HolderUnchanged
    <2>3. QED
      BY <2>1, <2>2
  <1>7. QED
    BY <1>1, <1>2, <1>3, <1>5, <1>6 DEF Mutex!Enter, Mutex!MayEnter

\* Unlocking the mutex is a Leave.
LEMMA UnlockLeaves ==
    ASSUME IInv, HolderInside, HolderInside', NEW g \in Goroutines, Unlock(g)
    PROVE  uid[g] \in Uids /\ Mutex!Leave(g, uid[g])
  <1> DEFINE u == uid[g]
  <1>1. /\ pc[g] = "holding" /\ u \in Uids
        /\ pc' = [pc EXCEPT ![g] = "releasing"] /\ uid' = uid
        /\ pc \in [Goroutines -> {"idle", "waiting", "holding", "releasing"}]
    BY DEF Unlock, IInv, TypeOK, HoldsEntry, Active
  <1>2. \A h \in Goroutines : WaitingFor(h)' = WaitingFor(h)
    BY <1>1 DEF WaitingFor
  <1>3. HolderOf(u) = g
    BY <1>1 DEF HolderInside
  <1>4. \A v \in Uids : HolderOf(v)' = IF v = u THEN None ELSE HolderOf(v)
    <2> TAKE v \in Uids
    <2>1. CASE v = u
      <3>1. \A h \in Goroutines : pc[h] = "holding" /\ uid[h] = u => h = g
        BY <1>1 DEF IInv, HoldsEntry, OwnerHolds, Active
      <3>2. \A h \in Goroutines : ~(pc'[h] = "holding" /\ uid'[h] = v)
        BY <1>1, <2>1, <3>1
      <3>3. HolderOf(v)' = None
        BY <3>2 DEF HolderInside
      <3>4. QED
        BY <2>1, <3>3
    <2>2. CASE v # u
      <3>1. \A h \in Goroutines :
               (pc[h] = "holding" /\ uid[h] = v) <=> (pc'[h] = "holding" /\ uid'[h] = v)
        BY <1>1, <2>2
      <3>2. QED
        BY <2>2, <3>1, HolderUnchanged
    <2>3. QED
      BY <2>1, <2>2
  <1>5. QED
    BY <1>1, <1>2, <1>3, <1>4 DEF Mutex!Leave

\* Counting out cannot be seen.
LEMMA ReleaseStutters ==
    ASSUME IInv, HolderInside, HolderInside', NEW g \in Goroutines, Release(g)
    PROVE  UNCHANGED Mutex!mutexVars
  <1>1. /\ pc[g] = "releasing"
        /\ pc' = [pc EXCEPT ![g] = "idle"]
        /\ uid' = [uid EXCEPT ![g] = NoUid]
        /\ pc \in [Goroutines -> {"idle", "waiting", "holding", "releasing"}]
        /\ uid \in [Goroutines -> Uids \cup {NoUid}]
    BY DEF Release, IInv, TypeOK
  <1>2. \A h \in Goroutines : WaitingFor(h)' = WaitingFor(h)
    BY <1>1 DEF WaitingFor
  <1>3. \A v \in Uids : HolderOf(v)' = HolderOf(v)
    <2> TAKE v \in Uids
    <2>1. \A h \in Goroutines :
             (pc[h] = "holding" /\ uid[h] = v) <=> (pc'[h] = "holding" /\ uid'[h] = v)
      BY <1>1
    <2>2. QED
      BY <2>1, HolderUnchanged
  <1>4. QED
    BY <1>2, <1>3 DEF Mutex!mutexVars

\* lockUser implements the abstract per-user mutex: initial states map to
\* initial states, and every step maps to a step of the mutex or to none.
THEOREM LocksImplementMutex == Spec => MutexSteps
  <1>1. Init => Mutex!MutexInit
    BY DEF Init, Mutex!MutexInit, HolderOf, WaitingFor
  <1>2. IInv /\ HolderInside /\ HolderInside' /\ [Next]_vars
            => [Mutex!MutexNext]_(Mutex!mutexVars)
    <2> SUFFICES ASSUME IInv, HolderInside, HolderInside', [Next]_vars
                 PROVE  Mutex!MutexNext \/ UNCHANGED Mutex!mutexVars
      OBVIOUS
    <2>1. ASSUME NEW g \in Goroutines, NEW u \in Uids,
                 RegisterExisting(g, u) \/ RegisterNew(g, u)
          PROVE  Mutex!MutexNext
      BY <2>1, RegisterRequests DEF Mutex!MutexNext
    <2>2. ASSUME NEW g \in Goroutines, Acquire(g)
          PROVE  Mutex!MutexNext
      BY <2>2, AcquireEnters DEF Mutex!MutexNext
    <2>3. ASSUME NEW g \in Goroutines, Unlock(g)
          PROVE  Mutex!MutexNext
      BY <2>3, UnlockLeaves DEF Mutex!MutexNext
    <2>4. ASSUME NEW g \in Goroutines, Release(g)
          PROVE  UNCHANGED Mutex!mutexVars
      BY <2>4, ReleaseStutters
    <2>5. CASE UNCHANGED vars
      BY <2>5 DEF vars, Mutex!mutexVars, HolderOf, WaitingFor
    <2>6. QED
      BY <2>1, <2>2, <2>3, <2>4, <2>5 DEF Next
  <1>3. Spec => []IInv
    BY LocksInvariant
  <1>4. QED
    BY <1>1, <1>2, <1>3, HolderIsInside, PTL DEF Spec, MutexSteps
=============================================================================
