----------------------------- MODULE UserLocks -----------------------------
(***************************************************************************)
(* Service.lockUser: a map from user id to a reference-counted mutex.  The *)
(* entry of a user is created by the first caller and deleted by the last  *)
(* one to leave, so the map stays as small as the set of users in flight.  *)
(* The two sections under lockMu are atomic steps; lk.mu.Lock and          *)
(* lk.mu.Unlock lie outside them.                                          *)
(***************************************************************************)
EXTENDS Integers, FiniteSets

CONSTANTS Goroutines,  \* the callers
          Uids,        \* user ids
          Locks,       \* addresses of userLockState objects
          NoLock,      \* a missing map entry, or no local lk
          None,        \* an unlocked sync.Mutex
          NoUid        \* a goroutine outside lockUser

ASSUME GoroutinesAssumption == IsFiniteSet(Goroutines) /\ None \notin Goroutines
ASSUME LocksAssumption == NoLock \notin Locks
ASSUME UidsAssumption == NoUid \notin Uids

VARIABLES userLocks,   \* Service.userLocks
          refs,        \* refs[l]: the field lk.refs
          owner,       \* owner[l]: who has locked lk.mu
          pc,          \* where each goroutine is in lockUser / unlock
          lk,          \* the local variable lk
          uid          \* the parameter uid

vars == <<userLocks, refs, owner, pc, lk, uid>>

TypeOK ==
    /\ userLocks \in [Uids -> Locks \cup {NoLock}]
    /\ refs \in [Locks -> Nat]
    /\ owner \in [Locks -> Goroutines \cup {None}]
    /\ pc \in [Goroutines -> {"idle", "waiting", "holding", "releasing"}]
    /\ lk \in [Goroutines -> Locks \cup {NoLock}]
    /\ uid \in [Goroutines -> Uids \cup {NoUid}]

Init ==
    /\ userLocks = [u \in Uids |-> NoLock]
    /\ refs = [l \in Locks |-> 0]
    /\ owner = [l \in Locks |-> None]
    /\ pc = [g \in Goroutines |-> "idle"]
    /\ lk = [g \in Goroutines |-> NoLock]
    /\ uid = [g \in Goroutines |-> NoUid]

\* An address the allocator may return: nothing refers to it any more.
Unreachable(l) ==
    /\ \A u \in Uids : userLocks[u] # l
    /\ \A g \in Goroutines : lk[g] # l

Join(g, u, l) ==
    /\ pc' = [pc EXCEPT ![g] = "waiting"]
    /\ lk' = [lk EXCEPT ![g] = l]
    /\ uid' = [uid EXCEPT ![g] = u]

\* lk.refs++.  Faulty variant: a caller that finds the entry is not counted in.
CountInForgotten(l) == refs
CountIn(l) == [refs EXCEPT ![l] = @ + 1]

\* First section under lockMu: find the user's lock, or allocate one with an
\* unlocked mutex, and count the caller in.
RegisterExisting(g, u) ==
    /\ pc[g] = "idle"
    /\ userLocks[u] # NoLock
    /\ refs' = CountIn(userLocks[u])
    /\ Join(g, u, userLocks[u])
    /\ UNCHANGED <<userLocks, owner>>

RegisterNew(g, u) ==
    /\ pc[g] = "idle"
    /\ userLocks[u] = NoLock
    /\ \E l \in Locks :
        /\ Unreachable(l)
        /\ userLocks' = [userLocks EXCEPT ![u] = l]
        /\ refs' = [refs EXCEPT ![l] = 1]
        /\ owner' = [owner EXCEPT ![l] = None]
        /\ Join(g, u, l)

\* lk.mu.Lock() returns.  Faulty variant: only for a caller who is alone.
UnlockedAndAlone(l) == owner[l] = None /\ refs[l] = 1
Unlocked(l) == owner[l] = None

Acquire(g) ==
    /\ pc[g] = "waiting"
    /\ Unlocked(lk[g])
    /\ owner' = [owner EXCEPT ![lk[g]] = g]
    /\ pc' = [pc EXCEPT ![g] = "holding"]
    /\ UNCHANGED <<userLocks, refs, lk, uid>>

\* lk.mu.Unlock(), the first statement of the returned function.
Unlock(g) ==
    /\ pc[g] = "holding"
    /\ owner' = [owner EXCEPT ![lk[g]] = None]
    /\ pc' = [pc EXCEPT ![g] = "releasing"]
    /\ UNCHANGED <<userLocks, refs, lk, uid>>

\* lk.refs <= 0 after the decrement.  Faulty variants: always, never.
LastOutAlways(l) == TRUE
LastOutNever(l) == FALSE
LastOut(l) == refs[l] - 1 <= 0

\* Second section under lockMu: count the caller out; the last one deletes
\* the entry if the map still points to this lock.
Release(g) ==
    /\ pc[g] = "releasing"
    /\ refs' = [refs EXCEPT ![lk[g]] = @ - 1]
    /\ userLocks' = IF LastOut(lk[g]) /\ userLocks[uid[g]] = lk[g]
                    THEN [userLocks EXCEPT ![uid[g]] = NoLock]
                    ELSE userLocks
    /\ pc' = [pc EXCEPT ![g] = "idle"]
    /\ lk' = [lk EXCEPT ![g] = NoLock]
    /\ uid' = [uid EXCEPT ![g] = NoUid]
    /\ UNCHANGED owner

Next ==
    \E g \in Goroutines :
        \/ \E u \in Uids : RegisterExisting(g, u) \/ RegisterNew(g, u)
        \/ Acquire(g)
        \/ Unlock(g)
        \/ Release(g)

\* A goroutine inside lockUser or unlock keeps running, the critical sections
\* of the callers are finite, and sync.Mutex does not starve a waiter.
Fairness ==
    \A g \in Goroutines :
        /\ SF_vars(Acquire(g))
        /\ WF_vars(Unlock(g))
        /\ WF_vars(Release(g))

Spec == Init /\ [][Next]_vars

FairSpec == Spec /\ Fairness

-----------------------------------------------------------------------------
(* Properties *)

Active(g) == pc[g] # "idle"

\* Two goroutines are never both between lockUser(u) and its unlock, even when
\* the entry of u was deleted and created anew while one of them waited
\* (lockUser, service.go:91-116).
MutualExclusion ==
    \A g, h \in Goroutines :
        pc[g] = "holding" /\ pc[h] = "holding" /\ uid[g] = uid[h] => g = h

\* The goroutines whose local lk is l.
Sharers(locals, l) == {g \in Goroutines : locals[g] = l}

\* The reference count of a lock that the map or a goroutine can reach is the
\* number of goroutines between their two sections under lockMu.
RefsExact ==
    \A u \in Uids :
        userLocks[u] # NoLock =>
            refs[userLocks[u]] = Cardinality(Sharers(lk, userLocks[u]))

\* The map never leaks: an entry stands for a goroutine in flight for that
\* user, which is what both tests of service_lock_test.go look for (an empty
\* map once every unlock function has returned).
NoLeak ==
    \A u \in Uids :
        userLocks[u] # NoLock => \E g \in Goroutines : Active(g) /\ uid[g] = u

\* lockUser implements one mutex per user.
HolderOf(u) ==
    LET inside == {g \in Goroutines : pc[g] = "holding" /\ uid[g] = u}
    IN  IF inside = {} THEN None ELSE CHOOSE g \in inside : TRUE

WaitingFor(g) == IF pc[g] = "waiting" THEN uid[g] ELSE NoUid

Mutex == INSTANCE UserMutex WITH
            Free    <- None,
            holder  <- [u \in Uids |-> HolderOf(u)],
            waiting <- [g \in Goroutines |-> WaitingFor(g)]

\* Every step of lockUser is a step of the abstract per-user mutex or leaves it
\* unchanged: counting in and out and deleting entries cannot be seen outside.
MutexSteps == Mutex!MutexInit /\ [][Mutex!MutexNext]_(Mutex!mutexVars)

\* The same with fairness: lockUser behaves as the abstract per-user mutex, which
\* lets every caller in at last (service.go:91-116).
ImplementsMutex == Mutex!MutexSpec

-----------------------------------------------------------------------------
(* The inductive invariant behind them *)

\* What a goroutine in flight for u holds is the entry of u.
HoldsEntry ==
    \A g \in Goroutines :
        /\ Active(g) => uid[g] \in Uids /\ lk[g] \in Locks /\ userLocks[uid[g]] = lk[g]
        /\ ~Active(g) => lk[g] = NoLock /\ uid[g] = NoUid

\* No two users share a lock.
EntriesDistinct ==
    \A u, v \in Uids : userLocks[u] = userLocks[v] /\ userLocks[u] # NoLock => u = v

\* The mutex of a lock in the map is owned by the goroutine holding it.
OwnerHolds ==
    /\ \A g \in Goroutines : pc[g] = "holding" => owner[lk[g]] = g
    /\ \A u \in Uids : userLocks[u] # NoLock /\ owner[userLocks[u]] # None =>
        LET g == owner[userLocks[u]] IN pc[g] = "holding" /\ lk[g] = userLocks[u]

IInv ==
    /\ TypeOK
    /\ HoldsEntry
    /\ EntriesDistinct
    /\ OwnerHolds
    /\ RefsExact
    /\ NoLeak
=============================================================================
