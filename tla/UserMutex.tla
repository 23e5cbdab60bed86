----------------------------- MODULE UserMutex -----------------------------
(***************************************************************************)
(* What Service.lockUser promises its callers: one mutual-exclusion lock   *)
(* per user id, whatever the bookkeeping that implements it.  UserLocks    *)
(* implements this module; UserSync is written against it.                 *)
(***************************************************************************)
CONSTANTS Goroutines,  \* the goroutines that apply user data
          Uids,        \* user ids
          Free,        \* "nobody holds the lock"
          NoUid        \* "waits for no lock"

VARIABLES holder,      \* holder[u]: the goroutine inside u's critical section
          waiting      \* waiting[g]: the user id whose lock g is waiting for

mutexVars == <<holder, waiting>>

MutexTypeOK ==
    /\ holder \in [Uids -> Goroutines \cup {Free}]
    /\ waiting \in [Goroutines -> Uids \cup {NoUid}]

MutexInit ==
    /\ holder = [u \in Uids |-> Free]
    /\ waiting = [g \in Goroutines |-> NoUid]

\* g calls lockUser(u): it has joined the lock and may have to wait.
Request(g, u) ==
    /\ waiting[g] = NoUid
    /\ \A v \in Uids : holder[v] # g
    /\ waiting' = [waiting EXCEPT ![g] = u]
    /\ UNCHANGED holder

\* Faulty variant: the lock does not keep the second caller out.
MayEnterAnyTime(g) == waiting[g] # NoUid
MayEnter(g) == waiting[g] # NoUid /\ holder[waiting[g]] = Free

\* lockUser returns: g is the only goroutine inside the section of its user.
Enter(g) ==
    /\ MayEnter(g)
    /\ holder' = [holder EXCEPT ![waiting[g]] = g]
    /\ waiting' = [waiting EXCEPT ![g] = NoUid]

\* g calls the unlock function of u.
Leave(g, u) ==
    /\ holder[u] = g
    /\ holder' = [holder EXCEPT ![u] = Free]
    /\ UNCHANGED waiting

MutexNext ==
    \E g \in Goroutines :
        \/ \E u \in Uids : Request(g, u) \/ Leave(g, u)
        \/ Enter(g)

\* A caller that is let in leaves again, and a caller that finds the lock
\* free again and again is let in: sync.Mutex hands the lock over to a waiter
\* that has been passed over for 1 ms (its starvation mode).
MutexSpec ==
    /\ MutexInit /\ [][MutexNext]_mutexVars
    /\ \A g \in Goroutines :
        /\ SF_mutexVars(Enter(g))
        /\ WF_mutexVars(\E u \in Uids : Leave(g, u))
=============================================================================
