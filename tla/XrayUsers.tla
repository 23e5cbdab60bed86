----------------------------- MODULE XrayUsers -----------------------------
(***************************************************************************)
(* The users of the Xray core: calls of the service and the worker that    *)
(* gives a new core the users of the storage share one API client, with a  *)
(* semaphore and one connection; restarts replace the core and the client  *)
(* (their own steps are in XrayBackend).  One inbound stands for each.     *)
(***************************************************************************)
EXTENDS FiniteSets, Naturals

CONSTANTS Users,
          Callers,      \* the users that the service gets messages about
          Worker,       \* the repopulate goroutine
          NoUser,
          Slots,        \* the values of apiMaxConcurrent that are considered
          Tries,        \* attempts of AddUser and RemoveUser (Retry)
          Rounds        \* attempts of the worker (Retry)

ASSUME ActorsAssumption == Callers \subseteq Users /\ Worker \notin Users /\ NoUser \notin Users
ASSUME RetryAssumption == {Tries, Rounds} \cup Slots \subseteq Nat \ {0}

Actors == Callers \cup {Worker}

VARIABLES
    store, coreUsers,       \* who the storage, and the core, has on the inbound
    core, life,             \* the core is up; where Restart is
    slots,                  \* the size of the semaphore, which never changes
    conn,                   \* API.conn: "none", "open", or "broken"
    at, what, tries,        \* each call: where it is, AddUser or RemoveUser, its attempt
    old,                    \* calls whose client a Stop has taken away and closed
    holds,                  \* each call's connection: is it the one of API.connGen?
    worker, cancelled,      \* the worker and its context
    todo, job, bad, round,  \* users yet to add, the one at hand, errors, Retry's attempt
    \* history, read by the properties only
    doubtful,               \* users of whom the core did what it was asked, and no call learnt it
    missed,                 \* users whose success was recorded after the worker had listed
    revived,                \* users the worker added when their removal had succeeded
    left                    \* the core has no worker of its own, or that one had errors

coreVars == <<coreUsers, core, life>>
callVars == <<at, what, tries, old, holds>>
workerVars == <<worker, cancelled, todo, job, bad, round, left>>
userHistory == <<doubtful, missed, revived>>
vars == <<store, slots, coreUsers, core, life, conn, at, what, tries, old, holds, worker, cancelled,
          todo, job, bad, round, doubtful, missed, revived, left>>

TypeOK ==
    /\ {store, coreUsers, todo, doubtful, missed, revived} \subseteq SUBSET Users
    /\ {core, cancelled, bad, left} \subseteq BOOLEAN
    /\ slots \in Slots
    /\ life \in {"serving", "draining", "down"}
    /\ conn \in {"none", "open", "broken"}
    /\ at \in [Actors -> {"idle", "sem", "connect", "rpc", "record"}]
    /\ what \in [Actors -> {"add", "remove"}]
    /\ tries \in [Actors -> 1..Tries]
    /\ old \subseteq Actors /\ holds \subseteq Actors
    /\ worker \in {"off", "list", "work"}
    /\ job \in Users \cup {NoUser} /\ round \in 1..Rounds

\* A restart has just ended; the storage has the users that no message will be
\* about.
Init ==
    /\ store = Users \ Callers /\ slots \in Slots /\ coreUsers = {}
    /\ core = TRUE /\ life = "serving" /\ conn = "none"
    /\ at = [a \in Actors |-> "idle"] /\ what = [a \in Actors |-> "add"]
    /\ tries = [a \in Actors |-> 1]
    /\ old = {} /\ holds = {}
    /\ worker = "list" /\ cancelled = FALSE
    /\ todo = {} /\ job = NoUser /\ bad = FALSE /\ round = 1
    /\ doubtful = {} /\ missed = {} /\ revived = {} /\ left = FALSE

Target(a) == IF a = Worker THEN job ELSE a

-----------------------------------------------------------------------------
(* One call of the API: the semaphore, the connection, the request *)

\* The worker joins the errors of all users.  Faulty variant: it has that of
\* the last one.
LastError(failed) == failed
AnyError(failed) == bad \/ failed

\* Call a leaves the client with an error.  Retry tries once more, on the same
\* client, or gives up.
TryAgain(a) ==
    /\ at' = [at EXCEPT ![a] = "sem"] /\ tries' = [tries EXCEPT ![a] = @ + 1]
    /\ UNCHANGED <<what, old, bad, job>>

GiveUp(a) ==
    /\ at' = [at EXCEPT ![a] = "idle"] /\ tries' = [tries EXCEPT ![a] = 1]
    /\ old' = old \ {a}
    /\ IF a = Worker
       THEN bad' = AnyError(TRUE) /\ job' = NoUser
       ELSE UNCHANGED <<bad, job>>
    /\ what' = [what EXCEPT ![a] = "add"]

\* Faulty variant: one attempt more.
OneTooMany(a) == tries[a] <= Tries
TriesLeft(a) == tries[a] < Tries

Failed(a) == IF TriesLeft(a) /\ ~(a = Worker /\ cancelled) THEN TryAgain(a) ELSE GiveUp(a)

Succeeded(a) ==
    /\ at' = [at EXCEPT ![a] = IF a = Worker THEN "idle" ELSE "record"]
    /\ job' = IF a = Worker THEN NoUser ELSE job
    /\ bad' = IF a = Worker THEN AnyError(FALSE) ELSE bad
    /\ tries' = [tries EXCEPT ![a] = 1] /\ old' = old \ {a}
    /\ UNCHANGED what

\* A client that is closed has no one who waits for its semaphore but those
\* whose calls are bound to fail.
Acquire(a) ==
    /\ at[a] = "sem"
    /\ a \in old \/ Cardinality({b \in Actors \ old : at[b] \in {"connect", "rpc"}}) < slots
    /\ at' = [at EXCEPT ![a] = "connect"]
    /\ UNCHANGED <<store, slots, coreVars, conn, what, tries, old, holds, workerVars, userHistory>>

\* The context of the call, or of the worker, ends while it waits for the
\* semaphore; or, after an attempt that failed, for the next one.
Expire(a) ==
    /\ at[a] = "sem" /\ (a = Worker => cancelled)
    /\ GiveUp(a)
    /\ UNCHANGED <<store, slots, coreVars, conn, holds, worker, cancelled, todo, round, left,
                   userHistory>>

\* The connection there is, or a new one; nobody listens where the port is an
\* old core's.
Connect(a) ==
    /\ at[a] = "connect"
    /\ \/ /\ a \notin old /\ (conn # "none" \/ core)
          /\ conn' = IF conn = "none" THEN "open" ELSE conn
          /\ at' = [at EXCEPT ![a] = "rpc"] /\ holds' = holds \cup {a}
          /\ UNCHANGED <<what, tries, old, bad, job>>
       \/ /\ a \in old \/ (conn = "none" /\ ~core)
          /\ Failed(a) /\ UNCHANGED <<conn, holds>>
    /\ UNCHANGED <<store, slots, coreVars, worker, cancelled, todo, round, left, userHistory>>

\* The removal of u has succeeded, and is recorded or is about to be.
Removed(u) == u \notin store \/ (u \in Callers /\ at[u] = "record" /\ what[u] = "remove")

\* The core does what it is asked; that the user is there already, or not
\* there, is no error.  The answer may be lost.  A connection that has lost its
\* transport may have got a new one from gRPC.
Perform(a) ==
    /\ at[a] = "rpc" /\ a \notin old /\ a \in holds /\ core
    /\ coreUsers' = IF what[a] = "add" THEN coreUsers \cup {Target(a)} ELSE coreUsers \ {Target(a)}
    /\ \/ Succeeded(a) /\ doubtful' = doubtful \ {a} /\ missed' = missed \ {a}
       \/ Failed(a) /\ doubtful' = doubtful \cup ({a} \cap Callers) /\ UNCHANGED missed
    /\ revived' = IF a = Worker /\ Removed(job) THEN revived \cup {job} ELSE revived \ {a}
    /\ holds' = holds \ {a}
    /\ UNCHANGED <<store, slots, core, life, conn, worker, cancelled, todo, round, left>>

\* resetIfGen closes the connection that failed.  Faulty variant: whichever
\* there is.
AnyGen(a) == TRUE
OwnGen(a) == a \in holds

\* The request does not reach the core: the context is over, or the connection
\* is closed or broken, which resets it.
Miss(a) ==
    /\ at[a] = "rpc" /\ Failed(a)
    /\ IF a \in old \/ (a \in holds /\ conn = "open" /\ core)
       THEN conn' = conn /\ holds' = holds \ {a}
       ELSE IF OwnGen(a) THEN conn' = "none" /\ holds' = {}
       ELSE UNCHANGED <<conn, holds>>
    /\ UNCHANGED <<store, slots, coreVars, worker, cancelled, todo, round, left, userHistory>>

-----------------------------------------------------------------------------
(* Backend.AddUser and RemoveUser for the service *)

Begin(u) ==
    /\ at[u] = "idle" /\ life # "down"
    /\ \/ what' = [what EXCEPT ![u] = "add"]
       \/ u \in store /\ what' = [what EXCEPT ![u] = "remove"]
    /\ at' = [at EXCEPT ![u] = "sem"]
    /\ UNCHANGED <<store, slots, coreVars, conn, tries, old, holds, workerVars, userHistory>>

\* Between Stop and Start no backend contains the tag: the service skips the call
\* and succeeds; while the inbound is not registered either, the record of the
\* user is rewritten without it, whatever the message says (external).
Skip(u) ==
    /\ at[u] = "idle" /\ life = "down"
    /\ \E w \in {"add", "remove"} : what' = [what EXCEPT ![u] = w]
    /\ at' = [at EXCEPT ![u] = "record"]
    /\ UNCHANGED <<store, slots, coreVars, conn, tries, old, holds, workerVars, userHistory>>

\* The service updates the storage when there is no error (external).
Record(u) ==
    /\ at[u] = "record" /\ at' = [at EXCEPT ![u] = "idle"]
    /\ store' = IF what[u] = "add" THEN store \cup {u} ELSE store \ {u}
    /\ what' = [what EXCEPT ![u] = "add"]
    /\ UNCHANGED <<slots, coreVars, conn, tries, old, holds, workerVars, userHistory>>

-----------------------------------------------------------------------------
(* The worker *)

\* It lists the users of the storage, if the backend has inbounds, and works on
\* the list.
List ==
    /\ worker = "list" /\ worker' = "work"
    /\ todo' = IF life = "down" THEN {} ELSE store
    /\ bad' = FALSE
    /\ missed' = {u \in Callers : at[u] = "record" /\ what[u] = "add"}
    /\ UNCHANGED <<store, slots, coreVars, conn, callVars, cancelled, job, round, left, doubtful,
                   revived>>

\* The next one, with the client of the moment; without one that is an error.
Pick ==
    /\ worker = "work" /\ at[Worker] = "idle"
    /\ \E u \in todo :
          /\ todo' = todo \ {u}
          /\ IF life = "down"
             THEN bad' = AnyError(TRUE) /\ UNCHANGED <<job, at>>
             ELSE job' = u /\ at' = [at EXCEPT ![Worker] = "sem"] /\ UNCHANGED bad
    /\ UNCHANGED <<store, slots, coreVars, conn, what, tries, old, holds, worker, cancelled, round,
                   left, userHistory>>

\* Retry stops after its attempts.  Faulty variant: it goes on while it fails.
EveryRound == TRUE
RoundLeft == round < Rounds

EndRound ==
    /\ worker = "work" /\ at[Worker] = "idle" /\ todo = {}
    /\ IF bad /\ RoundLeft /\ ~cancelled
       THEN worker' = "list" /\ round' = (round % Rounds) + 1 /\ UNCHANGED <<cancelled, left>>
       ELSE worker' = "off" /\ round' = 1 /\ left' = (left \/ bad) /\ cancelled' = FALSE
    /\ UNCHANGED <<store, slots, coreVars, conn, callVars, todo, job, bad, userHistory>>

-----------------------------------------------------------------------------
(* Restarts, and what else happens to cores and connections *)

BeginStop ==
    /\ life = "serving" /\ life' = "draining"
    /\ cancelled' = (worker # "off")
    /\ UNCHANGED <<store, slots, coreUsers, core, conn, callVars, worker, todo, job, bad, round,
                   left, userHistory>>

\* The worker has ended, or twenty seconds have passed; the core has ended; the
\* client is taken away and closed, whoever is using it.
FinishStop ==
    /\ life = "draining" /\ life' = "down"
    /\ core' = FALSE /\ coreUsers' = {}
    /\ conn' = "none" /\ holds' = {}
    /\ old' = {a \in Actors : at[a] \in {"sem", "connect", "rpc"}}
    /\ doubtful' = {} /\ missed' = {} /\ revived' = {}
    /\ UNCHANGED <<store, slots, at, what, tries, workerVars>>

\* Start gives the new core a worker, if the last one has ended.
StartCore ==
    /\ life = "down" /\ life' = "serving"
    /\ core' = TRUE /\ coreUsers' = {}
    /\ worker' = IF worker = "off" THEN "list" ELSE worker
    /\ left' = (worker # "off")
    /\ UNCHANGED <<store, slots, conn, callVars, cancelled, todo, job, bad, round, userHistory>>

CoreDies ==
    /\ core /\ core' = FALSE /\ coreUsers' = {}
    /\ conn' = IF conn = "open" THEN "broken" ELSE conn
    /\ UNCHANGED <<store, slots, life, callVars, workerVars, userHistory>>

ConnBreaks ==
    /\ conn = "open" /\ conn' = "broken"
    /\ UNCHANGED <<store, slots, coreVars, callVars, workerVars, userHistory>>

-----------------------------------------------------------------------------
Calling(a) == Acquire(a) \/ Connect(a) \/ Perform(a) \/ Miss(a)
Working == List \/ Pick \/ EndRound

Next ==
    \/ \E a \in Actors : Calling(a) \/ Expire(a)
    \/ \E u \in Callers : Begin(u) \/ Skip(u) \/ Record(u)
    \/ Working
    \/ BeginStop \/ FinishStop \/ StartCore \/ CoreDies \/ ConnBreaks

Spec == Init /\ [][Next]_vars

\* Every call has a time limit and the semaphore starves nobody; goroutines
\* keep running.
Fairness ==
    /\ \A a \in Actors : SF_vars(Calling(a))
    /\ \A u \in Callers : WF_vars(Record(u))
    /\ WF_vars(Working)

FairSpec == Spec /\ Fairness

-----------------------------------------------------------------------------
(* Properties *)

\* No call of the service about user u is waiting to be recorded.
Quiet(u) == u \notin Callers \/ at[u] # "record"

\* When the worker that a restart began has ended without errors, the core has
\* every user that the storage has, whatever calls ran beside it and whatever
\* restarts they met, but for those whose removal was done without their call
\* learning of it and those who were recorded only after the worker had listed;
\* and it has nobody else, but for those who were added without their call
\* learning of it and those whom the worker, from its list, added back after
\* their removal had succeeded (xray/backend.go:190-269, 285-360).
CoreMatchesStore ==
    life = "serving" /\ core /\ worker = "off" /\ ~left =>
        \A u \in Users : Quiet(u) =>
            /\ u \in store => u \in coreUsers \cup doubtful \cup missed
            /\ u \in coreUsers => u \in store \cup doubtful \cup revived

\* The error of a call never closes a connection that works: between Stops it
\* stays, whatever calls over older connections make of theirs
\* (xray/api.go:65-91, 117-261).
WorkingConnectionStays == [][conn = "open" /\ conn' = "none" => life' = "down"]_vars

\* The worker comes to an end although it shares the semaphore with calls and
\* retries what fails, so that a Stop need not give up the wait for it
\* (xray/backend.go:190-269).
WorkerEnds == worker # "off" ~> worker = "off"

-----------------------------------------------------------------------------
(* The inductive invariant behind CoreMatchesStore and WorkingConnectionStays *)

\* The worker has a user at hand exactly while it calls and a list only while it
\* works; an open connection has a core.
WorkerInv ==
    /\ what[Worker] = "add" /\ at[Worker] # "record"
    /\ at[Worker] = "idle" <=> job = NoUser
    /\ worker # "work" => todo = {} /\ job = NoUser
    /\ conn = "open" => core
    /\ life = "down" => ~core

\* The worker will add user u, or knows that it has failed to.
Pending(u) == left \/ worker = "list" \/ (worker = "work" /\ (bad \/ u \in todo \cup {job}))

\* A user of whom the storage and the core disagree is one the worker is still
\* about, or one of the exceptions; what a call is about to record is so in the
\* core, but for the same.
UsersInv ==
    core => \A u \in Users :
        /\ Quiet(u) /\ u \in store => u \in coreUsers \cup doubtful \cup missed \/ Pending(u)
        /\ Quiet(u) /\ u \in coreUsers => u \in store \cup doubtful \cup revived
        /\ ~Quiet(u) /\ what[u] = "add" => u \in coreUsers \cup missed \/ Pending(u)
        /\ ~Quiet(u) /\ what[u] = "remove" => u \notin coreUsers \/ u \in revived

IInv == TypeOK /\ WorkerInv /\ UsersInv
=============================================================================
