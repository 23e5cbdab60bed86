-------------------------- MODULE XrayUsersProofs --------------------------
(***************************************************************************)
(* Proofs about XrayUsers for any number of users and calls, any size of   *)
(* the semaphore and any number of attempts: the worker that gives a new   *)
(* core its users and the calls of the service leave the core with the     *)
(* users of the storage, over a connection that no call takes from another.*)
(***************************************************************************)
EXTENDS XrayUsers, TLAPS

USE DEF coreVars, callVars, workerVars, userHistory

\* The type invariant, variable by variable.
VariablesOK ==
    /\ store \subseteq Users /\ slots \in Slots /\ coreUsers \subseteq Users
    /\ todo \subseteq Users /\ doubtful \subseteq Users
    /\ missed \subseteq Users /\ revived \subseteq Users
    /\ core \in BOOLEAN /\ cancelled \in BOOLEAN /\ bad \in BOOLEAN /\ left \in BOOLEAN
    /\ life \in {"serving", "draining", "down"}
    /\ conn \in {"none", "open", "broken"}
    /\ at \in [Actors -> {"idle", "sem", "connect", "rpc", "record"}]
    /\ what \in [Actors -> {"add", "remove"}]
    /\ tries \in [Actors -> 1..Tries]
    /\ old \subseteq Actors /\ holds \subseteq Actors
    /\ worker \in {"off", "list", "work"}
    /\ job \in Users \cup {NoUser} /\ round \in 1..Rounds

LEMMA Types == (TypeOK <=> VariablesOK) /\ (TypeOK' <=> VariablesOK')
  BY DEF TypeOK, VariablesOK

\* The worker is an actor that is not a call.
LEMMA ActorsOK ==
    /\ Worker \in Actors /\ Worker \notin Callers /\ Worker \notin Users
    /\ NoUser \notin Users /\ Callers \subseteq Actors /\ Callers \subseteq Users
    /\ \A a \in Actors : a = Worker \/ a \in Callers
  BY ActorsAssumption DEF Actors

LEMMA NumbersOK == Tries \in Nat \ {0} /\ Rounds \in Nat \ {0}
  BY RetryAssumption

\* What the end of a call makes of the variables that it changes.
CallTypes ==
    /\ at' \in [Actors -> {"idle", "sem", "connect", "rpc", "record"}]
    /\ what' \in [Actors -> {"add", "remove"}] /\ tries' \in [Actors -> 1..Tries]
    /\ old' \subseteq Actors /\ bad' \in BOOLEAN
    /\ job' \in Users \cup {NoUser}

LEMMA GiveUpTypes ==
    ASSUME VariablesOK, NEW a \in Actors, GiveUp(a)
    PROVE  CallTypes
  <1>1. 1 \in 1..Tries
    BY NumbersOK
  <1>2. bad' \in BOOLEAN /\ job' \in Users \cup {NoUser}
    BY ActorsOK DEF VariablesOK, GiveUp, AnyError
  <1>3. QED
    BY <1>1, <1>2 DEF VariablesOK, GiveUp, CallTypes

LEMMA FailedTypes ==
    ASSUME VariablesOK, NEW a \in Actors, Failed(a)
    PROVE  CallTypes
  <1>1. CASE TriesLeft(a) /\ TryAgain(a)
    <2>1. tries[a] + 1 \in 1..Tries
      BY <1>1, NumbersOK DEF VariablesOK, TriesLeft
    <2>2. QED
      BY <1>1, <2>1 DEF VariablesOK, TryAgain, CallTypes
  <1>2. CASE GiveUp(a)
    BY <1>2, GiveUpTypes
  <1>3. QED
    BY <1>1, <1>2 DEF Failed

LEMMA SucceededTypes ==
    ASSUME VariablesOK, NEW a \in Actors, Succeeded(a)
    PROVE  CallTypes
  <1>1. 1 \in 1..Tries
    BY NumbersOK
  <1>2. bad' \in BOOLEAN /\ job' \in Users \cup {NoUser}
    BY DEF VariablesOK, Succeeded, AnyError
  <1>3. QED
    BY <1>1, <1>2 DEF VariablesOK, Succeeded, CallTypes

\* Every step keeps the types.
LEMMA TypesKept ==
    ASSUME IInv, Next
    PROVE  VariablesOK'
  <1> USE ActorsOK, NumbersOK
  <1> USE DEF VariablesOK, WorkerInv
  <1>1. VariablesOK /\ WorkerInv
    BY Types DEF IInv
  <1>2. ASSUME NEW a \in Actors, Acquire(a) PROVE VariablesOK'
    BY <1>1, <1>2 DEF Acquire
  <1>3. ASSUME NEW a \in Actors, Connect(a) PROVE VariablesOK'
    <2>1. CASE Failed(a) /\ UNCHANGED <<conn, holds>>
      BY <1>1, <1>3, <2>1, FailedTypes DEF Connect, CallTypes
    <2>2. CASE a \notin old /\ at' = [at EXCEPT ![a] = "rpc"]
      BY <1>1, <1>3, <2>2, FailedTypes DEF Connect, CallTypes
    <2>3. QED
      BY <1>3, <2>1, <2>2 DEF Connect
  <1>4. ASSUME NEW a \in Actors, Perform(a) PROVE VariablesOK'
    <2>1. CallTypes
      BY <1>1, <1>4, FailedTypes, SucceededTypes DEF Perform
    <2>2. Target(a) \in Users
      BY <1>1, <1>4 DEF Perform, Target
    <2>3. doubtful' \subseteq Users /\ missed' \subseteq Users /\ revived' \subseteq Users
      BY <1>1, <1>4, <2>2 DEF Perform, Target
    <2>4. QED
      BY <1>1, <1>4, <2>1, <2>2, <2>3 DEF Perform, CallTypes
  <1>5. ASSUME NEW a \in Actors, Miss(a) PROVE VariablesOK'
    <2>1. CallTypes
      BY <1>1, <1>5, FailedTypes DEF Miss
    <2>2. conn' \in {"none", "open", "broken"} /\ holds' \subseteq Actors
      BY <1>1, <1>5 DEF Miss
    <2>3. QED
      BY <1>1, <1>5, <2>1, <2>2 DEF Miss, CallTypes
  <1>6. ASSUME NEW a \in Actors, Expire(a) PROVE VariablesOK'
    BY <1>1, <1>6 DEF Expire, GiveUp, AnyError
  <1>7. ASSUME NEW u \in Callers, Begin(u) \/ Skip(u) PROVE VariablesOK'
    BY <1>1, <1>7 DEF Begin, Skip
  <1>8. ASSUME NEW u \in Callers, Record(u) PROVE VariablesOK'
    BY <1>1, <1>8 DEF Record
  <1>9. ASSUME List PROVE VariablesOK'
    BY <1>1, <1>9 DEF List
  <1>10. ASSUME Pick PROVE VariablesOK'
    BY <1>1, <1>10 DEF Pick, AnyError
  <1>11. ASSUME EndRound PROVE VariablesOK'
    <2>1. round % Rounds \in 0..Rounds - 1
      BY <1>1
    <2>2. round' \in 1..Rounds
      BY <1>1, <1>11, <2>1 DEF EndRound, RoundLeft
    <2>3. left' \in BOOLEAN /\ cancelled' \in BOOLEAN
      BY <1>1, <1>11 DEF EndRound
    <2>4. QED
      BY <1>1, <1>11, <2>2, <2>3 DEF EndRound
  <1>12. ASSUME BeginStop PROVE VariablesOK'
    BY <1>1, <1>12 DEF BeginStop
  <1>13. ASSUME FinishStop PROVE VariablesOK'
    BY <1>1, <1>13 DEF FinishStop
  <1>14. ASSUME StartCore PROVE VariablesOK'
    BY <1>1, <1>14 DEF StartCore
  <1>15. ASSUME CoreDies PROVE VariablesOK'
    BY <1>1, <1>15 DEF CoreDies
  <1>16. ASSUME ConnBreaks PROVE VariablesOK'
    BY <1>1, <1>16 DEF ConnBreaks
  <1>17. QED
    BY <1>2, <1>3, <1>4, <1>5, <1>6, <1>7, <1>8, <1>9, <1>10, <1>11, <1>12, <1>13, <1>14, <1>15, <1>16 DEF Next, Calling, Working

\* Every step keeps the worker and the life of the backend together.
LEMMA WorkerKept ==
    ASSUME IInv, Next
    PROVE  WorkerInv'
  <1> USE ActorsOK, NumbersOK
  <1> USE DEF VariablesOK, WorkerInv
  <1>1. VariablesOK /\ WorkerInv
    BY Types DEF IInv
  <1>2. ASSUME NEW a \in Actors, Acquire(a) PROVE WorkerInv'
    BY <1>1, <1>2 DEF Acquire
  <1>3. ASSUME NEW a \in Actors, Connect(a) PROVE WorkerInv'
    BY <1>1, <1>3 DEF Connect, Failed, TriesLeft, TryAgain, GiveUp, AnyError
  <1>4. ASSUME NEW a \in Actors, Perform(a) PROVE WorkerInv'
    BY <1>1, <1>4 DEF Perform, Failed, TriesLeft, TryAgain, GiveUp, AnyError, Succeeded, Target
  <1>5. ASSUME NEW a \in Actors, Miss(a) PROVE WorkerInv'
    BY <1>1, <1>5 DEF Miss, Failed, TriesLeft, TryAgain, GiveUp, AnyError
  <1>6. ASSUME NEW a \in Actors, Expire(a) PROVE WorkerInv'
    BY <1>1, <1>6 DEF Expire, GiveUp, AnyError
  <1>7. ASSUME NEW u \in Callers, Begin(u) \/ Skip(u) PROVE WorkerInv'
    BY <1>1, <1>7 DEF Begin, Skip
  <1>8. ASSUME NEW u \in Callers, Record(u) PROVE WorkerInv'
    BY <1>1, <1>8 DEF Record
  <1>9. ASSUME List PROVE WorkerInv'
    BY <1>1, <1>9 DEF List
  <1>10. ASSUME Pick PROVE WorkerInv'
    BY <1>1, <1>10 DEF Pick, AnyError
  <1>11. ASSUME EndRound PROVE WorkerInv'
    BY <1>1, <1>11 DEF EndRound, RoundLeft
  <1>12. ASSUME BeginStop PROVE WorkerInv'
    BY <1>1, <1>12 DEF BeginStop
  <1>13. ASSUME FinishStop PROVE WorkerInv'
    BY <1>1, <1>13 DEF FinishStop
  <1>14. ASSUME StartCore PROVE WorkerInv'
    BY <1>1, <1>14 DEF StartCore
  <1>15. ASSUME CoreDies PROVE WorkerInv'
    BY <1>1, <1>15 DEF CoreDies
  <1>16. ASSUME ConnBreaks PROVE WorkerInv'
    BY <1>1, <1>16 DEF ConnBreaks
  <1>17. QED
    BY <1>2, <1>3, <1>4, <1>5, <1>6, <1>7, <1>8, <1>9, <1>10, <1>11, <1>12, <1>13, <1>14, <1>15, <1>16 DEF Next, Calling, Working

\* A call that fails records nothing, and the worker knows of its failures.
LEMMA FailedKeeps ==
    ASSUME VariablesOK, NEW a \in Actors, Failed(a), at[a] # "record", NEW u \in Users
    PROVE  /\ Quiet(u)' <=> Quiet(u)
           /\ ~Quiet(u) => what'[u] = what[u]
           /\ bad \/ u = job => bad' \/ u = job'
  <1>1. a \in Users => at'[a] \in {"sem", "idle"}
    BY DEF Failed, TryAgain, GiveUp, VariablesOK
  <1>2. \A b \in Actors : b # a => at'[b] = at[b] /\ what'[b] = what[b]
    BY DEF Failed, TryAgain, GiveUp, VariablesOK
  <1>3. u \in Callers => u \in Actors
    BY ActorsOK
  <1>4. bad \/ u = job => bad' \/ u = job'
    BY DEF Failed, TryAgain, GiveUp, AnyError
  <1>5. QED
    BY <1>1, <1>2, <1>3, <1>4 DEF Quiet

\* Every step keeps the storage, the core, the worker and the calls together.
LEMMA UsersKept ==
    ASSUME IInv, Next
    PROVE  UsersInv'
  <1> USE ActorsOK, NumbersOK
  <1> USE DEF VariablesOK, WorkerInv, UsersInv, Quiet, Pending
  <1>1. VariablesOK /\ WorkerInv /\ UsersInv
    BY Types DEF IInv
  <1>2. ASSUME NEW a \in Actors, Acquire(a) PROVE UsersInv'
    BY <1>1, <1>2 DEF Acquire
  <1>3. ASSUME NEW a \in Actors, Connect(a) PROVE UsersInv'
    <2>1. CASE Failed(a)
      <3>1. at[a] # "record"
        BY <1>3 DEF Connect
      <3>2. UNCHANGED <<store, coreVars, worker, todo, left, userHistory>>
        BY <1>3 DEF Connect
      <3>3. QED
        BY <1>1, <2>1, <3>1, <3>2, FailedKeeps
    <2>2. CASE at' = [at EXCEPT ![a] = "rpc"] /\ UNCHANGED <<what, bad, job>>
      BY <1>1, <1>3, <2>2 DEF Connect
    <2>3. QED
      BY <1>3, <2>1, <2>2 DEF Connect
  <1>4. ASSUME NEW a \in Actors, Perform(a) PROVE UsersInv'
    <2> SUFFICES ASSUME NEW u \in Users
                 PROVE  /\ Quiet(u)' /\ u \in store => u \in (coreUsers \cup doubtful \cup missed)' \/ Pending(u)'
                        /\ Quiet(u)' /\ u \in coreUsers' => u \in store \/ u \in doubtful' \/ u \in revived'
                        /\ ~Quiet(u)' /\ what'[u] = "add" => u \in coreUsers' \cup missed' \/ Pending(u)'
                        /\ ~Quiet(u)' /\ what'[u] = "remove" => u \notin coreUsers' \/ u \in revived'
      BY <1>4 DEF Perform
    <2>0. /\ core /\ at[a] = "rpc" /\ a \in Actors /\ u \in Users
          /\ UNCHANGED <<store, core, worker, todo, left>>
      BY <1>4 DEF Perform
    <2>1. CASE a = Worker
      <3>1. /\ what[a] = "add" /\ job \in Users
            /\ coreUsers' = coreUsers \cup {job} /\ doubtful' = doubtful /\ missed' = missed
            /\ revived' = IF Removed(job) THEN revived \cup {job} ELSE revived \ {Worker}
        <4>1. what[a] = "add" /\ job \in Users
          BY <1>1, <2>0, <2>1
        <4>2. doubtful' = doubtful /\ missed' = missed
          BY <1>1, <1>4, <2>1 DEF Perform
        <4>3. QED
          BY <1>4, <2>1, <4>1, <4>2 DEF Perform, Target
      <3>2. /\ Quiet(u)' <=> Quiet(u)
            /\ ~Quiet(u) => what'[u] = what[u]
            /\ bad => bad'
            /\ u = job' \/ bad' \/ u = job => bad' \/ u \in coreUsers' \/ u = job'
        BY <1>1, <1>4, <2>1, <3>1 DEF Perform, Failed, TryAgain, GiveUp, Succeeded, AnyError
      <3>3. u = job => u \in coreUsers' /\ (Removed(u) => u \in revived')
        BY <3>1
      <3>4. u # job => (u \in coreUsers' <=> u \in coreUsers)
        BY <3>1
      <3>5. u \in revived => u \in revived'
        BY <3>1
      <3>6. /\ Quiet(u) /\ u \in store => u \in coreUsers \cup doubtful \cup missed \/ Pending(u)
            /\ Quiet(u) /\ u \in coreUsers => u \in store \cup doubtful \cup revived
            /\ ~Quiet(u) /\ what[u] = "add" => u \in coreUsers \cup missed \/ Pending(u)
            /\ ~Quiet(u) /\ what[u] = "remove" => u \notin coreUsers \/ u \in revived
        BY <1>1, <2>0
      <3>7. Pending(u) => u \in coreUsers' \/ Pending(u)'
        BY <2>0, <3>2, <3>3
      <3>8. u = job /\ ~Removed(u) => u \in store /\ (Quiet(u) \/ what[u] # "remove")
        BY DEF Removed
      <3>9. QED
        BY <3>1, <3>2, <3>3, <3>4, <3>5, <3>6, <3>7, <3>8
    <2>2. CASE a \in Callers
      <3>1. /\ coreUsers' = IF what[a] = "add" THEN coreUsers \cup {a} ELSE coreUsers \ {a}
            /\ revived' = revived \ {a} /\ a \in Users
        BY <1>4, <2>2 DEF Perform, Target
      <3>0. \/ Failed(a) /\ doubtful' = doubtful \cup {a} /\ missed' = missed
            \/ Succeeded(a) /\ doubtful' = doubtful \ {a} /\ missed' = missed \ {a}
        BY <1>4, <2>2 DEF Perform
      <3>2. UNCHANGED <<bad, job>> /\ \A b \in Callers \ {a} : at'[b] = at[b] /\ what'[b] = what[b]
        <4>1. a # Worker
          BY <2>2
        <4>2. CASE Failed(a)
          BY <1>1, <4>1, <4>2 DEF Failed, TryAgain, GiveUp
        <4>3. CASE Succeeded(a)
          BY <1>1, <4>1, <4>3 DEF Succeeded
        <4>4. QED
          BY <3>0, <4>2, <4>3
      <3>3. CASE u # a
        BY <1>1, <2>0, <3>0, <3>1, <3>2, <3>3
      <3>4. CASE u = a /\ Failed(a) /\ doubtful' = doubtful \cup {a}
        <4>1. Quiet(u)'
          BY <2>0, <3>4, FailedKeeps, <1>1
        <4>2. QED
          BY <3>4, <4>1
      <3>5. CASE u = a /\ Succeeded(a)
        <4>1. at'[a] = "record" /\ what' = what /\ what[a] \in {"add", "remove"}
          BY <1>1, <2>2, <3>5 DEF Succeeded
        <4>2. QED
          BY <2>2, <3>1, <3>5, <4>1
      <3>6. QED
        BY <3>0, <3>3, <3>4, <3>5
    <2>3. QED
      BY <2>1, <2>2
  <1>5. ASSUME NEW a \in Actors, Miss(a) PROVE UsersInv'
    <2>1. Failed(a) /\ at[a] # "record" /\ UNCHANGED <<store, coreVars, worker, todo, left, userHistory>>
      BY <1>5 DEF Miss
    <2>2. QED
      BY <1>1, <2>1, FailedKeeps
  <1>6. ASSUME NEW a \in Actors, Expire(a) PROVE UsersInv'
    BY <1>1, <1>6 DEF Expire, GiveUp, AnyError
  <1>7. ASSUME NEW u \in Callers, Begin(u) \/ Skip(u) PROVE UsersInv'
    BY <1>1, <1>7 DEF Begin, Skip
  <1>8. ASSUME NEW u \in Callers, Record(u) PROVE UsersInv'
    BY <1>1, <1>8 DEF Record
  <1>9. ASSUME List PROVE UsersInv'
    BY <1>1, <1>9 DEF List
  <1>10. ASSUME Pick PROVE UsersInv'
    BY <1>1, <1>10 DEF Pick, AnyError
  <1>11. ASSUME EndRound PROVE UsersInv'
    BY <1>1, <1>11 DEF EndRound, RoundLeft
  <1>12. ASSUME BeginStop PROVE UsersInv'
    BY <1>1, <1>12 DEF BeginStop
  <1>13. ASSUME FinishStop PROVE UsersInv'
    BY <1>1, <1>13 DEF FinishStop
  <1>14. ASSUME StartCore PROVE UsersInv'
    BY <1>1, <1>14 DEF StartCore
  <1>15. ASSUME CoreDies PROVE UsersInv'
    BY <1>1, <1>15 DEF CoreDies
  <1>16. ASSUME ConnBreaks PROVE UsersInv'
    BY <1>1, <1>16 DEF ConnBreaks
  <1>17. QED
    BY <1>2, <1>3, <1>4, <1>5, <1>6, <1>7, <1>8, <1>9, <1>10, <1>11, <1>12, <1>13, <1>14, <1>15, <1>16 DEF Next, Calling, Working

-----------------------------------------------------------------------------
\* After a restart the core has nobody, and the worker is about to start.
LEMMA InitIInv ==
    Init => IInv
  <1> SUFFICES ASSUME Init PROVE IInv
    OBVIOUS
  <1> USE ActorsOK, NumbersOK DEF Init
  <1>1. 1 \in 1..Tries /\ 1 \in 1..Rounds
    OBVIOUS
  <1>2. VariablesOK
    BY <1>1 DEF VariablesOK
  <1>3. WorkerInv
    BY DEF WorkerInv
  <1>4. UsersInv
    BY DEF UsersInv, Quiet, Pending
  <1>5. QED
    BY <1>2, <1>3, <1>4, Types DEF IInv

\* Every step keeps the invariant.
LEMMA NextIInv ==
    IInv /\ [Next]_vars => IInv'
  <1> SUFFICES ASSUME IInv, [Next]_vars PROVE IInv'
    OBVIOUS
  <1>1. CASE Next
    <2>1. VariablesOK' /\ WorkerInv' /\ UsersInv'
      BY <1>1, TypesKept, WorkerKept, UsersKept
    <2>2. QED
      BY <2>1, Types DEF IInv
  <1>2. CASE UNCHANGED vars
    BY <1>2 DEF vars, coreVars, callVars, workerVars, userHistory, IInv, TypeOK, WorkerInv, UsersInv, Quiet,
                Pending
  <1>3. QED
    BY <1>1, <1>2

\* The inductive invariant: a user of whom the storage and the core disagree is
\* one the worker or a call is still about, and never both.
THEOREM XrayUsersInvariant == Spec => []IInv
  <1>1. QED
    BY InitIInv, NextIInv, PTL DEF Spec

\* Every variable keeps its type; no call, and no worker, makes more attempts
\* than Retry allows (xray/backend.go:190-269, util/retry.go).
THEOREM XrayUsersTypes == Spec => []TypeOK
  <1>1. IInv => TypeOK
    BY DEF IInv
  <1>2. QED
    BY <1>1, XrayUsersInvariant, PTL

\* When the worker that a restart began has ended without errors, the core has
\* the users that the storage has, for any number of users, of calls that run
\* beside it and of restarts they meet, but for three exceptions: the core did
\* what a call asked and the call did not learn it; a success was recorded after
\* the worker had listed; the worker added back, from its list, a user whose
\* removal had succeeded (xray/backend.go:190-269, 285-360).
THEOREM RepopulatedCoreMatches == Spec => []CoreMatchesStore
  <1>1. IInv => CoreMatchesStore
    BY DEF IInv, UsersInv, Quiet, Pending, CoreMatchesStore
  <1>2. QED
    BY <1>1, XrayUsersInvariant, PTL

\* A step that closes an open connection is the end of a Stop: a call resets a
\* connection only when it holds it and its core is gone, and an open one has
\* its core (xray/api.go:65-91, 117-261).
THEOREM ConnectionOutlivesErrors == Spec => WorkingConnectionStays
  <1>1. ASSUME IInv, [Next]_vars, conn = "open", conn' = "none"
        PROVE  life' = "down"
    <2>1. core
      BY <1>1 DEF IInv, WorkerInv
    <2>2. ASSUME NEW a \in Actors, Calling(a) \/ Expire(a) PROVE FALSE
      BY <1>1, <2>1, <2>2
         DEF Calling, Acquire, Connect, Perform, Miss, Expire, OwnGen
    <2>3. ASSUME NEW u \in Callers, Begin(u) \/ Skip(u) \/ Record(u) PROVE FALSE
      BY <1>1, <2>3 DEF Begin, Skip, Record
    <2>4. CASE Working \/ BeginStop \/ StartCore \/ CoreDies \/ ConnBreaks \/ UNCHANGED vars
      BY <1>1, <2>4 DEF Working, List, Pick, EndRound, BeginStop, StartCore, CoreDies, ConnBreaks,
                        vars
    <2>5. CASE FinishStop
      BY <2>5 DEF FinishStop
    <2>6. QED
      BY <1>1, <2>2, <2>3, <2>4, <2>5 DEF Next
  <1>2. IInv /\ [Next]_vars => [conn = "open" /\ conn' = "none" => life' = "down"]_vars
    BY <1>1
  <1>3. QED
    BY <1>2, XrayUsersInvariant, PTL DEF Spec, WorkingConnectionStays
=============================================================================
