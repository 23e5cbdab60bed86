-------------------------- MODULE SyncAccountsProofs --------------------------
(***************************************************************************)
(* Proofs about what the user management does to the storage and to the    *)
(* accounts in the backends: who is dropped, what is granted, and whether  *)
(* the two agree, for any number of handlers, workers, users and tags.     *)
(***************************************************************************)
EXTENDS UserSyncProofs

(* What every client may rely on that only sends repopulates, over storage  *)
(* whose records name registered inbounds: the hypotheses of the theorems   *)
(* about accounts.  RepopulateUsers calls, and streams that start with the  *)
(* marker, are what they are about; SyncOverGrant shows why they are needed.*)
RepopulatesOnly == \A m \in FirstMessages : IsRepopulateMarker(m)
StoredAreRegistered == \A u \in Uids : InitUsers[u] # NotStored => InitUsers[u] \subseteq Registered

-----------------------------------------------------------------------------
(* Why users are dropped *)

\* The messages that a handler has received, and those it has not taken yet.
Elements(s) == {s[i] : i \in 1..Len(s)}
Sent(h) == Elements(sent[h])
Queued(h) == Elements(batch[h])

\* Who is not named by a handler that comes to its cleanup was in none of the
\* messages, and those are all there are.
HandlerInv(h) ==
    /\ phase[h] = "recv" => ~eof[h]
    /\ phase[h] \in {"list", "cleanup"} => eof[h]
    /\ phase[h] \in {"list", "cleanup"} \/ (phase[h] = "apply" /\ eof[h]) => mode[h] = "repop"
    /\ mode[h] = "new" => sent[h] = <<>> /\ phase[h] \in {"recv", "done"}
    /\ h \in Unary => /\ mode[h] = "repop"
                      /\ phase[h] = "recv" => sent[h] = <<>>
                      /\ phase[h] # "recv" => eof[h]
    /\ Queued(h) \subseteq Sent(h)
    /\ mode[h] = "repop" => \A m \in Sent(h) : m.uid \in Uids => m.uid \in keep[h]
    /\ \A u \in Uids : Purging(h, u) => phase[h] = "cleanup" /\ u \notin keep[h]

\* An attempt is for a message that its handler has received.
JobInv(g) == pc[g] \in AttemptSteps => job[g] \in Sent(HandlerOf(g)) /\ job[g].named

\* What an attempt has resolved.
NewInv(g) ==
    /\ pc[g] \in {"idle", "purge", "drop", "start", "wait", "lookup", "resolveNew"}
          => new[g] = NotStored
    /\ pc[g] \in {"resolveRemoved", "resolveAdded", "add"} => job[g].tags # {}
    /\ pc[g] \in {"resolveRemoved", "resolveAdded", "add", "remove", "commit", "unlock"} =>
          new[g] = IF job[g].tags = {} THEN NotStored ELSE ResolveInbounds(job[g].tags)

CauseInv ==
    /\ \A h \in Handlers : HandlerInv(h)
    /\ \A g \in Goroutines : JobInv(g) /\ NewInv(g)

-----------------------------------------------------------------------------
(* What the accounts are *)

\* What the first half of an attempt takes away.
Removed(g) ==
    IF snap[g] = NotStored THEN {}
    ELSE IF job[g].tags = {} THEN snap[g] ELSE ResolveInbounds(snap[g] \ job[g].tags)

Account(g) == accounts[job[g].uid]

\* A record names registered inbounds, an account one that a backend serves.
RecordsInv ==
    /\ \A u \in Uids : accounts[u] \subseteq Served /\ (users[u] # NotStored => users[u] \subseteq inbounds)
    /\ \A g \in Goroutines : snap[g] # NotStored => snap[g] \subseteq inbounds
    /\ \A h \in Handlers : mode[h] # "sync"

\* An attempt and a purge of one user at once are a collision; an error makes
\* its user suspect.
WitnessInv ==
    /\ \A u \in Uids, h \in Handlers : holder[u] # Free /\ Purging(h, u) => u \in collided
    /\ \A g \in Goroutines : failed[g] => job[g].uid \in suspect

\* What an attempt without errors has done so far.
EffectInv(g) ==
    /\ pc[g] = "add" => todo[g] \subseteq new[g]
    /\ pc[g] \in Inside /\ ~failed[g] /\ job[g].uid \notin collided =>
          /\ pc[g] = "remove" => Account(g) \cap (Removed(g) \ todo[g]) = {}
          /\ pc[g] = "resolveAdded" => Account(g) \cap Removed(g) = {}
          /\ pc[g] = "add" => /\ (new[g] \ todo[g]) \cap Served \subseteq Account(g)
                              /\ Account(g) \cap (Removed(g) \ new[g]) = {}
          /\ pc[g] \in {"commit", "unlock"} =>
                /\ Granted(new[g]) \subseteq Account(g)
                /\ Account(g) \cap (Granted(snap[g]) \ Granted(new[g])) = {}

\* Where the accounts of a user are while an attempt is at work on it ...
MatchInv(g) ==
    LET u == job[g].uid IN
    pc[g] \in Inside /\ u \notin suspect \cup collided =>
        /\ pc[g] \in {"lookup", "unlock"} => accounts[u] = Granted(users[u])
        /\ pc[g] \in SnapshotSteps => users[u] = snap[g]
        /\ pc[g] \in {"resolveNew", "resolveRemoved"} => accounts[u] = Granted(snap[g])
        /\ pc[g] \in {"remove", "resolveAdded"} => accounts[u] \subseteq Granted(snap[g])
        /\ pc[g] = "add" => accounts[u] \subseteq Granted(new[g])
        /\ pc[g] = "commit" => accounts[u] = Granted(new[g])

\* ... while a cleanup is, and when nobody is.
PurgedBy(h, u) == pc[h] \in {"purge", "drop"} /\ job[h].uid = u

PurgeInv(h, u) ==
    u \notin suspect \cup collided =>
        /\ doomed[h][u] # NotStored => users[u] \in {doomed[h][u], NotStored}
        /\ PurgedBy(h, u) => accounts[u] \subseteq IF pc[h] = "purge" THEN todo[h] ELSE {}

FreeInv(u) ==
    u \notin suspect \cup collided /\ holder[u] = Free =>
        /\ accounts[u] \subseteq Granted(users[u])
        /\ (\A h \in Handlers : ~PurgedBy(h, u)) => accounts[u] = Granted(users[u])

AccountsInv ==
    /\ RecordsInv /\ WitnessInv
    /\ \A g \in Goroutines : EffectInv(g) /\ MatchInv(g)
    /\ \A u \in Uids : FreeInv(u) /\ \A h \in Handlers : PurgeInv(h, u)

-----------------------------------------------------------------------------
(* CauseInv: the steps of one goroutine *)

LEMMA ElementsOfAppend ==
    ASSUME NEW S, NEW s \in Seq(S), NEW m \in S
    PROVE  Elements(Append(s, m)) = Elements(s) \cup {m}
  <1>1. /\ Len(Append(s, m)) = Len(s) + 1 /\ Len(s) \in Nat
        /\ \A i \in 1..Len(s) : Append(s, m)[i] = s[i]
        /\ Append(s, m)[Len(s) + 1] = m
    OBVIOUS
  <1>2. 1..Len(Append(s, m)) = 1..Len(s) \cup {Len(s) + 1}
    BY <1>1
  <1>3. QED
    BY <1>1, <1>2 DEF Elements

LEMMA ElementsOfTail ==
    ASSUME NEW S, NEW s \in Seq(S), s # <<>>
    PROVE  Elements(Tail(s)) \subseteq Elements(s) /\ Head(s) \in Elements(s)
  <1>1. /\ Len(Tail(s)) = Len(s) - 1 /\ Len(s) \in Nat \ {0} /\ Head(s) = s[1]
        /\ \A i \in 1..Len(Tail(s)) : Tail(s)[i] = s[i + 1]
    BY HeadTailProperties
  <1>2. \A i \in 1..Len(Tail(s)) : i + 1 \in 1..Len(s)
    BY <1>1
  <1>3. QED
    BY <1>1, <1>2 DEF Elements

\* A step of a goroutine goes on with its attempt or purge, or ends it.
GoesOn(g) ==
    \/ pc'[g] = "idle"
    \/ /\ job'[g] = job[g]
       /\ pc'[g] \in AttemptSteps => pc[g] \in AttemptSteps
       /\ pc'[g] \in {"purge", "drop"} => pc[g] \in {"purge", "drop"}

LEMMA GoingOnKeepsCause ==
    ASSUME IInv, CauseInv, NEW g \in Goroutines, UNCHANGED <<handlerVars, sent, inbounds>>,
           LocalMove(g), GoesOn(g), NewInv(g)'
    PROVE  CauseInv'
  <1> USE DEF handlerVars
  <1>1. ASSUME NEW h \in Handlers PROVE HandlerInv(h)'
    <2>1. HandlerInv(h)
      BY DEF CauseInv
    <2>2. \A u \in Uids : Purging(h, u)' => Purging(h, u)
      <3>1. CASE h = g
        BY <3>1 DEF Purging, GoesOn
      <3>2. CASE h # g
        BY <3>2 DEF Purging, LocalMove, Goroutines
      <3>3. QED
        BY <3>1, <3>2
    <2>3. QED
      BY <2>1, <2>2 DEF HandlerInv, Sent, Queued
  <1>2. ASSUME NEW x \in Goroutines PROVE JobInv(x)' /\ NewInv(x)'
    <2>1. JobInv(x) /\ NewInv(x)
      BY DEF CauseInv
    <2>2. CASE x = g
      BY <2>1, <2>2 DEF JobInv, GoesOn, Sent, HandlerOf, AttemptSteps
    <2>3. CASE x # g
      BY <2>1, <2>3 DEF JobInv, NewInv, LocalMove, Sent, HandlerOf, ResolveInbounds, ListInbounds
    <2>4. QED
      BY <2>2, <2>3
  <1>3. QED
    BY <1>1, <1>2 DEF CauseInv

LEMMA GoroutineTypes ==
    ASSUME IInv
    PROVE  /\ pc \in [Goroutines -> AttemptSteps \cup {"idle", "purge", "drop"}]
           /\ job \in [Goroutines -> Message \cup {NoJob}]
           /\ try \in [Goroutines -> 0..Retries]
           /\ snap \in [Goroutines -> Records] /\ new \in [Goroutines -> Records]
           /\ todo \in [Goroutines -> SUBSET Tags] /\ failed \in [Goroutines -> BOOLEAN]
           /\ users \in [Uids -> Records] /\ accounts \in [Uids -> SUBSET Tags]
           /\ holder \in [Uids -> Goroutines \cup {Free}]
           /\ suspect \subseteq Uids /\ collided \subseteq Uids
           /\ doomed \in [Handlers -> [Uids -> Records]]
           /\ \A g \in Goroutines : AttemptConsistent(g) /\ LockConsistent(g)
  BY DEF IInv, TypeOK, AttemptTypeOK, StorageTypeOK, Mutex!MutexTypeOK, HistoryTypeOK,
         HandlerTypeOK, AttemptsConsistent, LocksConsistent

LEMMA DecidingKeepsCause ==
    ASSUME IInv, CauseInv, NEW g \in Goroutines, Deciding(g)
    PROVE  CauseInv'
  <1>1. UNCHANGED <<handlerVars, sent, inbounds, lockVars, storageVars>> /\ LocalMove(g)
    BY DecidingKeeps DEF Deciding, storageVars
  <1>2. NewInv(g) /\ inbounds' = inbounds
    BY <1>1 DEF CauseInv
  <1>3. GoesOn(g) /\ NewInv(g)'
    <2> USE GoroutineTypes DEF Goto, AttemptSteps
    <2> DEFINE Good == GoesOn(g) /\ NewInv(g)'
    <2>1. ASSUME Lookup(g) PROVE Good
      BY <1>2, <2>1 DEF Lookup, GoesOn, NewInv
    <2>2. ASSUME ResolveNew(g) PROVE Good
      <3>1. job[g].tags # {}
        BY <2>2 DEF ResolveNew, AttemptConsistent
      <3>2. QED
        BY <1>2, <2>2, <3>1 DEF ResolveNew, GoesOn, NewInv, ResolveInbounds, ListInbounds
    <2>3. ASSUME ResolveRemoved(g) PROVE Good
      <3>1. pc[g] = "resolveRemoved" /\ pc'[g] = "remove" /\ job' = job /\ new' = new
        BY <2>3 DEF ResolveRemoved
      <3>2. job[g].tags # {} /\ new[g] = ResolveInbounds(job[g].tags)
        BY <1>2, <3>1 DEF NewInv
      <3>3. QED
        BY <1>2, <3>1, <3>2 DEF GoesOn, NewInv, ResolveInbounds, ListInbounds
    <2>4. ASSUME ResolveAdded(g) PROVE Good
      BY <1>2, <2>4 DEF ResolveAdded, GoesOn, NewInv, ResolveInbounds, ListInbounds
    <2>5. ASSUME RemoveDone(g) PROVE Good
      BY <1>2, <2>5 DEF RemoveDone, GoesOn, NewInv, ResolveInbounds, ListInbounds
    <2>6. ASSUME AddDone(g) PROVE Good
      <3>1. pc[g] = "add" /\ pc'[g] \in {"unlock", "commit"} /\ job' = job /\ new' = new
        BY <2>6 DEF AddDone
      <3>2. job[g].tags # {} /\ new[g] = ResolveInbounds(job[g].tags)
        BY <1>2, <3>1 DEF NewInv
      <3>3. QED
        BY <1>2, <3>1, <3>2 DEF GoesOn, NewInv, ResolveInbounds, ListInbounds
    <2>7. ASSUME Retry(g) PROVE Good
      BY <1>2, <2>7 DEF Retry, ClearLocals, GoesOn, NewInv
    <2>8. ASSUME GiveUp(g) PROVE Good
      BY <1>2, <2>8 DEF GiveUp, Idle, ClearLocals, GoesOn, NewInv
    <2>9. ASSUME PurgeDone(g) PROVE Good
      BY <1>2, <2>9 DEF PurgeDone, Idle, ClearLocals, GoesOn, NewInv
    <2>10. QED
      BY <2>1, <2>2, <2>3, <2>4, <2>5, <2>6, <2>7, <2>8, <2>9 DEF Deciding
  <1>4. QED
    BY <1>1, <1>3, GoingOnKeepsCause

LEMMA LockingKeepsCause ==
    ASSUME IInv, CauseInv, NEW g \in Goroutines, Locking(g)
    PROVE  CauseInv'
  <1>1. UNCHANGED <<handlerVars, sent, inbounds>> /\ LocalMove(g)
    BY LockingKeeps DEF Locking, storageVars
  <1>2. NewInv(g) /\ inbounds' = inbounds
    BY <1>1 DEF CauseInv
  <1>3. GoesOn(g) /\ NewInv(g)'
    <2> USE GoroutineTypes DEF Goto, AttemptSteps
    <2>1. CASE CallLockUser(g)
      BY <1>2, <2>1 DEF CallLockUser, GoesOn, NewInv
    <2>2. CASE EnterLock(g)
      BY <1>2, <2>2 DEF EnterLock, GoesOn, NewInv
    <2>3. CASE Unlock(g)
      BY <1>2, <2>3 DEF Unlock, Idle, ClearLocals, GoesOn, NewInv
    <2>4. QED
      BY <2>1, <2>2, <2>3 DEF Locking
  <1>4. QED
    BY <1>1, <1>3, GoingOnKeepsCause

LEMMA CallingKeepsCause ==
    ASSUME IInv, CauseInv, NEW g \in Goroutines, Calling(g)
    PROVE  CauseInv'
  <1>1. /\ UNCHANGED <<handlerVars, sent, inbounds>> /\ LocalMove(g)
        /\ UNCHANGED <<pc, job, new>>
    BY CallingKeeps DEF Calling, storageVars, RemoveCall, AddCall, PurgeCall
  <1>2. GoesOn(g) /\ NewInv(g)'
    BY <1>1 DEF CauseInv, GoesOn, NewInv, ResolveInbounds, ListInbounds
  <1>3. QED
    BY <1>1, <1>2, GoingOnKeepsCause

LEMMA StoringKeepsCause ==
    ASSUME IInv, CauseInv, NEW g \in Goroutines, Storing(g)
    PROVE  CauseInv'
  <1>1. /\ UNCHANGED <<handlerVars, sent, inbounds>> /\ LocalMove(g)
    BY StoringKeeps DEF Storing, Commit, Drop, RemoveUser, UpdateUserInbounds
  <1>2. GoesOn(g) /\ NewInv(g)'
    <2> USE GoroutineTypes DEF Goto, AttemptSteps
    <2>1. NewInv(g)
      BY DEF CauseInv
    <2>2. CASE Commit(g)
      BY <1>1, <2>1, <2>2 DEF Commit, GoesOn, NewInv, ResolveInbounds, ListInbounds
    <2>3. CASE Drop(g)
      BY <2>1, <2>3 DEF Drop, Idle, ClearLocals, GoesOn, NewInv
    <2>4. QED
      BY <2>2, <2>3 DEF Storing
  <1>3. QED
    BY <1>1, <1>2, GoingOnKeepsCause

-----------------------------------------------------------------------------
(* CauseInv: the next message or user, and the steps of a handler *)

LEMMA DispatchingKeepsCause ==
    ASSUME IInv, CauseInv, NEW g \in Goroutines, Dispatching(g)
    PROVE  CauseInv'
  <1> USE GoroutineTypes DEF Goto
  <1> DEFINE h == HandlerOf(g)
  <1>1. /\ h \in Handlers /\ HandlerInv(h) /\ NewInv(g) /\ inbounds' = inbounds /\ sent' = sent
        /\ \A x \in Handlers : HandlerInv(x)
        /\ \A x \in Goroutines : JobInv(x) /\ NewInv(x)
    BY HandlerOfType DEF CauseInv, Dispatching, storageVars
  <1>2. /\ batch \in [Handlers -> Seq(Message)] /\ mode' = mode /\ keep' = keep
        /\ phase' = phase /\ eof' = eof
    BY DEF IInv, TypeOK, HandlerTypeOK, Dispatching, Take, PurgeNext
  <1>3. CASE Take(g)
    <2>1. /\ batch[h] # <<>> /\ batch' = [batch EXCEPT ![h] = Tail(@)]
          /\ new' = new /\ doomed' = doomed /\ pc[g] = "idle"
          /\ batch[h] \in Seq(Message)
      BY <1>1, <1>2, <1>3 DEF Take
    <2>2. Elements(Tail(batch[h])) \subseteq Elements(batch[h]) /\ Head(batch[h]) \in Sent(h)
      BY <1>1, <2>1, ElementsOfTail DEF HandlerInv, Queued
    <2>3. \A x \in Handlers : Queued(x)' \subseteq Queued(x)
      BY <1>2, <2>1, <2>2 DEF Queued
    <2>4. CASE Ignored(Head(batch[h]))
      <3>1. UNCHANGED <<pc, job>>
        BY <1>3, <2>4 DEF Take
      <3>2. \A x \in Handlers : HandlerInv(x)'
        BY <1>1, <1>2, <2>1, <2>3, <3>1 DEF HandlerInv, Sent, Purging
      <3>3. \A x \in Goroutines : JobInv(x)' /\ NewInv(x)'
        BY <1>1, <2>1, <3>1 DEF JobInv, NewInv, Sent, HandlerOf, ResolveInbounds, ListInbounds
      <3>4. QED
        BY <3>2, <3>3 DEF CauseInv
    <2>5. CASE ~Ignored(Head(batch[h]))
      <3>1. /\ pc' = [pc EXCEPT ![g] = "start"]
            /\ job' = [job EXCEPT ![g] = Head(batch[h])] /\ Head(batch[h]).named
        BY <1>3, <2>5 DEF Take, Ignored
      <3>2. \A x \in Handlers : HandlerInv(x)'
        <4>1. \A x \in Handlers, u \in Uids : Purging(x, u)' => Purging(x, u)
          BY <2>1, <3>1 DEF Purging, Goroutines
        <4>2. QED
          BY <1>1, <1>2, <2>3, <4>1 DEF HandlerInv, Sent
      <3>3. \A x \in Goroutines : JobInv(x)'
        BY <1>1, <2>2, <3>1 DEF JobInv, Sent, HandlerOf
      <3>4. \A x \in Goroutines : NewInv(x)'
        BY <1>1, <2>1, <3>1 DEF NewInv, ResolveInbounds, ListInbounds
      <3>5. QED
        BY <3>2, <3>3, <3>4 DEF CauseInv
    <2>6. QED
      BY <2>4, <2>5
  <1>4. ASSUME g \in Handlers, NEW u \in Uids, PurgeNext(g, u) PROVE CauseInv'
    <2> DEFINE m == [uid |-> u, named |-> TRUE, tags |-> {}]
    <2>1. /\ pc[g] = "idle" /\ phase[g] = "cleanup" /\ doomed[g][u] # NotStored
          /\ pc' = [pc EXCEPT ![g] = "purge"] /\ job' = [job EXCEPT ![g] = m]
          /\ doomed' = [doomed EXCEPT ![g][u] = NotStored] /\ new' = new /\ batch' = batch
      BY <1>4 DEF PurgeNext
    <2>2. \A x \in Handlers, v \in Uids : Purging(x, v)' => Purging(x, v)
      <3> SUFFICES ASSUME NEW x \in Handlers, NEW v \in Uids, Purging(x, v)'
                   PROVE  Purging(x, v)
        OBVIOUS
      <3>1. CASE x = g /\ v = u
        BY <2>1, <3>1 DEF Purging
      <3>2. CASE x = g /\ v # u
        BY <1>4, <2>1, <3>2 DEF Purging, Goroutines
      <3>3. CASE x # g
        BY <1>4, <2>1, <3>3 DEF Purging, Goroutines
      <3>4. QED
        BY <3>1, <3>2, <3>3
    <2>3. \A x \in Handlers : HandlerInv(x)'
      BY <1>1, <1>2, <2>1, <2>2 DEF HandlerInv, Sent, Queued
    <2>4. \A x \in Goroutines : JobInv(x)' /\ NewInv(x)'
      <3>1. \A x \in Goroutines : JobInv(x)'
        BY <1>1, <2>1 DEF JobInv, Sent, HandlerOf, AttemptSteps
      <3>2. \A x \in Goroutines : NewInv(x)'
        BY <1>1, <2>1 DEF NewInv, ResolveInbounds, ListInbounds
      <3>3. QED
        BY <3>1, <3>2
    <2>5. QED
      BY <2>3, <2>4 DEF CauseInv
  <1>5. QED
    BY <1>3, <1>4 DEF Dispatching

\* The other handlers, and all goroutines, while h receives or advances.
LEMMA HandlerStepKeepsCause ==
    ASSUME IInv, CauseInv, NEW h \in Handlers,
           UNCHANGED <<storageVars, attemptVars>>, HandlerInv(h)', Sent(h) \subseteq Sent(h)',
           \A x \in Handlers \ {h} :
              /\ phase'[x] = phase[x] /\ mode'[x] = mode[x] /\ batch'[x] = batch[x]
              /\ keep'[x] = keep[x] /\ eof'[x] = eof[x] /\ doomed'[x] = doomed[x]
              /\ sent'[x] = sent[x]
    PROVE  CauseInv'
  <1> USE DEF attemptVars, storageVars
  <1>1. ASSUME NEW x \in Handlers PROVE HandlerInv(x)'
    <2>1. HandlerInv(x)
      BY DEF CauseInv
    <2>2. CASE x # h
      BY <2>1, <2>2 DEF HandlerInv, Sent, Queued, Purging
    <2>3. QED
      BY <2>2
  <1>2. \A x \in Handlers : Sent(x) \subseteq Sent(x)'
    BY DEF Sent
  <1>3. ASSUME NEW x \in Goroutines PROVE JobInv(x)' /\ NewInv(x)'
    <2>1. JobInv(x) /\ NewInv(x) /\ HandlerOf(x) \in Handlers
      BY HandlerOfType DEF CauseInv
    <2>2. JobInv(x)'
      BY <1>2, <2>1 DEF JobInv, HandlerOf, Sent
    <2>3. NewInv(x)'
      BY <2>1 DEF NewInv, ResolveInbounds, ListInbounds
    <2>4. QED
      BY <2>2, <2>3
  <1>4. QED
    BY <1>1, <1>3 DEF CauseInv

LEMMA ReceivingKeepsCause ==
    ASSUME IInv, CauseInv, NEW h \in Handlers, Receiving(h)
    PROVE  CauseInv'
  <1>1. /\ phase \in [Handlers -> {"recv", "apply", "list", "cleanup", "done"}]
        /\ mode \in [Handlers -> {"new", "sync", "repop"}]
        /\ batch \in [Handlers -> Seq(Message)] /\ sent \in [Handlers -> Seq(Message)]
        /\ keep \in [Handlers -> SUBSET Uids] /\ eof \in [Handlers -> BOOLEAN]
        /\ doomed \in [Handlers -> [Uids -> Records]] /\ cancelled \in [Handlers -> BOOLEAN]
    BY DEF IInv, TypeOK, HandlerTypeOK, HistoryTypeOK
  <1>2. UNCHANGED <<storageVars, attemptVars, pc, job>> /\ HandlerInv(h)
    BY DEF Receiving, CauseInv, attemptVars
  <1> DEFINE Others ==
        \A x \in Handlers \ {h} :
              /\ phase'[x] = phase[x] /\ mode'[x] = mode[x] /\ batch'[x] = batch[x]
              /\ keep'[x] = keep[x] /\ eof'[x] = eof[x] /\ doomed'[x] = doomed[x]
              /\ sent'[x] = sent[x]
             Good == HandlerInv(h)' /\ Sent(h) \subseteq Sent(h)' /\ Others
  <1>3. ASSUME ReceiveMarker(h) PROVE Good
    <2>1. Elements(<<>>) = {}
      BY DEF Elements
    <2>2. QED
      BY <1>1, <1>2, <1>3, <2>1 DEF ReceiveMarker, HandlerInv, Sent, Queued, Purging
  <1>4. ASSUME NEW m \in Messages \cup FirstMessages, Receive(h, m) PROVE Good
    <2>1. m \in Message
      BY MessagesAssumption
    <2>2. /\ phase[h] = "recv" /\ h \in Streams
          /\ sent' = [sent EXCEPT ![h] = Append(@, m)]
          /\ batch' = [batch EXCEPT ![h] = Append(@, m)]
          /\ UNCHANGED <<eof, cancelled, doomed>>
      BY <1>4 DEF Receive
    <2>3. Sent(h)' = Sent(h) \cup {m} /\ Queued(h)' = Queued(h) \cup {m}
      BY <1>1, <2>1, <2>2, ElementsOfAppend DEF Sent, Queued
    <2>4. h \notin Unary
      BY <2>2, HandlersAssumption
    <2>5. \A u \in Uids : Purging(h, u)' => Purging(h, u)
      BY <1>2, <2>2 DEF Purging
    <2>6. CASE mode[h] = "repop"
      <3>1. /\ mode' = mode /\ keep' = [keep EXCEPT ![h] = KeepWith(@, m)]
            /\ phase' = phase \/ phase' = [phase EXCEPT ![h] = "apply"]
        BY <1>4, <2>6 DEF Receive
      <3>2. \A n \in Sent(h)' : n.uid \in Uids => n.uid \in keep'[h]
        BY <1>1, <1>2, <2>3, <2>6, <3>1 DEF HandlerInv, KeepWith
      <3>3. phase[h] = "recv" => \A u \in Uids : ~Purging(h, u)
        BY <1>2 DEF HandlerInv
      <3>4. HandlerInv(h)'
        BY <1>1, <1>2, <2>2, <2>3, <2>4, <2>5, <2>6, <3>1, <3>2, <3>3 DEF HandlerInv
      <3>5. QED
        BY <1>1, <2>2, <2>3, <3>1, <3>4
    <2>7. CASE mode[h] # "repop"
      <3>1. /\ mode' = [mode EXCEPT ![h] = "sync"] /\ keep' = keep
            /\ phase' = [phase EXCEPT ![h] = "apply"]
        BY <1>4, <2>7 DEF Receive
      <3>2. ~eof[h] \/ eof[h]
        OBVIOUS
      <3>3. phase[h] = "recv" => \A u \in Uids : ~Purging(h, u)
        BY <1>2 DEF HandlerInv
      <3>4. HandlerInv(h)'
        BY <1>1, <1>2, <2>2, <2>3, <2>4, <2>5, <2>7, <3>1, <3>3 DEF HandlerInv
      <3>5. QED
        BY <1>1, <2>2, <2>3, <3>1, <3>4
    <2>8. QED
      BY <2>6, <2>7
  <1>5. ASSUME ReceiveEOF(h) PROVE Good
    <2>1. /\ phase[h] = "recv" /\ eof' = [eof EXCEPT ![h] = TRUE] /\ h \notin Unary
          /\ \/ mode[h] = "repop" /\ \E p \in {"list", "apply"} : phase' = [phase EXCEPT ![h] = p]
             \/ phase' = [phase EXCEPT ![h] = "done"]
          /\ UNCHANGED <<mode, batch, keep, doomed, sent>>
      BY <1>5, HandlersAssumption DEF ReceiveEOF
    <2>2. \A u \in Uids : ~Purging(h, u)'
      BY <1>2, <2>1 DEF HandlerInv, Purging
    <2>3. HandlerInv(h)'
      BY <1>1, <1>2, <2>1, <2>2 DEF HandlerInv, Sent, Queued
    <2>4. QED
      BY <1>1, <2>1, <2>3 DEF Sent
  <1>6. ASSUME ReceiveError(h) PROVE Good
    <2>1. /\ phase[h] = "recv" /\ h \notin Unary /\ batch' = [batch EXCEPT ![h] = <<>>]
          /\ phase' = [phase EXCEPT ![h] = "done"]
          /\ UNCHANGED <<mode, keep, eof, doomed, sent>>
      BY <1>6, HandlersAssumption DEF ReceiveError
    <2>2. \A u \in Uids : ~Purging(h, u)'
      BY <1>2, <2>1 DEF HandlerInv, Purging
    <2>3. Queued(h)' = {}
      BY <1>1, <2>1 DEF Queued, Elements
    <2>4. HandlerInv(h)'
      BY <1>1, <1>2, <2>1, <2>2, <2>3 DEF HandlerInv, Sent
    <2>5. QED
      BY <1>1, <2>1, <2>4 DEF Sent
  <1>7. ASSUME CallRepopulate(h) PROVE Good
    <2>1. PICK n \in 0..MaxMsgs : \E data \in [1..n -> Messages] :
             /\ batch' = [batch EXCEPT ![h] = data]
             /\ sent' = [sent EXCEPT ![h] = data]
             /\ keep' = [keep EXCEPT ![h] = {data[i].uid : i \in 1..n} \cap Uids]
             /\ phase' = [phase EXCEPT ![h] = IF n = 0 THEN "list" ELSE "apply"]
      BY <1>7 DEF CallRepopulate
    <2>2. PICK data \in [1..n -> Messages] :
             /\ batch' = [batch EXCEPT ![h] = data]
             /\ sent' = [sent EXCEPT ![h] = data]
             /\ keep' = [keep EXCEPT ![h] = {data[i].uid : i \in 1..n} \cap Uids]
             /\ phase' = [phase EXCEPT ![h] = IF n = 0 THEN "list" ELSE "apply"]
      BY <2>1
    <2>3. /\ phase[h] = "recv" /\ h \in Unary /\ eof' = [eof EXCEPT ![h] = TRUE]
          /\ mode' = mode /\ doomed' = doomed
      BY <1>7 DEF CallRepopulate
    <2>4. n \in Nat /\ Len(data) = n
      BY SizesAssumption
    <2>5. Sent(h)' = {data[i] : i \in 1..n} /\ Queued(h)' = {data[i] : i \in 1..n}
      BY <1>1, <2>2, <2>4 DEF Sent, Queued, Elements
    <2>6. \A m \in Sent(h)' : m.uid \in Uids => m.uid \in keep'[h]
      BY <1>1, <2>2, <2>5
    <2>7. Sent(h) = {} /\ mode[h] = "repop" /\ \A u \in Uids : ~Purging(h, u)'
      BY <1>1, <1>2, <2>3 DEF HandlerInv, Purging, Sent, Elements
    <2>8. eof'[h] /\ mode'[h] = "repop" /\ phase'[h] \in {"list", "apply"}
      BY <1>1, <2>2, <2>3, <2>7
    <2>9. HandlerInv(h)'
      BY <2>5, <2>6, <2>7, <2>8 DEF HandlerInv
    <2>10. QED
      BY <1>1, <2>2, <2>3, <2>7, <2>9
  <1>8. ASSUME Cancel(h) PROVE Good
    BY <1>1, <1>2, <1>8 DEF Cancel, HandlerInv, Sent, Queued, Purging
  <1>9. Good
    BY <1>3, <1>4, <1>5, <1>6, <1>7, <1>8 DEF Receiving
  <1>10. QED
    BY <1>2, <1>9, HandlerStepKeepsCause

LEMMA AdvancingKeepsCause ==
    ASSUME IInv, CauseInv, NEW h \in Handlers, Advancing(h)
    PROVE  CauseInv'
  <1>1. /\ phase \in [Handlers -> {"recv", "apply", "list", "cleanup", "done"}]
        /\ doomed \in [Handlers -> [Uids -> Records]]
        /\ users \in [Uids -> Records]
    BY DEF IInv, TypeOK, HandlerTypeOK, StorageTypeOK
  <1>2. UNCHANGED <<storageVars, attemptVars, pc, job>> /\ HandlerInv(h)
    BY DEF Advancing, CauseInv, attemptVars
  <1>3. UNCHANGED <<mode, batch, keep, eof, sent>>
    BY DEF Advancing, ApplyDone, ListDoomed, CleanupDone
  <1> DEFINE Good ==
        /\ HandlerInv(h)'
        /\ \A x \in Handlers \ {h} : phase'[x] = phase[x] /\ doomed'[x] = doomed[x]
  <1>4. ASSUME ApplyDone(h) PROVE Good
    <2>1. /\ phase[h] = "apply" /\ doomed' = doomed
          /\ phase' = [phase EXCEPT ![h] = IF eof[h] THEN "list" ELSE "recv"]
      BY <1>4 DEF ApplyDone
    <2>2. \A u \in Uids : ~Purging(h, u)'
      BY <1>2, <2>1 DEF HandlerInv, Purging
    <2>3. QED
      BY <1>1, <1>2, <1>3, <2>1, <2>2 DEF HandlerInv, Sent, Queued
  <1>5. ASSUME ListDoomed(h) PROVE Good
    <2> DEFINE copy == [u \in Uids |-> IF u \in Unnamed(h) THEN users[u] ELSE NotStored]
    <2>1. /\ phase[h] = "list" /\ phase' = [phase EXCEPT ![h] = "cleanup"]
          /\ doomed' = [doomed EXCEPT ![h] = copy]
      BY <1>5 DEF ListDoomed
    <2>2. \A u \in Uids : ~Purging(h, u) /\ (copy[u] # NotStored => u \notin keep[h])
      BY <1>2, <2>1 DEF HandlerInv, Unnamed
    <2> HIDE DEF copy
    <2>3. \A u \in Uids : Purging(h, u)' => u \notin keep[h]
      BY <1>1, <1>2, <2>1, <2>2 DEF Purging
    <2>4. QED
      BY <1>1, <1>2, <1>3, <2>1, <2>3 DEF HandlerInv, Sent, Queued
  <1>6. ASSUME CleanupDone(h) PROVE Good
    <2>1. /\ phase[h] = "cleanup" /\ phase' = [phase EXCEPT ![h] = "done"] /\ doomed' = doomed
          /\ pc[h] = "idle" /\ \A u \in Uids : doomed[h][u] = NotStored
      BY <1>6 DEF CleanupDone
    <2>2. \A u \in Uids : ~Purging(h, u)'
      BY <1>2, <2>1 DEF Purging
    <2>3. QED
      BY <1>1, <1>2, <1>3, <2>1, <2>2 DEF HandlerInv, Sent, Queued
  <1>7. Good
    BY <1>4, <1>5, <1>6 DEF Advancing
  <1>8. Sent(h) \subseteq Sent(h)'
    BY <1>3 DEF Sent
  <1>9. QED
    BY <1>2, <1>3, <1>7, <1>8, HandlerStepKeepsCause

LEMMA InitCause ==
    ASSUME Init
    PROVE  CauseInv
  <1>1. \A h \in Handlers : Sent(h) = {} /\ Queued(h) = {}
    BY DEF Init, Sent, Queued, Elements
  <1>2. \A h \in Handlers : HandlerInv(h)
    BY <1>1, HandlersAssumption DEF Init, HandlerInv, Purging, Goroutines, Handlers
  <1>3. \A g \in Goroutines : JobInv(g) /\ NewInv(g)
    BY DEF Init, JobInv, NewInv, AttemptSteps
  <1>4. QED
    BY <1>2, <1>3 DEF CauseInv

LEMMA NextCause ==
    ASSUME IInv, CauseInv, [Next]_vars
    PROVE  CauseInv'
  <1>1. ASSUME NEW h \in Handlers, Receiving(h) \/ Advancing(h) PROVE CauseInv'
    BY <1>1, ReceivingKeepsCause, AdvancingKeepsCause
  <1>2. ASSUME NEW g \in Goroutines,
               Dispatching(g) \/ Locking(g) \/ Deciding(g) \/ Calling(g) \/ Storing(g)
        PROVE  CauseInv'
    BY <1>2, DispatchingKeepsCause, LockingKeepsCause, DecidingKeepsCause, CallingKeepsCause,
       StoringKeepsCause
  <1>3. CASE UNCHANGED vars
    BY <1>3 DEF vars, CauseInv, HandlerInv, JobInv, NewInv, Sent, Queued, Purging, HandlerOf,
                ResolveInbounds, ListInbounds
  <1>4. QED
    BY <1>1, <1>2, <1>3 DEF Next, Finished

\* What handlers have received and kept, and what an attempt is for, hold
\* together in every state.
THEOREM SyncCauses == Spec => []CauseInv
  <1>1. Init => CauseInv
    BY InitCause
  <1>2. IInv /\ CauseInv /\ [Next]_vars => CauseInv'
    BY NextCause
  <1>3. QED
    BY <1>1, <1>2, SyncInvariant, PTL DEF Spec

\* A user leaves the storage only because a message asked for it, or because a
\* repopulate that was received completely did not name it, for any number of
\* streams and calls, whatever fails, breaks off or is retried
\* (service.go:200-269, 321-408, 450-505).
THEOREM SyncDropsForCause == Spec => DropsForCause
  <1> DEFINE Cause(u) ==
        \E h \in Handlers :
             \/ \E i \in RequestsFor(h, u) : sent[h][i].tags = {}
             \/ /\ eof[h] /\ mode[h] = "repop"
                /\ \A i \in 1..Len(sent[h]) : sent[h][i].uid # u
  <1>1. ASSUME IInv, CauseInv, [Next]_vars, NEW u \in Uids,
               users[u] # NotStored, users'[u] = NotStored
        PROVE  Cause(u)
    <2>1. PICK g \in Goroutines : Storing(g)
      BY <1>1 DEF Next, Finished, Receiving, Advancing, Dispatching, Locking, Deciding, Calling,
                  storageVars, vars
    <2>2. /\ users \in [Uids -> Records] /\ AttemptConsistent(g) /\ JobInv(g) /\ NewInv(g)
          /\ StorageTypeOK /\ NoRecord \notin Tags
      BY <1>1, NoRecordAssumption
         DEF IInv, TypeOK, StorageTypeOK, AttemptsConsistent, CauseInv
    <2>3. CASE Commit(g)
      <3>1. pc[g] = "commit" /\ job[g].uid \in Uids /\ job[g].uid = u
        BY <1>1, <2>2, <2>3 DEF Commit, RemoveUser, UpdateUserInbounds, AttemptConsistent
      <3>2. job[g].tags = {}
        <4> SUFFICES ASSUME job[g].tags # {} PROVE FALSE
          OBVIOUS
        <4>1. users'[u] = new[g]
          BY <2>2, <2>3, <3>1 DEF Commit, UpdateUserInbounds
        <4>2. new[g] = ResolveInbounds(job[g].tags)
          BY <2>2, <3>1 DEF NewInv
        <4>3. new[g] \in SUBSET Tags
          BY <2>2, <4>2, ResolveTags
        <4>4. QED
          BY <1>1, <2>2, <4>1, <4>3 DEF NotStored
      <3>3. job[g] \in Sent(HandlerOf(g)) /\ job[g].named /\ HandlerOf(g) \in Handlers
        BY <2>2, <3>1, HandlerOfType DEF JobInv, AttemptSteps
      <3>4. PICK i \in 1..Len(sent[HandlerOf(g)]) : job[g] = sent[HandlerOf(g)][i]
        BY <3>3 DEF Sent, Elements
      <3>5. i \in RequestsFor(HandlerOf(g), u)
        BY <3>1, <3>3, <3>4 DEF RequestsFor
      <3>6. QED
        BY <3>2, <3>3, <3>4, <3>5
    <2>4. CASE Drop(g)
      <3>1. pc[g] = "drop" /\ g \in Handlers /\ phase[g] = "cleanup" /\ job[g].uid = u
        BY <1>1, <2>2, <2>4 DEF Drop, RemoveUser, AttemptConsistent
      <3>2. eof[g] /\ mode[g] = "repop" /\ u \notin keep[g]
            /\ \A m \in Sent(g) : m.uid \in Uids => m.uid \in keep[g]
        BY <1>1, <3>1 DEF CauseInv, HandlerInv, Purging
      <3>3. \A i \in 1..Len(sent[g]) : sent[g][i].uid # u
        BY <1>1, <3>2 DEF Sent, Elements
      <3>4. QED
        BY <3>1, <3>2, <3>3
    <2>5. QED
      BY <2>1, <2>3, <2>4 DEF Storing
  <1>2. IInv /\ CauseInv /\ [Next]_vars =>
           [\A u \in Uids : users[u] # NotStored /\ users'[u] = NotStored => Cause(u)]_vars
    BY <1>1
  <1>3. QED
    BY <1>2, SyncInvariant, SyncCauses, PTL DEF Spec, DropsForCause

-----------------------------------------------------------------------------
(* AccountsInv: operators *)

LEMMA GrantedTags ==
    /\ Granted(NotStored) = {}
    /\ \A R \in SUBSET Tags : R # NotStored /\ Granted(R) = R \cap Served
    /\ \A R \in Records : R = NotStored \/ R \in SUBSET Tags
  BY NoRecordAssumption DEF Granted, NotStored, Records

\* What a message does not ask for, of what the record has, is taken away.
LEMMA LossIsRemoved ==
    ASSUME NEW S \in SUBSET Tags, S \subseteq inbounds, NEW tags, tags # {}
    PROVE  S \ ResolveInbounds(tags) \subseteq ResolveInbounds(S \ tags)
  <1> SUFFICES ASSUME NEW t \in S, t \notin ResolveInbounds(tags)
               PROVE  t \in ResolveInbounds(S \ tags)
    OBVIOUS
  <1>1. t # BlankTag /\ t \in inbounds
    BY TagsAssumption
  <1>2. t \notin tags
    BY <1>1 DEF ResolveInbounds, ListInbounds
  <1>3. QED
    BY <1>1, <1>2 DEF ResolveInbounds, ListInbounds

LEMMA AttemptIsForced ==
    ASSUME IInv, CauseInv, AccountsInv, NEW g \in Goroutines, pc[g] \in AttemptSteps
    PROVE  ForceAdd(g)
  <1>1. HandlerOf(g) \in Handlers /\ phase[HandlerOf(g)] = "apply"
    BY HandlerOfType, GoroutineTypes DEF AttemptConsistent
  <1>2. mode[HandlerOf(g)] \in {"new", "sync", "repop"}
    BY <1>1 DEF IInv, TypeOK, HandlerTypeOK
  <1>3. QED
    BY <1>1, <1>2 DEF CauseInv, HandlerInv, AccountsInv, RecordsInv, ForceAdd

\* Whoever is inside an attempt holds the lock of its user, and whoever purges
\* that user at the same time has been seen.
LEMMA Witnesses ==
    ASSUME IInv, AccountsInv
    PROVE  /\ \A g \in Goroutines : pc[g] \in Inside =>
                 job[g].uid \in Uids /\ holder[job[g].uid] = g /\ g # Free
           /\ \A g \in Goroutines : pc[g] # "idle" => job[g].uid \in Uids
           /\ \A h \in Handlers, u \in Uids : PurgedBy(h, u) => Purging(h, u)
           /\ \A h \in Handlers, u \in Uids : Purging(h, u) /\ u \notin collided => holder[u] = Free
           /\ \A g \in Goroutines : pc[g] \in {"purge", "drop"} => g \in Handlers /\ PurgedBy(g, job[g].uid)
  BY GoroutineTypes, SentinelsAssumption
     DEF AccountsInv, WitnessInv, LockConsistent, AttemptConsistent, Inside, AttemptSteps,
         PurgedBy, Purging

LEMMA ObserveGrows ==
    ASSUME Observe
    PROVE  suspect \subseteq suspect' /\ collided \subseteq collided'
  BY DEF Observe

LEMMA ObserveWitnesses ==
    ASSUME IInv, AccountsInv, Observe,
           \A x \in Goroutines : failed'[x] => job'[x] = job[x]
    PROVE  WitnessInv'
  BY DEF Observe, WitnessInv

\* What a step of goroutine g may do to others.
Discreet(g) ==
    /\ inbounds' = inbounds /\ mode' = mode
    /\ \A x \in Goroutines \ {g} : todo'[x] = todo[x]
    /\ failed'[g] => job'[g] = job[g]
    /\ \A v \in Uids :
          \/ accounts'[v] = accounts[v]
          \/ /\ v = job[g].uid
             /\ pc[g] \in {"remove", "add"} \/ (pc[g] = "purge" /\ accounts'[v] \subseteq accounts[v])
    /\ \A v \in Uids :
          \/ users'[v] = users[v]
          \/ /\ v = job[g].uid
             /\ pc[g] = "commit" \/ (pc[g] = "drop" /\ users'[v] = NotStored)
    /\ \A v \in Uids : holder'[v] = holder[v] \/ v = job[g].uid
    /\ \A h \in Handlers, v \in Uids : doomed'[h][v] \in {doomed[h][v], NotStored}

LEMMA BystanderKept ==
    ASSUME IInv, AccountsInv, NEW g \in Goroutines, LocalMove(g), Observe, Discreet(g),
           NEW x \in Goroutines \ {g}
    PROVE  EffectInv(x)' /\ MatchInv(x)'
  <1> DEFINE u == job[x].uid
  <1>1. /\ pc'[x] = pc[x] /\ job'[x] = job[x] /\ snap'[x] = snap[x] /\ new'[x] = new[x]
        /\ failed'[x] = failed[x] /\ todo'[x] = todo[x] /\ inbounds' = inbounds
    BY DEF LocalMove, Discreet
  <1>2. EffectInv(x) /\ MatchInv(x)
    BY DEF AccountsInv
  <1>3. ASSUME pc[x] \in Inside, u \notin collided
        PROVE  accounts'[u] = accounts[u] /\ users'[u] = users[u]
    <2>1. u \in Uids /\ holder[u] = x /\ x # Free
      BY <1>3, Witnesses
    <2>2. u = job[g].uid => pc[g] \notin Inside /\ pc[g] \notin {"purge", "drop"}
      BY <1>3, <2>1, Witnesses
    <2>3. QED
      BY <2>1, <2>2 DEF Discreet, Inside, AttemptSteps
  <1>4. suspect \subseteq suspect' /\ collided \subseteq collided'
    BY ObserveGrows
  <1>5. EffectInv(x)'
    BY <1>1, <1>2, <1>3, <1>4
       DEF EffectInv, Account, Removed, ResolveInbounds, ListInbounds, Granted
  <1>6. MatchInv(x)'
    BY <1>1, <1>2, <1>3, <1>4 DEF MatchInv, Granted
  <1>7. QED
    BY <1>5, <1>6

LEMMA PurgesKept ==
    ASSUME IInv, AccountsInv, NEW g \in Goroutines, LocalMove(g), Observe, Discreet(g),
           NEW h \in Handlers, NEW u \in Uids,
           h = g /\ PurgedBy(h, u)' /\ u \notin suspect' \cup collided' =>
              accounts'[u] \subseteq IF pc'[h] = "purge" THEN todo'[h] ELSE {}
    PROVE  PurgeInv(h, u)'
  <1> SUFFICES ASSUME u \notin suspect' \cup collided' PROVE PurgeInv(h, u)'
    BY DEF PurgeInv
  <1>1. PurgeInv(h, u) /\ u \notin suspect \cup collided
    BY ObserveGrows DEF AccountsInv
  <1>2. ASSUME doomed'[h][u] # NotStored PROVE users'[u] \in {doomed'[h][u], NotStored}
    <2>1. doomed'[h][u] = doomed[h][u] /\ Purging(h, u)
      BY <1>2 DEF Discreet, Purging
    <2>2. u = job[g].uid => pc[g] # "commit"
      <3>1. holder[u] = Free
        BY <1>1, <2>1, Witnesses
      <3>2. QED
        BY <3>1, Witnesses DEF Inside, AttemptSteps
    <2>3. QED
      BY <1>1, <1>2, <2>1, <2>2 DEF PurgeInv, Discreet
  <1>3. ASSUME h # g, PurgedBy(h, u)'
        PROVE  accounts'[u] \subseteq IF pc'[h] = "purge" THEN todo'[h] ELSE {}
    <2>1. h \in Goroutines /\ pc'[h] = pc[h] /\ todo'[h] = todo[h] /\ PurgedBy(h, u)
      BY <1>3 DEF LocalMove, Discreet, PurgedBy, Goroutines
    <2>2. u = job[g].uid => pc[g] \notin {"remove", "add"}
      <3>1. holder[u] = Free
        BY <1>1, <2>1, Witnesses
      <3>2. QED
        BY <3>1, Witnesses DEF Inside, AttemptSteps
    <2>3. accounts'[u] \subseteq accounts[u]
      BY <2>2 DEF Discreet
    <2>4. QED
      BY <1>1, <2>1, <2>3 DEF PurgeInv
  <1>4. QED
    BY <1>2, <1>3 DEF PurgeInv

LEMMA OthersStayFree ==
    ASSUME IInv, AccountsInv, NEW g \in Goroutines, LocalMove(g), Observe, Discreet(g),
           NEW u \in Uids, u # job[g].uid
    PROVE  FreeInv(u)'
  <1>1. FreeInv(u) /\ suspect \subseteq suspect' /\ collided \subseteq collided'
    BY ObserveGrows DEF AccountsInv
  <1>2. accounts'[u] = accounts[u] /\ users'[u] = users[u] /\ holder'[u] = holder[u]
    BY DEF Discreet
  <1>3. \A h \in Handlers : PurgedBy(h, u) => PurgedBy(h, u)'
    BY DEF PurgedBy, LocalMove, Goroutines
  <1>4. QED
    BY <1>1, <1>2, <1>3 DEF FreeInv, Granted

LEMMA StepKeepsAccounts ==
    ASSUME IInv, AccountsInv, NEW g \in Goroutines, LocalMove(g), Observe, Discreet(g),
           RecordsInv', EffectInv(g)', MatchInv(g)', \A u \in Uids : FreeInv(u)',
           \A u \in Uids :
              g \in Handlers /\ PurgedBy(g, u)' /\ u \notin suspect' \cup collided' =>
                 accounts'[u] \subseteq IF pc'[g] = "purge" THEN todo'[g] ELSE {}
    PROVE  AccountsInv'
  <1>1. \A x \in Goroutines : EffectInv(x)' /\ MatchInv(x)'
    BY BystanderKept
  <1>2. \A h \in Handlers, u \in Uids : PurgeInv(h, u)'
    BY PurgesKept
  <1>3. WitnessInv'
    BY ObserveWitnesses DEF WitnessInv, LocalMove, Discreet
  <1>4. QED
    BY <1>1, <1>2, <1>3 DEF AccountsInv

-----------------------------------------------------------------------------
(* AccountsInv: the decisions of an attempt *)

\* What the invariants say of an attempt inside its lock.
LEMMA AttemptFacts ==
    ASSUME IInv, CauseInv, AccountsInv, NEW g \in Goroutines, pc[g] \in Inside
    PROVE  /\ job[g].uid \in Uids /\ holder[job[g].uid] = g /\ g # Free
           /\ users[job[g].uid] \in Records /\ snap[g] \in Records /\ new[g] \in Records
           /\ accounts[job[g].uid] \subseteq Served
           /\ snap[g] # NotStored => snap[g] \in SUBSET Tags /\ snap[g] \subseteq inbounds
           /\ failed[g] => job[g].uid \in suspect
           /\ failed[g] \in BOOLEAN
           /\ NewInv(g) /\ EffectInv(g) /\ MatchInv(g) /\ StorageTypeOK
  <1>1. job[g].uid \in Uids /\ holder[job[g].uid] = g /\ g # Free
    BY Witnesses
  <1>2. snap[g] \in Records
    BY GoroutineTypes
  <1>3. QED
    BY <1>1, <1>2, GoroutineTypes, GrantedTags
       DEF AccountsInv, RecordsInv, WitnessInv, CauseInv, IInv, TypeOK

\* Where an attempt ends up, while the accounts, the storage and the locks stay.
LEMMA DecisionsMatch ==
    ASSUME IInv, CauseInv, AccountsInv, NEW g \in Goroutines, Observe,
           UNCHANGED <<accounts, users, inbounds>>,
           \/ Lookup(g) \/ ResolveNew(g) \/ ResolveRemoved(g) \/ ResolveAdded(g)
           \/ RemoveDone(g) \/ AddDone(g)
    PROVE  EffectInv(g)' /\ MatchInv(g)'
  <1> DEFINE u == job[g].uid
             Good == EffectInv(g)' /\ MatchInv(g)'
  <1> USE DEF Goto
  <1>1. /\ pc \in [Goroutines -> AttemptSteps \cup {"idle", "purge", "drop"}]
        /\ snap \in [Goroutines -> Records] /\ new \in [Goroutines -> Records]
        /\ todo \in [Goroutines -> SUBSET Tags]
    BY GoroutineTypes
  <1>2. pc[g] \in Inside /\ job' = job /\ failed' = failed
    BY DEF Lookup, ResolveNew, ResolveRemoved, ResolveAdded, RemoveDone, AddDone, Inside,
           AttemptSteps
  <1>3. /\ u \in Uids
        /\ users[u] \in Records /\ snap[g] \in Records /\ new[g] \in Records
        /\ accounts[u] \subseteq Served
        /\ snap[g] # NotStored => snap[g] \in SUBSET Tags /\ snap[g] \subseteq inbounds
        /\ failed[g] => u \in suspect
        /\ NewInv(g) /\ EffectInv(g) /\ MatchInv(g) /\ StorageTypeOK
    BY <1>2, AttemptFacts
  <1>4. /\ u \notin suspect' => u \notin suspect /\ ~failed[g]
        /\ u \notin collided' => u \notin collided
    BY <1>3, ObserveGrows
  <1>5. snap'[g] = snap[g] => Removed(g)' = Removed(g)
    BY <1>2 DEF Removed, ResolveInbounds, ListInbounds
  <1>6. Account(g)' = accounts[u] /\ Account(g) = accounts[u]
    BY <1>2 DEF Account
  <1>7. ASSUME Lookup(g) PROVE Good
    <2>1. /\ pc[g] = "lookup" /\ snap'[g] = users[u] /\ new'[g] = new[g] /\ new[g] = NotStored
          /\ \/ pc'[g] = "resolveNew" /\ job[g].tags # {}
             \/ pc'[g] = "unlock" /\ users[u] = NotStored
             \/ pc'[g] = "remove" /\ job[g].tags = {} /\ users[u] # NotStored /\ todo'[g] = users[u]
      BY <1>1, <1>3, <1>7 DEF Lookup, GetUser, NewInv
    <2>2. pc'[g] = "remove" => Removed(g)' = users[u]
      BY <1>2, <2>1 DEF Removed
    <2>3. EffectInv(g)'
      BY <1>2, <2>1, <2>2, GrantedTags DEF EffectInv
    <2>4. MatchInv(g)'
      BY <1>2, <1>3, <1>4, <2>1 DEF MatchInv, SnapshotSteps, Inside, AttemptSteps, Granted
    <2>5. QED
      BY <2>3, <2>4
  <1>8. ASSUME ResolveNew(g) PROVE Good
    <2> DEFINE res == ResolveInbounds(job[g].tags)
    <2>1. /\ pc[g] = "resolveNew" /\ snap'[g] = snap[g] /\ new'[g] = res
          /\ \/ pc'[g] = "add" /\ snap[g] = NotStored /\ todo'[g] = res
             \/ pc'[g] = "resolveRemoved"
      BY <1>1, <1>8 DEF ResolveNew
    <2>2. pc'[g] = "add" => Removed(g)' = {}
      BY <2>1 DEF Removed
    <2> HIDE DEF res
    <2>3. EffectInv(g)'
      BY <1>2, <2>1, <2>2 DEF EffectInv
    <2>4. MatchInv(g)'
      BY <1>2, <1>3, <1>4, <2>1, GrantedTags
         DEF MatchInv, SnapshotSteps, Inside, AttemptSteps, Granted
    <2>5. QED
      BY <2>3, <2>4
  <1>9. ASSUME ResolveRemoved(g) PROVE Good
    <2>1. /\ pc[g] = "resolveRemoved" /\ pc'[g] = "remove" /\ snap'[g] = snap[g] /\ new'[g] = new[g]
          /\ todo'[g] = ResolveInbounds(snap[g] \ job[g].tags) /\ job[g].tags # {}
      BY <1>1, <1>3, <1>9 DEF ResolveRemoved, NewInv
    <2>2. Removed(g)' \subseteq todo'[g]
      BY <1>5, <2>1 DEF Removed
    <2>3. EffectInv(g)'
      BY <1>2, <2>1, <2>2 DEF EffectInv
    <2>4. MatchInv(g)'
      BY <1>2, <1>3, <1>4, <2>1 DEF MatchInv, SnapshotSteps, Inside, AttemptSteps, Granted
    <2>5. QED
      BY <2>3, <2>4
  <1>10. ASSUME ResolveAdded(g) PROVE Good
    <2>1. /\ pc[g] = "resolveAdded" /\ pc'[g] = "add" /\ snap'[g] = snap[g] /\ new'[g] = new[g]
          /\ job[g].tags # {} /\ new[g] = ResolveInbounds(job[g].tags)
      BY <1>1, <1>3, <1>10 DEF ResolveAdded, NewInv
    <2>2. ForceAdd(g)
      BY <1>2, AttemptIsForced DEF Inside
    <2>3. todo'[g] = new[g]
      BY <1>1, <1>10, <2>2 DEF ResolveAdded
    <2>4. EffectInv(g)'
      BY <1>2, <1>3, <1>4, <1>5, <1>6, <2>1, <2>3 DEF EffectInv
    <2>5. ASSUME u \notin suspect' \cup collided'
          PROVE  accounts[u] \subseteq Granted(new[g])
      <3>1. accounts[u] \subseteq Granted(snap[g]) /\ accounts[u] \cap Removed(g) = {}
        BY <1>2, <1>3, <1>4, <1>6, <2>1, <2>5 DEF MatchInv, EffectInv
      <3>2. CASE snap[g] = NotStored
        BY <3>1, <3>2 DEF Granted
      <3>3. CASE snap[g] # NotStored
        <4>1. Removed(g) = ResolveInbounds(snap[g] \ job[g].tags)
          BY <2>1, <3>3 DEF Removed
        <4>2. snap[g] \ new[g] \subseteq Removed(g)
          BY <1>3, <2>1, <3>3, <4>1, LossIsRemoved
        <4>3. Granted(snap[g]) = snap[g] \cap Served /\ Granted(new[g]) = new[g] \cap Served
          BY <1>3, <2>1, <3>3, GrantedTags, ResolveTags
        <4>4. QED
          BY <3>1, <4>2, <4>3
      <3>4. QED
        BY <3>2, <3>3
    <2>6. MatchInv(g)'
      BY <1>2, <1>3, <1>4, <2>1, <2>5
         DEF MatchInv, SnapshotSteps, Inside, AttemptSteps, Granted
    <2>7. QED
      BY <2>4, <2>6
  <1>11. ASSUME RemoveDone(g) PROVE Good
    <2>1. /\ pc[g] = "remove" /\ todo[g] = {} /\ snap'[g] = snap[g] /\ new'[g] = new[g]
          /\ \/ pc'[g] = "unlock" /\ failed[g]
             \/ pc'[g] = "commit" /\ ~failed[g] /\ job[g].tags = {} /\ new[g] = NotStored
             \/ pc'[g] = "resolveAdded" /\ ~failed[g]
      BY <1>1, <1>3, <1>11 DEF RemoveDone, NewInv
    <2>2. ASSUME ~failed[g], u \notin collided PROVE accounts[u] \cap Removed(g) = {}
      BY <1>2, <1>3, <1>6, <2>1, <2>2 DEF EffectInv
    <2>3. pc'[g] = "commit" => Granted(new[g]) = {} /\ Granted(snap[g]) \subseteq Removed(g)
      BY <1>3, <2>1, GrantedTags DEF Removed
    <2>4. EffectInv(g)'
      <3>1. CASE pc'[g] = "unlock"
        BY <1>2, <2>1, <3>1 DEF EffectInv
      <3>2. CASE pc'[g] = "commit"
        <4>1. Granted(snap[g])' = Granted(snap[g]) /\ Granted(new[g])' = Granted(new[g])
          BY <2>1 DEF Granted
        <4>2. QED
          BY <1>2, <1>4, <1>6, <2>1, <2>2, <2>3, <3>2, <4>1 DEF EffectInv
      <3>3. CASE pc'[g] = "resolveAdded"
        BY <1>2, <1>4, <1>5, <1>6, <2>1, <2>2, <3>3 DEF EffectInv
      <3>4. QED
        BY <2>1, <3>1, <3>2, <3>3
    <2>5. MatchInv(g)'
      <3> SUFFICES ASSUME u \notin suspect' \cup collided' PROVE MatchInv(g)'
        BY <1>2 DEF MatchInv
      <3>1. users[u] = snap[g] /\ accounts[u] \subseteq Granted(snap[g]) /\ ~failed[g]
        BY <1>2, <1>3, <1>4, <2>1 DEF MatchInv, SnapshotSteps
      <3>2. pc'[g] = "commit" => accounts[u] = Granted(new[g])
        BY <1>4, <2>2, <2>3, <3>1
      <3>3. QED
        BY <1>2, <2>1, <3>1, <3>2 DEF MatchInv, Granted
    <2>6. QED
      BY <2>4, <2>5
  <1>12. ASSUME AddDone(g) PROVE Good
    <2>1. /\ pc[g] = "add" /\ todo[g] = {} /\ snap'[g] = snap[g] /\ new'[g] = new[g]
          /\ job[g].tags # {} /\ new[g] = ResolveInbounds(job[g].tags)
          /\ \/ pc'[g] = "unlock" /\ failed[g]
             \/ pc'[g] = "commit" /\ ~failed[g]
      BY <1>1, <1>3, <1>12 DEF AddDone, NewInv
    <2>2. Granted(new[g]) = new[g] \cap Served
      BY <1>3, <2>1, GrantedTags, ResolveTags
    <2>3. Granted(snap[g])' = Granted(snap[g]) /\ Granted(new[g])' = Granted(new[g])
      BY <2>1 DEF Granted
    <2>4. Granted(snap[g]) \ Granted(new[g]) \subseteq Removed(g) \ new[g]
      <3>1. CASE snap[g] = NotStored
        BY <3>1, GrantedTags
      <3>2. CASE snap[g] # NotStored
        <4>1. Removed(g) = ResolveInbounds(snap[g] \ job[g].tags)
          BY <2>1, <3>2 DEF Removed
        <4>2. snap[g] \ new[g] \subseteq Removed(g)
          BY <1>3, <2>1, <3>2, <4>1, LossIsRemoved
        <4>3. Granted(snap[g]) = snap[g] \cap Served
          BY <1>3, <3>2, GrantedTags
        <4>4. QED
          BY <2>2, <4>2, <4>3
      <3>3. QED
        BY <3>1, <3>2
    <2>5. ASSUME ~failed[g], u \notin collided
          PROVE  /\ Granted(new[g]) \subseteq accounts[u]
                 /\ accounts[u] \cap (Granted(snap[g]) \ Granted(new[g])) = {}
      <3>1. /\ (new[g] \ todo[g]) \cap Served \subseteq accounts[u]
            /\ accounts[u] \cap (Removed(g) \ new[g]) = {}
        BY <1>2, <1>3, <1>6, <2>1, <2>5 DEF EffectInv
      <3>2. QED
        BY <2>1, <2>2, <2>4, <3>1
    <2>6. EffectInv(g)'
      BY <1>2, <1>4, <1>6, <2>1, <2>3, <2>5 DEF EffectInv
    <2>7. MatchInv(g)'
      <3> SUFFICES ASSUME u \notin suspect' \cup collided' PROVE MatchInv(g)'
        BY <1>2 DEF MatchInv
      <3>1. users[u] = snap[g] /\ accounts[u] \subseteq Granted(new[g]) /\ ~failed[g]
        BY <1>2, <1>3, <1>4, <2>1 DEF MatchInv, SnapshotSteps
      <3>2. accounts[u] = Granted(new[g])
        BY <1>4, <2>5, <3>1
      <3>3. QED
        BY <1>2, <2>1, <2>3, <3>1, <3>2 DEF MatchInv
    <2>8. QED
      BY <2>6, <2>7
  <1>13. QED
    BY <1>7, <1>8, <1>9, <1>10, <1>11, <1>12

\* A step that changes no account and no record keeps them registered.
LEMMA RecordsKept ==
    ASSUME AccountsInv, NEW g \in Goroutines, LocalMove(g),
           UNCHANGED <<accounts, users, inbounds, mode>>,
           snap'[g] = snap[g] \/ snap'[g] = NotStored \/ (snap'[g] = users[job[g].uid] /\ job[g].uid \in Uids)
    PROVE  RecordsInv'
  <1>1. RecordsInv
    BY DEF AccountsInv
  <1>2. ASSUME NEW x \in Goroutines, snap'[x] # NotStored PROVE snap'[x] \subseteq inbounds'
    <2>1. CASE x = g
      BY <1>1, <1>2, <2>1 DEF RecordsInv
    <2>2. CASE x # g
      BY <1>1, <1>2, <2>2 DEF RecordsInv, LocalMove
    <2>3. QED
      BY <2>1, <2>2
  <1>3. QED
    BY <1>1, <1>2 DEF RecordsInv

LEMMA DecidingKeepsAccounts ==
    ASSUME IInv, CauseInv, AccountsInv, NEW g \in Goroutines, Deciding(g)
    PROVE  AccountsInv'
  <1> DEFINE u == job[g].uid
  <1> USE DEF Goto, AttemptSteps, Inside
  <1>1. /\ LocalMove(g) /\ Observe /\ pc[g] # "idle"
        /\ UNCHANGED <<accounts, users, inbounds, holder, doomed, mode>>
    BY DecidingKeeps DEF Deciding, storageVars, lockVars, handlerVars
  <1>2. /\ pc \in [Goroutines -> AttemptSteps \cup {"idle", "purge", "drop"}]
        /\ job \in [Goroutines -> Message \cup {NoJob}]
        /\ snap \in [Goroutines -> Records] /\ new \in [Goroutines -> Records]
        /\ todo \in [Goroutines -> SUBSET Tags] /\ failed \in [Goroutines -> BOOLEAN]
    BY GoroutineTypes
  <1>3. u \in Uids
    BY <1>1, Witnesses
  <1>4. /\ \A x \in Goroutines \ {g} : todo'[x] = todo[x]
        /\ failed'[g] => job'[g] = job[g]
        /\ snap'[g] = snap[g] \/ snap'[g] = NotStored \/ snap'[g] = users[u]
    BY <1>2 DEF Deciding, Lookup, ResolveNew, ResolveRemoved, ResolveAdded, RemoveDone, AddDone,
                Retry, GiveUp, PurgeDone, Idle, ClearLocals, GetUser
  <1>5. Discreet(g)
    BY <1>1, <1>4 DEF Discreet
  <1>6. RecordsInv'
    BY <1>1, <1>3, <1>4, RecordsKept
  <1>7. ASSUME Retry(g) \/ GiveUp(g) \/ PurgeDone(g)
        PROVE  /\ pc'[g] \notin Inside
               /\ pc[g] \in {"backoff", "purge"} /\ pc'[g] \in {"start", "idle", "drop"}
               /\ pc[g] = "purge" => (pc'[g] = "drop" /\ job' = job) \/ failed[g]
               /\ pc'[g] = "drop" => pc[g] = "purge" /\ job' = job /\ todo[g] = {}
    BY <1>2, <1>7 DEF Retry, GiveUp, PurgeDone, Idle
  <1>8. ASSUME \/ Lookup(g) \/ ResolveNew(g) \/ ResolveRemoved(g) \/ ResolveAdded(g)
               \/ RemoveDone(g) \/ AddDone(g)
        PROVE  /\ pc[g] \in Inside /\ pc'[g] \notin {"purge", "drop"}
               /\ EffectInv(g)' /\ MatchInv(g)'
    <2>1. pc[g] \in Inside /\ pc'[g] \notin {"purge", "drop"}
      BY <1>2, <1>8 DEF Lookup, ResolveNew, ResolveRemoved, ResolveAdded, RemoveDone, AddDone
    <2>2. QED
      BY <1>1, <1>8, <2>1, DecisionsMatch
  <1>9. EffectInv(g)' /\ MatchInv(g)'
    <2>1. CASE Retry(g) \/ GiveUp(g) \/ PurgeDone(g)
      BY <1>7, <2>1 DEF EffectInv, MatchInv
    <2>2. QED
      BY <1>8, <2>1 DEF Deciding
  <1>10. ASSUME g \in Handlers, NEW v \in Uids, PurgedBy(g, v)', v \notin suspect' \cup collided'
         PROVE  accounts'[v] \subseteq IF pc'[g] = "purge" THEN todo'[g] ELSE {}
    <2>1. pc[g] = "purge" /\ job' = job /\ todo[g] = {}
      BY <1>7, <1>8, <1>10 DEF Deciding, PurgedBy
    <2>2. PurgedBy(g, v) /\ v \notin suspect \cup collided
      BY <1>10, <2>1, <1>1, ObserveGrows DEF PurgedBy
    <2>3. accounts[v] \subseteq {}
      BY <1>10, <2>1, <2>2 DEF AccountsInv, PurgeInv
    <2>4. QED
      BY <1>1, <2>3
  <1>11. ASSUME NEW v \in Uids PROVE FreeInv(v)'
    <2>1. CASE v # u
      BY <1>1, <1>5, <2>1, OthersStayFree
    <2>2. CASE v = u /\ pc[g] \in Inside
      <3>1. holder'[v] = g /\ g # Free
        BY <1>1, <2>2, Witnesses
      <3>2. QED
        BY <3>1 DEF FreeInv
    <2>3. CASE v = u /\ pc[g] \notin Inside
      <3>1. Retry(g) \/ GiveUp(g) \/ PurgeDone(g)
        BY <1>8, <2>3 DEF Deciding
      <3>2. failed[g] => u \in suspect
        BY DEF AccountsInv, WitnessInv
      <3>3. ASSUME v \notin suspect', NEW h \in Handlers, PurgedBy(h, v) PROVE PurgedBy(h, v)'
        <4>1. CASE h = g
          BY <1>1, <1>7, <2>3, <3>1, <3>2, <3>3, <4>1, ObserveGrows DEF PurgedBy
        <4>2. CASE h # g
          BY <1>1, <3>3, <4>2 DEF PurgedBy, LocalMove, Goroutines
        <4>3. QED
          BY <4>1, <4>2
      <3>4. FreeInv(v) /\ suspect \subseteq suspect' /\ collided \subseteq collided'
        BY <1>1, ObserveGrows DEF AccountsInv
      <3>5. QED
        BY <1>1, <3>3, <3>4 DEF FreeInv, Granted
    <2>4. QED
      BY <2>1, <2>2, <2>3
  <1>12. QED
    BY <1>1, <1>5, <1>6, <1>9, <1>10, <1>11, StepKeepsAccounts

-----------------------------------------------------------------------------
(* AccountsInv: the lock *)

LEMMA LockingKeepsAccounts ==
    ASSUME IInv, CauseInv, AccountsInv, NEW g \in Goroutines, Locking(g)
    PROVE  AccountsInv'
  <1> DEFINE u == job[g].uid
  <1> USE DEF Goto, AttemptSteps, Inside
  <1>1. /\ LocalMove(g) /\ Observe /\ pc[g] # "idle"
        /\ UNCHANGED <<accounts, users, inbounds, doomed, mode>>
    BY LockingKeeps DEF Locking, storageVars, handlerVars
  <1>2. /\ pc \in [Goroutines -> AttemptSteps \cup {"idle", "purge", "drop"}]
        /\ job \in [Goroutines -> Message \cup {NoJob}]
        /\ snap \in [Goroutines -> Records] /\ new \in [Goroutines -> Records]
        /\ todo \in [Goroutines -> SUBSET Tags] /\ failed \in [Goroutines -> BOOLEAN]
        /\ holder \in [Uids -> Goroutines \cup {Free}]
    BY GoroutineTypes
  <1>3. u \in Uids /\ LockConsistent(g) /\ NoUid \notin Uids /\ Free \notin Goroutines
    BY <1>1, Witnesses, GoroutineTypes, SentinelsAssumption
  <1>4. /\ \A x \in Goroutines \ {g} : todo'[x] = todo[x]
        /\ failed'[g] => job'[g] = job[g]
        /\ snap'[g] = snap[g] \/ snap'[g] = NotStored
        /\ pc'[g] \in {"wait", "lookup", "backoff", "idle"}
        /\ pc[g] \in {"start", "wait", "unlock"}
        /\ pc'[g] = "lookup" => pc[g] = "wait"
    BY <1>2 DEF Locking, CallLockUser, EnterLock, Unlock, Idle, ClearLocals
  <1>5. /\ CallLockUser(g) => holder' = holder
        /\ EnterLock(g) => holder' = [holder EXCEPT ![u] = g] /\ holder[u] = Free /\ pc[g] = "wait"
        /\ Unlock(g) => holder' = [holder EXCEPT ![u] = Free] /\ pc[g] = "unlock"
    BY <1>3 DEF CallLockUser, EnterLock, Unlock, LockConsistent, Mutex!Request, Mutex!Enter,
                Mutex!MayEnter, Mutex!Leave
  <1>6. \A v \in Uids : holder'[v] = holder[v] \/ v = u
    BY <1>2, <1>5 DEF Locking
  <1>7. Discreet(g)
    BY <1>1, <1>4, <1>6 DEF Discreet
  <1>8. RecordsInv'
    BY <1>1, <1>4, RecordsKept
  <1>9. \A h \in Handlers, v \in Uids : PurgedBy(h, v) <=> PurgedBy(h, v)'
    BY <1>1, <1>4 DEF PurgedBy, LocalMove, Goroutines
  <1>10. FreeInv(u) /\ suspect \subseteq suspect' /\ collided \subseteq collided'
    BY <1>1, <1>3, ObserveGrows DEF AccountsInv
  <1>11. EffectInv(g)'
    BY <1>4 DEF EffectInv
  <1>12. MatchInv(g)'
    <2> SUFFICES ASSUME pc'[g] = "lookup", u \notin suspect' \cup collided'
                 PROVE  MatchInv(g)'
      BY <1>2, <1>4 DEF MatchInv, Locking, CallLockUser, EnterLock, Unlock
    <2>1. EnterLock(g) /\ job' = job
      BY <1>4, <1>5 DEF Locking, CallLockUser, EnterLock, Unlock
    <2>2. holder'[u] = g /\ holder[u] = Free
      BY <1>2, <1>3, <1>5, <2>1
    <2>3. ASSUME NEW h \in Handlers, NEW v \in Uids, v = u, PurgedBy(h, v) PROVE FALSE
      <3>1. Purging(h, v)'
        BY <1>9, <2>3 DEF PurgedBy, Purging
      <3>2. holder'[v] # Free
        BY <1>3, <2>2, <2>3
      <3>3. v \in collided'
        BY <1>1, <3>1, <3>2 DEF Observe
      <3>4. QED
        BY <2>3, <3>3
    <2>4. accounts[u] = Granted(users[u])
      BY <1>3, <1>10, <2>2, <2>3 DEF FreeInv
    <2>5. QED
      BY <1>1, <2>1, <2>4 DEF MatchInv, SnapshotSteps, Granted
  <1>13. \A v \in Uids : ~PurgedBy(g, v)'
    BY <1>4 DEF PurgedBy
  <1>14. ASSUME NEW v \in Uids PROVE FreeInv(v)'
    <2>1. CASE v # u
      BY <1>1, <1>7, <2>1, OthersStayFree
    <2>2. CASE v = u /\ CallLockUser(g)
      BY <1>1, <1>5, <1>9, <1>10, <2>2 DEF FreeInv, Granted
    <2>3. CASE v = u /\ EnterLock(g)
      BY <1>2, <1>3, <1>5, <2>3 DEF FreeInv
    <2>4. CASE v = u /\ Unlock(g)
      <3>1. MatchInv(g) /\ pc[g] = "unlock"
        BY <1>5, <2>4 DEF AccountsInv
      <3>2. u \notin suspect \cup collided => accounts[u] = Granted(users[u])
        BY <3>1 DEF MatchInv
      <3>3. QED
        BY <1>1, <1>10, <2>4, <3>2 DEF FreeInv, Granted
    <2>5. QED
      BY <2>1, <2>2, <2>3, <2>4 DEF Locking
  <1>15. QED
    BY <1>1, <1>7, <1>8, <1>11, <1>12, <1>13, <1>14, StepKeepsAccounts

-----------------------------------------------------------------------------
(* AccountsInv: the backend calls *)

\* What the account of a user becomes when backend call number t is made.
Outcome(g, t) ==
    LET u == job[g].uid
        called == IF t \notin Served THEN accounts[u]
                  ELSE IF pc[g] = "add" THEN accounts[u] \cup {t} ELSE accounts[u] \ {t}
    IN  /\ todo' = [todo EXCEPT ![g] = @ \ {t}]
        /\ UNCHANGED <<pc, job, snap, new>>
        /\ \A v \in Uids : v # u => accounts'[v] = accounts[v]
        /\ accounts'[u] \in {accounts[u], called}
        /\ ~failed'[g] => ~failed[g] /\ accounts'[u] = called

LEMMA CallOutcome ==
    ASSUME IInv, NEW g \in Goroutines, Calling(g)
    PROVE  pc[g] \in {"remove", "add", "purge"} /\ \E t \in todo[g] : Outcome(g, t)
  <1> DEFINE u == job[g].uid
  <1>1. /\ pc[g] \in {"remove", "add", "purge"} /\ Call(g)
        /\ UNCHANGED <<pc, job, try, snap, new>>
    BY DEF Calling, RemoveCall, AddCall, PurgeCall
  <1>2. /\ accounts \in [Uids -> SUBSET Tags] /\ u \in Uids
        /\ failed \in [Goroutines -> BOOLEAN]
    BY <1>1, GoroutineTypes DEF AttemptConsistent
  <1> DEFINE called(t) == [accounts EXCEPT ![u] = IF pc[g] = "add" THEN BackendAdd(@, t)
                                                               ELSE BackendRemove(@, t)]
  <1>3. PICK t \in todo[g] :
          /\ todo' = [todo EXCEPT ![g] = @ \ {t}]
          /\ \/ /\ accounts' = IF t \in Served THEN called(t) ELSE accounts
                /\ failed' = [failed EXCEPT ![g] = JoinedError(g, FALSE)]
             \/ /\ t \in Served /\ accounts' \in {accounts, called(t)}
                /\ failed' = [failed EXCEPT ![g] = JoinedError(g, TRUE)]
    BY <1>1 DEF Call
  <1>4. /\ called(t)[u] = IF pc[g] = "add" THEN accounts[u] \cup {t} ELSE accounts[u] \ {t}
        /\ \A v \in Uids : v # u => called(t)[v] = accounts[v]
    BY <1>2 DEF BackendAdd, BackendRemove
  <1> HIDE DEF called
  <1>5. Outcome(g, t)
    BY <1>1, <1>2, <1>3, <1>4 DEF Outcome, JoinedError
  <1>6. QED
    BY <1>1, <1>5

LEMMA CallingKeepsAccounts ==
    ASSUME IInv, CauseInv, AccountsInv, NEW g \in Goroutines, Calling(g)
    PROVE  AccountsInv'
  <1> DEFINE u == job[g].uid
  <1>1. /\ LocalMove(g) /\ Observe
        /\ UNCHANGED <<users, inbounds, holder, doomed, mode>>
    BY CallingKeeps DEF Calling, storageVars, lockVars, handlerVars
  <1>2. /\ todo \in [Goroutines -> SUBSET Tags] /\ failed \in [Goroutines -> BOOLEAN]
        /\ accounts \in [Uids -> SUBSET Tags]
    BY GoroutineTypes
  <1>3. /\ pc[g] \in {"remove", "add", "purge"} /\ \E t \in todo[g] : Outcome(g, t)
    BY CallOutcome
  <1>4. PICK t \in todo[g] : Outcome(g, t)
    BY <1>3
  <1>5. u \in Uids /\ accounts[u] \subseteq Served /\ RecordsInv
    BY <1>3, Witnesses DEF AccountsInv, RecordsInv
  <1>6. /\ todo'[g] = todo[g] \ {t} /\ \A x \in Goroutines \ {g} : todo'[x] = todo[x]
        /\ pc'[g] = pc[g] /\ job'[g] = job[g] /\ snap'[g] = snap[g] /\ new'[g] = new[g]
        /\ \A v \in Uids : v # u => accounts'[v] = accounts[v]
        /\ pc[g] = "add" => accounts'[u] \subseteq accounts[u] \cup ({t} \cap Served)
        /\ pc[g] # "add" => accounts'[u] \subseteq accounts[u]
        /\ ~failed'[g] => /\ ~failed[g]
                          /\ pc[g] = "add" => accounts'[u] = accounts[u] \cup ({t} \cap Served)
                          /\ pc[g] # "add" => accounts'[u] = accounts[u] \ {t}
    BY <1>2, <1>4, <1>5 DEF Outcome
  <1>7. /\ u \notin suspect' => u \notin suspect /\ ~failed'[g]
        /\ \A v \in Uids : v \notin suspect' \cup collided' => v \notin suspect \cup collided
    <2>1. failed'[g] => u \in suspect'
      BY <1>1 DEF Observe
    <2>2. QED
      BY <1>1, <2>1, ObserveGrows
  <1>8. Discreet(g)
    <2>1. \A v \in Uids :
            \/ accounts'[v] = accounts[v]
            \/ /\ v = u
               /\ pc[g] \in {"remove", "add"} \/ (pc[g] = "purge" /\ accounts'[v] \subseteq accounts[v])
      BY <1>3, <1>6
    <2>2. QED
      BY <1>1, <1>6, <2>1 DEF Discreet
  <1>9. RecordsInv'
    <2>1. \A v \in Uids : accounts'[v] \subseteq Served
      BY <1>5, <1>6 DEF RecordsInv
    <2>2. \A x \in Goroutines : snap'[x] = snap[x]
      BY <1>1, <1>6 DEF LocalMove
    <2>3. QED
      BY <1>1, <1>5, <2>1, <2>2 DEF RecordsInv
  <1>10. EffectInv(g) /\ MatchInv(g)
    BY DEF AccountsInv
  <1>11. /\ Removed(g)' = Removed(g) /\ Account(g) = accounts[u] /\ Account(g)' = accounts'[u]
         /\ pc[g] = "add" => t \in new[g] /\ todo[g] \subseteq new[g]
    BY <1>1, <1>6, <1>10
       DEF Removed, ResolveInbounds, ListInbounds, Account, EffectInv
  <1>12. EffectInv(g)'
    <2>1. pc'[g] = "add" => todo'[g] \subseteq new'[g]
      BY <1>6, <1>11
    <2>2. ASSUME ~failed'[g], u \notin collided', pc[g] = "remove"
          PROVE  accounts'[u] \cap (Removed(g) \ todo'[g]) = {}
      <3>1. accounts[u] \cap (Removed(g) \ todo[g]) = {}
        BY <1>6, <1>7, <1>10, <1>11, <2>2, <1>1, ObserveGrows
           DEF EffectInv, Inside, AttemptSteps
      <3>2. QED
        BY <1>6, <2>2, <3>1
    <2>3. ASSUME ~failed'[g], u \notin collided', pc[g] = "add"
          PROVE  /\ (new[g] \ todo'[g]) \cap Served \subseteq accounts'[u]
                 /\ accounts'[u] \cap (Removed(g) \ new[g]) = {}
      <3>1. /\ (new[g] \ todo[g]) \cap Served \subseteq accounts[u]
            /\ accounts[u] \cap (Removed(g) \ new[g]) = {}
        BY <1>6, <1>7, <1>10, <1>11, <2>3, <1>1, ObserveGrows
           DEF EffectInv, Inside, AttemptSteps
      <3>2. QED
        BY <1>6, <1>11, <2>3, <3>1
    <2>4. QED
      BY <1>3, <1>6, <1>11, <2>1, <2>2, <2>3 DEF EffectInv
  <1>13. MatchInv(g)'
    <2> SUFFICES ASSUME u \notin suspect' \cup collided', pc[g] \in {"remove", "add"}
                 PROVE  MatchInv(g)'
      BY <1>3, <1>6 DEF MatchInv, Inside, AttemptSteps
    <2>1. /\ users[u] = snap[g]
          /\ pc[g] = "remove" => accounts[u] \subseteq Granted(snap[g])
          /\ pc[g] = "add" => accounts[u] \subseteq Granted(new[g])
      BY <1>5, <1>7, <1>10 DEF MatchInv, SnapshotSteps, Inside, AttemptSteps
    <2>2. pc[g] = "add" /\ t \in Served => t \in Granted(new[g])
      <3>1. pc[g] = "add" => new[g] \in SUBSET Tags
        BY ResolveTags DEF CauseInv, NewInv, IInv, TypeOK
      <3>2. QED
        BY <1>11, <3>1, GrantedTags
    <2>3. /\ pc[g] = "remove" => accounts'[u] \subseteq Granted(snap[g])
          /\ pc[g] = "add" => accounts'[u] \subseteq Granted(new[g])
      BY <1>6, <2>1, <2>2
    <2>4. QED
      BY <1>1, <1>6, <2>1, <2>3 DEF MatchInv, Granted
  <1>14. ASSUME g \in Handlers, NEW v \in Uids, PurgedBy(g, v)', v \notin suspect' \cup collided'
         PROVE  accounts'[v] \subseteq IF pc'[g] = "purge" THEN todo'[g] ELSE {}
    <2>1. pc[g] = "purge" /\ v = u /\ PurgedBy(g, v)
      BY <1>3, <1>6, <1>14 DEF PurgedBy
    <2>2. accounts[v] \subseteq todo[g]
      BY <1>7, <1>14, <2>1 DEF AccountsInv, PurgeInv
    <2>3. accounts'[v] = accounts[v] \ {t}
      BY <1>6, <1>7, <1>14, <2>1
    <2>4. QED
      BY <1>6, <2>1, <2>2, <2>3
  <1>15. ASSUME NEW v \in Uids PROVE FreeInv(v)'
    <2>1. CASE v # u
      BY <1>1, <1>8, <2>1, OthersStayFree
    <2>2. CASE v = u /\ pc[g] # "purge"
      <3>1. holder'[v] = g /\ g # Free
        BY <1>1, <1>3, <2>2, Witnesses DEF Inside, AttemptSteps
      <3>2. QED
        BY <3>1 DEF FreeInv
    <2>3. CASE v = u /\ pc[g] = "purge"
      <3>1. g \in Handlers /\ PurgedBy(g, v)'
        BY <1>6, <2>3, Witnesses DEF PurgedBy
      <3>2. FreeInv(v)
        BY DEF AccountsInv
      <3>3. accounts'[v] \subseteq accounts[v]
        BY <1>6, <2>3
      <3>4. QED
        BY <1>1, <1>7, <3>1, <3>2, <3>3 DEF FreeInv, Granted
    <2>4. QED
      BY <2>1, <2>2, <2>3
  <1>16. QED
    BY <1>1, <1>8, <1>9, <1>12, <1>13, <1>14, <1>15, StepKeepsAccounts

-----------------------------------------------------------------------------
(* AccountsInv: the storage *)

LEMMA StoringKeepsAccounts ==
    ASSUME IInv, CauseInv, AccountsInv, NEW g \in Goroutines, Storing(g)
    PROVE  AccountsInv'
  <1> DEFINE u == job[g].uid
  <1> USE DEF Goto
  <1>1. /\ LocalMove(g) /\ Observe /\ pc[g] \in {"commit", "drop"}
        /\ UNCHANGED <<accounts, inbounds, holder, doomed, mode>>
    BY StoringKeeps
       DEF Storing, lockVars, handlerVars, Commit, Drop, RemoveUser, UpdateUserInbounds
  <1>2. /\ pc \in [Goroutines -> AttemptSteps \cup {"idle", "purge", "drop"}]
        /\ todo \in [Goroutines -> SUBSET Tags] /\ failed \in [Goroutines -> BOOLEAN]
        /\ snap \in [Goroutines -> Records] /\ users \in [Uids -> Records]
    BY GoroutineTypes
  <1>3. u \in Uids /\ RecordsInv /\ suspect \subseteq suspect' /\ collided \subseteq collided'
    BY <1>1, Witnesses, ObserveGrows DEF AccountsInv
  <1>4. /\ Commit(g) => pc[g] = "commit" /\ pc'[g] = "unlock" /\ UNCHANGED <<job, todo, failed, snap, new>>
        /\ Drop(g) => /\ pc[g] = "drop" /\ pc'[g] = "idle" /\ users'[u] = NotStored
                      /\ failed'[g] = FALSE /\ snap'[g] = NotStored
        /\ \A x \in Goroutines \ {g} : todo'[x] = todo[x]
        /\ \A v \in Uids : v # u => users'[v] = users[v]
    BY <1>2, <1>3
       DEF Storing, Commit, Drop, Idle, ClearLocals, RemoveUser, UpdateUserInbounds
  <1>5. ASSUME Commit(g)
        PROVE  users'[u] = new[g] /\ (new[g] # NotStored => new[g] \subseteq inbounds)
    <2>1. /\ pc[g] = "commit" /\ NewInv(g)
          /\ users' = [users EXCEPT ![u] = IF job[g].tags = {} THEN NotStored ELSE new[g]]
      BY <1>4, <1>5 DEF Commit, RemoveUser, UpdateUserInbounds, CauseInv
    <2>2. QED
      BY <1>2, <1>3, <2>1 DEF NewInv, ResolveInbounds, ListInbounds
  <1>6. Discreet(g)
    BY <1>1, <1>4 DEF Discreet, Storing
  <1>7. RecordsInv'
    <2>1. \A v \in Uids : users'[v] # NotStored => users'[v] \subseteq inbounds
      BY <1>3, <1>4, <1>5 DEF RecordsInv, Storing
    <2>2. \A x \in Goroutines : snap'[x] # NotStored => snap'[x] \subseteq inbounds
      BY <1>1, <1>3, <1>4 DEF RecordsInv, Storing, LocalMove
    <2>3. QED
      BY <1>1, <1>3, <2>1, <2>2 DEF RecordsInv
  <1>8. EffectInv(g) /\ MatchInv(g)
    BY DEF AccountsInv
  <1>9. EffectInv(g)'
    <2>1. CASE Commit(g)
      BY <1>1, <1>3, <1>4, <1>8, <2>1
         DEF EffectInv, Inside, AttemptSteps, Account, Granted
    <2>2. CASE Drop(g)
      BY <1>4, <2>2 DEF EffectInv, Inside
    <2>3. QED
      BY <2>1, <2>2 DEF Storing
  <1>10. MatchInv(g)'
    <2>1. CASE Commit(g)
      BY <1>1, <1>3, <1>4, <1>5, <1>8, <2>1
         DEF MatchInv, Inside, AttemptSteps, SnapshotSteps, Granted
    <2>2. CASE Drop(g)
      BY <1>4, <2>2 DEF MatchInv, Inside, AttemptSteps
    <2>3. QED
      BY <2>1, <2>2 DEF Storing
  <1>11. \A v \in Uids : ~PurgedBy(g, v)'
    BY <1>4 DEF PurgedBy, Storing
  <1>12. ASSUME NEW v \in Uids PROVE FreeInv(v)'
    <2>1. CASE v # u
      BY <1>1, <1>6, <2>1, OthersStayFree
    <2>2. CASE v = u /\ Commit(g)
      <3>1. holder'[v] = g /\ g # Free
        BY <1>1, <1>4, <2>2, Witnesses DEF Inside, AttemptSteps
      <3>2. QED
        BY <3>1 DEF FreeInv
    <2>3. CASE v = u /\ Drop(g)
      <3>1. g \in Handlers /\ PurgedBy(g, v)
        BY <1>4, <2>3, Witnesses
      <3>2. v \notin suspect \cup collided => accounts[v] = {}
        BY <1>4, <2>3, <3>1 DEF AccountsInv, PurgeInv
      <3>3. QED
        BY <1>1, <1>3, <1>4, <2>3, <3>2 DEF FreeInv, Granted
    <2>4. QED
      BY <2>1, <2>2, <2>3 DEF Storing
  <1>13. QED
    BY <1>1, <1>6, <1>7, <1>9, <1>10, <1>11, <1>12, StepKeepsAccounts

-----------------------------------------------------------------------------
(* AccountsInv: the next message or user, and the steps of a handler *)

LEMMA DispatchingKeepsAccounts ==
    ASSUME IInv, CauseInv, AccountsInv, NEW g \in Goroutines, Dispatching(g)
    PROVE  AccountsInv'
  <1> USE DEF Goto
  <1>1. /\ pc \in [Goroutines -> AttemptSteps \cup {"idle", "purge", "drop"}]
        /\ todo \in [Goroutines -> SUBSET Tags] /\ failed \in [Goroutines -> BOOLEAN]
        /\ job \in [Goroutines -> Message \cup {NoJob}] /\ try \in [Goroutines -> 0..Retries]
        /\ doomed \in [Handlers -> [Uids -> Records]] /\ users \in [Uids -> Records]
    BY GoroutineTypes
  <1>2. /\ pc[g] = "idle" /\ Observe /\ ~failed[g]
        /\ UNCHANGED <<accounts, users, inbounds, holder, mode, snap, new, failed>>
    BY GoroutineTypes
       DEF Dispatching, Take, PurgeNext, storageVars, lockVars, AttemptConsistent
  <1>3. suspect \subseteq suspect' /\ collided \subseteq collided'
    BY <1>2, ObserveGrows
  <1>4. /\ LocalMove(g) /\ \A x \in Goroutines \ {g} : todo'[x] = todo[x]
        /\ pc'[g] \in {"idle", "start", "purge"}
        /\ \A h \in Handlers, v \in Uids : doomed'[h][v] \in {doomed[h][v], NotStored}
    <2>1. CASE Take(g)
      BY <1>1, <1>2, <2>1 DEF Take, LocalMove
    <2>2. ASSUME g \in Handlers, NEW u \in Uids, PurgeNext(g, u)
          PROVE  /\ LocalMove(g) /\ \A x \in Goroutines \ {g} : todo'[x] = todo[x]
                 /\ pc'[g] \in {"idle", "start", "purge"}
                 /\ \A h \in Handlers, v \in Uids : doomed'[h][v] \in {doomed[h][v], NotStored}
      BY <1>1, <1>2, <2>2 DEF PurgeNext, LocalMove
    <2>3. QED
      BY <2>1, <2>2 DEF Dispatching
  <1>5. Discreet(g)
    BY <1>2, <1>4 DEF Discreet
  <1>6. RecordsInv'
    BY <1>2, <1>4, RecordsKept
  <1>7. EffectInv(g)' /\ MatchInv(g)'
    BY <1>4 DEF EffectInv, MatchInv, Inside, AttemptSteps
  <1>8. \A h \in Handlers, v \in Uids : PurgedBy(h, v) => PurgedBy(h, v)'
    BY <1>2, <1>4 DEF PurgedBy, LocalMove, Goroutines
  <1>9. \A v \in Uids : FreeInv(v)'
    BY <1>2, <1>3, <1>8 DEF AccountsInv, FreeInv, Granted
  <1>10. ASSUME g \in Handlers, NEW v \in Uids, PurgedBy(g, v)', v \notin suspect' \cup collided'
         PROVE  accounts'[v] \subseteq IF pc'[g] = "purge" THEN todo'[g] ELSE {}
    <2>1. PICK u \in Uids : PurgeNext(g, u)
      BY <1>1, <1>2, <1>10 DEF Dispatching, Take, PurgedBy
    <2>2. v = u /\ doomed[g][u] # NotStored /\ todo'[g] = doomed[g][u] /\ pc'[g] = "purge"
      BY <1>1, <1>10, <2>1 DEF PurgeNext, PurgedBy
    <2>3. /\ v \notin suspect \cup collided /\ holder[v] = Free
          /\ users[v] \in {doomed[g][v], NotStored} /\ accounts[v] \subseteq Granted(users[v])
      BY <1>3, <1>10, <2>2, Witnesses DEF AccountsInv, PurgeInv, FreeInv, Purging
    <2>4. QED
      BY <1>1, <1>2, <2>2, <2>3, GrantedTags DEF Granted
  <1>11. QED
    BY <1>2, <1>4, <1>5, <1>6, <1>7, <1>9, <1>10, StepKeepsAccounts

\* Receiving and advancing touch no attempt; a list of users that is copied is
\* the storage's.
LEMMA HandlerStepKeepsAccounts ==
    ASSUME IInv, AccountsInv, NEW h \in Handlers, Observe,
           UNCHANGED <<storageVars, accounts, lockVars, attemptVars>>,
           \A x \in Handlers : mode'[x] # "sync",
           \A x \in Handlers, u \in Uids : doomed'[x][u] \in {doomed[x][u], users[u], NotStored}
    PROVE  AccountsInv'
  <1>1. /\ UNCHANGED <<users, inbounds, accounts, holder, pc, job, snap, new, todo, failed>>
        /\ suspect \subseteq suspect' /\ collided \subseteq collided'
    BY ObserveGrows DEF storageVars, lockVars, attemptVars
  <1>2. RecordsInv'
    BY <1>1 DEF AccountsInv, RecordsInv
  <1>3. WitnessInv'
    BY <1>1, ObserveWitnesses
  <1>4. ASSUME NEW g \in Goroutines PROVE EffectInv(g)' /\ MatchInv(g)'
    <2>1. EffectInv(g) /\ MatchInv(g)
      BY DEF AccountsInv
    <2>2. EffectInv(g)'
      BY <1>1, <2>1 DEF EffectInv, Account, Removed, ResolveInbounds, ListInbounds, Granted
    <2>3. MatchInv(g)'
      BY <1>1, <2>1 DEF MatchInv, Granted
    <2>4. QED
      BY <2>2, <2>3
  <1>5. \A u \in Uids : FreeInv(u)'
    BY <1>1 DEF AccountsInv, FreeInv, PurgedBy, Granted
  <1>6. \A x \in Handlers, u \in Uids : PurgeInv(x, u)'
    BY <1>1 DEF AccountsInv, PurgeInv, PurgedBy
  <1>7. QED
    BY <1>2, <1>3, <1>4, <1>5, <1>6 DEF AccountsInv

LEMMA ReceivingKeepsAccounts ==
    ASSUME RepopulatesOnly, IInv, AccountsInv, NEW h \in Handlers, Receiving(h)
    PROVE  AccountsInv'
  <1>1. mode \in [Handlers -> {"new", "sync", "repop"}] /\ \A x \in Handlers : mode[x] # "sync"
    BY DEF IInv, TypeOK, HandlerTypeOK, AccountsInv, RecordsInv
  <1>2. /\ UNCHANGED <<storageVars, accounts, lockVars, attemptVars, doomed>> /\ Observe
    BY DEF Receiving, ReceiveMarker, Receive, ReceiveEOF, ReceiveError, CallRepopulate, Cancel
  <1>3. \A x \in Handlers : mode'[x] # "sync"
    <2>1. ASSUME NEW m \in Messages \cup FirstMessages, Receive(h, m)
          PROVE  \A x \in Handlers : mode'[x] # "sync"
      <3>1. mode[h] = "repop"
        BY <1>1, <2>1 DEF Receive, RepopulatesOnly
      <3>2. QED
        BY <1>1, <2>1, <3>1 DEF Receive
    <2>2. QED
      BY <1>1, <2>1 DEF Receiving, ReceiveMarker, ReceiveEOF, ReceiveError, CallRepopulate, Cancel
  <1>4. QED
    BY <1>2, <1>3, HandlerStepKeepsAccounts

LEMMA AdvancingKeepsAccounts ==
    ASSUME IInv, AccountsInv, NEW h \in Handlers, Advancing(h)
    PROVE  AccountsInv'
  <1>1. doomed \in [Handlers -> [Uids -> Records]] /\ \A x \in Handlers : mode[x] # "sync"
    BY GoroutineTypes DEF AccountsInv, RecordsInv
  <1>2. UNCHANGED <<storageVars, accounts, lockVars, attemptVars, mode>> /\ Observe
    BY DEF Advancing, ApplyDone, ListDoomed, CleanupDone
  <1>3. \A x \in Handlers, u \in Uids : doomed'[x][u] \in {doomed[x][u], users[u], NotStored}
    <2>1. CASE ListDoomed(h)
      BY <1>1, <2>1 DEF ListDoomed
    <2>2. QED
      BY <2>1 DEF Advancing, ApplyDone, CleanupDone
  <1>4. QED
    BY <1>1, <1>2, <1>3, HandlerStepKeepsAccounts

LEMMA InitAccounts ==
    ASSUME StoredAreRegistered, Init
    PROVE  AccountsInv
  <1>1. \A h \in Handlers, u \in Uids : ~Purging(h, u) /\ ~PurgedBy(h, u)
    BY DEF Init, Purging, PurgedBy, Goroutines
  <1>2. RecordsInv
    BY InitUsersAssumption, GrantedTags DEF Init, RecordsInv, StoredAreRegistered, Granted
  <1>3. \A g \in Goroutines : EffectInv(g) /\ MatchInv(g)
    BY DEF Init, EffectInv, MatchInv, Inside, AttemptSteps
  <1>4. WitnessInv
    BY <1>1 DEF Init, WitnessInv
  <1>5. QED
    BY <1>1, <1>2, <1>3, <1>4 DEF AccountsInv, FreeInv, PurgeInv, Init

LEMMA NextAccounts ==
    ASSUME RepopulatesOnly, IInv, CauseInv, AccountsInv, [Next]_vars
    PROVE  AccountsInv'
  <1>1. ASSUME NEW h \in Handlers, Receiving(h) \/ Advancing(h) PROVE AccountsInv'
    BY <1>1, ReceivingKeepsAccounts, AdvancingKeepsAccounts
  <1>2. ASSUME NEW g \in Goroutines,
               Dispatching(g) \/ Locking(g) \/ Deciding(g) \/ Calling(g) \/ Storing(g)
        PROVE  AccountsInv'
    BY <1>2, DispatchingKeepsAccounts, LockingKeepsAccounts, DecidingKeepsAccounts,
       CallingKeepsAccounts, StoringKeepsAccounts
  <1>3. CASE UNCHANGED vars
    <2>1. UNCHANGED <<users, inbounds, accounts, holder, pc, job, snap, new, todo, failed,
                      mode, doomed, suspect, collided>>
      BY <1>3 DEF vars
    <2>2. RecordsInv' /\ WitnessInv'
      BY <2>1 DEF AccountsInv, RecordsInv, WitnessInv, Purging
    <2>3. ASSUME NEW g \in Goroutines PROVE EffectInv(g)' /\ MatchInv(g)'
      <3>1. EffectInv(g) /\ MatchInv(g)
        BY DEF AccountsInv
      <3>2. EffectInv(g)'
        BY <2>1, <3>1 DEF EffectInv, Account, Removed, ResolveInbounds, ListInbounds, Granted
      <3>3. MatchInv(g)'
        BY <2>1, <3>1 DEF MatchInv, Granted
      <3>4. QED
        BY <3>2, <3>3
    <2>4. \A u \in Uids : FreeInv(u)' /\ \A h \in Handlers : PurgeInv(h, u)'
      BY <2>1 DEF AccountsInv, FreeInv, PurgeInv, PurgedBy, Granted
    <2>5. QED
      BY <2>2, <2>3, <2>4 DEF AccountsInv
  <1>4. QED
    BY <1>1, <1>2, <1>3 DEF Next, Finished

-----------------------------------------------------------------------------
(* What is granted was asked for *)

\* Some message that was received asks for user u on inbound t.
Asks(u, t) ==
    \E h \in Handlers : \E m \in Sent(h) : m.uid = u /\ m.named /\ t \in Granted(Wanted(m))

\* An attempt adds nothing that it has not resolved.
AddsNew(g) == pc[g] = "add" => todo[g] \subseteq new[g]

AskedInv ==
    /\ \A h \in Handlers : mode[h] # "sync"
    /\ \A g \in Goroutines : AddsNew(g)
    /\ \A u \in Uids : \A t \in accounts[u] \ Granted(InitUsers[u]) : Asks(u, t)

\* Messages are only ever added to what a handler has received.
LEMMA SentGrows ==
    ASSUME IInv, CauseInv, [Next]_vars
    PROVE  inbounds' = inbounds /\ \A h \in Handlers : Sent(h) \subseteq Sent(h)'
  <1>1. sent \in [Handlers -> Seq(Message)]
    BY DEF IInv, TypeOK, HistoryTypeOK
  <1>2. inbounds' = inbounds
    BY DEF Next, Finished, vars, Receiving, Advancing, Dispatching, Locking, Deciding, Calling,
           Storing, storageVars, Commit, Drop, RemoveUser, UpdateUserInbounds
  <1>3. ASSUME NEW h \in Handlers, NEW m \in Messages \cup FirstMessages, Receive(h, m)
        PROVE  \A x \in Handlers : Sent(x) \subseteq Sent(x)'
    <2>1. m \in Message /\ sent' = [sent EXCEPT ![h] = Append(@, m)]
      BY <1>3, MessagesAssumption DEF Receive
    <2>2. Sent(h)' = Sent(h) \cup {m}
      BY <1>1, <2>1, ElementsOfAppend DEF Sent
    <2>3. \A x \in Handlers \ {h} : Sent(x)' = Sent(x)
      BY <1>1, <2>1 DEF Sent
    <2>4. QED
      BY <2>2, <2>3
  <1>4. ASSUME NEW h \in Handlers, CallRepopulate(h)
        PROVE  \A x \in Handlers : Sent(x) \subseteq Sent(x)'
    <2>1. Sent(h) = {}
      BY <1>4 DEF CauseInv, HandlerInv, CallRepopulate, Sent, Elements
    <2>2. \A x \in Handlers \ {h} : sent'[x] = sent[x]
      BY <1>1, <1>4 DEF CallRepopulate
    <2>3. QED
      BY <2>1, <2>2 DEF Sent
  <1>5. sent' = sent => \A h \in Handlers : Sent(h) \subseteq Sent(h)'
    BY DEF Sent
  <1>6. \/ sent' = sent
        \/ \E h \in Handlers :
              CallRepopulate(h) \/ \E m \in Messages \cup FirstMessages : Receive(h, m)
    BY DEF Next, Finished, vars, Receiving, ReceiveMarker, ReceiveEOF, ReceiveError, Cancel,
           Advancing, ApplyDone, ListDoomed, CleanupDone, Dispatching, Locking, Deciding,
           Calling, Storing
  <1>7. QED
    BY <1>2, <1>3, <1>4, <1>5, <1>6

LEMMA ModesStay ==
    ASSUME RepopulatesOnly, IInv, [Next]_vars, \A h \in Handlers : mode[h] # "sync"
    PROVE  \A h \in Handlers : mode'[h] # "sync"
  <1>1. mode \in [Handlers -> {"new", "sync", "repop"}]
    BY DEF IInv, TypeOK, HandlerTypeOK
  <1>2. ASSUME NEW h \in Handlers, NEW m \in Messages \cup FirstMessages, Receive(h, m)
        PROVE  mode' = mode
    <2>1. mode[h] = "repop"
      BY <1>1, <1>2 DEF Receive, RepopulatesOnly
    <2>2. QED
      BY <1>2, <2>1 DEF Receive
  <1>3. ASSUME NEW h \in Handlers, ReceiveMarker(h)
        PROVE  \A x \in Handlers : mode'[x] # "sync"
    BY <1>1, <1>3 DEF ReceiveMarker
  <1>4. \/ mode' = mode
        \/ \E h \in Handlers :
              ReceiveMarker(h) \/ \E m \in Messages \cup FirstMessages : Receive(h, m)
    BY DEF Next, Finished, vars, Receiving, ReceiveEOF, ReceiveError, CallRepopulate, Cancel,
           Advancing, ApplyDone, ListDoomed, CleanupDone, Dispatching, Take, PurgeNext, Locking,
           Deciding, Calling, Storing, handlerVars
  <1>5. QED
    BY <1>2, <1>3, <1>4

LEMMA AddsNewKept ==
    ASSUME IInv, CauseInv, \A h \in Handlers : mode[h] # "sync",
           \A x \in Goroutines : AddsNew(x), NEW g \in Goroutines,
           Dispatching(g) \/ Locking(g) \/ Deciding(g) \/ Calling(g) \/ Storing(g)
    PROVE  \A x \in Goroutines : AddsNew(x)'
  <1> USE DEF Goto
  <1>1. /\ pc \in [Goroutines -> AttemptSteps \cup {"idle", "purge", "drop"}]
        /\ new \in [Goroutines -> Records] /\ todo \in [Goroutines -> SUBSET Tags]
    BY GoroutineTypes
  <1>2. ASSUME NEW x \in Goroutines \ {g}
        PROVE  pc'[x] = pc[x] /\ new'[x] = new[x] /\ todo'[x] = todo[x]
    <2>1. CASE Dispatching(g)
      BY <1>1, <1>2, <2>1 DEF Dispatching, Take, PurgeNext
    <2>2. CASE Locking(g)
      BY <1>1, <1>2, <2>2 DEF Locking, CallLockUser, EnterLock, Unlock, Idle, ClearLocals
    <2>3. CASE Deciding(g)
      BY <1>1, <1>2, <2>3
         DEF Deciding, Lookup, ResolveNew, ResolveRemoved, ResolveAdded, RemoveDone, AddDone,
             Retry, GiveUp, PurgeDone, Idle, ClearLocals
    <2>4. CASE Calling(g)
      BY <1>1, <1>2, <2>4, CallOutcome DEF Outcome
    <2>5. CASE Storing(g)
      BY <1>1, <1>2, <2>5 DEF Storing, Commit, Drop, Idle, ClearLocals
    <2>6. QED
      BY <2>1, <2>2, <2>3, <2>4, <2>5
  <1>3. AddsNew(g)'
    <2> SUFFICES ASSUME pc'[g] = "add" PROVE todo'[g] \subseteq new'[g]
      BY DEF AddsNew
    <2>1. ResolveNew(g) \/ ResolveAdded(g) \/ Calling(g)
      BY <1>1
         DEF Dispatching, Take, PurgeNext, Locking, CallLockUser, EnterLock, Unlock,
             Deciding, Lookup, ResolveRemoved, RemoveDone, AddDone, Retry, GiveUp, PurgeDone,
             Storing, Commit, Drop, Idle
    <2>2. CASE ResolveNew(g)
      BY <1>1, <2>2 DEF ResolveNew
    <2>3. CASE ResolveAdded(g)
      <3>1. HandlerOf(g) \in Handlers /\ phase[HandlerOf(g)] = "apply" /\ pc[g] = "resolveAdded"
        BY <2>3, HandlerOfType, GoroutineTypes DEF ResolveAdded, AttemptConsistent, AttemptSteps
      <3>2. mode[HandlerOf(g)] \in {"new", "sync", "repop"}
        BY <3>1 DEF IInv, TypeOK, HandlerTypeOK
      <3>3. ForceAdd(g)
        BY <3>1, <3>2 DEF CauseInv, HandlerInv, ForceAdd
      <3>4. QED
        BY <1>1, <2>3, <3>3 DEF ResolveAdded
    <2>4. CASE Calling(g)
      <3>1. PICK t \in todo[g] : Outcome(g, t)
        BY <2>4, CallOutcome
      <3>2. pc[g] = "add" /\ new'[g] = new[g] /\ todo'[g] \subseteq todo[g]
        BY <1>1, <3>1 DEF Outcome
      <3>3. QED
        BY <3>2 DEF AddsNew
    <2>5. QED
      BY <2>1, <2>2, <2>3, <2>4
  <1>4. ASSUME NEW x \in Goroutines PROVE AddsNew(x)'
    <2>1. CASE x = g
      BY <1>3, <2>1
    <2>2. CASE x # g
      BY <1>2, <2>2 DEF AddsNew
    <2>3. QED
      BY <2>1, <2>2
  <1>5. QED
    BY <1>4

LEMMA NextAsked ==
    ASSUME RepopulatesOnly, IInv, CauseInv, AskedInv, [Next]_vars
    PROVE  AskedInv'
  <1>1. \A h \in Handlers : mode'[h] # "sync"
    BY ModesStay DEF AskedInv
  <1>2. \A g \in Goroutines : AddsNew(g)'
    <2>1. CASE \E g \in Goroutines :
                  Dispatching(g) \/ Locking(g) \/ Deciding(g) \/ Calling(g) \/ Storing(g)
      BY <2>1, AddsNewKept DEF AskedInv
    <2>2. CASE UNCHANGED attemptVars
      BY <2>2 DEF AskedInv, AddsNew, attemptVars
    <2>3. QED
      BY <2>1, <2>2 DEF Next, Finished, vars, attemptVars, Receiving, Advancing
  <1>3. inbounds' = inbounds /\ \A h \in Handlers : Sent(h) \subseteq Sent(h)'
    BY SentGrows
  <1>4. ASSUME NEW u \in Uids, NEW t, Asks(u, t) PROVE Asks(u, t)'
    <2>1. PICK h \in Handlers : \E m \in Sent(h) : m.uid = u /\ m.named /\ t \in Granted(Wanted(m))
      BY <1>4 DEF Asks
    <2>2. PICK m \in Sent(h) : m.uid = u /\ m.named /\ t \in Granted(Wanted(m))
      BY <2>1
    <2>3. t \in Granted(Wanted(m))'
      BY <1>3, <2>2 DEF Granted, Wanted, ResolveInbounds, ListInbounds
    <2>4. QED
      BY <1>3, <2>2, <2>3 DEF Asks
  <1>5. ASSUME NEW u \in Uids, NEW t \in accounts'[u], t \notin accounts[u]
        PROVE  Asks(u, t)
    <2>1. PICK g \in Goroutines : Calling(g)
      BY <1>5 DEF Next, Finished, vars, Receiving, Advancing, Dispatching, Locking, Deciding,
                  Storing
    <2>2. PICK c \in todo[g] : Outcome(g, c)
      BY <2>1, CallOutcome
    <2>3. pc[g] = "add" /\ u = job[g].uid /\ t = c /\ t \in Served
      BY <1>5, <2>2 DEF Outcome
    <2>4. t \in new[g] /\ NewInv(g) /\ JobInv(g) /\ HandlerOf(g) \in Handlers
      BY <2>3, HandlerOfType DEF AskedInv, AddsNew, CauseInv
    <2>5. new[g] \in SUBSET Tags /\ new[g] = Wanted(job[g])
      BY <2>3, <2>4, ResolveTags DEF NewInv, Wanted, IInv, TypeOK
    <2>6. t \in Granted(Wanted(job[g]))
      BY <2>3, <2>4, <2>5, GrantedTags
    <2>7. QED
      BY <2>3, <2>4, <2>6 DEF Asks, JobInv, AttemptSteps
  <1>6. \A u \in Uids : \A t \in accounts'[u] \ Granted(InitUsers[u]) : Asks(u, t)'
    BY <1>4, <1>5 DEF AskedInv
  <1>7. QED
    BY <1>1, <1>2, <1>6 DEF AskedInv, Granted

-----------------------------------------------------------------------------
(* The theorems about accounts *)

\* With repopulates only, what each attempt and each cleanup has done to the
\* accounts so far is known in every state.
THEOREM SyncAccounts ==
    ASSUME RepopulatesOnly, StoredAreRegistered
    PROVE  Spec => []AccountsInv
  <1>1. Init => AccountsInv
    BY InitAccounts
  <1>2. IInv /\ CauseInv /\ AccountsInv /\ [Next]_vars => AccountsInv'
    BY NextAccounts
  <1>3. QED
    BY <1>1, <1>2, SyncInvariant, SyncCauses, PTL DEF Spec

\* Where clients only repopulate, an attempt that reports success has had its
\* effect, whatever attempts before it did half of: what it stored is granted
\* in the backends, and what the record had besides is not, unless two
\* repopulates shared the user without a lock (applyUserData with forceAdd,
\* service.go:200-269). With ordinary streams beside, the run checks it.
THEOREM SuccessHasItsEffect ==
    ASSUME RepopulatesOnly, StoredAreRegistered
    PROVE  Spec => []SuccessIsEffective
  <1>1. AccountsInv => SuccessIsEffective
    <2> SUFFICES ASSUME AccountsInv, NEW g \in Goroutines, pc[g] = "unlock", ~failed[g],
                        job[g].uid \notin collided
                 PROVE  /\ Granted(new[g]) \subseteq accounts[job[g].uid]
                        /\ accounts[job[g].uid] \cap (Granted(snap[g]) \ Granted(new[g])) = {}
      BY DEF SuccessIsEffective
    <2>1. EffectInv(g)
      BY DEF AccountsInv
    <2>2. QED
      BY <2>1 DEF EffectInv, Account, Inside, AttemptSteps
  <1>2. QED
    BY <1>1, SyncAccounts, PTL

\* Between two treatments of a user the backends accept it exactly on the
\* inbounds stored for it, unless a call for it has failed or a cleanup has
\* crossed an attempt, however many repopulates run side by side
\* (service.go:200-269, 394-408, 491-503).
THEOREM StoreAndBackendsAgree ==
    ASSUME RepopulatesOnly, StoredAreRegistered
    PROVE  Spec => []AccountsMatchStore
  <1>1. AccountsInv => AccountsMatchStore
    BY DEF AccountsInv, AccountsMatchStore, FreeInv, Settled, PurgedBy, Purging
  <1>2. QED
    BY <1>1, SyncAccounts, PTL

\* A user is accepted only on inbounds it had at the start or that some message
\* of a repopulate asked for, whatever fails, races or is retried
\* (service.go:176-190, 200-269).
THEOREM OnlyAskedIsGranted ==
    ASSUME RepopulatesOnly
    PROVE  Spec => []GrantedOnlyIfAsked
  <1>1. Init => AskedInv
    BY HandlersAssumption DEF Init, AskedInv, AddsNew, Handlers
  <1>2. IInv /\ CauseInv /\ AskedInv /\ [Next]_vars => AskedInv'
    BY NextAsked
  <1>3. AskedInv => GrantedOnlyIfAsked
    BY DEF AskedInv, Asks, GrantedOnlyIfAsked, RequestsFor, Sent, Elements
  <1>4. QED
    BY <1>1, <1>2, <1>3, SyncInvariant, SyncCauses, PTL DEF Spec

-----------------------------------------------------------------------------
(* What the messages of a handler that runs alone leave in the storage *)

\* A stream that broke off has dropped what it had not taken.
BrokenOff(h) == phase[h] = "done" /\ ~eof[h]

\* How many messages of h have been taken from its batch.
Taken(h) == Len(sent[h]) - Len(batch[h])

\* The messages that have yet to be taken, by their place in sent.
Ahead(h) == (Taken(h) + 1)..Len(sent[h])

\* No message of T is later than i, but those that workers apply beside it.
Latest(h, i, T) == \A j \in T : j <= i \/ ShareAPool(h, i, j)

\* A chunk that begins after k messages has them side by side.
Aligned(k) == \A x \in 0..(ChunkSize - 1) : (k + x) \div ChunkSize = k \div ChunkSize

\* The batch is what was received last, and a chunk for the pool begins where
\* the one before has ended.
BatchInv(h) ==
    /\ Len(batch[h]) <= Len(sent[h])
    /\ \A i \in 1..Len(batch[h]) : batch[h][i] = sent[h][Taken(h) + i]
    /\ pooled[h] => mode[h] = "repop"
    /\ h \in Streams /\ mode[h] = "repop" /\ phase[h] = "recv" =>
          Len(batch[h]) < ChunkSize /\ Aligned(Taken(h))
    /\ h \in Streams /\ mode[h] = "repop" /\ phase[h] = "apply" /\ ~eof[h] => Aligned(Len(sent[h]))
    /\ mode[h] = "new" => batch[h] = <<>>
    /\ pooled[h] /\ phase[h] = "apply" => \A i, j \in Ahead(h) : ShareAPool(h, i, j)

\* An attempt is for the message that was taken last, or for one of those that
\* the pool has taken from its chunk.
LatestInv(h, g) ==
    /\ pc[g] \in AttemptSteps =>
          /\ pooled[h] <=> g \in Workers
          /\ \E i \in TakenFor(h, job[g].uid) :
                /\ job[g] = sent[h][i]
                /\ Latest(h, i, TakenFor(h, job[g].uid))
                /\ pooled[h] => \A j \in Ahead(h) : ShareAPool(h, i, j)
    /\ failed[g] => job[g].uid \in suspect
    /\ pc[g] = "backoff" => failed[g]

\* Where an attempt has yet to store something, or has failed.
Unstored == AttemptSteps \ {"unlock", "backoff"}

\* What is stored for u is what the last message taken said, unless an attempt
\* is under way, and a user without a message stays unless a cleanup treats it.
StoredInv(h, u) ==
    u \notin suspect /\ ~BrokenOff(h) =>
        IF TakenFor(h, u) # {}
        THEN \/ \E i \in TakenFor(h, u) :
                   users[u] = Wanted(sent[h][i]) /\ Latest(h, i, TakenFor(h, u))
             \/ \E g \in Goroutines : pc[g] \in Unstored /\ job[g].uid = u
        ELSE IF phase[h] \in {"cleanup", "done"} /\ mode[h] = "repop" /\ u \notin keep[h]
        THEN users[u] = NotStored \/ Purging(h, u)
        ELSE users[u] = InitUsers[u]

FollowInv ==
    \A h \in Handlers : Handlers = {h} =>
        /\ BatchInv(h)
        /\ \A g \in Goroutines : LatestInv(h, g)
        /\ \A u \in Uids : StoredInv(h, u)

\* Chunks of one size: the next begins in step where one is full.
LEMMA NextAligned ==
    ASSUME NEW k \in Nat, Aligned(k)
    PROVE  Aligned(k + ChunkSize)
  <1>1. ChunkSize \in Nat \ {0}
    BY SizesAssumption
  <1>2. \A a \in Nat : (a + ChunkSize) \div ChunkSize = (a \div ChunkSize) + 1
    BY <1>1
  <1>3. ASSUME NEW x \in 0..(ChunkSize - 1)
        PROVE  (k + ChunkSize + x) \div ChunkSize = (k + ChunkSize) \div ChunkSize
    <2>1. k + x \in Nat /\ k + ChunkSize + x = (k + x) + ChunkSize
      BY <1>1
    <2>2. (k + x) \div ChunkSize = k \div ChunkSize
      BY DEF Aligned
    <2>3. QED
      BY <1>2, <2>1, <2>2
  <1>4. QED
    BY <1>3 DEF Aligned

LEMMA ZeroAligned == Aligned(0)
  <1>1. ChunkSize \in Nat \ {0}
    BY SizesAssumption
  <1>2. \A x \in 0..(ChunkSize - 1) : x \div ChunkSize = 0
    BY <1>1
  <1>3. QED
    BY <1>1, <1>2 DEF Aligned

\* Messages of one chunk share it.
LEMMA ChunkIsShared ==
    ASSUME NEW k \in Nat, Aligned(k), NEW h, mode[h] = "repop", ChunkSize >= BulkThreshold,
           NEW i \in (k + 1)..(k + ChunkSize), NEW j \in (k + 1)..(k + ChunkSize)
    PROVE  ShareAPool(h, i, j)
  <1>1. ChunkSize \in Nat \ {0}
    BY SizesAssumption
  <1>2. /\ i - 1 - k \in 0..(ChunkSize - 1) /\ k + (i - 1 - k) = i - 1
        /\ j - 1 - k \in 0..(ChunkSize - 1) /\ k + (j - 1 - k) = j - 1
    BY <1>1
  <1>3. (i - 1) \div ChunkSize = k \div ChunkSize /\ (j - 1) \div ChunkSize = k \div ChunkSize
    BY <1>2 DEF Aligned
  <1>4. QED
    BY <1>3 DEF ShareAPool

LEMMA SuspectsGrow ==
    ASSUME Observe
    PROVE  /\ suspect \subseteq suspect'
           /\ \A g \in Goroutines : failed'[g] => job[g].uid \in suspect'
  BY DEF Observe

\* Nothing about a message changes with its place in what was received.
LEMMA SameRequests ==
    ASSUME UNCHANGED <<phase, mode, batch, pooled, eof, sent, inbounds>>
    PROVE  /\ \A h, u : TakenFor(h, u)' = TakenFor(h, u)
           /\ \A h, i, T : Latest(h, i, T)' <=> Latest(h, i, T)
           /\ \A h, i, j : ShareAPool(h, i, j)' <=> ShareAPool(h, i, j)
           /\ \A h : /\ Ahead(h)' = Ahead(h) /\ (BrokenOff(h)' <=> BrokenOff(h))
                     /\ BatchInv(h)' <=> BatchInv(h)
           /\ \A m : Wanted(m)' = Wanted(m)
  BY DEF TakenFor, RequestsFor, Latest, ShareAPool, Ahead, Taken, BrokenOff, BatchInv, Aligned,
         Wanted, ResolveInbounds, ListInbounds

\* What a goroutine does to the storage: an attempt stores what its message
\* says before it ends, or has failed, and a purge removes its user, or has.
Orderly(g) ==
    /\ GoesOn(g)
    /\ failed'[g] => job'[g] = job[g]
    /\ pc'[g] = "backoff" => failed'[g]
    /\ pc[g] \in Unstored /\ pc'[g] \notin Unstored =>
          failed[g] \/ users'[job[g].uid] = Wanted(job[g])
    /\ pc[g] \in {"purge", "drop"} =>
          \/ pc'[g] \in {"purge", "drop"} /\ job'[g] = job[g]
          \/ failed[g] \/ users'[job[g].uid] = NotStored
    /\ \A v \in Uids : users'[v] # users[v] =>
          /\ v = job[g].uid
          /\ \/ pc[g] \in AttemptSteps /\ users'[v] = Wanted(job[g])
             \/ pc[g] = "drop" /\ users'[v] = NotStored

LEMMA OrderlyKeepsFollow ==
    ASSUME IInv, CauseInv, FollowInv, NEW g \in Goroutines, LocalMove(g), Observe,
           UNCHANGED <<handlerVars, sent, inbounds>>, Orderly(g)
    PROVE  FollowInv'
  <1> SUFFICES ASSUME NEW h \in Handlers, Handlers = {h}
               PROVE  /\ BatchInv(h)'
                      /\ \A x \in Goroutines : LatestInv(h, x)'
                      /\ \A u \in Uids : StoredInv(h, u)'
    BY DEF FollowInv
  <1>1. /\ BatchInv(h) /\ HandlerInv(h)
        /\ \A x \in Goroutines : LatestInv(h, x) /\ AttemptConsistent(x)
    BY GoroutineTypes DEF FollowInv, CauseInv
  <1>2. suspect \subseteq suspect' /\ (failed'[g] => job[g].uid \in suspect')
    BY SuspectsGrow
  <1> USE DEF handlerVars
  <1>3. \A x \in Goroutines \ {g} : pc'[x] = pc[x] /\ job'[x] = job[x] /\ failed'[x] = failed[x]
    BY DEF LocalMove
  <1>4. BatchInv(h)'
    BY <1>1, SameRequests
  <1>5. ASSUME NEW x \in Goroutines PROVE LatestInv(h, x)'
    <2>1. LatestInv(h, x)
      BY <1>1
    <2>2. failed'[x] => job'[x].uid \in suspect'
      BY <1>2, <1>3, <2>1 DEF Orderly, LatestInv
    <2>3. pc'[x] = "backoff" => failed'[x]
      BY <1>3, <2>1 DEF Orderly, LatestInv
    <2>4. ASSUME pc'[x] \in AttemptSteps, NEW v, v = job'[x].uid
          PROVE  /\ pooled'[h] <=> x \in Workers
                 /\ \E i \in TakenFor(h, v)' :
                       /\ job'[x] = sent'[h][i]
                       /\ Latest(h, i, TakenFor(h, v))'
                       /\ pooled'[h] => \A j \in Ahead(h)' : ShareAPool(h, i, j)'
      <3>1. pc[x] \in AttemptSteps /\ job'[x] = job[x]
        BY <1>3, <2>4 DEF Orderly, GoesOn, AttemptSteps
      <3>2. pooled' = pooled /\ sent' = sent
        BY DEF handlerVars
      <3>3. /\ TakenFor(h, v)' = TakenFor(h, v) /\ Ahead(h)' = Ahead(h)
            /\ \A i : Latest(h, i, TakenFor(h, v))' <=> Latest(h, i, TakenFor(h, v))
            /\ \A i, j : ShareAPool(h, i, j)' <=> ShareAPool(h, i, j)
        <4>1. TakenFor(h, v)' = TakenFor(h, v) /\ Ahead(h)' = Ahead(h)
          BY SameRequests
        <4>2. \A i, j : ShareAPool(h, i, j)' <=> ShareAPool(h, i, j)
          BY SameRequests
        <4>3. QED
          BY <4>1, <4>2 DEF Latest
      <3>4. QED
        BY <2>1, <2>4, <3>1, <3>2, <3>3 DEF LatestInv
    <2>5. QED
      BY <2>2, <2>3, <2>4 DEF LatestInv
  <1>6. ASSUME NEW u \in Uids PROVE StoredInv(h, u)'
    <2> SUFFICES ASSUME u \notin suspect', ~BrokenOff(h)' PROVE StoredInv(h, u)'
      BY DEF StoredInv
    <2>1. u \notin suspect /\ ~BrokenOff(h) /\ StoredInv(h, u)
      BY <1>2, SameRequests DEF FollowInv
    <2>2. /\ TakenFor(h, u)' = TakenFor(h, u) /\ sent' = sent
          /\ \A m : Wanted(m)' = Wanted(m)
          /\ \A i : Latest(h, i, TakenFor(h, u))' <=> Latest(h, i, TakenFor(h, u))
      <3>1. TakenFor(h, u)' = TakenFor(h, u) /\ \A m : Wanted(m)' = Wanted(m)
        BY SameRequests
      <3>2. \A i, j : ShareAPool(h, i, j)' <=> ShareAPool(h, i, j)
        BY SameRequests
      <3>3. QED
        BY <3>1, <3>2 DEF Latest
    <2>3. g \in Handlers => g = h
      OBVIOUS
    <2>4. pc[g] \in AttemptSteps /\ job[g].uid = u =>
             \E i \in TakenFor(h, u) : job[g] = sent[h][i] /\ Latest(h, i, TakenFor(h, u))
      BY <1>1 DEF LatestInv
    <2>5. pc[g] \in {"purge", "drop"} => g = h
      BY <1>1, <2>3 DEF AttemptConsistent
    <2>6. failed[g] => job[g].uid # u
      BY <1>1, <2>1 DEF LatestInv
    <2>7. CASE TakenFor(h, u) # {}
      <3>1. ~Purging(h, u)
        <4>1. PICK i \in 1..Len(sent[h]) : sent[h][i].uid = u
          BY <2>7 DEF TakenFor, RequestsFor
        <4>2. sent[h][i] \in Sent(h)
          BY DEF Sent, Elements
        <4>3. QED
          BY <1>1, <4>1, <4>2 DEF HandlerInv
      <3>2. users'[u] # users[u] => pc[g] \in AttemptSteps /\ job[g].uid = u /\ users'[u] = Wanted(job[g])
        BY <2>5, <3>1 DEF Orderly, Purging
      <3> DEFINE Done == \E i \in TakenFor(h, u) :
                            users'[u] = Wanted(sent[h][i]) /\ Latest(h, i, TakenFor(h, u))
                 Busy == \E x \in Goroutines : pc'[x] \in Unstored /\ job'[x].uid = u
      <3>3. ASSUME NEW i \in TakenFor(h, u), users[u] = Wanted(sent[h][i]),
                   Latest(h, i, TakenFor(h, u))
            PROVE  Done
        BY <2>4, <3>2, <3>3
      <3>4. ASSUME NEW x \in Goroutines, pc[x] \in Unstored, job[x].uid = u
            PROVE  Done \/ Busy
        <4>1. CASE x # g
          BY <1>3, <3>4, <4>1
        <4>2. CASE x = g /\ pc'[g] \in Unstored
          <5>1. job'[g] = job[g]
            BY <4>2 DEF Orderly, GoesOn, Unstored, AttemptSteps
          <5>2. QED
            BY <3>4, <4>2, <5>1
        <4>3. CASE x = g /\ pc'[g] \notin Unstored
          <5>1. users'[u] = Wanted(job[g]) /\ pc[g] \in AttemptSteps
            BY <2>6, <3>4, <4>3 DEF Orderly, Unstored
          <5>2. QED
            BY <2>4, <3>4, <4>3, <5>1
        <4>4. QED
          BY <4>1, <4>2, <4>3
      <3>5. Done \/ Busy
        BY <2>1, <2>7, <3>3, <3>4 DEF StoredInv
      <3>6. QED
        BY <2>2, <2>7, <3>5 DEF StoredInv
    <2>8. CASE TakenFor(h, u) = {}
      <3>1. users'[u] # users[u] => g = h /\ pc[g] = "drop" /\ job[g].uid = u /\ users'[u] = NotStored
        BY <2>4, <2>5, <2>8 DEF Orderly
      <3>2. Purging(h, u) => phase[h] = "cleanup" /\ mode[h] = "repop" /\ u \notin keep[h]
        BY <1>1 DEF HandlerInv
      <3>3. ASSUME Purging(h, u) PROVE users'[u] = NotStored \/ Purging(h, u)'
        <4>1. doomed' = doomed
          BY DEF handlerVars
        <4>2. h \in Goroutines
          BY DEF Goroutines
        <4>3. QED
          BY <1>3, <2>6, <3>3, <4>1, <4>2 DEF Orderly, Purging
      <3>4. phase' = phase /\ mode' = mode /\ keep' = keep
        BY DEF handlerVars
      <3>5. users'[u] # users[u] => Purging(h, u) /\ users'[u] = NotStored
        BY <3>1 DEF Purging
      <3>6. CASE phase[h] \in {"cleanup", "done"} /\ mode[h] = "repop" /\ u \notin keep[h]
        BY <2>1, <2>2, <2>8, <3>3, <3>4, <3>5, <3>6 DEF StoredInv
      <3>7. CASE ~(phase[h] \in {"cleanup", "done"} /\ mode[h] = "repop" /\ u \notin keep[h])
        BY <2>1, <2>2, <2>8, <3>2, <3>4, <3>5, <3>7 DEF StoredInv
      <3>8. QED
        BY <3>6, <3>7
    <2>9. QED
      BY <2>7, <2>8
  <1>7. QED
    BY <1>4, <1>5, <1>6

LEMMA DecidingKeepsFollow ==
    ASSUME IInv, CauseInv, FollowInv, NEW g \in Goroutines, Deciding(g)
    PROVE  FollowInv'
  <1>1. /\ LocalMove(g) /\ Observe
        /\ UNCHANGED <<handlerVars, sent, inbounds>> /\ users' = users
    BY DecidingKeeps DEF Deciding, storageVars
  <1>2. Orderly(g)
    <2> USE GoroutineTypes DEF Goto, AttemptSteps, Unstored
    <2>1. ASSUME Lookup(g) PROVE Orderly(g)
      <3>1. /\ pc[g] = "lookup" /\ job' = job /\ failed' = failed
            /\ pc'[g] \in {"resolveNew", "remove", "unlock"}
            /\ pc'[g] = "unlock" => job[g].tags = {} /\ users[job[g].uid] = NotStored
        BY <2>1 DEF Lookup, GetUser
      <3>2. QED
        BY <1>1, <3>1 DEF Orderly, GoesOn, Wanted
    <2>2. ASSUME ResolveNew(g) \/ ResolveRemoved(g) \/ ResolveAdded(g) PROVE Orderly(g)
      <3>1. /\ pc[g] \in {"resolveNew", "resolveRemoved", "resolveAdded"}
            /\ pc'[g] \in {"resolveRemoved", "remove", "add"} /\ job' = job /\ failed' = failed
        BY <2>2 DEF ResolveNew, ResolveRemoved, ResolveAdded
      <3>2. QED
        BY <1>1, <3>1 DEF Orderly, GoesOn
    <2>3. ASSUME RemoveDone(g) \/ AddDone(g) PROVE Orderly(g)
      <3>1. /\ pc[g] \in {"remove", "add"} /\ job' = job /\ failed' = failed
            /\ pc'[g] \in {"unlock", "commit", "resolveAdded"} /\ (pc'[g] = "unlock" => failed[g])
        BY <2>3 DEF RemoveDone, AddDone
      <3>2. QED
        BY <1>1, <3>1 DEF Orderly, GoesOn
    <2>4. ASSUME Retry(g) PROVE Orderly(g)
      <3>1. pc[g] = "backoff" /\ pc'[g] = "start" /\ job' = job /\ ~failed'[g]
        BY <2>4 DEF Retry, ClearLocals
      <3>2. QED
        BY <1>1, <3>1 DEF Orderly, GoesOn
    <2>5. ASSUME GiveUp(g) PROVE Orderly(g)
      <3>1. pc[g] = "backoff" /\ pc'[g] = "idle" /\ ~failed'[g]
        BY <2>5 DEF GiveUp, Idle, ClearLocals
      <3>2. QED
        BY <1>1, <3>1 DEF Orderly, GoesOn
    <2>6. ASSUME PurgeDone(g) PROVE Orderly(g)
      <3>1. /\ pc[g] = "purge"
            /\ \/ failed[g] /\ pc'[g] = "idle" /\ ~failed'[g]
               \/ pc'[g] = "drop" /\ job' = job /\ failed' = failed
        BY <2>6 DEF PurgeDone, Idle, ClearLocals
      <3>2. QED
        BY <1>1, <3>1 DEF Orderly, GoesOn
    <2>7. QED
      BY <2>1, <2>2, <2>3, <2>4, <2>5, <2>6 DEF Deciding
  <1>3. QED
    BY <1>1, <1>2, OrderlyKeepsFollow

LEMMA LockingKeepsFollow ==
    ASSUME IInv, CauseInv, FollowInv, NEW g \in Goroutines, Locking(g)
    PROVE  FollowInv'
  <1>1. /\ LocalMove(g) /\ Observe
        /\ UNCHANGED <<handlerVars, sent, inbounds>> /\ users' = users
    BY LockingKeeps DEF Locking, storageVars
  <1>2. Orderly(g)
    <2> USE GoroutineTypes DEF Goto, AttemptSteps, Unstored
    <2>1. CASE CallLockUser(g) \/ EnterLock(g)
      <3>1. /\ pc[g] \in {"start", "wait"} /\ pc'[g] \in {"wait", "lookup"}
            /\ job' = job /\ failed' = failed
        BY <2>1 DEF CallLockUser, EnterLock
      <3>2. QED
        BY <1>1, <3>1 DEF Orderly, GoesOn
    <2>2. CASE Unlock(g)
      <3>1. /\ pc[g] = "unlock"
            /\ \/ pc'[g] = "backoff" /\ failed[g] /\ job' = job /\ failed' = failed
               \/ pc'[g] = "idle" /\ ~failed'[g]
        BY <2>2 DEF Unlock, Idle, ClearLocals
      <3>2. QED
        BY <1>1, <3>1 DEF Orderly, GoesOn
    <2>3. QED
      BY <2>1, <2>2 DEF Locking
  <1>3. QED
    BY <1>1, <1>2, OrderlyKeepsFollow

LEMMA CallingKeepsFollow ==
    ASSUME IInv, CauseInv, FollowInv, NEW g \in Goroutines, Calling(g)
    PROVE  FollowInv'
  <1>1. /\ LocalMove(g) /\ Observe /\ UNCHANGED <<handlerVars, sent, inbounds>>
        /\ users' = users /\ job' = job /\ pc' = pc /\ pc[g] # "backoff"
    BY CallingKeeps DEF Calling, storageVars, RemoveCall, AddCall, PurgeCall
  <1>2. Orderly(g)
    BY <1>1 DEF Orderly, GoesOn
  <1>3. QED
    BY <1>1, <1>2, OrderlyKeepsFollow

LEMMA StoringKeepsFollow ==
    ASSUME IInv, CauseInv, FollowInv, NEW g \in Goroutines, Storing(g)
    PROVE  FollowInv'
  <1>1. /\ LocalMove(g) /\ Observe /\ UNCHANGED <<handlerVars, sent, inbounds>>
    BY StoringKeeps DEF Storing, Commit, Drop, RemoveUser, UpdateUserInbounds
  <1>2. Orderly(g)
    <2> USE GoroutineTypes DEF Goto, AttemptSteps, Unstored
    <2>1. CASE Commit(g)
      <3>1. /\ pc[g] = "commit" /\ pc'[g] = "unlock" /\ job' = job /\ failed' = failed
            /\ users' = [users EXCEPT ![job[g].uid] =
                            IF job[g].tags = {} THEN NotStored ELSE new[g]]
        BY <2>1 DEF Commit, RemoveUser, UpdateUserInbounds
      <3>2. job[g].uid \in Uids /\ NewInv(g)
        BY <3>1 DEF AttemptConsistent, CauseInv
      <3>3. (IF job[g].tags = {} THEN NotStored ELSE new[g]) = Wanted(job[g])
        BY <3>1, <3>2 DEF NewInv, Wanted
      <3>4. /\ users'[job[g].uid] = Wanted(job[g])
            /\ \A v \in Uids : v # job[g].uid => users'[v] = users[v]
        BY <3>1, <3>2, <3>3
      <3>5. QED
        BY <3>1, <3>4 DEF Orderly, GoesOn
    <2>2. CASE Drop(g)
      <3>1. /\ pc[g] = "drop" /\ pc'[g] = "idle" /\ ~failed'[g]
            /\ users' = [users EXCEPT ![job[g].uid] = NotStored]
        BY <2>2 DEF Drop, RemoveUser, Idle, ClearLocals
      <3>2. job[g].uid \in Uids
        BY <3>1 DEF AttemptConsistent
      <3>3. QED
        BY <3>1, <3>2 DEF Orderly, GoesOn
    <2>3. QED
      BY <2>1, <2>2 DEF Storing
  <1>3. QED
    BY <1>1, <1>2, OrderlyKeepsFollow

\* The goroutine that takes the next message of the batch.
LEMMA TakeKeepsFollow ==
    ASSUME IInv, CauseInv, FollowInv, NEW g \in Goroutines, Dispatching(g), Take(g)
    PROVE  FollowInv'
  <1> SUFFICES ASSUME NEW h \in Handlers, Handlers = {h}
               PROVE  /\ BatchInv(h)'
                      /\ \A x \in Goroutines : LatestInv(h, x)'
                      /\ \A u \in Uids : StoredInv(h, u)'
    BY DEF FollowInv
  <1> DEFINE m == Head(batch[h])
             k == Taken(h)
  <1>1. HandlerOf(g) = h
    BY HandlerOfType
  <1>2. /\ BatchInv(h) /\ HandlerInv(h)
        /\ \A x \in Goroutines : LatestInv(h, x) /\ AttemptConsistent(x)
        /\ \A u \in Uids : StoredInv(h, u)
    BY GoroutineTypes DEF FollowInv, CauseInv
  <1>3. /\ batch \in [Handlers -> Seq(Message)] /\ sent[h] \in Seq(Message)
        /\ pc \in [Goroutines -> AttemptSteps \cup {"idle", "purge", "drop"}]
        /\ job \in [Goroutines -> Message \cup {NoJob}]
    BY DEF IInv, TypeOK, HandlerTypeOK, HistoryTypeOK, AttemptTypeOK
  <1>4. /\ pc[g] = "idle" /\ phase[h] = "apply" /\ batch[h] # <<>>
        /\ pooled[h] <=> g \in Workers
        /\ batch' = [batch EXCEPT ![h] = Tail(@)]
        /\ UNCHANGED <<phase, mode, pooled, keep, eof, doomed, users, inbounds, sent, failed>>
        /\ Observe
    BY <1>1 DEF Take, Dispatching, storageVars
  <1>5. /\ Len(batch[h]) \in Nat \ {0} /\ m = batch[h][1] /\ m \in Message
        /\ batch'[h] = Tail(batch[h]) /\ Len(batch'[h]) = Len(batch[h]) - 1
        /\ \A i \in 1..Len(batch'[h]) : batch'[h][i] = batch[h][i + 1]
    <2>1. batch'[h] = Tail(batch[h]) /\ batch[h] \in Seq(Message)
      BY <1>3, <1>4
    <2>2. batch[h] # <<>>
      BY <1>4
    <2>3. /\ Len(Tail(batch[h])) = Len(batch[h]) - 1
          /\ \A i \in 1..Len(Tail(batch[h])) : Tail(batch[h])[i] = batch[h][i + 1]
      BY <2>1, <2>2, HeadTailProperties
    <2>4. Len(batch[h]) \in Nat \ {0} /\ m = batch[h][1] /\ m \in Message
      BY <2>1, <2>2
    <2>5. QED
      BY <2>1, <2>3, <2>4
  <1>6. Len(sent[h]) \in Nat /\ Len(batch[h]) <= Len(sent[h])
    BY <1>2, <1>3 DEF BatchInv
  <1>7. /\ k \in Nat /\ Taken(h)' = k + 1 /\ k + 1 \in Ahead(h) /\ k + 1 \in 1..Len(sent[h])
        /\ Ahead(h)' = (k + 2)..Len(sent[h]) /\ Ahead(h)' \subseteq Ahead(h)
        /\ m = sent[h][k + 1]
    <2>1. k \in Nat /\ Taken(h)' = k + 1 /\ k + 1 <= Len(sent[h])
      <3>1. sent'[h] = sent[h]
        BY <1>4
      <3>2. Taken(h)' = Len(sent[h]) - (Len(batch[h]) - 1)
        BY <1>5, <3>1 DEF Taken
      <3>3. k = Len(sent[h]) - Len(batch[h])
        BY DEF Taken
      <3>4. Len(batch[h]) \in Nat \ {0}
        BY <1>5
      <3>5. QED
        BY <1>6, <3>2, <3>3, <3>4
    <2>2. m = sent[h][k + 1]
      BY <1>2, <1>5 DEF BatchInv
    <2>3. Ahead(h) = (k + 1)..Len(sent[h]) /\ Ahead(h)' = (k + 2)..Len(sent[h])
      BY <1>4, <2>1 DEF Ahead
    <2>4. QED
      BY <1>6, <2>1, <2>2, <2>3
  <1> HIDE DEF k
  <1>8. /\ \A i, j : ShareAPool(h, i, j)' <=> ShareAPool(h, i, j)
        /\ \A n : Wanted(n)' = Wanted(n)
        /\ BrokenOff(h)' <=> BrokenOff(h)
    BY <1>4 DEF ShareAPool, Wanted, ResolveInbounds, ListInbounds, BrokenOff
  <1>9. ASSUME NEW u
        PROVE  TakenFor(h, u)' = TakenFor(h, u) \cup (IF m.uid = u /\ m.named THEN {k + 1} ELSE {})
    <2>1. RequestsFor(h, u)' = RequestsFor(h, u) /\ RequestsFor(h, u) \subseteq Nat
      BY <1>4, <1>6 DEF RequestsFor
    <2>2. /\ TakenFor(h, u) = {i \in RequestsFor(h, u) : i <= k}
          /\ TakenFor(h, u)' = {i \in RequestsFor(h, u) : i <= k + 1}
      BY <1>7, <2>1 DEF TakenFor, Taken, k
    <2>3. k + 1 \in RequestsFor(h, u) <=> m.uid = u /\ m.named
      BY <1>7 DEF RequestsFor
    <2>4. \A i \in Nat : i <= k + 1 <=> i <= k \/ i = k + 1
      BY <1>7
    <2>5. QED
      BY <2>1, <2>2, <2>3, <2>4
  <1>10. suspect \subseteq suspect' /\ \A x \in Goroutines : failed'[x] => job[x].uid \in suspect'
    BY <1>4, SuspectsGrow
  <1>11. BatchInv(h)'
    <2>1. \A i \in 1..Len(batch'[h]) : batch'[h][i] = sent[h][k + 1 + i]
      <3> SUFFICES ASSUME NEW i \in 1..Len(batch'[h])
                   PROVE  batch'[h][i] = sent[h][k + 1 + i]
        OBVIOUS
      <3>1. i + 1 \in 1..Len(batch[h]) /\ batch'[h][i] = batch[h][i + 1]
        BY <1>5
      <3>2. batch[h][i + 1] = sent[h][k + (i + 1)]
        BY <1>2, <3>1 DEF BatchInv, k
      <3>3. QED
        BY <1>5, <1>7, <3>1, <3>2
    <2>2. mode[h] # "new"
      BY <1>2, <1>4 DEF BatchInv
    <2>3. Len(batch'[h]) <= Len(sent[h])
      BY <1>5, <1>6
    <2>4. pooled[h] => \A i, j \in Ahead(h)' : ShareAPool(h, i, j)'
      BY <1>2, <1>4, <1>7, <1>8 DEF BatchInv
    <2>5. Aligned(Len(sent[h]))' <=> Aligned(Len(sent[h]))
      BY <1>4 DEF Aligned
    <2>6. QED
      BY <1>2, <1>4, <1>7, <2>1, <2>2, <2>3, <2>4, <2>5 DEF BatchInv
  <1>12. ASSUME NEW x \in Goroutines \ {g}, pc[x] \in AttemptSteps
         PROVE  pooled[h]
    BY <1>2, <1>4, <1>12 DEF LatestInv, Goroutines
  <1>13. \A x \in Goroutines \ {g} : pc'[x] = pc[x] /\ job'[x] = job[x]
    BY <1>3 DEF Take, Goto
  <1>14. \/ Ignored(m) /\ pc' = pc /\ job' = job
         \/ ~Ignored(m) /\ pc'[g] = "start" /\ job'[g] = m
    BY <1>1, <1>3 DEF Take, Goto
  <1>15. ASSUME NEW x \in Goroutines PROVE LatestInv(h, x)'
    <2>1. ~failed[g] /\ LatestInv(h, x)
      BY <1>2, <1>4 DEF AttemptConsistent
    <2>2. failed'[x] => job'[x].uid \in suspect'
      BY <1>4, <1>10, <1>13, <2>1
    <2>3. pc'[x] = "backoff" => failed'[x]
      BY <1>4, <1>13, <1>14, <2>1 DEF LatestInv
    <2>4. ASSUME pc'[x] \in AttemptSteps, NEW v, v = job'[x].uid
          PROVE  /\ pooled'[h] <=> x \in Workers
                 /\ \E i \in TakenFor(h, v)' :
                       /\ job'[x] = sent'[h][i]
                       /\ Latest(h, i, TakenFor(h, v))'
                       /\ pooled'[h] => \A j \in Ahead(h)' : ShareAPool(h, i, j)'
      <3>1. \A i : Latest(h, i, TakenFor(h, v))' <=>
                      \A j \in TakenFor(h, v)' : j <= i \/ ShareAPool(h, i, j)
        BY <1>8 DEF Latest
      <3>2. CASE x = g
        <4>1. ~Ignored(m) /\ job'[g] = m
          BY <1>4, <1>14, <2>4, <3>2 DEF AttemptSteps
        <4>2. k + 1 \in TakenFor(h, v)'
          BY <1>9, <2>4, <3>2, <4>1 DEF Ignored
        <4>3. \A j \in TakenFor(h, v)' : j <= k + 1
          BY <1>4, <1>7 DEF TakenFor, RequestsFor, Taken
        <4>4. pooled[h] => \A j \in Ahead(h)' : ShareAPool(h, k + 1, j)
          BY <1>2, <1>4, <1>7 DEF BatchInv
        <4>5. QED
          BY <1>4, <1>7, <1>8, <3>1, <3>2, <4>1, <4>2, <4>3, <4>4
      <3>3. CASE x # g
        <4>1. pc[x] \in AttemptSteps /\ job'[x] = job[x] /\ pooled[h] /\ v = job[x].uid
          BY <1>12, <1>13, <2>4, <3>3
        <4>2. PICK i \in TakenFor(h, v) :
                 /\ job[x] = sent[h][i] /\ Latest(h, i, TakenFor(h, v))
                 /\ \A j \in Ahead(h) : ShareAPool(h, i, j)
          BY <2>1, <4>1 DEF LatestInv
        <4>3. \A j \in TakenFor(h, v)' : j <= i \/ ShareAPool(h, i, j)
          BY <1>7, <1>9, <4>2 DEF Latest
        <4>4. i \in TakenFor(h, v)'
          BY <1>9
        <4>5. QED
          BY <1>4, <1>7, <1>8, <2>1, <3>1, <4>1, <4>2, <4>3, <4>4 DEF LatestInv
      <3>4. QED
        BY <3>2, <3>3
    <2>5. QED
      BY <2>2, <2>3, <2>4 DEF LatestInv
  <1>16. ASSUME NEW u \in Uids PROVE StoredInv(h, u)'
    <2> SUFFICES ASSUME u \notin suspect', ~BrokenOff(h)' PROVE StoredInv(h, u)'
      BY DEF StoredInv
    <2>1. u \notin suspect /\ ~BrokenOff(h) /\ StoredInv(h, u)
      BY <1>2, <1>8, <1>10
    <2>2. CASE m.uid = u /\ m.named
      <3>1. ~Ignored(m) /\ k + 1 \in TakenFor(h, u)'
        BY <1>9, <2>2, SentinelsAssumption DEF Ignored
      <3>2. pc'[g] \in Unstored /\ job'[g].uid = u
        BY <1>14, <2>2, <3>1 DEF Unstored, AttemptSteps
      <3>3. QED
        BY <3>1, <3>2 DEF StoredInv
    <2>3. CASE ~(m.uid = u /\ m.named)
      <3>1. TakenFor(h, u)' = TakenFor(h, u)
        BY <1>9, <2>3
      <3>2. \A i : Latest(h, i, TakenFor(h, u))' <=> Latest(h, i, TakenFor(h, u))
        BY <1>8, <3>1 DEF Latest
      <3>3. \A x \in Goroutines : pc[x] \in Unstored => x # g
        BY <1>4 DEF Unstored, AttemptSteps
      <3>4. phase[h] \notin {"cleanup", "done"} /\ phase' = phase
        BY <1>4
      <3>5. QED
        BY <1>4, <1>8, <1>13, <2>1, <3>1, <3>2, <3>3, <3>4 DEF StoredInv
    <2>4. QED
      BY <2>2, <2>3
  <1>17. QED
    BY <1>11, <1>15, <1>16

\* Attempts are under way only while their handler applies a chunk.
LEMMA NobodyAttempts ==
    ASSUME IInv, NEW h \in Handlers, Handlers = {h}, phase[h] # "apply",
           NEW x \in Goroutines
    PROVE  pc[x] \notin AttemptSteps
  <1>1. AttemptConsistent(x) /\ HandlerOf(x) = h
    BY GoroutineTypes, HandlerOfType
  <1>2. QED
    BY <1>1 DEF AttemptConsistent

\* The next user of the cleanup.
LEMMA PurgeNextKeepsFollow ==
    ASSUME IInv, CauseInv, FollowInv, NEW g \in Handlers, Dispatching(g),
           NEW v \in Uids, PurgeNext(g, v)
    PROVE  FollowInv'
  <1> SUFFICES ASSUME NEW h \in Handlers, Handlers = {h}
               PROVE  /\ BatchInv(h)'
                      /\ \A x \in Goroutines : LatestInv(h, x)'
                      /\ \A u \in Uids : StoredInv(h, u)'
    BY DEF FollowInv
  <1>1. /\ pc \in [Goroutines -> AttemptSteps \cup {"idle", "purge", "drop"}]
        /\ job \in [Goroutines -> Message \cup {NoJob}]
        /\ doomed \in [Handlers -> [Uids -> Records]]
        /\ h = g /\ h \in Goroutines
    BY GoroutineTypes DEF Goroutines
  <1>2. /\ BatchInv(h) /\ HandlerInv(h) /\ AttemptConsistent(h)
        /\ \A x \in Goroutines : LatestInv(h, x)
        /\ \A u \in Uids : StoredInv(h, u)
    BY <1>1, GoroutineTypes DEF FollowInv, CauseInv
  <1>3. /\ pc[h] = "idle" /\ phase[h] = "cleanup" /\ doomed[h][v] # NotStored
        /\ pc' = [pc EXCEPT ![h] = "purge"]
        /\ job' = [job EXCEPT ![h] = [uid |-> v, named |-> TRUE, tags |-> {}]]
        /\ doomed' = [doomed EXCEPT ![h][v] = NotStored]
        /\ UNCHANGED <<phase, mode, batch, pooled, keep, eof, users, inbounds, sent, failed>>
        /\ Observe
    BY <1>1 DEF PurgeNext, Goto, Dispatching, storageVars
  <1>4. suspect \subseteq suspect'
    BY <1>3, SuspectsGrow
  <1>5. \A x \in Goroutines : pc[x] \notin AttemptSteps /\ pc'[x] \notin AttemptSteps
    BY <1>1, <1>3, NobodyAttempts DEF AttemptSteps
  <1>6. BatchInv(h)'
    BY <1>2, <1>3 DEF BatchInv, Taken, Ahead, ShareAPool, Aligned
  <1>7. ASSUME NEW x \in Goroutines PROVE LatestInv(h, x)'
    <2>1. ~failed[h] /\ LatestInv(h, x)
      BY <1>2, <1>3 DEF AttemptConsistent
    <2>2. QED
      BY <1>1, <1>3, <1>4, <1>5, <2>1 DEF LatestInv, AttemptSteps
  <1>8. ASSUME NEW u \in Uids PROVE StoredInv(h, u)'
    <2>1. StoredInv(h, u)
      BY <1>2
    <2>2. Purging(h, u) => Purging(h, u)'
      <3>1. CASE u = v
        BY <1>1, <1>3, <3>1 DEF Purging
      <3>2. CASE u # v
        BY <1>1, <1>3, <3>2 DEF Purging
      <3>3. QED
        BY <3>1, <3>2
    <2>3. TakenFor(h, u)' = TakenFor(h, u) /\ (BrokenOff(h)' <=> BrokenOff(h))
      BY <1>3 DEF TakenFor, RequestsFor, BrokenOff
    <2>4. \A i : Latest(h, i, TakenFor(h, u))' <=> Latest(h, i, TakenFor(h, u))
      BY <1>3, <2>3 DEF Latest, ShareAPool
    <2>5. \A n : Wanted(n)' = Wanted(n)
      BY <1>3 DEF Wanted, ResolveInbounds, ListInbounds
    <2>6. \A x \in Goroutines : pc[x] \notin Unstored
      BY <1>5 DEF Unstored
    <2>7. QED
      BY <1>3, <1>4, <2>1, <2>2, <2>3, <2>4, <2>5, <2>6 DEF StoredInv
  <1>9. QED
    BY <1>6, <1>7, <1>8

\* What a handler may do to its messages when no attempt is under way.
LEMMA HandlerStepKeepsFollow ==
    ASSUME IInv, FollowInv, NEW h \in Handlers, Handlers = {h}, Observe,
           UNCHANGED <<users, inbounds, pc, job, failed>>,
           \A x \in Goroutines : pc[x] \notin AttemptSteps,
           BatchInv(h)',
           \A u \in Uids : ~BrokenOff(h)' =>
              /\ ~BrokenOff(h) /\ TakenFor(h, u)' = TakenFor(h, u)
              /\ \A i \in TakenFor(h, u) : sent'[h][i] = sent[h][i]
              /\ TakenFor(h, u) # {} => mode'[h] = mode[h]
              /\ TakenFor(h, u) = {} /\ StoredInv(h, u) /\ u \notin suspect =>
                    IF phase'[h] \in {"cleanup", "done"} /\ mode'[h] = "repop" /\ u \notin keep'[h]
                    THEN users[u] = NotStored \/ Purging(h, u)'
                    ELSE users[u] = InitUsers[u]
    PROVE  FollowInv'
  <1>1. suspect \subseteq suspect'
    BY SuspectsGrow
  <1>2. ASSUME NEW x \in Goroutines PROVE LatestInv(h, x)'
    <2>1. LatestInv(h, x)
      BY DEF FollowInv
    <2>2. QED
      BY <1>1, <2>1 DEF LatestInv
  <1>3. ASSUME NEW u \in Uids PROVE StoredInv(h, u)'
    <2> SUFFICES ASSUME u \notin suspect', ~BrokenOff(h)' PROVE StoredInv(h, u)'
      BY DEF StoredInv
    <2>1. u \notin suspect /\ ~BrokenOff(h) /\ StoredInv(h, u)
      BY <1>1 DEF FollowInv
    <2>2. \A n : Wanted(n)' = Wanted(n)
      BY DEF Wanted, ResolveInbounds, ListInbounds
    <2>3. CASE TakenFor(h, u) # {}
      <3>1. PICK i \in TakenFor(h, u) :
                    users[u] = Wanted(sent[h][i]) /\ Latest(h, i, TakenFor(h, u))
        BY <2>1, <2>3 DEF StoredInv, Unstored
      <3>2. Latest(h, i, TakenFor(h, u))'
        BY <2>3, <3>1 DEF Latest, ShareAPool
      <3>3. QED
        BY <2>2, <2>3, <3>1, <3>2 DEF StoredInv
    <2>4. CASE TakenFor(h, u) = {}
      BY <2>1, <2>4 DEF StoredInv
    <2>5. QED
      BY <2>3, <2>4
  <1>4. QED
    BY <1>2, <1>3 DEF FollowInv

\* A step that concerns no message, attempt or record.
LEMMA IdleKeepsFollow ==
    ASSUME FollowInv, suspect \subseteq suspect',
           UNCHANGED <<phase, mode, batch, pooled, keep, eof, doomed, sent, users, inbounds, pc,
                       job, failed>>
    PROVE  FollowInv'
  <1> SUFFICES ASSUME NEW h \in Handlers, Handlers = {h}
               PROVE  /\ BatchInv(h)'
                      /\ \A x \in Goroutines : LatestInv(h, x)'
                      /\ \A u \in Uids : StoredInv(h, u)'
    BY DEF FollowInv
  <1>1. /\ BatchInv(h) /\ \A x \in Goroutines : LatestInv(h, x)
        /\ \A u \in Uids : StoredInv(h, u)
    BY DEF FollowInv
  <1>2. BatchInv(h)'
    BY <1>1, SameRequests
  <1>3. ASSUME NEW x \in Goroutines PROVE LatestInv(h, x)'
    <2>1. /\ \A u : TakenFor(h, u)' = TakenFor(h, u)
          /\ Ahead(h)' = Ahead(h) /\ \A i, j : ShareAPool(h, i, j)' <=> ShareAPool(h, i, j)
      BY SameRequests
    <2>2. LatestInv(h, x)
      BY <1>1
    <2>3. QED
      BY <2>1, <2>2 DEF LatestInv, Latest, TakenFor, RequestsFor, Ahead, Taken, ShareAPool
  <1>4. ASSUME NEW u \in Uids PROVE StoredInv(h, u)'
    <2>1. TakenFor(h, u)' = TakenFor(h, u) /\ (BrokenOff(h)' <=> BrokenOff(h))
      BY SameRequests
    <2>2. \A i, j : ShareAPool(h, i, j)' <=> ShareAPool(h, i, j)
      BY SameRequests
    <2>3. \A i : Latest(h, i, TakenFor(h, u))' <=> Latest(h, i, TakenFor(h, u))
      BY <2>1, <2>2 DEF Latest
    <2>4. \A m : Wanted(m)' = Wanted(m)
      BY SameRequests
    <2>5. StoredInv(h, u) /\ (Purging(h, u)' <=> Purging(h, u))
      BY <1>1 DEF Purging
    <2>6. QED
      BY <2>1, <2>3, <2>4, <2>5 DEF StoredInv
  <1>5. QED
    BY <1>2, <1>3, <1>4

\* Places in a chunk: n messages, b of them in the batch, chunks of c.
LEMMA Places ==
    ASSUME NEW n \in Nat, NEW b \in Nat, b <= n, NEW k, k = n - b,
           NEW c \in Nat \ {0}, NEW t \in Nat \ {0}
    PROVE  /\ \A i \in 1..(b + 1) : IF i = b + 1 THEN k + i = n + 1
                                   ELSE i \in 1..b /\ k + i \in 1..n
           /\ \A i \in Nat : i <= k => (i \in 1..n <=> i \in 1..(n + 1))
           /\ b < c /\ b + 1 >= c => n + 1 = k + c /\ (b + 1 >= t => c >= t)
           /\ b < c => (b >= t => c >= t) /\ (k + 1)..n \subseteq (k + 1)..(k + c)
  OBVIOUS

LEMMA AdvancingKeepsFollow ==
    ASSUME IInv, CauseInv, FollowInv, NEW h \in Handlers, Handlers = {h}, Advancing(h)
    PROVE  FollowInv'
  <1>1. /\ phase \in [Handlers -> {"recv", "apply", "list", "cleanup", "done"}]
        /\ doomed \in [Handlers -> [Uids -> Records]] /\ sent[h] \in Seq(Message)
    BY DEF IInv, TypeOK, HandlerTypeOK, HistoryTypeOK
  <1>2. /\ UNCHANGED <<users, inbounds, pc, job, failed, mode, batch, pooled, keep, eof, sent>>
        /\ Observe
    BY DEF Advancing, ApplyDone, ListDoomed, CleanupDone, storageVars, attemptVars
  <1>3. BatchInv(h) /\ HandlerInv(h)
    BY DEF FollowInv, CauseInv
  <1>4. ASSUME NEW u \in Uids
        PROVE  TakenFor(h, u)' = TakenFor(h, u) /\ \A i : sent'[h][i] = sent[h][i]
    BY <1>2 DEF TakenFor, RequestsFor
  <1>5. CASE ApplyDone(h)
    <2>1. /\ phase[h] = "apply" /\ phase'[h] = IF eof[h] THEN "list" ELSE "recv"
          /\ batch[h] = <<>> /\ \A x \in Goroutines : HandlerOf(x) = h => pc[x] = "idle"
      BY <1>1, <1>5 DEF ApplyDone, Waited, GoroutinesOf
    <2>2. \A x \in Goroutines : pc[x] \notin AttemptSteps
      BY <2>1, HandlerOfType DEF AttemptSteps
    <2>3. Len(batch[h]) = 0 /\ Taken(h) = Len(sent[h]) /\ 0 < ChunkSize
      BY <1>1, <2>1, SizesAssumption DEF Taken
    <2>4. BatchInv(h)'
      BY <1>2, <1>3, <2>1, <2>3 DEF BatchInv, Taken, Aligned
    <2>5. ~BrokenOff(h) /\ phase'[h] \notin {"cleanup", "done"}
      BY <2>1 DEF BrokenOff
    <2>6. \A u \in Uids : TakenFor(h, u) = {} /\ StoredInv(h, u) /\ u \notin suspect =>
                             users[u] = InitUsers[u]
      BY <2>1, <2>5 DEF StoredInv
    <2>7. QED
      BY <1>2, <1>4, <2>2, <2>4, <2>5, <2>6, HandlerStepKeepsFollow
  <1>6. CASE ListDoomed(h)
    <2> DEFINE copy == [u \in Uids |-> IF u \in Unnamed(h) THEN users[u] ELSE NotStored]
    <2>1. /\ phase[h] = "list" /\ phase'[h] = "cleanup" /\ doomed'[h] = copy
      BY <1>1, <1>6 DEF ListDoomed
    <2>2. \A x \in Goroutines : pc[x] \notin AttemptSteps
      BY <2>1, NobodyAttempts
    <2>3. BatchInv(h)'
      BY <1>2, <1>3, <2>1 DEF BatchInv, Taken
    <2>4. ~BrokenOff(h)
      BY <2>1 DEF BrokenOff
    <2>5. \A u \in Uids : u \notin keep[h] => users[u] = NotStored \/ Purging(h, u)'
      BY <2>1 DEF Purging, Unnamed, ListUsers
    <2>6. \A u \in Uids : TakenFor(h, u) = {} /\ StoredInv(h, u) /\ u \notin suspect =>
                             users[u] = InitUsers[u]
      BY <2>1, <2>4 DEF StoredInv
    <2>7. QED
      BY <1>2, <1>4, <2>2, <2>3, <2>4, <2>5, <2>6, HandlerStepKeepsFollow
  <1>7. CASE CleanupDone(h)
    <2>1. /\ phase[h] = "cleanup" /\ phase'[h] = "done" /\ pc[h] = "idle"
          /\ \A u \in Uids : doomed[h][u] = NotStored
      BY <1>1, <1>7 DEF CleanupDone
    <2>2. \A x \in Goroutines : pc[x] \notin AttemptSteps
      BY <2>1, NobodyAttempts
    <2>3. BatchInv(h)'
      BY <1>2, <1>3, <2>1 DEF BatchInv, Taken
    <2>4. ~BrokenOff(h)
      BY <2>1 DEF BrokenOff
    <2>5. \A u \in Uids : ~Purging(h, u)
      BY <2>1 DEF Purging
    <2>6. \A u \in Uids : TakenFor(h, u) = {} /\ StoredInv(h, u) /\ u \notin suspect =>
             IF mode[h] = "repop" /\ u \notin keep[h]
             THEN users[u] = NotStored ELSE users[u] = InitUsers[u]
      BY <2>1, <2>4, <2>5 DEF StoredInv
    <2>7. QED
      BY <1>2, <1>4, <2>1, <2>2, <2>3, <2>4, <2>6, HandlerStepKeepsFollow
  <1>8. QED
    BY <1>5, <1>6, <1>7 DEF Advancing

LEMMA ReceivingKeepsFollow ==
    ASSUME IInv, CauseInv, FollowInv, NEW h \in Handlers, Handlers = {h}, Receiving(h)
    PROVE  FollowInv'
  <1>1. /\ phase \in [Handlers -> {"recv", "apply", "list", "cleanup", "done"}]
        /\ mode \in [Handlers -> {"new", "sync", "repop"}]
        /\ batch \in [Handlers -> Seq(Message)] /\ sent \in [Handlers -> Seq(Message)]
        /\ pooled \in [Handlers -> BOOLEAN] /\ eof \in [Handlers -> BOOLEAN]
    BY DEF IInv, TypeOK, HandlerTypeOK, HistoryTypeOK
  <1>2. UNCHANGED <<users, inbounds, pc, job, failed>> /\ Observe
    BY DEF Receiving, storageVars, attemptVars
  <1>3. BatchInv(h) /\ HandlerInv(h)
    BY DEF FollowInv, CauseInv
  <1>4. /\ Len(sent[h]) \in Nat /\ Len(batch[h]) \in Nat /\ Len(batch[h]) <= Len(sent[h])
        /\ Taken(h) \in Nat /\ Taken(h) = Len(sent[h]) - Len(batch[h])
        /\ ChunkSize \in Nat \ {0} /\ BulkThreshold \in Nat \ {0}
    <2>1. Len(sent[h]) \in Nat /\ Len(batch[h]) \in Nat /\ Len(batch[h]) <= Len(sent[h])
      BY <1>1, <1>3 DEF BatchInv
    <2>2. QED
      BY <2>1, SizesAssumption DEF Taken
  <1>5. phase[h] = "recv" =>
           /\ \A x \in Goroutines : pc[x] \notin AttemptSteps
           /\ ~BrokenOff(h)
           /\ \A u \in Uids : TakenFor(h, u) = {} /\ StoredInv(h, u) /\ u \notin suspect =>
                                 users[u] = InitUsers[u]
    BY NobodyAttempts DEF BrokenOff, StoredInv
  <1>6. mode[h] = "new" \/ (h \in Unary /\ phase[h] = "recv") => \A u : TakenFor(h, u) = {}
    <2>1. sent[h] = <<>> => 1..Len(sent[h]) = {}
      OBVIOUS
    <2>2. QED
      BY <1>3, <2>1 DEF HandlerInv, TakenFor, RequestsFor
  <1> DEFINE n == Len(sent[h])
             b == Len(batch[h])
             k == Taken(h)
  <1>0. /\ \A i \in 1..(b + 1) : IF i = b + 1 THEN k + i = n + 1
                                   ELSE i \in 1..b /\ k + i \in 1..n
        /\ \A i \in Nat : i <= k => (i \in 1..n <=> i \in 1..(n + 1))
        /\ b < ChunkSize /\ b + 1 >= ChunkSize =>
              n + 1 = k + ChunkSize /\ (b + 1 >= BulkThreshold => ChunkSize >= BulkThreshold)
        /\ b < ChunkSize => /\ b >= BulkThreshold => ChunkSize >= BulkThreshold
                            /\ (k + 1)..n \subseteq (k + 1)..(k + ChunkSize)
    <2>1. n \in Nat /\ b \in Nat /\ b <= n /\ k = n - b
      BY <1>4
    <2> HIDE DEF n, b, k
    <2>2. QED
      BY <1>4, <2>1, Places
  <1> DEFINE Good ==
        /\ BatchInv(h)'
        /\ \A u \in Uids : ~BrokenOff(h)' =>
              /\ TakenFor(h, u)' = TakenFor(h, u)
              /\ \A i \in TakenFor(h, u) : sent'[h][i] = sent[h][i]
              /\ TakenFor(h, u) # {} => mode'[h] = mode[h]
              /\ phase'[h] \in {"cleanup", "done"} => mode'[h] # "repop"
  <1>7. ASSUME phase[h] = "recv", Good PROVE FollowInv'
    BY <1>2, <1>5, <1>7, HandlerStepKeepsFollow
  <1>8. CASE ReceiveMarker(h)
    <2>1. /\ phase[h] = "recv" /\ mode[h] = "new" /\ mode'[h] = "repop"
          /\ UNCHANGED <<phase, batch, pooled, eof, sent>>
      BY <1>1, <1>8 DEF ReceiveMarker
    <2>2. sent[h] = <<>> /\ batch[h] = <<>> /\ ~pooled[h]
      BY <1>3, <2>1 DEF HandlerInv, BatchInv
    <2>3. Len(sent[h]) = 0 /\ Len(batch[h]) = 0 /\ Taken(h) = 0
      BY <2>2 DEF Taken
    <2>4. Taken(h)' = 0
      BY <2>1, <2>3 DEF Taken
    <2>5. BatchInv(h)'
      BY <1>3, <1>4, <2>1, <2>2, <2>3, <2>4, ZeroAligned DEF BatchInv, Aligned
    <2>6. \A u \in Uids : TakenFor(h, u)' = TakenFor(h, u)
      BY <2>1 DEF TakenFor, RequestsFor
    <2>7. QED
      BY <1>6, <1>7, <2>1, <2>5, <2>6
  <1>9. ASSUME NEW m \in Messages \cup FirstMessages, Receive(h, m) PROVE FollowInv'
    <2>1. m \in Message
      BY MessagesAssumption
    <2>2. /\ phase[h] = "recv" /\ h \in Streams /\ h \notin Unary
          /\ sent'[h] = Append(sent[h], m) /\ batch'[h] = Append(batch[h], m) /\ eof' = eof
      BY <1>1, <1>9, HandlersAssumption DEF Receive
    <2>3. /\ Len(sent'[h]) = Len(sent[h]) + 1 /\ Len(batch'[h]) = Len(batch[h]) + 1
          /\ \A i \in 1..Len(sent[h]) : sent'[h][i] = sent[h][i]
          /\ \A i \in 1..Len(batch[h]) : batch'[h][i] = batch[h][i]
          /\ sent'[h][Len(sent[h]) + 1] = m /\ batch'[h][Len(batch[h]) + 1] = m
      BY <1>1, <2>1, <2>2
    <2>4. Taken(h)' = Taken(h)
      BY <1>4, <2>3 DEF Taken
    <2>5. \A i \in 1..Len(batch'[h]) : batch'[h][i] = sent'[h][Taken(h) + i]
      <3> SUFFICES ASSUME NEW i \in 1..Len(batch'[h])
                   PROVE  batch'[h][i] = sent'[h][Taken(h) + i]
        OBVIOUS
      <3>1. CASE i = Len(batch[h]) + 1
        <4>1. Taken(h) + i = Len(sent[h]) + 1
          BY <1>0, <2>3, <3>1
        <4>2. QED
          BY <2>3, <3>1, <4>1
      <3>2. CASE i # Len(batch[h]) + 1
        <4>1. i \in 1..Len(batch[h]) /\ Taken(h) + i \in 1..Len(sent[h])
          BY <1>0, <2>3, <3>2
        <4>2. batch[h][i] = sent[h][Taken(h) + i]
          BY <1>3, <4>1 DEF BatchInv
        <4>3. QED
          BY <2>3, <4>1, <4>2
      <3>3. QED
        BY <3>1, <3>2
    <2>6. Len(batch'[h]) <= Len(sent'[h])
      BY <1>4, <2>3
    <2>7. ASSUME NEW u \in Uids
          PROVE  /\ TakenFor(h, u)' = TakenFor(h, u)
                 /\ \A i \in TakenFor(h, u) : sent'[h][i] = sent[h][i]
      <3>1. /\ TakenFor(h, u) = {i \in RequestsFor(h, u) : i <= Taken(h)}
            /\ TakenFor(h, u)' = {i \in RequestsFor(h, u)' : i <= Taken(h)}
        BY <2>4 DEF TakenFor, Taken
      <3>2. \A i \in Nat : i <= Taken(h) => (i \in 1..Len(sent[h]) <=> i \in 1..Len(sent'[h]))
        BY <1>0, <2>3
      <3>3. \A i \in Nat : i <= Taken(h) => (i \in RequestsFor(h, u) <=> i \in RequestsFor(h, u)')
        BY <2>3, <3>2 DEF RequestsFor
      <3>4. RequestsFor(h, u) \subseteq Nat /\ RequestsFor(h, u)' \subseteq Nat
        BY <1>4, <2>3 DEF RequestsFor
      <3>5. TakenFor(h, u) \subseteq 1..Len(sent[h])
        BY <3>1 DEF RequestsFor
      <3>6. QED
        BY <2>3, <3>1, <3>3, <3>4, <3>5
    <2>8. CASE mode[h] = "repop"
      <3>1. /\ mode' = mode
            /\ IF Len(batch[h]) + 1 >= ChunkSize
               THEN phase'[h] = "apply" /\ pooled'[h] = (Len(batch[h]) + 1 >= BulkThreshold)
               ELSE phase'[h] = "recv"
        BY <1>1, <1>9, <2>2, <2>8 DEF Receive
      <3>2. Len(batch[h]) < ChunkSize /\ Aligned(Taken(h))
        BY <1>3, <2>2, <2>8 DEF BatchInv
      <3>3. CASE Len(batch[h]) + 1 >= ChunkSize
        <4>1. Len(sent'[h]) = Taken(h) + ChunkSize /\ phase'[h] = "apply"
          BY <1>0, <2>3, <3>1, <3>2, <3>3
        <4>2. Aligned(Len(sent'[h]))
          BY <1>4, <3>2, <4>1, NextAligned
        <4>3. Ahead(h)' = (Taken(h) + 1)..(Taken(h) + ChunkSize)
          BY <2>4, <4>1 DEF Ahead
        <4>4. ASSUME pooled'[h], NEW i \in Ahead(h)', NEW j \in Ahead(h)'
              PROVE  ShareAPool(h, i, j)'
          <5>1. ChunkSize >= BulkThreshold
            BY <1>0, <3>1, <3>2, <3>3, <4>4
          <5>2. ShareAPool(h, i, j)
            BY <1>4, <2>8, <3>2, <4>3, <4>4, <5>1, ChunkIsShared
          <5>3. QED
            BY <3>1, <5>2 DEF ShareAPool
        <4>5. BatchInv(h)'
          BY <2>4, <2>5, <2>6, <2>8, <3>1, <4>1, <4>2, <4>4 DEF BatchInv, Aligned
        <4>6. QED
          BY <1>7, <2>2, <2>7, <3>1, <4>1, <4>5
      <3>4. CASE ~(Len(batch[h]) + 1 >= ChunkSize)
        <4>1. phase'[h] = "recv" /\ Len(batch'[h]) < ChunkSize
          BY <1>4, <2>3, <3>1, <3>4
        <4>2. BatchInv(h)'
          BY <2>4, <2>5, <2>6, <2>8, <3>1, <3>2, <4>1 DEF BatchInv, Aligned
        <4>3. QED
          BY <1>7, <2>2, <2>7, <3>1, <4>1, <4>2
      <3>5. QED
        BY <3>3, <3>4
    <2>9. CASE mode[h] # "repop"
      <3>1. mode'[h] = "sync" /\ phase'[h] = "apply" /\ pooled' = pooled
        BY <1>1, <1>9, <2>2, <2>9 DEF Receive
      <3>2. ~pooled[h]
        BY <1>3, <2>9 DEF BatchInv
      <3>3. BatchInv(h)'
        BY <2>4, <2>5, <2>6, <3>1, <3>2 DEF BatchInv
      <3>4. mode[h] = "new" \/ mode[h] = "sync"
        BY <1>1, <2>9
      <3>5. QED
        BY <1>6, <1>7, <2>2, <2>7, <3>1, <3>3, <3>4
    <2>10. QED
      BY <2>8, <2>9
  <1>10. CASE ReceiveEOF(h)
    <2>1. /\ phase[h] = "recv" /\ h \in Streams /\ eof'[h]
          /\ UNCHANGED <<mode, batch, sent>>
          /\ IF mode[h] = "repop"
             THEN /\ phase'[h] \in {"list", "apply"}
                  /\ pooled'[h] = (Len(batch[h]) >= BulkThreshold)
             ELSE phase'[h] = "done" /\ pooled' = pooled
      BY <1>1, <1>10 DEF ReceiveEOF
    <2>2. Taken(h)' = Taken(h) /\ Ahead(h)' = Ahead(h)
      BY <2>1 DEF Taken, Ahead
    <2>3. \A u \in Uids : TakenFor(h, u)' = TakenFor(h, u)
      BY <2>1 DEF TakenFor, RequestsFor
    <2>4. CASE mode[h] = "repop"
      <3>1. Len(batch[h]) < ChunkSize /\ Aligned(Taken(h))
        BY <1>3, <2>1, <2>4 DEF BatchInv
      <3>2. Ahead(h) \subseteq (Taken(h) + 1)..(Taken(h) + ChunkSize)
        BY <1>0, <3>1 DEF Ahead
      <3>3. ASSUME pooled'[h], NEW i \in Ahead(h), NEW j \in Ahead(h)
            PROVE  ShareAPool(h, i, j)'
        <4>1. ChunkSize >= BulkThreshold
          BY <1>0, <2>1, <2>4, <3>1, <3>3
        <4>2. ShareAPool(h, i, j)
          BY <1>4, <2>4, <3>1, <3>2, <3>3, <4>1, ChunkIsShared
        <4>3. QED
          BY <2>1, <4>2 DEF ShareAPool
      <3>4. BatchInv(h)'
        BY <1>3, <2>1, <2>2, <2>4, <3>3 DEF BatchInv
      <3>5. QED
        BY <1>7, <2>1, <2>3, <2>4, <3>4
    <2>5. CASE mode[h] # "repop"
      <3>1. BatchInv(h)'
        BY <1>3, <2>1, <2>2, <2>5 DEF BatchInv
      <3>2. QED
        BY <1>7, <2>1, <2>3, <2>5, <3>1
    <2>6. QED
      BY <2>4, <2>5
  <1>11. CASE ReceiveError(h)
    <2>1. /\ phase[h] = "recv" /\ phase'[h] = "done" /\ batch'[h] = <<>>
          /\ UNCHANGED <<mode, pooled, eof, sent>>
      BY <1>1, <1>11 DEF ReceiveError
    <2>2. BrokenOff(h)'
      BY <1>3, <2>1 DEF HandlerInv, BrokenOff
    <2>3. Len(batch'[h]) = 0
      BY <2>1
    <2>4. BatchInv(h)'
      BY <1>3, <1>4, <2>1, <2>3 DEF BatchInv
    <2>5. QED
      BY <1>7, <2>1, <2>2, <2>4
  <1>12. CASE CallRepopulate(h)
    <2>1. PICK size \in 0..MaxMsgs : \E data \in [1..size -> Messages] :
             /\ batch'[h] = data /\ sent'[h] = data
             /\ phase'[h] \in {"list", "apply"}
      BY <1>1, <1>12 DEF CallRepopulate
    <2>2. PICK data \in [1..size -> Messages] : batch'[h] = data /\ sent'[h] = data
      BY <2>1
    <2>3. /\ phase[h] = "recv" /\ h \in Unary /\ eof'[h] /\ UNCHANGED <<mode, pooled>>
      BY <1>1, <1>12 DEF CallRepopulate
    <2>4. size \in Nat /\ Len(data) = size /\ Taken(h)' = 0
      <3>1. size \in Nat
        BY SizesAssumption
      <3>2. Len(data) = size
        BY <3>1
      <3>3. QED
        BY <2>2, <3>1, <3>2 DEF Taken
    <2>5. mode[h] = "repop" /\ h \notin Streams
      BY <1>3, <2>3, HandlersAssumption DEF HandlerInv
    <2>6. \A i, j : ShareAPool(h, i, j)'
      BY <2>3, <2>5 DEF ShareAPool
    <2>7. BatchInv(h)'
      BY <2>2, <2>3, <2>4, <2>5, <2>6 DEF BatchInv
    <2>8. \A u \in Uids : TakenFor(h, u)' = {} /\ TakenFor(h, u) = {}
      <3>1. ASSUME NEW u \in Uids, NEW i \in TakenFor(h, u)' PROVE FALSE
        <4>1. i \in 1..size /\ i <= Taken(h)'
          BY <2>2, <2>4, <3>1 DEF TakenFor, RequestsFor, Taken
        <4>2. QED
          BY <2>4, <4>1
      <3>2. QED
        BY <1>6, <2>3, <3>1
    <2>9. QED
      BY <1>7, <2>1, <2>3, <2>7, <2>8
  <1>13. CASE Cancel(h)
    <2>1. UNCHANGED <<phase, mode, batch, pooled, keep, eof, doomed, sent, users, inbounds, pc,
                      job, failed>>
      BY <1>2, <1>13 DEF Cancel
    <2>2. suspect \subseteq suspect'
      BY <1>2, SuspectsGrow
    <2>3. QED
      BY <2>1, <2>2, IdleKeepsFollow
  <1>14. QED
    BY <1>8, <1>9, <1>10, <1>11, <1>12, <1>13 DEF Receiving

LEMMA InitFollow ==
    ASSUME Init
    PROVE  FollowInv
  <1> SUFFICES ASSUME NEW h \in Handlers, Handlers = {h}
               PROVE  /\ BatchInv(h)
                      /\ \A g \in Goroutines : LatestInv(h, g)
                      /\ \A u \in Uids : StoredInv(h, u)
    BY DEF FollowInv
  <1>1. /\ batch[h] = <<>> /\ sent[h] = <<>> /\ phase[h] = "recv" /\ users = InitUsers
        /\ pooled[h] <=> h \in Unary
        /\ mode[h] = IF h \in Streams THEN "new" ELSE "repop"
    BY DEF Init
  <1>2. Len(batch[h]) = 0 /\ Len(sent[h]) = 0 /\ Taken(h) = 0
    BY <1>1 DEF Taken
  <1>3. BatchInv(h)
    BY <1>1, <1>2, HandlersAssumption DEF BatchInv, Handlers
  <1>4. \A g \in Goroutines : LatestInv(h, g)
    BY DEF Init, LatestInv, AttemptSteps
  <1>5. ASSUME NEW u \in Uids PROVE StoredInv(h, u)
    <2>1. TakenFor(h, u) = {}
      BY <1>2 DEF TakenFor, RequestsFor
    <2>2. QED
      BY <1>1, <2>1 DEF StoredInv
  <1>6. QED
    BY <1>3, <1>4, <1>5

LEMMA NextFollow ==
    ASSUME IInv, CauseInv, FollowInv, [Next]_vars
    PROVE  FollowInv'
  <1>1. ASSUME NEW h \in Handlers, Receiving(h) \/ Advancing(h) PROVE FollowInv'
    <2>1. CASE Handlers = {h}
      BY <1>1, <2>1, ReceivingKeepsFollow, AdvancingKeepsFollow
    <2>2. CASE Handlers # {h}
      BY <2>2 DEF FollowInv
    <2>3. QED
      BY <2>1, <2>2
  <1>2. ASSUME NEW g \in Goroutines, Dispatching(g) PROVE FollowInv'
    BY <1>2, TakeKeepsFollow, PurgeNextKeepsFollow DEF Dispatching
  <1>3. ASSUME NEW g \in Goroutines,
               Locking(g) \/ Deciding(g) \/ Calling(g) \/ Storing(g)
        PROVE  FollowInv'
    BY <1>3, LockingKeepsFollow, DecidingKeepsFollow, CallingKeepsFollow, StoringKeepsFollow
  <1>4. CASE UNCHANGED vars
    BY <1>4, IdleKeepsFollow DEF vars
  <1>5. QED
    BY <1>1, <1>2, <1>3, <1>4 DEF Next, Finished

\* A handler that runs alone and meets no failure leaves in the storage what
\* its messages said, chunk by chunk, whatever the size of a chunk and of the
\* pool; and a finished repopulate leaves nobody it did not name
\* (service.go:127-190, 200-269, 321-408, 450-505).
THEOREM StorageFollowsMessages == Spec => []StoreFollowsRequests
  <1>1. Init => FollowInv
    BY InitFollow
  <1>2. IInv /\ CauseInv /\ FollowInv /\ [Next]_vars => FollowInv'
    BY NextFollow
  <1>3. CauseInv /\ FollowInv => StoreFollowsRequests
    <2> SUFFICES ASSUME CauseInv, FollowInv, NEW h \in Handlers, NEW u \in Uids \ suspect,
                        Handlers = {h}, phase[h] \in {"recv", "list", "done"},
                        phase[h] = "done" => eof[h],
                        \A g \in Goroutines : pc[g] = "idle"
                 PROVE  IF TakenFor(h, u) # {}
                        THEN \E i \in TakenFor(h, u) :
                                /\ users[u] = Wanted(sent[h][i])
                                /\ \A j \in TakenFor(h, u) : j <= i \/ ShareAPool(h, i, j)
                        ELSE users[u] = IF phase[h] = "done" /\ mode[h] = "repop"
                                           /\ u \notin keep[h]
                                        THEN NotStored ELSE InitUsers[u]
      BY DEF StoreFollowsRequests
    <2>1. ~BrokenOff(h) /\ StoredInv(h, u) /\ HandlerInv(h)
      BY DEF BrokenOff, FollowInv, CauseInv
    <2>2. \A g \in Goroutines : pc[g] \notin Unstored
      BY DEF Unstored, AttemptSteps
    <2>3. ~Purging(h, u)
      BY <2>1 DEF HandlerInv
    <2>4. QED
      BY <2>1, <2>2, <2>3 DEF StoredInv, Latest
  <1>4. QED
    BY <1>1, <1>2, <1>3, SyncInvariant, SyncCauses, PTL DEF Spec
=============================================================================
