------------------------------ MODULE UserSync ------------------------------
(***************************************************************************)
(* The service's user management: the streaming SyncUsers handler, in its  *)
(* message-by-message and its repopulate mode, and the unary               *)
(* RepopulateUsers handler, all running applyUserData and the cleanup over *)
(* the shared storage and the accounts in the proxy backends.              *)
(*                                                                         *)
(* Handlers run concurrently (gRPC), each with its pool of workers.  A step*)
(* is one access to shared state: a lock operation, a storage method or one*)
(* backend call.  The per-user lock is the abstract mutex of UserMutex,    *)
(* which UserLocks implements.                                             *)
(***************************************************************************)
EXTENDS Storage, Naturals, Sequences, FiniteSets

CONSTANTS Streams,        \* SyncUsers calls
          Unary,          \* RepopulateUsers calls
          Workers,        \* goroutines of the worker pools
          Parent,         \* Parent[w]: the handler whose pool w belongs to
          Served,         \* the tags some backend answers for (ContainsTag)
          Registered,     \* the tags of the inbounds in the storage
          InitUsers,      \* users stored when the handlers start
          Messages,       \* what a client may send in a UserData message
          FirstMessages,  \* what a client may send first in a stream
          MaxMsgs,        \* bound: messages after the marker, per handler
          ChunkSize,      \* repopulateChunkSize
          BulkThreshold,  \* repopulateBulkThreshold
          Retries,        \* userApplyRetries
          CallsMayFail,   \* bound: do backend calls fail on their own?
          MayCancel,      \* bound: the handlers whose client may go away
          BlankTag,       \* the empty tag ""
          NoUid,          \* user id 0
          NoJob,          \* a goroutine with nothing to apply
          Free            \* an unlocked user lock

Handlers == Streams \cup Unary
Goroutines == Handlers \cup Workers

\* servicepb.UserData: the id, whether the username is set, the inbound tags.
\* The repopulate marker is the message with id 0 and the marker's username;
\* any other message with id 0 counts as unnamed.
Message == [uid : Uids \cup {NoUid}, named : BOOLEAN, tags : SUBSET (Tags \cup {BlankTag})]

IsRepopulateMarker(m) == m.uid = NoUid /\ m.named

ASSUME HandlersAssumption == Streams \cap Unary = {} /\ Handlers \cap Workers = {}
ASSUME ParentAssumption == Parent \in [Workers -> Handlers]
ASSUME TagsAssumption ==
    Served \subseteq Tags /\ Registered \subseteq Tags /\ BlankTag \notin Tags
ASSUME InitUsersAssumption == InitUsers \in [Uids -> Records]
ASSUME MessagesAssumption == Messages \subseteq Message /\ FirstMessages \subseteq Message
ASSUME SizesAssumption == /\ MaxMsgs \in Nat
                          /\ ChunkSize \in Nat \ {0}
                          /\ BulkThreshold \in Nat \ {0}
                          /\ Retries \in Nat \ {0}
ASSUME FailuresAssumption == CallsMayFail \in BOOLEAN /\ MayCancel \subseteq Handlers
ASSUME SentinelsAssumption == /\ NoUid \notin Uids
                              /\ NoJob \notin Message
                              /\ Free \notin Goroutines

VARIABLES
    accounts,   \* accounts[u]: the tags whose backend accepts user u
    holder, waiting,               \* the per-user locks (UserMutex)
    \* the goroutines inside applyUserDataWithRetry or the cleanup
    pc, job, try,                  \* control, the UserData applied, the attempt
    snap,                          \* stored, hasStored: the record read
    new,                           \* newInbounds / additions, or NotStored
    todo,                          \* tags still to be called in add/removeUser
    failed,                        \* has a call of this attempt failed?
    \* the handlers
    phase, mode, batch, pooled, keep, eof, cancelled, doomed,
    \* history, read by the properties only
    sent,       \* sent[h]: the messages h has received, in order
    suspect,    \* users for whom some backend call has failed
    collided    \* users whom a cleanup and an attempt treated at once

Mutex == INSTANCE UserMutex

lockVars == <<holder, waiting>>
attemptVars == <<pc, job, try, snap, new, todo, failed>>
handlerVars == <<phase, mode, batch, pooled, keep, eof, cancelled, doomed>>
historyVars == <<sent, suspect, collided>>
vars == <<users, inbounds, accounts, holder, waiting, pc, job, try, snap, new, todo,
          failed, phase, mode, batch, pooled, keep, eof, cancelled, doomed,
          sent, suspect, collided>>

\* Where an attempt is, from lockUser to the end of its back-off.
AttemptSteps == {"start", "wait", "lookup", "resolveNew", "resolveRemoved", "remove",
                 "resolveAdded", "add", "commit", "unlock", "backoff"}

\* ... and where it holds the user's lock.
Inside == AttemptSteps \ {"start", "wait", "backoff"}

AttemptTypeOK ==
    /\ pc \in [Goroutines -> AttemptSteps \cup {"idle", "purge", "drop"}]
    /\ job \in [Goroutines -> Message \cup {NoJob}]
    /\ try \in [Goroutines -> 0..Retries]
    /\ snap \in [Goroutines -> Records]
    /\ new \in [Goroutines -> Records]
    /\ todo \in [Goroutines -> SUBSET Tags]
    /\ failed \in [Goroutines -> BOOLEAN]

HandlerTypeOK ==
    /\ phase \in [Handlers -> {"recv", "apply", "list", "cleanup", "done"}]
    /\ mode \in [Handlers -> {"new", "sync", "repop"}]
    /\ batch \in [Handlers -> Seq(Message)]
    /\ pooled \in [Handlers -> BOOLEAN]
    /\ keep \in [Handlers -> SUBSET Uids]
    /\ eof \in [Handlers -> BOOLEAN]
    /\ cancelled \in [Handlers -> BOOLEAN]
    /\ doomed \in [Handlers -> [Uids -> Records]]

HistoryTypeOK ==
    /\ sent \in [Handlers -> Seq(Message)]
    /\ suspect \subseteq Uids
    /\ collided \subseteq Uids

TypeOK ==
    /\ StorageTypeOK
    /\ accounts \in [Uids -> SUBSET Tags]
    /\ Mutex!MutexTypeOK
    /\ AttemptTypeOK
    /\ HandlerTypeOK
    /\ HistoryTypeOK

\* The tags of a record that a backend answers for.
Granted(record) == IF record = NotStored THEN {} ELSE record \cap Served

Init ==
    /\ users = InitUsers
    /\ inbounds = Registered
    /\ accounts = [u \in Uids |-> Granted(InitUsers[u])]
    /\ Mutex!MutexInit
    /\ pc = [g \in Goroutines |-> "idle"]
    /\ job = [g \in Goroutines |-> NoJob]
    /\ try = [g \in Goroutines |-> 0]
    /\ snap = [g \in Goroutines |-> NotStored]
    /\ new = [g \in Goroutines |-> NotStored]
    /\ todo = [g \in Goroutines |-> {}]
    /\ failed = [g \in Goroutines |-> FALSE]
    /\ phase = [h \in Handlers |-> "recv"]
    /\ mode = [h \in Handlers |-> IF h \in Streams THEN "new" ELSE "repop"]
    /\ batch = [h \in Handlers |-> <<>>]
    /\ pooled = [h \in Handlers |-> h \in Unary]
    /\ keep = [h \in Handlers |-> {}]
    /\ eof = [h \in Handlers |-> FALSE]
    /\ cancelled = [h \in Handlers |-> FALSE]
    /\ doomed = [h \in Handlers |-> [u \in Uids |-> NotStored]]
    /\ sent = [h \in Handlers |-> <<>>]
    /\ suspect = {}
    /\ collided = {}

-----------------------------------------------------------------------------
(* Receiving: the loop of SyncUsers, and the call of RepopulateUsers *)

\* keep[u.GetId()] = struct{}{} for every message of the stream or request.
\* Faulty variant: keep is emptied together with the chunk.
KeepLatest(kept, m) == IF m.uid \in Uids THEN {m.uid} ELSE kept
KeepWith(kept, m) == IF m.uid \in Uids THEN kept \cup {m.uid} ELSE kept

\* The first message of the stream: the marker turns the repopulate mode on
\* and is not a message of its own.
ReceiveMarker(h) ==
    /\ h \in Streams /\ phase[h] = "recv" /\ mode[h] = "new"
    /\ \E m \in FirstMessages : IsRepopulateMarker(m)
    /\ mode' = [mode EXCEPT ![h] = "repop"]
    /\ UNCHANGED <<phase, batch, pooled, keep, eof, cancelled, doomed, sent>>

\* A message is applied at once in sync mode, and collected in repopulate mode
\* until a chunk is full; a big enough chunk is given to the worker pool.
Receive(h, m) ==
    /\ h \in Streams /\ phase[h] = "recv" /\ Len(sent[h]) < MaxMsgs
    /\ IF mode[h] = "new" THEN m \in FirstMessages /\ ~IsRepopulateMarker(m)
                          ELSE m \in Messages
    /\ sent' = [sent EXCEPT ![h] = Append(@, m)]
    /\ batch' = [batch EXCEPT ![h] = Append(@, m)]
    /\ IF mode[h] = "repop"
       THEN /\ keep' = [keep EXCEPT ![h] = KeepWith(@, m)]
            /\ IF Len(batch[h]) + 1 >= ChunkSize
               THEN /\ phase' = [phase EXCEPT ![h] = "apply"]
                    /\ pooled' = [pooled EXCEPT ![h] = Len(batch[h]) + 1 >= BulkThreshold]
               ELSE UNCHANGED <<phase, pooled>>
            /\ UNCHANGED mode
       ELSE /\ mode' = [mode EXCEPT ![h] = "sync"]
            /\ phase' = [phase EXCEPT ![h] = "apply"]
            /\ UNCHANGED <<keep, pooled>>
    /\ UNCHANGED <<eof, cancelled, doomed>>

\* io.EOF: the last chunk is applied, then the cleanup runs.
ReceiveEOF(h) ==
    /\ h \in Streams /\ phase[h] = "recv"
    /\ eof' = [eof EXCEPT ![h] = TRUE]
    /\ IF mode[h] = "repop"
       THEN /\ phase' = [phase EXCEPT ![h] = IF batch[h] = <<>> THEN "list" ELSE "apply"]
            /\ pooled' = [pooled EXCEPT ![h] = Len(batch[h]) >= BulkThreshold]
       ELSE /\ phase' = [phase EXCEPT ![h] = "done"]
            /\ UNCHANGED pooled
    /\ UNCHANGED <<mode, batch, keep, cancelled, doomed, sent>>

\* Faulty variant: a stream that breaks off is cleaned up after.
ReceiveErrorCleansUp(h) ==
    /\ h \in Streams \cap MayCancel /\ phase[h] = "recv"
    /\ phase' = [phase EXCEPT ![h] = IF mode[h] = "repop" THEN "list" ELSE "done"]
    /\ batch' = [batch EXCEPT ![h] = <<>>]
    /\ cancelled' = [cancelled EXCEPT ![h] = TRUE]
    /\ UNCHANGED <<mode, pooled, keep, eof, doomed, sent>>

\* Recv fails, because the client cancelled or the connection broke: the
\* handler returns, and what it has collected is dropped.
ReceiveError(h) ==
    /\ h \in Streams \cap MayCancel /\ phase[h] = "recv"
    /\ phase' = [phase EXCEPT ![h] = "done"]
    /\ batch' = [batch EXCEPT ![h] = <<>>]
    /\ cancelled' = [cancelled EXCEPT ![h] = TRUE]
    /\ UNCHANGED <<mode, pooled, keep, eof, doomed, sent>>

\* RepopulateUsers is called with the whole list of users.
CallRepopulate(h) ==
    /\ h \in Unary /\ phase[h] = "recv"
    /\ \E n \in 0..MaxMsgs : \E data \in [1..n -> Messages] :
        /\ batch' = [batch EXCEPT ![h] = data]
        /\ sent' = [sent EXCEPT ![h] = data]
        /\ keep' = [keep EXCEPT ![h] = {data[i].uid : i \in 1..n} \cap Uids]
        /\ phase' = [phase EXCEPT ![h] = IF n = 0 THEN "list" ELSE "apply"]
    /\ eof' = [eof EXCEPT ![h] = TRUE]
    /\ UNCHANGED <<mode, pooled, cancelled, doomed>>

\* The client goes away while the handler runs; from then on the calls the
\* handler makes may fail, and it sees ctx.Err().  Messages that are already
\* buffered may still be received.
Cancel(h) ==
    /\ h \in MayCancel /\ phase[h] # "done" /\ ~cancelled[h]
    /\ cancelled' = [cancelled EXCEPT ![h] = TRUE]
    /\ UNCHANGED <<phase, mode, batch, pooled, keep, eof, doomed, sent>>

-----------------------------------------------------------------------------
(* Applying: applyUserDataWithRetry, by the handler itself or by its pool *)

HandlerOf(g) == IF g \in Workers THEN Parent[g] ELSE g

GoroutinesOf(h) == {g \in Goroutines : HandlerOf(g) = h}

\* RepopulateUsers and the repopulate mode pass forceAdd.  Faulty variant: not.
ForceAddNever(g) == FALSE
ForceAdd(g) == mode[HandlerOf(g)] = "repop"

\* applyUserData returns at once for these.
Ignored(m) == m.uid = NoUid \/ ~m.named

Goto(g, label) == pc' = [pc EXCEPT ![g] = label]

ClearLocals(g) ==
    /\ snap' = [snap EXCEPT ![g] = NotStored]
    /\ new' = [new EXCEPT ![g] = NotStored]
    /\ todo' = [todo EXCEPT ![g] = {}]
    /\ failed' = [failed EXCEPT ![g] = FALSE]

Idle(g) ==
    /\ Goto(g, "idle")
    /\ job' = [job EXCEPT ![g] = NoJob]
    /\ try' = [try EXCEPT ![g] = 0]
    /\ ClearLocals(g)

\* A goroutine takes the next message: a worker from the jobs channel, the
\* handler itself in sync mode and for a small chunk.
Take(g) ==
    LET h == HandlerOf(g) IN
    /\ pc[g] = "idle" /\ phase[h] = "apply" /\ batch[h] # <<>>
    /\ pooled[h] <=> g \in Workers
    /\ batch' = [batch EXCEPT ![h] = Tail(@)]
    /\ IF Ignored(Head(batch[h]))
       THEN UNCHANGED <<pc, job, try>>
       ELSE /\ Goto(g, "start")
            /\ job' = [job EXCEPT ![g] = Head(batch[h])]
            /\ try' = [try EXCEPT ![g] = 1]
    /\ UNCHANGED <<snap, new, todo, failed>>
    /\ UNCHANGED <<phase, mode, pooled, keep, eof, cancelled, doomed>>

\* wg.Wait() returns, or the loop over the chunk ends.  Faulty variant: no wait.
NoWait(h) == batch[h] = <<>>
Waited(h) == batch[h] = <<>> /\ \A g \in GoroutinesOf(h) : pc[g] = "idle"

ApplyDone(h) ==
    /\ phase[h] = "apply" /\ Waited(h)
    /\ phase' = [phase EXCEPT ![h] = IF eof[h] THEN "list" ELSE "recv"]
    /\ UNCHANGED <<mode, batch, pooled, keep, eof, cancelled, doomed, sent>>

CallLockUser(g) ==
    /\ pc[g] = "start"
    /\ Mutex!Request(g, job[g].uid)
    /\ Goto(g, "wait")
    /\ UNCHANGED <<job, try, snap, new, todo, failed>>

EnterLock(g) ==
    /\ pc[g] = "wait"
    /\ Mutex!Enter(g)
    /\ Goto(g, "lookup")
    /\ UNCHANGED <<job, try, snap, new, todo, failed>>

\* store.GetUser and the switch: remove a stored user of whom nothing is
\* asked, skip an unknown one, and otherwise work out what to add.
Lookup(g) ==
    LET stored == GetUser(job[g].uid) IN
    /\ pc[g] = "lookup"
    /\ snap' = [snap EXCEPT ![g] = stored]
    /\ IF job[g].tags # {}
       THEN Goto(g, "resolveNew") /\ UNCHANGED todo
       ELSE IF stored = NotStored
       THEN Goto(g, "unlock") /\ UNCHANGED todo
       ELSE Goto(g, "remove") /\ todo' = [todo EXCEPT ![g] = stored]
    /\ UNCHANGED <<job, try, new, failed>>

\* resolveInbounds drops the empty tag and asks the storage for the rest; a
\* list that is then empty is answered with every registered inbound.
ResolveInbounds(tags) == ListInbounds(tags \ {BlankTag})

ResolveNew(g) ==
    /\ pc[g] = "resolveNew"
    /\ new' = [new EXCEPT ![g] = ResolveInbounds(job[g].tags)]
    /\ IF snap[g] = NotStored
       THEN Goto(g, "add") /\ todo' = [todo EXCEPT ![g] = ResolveInbounds(job[g].tags)]
       ELSE Goto(g, "resolveRemoved") /\ UNCHANGED todo
    /\ UNCHANGED <<job, try, snap, failed>>

ResolveRemoved(g) ==
    /\ pc[g] = "resolveRemoved"
    /\ todo' = [todo EXCEPT ![g] = ResolveInbounds(snap[g] \ job[g].tags)]
    /\ Goto(g, "remove")
    /\ UNCHANGED <<job, try, snap, new, failed>>

ResolveAdded(g) ==
    /\ pc[g] = "resolveAdded"
    /\ todo' = [todo EXCEPT ![g] =
                   IF ForceAdd(g) THEN new[g] ELSE ResolveInbounds(job[g].tags \ snap[g])]
    /\ Goto(g, "add")
    /\ UNCHANGED <<job, try, snap, new, failed>>

\* What AddUser and RemoveUser do to the accounts of the user.  Faulty variant:
\* the backend keeps the account.
BackendAdd(tags, t) == tags \cup {t}
BackendRemoveNot(tags, t) == tags
BackendRemove(tags, t) == tags \ {t}

\* A call fails on its own, or because the client is gone.
MayFail(g) == CallsMayFail \/ cancelled[HandlerOf(g)]

\* errors.Join.  Faulty variant: a later call's result replaces an earlier error.
LastError(g, err) == err
JoinedError(g, err) == failed[g] \/ err

\* One backend call of addUser, removeUser or the cleanup.  A tag that no
\* backend answers for is skipped.  A call that fails may or may not have had
\* its effect (a lost reply, an effect before the error).
Call(g) ==
    LET u == job[g].uid
        called(t) == [accounts EXCEPT ![u] = IF pc[g] = "add" THEN BackendAdd(@, t)
                                                              ELSE BackendRemove(@, t)]
    IN
    \E t \in todo[g] :
        /\ todo' = [todo EXCEPT ![g] = @ \ {t}]
        /\ \/ /\ accounts' = IF t \in Served THEN called(t) ELSE accounts
              /\ failed' = [failed EXCEPT ![g] = JoinedError(g, FALSE)]
           \/ /\ t \in Served /\ MayFail(g)
              /\ accounts' \in {accounts, called(t)}
              /\ failed' = [failed EXCEPT ![g] = JoinedError(g, TRUE)]

RemoveCall(g) ==
    /\ pc[g] = "remove" /\ todo[g] # {}
    /\ Call(g)
    /\ UNCHANGED <<pc, job, try, snap, new>>

\* removeUser has tried every tag; an error ends the attempt.
RemoveDone(g) ==
    /\ pc[g] = "remove" /\ todo[g] = {}
    /\ Goto(g, IF failed[g] THEN "unlock"
               ELSE IF job[g].tags = {} THEN "commit" ELSE "resolveAdded")
    /\ UNCHANGED <<job, try, snap, new, todo, failed>>

AddCall(g) ==
    /\ pc[g] = "add" /\ todo[g] # {}
    /\ Call(g)
    /\ UNCHANGED <<pc, job, try, snap, new>>

AddDone(g) ==
    /\ pc[g] = "add" /\ todo[g] = {}
    /\ Goto(g, IF failed[g] THEN "unlock" ELSE "commit")
    /\ UNCHANGED <<job, try, snap, new, todo, failed>>

\* store.RemoveUser or store.UpdateUserInbounds.
Commit(g) ==
    /\ pc[g] = "commit"
    /\ IF job[g].tags = {} THEN RemoveUser(job[g].uid)
                           ELSE UpdateUserInbounds(job[g].uid, new[g])
    /\ Goto(g, "unlock")
    /\ UNCHANGED <<job, try, snap, new, todo, failed>>

\* Faulty variant: one attempt too many.
OneMoreAttempt(g) == try[g] <= Retries /\ ~cancelled[HandlerOf(g)]
AttemptsLeft(g) == try[g] < Retries /\ ~cancelled[HandlerOf(g)]

\* The deferred unlock, and the decision of the retry loop on the result.
Unlock(g) ==
    /\ pc[g] = "unlock"
    /\ Mutex!Leave(g, job[g].uid)
    /\ IF failed[g] /\ AttemptsLeft(g)
       THEN Goto(g, "backoff") /\ UNCHANGED <<job, try, snap, new, todo, failed>>
       ELSE Idle(g)

\* attempt++.  Faulty variant: the attempts are not counted.
SameTry(g) == try[g]
NextTry(g) == try[g] + 1

\* waitWithContext: the delay passes, or the context ends first.
Retry(g) ==
    /\ pc[g] = "backoff"
    /\ Goto(g, "start")
    /\ try' = [try EXCEPT ![g] = NextTry(g)]
    /\ ClearLocals(g)
    /\ UNCHANGED job

GiveUp(g) ==
    /\ pc[g] = "backoff" /\ cancelled[HandlerOf(g)]
    /\ Idle(g)

-----------------------------------------------------------------------------
(* The cleanup: cleanupRepopulateUsers and the end of RepopulateUsers.  It  *)
(* takes no user lock and works on a copy of the user list.                 *)

\* The users of the list that keep does not name.
Unnamed(h) == ListUsers \ keep[h]

ListDoomed(h) ==
    /\ phase[h] = "list"
    /\ doomed' = [doomed EXCEPT ![h] =
                     [u \in Uids |-> IF u \in Unnamed(h) THEN users[u] ELSE NotStored]]
    /\ phase' = [phase EXCEPT ![h] = "cleanup"]
    /\ UNCHANGED <<mode, batch, pooled, keep, eof, cancelled, sent>>

\* removeUser for the next user of the copy, with the inbounds of the copy.
PurgeNext(h, u) ==
    /\ phase[h] = "cleanup" /\ pc[h] = "idle" /\ doomed[h][u] # NotStored
    /\ Goto(h, "purge")
    /\ job' = [job EXCEPT ![h] = [uid |-> u, named |-> TRUE, tags |-> {}]]
    /\ todo' = [todo EXCEPT ![h] = doomed[h][u]]
    /\ doomed' = [doomed EXCEPT ![h][u] = NotStored]
    /\ UNCHANGED <<try, snap, new, failed>>
    /\ UNCHANGED <<phase, mode, batch, pooled, keep, eof, cancelled>>

PurgeCall(h) ==
    /\ pc[h] = "purge" /\ todo[h] # {}
    /\ Call(h)
    /\ UNCHANGED <<pc, job, try, snap, new>>

\* An error skips the user: no retry, and its record stays.
PurgeDone(h) ==
    /\ pc[h] = "purge" /\ todo[h] = {}
    /\ IF failed[h] THEN Idle(h)
                    ELSE Goto(h, "drop") /\ UNCHANGED <<job, try, snap, new, todo, failed>>

Drop(h) ==
    /\ pc[h] = "drop"
    /\ RemoveUser(job[h].uid)
    /\ Idle(h)

CleanupDone(h) ==
    /\ phase[h] = "cleanup" /\ pc[h] = "idle"
    /\ \A u \in Uids : doomed[h][u] = NotStored
    /\ phase' = [phase EXCEPT ![h] = "done"]
    /\ UNCHANGED <<mode, batch, pooled, keep, eof, cancelled, doomed, sent>>

-----------------------------------------------------------------------------
(* The system *)

\* The cleanup of h has the user in its copy of the list or is treating it.
Purging(h, u) == doomed[h][u] # NotStored \/ (pc[h] \in {"purge", "drop"} /\ job[h].uid = u)

\* History: the users with a failed call, and the users whom a cleanup (from
\* its copy of the list on) and an attempt inside the lock treated at once.
Observe ==
    /\ suspect' = suspect \cup {job[g].uid : g \in {x \in Goroutines : failed'[x]}}
    /\ collided' = collided \cup
         {u \in Uids : holder'[u] # Free /\ \E h \in Handlers : Purging(h, u)'}

Receiving(h) ==
    /\ \/ ReceiveMarker(h)
       \/ \E m \in Messages \cup FirstMessages : Receive(h, m)
       \/ ReceiveEOF(h)
       \/ ReceiveError(h)
       \/ CallRepopulate(h)
       \/ Cancel(h)
    /\ UNCHANGED <<storageVars, accounts, lockVars, attemptVars>>
    /\ Observe

Advancing(h) ==
    /\ ApplyDone(h) \/ ListDoomed(h) \/ CleanupDone(h)
    /\ UNCHANGED <<storageVars, accounts, lockVars, attemptVars>>
    /\ Observe

Dispatching(g) ==
    /\ Take(g) \/ (g \in Handlers /\ \E u \in Uids : PurgeNext(g, u))
    /\ UNCHANGED <<storageVars, accounts, lockVars, sent>>
    /\ Observe

Locking(g) ==
    /\ CallLockUser(g) \/ EnterLock(g) \/ Unlock(g)
    /\ UNCHANGED <<storageVars, accounts, handlerVars, sent>>
    /\ Observe

Deciding(g) ==
    /\ \/ Lookup(g) \/ ResolveNew(g) \/ ResolveRemoved(g) \/ ResolveAdded(g)
       \/ RemoveDone(g) \/ AddDone(g) \/ Retry(g) \/ GiveUp(g) \/ PurgeDone(g)
    /\ UNCHANGED <<storageVars, accounts, lockVars, handlerVars, sent>>
    /\ Observe

Calling(g) ==
    /\ RemoveCall(g) \/ AddCall(g) \/ PurgeCall(g)
    /\ UNCHANGED <<storageVars, lockVars, handlerVars, sent>>
    /\ Observe

Storing(g) ==
    /\ Commit(g) \/ Drop(g)
    /\ UNCHANGED <<accounts, lockVars, handlerVars, sent>>
    /\ Observe

Finished ==
    /\ \A h \in Handlers : phase[h] = "done"
    /\ UNCHANGED vars

Next ==
    \/ \E h \in Handlers : Receiving(h) \/ Advancing(h)
    \/ \E g \in Goroutines :
          Dispatching(g) \/ Locking(g) \/ Deciding(g) \/ Calling(g) \/ Storing(g)
    \/ Finished

Spec == Init /\ [][Next]_vars

\* Goroutines keep running and backend calls return (each has a deadline);
\* sync.Mutex starves no waiter.  Clients owe nothing: they need not send, end
\* or cancel.
Fairness ==
    /\ \A h \in Handlers : WF_vars(Advancing(h))
    /\ \A g \in Goroutines :
        /\ WF_vars(Dispatching(g) \/ Deciding(g) \/ Calling(g) \/ Storing(g))
        /\ SF_vars(Locking(g))

FairSpec == Spec /\ Fairness

-----------------------------------------------------------------------------
(* Properties *)

\* No lost update: from the moment an attempt has read a user's record until
\* it stores its own, nobody else stores one; only a cleanup, which takes no
\* lock, can have dropped it (applyUserData, service.go:205-268).
SnapshotCurrent ==
    \A g \in Goroutines :
        pc[g] \in {"resolveNew", "resolveRemoved", "remove", "resolveAdded", "add", "commit"}
            => users[job[g].uid] \in {snap[g], NotStored}

\* The user locks are held by goroutines that are applying a message, inside
\* their attempt, and by nobody once the handler has moved on to its cleanup or
\* returned, whatever errors, retries and cancellations came before.
LockHeldOnlyWhileApplying ==
    \A u \in Uids : holder[u] # Free =>
        /\ phase[HandlerOf(holder[u])] = "apply"
        /\ job[holder[u]].uid = u
        /\ pc[holder[u]] \in Inside

\* Nobody is at work on u.
Settled(u) == holder[u] = Free /\ \A h \in Handlers : ~Purging(h, u)

\* Between two treatments of a user the backends accept it exactly on the
\* inbounds stored for it, unless a call for it has failed or a cleanup has
\* crossed an attempt.  Holds where every attempt re-adds (repopulate).
AccountsMatchStore ==
    \A u \in Uids \ (suspect \cup collided) :
        Settled(u) => accounts[u] = Granted(users[u])

\* An attempt of a repopulate that reports success has had its effect in the
\* backends, whatever attempts before it did half of and ordinary streams do
\* beside it: what it stored is granted, and what the record had besides is not
\* (applyUserData with forceAdd, service.go:252-255).  An ordinary attempt has
\* it not: one that only adds a tag removes all others first (service.go:246).
SuccessIsEffective ==
    \A g \in Goroutines :
        LET u    == job[g].uid
            want == Granted(new[g])
        IN  ForceAdd(g) /\ pc[g] = "unlock" /\ ~failed[g] /\ u \notin collided =>
                want \subseteq accounts[u] /\ accounts[u] \cap (Granted(snap[g]) \ want) = {}

\* The messages a client has sent for user u.
RequestsFor(h, u) == {i \in 1..Len(sent[h]) : sent[h][i].uid = u /\ sent[h][i].named}

\* What the storage should hold for the user of m once m is applied.
Wanted(m) == IF m.tags = {} THEN NotStored ELSE ResolveInbounds(m.tags)

\* A user is accepted only on inbounds it had at the start or that some message
\* asked for, whatever failed, raced or was retried (service.proto: the
\* inbounds of a UserData message are the user's inbounds).
GrantedOnlyIfAsked ==
    \A u \in Uids :
        \A t \in accounts[u] \ Granted(InitUsers[u]) :
            \E h \in Handlers : \E i \in RequestsFor(h, u) : t \in Granted(Wanted(sent[h][i]))

\* A user leaves the storage only because a message asked for it, or because a
\* repopulate that was received completely did not name it: a stream that
\* breaks off never removes the users it had no time to send.
DropsForCause ==
    [][\A u \in Uids : users[u] # NotStored /\ users'[u] = NotStored =>
          \E h \in Handlers :
             \/ \E i \in RequestsFor(h, u) : sent[h][i].tags = {}
             \/ /\ eof[h] /\ mode[h] = "repop"
                /\ \A i \in 1..Len(sent[h]) : sent[h][i].uid # u]_vars

\* The requests of h that have been taken from its batch.
TakenFor(h, u) == {i \in RequestsFor(h, u) : i <= Len(sent[h]) - Len(batch[h])}

\* Messages of h that workers apply side by side.
ShareAPool(h, i, j) ==
    /\ mode[h] = "repop"
    /\ h \in Unary \/ (ChunkSize >= BulkThreshold /\ (i - 1) \div ChunkSize = (j - 1) \div ChunkSize)

\* A handler that runs alone and meets no failure leaves in the storage what
\* its messages said: for each user the last one, or one of them where workers
\* share a chunk; and a finished repopulate leaves nobody it did not name.  A
\* stream that broke off has dropped the messages of its last chunk.
StoreFollowsRequests ==
    \A h \in Handlers, u \in Uids \ suspect :
        /\ Handlers = {h} /\ phase[h] \in {"recv", "list", "done"} /\ (phase[h] = "done" => eof[h])
        /\ \A g \in Goroutines : pc[g] = "idle"
        =>
            IF TakenFor(h, u) # {}
            THEN \E i \in TakenFor(h, u) :
                    /\ users[u] = Wanted(sent[h][i])
                    /\ \A j \in TakenFor(h, u) : j <= i \/ ShareAPool(h, i, j)
            ELSE users[u] = IF phase[h] = "done" /\ mode[h] = "repop" /\ u \notin keep[h]
                            THEN NotStored ELSE InitUsers[u]

\* A chunk is always applied, and a repopulate whose messages have all arrived
\* always ends, in spite of failing calls and of handlers contending for the
\* same users.
HandlersFinish ==
    \A h \in Handlers :
        /\ phase[h] = "apply" ~> phase[h] # "apply"
        /\ eof[h] ~> phase[h] = "done"

-----------------------------------------------------------------------------
(* The inductive invariant behind the theorems of UserSyncProofs *)

\* An attempt is made for a real user while its handler is applying; a purge is
\* made by a handler in its cleanup; only they have calls that have failed.
AttemptConsistent(g) ==
    /\ pc[g] # "idle" => job[g] \in Message /\ job[g].uid \in Uids
    /\ pc[g] \in AttemptSteps => phase[HandlerOf(g)] = "apply"
    /\ pc[g] \in {"purge", "drop"} => g \in Handlers /\ phase[g] = "cleanup"
    /\ pc[g] = "idle" => ~failed[g]
    /\ pc[g] = "backoff" => try[g] < Retries
    /\ pc[g] \in {"resolveNew", "resolveRemoved", "resolveAdded"} => job[g].tags # {}
    /\ pc[g] \in {"resolveRemoved", "resolveAdded"} => new[g] \in SUBSET Tags
    /\ pc[g] = "remove" => new[g] \in SUBSET Tags \/ job[g].tags = {}

AttemptsConsistent == \A g \in Goroutines : AttemptConsistent(g)

\* The mutex and the goroutines agree on who waits and who is inside.
LockConsistent(g) ==
    /\ waiting[g] = IF pc[g] = "wait" THEN job[g].uid ELSE NoUid
    /\ pc[g] \in Inside => holder[job[g].uid] = g

LocksConsistent ==
    /\ \A g \in Goroutines : LockConsistent(g)
    /\ \A u \in Uids :
        holder[u] # Free => pc[holder[u]] \in Inside /\ job[holder[u]].uid = u

IInv ==
    /\ TypeOK
    /\ AttemptsConsistent
    /\ LocksConsistent
    /\ SnapshotCurrent
=============================================================================
