--------------------------- MODULE SingboxBackend ---------------------------
(***************************************************************************)
(* singbox.Backend: users live in the configuration in memory; a worker    *)
(* writes the full configuration and makes the core read it again; a       *)
(* restart builds a new configuration from the storage.  AddUser,          *)
(* RemoveUser and the worker share configMu, which a restart does not      *)
(* take.  One inbound stands for each of them.  Restarts, whoever asks     *)
(* (RestartBackend and the two monitors), exclude one another.  While no   *)
(* configuration is published no backend has the tag: the service skips    *)
(* the call and updates the storage all the same.                          *)
(***************************************************************************)
EXTENDS Naturals

CONSTANTS Users,
          Worker, Free,     \* the holder of configMu that is not a user's call; nobody
          NoConfig,         \* nil
          MaxCopies         \* bound: accounts of one user in a configuration

ASSUME MaxCopiesAssumption == MaxCopies \in Nat \ {0}
ASSUME NoConfigAssumption == NoConfig \notin [Users -> 0..MaxCopies]
ASSUME HoldersAssumption == Worker \notin Users /\ Free \notin Users /\ Free # Worker

Config == [Users -> 0..MaxCopies]   \* how many accounts each user has in an inbound

VARIABLES
    store,          \* the users that the storage has on the inbound
    cfg, dirty,     \* runtimeCfg, configDirty
    configMu,
    full,           \* the file <config>.full
    core, loaded,   \* the process; what it has read
    hup,            \* a SIGHUP that the core has not handled yet
    worker, raw,    \* userUpdateWorker: where it is; its JSON of the configuration
    restart, built, \* Start and Restart: where they are; the configuration they make
    op,             \* op[u]: the service's call about user u
    orphan,         \* Stop took the configuration away that the holder of configMu uses
    raced,          \* users whose message was under way when a restart read the storage,
                    \* or was skipped after that, and who were not called since
    overwrote       \* the worker last wrote a configuration that was not the current one

serviceVars == <<store, op>>
fileVars == <<full, raw>>
coreVars == <<core, loaded, hup>>
restartVars == <<restart, built>>
vars == <<store, cfg, dirty, configMu, full, core, loaded, hup, worker, raw, restart, built,
          op, orphan, raced, overwrote>>

TypeOK ==
    /\ store \subseteq Users /\ raced \subseteq Users
    /\ {cfg, loaded, raw, built, full} \subseteq Config \cup {NoConfig}
    /\ {dirty, hup, orphan, overwrote} \subseteq BOOLEAN
    /\ configMu \in Users \cup {Worker, Free} /\ (worker # "idle" <=> configMu = Worker)
    /\ core \in {"down", "booting", "up"}
    /\ worker \in {"idle", "write", "reload"}
    /\ restart \in {"idle", "stop", "clear", "load", "save", "launch", "publish"}
    /\ op \in [Users -> {"idle", "adding", "added", "removing", "removed"}]

NoUsers == [u \in Users |-> 0]

\* The first Start has succeeded, with nothing stored (the program ends when it
\* fails); it comes before the first message.
Init ==
    /\ store = {} /\ raced = {}
    /\ cfg = NoUsers /\ dirty = FALSE /\ configMu = Free
    /\ full = NoUsers /\ core = "booting" /\ loaded = NoConfig /\ hup = FALSE
    /\ worker = "idle" /\ raw = NoConfig
    /\ restart = "idle" /\ built = NoConfig
    /\ op = [u \in Users |-> "idle"]
    /\ orphan = FALSE /\ overwrote = FALSE

-----------------------------------------------------------------------------
(* A message about a user: the service finds the backend of the tag, calls *)
(* it, and updates the storage                                             *)

\* The calls wait for configMu.  Faulty variant: they do not.
Unguarded == TRUE
ConfigFree == configMu = Free

\* The tag has a backend; lock configMu and read runtimeCfg.  When a restart has
\* taken it away in between, the call fails and nothing changes.  A repopulate
\* adds a user that is stored once more.
Begin(u) ==
    /\ op[u] = "idle" /\ ConfigFree /\ cfg # NoConfig
    /\ \/ cfg[u] < MaxCopies /\ op' = [op EXCEPT ![u] = "adding"]
       \/ u \in store /\ op' = [op EXCEPT ![u] = "removing"]
    /\ configMu' = u
    /\ raced' = raced \ {u}
    /\ UNCHANGED <<store, cfg, dirty, fileVars, coreVars, worker, restartVars, orphan, overwrote>>

\* No backend has the tag: the call is skipped with success.  The record gets the
\* tag if the message has it and it was registered when the message was resolved,
\* before Stop or from RegisterInbounds on; else it loses it.
Skip(u) ==
    /\ op[u] = "idle" /\ cfg = NoConfig
    /\ \E o \in {"added", "removed"} : op' = [op EXCEPT ![u] = o]
    /\ raced' = IF restart \in {"save", "launch", "publish"} THEN raced \cup {u} ELSE raced
    /\ UNCHANGED <<store, cfg, dirty, configMu, fileVars, coreVars, worker, restartVars, orphan,
                   overwrote>>

\* Config.AppendUser appends whatever is there; Config.RemoveUser drops every
\* account of the user.  Faulty variant: one account.
Fewer(n) == IF n = 0 THEN 0 ELSE n - 1
Dropped(n) == 0

\* The configuration that was read is changed, be it the current one or not.
Change(u) ==
    /\ op[u] \in {"adding", "removing"}
    /\ op' = [op EXCEPT ![u] = IF @ = "adding" THEN "added" ELSE "removed"]
    /\ cfg' = IF orphan \/ cfg = NoConfig THEN cfg
              ELSE [cfg EXCEPT ![u] = IF op[u] = "adding" THEN @ + 1 ELSE Dropped(@)]
    /\ dirty' = TRUE
    /\ configMu' = Free /\ orphan' = FALSE
    /\ UNCHANGED <<store, fileVars, coreVars, worker, restartVars, raced, overwrote>>

\* The service updates the storage when the backend has succeeded, or was skipped.
Record(u) ==
    /\ op[u] \in {"added", "removed"}
    /\ op' = [op EXCEPT ![u] = "idle"]
    /\ store' = IF op[u] = "added" THEN store \cup {u} ELSE store \ {u}
    /\ UNCHANGED <<cfg, dirty, configMu, fileVars, coreVars, worker, restartVars, orphan, raced,
                   overwrote>>

-----------------------------------------------------------------------------
(* userUpdateWorker *)

\* A tick with no configuration, or nothing dirty, does nothing.
Snapshot ==
    /\ worker = "idle" /\ dirty /\ configMu = Free /\ cfg # NoConfig
    /\ worker' = "write" /\ raw' = cfg
    /\ configMu' = Worker
    /\ UNCHANGED <<serviceVars, cfg, dirty, full, coreVars, restartVars, orphan, raced, overwrote>>

Write ==
    /\ worker = "write" /\ worker' = "reload"
    /\ full' = raw /\ raw' = NoConfig
    /\ overwrote' = orphan
    /\ UNCHANGED <<serviceVars, cfg, dirty, configMu, coreVars, restartVars, orphan, raced>>

\* Runner.Reload signals the core of the moment; without one it fails and the
\* configuration stays dirty.
Reload ==
    /\ worker = "reload" /\ worker' = "idle"
    /\ hup' = (core # "down")
    /\ dirty' = (core = "down")
    /\ configMu' = Free /\ orphan' = FALSE
    /\ UNCHANGED <<serviceVars, cfg, fileVars, core, loaded, restartVars, raced, overwrote>>

-----------------------------------------------------------------------------
(* Restart: Stop, then Start *)

BeginRestart ==
    /\ restart = "idle" /\ restart' = "stop"
    /\ UNCHANGED <<serviceVars, cfg, dirty, configMu, fileVars, coreVars, worker, built, orphan,
                   raced, overwrote>>

\* Runner.Stop interrupts the core and waits for it, or kills it.
StopCore ==
    /\ restart = "stop" /\ restart' = "clear"
    /\ core' = "down" /\ loaded' = NoConfig /\ hup' = FALSE
    /\ UNCHANGED <<serviceVars, cfg, dirty, configMu, fileVars, worker, built, orphan, raced,
                   overwrote>>

\* Stop clears up; when its context has ended Restart gives up after that.
Clear ==
    /\ restart = "clear" /\ restart' \in {"load", "idle"}
    /\ cfg' = NoConfig
    /\ orphan' = (configMu # Free)
    /\ UNCHANGED <<serviceVars, dirty, configMu, fileVars, coreVars, worker, built, raced, overwrote>>

\* addStorageUsers.  Faulty variant: NoUsers.
StorageUsers == [u \in Users |-> IF u \in store THEN 1 ELSE 0]

\* Choose, load and register the configuration, and add the users of the
\* storage; each of that may fail.
Load ==
    /\ restart = "load"
    /\ \/ /\ restart' = "save"
          /\ built' = StorageUsers
          /\ raced' = {u \in Users : op[u] # "idle"}
       \/ restart' = "idle" /\ UNCHANGED <<built, raced>>
    /\ UNCHANGED <<serviceVars, cfg, dirty, configMu, fileVars, coreVars, worker, orphan, overwrote>>

Save ==
    /\ restart = "save" /\ restart' = "launch"
    /\ full' = built /\ overwrote' = FALSE
    /\ UNCHANGED <<serviceVars, cfg, dirty, configMu, raw, coreVars, worker, built, orphan, raced>>

\* Runner.Start fails when the core before has not been reaped yet.
Launch ==
    /\ restart = "launch"
    /\ \/ restart' = "publish" /\ core' = "booting" /\ UNCHANGED built
       \/ restart' = "idle" /\ built' = NoConfig /\ UNCHANGED core
    /\ UNCHANGED <<serviceVars, cfg, dirty, configMu, fileVars, loaded, hup, worker, orphan, raced,
                   overwrote>>

Publish ==
    /\ restart = "publish" /\ restart' = "idle"
    /\ cfg' = built /\ built' = NoConfig
    /\ UNCHANGED <<serviceVars, dirty, configMu, fileVars, coreVars, worker, orphan, raced, overwrote>>

-----------------------------------------------------------------------------
(* sing-box (external): it reads the file when it starts and on SIGHUP, and *)
(* may end at any time                                                      *)

ReadFile ==
    /\ \/ core = "booting" /\ core' = "up" /\ UNCHANGED hup
       \/ core = "up" /\ hup /\ hup' = FALSE /\ UNCHANGED core
    /\ loaded' = full
    /\ UNCHANGED <<serviceVars, cfg, dirty, configMu, fileVars, worker, restartVars, orphan, raced,
                   overwrote>>

CoreEnds ==
    /\ core # "down"
    /\ core' = "down" /\ loaded' = NoConfig /\ hup' = FALSE
    /\ UNCHANGED <<serviceVars, cfg, dirty, configMu, fileVars, worker, restartVars, orphan, raced,
                   overwrote>>

-----------------------------------------------------------------------------
Restarting == StopCore \/ Clear \/ Load \/ Save \/ Launch \/ Publish

Next ==
    \/ \E u \in Users : Begin(u) \/ Skip(u) \/ Change(u) \/ Record(u)
    \/ Snapshot \/ Write \/ Reload
    \/ BeginRestart \/ Restarting
    \/ ReadFile \/ CoreEnds

Spec == Init /\ [][Next]_vars

\* Goroutines keep running, configMu starves nobody, the core handles its
\* signals.  Nobody need call or restart, and the core need not end.
Fairness ==
    /\ \A u \in Users : WF_vars(Change(u) \/ Record(u))
    /\ SF_vars(Snapshot) /\ WF_vars(Write \/ Reload)
    /\ WF_vars(Restarting)
    /\ WF_vars(ReadFile)

FairSpec == Spec /\ Fairness

-----------------------------------------------------------------------------
(* Properties *)

\* Between restarts the configuration in memory has the users that the storage
\* has, in however many copies, except for those whose last message a restart
\* lost: it was under way when the restart read the storage, so that its call
\* went to the old configuration or its record came late, or it was skipped
\* between that and the new configuration.  Messages skipped while no restart is
\* past its reading, also after one that failed, are not lost
\* (service.go:130-134, 145-149, singbox/backend.go:144, 159-163, 223-255).
StoredIsConfigured ==
    cfg # NoConfig /\ restart = "idle" =>
        \A u \in Users \ raced : op[u] = "idle" => (cfg[u] > 0 <=> u \in store)

\* When nothing is left to do, the core serves the configuration in memory: the
\* dirty flag is never lost to a change that comes while the worker writes or a
\* restart goes on.  Only when the worker wrote a configuration that a Stop had
\* taken away since it was read does this say nothing: in the code it may then
\* lie over the one that the restart wrote, clean and out of date
\* (singbox/backend.go:223-322).
CleanIsServed ==
    /\ cfg # NoConfig /\ restart = "idle"
    /\ core = "up" /\ ~hup /\ ~dirty /\ worker = "idle" /\ ~overwrote
    => loaded = cfg

\* Again and again, the core serves user u exactly when the storage has it, or
\* the user is being changed, a restart is going on or has failed, the core is
\* down, or a restart has lost u's last message or got its file overwritten, as
\* above (singbox/backend.go:223-322).
Served(u) == loaded # NoConfig /\ (loaded[u] > 0 <=> u \in store)
Excused(u) ==
    op[u] # "idle" \/ u \in raced \/ overwrote \/ restart # "idle" \/ cfg = NoConfig \/ core = "down"
StorageReachesCore == \A u \in Users : []<>(Served(u) \/ Excused(u))

-----------------------------------------------------------------------------
(* The inductive invariant behind StoredIsConfigured and CleanIsServed *)

\* Who holds configMu, and when the configuration that its holder has read is
\* still the current one.
HolderInv ==
    /\ \A u \in Users : op[u] \in {"adding", "removing"} <=> configMu = u
    /\ orphan => configMu # Free
    /\ ~orphan =>
          /\ \A u \in Users : op[u] = "adding" => cfg # NoConfig /\ cfg[u] < MaxCopies
          /\ worker = "write" => cfg # NoConfig /\ raw = cfg

\* A restart has a configuration of its own, and nobody is called in between.
RestartInv ==
    /\ cfg # NoConfig => restart \in {"idle", "stop", "clear"}
    /\ core # "down" => restart \in {"idle", "publish", "stop"}
    /\ restart \in {"save", "launch", "publish"} =>
          /\ built # NoConfig
          /\ \A u \in Users \ raced : op[u] = "idle" /\ (built[u] > 0 <=> u \in store)

\* Where the accounts of a user and the storage are, at each step of a call.
UsersInv ==
    cfg # NoConfig =>
        /\ orphan /\ configMu # Worker => configMu \in raced
        /\ \A u \in Users \ raced :
              CASE op[u] = "idle"    -> cfg[u] > 0 <=> u \in store
                [] op[u] = "added"   -> cfg[u] > 0
                [] op[u] = "removed" -> cfg[u] = 0
                [] OTHER             -> TRUE

\* The file has the configuration that was last made, unless the worker has
\* yet to write it, and the core what is in the file, unless a signal is due.
FileInv ==
    /\ ~overwrote /\ restart \in {"launch", "publish"} => full = built
    /\ ~overwrote /\ restart = "idle" /\ cfg # NoConfig =>
          (~dirty \/ worker = "reload" => full = cfg)
    /\ core = "up" /\ ~hup /\ worker # "reload" => loaded = full

IInv == TypeOK /\ HolderInv /\ RestartInv /\ UsersInv /\ FileInv
=============================================================================
