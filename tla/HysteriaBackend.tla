-------------------------- MODULE HysteriaBackend --------------------------
(***************************************************************************)
(* hysteria2.Backend and its runner.  The core asks an HTTP server of the  *)
(* program whom to let in, and the program asks the core, over its stats   *)
(* port, to kick whom it has let in.  Every Start makes a server, a core   *)
(* and a stats port: all three carry the name of the core.  The program,   *)
(* RestartBackend calls and the health monitor start and stop; restarts    *)
(* take restartMu, the stop at the end of the program does not.  While     *)
(* the inbound is unregistered the service finds none to call for, and     *)
(* rewrites the record without it.                                         *)
(***************************************************************************)
EXTENDS Naturals

CONSTANTS Users,
          Procs, None,      \* cores; nil
          Callers,          \* RestartBackend calls that can be in flight
          Free,             \* an unlocked mutex
          MaxFailures,      \* healthFailures
          RestartOnFailure  \* HYSTERIA_RESTART_ON_FAILURE

Main == "main"
HealthMonitor == "health"
Actors == Callers \cup {Main, HealthMonitor}

ASSUME CallersAssumption == {Main, HealthMonitor} \cap Callers = {} /\ Free \notin Actors
ASSUME MonitorAssumption == MaxFailures \in Nat \ {0} /\ RestartOnFailure \in BOOLEAN
ASSUME NoneAssumption == None \notin Procs

VARIABLES
    proc, cmd,            \* the state of each core; Runner.cmd
    servers, server,      \* the authentication servers that run; Backend.server
    statsPort,            \* the core that statsPort and statsSecret belong to
    registered,           \* the inbound is in the storage
    stopPlanned, restartMu,
    pc, mine,             \* control, and the core a Start or Stop is about
    failures,             \* consecutiveFailures
    known, store,         \* usersByPass; the users that the storage has
    op, target,           \* the service's message about each user; where it sends its kick
    asked, conn,          \* the core that has been told yes, and that serves each user
    \* history, read by the properties only
    half,                 \* users whose removal failed after the password was gone
    raced,                \* users who had been told yes when they were removed
    missed                \* users whose record lost the inbound without a call

runnerVars == <<proc, cmd>>
authVars == <<servers, server, statsPort, registered>>
lifeVars == <<stopPlanned, restartMu, pc, mine, failures>>
userVars == <<known, store, op, target, half, raced, missed>>
sessionVars == <<asked, conn>>
vars == <<proc, cmd, servers, server, statsPort, registered, stopPlanned, restartMu, pc, mine,
          failures, known, store, op, target, half, raced, missed, asked, conn>>

TypeOK ==
    /\ proc \in [Procs -> {"gone", "up", "hung", "dying"}]
    /\ {cmd, server, statsPort} \subseteq Procs \cup {None}
    /\ servers \subseteq Procs /\ {registered, stopPlanned} \subseteq BOOLEAN
    /\ restartMu \in Actors \cup {Free}
    /\ pc \in [Actors -> {"idle", "lock", "stop", "signal", "wait", "start", "launch", "publish",
                          "serving", "exited", "fatal"}]
    /\ mine \in [Actors -> Procs \cup {None}]
    /\ failures \in 0..MaxFailures - 1
    /\ known \subseteq Users /\ store \subseteq Users
    /\ half \subseteq Users /\ raced \subseteq Users /\ missed \subseteq Users
    /\ op \in [Users -> {"idle", "adding", "added", "unresolved", "kick"}]
    /\ {target, asked, conn} \subseteq [Users -> Procs \cup {None}]

Init ==
    /\ proc = [p \in Procs |-> "gone"] /\ cmd = None
    /\ servers = {} /\ server = None /\ statsPort = None /\ registered = FALSE
    /\ stopPlanned = FALSE /\ restartMu = Free
    /\ pc = [a \in Actors |-> IF a = Main THEN "start" ELSE "idle"]
    /\ mine = [a \in Actors |-> None]
    /\ failures = 0
    /\ known = {} /\ store = {} /\ half = {} /\ raced = {} /\ missed = {}
    /\ op = [u \in Users |-> "idle"] /\ target = [u \in Users |-> None]
    /\ asked = [u \in Users |-> None] /\ conn = [u \in Users |-> None]

Alive(p) == p # None /\ proc[p] # "gone"

\* Core p ends, and with it what it was doing for users.
Ends(p) ==
    LET without(f) == [u \in Users |-> IF f[u] = p THEN None ELSE f[u]] IN
    /\ proc' = [proc EXCEPT ![p] = "gone"]
    /\ asked' = without(asked) /\ conn' = without(conn)

\* Start, Stop or Restart returns.
Return(a, error) ==
    /\ pc' = [pc EXCEPT ![a] = IF a # Main THEN "idle"
                               ELSE IF pc[a] = "wait" \/ pc[a] = "signal" THEN "exited"
                               ELSE IF error THEN "fatal" ELSE "serving"]
    /\ mine' = [mine EXCEPT ![a] = None]
    /\ restartMu' = IF restartMu = a THEN Free ELSE restartMu

Goto(a, label) == pc' = [pc EXCEPT ![a] = label]

-----------------------------------------------------------------------------
(* Restart is Stop, then Start *)

\* Restart waits for the restart before it.  Faulty variant: it does not.
RestartAnytime == TRUE
RestartFree == restartMu = Free

Lock(a) ==
    /\ pc[a] = "lock" /\ RestartFree
    /\ restartMu' = a /\ Goto(a, "stop")
    /\ UNCHANGED <<runnerVars, authVars, stopPlanned, mine, failures, userVars, sessionVars>>

\* stopAuthServer and UnregisterInbound.
StopAuth(a) ==
    /\ pc[a] = "stop" /\ Goto(a, "signal")
    /\ stopPlanned' = TRUE
    /\ servers' = servers \ {server} /\ server' = None
    /\ registered' = FALSE
    /\ UNCHANGED <<runnerVars, statsPort, restartMu, mine, failures, userVars, sessionVars>>

\* Runner.Stop has nothing to stop, or interrupts the core and waits.
Signal(a) ==
    /\ pc[a] = "signal"
    /\ IF cmd = None
       THEN /\ stopPlanned' = FALSE
            /\ IF a = Main THEN Return(a, FALSE) ELSE Goto(a, "start") /\ UNCHANGED <<mine, restartMu>>
            /\ UNCHANGED proc
       ELSE /\ proc' = [proc EXCEPT ![cmd] = IF @ = "gone" THEN @ ELSE "dying"]
            /\ mine' = [mine EXCEPT ![a] = cmd] /\ Goto(a, "wait")
            /\ UNCHANGED <<stopPlanned, restartMu>>
    /\ UNCHANGED <<cmd, authVars, failures, userVars, sessionVars>>

\* It always waits for three seconds, or until its context ends, and then
\* kills.  Faulty variant: an interrupt is taken to be enough.
Spared(p) == UNCHANGED <<proc, asked, conn>>
Killed(p) == Ends(p)

Wait(a) ==
    /\ pc[a] = "wait" /\ Killed(mine[a])
    /\ stopPlanned' = FALSE
    /\ \/ a # Main /\ Goto(a, "start") /\ mine' = [mine EXCEPT ![a] = None] /\ UNCHANGED restartMu
       \/ a \in Callers \cup {Main} /\ Return(a, TRUE)
    /\ UNCHANGED <<cmd, authVars, failures, userVars>>

\* The password map outlives a restart.  Faulty variant: Start makes a new one.
ForgottenUsers == {}
KeptUsers == known

\* The configuration is chosen and loaded, the inbound registered, the
\* authentication server started; it may fail before or after it registers.
StartAuth(a) ==
    /\ pc[a] = "start"
    /\ \/ \E p \in Procs :
            /\ proc[p] = "gone" /\ p \notin servers \cup {cmd, statsPort}
            /\ \A b \in Actors : mine[b] # p
            /\ \A u \in Users : target[u] # p
            /\ servers' = servers \cup {p} /\ server' = p
            /\ mine' = [mine EXCEPT ![a] = p] /\ Goto(a, "launch")
            /\ registered' = TRUE /\ known' = KeptUsers
            /\ UNCHANGED restartMu
       \/ Return(a, TRUE) /\ registered' \in {registered, TRUE} /\ UNCHANGED <<servers, server, known>>
    /\ UNCHANGED <<runnerVars, statsPort, stopPlanned, failures, store, op, target, half, raced,
                   missed, sessionVars>>

\* Runner.Start does not look whether a core is there; when it fails, the
\* authentication server is stopped again.
Launch(a) ==
    /\ pc[a] = "launch"
    /\ \/ /\ proc' = [proc EXCEPT ![mine[a]] = "up"] /\ cmd' = mine[a]
          /\ Goto(a, "publish")
          /\ UNCHANGED <<servers, server, mine, restartMu>>
       \/ /\ servers' = servers \ {server} /\ server' = None
          /\ Return(a, TRUE)
          /\ UNCHANGED runnerVars
    /\ UNCHANGED <<statsPort, registered, stopPlanned, failures, userVars, sessionVars>>

Publish(a) ==
    /\ pc[a] = "publish" /\ Return(a, FALSE)
    /\ statsPort' = mine[a]
    /\ UNCHANGED <<runnerVars, servers, server, registered, stopPlanned, failures, userVars,
                   sessionVars>>

\* Runner.wait.
Reap(p) ==
    /\ cmd = p /\ proc[p] = "gone"
    /\ cmd' = None
    /\ UNCHANGED <<proc, authVars, lifeVars, userVars, sessionVars>>

-----------------------------------------------------------------------------
(* Who asks for restarts, and for the end *)

Call(a) ==
    /\ a \in Callers /\ pc[a] = "idle" /\ pc[Main] = "serving"
    /\ Goto(a, "lock")
    /\ UNCHANGED <<runnerVars, authVars, stopPlanned, restartMu, mine, failures, userVars, sessionVars>>

\* A core that is not running is a failure.  Faulty variant: it is none.
NotRunningIsFine == cmd = None \/ (statsPort # None /\ proc[statsPort] = "up")
Healthy == cmd # None /\ statsPort # None /\ proc[statsPort] = "up"

\* Restart at the threshold.  Faulty variant: one failure later.
PastLimit(n) == n > MaxFailures
AtLimit(n) == n >= MaxFailures

\* A tick, which comes too late to see the first Start at work.
Tick ==
    LET count == IF Healthy THEN 0 ELSE failures + 1
        limit == AtLimit(count)
    IN
    /\ pc[HealthMonitor] = "idle" /\ pc[Main] \notin {"start", "launch", "publish"}
    /\ failures' = IF stopPlanned \/ limit THEN 0 ELSE count
    /\ IF ~stopPlanned /\ limit /\ RestartOnFailure THEN Goto(HealthMonitor, "lock") ELSE UNCHANGED pc
    /\ UNCHANGED <<runnerVars, authVars, stopPlanned, restartMu, mine, userVars, sessionVars>>

\* A signal: GracefulStop has let the calls end, then main stops the backend.
Shutdown ==
    /\ pc[Main] = "serving"
    /\ \A a \in Callers : pc[a] = "idle"
    /\ \A u \in Users : op[u] = "idle"
    /\ Goto(Main, "stop")
    /\ UNCHANGED <<runnerVars, authVars, stopPlanned, restartMu, mine, failures, userVars, sessionVars>>

-----------------------------------------------------------------------------
(* A message about a user: the service resolves its tags, calls AddUser or *)
(* RemoveUser for the inbound, and updates the storage                     *)

\* A message that has the tag, or has others instead of the stored one.  While the
\* inbound is not registered neither its new nor its removed tag resolves to it.
Resolve(u) ==
    /\ op[u] = "idle" /\ pc[Main] = "serving"
    /\ \/ registered /\ op' = [op EXCEPT ![u] = "adding"]
       \/ ~registered /\ u \in store /\ op' = [op EXCEPT ![u] = "unresolved"]
    /\ UNCHANGED <<runnerVars, authVars, lifeVars, known, store, target, half, raced, missed,
                   sessionVars>>

Add(u) ==
    /\ op[u] = "adding" /\ op' = [op EXCEPT ![u] = "added"]
    /\ known' = known \cup {u}
    /\ half' = half \ {u} /\ missed' = missed \ {u}
    /\ UNCHANGED <<runnerVars, authVars, lifeVars, store, target, raced, sessionVars>>

\* The record is rewritten, with the inbound only if it was resolved.
Record(u) ==
    /\ op[u] \in {"added", "unresolved"} /\ op' = [op EXCEPT ![u] = "idle"]
    /\ \/ op[u] = "added" /\ store' = store \cup {u} /\ UNCHANGED missed
       \/ op[u] = "unresolved" /\ store' = store \ {u} /\ missed' = missed \cup {u}
    /\ UNCHANGED <<runnerVars, authVars, lifeVars, known, target, half, raced, sessionVars>>

\* RemoveUser deletes the password and reads the stats port together; a message
\* without tags comes here whether or not the inbound is registered ...
Delete(u) ==
    /\ op[u] = "idle" /\ u \in store /\ pc[Main] = "serving"
    /\ op' = [op EXCEPT ![u] = "kick"]
    /\ known' = known \ {u}
    /\ target' = [target EXCEPT ![u] = statsPort]
    /\ raced' = IF asked[u] # None THEN raced \cup {u} ELSE raced \ {u}
    /\ UNCHANGED <<runnerVars, authVars, lifeVars, store, half, missed, sessionVars>>

\* Only a core that is there can be kicked from.  Faulty variant: a kick that
\* reaches nobody counts as well.
KickIgnored(p) == TRUE
KickWorks(p) == p # None /\ proc[p] \in {"up", "dying"}

\* ... then kicks; the service keeps a user whose removal fails, which it may
\* whatever the core does.
Kick(u) ==
    /\ op[u] = "kick" /\ op' = [op EXCEPT ![u] = "idle"]
    /\ target' = [target EXCEPT ![u] = None]
    /\ \/ /\ KickWorks(target[u])
          /\ store' = store \ {u}
          /\ conn' = [conn EXCEPT ![u] = IF @ = target[u] THEN None ELSE @]
          /\ UNCHANGED half
       \/ half' = half \cup {u} /\ UNCHANGED <<store, conn>>
    /\ UNCHANGED <<runnerVars, authVars, lifeVars, known, raced, missed, asked>>

-----------------------------------------------------------------------------
(* hysteria (external): it asks authHandler, lets users in, hangs, ends *)

\* authHandler says yes to whom the map knows.
Ask(u, p) ==
    /\ proc[p] = "up" /\ p \in servers
    /\ conn[u] = None /\ asked[u] = None /\ u \in known
    /\ asked' = [asked EXCEPT ![u] = p]
    /\ UNCHANGED <<runnerVars, authVars, lifeVars, userVars, conn>>

Admit(u) ==
    /\ asked[u] # None
    /\ conn' = [conn EXCEPT ![u] = asked[u]] /\ asked' = [asked EXCEPT ![u] = None]
    /\ UNCHANGED <<runnerVars, authVars, lifeVars, userVars>>

Leave(u) ==
    /\ conn[u] # None /\ conn' = [conn EXCEPT ![u] = None]
    /\ UNCHANGED <<runnerVars, authVars, lifeVars, userVars, asked>>

CoreFails(p) ==
    /\ \/ proc[p] = "up" /\ proc' = [proc EXCEPT ![p] = "hung"] /\ UNCHANGED sessionVars
       \/ Alive(p) /\ Ends(p)
    /\ UNCHANGED <<cmd, authVars, lifeVars, userVars>>

-----------------------------------------------------------------------------
Stopping(a) == StopAuth(a) \/ Signal(a) \/ Wait(a)
Starting(a) == StartAuth(a) \/ Launch(a) \/ Publish(a)
Ended == pc[Main] \in {"exited", "fatal"}

Program ==
    /\ ~Ended
    /\ \/ \E a \in Actors : Lock(a) \/ Stopping(a) \/ Starting(a) \/ Call(a)
       \/ \E p \in Procs : Reap(p)
       \/ Tick \/ Shutdown
       \/ \E u \in Users : Resolve(u) \/ Add(u) \/ Record(u) \/ Delete(u) \/ Kick(u)
       \/ \E u \in Users, p \in Procs : Ask(u, p)

Core == \E p \in Procs : CoreFails(p)
Session == \E u \in Users : Admit(u) \/ Leave(u)
Exited == Ended /\ UNCHANGED vars

Next == Program \/ Core \/ Session \/ Exited

Spec == Init /\ [][Next]_vars

\* Goroutines keep running, every wait has a time limit, restartMu starves
\* nobody, an ended process is reaped.  Of calls, users and cores nothing.
Fairness ==
    /\ \A a \in Actors : WF_vars(Program /\ (Stopping(a) \/ Starting(a)))
    /\ \A a \in Actors : SF_vars(Program /\ Lock(a))
    /\ \A p \in Procs : WF_vars(Program /\ Reap(p))
    /\ WF_vars(Program /\ Tick)
    /\ \A u \in Users : WF_vars(Program /\ (Add(u) \/ Record(u) \/ Kick(u)))

FairSpec == Spec /\ Fairness

-----------------------------------------------------------------------------
(* Properties *)

Serving == pc[Main] = "serving"
Settled == Serving /\ \A a \in Actors \ {Main} : pc[a] \in {"idle", "lock"}

\* While the program serves there is never a second core, though Runner.Start
\* looks for none: every Stop kills before it returns
\* (hysteria2/runner.go:33-68, 106-124).
OneCore == Serving => \A p, q \in Procs : Alive(p) /\ Alive(q) => p = q

\* Between restarts a core that is there can ask its authentication server, and
\* the program has its stats port: no Stop came between the steps of a Start
\* (hysteria2/backend.go:110-210).
CoreIsWired == Settled /\ Alive(cmd) => cmd \in servers /\ statsPort = cmd

\* Who may log in is who is stored, through every restart and crash, with two
\* exceptions: a user whose removal failed when the password had gone is stored
\* and kept out, and one whose message came while a restart had unregistered the
\* inbound lost the record and kept the password
\* (service.go:212-268, hysteria2/backend.go:140, 199, 212-243).
PasswordsMatchStore ==
    \A u \in Users : op[u] = "idle" /\ u \notin half \cup missed => (u \in known <=> u \in store)

\* A user whom RemoveUser took out of the storage is not served, not even by the
\* core of a later restart, unless the core had been told yes and let the user in
\* after the kick; one whose record went without RemoveUser, as above, may be
\* (hysteria2/backend.go:222-243, 316-337).
RemovedStaysOut ==
    \A u \in Users : op[u] = "idle" /\ u \notin store \cup raced \cup missed => conn[u] = None

\* With restarts on failure, a core that is missing is started again and again:
\* a failed restart does not end that (hysteria2/backend.go:347-418).
DownIsRestarted ==
    RestartOnFailure => []<>(Alive(cmd) \/ ~Serving \/ \E a \in Actors : pc[a] = "start")

-----------------------------------------------------------------------------
(* The inductive invariant behind the safety properties *)

\* Restarts exclude one another, and the first Start has the program to itself.
ControlInv ==
    /\ pc[Main] \notin {"idle", "lock"} /\ restartMu # Main
    /\ \A a \in Actors \ {Main} :
          /\ pc[a] \notin {"serving", "exited", "fatal"}
          /\ pc[a] \notin {"idle", "lock"} <=> restartMu = a
          /\ pc[Main] \in {"start", "launch", "publish"} => pc[a] = "idle"
    /\ \A a \in Actors : pc[a] \in {"wait", "launch", "publish"} => mine[a] # None

\* Until the stop at the end, which takes no lock, the runner knows the only
\* core there is, and each step of a restart what the step before has left.
CoreInv ==
    pc[Main] \in {"start", "launch", "publish", "serving"} =>
        /\ \A p \in Procs : Alive(p) => cmd = p
        /\ \A a \in Actors :
              /\ pc[a] \in {"start", "launch"} => \A p \in Procs : ~Alive(p)
              /\ pc[a] = "wait" => \A p \in Procs : Alive(p) => mine[a] = p
              /\ pc[a] = "launch" => mine[a] \in servers
              /\ pc[a] = "publish" /\ Alive(cmd) => cmd \in servers /\ mine[a] = cmd
        /\ Alive(cmd) /\ (\A a \in Actors : pc[a] \in {"idle", "lock", "stop", "serving"}) =>
              cmd \in servers /\ statsPort = cmd

\* Only a core that is there serves, and it has been told yes only about users
\* who are known, or were when they were removed.
SessionInv ==
    \A u \in Users :
        /\ conn[u] # None => Alive(conn[u])
        /\ asked[u] # None => Alive(asked[u])
        /\ u \notin known \cup raced => asked[u] = None

\* The password, the storage and the connection of a user at each step of a call.
UsersInv ==
    \A u \in Users :
        /\ op[u] # "idle" => Serving
        /\ u \in half => u \notin known
        /\ op[u] = "added" => u \in known \ missed
        /\ op[u] = "kick" => u \in store \ known
        /\ op[u] = "idle" =>
              /\ u \notin half \cup missed => (u \in known <=> u \in store)
              /\ u \notin store \cup raced \cup missed => conn[u] = None

IInv == TypeOK /\ ControlInv /\ CoreInv /\ SessionInv /\ UsersInv
=============================================================================
