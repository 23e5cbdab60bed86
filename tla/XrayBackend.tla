---------------------------- MODULE XrayBackend ----------------------------
(***************************************************************************)
(* The lifecycle of xray.Backend: Start, Stop and Restart as the program   *)
(* itself, RestartBackend calls, the failure monitor and the health        *)
(* monitor run them over one runner.  Restarts take restartMu; the stop at *)
(* the end of the program does not.  The worker that gives a new core its  *)
(* users appears here as running or not; what it does is in XrayUsers.     *)
(***************************************************************************)
EXTENDS XrayRunner, Naturals

CONSTANTS Callers,            \* RestartBackend calls that can be in flight
          Configs,            \* configurations
          TagsOf,             \* TagsOf[c]: the inbound tags of configuration c
          FileConfig,         \* what the configuration file holds at first
          NoConfig,           \* "" as an argument, nil as the running one
          RestartOnFailure,   \* XRAY_RESTART_ON_FAILURE
          MaxFailures,        \* healthFailures
          HasCooldown,        \* healthCooldown is not zero
          MayCancel,          \* bound: the callers whose context may end
          MayExit             \* bound: whether the program may be told to end

Main == "main"
FailureMonitor == "failures"
HealthMonitor == "health"
Monitors == {FailureMonitor, HealthMonitor}
Actors == Callers \cup Monitors \cup {Main}

AllTags == UNION {TagsOf[c] : c \in Configs}

ASSUME CallersAssumption ==
    Callers \cap (Monitors \cup {Main}) = {} /\ MayCancel \subseteq Callers /\ Free \notin Actors
ASSUME ConfigsAssumption ==
    /\ FileConfig \in Configs /\ NoConfig \notin Configs
    /\ DOMAIN TagsOf = Configs
ASSUME MonitorsAssumption == {RestartOnFailure, HasCooldown, MayExit} \subseteq BOOLEAN /\ MaxFailures \in Nat \ {0}
ASSUME NoProcAssumption == NoProc \notin Procs

VARIABLES
    stopPlanned, restartMu,
    cfg, api, raw,        \* runtimeCfg, the core b.api talks to, rawConfig
    saved,                \* the configuration file
    registered,           \* the tags in Memory.inbounds
    worker,               \* the repopulate goroutine: "off", "running", "cancelled"
    \* the locals of whoever runs Start, Stop or Restart
    pc, arg, mine, after, \* control, backendConfig, its process, what follows Stop
    failures, recent,     \* consecutiveFailures; within the cooldown of a start
    \* history, read by the properties only
    reported,             \* the last Start or Restart that ended reported an error
    late,                 \* the last core was launched when main's stop had looked for one
    early,                \* that of cmd was launched before the exit of the last was sent
    hasty                 \* those whose stop has given up waiting for the worker there is

backendVars == <<stopPlanned, restartMu, cfg, api, raw, saved, registered, worker>>
localVars == <<pc, arg, mine, after>>
monitorVars == <<failures, recent>>
historyVars == <<reported, late, early, hasty>>
vars == <<proc, reaper, cmd, exitCh, mu, stopPlanned, restartMu, cfg, api, raw, saved,
          registered, worker, pc, arg, mine, after, failures, recent, reported, late, early,
          hasty>>

BackendTypeOK ==
    /\ stopPlanned \in BOOLEAN
    /\ cfg \in Configs \cup {NoConfig} /\ raw \in Configs \cup {NoConfig}
    /\ saved \in Configs /\ registered \subseteq AllTags
    /\ api \in Procs \cup {NoProc}
    /\ worker \in {"off", "running", "cancelled"}

LocalTypeOK ==
    /\ restartMu \in Actors \cup {Free}
    /\ pc \in [Actors -> {"idle", "sleep", "probing", "lock", "stop", "drain", "signal", "await",
                          "clear", "prepare", "launch", "startup", "probe", "serving", "exited",
                          "fatal"}]
    /\ arg \in [Actors -> Configs \cup {NoConfig}]
    /\ mine \in [Actors -> Procs \cup {NoProc}]
    /\ after \in [Actors -> {"prepare", "fail", "exited"}]
    /\ reported \in BOOLEAN /\ hasty \subseteq Actors

TypeOK ==
    /\ RunnerTypeOK(Actors) /\ BackendTypeOK /\ LocalTypeOK
    /\ failures \in 0..MaxFailures - 1
    /\ recent \in BOOLEAN /\ late \in BOOLEAN /\ early \in BOOLEAN

Init ==
    /\ RunnerInit
    /\ stopPlanned = FALSE /\ restartMu = Free
    /\ cfg = NoConfig /\ api = NoProc /\ raw = NoConfig
    /\ saved = FileConfig /\ registered = {}
    /\ worker = "off"
    /\ pc = [a \in Actors |-> IF a = Main THEN "prepare" ELSE "idle"]
    /\ arg = [a \in Actors |-> NoConfig]
    /\ mine = [a \in Actors |-> NoProc]
    /\ after = [a \in Actors |-> "prepare"]
    /\ failures = 0 /\ recent = FALSE
    /\ reported = FALSE /\ late = FALSE /\ early = FALSE /\ hasty = {}

Goto(a, label) == pc' = [pc EXCEPT ![a] = label]

\* Start, or Restart, returns.
Return(a, error) ==
    /\ reported' = error /\ hasty' = hasty \ {a}
    /\ restartMu' = IF restartMu = a THEN Free ELSE restartMu
    /\ Goto(a, IF a # Main THEN "idle" ELSE IF error THEN "fatal" ELSE "serving")
    /\ arg' = [arg EXCEPT ![a] = NoConfig]
    /\ mine' = [mine EXCEPT ![a] = NoProc]
    /\ after' = [after EXCEPT ![a] = "prepare"]

-----------------------------------------------------------------------------
(* Stop *)

\* stopRepopulateStorageUsers cancels the worker and waits until it has ended.
\* Faulty variant: it does not wait.
WorkerTold == TRUE
WorkerDone == worker = "off"

BeginStop(a) ==
    /\ pc[a] = "stop" /\ Goto(a, IF worker = "off" THEN "signal" ELSE "drain")
    /\ stopPlanned' = TRUE
    /\ worker' = IF worker = "running" THEN "cancelled" ELSE worker
    /\ UNCHANGED <<runnerVars, restartMu, cfg, api, raw, saved, registered, arg, mine, after,
                   monitorVars, historyVars>>

\* Every stop waits twenty seconds at most, and goes on beside a worker that
\* has not looked at its context by then.
Drained(a) ==
    /\ pc[a] = "drain" /\ Goto(a, "signal")
    /\ \/ WorkerDone /\ UNCHANGED hasty
       \/ worker # "off" /\ hasty' = hasty \cup {a}
    /\ UNCHANGED <<runnerVars, backendVars, arg, mine, after, monitorVars, reported, late, early>>

Signal(a) ==
    /\ pc[a] = "signal" /\ Interrupt
    /\ mine' = [mine EXCEPT ![a] = cmd]
    /\ Goto(a, IF cmd = NoProc THEN "clear" ELSE "await")
    /\ UNCHANGED <<backendVars, arg, after, monitorVars, historyVars>>

\* Does the context of a's stop end?  That of the monitors and of the stop inside
\* Start does not.
ContextEnds(a) == a \in MayCancel \cup {Main} /\ after[a] # "fail"

\* An exit arrives, whosever it is, three seconds pass, or the context ends; an
\* ended context makes the stop fail, but only after it has cleared up.
Await(a) ==
    /\ pc[a] = "await" /\ Goto(a, "clear")
    /\ \/ TakeExit /\ UNCHANGED after
       \/ Kill(mine[a]) /\ UNCHANGED after
       \/ ContextEnds(a) /\ Kill(mine[a])
          /\ after' = [after EXCEPT ![a] = IF a = Main THEN @ ELSE "fail"]
    /\ UNCHANGED <<backendVars, arg, mine, monitorVars, historyVars>>

\* What Stop unregisters.
RunningTags == IF cfg = NoConfig THEN {} ELSE TagsOf[cfg]

Clear(a) ==
    /\ pc[a] = "clear"
    /\ IF after[a] = "fail"
       THEN Return(a, TRUE)
       ELSE /\ Goto(a, after[a])
            /\ mine' = [mine EXCEPT ![a] = NoProc]
            /\ UNCHANGED <<arg, after, restartMu, reported, hasty>>
    /\ registered' = registered \ RunningTags
    /\ cfg' = NoConfig /\ api' = NoProc
    /\ stopPlanned' = FALSE
    /\ UNCHANGED <<runnerVars, raw, saved, worker, monitorVars, late, early>>

-----------------------------------------------------------------------------
(* Start *)

\* Choose and save the configuration, find a port, load, register; an error
\* may come before or after the configuration is saved.
Prepare(a) ==
    LET chosen == IF arg[a] = NoConfig THEN saved ELSE arg[a] IN
    /\ pc[a] = "prepare"
    /\ \/ /\ Return(a, TRUE)
          /\ saved' \in {saved, chosen}
          /\ UNCHANGED registered
       \/ /\ Goto(a, "launch")
          /\ saved' = chosen
          /\ registered' = registered \cup TagsOf[chosen]
          /\ arg' = [arg EXCEPT ![a] = chosen]
          /\ UNCHANGED <<restartMu, mine, after, reported, hasty>>
    /\ UNCHANGED <<runnerVars, stopPlanned, cfg, api, raw, worker, monitorVars, late, early>>

\* The program's stop has looked for a core already.
Closing == pc[Main] \in {"await", "clear", "exited"}

\* The goroutine of an earlier core has cleared cmd and not yet sent the exit.
ExitUntold == \E p \in Procs : reaper[p] = "sending"

\* A process that nothing refers to stands for the next one.
Fresh(p) == Unused(p) /\ p # api /\ \A b \in Actors : p # mine[b]

Launch(a) ==
    /\ pc[a] = "launch"
    /\ \E p \in Procs : Fresh(p)
    /\ LET p == CHOOSE q \in Procs : Fresh(q) IN
       /\ Spawn(a, p) /\ Goto(a, "startup")
       /\ mine' = [mine EXCEPT ![a] = p]
    /\ late' = Closing /\ early' = ExitUntold
    /\ UNCHANGED <<backendVars, arg, after, monitorVars, reported, hasty>>

LaunchFails(a) ==
    /\ pc[a] = "launch" /\ SpawnFails /\ Return(a, TRUE)
    /\ UNCHANGED <<stopPlanned, cfg, api, raw, saved, registered, worker, monitorVars, late, early>>

\* The mutex of the runner is let go of, and the new core takes the place of
\* the old one; only the mutex of the backend comes in between.
Publish(a) ==
    /\ pc[a] = "startup" /\ StartedUp(a) /\ Goto(a, "probe")
    /\ cfg' = arg[a] /\ api' = mine[a] /\ raw' = arg[a]
    /\ UNCHANGED <<stopPlanned, restartMu, saved, registered, worker, arg, mine, after,
                   monitorVars, historyVars>>

StartupFails(a) ==
    /\ pc[a] = "startup" /\ ExitedDuringStartup(a) /\ Return(a, TRUE)
    /\ UNCHANGED <<stopPlanned, cfg, api, raw, saved, registered, worker, monitorVars, late, early>>

\* waitAPIReady, then startRepopulateStorageUsers, which does nothing while a
\* worker is there.
Ready(a) ==
    /\ pc[a] = "probe" /\ api # NoProc /\ proc[api] = "up"
    /\ Return(a, FALSE)
    /\ recent' = HasCooldown
    /\ worker' = IF worker = "off" THEN "running" ELSE worker
    /\ UNCHANGED <<runnerVars, stopPlanned, cfg, api, raw, saved, registered, failures, late, early>>

\* The API has not answered for six tries: Start stops what it started.
Unready(a) ==
    /\ pc[a] = "probe" /\ ~(api # NoProc /\ proc[api] = "up")
    /\ Goto(a, "stop") /\ after' = [after EXCEPT ![a] = "fail"]
    /\ UNCHANGED <<runnerVars, backendVars, arg, mine, monitorVars, historyVars>>

WorkerEnds ==
    /\ worker # "off"
    /\ worker' = "off" /\ hasty' = {}
    /\ UNCHANGED <<runnerVars, stopPlanned, restartMu, cfg, api, raw, saved, registered, localVars,
                   monitorVars, reported, late, early>>

-----------------------------------------------------------------------------
(* Who asks for a restart, and for the end *)

\* Restart waits for the restart before it.  Faulty variant: it does not.
RestartAnytime == TRUE
RestartFree == restartMu = Free

Lock(a) ==
    /\ pc[a] = "lock" /\ RestartFree
    /\ restartMu' = a /\ Goto(a, "stop")
    /\ UNCHANGED <<runnerVars, stopPlanned, cfg, api, raw, saved, registered, worker, arg, mine,
                   after, monitorVars, historyVars>>

\* RestartBackend, with a configuration or without.
Call(a) ==
    /\ a \in Callers /\ pc[a] = "idle" /\ pc[Main] = "serving"
    /\ \E c \in Configs \cup {NoConfig} : arg' = [arg EXCEPT ![a] = c]
    /\ Goto(a, "lock")
    /\ UNCHANGED <<runnerVars, backendVars, mine, after, monitorVars, historyVars>>

\* The failure monitor takes an exit and, unless a stop is planned, sleeps and
\* restarts.
ObserveExit ==
    /\ pc[FailureMonitor] = "idle" /\ TakeExit
    /\ IF stopPlanned \/ ~RestartOnFailure THEN UNCHANGED pc ELSE Goto(FailureMonitor, "sleep")
    /\ UNCHANGED <<backendVars, arg, mine, after, monitorVars, historyVars>>

WakeUp ==
    /\ pc[FailureMonitor] = "sleep" /\ Goto(FailureMonitor, "lock")
    /\ arg' = [arg EXCEPT ![FailureMonitor] = raw]
    /\ UNCHANGED <<runnerVars, backendVars, mine, after, monitorVars, historyVars>>

\* A tick of the health monitor (Running takes the runner's mutex): with nothing
\* to look at it starts counting anew, otherwise it probes the API of the moment.
Tick ==
    /\ pc[HealthMonitor] = "idle"
    /\ stopPlanned \/ mu = Free
    /\ IF stopPlanned \/ ~Running \/ api = NoProc
       THEN failures' = 0 /\ UNCHANGED <<pc, arg, mine>>
       ELSE /\ Goto(HealthMonitor, "probing")
            /\ arg' = [arg EXCEPT ![HealthMonitor] = raw]
            /\ mine' = [mine EXCEPT ![HealthMonitor] = api]
            /\ UNCHANGED failures
    /\ UNCHANGED <<runnerVars, backendVars, after, recent, historyVars>>

\* Another failure in a row.  Faulty variant: it is not counted.
SameCount == failures
OneMore == failures + 1

\* Faulty variant: one failure too late.
PastLimit(n) == n > MaxFailures
AtLimit(n) == n >= MaxFailures

\* Restart at the threshold, unless the last start was a moment ago.
HealthProbed ==
    LET answered == proc[mine[HealthMonitor]] = "up"
        restarts == ~answered /\ AtLimit(OneMore) /\ ~recent
    IN
    /\ pc[HealthMonitor] = "probing"
    /\ failures' = IF answered \/ AtLimit(OneMore) THEN 0 ELSE OneMore
    /\ Goto(HealthMonitor, IF restarts THEN "lock" ELSE "idle")
    /\ mine' = [mine EXCEPT ![HealthMonitor] = NoProc]
    /\ arg' = [arg EXCEPT ![HealthMonitor] = IF restarts THEN @ ELSE NoConfig]
    /\ UNCHANGED <<runnerVars, backendVars, after, recent, historyVars>>

CooldownPasses ==
    /\ recent /\ recent' = FALSE
    /\ UNCHANGED <<runnerVars, backendVars, localVars, failures, historyVars>>

\* A signal: GracefulStop has let the calls end, then main stops the backend.
Shutdown ==
    /\ MayExit /\ pc[Main] = "serving" /\ \A a \in Callers : pc[a] = "idle"
    /\ Goto(Main, "stop") /\ after' = [after EXCEPT ![Main] = "exited"]
    /\ UNCHANGED <<runnerVars, backendVars, arg, mine, monitorVars, historyVars>>

-----------------------------------------------------------------------------
(* The system *)

Stopping(a) == BeginStop(a) \/ Drained(a) \/ Signal(a) \/ Await(a) \/ Clear(a)

Starting(a) ==
    \/ Prepare(a) \/ Launch(a) \/ LaunchFails(a) \/ Publish(a) \/ StartupFails(a)
    \/ Ready(a) \/ Unready(a)

Monitoring == ObserveExit \/ WakeUp \/ Tick \/ HealthProbed \/ CooldownPasses

Reaping(p) ==
    /\ Reap(p) \/ ForgetCmd(p) \/ SendExit(p)
    /\ early' = (early /\ cmd' # NoProc)
    /\ UNCHANGED <<backendVars, localVars, monitorVars, reported, late, hasty>>

CoreStep(p) ==
    /\ ComeUp(p) \/ Hang(p) \/ Exit(p)
    /\ UNCHANGED <<reaper, cmd, exitCh, mu, backendVars, localVars, monitorVars, historyVars>>

\* When main returns, or gives up a failed start, every goroutine ends with it.
Ended == pc[Main] \in {"exited", "fatal"}

Program ==
    /\ ~Ended
    /\ \/ \E a \in Actors : Stopping(a) \/ Starting(a) \/ Lock(a) \/ Call(a)
       \/ Monitoring
       \/ \E p \in Procs : Reaping(p)
       \/ WorkerEnds
       \/ Shutdown

Exited == Ended /\ UNCHANGED vars

Next == Program \/ (\E p \in Procs : CoreStep(p)) \/ Exited

Spec == Init /\ [][Next]_vars

\* Goroutines keep running, every wait in Start and Stop has a time limit, a
\* mutex starves nobody, a killed process is reaped.  Nothing is assumed of the
\* callers, of signals, of the worker, and of a core: it need not come up, nor
\* live, nor exit.
Fairness ==
    /\ \A a \in Actors : WF_vars(Program /\ (Stopping(a) \/ Starting(a)))
    /\ \A a \in Actors : SF_vars(Program /\ (Lock(a) \/ Signal(a) \/ Launch(a)))
    /\ WF_vars(Program /\ (ObserveExit \/ WakeUp))
    /\ WF_vars(Program /\ Tick) /\ WF_vars(Program /\ HealthProbed)
    /\ WF_vars(Program /\ CooldownPasses)
    /\ \A p \in Procs : SF_vars(Program /\ Reaping(p))

FairSpec == Spec /\ Fairness

-----------------------------------------------------------------------------
(* Properties *)

\* There is never a second core, and Runner.cmd never loses the one there is,
\* whoever stops, restarts, times out or is told of an exit that is not its own
\* (xray/runner.go:38-163).
OneCore == \A p \in Procs : Alive(p) => cmd = p

\* The same as what a runner promises: no core begins before the last has ended.
Runner == INSTANCE Core WITH core <- IF Alive(cmd) THEN cmd ELSE NoProc
ImplementsCore == Runner!CoreSpec

\* Nobody is between the beginning of a Stop and the end of a Start.
Settled == \A a \in Actors : pc[a] \in {"idle", "sleep", "probing", "lock", "serving"}

\* When no start or stop is going on, the API that users are sent to is that of
\* the core that lives, and the inbounds of the configuration that the backend
\* answers for are registered: no Stop came between the steps of a Start
\* (xray/backend.go:122-170, 285-324).
PublishedIsCurrent ==
    Settled => /\ Alive(cmd) /\ api # NoProc => api = cmd
               /\ cfg # NoConfig => TagsOf[cfg] \subseteq registered

\* The end of the program leaves no core behind, in whatever state, but for two
\* kinds: one that a monitor launched when the stop had already looked for a
\* core (main.go:117-130), and one that was launched before the exit of the core
\* before it was sent: the stop takes that exit for its own, and the core is left
\* with the interrupt only (xray/runner.go:125-137, 148-162).
ExitLeavesNoCore ==
    pc[Main] = "exited" =>
        \A p \in Procs : Alive(p) => late \/ (early /\ proc[p] = "dying")

\* While the program serves, a restart that succeeds leaves a worker that gives
\* the users to the new core, and not one that is being cancelled with the core
\* before, unless that one is still there although the stop has waited for it, for
\* twenty seconds at most, whoever restarts (xray/backend.go:190-255, 285-295).
EveryRestartRepopulates ==
    [][\A a \in Actors \ {Main} :
          pc[a] = "probe" /\ pc'[a] = "idle" /\ pc[Main] = "serving" /\ a \notin hasty =>
             worker' = "running"]_vars

\* A node whose program serves does not stay without a core, unless the last
\* start or restart that ended has said that it failed: no exit is lost between
\* the channel, its three listeners and stopPlanned (xray/backend.go:396-414).
NeverSilentlyDown ==
    pc[Main] = "serving" ~>
        \/ \E p \in Procs : proc[p] \in {"up", "hung"}
        \/ reported \/ pc[Main] # "serving"

\* A core that has stopped answering is not kept, unless the last start or
\* restart failed: then it may be one that no api points at, which the health
\* monitor does not look at (xray/backend.go:416-493).
HungIsReplaced ==
    \A p \in Procs : proc[p] = "hung" ~> proc[p] # "hung" \/ reported \/ pc[Main] # "serving"

\* "xray exited during startup" (xray/runner.go:105): the core whose start is
\* said to have failed is gone.
StartupExitIsReal ==
    [][\A a \in Actors :
          pc[a] = "startup" /\ pc'[a] \in {"idle", "fatal"} => ~Alive(mine[a])]_vars

-----------------------------------------------------------------------------
(* The inductive invariant behind the theorems of XrayBackendProofs *)

StopSteps == {"stop", "drain", "signal", "await", "clear"}
StartSteps == {"prepare", "launch", "startup", "probe"}
FirstStart == {"prepare", "launch", "startup", "probe", "serving"}

\* A living process is waited for, and only that of cmd is.
Waited == \A p \in Procs : /\ Alive(p) => reaper[p] = "waiting"
                           /\ reaper[p] = "waiting" => cmd = p

\* The runner's mutex is held while a core comes up; that core is cmd.
MutexHeld == \A a \in Actors : /\ pc[a] = "startup" <=> mu = a
                               /\ pc[a] = "startup" => cmd = mine[a]

\* Only the holder of restartMu, and main, start and stop.
RestartHeld == \A a \in Actors \ {Main} : pc[a] \in StopSteps \cup StartSteps => restartMu = a

\* Main starts first, alone until its core can have exited, and stops last.
MainAlone ==
    /\ pc[Main] \in StopSteps \cup FirstStart \cup {"exited", "fatal"}
    /\ pc[Main] \in StopSteps => after[Main] \in {"exited", "fail"}
    /\ pc[Main] \in {"prepare", "launch"} =>
          /\ cmd = NoProc /\ ~exitCh /\ \A p \in Procs : reaper[p] = "idle"
          /\ \A a \in Actors \ {Main} : pc[a] = "idle"
    /\ pc[Main] = "startup" =>
          \A a \in Actors \ {Main} : pc[a] \notin {"await", "clear"} \cup StartSteps

\* A start begins without an API, and publishes that of its core.
Published ==
    /\ \A a \in Actors : pc[a] \in {"prepare", "launch", "startup"} => api = NoProc /\ cfg = NoConfig
    /\ Alive(cmd) /\ api # NoProc => api = cmd

\* What is registered stays so until main stops.
TagsKept ==
    pc[Main] \in FirstStart =>
        /\ cfg # NoConfig => TagsOf[cfg] \subseteq registered
        /\ \A a \in Actors : pc[a] \in {"launch", "startup"} => TagsOf[arg[a]] \subseteq registered

IInv == TypeOK /\ Waited /\ MutexHeld /\ RestartHeld /\ MainAlone /\ Published /\ TagsKept
=============================================================================
