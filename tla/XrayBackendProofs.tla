------------------------- MODULE XrayBackendProofs -------------------------
(***************************************************************************)
(* Proofs about XrayBackend for any number of processes, callers and       *)
(* configurations: one core at a time, and what is published is that core. *)
(***************************************************************************)
EXTENDS XrayBackend, TLAPS

-----------------------------------------------------------------------------
(* Types *)

\* Returning keeps the types of the locals.
LEMMA ReturnTypes ==
    ASSUME LocalTypeOK, NEW a \in Actors, NEW e \in BOOLEAN, Return(a, e)
    PROVE  LocalTypeOK'
<1>1. reported' \in BOOLEAN /\ hasty' \subseteq Actors
    BY DEF Return, LocalTypeOK
<1>2. /\ restartMu' \in {restartMu, Free} /\ mine' = [mine EXCEPT ![a] = NoProc]
      /\ pc' \in {[pc EXCEPT ![a] = l] : l \in {"idle", "serving", "fatal"}}
      /\ arg' = [arg EXCEPT ![a] = NoConfig] /\ after' = [after EXCEPT ![a] = "prepare"]
    BY DEF Return, Goto
<1>3. QED BY <1>1, <1>2 DEF LocalTypeOK

\* Every step keeps the types.
LEMMA TypeKept ==
    ASSUME TypeOK, [Next]_vars
    PROVE  TypeOK'
<1>1. ASSUME NEW a \in Actors, Stopping(a) PROVE TypeOK'
  <2>1. CASE BeginStop(a)
    BY <2>1 DEF BeginStop, Goto, runnerVars, monitorVars, historyVars, TypeOK, BackendTypeOK,
        LocalTypeOK, RunnerTypeOK
  <2>2. CASE Drained(a)
    <3>1. /\ hasty' \subseteq Actors /\ pc' = [pc EXCEPT ![a] = "signal"]
          /\ UNCHANGED <<runnerVars, backendVars, arg, mine, after, monitorVars, reported, late,
                         early>>
        BY <2>2 DEF Drained, Goto, TypeOK, LocalTypeOK
    <3>2. QED
        BY <3>1 DEF TypeOK, BackendTypeOK, LocalTypeOK, RunnerTypeOK, runnerVars, backendVars,
            monitorVars
  <2>3. CASE Signal(a)
    BY <2>3 DEF Signal, Goto, Interrupt, IfAlive, Alive, backendVars, monitorVars, historyVars,
        TypeOK, BackendTypeOK, LocalTypeOK, RunnerTypeOK, AliveStates
  <2>4. CASE Await(a)
    <3>1. /\ exitCh' \in BOOLEAN
          /\ proc' \in {proc, [proc EXCEPT ![mine[a]] = "gone"]}
        BY <2>4 DEF Await, TakeExit, Kill, TypeOK, RunnerTypeOK
    <3>2. /\ pc' = [pc EXCEPT ![a] = "clear"]
          /\ after' \in {after, [after EXCEPT ![a] = "fail"]}
        BY <2>4 DEF Await, Goto, TypeOK, LocalTypeOK
    <3>3. UNCHANGED <<reaper, cmd, mu, backendVars, arg, mine, monitorVars, historyVars>>
        BY <2>4 DEF Await, TakeExit, Kill
    <3>4. QED
        BY <3>1, <3>2, <3>3 DEF TypeOK, BackendTypeOK, LocalTypeOK, RunnerTypeOK, backendVars,
            monitorVars, historyVars
  <2>5. CASE Clear(a)
    <3>1. BackendTypeOK' /\ UNCHANGED <<runnerVars, monitorVars, late, early>>
      <4>1. stopPlanned' \in BOOLEAN
          BY <2>5 DEF Clear
      <4>2. QED BY <2>5, <4>1 DEF Clear, TypeOK, BackendTypeOK
    <3>2. LocalTypeOK'
      <4>1. CASE after[a] = "fail"
          BY <2>5, <4>1, ReturnTypes DEF Clear, TypeOK
      <4>2. CASE after[a] # "fail"
          BY <2>5, <4>2 DEF Clear, Goto, TypeOK, LocalTypeOK
      <4>3. QED BY <4>1, <4>2
    <3>3. QED BY <3>1, <3>2 DEF TypeOK, RunnerTypeOK, runnerVars, monitorVars
  <2>6. QED BY <1>1, <2>1, <2>2, <2>3, <2>4, <2>5 DEF Stopping
<1>2. ASSUME NEW a \in Actors, Starting(a) PROVE TypeOK'
  <2>1. CASE Prepare(a)
    <3> DEFINE config == IF arg[a] = NoConfig THEN saved ELSE arg[a]
    <3>1. config \in Configs
        BY DEF TypeOK, LocalTypeOK, BackendTypeOK
    <3>2. TagsOf[config] \subseteq AllTags
        BY <3>1 DEF AllTags
    <3>3. BackendTypeOK'
        BY <2>1, <3>1, <3>2 DEF Prepare, TypeOK, BackendTypeOK
    <3>4. LocalTypeOK'
      <4>1. CASE Return(a, TRUE)
          BY <4>1, ReturnTypes DEF TypeOK
      <4>2. CASE /\ Goto(a, "launch") /\ arg' = [arg EXCEPT ![a] = config]
                 /\ UNCHANGED <<restartMu, mine, after, reported, hasty>>
          BY <3>1, <4>2 DEF Goto, TypeOK, LocalTypeOK
      <4>3. QED BY <2>1, <4>1, <4>2 DEF Prepare
    <3>5. UNCHANGED <<runnerVars, monitorVars, late, early>>
        BY <2>1 DEF Prepare
    <3>6. QED BY <3>3, <3>4, <3>5 DEF TypeOK, RunnerTypeOK, runnerVars, monitorVars
  <2>2. CASE Launch(a)
    <3>1. PICK p \in Procs : /\ Spawn(a, p) /\ mine' = [mine EXCEPT ![a] = p]
        BY <2>2 DEF Launch
    <3>2. exitCh' \in BOOLEAN /\ late' \in BOOLEAN /\ early' \in BOOLEAN
      <4>1. exitCh' = FALSE
          BY <3>1 DEF Spawn
      <4>2. late' \in BOOLEAN
        <5>1. late' = Closing
            BY <2>2 DEF Launch
        <5>2. Closing = TRUE \/ Closing = FALSE
            BY DEF Closing
        <5>3. QED BY <5>1, <5>2
      <4>3. early' \in BOOLEAN
          BY <2>2, Zenon DEF Launch, ExitUntold
      <4>4. QED BY <4>1, <4>2, <4>3
    <3>3. QED
        BY <2>2, <3>1, <3>2 DEF Launch, Spawn, Goto, TypeOK, BackendTypeOK, LocalTypeOK,
            RunnerTypeOK, AliveStates, backendVars, monitorVars
  <2>3. CASE LaunchFails(a)
    <3>1. LocalTypeOK'
        BY <2>3, ReturnTypes DEF LaunchFails, TypeOK
    <3>2. /\ exitCh' \in BOOLEAN
          /\ UNCHANGED <<proc, reaper, cmd, mu, stopPlanned, cfg, api, raw, saved, registered,
                         worker, failures, recent, late, early>>
        BY <2>3 DEF LaunchFails, SpawnFails, TypeOK, RunnerTypeOK, monitorVars
    <3>3. QED BY <3>1, <3>2 DEF TypeOK, BackendTypeOK, RunnerTypeOK
  <2>4. CASE Publish(a)
    BY <2>4 DEF Publish, Goto, StartedUp, monitorVars, historyVars, TypeOK, BackendTypeOK,
        LocalTypeOK, RunnerTypeOK
  <2>5. CASE StartupFails(a)
    <3>1. LocalTypeOK'
        BY <2>5, ReturnTypes DEF StartupFails, TypeOK
    <3>2. QED
        BY <2>5, <3>1 DEF StartupFails, ExitedDuringStartup, TypeOK, BackendTypeOK, RunnerTypeOK,
            monitorVars
  <2>6. CASE Ready(a)
    BY <2>6, MonitorsAssumption, ReturnTypes DEF Ready, runnerVars, TypeOK, BackendTypeOK,
        RunnerTypeOK
  <2>7. CASE Unready(a)
    BY <2>7 DEF Unready, Goto, runnerVars, backendVars, monitorVars, historyVars, TypeOK,
        BackendTypeOK, LocalTypeOK, RunnerTypeOK
  <2>8. QED BY <1>2, <2>1, <2>2, <2>3, <2>4, <2>5, <2>6, <2>7 DEF Starting
<1>3. ASSUME NEW a \in Actors, Lock(a) \/ Call(a) PROVE TypeOK'
  <2>1. CASE Lock(a)
    BY <2>1 DEF Lock, Goto, runnerVars, monitorVars, historyVars, TypeOK, BackendTypeOK,
        LocalTypeOK, RunnerTypeOK
  <2>2. CASE Call(a)
    BY <2>2 DEF Call, Goto, runnerVars, backendVars, monitorVars, historyVars, TypeOK,
        BackendTypeOK, LocalTypeOK, RunnerTypeOK
  <2>3. QED BY <1>3, <2>1, <2>2
<1>4. CASE Monitoring
  <2>1. CASE ObserveExit
    <3>1. /\ exitCh' \in BOOLEAN /\ pc' \in {pc, [pc EXCEPT ![FailureMonitor] = "sleep"]}
          /\ UNCHANGED <<proc, reaper, cmd, mu, backendVars, arg, mine, after, monitorVars, historyVars>>
        BY <2>1 DEF ObserveExit, TakeExit, Goto
    <3>2. QED
        BY <3>1 DEF TypeOK, BackendTypeOK, LocalTypeOK, RunnerTypeOK, backendVars, monitorVars,
            historyVars
  <2>2. CASE WakeUp
    BY <2>2 DEF WakeUp, Goto, runnerVars, backendVars, monitorVars, historyVars, TypeOK,
        BackendTypeOK, LocalTypeOK, RunnerTypeOK, Actors, Monitors
  <2>3. CASE Tick
    BY <2>3, MonitorsAssumption DEF Tick, Goto, runnerVars, backendVars, historyVars, TypeOK,
        BackendTypeOK, LocalTypeOK, RunnerTypeOK
  <2>4. CASE HealthProbed
    BY <2>4, MonitorsAssumption DEF HealthProbed, Goto, OneMore, AtLimit, runnerVars,
        backendVars, historyVars, TypeOK, BackendTypeOK, LocalTypeOK, RunnerTypeOK, Actors,
        Monitors
  <2>5. CASE CooldownPasses
    <3>1. /\ recent' \in BOOLEAN
          /\ UNCHANGED <<runnerVars, backendVars, localVars, failures, historyVars>>
        BY <2>5 DEF CooldownPasses
    <3>2. QED
        BY <3>1 DEF TypeOK, BackendTypeOK, LocalTypeOK, RunnerTypeOK, runnerVars, backendVars,
            localVars, historyVars
  <2>6. QED BY <1>4, <2>1, <2>2, <2>3, <2>4, <2>5 DEF Monitoring
<1>5. ASSUME NEW p \in Procs, Reaping(p) PROVE TypeOK'
  <2>1. CASE Reap(p)
    BY <1>5, <2>1 DEF Reap, Reaping, backendVars, localVars, monitorVars, historyVars, TypeOK,
        BackendTypeOK, LocalTypeOK, RunnerTypeOK
  <2>2. CASE ForgetCmd(p)
    BY <1>5, <2>2 DEF ForgetCmd, Reaping, backendVars, localVars, monitorVars, historyVars,
        TypeOK, BackendTypeOK, LocalTypeOK, RunnerTypeOK
  <2>3. CASE SendExit(p)
    BY <1>5, <2>3 DEF SendExit, Reaping, Told, backendVars, localVars, monitorVars, historyVars,
        TypeOK, BackendTypeOK, LocalTypeOK, RunnerTypeOK
  <2>4. QED BY <1>5, <2>1, <2>2, <2>3 DEF Reaping
<1>6. ASSUME NEW p \in Procs, CoreStep(p) PROVE TypeOK'
  <2>1. CASE ComeUp(p)
    BY <1>6, <2>1 DEF ComeUp, CoreStep, backendVars, localVars, monitorVars, historyVars,
        TypeOK, BackendTypeOK, LocalTypeOK, RunnerTypeOK, AliveStates
  <2>2. CASE Hang(p)
    BY <1>6, <2>2 DEF Hang, CoreStep, backendVars, localVars, monitorVars, historyVars, TypeOK,
        BackendTypeOK, LocalTypeOK, RunnerTypeOK, AliveStates
  <2>3. CASE Exit(p)
    BY <1>6, <2>3 DEF Exit, CoreStep, backendVars, localVars, monitorVars, historyVars, TypeOK,
        BackendTypeOK, LocalTypeOK, RunnerTypeOK
  <2>4. QED BY <1>6, <2>1, <2>2, <2>3 DEF CoreStep
<1>7. CASE WorkerEnds
    BY <1>7 DEF WorkerEnds, runnerVars, localVars, monitorVars, historyVars, TypeOK,
        BackendTypeOK, LocalTypeOK, RunnerTypeOK
<1>8. CASE Shutdown
    BY <1>8 DEF Shutdown, Goto, runnerVars, backendVars, monitorVars, historyVars, TypeOK,
        BackendTypeOK, LocalTypeOK, RunnerTypeOK, Actors
<1>9. CASE UNCHANGED vars
    BY <1>9 DEF vars, TypeOK, BackendTypeOK, LocalTypeOK, RunnerTypeOK
<1>10. QED BY <1>1, <1>2, <1>3, <1>4, <1>5, <1>6, <1>7, <1>8, <1>9 DEF Next, Program, Exited

\* A process that lives is waited for, and is that of cmd.
LEMMA WaitedKept ==
    ASSUME TypeOK, Waited, [Next]_vars
    PROVE  Waited'
<1>1. ASSUME NEW a \in Actors, Stopping(a) PROVE Waited'
  <2>1. CASE BeginStop(a)
    BY <2>1 DEF BeginStop, runnerVars, Waited, Alive
  <2>2. CASE Drained(a)
    BY <2>2 DEF Drained, runnerVars, Waited, Alive
  <2>3. CASE Signal(a)
    BY <2>3 DEF Signal, Interrupt, IfAlive, Alive, Waited
  <2>4. CASE Await(a)
    BY <2>4 DEF Await, TakeExit, Kill, Alive, Waited, TypeOK, RunnerTypeOK
  <2>5. CASE Clear(a)
    BY <2>5 DEF Clear, runnerVars, Waited, Alive
  <2>6. QED BY <1>1, <2>1, <2>2, <2>3, <2>4, <2>5 DEF Stopping
<1>2. ASSUME NEW a \in Actors, Starting(a) PROVE Waited'
  <2>1. CASE Prepare(a)
    BY <2>1 DEF Prepare, runnerVars, Waited, Alive
  <2>2. CASE Launch(a)
    <3>1. PICK p \in Procs : Spawn(a, p)
        BY <2>2 DEF Launch
    <3>2. \A q \in Procs : reaper[q] # "waiting" /\ ~Alive(q)
        BY <3>1, NoProcAssumption DEF Spawn, Running, Waited
    <3>3. QED
        BY <3>1, <3>2 DEF Spawn, Waited, Alive, TypeOK, RunnerTypeOK
  <2>3. CASE LaunchFails(a)
    BY <2>3 DEF LaunchFails, SpawnFails, Waited, Alive
  <2>4. CASE Publish(a)
    BY <2>4 DEF Publish, StartedUp, Waited, Alive
  <2>5. CASE StartupFails(a)
    BY <2>5 DEF StartupFails, ExitedDuringStartup, Waited, Alive
  <2>6. CASE Ready(a)
    BY <2>6 DEF Ready, runnerVars, Waited, Alive
  <2>7. CASE Unready(a)
    BY <2>7 DEF Unready, runnerVars, Waited, Alive
  <2>8. QED BY <1>2, <2>1, <2>2, <2>3, <2>4, <2>5, <2>6, <2>7 DEF Starting
<1>3. ASSUME NEW a \in Actors, Lock(a) \/ Call(a) PROVE Waited'
  <2>1. CASE Lock(a)
    BY <2>1 DEF Lock, runnerVars, Waited, Alive
  <2>2. CASE Call(a)
    BY <2>2 DEF Call, runnerVars, Waited, Alive
  <2>3. QED BY <1>3, <2>1, <2>2
<1>4. CASE Monitoring
  <2>1. CASE ObserveExit
    BY <2>1 DEF ObserveExit, TakeExit, Waited, Alive
  <2>2. CASE WakeUp
    BY <2>2 DEF WakeUp, runnerVars, Waited, Alive
  <2>3. CASE Tick
    BY <2>3 DEF Tick, runnerVars, Waited, Alive
  <2>4. CASE HealthProbed
    BY <2>4 DEF HealthProbed, runnerVars, Waited, Alive
  <2>5. CASE CooldownPasses
    BY <2>5 DEF CooldownPasses, runnerVars, Waited, Alive
  <2>6. QED BY <1>4, <2>1, <2>2, <2>3, <2>4, <2>5 DEF Monitoring
<1>5. ASSUME NEW p \in Procs, Reaping(p) PROVE Waited'
  <2>1. CASE Reap(p)
    BY <1>5, <2>1 DEF Reap, Waited, Alive, AliveStates
  <2>2. CASE ForgetCmd(p)
    BY <1>5, <2>2 DEF ForgetCmd, OwnExit, Waited, Alive, TypeOK, RunnerTypeOK
  <2>3. CASE SendExit(p)
    BY <1>5, <2>3 DEF SendExit, Waited, Alive
  <2>4. QED BY <1>5, <2>1, <2>2, <2>3 DEF Reaping
<1>6. ASSUME NEW p \in Procs, CoreStep(p) PROVE Waited'
  <2>1. CASE ComeUp(p)
    BY <1>6, <2>1 DEF ComeUp, CoreStep, Waited, Alive, AliveStates
  <2>2. CASE Hang(p)
    BY <1>6, <2>2 DEF Hang, CoreStep, Waited, Alive, AliveStates
  <2>3. CASE Exit(p)
    BY <1>6, <2>3 DEF Exit, CoreStep, Alive, Waited
  <2>4. QED BY <1>6, <2>1, <2>2, <2>3 DEF CoreStep
<1>7. CASE WorkerEnds
    BY <1>7 DEF WorkerEnds, runnerVars, Waited, Alive
<1>8. CASE Shutdown
    BY <1>8 DEF Shutdown, runnerVars, Waited, Alive
<1>9. CASE UNCHANGED vars
    BY <1>9 DEF vars, Waited, Alive
<1>10. QED BY <1>1, <1>2, <1>3, <1>4, <1>5, <1>6, <1>7, <1>8, <1>9 DEF Next, Program, Exited

\* The mutex is held by who starts a core.
LEMMA MutexKept ==
    ASSUME TypeOK, Waited, MutexHeld, [Next]_vars
    PROVE  MutexHeld'
<1>1. ASSUME NEW a \in Actors, Stopping(a) PROVE MutexHeld'
  <2>1. CASE BeginStop(a)
    BY <2>1 DEF BeginStop, Goto, runnerVars, MutexHeld
  <2>2. CASE Drained(a)
    BY <2>2 DEF Drained, Goto, runnerVars, MutexHeld
  <2>3. CASE Signal(a)
    BY <2>3 DEF Signal, Goto, Interrupt, MutexHeld
  <2>4. CASE Await(a)
    BY <2>4 DEF Await, Goto, TakeExit, Kill, MutexHeld
  <2>5. CASE Clear(a)
    BY <2>5 DEF Clear, Goto, Return, runnerVars, MutexHeld, TypeOK, LocalTypeOK
  <2>6. QED BY <1>1, <2>1, <2>2, <2>3, <2>4, <2>5 DEF Stopping
<1>2. ASSUME NEW a \in Actors, Starting(a) PROVE MutexHeld'
  <2>1. CASE Prepare(a)
    BY <2>1 DEF Prepare, Goto, Return, runnerVars, MutexHeld, TypeOK, LocalTypeOK
  <2>2. CASE Launch(a)
    BY <2>2, CallersAssumption DEF Launch, Goto, Spawn, MutexHeld, TypeOK, LocalTypeOK
  <2>3. CASE LaunchFails(a)
    BY <2>3 DEF LaunchFails, Goto, SpawnFails, Return, MutexHeld
  <2>4. CASE Publish(a)
    BY <2>4, CallersAssumption DEF Publish, Goto, StartedUp, MutexHeld, TypeOK, LocalTypeOK
  <2>5. CASE StartupFails(a)
    BY <2>5, CallersAssumption DEF StartupFails, Goto, ExitedDuringStartup, Return, MutexHeld,
        TypeOK, LocalTypeOK
  <2>6. CASE Ready(a)
    BY <2>6 DEF Ready, Goto, Return, runnerVars, MutexHeld
  <2>7. CASE Unready(a)
    BY <2>7 DEF Unready, Goto, runnerVars, MutexHeld
  <2>8. QED BY <1>2, <2>1, <2>2, <2>3, <2>4, <2>5, <2>6, <2>7 DEF Starting
<1>3. ASSUME NEW a \in Actors, Lock(a) \/ Call(a) PROVE MutexHeld'
  <2>1. CASE Lock(a)
    BY <2>1 DEF Lock, Goto, runnerVars, MutexHeld
  <2>2. CASE Call(a)
    BY <2>2 DEF Call, Goto, runnerVars, MutexHeld
  <2>3. QED BY <1>3, <2>1, <2>2
<1>4. CASE Monitoring
  <2>1. CASE ObserveExit
    BY <2>1 DEF ObserveExit, Goto, TakeExit, MutexHeld, TypeOK, LocalTypeOK
  <2>2. CASE WakeUp
    BY <2>2 DEF WakeUp, Goto, runnerVars, MutexHeld
  <2>3. CASE Tick
    BY <2>3 DEF Tick, Goto, runnerVars, MutexHeld, TypeOK, LocalTypeOK
  <2>4. CASE HealthProbed
    BY <2>4 DEF HealthProbed, Goto, runnerVars, MutexHeld
  <2>5. CASE CooldownPasses
    BY <2>5 DEF CooldownPasses, runnerVars, localVars, MutexHeld
  <2>6. QED BY <1>4, <2>1, <2>2, <2>3, <2>4, <2>5 DEF Monitoring
<1>5. ASSUME NEW p \in Procs, Reaping(p) PROVE MutexHeld'
  <2>1. CASE Reap(p)
    BY <1>5, <2>1 DEF Reap, Reaping, localVars, MutexHeld
  <2>2. CASE ForgetCmd(p)
    BY <1>5, <2>2, CallersAssumption DEF ForgetCmd, Reaping, localVars, MutexHeld
  <2>3. CASE SendExit(p)
    BY <1>5, <2>3 DEF SendExit, Reaping, localVars, MutexHeld
  <2>4. QED BY <1>5, <2>1, <2>2, <2>3 DEF Reaping
<1>6. ASSUME NEW p \in Procs, CoreStep(p) PROVE MutexHeld'
  <2>1. CASE ComeUp(p)
    BY <1>6, <2>1 DEF CoreStep, localVars, MutexHeld
  <2>2. CASE Hang(p)
    BY <1>6, <2>2 DEF CoreStep, localVars, MutexHeld
  <2>3. CASE Exit(p)
    BY <1>6, <2>3 DEF CoreStep, localVars, MutexHeld
  <2>4. QED BY <1>6, <2>1, <2>2, <2>3 DEF CoreStep
<1>7. CASE WorkerEnds
    BY <1>7 DEF WorkerEnds, runnerVars, localVars, MutexHeld
<1>8. CASE Shutdown
    BY <1>8 DEF Shutdown, Goto, runnerVars, MutexHeld
<1>9. CASE UNCHANGED vars
    BY <1>9 DEF vars, MutexHeld
<1>10. QED BY <1>1, <1>2, <1>3, <1>4, <1>5, <1>6, <1>7, <1>8, <1>9 DEF Next, Program, Exited

\* Only the holder of restartMu, and main, start and stop.
LEMMA RestartKept ==
    ASSUME TypeOK, RestartHeld, [Next]_vars
    PROVE  RestartHeld'
<1>1. ASSUME NEW a \in Actors, Stopping(a) PROVE RestartHeld'
  <2>1. CASE BeginStop(a)
    BY <2>1 DEF BeginStop, Goto, RestartHeld, StopSteps
  <2>2. CASE Drained(a)
    BY <2>2 DEF Drained, Goto, backendVars, RestartHeld, StopSteps
  <2>3. CASE Signal(a)
    BY <2>3 DEF Signal, Goto, backendVars, RestartHeld, StopSteps
  <2>4. CASE Await(a)
    BY <2>4 DEF Await, Goto, backendVars, RestartHeld, StopSteps
  <2>5. CASE Clear(a)
    BY <2>5 DEF Clear, Goto, Return, RestartHeld, StopSteps, StartSteps, TypeOK, LocalTypeOK
  <2>6. QED BY <1>1, <2>1, <2>2, <2>3, <2>4, <2>5 DEF Stopping
<1>2. ASSUME NEW a \in Actors, Starting(a) PROVE RestartHeld'
  <2>1. CASE Prepare(a)
    BY <2>1 DEF Prepare, Goto, Return, RestartHeld, StopSteps, StartSteps, TypeOK, LocalTypeOK
  <2>2. CASE Launch(a)
    BY <2>2 DEF Launch, Goto, backendVars, RestartHeld, StartSteps
  <2>3. CASE LaunchFails(a)
    BY <2>3 DEF LaunchFails, Goto, Return, RestartHeld, StopSteps, StartSteps, TypeOK,
        LocalTypeOK
  <2>4. CASE Publish(a)
    BY <2>4 DEF Publish, Goto, RestartHeld, StartSteps
  <2>5. CASE StartupFails(a)
    BY <2>5 DEF StartupFails, Goto, Return, RestartHeld, StopSteps, StartSteps, TypeOK,
        LocalTypeOK
  <2>6. CASE Ready(a)
    BY <2>6 DEF Ready, Goto, Return, RestartHeld, StopSteps, StartSteps, TypeOK, LocalTypeOK
  <2>7. CASE Unready(a)
    BY <2>7 DEF Unready, Goto, backendVars, RestartHeld, StartSteps
  <2>8. QED BY <1>2, <2>1, <2>2, <2>3, <2>4, <2>5, <2>6, <2>7 DEF Starting
<1>3. ASSUME NEW a \in Actors, Lock(a) \/ Call(a) PROVE RestartHeld'
  <2>1. CASE Lock(a)
    BY <2>1, CallersAssumption DEF Lock, Goto, RestartFree, RestartHeld
  <2>2. CASE Call(a)
    BY <2>2 DEF Call, Goto, backendVars, RestartHeld, StopSteps, StartSteps
  <2>3. QED BY <1>3, <2>1, <2>2
<1>4. CASE Monitoring
  <2>1. CASE ObserveExit
    BY <2>1 DEF ObserveExit, Goto, backendVars, RestartHeld, StopSteps, StartSteps, TypeOK,
        LocalTypeOK
  <2>2. CASE WakeUp
    BY <2>2 DEF WakeUp, Goto, backendVars, RestartHeld, StopSteps, StartSteps
  <2>3. CASE Tick
    BY <2>3 DEF Tick, Goto, backendVars, RestartHeld, StopSteps, StartSteps, TypeOK, LocalTypeOK
  <2>4. CASE HealthProbed
    BY <2>4 DEF HealthProbed, Goto, backendVars, RestartHeld, StopSteps, StartSteps
  <2>5. CASE CooldownPasses
    BY <2>5 DEF CooldownPasses, backendVars, localVars, RestartHeld
  <2>6. QED BY <1>4, <2>1, <2>2, <2>3, <2>4, <2>5 DEF Monitoring
<1>5. ASSUME NEW p \in Procs, Reaping(p) PROVE RestartHeld'
  <2>1. CASE Reap(p)
    BY <1>5, <2>1 DEF Reaping, backendVars, localVars, RestartHeld
  <2>2. CASE ForgetCmd(p)
    BY <1>5, <2>2 DEF Reaping, backendVars, localVars, RestartHeld
  <2>3. CASE SendExit(p)
    BY <1>5, <2>3 DEF Reaping, backendVars, localVars, RestartHeld
  <2>4. QED BY <1>5, <2>1, <2>2, <2>3 DEF Reaping
<1>6. ASSUME NEW p \in Procs, CoreStep(p) PROVE RestartHeld'
  <2>1. CASE ComeUp(p)
    BY <1>6, <2>1 DEF CoreStep, backendVars, localVars, RestartHeld
  <2>2. CASE Hang(p)
    BY <1>6, <2>2 DEF CoreStep, backendVars, localVars, RestartHeld
  <2>3. CASE Exit(p)
    BY <1>6, <2>3 DEF CoreStep, backendVars, localVars, RestartHeld
  <2>4. QED BY <1>6, <2>1, <2>2, <2>3 DEF CoreStep
<1>7. CASE WorkerEnds
    BY <1>7 DEF WorkerEnds, localVars, RestartHeld
<1>8. CASE Shutdown
    BY <1>8 DEF Shutdown, Goto, backendVars, RestartHeld
<1>9. CASE UNCHANGED vars
    BY <1>9 DEF vars, RestartHeld
<1>10. QED BY <1>1, <1>2, <1>3, <1>4, <1>5, <1>6, <1>7, <1>8, <1>9 DEF Next, Program, Exited

\* Main starts first and stops last.
LEMMA MainKept ==
    ASSUME IInv, [Next]_vars
    PROVE  MainAlone'
<1>1. ASSUME NEW a \in Actors, Stopping(a) PROVE MainAlone'
  <2>1. CASE BeginStop(a)
    BY <2>1 DEF BeginStop, Goto, IInv, MainAlone, StopSteps, StartSteps
  <2>2. CASE Drained(a)
    BY <2>2 DEF Drained, Goto, IInv, MainAlone, StopSteps, StartSteps
  <2>3. CASE Signal(a)
    BY <2>3, CallersAssumption DEF Signal, Goto, Interrupt, IInv, MainAlone, MutexHeld,
        StopSteps, Actors
  <2>4. CASE Await(a)
    BY <2>4 DEF Await, Goto, IInv, MainAlone, StopSteps, TypeOK, LocalTypeOK, Actors
  <2>5. CASE Clear(a)
    BY <2>5 DEF Clear, Goto, Return, IInv, MainAlone, StopSteps, TypeOK, LocalTypeOK, Actors
  <2>6. QED BY <1>1, <2>1, <2>2, <2>3, <2>4, <2>5 DEF Stopping
<1>2. ASSUME NEW a \in Actors, Starting(a) PROVE MainAlone'
  <2>1. CASE Prepare(a)
    BY <2>1 DEF Prepare, Goto, Return, runnerVars, IInv, MainAlone, StopSteps, StartSteps,
        FirstStart, TypeOK, LocalTypeOK, Actors
  <2>2. CASE Launch(a)
    BY <2>2 DEF Launch, Goto, IInv, MainAlone, StopSteps, StartSteps, FirstStart, TypeOK,
        LocalTypeOK
  <2>3. CASE LaunchFails(a)
    BY <2>3 DEF LaunchFails, Goto, Return, IInv, MainAlone, StopSteps, StartSteps, TypeOK,
        LocalTypeOK
  <2>4. CASE Publish(a)
    BY <2>4 DEF Publish, Goto, IInv, MainAlone, StopSteps, StartSteps, FirstStart
  <2>5. CASE StartupFails(a)
    BY <2>5 DEF StartupFails, Goto, Return, IInv, MainAlone, StopSteps, StartSteps
  <2>6. CASE Ready(a)
    BY <2>6 DEF Ready, Goto, Return, IInv, MainAlone, StopSteps, StartSteps, FirstStart
  <2>7. CASE Unready(a)
    BY <2>7 DEF Unready, Goto, IInv, MainAlone, StopSteps, StartSteps, TypeOK, LocalTypeOK
  <2>8. QED BY <1>2, <2>1, <2>2, <2>3, <2>4, <2>5, <2>6, <2>7 DEF Starting
<1>3. ASSUME NEW a \in Actors, Lock(a) \/ Call(a) PROVE MainAlone'
  <2>1. CASE Lock(a)
    BY <2>1 DEF Lock, Goto, IInv, MainAlone, StopSteps, StartSteps, FirstStart
  <2>2. CASE Call(a)
    BY <2>2 DEF Call, Goto, IInv, MainAlone
  <2>3. QED BY <1>3, <2>1, <2>2
<1>4. CASE Monitoring
  <2>1. CASE ObserveExit
    BY <2>1 DEF ObserveExit, Goto, TakeExit, IInv, MainAlone, StopSteps, StartSteps, FirstStart,
        TypeOK, LocalTypeOK, Actors
  <2>2. CASE WakeUp
    BY <2>2 DEF WakeUp, Goto, runnerVars, IInv, MainAlone, StopSteps, StartSteps, FirstStart
  <2>3. CASE Tick
    BY <2>3 DEF Tick, Goto, Running, runnerVars, IInv, MainAlone, StopSteps, StartSteps,
        FirstStart, TypeOK, LocalTypeOK, Actors
  <2>4. CASE HealthProbed
    BY <2>4 DEF HealthProbed, Goto, runnerVars, IInv, MainAlone, StopSteps, StartSteps,
        FirstStart
  <2>5. CASE CooldownPasses
    BY <2>5 DEF CooldownPasses, runnerVars, localVars, IInv, MainAlone
  <2>6. QED BY <1>4, <2>1, <2>2, <2>3, <2>4, <2>5 DEF Monitoring
<1>5. ASSUME NEW p \in Procs, Reaping(p) PROVE MainAlone'
  <2>1. CASE Reap(p)
    BY <1>5, <2>1 DEF Reap, Reaping, localVars, IInv, MainAlone
  <2>2. CASE ForgetCmd(p)
    BY <1>5, <2>2 DEF ForgetCmd, Reaping, localVars, IInv, MainAlone
  <2>3. CASE SendExit(p)
    BY <1>5, <2>3 DEF SendExit, Reaping, localVars, IInv, MainAlone
  <2>4. QED BY <1>5, <2>1, <2>2, <2>3 DEF Reaping
<1>6. ASSUME NEW p \in Procs, CoreStep(p) PROVE MainAlone'
  <2>1. CASE ComeUp(p)
    BY <1>6, <2>1 DEF CoreStep, localVars, IInv, MainAlone
  <2>2. CASE Hang(p)
    BY <1>6, <2>2 DEF CoreStep, localVars, IInv, MainAlone
  <2>3. CASE Exit(p)
    BY <1>6, <2>3 DEF CoreStep, localVars, IInv, MainAlone
  <2>4. QED BY <1>6, <2>1, <2>2, <2>3 DEF CoreStep
<1>7. CASE WorkerEnds
    BY <1>7 DEF WorkerEnds, runnerVars, localVars, IInv, MainAlone
<1>8. CASE Shutdown
    BY <1>8 DEF Shutdown, Goto, IInv, MainAlone, StopSteps, TypeOK, LocalTypeOK
<1>9. CASE UNCHANGED vars
    BY <1>9 DEF vars, IInv, MainAlone
<1>10. QED BY <1>1, <1>2, <1>3, <1>4, <1>5, <1>6, <1>7, <1>8, <1>9 DEF Next, Program, Exited

\* What is published is the core of the moment.
LEMMA PublishedKept ==
    ASSUME IInv, [Next]_vars
    PROVE  Published'
<1>1. ASSUME NEW a \in Actors, Stopping(a) PROVE Published'
  <2>1. CASE BeginStop(a)
    BY <2>1 DEF BeginStop, Goto, runnerVars, IInv, Published, Alive
  <2>2. CASE Drained(a)
    BY <2>2 DEF Drained, Goto, runnerVars, backendVars, IInv, Published, Alive
  <2>3. CASE Signal(a)
    BY <2>3 DEF Signal, Goto, Interrupt, IfAlive, Alive, backendVars, IInv, Published
  <2>4. CASE Await(a)
    BY <2>4 DEF Await, Goto, TakeExit, Kill, Alive, backendVars, IInv, Published, TypeOK,
        RunnerTypeOK
  <2>5. CASE Clear(a)
    BY <2>5 DEF Clear, Published
  <2>6. QED BY <1>1, <2>1, <2>2, <2>3, <2>4, <2>5 DEF Stopping
<1>2. ASSUME NEW a \in Actors, Starting(a) PROVE Published'
  <2>1. CASE Prepare(a)
    BY <2>1 DEF Prepare, IInv, Published
  <2>2. CASE Launch(a)
    BY <2>2 DEF Launch, backendVars, IInv, Published
  <2>3. CASE LaunchFails(a)
    BY <2>3 DEF LaunchFails, IInv, Published
  <2>4. CASE Publish(a)
    BY <2>4 DEF Publish, Goto, StartedUp, IInv, Published, RestartHeld, MainAlone, MutexHeld,
        StartSteps, TypeOK, LocalTypeOK
  <2>5. CASE StartupFails(a)
    BY <2>5 DEF StartupFails, IInv, Published
  <2>6. CASE Ready(a)
    BY <2>6 DEF Ready, Goto, Return, runnerVars, IInv, Published, Alive
  <2>7. CASE Unready(a)
    BY <2>7 DEF Unready, Goto, runnerVars, backendVars, IInv, Published, Alive
  <2>8. QED BY <1>2, <2>1, <2>2, <2>3, <2>4, <2>5, <2>6, <2>7 DEF Starting
<1>3. ASSUME NEW a \in Actors, Lock(a) \/ Call(a) PROVE Published'
  <2>1. CASE Lock(a)
    BY <2>1 DEF Lock, Goto, runnerVars, IInv, Published, Alive
  <2>2. CASE Call(a)
    BY <2>2 DEF Call, Goto, runnerVars, backendVars, IInv, Published, Alive
  <2>3. QED BY <1>3, <2>1, <2>2
<1>4. CASE Monitoring
  <2>1. CASE ObserveExit
    BY <2>1 DEF ObserveExit, Goto, TakeExit, backendVars, IInv, Published, TypeOK, LocalTypeOK,
        Alive
  <2>2. CASE WakeUp
    BY <2>2 DEF WakeUp, Goto, runnerVars, backendVars, IInv, Published, Alive
  <2>3. CASE Tick
    BY <2>3 DEF Tick, Goto, runnerVars, backendVars, IInv, Published, TypeOK, LocalTypeOK, Alive
  <2>4. CASE HealthProbed
    BY <2>4 DEF HealthProbed, Goto, runnerVars, backendVars, IInv, Published, Alive
  <2>5. CASE CooldownPasses
    BY <2>5 DEF CooldownPasses, runnerVars, backendVars, localVars, IInv, Published, Alive
  <2>6. QED BY <1>4, <2>1, <2>2, <2>3, <2>4, <2>5 DEF Monitoring
<1>5. ASSUME NEW p \in Procs, Reaping(p) PROVE Published'
  <2>1. CASE Reap(p)
    BY <1>5, <2>1 DEF Reap, Reaping, backendVars, localVars, IInv, Published, Alive
  <2>2. CASE ForgetCmd(p)
    BY <1>5, <2>2 DEF ForgetCmd, Reaping, backendVars, localVars, IInv, Published, Alive
  <2>3. CASE SendExit(p)
    BY <1>5, <2>3 DEF SendExit, Reaping, backendVars, localVars, IInv, Published, Alive
  <2>4. QED BY <1>5, <2>1, <2>2, <2>3 DEF Reaping
<1>6. ASSUME NEW p \in Procs, CoreStep(p) PROVE Published'
  <2>1. CASE ComeUp(p)
    BY <1>6, <2>1 DEF ComeUp, CoreStep, backendVars, localVars, IInv, Published, Alive,
        AliveStates
  <2>2. CASE Hang(p)
    BY <1>6, <2>2 DEF Hang, CoreStep, backendVars, localVars, IInv, Published, Alive,
        AliveStates
  <2>3. CASE Exit(p)
    BY <1>6, <2>3 DEF Exit, CoreStep, backendVars, localVars, IInv, Published, Waited
  <2>4. QED BY <1>6, <2>1, <2>2, <2>3 DEF CoreStep
<1>7. CASE WorkerEnds
    BY <1>7 DEF WorkerEnds, runnerVars, localVars, IInv, Published, Alive
<1>8. CASE Shutdown
    BY <1>8 DEF Shutdown, Goto, runnerVars, backendVars, IInv, Published, Alive
<1>9. CASE UNCHANGED vars
    BY <1>9 DEF vars, IInv, Published, Alive
<1>10. QED BY <1>1, <1>2, <1>3, <1>4, <1>5, <1>6, <1>7, <1>8, <1>9 DEF Next, Program, Exited

\* What is registered stays so until main stops.
LEMMA TagsStay ==
    ASSUME IInv, [Next]_vars
    PROVE  TagsKept'
<1>1. ASSUME NEW a \in Actors, Stopping(a) PROVE TagsKept'
  <2>1. CASE BeginStop(a)
    BY <2>1 DEF BeginStop, Goto, IInv, TagsKept, FirstStart
  <2>2. CASE Drained(a)
    BY <2>2 DEF Drained, Goto, backendVars, IInv, TagsKept, FirstStart
  <2>3. CASE Signal(a)
    BY <2>3 DEF Signal, Goto, backendVars, IInv, TagsKept, FirstStart
  <2>4. CASE Await(a)
    BY <2>4 DEF Await, Goto, backendVars, IInv, TagsKept, FirstStart
  <2>5. CASE Clear(a)
    BY <2>5 DEF Clear, Goto, Return, IInv, TagsKept, RestartHeld, MainAlone, StopSteps,
        StartSteps, FirstStart, TypeOK, LocalTypeOK
  <2>6. QED BY <1>1, <2>1, <2>2, <2>3, <2>4, <2>5 DEF Stopping
<1>2. ASSUME NEW a \in Actors, Starting(a) PROVE TagsKept'
  <2>1. CASE Prepare(a)
    BY <2>1 DEF Prepare, Goto, Return, IInv, TagsKept, Published, RestartHeld, StartSteps,
        FirstStart, TypeOK, LocalTypeOK
  <2>2. CASE Launch(a)
    BY <2>2 DEF Launch, Goto, backendVars, IInv, TagsKept, FirstStart
  <2>3. CASE LaunchFails(a)
    BY <2>3 DEF LaunchFails, Goto, Return, IInv, TagsKept, FirstStart, TypeOK, LocalTypeOK
  <2>4. CASE Publish(a)
    BY <2>4 DEF Publish, Goto, IInv, TagsKept, FirstStart
  <2>5. CASE StartupFails(a)
    BY <2>5 DEF StartupFails, Goto, Return, IInv, TagsKept, FirstStart, TypeOK, LocalTypeOK
  <2>6. CASE Ready(a)
    BY <2>6 DEF Ready, Goto, Return, IInv, TagsKept, FirstStart
  <2>7. CASE Unready(a)
    BY <2>7 DEF Unready, Goto, backendVars, IInv, TagsKept, FirstStart
  <2>8. QED BY <1>2, <2>1, <2>2, <2>3, <2>4, <2>5, <2>6, <2>7 DEF Starting
<1>3. ASSUME NEW a \in Actors, Lock(a) \/ Call(a) PROVE TagsKept'
  <2>1. CASE Lock(a)
    BY <2>1 DEF Lock, Goto, IInv, TagsKept, FirstStart
  <2>2. CASE Call(a)
    BY <2>2 DEF Call, Goto, backendVars, IInv, TagsKept
  <2>3. QED BY <1>3, <2>1, <2>2
<1>4. CASE Monitoring
  <2>1. CASE ObserveExit
    BY <2>1 DEF ObserveExit, Goto, backendVars, IInv, TagsKept, FirstStart, TypeOK, LocalTypeOK,
        Actors
  <2>2. CASE WakeUp
    BY <2>2 DEF WakeUp, Goto, backendVars, IInv, TagsKept, FirstStart
  <2>3. CASE Tick
    BY <2>3 DEF Tick, Goto, backendVars, IInv, TagsKept, FirstStart, TypeOK, LocalTypeOK, Actors
  <2>4. CASE HealthProbed
    BY <2>4 DEF HealthProbed, Goto, backendVars, IInv, TagsKept, FirstStart
  <2>5. CASE CooldownPasses
    BY <2>5 DEF CooldownPasses, backendVars, localVars, IInv, TagsKept
  <2>6. QED BY <1>4, <2>1, <2>2, <2>3, <2>4, <2>5 DEF Monitoring
<1>5. ASSUME NEW p \in Procs, Reaping(p) PROVE TagsKept'
  <2>1. CASE Reap(p)
    BY <1>5, <2>1 DEF Reaping, backendVars, localVars, IInv, TagsKept
  <2>2. CASE ForgetCmd(p)
    BY <1>5, <2>2 DEF Reaping, backendVars, localVars, IInv, TagsKept
  <2>3. CASE SendExit(p)
    BY <1>5, <2>3 DEF Reaping, backendVars, localVars, IInv, TagsKept
  <2>4. QED BY <1>5, <2>1, <2>2, <2>3 DEF Reaping
<1>6. ASSUME NEW p \in Procs, CoreStep(p) PROVE TagsKept'
  <2>1. CASE ComeUp(p)
    BY <1>6, <2>1 DEF CoreStep, backendVars, localVars, IInv, TagsKept
  <2>2. CASE Hang(p)
    BY <1>6, <2>2 DEF CoreStep, backendVars, localVars, IInv, TagsKept
  <2>3. CASE Exit(p)
    BY <1>6, <2>3 DEF CoreStep, backendVars, localVars, IInv, TagsKept
  <2>4. QED BY <1>6, <2>1, <2>2, <2>3 DEF CoreStep
<1>7. CASE WorkerEnds
    BY <1>7 DEF WorkerEnds, localVars, IInv, TagsKept
<1>8. CASE Shutdown
    BY <1>8 DEF Shutdown, Goto, backendVars, IInv, TagsKept, FirstStart
<1>9. CASE UNCHANGED vars
    BY <1>9 DEF vars, IInv, TagsKept
<1>10. QED BY <1>1, <1>2, <1>3, <1>4, <1>5, <1>6, <1>7, <1>8, <1>9 DEF Next, Program, Exited

-----------------------------------------------------------------------------
(* The invariant and the theorems *)

LEMMA InitIInv == Init => IInv
<1> SUFFICES ASSUME Init PROVE IInv
    OBVIOUS
<1>1. TypeOK
  <2>1. RunnerTypeOK(Actors)
      BY DEF Init, RunnerInit, RunnerTypeOK
  <2>2. BackendTypeOK
      BY ConfigsAssumption DEF Init, BackendTypeOK
  <2>3. LocalTypeOK
      BY DEF Init, LocalTypeOK
  <2>4. failures \in 0..MaxFailures - 1
      BY MonitorsAssumption DEF Init
  <2>5. recent \in BOOLEAN /\ late \in BOOLEAN /\ early \in BOOLEAN
      BY DEF Init
  <2>6. QED BY <2>1, <2>2, <2>3, <2>4, <2>5 DEF TypeOK
<1>2. Waited
    BY <1>1 DEF Init, RunnerInit, Waited, Alive, AliveStates
<1>3. MutexHeld /\ RestartHeld
    BY CallersAssumption DEF Init, RunnerInit, MutexHeld, RestartHeld, StopSteps, StartSteps
<1>4. MainAlone /\ Published /\ TagsKept
    BY ConfigsAssumption DEF Init, RunnerInit, MainAlone, Published, TagsKept, FirstStart,
        StopSteps, Actors
<1>5. QED BY <1>1, <1>2, <1>3, <1>4 DEF IInv

LEMMA NextIInv == IInv /\ [Next]_vars => IInv'
<1> SUFFICES ASSUME IInv, [Next]_vars PROVE IInv'
    OBVIOUS
<1>1. TypeOK' /\ Waited' /\ MutexHeld' /\ RestartHeld'
    BY TypeKept, WaitedKept, MutexKept, RestartKept DEF IInv
<1>2. MainAlone' /\ Published' /\ TagsKept'
    BY MainKept, PublishedKept, TagsStay
<1>3. QED BY <1>1, <1>2 DEF IInv

\* What every reachable state satisfies, for any number of processes, of
\* RestartBackend calls in flight and of configurations.
THEOREM IInvInvariant == Spec => []IInv
<1>1. QED BY InitIInv, NextIInv, PTL DEF Spec

\* Runner.cmd, the goroutines that wait for processes, the locals of every Start
\* and Stop keep their types (xray/runner.go, xray/backend.go).
THEOREM TypeInvariant == Spec => []TypeOK
<1>1. IInv => TypeOK
    BY DEF IInv
<1>2. QED BY IInvInvariant, <1>1, PTL

\* There is never a second core, and Runner.cmd never loses the one there is
\* (xray/runner.go:38-163).
THEOREM OneCoreInvariant == Spec => []OneCore
<1>1. IInv => OneCore
    BY DEF IInv, Waited, OneCore
<1>2. QED BY IInvInvariant, <1>1, PTL

\* Between starts and stops, the API that is published is that of the core that
\* lives and the inbounds of its configuration are registered
\* (xray/backend.go:122-170, 285-324).
THEOREM PublishedInvariant == Spec => []PublishedIsCurrent
<1>1. ASSUME IInv, Settled PROVE pc[Main] \in FirstStart
    BY <1>1 DEF IInv, MainAlone, Settled, StopSteps, Actors
<1>2. IInv => PublishedIsCurrent
    BY <1>1 DEF IInv, Published, TagsKept, PublishedIsCurrent
<1>3. QED BY IInvInvariant, <1>2, PTL

-----------------------------------------------------------------------------
(* The end of the program *)

\* An exit that is still to be taken, or to be sent, while a core lives is that of
\* an earlier one: the core was launched before it was sent.
ExitIsOld == (exitCh \/ ExitUntold) /\ Alive(cmd) => early

\* A step that neither launches a core nor sends, or is to send, an exit.
Quiet ==
    /\ early' = early /\ (exitCh' => exitCh) /\ (ExitUntold' => ExitUntold)
    /\ Alive(cmd)' => Alive(cmd)

LEMMA QuietKept ==
    ASSUME ExitIsOld, Quiet
    PROVE  ExitIsOld'
  BY DEF ExitIsOld, Quiet

LEMMA ExitIsOldKept ==
    ASSUME IInv, ExitIsOld, [Next]_vars
    PROVE  ExitIsOld'
<1> USE DEF historyVars, ExitUntold
<1>0. /\ proc \in [Procs -> AliveStates \cup {"gone"}] /\ cmd \in Procs \cup {NoProc}
      /\ reaper \in [Procs -> {"idle", "waiting", "reaped", "sending"}]
      /\ \A p \in Procs : Alive(p) => reaper[p] = "waiting" /\ cmd = p
    BY DEF IInv, TypeOK, RunnerTypeOK, Waited
<1>1. ASSUME NEW a \in Actors, Stopping(a) PROVE ExitIsOld'
  <2>1. CASE BeginStop(a)
    BY <2>1, QuietKept DEF BeginStop, runnerVars, Quiet, Alive
  <2>2. CASE Drained(a)
    BY <2>2, QuietKept DEF Drained, runnerVars, Quiet, Alive
  <2>3. CASE Signal(a)
    BY <1>0, <2>3, QuietKept DEF Signal, Interrupt, IfAlive, Quiet, Alive
  <2>4. CASE Await(a)
    BY <1>0, <2>4, QuietKept DEF Await, TakeExit, Kill, Quiet, Alive
  <2>5. CASE Clear(a)
    BY <2>5, QuietKept DEF Clear, runnerVars, Quiet, Alive
  <2>6. QED BY <1>1, <2>1, <2>2, <2>3, <2>4, <2>5 DEF Stopping
<1>2. ASSUME NEW a \in Actors, Starting(a) PROVE ExitIsOld'
  <2>1. CASE Prepare(a)
    BY <2>1, QuietKept DEF Prepare, runnerVars, Quiet, Alive
  <2>2. CASE Launch(a)
    <3>1. PICK p \in Procs : Spawn(a, p)
        BY <2>2 DEF Launch
    <3>2. exitCh' = FALSE /\ reaper' = [reaper EXCEPT ![p] = "waiting"] /\ early' = ExitUntold
        BY <2>2, <3>1 DEF Launch, Spawn
    <3>3. ExitUntold' => ExitUntold
        BY <1>0, <3>2
    <3>4. QED BY <3>2, <3>3 DEF ExitIsOld
  <2>3. CASE LaunchFails(a)
    BY <2>3, QuietKept DEF LaunchFails, SpawnFails, Quiet, Alive
  <2>4. CASE Publish(a)
    BY <2>4, QuietKept DEF Publish, StartedUp, Quiet, Alive
  <2>5. CASE StartupFails(a)
    BY <2>5, QuietKept DEF StartupFails, ExitedDuringStartup, Quiet, Alive
  <2>6. CASE Ready(a)
    BY <2>6, QuietKept DEF Ready, runnerVars, Quiet, Alive
  <2>7. CASE Unready(a)
    BY <2>7, QuietKept DEF Unready, runnerVars, Quiet, Alive
  <2>8. QED BY <1>2, <2>1, <2>2, <2>3, <2>4, <2>5, <2>6, <2>7 DEF Starting
<1>3. ASSUME NEW a \in Actors, Lock(a) \/ Call(a) PROVE ExitIsOld'
    BY <1>3, QuietKept DEF Lock, Call, runnerVars, Quiet, Alive
<1>4. CASE Monitoring
  <2>1. CASE ObserveExit
    BY <2>1, QuietKept DEF ObserveExit, TakeExit, Quiet, Alive
  <2>2. CASE WakeUp \/ Tick \/ HealthProbed \/ CooldownPasses
    BY <2>2, QuietKept DEF WakeUp, Tick, HealthProbed, CooldownPasses, runnerVars, Quiet, Alive
  <2>3. QED BY <1>4, <2>1, <2>2 DEF Monitoring
<1>5. ASSUME NEW p \in Procs, Reaping(p) PROVE ExitIsOld'
  <2>0. early' = (early /\ cmd' # NoProc) /\ proc' = proc
    BY <1>5 DEF Reaping, Reap, ForgetCmd, SendExit
  <2>1. CASE Reap(p)
    BY <1>0, <2>0, <2>1, NoProcAssumption DEF Reap, ExitIsOld, Alive
  <2>2. CASE ForgetCmd(p)
    <3>1. CASE cmd = p
        BY <2>2, <3>1 DEF ForgetCmd, OwnExit, ExitIsOld, Alive
    <3>2. CASE cmd # p
        BY <1>0, <2>0, <2>2, <3>2 DEF ForgetCmd, OwnExit, ExitIsOld, Alive
    <3>3. QED BY <3>1, <3>2
  <2>3. CASE SendExit(p)
    <3>1. ExitUntold /\ cmd' = cmd
        BY <2>3 DEF SendExit
    <3>2. QED BY <2>0, <3>1 DEF ExitIsOld, Alive
  <2>4. QED BY <1>5, <2>1, <2>2, <2>3 DEF Reaping
<1>6. ASSUME NEW p \in Procs, CoreStep(p) PROVE ExitIsOld'
  <2>1. Alive(cmd)' => Alive(cmd)
    BY <1>0, <1>6 DEF CoreStep, ComeUp, Hang, Exit, Alive, AliveStates
  <2>2. QED BY <1>6, <2>1, QuietKept DEF CoreStep, Quiet
<1>7. CASE WorkerEnds
  BY <1>7, QuietKept DEF WorkerEnds, runnerVars, Quiet, Alive
<1>8. CASE Shutdown
  BY <1>8, QuietKept DEF Shutdown, runnerVars, Quiet, Alive
<1>9. CASE UNCHANGED vars
  BY <1>9, QuietKept DEF vars, Quiet, Alive
<1>10. QED BY <1>1, <1>2, <1>3, <1>4, <1>5, <1>6, <1>7, <1>8, <1>9 DEF Next, Program, Exited

\* What lives once the program's stop has looked for a core was launched after
\* that, or it was told to stop: it is the one main waits for, or, when the wait
\* is over, one launched before the exit of its predecessor was sent.
OnlyLateRun ==
    Closing => \A p \in Procs : Alive(p) /\ ~late =>
                  /\ proc[p] = "dying"
                  /\ IF pc[Main] = "await" THEN mine[Main] = p ELSE early

\* A step that neither launches a core nor looks for one.
Calm ==
    /\ late' = late /\ \A p \in Procs : Alive(p) => early' = early
    /\ Closing' => Closing /\ mine'[Main] = mine[Main]
    /\ Closing' => (pc'[Main] = "await" <=> pc[Main] = "await")
    /\ \A p \in Procs : Alive(p)' => Alive(p) /\ (proc[p] = "dying" => proc'[p] = "dying")

LEMMA CalmKept ==
    ASSUME OnlyLateRun, Calm
    PROVE  OnlyLateRun'
  BY DEF OnlyLateRun, Calm

LEMMA OnlyLateRunKept ==
    ASSUME IInv, ExitIsOld, OnlyLateRun, [Next]_vars
    PROVE  OnlyLateRun'
<1> USE DEF Goto, historyVars
<1>0. /\ pc \in [Actors -> {"idle", "sleep", "probing", "lock", "stop", "drain", "signal", "await",
                            "clear", "prepare", "launch", "startup", "probe", "serving", "exited",
                            "fatal"}]
      /\ proc \in [Procs -> AliveStates \cup {"gone"}] /\ cmd \in Procs \cup {NoProc}
      /\ mine \in [Actors -> Procs \cup {NoProc}]
      /\ Main \in Actors /\ FailureMonitor \in Actors \ {Main} /\ HealthMonitor \in Actors \ {Main}
    BY DEF IInv, TypeOK, RunnerTypeOK, LocalTypeOK, Actors, Monitors, Main, FailureMonitor,
        HealthMonitor
<1>00. \A p \in Procs : Alive(p) => cmd = p
    BY DEF IInv, Waited
<1>1. ASSUME NEW a \in Actors, Stopping(a) PROVE OnlyLateRun'
  <2>1. CASE BeginStop(a)
    BY <1>0, <2>1, CalmKept DEF BeginStop, runnerVars, Calm, Closing, Alive
  <2>2. CASE Drained(a)
    BY <1>0, <2>2, CalmKept DEF Drained, runnerVars, Calm, Closing, Alive
  <2>3. CASE Signal(a)
    <3>1. proc' = IF Alive(cmd) THEN [proc EXCEPT ![cmd] = "dying"] ELSE proc
        BY <2>3 DEF Signal, Interrupt, IfAlive
    <3>2. \A p \in Procs : Alive(p)' => Alive(p) /\ proc'[p] = "dying"
        BY <1>0, <1>00, <3>1, NoProcAssumption DEF Alive, AliveStates
    <3>3. CASE a = Main
      <4>1. /\ mine'[Main] = cmd /\ pc'[Main] = IF cmd = NoProc THEN "clear" ELSE "await"
            /\ cmd' = cmd
          BY <1>0, <2>3, <3>3 DEF Signal, Interrupt
      <4>2. QED BY <1>00, <3>2, <4>1, NoProcAssumption DEF OnlyLateRun
    <3>4. CASE a # Main
      <4>1. /\ mine'[Main] = mine[Main] /\ pc'[Main] = pc[Main]
            /\ late' = late /\ early' = early
          BY <1>0, <2>3, <3>4 DEF Signal
      <4>2. QED BY <3>2, <4>1 DEF OnlyLateRun, Closing
    <3>5. QED BY <3>3, <3>4
  <2>4. CASE Await(a)
    <3>1. \/ proc' = proc /\ exitCh
          \/ proc' = [proc EXCEPT ![mine[a]] = IF Alive(mine[a]) THEN "gone" ELSE @]
        BY <2>4 DEF Await, TakeExit, Kill
    <3>2. /\ late' = late /\ early' = early /\ mine' = mine
          /\ pc[a] = "await" /\ pc' = [pc EXCEPT ![a] = "clear"]
        BY <2>4 DEF Await
    <3>3. \A p \in Procs : Alive(p)' => Alive(p) /\ proc'[p] = proc[p]
        BY <1>0, <3>1 DEF Alive, AliveStates
    <3>4. CASE a = Main
      <4>1. ASSUME NEW p \in Procs, Alive(p)', ~late
            PROVE  proc'[p] = "dying" /\ early
        <5>1. Alive(p) /\ mine[Main] = p /\ proc[p] = "dying"
            BY <3>2, <3>3, <3>4, <4>1 DEF OnlyLateRun, Closing
        <5>2. proc' = proc /\ exitCh
            BY <1>0, <3>1, <3>4, <4>1, <5>1 DEF Alive, AliveStates
        <5>3. QED BY <1>00, <5>1, <5>2 DEF ExitIsOld
      <4>2. pc'[Main] = "clear"
          BY <1>0, <3>2, <3>4
      <4>3. QED BY <3>2, <4>1, <4>2 DEF OnlyLateRun
    <3>5. CASE a # Main
      <4>1. pc'[Main] = pc[Main]
          BY <1>0, <3>2, <3>5
      <4>2. QED BY <3>2, <3>3, <4>1 DEF OnlyLateRun, Closing
    <3>6. QED BY <3>4, <3>5
  <2>5. CASE Clear(a)
    <3>1. /\ late' = late /\ early' = early /\ proc' = proc
          /\ pc[a] = "clear" /\ \E l \in {"idle", "fatal", "serving", "prepare", "exited", "fail"} :
                                  pc' = [pc EXCEPT ![a] = l]
          /\ mine' = [mine EXCEPT ![a] = NoProc]
        BY <2>5 DEF Clear, Return, runnerVars, IInv, TypeOK, LocalTypeOK
    <3>2. Closing' => Closing
        BY <1>0, <3>1 DEF Closing
    <3>3. pc'[Main] = "await" => pc[Main] = "await" /\ mine'[Main] = mine[Main]
        BY <1>0, <3>1
    <3>4. Closing' => (pc'[Main] # "await" => pc[Main] # "await")
        BY <1>0, <3>1
    <3>5. QED BY <3>1, <3>2, <3>3, <3>4 DEF OnlyLateRun, Alive
  <2>6. QED BY <1>1, <2>1, <2>2, <2>3, <2>4, <2>5 DEF Stopping
<1>2. ASSUME NEW a \in Actors, Starting(a) PROVE OnlyLateRun'
  <2>1. CASE Prepare(a)
    BY <1>0, <2>1, CalmKept DEF Prepare, Return, runnerVars, Calm, Closing, Alive
  <2>2. CASE Launch(a)
    <3>1. pc' = [pc EXCEPT ![a] = "startup"] /\ late' = Closing
        BY <2>2 DEF Launch
    <3>2. Closing' => Closing
        BY <1>0, <3>1 DEF Closing
    <3>3. QED BY <3>1, <3>2 DEF OnlyLateRun
  <2>3. CASE LaunchFails(a)
    BY <1>0, <2>3, CalmKept DEF LaunchFails, SpawnFails, Return, Calm, Closing, Alive
  <2>4. CASE Publish(a)
    BY <1>0, <2>4, CalmKept DEF Publish, StartedUp, Calm, Closing, Alive
  <2>5. CASE StartupFails(a)
    BY <1>0, <2>5, CalmKept DEF StartupFails, ExitedDuringStartup, Return, Calm, Closing, Alive
  <2>6. CASE Ready(a)
    BY <1>0, <2>6, CalmKept DEF Ready, Return, runnerVars, Calm, Closing, Alive
  <2>7. CASE Unready(a)
    BY <1>0, <2>7, CalmKept DEF Unready, runnerVars, Calm, Closing, Alive
  <2>8. QED BY <1>2, <2>1, <2>2, <2>3, <2>4, <2>5, <2>6, <2>7 DEF Starting
<1>3. ASSUME NEW a \in Actors, Lock(a) \/ Call(a) PROVE OnlyLateRun'
  <2>1. CASE Lock(a)
    BY <1>0, <2>1, CalmKept DEF Lock, runnerVars, Calm, Closing, Alive
  <2>2. CASE Call(a)
    BY <1>0, <2>2, CalmKept DEF Call, runnerVars, Calm, Closing, Alive
  <2>3. QED BY <1>3, <2>1, <2>2
<1>4. CASE Monitoring
  <2>1. CASE ObserveExit
    BY <1>0, <2>1, CalmKept DEF ObserveExit, TakeExit, Calm, Closing, Alive
  <2>2. CASE WakeUp
    BY <1>0, <2>2, CalmKept DEF WakeUp, runnerVars, Calm, Closing, Alive
  <2>3. CASE Tick
    BY <1>0, <2>3, CalmKept DEF Tick, runnerVars, Calm, Closing, Alive
  <2>4. CASE HealthProbed
    BY <1>0, <2>4, CalmKept DEF HealthProbed, runnerVars, Calm, Closing, Alive
  <2>5. CASE CooldownPasses
    BY <2>5, CalmKept DEF CooldownPasses, runnerVars, localVars, Calm, Closing, Alive
  <2>6. QED BY <1>4, <2>1, <2>2, <2>3, <2>4, <2>5 DEF Monitoring
<1>5. ASSUME NEW p \in Procs, Reaping(p) PROVE OnlyLateRun'
  <2>1. proc' = proc /\ pc' = pc /\ mine' = mine /\ late' = late
    BY <1>5 DEF Reaping, Reap, ForgetCmd, SendExit, localVars
  <2>2. early' = (early /\ cmd' # NoProc)
    BY <1>5 DEF Reaping
  <2>3. \A q \in Procs : Alive(q) => cmd' = q
    BY <1>00, <1>5 DEF Reaping, Reap, ForgetCmd, SendExit, OwnExit, IInv, Waited
  <2>4. \A q \in Procs : Alive(q) => early' = early
    BY <1>0, <2>2, <2>3, NoProcAssumption DEF IInv, TypeOK
  <2>5. QED BY <2>1, <2>4, CalmKept DEF Calm, Closing, Alive
<1>6. ASSUME NEW p \in Procs, CoreStep(p) PROVE OnlyLateRun'
  BY <1>0, <1>6, CalmKept DEF CoreStep, ComeUp, Hang, Exit, localVars, Calm, Closing, Alive,
      AliveStates
<1>7. CASE WorkerEnds
  BY <1>7, CalmKept DEF WorkerEnds, runnerVars, localVars, Calm, Closing, Alive
<1>8. CASE Shutdown
  BY <1>0, <1>8, CalmKept DEF Shutdown, runnerVars, Calm, Closing, Alive
<1>9. CASE UNCHANGED vars
  BY <1>9, CalmKept DEF vars, Calm, Closing, Alive
<1>10. QED BY <1>1, <1>2, <1>3, <1>4, <1>5, <1>6, <1>7, <1>8, <1>9 DEF Next, Program, Exited

\* The end of the program leaves no core behind, in whatever state, but for one
\* that a monitor launched when the stop had already looked for a core
\* (main.go:117-130), and one launched before the exit of the core before it was
\* sent, which the stop took for its own (xray/runner.go:125-137, 148-162).
THEOREM ExitLeavesFewCores == Spec => []ExitLeavesNoCore
<1>1. Init => ExitIsOld /\ OnlyLateRun
    BY DEF Init, RunnerInit, ExitIsOld, ExitUntold, OnlyLateRun, Alive, AliveStates
<1>2. IInv /\ ExitIsOld /\ [Next]_vars => ExitIsOld'
    BY ExitIsOldKept
<1>3. IInv /\ ExitIsOld /\ OnlyLateRun /\ [Next]_vars => OnlyLateRun'
    BY OnlyLateRunKept
<1>4. OnlyLateRun => ExitLeavesNoCore
    BY DEF OnlyLateRun, Closing, ExitLeavesNoCore
<1>5. QED BY IInvInvariant, <1>1, <1>2, <1>3, <1>4, PTL DEF Spec

-----------------------------------------------------------------------------
(* The worker of a restart *)

\* Where the wait for the worker of the core before is over.
AfterDrain == {"signal", "await", "clear"} \cup StartSteps

\* Until main stops, a worker that is being cancelled is not there any more after
\* that wait, unless the wait was given up.
WorkerWatched ==
    pc[Main] \in FirstStart =>
        \A a \in Actors \ {Main} : pc[a] \in AfterDrain /\ worker = "cancelled" => a \in hasty

\* A step that leaves the worker alone, or sees it end, and brings nobody past
\* the wait for it.
Unworried ==
    /\ pc'[Main] \in FirstStart => pc[Main] \in FirstStart
    /\ worker' = "cancelled" => worker = "cancelled" /\ hasty' = hasty
    /\ \A a \in Actors \ {Main} : pc'[a] \in AfterDrain => pc[a] \in AfterDrain

LEMMA UnworriedKept ==
    ASSUME WorkerWatched, Unworried
    PROVE  WorkerWatched'
  BY DEF WorkerWatched, Unworried

LEMMA WorkerWatchedKept ==
    ASSUME IInv, WorkerWatched, [Next]_vars
    PROVE  WorkerWatched'
<1> USE DEF Goto, historyVars, backendVars, AfterDrain, StartSteps, FirstStart
<1>0. /\ pc \in [Actors -> {"idle", "sleep", "probing", "lock", "stop", "drain", "signal", "await",
                            "clear", "prepare", "launch", "startup", "probe", "serving", "exited",
                            "fatal"}]
      /\ worker \in {"off", "running", "cancelled"}
      /\ Main \in Actors /\ FailureMonitor \in Actors \ {Main} /\ HealthMonitor \in Actors \ {Main}
      /\ Callers \subseteq Actors \ {Main} /\ MayCancel \subseteq Callers
      /\ FailureMonitor \notin Callers /\ HealthMonitor \notin Callers
    BY CallersAssumption DEF IInv, TypeOK, LocalTypeOK, BackendTypeOK, Actors, Monitors, Main,
        FailureMonitor, HealthMonitor
\* Of those who start and stop, there is one beside main.
<1>a. \A a, b \in Actors \ {Main} :
          pc[a] \in StopSteps \cup StartSteps /\ pc[b] \in StopSteps \cup StartSteps => a = b
    BY DEF IInv, RestartHeld
<1>b. pc[Main] \in StopSteps => after[Main] \in {"exited", "fail"}
    BY DEF IInv, MainAlone
<1>1. ASSUME NEW a \in Actors, Stopping(a) PROVE WorkerWatched'
  <2>1. CASE BeginStop(a)
    BY <1>0, <1>a, <2>1 DEF BeginStop, WorkerWatched, StopSteps
  <2>2. CASE Drained(a)
    BY <1>0, <1>a, <2>2 DEF Drained, WorkerWatched, WorkerDone, StopSteps
  <2>3. CASE Signal(a)
    BY <1>0, <2>3, UnworriedKept DEF Signal, Unworried
  <2>4. CASE Await(a)
    BY <1>0, <2>4, UnworriedKept DEF Await, Unworried
  <2>5. CASE Clear(a)
    <3>1. /\ pc[a] = "clear" /\ worker' = worker
          /\ \/ after[a] = "fail" /\ Return(a, TRUE)
             \/ after[a] # "fail" /\ pc' = [pc EXCEPT ![a] = after[a]] /\ hasty' = hasty
        BY <2>5 DEF Clear
    <3>2. after[a] \in {"prepare", "fail", "exited"}
        BY DEF IInv, TypeOK, LocalTypeOK
    <3>3. a = Main => pc'[Main] \in {"fatal", "exited"}
        BY <1>0, <1>b, <3>1, <3>2 DEF Return, StopSteps
    <3>4. QED
        BY <1>0, <1>a, <3>1, <3>2, <3>3 DEF Return, WorkerWatched, StopSteps
  <2>6. QED BY <1>1, <2>1, <2>2, <2>3, <2>4, <2>5 DEF Stopping
<1>2. ASSUME NEW a \in Actors, Starting(a) PROVE WorkerWatched'
  <2>1. CASE Prepare(a)
    BY <1>0, <1>a, <2>1 DEF Prepare, Return, WorkerWatched, StopSteps
  <2>2. CASE Launch(a)
    BY <1>0, <2>2, UnworriedKept DEF Launch, Unworried
  <2>3. CASE LaunchFails(a)
    BY <1>0, <1>a, <2>3 DEF LaunchFails, Return, WorkerWatched, StopSteps
  <2>4. CASE Publish(a)
    BY <1>0, <2>4, UnworriedKept DEF Publish, Unworried
  <2>5. CASE StartupFails(a)
    BY <1>0, <1>a, <2>5 DEF StartupFails, Return, WorkerWatched, StopSteps
  <2>6. CASE Ready(a)
    BY <1>0, <1>a, <2>6 DEF Ready, Return, WorkerWatched, StopSteps
  <2>7. CASE Unready(a)
    BY <1>0, <2>7, UnworriedKept DEF Unready, Unworried
  <2>8. QED BY <1>2, <2>1, <2>2, <2>3, <2>4, <2>5, <2>6, <2>7 DEF Starting
<1>3. ASSUME NEW a \in Actors, Lock(a) \/ Call(a) PROVE WorkerWatched'
  <2>1. CASE Lock(a)
    BY <1>0, <2>1, UnworriedKept DEF Lock, Unworried, IInv, MainAlone, StopSteps
  <2>2. CASE Call(a)
    BY <1>0, <2>2, UnworriedKept DEF Call, Unworried
  <2>3. QED BY <1>3, <2>1, <2>2
<1>4. CASE Monitoring
  <2>1. CASE ObserveExit
    BY <1>0, <2>1, UnworriedKept DEF ObserveExit, Unworried
  <2>2. CASE WakeUp
    BY <1>0, <2>2, UnworriedKept DEF WakeUp, Unworried
  <2>3. CASE Tick
    BY <1>0, <2>3, UnworriedKept DEF Tick, Unworried
  <2>4. CASE HealthProbed
    BY <1>0, <2>4, UnworriedKept DEF HealthProbed, Unworried
  <2>5. CASE CooldownPasses
    BY <2>5, UnworriedKept DEF CooldownPasses, localVars, Unworried
  <2>6. QED BY <1>4, <2>1, <2>2, <2>3, <2>4, <2>5 DEF Monitoring
<1>5. ASSUME NEW p \in Procs, Reaping(p) \/ CoreStep(p) PROVE WorkerWatched'
  BY <1>5, UnworriedKept DEF Reaping, CoreStep, localVars, Unworried
<1>6. CASE WorkerEnds
  BY <1>6, UnworriedKept DEF WorkerEnds, localVars, Unworried
<1>7. CASE Shutdown
  BY <1>0, <1>7 DEF Shutdown, WorkerWatched
<1>8. CASE UNCHANGED vars
  BY <1>8, UnworriedKept DEF vars, Unworried
<1>9. QED BY <1>1, <1>2, <1>3, <1>4, <1>5, <1>6, <1>7, <1>8 DEF Next, Program, Exited

\* While the program serves, a restart that succeeds leaves a worker that gives
\* the users to the new core, and not one that is being cancelled with the core
\* before, unless that one is still there although the stop has waited for it, for
\* twenty seconds at most, whoever restarts (xray/backend.go:190-255, 285-295).
THEOREM RestartsRepopulate == Spec => EveryRestartRepopulates
<1> DEFINE Repopulates ==
      \A a \in Actors \ {Main} :
          pc[a] = "probe" /\ pc'[a] = "idle" /\ pc[Main] = "serving" /\ a \notin hasty =>
             worker' = "running"
<1>1. Init => WorkerWatched
    BY CallersAssumption DEF Init, WorkerWatched, AfterDrain, StartSteps, FirstStart, Actors
<1>2. IInv /\ WorkerWatched /\ [Next]_vars => WorkerWatched'
    BY WorkerWatchedKept
<1>3. ASSUME IInv, WorkerWatched, [Next]_vars, NEW a \in Actors \ {Main},
             pc[a] = "probe", pc'[a] = "idle", pc[Main] = "serving", a \notin hasty
      PROVE  worker' = "running"
  <2>1. /\ pc \in [Actors -> {"idle", "sleep", "probing", "lock", "stop", "drain", "signal", "await",
                              "clear", "prepare", "launch", "startup", "probe", "serving", "exited",
                              "fatal"}]
        /\ worker \in {"off", "running", "cancelled"}
      BY <1>3 DEF IInv, TypeOK, LocalTypeOK, BackendTypeOK
  <2>2. Ready(a)
      BY <1>3, <2>1 DEF Next, Program, Exited, vars, Goto, Return, Stopping, BeginStop, Drained,
          Signal, Await, Clear, Starting, Prepare, Launch, LaunchFails, Publish, StartupFails,
          Ready, Unready, Lock, Call, Monitoring, ObserveExit, WakeUp, Tick, HealthProbed,
          CooldownPasses, Reaping, CoreStep, WorkerEnds, Shutdown, localVars
  <2>3. worker # "cancelled"
      BY <1>3 DEF WorkerWatched, AfterDrain, StartSteps, FirstStart
  <2>4. QED BY <2>1, <2>2, <2>3 DEF Ready
<1>4. IInv /\ WorkerWatched /\ [Next]_vars => [Repopulates]_vars
    BY <1>3
<1>5. QED BY IInvInvariant, <1>1, <1>2, <1>4, PTL DEF Spec, EveryRestartRepopulates

-----------------------------------------------------------------------------
(* The refinement *)

Living == IF Alive(cmd) THEN cmd ELSE NoProc

LEMMA InitImplements == Init => Runner!CoreInit
    BY DEF Init, RunnerInit, Runner!CoreInit, Alive

\* A step begins a core when there is none, ends the one there is, or does neither.
LEMMA StepImplements ==
    ASSUME TypeOK, Waited, [Next]_vars
    PROVE  [Runner!CoreNext]_Living
<1>1. ASSUME NEW a \in Actors, Stopping(a) PROVE [Runner!CoreNext]_Living
  <2>1. CASE BeginStop(a)
    BY <2>1 DEF BeginStop, runnerVars, Living, Alive
  <2>2. CASE Drained(a)
    BY <2>2 DEF Drained, runnerVars, Living, Alive
  <2>3. CASE Signal(a)
    BY <2>3 DEF Signal, Interrupt, IfAlive, Alive, Runner!CoreNext, Runner!End, Living
  <2>4. CASE Await(a)
    BY <2>4 DEF Await, TakeExit, Kill, Runner!CoreNext, Runner!Begin, Runner!End, Living,
        TypeOK, RunnerTypeOK
  <2>5. CASE Clear(a)
    BY <2>5 DEF Clear, runnerVars, Living, Alive
  <2>6. QED BY <1>1, <2>1, <2>2, <2>3, <2>4, <2>5 DEF Stopping
<1>2. ASSUME NEW a \in Actors, Starting(a) PROVE [Runner!CoreNext]_Living
  <2>1. CASE Prepare(a)
    BY <2>1 DEF Prepare, runnerVars, Living, Alive
  <2>2. CASE Launch(a)
    <3>1. PICK p \in Procs : Spawn(a, p)
        BY <2>2 DEF Launch
    <3>2. ~Alive(cmd)
        BY <3>1 DEF Spawn, Running, Waited, Alive, TypeOK, RunnerTypeOK
    <3>3. cmd' = p /\ Alive(p)'
        BY <3>1, NoProcAssumption DEF Spawn, Alive, AliveStates, TypeOK, RunnerTypeOK
    <3>4. QED
        BY <3>1, <3>2, <3>3 DEF Runner!CoreNext, Runner!Begin
  <2>3. CASE LaunchFails(a)
    BY <2>3 DEF LaunchFails, SpawnFails, Living, Alive
  <2>4. CASE Publish(a)
    BY <2>4 DEF Publish, StartedUp, Living, Alive
  <2>5. CASE StartupFails(a)
    BY <2>5 DEF StartupFails, ExitedDuringStartup, Living, Alive
  <2>6. CASE Ready(a)
    BY <2>6 DEF Ready, runnerVars, Living, Alive
  <2>7. CASE Unready(a)
    BY <2>7 DEF Unready, runnerVars, Living, Alive
  <2>8. QED BY <1>2, <2>1, <2>2, <2>3, <2>4, <2>5, <2>6, <2>7 DEF Starting
<1>3. ASSUME NEW a \in Actors, Lock(a) \/ Call(a) PROVE [Runner!CoreNext]_Living
  <2>1. CASE Lock(a)
    BY <2>1 DEF Lock, runnerVars, Living, Alive
  <2>2. CASE Call(a)
    BY <2>2 DEF Call, runnerVars, Living, Alive
  <2>3. QED BY <1>3, <2>1, <2>2
<1>4. CASE Monitoring
  <2>1. CASE ObserveExit
    BY <2>1 DEF ObserveExit, TakeExit, Living, Alive
  <2>2. CASE WakeUp
    BY <2>2 DEF WakeUp, runnerVars, Living, Alive
  <2>3. CASE Tick
    BY <2>3 DEF Tick, runnerVars, Living, Alive
  <2>4. CASE HealthProbed
    BY <2>4 DEF HealthProbed, runnerVars, Living, Alive
  <2>5. CASE CooldownPasses
    BY <2>5 DEF CooldownPasses, runnerVars, Living, Alive
  <2>6. QED BY <1>4, <2>1, <2>2, <2>3, <2>4, <2>5 DEF Monitoring
<1>5. ASSUME NEW p \in Procs, Reaping(p) PROVE [Runner!CoreNext]_Living
  <2>1. CASE Reap(p)
    BY <1>5, <2>1 DEF Reap, Runner!CoreNext, Runner!Begin, Runner!End, Living, Waited
  <2>2. CASE ForgetCmd(p)
    BY <1>5, <2>2 DEF ForgetCmd, Runner!CoreNext, Runner!End, Living, Alive
  <2>3. CASE SendExit(p)
    BY <1>5, <2>3 DEF SendExit, Living, Alive
  <2>4. QED BY <1>5, <2>1, <2>2, <2>3 DEF Reaping
<1>6. ASSUME NEW p \in Procs, CoreStep(p) PROVE [Runner!CoreNext]_Living
  <2>1. CASE ComeUp(p)
    BY <1>6, <2>1 DEF ComeUp, CoreStep, Runner!CoreNext, Runner!Begin, Runner!End, Living, Alive
  <2>2. CASE Hang(p)
    BY <1>6, <2>2 DEF Hang, CoreStep, Runner!CoreNext, Runner!Begin, Runner!End, Living, Alive
  <2>3. CASE Exit(p)
    BY <1>6, <2>3 DEF Exit, CoreStep, Runner!CoreNext, Runner!End, Living, Waited
  <2>4. QED BY <1>6, <2>1, <2>2, <2>3 DEF CoreStep
<1>7. CASE WorkerEnds
    BY <1>7 DEF WorkerEnds, runnerVars, Living, Alive
<1>8. CASE Shutdown
    BY <1>8 DEF Shutdown, runnerVars, Living, Alive
<1>9. CASE UNCHANGED vars
    BY <1>9 DEF vars, Living, Alive
<1>10. QED BY <1>1, <1>2, <1>3, <1>4, <1>5, <1>6, <1>7, <1>8, <1>9 DEF Next, Program, Exited

\* The runner never has two cores and begins one only when the last has ended
\* (xray/runner.go:38-163): the backend implements Core.
THEOREM Implementation == Spec => ImplementsCore
<1>1. IInv /\ [Next]_vars => [Runner!CoreNext]_Living
    BY StepImplements DEF IInv
<1>2. QED BY IInvInvariant, InitImplements, <1>1, PTL DEF Spec, ImplementsCore, Runner!CoreSpec,
              Living
=============================================================================
