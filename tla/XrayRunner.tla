----------------------------- MODULE XrayRunner -----------------------------
(***************************************************************************)
(* xray.Runner: the child process, the goroutine that waits for it, and    *)
(* the exit channel (capacity 1) on which Stop, Start and the failure      *)
(* monitor all listen.  Start keeps the mutex of the runner until the core *)
(* has come up; every other section under it is one step.                  *)
(***************************************************************************)
CONSTANTS Procs,      \* processes; one that nothing refers to any more is used again
          NoProc,     \* no process: nil
          Free        \* an unlocked mutex

VARIABLES proc,       \* proc[p]: the state of process p
          reaper,     \* reaper[p]: the goroutine in Runner.wait for p
          cmd,        \* Runner.cmd
          exitCh,     \* Runner.exitCh holds an exit; it does not say whose
          mu          \* who holds Runner.mu

runnerVars == <<proc, reaper, cmd, exitCh, mu>>

\* A core has been spawned, serves its API, no longer answers, was asked to stop.
AliveStates == {"starting", "up", "hung", "dying"}

Alive(p) == p # NoProc /\ proc[p] \in AliveStates

RunnerTypeOK(actors) ==
    /\ proc \in [Procs -> AliveStates \cup {"gone"}]
    /\ reaper \in [Procs -> {"idle", "waiting", "reaped", "sending"}]
    /\ cmd \in Procs \cup {NoProc}
    /\ exitCh \in BOOLEAN
    /\ mu \in actors \cup {Free}

RunnerInit ==
    /\ proc = [p \in Procs |-> "gone"]
    /\ reaper = [p \in Procs |-> "idle"]
    /\ cmd = NoProc
    /\ exitCh = FALSE
    /\ mu = Free

\* runningLocked: ProcessState is set once Wait has returned.  Faulty variant:
\* any process that has been told to stop counts as gone.
RunningUnlessStopped == cmd # NoProc /\ proc[cmd] # "dying" /\ reaper[cmd] = "waiting"
Running == cmd # NoProc /\ reaper[cmd] = "waiting"

\* The process is gone, its reaper too.
Unused(p) == proc[p] = "gone" /\ reaper[p] = "idle" /\ p # cmd

\* Start up to waitStartup: spawn, drain the channel, and keep the mutex.
Spawn(a, p) ==
    /\ mu = Free /\ ~Running /\ Unused(p)
    /\ proc' = [proc EXCEPT ![p] = "starting"]
    /\ reaper' = [reaper EXCEPT ![p] = "waiting"]
    /\ cmd' = p
    /\ exitCh' = FALSE
    /\ mu' = a

\* Start fails: a core is still there, it cannot be spawned, or it does not
\* take its configuration (then it is killed, and the channel was drained).
SpawnFails ==
    /\ mu = Free
    /\ exitCh' \in IF Running THEN {exitCh} ELSE {exitCh, FALSE}
    /\ UNCHANGED <<proc, reaper, cmd, mu>>

\* waitStartup: the log says "started", or six seconds have passed.
StartedUp(a) ==
    /\ mu = a
    /\ mu' = Free
    /\ UNCHANGED <<proc, reaper, cmd, exitCh>>

\* waitStartup: "xray exited during startup", by whatever exit the channel holds.
ExitedDuringStartup(a) ==
    /\ mu = a /\ exitCh
    /\ exitCh' = FALSE
    /\ mu' = Free
    /\ UNCHANGED <<proc, reaper, cmd>>

\* Whom Stop signals.  Faulty variant: only a core that has come up.
IfUp(p) == p # NoProc /\ proc[p] = "up"
IfAlive(p) == Alive(p)

\* Stop: SIGINT to the core of the moment.
Interrupt ==
    /\ mu = Free
    /\ proc' = IF IfAlive(cmd) THEN [proc EXCEPT ![cmd] = "dying"] ELSE proc
    /\ UNCHANGED <<reaper, cmd, exitCh, mu>>

\* Stop and the failure monitor receive an exit.
TakeExit ==
    /\ exitCh
    /\ exitCh' = FALSE
    /\ UNCHANGED <<proc, reaper, cmd, mu>>

\* Stop: SIGKILL, when three seconds or the context of the call have passed.
Kill(p) ==
    /\ proc' = [proc EXCEPT ![p] = IF Alive(p) THEN "gone" ELSE @]
    /\ UNCHANGED <<reaper, cmd, exitCh, mu>>

\* Wait returns.
Reap(p) ==
    /\ reaper[p] = "waiting" /\ proc[p] = "gone"
    /\ reaper' = [reaper EXCEPT ![p] = "reaped"]
    /\ UNCHANGED <<proc, cmd, exitCh, mu>>

\* Whose exit clears cmd.  Faulty variant: anybody's.
AnyExit(p) == TRUE
OwnExit(p) == cmd = p

ForgetCmd(p) ==
    /\ reaper[p] = "reaped" /\ mu = Free
    /\ IF OwnExit(p)
       THEN cmd' = NoProc /\ reaper' = [reaper EXCEPT ![p] = "sending"]
       ELSE UNCHANGED cmd /\ reaper' = [reaper EXCEPT ![p] = "idle"]
    /\ UNCHANGED <<proc, exitCh, mu>>

\* A full channel stays full.  Faulty variant: the exit is not sent.
NotTold == exitCh
Told == TRUE

SendExit(p) ==
    /\ reaper[p] = "sending"
    /\ exitCh' = Told
    /\ reaper' = [reaper EXCEPT ![p] = "idle"]
    /\ UNCHANGED <<proc, cmd, mu>>

\* What a core does of its own accord (external): it comes up, hangs, exits.
ComeUp(p) == proc[p] = "starting" /\ proc' = [proc EXCEPT ![p] = "up"]
Hang(p) == proc[p] = "up" /\ proc' = [proc EXCEPT ![p] = "hung"]
Exit(p) == Alive(p) /\ proc' = [proc EXCEPT ![p] = "gone"]
=============================================================================
