------------------------------ MODULE Program ------------------------------
(***************************************************************************)
(* The program from its start to its end: the backends are started, the    *)
(* key pair of the server is made and loaded, calls are served, and a      *)
(* signal makes it wait for them and stop the backends.  A crash may come  *)
(* at any time; the supervisor (external) then runs the program again.     *)
(*                                                                         *)
(* Of calls there are log streams (LogStreams), streams that wait for      *)
(* their client (SyncUsers, and Watch of the health service) and restarts  *)
(* of a backend; all others end by themselves.  Beside them the monitors   *)
(* of a backend restart it.  What is inside a restart is in the modules of *)
(* the backends.                                                           *)
(***************************************************************************)
EXTENDS LogStreams

CONSTANTS Backends,     \* in the order in which they are started
          Feeds,        \* streams that wait for messages, or for their client to leave
          Missing, Torn,    \* a file that is not there, or half written
          MaxBoots      \* bound

Ends == {Backends[i] : i \in 1..Len(Backends)}

ASSUME BackendsAssumption == Backends \in Seq(Ends)
ASSUME BootsAssumption == MaxBoots \in Nat \ {0} /\ Missing # Torn
ASSUME FilesAssumption == Missing \notin 0..MaxBoots /\ Torn \notin 0..MaxBoots

VARIABLES
    phase, boots,       \* where main is, and the runs of the program so far
    started,            \* how many backends have been started
    cores,              \* the backends whose core is up
    restarting,         \* the backends that a RestartBackend call is at work on
    monitored,          \* the backends that a monitor is restarting
    feed,               \* the state of each of Feeds
    toStop,             \* the backends main has yet to stop
    key, cert,          \* the files: the run that has written them
    \* history, read by the properties only
    strays,             \* backends whose core main's Stop could not end
    spoiled             \* a crash left a certificate that does not fit

fileVars == <<key, cert, spoiled>>
coreVars == <<cores, monitored, strays>>
mainVars == <<phase, boots, started, restarting, toStop, feed, coreVars, fileVars>>
vars == <<mainVars, logVars>>

Files == {Missing, Torn} \cup 0..MaxBoots

TypeOK ==
    /\ LogsTypeOK
    /\ phase \in {"off", "starting", "key", "cert", "load", "serving", "draining",
                  "stopping", "exited"}
    /\ boots \in 0..MaxBoots /\ started \in 0..Len(Backends)
    /\ {cores, restarting, monitored, toStop, strays} \subseteq SUBSET Ends
    /\ feed \in [Feeds -> {"none", "open", "ending"}]
    /\ {key, cert} \subseteq Files
    /\ spoiled \in BOOLEAN

\* The operator may have provided a pair of files, or removed one of them.
Init ==
    /\ LogsInit
    /\ phase = "off" /\ boots = 0 /\ started = 0
    /\ cores = {} /\ restarting = {} /\ monitored = {} /\ toStop = {} /\ strays = {}
    /\ feed = [f \in Feeds |-> "none"]
    /\ key \in {Missing, 0} /\ cert \in {Missing, 0}
    /\ spoiled = FALSE

-----------------------------------------------------------------------------
(* Starting *)

\* The supervisor has ended the cores that the last run left.
Boot ==
    /\ phase = "off" /\ boots < MaxBoots
    /\ phase' = "starting" /\ boots' = boots + 1 /\ started' = 0
    /\ cores' = {} /\ strays' = {}
    /\ UNCHANGED <<restarting, monitored, toStop, feed, fileVars, logVars>>

\* The process is over, and with it its goroutines.
ProcessEnds ==
    /\ restarting' = {} /\ monitored' = {} /\ feed' = [f \in Feeds |-> "none"]
    /\ LogsReset

\* main is over: fatal, or a crash; a half of a pair may stay behind.
Down ==
    /\ ProcessEnds /\ phase' = "off" /\ toStop' = {}
    /\ spoiled' = (spoiled \/ (phase \in {"key", "cert"} /\ cert # Missing))
    /\ UNCHANGED <<boots, started, cores, strays, key, cert>>

StartBackend ==
    /\ phase = "starting" /\ started < Len(Backends)
    /\ started' = started + 1 /\ cores' = cores \cup {Backends[started + 1]}
    /\ UNCHANGED <<phase, boots, restarting, monitored, toStop, feed, strays, fileVars, logVars>>

\* Faulty variant: one of the files is enough.
HasOne == key # Missing \/ cert # Missing
HasBoth == key # Missing /\ cert # Missing

Ensure ==
    /\ phase = "starting" /\ started = Len(Backends)
    /\ phase' = IF HasBoth THEN "load" ELSE "key"
    /\ UNCHANGED <<boots, started, restarting, toStop, feed, coreVars, fileVars, logVars>>

\* os.WriteFile empties the file, and writes it.
Truncate ==
    /\ \/ phase = "key" /\ key # Torn /\ key' = Torn /\ cert' = cert
       \/ phase = "cert" /\ cert # Torn /\ cert' = Torn /\ key' = key
    /\ UNCHANGED <<phase, boots, started, restarting, toStop, feed, coreVars, spoiled, logVars>>

Write ==
    /\ \/ phase = "key" /\ key = Torn /\ key' = boots /\ cert' = cert /\ phase' = "cert"
       \/ phase = "cert" /\ cert = Torn /\ cert' = boots /\ key' = key /\ phase' = "load"
    /\ UNCHANGED <<boots, started, restarting, toStop, feed, coreVars, spoiled, logVars>>

\* tls.LoadX509KeyPair accepts a key and its certificate (external).
Loads == key = cert /\ key \notin {Missing, Torn}

Load ==
    /\ phase = "load" /\ Loads /\ phase' = "serving"
    /\ UNCHANGED <<boots, started, restarting, toStop, feed, coreVars, fileVars, logVars>>

\* A backend that does not start, files that do not load or cannot be written,
\* an address in use: fatal.  And a crash of the program itself.
Crash == phase \notin {"off", "exited"} /\ Down

-----------------------------------------------------------------------------
(* Serving *)

\* A RestartBackend call has restartMu of the backend, and its core is stopped.
BeginRestart(b) ==
    /\ phase = "serving" /\ b \notin restarting \cup monitored
    /\ restarting' = restarting \cup {b} /\ cores' = cores \ {b}
    /\ UNCHANGED <<phase, boots, started, monitored, toStop, feed, strays, fileVars, logVars>>

\* The core is up again, or not.
EndRestart(b) ==
    /\ b \in restarting /\ restarting' = restarting \ {b}
    /\ cores' \in {cores, cores \cup {b}}
    /\ UNCHANGED <<phase, boots, started, monitored, toStop, feed, strays, fileVars, logVars>>

\* A monitor of a backend restarts it; neither the signal nor main's Stop ends that.
MonitorBegins(b) ==
    /\ phase \notin {"off", "exited"} /\ \E i \in 1..started : b = Backends[i]
    /\ b \notin restarting \cup monitored
    /\ monitored' = monitored \cup {b} /\ cores' = cores \ {b}
    /\ UNCHANGED <<phase, boots, started, restarting, toStop, feed, strays, fileVars, logVars>>

MonitorEnds(b) ==
    /\ b \in monitored /\ monitored' = monitored \ {b}
    /\ cores' \in {cores, cores \cup {b}}
    /\ strays' = IF phase = "stopping" /\ b \notin toStop THEN strays \cup {b} ELSE strays
    /\ UNCHANGED <<phase, boots, started, restarting, toStop, feed, fileVars, logVars>>

\* A stream that waits for its client; the handler ends once the client has ended
\* the stream, broken it or gone.
SetFeed(f, from, to) ==
    /\ feed[f] = from /\ feed' = [feed EXCEPT ![f] = to]
    /\ UNCHANGED <<phase, boots, started, restarting, toStop, coreVars, fileVars, logVars>>

OpenFeed(f) == phase = "serving" /\ SetFeed(f, "none", "open")
FeedLeaves(f) == SetFeed(f, "open", "ending")
FeedReturns(f) == SetFeed(f, "ending", "none")

OpenStream(s) == phase = "serving" /\ Open(s) /\ UNCHANGED mainVars

\* The goroutines of the streams run until the process is over.
StreamStep(s) ==
    /\ phase \in {"serving", "draining", "stopping"}
    /\ Pumping(s) \/ Relaying(s) \/ Handling(s)
    /\ UNCHANGED mainVars

Output == phase \in {"serving", "draining", "stopping"} /\ Publish /\ UNCHANGED mainVars

ClientLeaves(s) == Leave(s) /\ UNCHANGED mainVars

-----------------------------------------------------------------------------
(* Ending *)

Signal ==
    /\ phase = "serving" /\ phase' = "draining"
    /\ UNCHANGED <<boots, started, restarting, toStop, feed, coreVars, fileVars, logVars>>

\* GracefulStop refuses new calls and waits for those that are running.  Faulty
\* variant: Stop, which does not wait.
NoWait == TRUE
AllReturned ==
    /\ restarting = {}
    /\ \A s \in Streams : handler[s] # "sending"
    /\ \A f \in Feeds : feed[f] = "none"

Drained ==
    /\ phase = "draining" /\ AllReturned
    /\ phase' = "stopping" /\ toStop' = Ends
    /\ UNCHANGED <<boots, started, restarting, feed, coreVars, fileVars, logVars>>

\* In any order; an error is logged and the next one is stopped.  A Stop that
\* takes the exit of an earlier core for that of this one leaves this one to its
\* interrupt.
StopBackend ==
    /\ phase = "stopping"
    /\ \E b \in toStop :
          /\ toStop' = toStop \ {b}
          /\ \/ cores' = cores \ {b} /\ UNCHANGED strays
             \/ b \in cores /\ strays' = strays \cup {b} /\ UNCHANGED cores
    /\ UNCHANGED <<phase, boots, started, restarting, monitored, feed, fileVars, logVars>>

Exit ==
    /\ phase = "stopping" /\ toStop = {}
    /\ ProcessEnds /\ phase' = "exited"
    /\ UNCHANGED <<boots, started, cores, strays, toStop, fileVars>>

-----------------------------------------------------------------------------
Main == StartBackend \/ Ensure \/ Truncate \/ Write \/ Load \/ Drained \/ StopBackend \/ Exit

Next ==
    \/ Boot \/ Crash \/ Main \/ Signal
    \/ \E b \in Ends : BeginRestart(b) \/ EndRestart(b) \/ MonitorBegins(b) \/ MonitorEnds(b)
    \/ \E f \in Feeds : OpenFeed(f) \/ FeedLeaves(f) \/ FeedReturns(f)
    \/ \E s \in Streams : OpenStream(s) \/ StreamStep(s) \/ ClientLeaves(s)
    \/ Output

Spec == Init /\ [][Next]_vars

\* Goroutines keep running; a restart takes bounded time, and so does what is left
\* of a stream without its client.
Fairness ==
    /\ WF_vars(Main)
    /\ \A b \in Ends : WF_vars(EndRestart(b))
    /\ \A f \in Feeds : WF_vars(FeedReturns(f))
    /\ \A s \in Streams :
          /\ WF_vars(Pumping(s) /\ StreamStep(s))
          /\ WF_vars(Relaying(s) /\ StreamStep(s))
          /\ WF_vars(Handling(s) /\ StreamStep(s))

FairSpec == Spec /\ Fairness

-----------------------------------------------------------------------------
(* Properties *)

\* A key pair that is loaded fits, even if the run that began to make it was
\* cut short, but for a crash that leaves an old or half-written certificate
\* beside a new key (tlsutil/tls.go:18-60).
PairMatches == phase = "load" /\ ~spoiled => Loads

\* When the program ends on a signal, no RestartBackend call has left a core
\* behind that came up after main had stopped the backend: a core that is still
\* up is one that a monitor put there after that, or one that main's Stop only
\* interrupted (main.go:115-127, xray/runner.go:160-162, xray/backend.go:396-414).
CallsLeaveNoCore == phase = "exited" => cores \subseteq strays

\* If the clients of all streams leave in the end, log streams and others, a
\* signal ends the program; a client that stays can hold it up for ever
\* (main.go:115-127, service.go:321-330, 561-580).
ClientsGone == (\A s \in Streams : ~client[s]) /\ (\A f \in Feeds : feed[f] # "open")
ShutdownCompletes == <>[]ClientsGone => (phase = "draining" ~> phase \in {"exited", "off"})

-----------------------------------------------------------------------------
(* The inductive invariant behind PairMatches and CallsLeaveNoCore *)

\* A run replaces the files one after the other, and both only where one is
\* missing: unless a crash came between, a pair that is there fits.
FilesInv ==
    /\ boots = 0 => phase = "off"
    /\ phase = "load" => HasBoth
    /\ phase = "cert" => key = boots
    /\ ~spoiled /\ phase \notin {"key", "cert"} => key = Missing \/ cert = Missing \/ Loads

\* Once main stops the backends no call can start one, and those that are up
\* are among those that it has yet to stop, or could not end.
CoresInv ==
    /\ phase \in {"stopping", "exited"} => restarting = {} /\ cores \subseteq toStop \cup strays
    /\ phase = "exited" => toStop = {} /\ monitored = {}

IInv == TypeOK /\ LogsInv /\ FilesInv /\ CoresInv
=============================================================================
