-------------------------- MODULE HysteriaProofs --------------------------
(***************************************************************************)
(* Proofs about HysteriaBackend for any number of users, cores and         *)
(* RestartBackend calls and any failure limit: one core, wired to the      *)
(* program, and passwords and connections that follow the storage.         *)
(***************************************************************************)
EXTENDS HysteriaBackend, TLAPS

USE DEF runnerVars, authVars, lifeVars, userVars, sessionVars

\* The type invariant, variable by variable.
VariablesOK ==
    /\ proc \in [Procs -> {"gone", "up", "hung", "dying"}]
    /\ cmd \in Procs \cup {None} /\ server \in Procs \cup {None} /\ statsPort \in Procs \cup {None}
    /\ servers \subseteq Procs /\ registered \in BOOLEAN /\ stopPlanned \in BOOLEAN
    /\ restartMu \in Actors \cup {Free}
    /\ pc \in [Actors -> {"idle", "lock", "stop", "signal", "wait", "start", "launch", "publish",
                          "serving", "exited", "fatal"}]
    /\ mine \in [Actors -> Procs \cup {None}]
    /\ failures \in 0..MaxFailures - 1
    /\ known \subseteq Users /\ store \subseteq Users
    /\ half \subseteq Users /\ raced \subseteq Users /\ missed \subseteq Users
    /\ op \in [Users -> {"idle", "adding", "added", "unresolved", "kick"}]
    /\ target \in [Users -> Procs \cup {None}] /\ asked \in [Users -> Procs \cup {None}]
    /\ conn \in [Users -> Procs \cup {None}]

LEMMA Types == (TypeOK <=> VariablesOK) /\ (TypeOK' <=> VariablesOK')
  BY DEF TypeOK, VariablesOK

\* The program and the health monitor are two actors, and none of the calls.
LEMMA ActorsOK ==
    /\ Main \in Actors /\ HealthMonitor \in Actors /\ Main # HealthMonitor
    /\ Free \notin Actors /\ Main \notin Callers /\ HealthMonitor \notin Callers
    /\ \A a \in Actors : a = Main \/ a = HealthMonitor \/ a \in Callers
    /\ Callers \subseteq Actors
  BY CallersAssumption DEF Actors, Main, HealthMonitor

\* What Goto and Return make of the variables that they change.
LEMMA GotoTypes ==
    ASSUME VariablesOK, NEW a \in Actors,
           NEW l \in {"lock", "stop", "signal", "wait", "start", "launch", "publish"}, Goto(a, l)
    PROVE  pc' \in [Actors -> {"idle", "lock", "stop", "signal", "wait", "start", "launch",
                               "publish", "serving", "exited", "fatal"}]
  BY DEF VariablesOK, Goto

LEMMA ReturnTypes ==
    ASSUME VariablesOK, NEW a \in Actors, NEW error \in BOOLEAN, Return(a, error)
    PROVE  /\ pc' \in [Actors -> {"idle", "lock", "stop", "signal", "wait", "start", "launch",
                                  "publish", "serving", "exited", "fatal"}]
           /\ mine' \in [Actors -> Procs \cup {None}]
           /\ restartMu' \in Actors \cup {Free}
  BY DEF VariablesOK, Return

\* What Ends makes of the cores and of the sessions.
LEMMA EndsTypes ==
    ASSUME VariablesOK, NEW p, Ends(p)
    PROVE  /\ proc' \in [Procs -> {"gone", "up", "hung", "dying"}]
           /\ asked' \in [Users -> Procs \cup {None}] /\ conn' \in [Users -> Procs \cup {None}]
  BY DEF VariablesOK, Ends

\* A Start has made a server and inbound for core p.
Prepared(a, p) ==
    /\ proc[p] = "gone"
    /\ servers' = servers \cup {p} /\ server' = p
    /\ mine' = [mine EXCEPT ![a] = p] /\ pc' = [pc EXCEPT ![a] = "launch"]
    /\ restartMu' = restartMu

\* The two ways in which the first part of a Start ends.
StartAuthDone(a) ==
    /\ pc[a] = "start" /\ registered' \in BOOLEAN
    /\ known' = known
    /\ proc' = proc /\ cmd' = cmd /\ statsPort' = statsPort /\ stopPlanned' = stopPlanned
    /\ failures' = failures /\ store' = store /\ op' = op /\ target' = target
    /\ half' = half /\ raced' = raced /\ missed' = missed /\ asked' = asked /\ conn' = conn
    /\ \/ \E p \in Procs : Prepared(a, p)
       \/ Return(a, TRUE) /\ servers' = servers /\ server' = server

LEMMA StartAuthEnds ==
    ASSUME VariablesOK, NEW a \in Actors, StartAuth(a)
    PROVE  StartAuthDone(a)
  <1>1. registered' \in BOOLEAN
    BY DEF StartAuth, VariablesOK
  <1>2. QED
    BY <1>1 DEF StartAuthDone, StartAuth, Prepared, Goto, KeptUsers

\* Every step keeps the types.
LEMMA TypesKept ==
    ASSUME IInv, Next
    PROVE  VariablesOK'
  <1> USE ActorsOK, MonitorAssumption, NoneAssumption
  <1> USE DEF VariablesOK, ControlInv, Alive, Serving
  <1>1. VariablesOK /\ ControlInv
    BY Types DEF IInv
  <1>2. ASSUME NEW a \in Actors, Lock(a) PROVE VariablesOK'
    BY <1>1, <1>2 DEF Lock, RestartFree, Goto
  <1>3. ASSUME NEW a \in Actors, StopAuth(a) PROVE VariablesOK'
    BY <1>1, <1>3 DEF StopAuth, Goto
  <1>4. ASSUME NEW a \in Actors, Signal(a) PROVE VariablesOK'
    <2>1. CASE cmd = None /\ a = Main
      BY <1>1, <1>4, <2>1, ReturnTypes DEF Signal
    <2>2. CASE cmd = None /\ a # Main
      BY <1>1, <1>4, <2>2 DEF Signal, Goto
    <2>3. CASE cmd # None
      BY <1>1, <1>4, <2>3 DEF Signal, Goto
    <2>4. QED
      BY <2>1, <2>2, <2>3
  <1>5. ASSUME NEW a \in Actors, Wait(a) PROVE VariablesOK'
    <2>1. Ends(mine[a])
      BY <1>5 DEF Wait, Killed
    <2>2. CASE Return(a, TRUE)
      BY <1>1, <1>5, <2>1, <2>2, EndsTypes, ReturnTypes DEF Wait
    <2>3. CASE Goto(a, "start") /\ mine' = [mine EXCEPT ![a] = None] /\ UNCHANGED restartMu
      BY <1>1, <1>5, <2>1, <2>3, EndsTypes, GotoTypes DEF Wait
    <2>4. QED
      BY <1>5, <2>2, <2>3 DEF Wait
  <1>6. ASSUME NEW a \in Actors, StartAuth(a) PROVE VariablesOK'
    <2>0. StartAuthDone(a)
      BY <1>1, <1>6, StartAuthEnds
    <2>1. CASE \E p \in Procs : Prepared(a, p)
      <3>1. PICK p \in Procs : Prepared(a, p)
        BY <2>1
      <3>2. QED
        BY <1>1, <2>0, <3>1 DEF StartAuthDone, Prepared
    <2>2. CASE Return(a, TRUE) /\ servers' = servers /\ server' = server
      BY <1>1, <2>0, <2>2, ReturnTypes DEF StartAuthDone
    <2>3. QED
      BY <2>0, <2>1, <2>2 DEF StartAuthDone
  <1>7. ASSUME NEW a \in Actors, Launch(a) PROVE VariablesOK'
    BY <1>1, <1>7 DEF Launch, Goto, Return
  <1>8. ASSUME NEW a \in Actors, Publish(a) PROVE VariablesOK'
    BY <1>1, <1>8 DEF Publish, Return
  <1>9. ASSUME NEW a \in Actors, Call(a) PROVE VariablesOK'
    BY <1>1, <1>9 DEF Call, Goto
  <1>10. ASSUME NEW p \in Procs, Reap(p) PROVE VariablesOK'
    BY <1>1, <1>10 DEF Reap
  <1>11. ASSUME Tick PROVE VariablesOK'
    BY <1>1, <1>11 DEF Tick, Goto, AtLimit
  <1>12. ASSUME Shutdown PROVE VariablesOK'
    BY <1>1, <1>12 DEF Shutdown, Goto
  <1>13. ASSUME NEW u \in Users, Add(u) PROVE VariablesOK'
    BY <1>1, <1>13 DEF Add
  <1>14. ASSUME NEW u \in Users, Record(u) PROVE VariablesOK'
    BY <1>1, <1>14 DEF Record
  <1>15. ASSUME NEW u \in Users, Delete(u) PROVE VariablesOK'
    BY <1>1, <1>15 DEF Delete
  <1>16. ASSUME NEW u \in Users, Kick(u) PROVE VariablesOK'
    BY <1>1, <1>16 DEF Kick, KickWorks
  <1>17. ASSUME NEW u \in Users, NEW p \in Procs, Ask(u, p) PROVE VariablesOK'
    BY <1>1, <1>17 DEF Ask
  <1>18. ASSUME NEW p \in Procs, CoreFails(p) PROVE VariablesOK'
    BY <1>1, <1>18 DEF CoreFails, Ends
  <1>19. ASSUME NEW u \in Users, Admit(u) PROVE VariablesOK'
    BY <1>1, <1>19 DEF Admit
  <1>20. ASSUME NEW u \in Users, Leave(u) PROVE VariablesOK'
    BY <1>1, <1>20 DEF Leave
  <1>21. ASSUME Exited PROVE VariablesOK'
    BY <1>1, <1>21 DEF Exited, vars
  <1>22. ASSUME NEW u \in Users, Resolve(u) PROVE VariablesOK'
    BY <1>1, <1>22 DEF Resolve
  <1>23. QED
    BY <1>2, <1>3, <1>4, <1>5, <1>6, <1>7, <1>8, <1>9, <1>10, <1>11, <1>12, <1>13, <1>14, <1>15,
       <1>16, <1>17, <1>18, <1>19, <1>20, <1>21, <1>22
       DEF Next, Program, Core, Session, Stopping, Starting

\* Every step keeps restarts apart.
LEMMA ControlKept ==
    ASSUME IInv, Next
    PROVE  ControlInv'
  <1> USE ActorsOK, MonitorAssumption, NoneAssumption
  <1> USE DEF VariablesOK, ControlInv, Alive, Serving
  <1>1. VariablesOK /\ ControlInv
    BY Types DEF IInv
  <1>2. ASSUME NEW a \in Actors, Lock(a) PROVE ControlInv'
    BY <1>1, <1>2 DEF Lock, RestartFree, Goto
  <1>3. ASSUME NEW a \in Actors, StopAuth(a) PROVE ControlInv'
    BY <1>1, <1>3 DEF StopAuth, Goto
  <1>4. ASSUME NEW a \in Actors, Signal(a) PROVE ControlInv'
    BY <1>1, <1>4 DEF Signal, Goto, Return
  <1>5. ASSUME NEW a \in Actors, Wait(a) PROVE ControlInv'
    BY <1>1, <1>5 DEF Wait, Goto, Return, Killed, Ends
  <1>6. ASSUME NEW a \in Actors, StartAuth(a) PROVE ControlInv'
    <2>0. StartAuthDone(a)
      BY <1>1, <1>6, StartAuthEnds
    <2>1. CASE \E p \in Procs : Prepared(a, p)
      <3>1. PICK p \in Procs : Prepared(a, p)
        BY <2>1
      <3>2. QED
        BY <1>1, <2>0, <3>1 DEF StartAuthDone, Prepared
    <2>2. CASE Return(a, TRUE) /\ servers' = servers /\ server' = server
      BY <1>1, <2>0, <2>2 DEF StartAuthDone, Return
    <2>3. QED
      BY <2>0, <2>1, <2>2 DEF StartAuthDone
  <1>7. ASSUME NEW a \in Actors, Launch(a) PROVE ControlInv'
    BY <1>1, <1>7 DEF Launch, Goto, Return
  <1>8. ASSUME NEW a \in Actors, Publish(a) PROVE ControlInv'
    BY <1>1, <1>8 DEF Publish, Return
  <1>9. ASSUME NEW a \in Actors, Call(a) PROVE ControlInv'
    BY <1>1, <1>9 DEF Call, Goto
  <1>10. ASSUME NEW p \in Procs, Reap(p) PROVE ControlInv'
    BY <1>1, <1>10 DEF Reap
  <1>11. ASSUME Tick PROVE ControlInv'
    BY <1>1, <1>11 DEF Tick, Goto, AtLimit
  <1>12. ASSUME Shutdown PROVE ControlInv'
    BY <1>1, <1>12 DEF Shutdown, Goto
  <1>13. ASSUME NEW u \in Users, Add(u) PROVE ControlInv'
    BY <1>1, <1>13 DEF Add
  <1>14. ASSUME NEW u \in Users, Record(u) PROVE ControlInv'
    BY <1>1, <1>14 DEF Record
  <1>15. ASSUME NEW u \in Users, Delete(u) PROVE ControlInv'
    BY <1>1, <1>15 DEF Delete
  <1>16. ASSUME NEW u \in Users, Kick(u) PROVE ControlInv'
    BY <1>1, <1>16 DEF Kick, KickWorks
  <1>17. ASSUME NEW u \in Users, NEW p \in Procs, Ask(u, p) PROVE ControlInv'
    BY <1>1, <1>17 DEF Ask
  <1>18. ASSUME NEW p \in Procs, CoreFails(p) PROVE ControlInv'
    BY <1>1, <1>18 DEF CoreFails, Ends
  <1>19. ASSUME NEW u \in Users, Admit(u) PROVE ControlInv'
    BY <1>1, <1>19 DEF Admit
  <1>20. ASSUME NEW u \in Users, Leave(u) PROVE ControlInv'
    BY <1>1, <1>20 DEF Leave
  <1>21. ASSUME Exited PROVE ControlInv'
    BY <1>1, <1>21 DEF Exited, vars
  <1>22. ASSUME NEW u \in Users, Resolve(u) PROVE ControlInv'
    BY <1>1, <1>22 DEF Resolve
  <1>23. QED
    BY <1>2, <1>3, <1>4, <1>5, <1>6, <1>7, <1>8, <1>9, <1>10, <1>11, <1>12, <1>13, <1>14, <1>15,
       <1>16, <1>17, <1>18, <1>19, <1>20, <1>21, <1>22
       DEF Next, Program, Core, Session, Stopping, Starting

\* Every step keeps the runner and the core together.
LEMMA CoreKept ==
    ASSUME IInv, Next
    PROVE  CoreInv'
  <1> USE ActorsOK, MonitorAssumption, NoneAssumption
  <1> USE DEF VariablesOK, ControlInv, CoreInv, Alive, Serving
  <1>1. VariablesOK /\ ControlInv /\ CoreInv
    BY Types DEF IInv
  <1>2. ASSUME NEW a \in Actors, Lock(a) PROVE CoreInv'
    BY <1>1, <1>2 DEF Lock, RestartFree, Goto
  <1>3. ASSUME NEW a \in Actors, StopAuth(a) PROVE CoreInv'
    BY <1>1, <1>3 DEF StopAuth, Goto
  <1>4. ASSUME NEW a \in Actors, Signal(a) PROVE CoreInv'
    BY <1>1, <1>4 DEF Signal, Goto, Return
  <1>5. ASSUME NEW a \in Actors, Wait(a) PROVE CoreInv'
    BY <1>1, <1>5 DEF Wait, Goto, Return, Killed, Ends
  <1>6. ASSUME NEW a \in Actors, StartAuth(a) PROVE CoreInv'
    <2>0. StartAuthDone(a)
      BY <1>1, <1>6, StartAuthEnds
    <2>1. CASE \E p \in Procs : Prepared(a, p)
      <3>1. PICK p \in Procs : Prepared(a, p)
        BY <2>1
      <3>2. QED
        BY <1>1, <2>0, <3>1 DEF StartAuthDone, Prepared
    <2>2. CASE Return(a, TRUE) /\ servers' = servers /\ server' = server
      BY <1>1, <2>0, <2>2 DEF StartAuthDone, Return
    <2>3. QED
      BY <2>0, <2>1, <2>2 DEF StartAuthDone
  <1>7. ASSUME NEW a \in Actors, Launch(a) PROVE CoreInv'
    BY <1>1, <1>7 DEF Launch, Goto, Return
  <1>8. ASSUME NEW a \in Actors, Publish(a) PROVE CoreInv'
    BY <1>1, <1>8 DEF Publish, Return
  <1>9. ASSUME NEW a \in Actors, Call(a) PROVE CoreInv'
    BY <1>1, <1>9 DEF Call, Goto
  <1>10. ASSUME NEW p \in Procs, Reap(p) PROVE CoreInv'
    BY <1>1, <1>10 DEF Reap
  <1>11. ASSUME Tick PROVE CoreInv'
    BY <1>1, <1>11 DEF Tick, Goto, AtLimit
  <1>12. ASSUME Shutdown PROVE CoreInv'
    BY <1>1, <1>12 DEF Shutdown, Goto
  <1>13. ASSUME NEW u \in Users, Add(u) PROVE CoreInv'
    BY <1>1, <1>13 DEF Add
  <1>14. ASSUME NEW u \in Users, Record(u) PROVE CoreInv'
    BY <1>1, <1>14 DEF Record
  <1>15. ASSUME NEW u \in Users, Delete(u) PROVE CoreInv'
    BY <1>1, <1>15 DEF Delete
  <1>16. ASSUME NEW u \in Users, Kick(u) PROVE CoreInv'
    BY <1>1, <1>16 DEF Kick, KickWorks
  <1>17. ASSUME NEW u \in Users, NEW p \in Procs, Ask(u, p) PROVE CoreInv'
    BY <1>1, <1>17 DEF Ask
  <1>18. ASSUME NEW p \in Procs, CoreFails(p) PROVE CoreInv'
    BY <1>1, <1>18 DEF CoreFails, Ends
  <1>19. ASSUME NEW u \in Users, Admit(u) PROVE CoreInv'
    BY <1>1, <1>19 DEF Admit
  <1>20. ASSUME NEW u \in Users, Leave(u) PROVE CoreInv'
    BY <1>1, <1>20 DEF Leave
  <1>21. ASSUME Exited PROVE CoreInv'
    BY <1>1, <1>21 DEF Exited, vars
  <1>22. ASSUME NEW u \in Users, Resolve(u) PROVE CoreInv'
    BY <1>1, <1>22 DEF Resolve
  <1>23. QED
    BY <1>2, <1>3, <1>4, <1>5, <1>6, <1>7, <1>8, <1>9, <1>10, <1>11, <1>12, <1>13, <1>14, <1>15,
       <1>16, <1>17, <1>18, <1>19, <1>20, <1>21, <1>22
       DEF Next, Program, Core, Session, Stopping, Starting

\* Every step keeps sessions to cores that are there.
LEMMA SessionKept ==
    ASSUME IInv, Next
    PROVE  SessionInv'
  <1> USE ActorsOK, MonitorAssumption, NoneAssumption
  <1> USE DEF VariablesOK, ControlInv, SessionInv, Alive, Serving
  <1>1. VariablesOK /\ ControlInv /\ SessionInv
    BY Types DEF IInv
  <1>2. ASSUME NEW a \in Actors, Lock(a) PROVE SessionInv'
    BY <1>1, <1>2 DEF Lock, RestartFree, Goto
  <1>3. ASSUME NEW a \in Actors, StopAuth(a) PROVE SessionInv'
    BY <1>1, <1>3 DEF StopAuth, Goto
  <1>4. ASSUME NEW a \in Actors, Signal(a) PROVE SessionInv'
    BY <1>1, <1>4 DEF Signal, Goto, Return
  <1>5. ASSUME NEW a \in Actors, Wait(a) PROVE SessionInv'
    BY <1>1, <1>5 DEF Wait, Goto, Return, Killed, Ends
  <1>6. ASSUME NEW a \in Actors, StartAuth(a) PROVE SessionInv'
    BY <1>1, <1>6 DEF StartAuth, Goto, Return, KeptUsers
  <1>7. ASSUME NEW a \in Actors, Launch(a) PROVE SessionInv'
    BY <1>1, <1>7 DEF Launch, Goto, Return
  <1>8. ASSUME NEW a \in Actors, Publish(a) PROVE SessionInv'
    BY <1>1, <1>8 DEF Publish, Return
  <1>9. ASSUME NEW a \in Actors, Call(a) PROVE SessionInv'
    BY <1>1, <1>9 DEF Call, Goto
  <1>10. ASSUME NEW p \in Procs, Reap(p) PROVE SessionInv'
    BY <1>1, <1>10 DEF Reap
  <1>11. ASSUME Tick PROVE SessionInv'
    BY <1>1, <1>11 DEF Tick, Goto, AtLimit
  <1>12. ASSUME Shutdown PROVE SessionInv'
    BY <1>1, <1>12 DEF Shutdown, Goto
  <1>13. ASSUME NEW u \in Users, Add(u) PROVE SessionInv'
    BY <1>1, <1>13 DEF Add
  <1>14. ASSUME NEW u \in Users, Record(u) PROVE SessionInv'
    BY <1>1, <1>14 DEF Record
  <1>15. ASSUME NEW u \in Users, Delete(u) PROVE SessionInv'
    BY <1>1, <1>15 DEF Delete
  <1>16. ASSUME NEW u \in Users, Kick(u) PROVE SessionInv'
    BY <1>1, <1>16 DEF Kick, KickWorks
  <1>17. ASSUME NEW u \in Users, NEW p \in Procs, Ask(u, p) PROVE SessionInv'
    BY <1>1, <1>17 DEF Ask
  <1>18. ASSUME NEW p \in Procs, CoreFails(p) PROVE SessionInv'
    BY <1>1, <1>18 DEF CoreFails, Ends
  <1>19. ASSUME NEW u \in Users, Admit(u) PROVE SessionInv'
    BY <1>1, <1>19 DEF Admit
  <1>20. ASSUME NEW u \in Users, Leave(u) PROVE SessionInv'
    BY <1>1, <1>20 DEF Leave
  <1>21. ASSUME Exited PROVE SessionInv'
    BY <1>1, <1>21 DEF Exited, vars
  <1>22. ASSUME NEW u \in Users, Resolve(u) PROVE SessionInv'
    BY <1>1, <1>22 DEF Resolve
  <1>23. QED
    BY <1>2, <1>3, <1>4, <1>5, <1>6, <1>7, <1>8, <1>9, <1>10, <1>11, <1>12, <1>13, <1>14, <1>15,
       <1>16, <1>17, <1>18, <1>19, <1>20, <1>21, <1>22
       DEF Next, Program, Core, Session, Stopping, Starting

\* Every step keeps a user's password, record and connection together.
LEMMA UsersKept ==
    ASSUME IInv, Next
    PROVE  UsersInv'
  <1> USE ActorsOK, MonitorAssumption, NoneAssumption
  <1> USE DEF VariablesOK, ControlInv, CoreInv, SessionInv, UsersInv, Alive, Serving
  <1>1. VariablesOK /\ ControlInv /\ CoreInv /\ SessionInv /\ UsersInv
    BY Types DEF IInv
  <1>2. ASSUME NEW a \in Actors, Lock(a) PROVE UsersInv'
    BY <1>1, <1>2 DEF Lock, RestartFree, Goto
  <1>3. ASSUME NEW a \in Actors, StopAuth(a) PROVE UsersInv'
    BY <1>1, <1>3 DEF StopAuth, Goto
  <1>4. ASSUME NEW a \in Actors, Signal(a) PROVE UsersInv'
    BY <1>1, <1>4 DEF Signal, Goto, Return
  <1>5. ASSUME NEW a \in Actors, Wait(a) PROVE UsersInv'
    BY <1>1, <1>5 DEF Wait, Goto, Return, Killed, Ends
  <1>6. ASSUME NEW a \in Actors, StartAuth(a) PROVE UsersInv'
    <2>0. StartAuthDone(a)
      BY <1>1, <1>6, StartAuthEnds
    <2>1. CASE \E p \in Procs : Prepared(a, p)
      <3>1. PICK p \in Procs : Prepared(a, p)
        BY <2>1
      <3>2. QED
        BY <1>1, <2>0, <3>1 DEF StartAuthDone, Prepared
    <2>2. CASE Return(a, TRUE) /\ servers' = servers /\ server' = server
      BY <1>1, <2>0, <2>2 DEF StartAuthDone, Return
    <2>3. QED
      BY <2>0, <2>1, <2>2 DEF StartAuthDone
  <1>7. ASSUME NEW a \in Actors, Launch(a) PROVE UsersInv'
    BY <1>1, <1>7 DEF Launch, Goto, Return
  <1>8. ASSUME NEW a \in Actors, Publish(a) PROVE UsersInv'
    BY <1>1, <1>8 DEF Publish, Return
  <1>9. ASSUME NEW a \in Actors, Call(a) PROVE UsersInv'
    BY <1>1, <1>9 DEF Call, Goto
  <1>10. ASSUME NEW p \in Procs, Reap(p) PROVE UsersInv'
    BY <1>1, <1>10 DEF Reap
  <1>11. ASSUME Tick PROVE UsersInv'
    BY <1>1, <1>11 DEF Tick, Goto, AtLimit
  <1>12. ASSUME Shutdown PROVE UsersInv'
    BY <1>1, <1>12 DEF Shutdown, Goto
  <1>13. ASSUME NEW u \in Users, Add(u) PROVE UsersInv'
    BY <1>1, <1>13 DEF Add
  <1>14. ASSUME NEW u \in Users, Record(u) PROVE UsersInv'
    BY <1>1, <1>14 DEF Record
  <1>15. ASSUME NEW u \in Users, Delete(u) PROVE UsersInv'
    BY <1>1, <1>15 DEF Delete
  <1>16. ASSUME NEW u \in Users, Kick(u) PROVE UsersInv'
    BY <1>1, <1>16 DEF Kick, KickWorks
  <1>17. ASSUME NEW u \in Users, NEW p \in Procs, Ask(u, p) PROVE UsersInv'
    BY <1>1, <1>17 DEF Ask
  <1>18. ASSUME NEW p \in Procs, CoreFails(p) PROVE UsersInv'
    BY <1>1, <1>18 DEF CoreFails, Ends
  <1>19. ASSUME NEW u \in Users, Admit(u) PROVE UsersInv'
    BY <1>1, <1>19 DEF Admit
  <1>20. ASSUME NEW u \in Users, Leave(u) PROVE UsersInv'
    BY <1>1, <1>20 DEF Leave
  <1>21. ASSUME Exited PROVE UsersInv'
    BY <1>1, <1>21 DEF Exited, vars
  <1>22. ASSUME NEW u \in Users, Resolve(u) PROVE UsersInv'
    BY <1>1, <1>22 DEF Resolve
  <1>23. QED
    BY <1>2, <1>3, <1>4, <1>5, <1>6, <1>7, <1>8, <1>9, <1>10, <1>11, <1>12, <1>13, <1>14, <1>15,
       <1>16, <1>17, <1>18, <1>19, <1>20, <1>21, <1>22
       DEF Next, Program, Core, Session, Stopping, Starting

-----------------------------------------------------------------------------
\* The program starts with nothing stored and no core, in the first Start.
LEMMA InitIInv ==
    Init => IInv
  <1> SUFFICES ASSUME Init PROVE IInv
    OBVIOUS
  <1> USE ActorsOK, MonitorAssumption DEF Init
  <1>1. VariablesOK
    <2>1. failures \in 0..MaxFailures - 1
      OBVIOUS
    <2>2. /\ pc \in [Actors -> {"start", "idle"}]
          /\ mine \in [Actors -> Procs \cup {None}]
      OBVIOUS
    <2>3. QED
      BY <2>1, <2>2 DEF VariablesOK
  <1>2. ControlInv
    BY DEF ControlInv
  <1>3. CoreInv
    BY DEF CoreInv, Alive
  <1>4. SessionInv /\ UsersInv
    BY DEF SessionInv, UsersInv
  <1>5. QED
    BY <1>1, <1>2, <1>3, <1>4, Types DEF IInv

\* Every step keeps the invariant.
LEMMA NextIInv ==
    IInv /\ [Next]_vars => IInv'
  <1> SUFFICES ASSUME IInv, [Next]_vars PROVE IInv'
    OBVIOUS
  <1>1. CASE Next
    <2>1. VariablesOK' /\ ControlInv'
      BY <1>1, TypesKept, ControlKept
    <2>2. CoreInv' /\ SessionInv' /\ UsersInv'
      BY <1>1, CoreKept, SessionKept, UsersKept
    <2>3. QED
      BY <2>1, <2>2, Types DEF IInv
  <1>2. CASE UNCHANGED vars
    BY <1>2 DEF vars, IInv, TypeOK, ControlInv, CoreInv, SessionInv, UsersInv, Alive, Serving
  <1>3. QED
    BY <1>1, <1>2

\* The inductive invariant: restarts exclude one another, each of their steps
\* finds the core and the server that the step before has left, and a user's
\* password, record and sessions fit together in the middle of a call as well.
THEOREM HysteriaInvariant == Spec => []IInv
  <1>1. QED
    BY InitIInv, NextIInv, PTL DEF Spec

\* Every variable keeps its type; the health monitor's count stays below its
\* limit (hysteria2/backend.go:380-418).
THEOREM HysteriaTypes == Spec => []TypeOK
  <1>1. IInv => TypeOK
    BY DEF IInv
  <1>2. QED
    BY <1>1, HysteriaInvariant, PTL

\* While the program serves there is never a second core, for any number of
\* RestartBackend calls, though Runner.Start looks for none
\* (hysteria2/runner.go:33-68, 106-124).
THEOREM NeverTwoCores == Spec => []OneCore
  <1>1. IInv => OneCore
    BY DEF IInv, CoreInv, OneCore, Serving
  <1>2. QED
    BY <1>1, HysteriaInvariant, PTL

\* Between restarts a core that is there has its authentication server, and the
\* program its stats port (hysteria2/backend.go:110-210).
THEOREM CoreStaysWired == Spec => []CoreIsWired
  <1>1. IInv => CoreIsWired
    <2> SUFFICES ASSUME IInv, Settled, Alive(cmd) PROVE cmd \in servers /\ statsPort = cmd
      BY DEF CoreIsWired
    <2>1. \A a \in Actors : pc[a] \in {"idle", "lock", "stop", "serving"}
      BY DEF Settled, Serving
    <2>2. QED
      BY <2>1 DEF IInv, CoreInv, Settled, Serving
  <1>2. QED
    BY <1>1, HysteriaInvariant, PTL

\* Who may log in is who is stored, for any number of users, whatever restarts
\* and crashes come between the steps of their messages, but for users whose
\* removal failed half way and users whose message came while a restart had
\* unregistered the inbound, who keep a password without a record
\* (service.go:212-268, hysteria2/backend.go:140, 199, 212-243).
THEOREM PasswordsFollowStore == Spec => []PasswordsMatchStore
  <1>1. IInv => PasswordsMatchStore
    BY DEF IInv, UsersInv, PasswordsMatchStore
  <1>2. QED
    BY <1>1, HysteriaInvariant, PTL

\* A user whom RemoveUser took out of the storage is not served any more: the
\* stats port that the kick goes to is that of the core that serves the user, or
\* of none that is there.  It says nothing of who had been told yes before the
\* removal, nor of a record that went without RemoveUser while the inbound was
\* not registered (hysteria2/backend.go:222-243, 316-337).
THEOREM RemovedIsKicked == Spec => []RemovedStaysOut
  <1>1. IInv => RemovedStaysOut
    BY DEF IInv, UsersInv, RemovedStaysOut
  <1>2. QED
    BY <1>1, HysteriaInvariant, PTL
=============================================================================
