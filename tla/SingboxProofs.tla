--------------------------- MODULE SingboxProofs ---------------------------
(***************************************************************************)
(* Proofs about SingboxBackend for any number of users: what is stored is  *)
(* in the configuration, and what is in the configuration gets served.     *)
(***************************************************************************)
EXTENDS SingboxBackend, TLAPS

USE DEF serviceVars, fileVars, coreVars, restartVars

\* The type invariant, variable by variable.
VariablesOK ==
    /\ store \subseteq Users /\ raced \subseteq Users
    /\ cfg \in Config \cup {NoConfig} /\ loaded \in Config \cup {NoConfig}
    /\ raw \in Config \cup {NoConfig} /\ built \in Config \cup {NoConfig}
    /\ full \in Config \cup {NoConfig}
    /\ dirty \in BOOLEAN /\ hup \in BOOLEAN /\ orphan \in BOOLEAN /\ overwrote \in BOOLEAN
    /\ configMu \in Users \cup {Worker, Free} /\ (worker # "idle" <=> configMu = Worker)
    /\ core \in {"down", "booting", "up"}
    /\ worker \in {"idle", "write", "reload"}
    /\ restart \in {"idle", "stop", "clear", "load", "save", "launch", "publish"}
    /\ op \in [Users -> {"idle", "adding", "added", "removing", "removed"}]

LEMMA Types == (TypeOK <=> VariablesOK) /\ (TypeOK' <=> VariablesOK')
  BY DEF TypeOK, VariablesOK

\* The configuration that a restart makes has every stored user once.
LEMMA StorageUsersOK ==
    /\ StorageUsers \in Config /\ StorageUsers # NoConfig
    /\ \A u \in Users : StorageUsers[u] > 0 <=> u \in store
  BY MaxCopiesAssumption, NoConfigAssumption DEF StorageUsers, Config

\* Every step keeps the types.
LEMMA TypesKept ==
    ASSUME IInv, Next
    PROVE  VariablesOK'
  <1> USE HoldersAssumption, MaxCopiesAssumption
  <1> USE DEF VariablesOK, HolderInv, RestartInv, UsersInv, FileInv
  <1>1. VariablesOK /\ HolderInv /\ RestartInv /\ UsersInv /\ FileInv
    BY Types DEF IInv
  <1>2. ASSUME NEW u \in Users, Begin(u) PROVE VariablesOK'
    BY <1>1, <1>2 DEF Begin, ConfigFree
  <1>3. ASSUME NEW u \in Users, Change(u) PROVE VariablesOK'
    <2>1. cfg' \in Config \cup {NoConfig}
      <3>1. CASE orphan \/ cfg = NoConfig
        BY <1>1, <1>3, <3>1 DEF Change
      <3>2. CASE ~orphan /\ cfg # NoConfig
        <4>1. op[u] = "adding" => cfg[u] < MaxCopies
          BY <1>1, <3>2
        <4>2. cfg \in [Users -> 0..MaxCopies]
          BY <1>1, <3>2 DEF Config
        <4>3. cfg[u] \in 0..MaxCopies /\ 0 \in 0..MaxCopies
          BY <4>2
        <4>4. (op[u] = "adding" => cfg[u] + 1 \in 0..MaxCopies) /\ Dropped(cfg[u]) \in 0..MaxCopies
          BY <4>1, <4>3 DEF Dropped
        <4>5. QED
          BY <1>3, <3>2, <4>2, <4>4 DEF Change, Config
      <3>3. QED
        BY <3>1, <3>2
    <2>2. op' \in [Users -> {"idle", "adding", "added", "removing", "removed"}]
      BY <1>1, <1>3 DEF Change
    <2>3. QED
      BY <1>1, <1>3, <2>1, <2>2 DEF Change
  <1>4. ASSUME NEW u \in Users, Record(u) PROVE VariablesOK'
    BY <1>1, <1>4 DEF Record
  <1>5. ASSUME Snapshot PROVE VariablesOK'
    BY <1>1, <1>5 DEF Snapshot
  <1>6. ASSUME Write PROVE VariablesOK'
    BY <1>1, <1>6 DEF Write
  <1>7. ASSUME Reload PROVE VariablesOK'
    BY <1>1, <1>7 DEF Reload
  <1>8. ASSUME BeginRestart PROVE VariablesOK'
    BY <1>1, <1>8 DEF BeginRestart
  <1>9. ASSUME StopCore PROVE VariablesOK'
    BY <1>1, <1>9 DEF StopCore
  <1>10. ASSUME Clear PROVE VariablesOK'
    BY <1>1, <1>10 DEF Clear
  <1>11. ASSUME Load PROVE VariablesOK'
    BY <1>1, <1>11, StorageUsersOK DEF Load
  <1>12. ASSUME Save PROVE VariablesOK'
    BY <1>1, <1>12 DEF Save
  <1>13. ASSUME Launch PROVE VariablesOK'
    BY <1>1, <1>13 DEF Launch
  <1>14. ASSUME Publish PROVE VariablesOK'
    BY <1>1, <1>14 DEF Publish
  <1>15. ASSUME ReadFile PROVE VariablesOK'
    <2>1. hup' \in BOOLEAN /\ core' \in {"down", "booting", "up"}
      BY <1>1, <1>15 DEF ReadFile
    <2>2. QED
      BY <1>1, <1>15, <2>1 DEF ReadFile
  <1>16. ASSUME CoreEnds PROVE VariablesOK'
    BY <1>1, <1>16 DEF CoreEnds
  <1>17. ASSUME NEW u \in Users, Skip(u) PROVE VariablesOK'
    BY <1>1, <1>17 DEF Skip
  <1>18. QED
    BY <1>2, <1>3, <1>4, <1>5, <1>6, <1>7, <1>8, <1>9, <1>10, <1>11, <1>12, <1>13, <1>14, <1>15,
       <1>16, <1>17 DEF Next, Restarting

\* Every step keeps the agreement of configMu and its holder.
LEMMA HolderKept ==
    ASSUME IInv, Next
    PROVE  HolderInv'
  <1> USE HoldersAssumption, MaxCopiesAssumption
  <1> USE DEF VariablesOK, HolderInv, RestartInv, UsersInv, FileInv
  <1>1. VariablesOK /\ HolderInv /\ RestartInv /\ UsersInv /\ FileInv
    BY Types DEF IInv
  <1>2. ASSUME NEW u \in Users, Begin(u) PROVE HolderInv'
    BY <1>1, <1>2 DEF Begin, ConfigFree
  <1>3. ASSUME NEW u \in Users, Change(u) PROVE HolderInv'
    BY <1>1, <1>3 DEF Change, Config, Dropped
  <1>4. ASSUME NEW u \in Users, Record(u) PROVE HolderInv'
    BY <1>1, <1>4 DEF Record
  <1>5. ASSUME Snapshot PROVE HolderInv'
    BY <1>1, <1>5 DEF Snapshot
  <1>6. ASSUME Write PROVE HolderInv'
    BY <1>1, <1>6 DEF Write
  <1>7. ASSUME Reload PROVE HolderInv'
    BY <1>1, <1>7 DEF Reload
  <1>8. ASSUME BeginRestart PROVE HolderInv'
    BY <1>1, <1>8 DEF BeginRestart
  <1>9. ASSUME StopCore PROVE HolderInv'
    BY <1>1, <1>9 DEF StopCore
  <1>10. ASSUME Clear PROVE HolderInv'
    BY <1>1, <1>10 DEF Clear
  <1>11. ASSUME Load PROVE HolderInv'
    BY <1>1, <1>11 DEF Load
  <1>12. ASSUME Save PROVE HolderInv'
    BY <1>1, <1>12 DEF Save
  <1>13. ASSUME Launch PROVE HolderInv'
    BY <1>1, <1>13 DEF Launch
  <1>14. ASSUME Publish PROVE HolderInv'
    BY <1>1, <1>14 DEF Publish
  <1>15. ASSUME ReadFile PROVE HolderInv'
    BY <1>1, <1>15 DEF ReadFile
  <1>16. ASSUME CoreEnds PROVE HolderInv'
    BY <1>1, <1>16 DEF CoreEnds
  <1>17. ASSUME NEW u \in Users, Skip(u) PROVE HolderInv'
    BY <1>1, <1>17 DEF Skip
  <1>18. QED
    BY <1>2, <1>3, <1>4, <1>5, <1>6, <1>7, <1>8, <1>9, <1>10, <1>11, <1>12, <1>13, <1>14, <1>15,
       <1>16, <1>17 DEF Next, Restarting

\* Every step keeps what a restart has made.
LEMMA RestartKept ==
    ASSUME IInv, Next
    PROVE  RestartInv'
  <1> USE HoldersAssumption, MaxCopiesAssumption
  <1> USE DEF VariablesOK, HolderInv, RestartInv, UsersInv, FileInv
  <1>1. VariablesOK /\ HolderInv /\ RestartInv /\ UsersInv /\ FileInv
    BY Types DEF IInv
  <1>2. ASSUME NEW u \in Users, Begin(u) PROVE RestartInv'
    BY <1>1, <1>2 DEF Begin, ConfigFree
  <1>3. ASSUME NEW u \in Users, Change(u) PROVE RestartInv'
    BY <1>1, <1>3 DEF Change, Config, Dropped
  <1>4. ASSUME NEW u \in Users, Record(u) PROVE RestartInv'
    BY <1>1, <1>4 DEF Record
  <1>5. ASSUME Snapshot PROVE RestartInv'
    BY <1>1, <1>5 DEF Snapshot
  <1>6. ASSUME Write PROVE RestartInv'
    BY <1>1, <1>6 DEF Write
  <1>7. ASSUME Reload PROVE RestartInv'
    BY <1>1, <1>7 DEF Reload
  <1>8. ASSUME BeginRestart PROVE RestartInv'
    BY <1>1, <1>8 DEF BeginRestart
  <1>9. ASSUME StopCore PROVE RestartInv'
    BY <1>1, <1>9 DEF StopCore
  <1>10. ASSUME Clear PROVE RestartInv'
    BY <1>1, <1>10 DEF Clear
  <1>11. ASSUME Load PROVE RestartInv'
    BY <1>1, <1>11, StorageUsersOK DEF Load
  <1>12. ASSUME Save PROVE RestartInv'
    BY <1>1, <1>12 DEF Save
  <1>13. ASSUME Launch PROVE RestartInv'
    BY <1>1, <1>13 DEF Launch
  <1>14. ASSUME Publish PROVE RestartInv'
    BY <1>1, <1>14 DEF Publish
  <1>15. ASSUME ReadFile PROVE RestartInv'
    BY <1>1, <1>15 DEF ReadFile
  <1>16. ASSUME CoreEnds PROVE RestartInv'
    BY <1>1, <1>16 DEF CoreEnds
  <1>17. ASSUME NEW u \in Users, Skip(u) PROVE RestartInv'
    BY <1>1, <1>17 DEF Skip
  <1>18. QED
    BY <1>2, <1>3, <1>4, <1>5, <1>6, <1>7, <1>8, <1>9, <1>10, <1>11, <1>12, <1>13, <1>14, <1>15,
       <1>16, <1>17 DEF Next, Restarting

\* Every step keeps the accounts and the storage together.
LEMMA UsersKept ==
    ASSUME IInv, Next
    PROVE  UsersInv'
  <1> USE HoldersAssumption, MaxCopiesAssumption
  <1> USE DEF VariablesOK, HolderInv, RestartInv, UsersInv, FileInv
  <1>1. VariablesOK /\ HolderInv /\ RestartInv /\ UsersInv /\ FileInv
    BY Types DEF IInv
  <1>2. ASSUME NEW u \in Users, Begin(u) PROVE UsersInv'
    BY <1>1, <1>2 DEF Begin, ConfigFree
  <1>3. ASSUME NEW u \in Users, Change(u) PROVE UsersInv'
    BY <1>1, <1>3 DEF Change, Config, Dropped
  <1>4. ASSUME NEW u \in Users, Record(u) PROVE UsersInv'
    BY <1>1, <1>4 DEF Record
  <1>5. ASSUME Snapshot PROVE UsersInv'
    BY <1>1, <1>5 DEF Snapshot
  <1>6. ASSUME Write PROVE UsersInv'
    BY <1>1, <1>6 DEF Write
  <1>7. ASSUME Reload PROVE UsersInv'
    BY <1>1, <1>7 DEF Reload
  <1>8. ASSUME BeginRestart PROVE UsersInv'
    BY <1>1, <1>8 DEF BeginRestart
  <1>9. ASSUME StopCore PROVE UsersInv'
    BY <1>1, <1>9 DEF StopCore
  <1>10. ASSUME Clear PROVE UsersInv'
    BY <1>1, <1>10 DEF Clear
  <1>11. ASSUME Load PROVE UsersInv'
    BY <1>1, <1>11 DEF Load
  <1>12. ASSUME Save PROVE UsersInv'
    BY <1>1, <1>12 DEF Save
  <1>13. ASSUME Launch PROVE UsersInv'
    BY <1>1, <1>13 DEF Launch
  <1>14. ASSUME Publish PROVE UsersInv'
    BY <1>1, <1>14 DEF Publish
  <1>15. ASSUME ReadFile PROVE UsersInv'
    BY <1>1, <1>15 DEF ReadFile
  <1>16. ASSUME CoreEnds PROVE UsersInv'
    BY <1>1, <1>16 DEF CoreEnds
  <1>17. ASSUME NEW u \in Users, Skip(u) PROVE UsersInv'
    BY <1>1, <1>17 DEF Skip
  <1>18. QED
    BY <1>2, <1>3, <1>4, <1>5, <1>6, <1>7, <1>8, <1>9, <1>10, <1>11, <1>12, <1>13, <1>14, <1>15,
       <1>16, <1>17 DEF Next, Restarting

\* Every step keeps the file and the core together.
LEMMA FileKept ==
    ASSUME IInv, Next
    PROVE  FileInv'
  <1> USE HoldersAssumption, MaxCopiesAssumption
  <1> USE DEF VariablesOK, HolderInv, RestartInv, UsersInv, FileInv
  <1>1. VariablesOK /\ HolderInv /\ RestartInv /\ UsersInv /\ FileInv
    BY Types DEF IInv
  <1>2. ASSUME NEW u \in Users, Begin(u) PROVE FileInv'
    BY <1>1, <1>2 DEF Begin, ConfigFree
  <1>3. ASSUME NEW u \in Users, Change(u) PROVE FileInv'
    BY <1>1, <1>3 DEF Change, Config, Dropped
  <1>4. ASSUME NEW u \in Users, Record(u) PROVE FileInv'
    BY <1>1, <1>4 DEF Record
  <1>5. ASSUME Snapshot PROVE FileInv'
    BY <1>1, <1>5 DEF Snapshot
  <1>6. ASSUME Write PROVE FileInv'
    BY <1>1, <1>6 DEF Write
  <1>7. ASSUME Reload PROVE FileInv'
    BY <1>1, <1>7 DEF Reload
  <1>8. ASSUME BeginRestart PROVE FileInv'
    BY <1>1, <1>8 DEF BeginRestart
  <1>9. ASSUME StopCore PROVE FileInv'
    BY <1>1, <1>9 DEF StopCore
  <1>10. ASSUME Clear PROVE FileInv'
    BY <1>1, <1>10 DEF Clear
  <1>11. ASSUME Load PROVE FileInv'
    BY <1>1, <1>11 DEF Load
  <1>12. ASSUME Save PROVE FileInv'
    BY <1>1, <1>12 DEF Save
  <1>13. ASSUME Launch PROVE FileInv'
    BY <1>1, <1>13 DEF Launch
  <1>14. ASSUME Publish PROVE FileInv'
    BY <1>1, <1>14 DEF Publish
  <1>15. ASSUME ReadFile PROVE FileInv'
    BY <1>1, <1>15 DEF ReadFile
  <1>16. ASSUME CoreEnds PROVE FileInv'
    BY <1>1, <1>16 DEF CoreEnds
  <1>17. ASSUME NEW u \in Users, Skip(u) PROVE FileInv'
    BY <1>1, <1>17 DEF Skip
  <1>18. QED
    BY <1>2, <1>3, <1>4, <1>5, <1>6, <1>7, <1>8, <1>9, <1>10, <1>11, <1>12, <1>13, <1>14, <1>15,
       <1>16, <1>17 DEF Next, Restarting

-----------------------------------------------------------------------------
\* The program serves after its first Start, with nothing stored or configured.
LEMMA InitIInv ==
    Init => IInv
  <1> SUFFICES ASSUME Init PROVE IInv
    OBVIOUS
  <1> USE HoldersAssumption, MaxCopiesAssumption DEF Init
  <1>0. NoUsers \in Config /\ NoUsers # NoConfig /\ \A u \in Users : NoUsers[u] = 0
    BY NoConfigAssumption DEF NoUsers, Config
  <1>1. VariablesOK
    BY <1>0 DEF VariablesOK
  <1>2. HolderInv
    BY <1>0 DEF HolderInv
  <1>3. RestartInv /\ UsersInv /\ FileInv
    BY <1>0 DEF RestartInv, UsersInv, FileInv
  <1>4. QED
    BY <1>1, <1>2, <1>3, Types DEF IInv

\* Every step keeps the invariant.
LEMMA NextIInv ==
    IInv /\ [Next]_vars => IInv'
  <1> SUFFICES ASSUME IInv, [Next]_vars PROVE IInv'
    OBVIOUS
  <1>1. CASE Next
    <2>1. VariablesOK'
      BY <1>1, TypesKept
    <2>2. HolderInv' /\ RestartInv'
      BY <1>1, HolderKept, RestartKept
    <2>3. UsersInv' /\ FileInv'
      BY <1>1, UsersKept, FileKept
    <2>4. QED
      BY <2>1, <2>2, <2>3, Types DEF IInv
  <1>2. CASE UNCHANGED vars
    BY <1>2 DEF vars, IInv, TypeOK, HolderInv, RestartInv, UsersInv, FileInv
  <1>3. QED
    BY <1>1, <1>2

\* The inductive invariant: who holds configMu and whether what it has read is
\* current, what a restart has made, where the accounts of a user, the file and
\* the core are.
THEOREM SingboxInvariant == Spec => []IInv
  <1>1. QED
    BY InitIInv, NextIInv, PTL DEF Spec

\* Every variable keeps its type; the worker works exactly while it holds
\* configMu (singbox/backend.go:291-322).
THEOREM SingboxTypes == Spec => []TypeOK
  <1>1. IInv => TypeOK
    BY DEF IInv
  <1>2. QED
    BY <1>1, SingboxInvariant, PTL

\* Between restarts the configuration in memory has exactly the users of the
\* storage, but for the users whose last message was under way when a restart
\* read the storage or was skipped before it published, for any number of users,
\* messages and restarts (service.go:130-134, 145-149, singbox/backend.go:144,
\* 159-163, 223-255).
THEOREM StorageIsConfigured == Spec => []StoredIsConfigured
  <1>1. IInv => StoredIsConfigured
    BY DEF IInv, UsersInv, StoredIsConfigured
  <1>2. QED
    BY <1>1, SingboxInvariant, PTL

\* When nothing is left to do the core serves the configuration in memory: no
\* order of changes, ticks, signals and restarts loses the dirty flag of a
\* change, but that in which the worker writes a configuration that a Stop has
\* taken away since it was read (singbox/backend.go:223-322).
THEOREM NoChangeIsLost == Spec => []CleanIsServed
  <1>1. IInv => CleanIsServed
    BY DEF IInv, FileInv, CleanIsServed
  <1>2. QED
    BY <1>1, SingboxInvariant, PTL
=============================================================================
