------------------------------- MODULE MCXray -------------------------------
(* Configurations for the model-checking runs of XrayBackend. *)
EXTENDS XrayBackend

CONSTANTS c1, c2, A, B

TagsOfConfigs == [c \in Configs |-> IF c = c1 THEN {A} ELSE {A, B}]

\* The program serves, over the core of its first start.
Serving ==
    LET p == CHOOSE q \in Procs : TRUE IN
    /\ proc = [q \in Procs |-> IF q = p THEN "up" ELSE "gone"]
    /\ reaper = [q \in Procs |-> IF q = p THEN "waiting" ELSE "idle"]
    /\ cmd = p /\ exitCh = FALSE /\ mu = Free
    /\ stopPlanned = FALSE /\ restartMu = Free
    /\ cfg = FileConfig /\ api = p /\ raw = FileConfig
    /\ saved = FileConfig /\ registered = TagsOf[FileConfig]
    /\ worker \in {"off", "running"}
    /\ pc = [a \in Actors |-> IF a = Main THEN "serving" ELSE "idle"]
    /\ arg = [a \in Actors |-> NoConfig]
    /\ mine = [a \in Actors |-> NoProc]
    /\ after = [a \in Actors |-> "prepare"]
    /\ failures = 0 /\ recent = HasCooldown
    /\ reported = FALSE /\ late = FALSE /\ early = FALSE /\ hasty = {}

ServingFairSpec == Serving /\ [][Next]_vars /\ Fairness
=============================================================================
