-------------------------------- MODULE Core --------------------------------
(***************************************************************************)
(* What a runner promises about the proxy core it runs: never two          *)
(* processes, and a new one only once the last is gone.                    *)
(***************************************************************************)
CONSTANTS Procs,    \* processes
          NoProc    \* no process

VARIABLE core       \* the process that lives, or NoProc

CoreInit == core = NoProc

Begin == core = NoProc /\ core' \in Procs

End == core # NoProc /\ core' = NoProc

CoreNext == Begin \/ End

CoreSpec == CoreInit /\ [][CoreNext]_core
=============================================================================
