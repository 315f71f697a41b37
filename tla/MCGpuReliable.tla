----------------------------- MODULE MCGpuReliable -----------------------------
(***************************************************************************)
(* An instance of GpuGovernor in which the environment grants Reliable,    *)
(* the hypothesis of the theorems in GpuGovernor_proofs.                   *)
(***************************************************************************)
EXTENDS GpuGovernor

ASSUME ReliableInstance == Reliable

\* Every call the theorems let fail does fail here, and nvidia-smi is run
\* wherever they allow it.
MCMayFail    == Sites \ MustSucceed
MCOperatorAt == Gone \cup {"nvml_init", "clean_clocks"}
================================================================================
