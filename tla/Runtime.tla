-------------------------------- MODULE Runtime --------------------------------
(***************************************************************************)
(* What every part of one HHY runtime shares (struct Runtime of            *)
(* src/runtime.c): the error under way, the cancellation token, and the    *)
(* two counters that stand for its limits, of open files and of child      *)
(* processes.                                                              *)
(***************************************************************************)
EXTENDS Integers

CONSTANTS
    MaxFiles,       \* RuntimeLimits.max_open_files
    MaxProcesses    \* RuntimeLimits.max_processes

ASSUME LimitAssumption == MaxFiles \in Nat /\ MaxProcesses \in Nat

VARIABLES
    failed,         \* an error is under way
    cancelled,      \* a signal, max_runtime or cancel(): there is no way back
    files,          \* active_open_files
    procs           \* active_processes

runtimeVars == <<failed, cancelled, files, procs>>

RuntimeType ==
    /\ failed \in BOOLEAN /\ cancelled \in BOOLEAN
    /\ files \in Nat /\ procs \in Nat

RuntimeInit == failed = FALSE /\ cancelled = FALSE /\ files = 0 /\ procs = 0

(* runtime_reserve_file refuses at the limit.                                *)
FileFree == files < MaxFiles

(* The counters never wrap below zero.                                       *)
Less(count, n) == IF count > n THEN count - n ELSE 0

(* A signal, the end of max_runtime, or another thread's cancel.             *)
Interrupt ==
    /\ ~cancelled
    /\ cancelled' = TRUE
    /\ UNCHANGED <<failed, files, procs>>
=============================================================================
