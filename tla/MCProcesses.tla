----------------------------- MODULE MCProcesses -----------------------------
(***************************************************************************)
(* One run for the application's processes: the calls of one of them to    *)
(* the service (HelperClient), or several of them on one desktop (Shell).  *)
(* They share no state: `part` says which of the two a behaviour is about, *)
(* and the other stays still.                                              *)
(***************************************************************************)
EXTENDS HelperClient

CONSTANTS c1, c2, c3, MaxApps, MaxTries, MaxToggles

ASSUME ShellAssumption == MaxApps \in Nat /\ MaxTries \in Nat /\ MaxToggles \in Nat

VARIABLES part, app, lock, attempts, background, toggles

shell == <<app, lock, attempts, background, toggles>>

S == INSTANCE Shell

\* The part that stays still has one first state.
ProcessesInit ==
    /\ part \in {"calls", "shell"} /\ Init /\ S!Init
    /\ part # "calls" => svc = [st |-> "off", ours |-> TRUE]
    /\ part # "shell" => background
ProcessesNext ==
    \/ part = "calls" /\ Next /\ UNCHANGED <<shell, part>>
    \/ part = "shell" /\ S!Next /\ UNCHANGED <<vars, part>>

ProcessesSpec == ProcessesInit /\ [][ProcessesNext]_<<vars, shell, part>>

\* See Shell: one user interface.
OneUi == S!OneUi
=============================================================================
