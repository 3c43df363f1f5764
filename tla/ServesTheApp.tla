---------------------------- MODULE ServesTheApp ----------------------------
(***************************************************************************)
(* What the privileged service promises about its own life, whatever the   *)
(* platform: it is there for one application at a time, the latest that    *)
(* asked for something, and asks to stop once that one is gone, or when    *)
(* none came at all (src/helper/internal/lifetime/lifetime.go, the package *)
(* comment).  Lifetime.tla is how the code keeps it.                       *)
(***************************************************************************)
CONSTANTS Pids, NoPid

VARIABLES
    apps,       \* the processes still running
    served,     \* the application the service is there for
    stopping    \* "no", "asked": by the service itself, "told": by the system

promised == <<apps, served, stopping>>

Init == apps = Pids /\ served = NoPid /\ stopping = "no"

Serve(p) == stopping = "no" /\ served' = p /\ UNCHANGED <<apps, stopping>>

\* The one way the service may ask to stop, and only while it is not stopping already.
Ask == /\ stopping = "no"
       /\ served \notin apps
       /\ stopping' = "asked"
       /\ UNCHANGED <<apps, served>>

\* A signal, the service manager.
Told == stopping = "no" /\ stopping' = "told" /\ UNCHANGED <<apps, served>>

Exit(p) == p \in apps /\ apps' = apps \ {p} /\ UNCHANGED <<served, stopping>>

Next == (\E p \in Pids : Serve(p) \/ Exit(p)) \/ Ask \/ Told

Spec == Init /\ [][Next]_promised
=============================================================================
