----------------------------- MODULE MCServices -----------------------------
(***************************************************************************)
(* One run for the privileged service: either when it stops (Lifetime) or  *)
(* what it does to a Linux system (LinuxService), which takes Lifetime by  *)
(* its promise.  They share no state: `part` says which of the two a       *)
(* behaviour is about, and the other stays still.                          *)
(***************************************************************************)
EXTENDS Lifetime

CONSTANTS Services, None, MaxDaemons

VARIABLES
    part, app, phase, follows, waiting, op, mem, pidFile, socket, saved,
    daemons, born, parts, hole, link, conf, bak, removal, forgotten

linux == <<app, phase, follows, waiting, op, mem, pidFile, socket, saved,
           daemons, born, parts, hole, link, conf, bak, removal, forgotten>>

L == INSTANCE LinuxService

ServicesInit == part \in {"lifetime", "linux"} /\ Init /\ L!Init
ServicesNext ==
    \/ part = "lifetime" /\ Next /\ UNCHANGED <<linux, part>>
    \/ part = "linux" /\ L!Next /\ UNCHANGED <<vars, part>>
Turn(A) == part = "lifetime" /\ A /\ UNCHANGED <<linux, part>>
LinuxTurn(A) == part = "linux" /\ A /\ UNCHANGED <<vars, part>>

\* The fairness of each, while it is its turn.
ServicesFairness ==
    /\ WF_<<vars, linux>>(Turn(\E w \in watchers : AwaitReturns(w) \/ WatcherFinishes(w)))
    /\ WF_<<vars, linux>>(Turn(Idle))
    /\ WF_<<vars, linux>>(Turn(IdleFires))
    /\ \A s \in Services : /\ WF_<<vars, linux>>(LinuxTurn(L!ServiceSteps(s)))
                           /\ WF_<<vars, linux>>(LinuxTurn(L!DaemonExited(s)))

ServicesSpec == ServicesInit /\ [][ServicesNext]_<<vars, linux, part>> /\ ServicesFairness

\* See Lifetime.StopsWithApp: a service whose application is gone stops.
EndsWithApp == part = "lifetime" => StopsWithApp

\* See LinuxService: the state file, the memory of the service, and what outlives the app.
CrashSafe == L!CrashSafe
MemoryMatchesSystem == L!MemoryMatchesSystem
HeldAfterDeath == L!HeldAfterDeath
NothingOutlivesApp == L!NothingOutlivesApp
=============================================================================
