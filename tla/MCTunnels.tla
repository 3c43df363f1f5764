------------------------------ MODULE MCTunnels ------------------------------
(***************************************************************************)
(* One run for the tunnel on macOS (MacTunnel) and on Windows (WinTunnel). *)
(* They share no state: `part` says which of the two a behaviour is about, *)
(* and the other stays still.                                              *)
(***************************************************************************)
EXTENDS Naturals, FiniteSets

CONSTANTS Dests, Static, Gateways, NoGateway, MaxApps, MaxChanges, MaxFaults,
          Networks, Routers, MaxTunnels, MaxFailures

\* The networks of rules are among what rules are about.
ASSUME WinAssumption == Static \subseteq Dests /\ NoGateway \notin Gateways
ASSUME MacAssumption == NoGateway \notin Routers /\ Routers # {}
ASSUME AppsAssumption == MaxApps \in Nat \ {0}

VARIABLES
    part,
    app, helper, follows, job, tun, conf, state, splitFile, nrpt, direct, into, run, held, placed, noted,
    gateway, changes, faults, orphans, excused,
    user, service, owner, script, file, monitor, daemons, born, dns, pin, holes, proxy, names, record,
    present, router, moves, failures, pardoned

windows == <<app, helper, follows, job, tun, conf, state, splitFile, nrpt, direct, into, run, held, placed,
             noted, gateway, changes, faults, orphans, excused>>
macos == <<user, service, owner, script, file, monitor, daemons, born, dns, pin, holes, proxy, names, record,
           present, router, moves, failures, pardoned>>

W == INSTANCE WinTunnel
\* The names that WinTunnel has too are others here.
M == INSTANCE MacTunnel WITH
        Gateways <- Routers, MaxFaults <- MaxFailures, app <- user, follows <- owner, job <- script,
        splitFile <- record, gateway <- router, changes <- moves, faults <- failures, excused <- pardoned

\* The part that stays still has one first state.
TunnelsInit ==
    /\ part \in {"windows", "macos"} /\ W!Init /\ M!Init
    /\ part # "windows" => gateway = CHOOSE g \in Gateways : TRUE
    /\ part # "macos" => present = {}
TunnelsNext ==
    \/ part = "windows" /\ W!Next /\ UNCHANGED <<macos, part>>
    \/ part = "macos" /\ M!Next /\ UNCHANGED <<windows, part>>

TunnelsSpec == TunnelsInit /\ [][TunnelsNext]_<<windows, macos, part>>

\* See WinTunnel: nothing of a tunnel that is gone stays, and the DNS Client's rule has who answers it.
NothingLeft == W!NothingLeft
NamesAreAnswered == W!NamesAreAnswered

\* See MacTunnel: what is changed in the system is recorded for who undoes it, and follows the network.
UndoIsRecorded == M!UndoIsRecorded
FollowsNetwork == M!FollowsNetwork
=============================================================================
