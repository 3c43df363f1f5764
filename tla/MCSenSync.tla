------------------------------ MODULE MCSenSync ------------------------------
(***************************************************************************)
(* A run of SenSync.  Its calls and their absence have names of their own  *)
(* here, so that they do not meet those of the tunnel manager.             *)
(***************************************************************************)
EXTENDS Naturals, FiniteSets, TLC

CONSTANTS Servers, FirstServers, Ids, Exchanges, Nobody, Hosts, MaxRev, MaxEvents, MaxFaults, o1, o2

ASSUME ServersAssumption == Servers \subseteq Nat /\ IsFiniteSet(Servers)
ASSUME FirstAssumption == FirstServers \subseteq Servers /\ FirstServers # {}
ASSUME LimitsAssumption == {MaxRev, MaxEvents, MaxFaults} \subseteq Nat
ASSUME CardsAssumption == Nobody \notin Ids \cup Exchanges /\ Ids \subseteq Nat \ Servers
ASSUME HostsAssumption == Hosts \subseteq {"macos", "windows", "linux"}

VARIABLES host, sub, listed, secrets, pending, queue, ops, mgr, srv, calls, faults

S == INSTANCE SenSync WITH Slots <- Exchanges, None <- Nobody

SenSpec == S!Spec

\* Calls as model values: which slot a call takes makes no difference.
Interchangeable == Permutations(Exchanges)

\* See SenSync: the cards have their keys, the record is true of them, and the turn is never lost.
ListedHasKeys == S!ListedHasKeys
AppliedIsCurrent == S!AppliedIsCurrent
RecordIsListed == S!RecordIsListed
TurnIsLive == S!TurnIsLive
=============================================================================
