-------------------------------- MODULE PerApp --------------------------------
(***************************************************************************)
(* Rules by program on Linux (helper/perapp.go, perapp_linux.go): the      *)
(* service keeps a cgroup for each action that is not the default, looks   *)
(* through /proc every second and moves the processes that the rules name, *)
(* while these start, fork, run another program and exit as they like.     *)
(*                                                                         *)
(* One look is not one step: the list is read first, and each process is   *)
(* moved after, whatever has become of it.  A number of a process is used  *)
(* again only when the scanner has forgotten it.                           *)
(***************************************************************************)
EXTENDS Naturals, Sequences, FiniteSets, SequencesExt

CONSTANTS
    Pids, Exes,     \* processes, and the programs they may run
    Skipped,        \* the service itself and the tunnel's daemon, which run all the while
    Homes,          \* cgroups of the system: sessions, services
    Routings,       \* what may be asked for: [final, rules]
    MaxRuns,        \* bound: connections
    MaxSteps,       \* bound: what processes do
    MaxKills        \* bound: kills of the service

VARIABLES
    proc,           \* pid -> its program and cgroup, or NoProc
    gone,           \* cgroups of the system that have been removed
    run,            \* where the service is
    routing,        \* what was asked for
    there,          \* cgroups of the service that exist
    fw, marked,     \* actions with an nftables rule; `ip rule` for the tunnel's mark
    saved,          \* state.json knows of a perApp
    origin, where,  \* the scanner's memory
    list, left,     \* what it has read of /proc, and whom it has not looked at yet
    looking,        \* in the middle of a look
    home, inside,   \* history: where a process began; those begun in a cgroup of the service
    lost,           \* history: killed before the state was saved
    count           \* runs, steps and kills so far

scanner == <<origin, where, list, left, looking>>
service == <<run, routing, there, fw, marked, saved, scanner, lost>>
world == <<proc, gone, home, inside>>
vars == <<service, world, count>>

Ways == {"proxy", "direct", "block"}
Root == "root"
NoProc == [exe |-> "", at |-> ""]
Alive(p) == proc[p] # NoProc
NoRouting == [final |-> "proxy", rules |-> <<>>]
Nothing == [p \in {} |-> Root]

----------------------------------------------------------------------------
(* The rules *)

\* matchApp: the first rule that names the program.
Named(exe) == \E i \in DOMAIN routing.rules : routing.rules[i].exe = exe
ActionFor(exe) == routing.rules[SelectInSeq(routing.rules, LAMBDA r : r.exe = exe)].action
\* startPerApp (dirs): the default way needs no cgroup.
DirsOf(r) == {x.action : x \in ToSet(r.rules)} \ {r.final}
Dirs == DirsOf(routing)
Wanted(p, exe) == p \notin Skipped /\ Named(exe) /\ ActionFor(exe) \in Dirs

TypeOK ==
    /\ proc \in [Pids -> [exe : Exes, at : Homes \cup Ways \cup {Root}] \cup {NoProc}]
    /\ gone \subseteq Homes /\ there \subseteq Ways /\ fw \subseteq there
    /\ run \in {"off", "firewall", "marks", "first", "saving", "on", "restoring", "unmarking", "removing",
                "dead", "emptying"}
    /\ marked \in BOOLEAN /\ saved \in BOOLEAN /\ looking \in BOOLEAN
    /\ DOMAIN where \subseteq DOMAIN origin /\ DOMAIN origin \subseteq Pids
    /\ left \subseteq DOMAIN list

Init ==
    /\ proc = [p \in Pids |-> IF p \in Skipped THEN [exe |-> CHOOSE e \in Exes : TRUE, at |-> Root]
                             ELSE NoProc]
    /\ gone = {}
    /\ run = "off" /\ routing = NoRouting
    /\ there = {} /\ fw = {} /\ marked = FALSE /\ saved = FALSE
    /\ origin = Nothing /\ where = Nothing /\ list = Nothing /\ left = {} /\ looking = FALSE
    /\ home = [p \in Pids |-> Root] /\ inside = {} /\ lost = FALSE
    /\ count = [runs |-> 0, steps |-> 0, kills |-> 0]

----------------------------------------------------------------------------
(* The processes *)

Lives == count.steps < MaxSteps /\ count' = [count EXCEPT !.steps = @ + 1] /\ UNCHANGED service
Unknown(p) == ~Alive(p) /\ p \notin DOMAIN origin \cup DOMAIN list

Spawn(p, exe, h) ==
    /\ Lives /\ Unknown(p) /\ h \notin gone
    /\ proc' = [proc EXCEPT ![p] = [exe |-> exe, at |-> h]]
    /\ home' = [home EXCEPT ![p] = h]
    /\ inside' = inside \ {p}
    /\ UNCHANGED gone

\* A child is born in its parent's cgroup.
Fork(p, c) ==
    /\ Lives /\ Alive(p) /\ Unknown(c)
    /\ proc' = [proc EXCEPT ![c] = proc[p]]
    /\ home' = [home EXCEPT ![c] = proc[p].at]
    /\ inside' = IF proc[p].at \in Ways THEN inside \cup {c} ELSE inside \ {c}
    /\ UNCHANGED gone

Exec(p, exe) ==
    /\ Lives /\ Alive(p) /\ exe # proc[p].exe
    /\ proc' = [proc EXCEPT ![p].exe = exe]
    /\ UNCHANGED <<gone, home, inside>>

Exit(p) ==
    /\ Lives /\ Alive(p)
    /\ proc' = [proc EXCEPT ![p] = NoProc]
    /\ UNCHANGED <<gone, home, inside>>

\* A session ends, or a scope whose only process has been moved.
HomeRemoved(h) ==
    /\ Lives /\ h \notin gone /\ \A p \in Pids : proc[p].at # h
    /\ gone' = gone \cup {h}
    /\ UNCHANGED <<proc, home, inside>>

----------------------------------------------------------------------------
(* Setting up *)
Stays == UNCHANGED <<world, count>>

\* startPerApp: without a rule about a program that goes another way there is nothing to set up.
\* A cgroup that cannot be made ends it, and what was made is taken down.
Start ==
    /\ run = "off" /\ count.runs < MaxRuns /\ count' = [count EXCEPT !.runs = @ + 1]
    /\ routing' \in {r \in Routings : DirsOf(r) # {}}
    /\ \E made \in SUBSET DirsOf(routing') :
          /\ there' = there \cup made
          /\ run' = IF made = DirsOf(routing') THEN "firewall" ELSE "unmarking"
    /\ UNCHANGED <<fw, marked, saved, scanner, lost, world>>

\* installFirewall; when it is refused, what was made is taken down.
InstallFirewall ==
    /\ run = "firewall"
    /\ \/ run' = "marks" /\ fw' = Dirs
       \/ run' = "unmarking" /\ fw' = fw
    /\ UNCHANGED <<routing, there, marked, saved, scanner, lost>> /\ Stays

\* routeMarkIntoTunnel, when a rule sends a program into the tunnel.  With one family a refusal
\* leaves nothing to take back.
RouteMark ==
    /\ run = "marks"
    /\ \/ run' = "first" /\ marked' = (marked \/ "proxy" \in Dirs)
       \/ "proxy" \in Dirs /\ run' = "unmarking" /\ marked' = marked
    /\ UNCHANGED <<routing, there, fw, saved, scanner, lost>> /\ Stays

\* After the first look the service goes on with its `up`, and saves the state.
SaveState ==
    /\ run = "saving" /\ run' = "on" /\ saved' = TRUE
    /\ UNCHANGED <<routing, there, fw, marked, scanner, lost>> /\ Stays

----------------------------------------------------------------------------
(* The scanner *)

\* cgroupMover.Move: the kernel refuses a process or a directory that is there no more.
Movable(p, dir) == Alive(p) /\ dir \notin gone
Put(p, dir) == proc' = [proc EXCEPT ![p].at = dir]
Set(f, x, y) == [z \in DOMAIN f \cup {x} |-> IF z = x THEN y ELSE f[z]]

\* appScanner.Scan: what is in /proc now.
Lists ==
    /\ run \in {"first", "on"} /\ ~looking
    /\ list' = [p \in {q \in Pids : Alive(q)} |-> proc[p]]
    /\ left' = DOMAIN list' /\ looking' = TRUE
    /\ UNCHANGED <<run, routing, there, fw, marked, saved, origin, where, lost>> /\ Stays

\* A process is out of place, by what was read of it.
OutOfPlace(p, seen) == Wanted(p, seen.exe) /\ seen.at # ActionFor(seen.exe)
OriginAfter(p, from) == IF p \in DOMAIN origin THEN origin ELSE Set(origin, p, from)

LooksAt(p) ==
    /\ looking /\ p \in left
    /\ left' = left \ {p}
    /\ IF ~OutOfPlace(p, list[p]) THEN UNCHANGED <<origin, where, proc>>
       ELSE LET dir == ActionFor(list[p].exe) IN
            /\ origin' = OriginAfter(p, list[p].at)
            /\ IF Movable(p, dir) THEN Put(p, dir) /\ where' = Set(where, p, dir)
                                  ELSE UNCHANGED <<proc, where>>
    /\ UNCHANGED <<run, routing, there, fw, marked, saved, list, looking, lost, gone, home, inside, count>>

\* Those that were moved and are not listed are forgotten.
Forgets ==
    /\ looking /\ left = {}
    /\ LET left_us == DOMAIN where \ DOMAIN list IN
       /\ where' = [p \in DOMAIN where \ left_us |-> where[p]]
       /\ origin' = [p \in DOMAIN origin \ left_us |-> origin[p]]
    /\ looking' = FALSE /\ list' = Nothing
    /\ run' = IF run = "first" THEN "saving" ELSE run
    /\ UNCHANGED <<routing, there, fw, marked, saved, left, lost>> /\ Stays

----------------------------------------------------------------------------
(* Taking down *)

\* perApp.stop: the scanner ends its look first.
Stop ==
    /\ run = "on" /\ ~looking
    /\ run' = "restoring"
    /\ UNCHANGED <<routing, there, fw, marked, saved, scanner, lost>> /\ Stays

\* A slip: a process whose cgroup is gone is left.
SlipPutBack(p) == IF Movable(p, origin[p]) THEN Put(p, origin[p]) ELSE UNCHANGED proc
\* appScanner.Restore: back, or to the root when that cgroup is gone.
PutBack(p) ==
    IF Movable(p, origin[p]) THEN Put(p, origin[p])
    ELSE IF Alive(p) THEN Put(p, Root) ELSE UNCHANGED proc
Restore(p) ==
    /\ run = "restoring" /\ p \in DOMAIN where
    /\ PutBack(p)
    /\ where' = [q \in DOMAIN where \ {p} |-> where[q]]
    /\ UNCHANGED <<run, routing, there, fw, marked, saved, origin, list, left, looking, lost>>
    /\ UNCHANGED <<gone, home, inside, count>>
Restored ==
    /\ run = "restoring" /\ where = Nothing
    /\ origin' = Nothing /\ run' = "unmarking"
    /\ UNCHANGED <<routing, there, fw, marked, saved, where, list, left, looking, lost>> /\ Stays

\* perApp.teardown, removePerAppFirewall, removeAppRules
Unmark ==
    /\ run = "unmarking"
    /\ fw' = {} /\ marked' = FALSE /\ run' = "removing"
    /\ UNCHANGED <<routing, there, saved, scanner, lost>> /\ Stays

\* removeCgroup: the kernel refuses while a process is in it, and the service gives up after a second.
Empty(dirs) == {d \in dirs : \A p \in Pids : proc[p].at # d}
RemoveCgroups ==
    /\ run = "removing"
    /\ there' = there \ Empty(Dirs)
    /\ run' = "off" /\ saved' = FALSE
    /\ UNCHANGED <<routing, fw, marked, scanner, lost>> /\ Stays

----------------------------------------------------------------------------
(* A kill, and the next start of the service *)

Killed ==
    /\ run # "off" /\ run \notin {"dead", "emptying"}
    /\ count.kills < MaxKills /\ count' = [count EXCEPT !.kills = @ + 1]
    /\ run' = "dead" /\ lost' = (lost \/ ~saved)
    /\ origin' = Nothing /\ where' = Nothing /\ list' = Nothing /\ left' = {} /\ looking' = FALSE
    /\ UNCHANGED <<routing, there, fw, marked, saved, world>>

\* controller.reconcile: only what the state knows of.  cleanupPerApp reads who is in each cgroup.
Boot ==
    /\ run = "dead"
    /\ IF ~saved THEN run' = "off" /\ UNCHANGED <<fw, marked, list, left>>
       ELSE /\ run' = "emptying" /\ fw' = {} /\ marked' = FALSE
            /\ list' = [p \in {q \in Pids : proc[q].at \in there} |-> proc[p]]
            /\ left' = DOMAIN list'
    /\ UNCHANGED <<routing, there, saved, origin, where, looking, lost>> /\ Stays
Empties(p) ==
    /\ run = "emptying" /\ p \in left
    /\ IF Alive(p) THEN Put(p, Root) ELSE UNCHANGED proc
    /\ left' = left \ {p}
    /\ UNCHANGED <<run, routing, there, fw, marked, saved, origin, where, list, looking, lost>>
    /\ UNCHANGED <<gone, home, inside, count>>
Emptied ==
    /\ run = "emptying" /\ left = {}
    /\ there' = there \ Empty(there)
    /\ list' = Nothing /\ run' = "off" /\ saved' = FALSE
    /\ UNCHANGED <<routing, fw, marked, origin, where, left, looking, lost>> /\ Stays

Processes ==
    \/ \E p \in Pids \ Skipped, exe \in Exes : (\E h \in Homes : Spawn(p, exe, h)) \/ Exec(p, exe)
    \/ \E p \in Pids \ Skipped : Exit(p) \/ (\E c \in Pids : Fork(p, c))
    \/ \E h \in Homes : HomeRemoved(h)
Scan == Lists \/ Forgets \/ (\E p \in Pids : LooksAt(p))
Next ==
    \/ Processes \/ Scan
    \/ Start \/ InstallFirewall \/ RouteMark \/ SaveState
    \/ Stop \/ (\E p \in Pids : Restore(p)) \/ Restored \/ Unmark \/ RemoveCgroups
    \/ Killed \/ Boot \/ (\E p \in Pids : Empties(p)) \/ Emptied

\* The ticker of the scanner goes on for as long as the service does.
Spec == Init /\ [][Next]_vars /\ WF_vars(Scan)

----------------------------------------------------------------------------
(* What must hold *)

\* «Processes it did not move are never touched, and every one it moved goes back where it was»
\* (perapp.go): with no connection a process is in the cgroup it began in, whatever it has run and
\* whoever has exited meanwhile.  It is in the root only if that cgroup is gone or the service was
\* killed.  Not those born in a cgroup of the service, nor after a kill before the state was saved.
BackWhereItWas ==
    run = "off" /\ ~lost =>
        \A p \in Pids \ inside : Alive(p) =>
            \/ proc[p].at = home[p]
            \/ proc[p].at = Root /\ (home[p] \in gone \/ count.kills > 0)

\* stop «removes everything it made», and so does the start after a kill: no mark is left, and of
\* the cgroups only one that a process born in it still holds.
NothingStays ==
    [][run # "off" /\ run' = "off" /\ ~lost =>
        /\ fw' = {} /\ ~marked'
        /\ \A d \in there' \cap Dirs : \E p \in inside' : proc'[p].at = d]_vars

\* Every second the scanner puts right who is out of place: however processes fork, exec and exit,
\* one that runs a named program does not stay where it was while the connection is on.
Misplaced(p) ==
    run = "on" /\ Alive(p) /\ Wanted(p, proc[p].exe) /\ proc[p].at # ActionFor(proc[p].exe)
GoesItsWay == \A p \in Pids : Misplaced(p) ~> ~Misplaced(p)
=============================================================================
