------------------------------- MODULE WinTunnel -------------------------------
(***************************************************************************)
(* The tunnel on Windows (helper/tunnel_windows.go, split_windows.go,      *)
(* state_windows.go, service_windows.go).  Two Windows services: ours,     *)
(* which the application starts and which stops with it, and the tunnel's, *)
(* which ours registers, starts and deletes.  They die apart: a crash of   *)
(* ours leaves the tunnel running, with routes beside it and a rule of the *)
(* DNS Client (NRPT) that points at a proxy that is gone; the SCM starts   *)
(* ours again, and reconcile decides by the files what to keep.            *)
(*                                                                         *)
(* c.mu makes requests follow one another; the proxy, the watcher of the   *)
(* network and the flush of split.json go on meanwhile.                    *)
(***************************************************************************)
EXTENDS Naturals, FiniteSets

CONSTANTS
    Dests, Static,  \* what rules are about: `ip:` networks (Static), addresses of names
    Gateways, NoGateway,
    MaxApps,        \* bound: runs of the application
    MaxChanges,     \* bound: changes of the network
    MaxFaults       \* bound: crashes, refusals and timeouts, together

VARIABLES
    app,            \* the run of the application, and whether it is there
    helper,         \* our service: "off", "boot", "ready" or "dead"
    follows,        \* Lifetime.pid
    job,            \* what holds c.mu
    tun,            \* the tunnel's service: registered, running, marked for deletion
    conf, state,    \* the tunnel's .conf; state.json: whose tunnel it is, and which
    splitFile,      \* split.json
    nrpt,           \* the rule of the DNS Client
    direct, into,   \* routes of Dests: through gateways; into the tunnel's adapter
    run,            \* the splitRun: its default way, network.best, router.tun, nrpt
    held, placed, noted,    \* RouteSet, winRouter.placed, splitStore.set
    gateway, changes, faults,
    orphans,        \* history: direct routes that no record of a running service names
    excused         \* history

files == <<conf, state, splitFile>>
system == <<tun, nrpt, direct, into>>
memory == <<run, held, placed, noted>>
history == <<orphans, excused>>
world == <<app, gateway, changes>>
vars == <<app, helper, follows, job, files, system, memory, gateway, changes, faults, history>>

----------------------------------------------------------------------------

\* Everything into the tunnel, by the fork's own routes and firewall («full»); with rules, by the
\* way of what no rule names.  A tunnel is known by its mode, as if each had one of its own.
Modes == {"full", "proxy", "direct"}
NoTunnel == [st |-> "none", doomed |-> FALSE, mode |-> "full"]
NoState == [pid |-> 0, id |-> "full"]
NoSplitFile == [mode |-> "none", routes |-> {}]
NoRun == [mode |-> "none", best |-> NoGateway, tun |-> FALSE, nrpt |-> FALSE]
NoJob == [what |-> "none", at |-> "end", then |-> "end", mode |-> "full", pid |-> 0, saved |-> {}]
Teardown == {"halt", "delete", "unsplit", "clear"}
Steps == Teardown \cup {"tunnel", "leftovers", "restart", "proxy", "attach", "pins", "rule", "adopt",
                        "check", "split", "conf", "start", "failed", "save", "end"}
HasSplit == run.mode # "none"
Adapter == tun.st = "running"

TypeOK ==
    /\ app \in [n : 1 .. MaxApps, alive : BOOLEAN]
    /\ helper \in {"off", "boot", "ready", "dead"} /\ follows \in 0 .. MaxApps
    /\ job \in [what : {"none", "boot", "up", "down", "stop"}, at : Steps, then : Steps,
                mode : Modes, pid : 0 .. MaxApps, saved : SUBSET Dests]
    /\ tun \in [st : {"none", "stopped", "running"}, doomed : BOOLEAN, mode : Modes]
    /\ conf \in Modes \cup {"none"} /\ state \in [pid : 0 .. MaxApps, id : Modes]
    /\ splitFile \in [mode : {"none", "proxy", "direct"}, routes : SUBSET Dests]
    /\ nrpt \in BOOLEAN /\ direct \in [Dests -> SUBSET Gateways] /\ into \subseteq Dests
    /\ run \in [mode : {"none", "proxy", "direct"}, best : Gateways \cup {NoGateway},
                tun : BOOLEAN, nrpt : BOOLEAN]
    /\ held \subseteq Dests /\ noted \subseteq Dests
    /\ placed \in [Dests -> Gateways \cup {NoGateway}]
    /\ gateway \in Gateways \cup {NoGateway}
    /\ orphans \subseteq Dests \X Gateways /\ excused \subseteq {"missed", "unanswered", "conf", "rule", "adopted", "kept"}

Init ==
    /\ app = [n |-> 1, alive |-> TRUE]
    /\ helper = "off" /\ follows = 0 /\ job = NoJob
    /\ tun = NoTunnel /\ conf = "none" /\ state = NoState /\ splitFile = NoSplitFile
    /\ nrpt = FALSE /\ direct = [d \in Dests |-> {}] /\ into = {}
    /\ run = NoRun /\ held = {} /\ noted = {} /\ placed = [d \in Dests |-> NoGateway]
    /\ gateway \in Gateways /\ changes = 0 /\ faults = 0
    /\ orphans = {} /\ excused = {}

Fault == faults < MaxFaults /\ faults' = faults + 1
At(step) == job.what # "none" /\ job.at = step
Goes(step) == job' = [job EXCEPT !.at = step]
TearsDown(then) == job' = [job EXCEPT !.at = "halt", !.then = then]
Same == UNCHANGED <<world, helper, follows>>

----------------------------------------------------------------------------
(* The application, the network, the two services *)

AppEnds == app.alive /\ app' = [app EXCEPT !.alive = FALSE]
           /\ UNCHANGED <<helper, follows, job, files, system, memory, gateway, changes, faults, history>>
AppStarts ==
    /\ ~app.alive /\ app.n < MaxApps
    /\ app' = [n |-> app.n + 1, alive |-> TRUE]
    /\ UNCHANGED <<helper, follows, job, files, system, memory, gateway, changes, faults, history>>

NetworkChanges ==
    /\ changes < MaxChanges /\ changes' = changes + 1
    /\ gateway' \in (Gateways \cup {NoGateway}) \ {gateway}
    /\ UNCHANGED <<app, helper, follows, job, files, system, memory, faults, history>>

\* The tunnel's process is gone, and its adapter with the routes on it; a service marked for
\* deletion goes with it.
Gone == IF tun.doomed THEN NoTunnel ELSE [tun EXCEPT !.st = "stopped"]
TunnelStops == tun' = Gone /\ into' = {}
TunnelDies ==
    /\ Adapter /\ ~tun.doomed /\ Fault /\ TunnelStops
    /\ UNCHANGED <<world, helper, follows, job, files, nrpt, direct, memory, history>>
DoomedEnds ==
    /\ Adapter /\ tun.doomed /\ TunnelStops
    /\ UNCHANGED <<world, helper, follows, job, files, nrpt, direct, memory, faults, history>>

\* The application starts our service (serviceStart.ts); after a crash the SCM does.
Boots ==
    /\ helper' = "boot" /\ follows' = 0
    /\ job' = [NoJob EXCEPT !.what = "boot", !.at = "tunnel"]
    /\ UNCHANGED <<world, files, system, memory, faults, history>>
AppStartsHelper == helper = "off" /\ app.alive /\ Boots
ScmRestarts == helper = "dead" /\ Boots

\* split.json is gone and the proxy is not there yet; or a tunnel that did not start well has lost
\* its proxy, and is being taken down.
Unrecorded ==
    \/ At("proxy")
    \/ job.what = "up" /\ job.then = "end" /\ job.at \in {"halt", "delete"}
\* A crash: what was only in memory is lost.
Crash ==
    /\ helper \in {"boot", "ready"} /\ Fault
    /\ helper' = "dead" /\ follows' = 0 /\ job' = NoJob
    /\ run' = NoRun /\ held' = {} /\ noted' = {} /\ placed' = [d \in Dests |-> NoGateway]
    /\ orphans' = orphans \cup {p \in (Dests \ splitFile.routes) \X Gateways : p[2] \in direct[p[1]]}
    /\ excused' = excused
          \cup (IF (tun.st = "none" \/ tun.doomed) /\ conf # "none" THEN {"conf"} ELSE {})
          \cup (IF Unrecorded THEN {"unanswered"} ELSE {})
    /\ UNCHANGED <<world, files, system>>

\* Execute: the application it follows is gone, or none came in time; or the SCM asks.
Stop ==
    /\ helper = "ready" /\ job.what = "none"
    /\ job' = [NoJob EXCEPT !.what = "stop", !.at = "halt"]
    /\ UNCHANGED <<world, helper, follows, files, system, memory, faults, history>>
Deserted == follows = 0 \/ follows # app.n \/ ~app.alive
LifeEnds == Deserted /\ Stop

\* The next request waits for c.mu; every request is followed (dispatch, Lifetime.Watch).
Request(what, at, mode) ==
    /\ helper = "ready" /\ job.what = "none" /\ app.alive
    /\ follows' = app.n
    /\ job' = [NoJob EXCEPT !.what = what, !.at = at, !.mode = mode, !.pid = app.n]
    /\ UNCHANGED <<world, helper, files, system, memory, faults, history>>
Up == \E mode \in Modes : Request("up", "check", mode)
DownOrCleanup == Request("down", "halt", "full")

\* The answer is sent, or the service has stopped.
Ends ==
    /\ At("end")
    /\ job' = NoJob
    /\ helper' = IF job.what = "stop" THEN "off" ELSE "ready"
    /\ follows' = IF job.what = "stop" THEN 0 ELSE follows
    /\ UNCHANGED <<world, files, system, memory, faults, history>>

----------------------------------------------------------------------------
(* The routes of the rules *)

\* A slip: the route is looked for at the gateway of now.
SlipUnplaced(d) == direct[d] \ {run.best}
\* winRouter.Unroute: exactly the route that was put there.
Unplaced(d) == direct[d] \ {placed[d]}
\* winRouter.Route: the one put before is deleted.
Replaced(d, gw) == (direct[d] \ {placed[d]}) \cup {gw}

\* Route for every destination of D, by the way that is not the default.
CanRoute(gw) == IF run.mode = "proxy" THEN gw # NoGateway ELSE run.tun /\ Adapter
Routes(D, gw) ==
    IF run.mode = "proxy"
    THEN /\ direct' = [d \in Dests |-> IF d \in D THEN Replaced(d, gw) ELSE direct[d]]
         /\ placed' = [d \in Dests |-> IF d \in D THEN gw ELSE placed[d]]
         /\ UNCHANGED into
    ELSE into' = into \cup D /\ UNCHANGED <<direct, placed>>
Unroutes(D) ==
    /\ direct' = [d \in Dests |-> IF d \in D THEN Unplaced(d) ELSE direct[d]]
    /\ placed' = [d \in Dests |-> IF d \in D THEN NoGateway ELSE placed[d]]
    /\ into' = into \ D

\* A listed name is asked for: by the adapter's DNS or by the rule it comes to the proxy.
NameAsked(d) ==
    /\ HasSplit /\ Adapter /\ d \notin Static \cup held /\ CanRoute(run.best)
    /\ Routes({d}, run.best)
    /\ held' = held \cup {d} /\ noted' = noted \cup {d}
    /\ UNCHANGED <<world, helper, follows, job, files, tun, nrpt, run, faults, history>>
NameExpires(d) ==
    /\ HasSplit /\ d \in held \ Static
    /\ Unroutes({d})
    /\ held' = held \ {d} /\ noted' = noted \ {d}
    /\ UNCHANGED <<world, helper, follows, job, files, tun, nrpt, run, faults, history>>

\* network.watch: every three seconds; the direct routes follow, those there is a gateway for.
Watch ==
    /\ HasSplit /\ run.best # gateway
    /\ run' = [run EXCEPT !.best = gateway]
    /\ IF run.mode = "proxy" /\ gateway # NoGateway THEN Routes(held, gateway)
       ELSE UNCHANGED <<direct, placed, into>>
    /\ UNCHANGED <<world, helper, follows, job, files, tun, nrpt, held, noted, faults, history>>

\* splitStore.flush, every second
Flushed == [mode |-> run.mode, routes |-> noted]
Flush ==
    /\ HasSplit /\ splitFile # Flushed
    /\ splitFile' = Flushed
    /\ UNCHANGED <<world, helper, follows, job, conf, state, system, memory, faults, history>>

\* startSplitProxy: the network is looked at, split.json begun; or port 53 is taken.
StartsProxy(mode) ==
    /\ run' = [mode |-> mode, best |-> gateway, tun |-> FALSE, nrpt |-> FALSE]
    /\ splitFile' = [mode |-> mode, routes |-> {}]

\* A slip: only a run that has found the adapter takes its rule back, by what the adapter is now.
SlipRuleAfter == nrpt /\ ~(run.nrpt /\ Adapter)
RuleAfter == nrpt /\ ~run.nrpt
\* splitRun.stop
StopsRun ==
    IF ~HasSplit THEN UNCHANGED <<run, held, noted, placed, direct, into, nrpt, splitFile>>
    ELSE /\ nrpt' = RuleAfter
         /\ Unroutes(held)
         /\ held' = {} /\ noted' = {} /\ run' = NoRun
         /\ splitFile' = NoSplitFile

----------------------------------------------------------------------------
(* teardownLocked: best effort, to the end *)

\* The tunnel's service is asked to stop, and waited for: it may take longer than we wait.
Halt ==
    /\ At("halt")
    /\ \/ Adapter /\ TunnelStops /\ UNCHANGED faults
       \/ Adapter /\ Fault /\ UNCHANGED <<tun, into>>
       \/ ~Adapter /\ UNCHANGED <<tun, into, faults>>
    /\ Goes("delete")
    /\ UNCHANGED <<files, nrpt, direct, memory, history>> /\ Same

\* A service still running is only marked for deletion; one that the SCM does not give us stays as it
\* is, also when that is why it was not stopped.  The .conf, and the key in it, go all the same.
Delete ==
    /\ At("delete")
    /\ \/ /\ tun' = IF Adapter THEN [tun EXCEPT !.doomed = TRUE] ELSE NoTunnel
          /\ excused' = excused \ {"conf", "kept", "unanswered"} /\ UNCHANGED faults
       \/ /\ tun.st # "none" /\ ~tun.doomed
          /\ Fault \/ (Adapter /\ UNCHANGED faults)
          /\ excused' = (excused \ {"conf", "kept"}) \cup {"unanswered"} /\ UNCHANGED tun
    /\ conf' = "none"
    /\ Goes("unsplit")
    /\ UNCHANGED <<state, splitFile, nrpt, direct, into, memory, orphans>> /\ Same

\* After the tunnel, the proxy that answered for it.
Unsplit ==
    /\ At("unsplit")
    /\ StopsRun
    /\ Goes("clear")
    /\ UNCHANGED <<conf, state, tun, faults, history>> /\ Same

StateCleared == state' = NoState
Clear ==
    /\ At("clear")
    /\ StateCleared
    /\ Goes(job.then)
    /\ UNCHANGED <<conf, splitFile, system, memory, faults, history>> /\ Same

----------------------------------------------------------------------------
(* up *)

\* A tunnel that is active is replaced only when asked to; what a crashed one left is cleared.
Check ==
    /\ At("check")
    /\ \/ tun.st = "none" /\ Goes("split")
       \/ tun.st # "none" /\ TearsDown("split")
       \/ Adapter /\ Goes("end")
    /\ UNCHANGED <<files, system, memory, faults, history>> /\ Same

Split ==
    /\ At("split")
    /\ IF job.mode = "full"
       THEN Goes("conf") /\ UNCHANGED <<run, splitFile, faults>>
       ELSE \/ ~HasSplit /\ StartsProxy(job.mode) /\ Goes("conf") /\ UNCHANGED faults
            \/ /\ Fault \/ (HasSplit /\ UNCHANGED faults)
               /\ Goes("end") /\ splitFile' = NoSplitFile /\ UNCHANGED run
    /\ UNCHANGED <<conf, state, system, held, noted, placed, history>> /\ Same

\* What was written before the disk refused stays, with the key that may be in it.
Unwritten ==
    /\ \/ conf' = "none" /\ UNCHANGED excused
       \/ conf' = job.mode /\ excused' = excused \cup {"conf"}
    /\ StopsRun
WritesConf ==
    /\ At("conf")
    /\ \/ conf' = job.mode /\ Goes("start")
          /\ UNCHANGED <<faults, excused, splitFile, nrpt, direct, into, memory>>
       \/ Fault /\ Unwritten /\ Goes("end")
    /\ UNCHANGED <<state, tun, orphans>> /\ Same

\* startLocked: a service of this name, still being deleted or never given to us, is waited for, then
\* given up on; one that was registered may not start, or not in time.
Start ==
    /\ At("start")
    /\ \/ /\ tun.st = "none" /\ UNCHANGED faults
          /\ tun' = [st |-> "running", doomed |-> FALSE, mode |-> job.mode]
          /\ Goes(IF HasSplit /\ job.mode # "full" THEN "attach" ELSE "save")
       \/ tun.st # "none" /\ Goes("failed") /\ UNCHANGED <<tun, faults>>
       \/ /\ tun.st = "none" /\ Fault
          /\ \E st \in {"none", "stopped", "running"} :
                tun' = [st |-> st, doomed |-> FALSE, mode |-> job.mode]
          /\ Goes("failed")
    /\ UNCHANGED <<files, nrpt, direct, into, memory, history>> /\ Same

StartFailed ==
    /\ At("failed")
    /\ StopsRun
    /\ TearsDown("end")
    /\ UNCHANGED <<conf, state, tun, faults, history>> /\ Same

Save ==
    /\ At("save")
    /\ state' = [pid |-> job.pid, id |-> job.mode]
    /\ Goes("end")
    /\ UNCHANGED <<conf, splitFile, system, memory, faults, history>> /\ Same

----------------------------------------------------------------------------
(* attach, in an `up` and after a restart *)

\* When the adapter or a route is refused: `up` undoes everything, a restart goes on without.
Unattached == IF job.what = "up" THEN TearsDown("end") ELSE Goes("adopt")
Attached == Goes(IF job.what = "up" THEN "save" ELSE "adopt")

\* The adapter is found and the default halves are laid.  The network is looked at again, and a
\* change seen here is not passed on to the routes laid meanwhile.
Attach ==
    /\ At("attach")
    /\ \/ /\ ~Adapter /\ Unattached /\ UNCHANGED <<run, faults, excused>>
       \/ /\ Adapter
          /\ run' = [run EXCEPT !.best = gateway, !.tun = TRUE]
          /\ excused' = IF run.best # gateway /\ held # {} THEN excused \cup {"missed"} ELSE excused
          /\ \/ Goes("pins") /\ UNCHANGED faults
             \/ Fault /\ Unattached
    /\ UNCHANGED <<files, system, held, noted, placed, orphans>> /\ Same

\* A rule that cannot be laid is left out, with a note.
Pins ==
    /\ At("pins")
    /\ IF CanRoute(run.best)
       THEN Routes(Static, run.best) /\ held' = held \cup Static /\ noted' = noted \cup Static
       ELSE UNCHANGED <<direct, placed, into, held, noted>>
    /\ Goes("rule")
    /\ UNCHANGED <<files, tun, nrpt, run, faults, history>> /\ Same

\* addNRPT; without it the adapter's own DNS is the proxy all the same.  A key that was made and then
\* refused one of its values is no rule of this run's, and the run does not take it back.
Rule ==
    /\ At("rule")
    /\ \/ /\ nrpt' = TRUE /\ run' = [run EXCEPT !.nrpt = TRUE]
          /\ splitFile' = Flushed /\ excused' = excused \ {"rule"} /\ UNCHANGED faults
       \/ /\ Fault /\ UNCHANGED <<run, splitFile>>
          /\ nrpt' \in {nrpt, TRUE}
          /\ excused' = IF nrpt' THEN excused \cup {"rule"} ELSE excused
    /\ Attached
    /\ UNCHANGED <<conf, state, tun, direct, into, held, noted, placed, orphans>> /\ Same

----------------------------------------------------------------------------
(* reconcile *)

\* reconcileTunnel: a running tunnel is kept for the application that asked for it, if that is
\* still there.
IsKept == Adapter /\ state.pid = app.n /\ app.alive

ReconcileTunnel ==
    /\ At("tunnel")
    /\ \/ /\ IsKept /\ follows' = state.pid /\ Goes("restart") /\ UNCHANGED faults
          /\ excused' = IF tun.doomed THEN excused \cup {"kept"} ELSE excused
       \/ /\ ~IsKept /\ UNCHANGED <<follows, faults, excused>>
          /\ IF tun.st = "none" THEN Goes("leftovers") ELSE TearsDown("leftovers")
       \/ /\ Fault /\ excused' = excused \cup {"unanswered"}    \* the SCM does not answer
          /\ Goes("leftovers") /\ UNCHANGED follows
    /\ UNCHANGED <<files, system, memory, orphans, helper, world>>

\* cleanupSplitLeftovers: routes are looked for by destination, wherever they lead.
Leftovers ==
    /\ At("leftovers")
    /\ nrpt' = FALSE /\ excused' = excused \ {"rule"}
    /\ direct' = [d \in Dests |-> IF d \in splitFile.routes THEN {} ELSE direct[d]]
    /\ into' = into \ splitFile.routes
    /\ splitFile' = NoSplitFile
    /\ Goes("end")
    /\ UNCHANGED <<conf, state, tun, memory, faults, orphans>> /\ Same

\* reconcileSplit: of the direct routes of the run before, none is in the new run's `placed`.
Restart ==
    /\ At("restart")
    /\ IF splitFile.mode = "none" THEN Goes("leftovers") /\ UNCHANGED <<nrpt, splitFile, history>>
       ELSE /\ nrpt' = FALSE /\ splitFile' = NoSplitFile /\ excused' = excused \ {"rule"}
            /\ orphans' = orphans \cup {p \in Dests \X Gateways : p[2] \in direct[p[1]]}
            /\ job' = [job EXCEPT !.at = "proxy", !.saved = splitFile.routes, !.mode = splitFile.mode]
    /\ UNCHANGED <<conf, state, tun, direct, into, memory, faults>> /\ Same

RestartsProxy ==
    /\ At("proxy")
    /\ \/ StartsProxy(job.mode) /\ Goes("attach") /\ UNCHANGED <<faults, excused>>
       \/ /\ Fault /\ excused' = excused \cup {"unanswered"}
          /\ Goes("end") /\ UNCHANGED <<run, splitFile>>
    /\ UNCHANGED <<conf, state, system, held, noted, placed, orphans>> /\ Same

\* The addresses that were saved are tracked again; networks come again as rules.
Adopt ==
    /\ At("adopt")
    /\ held' = held \cup (job.saved \ Static) /\ noted' = noted \cup (job.saved \ Static)
    /\ excused' = IF job.saved \subseteq Static THEN excused ELSE excused \cup {"adopted"}
    /\ Goes("end")
    /\ UNCHANGED <<files, system, run, placed, faults, orphans>> /\ Same

----------------------------------------------------------------------------

Teardowns == Halt \/ Delete \/ Unsplit \/ Clear
Ups == Check \/ Split \/ WritesConf \/ Start \/ StartFailed \/ Attach \/ Pins \/ Rule \/ Save
Reconciles == ReconcileTunnel \/ Leftovers \/ Restart \/ RestartsProxy \/ Adopt
Works == Teardowns \/ Ups \/ Reconciles \/ Ends
Next ==
    \/ Works \/ AppEnds \/ AppStarts \/ NetworkChanges \/ TunnelDies \/ DoomedEnds
    \/ AppStartsHelper \/ ScmRestarts \/ Crash \/ Stop \/ LifeEnds \/ Up \/ DownOrCleanup
    \/ Watch \/ Flush \/ (\E d \in Dests : NameAsked(d) \/ NameExpires(d))

\* A request goes on; a service that crashed is started again; a service asked to stop ends one
\* day; Lifetime sees the application go, or that none came.
Spec ==
    /\ Init /\ [][Next]_vars
    /\ WF_vars(Works) /\ WF_vars(ScmRestarts) /\ WF_vars(DoomedEnds) /\ WF_vars(LifeEnds)

----------------------------------------------------------------------------
(* What must hold *)

Settled == job.what = "none" /\ helper \in {"off", "ready"}

\* Once a request has been answered, or the service has started or stopped, and no tunnel is
\* registered, nothing of one is left: no .conf with its key, no rule of the DNS Client, no
\* split.json, and no direct route, on whatever gateway it was put, but those a crash or
\* a restart took from the records.  A .conf stays that a crash left unused or the disk half-written:
\* status reports it as stale until the next teardown.  A half-written rule stays until a rule is
\* written whole or the service starts again.  Nothing is said of the proxy that a restart began
\* beside a tunnel that was already marked for deletion: it outlives that tunnel.
NothingLeft ==
    Settled /\ tun.st = "none" /\ ~(HasSplit /\ "kept" \in excused) =>
        /\ conf = "none" \/ "conf" \in excused
        /\ ~nrpt \/ "rule" \in excused
        /\ splitFile = NoSplitFile
        /\ \A d \in Dests : \A g \in direct[d] : <<d, g>> \in orphans

\* Names are sent to the proxy only while there is one: a settled service has no whole rule of the
\* DNS Client without the proxy, and a tunnel with the proxy for its DNS has it, unless the tunnel is
\* marked for deletion, the SCM did not answer for it, port 53 was taken when the service started
\* again, or the crash came where no record tells that a proxy is needed (Unrecorded).  A restart after
\* any other crash starts the proxy again (split_windows.go:548).
NamesAreAnswered ==
    Settled =>
        /\ nrpt => HasSplit \/ "rule" \in excused
        /\ Adapter /\ ~tun.doomed /\ tun.mode # "full" => HasSplit \/ "unanswered" \in excused

\* What this run of the service routed direct goes by the gateway of now and by no other, however
\* the network changed; not what was laid just before `attach` saw a change.  A restart adopts
\* addresses that it did not lay itself, and no networks.
FollowsNetwork ==
    Settled /\ run.mode = "proxy" /\ run.best = gateway /\ gateway # NoGateway /\ "missed" \notin excused =>
        \A d \in held :
            IF placed[d] = NoGateway THEN d \notin Static /\ "adopted" \in excused
            ELSE /\ gateway \in direct[d]
                 /\ \A g \in direct[d] \ {gateway} : <<d, g>> \in orphans

\* «A tunnel nobody manages is worse than none»: when the application is gone, however it and the
\* services end, the tunnel does not stay, unless the SCM did not answer for it.
EndsWithTheApp == (~app.alive) ~> (~Adapter \/ app.alive \/ "unanswered" \in excused)
=============================================================================
