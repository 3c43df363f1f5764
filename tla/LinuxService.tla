---------------------------- MODULE LinuxService ----------------------------
(***************************************************************************)
(* The privileged service on Linux (src/helper, linux build): one process, *)
(* started on demand, that runs the tunnel daemon and changes the system's *)
(* routing and DNS around it, and the state file by which a service that   *)
(* is killed is cleaned up after by the next one.                          *)
(*                                                                         *)
(* Requests come on goroutines of their own and take turns by c.mu: `op`   *)
(* is what holds the lock and how far it is; whatever is between two of    *)
(* its steps can be cut short by a SIGKILL.  When the service stops by     *)
(* itself is modelled by the promise of ServesTheApp (see Lifetime).       *)
(***************************************************************************)
EXTENDS Naturals, FiniteSets

CONSTANTS
    Services,       \* service processes that may exist at once
    None,
    MaxDaemons      \* bound: daemons ever started


VARIABLES
    app,            \* the application runs
    phase,          \* per service: "off", "boot" (before it listens), "serving",
                    \* "closing" (asked to stop), "leaving" (the tunnel taken down)
    follows,        \* per service: the app it serves: "nobody", "running" or "gone"
    waiting,        \* per service: requests read, and waiting for c.mu
    op,             \* per service: the holder of c.mu
    mem,            \* per service: the controller's fields, the tunnel it runs
    pidFile, socket,    \* service.pid; the service the socket's path leads to
    saved,          \* state.json
    daemons, born,  \* amneziawg-go processes running; how many were ever started
    parts,          \* what traffic is routed by: "rules" (fwmark), "split" and "apps"
    hole,           \* the table of the rules holds black holes
    link, conf, bak,    \* the link resolved asks the tunnel's DNS by, /etc/resolv.conf,
                        \* and the copy of it
    removal,        \* `awg-helper remove`: the service it is stopping, and then
    forgotten       \* history: what was applied is in no record: an operation was cut
                    \* short, or the records deleted

serviceVars == <<phase, follows, waiting, op, mem>>
fileVars == <<pidFile, socket, saved>>
netVars == <<daemons, born, parts, hole, link, conf, bak>>
vars == <<app, serviceVars, fileVars, netVars, removal, forgotten>>

----------------------------------------------------------------------------

Parts == {"rules", "split", "apps"}
\* What a service knows of the tunnel, in memory or in state.json.
Tunnel == [pid : 0 .. MaxDaemons, parts : SUBSET Parts, hole : BOOLEAN,
           dns : {"none", "link", "lo", "file"}]
NoTunnel == [pid |-> 0, parts |-> {}, hole |-> FALSE, dns |-> "none"]

Steps == {"kill", "undo", "clear", "start", "conf", "rules", "split", "dns", "save"}
Op == [what : {"none", "up", "down", "reconcile", "final", "exited"},
       at : Steps, rec : Tunnel]
NoOp == [what |-> "none", at |-> "kill", rec |-> NoTunnel]

TypeOK ==
    /\ app \in BOOLEAN
    /\ phase \in [Services -> {"off", "boot", "serving", "closing", "leaving"}]
    /\ follows \in [Services -> {"nobody", "running", "gone"}]
    /\ waiting \in [Services -> SUBSET {"up", "down"}]
    /\ op \in [Services -> Op]
    /\ mem \in [Services -> Tunnel]
    /\ pidFile \in Services \cup {None} /\ socket \in Services \cup {None}
    /\ saved \in Tunnel
    /\ born \in 0 .. MaxDaemons /\ daemons \subseteq 1 .. born
    /\ parts \subseteq Parts /\ hole \in BOOLEAN
    /\ link \in {"none", "senawg0", "lo"}
    /\ conf \in {"system", "tunnel"} /\ bak \in {"none", "system", "tunnel"}
    /\ removal \in Services \cup {"none", "stopped", "done"}
    /\ forgotten \in BOOLEAN

Init ==
    /\ app = TRUE
    /\ phase = [s \in Services |-> "off"]
    /\ follows = [s \in Services |-> "nobody"]
    /\ waiting = [s \in Services |-> {}]
    /\ op = [s \in Services |-> NoOp]
    /\ mem = [s \in Services |-> NoTunnel]
    /\ pidFile = None /\ socket = None
    /\ saved = NoTunnel
    /\ daemons = {} /\ born = 0
    /\ parts = {} /\ hole = FALSE
    /\ link = "none" /\ conf = "system" /\ bak = "none"
    /\ removal = "none"
    /\ forgotten = FALSE

----------------------------------------------------------------------------
(* The life of a service process *)

\* Slips that the properties below notice.
SlipOnlyIdle(s) == follows[s] = "nobody"            \* an app that is gone not noticed
SlipOnlyRules(rec) == parts' = parts \ {"rules"} /\ hole' = (hole /\ ~rec.hole)
SlipSavedEarly(rec) == saved' = [rec EXCEPT !.dns = "none"]    \* before setDNS

Free(s) == op[s].what = "none"
Takes(s, what, at, rec) == op' = [op EXCEPT ![s] = [what |-> what, at |-> at, rec |-> rec]]
Moves(s, at) == op' = [op EXCEPT ![s].at = at]
Unlocks(s) == op' = [op EXCEPT ![s] = NoOp]
\* A killed `up` or `daemonExited` leaves what it did in no record.
CutsShort(s) ==
    \/ op[s].what = "up" /\ op[s].at \in {"conf", "rules", "split", "dns", "save"}
    \/ op[s].what = "exited" /\ op[s].at = "save"

\* The process is gone: with its memory, its goroutines and its lock, not its files.
Gone(s) ==
    /\ phase' = [phase EXCEPT ![s] = "off"]
    /\ follows' = [follows EXCEPT ![s] = "nobody"]
    /\ waiting' = [waiting EXCEPT ![s] = {}]
    /\ mem' = [mem EXCEPT ![s] = NoTunnel]
    /\ Unlocks(s)
    /\ forgotten' = (forgotten \/ CutsShort(s))

WritesPidFile(s) == pidFile' = s
\* The app finds no socket that answers and starts one: the PID file, then reconcile.
Launch(s) ==
    /\ app /\ removal = "none"
    /\ phase[s] = "off"
    /\ socket # None => phase[socket] # "serving"
    /\ phase' = [phase EXCEPT ![s] = "boot"]
    /\ WritesPidFile(s)
    /\ IF saved.pid # 0 THEN Takes(s, "reconcile", "kill", saved) ELSE UNCHANGED op
    /\ UNCHANGED <<app, follows, waiting, mem, socket, saved, netVars, removal, forgotten>>

Listens(s) ==
    /\ phase[s] = "boot" /\ Free(s)
    /\ phase' = [phase EXCEPT ![s] = "serving"]
    /\ socket' = s
    /\ UNCHANGED <<app, follows, waiting, op, mem, pidFile, saved, netVars, removal, forgotten>>

\* life.Done() or a signal: the listener and the socket's path go, whoever's it is.
Closes(s) ==
    /\ phase' = [phase EXCEPT ![s] = "closing"]
    /\ socket' = None
    /\ UNCHANGED <<app, follows, waiting, op, mem, pidFile, saved, netVars, forgotten>>

\* What Lifetime waits for: the app is gone, or nobody came.
Abandoned(s) == follows[s] # "running"
Stops(s) ==
    /\ phase[s] = "serving" /\ Abandoned(s)
    /\ Closes(s)
    /\ UNCHANGED removal

LastTeardown(s) ==
    /\ phase[s] = "closing" /\ Free(s)
    /\ Takes(s, "final", "kill", mem[s])
    /\ UNCHANGED <<app, phase, follows, waiting, mem, fileVars, netVars, removal, forgotten>>

\* main returns, and takes the PID file and every goroutine with it.
Leaves(s) ==
    /\ phase[s] = "leaving"
    /\ Gone(s)
    /\ pidFile' = None
    /\ UNCHANGED <<app, socket, saved, netVars, removal>>

Killed(s) ==
    /\ phase[s] # "off"
    /\ Gone(s)
    /\ UNCHANGED <<app, fileVars, netVars, removal>>

Request(s, r) ==
    /\ app
    /\ socket = s /\ phase[s] = "serving"
    /\ follows' = [follows EXCEPT ![s] = "running"]
    /\ waiting' = [waiting EXCEPT ![s] = @ \cup r]
    /\ UNCHANGED <<app, phase, op, mem, fileVars, netVars, removal, forgotten>>

AppExits ==
    /\ app
    /\ app' = FALSE
    /\ follows' = [s \in Services |-> IF follows[s] = "running" THEN "gone" ELSE follows[s]]
    /\ UNCHANGED <<phase, waiting, op, mem, fileVars, netVars, removal, forgotten>>

AppStarts ==
    /\ ~app
    /\ app' = TRUE
    /\ UNCHANGED <<serviceVars, fileVars, netVars, removal, forgotten>>

----------------------------------------------------------------------------
(* Taking a tunnel down: teardownLocked and reconcile *)

LinkWithout(running) == IF running = {} /\ link = "senawg0" THEN "none" ELSE link
\* The interface, and the DNS of its link, go with the last daemon.
Terminates(pid) ==
    /\ daemons' = daemons \ {pid}
    /\ link' = LinkWithout(daemons \ {pid})
RemovesRoutes(rec) == parts' = parts \ rec.parts /\ hole' = (hole /\ ~rec.hole)
RestoresDNS(rec) ==
    /\ link' = CASE rec.dns = "lo" /\ link = "lo" -> "none"
                 [] rec.dns = "link" /\ link = "senawg0" -> "none"
                 [] OTHER -> link
    /\ IF rec.dns = "file" /\ bak # "none"
       THEN conf' = bak /\ bak' = "none"
       ELSE UNCHANGED <<conf, bak>>
Forgets(s) == mem' = [mem EXCEPT ![s] = NoTunnel] /\ saved' = NoTunnel

Down(s) ==
    /\ "down" \in waiting[s] /\ Free(s)
    /\ waiting' = [waiting EXCEPT ![s] = @ \ {"down"}]
    /\ Takes(s, "down", "kill", mem[s])
    /\ UNCHANGED <<app, phase, follows, mem, fileVars, netVars, removal, forgotten>>

KillsDaemon(s) ==
    /\ ~Free(s) /\ op[s].at = "kill"
    /\ Terminates(op[s].rec.pid)
    /\ Moves(s, "undo")
    /\ UNCHANGED <<app, phase, follows, waiting, mem, fileVars, born, parts, hole, conf, bak>>
    /\ UNCHANGED <<removal, forgotten>>

UndoesNetwork(s) ==
    /\ op[s].at = "undo"
    /\ RemovesRoutes(op[s].rec)
    /\ RestoresDNS(op[s].rec)
    /\ Moves(s, "clear")
    /\ UNCHANGED <<app, phase, follows, waiting, mem, fileVars, daemons, born>>
    /\ UNCHANGED <<removal, forgotten>>

\* The last step, by which a killed service is still cleaned up after.
ClearsState(s) ==
    /\ op[s].at = "clear"
    /\ Forgets(s)
    /\ IF op[s].what = "up" THEN Takes(s, "up", "start", NoTunnel) ELSE Unlocks(s)
    /\ phase' = IF op[s].what = "final" THEN [phase EXCEPT ![s] = "leaving"] ELSE phase
    /\ UNCHANGED <<app, follows, waiting, pidFile, socket, netVars, removal, forgotten>>

----------------------------------------------------------------------------
(* Bringing one up *)

\* Whether it is refused (BUSY) is up to `replace` when a daemon runs.
UpBegins(s) ==
    /\ "up" \in waiting[s] /\ Free(s)
    /\ waiting' = [waiting EXCEPT ![s] = @ \ {"up"}]
    /\ \/ mem[s].pid # 0 /\ Takes(s, "up", "kill", mem[s])
       \/ mem[s].pid = 0 /\ Takes(s, "up", "start", NoTunnel)
       \/ mem[s].pid \in daemons /\ UNCHANGED op
    /\ UNCHANGED <<app, phase, follows, mem, fileVars, netVars, removal, forgotten>>

\* amneziawg-go, unless it cannot start.  The interface belongs to one daemon: a second one
\* exits at once.
StartsDaemon(s) ==
    /\ op[s].at = "start"
    /\ born < MaxDaemons
    /\ born' = born + 1
    /\ daemons' = IF daemons = {} THEN {born + 1} ELSE daemons
    /\ Takes(s, "up", "conf", [NoTunnel EXCEPT !.pid = born + 1])
    /\ UNCHANGED <<app, phase, follows, waiting, mem, fileVars, parts, hole, link, conf, bak>>
    /\ UNCHANGED <<removal, forgotten>>

\* Its socket answers (or that of a daemon that was there before) and the link is set up.
Configures(s) ==
    /\ op[s].at = "conf" /\ daemons # {}
    /\ Moves(s, "rules")
    /\ UNCHANGED <<app, phase, follows, waiting, mem, fileVars, netVars, removal, forgotten>>

\* A full tunnel's rules; a rule that is there already is an error.
AppliesRules(s) ==
    /\ op[s].at = "rules"
    /\ \/ /\ daemons # {} /\ "rules" \notin parts
          /\ parts' = parts \cup {"rules"} /\ hole' = FALSE
          /\ Takes(s, "up", "split", [op[s].rec EXCEPT !.parts = {"rules"}])
       \/ /\ Moves(s, "split")
          /\ UNCHANGED <<parts, hole>>
    /\ UNCHANGED <<app, phase, follows, waiting, mem, fileVars, daemons, born, link, conf, bak>>
    /\ UNCHANGED <<removal, forgotten>>

\* Asked for rules: the split, and those by program where there are any.
StartsSplit(s) ==
    /\ op[s].at = "split"
    /\ \/ \E on \in {{"split"}, {"split", "apps"}} :
             /\ parts' = parts \cup on
             /\ Takes(s, "up", "dns", [op[s].rec EXCEPT !.parts = @ \cup on])
       \/ /\ Moves(s, "dns")
          /\ UNCHANGED parts
    /\ UNCHANGED <<app, phase, follows, waiting, mem, fileVars>>
    /\ UNCHANGED <<daemons, born, hole, link, conf, bak, removal, forgotten>>

\* Any failure up to here: what was applied goes, and the daemon with it.
UpFails(s) ==
    LET rec == op[s].rec
        done == IF op[s].at = "rules" THEN {"rules"} ELSE rec.parts IN
    /\ op[s].what = "up"
    /\ op[s].at \in {"start", "conf", "rules", "split"}
    /\ RemovesRoutes([rec EXCEPT !.parts = done])
    /\ Terminates(rec.pid)
    /\ Unlocks(s)
    /\ UNCHANGED <<app, phase, follows, waiting, mem, fileVars, born, conf, bak>>
    /\ UNCHANGED <<removal, forgotten>>

\* setDNS: resolved by the tunnel's link (or by lo, where the proxy listens), else the file;
\* or none at all.
SetsDNS(s) ==
    LET rec == op[s].rec IN
    /\ op[s].at = "dns"
    /\ \/ /\ daemons # {} /\ "split" \notin rec.parts
          /\ link' = "senawg0"
          /\ Takes(s, "up", "save", [rec EXCEPT !.dns = "link"])
          /\ UNCHANGED <<conf, bak>>
       \/ /\ "split" \in rec.parts
          /\ link' = "lo"
          /\ Takes(s, "up", "save", [rec EXCEPT !.dns = "lo"])
          /\ UNCHANGED <<conf, bak>>
       \/ /\ conf' = "tunnel" /\ bak' = conf
          /\ Takes(s, "up", "save", [rec EXCEPT !.dns = "file"])
          /\ UNCHANGED link
       \/ /\ Moves(s, "save")
          /\ UNCHANGED <<link, conf, bak>>
    /\ UNCHANGED <<app, phase, follows, waiting, mem, fileVars, daemons, born, parts, hole>>
    /\ UNCHANGED <<removal, forgotten>>

Saves(rec) == saved' = rec
Remembers(s) ==
    /\ op[s].at = "save"
    /\ mem' = [mem EXCEPT ![s] = op[s].rec]
    /\ Saves(op[s].rec)
    /\ Unlocks(s)
    /\ UNCHANGED <<app, phase, follows, waiting, pidFile, socket, netVars, removal, forgotten>>

----------------------------------------------------------------------------
(* The daemon goes by itself *)

DaemonDies(pid) ==
    /\ Terminates(pid)
    /\ UNCHANGED <<app, serviceVars, fileVars, born, parts, hole, conf, bak>>
    /\ UNCHANGED <<removal, forgotten>>

\* What goes into the table of the rules is held in black holes, resolved's DNS on lo.
ByTable(rec) == rec.parts \cap {"rules", "apps"} # {}
Held(rec) == [rec EXCEPT !.hole = rec.hole \/ ByTable(rec),
                         !.dns = IF @ = "link" THEN "lo" ELSE @]
\* Its goroutine wakes: nothing to do for a daemon taken down, or one seen to already.
SeesExit(s) ==
    /\ phase[s] # "off" /\ Free(s)
    /\ mem[s].pid # 0 /\ mem[s].pid \notin daemons
    /\ Held(mem[s]) # mem[s]

DaemonExited(s) ==
    /\ SeesExit(s)
    /\ hole' = (hole \/ ByTable(mem[s]))
    /\ link' = IF mem[s].dns = "link" THEN "lo" ELSE link
    /\ mem' = [mem EXCEPT ![s] = Held(@)]
    /\ Takes(s, "exited", "save", Held(mem[s]))
    /\ UNCHANGED <<app, phase, follows, waiting, fileVars, daemons, born, parts, conf, bak>>
    /\ UNCHANGED <<removal, forgotten>>

----------------------------------------------------------------------------
(* `awg-helper remove`: SIGTERM to the service, SIGKILL 3 s later, then the records *)

\* Before the service listens for signals a SIGTERM is the end of it.
RemoveStops(s) ==
    /\ removal = "none" /\ pidFile = s
    /\ removal' = s
    /\ CASE phase[s] = "boot" -> Gone(s) /\ UNCHANGED <<app, fileVars, netVars>>
         [] phase[s] = "serving" -> Closes(s)
         [] OTHER -> UNCHANGED <<app, serviceVars, fileVars, netVars, forgotten>>

RemoveKills(s) ==
    /\ removal = s /\ phase[s] # "off"
    /\ removal' = "stopped"
    /\ Gone(s)
    /\ UNCHANGED <<app, fileVars, netVars>>

\* It has gone in time; or there is no PID file, and nothing to stop.
RemoveWaited ==
    /\ \/ removal = "none" /\ pidFile = None
       \/ \E s \in Services : removal = s /\ phase[s] = "off"
    /\ removal' = "stopped"
    /\ UNCHANGED <<app, serviceVars, fileVars, netVars, forgotten>>

Clean == daemons = {} /\ parts = {} /\ ~hole /\ link = "none" /\ conf = "system"

RemoveRecords ==
    /\ removal = "stopped"
    /\ removal' = "done"
    /\ saved' = NoTunnel /\ bak' = "none"
    /\ forgotten' = (forgotten \/ ~Clean)
    /\ UNCHANGED <<app, serviceVars, pidFile, socket>>
    /\ UNCHANGED <<daemons, born, parts, hole, link, conf>>

----------------------------------------------------------------------------

ServiceSteps(s) ==
    \/ Listens(s) \/ Stops(s) \/ LastTeardown(s) \/ Leaves(s)
    \/ Down(s) \/ KillsDaemon(s) \/ UndoesNetwork(s) \/ ClearsState(s)
    \/ UpBegins(s) \/ StartsDaemon(s) \/ Configures(s) \/ AppliesRules(s)
    \/ StartsSplit(s) \/ UpFails(s) \/ SetsDNS(s) \/ Remembers(s)
    \/ DaemonExited(s)

Next ==
    \/ \E s \in Services :
          \/ ServiceSteps(s)
          \/ Launch(s) \/ Killed(s)
          \/ \E r \in {{}, {"up"}, {"down"}} : Request(s, r)
          \/ RemoveStops(s) \/ RemoveKills(s)
    \/ \E pid \in daemons : DaemonDies(pid)
    \/ AppExits \/ AppStarts
    \/ RemoveWaited \/ RemoveRecords

Spec == Init /\ [][Next]_vars

\* Goroutines run, every call they make ends (each has a timeout), and Lifetime keeps its
\* promise.  Nothing makes the app start anything, or the service be killed.
Fairness == \A s \in Services : WF_vars(ServiceSteps(s)) /\ WF_vars(DaemonExited(s))

FairSpec == Spec /\ Fairness

----------------------------------------------------------------------------

Carries(rec) ==
    /\ daemons \subseteq {rec.pid}
    /\ parts \subseteq rec.parts
    /\ hole => rec.hole
    /\ link # "none" => rec.dns = (IF link = "lo" THEN "lo" ELSE "link")
    /\ conf = "tunnel" => rec.dns = "file" /\ bak = "system"

\* A service killed at any moment but in the middle of an `up` (or of the reaction to the
\* daemon's death) left a record of all it had done: state.json is written last by `up` and
\* removed last by the teardown, so the next service undoes everything.
CrashSafe ==
    ~forgotten /\ (\A s \in Services : ~CutsShort(s)) => Carries(saved)

\* Between operations the service knows exactly what the system carries: after a failed
\* `up`, a switch, a teardown that a crash interrupted, nothing is left that it would not
\* take down, and nothing it relies on is gone.
MemoryMatchesSystem ==
    \A s \in Services :
        phase[s] = "serving" /\ Free(s) /\ ~forgotten =>
            /\ Carries(mem[s])
            /\ parts = mem[s].parts
            /\ mem[s].dns = "file" <=> conf = "tunnel"

\* stopRunningService finds the service of the PID file: setup and remove rely on it to have
\* the tunnel taken down before the files go.
PidFileNamesService == \A s \in Services : phase[s] = "serving" => pidFile = s

\* Traffic of a daemon that died by itself does not leave past the tunnel for good: it is
\* held, unless the tunnel was taken down or the service killed.
HeldAfterDeath ==
    \A s \in Services :
        (mem[s].pid # 0 /\ mem[s].pid \notin daemons /\ "rules" \in mem[s].parts)
            ~> (hole \/ mem[s].pid = 0 \/ forgotten)

\* README, «VPN живёт ровно столько, сколько приложение»: once it is gone everything is
\* taken down, or (the service was killed) what is left is on record for the next start.
NothingOutlivesApp ==
    ~app ~> \/ app \/ forgotten
            \/ Clean
            \/ (\A s \in Services : phase[s] = "off") /\ Carries(saved)

----------------------------------------------------------------------------
(* What comments say and the code does not do *)

\* tunnel_linux.go:401-403: the daemon "cannot survive this process being killed outright
\* (SIGKILL)".
DiesWithService == daemons # {} => \E s \in Services : phase[s] # "off"

\* setup_linux.go:283: the service stopped before a removal is let "tear the tunnel and its
\* routing/DNS changes down".
RemovedIsClean == removal = "done" => Clean
=============================================================================
