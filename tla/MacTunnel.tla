------------------------------ MODULE MacTunnel ------------------------------
(***************************************************************************)
(* The tunnel on macOS: awg.sh (resources/scripts), which sets it up and   *)
(* takes it down, the monitor it leaves running as root, and the service   *)
(* (helper/tunnel_darwin.go, split_darwin.go) that runs the script for the *)
(* application and keeps the DNS proxy of «Маршрутизация» beside it.       *)
(*                                                                         *)
(* Nothing but files ties the three together: the script and the monitor   *)
(* work on copies of state.env in their variables, the service reads it,   *)
(* and split.json lets a service pick up what a killed one left.  The      *)
(* service runs one script at a time (c.mu); the monitor, the application, *)
(* the daemon and the network go on meanwhile.                             *)
(***************************************************************************)
EXTENDS Naturals, FiniteSets

CONSTANTS
    Networks,       \* network services (Wi-Fi, a cable), each with a DNS setting
    Gateways,       \* routers the physical default route may lead to
    NoGateway,
    MaxTunnels,     \* bound: daemons ever started
    MaxApps,        \* bound: runs of the application
    MaxChanges,     \* bound: changes of the network
    MaxFaults       \* bound: faults of every kind, together

VARIABLES
    app,            \* the run of the application, and whether it is there
    service,        \* "off", "boot" (reconcileSplit not yet run) or "serving"
    follows,        \* the run of the application it serves (Lifetime)
    job,            \* the request that holds c.mu: its script's step and variables
    file,           \* state.env
    monitor,        \* the monitor's step and variables
    daemons, born,  \* amneziawg-go processes; how many were ever started
    dns,            \* the DNS setting of each network service
    pin, holes,     \* the host route to the server; black holes in place of 0/1 and 128/1
    proxy,          \* the splitRun: "none", "begun", "attached", "dead" (router.dead), or "lost",
                    \* when it runs and the service has forgotten it
    names,          \* routes of listed names: held by the proxy's set; the kernel's
    splitFile,      \* split.json
    present, gateway,   \* network services that are there; the physical default route
    changes, faults,
    excused         \* history: the faults met, by what they did

fileVars == <<file, splitFile>>
systemVars == <<daemons, born, dns, pin, holes>>
splitVars == <<proxy, names, splitFile>>
envVars == <<present, gateway, changes, faults>>
vars == <<app, service, follows, job, monitor, file, systemVars, splitVars, envVars, excused>>

----------------------------------------------------------------------------

\* What of the traffic goes into the tunnel: all of it, without rules; all but what the rules
\* name («proxy» by default); only what they name («direct» by default, --split include).
Modes == {"all", "proxy", "direct"}

\* state.env, and the same variables in a script.  `pid` stands for PID and ID, `list` for
\* DNS_LIST: the setting each network service had; `mode` is history, for FULL4 and FULL6.
State == [pid : 0 .. MaxTunnels, mode : Modes, iface : BOOLEAN, pinned : BOOLEAN,
          list : [Networks -> {"-", "own", "vpn"}], black : BOOLEAN,
          monitor : BOOLEAN, app : 0 .. MaxApps]
NoState == [pid |-> 0, mode |-> "all", iface |-> FALSE, pinned |-> FALSE,
            list |-> [x \in Networks |-> "-"], black |-> FALSE, monitor |-> FALSE, app |-> 0]
There(f) == f.pid # 0

Teardown == {"untie", "unroute", "stop", "forget"}
JobSteps == Teardown \cup {"begin", "down", "split", "clean", "reap", "start", "iface", "pin",
                           "routes", "dns", "set", "fork", "final", "attach", "end"}
Job == [what : {"none", "up", "down"}, at : JobSteps, then : {"split", "reap", "end"},
        replace : BOOLEAN, mode : Modes, app : 0 .. MaxApps, tun : State, net : Networks]
NoJob == [what |-> "none", at |-> "end", then |-> "end", replace |-> FALSE, mode |-> "all",
          app |-> 0, tun |-> NoState, net |-> CHOOSE x \in Networks : TRUE]
Monitor == [at : Teardown \cup {"none", "watch", "held", "dns", "set"},
            tun : State, news : BOOLEAN, net : Networks]
NoMonitor == [at |-> "none", tun |-> NoState, news |-> FALSE,
              net |-> CHOOSE x \in Networks : TRUE]
NoNames == [tracked |-> FALSE, kernel |-> "none"]
NoSplitFile == [mode |-> "none", routes |-> FALSE]
Excuses == {"timeout", "refused", "window", "missed", "restart", "flush", "body"}

TypeOK ==
    /\ app \in [n : 1 .. MaxApps, alive : BOOLEAN]
    /\ service \in {"off", "boot", "serving"} /\ follows \in 0 .. MaxApps
    /\ job \in Job /\ monitor \in Monitor /\ file \in State
    /\ born \in 0 .. MaxTunnels /\ daemons \subseteq 1 .. born
    /\ dns \in [Networks -> {"own", "vpn"}]
    /\ pin \in Gateways \cup {"none", "hole"} /\ holes \in BOOLEAN
    /\ proxy \in {"none", "begun", "attached", "dead", "lost"}
    /\ names \in [tracked : BOOLEAN, kernel : {"none", "laid", "hole"}]
    /\ splitFile \in [mode : {"none", "proxy", "direct"}, routes : BOOLEAN]
    /\ present \subseteq Networks /\ gateway \in Gateways \cup {NoGateway}
    /\ changes \in 0 .. MaxChanges /\ faults \in 0 .. MaxFaults
    /\ excused \subseteq Excuses

Init ==
    /\ app = [n |-> 1, alive |-> TRUE]
    /\ service = "off" /\ follows = 0
    /\ job = NoJob /\ monitor = NoMonitor /\ file = NoState
    /\ daemons = {} /\ born = 0
    /\ dns = [x \in Networks |-> "own"] /\ pin = "none" /\ holes = FALSE
    /\ proxy = "none" /\ names = NoNames /\ splitFile = NoSplitFile
    /\ present \in SUBSET Networks /\ gateway = CHOOSE g \in Gateways : TRUE
    \* The budget of one instance: a step that fails, or a network that appears later.
    /\ changes = 0 /\ faults = IF present = {} THEN MaxFaults ELSE 0
    /\ excused = {}

\* A fault is spent, and what it did is remembered.
Fault(what) == faults < MaxFaults /\ faults' = faults + 1 /\ excused' = excused \cup what
NoFault == UNCHANGED <<faults, excused>>

----------------------------------------------------------------------------
(* What the script and the monitor do alike *)

\* Slips that the properties below notice.
SlipSavedLate(tun) == file' = [tun EXCEPT !.list = file.list] \* DNS_LIST after the change
SlipUnforced == pin' = (IF pin = "none" THEN "hole" ELSE pin) /\ UNCHANGED <<faults, excused>>

\* The DNS of every recorded network service is put back, or networksetup refuses one of them.
DnsBack(tun) == [x \in Networks |-> IF tun.list[x] = "-" THEN dns[x] ELSE tun.list[x]]
PutsBack(tun, lost) ==
    \/ dns' = DnsBack(tun) /\ excused' = excused \cup lost /\ UNCHANGED faults
    \/ \E x \in Networks : /\ tun.list[x] # "-"
                           /\ dns' = [DnsBack(tun) EXCEPT ![x] = dns[x]]
                           /\ Fault({"refused"} \cup lost)

Unroutes(tun) ==
    /\ holes' = (holes /\ ~tun.black)
    /\ pin' = IF tun.pinned THEN "none" ELSE pin

\* A daemon is gone, with its utun and what was routed into that.
Ends(t) ==
    /\ daemons' = daemons \ {t}
    /\ names' = IF t \in daemons /\ splitFile.mode = "direct" /\ names.kernel = "laid"
                THEN [names EXCEPT !.kernel = "none"] ELSE names

\* pin_endpoint: to the router, or to nowhere without one; the route before it is deleted first.
Want == IF gateway = NoGateway THEN "hole" ELSE gateway
Pins == pin' = Want /\ NoFault
FailsToPin == pin' = "none" /\ Fault({"refused"})

\* apply_dns: a service that is not in the list is recorded, and only then changed.
Unlisted(tun) == {x \in present : tun.list[x] = "-"}
Listed(tun, x) == [tun EXCEPT !.list[x] = dns[x]]
SetsDns(x) ==
    \/ dns' = [dns EXCEPT ![x] = "vpn"] /\ NoFault
    \/ dns' = dns /\ Fault({"refused"})

\* kill -9.  A monitor cut between its black holes and their record leaves them in none.
Cut == IF monitor.at = "held" THEN {"window"} ELSE {}
KillsMonitor ==
    /\ monitor' = NoMonitor
    /\ excused' = excused \cup Cut
    /\ UNCHANGED faults

\* The daemon answers on its socket.
Answers(f) == f.iface /\ f.pid \in daemons

----------------------------------------------------------------------------
(* The application and the service *)

AppDies ==
    /\ app.alive
    /\ app' = [app EXCEPT !.alive = FALSE]
    /\ UNCHANGED <<service, follows, job, monitor, file, systemVars, splitVars, envVars, excused>>

AppStarts ==
    /\ ~app.alive /\ app.n < MaxApps
    /\ app' = [n |-> app.n + 1, alive |-> TRUE]
    /\ UNCHANGED <<service, follows, job, monitor, file, systemVars, splitVars, envVars, excused>>

\* launchd starts it for a connection.
ServiceStarts ==
    /\ app.alive /\ service = "off"
    /\ service' = "boot"
    /\ follows' = app.n
    /\ UNCHANGED <<app, job, monitor, file, systemVars, splitVars, envVars, excused>>

\* stopSplitLocked, or split.stop(): of a run that the service knows.
HasSplit == proxy \notin {"none", "lost"}
StopsProxy ==
    IF ~HasSplit THEN UNCHANGED splitVars
    ELSE /\ proxy' = "none"
         /\ names' = IF names.tracked THEN NoNames ELSE names
         /\ splitFile' = NoSplitFile
\* With the process goes every run, and what it knew of the routes it laid.
ProxyEnds == proxy' = "none" /\ names' = [names EXCEPT !.tracked = FALSE]

\* readSplitState
Valid == splitFile.mode # "none"

\* reconcileSplit.  A proxy that cannot be started again leaves routes no file names.
Reconciles ==
    /\ service = "boot"
    /\ service' = "serving"
    /\ \/ /\ splitFile = NoSplitFile
          /\ UNCHANGED splitVars /\ NoFault
       \/ /\ splitFile # NoSplitFile /\ ~(Valid /\ Answers(file))
          /\ names' = IF splitFile.routes THEN NoNames ELSE names
          /\ splitFile' = NoSplitFile
          /\ UNCHANGED proxy /\ NoFault
       \/ /\ Valid /\ Answers(file)
          /\ proxy' = "attached"
          /\ names' = [names EXCEPT !.tracked = splitFile.routes]
          /\ UNCHANGED splitFile /\ NoFault
       \/ /\ Valid /\ Answers(file)
          /\ splitFile' = NoSplitFile
          /\ Fault({"restart"})
          /\ UNCHANGED <<proxy, names>>
    /\ UNCHANGED <<app, follows, job, monitor, file, systemVars, present, gateway, changes>>

\* life.Done(): the tunnel stays, the monitor's to take down; the proxy goes.  A run that was lost is
\* not stopped, and its routes are left to what split.json has of them.
ServiceStops ==
    /\ service = "serving" /\ job.what = "none"
    /\ follows # app.n \/ ~app.alive
    /\ service' = "off"
    /\ IF proxy = "lost" THEN ProxyEnds /\ UNCHANGED splitFile ELSE StopsProxy
    /\ UNCHANGED <<app, follows, job, monitor, file, systemVars, envVars, excused>>

\* A crash, but not while a script runs: that would go on without it.
ServiceKilled ==
    /\ service = "serving" /\ job.what = "none"
    /\ Fault(IF names.tracked /\ ~splitFile.routes THEN {"flush"} ELSE {})
    /\ service' = "off"
    /\ ProxyEnds
    /\ UNCHANGED <<app, follows, job, monitor, file, systemVars, splitFile, present, gateway, changes>>

\* up, down and cleanup (which is down).
Requests ==
    /\ service = "serving" /\ app.alive /\ job.what = "none"
    /\ follows' = app.n
    /\ \/ /\ born < MaxTunnels
          /\ \E replace \in BOOLEAN, mode \in Modes :
                job' = [NoJob EXCEPT !.what = "up", !.at = "begin", !.replace = replace,
                                     !.mode = mode, !.app = app.n]
       \/ job' = [NoJob EXCEPT !.what = "down", !.at = "down"]
    /\ UNCHANGED <<app, service, monitor, file, systemVars, splitVars, envVars, excused>>

Moves(at) == job' = [job EXCEPT !.at = at]
Refuses == ~job.replace /\ Answers(file)

\* controller.up, up to the script: the run of before goes, and with a routing the tunnel of
\* before too, so that the DNS read next is the system's.  The body of the configuration, which the
\* script is given in a file, may be refused by the disk: the tunnel of before stays then, without the
\* proxy it may have had.
Begins ==
    /\ job.at = "begin"
    /\ \/ /\ Refuses /\ HasSplit
          /\ job' = NoJob
          /\ UNCHANGED splitVars /\ NoFault
       \/ /\ ~(Refuses /\ HasSplit)
          /\ StopsProxy /\ NoFault
          /\ IF job.mode = "all" THEN Moves("clean")
             ELSE IF ~file.iface THEN Moves("split")
             ELSE IF Refuses THEN job' = NoJob
             ELSE job' = [job EXCEPT !.at = "down", !.then = "split"]
       \/ /\ ~(Refuses /\ HasSplit) /\ job.mode = "all"
          /\ Fault({"body"}) /\ StopsProxy /\ job' = NoJob
    /\ UNCHANGED <<app, service, follows, monitor, file, systemVars, present, gateway, changes>>

\* beginSplit: the proxy listens and split.json is written, or nothing stays: a run that was lost
\* holds the address, and its split.json goes.  When the body is refused after that, `up` returns
\* without a stop: the run is lost, with its route to the system's DNS if it laid one.
PinsDns == names' = [tracked |-> TRUE, kernel |-> "laid"]
BeginsSplit ==
    /\ job.at = "split"
    /\ \/ /\ proxy = "none" /\ NoFault
          /\ proxy' = "begun"
          /\ splitFile' = [mode |-> job.mode, routes |-> FALSE]
          /\ job' = [job EXCEPT !.at = "clean", !.then = "end", !.tun = NoState]
          /\ UNCHANGED names
       \/ /\ Fault({}) \/ (proxy = "lost" /\ NoFault)
          /\ splitFile' = NoSplitFile
          /\ Moves("end")
          /\ UNCHANGED <<proxy, names>>
       \/ /\ proxy = "none" /\ Fault({"body"})
          /\ proxy' = "lost"
          /\ splitFile' = [mode |-> job.mode, routes |-> FALSE]
          /\ UNCHANGED names \/ (job.mode = "proxy" /\ PinsDns)
          /\ job' = NoJob
    /\ UNCHANGED <<app, service, follows, monitor, file, systemVars, present, gateway, changes>>

\* attach, once state.env names the interface; a failure takes the tunnel down again.
Attaches ==
    /\ job.at = "attach"
    /\ \/ /\ file.iface
          /\ proxy' = "attached" /\ job' = NoJob
          /\ NoFault
       \/ /\ file.iface
          /\ Fault({})
          /\ job' = [job EXCEPT !.at = "down", !.then = "end"]
          /\ UNCHANGED proxy
       \/ /\ ~file.iface
          /\ Moves("end")
          /\ UNCHANGED proxy /\ NoFault
    /\ UNCHANGED <<app, service, follows, monitor, file, systemVars, names, splitFile, present, gateway, changes>>

\* Only after the script may the proxy go that the system's DNS points at.
Answered ==
    /\ job.at = "end" /\ job.what # "none"
    /\ job' = NoJob
    /\ StopsProxy
    /\ UNCHANGED <<app, service, follows, monitor, file, systemVars, envVars, excused>>

----------------------------------------------------------------------------
(* awg.sh *)

\* cmd_down
Down ==
    /\ job.at = "down"
    /\ KillsMonitor
    /\ IF There(file) THEN job' = [job EXCEPT !.at = "untie", !.tun = file] ELSE Moves(job.then)
    /\ UNCHANGED <<app, service, follows, file, systemVars, splitVars, present, gateway, changes>>

\* What the monitor recorded after the script had read the file, and before it is killed.
Unread == IF job.tun.monitor /\ file # job.tun THEN {"window"} ELSE {}

\* teardown, then the state file: for a down, for the tunnel an up finds, for an up that failed.
JobUnties ==
    /\ job.at = "untie"
    /\ PutsBack(job.tun, Unread \cup IF job.tun.monitor THEN Cut ELSE {})
    /\ monitor' = IF job.tun.monitor THEN NoMonitor ELSE monitor
    /\ Moves("unroute")
    /\ UNCHANGED <<app, service, follows, file, daemons, born, pin, holes, splitVars, present, gateway, changes>>

JobUnroutes ==
    /\ job.at = "unroute"
    /\ Unroutes(job.tun)
    /\ Moves("stop")
    /\ UNCHANGED <<app, service, follows, monitor, file, daemons, born, dns, splitVars, envVars, excused>>

JobStops ==
    /\ job.at = "stop"
    /\ Ends(job.tun.pid)
    /\ Moves("forget")
    /\ UNCHANGED <<app, service, follows, monitor, file, born, dns, pin, holes, proxy, splitFile, envVars, excused>>

JobForgets ==
    /\ job.at = "forget"
    /\ file' = NoState
    /\ job' = [job EXCEPT !.at = job.then, !.tun = NoState]
    /\ UNCHANGED <<app, service, follows, monitor, systemVars, splitVars, envVars, excused>>

\* cmd_up: an earlier tunnel is refused or taken down; then every monitor that is left.
Cleans ==
    /\ job.at = "clean"
    /\ IF ~There(file) THEN Moves("reap")
       ELSE IF file.pid \in daemons /\ ~job.replace THEN Moves("end")
       ELSE job' = [job EXCEPT !.at = "untie", !.then = "reap", !.tun = file]
    /\ UNCHANGED <<app, service, follows, monitor, file, systemVars, splitVars, envVars, excused>>

Reaps ==
    /\ job.at = "reap"
    /\ KillsMonitor
    /\ IF gateway = NoGateway THEN job' = [job EXCEPT !.at = "forget", !.then = "end"]
       ELSE job' = [job EXCEPT !.at = "start", !.then = "end"]
    /\ UNCHANGED <<app, service, follows, file, systemVars, splitVars, present, gateway, changes>>

Saves(tun) == file' = tun
\* The next step of an up, with the script's variables saved.
Records(tun, at) == Saves(tun) /\ job' = [job EXCEPT !.tun = tun, !.at = at]
\* The EXIT trap undoes what there is of the tunnel.
Fails == Moves("untie") /\ UNCHANGED file

Starts ==
    /\ job.at = "start"
    /\ born' = born + 1
    /\ daemons' = daemons \cup {born + 1}
    /\ Records([NoState EXCEPT !.pid = born + 1, !.mode = job.mode, !.app = job.app], "iface")
    /\ UNCHANGED <<app, service, follows, monitor, dns, pin, holes, splitVars, envVars, excused>>

\* The interface, the configuration and the addresses: the daemon may die or refuse.
GetsIface ==
    /\ job.at = "iface"
    /\ \/ /\ job.tun.pid \in daemons
          /\ Records([job.tun EXCEPT !.iface = TRUE, !.pinned = TRUE], "pin")
          /\ NoFault
       \/ /\ job.tun.pid \in daemons /\ Fails /\ Fault({})
       \/ /\ job.tun.pid \notin daemons /\ Fails /\ NoFault
    /\ UNCHANGED <<app, service, follows, monitor, systemVars, splitVars, present, gateway, changes>>

UpPins ==
    /\ job.at = "pin"
    /\ \/ Pins /\ Moves("routes") /\ UNCHANGED file
       \/ FailsToPin /\ Fails
    /\ UNCHANGED <<app, service, follows, monitor, daemons, born, dns, holes, splitVars, present, gateway, changes>>

\* 0/1 and 128/1 into the utun, unless only what the rules name goes there.
TakesTraffic ==
    /\ job.at = "routes"
    /\ IF job.tun.pid \in daemons THEN Records(job.tun, "dns") ELSE Fails
    /\ UNCHANGED <<app, service, follows, monitor, systemVars, splitVars, envVars, excused>>

UpListsDns ==
    /\ job.at = "dns"
    /\ IF Unlisted(job.tun) = {} THEN Moves("fork") /\ UNCHANGED file
       ELSE \E x \in Unlisted(job.tun) :
              LET tun == Listed(job.tun, x) IN
              Saves(tun) /\ job' = [job EXCEPT !.tun = tun, !.at = "set", !.net = x]
    /\ UNCHANGED <<app, service, follows, monitor, systemVars, splitVars, envVars, excused>>

UpSetsDns ==
    /\ job.at = "set"
    /\ SetsDns(job.net)
    /\ Moves("dns")
    /\ UNCHANGED <<app, service, follows, monitor, file, daemons, born, pin, holes, splitVars, present, gateway, changes>>

\* The monitor starts with the script's variables, MONITOR_PID not among them.
Forks ==
    /\ job.at = "fork"
    /\ monitor' = [NoMonitor EXCEPT !.at = "watch", !.tun = job.tun]
    /\ Moves("final")
    /\ UNCHANGED <<app, service, follows, file, systemVars, splitVars, envVars, excused>>

\* The last save knows nothing of what the monitor recorded since it was started.
Finishes ==
    /\ job.at = "final"
    /\ Saves([job.tun EXCEPT !.monitor = TRUE])
    /\ excused' = IF file.black THEN excused \cup {"window"} ELSE excused
    /\ IF job.mode = "all" THEN job' = NoJob ELSE Moves("attach")
    /\ UNCHANGED <<app, service, follows, monitor, systemVars, splitVars, envVars>>

\* 60 s have passed: the script is killed while it waits for a command, its trap not run.
\* The command a killed script waited for may still have done its work.
TimesOut ==
    /\ job.at \in {"untie", "unroute", "stop", "iface", "pin", "routes", "set"}
    /\ Fault({"timeout"})
    /\ Moves(IF job.then = "split" THEN "split" ELSE "end")
    /\ \/ UNCHANGED <<dns, pin>>
       \/ job.at = "set" /\ dns' = [dns EXCEPT ![job.net] = "vpn"] /\ UNCHANGED pin
       \/ job.at = "pin" /\ pin' = Want /\ UNCHANGED dns
    /\ UNCHANGED <<app, service, follows, monitor, file, daemons, born, holes, splitVars, present, gateway, changes>>

Script ==
    \/ Begins \/ BeginsSplit \/ Attaches \/ Answered
    \/ Down \/ JobUnties \/ JobUnroutes \/ JobStops \/ JobForgets
    \/ Cleans \/ Reaps \/ Starts \/ GetsIface \/ UpPins \/ TakesTraffic
    \/ UpListsDns \/ UpSetsDns \/ Forks \/ Finishes

----------------------------------------------------------------------------
(* The monitor *)

Watches(at) == monitor' = [monitor EXCEPT !.at = at]

\* is_app: the application that asked for the tunnel, by its pid and name.
IsApp(tun) == app.alive /\ app.n = tun.app

MonitorLeaves ==
    /\ monitor.at = "watch"
    /\ ~IsApp(monitor.tun)
    /\ Watches("untie")
    /\ UNCHANGED <<app, service, follows, job, file, systemVars, splitVars, envVars, excused>>

MonitorUnties ==
    /\ monitor.at = "untie"
    /\ PutsBack(monitor.tun, {})
    /\ Watches("unroute")
    /\ UNCHANGED <<app, service, follows, job, file, daemons, born, pin, holes, splitVars, present, gateway, changes>>

MonitorUnroutes ==
    /\ monitor.at = "unroute"
    /\ Unroutes(monitor.tun)
    /\ Watches("stop")
    /\ UNCHANGED <<app, service, follows, job, file, daemons, born, dns, splitVars, envVars, excused>>

MonitorStops ==
    /\ monitor.at = "stop"
    /\ Ends(monitor.tun.pid)
    /\ Watches("forget")
    /\ UNCHANGED <<app, service, follows, job, file, born, dns, pin, holes, proxy, splitFile, envVars, excused>>

MonitorForgets ==
    /\ monitor.at = "forget"
    /\ file' = NoState
    /\ monitor' = NoMonitor
    /\ UNCHANGED <<app, service, follows, job, systemVars, splitVars, envVars, excused>>

\* The daemon is gone.  Black holes take the place of its routes (fail_closed), if state.env
\* still names it; otherwise somebody took the tunnel down, and there is nothing to watch.
MonitorHolds ==
    /\ monitor.at = "watch" /\ IsApp(monitor.tun)
    /\ ~monitor.tun.black /\ monitor.tun.pid \notin daemons
    /\ IF file.pid = monitor.tun.pid
       THEN Watches("held") /\ holes' = (holes \/ monitor.tun.mode # "direct")
       ELSE monitor' = NoMonitor /\ UNCHANGED holes
    /\ UNCHANGED <<app, service, follows, job, file, daemons, born, dns, pin, splitVars, envVars, excused>>

\* save_state in the monitor keeps the MONITOR_PID of the file.
MonitorSaves(tun, at, x) ==
    /\ file' = [tun EXCEPT !.monitor = file.monitor]
    /\ monitor' = [monitor EXCEPT !.tun = tun, !.at = at, !.net = x]

Blackened(tun) == [tun EXCEPT !.black = TRUE]
MonitorHeld ==
    /\ monitor.at = "held"
    /\ MonitorSaves(Blackened(monitor.tun), "watch", monitor.net)
    /\ UNCHANGED <<app, service, follows, job, systemVars, splitVars, envVars, excused>>

\* A change of the network, once its burst of messages is over: later than the script's end.
MonitorPins ==
    /\ monitor.at = "watch" /\ IsApp(monitor.tun)
    /\ ~monitor.tun.black /\ monitor.tun.pid \in daemons
    /\ monitor.news /\ job.at # "final"
    /\ Pins \/ FailsToPin
    /\ monitor' = [monitor EXCEPT !.news = FALSE, !.at = "dns"]
    /\ UNCHANGED <<app, service, follows, job, file, daemons, born, dns, holes, splitVars, present, gateway, changes>>

MonitorListsDns ==
    /\ monitor.at = "dns"
    /\ IF Unlisted(monitor.tun) = {} THEN Watches("watch") /\ UNCHANGED file
       ELSE \E x \in Unlisted(monitor.tun) : MonitorSaves(Listed(monitor.tun, x), "set", x)
    /\ UNCHANGED <<app, service, follows, job, systemVars, splitVars, envVars, excused>>

MonitorSetsDns ==
    /\ monitor.at = "set"
    /\ SetsDns(monitor.net)
    /\ Watches("dns")
    /\ UNCHANGED <<app, service, follows, job, file, daemons, born, pin, holes, splitVars, present, gateway, changes>>

Watch ==
    \/ MonitorLeaves \/ MonitorUnties \/ MonitorUnroutes \/ MonitorStops \/ MonitorForgets
    \/ MonitorHolds \/ MonitorHeld \/ MonitorPins \/ MonitorListsDns \/ MonitorSetsDns

----------------------------------------------------------------------------
(* The proxy's routes *)

\* darwinRouter.Route, for what the rules send where the default does not.
Laid == IF proxy = "dead" /\ splitFile.mode = "direct" THEN "hole" ELSE "laid"

\* A listed name is answered, or the system's DNS is pinned to the router beforehand.
NameRouted ==
    /\ ~names.tracked
    /\ \/ splitFile.mode = "proxy" /\ HasSplit
       \/ /\ splitFile.mode = "direct"
          /\ proxy \in {"attached", "dead"} /\ (born \in daemons \/ proxy = "dead")
    /\ names' = [tracked |-> TRUE, kernel |-> Laid]
    /\ UNCHANGED <<app, service, follows, job, monitor, file, systemVars, proxy, splitFile, envVars, excused>>

NameExpires ==
    /\ names.tracked /\ HasSplit
    /\ names' = NoNames
    /\ UNCHANGED <<app, service, follows, job, monitor, file, systemVars, proxy, splitFile, envVars, excused>>

\* The store is written within a second of a change; that of a lost run, which has the route to the
\* system's DNS and no other, also when it lays that route again for another router.
StoreFlushed ==
    /\ proxy # "none" /\ splitFile.routes # names.tracked
    /\ splitFile' = [mode |-> IF proxy = "lost" THEN "proxy" ELSE splitFile.mode, routes |-> names.tracked]
    /\ UNCHANGED <<app, service, follows, job, monitor, file, systemVars, proxy, names, envVars, excused>>

\* checkTunnel: what went into the utun is black-holed.
TunnelMissed ==
    /\ proxy = "attached" /\ born \notin daemons
    /\ proxy' = "dead"
    /\ names' = IF names.tracked /\ splitFile.mode = "direct" THEN [names EXCEPT !.kernel = "hole"]
                ELSE names
    /\ UNCHANGED <<app, service, follows, job, monitor, file, systemVars, splitFile, envVars, excused>>

----------------------------------------------------------------------------
(* The daemon and the network *)

DaemonDies ==
    /\ \E t \in daemons : Ends(t)
    /\ Fault({})
    /\ UNCHANGED <<app, service, follows, job, monitor, file, born, dns, pin, holes, proxy, splitFile,
                   present, gateway, changes>>

\* Another router, or none; a network service comes or goes.  Nobody hears of it while an up
\* has read what it needs and not started its monitor.
NetworkChanges ==
    /\ changes < MaxChanges
    /\ changes' = changes + 1
    /\ \/ gateway' \in (Gateways \cup {NoGateway}) \ {gateway} /\ UNCHANGED present
       \/ \E x \in Networks : /\ present' = (present \ {x}) \cup ({x} \ present)
                              /\ UNCHANGED gateway
    /\ monitor' = IF monitor.at = "none" THEN monitor ELSE [monitor EXCEPT !.news = TRUE]
    /\ excused' = IF job.at \in {"routes", "dns", "set", "fork"} THEN excused \cup {"missed"} ELSE excused
    /\ UNCHANGED <<app, service, follows, job, file, systemVars, splitVars, faults>>

Next ==
    \/ AppDies \/ AppStarts \/ ServiceStarts \/ Reconciles \/ ServiceStops \/ ServiceKilled
    \/ Requests \/ Script \/ TimesOut
    \/ Watch
    \/ NameRouted \/ NameExpires \/ StoreFlushed \/ TunnelMissed
    \/ DaemonDies \/ NetworkChanges

Spec == Init /\ [][Next]_vars
\* Processes that run go on: the script and its service, the monitor (awake every 2 s).
FairSpec == Spec /\ WF_vars(Script) /\ WF_vars(Watch)

----------------------------------------------------------------------------
(* Properties *)

Idle == job.what = "none"

\* At every moment, between any two commands of the script and of the monitor, state.env names
\* what has to be undone: the DNS each network service had of its own, the daemon, the route to
\* the server and the black holes; and split.json, or the proxy's memory, the routes of names.
\* So whoever is killed, the next `down` or `up` cleans up.  Excepted are what was refused, or cut off
\* from its record by a kill; and the routes that a service which could not start the proxy again, a
\* store not yet flushed, or an `up` that forgot its run left behind.
UndoIsRecorded ==
    /\ {"refused", "window"} \cap excused = {} =>
          \A x \in Networks : dns[x] = "vpn" => file.list[x] = "own"
    /\ \A t \in daemons : file.pid = t
    /\ pin # "none" => file.pinned
    /\ holes /\ "window" \notin excused => file.black \/ monitor.at = "held"
    /\ names.kernel # "none" /\ {"restart", "flush", "body"} \cap excused = {} =>
          names.tracked \/ splitFile.routes

\* Once the daemon is dead and its monitor has seen it, nothing that took the tunnel leaves by
\* the physical network until the tunnel is taken down, or its application is gone: neither a
\* change of the network nor the service's restart opens it again.
HeldAfterDeath ==
    /\ monitor.at = "watch" /\ monitor.tun.black /\ Idle =>
          /\ "window" \notin excused => file.black
          /\ monitor.tun.mode # "direct" => holes
    /\ proxy = "dead" /\ splitFile.mode = "direct" /\ names.tracked => names.kernel = "hole"

\* The proxy that the system's DNS points at answers for as long as it does: `down` puts the
\* DNS back before the proxy goes, and a service that was killed is followed by one that
\* starts the proxy again.  Excepted are an `up` in progress, a tunnel already dead, a disk that
\* refuses the body of the next one, and the faults of a script that is killed or refused.
DnsIsAnswered ==
    \A x \in Networks :
        /\ dns[x] = "vpn" /\ file.mode # "all" /\ Answers(file)
        /\ service = "serving" /\ job.what # "up" /\ app.alive /\ file.app = app.n
        /\ {"timeout", "refused", "restart", "body"} \cap excused = {}
        => HasSplit

\* While the monitor has nothing left to do, the server is reached by the router that is there
\* and every network service asks the tunnel's DNS, the ones that came later too.
FollowsNetwork ==
    /\ monitor.at = "watch" /\ ~monitor.news /\ ~monitor.tun.black /\ monitor.tun.pid \in daemons
    /\ IsApp(monitor.tun) /\ Idle
    /\ {"refused", "missed", "timeout"} \cap excused = {}
    => /\ pin = Want
       /\ \A x \in present : dns[x] = "vpn"

Undone(t) ==
    /\ t \notin daemons
    /\ born = t => ~holes /\ pin = "none" /\ \A x \in Networks : dns[x] = "own"

\* The application is gone, and a monitor watches its tunnel: the tunnel is taken down, by it
\* or by what the next run of the application asks for meanwhile.
NothingOutlivesApp ==
    \A t \in 1 .. MaxTunnels :
        monitor.tun.pid = t /\ ~IsApp(monitor.tun)
            ~> Undone(t) \/ excused \cap {"refused", "timeout", "window"} # {}
=============================================================================
