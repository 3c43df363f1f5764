--------------------------- MODULE TunnelManager ---------------------------
(***************************************************************************)
(* The application's tunnel manager (src/main/tunnel/manager.ts): which    *)
(* tunnel the card shows as on, the one operation that may change it, the  *)
(* polls that watch it and the reconnects made without the user.           *)
(*                                                                         *)
(* The manager is JavaScript: one step at a time, but every await lets     *)
(* other callbacks run.  A call is therefore a record in `jobs` that says  *)
(* at which await it stands ("at") and what the controller has answered    *)
(* ("ans"): the controller acts in a step of its own, and the manager      *)
(* applies the answer in a later one.  Polls of the running tunnel are in  *)
(* `polls` for the same reason: the timer starts one every second, an      *)
(* answer may take three, so several are in flight.                        *)
(*                                                                         *)
(* The controller below the manager (TunnelController.ts) is modelled by   *)
(* its contract: `held` is the tunnel whose routes and DNS the system      *)
(* carries, `alive` whether its daemon runs.                               *)
(***************************************************************************)
EXTENDS Naturals, FiniteSets

CONSTANTS
    Tunnels,        \* ids of tunnels.json
    None,           \* no tunnel
    Slots,          \* calls of connect, disconnect, ... that may be in progress
    MaxPolls,       \* bound: polls in flight
    MaxAuto,        \* AUTO_RECONNECT_MS.length
    HasWatchdog,    \* the controller has watchdogAlive (macOS)
    AsksEachTime    \* every privileged call asks for the password

ASSUME TunnelsAssumption == None \notin Tunnels
ASSUME BoundsAssumption == MaxPolls \in Nat /\ MaxAuto \in Nat
ASSUME PlatformAssumption == HasWatchdog \in BOOLEAN /\ AsksEachTime \in BOOLEAN

VARIABLES
    known,          \* tunnels listed in tunnels.json
    active,         \* this.active: a connection, compared by identity
    shownUp,        \* the tunnels whose state says "up"; the others' say connecting,
                    \* down or error
    busy, switching, polling, paused,
    needsCleanup,
    autoTries,
    jobs, polls, boot,
    held, alive,    \* the system below the controller
    lost            \* history: an answer was lost or applied over a later call, or a daemon
                    \* that hangs was given up on: the manager cannot know what runs until
                    \* its next operation succeeds

cardVars == <<known, active, shownUp, busy, switching, polling, paused,
              needsCleanup>>
callVars == <<jobs, polls, boot>>
systemVars == <<held, alive, lost>>
vars == <<cardVars, autoTries, callVars, systemVars>>

----------------------------------------------------------------------------

\* An ActiveTunnel object: its tunnel and its identity (`===` compares objects).
NoConn == [id |-> None, n |-> 0]
\* A poll in flight remembers one, so as many identities are enough, and one more.
Conns == [id : Tunnels, n : 1 .. MaxPolls + 1]

Places == {"free", "hook", "up", "retry", "recover", "stale", "down", "refuse", "cleanup"}
JobAnswers == {"none", "ok", "failed", "noIface", "same", "other", "yes", "no"}
Job == [at : Places, id : Tunnels \cup {None}, prev : Tunnels \cup {None},
        was : BOOLEAN, ans : JobAnswers]
FreeJob == [at |-> "free", id |-> None, prev |-> None, was |-> FALSE, ans |-> "none"]

\* A poll of connection `conn`: at the stats call, at watchdogAlive, or (the tunnel
\* declared dead) at hasStaleState.
PollAnswers == {"none", "fresh", "stale", "hung", "dead", "yes", "no"}
Poll == [conn : Conns \cup {NoConn}, at : {"stats", "watch", "leftovers"}, ans : PollAnswers]

BootPlaces == {"recover", "watch", "stale", "done"}
Boot == [at : BootPlaces, found : Tunnels \cup {None}, ans : {"none", "yes", "no"}]
BootAt(place) == [at |-> place, found |-> None, ans |-> "none"]

TypeOK ==
    /\ known \subseteq Tunnels
    /\ active \in Conns \cup {NoConn}
    /\ shownUp \subseteq Tunnels
    /\ busy \in BOOLEAN /\ switching \in BOOLEAN
    /\ polling \in BOOLEAN /\ paused \in BOOLEAN
    /\ needsCleanup \in BOOLEAN
    /\ autoTries \in 0 .. MaxAuto
    /\ jobs \in [Slots -> Job]
    /\ polls \subseteq Poll
    /\ boot \in Boot
    /\ held \in Tunnels \cup {None}
    /\ alive \in BOOLEAN /\ lost \in BOOLEAN

\* The application starts over any system a dead session may have left: nothing, a
\* tunnel that still runs, or the routes and DNS of one that does not.
Init ==
    /\ known = Tunnels
    /\ active = NoConn
    /\ shownUp = {}
    /\ busy = FALSE /\ switching = FALSE /\ polling = FALSE /\ paused = FALSE
    /\ needsCleanup = FALSE
    /\ autoTries = 0
    /\ jobs = [j \in Slots |-> FreeJob]
    /\ polls = {}
    /\ boot = BootAt("recover")
    /\ held \in Tunnels \cup {None}
    /\ alive \in BOOLEAN
    /\ alive => held # None
    /\ lost = FALSE

----------------------------------------------------------------------------
(* The calls: where each stands, and the one place that begins a start *)

\* Plausible slips in the operators below: each shows that a property notices.
SlipAnyConn(p) == p \in polls                       \* `this.active !== active` dropped
SlipNotPolled == polling' = polling                 \* startPolling() forgotten
SlipNothingLeft == "no"                             \* what is left is not looked for
SlipStaysBusy(j, on) == busy' = busy /\ switching' = switching /\ needsCleanup' = needsCleanup
                        /\ jobs' = [jobs EXCEPT ![j] = FreeJob]    \* no `finally`

NotBusy == ~busy
\* `this.active` is set: a new object, so no poll in flight is about it.
Connects(id) ==
    LET unused == {n \in 1 .. MaxPolls + 1 :
                      [id |-> id, n |-> n] \notin {p.conn : p \in polls}} IN
    \E n \in unused : /\ \A m \in unused : n <= m
                      /\ active' = [id |-> id, n |-> n]
\* A question about an earlier state is still out: init()'s, or one about leftovers.
Asking == boot.at # "done" \/ \E p \in polls : p.at = "leftovers"
StillActive(p) == active = p.conn
StartsPolling == polling' = TRUE

Waits(j, places) == jobs[j].at \in places /\ jobs[j].ans = "none"
Answered(j, places) == jobs[j].at \in places /\ jobs[j].ans # "none"
Replies(j, ans) == jobs' = [jobs EXCEPT ![j].ans = ans]
Moves(j, place) == jobs' = [jobs EXCEPT ![j].at = place, ![j].ans = "none"]
Ends(j) == jobs' = [jobs EXCEPT ![j] = FreeJob]

\* start(id) up to its first await: TUN-01 for a tunnel that is not listed, or the
\* hook is asked and the manager is busy meanwhile.
Starts(id) ==
    IF id \in known
    THEN \E j \in Slots :
            /\ jobs[j].at = "free"
            /\ busy' = TRUE
            /\ jobs' = [jobs EXCEPT ![j] = [FreeJob EXCEPT !.at = "hook", !.id = id]]
    ELSE UNCHANGED <<busy, jobs>>

\* connect(id): the user, the tray, autoConnect, a refreshed key.
Connect(id) ==
    /\ NotBusy
    /\ active.id # id
    /\ autoTries' = 0
    /\ Starts(id)
    /\ UNCHANGED <<known, active, shownUp, switching, polling, paused, needsCleanup>>
    /\ UNCHANGED <<polls, boot, systemVars>>

\* reconnect(): the card's button, a rekeyed subscription.
Reconnect ==
    /\ NotBusy
    /\ active # NoConn
    /\ autoTries' = 0
    /\ Starts(active.id)
    /\ UNCHANGED <<known, active, shownUp, switching, polling, paused, needsCleanup>>
    /\ UNCHANGED <<polls, boot, systemVars>>

\* The hook let the connect go on (or failed, which never stops it) and the tunnel is
\* still listed: the running one is let go of at once, and `up` is asked with replace.
HookLetsGo(j) ==
    LET id == jobs[j].id IN
    /\ jobs[j].at = "hook"
    /\ id \in known
    /\ busy' = TRUE
    /\ switching' = (active # NoConn)
    /\ polling' = (polling /\ active = NoConn)
    /\ active' = NoConn
    /\ shownUp' = shownUp \ {id, active.id}
    /\ jobs' = [jobs EXCEPT ![j] =
                  [at |-> "up", id |-> id, prev |-> active.id, ans |-> "none",
                   was |-> active.id \in shownUp]]
    /\ UNCHANGED <<known, paused, needsCleanup, autoTries, polls, boot, systemVars>>

\* The hook brought a list without this tunnel: KEY-20 (or TUN-02), and nothing starts.
HookLosesTunnel(j) ==
    /\ jobs[j].at = "hook"
    /\ jobs[j].id \notin known
    /\ busy' = FALSE
    /\ Ends(j)
    /\ UNCHANGED <<known, active, shownUp, switching, polling, paused, needsCleanup>>
    /\ UNCHANGED <<autoTries, polls, boot, systemVars>>

\* The hook refused (KEY-21): a running tunnel of that id is taken down first.
HookRefuses(j) ==
    LET id == jobs[j].id IN
    /\ jobs[j].at = "hook"
    /\ IF active.id = id
       THEN /\ jobs' = [jobs EXCEPT ![j].at = "refuse"]
            /\ UNCHANGED <<busy, shownUp>>
       ELSE /\ Ends(j)
            /\ busy' = FALSE
            /\ shownUp' = shownUp \ {id}
    /\ UNCHANGED <<known, active, switching, polling, paused, needsCleanup>>
    /\ UNCHANGED <<autoTries, polls, boot, systemVars>>

\* The controller's `up`.  A failure before anything was touched leaves the system as it
\* was; any later one leaves neither tunnel.  A running tunnel without `replace` is
\* BUSY.  An answer can also come too late for the client, which reports a failure.
ControllerUp(j) ==
    LET job == jobs[j]
        replace == job.prev # None \/ job.at = "retry" IN
    /\ Waits(j, {"up", "retry"})
    /\ \/ /\ Replies(j, "failed")
          /\ UNCHANGED systemVars
       \/ /\ replace \/ ~alive
          /\ \/ /\ Replies(j, "ok")
                /\ held' = job.id /\ alive' = TRUE /\ lost' = lost
             \/ /\ Replies(j, "noIface")
                /\ held' = job.id /\ alive' = TRUE /\ lost' = TRUE
             \/ /\ Replies(j, "failed")
                /\ held' = None /\ alive' = FALSE /\ lost' = lost
             \/ /\ Replies(j, "failed")
                /\ held' = job.id /\ alive' = TRUE /\ lost' = TRUE
    /\ UNCHANGED <<cardVars, autoTries, polls, boot>>

\* The end of start(): what is left of a dead session is asked for only when nothing
\* runs; `on` says whether this.active is set by then.
Settles(j, on) ==
    IF on
    THEN /\ needsCleanup' = FALSE
         /\ busy' = FALSE /\ switching' = FALSE
         /\ Ends(j)
    ELSE /\ jobs' = [jobs EXCEPT ![j] = [FreeJob EXCEPT !.at = "stale"]]
         /\ UNCHANGED <<needsCleanup, busy, switching>>

UpSucceeds(j) ==
    /\ Answered(j, {"up", "retry"})
    /\ jobs[j].ans = "ok"
    /\ Connects(jobs[j].id)
    /\ StartsPolling
    /\ Settles(j, TRUE)
    /\ lost' = Asking
    /\ UNCHANGED <<known, shownUp, paused, autoTries, polls, boot, held, alive>>

\* TUN-10: once more, with replace.
UpTriesAgain(j) ==
    /\ Answered(j, {"up"})
    /\ jobs[j].ans = "noIface"
    /\ ~AsksEachTime
    /\ Moves(j, "retry")
    /\ UNCHANGED <<cardVars, autoTries, polls, boot, systemVars>>

UpFails(j) ==
    LET job == jobs[j] IN
    /\ Answered(j, {"up", "retry"})
    /\ job.ans # "ok"
    /\ job.ans = "noIface" => (AsksEachTime \/ job.at = "retry")
    /\ shownUp' = shownUp \ {job.id}
    /\ IF job.prev # None
       THEN Moves(j, "recover") /\ UNCHANGED <<needsCleanup, busy, switching>>
       ELSE Settles(j, active # NoConn)
    /\ UNCHANGED <<known, active, polling, paused>>
    /\ UNCHANGED <<autoTries, polls, boot, systemVars>>

\* keepPrevious: the system is asked which tunnel runs; no answer reads as none.
ControllerRecover(j) ==
    /\ Waits(j, {"recover"})
    /\ \/ /\ Replies(j, IF alive /\ held = jobs[j].prev THEN "same" ELSE "other")
          /\ lost' = lost
       \/ /\ Replies(j, "failed")
          /\ lost' = TRUE
    /\ UNCHANGED <<cardVars, autoTries, polls, boot, held, alive>>

PreviousKept(j) ==
    LET job == jobs[j] IN
    /\ Answered(j, {"recover"})
    /\ job.ans = "same"
    /\ Connects(job.prev)
    /\ shownUp' = IF job.was THEN shownUp \cup {job.prev} ELSE shownUp \ {job.prev}
    /\ StartsPolling
    /\ Settles(j, TRUE)
    /\ UNCHANGED <<known, paused, autoTries, polls, boot, systemVars>>

PreviousGone(j) ==
    /\ Answered(j, {"recover"})
    /\ jobs[j].ans # "same"
    /\ Settles(j, active # NoConn)
    /\ UNCHANGED <<known, active, shownUp, polling, paused>>
    /\ UNCHANGED <<autoTries, polls, boot, systemVars>>

\* hasStaleState: routes and DNS are there, and no daemon.
Leftovers == IF held # None /\ ~alive THEN "yes" ELSE "no"

ControllerStale(j) ==
    /\ Waits(j, {"stale"})
    /\ \/ Replies(j, Leftovers) /\ lost' = lost
       \/ Replies(j, "failed") /\ lost' = TRUE
    /\ UNCHANGED <<cardVars, autoTries, polls, boot, held, alive>>

StartSettled(j) ==
    /\ Answered(j, {"stale"})
    /\ needsCleanup' = (IF jobs[j].ans = "failed" THEN needsCleanup ELSE jobs[j].ans = "yes")
    /\ busy' = FALSE /\ switching' = FALSE
    /\ Ends(j)
    /\ UNCHANGED <<known, active, shownUp, polling, paused>>
    /\ UNCHANGED <<autoTries, polls, boot, systemVars>>

----------------------------------------------------------------------------
(* Disconnecting, restoring the network, removing a server *)

Disconnect(j) ==
    /\ NotBusy
    /\ active # NoConn
    /\ jobs[j].at = "free"
    /\ busy' = TRUE
    /\ jobs' = [jobs EXCEPT ![j] = [FreeJob EXCEPT !.at = "down", !.id = active.id]]
    /\ UNCHANGED <<known, active, shownUp, switching, polling, paused, needsCleanup>>
    /\ UNCHANGED <<autoTries, polls, boot, systemVars>>

\* `down` and `cleanup` take everything down, or fail (a declined prompt, no service);
\* the answer of one that was done can be lost as well.
ControllerDown(j) ==
    /\ Waits(j, {"down", "refuse", "cleanup"})
    /\ \/ /\ Replies(j, "ok") \/ Replies(j, "failed")
          /\ held' = None /\ alive' = FALSE
       \/ /\ Replies(j, "failed")
          /\ UNCHANGED <<held, alive>>
    /\ UNCHANGED <<cardVars, autoTries, polls, boot, lost>>

\* A failed disconnect keeps the tunnel on the card; a refused connect ends in an error
\* there whichever way it went.
Disconnected(j) ==
    LET job == jobs[j]
        done == job.ans = "ok" IN
    /\ Answered(j, {"down", "refuse"})
    /\ busy' = FALSE
    /\ Ends(j)
    /\ active' = (IF done THEN NoConn ELSE active)
    /\ polling' = (polling /\ ~done)
    /\ shownUp' = IF done \/ job.at = "refuse" THEN shownUp \ {job.id} ELSE shownUp
    /\ lost' = IF done THEN Asking ELSE lost
    /\ UNCHANGED <<known, switching, paused, needsCleanup>>
    /\ UNCHANGED <<autoTries, polls, boot, held, alive>>

Cleanup(j) ==
    /\ NotBusy
    /\ active = NoConn
    /\ jobs[j].at = "free"
    /\ busy' = TRUE
    /\ jobs' = [jobs EXCEPT ![j] = [FreeJob EXCEPT !.at = "cleanup"]]
    /\ UNCHANGED <<known, active, shownUp, switching, polling, paused, needsCleanup>>
    /\ UNCHANGED <<autoTries, polls, boot, systemVars>>

CleanedUp(j) ==
    LET done == jobs[j].ans = "ok" IN
    /\ Answered(j, {"cleanup"})
    /\ busy' = FALSE
    /\ Ends(j)
    /\ needsCleanup' = (needsCleanup /\ ~done)
    /\ lost' = IF done THEN Asking ELSE lost
    /\ UNCHANGED <<known, active, shownUp, switching, polling, paused>>
    /\ UNCHANGED <<autoTries, polls, boot, held, alive>>

\* «Удалить» on a server: refused for the active one only (TUN-03), then forget().
RemoveTunnel(id) ==
    /\ id \in known
    /\ active.id # id
    /\ known' = known \ {id}
    /\ shownUp' = shownUp \ {id}
    /\ UNCHANGED <<active, busy, switching, polling, paused, needsCleanup>>
    /\ UNCHANGED <<autoTries, callVars, systemVars>>

\* The removal screen comes up, and goes away again.
Pause ==
    /\ ~paused
    /\ paused' = TRUE
    /\ polling' = FALSE
    /\ UNCHANGED <<known, active, shownUp, busy, switching, needsCleanup>>
    /\ UNCHANGED <<autoTries, callVars, systemVars>>

Resume ==
    /\ paused
    /\ paused' = FALSE
    /\ polling' = (polling \/ active # NoConn)
    /\ UNCHANGED <<known, active, shownUp, busy, switching, needsCleanup>>
    /\ UNCHANGED <<autoTries, callVars, systemVars>>

----------------------------------------------------------------------------
(* Polls *)

PollStarts ==
    /\ polling /\ NotBusy
    /\ active # NoConn
    /\ Cardinality(polls) < MaxPolls
    /\ polls' = polls \cup {[conn |-> active, at |-> "stats", ans |-> "none"]}
    /\ UNCHANGED <<cardVars, autoTries, jobs, boot, systemVars>>

\* stats: the daemon answers with a handshake that is fresh or not, does not answer
\* (TUN-09), or is not there (TUN-08).
ControllerStats(p) ==
    /\ p.at = "stats" /\ p.ans = "none"
    /\ \E ans \in (IF alive THEN {"fresh", "stale", "hung"} ELSE {"dead"}) :
          polls' = (polls \ {p}) \cup {[p EXCEPT !.ans = ans]}
    /\ UNCHANGED <<cardVars, autoTries, jobs, boot, systemVars>>

CanHeal == ~AsksEachTime /\ autoTries < MaxAuto

\* autoReconnect(): not while an operation runs, nor once nothing is active.
AutoReconnects ==
    IF active = NoConn \/ ~NotBusy
    THEN UNCHANGED <<autoTries, busy, jobs>>
    ELSE autoTries' = autoTries + 1 /\ Starts(active.id)

\* heal(): with a reason that has lasted, and a network, a reconnect that is due is made;
\* without one, two healthy minutes give the attempts back.  The reason (the route lost, the
\* watchdog dead, a wake-up without a handshake), which pauses have passed, and the network
\* are left open: nothing below tells them apart.
Heals(fresh) ==
    \/ UNCHANGED <<autoTries, busy, jobs>>
    \/ fresh /\ autoTries' = 0 /\ UNCHANGED <<busy, jobs>>
    \/ CanHeal /\ AutoReconnects

\* The answer of stats is applied before anything is compared with this.active.
StatsApply(p) ==
    LET fresh == p.ans = "fresh" IN
    /\ p.at = "stats" /\ p.ans \in {"fresh", "stale"}
    /\ shownUp' = IF fresh THEN shownUp \cup {p.conn.id} ELSE shownUp \ {p.conn.id}
    /\ \/ \* watchdogAlive is asked, at most every 30 s
          /\ HasWatchdog
          /\ polls' = (polls \ {p}) \cup {[p EXCEPT !.at = "watch"]}
          /\ UNCHANGED <<autoTries, busy, jobs>>
       \/ /\ polls' = polls \ {p}
          /\ IF StillActive(p)
             THEN Heals(fresh)
             ELSE UNCHANGED <<autoTries, busy, jobs>>
    /\ UNCHANGED <<known, active, switching, polling, paused, needsCleanup>>
    /\ UNCHANGED <<boot, systemVars>>

\* After the watchdog's answer, whatever it is, the poll goes on if its tunnel is still on.
WatchApply(p) ==
    /\ p.at = "watch"
    /\ IF StillActive(p) THEN Heals(p.ans = "fresh")
       ELSE UNCHANGED <<autoTries, busy, jobs>>
    /\ polls' = polls \ {p}
    /\ UNCHANGED <<known, active, shownUp, switching, polling, paused, needsCleanup>>
    /\ UNCHANGED <<boot, systemVars>>

\* A daemon that hangs is brought up again where that is possible.
HungHeals(p) ==
    /\ p.at = "stats" /\ p.ans = "hung"
    /\ StillActive(p)
    /\ CanHeal
    /\ AutoReconnects
    /\ polls' = polls \ {p}
    /\ UNCHANGED <<known, active, shownUp, switching, polling, paused, needsCleanup>>
    /\ UNCHANGED <<boot, systemVars>>

\* Otherwise no answer is taken for a dead daemon: the card goes off, and what is left
\* of it is asked for.  (A hung one comes here with no network or no attempts left.)
DeclareDead(p) ==
    /\ p.at = "stats" /\ p.ans \in {"hung", "dead"}
    /\ StillActive(p)
    /\ polling' = FALSE
    /\ active' = NoConn
    /\ shownUp' = shownUp \ {p.conn.id}
    /\ polls' = (polls \ {p}) \cup {[conn |-> NoConn, at |-> "leftovers", ans |-> "none"]}
    /\ lost' = (lost \/ p.ans = "hung")
    /\ UNCHANGED <<known, busy, switching, paused, needsCleanup>>
    /\ UNCHANGED <<autoTries, jobs, boot, held, alive>>

DropLateFailure(p) ==
    /\ p.at = "stats" /\ p.ans \in {"hung", "dead"}
    /\ ~StillActive(p)
    /\ polls' = polls \ {p}
    /\ UNCHANGED <<cardVars, autoTries, jobs, boot, systemVars>>

\* No answer counts as leftovers here.  The answer is applied whatever came after it.
ControllerLeftovers(p) ==
    /\ p.at = "leftovers" /\ p.ans = "none"
    /\ \E ans \in {Leftovers, "yes"} :
          polls' = (polls \ {p}) \cup {[p EXCEPT !.ans = ans]}
    /\ UNCHANGED <<cardVars, autoTries, jobs, boot, systemVars>>

LeftoversApply(p) ==
    /\ p.at = "leftovers" /\ p.ans # "none"
    /\ needsCleanup' = (p.ans = "yes")
    /\ polls' = polls \ {p}
    /\ lost' = (lost \/ busy \/ active # NoConn)
    /\ UNCHANGED <<known, active, shownUp, busy, switching, polling, paused>>
    /\ UNCHANGED <<autoTries, jobs, boot, held, alive>>

----------------------------------------------------------------------------
(* init(): it does not set busy, and the window is already open *)

ControllerBoot ==
    /\ boot.ans = "none"
    /\ \/ /\ boot.at = "recover"
          /\ boot' = [boot EXCEPT !.found = IF alive THEN held ELSE None,
                                  !.ans = IF alive THEN "yes" ELSE "no"]
       \/ /\ boot.at = "stale"
          /\ boot' = [boot EXCEPT !.ans = Leftovers]
    /\ UNCHANGED <<cardVars, autoTries, jobs, polls, systemVars>>

\* A running tunnel is adopted, whatever this.active is by now.
BootAdopts ==
    /\ boot.at = "recover" /\ boot.ans = "yes"
    /\ boot.found \in known
    /\ Connects(boot.found)
    /\ shownUp' = shownUp \ {boot.found}
    /\ IF HasWatchdog
       THEN boot' = BootAt("watch") /\ UNCHANGED polling
       ELSE boot' = BootAt("done") /\ StartsPolling
    /\ lost' = (lost \/ busy \/ active # NoConn)
    /\ UNCHANGED <<known, busy, switching, paused, needsCleanup>>
    /\ UNCHANGED <<autoTries, jobs, polls, held, alive>>

BootWatches ==
    /\ boot.at = "watch"
    /\ StartsPolling
    /\ boot' = BootAt("done")
    /\ UNCHANGED <<known, active, shownUp, busy, switching, paused, needsCleanup>>
    /\ UNCHANGED <<autoTries, jobs, polls, systemVars>>

\* Nothing runs, or a tunnel that is not in the list (removed meanwhile): that one stays
\* up with the card off.
BootFindsNone ==
    /\ boot.at = "recover" /\ boot.ans # "none"
    /\ boot.found \notin known
    /\ boot' = BootAt("stale")
    /\ lost' = (lost \/ boot.ans = "yes")
    /\ UNCHANGED <<cardVars, autoTries, jobs, polls, held, alive>>

\* No answer from the service: init() is rejected, and nothing that follows it runs.
BootFails ==
    /\ boot.at \in {"recover", "stale"} /\ boot.ans = "none"
    /\ boot' = BootAt("done")
    /\ lost' = TRUE
    /\ UNCHANGED <<cardVars, autoTries, jobs, polls, held, alive>>

\* Leftovers are reported and, when no connect follows, taken down at once: cleanup()
\* refuses while a call the user made meanwhile is in progress or has connected.
BootEnds ==
    /\ boot.at = "stale" /\ boot.ans # "none"
    /\ boot' = BootAt("done")
    /\ needsCleanup' = (needsCleanup \/ boot.ans = "yes")
    /\ lost' = (lost \/ busy \/ active # NoConn)
    /\ \/ UNCHANGED <<busy, jobs>>
       \/ /\ boot.ans = "yes" /\ ~AsksEachTime
          /\ NotBusy /\ active = NoConn
          /\ busy' = TRUE
          /\ \E j \in Slots :
                /\ jobs[j].at = "free"
                /\ jobs' = [jobs EXCEPT ![j] = [FreeJob EXCEPT !.at = "cleanup"]]
    /\ UNCHANGED <<known, active, shownUp, switching, polling, paused>>
    /\ UNCHANGED <<autoTries, polls, held, alive>>

----------------------------------------------------------------------------
(* What happens around the manager *)

\* The daemon goes by itself; its routes and DNS stay.
DaemonDies ==
    /\ alive
    /\ alive' = FALSE
    /\ UNCHANGED <<cardVars, autoTries, callVars, held, lost>>

CallSteps(j) ==
    \/ HookLetsGo(j) \/ HookLosesTunnel(j) \/ HookRefuses(j)
    \/ ControllerUp(j) \/ UpSucceeds(j) \/ UpTriesAgain(j) \/ UpFails(j)
    \/ ControllerRecover(j) \/ PreviousKept(j) \/ PreviousGone(j)
    \/ ControllerStale(j) \/ StartSettled(j)
    \/ ControllerDown(j) \/ Disconnected(j) \/ CleanedUp(j)

PollSteps(p) ==
    \/ ControllerStats(p) \/ StatsApply(p) \/ WatchApply(p) \/ HungHeals(p)
    \/ DeclareDead(p) \/ DropLateFailure(p)
    \/ ControllerLeftovers(p) \/ LeftoversApply(p)

BootSteps == ControllerBoot \/ BootAdopts \/ BootWatches \/ BootFindsNone
             \/ BootFails \/ BootEnds

Next ==
    \/ \E id \in Tunnels : Connect(id) \/ RemoveTunnel(id)
    \/ Reconnect \/ Pause \/ Resume
    \/ \E j \in Slots : Disconnect(j) \/ Cleanup(j) \/ CallSteps(j)
    \/ PollStarts
    \/ \E p \in polls : PollSteps(p)
    \/ BootSteps
    \/ DaemonDies

Spec == Init /\ [][Next]_vars

\* Every request is answered (the client's timeouts see to it), the event loop gets to
\* every callback, and the poll timer fires every second: some tick meets a manager that
\* is not busy, however often the user asks it for something.
Fairness ==
    /\ \A j \in Slots : WF_vars(CallSteps(j))
    /\ SF_vars(PollStarts)
    /\ WF_vars(\E p \in polls : PollSteps(p))
    /\ WF_vars(BootSteps)

FairSpec == Spec /\ Fairness

----------------------------------------------------------------------------
(* Safety *)

Working == {j \in Slots : jobs[j].at # "free"}
Booted == boot.at = "done"

\* One operation at a time (TUN-04): the user, the tray, the polls, the start-up cleanup
\* and a refreshed key all start calls between each other's awaits, and at most one of
\* them is ever under way; `busy` says whether one is.
OneOperation ==
    /\ busy <=> Working # {}
    /\ \A j, k \in Working : j = k

\* Between operations a tunnel that runs is the one the card shows as on, whatever late
\* answers of earlier connections still come in.
CardMatchesSystem ==
    ~busy /\ Booted /\ ~lost /\ alive => active # NoConn /\ active.id = held

\* Routes and DNS that a dead daemon left behind are offered for removal («Восстановить
\* сеть»), except while the daemon's death or what it left is still being asked about.
LeftoversOffered ==
    (/\ ~busy /\ Booted /\ ~lost
     /\ active = NoConn
     /\ held # None /\ ~alive
     /\ ~\E p \in polls : p.at = "leftovers")
        => needsCleanup

\* A tunnel shown as on is polled, so that its death is seen: after a switch that failed, a
\* reconnect, an adoption, a declined removal.
RunningIsWatched == active # NoConn /\ Booted /\ ~paused => polling

----------------------------------------------------------------------------
(* Liveness, under FairSpec *)

\* Every operation ends, however its controller calls fail, and the card takes clicks again.
OperationEnds == busy ~> ~busy

\* The death of the tunnel on the card is noticed, unless the tunnel is brought up anew or
\* the removal screen stops the polls.
DeathNoticed == (active # NoConn /\ ~alive) ~> (active = NoConn \/ alive \/ paused)

----------------------------------------------------------------------------
(* What comments say and the code does not do *)

\* manager.ts:602 leaves a poll whose tunnel was "disconnected or switched meanwhile" alone;
\* a tunnel that is off would then never be shown as up.
OffShownAsOff == shownUp \subseteq {active.id}

\* types.ts:199: activeId is the "Tunnel currently running (or starting)", which the
\* removal of a server relies on (TUN-03): what runs is then always in the list.
ConnectedIsListed == active # NoConn => active.id \in known

\* manager.ts:613: the card goes off by itself because the "Socket gone: the daemon died
\* underneath us".
DeclaredDeadIsDead == [][\A p \in polls : DeclareDead(p) => ~alive]_vars

\* manager.ts:382, the removal screen is up: "nothing may talk to the service any more".
QuietWhilePaused == paused => ~polling
============================================================================
