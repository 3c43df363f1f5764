# A verification development of SenAmneziaWG

SenAmneziaWG is a desktop VPN client: an Electron application in TypeScript (`src/src`) and a privileged
helper in Go (`src/helper`) that runs the tunnel daemon and changes the system's routes and DNS. The code
is small where it decides and large where it talks to the operating system. These TLA+ modules are about
where it decides: which tunnel runs, who knows it, and what is left behind when something fails in between.

Paths below are relative to the repository. `PROJECT.json` maps every definition to the lines it models.

## 1. Inventory

### 1.1 Parts and how they interact

```
 user, tray, timers                        GitHub releases / sen server
        |                                            |
  main/index.ts ----> sen/manager.ts <---------------+----> update/*, setup/*, uninstall/*
        |                  |  hooks (beforeConnect, onStale)            | privileged `awg-helper setup|remove`
        v                  v                                            v
  tunnel/manager.ts  (one card, one operation)                   install directory, service
        |  TunnelController: up, down, recover, stats, hasStaleState, cleanup, watchdogAlive
  linux/windows/macos controller -> helperClient (socket / pipe, start on demand, timeouts)
        |
  awg-helper service: dispatch -> controller (c.mu) -> amneziawg-go, ip, resolvectl, state.json
        |                               |
  internal/lifetime (when to stop)     internal/splitdns (DNS proxy, leased routes)
```

The main process is one event loop: a handler runs undisturbed up to its next `await`, and any other handler
may run there. The service is concurrent: a goroutine per request, one per watched process, one per daemon;
what changes the tunnel takes `c.mu`. The two share no memory. They share the system below (routes, DNS,
the daemon), the request socket, and files.

| Component | State it keeps | Operations | What is hard | What makes it correct |
|---|---|---|---|---|
| Tunnel manager, `main/tunnel/manager.ts` | the active connection, `busy`, per-server status, poll timer, reconnect attempts, `needsCleanup` | connect, disconnect, reconnect, cleanup, init, pause/resume, forget; poll and heal from timers | every `await` lets polls, clicks, the removal screen and start-up in between; late and lost answers | one operation at a time; the card shows what runs; what is left over is offered for removal; a death is noticed; every operation ends |
| Controllers and service client, `main/tunnel/*Controller.ts`, `windows/helperClient.ts` | a shared start of the service, pending requests | request, start on demand, retry once, time out | a service that stops between start and request; a request done but not answered | one start for all callers; a mutating request is never repeated after it may have taken effect |
| Service lifetime, `helper/internal/lifetime` | followed pid, generation, `closed`, a one-value channel | Watch, Idle, Close, Done | a watcher that returns after the app it watched was replaced; a second send under the lock | stops only for the latest application; asks once; always stops after it |
| Linux service, `helper/*_linux.go` | tunnel fields under `c.mu`, `state.json`, `service.pid`, socket, resolv.conf copy | up, down, cleanup, reconcile, daemonExited, serve, leave | SIGKILL between any two steps; daemon exit at any time; two services | memory, record and system agree; a dead daemon's traffic is held; nothing outlives the application |
| Setup and removal, `helper/setup_linux.go`, `remove_linux.go`, `internal/setup` | install directory with staged and old copies, `install.json`, progress file | doSetup (undo stack), Stage/Swap/DiscardOld, stopRunningService, runRemove | a crash between two renames; a service that does not stop in time | one whole copy always exists; what was applied is undone before its record goes |
| Keys and subscriptions, `main/sen/*` | keys, the servers each brought, lapse and retry timers | import, refresh, logout, removeSubscription, devices, beforeConnect, onStale, lapse | one lock per key, held across the network; the running server disappears from the list | list and secrets agree; the running tunnel is not removed under the user except by a revoked key |
| Store, `main/store.ts` | tunnels.json, secrets | saveTunnel, updateTunnel, removeTunnel, forgetTunnels | two files, no transaction | no server without its keys after a crash, no keys for ever without a server |
| Updater and in-app installer, `main/update/*`, `main/setup/*` | phase, downloaded file, delta, prefetch, handoff file | check, download, prefetch, install, restart, takeover | timers and clicks overlap; two processes and a privileged third | what is installed was verified; the old application always ends up restarted or replaced |
| Split DNS, `helper/internal/splitdns` | leased routes, pins, order of eviction | Handle, Ensure, Pin, Expire, Adopt, Close | a lease that goes while an answer that needs it is on its way | an address answered to a program has its route; leases never exceed the limit; all are removed |
| Rules, `shared/routingRules.ts`, `helper/splitcommon.go`, `perapp*.go`, `internal/splitdns` | the three views of the editor; cgroups, rules, the scanner's memory | parse, switch views, compile; look through /proc, move, put back | four changes of form; processes that fork and exit while they are looked at | the first rule that fits decides in every form; nothing is left behind |
| Windows service, `helper/*_windows.go` | two services, `.conf`, `state.json`, `split.json`, the DNS Client's rule | up, down, reconcile, the watcher of the network | the two services die apart | nothing of a dead tunnel stays; names are answered |
| macOS service and script, `helper/*_darwin.go`, `resources/scripts/awg.sh` | `state.env`, the monitor, the DNS of every network service, `split.json` | the script's up and down, the monitor, the proxy | three programs that share only files | what is changed is recorded for whoever undoes it; it follows the network |
| Shell, `main/index.ts`, `tray.ts`, `appOptions.ts` | the single-instance lock, window, icon | start, hand over, hide, quit | several applications and installers at once | one steers the tunnel |
| Window, `renderer/src` with `main/logger.ts`, `report.ts`, `tunnel/fileTail.ts` | copies of the main process's state, dialogs, the journal | fetch, push, edit, preview, add, report | answers and pushes overtake each other | a quiet page shows what is; a person's word is about what was on the screen |
| Account, `lib/payments.ts`, `KeysDialog.tsx`, `main/ma7*.ts` | the remembered account, the request under way, closed notices | pay, change the number of devices, ask for notices | the server says only what is, not what happened | the answer is read, the sum pressed is the sum taken, closed stays closed |
| Vault, protocol, parsers, probes, scripts | see `PROJECT.json` | | pure or I/O | the repository's own tests |

### 1.2 Hazards

`PROJECT.json` lists 40, each at the line where it bites, with the properties that watch over it or the
reason why none does. They fall into these groups: answers applied to a later state (manager polls, the
start-up call, `hasStaleState`, the watchers of Lifetime, previews and pushes of the window); answers lost
(client timeouts, payments); partial failure of sequences (`up`, a switch, setup, removal); kills between
steps (services, scripts, setup, store); actors sharing a file (PID file, socket, `state.env`, install
directory); one thing in several forms (rules, the journal and its copy); and things that must eventually
happen (an operation ends, a death is noticed, the service stops, an answer is shown). Where neighbouring
lines are exposed to the same mishap the list names the first.

## 2. The modules

| Module | Models | Kind |
|---|---|---|
| `TunnelManager` | `main/tunnel/manager.ts` over the contract of `TunnelController.ts` | detailed |
| `ServesTheApp` | what the service promises about its own life | abstract |
| `Lifetime` | `helper/internal/lifetime/lifetime.go`, implements `ServesTheApp` | detailed |
| `LinuxService` | one service process after another, the lock, the daemon, routes, DNS and records | detailed |
| `MacTunnel` | `awg.sh`, its monitor, `tunnel_darwin.go`, `split_darwin.go` | detailed |
| `WinTunnel` | `tunnel_windows.go`, `split_windows.go`, `state_windows.go`, `service_windows.go` | detailed |
| `SplitRoutes` | `internal/splitdns/routes.go`, the queries of `proxy.go` that use it, `split_linux.go` | detailed |
| `Routing` | `shared/routingRules.ts`, the editor, `splitcommon.go`, `internal/splitdns` | detailed, with a reference |
| `PerApp` | `perapp.go`, `perapp_linux.go` | detailed |
| `SenSync` | `main/sen/manager.ts` over `sen/store.ts`, `main/store.ts` and the contract of the manager | detailed |
| `Updater` | `main/update/updater.ts`, `server.ts`, `retry.ts`, `index.ts`, `handoff.ts`, and `main/setup/*` on the installer's side | detailed |
| `HelperClient` | `tunnel/windows/helperClient.ts` and the shared `hello` of the Windows and Linux controllers | detailed |
| `Shell` | `main/index.ts`, `tray.ts`, `appOptions.ts`: processes and windows | detailed |
| `Setup` | `setup_linux.go`, `setup_windows.go`, `install_darwin.go`, `update/mac.ts`, `internal/setup/*`, and the removals | detailed |
| `Installer` | `renderer/installer`, `RemoveScreen`, `main/setup`, `main/uninstall` | detailed |
| `Payments`, `KeyCount`, `NoticeCenter` | an account of MA7: `lib/payments.ts`, `ProfileView.tsx`; `KeysDialog.tsx`; `ma7Notices.ts`, `Notices.tsx` | detailed |
| `Journal`, `DaemonLog` | `logger.ts`, `useLogs.ts`, `ReportDialog.tsx`, `report.ts`; `fileTail.ts` | detailed |
| `AddServer`, `Page` | `useLinkPreview.ts`, `Welcome.tsx`, `AddTunnelDialog.tsx`; `App.tsx`, `useAppState`, `useUiSettings` | detailed |
| `MCTunnelManager`, `MCSplitRoutes`, `MCSenSync`, `MCUpdater` | constants and symmetry for TLC | instances |
| `MCServices`, `MCProcesses`, `MCInstalls`, `MCRules`, `MCTunnels`, `MCAccount`, `MCWindow` | several parts for one run each, see 2.15 | joins |
| `TunnelManagerProofs`, `LifetimeProofs`, `SetupProofs`, `SplitRoutesProofs`, `ProcessesProofs`, `UpdaterProofs`, `WindowProofs`, `AccountProofs` | theorems, see 4 | proofs |

### 2.1 TunnelManager

*State.* `active` is `this.active`. The code compares connections with `===`, so a connection is a tunnel and
an identity. Identities are reused: the lowest one that no poll in flight remembers is taken, so
`MaxPolls + 1` are enough for any run and no fresh connection is ever mistaken for an old one. `shownUp` is
the set of tunnels whose status is `up`; `busy`, `switching`, `paused`, `needsCleanup`, `autoTries` have
the code's names. `polling` is whether the timer is set. The
reasons of `heal()` for a reconnect (`routeLost`, `watchdogDead`, `wokeAt`) are not state: one may hold at any poll,
which allows every reconnect the code makes, and at every moment.

*Calls.* A call of connect, disconnect, reconnect or cleanup is a record in `jobs`: the `await` at which it
stands (`at`) and the answer of the controller once it is there (`ans`). The controller acts in a
`Controller...` step and the manager applies the answer in a later one: everything else may come
between. Polls (`polls`) and `init()` (`boot`) are split the same way. What the code does between two awaits
is one action. There is one place where an `await` is not a step: between the `busy = false` of
`beforeConnect` (manager.ts:307) and the continuation of `start` that sets it again only promise
continuations run, and Node drains those before it takes another event; so the return of the hook
and the following check are one action (`HookLetsGo`, `HookLosesTunnel`, `HookRefuses`).

*System.* `held` is the tunnel whose routes and DNS the system carries, `alive` whether its daemon runs. `up`
may fail before anything was touched (the system stays as it was), fail later (nothing is left), succeed,
succeed and be answered too late, or bring the daemon up without the interface (TUN-10). `down` and
`cleanup` may succeed, fail having done nothing, or be done and not answered. The daemon may die at any
moment, hang at any poll.

*The history variable* `lost` is true while the manager cannot know: an answer was lost, or one that was asked
for in an earlier state was applied over a later call, or a daemon that hangs was given up on. The next
operation that succeeds clears it. Without it `CardMatchesSystem` and `LeftoversOffered` would be false for
reasons no client could help; each place that sets it is a hazard in the list.

*Left out:* journal texts, the end-to-end connectivity probe and the `onStale` notice: they write to the
journal or to the text of the card, or call the sen hook. Time is nondeterministic: a pause of `heal()` may or
may not have passed.

### 2.2 ServesTheApp and Lifetime

`ServesTheApp` is the package comment of `lifetime.go` as a specification: the service is there for the
latest application that asked for something; it may ask to stop only while that one is gone (or none ever
came), and only once. `Lifetime` is the code: each body under the lock is one action, each goroutine a watcher
`[pid, gen, at]`, where `"gone"` is a goroutine past `awaitExit` that has not got the lock yet. `Watch` may
be called for a process that has died since. The refinement maps `served` to `pid` and `stopping` to
whether a value was sent or `Close` was called. Pids are not reused (the code has the same assumption between
the moment it reads the peer's pid and the moment it opens a handle on it).

### 2.3 LinuxService

*State.* Per service process its `phase`, the requests that wait for `c.mu`, the operation that holds it
(`op`: what, at which step, and the record it has built so far) and `mem`, the controller's fields. Beside
them what survives a process: `state.json` (`saved`), `service.pid`, the socket's path, resolv.conf and its
copy, the daemons and the parts of the routing (`"rules"`, `"split"`, `"apps"`, and `hole`, the black holes
of a daemon that died).

*Actions.* Each step of `up`, `teardownLocked`, `reconcile` and `daemonExited` between which a SIGKILL makes a
difference is an action. `teardownLocked` and `reconcile` do the same things in the same order, from memory
and from the record: they share the steps `KillsDaemon`, `UndoesNetwork`, `ClearsState`. `up` begins with
these when it replaces. `Killed` may come anywhere; it takes the memory, the goroutines and the lock, and
leaves the rest. The stop of a service by itself is the promise of `ServesTheApp` (`Abandoned`), not the
machinery of `Lifetime`: that is what the refinement is for.

*The history variable* `forgotten` is true once something applied is in no record: an `up` or a
`daemonExited` was cut short by a kill between its first effect and `saveState`, or a removal deleted the
records over a system that was not clean. It is the code's known gap (state.json is written last) and every
property says "unless" to it and to nothing else.

*Abstracted:* `startSplit` and `startPerApp` are one step each with their own undo inside (they return
either applied or rolled back). *Left out:* a resolvectl that half succeeds, a `failClosedTable` that fails, the
reuse of a daemon's pid by another process (the code compares the name), status and diagnostics.

### 2.4 SplitRoutes

*State.* `pinned` and `seen` are the maps of `RouteSet`. There are only two ways by default and a name that takes
the default one, or is blocked, gets no lease, so every lease goes the `Other` way and `seen` is a set;
`since` is its clock. `system` is what the kernel has: `rules` (to the main table, for "direct") and `main`, where an
address has a route on the interface, a black hole or nothing. A query of the proxy is a record in `queries`: the
addresses of its answer still to be leased and those leased. `link`, `dead`, `hold` and `toHold` are the
interface, `linuxRouter.dead` and the progress of `failClosed`.

*Actions.* A method of `RouteSet` holds its mutex throughout and is one action; between the addresses of an answer,
and between the black holes of `failClosed`, which works on a copy without the mutex, anything may happen. The
kernel may refuse any route, and must refuse one on an interface that is gone. Unrouting deletes only a route of
the kind that is asked for (a route of the interface is no black hole), and is taken not to fail otherwise.

*Time* passes in ticks of the longest a query may take; a route lasts `RouteTTL` of them and a program may use
an answer for `AnswerTTL`, which is less by more than a query (an hour, a minute, and some seconds in the code).
Expiry may come any time after it is due. Of the leases of one tick any may count as the oldest.

*History variables.* `told` is how long ago a program was given the address of a leased route; `unlaid` the
addresses whose black hole the kernel refused, which the code only reports; `late` those that `failClosed`
black-holed after their lease had gone.

*Left out:* networks wider than one address (they share no kernel rule with a lease), `Adopt` (other platforms),
the matching of names, the upstream exchanges, and a kill of the service, which LinuxService has (`"split"`).

### 2.5 SenSync

*State.* One master key. `sub` is its record (subscriptions.json: status, revision, which card each of its servers
has), `listed` the cards (tunnels.json), `secrets` what is kept for each of them; every file is replaced whole. `srv` is the
key's server: its revision, its present servers, the device key it knows, whether it asks for a new one or has withdrawn the
key. Revisions, device keys and preshared keys are numbered by the revision that brought them, so "the record is
current" and "the keys are current" are comparisons of numbers. `mgr` is the tunnel manager by its contract: one
operation at a time, `active` still the old tunnel in the hook and none while the new one starts.

*Actions.* A call (`ops`) is an import, a poll, a hook of a connect, an `onStale`, a visit to the devices or a
removal; `pc` is the `await` at which it stands. `queue` is the promise chain of `locked()`: the calls of one key take
turns, and what a call does after its turn (`lapse`, `onStale`, a revoked key's disconnect) it does with the lock free.
`apply()` writes card by card (`Update`, `SaveKeys`, `SaveCard`, `Written`), `takeOff()` and `sweep()` remove card by card
(`TakeCard`, `TakeKeys`, `Swept`, `TakenOff`), and any of these writes may fail or be the last before a `Crash`. A removal of a card
that fails is caught, and the record drops the card all the same (`Dropped`); an import that fails takes its cards back, but not
the keys of the one that it had half saved (`WriteFails`). `Exchange` and `Rekey` may be done by the server and not answered. The
disconnect of `onStale` throws only while another operation is under way (TUN-04; `down`'s own failure is caught in the manager), and then the call ends there (`Suspend`).

*Left open or out:* which server errors count for a lapse (KEY-21 and its grace) is nondeterministic at each read. Servers
of other origins, the accounts (login, logout, `adoptAccount`), the preview of a link, the time of the last request and
`STALE_RETRY` are left out; the unbinding of a device is best effort, as in the code; a key is imported once, though a failed
import may be repeated. No liveness is claimed: whether an exchange comes to an end is up to the server.

### 2.6 Updater

*State.* `card` is what the user sees, `running` the download whose file must be let go of, `ops` the downloads under way
with the place they have come to (`wait`, `look`, `delta`, `tree`, `whole`, `verify`), `offered` and `file` what server.ts
remembers, `wholeOnly` the flag of an install from changed files that failed. `disk` is the installer of each version on
disk: how many of its two pieces, and the builds they are from, since a version may be built again under its name.
`win`, `marker` and `setup` are the installer's window, the word it leaves for the application and the elevated setup of each
install: two processes that outlive the call that started them.

*Actions.* A request ends with a piece, a failure (tried again up to `Tries` times) or a time limit; `Pause` aborts it, but the
download goes on up to its next `await`, which is what the next one waits for. `Install` starts the window; `Hears` is
`waitForMarker`: shown, called off, failed, dead, or nothing for five minutes. The setup is prompted for, stages, and swaps
when the application has closed; it may be undone at any of these.

*Left out:* sizes and the shown total, what files.ts computes about changed files, held blobs, the updater of the installer's own
window, the simulated source, and the form of a signature.

### 2.7 HelperClient

*State.* A call is a request with the controller's method around it: `pc` is where it stands, `on` the start it joined, `n` how
often it was sent since, `acts` how often the service carried it out. `starting` and `engine` are what calls share: the start
of the service and the `hello`. `svc` is the service: off, coming, up, or going (it reads no more requests), and whether it
speaks this application's protocol. What is remembered is not always of the service there is now: a start may outlive the service it made, and a
call that ends forgets whatever start is remembered (`Forgets`). `SharesAreLive` therefore claims no more than that nobody waits in vain. *Actions:* `Connects` finds the pipe or not, `Joins` shares a start or makes one,
`Attempts` is `startService` as a whole with its retries, `Waits` is the pause before another send, `Acts`,
`Answered`, `TimesOut` and `Closed` the ways of a request that was read. The service may die between reading a request and
answering it. *Left out:* the macOS controllers, whose calls do not start a service, and which capabilities a remembered `hello` names.

### 2.8 Setup

*State.* Three folders, `app`, `next` and `old`; a folder is a function from file names to the version each file is of, so a
mixture, a torn file and a half-removed folder are all states. `svc` is the Windows service's own copies; `reg` is
install.json, the registry's AppPath or the launchd plist; `unit` the polkit policy, the service in the SCM or the launchd
job. `undo` is the list of the deferred undo, newest first, and `run` what was asked and found. `platform` chooses among four
programs that share swap.go and the shape of doSetup: setup on Linux, setup on Windows, the script of the macOS update
(`"bundle"`) and the install of the macOS service (`"service"`).

*Actions.* A copy is one action per file; a rename, an entry, a check one each. Each may fail (`Fault`), after which the undo
list is worked off an entry at a time, and an entry may fail too (`stuck`), leaving any part of what it was removing. `Crash`
ends setup or remove between any two actions, and nothing is undone. The application may be closed at any time, and started
only while no setup or removal runs, since their window holds the single-instance lock. Linux and Windows wait for a closing application for
a minute, the macOS script for ever.

*Left out:* the menu entry, the icon, the link in /usr/local/bin (best effort); a file torn by a kill rather than by a failed
write; made directories, which go with their files; the service's own end, which is in LinuxService.

### 2.9 Installer

*State.* `start` is what a window is for (a fresh install, an update from the application, a seamless one, an installed copy, `--maintenance`,
or «Удалить SenAWG» inside the application) and on which system. Four clocks run: the helper writes its progress (`work.said`), the main
process reads it now and then (`work.read`), what it sends travels (`wire`), and the page plays it in beats of its own (`beats`, `timers`).
*Actions.* The administrator's prompt (`Prompt`, `NoAgent`, `AskPassword`), the helper (`Reports`, `HelperFails`, `HandsOver`,
`FallsSilent`), the main process (`Follow`, `Settle`, `RemovalSettles`) and every button and timer of the page. What the helper does to
the machine meanwhile is Setup.

*Left out:* in setup mode `sen.start()` is never called; the timer that fades `backToChoice`; a progress file that cannot be read;
pkexec that dies while its question is on the screen; the rehearsals a browser plays.

### 2.10 Routing and PerApp

`Routing` takes the rules through their four forms: the three views of the editor (`settings`, `draft`), the one list that `parseRouting`
makes of them, the list that the machine can carry out (`Sent`, by platform and service), and the groups, networks and programs of the
service (`Compiled`). What a machine can carry out differs: without its programs a rule about them is not sent, and the Windows service
refuses to black-hole a network (split_windows.go:254), so that a blocking `ip` rule is left out there (`Laid`, `blocks`). A text is the sequence of its lines, a name the sequence of its labels, an address its bits; a keyword or an
expression is the set of names it fits. The trie of the matcher is `Nodes` and `WalksTo`. The reference is `Meant`: what the
lines of the editor say, read from the top.

`PerApp` is the scanner of Linux. The service lists `/proc` in one step (`Lists`) and moves each process in a later one (`LooksAt`);
processes start, fork, run another program and exit in between. `Stop` undoes in the code's order, `Killed` may come anywhere and
`Boot` is the next service's clearing. A start that fails at one of its folders or at its rules undoes what it had made (`Start`). *History:* `home` and `inside` say where a process began, `lost` that a kill came before `saveState`.

*Left out of the two:* nested `ip` rules and `dnsRules` (splitcommon.go:77); expressions valid in JavaScript and not in RE2, `C:\` paths on Linux, rules over 128 KiB;
a pid used again; the second address family's refused rule. A child forked inside a cgroup of the service stays there if no rule names it
(perapp_linux.go:259), and processes of a killed service go to the root cgroup: `NothingStays` and `BackWhereItWas` except them by `inside` and `lost`.

### 2.11 MacTunnel and WinTunnel

`MacTunnel` has three programs that only files tie together: awg.sh, whose steps and variables are `job`; the monitor it leaves
(`monitor`), with a copy of the same variables; and the service (`service`, `proxy`), which runs one script at a time and kills it when
its time is over. `file` is state.env and `splitFile` split.json. The system is the DNS setting of every network service, the host route, the
black holes, the routes of names and the daemons. A step of the script between which a kill, a change of network or a step of the
monitor makes a difference is an action.

`WinTunnel` has two services that die apart: ours (`helper`) and the tunnel's (`tun`). `job` holds `c.mu`; beside it go the proxy
(`NameAsked`, `NameExpires`), the watcher of the network and the flush of split.json. `conf`, `state` and `splitFile` are what a
restart reads; `Reconciles` is the way from these to what is kept. A tunnel marked for deletion while its process runs (`doomed`) stays registered until it ends.

*History.* `excused` collects the windows that the properties except, each with the fault or the order of steps that leads there; `orphans` the direct routes on Windows that no record names.
On macOS: `refused` (networksetup did not set a DNS or put it back), `timeout` (a script killed while it waited for a command), `missed` (the network changed after an `up` had read it and before its monitor ran), `window` (what the
monitor did before it was killed, or before the script saved over it, is in no record), `restart` and `flush` (the proxy did not start again, or its store was not saved) and `body`: an `up` that could not write the file of its split
(tunnel_darwin.go:188-204) returns without stopping the run it has begun; the service forgets it, it keeps port 53 (`proxy` is `"lost"`), and later ups with rules are refused until the service ends.
On Windows: `conf` (a crash, or a write that stopped half-way, left a .conf that nobody uses), `rule` (a key of the DNS Client's rule refused one of its values and stays in part,
split_windows.go:285-301), `unanswered` (a crash where no record tells that a proxy is needed, `Unrecorded`; port 53 taken at a restart; the service manager not answering for a
tunnel, `Delete` and `ReconcileTunnel`), `kept` (a restart that took a doomed tunnel for one to keep), `missed` and `adopted`. A teardown that deletes the service takes `conf`, `kept` and `unanswered` back, the end of a rule or a whole one takes `rule` back. *Left out:* on macOS, pids used again, a second monitor, a kill of the script
other than while it waits, and of the service while a script runs; the monitor's start within its first second. On Windows, the third crash in 24 hours, a race
of `splitStore.close`; an adapter's gateway that goes is taken to leave the routes.

### 2.12 Payments, KeyCount, NoticeCenter

An account of MA7, as three parts of the window see it; MA7 itself is external and does what its answers allow. `Payments`: `account` is the truth,
`cache` and `entry` what the page's storage keeps, `ask` the one request under way that several callers share, `page` and `dialog` the two readers. The history `before`, `answers`
and `late` say what an administrator has really answered. `KeyCount`: the dialog's state has the names of the code; `table` has a price for each count, `call` is the request of a pressed button with
the sum it named, `pricing` the newest answer of prices, `charged` the history of sums taken. A purchase that MA7 refuses for a sum that moved (`Conflicts`) is counted again
(`CountsAgain`), and the new sum takes the old one's place in the table (`Quoted`, KeysDialog.tsx:207) before all the prices are asked again: that may fail, and the new sum is on the button then. `NoticeCenter`: `sent` and `withdrawn` are MA7's, `cache` and `round` the main
process's, `dismissed` is settings.json, `window` what the page was told and `fetch` the page's first question, which pushes may overtake; `closed` is the history of what was closed and has
been sent ever since, and `stale` says that the page shows an answer older than the last push.

*Left out:* other money movements between the remembered account and the one read; a `paid` whose reply is lost; `accountDevices` takes the first key with the login (index.ts:506).

### 2.13 Journal, DaemonLog, AddServer, Page

Each is a page and the main process with two ways between them: pushes, which keep their order, and answers, which keep theirs; the two may overtake each other.
`Journal` has the ring and the page's copy of it, «Очистить» and the two-step report; an entry is its number. `DaemonLog` is the engine's log, the follower that reads it and the
filter of repeats; a line is two halves, so that a read may end inside one. A poll is two steps, the look at the file (`Poll`) and the reading (`Read`), and between them the file may be replaced, cut in place
(`Truncates`, which nothing in the program does to it) or grow; the look and the read of a start are one step. What the follower cannot see is `Unsure`, and the property says nothing of it then:
a replacement without inodes, another file or a cut between the look and the read, and a cut file that has grown past the offset again. `AddServer` is the field with its preview, its two forms and the import behind them; an answer of
`previewLink` or `importLink` may arrive after the field, or the form, has changed. `Page` is `useAppState` and `useUiSettings` over the manager's snapshots, with settings shown before they are saved.

*Left out:* entries under way during «Очистить», which may stay or vanish (`across`); peeking at slots that are taken.

### 2.14 Shell

Several processes of the application on one desktop: started, waiting for the single-instance lock, an installer's screen, running, quitting. `attempts` are the
second-instance events under way. The lock is external: one owner, who hears of each attempt. *Left out:* the screens only developers see.

### 2.15 The modules that join parts

`MCServices`, `MCProcesses`, `MCInstalls`, `MCRules`, `MCTunnels`, `MCAccount` and `MCWindow` each instantiate two to four modules that share no state. `part` says which of them a behaviour
is about; the variables of the others keep their initial values, so that a run's state space is the sum and not the product of its parts, and nothing is lost: no property relates two of
the parts. `LinuxService` takes `Lifetime` by `ServesTheApp`, `Installer` takes `Setup` by the lines it reports, `Page` takes `TunnelManager` by what it may answer.
`MCSenSync` and `MCRules` give some constants and variables of their parts other names (`Exchanges`, `Nobody`, `stage`, `MaxConnections`), so that a proof module may be about two components at once.

## 3. What is checked

`tlc -config <cfg> <module>`, twelve runs, all of which pass:

| Run | Config, module | Instance | Shows |
|---|---|---|---|
| manager_safety | `ManagerSafety.cfg`, MCTunnelManager | 2 servers, 2 slots, 1 poll in flight, 1 automatic reconnect, with watchdog, symmetry | `CardMatchesSystem`: between operations the tunnel that runs is the one shown, whatever late answers arrive; `LeftoversOffered`; `RunningIsWatched` |
| manager_liveness | `ManagerLiveness.cfg`, MCTunnelManager | 1 server, 1 slot, 1 poll, 1 automatic reconnect | `OperationEnds`: however the controller fails; `DeathNoticed`: a dead daemon leaves the card or is brought up anew, or the removal screen is up |
| services | `Services.cfg`, MCServices | 3 processes, 4 changes of the followed one; one service process at a time, restarted any number of times, 2 daemons | `KeepsPromise` (Lifetime implements `ServesTheApp`); `CrashSafe`: what was applied is in the record whatever is killed; `MemoryMatchesSystem`; `NothingOutlivesApp` |
| split_routes | `SplitRoutes.cfg`, MCSplitRoutes | 2 addresses and the tunnel's DNS, 2 queries, 1 lease at a time, routes of 2 ticks, symmetry | `AnsweredIsRouted`: an address given to a program keeps its way for as long as the answer is good; `HeldWhenDead` |
| sen | `SenSync.cfg`, MCSenSync | 2 servers, 3 cards, 2 calls at a time, 3 revisions, 3 calls or faults of which 1 fault, two platforms | `ListedHasKeys`: no card without its keys, after any failed write or crash; `AppliedIsCurrent`: a record that claims the server's present settings tells the truth; `RecordIsListed`; `TurnIsLive`: a failed exchange hands its turn on |
| updater | `Updater.cfg`, MCUpdater | 2 downloads, 2 versions, 2 builds of one, 2 tries, 5 calls, 2 installs, 2 starts | `ReadyIsChecked`: what is offered for install is whole, of one build, checked and written by nobody; `HandedOver`: an application that closed has its successor's window open, one that goes on has no installer left |
| processes | `Processes.cfg`, MCProcesses | 3 calls, 1 further try, 1 death; 3 processes, 1 try at the lock, 1 change of «Работать в фоне» | `SharesAreLive`: no call waits for a start or a `hello` that will not come, and what is remembered of either is of a call that has not ended; `OneUi`: one process at most steers the tunnel |
| installs | `Installs.cfg`, MCInstalls | 4 platforms, 2 versions, 2 files, 4 runs, 3 faults or crashes; 2 works, 2 passwords | `SwapKeepsProgram`: an update never leaves the machine without the program; `RollbackRestores`: a failed one that could be undone leaves what was there; `DoneIsDone`: the screen says done of a work that ended so; `TickedIsGone`: servers and keys that are said to be erased are |
| rules | `Rules.cfg`, MCRules | 4 rules of 2 edits; 3 processes, 2 programs, 2 connections, 4 steps, 1 kill | `SameAnswers`: the views of the editor say the same of every name, address and program; `FirstRuleWins`: and so does what the service makes of them, but for what the machine cannot carry out; `NothingStays`: no cgroup, rule or moved process after the tunnel |
| tunnels | `Tunnels.cfg`, MCTunnels | 2 runs of the application and 1 change of the network each; macOS: 1 network service, 1 router that goes, 2 tunnels, 1 fault; Windows: a network and a name, 1 gateway or none, 2 crashes, refusals or timeouts | `UndoIsRecorded`: what is changed on macOS is in a file of whoever undoes it; `FollowsNetwork`; `NothingLeft`: nothing of a tunnel that is gone stays on Windows; `NamesAreAnswered`: nothing points at a DNS proxy that is gone; each but for the windows that `excused` names (2.11) |
| account | `Account.cfg`, MCAccount | 2 requests, 1 period, 1 loss; 2 devices, 3 places, 1 move, 1 failure; 2 logins, 1 notice, 2 changes, 1 fault | `AnswerIsRead`: a request made with nothing on the account, and remembered as the account then was, is shown as turned down exactly when the administrator found no transfer, but by an answer older than the request; `ChargedAsPressed`: money for places is the sum of a pressed button; `ClosedStaysClosed` and `NewsArrives`, on a page whose first list no push overtook |
| window | `Window.cfg`, MCWindow | ring of 2, 3 entries, 2 reports; 4 lines, 2 files or truncations, 2 starts; 4 links, 3 texts, 3 forms; 2 servers, 1 edit, 5 acts; 1 fault each | `JournalKeeps`: the page's journal is in order and, when nothing is under way, has the ring; `SentIsReviewed`: a report goes as it was looked over; `FollowsTheLog`: every line once and whole, as far as the follower can see the file change; `PreviewIsOfLink`: what is said of a key is said of the one in the field; `NoteIsSeen`: the first-run screen goes only after its note; `PageAgrees`: a quiet page shows what the main process has |

*Also known.* The modules also define properties that no run checks. Some hold, and say less than those above or are proved instead: every `TypeOK`, `OneOperation`, `AsksOnce`, `HandledOnce`, `HeldAfterDeath`, `OneDeviceKey`, `PauseHolds`,
`CallEnds`, `Settles`, `QuitEnds`, `FailedInstallLeavesNothing`, MacTunnel's `NothingOutlivesApp` and `DnsIsAnswered`, WinTunnel's `FollowsNetwork` and `EndsWithTheApp`. The others are what a comment, a doc or a reader would say and the code does not do; TLC found a behaviour against
each of them.

*Manager, service, routes.*

- `OffShownAsOff`: `poll()` sets the status at manager.ts:598, before it asks at 602 whether the tunnel was "disconnected or switched meanwhile": a late answer marks the one switched away from as up, and nothing
  corrects it.
- `ConnectedIsListed`: `activeId` is documented as "running (or starting)" (types.ts:199) and guards the removal of a server (TUN-03), but `start()` clears it (manager.ts:242) until `up` answers: a server can be removed while it
  is being connected to, and then runs unlisted.
- `RemovedIsClean`: the removal SIGKILLs the service after 3 s (setup_linux.go:286), while an `up` may hold the lock for longer: the tunnel stays, and the records that could have undone it are deleted.
- `QuietWhilePaused` (manager.ts:382): an operation that ends while the removal screen is up starts the polls again.
- `DeclaredDeadIsDead`: the path commented "the daemon died underneath us" (manager.ts:613) is also taken for a daemon that hangs, when no reconnect is possible: the card goes off over a tunnel that runs.
- `init()` asks the controller what runs and applies the answer at manager.ts:155 without asking whether a connection was made meanwhile: it takes that one's place on the card, and `lost` excludes it until the next operation.
- The `onStale` hook is "once per connection" (manager.ts:66), but a fresh handshake gives it another turn.
- `DiesWithService` (tunnel_linux.go:401): the comment says that the daemon cannot survive a SIGKILL of the service; the model has no reason for it to go, and the next service's reconcile is what kills it.
- `PidFileNamesService` and `MemoryMatchesSystem` are false with `Services = {v1, v2}`: an old service that is still taking its tunnel down removes the PID file and undoes the routing of the new one.
- `NothingOutlives` (routes.go:68, "so nothing outlives it"): `failClosed` black-holes an address whose lease goes between its copy of the set and its `Route`; the stop does not know that black hole. SplitRoutes' `ClosedIsClean`
  is what holds.
- `PinsStand`: pins are "not subject to the TTL or the cap" (routes.go:78), but a lease of the same address shares the kernel's rule with the pin and deletes it when it is evicted or expires (routes.go:130). A lease also
  overrides a pin that blocks the same address; which rule should win is not documented, so `AnsweredIsRouted` is about the addresses where the rules agree.

*Tunnel on macOS and Windows.*

- macOS: `fail_closed` lays the black holes before it records them, and the last `save_state` of an `up` erases `BLACKHOLE`; a restart of the service removes the black holes of a direct tunnel whose daemon died; an
  `up` that ran out of time leaves a tunnel without a monitor; SIGTERM removes the proxy of a tunnel that runs. Each of these is in `excused`.
- Windows: a `.conf` written before a crash stays until the next teardown; adopted direct addresses never enter `placed` (split_windows.go:575); `attach`'s refresh swallows a change of the network; a static direct rule
  laid while there was no gateway is not tried again.
- Windows, one fault: `os.WriteFile` that fails half-way leaves a .conf with what it wrote, the key perhaps, and `up` does not remove it (tunnel_windows.go:119-124); a rule of the DNS Client whose values were refused stays as a key
  (split_windows.go:285-301), since only the run that put it whole takes it back; a service manager that does not answer a teardown (tunnel_windows.go:220-222) keeps the tunnel registered while its .conf, proxy and record go.
- macOS, one fault: an `up` whose split file cannot be written forgets the split run it has begun (tunnel_darwin.go:188-204): no later `up` with rules succeeds before the service is started again.
- A rule that blocks an address is refused on Windows (split_windows.go:254) and the address goes the way of the rest, against docs/routing.md:85.
- Windows, two faults: the comment of `reconcileSplit` says that a kept tunnel's proxy "is started again from the saved state" (split_windows.go:548), but split.json goes before the proxy is up (562): a second
  crash there, or one while an `up` that failed is undone, leaves a tunnel whose DNS nobody answers, and no restart mends it. A start of the proxy that finds port 53 taken ends the same way.
- Windows, two faults: `reconcileTunnel` (tunnel_windows.go:297) keeps a running tunnel that a timed-out teardown has marked for deletion, and starts its proxy; when that tunnel ends by itself the proxy, its rule of the DNS
  Client and split.json stay until the next teardown. The first `NothingLeft` had no exception for it, and the run, of one fault then, passed; the attempt to prove it is what showed this.

*Keys and servers.*
- A removal of the key during the refresh that a connect's hook waits for leaves that connect's card in no record
  (sen/manager.ts:292 says the servers go with it); a crash between `saveTunnel` and the record's write does the same, and one
  in the middle of a removal can leave a record whose `updateTunnel` answers TUN-01 from then on.
- Settings or a new device key applied while a tunnel is in `up` count as applied, and nothing reconnects it; a 410 that comes then takes the card
  away, against sen/manager.ts:411-412.
- `sweep` and `takeOff` go on when the removal of a card fails (sen/manager.ts:513, 586): the card stays and no record names it. An import that failed leaves the keys of the card it was saving
  (sen/manager.ts:219-220, 254): no card has them.
- The reconnect at the end of `lapse` and `onStale` connects the tunnel that ran before, also over a server chosen meanwhile.
- A lost answer to a rekey leaves this computer with the old key; an apply that fails after a rekey leaves cards of two device keys,
  which the next apply of that revision does not rewrite; the list of vanished servers is computed from the answer before the rekey.
- `takeOff` puts back the login it read before its awaits, so an account logged out of meanwhile comes back; a failure of the
  network overwrites "revoked" with "offline"; a 410 heard by the devices screen and by a refresh is told twice.

*Updates.*

- `OneDownload` (updater.ts:99, "one at a time"): every resumed download waits for the same `running.done` and looks only at
  the card afterwards, so a download paused and resumed twice before the first has let go becomes two, into one file. `twice` says that
  this happened, and the other properties of Updater are about the rest.
- After the five minutes of the handoff are over the elevated prompt outlives the window that was killed: accepted later, it stages
  while another install may run; if the application was started anew meanwhile, the old setup waits for the old pid only
  (setup_linux.go:108) and swaps under the new process. A folder of changed files may be deleted while that setup copies from it.
- A failure of the network while the signature is fetched deletes the whole installer, also of a download that was paused.

*Service client.*

- `OneStart`: a request that ends forgets the shared start unconditionally (helperClient.ts:89, 95), also a newer one that is under way: the next
  caller begins a second, against "one start, not one each" (helperClient.ts:57). It takes a fourth call (`MaxCalls = 4`): two shared a start whose service died, one of them ends, a third begins a newer start, the other of the two ends and forgets that one, and the fourth begins another beside it.
- A request that joins a start whose service has died since waits out its time and fails with SVC-02 without starting it again.

*Setup and removal.*

- `runRemove` deletes install.json (remove_linux.go:35) before it is read for the program's folder (41), so on Linux the folder is never
  removed, against setup_linux.go:60 ("`remove` deletes the whole of it"). `RemoveNamed` has both branches and takes one.
- On Linux a failed update takes the polkit policy and install.json out (setup_linux.go:140, 146) also when they were there before: the
  program that was restored is no longer known as installed, and the next update is not seamless.
- A file whose copy broke off is in no list (copytree.go:38-43) and stays after a failed first install that reports everything undone;
  `FailedInstallLeavesNothing` allows that one file.
- On Windows a failed seamless update starts the service with the new files, which were overwritten in place, against
  setup_windows.go:69-71 ("the service it leaves is the one that was there").
- `.next` and `.old` folders survive a removal on Linux and Windows. On Windows a removal from the application that cannot delete the
  service's folder returns before the application's folder goes, with the registration deleted already.
- A macOS update killed between its two renames leaves the application under its hidden names only, where nothing looks for it.
  `SwapKeepsProgram` counts that as kept: all of it is beside its folder.
- A seamless setup waits 60 s for the old application and the window that shows it 15 s (index.ts:654): between the two the window
  closes and the setup goes on alone.

*The installer's window.*

- `DeclinedGoesBack`: a declined prompt goes back to the choice on Windows (1223, uninstall/follow.ts:78), but pkexec's 126 is a failure. `EnteredIsShown` fails beside it.

*Account.*

- `RedCardIsAnswer`, `AnswerShowsUp`, `DialogReadsAnswer`: an account that moves for another reason while a request waits looks like the answer, and so does one read before the request was taken; the dialog and the card
  compare with different accounts. `AnswerIsRead` is about the cases where nothing else moved it (`Clear`) and the answer is not an older one (`late`).
- `ChangedIsReread` (KeysDialog.tsx:199-212 against ProfileView.tsx:327): a failure after some devices were unbound closes without a new reading. `ShownIsBound` (KeysDialog.tsx:235-238 against 218-219): the devices shown
  may be of an earlier answer.
- The page of notices fetches its list and hears pushes, and the list is shown whenever it comes (Notices.tsx:17), with no word of a push in between as useAppState.ts:8-16 has it: an older list hides the news of the push until the next one.
- A fresh link of the same account is another login, so the notices that were closed under the old one come back.

*Window.*

- `ShownIsAdded`, `ClosesItself`, `WelcomeGoes`: a character typed within the pause and Enter add a link that was not previewed; an older dialog's answer closes a newer dialog; the welcome stays faded out
  if the servers vanish during its note; the field does not give way if a key comes to parse during the 220 ms of «Сменить ключ».
- `PingIsOfSession`: a ping that comes after a reconnect is shown as the new session's. `RulesAreSaid`: rules edited while a connection is being made are not in the notice that docs/routing.md:55 describes. A rejected
  `setUiSettings` leaves the value that was shown before it was saved (`unconfirmed`), and an edit built on an older confirmation loses the newer one.
- `HiddenHasIcon`: a window can be hidden without an icon to bring it back. What is launched while the running application quits shows nothing; `--maintenance` lets go of the lock before it is gone.
- A lost answer of `POST /report` lets the same report be sent twice; `copyLogs` takes the main process's list and not the one shown.
- Without inodes a log that was replaced and grew past the offset loses or tears lines; a start with «recent» on a locked file begins in the middle of a line.

### 3.1 Bounds, and why they are enough

Two servers make a switch and the removal of the other one possible; a third would be told apart from the
second by no action. Two slots let a second operation start beside the first wherever a guard allows
it: the mutants of `CardMatchesSystem` are found at this size. One poll in flight can be
overtaken by any number of disconnects and connects, which is what a late answer needs; two late
answers are two such histories. One automatic reconnect distinguishes "attempts left" from "spent". The
liveness run keeps one server and one slot, because `OneOperation` (proved) shows that a second slot stays
empty, and because liveness forbids symmetry; it leaves the watchdog out to stay small. In Lifetime
three processes give an older, a newer and a followed one, and `MaxGen = 4` lets the first return: a
watcher of an earlier generation with the same pid exists. In LinuxService one process identity is enough for
any sequence of services since an ended one is as new; two daemons give a switch, and a third would
repeat it: `born` is never reset, so two is a bound on history, and a failed `up` uses one up. In SplitRoutes one
lease at a time makes every answer of two addresses, and every two queries, meet the cap; leases of different
addresses touch different entries of every function, so a larger set adds only that the cap is met later. Two ticks
for a route and one for an answer are the least that leave room for an answer to be used after the tick in
which it was given.

In SenSync two servers let one vanish while one stays, and a third card is the new one of a server that comes back; two calls let one hold
the lock while the other waits or is past it. Three revisions are a first list, a change and a change of the change. Three
events are what two calls and a fault between them take; one fault at a time is what the code is written for. Linux and macOS differ in both things that the code asks
of a platform (who holds the tunnel's keys, and whether onStale may suspend); Windows answers the one as macOS and the other as Linux. In Updater two
downloads are one that lets go and one that waits, two versions one that is superseded, two builds one installer in two mixtures;
two installs and two starts let the setup of an earlier one return. In HelperClient three calls are one that starts the
service, one that joins it and one that comes later. In Setup two versions are the installed and the new one, and two
files the least of which a mixture can be made; four runs let an install, a failed or killed update, another update and a
removal follow each other, and three faults let a step fail, its undo fail and the next run be killed. Its theorems
need none of these bounds.

In Installer two works are a first attempt and the next, two passwords a wrong and a right one. In Routing the lists are all of two lines, of every kind that compares differently, and
two edits reach each view from each; in PerApp two programs are one that a rule names and one that none does, three processes a parent, a child and one that the scanner skips. In MacTunnel one
change of network and one fault meet every step of the script and of the monitor; two tunnels are an old and a new one. The run of `NothingOutlivesApp` takes two
minutes by itself and passes; with the safety properties it would be too long. In WinTunnel a rule about a network and one about a name are laid by different code; two faults are a teardown that is refused or cut short and a crash after it.
One gateway, which may go, keeps the run within minutes; with three faults on one destination the same properties hold, several gateways make an instance of more than nine million states, and the theorems of 4 need no bound. In Payments two requests are this computer's and the bot's. In
KeyCount two devices are this computer and one to unbind. In NoticeCenter two logins are one that fails and one that does not. In Journal a ring of two and three entries make it overflow once. In
DaemonLog a poll of three halves always ends inside a line, and two files or truncations are one change between two polls, or between the look and the read of one, and one before it. In AddServer three texts and three forms let an answer come back two changes late. In Page five acts are what a connection, an edit, a
look at another section and their answers take.

### 3.2 Fairness

TunnelManager: weak fairness on the steps of each call and of the polls (every request is answered
or timed out by the client: `helperClient.ts`; the event loop reaches every callback), and strong fairness
on the start of a poll, since the timer fires each second and finds the manager idle again and again, though
not continuously. MCServices: weak fairness on the watchers' returns, on the arming and the firing of the idle timer, on the
steps of each service, whose external commands all have timeouts, and on `DaemonExited`. MCInstalls: weak fairness
on the helper, the main process, the page and the old application's quit. MCRules: weak fairness on the scanner, whose timer fires every
second (for `GoesItsWay`, which no run checks). MCAccount: weak fairness on the page's polls, MA7's answers and their arrival (which only `CheckedIsRead` would need), and on the rounds of notices, each of which
asks, is answered and ends; the person is only taken to open the page sooner or later. HelperClient, Updater and Shell state
fairness of their own for the liveness properties that no run checks now (`CallEnds`, `Settles`, `QuitEnds`); the runs sen, split_routes, updater, processes, tunnels and
window claim no liveness. Nothing is assumed of the user otherwise, of deaths and kills, nor of the application starting a service.

## 4. What is proved

With TLAPS, for every value of the constants that the assumptions allow: `TunnelsAssumption`, `BoundsAssumption`, `PlatformAssumption` (TunnelManager);
`PidsAssumption`, `GenAssumption` (Lifetime); `ContentsDiffer`, `SomeFiles`, `KnownPlatforms`, `BoundsAreNumbers` (Setup); `SkippedAssumption`, `MaxAssumption`,
`TTLAssumption` (SplitRoutes: a route lives longer than an answer by more than a query); `WinAssumption` (MCTunnels: the networks of rules are among what rules are about, no gateway is not a gateway);
`ServersAssumption`, `FirstAssumption`, `LimitsAssumption`, `CardsAssumption`, `HostsAssumption` (MCSenSync: cards and servers are different things, and a new key has servers); `SkippedAssumption`, `HomesAssumption`,
`RoutingsAssumption` (MCRules: the cgroups that processes are started in are none of the service's own, and a rule has one of three actions); `CallsAssumption`, `ShellAssumption`; `SlotsAssumption` (Updater); `JournalAssumption`;
`MarksAssumption` (MCAccount: the two marks differ). TLC evaluates each of them on its run. Every inductive invariant below was an invariant of a TLC run
before it was proved; the numbers of states are those runs'.

- **`TypeCorrect`** `Spec => []TypeOK` (TunnelManager). The type invariant is not inductive: an answer of `up`
  makes a connection out of the tunnel its call names, so calls and polls must name one. `IInv` adds this and
  is the conjunction of `CardTyped`, `HealTyped`, `JobsTyped`, `PollsTyped`, `BootTyped`, `SystemTyped`;
  helper lemmas (`JobReplaced`, `SettlesTyped`, `StartsTyped`, ...) say what the shared operators keep, and
  there is one lemma per action.
- **`OneAtATime`** `Spec => []OneOperation` (TunnelManager): for any number of servers, callers and polls.
  `OneOperation` is inductive relative to `IInv`; a step begins the one operation (`OneStarts`), goes on with
  it (`OneGoesOn`), ends it (`OneEnds`) or leaves it alone (`OneUnchanged`).
- **`CardIsRight`** `Spec => []CardMatchesSystem` (TunnelManager). The property speaks of the quiet moments only,
  so it gives nothing to lean on while a call is under way; `CardInv` says what holds at every await.
  `AnswersStand`: an answer that has not been applied yet is still true (`up` answered ok holds its tunnel, `down`
  answered ok left nothing alive, `recover` answered same found the previous one), or `lost` owns up to it.
  `StartOwnsCard`: in the middle of a start nothing is on the card. `DeadIsDead`: a poll that was told of a death
  is right for as long as its connection is on, which is where the comparison by identity is needed
  (`ConnectsNew`). `BootStands`: the same for the answer init() waits for. `TunnelPlaced`: the tunnel that
  runs is on the card, or the start that let go of it remembers it.
- **`RunningWatched`** `Spec => []RunningIsWatched` (TunnelManager): `Watched` adds the one state in which
  init() has put a tunnel on the card and not yet started the timer.
- **`CleanupOffered`** `Spec => []LeftoversOffered` (TunnelManager), on top of `CardInv`. `LeftInv` follows the question
  "is anything left?" from each of the three places that ask it (a failed start, a poll that saw a death,
  init()): an answer "no" that is not applied yet is still true, or a start has been answered since, whose
  success marks it as late.
- **`AskedOnce`** `Spec => []AsksOnce` (Lifetime).
- **`PromiseKept`** `Spec => KeepsPromise`: Lifetime implements ServesTheApp. The strengthening is
  `WatchersKnow`: no watcher is ahead of the generation, the newest waits for the followed process, and one
  past its await knows that process has exited; so a watcher that may stop the service does it for the right one.
- **`RecordKept`** `ServicesSpec => []CrashSafe` and **`MemoryKept`** `ServicesSpec => []MemoryMatchesSystem` (LinuxService), for any number of daemons, requests, kills and starts, and one
  service at a time (`\E v : Only(v)`: with two the second property is false, see *Also known* in 3). Neither is inductive: both look at the system between steps or at a kill. `LinuxInv` follows the call that holds `c.mu` through
  its steps. `AtRest`: with nobody in the lock, memory, record and system agree exactly (`Exact`), and with the service gone the record carries all. `TakenDown`: until the last step of a teardown
  the record is what the teardown has in hand, nothing is left of the daemon when the routes are undone, and nothing at all when the record is cleared. `BroughtUp`: an `up` begins with no record on a clean system, and
  knows what it has applied at each step, so a failure takes away just that and `save` writes just that. `OnRecord` gives `CrashSafe` for every step that a kill can cut short, but for the two windows that
  `CutsShort` names (1,458,716 states).
- **`CardsHaveKeys`** `SenSpec => []ListedHasKeys`, **`AppliedStaysCurrent`** `[]AppliedIsCurrent`, **`RecordStaysListed`** `[]RecordIsListed` and **`TurnStaysLive`** `[]TurnIsLive` (SenSync), for any servers, cards, calls at a time,
  revisions, faults and crashes. All but the first and the last look at the moments when no call is under way; `SyncInv` follows the calls through their awaits. `Turns`: only the first of the queue works on the key, the
  others wait, and nobody is in it twice; `ImportIsAlone`: a key that is being imported has no other call. That is why what a call copied before an await is still so when it writes (`Copied`), while `CardsMade` and
  `CardsTaken` say that the cards it makes and those it takes are nobody else's, also when a removal of a card failed (`TakeCardKept`). `Numbers`, `Claims` and `Current` are the argument about failed writes: a preshared key stands in the record only if the card has it, and the revision
  is written last, so that an apply that stopped halfway is behind the server and does it again. `Missing`: without a fault a server without its card is being taken off at this moment. `SyncInvariant` is the theorem of
  their conjunction, one lemma per way out of each await.
- **`TypeCorrect`** `Spec => []TypeOK` (Setup), under `KnownPlatforms` and `BoundsAreNumbers`: the folders, the entries, the lists, the place
  and the run are each typed by a lemma per shared operator and a step per action.
- **`UpdateKeepsProgram`** `Spec => []SwapKeepsProgram` and **`FailedUpdateRestores`** `Spec => []RollbackRestores` (Setup): for any versions and
  files and any number of runs, failures and crashes. The first property says nothing of where the
  program is at each step, so it is not inductive: `ProgramKept` says that it is in its folder until it is set aside, set aside until
  the new one is complete in its place (`StagedWhole`), and both from there on; `UndoKeeps`, that the rollback is on the undo list at most once, and only while
  there is something to put back; `Closed`, that an update of the application begins with a program to replace, since an application on the
  screen has its folder: no step that takes a folder away runs while it is open. `OnTheList` adds for the second property that what is not as it was found is on the list of
  what to undo. `KindTold` ties the steps to what was asked. TLC checks the same conjuncts on the instance of `installs`.
- **`DoneWhenDone`** `InstallsSpec => []DoneIsDone` and **`TickedWhenGone`** `InstallsSpec => []TickedIsGone` (Installer). Four clocks run between the helper and the screen, and the invariant, `WindowInv`, says for each place
  where a word about the work may be (the file, the wire, the beats, the timers, the page) that it is true of the work that runs now: `SaidTruly`. A word stays true because a work that has done all its steps, or has failed, does not
  change its mind (`WorkGoes`), and no word outlives its work, because the reply is the last thing said of it (`ReplyLast`) and the page is at the choice only when nothing is left to be shown (`Still`, in `ScreenSays`).
  `ReadGoes` and `ForgotLast` place the erasing between the last line of the file and its message. `WindowInvariance` is its theorem (TLC checks the conjuncts with three works one after another: 73,182 states).
- **`UndoIsKept`** `TunnelsSpec => []UndoIsRecorded` and **`NetworkFollowed`** `TunnelsSpec => []FollowsNetwork` (MacTunnel), for any number of faults, tunnels, runs of the application, network services and routers. The first holds at every step, and says
  only what the file must name; it is kept because each of the programs works on a copy of the file that is still true. `MonitorsFile` says so of the monitor, whatever the script does beside it, `JobsFile` and `JobUndoes` of
  the script, step by step: an `up` saves before it sets, and a teardown leaves the file until all it names is undone. `Placed` says which of the two may work when: none of them sets anything while the other undoes. `ListsOwn`: what was
  recorded as the DNS of a service was never the tunnel's. `DnsRecorded`, `DaemonRecorded`, `PinRecorded`, `HolesRecorded` are the property's conjuncts; `NamesKnown` is the last of them, of the service and its proxy. `UpFollows`
  and `MonitorFollows` are the second property for every await: what is on the list is set, and the route is where the router is, unless news waits for the monitor. A split run that an `up` forgot is one that the service has no more (`proxy = "lost"`): what it still routes is excepted by `body`, and every other conjunct
holds through it. `MacInvariant` is the theorem of all.
- **`NothingIsLeft`** `TunnelsSpec => []NothingLeft` and **`NamesHaveAProxy`** `TunnelsSpec => []NamesAreAnswered` (WinTunnel), for any number of applications, networks, gateways, and crashes and refusals outside the windows that `excused` names (2.11: `conf`, `rule` and `kept` for the first, `unanswered` and `rule` for the second). Both speak of the
  settled moments, so they say nothing of the steps between; `WindowsInv` says at each step who will undo what is there. `RoutesKnown`: a direct route is where this run of the service put it, or in the split.json of the one
  before and that file has not been read yet (`Unread`), or no record names it. `RecordsKnown`: without a proxy there is no split.json, and the DNS Client's rule is taken back by who put it; `NoProxyYet` and `HeldKnown` that a service
  that begins or ends holds nothing. `ConfKnown`, `KeptKnown` and `RestartKnown`: a `.conf` or a proxy without a tunnel is about to be used or removed, but for a crash or a write cut short (`conf`), or a doomed tunnel that was kept.
  `AnswersKnown`: a tunnel with rules has its proxy and a record of it, or the record alone while the next start has still to read it, or is in the one window in which a crash leaves neither (`Unrecorded`), or the service manager did not answer for it. `Placing` and `ModeKnown` tie the steps to what was
  asked. `WinInvariant` is the theorem of their conjunction, one lemma per action.
- **`Answered`** `Spec => []AnsweredIsRouted` and **`Held`** `Spec => []HeldWhenDead` (SplitRoutes). That an address has its way now says nothing of
  how long it will. `ToldIsLeased` is the clock: while an answer may be used its lease is in the set, and was renewed no later than one query before the answer was
  given, so that `TTLAssumption` keeps it from expiring first; `QueriesFresh` says of an answer not given yet that what it has leased was renewed no earlier than the query began. `DirectLaid`
  and `TunnelLaid` tie the set to the kernel: what is leased is laid as the default way asks, and after the daemon's death black-holed, listed to be, or refused by the kernel. `DeadIsGone` says that
  failClosed has begun only when the interface is gone, `PinsAgree` that nothing is leased while rules are pinned. `IInv` is the conjunction with `TypeOK` (3,142,046 states); its theorem is `Invariance`.
- **`SharesLive`** `[]SharesAreLive`, **`ReadOnce`** and **`OneSteers`** `[]OneUi` (HelperClient and Shell). The first says that nobody waits in vain: a start that is awaited is under way, a `hello` that is awaited is being asked, and what is remembered is of a call that has not ended. That
  a start is the only one, or of the service there is now, it does not say, and the code does not do (`OneStart`, *Also known* in 3). `CallsInv` adds that a request that has not been read has not been
  carried out (`Unread`), from which follows `HandledOnce` of every request the service reads, which is `ReadOnce` (no run checks it), and that who waits for a `hello` has joined no start (`WaitsForHello`). `ShellInv` adds to `OneUi` that a process which steers owns the lock (`OwnsLock`), through launches, the installer's wait and quits (483,888 states).
- **`Ready`** `Spec => []ReadyIsChecked` and **`Handed`** `Spec => []HandedOver` (Updater). `DInv` follows the download: `Turns` and `Quiet` say who may write to the file and when nobody does,
  `TreeIsOurs` that the folder of changed files belongs to the version being assembled, `OfferIsThere` that what is offered is on disk. `HInv` follows the hand-over through
  two processes: `Numbered`, `ShownIsStaged` (a window that said it is shown stands for a setup that has staged), `QuitIsShown` (an application quits only on that word) and `UpIsAlone`
  (764,602 states).
- **`CleansUp`** `RulesSpec => NothingStays`, an action property, and **`BackWhereTheyWere`** `RulesSpec => []P!BackWhereItWas` (PerApp), for any processes, programs, rules, connections and kills. The scanner decides by a list that
  is old when it acts. `AppsInv` says that what it remembers is enough all the same: a process in a cgroup of the service was moved there and is remembered, or was born in one (`MovedOrBorn`); who is forgotten has exited (`ForgottenAreGone`);
  and the place remembered of one that began elsewhere is where it began (`KnowsTheWayBack`), for the scanner writes it down once, before the move. `WaysAreThere` and `AppsPhases` tie the cgroups, rules and marks to the
  steps of starting and stopping (both in UpdaterProofs, beside the updater's).
- **`SendsWhatWasSeen`** `[]SentIsReviewed`, **`PreviewsTheLink`** `[]PreviewIsOfLink`, **`NoteSeen`** `[]NoteIsSeen` and **`PageAgreement`** `[]PageAgrees` (the window). `Reviewed`: what is asked to be sent
  was shown, and so is what goes, as numbers are given once (`OneANumber`). `SettledIsRead`: a settled text is shown or being read; `WelcomeWaits` and
  `WelcomeIsKept` say that the first-run screen waits for its own import and asks to be kept until its note is over. `NewestComes`: of a snapshot that the page has not got, the newest is last in the queue of pushes or in the fetch that it still
  takes; `LastIsSaved`: and so for the settings and the answers, unless one says that they were not saved (2,263,662 states).
- **`AnswerRead`** `AccountSpec => AnswerIsRead`, **`Charged`** `[]ChargedAsPressed` and **`StaysClosed`** `[]ClosedStaysClosed` (the account). For the payments `PayInv`: only an approval
  makes the balance and the period add up to more (`OnlyApprovalAdds`), and an answer on its way that is not late is worth what the account is, because a request made after it makes it late
  (`AnswerStands`). The theorem is about a request that was made when no money lay on the account and is remembered as the account then was (`Clear`), and an answer that is not older than it: of the others `RedCardIsAnswer` says it,
  and it is false (*Also known*). `KeysInv`: a pressed button keeps every other one, and newer prices, away until its request is over, so the sum
  that the request names is still the sum the button shows when MA7 takes it, a refused purchase's new sum included, which changes the button only when its request has ended. For the notices the danger is an old answer: `AnswerIsNewer` says that the answer under way has everything
  of the list it will replace but what was withdrawn, `HeardWasSaid` and `AnswerWasSaid` that nothing is heard that MA7 did not say, and `ClosedIsRemembered` that what is closed and still sent
  is remembered and in the answer under way, so that a round cannot take it for withdrawn. `PageInv` carries this to the page: while
  its first list is on the way and no push came since it was answered, nothing that is closed is in that list; if one came, the page will be `stale` (632,333 states).

*Only model-checked.* Liveness (`OperationEnds`, `DeathNoticed`, `NothingOutlivesApp`, `NewsArrives`) rests on fairness and ENABLED, which are out of the
prover's reach. `JournalKeeps` and `FollowsTheLog` are about sequences sorted and filtered by the community modules' operators, and need induction over them; `SameAnswers` and `FirstRuleWins` are about what folds compute for every list.

## 5. What is not modelled, and the plan

Not modelled, because no property of the kind stated here tells their values apart: parsers of links and configurations, the service's protocol validation, the file of kept keys, the probes, how the
user interface looks and its rehearsals in a browser, build scripts. They are presentation, text in and out, or I/O. Of the code that decides, these parts are left:

- the accounts of the sen server (login, logout, `adoptAccount`) and what files.ts computes about changed files;
- `Adopt` of the split routes on the other platforms, and networks wider than one address;
- the composition of HelperClient with LinuxService and the manager: the contract of `TunnelController` assumed in
  TunnelManager (what an `up` may leave behind when it is not answered) is read from the code and not derived from the two. An `init()` that is rejected leaves `sen.start` and the
  automatic connection undone (index.ts:883); no module has the shell's start and the manager's together.

Next, in this order:

1. `JournalKeeps` by a least counterexample (`WFMin` takes no operator as a parameter).
2. **VpnCard**, an abstract specification of the manager with TunnelManager as its refinement.
