------------------------------- MODULE Setup -------------------------------
(***************************************************************************)
(* Installing, updating and removing the program: what is done to its       *)
(* folder, to the service's files and to the entries by which the system    *)
(* and the next update know it.  Four programs do it, one per `platform`:   *)
(*   "linux", "windows"  awg-helper setup and awg-helper remove;            *)
(*   "bundle"            the update of the macOS application (mac.ts);      *)
(*   "service"           awg-helper install and uninstall, which put the    *)
(*                       macOS service in place for the application.        *)
(*                                                                         *)
(* Three folders stand side by side: `app`, where the program (on "service" *)
(* the service) is installed, `next`, where a new version is staged, and    *)
(* `old`, which holds the previous version while the two trade places.  A   *)
(* run may fail at any step and then undoes what it did; it may also be     *)
(* killed between two steps, and then nothing is undone.                    *)
(*                                                                         *)
(* A folder is a function from file names to the version each file is of.   *)
(***************************************************************************)
EXTENDS Naturals, Sequences

CONSTANTS
    Versions,   \* the versions that may be installed
    Files,      \* the files of the program, the same names in every version
    Absent,     \* no such file, no such entry
    Torn,       \* a file whose copy broke off
    Platforms,  \* the installations considered, of the four
    MaxRuns,    \* bound: how many times setup or remove is started
    MaxFaults   \* bound: how many steps fail, or are the last before a crash

ASSUME ContentsDiffer == /\ Absent \notin Versions
                         /\ Torn \notin Versions
                         /\ Absent # Torn
ASSUME SomeFiles == Files # {}
ASSUME BoundsAreNumbers == MaxRuns \in Nat /\ MaxFaults \in Nat
ASSUME KnownPlatforms ==
    Platforms \subseteq {"linux", "windows", "bundle", "service"}

VARIABLES
    platform,   \* the installation this is
    app,        \* the program's folder
    next,       \* the staged version
    old,        \* the version set aside
    svc,        \* Windows: the service's own copies under Program Files
    reg,        \* install.json, the registry's AppPath or the launchd plist:
                \* the version that wrote it
    unit,       \* the polkit policy, the service in the SCM or the launchd job
                \* is there
    open,       \* the installed application is running
    asked,      \* and it is the process whose end is waited for
    pc,         \* where the run is
    todo,       \* the files that the copy under way has not come to
    made,       \* what the copy created in `app`
    madeSvc,    \* what it creates in `svc`
    undo,       \* what to undo on a failure, newest first
    run,        \* what was asked of this run and what it found
    stuck,      \* a step that undoes or cleans up failed
    last,       \* how the latest run ended
    runs,       \* how many were started
    faults      \* how many steps failed or were the last before a crash

entries == <<reg, unit>>
application == <<open, asked>>
bookkeeping == <<made, madeSvc>>
vars == <<platform, app, next, old, svc, entries, application, pc, todo,
          bookkeeping, undo, run, stuck, last, runs, faults>>

Content == Versions \cup {Absent, Torn}
Tree == [Files -> Content]
Gone == [f \in Files |-> Absent]
Full(v) == [f \in Files |-> v]

\* What a removal leaves of a tree when the files in F went.
Without(t, F) == [f \in Files |-> IF f \in F THEN Absent ELSE t[f]]
\* What os.RemoveAll may leave when it fails.
Remains(t) == {Without(t, F) : F \in SUBSET Files}
\* The files of F that are not there yet.
NotThere(t, F) == {f \in F : t[f] = Absent}
\* A file that could not be opened is as it was; one that could not be
\* written to its end is torn.
Broken(t, f) == {t, [t EXCEPT ![f] = Torn]}

Steps == {"stage", "copy", "wait", "stop", "clear", "away", "into", "over",
          "svc", "unit", "reg", "check"}
RemoveSteps == {"r_stop", "r_unit", "r_files", "r_app"}
Undos == {"stage", "start", "rollback", "made", "svc", "unit", "reg", "plist"}
Outcomes == {"none", "running", "done", "failed", "crashed", "removed"}

NoRun == [kind |-> "none", from |-> Gone, to |-> Absent, fresh |-> FALSE,
          clean |-> FALSE, reg |-> Absent, hadOld |-> FALSE, inApp |-> FALSE]

\* The macOS application is there from the start: its user puts it there.
Init ==
    /\ platform \in Platforms
    /\ app \in IF platform = "bundle" THEN {Full(v) : v \in Versions} ELSE {Gone}
    /\ next = Gone /\ old = Gone /\ svc = Gone
    /\ reg = Absent /\ unit = FALSE
    /\ open = FALSE /\ asked = FALSE
    /\ pc = "idle" /\ todo = {} /\ made = {} /\ madeSvc = {} /\ undo = <<>>
    /\ run = NoRun /\ stuck = FALSE /\ last = "none"
    /\ runs = 0 /\ faults = 0

Fault == faults < MaxFaults /\ faults' = faults + 1

\* A step of setup fails: everything on the list is undone.
Fails == Fault /\ pc' = "undo"

(***************************************************************************)
(* The application.                                                        *)
(***************************************************************************)

\* A program with a mixture of files may or may not start: here it does.
\* While setup or remove runs, its window holds the single-instance lock.
Launch ==
    /\ pc = "idle" /\ ~open /\ app # Gone /\ platform # "service"
    /\ open' = TRUE
    /\ UNCHANGED <<platform, app, next, old, svc, entries, asked, pc, todo,
                   bookkeeping, undo, run, stuck, last, runs, faults>>

\* On macOS the application stages its update itself: to close is a crash
\* of that.
StagesItself == platform = "bundle" /\ pc \in {"stage", "copy"}

\* By the user, or because the new version is staged.
Quit ==
    /\ open /\ ~StagesItself
    /\ open' = FALSE /\ asked' = FALSE
    /\ UNCHANGED <<platform, app, next, old, svc, entries, pc, todo,
                   bookkeeping, undo, run, stuck, last, runs, faults>>

(***************************************************************************)
(* setup: the files of the program.                                        *)
(***************************************************************************)

Clean == app = Gone /\ svc = Gone /\ reg = Absent /\ ~unit

Asked(kind, v) ==
    /\ pc = "idle" /\ runs < MaxRuns
    /\ run' = [kind |-> kind, from |-> app, to |-> v,
               fresh |-> reg = Absent /\ ~unit, clean |-> Clean,
               reg |-> reg, hadOld |-> FALSE, inApp |-> FALSE]
    /\ undo' = <<>> /\ stuck' = FALSE /\ last' = "running"
    /\ runs' = runs + 1
    /\ UNCHANGED <<platform, app, next, old, svc, entries, open, todo,
                   bookkeeping, faults>>

\* The running application starts the update of itself, which on Linux and
\* Windows must know it for installed.  The macOS service is always
\* installed this way, the first time too.
StartSwap(v) ==
    /\ Asked("swap", v)
    /\ platform \in {"linux", "windows"} => open /\ reg # Absent
    /\ platform = "bundle" => open
    /\ asked' = (platform # "service")
    /\ pc' = "stage"

\* Any other setup has the single-instance lock: no application is running.
StartOver(v) ==
    /\ Asked("over", v)
    /\ platform \in {"linux", "windows"} /\ ~open
    /\ asked' = FALSE
    /\ pc' = "stop"

\* Stage: what an abandoned attempt left goes first.
ClearNext ==
    /\ pc = "stage"
    /\ \/ next' = Gone /\ pc' = "copy" /\ UNCHANGED <<stuck, faults>>
       \/ next' \in Remains(next) /\ stuck' = TRUE /\ Fails
    /\ todo' = Files
    /\ UNCHANGED <<platform, app, old, svc, entries, application, bookkeeping,
                   undo, run, last, runs>>

StageFile(f) ==
    /\ pc = "copy" /\ f \in todo
    /\ next' = [next EXCEPT ![f] = run.to]
    /\ todo' = todo \ {f}
    /\ UNCHANGED <<platform, app, old, svc, entries, application, pc,
                   bookkeeping, undo, run, stuck, last, runs, faults>>

\* A failed copy takes back what it staged, as far as it can.
StageFails ==
    /\ pc = "copy" /\ todo # {} /\ Fails
    /\ \/ next' = Gone /\ stuck' = stuck
       \/ next' \in Remains(next) /\ stuck' = TRUE
    /\ UNCHANGED <<platform, app, old, svc, entries, application, todo,
                   bookkeeping, undo, run, last, runs>>

\* The application is told, and closes.
Staged ==
    /\ pc = "copy" /\ todo = {}
    /\ pc' = IF platform = "service" THEN "stop" ELSE "wait"
    /\ undo' = <<"stage">>
    /\ UNCHANGED <<platform, app, next, old, svc, entries, application, todo,
                   bookkeeping, run, stuck, last, runs, faults>>

\* Linux and Windows wait for a minute; the script on macOS, however long.
WaitGone ==
    /\ pc = "wait"
    /\ \/ asked /\ platform # "bundle" /\ pc' = "undo"
       \/ ~asked /\ pc' = IF platform = "bundle" THEN "away" ELSE "stop"
    /\ UNCHANGED <<platform, app, next, old, svc, entries, application, todo,
                   bookkeeping, undo, run, stuck, last, runs, faults>>

\* The service is stopped, on Windows with every process of the program.
\* There, and with the macOS service, the undo of a swap starts it again.
Stop ==
    /\ pc = "stop"
    /\ pc' = IF run.kind = "swap" THEN "clear" ELSE "over"
    /\ IF platform = "windows" /\ reg # Absent
       THEN open' = FALSE /\ asked' = FALSE
       ELSE UNCHANGED application
    /\ undo' = CASE platform = "windows" /\ run.kind = "swap" ->
                        <<"start">> \o undo
                 [] platform = "service" -> undo \o <<"start">>
                 [] OTHER -> undo
    /\ unit' = (unit /\ platform # "service")
    /\ todo' = Files /\ made' = {}
    /\ UNCHANGED <<platform, app, next, old, svc, reg, madeSvc, run, stuck,
                   last, runs, faults>>

ClearOld ==
    /\ pc = "clear"
    /\ \/ old' = Gone /\ pc' = "away" /\ faults' = faults
       \/ old' \in Remains(old) /\ Fails
    /\ UNCHANGED <<platform, app, next, svc, entries, application, todo,
                   bookkeeping, undo, run, stuck, last, runs>>

\* Slip: the previous version is removed, not set aside.
SlipDropped == Gone

\* The folder as it is set aside.
SetAside == app

\* On macOS the application is set aside under a name of this update's own,
\* and one that an earlier update left is not looked at again.
MoveAway ==
    /\ pc = "away"
    /\ \/ /\ app # Gone
          /\ old' = SetAside /\ app' = Gone
          /\ pc' = "into" /\ faults' = faults
       \/ Fails /\ UNCHANGED <<app, old>>
       \/ app = Gone /\ pc' = "into" /\ UNCHANGED <<app, old, faults>>
    /\ run' = [run EXCEPT !.hadOld = app # Gone]
    /\ UNCHANGED <<platform, next, svc, entries, application, todo,
                   bookkeeping, undo, stuck, last, runs>>

\* The program is in place, and `how` takes it back: on with the service.
\* On Windows its files come first, and are to be undone from the first one
\* on.  On macOS the application is done, and the undo of the service is a
\* list of its own.
Placed(how) ==
    /\ faults' = faults
    /\ pc' = CASE platform = "linux" -> "unit" [] platform = "windows" -> "svc"
               [] platform = "bundle" -> "check" [] platform = "service" -> "reg"
    /\ undo' = CASE platform = "linux" -> <<how>> \o undo
                 [] platform = "windows" -> <<"svc", how>> \o undo
                 [] platform = "bundle" -> <<>>
                 [] platform = "service" -> <<"unit", how, "plist">>
    /\ todo' = Files
    /\ madeSvc' = NotThere(svc, Files)

MoveInto ==
    /\ pc = "into"
    /\ app' = next /\ next' = Gone
    /\ Placed("rollback")
    /\ UNCHANGED <<platform, old, svc, entries, application, made, run, stuck,
                   last, runs>>

\* The previous version is put back, in one attempt.
MoveIntoFails ==
    /\ pc = "into" /\ Fails
    /\ \/ /\ run.hadOld
          /\ app' = old /\ old' = Gone /\ stuck' = stuck
       \/ stuck' = run.hadOld /\ UNCHANGED <<app, old>>
    /\ UNCHANGED <<platform, next, svc, entries, application, todo,
                   bookkeeping, undo, run, last, runs>>

\* An install that is not seamless copies over what is there.
CopyFile(f) ==
    /\ pc = "over" /\ f \in todo
    /\ app' = [app EXCEPT ![f] = run.to]
    /\ made' = made \cup NotThere(app, {f})
    /\ todo' = todo \ {f}
    /\ UNCHANGED <<platform, next, old, svc, entries, application, pc,
                   madeSvc, undo, run, stuck, last, runs, faults>>

\* The file that the copy broke off in is not on the list.
CopyFails(f) ==
    /\ pc = "over" /\ f \in todo /\ Fails
    /\ app' \in Broken(app, f)
    /\ undo' = <<"made">> \o undo
    /\ UNCHANGED <<platform, next, old, svc, entries, application, todo,
                   bookkeeping, run, stuck, last, runs>>

Copied ==
    /\ pc = "over" /\ todo = {}
    /\ Placed("made")
    /\ UNCHANGED <<platform, app, next, old, svc, entries, application, made,
                   run, stuck, last, runs>>

(***************************************************************************)
(* setup: the service and the entries.                                     *)
(***************************************************************************)

SvcFile(f) ==
    /\ pc = "svc" /\ f \in todo
    /\ svc' = [svc EXCEPT ![f] = run.to]
    /\ todo' = todo \ {f}
    /\ UNCHANGED <<platform, app, next, old, entries, application, pc,
                   bookkeeping, undo, run, stuck, last, runs, faults>>

SvcFileFails(f) ==
    /\ pc = "svc" /\ f \in todo /\ Fails
    /\ svc' \in Broken(svc, f)
    /\ UNCHANGED <<platform, app, next, old, entries, application, todo,
                   bookkeeping, undo, run, stuck, last, runs>>

\* From here on the undo of a fresh install takes the service out again.
SvcFilesDone ==
    /\ pc = "svc" /\ todo = {}
    /\ pc' = "unit"
    /\ undo' = IF run.fresh THEN <<"unit">> \o undo ELSE undo
    /\ UNCHANGED <<platform, app, next, old, svc, entries, application, todo,
                   bookkeeping, run, stuck, last, runs, faults>>

\* The polkit policy is undone whatever was there before; the registry keys
\* are undone by a fresh install only.
Unit ==
    /\ pc = "unit"
    /\ unit' = TRUE
    /\ pc' = IF platform = "service" THEN "check" ELSE "reg"
    /\ undo' = CASE platform = "linux" -> <<"unit">> \o undo
                 [] platform = "windows" /\ run.fresh -> <<"reg">> \o undo
                 [] OTHER -> undo
    /\ UNCHANGED <<platform, app, next, old, svc, reg, application, todo,
                   bookkeeping, run, stuck, last, runs, faults>>

\* A policy that could not be written to its end is none; a service or job
\* may be registered and not start.
UnitFails ==
    /\ pc = "unit" /\ Fails
    /\ unit' \in {unit, platform # "linux"}
    /\ UNCHANGED <<platform, app, next, old, svc, reg, application, todo,
                   bookkeeping, undo, run, stuck, last, runs>>

Register ==
    /\ pc = "reg"
    /\ reg' = run.to
    /\ pc' = IF platform = "service" THEN "unit" ELSE "check"
    /\ undo' = IF platform = "linux" THEN <<"reg">> \o undo ELSE undo
    /\ UNCHANGED <<platform, app, next, old, svc, unit, application, todo,
                   bookkeeping, run, stuck, last, runs, faults>>

\* install.json may be cut short; the registry keeps the keys it has got;
\* the plist is replaced in one rename, after the files were checked.
RegisterFails ==
    /\ pc = "reg" /\ Fails
    /\ reg' \in CASE platform = "linux" -> {reg, Absent}
                  [] platform = "windows" -> {reg, run.to}
                  [] OTHER -> {reg}
    /\ UNCHANGED <<platform, app, next, old, svc, unit, application, todo,
                   bookkeeping, undo, run, stuck, last, runs>>

\* The new helper runs: the previous version may go, if it can.
Check ==
    /\ pc = "check"
    /\ pc' = "idle" /\ last' = "done" /\ undo' = <<>>
    /\ \/ /\ old' = IF run.kind = "swap" THEN Gone ELSE old
          /\ faults' = faults
       \/ run.kind = "swap" /\ old' \in Remains(old) /\ Fault
    /\ UNCHANGED <<platform, app, next, svc, entries, application, todo,
                   bookkeeping, run, stuck, runs>>

\* It does not run on this machine, its service does not answer, or launchd
\* does not open its socket.
CheckFails ==
    /\ pc = "check" /\ platform # "bundle" /\ Fails
    /\ UNCHANGED <<platform, app, next, old, svc, entries, application, todo,
                   bookkeeping, undo, run, stuck, last, runs>>

(***************************************************************************)
(* setup: the undo.                                                        *)
(***************************************************************************)

Undoes(what) == pc = "undo" /\ undo # <<>> /\ Head(undo) = what
                /\ undo' = Tail(undo)
Works == UNCHANGED <<stuck, faults>>
Sticks == stuck' = TRUE /\ Fault

UndoStage ==
    /\ Undoes("stage")
    /\ \/ next' = Gone /\ Works
       \/ next' \in Remains(next) /\ Sticks
    /\ UNCHANGED <<platform, app, old, svc, entries, application, pc, todo,
                   bookkeeping, run, last, runs>>

\* installService with whatever helper is in the service's folder; bootstrap
\* of the plist, if there is one.
UndoStart ==
    /\ Undoes("start")
    /\ \/ unit' = (platform = "windows" \/ reg # Absent) /\ Works
       \/ unit' = unit /\ Sticks
    /\ UNCHANGED <<platform, app, next, old, svc, reg, application, pc, todo,
                   bookkeeping, run, last, runs>>

\* Slip: the new version goes and nothing takes its place.
SlipOnlyRemoved(a, o) == a = Gone /\ o = old

\* What the rollback leaves in `app` and in `old`.
RolledBack(a, o) == a = old /\ o = Gone

\* The new version is removed and the previous one takes its place.  A new
\* version that is not all gone is in its way.
UndoRollback ==
    /\ Undoes("rollback")
    /\ \/ run.hadOld /\ Works /\ RolledBack(app', old')
       \/ /\ ~run.hadOld /\ Works /\ old' = old
          /\ app' = IF platform = "service" THEN Gone ELSE app
       \/ /\ run.hadOld \/ platform = "service"
          /\ Sticks /\ app' \in Remains(app) /\ old' = old
    /\ UNCHANGED <<platform, next, svc, entries, application, pc, todo,
                   bookkeeping, run, last, runs>>

UndoMade ==
    /\ Undoes("made")
    /\ \/ app' = Without(app, made) /\ Works
       \/ Sticks /\ \E F \in SUBSET made : app' = Without(app, F)
    /\ UNCHANGED <<platform, next, old, svc, entries, application, pc, todo,
                   bookkeeping, run, last, runs>>

UndoSvc ==
    /\ Undoes("svc")
    /\ \/ svc' = Without(svc, madeSvc) /\ Works
       \/ Sticks /\ \E F \in SUBSET madeSvc : svc' = Without(svc, F)
    /\ UNCHANGED <<platform, app, next, old, entries, application, pc, todo,
                   bookkeeping, run, last, runs>>

UndoUnit ==
    /\ Undoes("unit")
    /\ \/ unit' = FALSE /\ Works
       \/ unit' = unit /\ Sticks
    /\ UNCHANGED <<platform, app, next, old, svc, reg, application, pc, todo,
                   bookkeeping, run, last, runs>>

UndoReg ==
    /\ Undoes("reg")
    /\ \/ reg' = Absent /\ Works
       \/ reg' = reg /\ Sticks
    /\ UNCHANGED <<platform, app, next, old, svc, unit, application, pc, todo,
                   bookkeeping, run, last, runs>>

\* The previous plist is written again and its job loaded, or the new one
\* goes.
UndoPlist ==
    /\ Undoes("plist")
    /\ \/ reg' = run.reg /\ unit' = (run.reg # Absent) /\ Works
       \/ reg' \in {reg, run.reg} /\ unit' = unit /\ Sticks
    /\ UNCHANGED <<platform, app, next, old, svc, application, pc, todo,
                   bookkeeping, run, last, runs>>

Failed ==
    /\ pc = "undo" /\ undo = <<>>
    /\ pc' = "idle" /\ last' = "failed"
    /\ UNCHANGED <<platform, app, next, old, svc, entries, application, todo,
                   bookkeeping, undo, run, stuck, runs, faults>>

(***************************************************************************)
(* remove.                                                                 *)
(***************************************************************************)

\* From the application, or from outside it, by the installed helper; the
\* macOS service by the application's own.
StartRemove(inApp) ==
    /\ pc = "idle" /\ runs < MaxRuns /\ platform # "bundle"
    /\ platform = "windows" => svc # Gone
    /\ platform = "linux" => app # Gone
    /\ inApp => open
    /\ run' = [NoRun EXCEPT !.kind = "remove", !.inApp = inApp, !.from = app]
    /\ pc' = "r_stop" /\ undo' = <<>> /\ stuck' = FALSE /\ last' = "running"
    /\ runs' = runs + 1
    /\ UNCHANGED <<platform, app, next, old, svc, entries, application, todo,
                   bookkeeping, faults>>

\* Windows, not from the application: its processes are ended.
RemoveStop ==
    /\ pc = "r_stop" /\ pc' = "r_unit"
    /\ IF platform = "windows" /\ reg # Absent /\ ~run.inApp
       THEN open' = FALSE /\ asked' = FALSE
       ELSE UNCHANGED application
    /\ UNCHANGED <<platform, app, next, old, svc, entries, todo, bookkeeping,
                   undo, run, stuck, last, runs, faults>>

\* Linux: install.json goes together with the policy.
RemoveUnit ==
    /\ pc = "r_unit" /\ pc' = "r_files"
    /\ unit' = FALSE
    /\ reg' = IF platform = "linux" THEN Absent ELSE reg
    /\ UNCHANGED <<platform, app, next, old, svc, application, todo,
                   bookkeeping, undo, run, stuck, last, runs, faults>>

RemoveUnitFails ==
    /\ pc = "r_unit" /\ platform = "windows" /\ Fault
    /\ pc' = "idle" /\ last' = "failed"
    /\ UNCHANGED <<platform, app, next, old, svc, entries, application, todo,
                   bookkeeping, undo, run, stuck, runs>>

\* Linux asks install.json where the program is, and it is gone by then.
RemoveNamed ==
    /\ pc = "r_files" /\ platform = "linux"
    /\ IF reg # Absent THEN app' = Gone ELSE app' = app
    /\ pc' = "idle" /\ last' = "removed"
    /\ UNCHANGED <<platform, next, old, svc, entries, application, todo,
                   bookkeeping, undo, run, stuck, runs, faults>>

\* macOS: the job is out of launchd, and all three folders and the plist go.
RemoveService ==
    /\ pc = "r_files" /\ platform = "service"
    /\ pc' = "idle"
    /\ \/ /\ app' = Gone /\ next' = Gone /\ old' = Gone /\ reg' = Absent
          /\ last' = "removed" /\ Works
       \/ /\ app' \in Remains(app) /\ next' \in Remains(next)
          /\ old' \in Remains(old) /\ reg' \in {reg, Absent}
          /\ last' = "failed" /\ Sticks
    /\ UNCHANGED <<platform, svc, unit, application, todo, bookkeeping, undo,
                   run, runs>>

\* Windows: the folder of an application that is on the screen goes after
\* it has closed.
RemoveFiles ==
    /\ pc = "r_files" /\ platform = "windows"
    /\ LET named == reg # Absent /\ ~run.inApp
       IN \/ /\ app' = IF named THEN Gone ELSE app
             /\ svc' = Gone
             /\ pc' = IF run.inApp /\ reg # Absent THEN "r_app" ELSE "idle"
             /\ last' = IF run.inApp /\ reg # Absent THEN last ELSE "removed"
             /\ UNCHANGED <<stuck, faults>>
          \/ /\ Sticks
             /\ app' \in IF named THEN Remains(app) ELSE {app}
             /\ svc' \in Remains(svc)
             /\ pc' = "idle" /\ last' = "failed"
    /\ reg' = Absent
    /\ UNCHANGED <<platform, next, old, unit, application, todo, bookkeeping,
                   undo, run, runs>>

RemoveApp ==
    /\ pc = "r_app" /\ ~open
    /\ pc' = "idle"
    /\ \/ app' = Gone /\ last' = "removed" /\ Works
       \/ app' \in Remains(app) /\ last' = "failed" /\ Sticks
    /\ UNCHANGED <<platform, next, old, svc, entries, application, todo,
                   bookkeeping, undo, run, runs>>

(***************************************************************************)
(* setup or remove is killed, or the machine goes down with it.            *)
(***************************************************************************)

Crash ==
    /\ pc # "idle" /\ Fault
    /\ pc' = "idle" /\ undo' = <<>> /\ last' = "crashed"
    /\ asked' = FALSE
    /\ open' \in {open /\ ~StagesItself, FALSE}
    /\ UNCHANGED <<platform, app, next, old, svc, entries, todo, bookkeeping,
                   run, stuck, runs>>

Next ==
    \/ Launch \/ Quit
    \/ \E v \in Versions : StartSwap(v) \/ StartOver(v)
    \/ ClearNext \/ \E f \in Files : StageFile(f)
    \/ StageFails \/ Staged \/ WaitGone \/ Stop
    \/ ClearOld \/ MoveAway \/ MoveInto \/ MoveIntoFails
    \/ \E f \in Files : CopyFile(f) \/ CopyFails(f)
    \/ Copied
    \/ \E f \in Files : SvcFile(f) \/ SvcFileFails(f)
    \/ SvcFilesDone \/ Unit \/ UnitFails \/ Register \/ RegisterFails
    \/ Check \/ CheckFails
    \/ UndoStage \/ UndoStart \/ UndoRollback \/ UndoMade \/ UndoSvc
    \/ UndoUnit \/ UndoReg \/ UndoPlist \/ Failed
    \/ \E inApp \in BOOLEAN : StartRemove(inApp)
    \/ RemoveStop \/ RemoveUnit \/ RemoveUnitFails \/ RemoveNamed
    \/ RemoveService \/ RemoveFiles \/ RemoveApp
    \/ Crash

Spec == Init /\ [][Next]_vars

(***************************************************************************)
(* Properties.                                                             *)
(***************************************************************************)

\* Every variable has its type.
TypeOK ==
    /\ platform \in Platforms
    /\ app \in Tree /\ next \in Tree /\ old \in Tree /\ svc \in Tree
    /\ reg \in Versions \cup {Absent} /\ unit \in BOOLEAN
    /\ open \in BOOLEAN /\ asked \in BOOLEAN
    /\ pc \in {"idle", "undo"} \cup Steps \cup RemoveSteps
    /\ todo \in SUBSET Files /\ made \in SUBSET Files
    /\ madeSvc \in SUBSET Files
    /\ undo \in Seq(Undos)
    /\ run \in [kind : {"none", "swap", "over", "remove"}, from : Tree,
               to : Versions \cup {Absent}, fresh : BOOLEAN, clean : BOOLEAN,
               reg : Versions \cup {Absent}, hadOld : BOOLEAN,
               inApp : BOOLEAN]
    /\ stuck \in BOOLEAN /\ last \in Outcomes
    /\ runs \in 0..MaxRuns /\ faults \in 0..MaxFaults

\* An update never leaves the person without the program, whatever fails and
\* wherever it is killed, until the next setup or removal starts: it begins
\* with a program to replace (but for the first install of the macOS
\* service), and either that program, as it was, is in its folder or set
\* aside beside it, or the new one is in place, complete.  (swap.go:11: the
\* old folder holds the previous version until the update is known to work.)
SwapKeepsProgram ==
    run.kind = "swap" =>
        /\ run.from # Gone \/ platform = "service"
        /\ app = run.from \/ old = run.from \/ app = Full(run.to)

\* An update that failed and could undo everything leaves the program it
\* found, no staged copy beside it, and of the macOS service the plist it
\* found (install_darwin.go:58: "back to exactly what was there").
RollbackRestores ==
    last = "failed" /\ run.kind = "swap" /\ ~stuck =>
        /\ app = run.from /\ next = Gone
        /\ platform = "service" => reg = run.reg

\* A failed install on a machine that had nothing leaves nothing: no entry,
\* no service, no file but the one that the copy broke off in, which
\* CopyTree does not list (copytree.go:38-43).
FailedInstallLeavesNothing ==
    last = "failed" /\ run.kind = "over" /\ run.clean /\ ~stuck =>
        /\ reg = Absent /\ ~unit /\ svc = Gone
        /\ \A f, g \in Files :
              /\ app[f] \in {Absent, Torn}
              /\ app[f] = Torn /\ app[g] = Torn => f = g

=============================================================================
