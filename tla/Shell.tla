-------------------------------- MODULE Shell --------------------------------
(***************************************************************************)
(* The processes of SenAWG on one desktop and their windows: who may steer *)
(* the tunnel, what closing the window does, and how it comes back         *)
(* (main/index.ts, main/tray.ts, main/appOptions.ts).  Electron's          *)
(* single-instance lock is external: one owner, who hears of every attempt *)
(* of another.                                                             *)
(***************************************************************************)
EXTENDS Naturals

CONSTANTS
    MaxApps,        \* bound: processes that are started, one after the other
    MaxTries,       \* attempts of a maintenance screen at the lock
    MaxToggles      \* bound: changes of «Работать в фоне»

VARIABLES
    app,        \* each process
    lock,       \* the owner of the single-instance lock
    attempts,   \* second-instance events on their way: owner and what was started
    background, \* settings.json
    toggles

vars == <<app, lock, attempts, background, toggles>>

Apps == 1 .. MaxApps
Nobody == 0
\* An application, the screen of a fresh install, the seamless update that an application starts,
\* and the installed application's `--maintenance`.
Kinds == {"plain", "install", "update", "maintenance"}
Off == [at |-> "off", kind |-> "plain", primary |-> "waiting", tries |-> 0,
        window |-> "none", appShown |-> FALSE, icon |-> FALSE, quitting |-> FALSE, patch |-> {}]

TypeOK ==
    /\ app \in [Apps -> [at : {"off", "waiting", "setup", "app", "gone"}, kind : Kinds,
                         primary : {"waiting", "asking", "got", "refused"}, tries : 0 .. MaxTries,
                         window : {"none", "shown", "hidden"}, appShown : BOOLEAN, icon : BOOLEAN,
                         quitting : BOOLEAN, patch : SUBSET BOOLEAN]]
    /\ lock \in Apps \cup {Nobody} /\ attempts \subseteq (Apps \X Kinds)
    /\ background \in BOOLEAN /\ toggles \in 0 .. MaxToggles

Init ==
    /\ app = [p \in Apps |-> Off] /\ lock = Nobody /\ attempts = {}
    /\ background \in BOOLEAN /\ toggles = 0

Alive(p) == app[p].at \notin {"off", "gone"}
setupMode(p) == app[p].kind # "plain"
Sets(p, r) == app' = [app EXCEPT ![p] = r]

----------------------------------------------------------------------------
(* Starting *)

\* The update waits for the application that started it, which goes on until it quits.
Launch(p) ==
    /\ app[p].at = "off" /\ \A q \in Apps : q < p => app[q].at # "off"
    /\ \E k \in Kinds :
          /\ k = "update" => \E w \in Apps : app[w].at = "app" /\ ~app[w].quitting
          \* The seamless update's screen is there before it has the lock.
          /\ Sets(p, [Off EXCEPT !.at = IF k = "update" THEN "setup" ELSE "waiting", !.kind = k,
                                 !.primary = IF k = "update" THEN "waiting" ELSE "asking",
                                 !.window = IF k = "update" THEN "shown" ELSE "none"])
    /\ UNCHANGED <<lock, attempts, background, toggles>>

\* waitForExit: the other is gone, or fifteen seconds have passed.
Waited(p) ==
    /\ Alive(p) /\ app[p].primary = "waiting"
    /\ Sets(p, [app[p] EXCEPT !.primary = "asking"])
    /\ UNCHANGED <<lock, attempts, background, toggles>>

\* before-quit: from then on a close is a close.
Quitting(r) == [r EXCEPT !.quitting = TRUE, !.icon = FALSE]

\* requestSingleInstanceLock; a maintenance screen asks again while the other closes.
AsksLock(p) ==
    /\ Alive(p) /\ app[p].primary = "asking" /\ ~app[p].quitting
    /\ IF lock = Nobody
       THEN lock' = p /\ Sets(p, [app[p] EXCEPT !.primary = "got"]) /\ UNCHANGED attempts
       ELSE /\ attempts' = attempts \cup {<<lock, app[p].kind>>}
            /\ Sets(p, IF app[p].kind = "maintenance" /\ app[p].tries < MaxTries
                       THEN [app[p] EXCEPT !.tries = @ + 1]
                       ELSE Quitting([app[p] EXCEPT !.primary = "refused"]))
            /\ UNCHANGED lock
    /\ UNCHANGED <<background, toggles>>

backgroundOn == background
\* startApp: the manager, the tray's icon, the journal, the IPC.
Started(r) == [r EXCEPT !.at = "app", !.icon = backgroundOn]

Starts(p) ==
    /\ app[p].at = "waiting" /\ app[p].primary = "got" /\ ~app[p].quitting
    /\ Sets(p, IF setupMode(p) THEN [app[p] EXCEPT !.at = "setup", !.window = "shown"]
               ELSE [Started(app[p]) EXCEPT !.window = "shown", !.appShown = TRUE])
    /\ UNCHANGED <<lock, attempts, background, toggles>>

\* Slip: the application is built while the one it replaces still runs.
SlipPrimary(p) == TRUE
\* prepareApp waits for `primary`; refused, the screen has quit.
Primary(p) == app[p].primary = "got"
Prepares(p) ==
    /\ app[p].at = "setup" /\ app[p].window # "none" /\ Primary(p) /\ ~app[p].quitting
    /\ Sets(p, Started(app[p]))
    /\ UNCHANGED <<lock, attempts, background, toggles>>
ShowApp(p) ==
    /\ app[p].at = "app" /\ ~app[p].appShown /\ app[p].window # "none" /\ ~app[p].quitting
    /\ Sets(p, [app[p] EXCEPT !.appShown = TRUE])
    /\ UNCHANGED <<lock, attempts, background, toggles>>

----------------------------------------------------------------------------
(* The window *)

\* A close hides the application's window, with «Работать в фоне»; any other close is the end.
Hides(r) == ~r.quitting /\ r.appShown /\ backgroundOn
Close(p) ==
    /\ app[p].at \in {"setup", "app"} /\ app[p].window = "shown" /\ ~app[p].quitting
    /\ Sets(p, IF Hides(app[p]) THEN [app[p] EXCEPT !.window = "hidden"]
               ELSE Quitting([app[p] EXCEPT !.window = "none"]))
    /\ UNCHANGED <<lock, attempts, background, toggles>>

\* A page sends its switch; the main process saves it and the icon comes or goes.
Toggle(p) ==
    /\ app[p].at = "app" /\ app[p].window = "shown" /\ app[p].appShown /\ ~app[p].quitting /\ app[p].patch = {}
    /\ toggles < MaxToggles /\ toggles' = toggles + 1
    /\ Sets(p, [app[p] EXCEPT !.patch = {~background}])
    /\ UNCHANGED <<lock, attempts, background>>
SetUiSettings(p) ==
    /\ Alive(p) /\ app[p].patch # {} /\ ~app[p].quitting
    /\ \E on \in app[p].patch :
          /\ background' = on
          /\ Sets(p, [app[p] EXCEPT !.patch = {}, !.icon = on])
    /\ UNCHANGED <<lock, attempts, toggles>>

\* From the tray, or a second launch: the window back from wherever it went.
showWindow(r) == IF r.window = "hidden" THEN [r EXCEPT !.window = "shown"] ELSE r

TrayOpens(p) ==
    /\ Alive(p) /\ app[p].icon /\ app[p].window = "hidden"
    /\ Sets(p, showWindow(app[p]))
    /\ UNCHANGED <<lock, attempts, background, toggles>>

\* A running application leaves to the maintenance screen: the lock first, then everything.
SecondInstance ==
    /\ \E a \in attempts :
          /\ attempts' = attempts \ {a}
          /\ LET p == a[1] IN
             IF ~setupMode(p) /\ a[2] = "maintenance"
             THEN lock' = (IF lock = p THEN Nobody ELSE lock) /\ Sets(p, Quitting(app[p]))
             ELSE Sets(p, showWindow(app[p])) /\ UNCHANGED lock
    /\ UNCHANGED <<background, toggles>>

\* The tray's «Выход», an update, a removal, the screen's own end.
Quit(p) ==
    /\ app[p].at \in {"setup", "app"} /\ ~app[p].quitting
    /\ app[p].window # "hidden" \/ app[p].icon
    /\ Sets(p, Quitting(app[p]))
    /\ UNCHANGED <<lock, attempts, background, toggles>>

\* The quit closes the windows: a close that is held back would keep the process.
LetsGo(r) == ~Hides(r)
Goes(p) ==
    /\ Alive(p) /\ app[p].quitting /\ LetsGo(app[p])
    /\ Sets(p, [Off EXCEPT !.at = "gone"])
    /\ lock' = (IF lock = p THEN Nobody ELSE lock)
    /\ attempts' = {a \in attempts : a[1] # p}
    /\ UNCHANGED <<background, toggles>>

----------------------------------------------------------------------------

Next ==
    \/ SecondInstance
    \/ \E p \in Apps :
          \/ Launch(p) \/ Waited(p) \/ AsksLock(p) \/ Starts(p) \/ Prepares(p) \/ ShowApp(p)
          \/ Close(p) \/ Toggle(p) \/ SetUiSettings(p) \/ TrayOpens(p) \/ Quit(p) \/ Goes(p)

\* Electron goes on with a quit by itself.
Fairness == \A p \in Apps : WF_vars(Goes(p))
Spec == Init /\ [][Next]_vars /\ Fairness

----------------------------------------------------------------------------

\* The process that runs the tunnel manager, and is not on its way out.
Steers(p) == app[p].at = "app" /\ ~app[p].quitting

\* "Two windows would mean two UIs steering one tunnel" (main/index.ts): of all processes, whatever
\* they were started as, at most one runs the tunnel manager and is not on its way out.
OneUi == \A p, q \in Apps : Steers(p) /\ Steers(q) => p = q

\* A process that was told to quit goes, whatever its window would do with a close.
QuitEnds == \A p \in Apps : app[p].quitting ~> ~app[p].quitting

\* A window that is hidden has the icon it went behind.
HiddenHasIcon == \A p \in Apps : app[p].window = "hidden" /\ ~app[p].quitting => app[p].icon
=============================================================================
