------------------------------ MODULE Installer ------------------------------
(***************************************************************************)
(* The installer's window and «Удалить SenAWG»: the screen                 *)
(* (renderer/installer/installer.js; renderer/src/components/RemoveScreen  *)
(* in the application itself), the main process behind it (main/setup,     *)
(* main/uninstall) and the elevated helper whose progress file it follows. *)
(*                                                                         *)
(* Four clocks run here and nothing joins them: the helper writes its      *)
(* file, the main process reads it now and then, what it sends travels,    *)
(* and the screen plays it in beats of its own.  What the helper does to   *)
(* the machine is Setup.                                                   *)
(***************************************************************************)
EXTENDS Naturals, Sequences, SequencesExt, FiniteSets

CONSTANTS
    MaxWorks,       \* bound: installs and removals begun
    MaxPasswords    \* bound: passwords asked for in one work

VARIABLES
    start,          \* what this window is for, and the system it is on
    screen,         \* what is shown: see Screen
    beats,          \* what the helper reported, waiting its turn on the screen
    timers,         \* the screen's own timers
    wire,           \* what the main process sent and the screen has not received
    main,           \* the main process: see Main
    work,           \* the elevated work: see Work
    old,            \* the application this one replaces
    works           \* works begun so far

vars == <<start, screen, beats, timers, wire, main, work, old, works>>

----------------------------------------------------------------------------
(* How a window comes to be: main/index.ts (whenReady), setup/mode.ts *)

Kinds == {"install", "update", "auto", "seamless", "already", "maintenance", "application"}
Starts == {s \in [kind : Kinds, os : {"windows", "linux"}] : s.kind = "maintenance" => s.os = "linux"}

Installed == start.kind \in {"already", "maintenance"}
Seamless == start.kind = "seamless"
InApp == start.kind = "application"

\* The phase of the page and its panel; the task and its steps; the panel the button was pressed
\* on; `busy` disables the choice; `asking` is a password asked for.
Screen == [phase : {"intro", "work", "done", "failed", "removed", "gone"},
           panel : {"intro", "path", "remove", "work", "password", "removed"},
           task : {"install", "remove"}, steps : [1 .. 3 -> {"pending", "active", "done", "failed"}],
           choice : {"intro", "path"}, busy : BOOLEAN, asking : BOOLEAN]
Pending == [i \in 1 .. 3 |-> "pending"]
Reset == [phase |-> "intro", panel |-> "intro", task |-> "install", steps |-> Pending,
          choice |-> "intro", busy |-> FALSE, asking |-> FALSE]

\* `at`: at the administrator's prompt, at pkexec's own question, at work, handed over to a copy of
\* the helper, silent for good, ended with a code.  `said`: lines written; `read`: lines forwarded.
Work == [what : {"none", "install", "remove"}, keep : BOOLEAN,
         at : {"prompt", "terminal", "works", "handed", "stuck", "ended"},
         code : {"ok", "failed", "cancelled"}, said : 0 .. 7, failed : BOOLEAN, read : 0 .. 8]
NoWork == [what |-> "none", keep |-> TRUE, at |-> "ended", code |-> "ok", said |-> 0, failed |-> FALSE, read |-> 0]

\* registerSetupIpc's and createUninstaller's variables; the updater of «Обновить»; `window`: on
\* screen; `forgot`: the servers and keys are erased; `paused`: the manager leaves the service alone.
Main == [running : BOOLEAN, answer : BOOLEAN, staged : BOOLEAN, told : SUBSET {"shown", "aborted"},
         reported : BOOLEAN, prepared : {"no", "building", "ready"}, app : BOOLEAN, window : BOOLEAN,
         updating : {"no", "checking", "ready", "spawned"}, forgot : BOOLEAN, paused : BOOLEAN,
         passwords : 0 .. MaxPasswords]

TypeOK ==
    /\ start \in Starts /\ screen \in Screen /\ work \in Work /\ main \in Main
    /\ timers \subseteq {"finish", "handoff", "enter", "removed"}
    /\ old \in {"none", "running", "gone"} /\ works \in 0 .. MaxWorks

Begun(what, keep) == [NoWork EXCEPT !.what = what, !.keep = keep, !.at = "prompt"]
Working(s, task) == [s EXCEPT !.phase = "work", !.panel = "work", !.task = task]

\* registerSetupIpc, and `if (auto) begin(installPath)` at the end of installer.js.
Init ==
    /\ start \in Starts
    /\ beats = <<>> /\ timers = {} /\ wire = <<>>
    /\ main = [running |-> start.kind \in {"auto", "seamless"}, answer |-> FALSE, staged |-> FALSE, told |-> {},
               reported |-> FALSE, prepared |-> "no", app |-> FALSE, window |-> ~Seamless,
               updating |-> "no", forgot |-> FALSE, paused |-> FALSE, passwords |-> 0]
    /\ IF start.kind \in {"auto", "seamless"}
       THEN work = Begun("install", TRUE) /\ screen = Working(Reset, "install") /\ works = 1
       ELSE work = NoWork /\ screen = Reset /\ works = 0
    /\ old = IF Seamless THEN "running" ELSE "none"

----------------------------------------------------------------------------
(* The choice *)

AtChoice(panel) == screen.phase = "intro" /\ screen.panel = panel /\ main.window
Shows(panel) ==
    /\ screen' = [screen EXCEPT !.panel = panel]
    /\ UNCHANGED <<start, beats, timers, wire, main, work, old, works>>

\* begin, enterWork and IPC.setupInstall; `running` turns a second call away.
Begin(choice) ==
    /\ works < MaxWorks /\ works' = works + 1
    /\ screen' = [Working(screen, "install") EXCEPT !.choice = choice]
    /\ IF main.running THEN wire' = Append(wire, <<"reply", "failed">>) /\ UNCHANGED <<main, work>>
       ELSE /\ main' = [main EXCEPT !.running = TRUE, !.reported = FALSE, !.passwords = 0]
            /\ work' = Begun("install", TRUE) /\ wire' = wire
    /\ UNCHANGED <<start, beats, timers, old>>

Express == AtChoice("intro") /\ ~screen.busy /\ ~Installed /\ ~InApp /\ Begin("intro")
Reinstall == AtChoice("intro") /\ ~screen.busy /\ start.kind = "already" /\ Begin("intro")
Manual == AtChoice("intro") /\ start.kind = "install" /\ Shows("path")
Back == AtChoice("path") /\ Shows("intro")
InstallHere == AtChoice("path") /\ Begin("path")

\* IPC.setupOpenInstalled: this process lets go of the lock and quits.
OpenInstalled ==
    /\ AtChoice("intro") /\ ~screen.busy /\ Installed
    /\ screen' = [screen EXCEPT !.phase = "gone"]
    /\ UNCHANGED <<start, beats, timers, wire, main, work, old, works>>

\* askRemove; in the application «Удалить» and its confirmation.
AskRemove == AtChoice("intro") /\ ~screen.busy /\ (Installed \/ InApp) /\ Shows("remove")
RemoveCancel == AtChoice("remove") /\ Shows("intro")

\* beginRemove, or RemoveScreen's arrival; uninstaller.start holds the manager off first.
BeginRemove(keep) ==
    /\ AtChoice("remove") /\ works < MaxWorks /\ works' = works + 1
    /\ screen' = [Working(screen, "remove") EXCEPT !.choice = "intro", !.steps = Pending]
    /\ IF main.running THEN wire' = Append(wire, <<"reply", "cancelled">>) /\ UNCHANGED <<main, work>>
       ELSE /\ main' = [main EXCEPT !.running = TRUE, !.reported = FALSE, !.paused = TRUE]
            /\ work' = Begun("remove", keep) /\ wire' = wire
    /\ UNCHANGED <<start, beats, timers, old>>

SetBusy(s, on) == [s EXCEPT !.busy = on]

\* updateApp and IPC.setupUpdate: checked, downloaded, and the new installer started.
UpdateApp ==
    /\ AtChoice("intro") /\ ~screen.busy /\ Installed
    /\ screen' = SetBusy(screen, TRUE)
    /\ main' = [main EXCEPT !.updating = "checking"]
    /\ UNCHANGED <<start, beats, timers, wire, work, old, works>>
UpdateGoes ==
    /\ \/ /\ main.updating = "checking"
          /\ \/ main' = [main EXCEPT !.updating = "ready"] /\ wire' = Append(wire, <<"update", "ready">>)
             \/ \E why \in {"idle", "failed"} :
                   main' = [main EXCEPT !.updating = "no"] /\ wire' = Append(wire, <<"update", why>>)
       \/ /\ main.updating = "ready"
          /\ \/ main' = [main EXCEPT !.updating = "spawned"] /\ wire' = wire
             \/ main' = [main EXCEPT !.updating = "no"] /\ wire' = Append(wire, <<"update", "failed">>)
    /\ UNCHANGED <<start, screen, beats, timers, work, old, works>>
\* The new installer is up: this process quits.
Spawned ==
    /\ main.updating = "spawned" /\ screen.phase # "gone"
    /\ screen' = [screen EXCEPT !.phase = "gone"]
    /\ UNCHANGED <<start, beats, timers, wire, main, work, old, works>>

----------------------------------------------------------------------------
(* The administrator's consent: elevate.ts, elevateLinux.ts *)

Ends(code) == work' = [work EXCEPT !.at = "ended", !.code = code]
Prompt ==
    /\ work.what # "none" /\ work.at = "prompt"
    /\ \/ work' = [work EXCEPT !.at = "works"]
       \/ Ends("cancelled")
       \/ Ends("failed")                    \* not authorized, no pkexec
    /\ UNCHANGED <<start, screen, beats, timers, wire, main, old, works>>

\* pkexec found no agent: run again on a terminal of its own, if there is someone to ask.
NoAgent ==
    /\ work.what # "none" /\ work.at = "prompt" /\ start.os = "linux"
    /\ IF work.what = "remove" THEN Ends("failed") ELSE work' = [work EXCEPT !.at = "terminal"]
    /\ UNCHANGED <<start, screen, beats, timers, wire, main, old, works>>

\* askPassword; in a seamless update the window is shown for it.
AskPassword ==
    /\ work.at = "terminal" /\ ~main.answer /\ main.passwords < MaxPasswords
    /\ main' = [main EXCEPT !.answer = TRUE, !.window = TRUE, !.passwords = @ + 1]
    /\ wire' = Append(wire, <<"password", "asked">>)
    /\ UNCHANGED <<start, screen, beats, timers, work, old, works>>

\* answerPassword, IPC.setupPasswordAnswer and pkexecOnTerminal: cancelled, right, or asked again.
AnswerPassword ==
    /\ screen.panel = "password" /\ screen.asking
    /\ screen' = [screen EXCEPT !.asking = FALSE, !.panel = "work"]
    /\ main' = [main EXCEPT !.answer = FALSE]
    /\ \/ ~main.answer /\ work' = work
       \/ main.answer /\ Ends("cancelled")
       \/ main.answer /\ work' = [work EXCEPT !.at = "works"]
       \/ main.answer /\ main.passwords < MaxPasswords /\ work' = work
    /\ UNCHANGED <<start, beats, timers, wire, old, works>>

----------------------------------------------------------------------------
(* The helper at work *)

\* report.go: the lines of a work that goes well.
Lines ==
    IF Seamless /\ work.what = "install"
    THEN <<<<"active", 1>>, <<"staged", 1>>, <<"done", 1>>, <<"active", 2>>, <<"done", 2>>, <<"active", 3>>, <<"done", 3>>>>
    ELSE <<<<"active", 1>>, <<"done", 1>>, <<"active", 2>>, <<"done", 2>>, <<"active", 3>>, <<"done", 3>>>>
Current == IF work.said = 0 THEN 1 ELSE Lines[work.said][2]
File == SubSeq(Lines, 1, work.said) \o (IF work.failed THEN <<<<"failed", Current>>>> ELSE <<>>)
AtWork == work.at \in {"works", "handed"} /\ ~work.failed
Finished == work.said = Len(Lines)

\* The next line; after «staged» only once the old application has gone (waitGone).
Reports ==
    /\ AtWork /\ ~Finished
    /\ (work.said > 0 /\ Lines[work.said][1] = "staged") => old = "gone"
    /\ work' = [work EXCEPT !.said = @ + 1]
    /\ UNCHANGED <<start, screen, beats, timers, wire, main, old, works>>
\* A step fails, and the helper says which.
HelperFails ==
    /\ AtWork /\ ~Finished
    /\ work' = [work EXCEPT !.failed = TRUE, !.at = IF @ = "handed" THEN @ ELSE "ended", !.code = "failed"]
    /\ UNCHANGED <<start, screen, beats, timers, wire, main, old, works>>
HelperEnds ==
    /\ work.at = "works" /\ Finished /\ Ends("ok")
    /\ UNCHANGED <<start, screen, beats, timers, wire, main, old, works>>
\* remove_windows.go (handOver): a copy goes on, and the elevated process ends at once.
HandsOver ==
    /\ work.at = "works" /\ work.what = "remove" /\ start.os = "windows" /\ work.said = 0
    /\ work' = [work EXCEPT !.at = "handed"]
    /\ UNCHANGED <<start, screen, beats, timers, wire, main, old, works>>
\* That copy says nothing any more.
FallsSilent ==
    /\ work.at = "handed" /\ ~Finished /\ ~work.failed
    /\ work' = [work EXCEPT !.at = "stuck"]
    /\ UNCHANGED <<start, screen, beats, timers, wire, main, old, works>>

\* The application being replaced quits when it is told that the new window is there.
OldQuits ==
    /\ old = "running" /\ "shown" \in main.told
    /\ old' = "gone"
    /\ UNCHANGED <<start, screen, beats, timers, wire, main, work, works>>

----------------------------------------------------------------------------
(* The main process follows *)

Unread == SubSeq(File, work.read + 1, Len(File))
Message(line) == IF line[1] = "failed" THEN <<"failed", line[2]>> ELSE <<"step", line>>
Names(lines, kind) == \E i \in DOMAIN lines : lines[i][1] = kind
\* All of them but «staged», which is said once and is for the main process alone.
Messages(lines) ==
    LET told == IF Names(lines, "staged") THEN RemoveAt(lines, CHOOSE i \in DOMAIN lines : lines[i][1] = "staged")
                ELSE lines IN
    [i \in DOMAIN told |-> Message(told[i])]

\* SeamlessHost.staged, once: the window is shown, then the old application is told.
Staged(m) ==
    IF m.staged THEN m
    ELSE [m EXCEPT !.staged = TRUE, !.window = TRUE, !.told = IF Seamless THEN @ \cup {"shown"} ELSE @]

\* What is sent of the lines, and what the main process is then.  A removal erases the servers and
\* keys before its last step is reported done; that may be refused.
Erases(lines) == work.what = "remove" /\ Contains(lines, <<"done", 3>>)
SlipForwarded(lines, refused) == Messages(lines) \o (IF refused THEN <<<<"failed", 3>>>> ELSE <<>>)
Forwarded(lines, refused) ==
    IF refused THEN Messages(Front(lines)) \o <<<<"failed", 3>>>> ELSE Messages(lines)
Heard(m, lines, refused) ==
    LET known == IF Names(lines, "staged") THEN Staged(m) ELSE m IN
    [known EXCEPT !.reported = @ \/ refused \/ Names(lines, "failed"),
                  !.forgot = @ \/ (Erases(lines) /\ ~refused /\ ~work.keep)]

\* The timer of installForReal and followRemoval.
Follow ==
    /\ main.running /\ Unread # <<>> /\ ~main.reported
    /\ \E refused \in {FALSE} \cup (IF Erases(Unread) THEN {TRUE} ELSE {}) :
          /\ wire' = wire \o Forwarded(Unread, refused)
          /\ main' = Heard(main, Unread, refused)
    /\ work' = [work EXCEPT !.read = Len(File)]
    /\ UNCHANGED <<start, screen, beats, timers, old, works>>

\* What the main process makes of the end: everything has been read (the last read is part of it).
\* followRemoval knows the code of a declined prompt of Windows only.
Outcome ==
    IF work.code = "cancelled" /\ work.what = "remove" /\ start.os = "linux" THEN "failed"
    ELSE IF work.code = "ok" /\ main.reported THEN "failed"
    ELSE work.code
Sorry(out) == IF out = "failed" /\ ~main.reported THEN <<<<"failed", Current>>>> ELSE <<>>
Settle ==
    /\ main.running /\ work.what = "install" /\ work.at = "ended" /\ (Unread = <<>> \/ main.reported)
    /\ LET late == Seamless /\ ~main.staged
           m == IF late /\ work.code = "ok" THEN Staged(main)
                ELSE IF late THEN [main EXCEPT !.told = @ \cup {"aborted"}] ELSE main IN
       /\ main' = [m EXCEPT !.running = FALSE, !.prepared = IF work.code = "ok" THEN "building" ELSE @]
       /\ IF late /\ work.code # "ok"
          THEN screen' = [screen EXCEPT !.phase = "gone"] /\ wire' = wire
          ELSE screen' = screen /\ wire' = wire \o Sorry(Outcome) \o <<<<"reply", Outcome>>>>
    /\ UNCHANGED <<start, beats, timers, work, old, works>>

Released(out) == out # "ok"
\* The end of followRemoval and of uninstaller.start; a copy that went on is followed to its last line.
RemovalSettles ==
    /\ main.running /\ work.what = "remove" /\ (Unread = <<>> \/ main.reported)
    /\ work.at = "ended" \/ (work.at = "handed" /\ (Finished \/ work.failed))
    /\ main' = [main EXCEPT !.running = FALSE, !.paused = ~Released(Outcome)]
    /\ wire' = wire \o Sorry(Outcome) \o <<<<"reply", Outcome>>>>
    /\ UNCHANGED <<start, screen, beats, timers, work, old, works>>
\* A minute of silence.
RemovalIdles ==
    /\ main.running /\ work.at = "stuck" /\ Unread = <<>>
    /\ main' = [main EXCEPT !.running = FALSE, !.paused = FALSE]
    /\ wire' = wire \o <<<<"failed", Current>>, <<"reply", "failed">>>>
    /\ UNCHANGED <<start, screen, beats, timers, work, old, works>>

Prepares ==
    /\ main.prepared = "building"
    /\ main' = [main EXCEPT !.prepared = "ready"]
    /\ UNCHANGED <<start, screen, beats, timers, wire, work, old, works>>

----------------------------------------------------------------------------
(* The screen *)

\* backToChoice, or RemoveScreen's `leave`: as if the button had not been pressed.
BackToChoice(s) == [s EXCEPT !.phase = "intro", !.panel = s.choice, !.task = "install"]
\* RemoveScreen shows what comes at once; on the installer's page it waits its turn as a beat.
Plays(s, event) ==
    IF event[1] = "failed" THEN [s EXCEPT !.phase = "failed", !.steps[event[2]] = "failed"]
    ELSE [s EXCEPT !.steps[event[2][2]] = event[2][1]]
InAppPlays(s, event) ==
    IF event[1] = "step" THEN [s EXCEPT !.steps = [i \in 1 .. 3 |-> IF i = event[2][2] THEN event[2][1]
                                                                    ELSE IF i < event[2][2] THEN "done" ELSE @[i]]]
    ELSE [s EXCEPT !.steps[event[2]] = "failed"]

ReceivesEvent ==
    /\ wire # <<>> /\ Head(wire)[1] \in {"step", "failed"} /\ wire' = Tail(wire)
    /\ IF InApp THEN screen' = InAppPlays(screen, Head(wire)) /\ beats' = beats
                ELSE beats' = Append(beats, Head(wire)) /\ screen' = screen
    /\ UNCHANGED <<start, timers, main, work, old, works>>
ReceivesReply ==
    /\ wire # <<>> /\ Head(wire)[1] = "reply" /\ wire' = Tail(wire)
    /\ LET out == Head(wire)[2] IN
       CASE out = "cancelled" -> screen' = BackToChoice(screen) /\ beats' = <<>> /\ timers' = {}
         [] out = "ok" /\ screen.task = "remove" /\ InApp ->
               screen' = [screen EXCEPT !.phase = "done"] /\ timers' = {"removed"} /\ beats' = beats
         [] out = "ok" /\ screen.task = "remove" /\ ~InApp ->
               beats' = Append(beats, <<"removed", "shown">>) /\ UNCHANGED <<screen, timers>>
         [] out = "failed" /\ InApp -> screen' = [screen EXCEPT !.phase = "failed"] /\ UNCHANGED <<beats, timers>>
         [] OTHER -> UNCHANGED <<screen, beats, timers>>
    /\ UNCHANGED <<start, main, work, old, works>>
ReceivesQuestion ==
    /\ wire # <<>> /\ Head(wire)[1] = "password" /\ wire' = Tail(wire)
    /\ screen' = [screen EXCEPT !.asking = TRUE, !.panel = "password"]
    /\ UNCHANGED <<start, beats, timers, main, work, old, works>>
ReceivesUpdate ==
    /\ wire # <<>> /\ Head(wire)[1] = "update" /\ wire' = Tail(wire)
    /\ screen' = SetBusy(screen, Head(wire)[2] = "ready")
    /\ UNCHANGED <<start, beats, timers, main, work, old, works>>

\* A slip: a last step that begins is taken for one that is done.
SlipIsLast(event) == event[2][2] = 3
IsLast(event) == event[2] = <<"done", 3>>
\* pump: the next beat.  A failure clears what waits; the last step of an install finishes it.
Beat ==
    /\ beats # <<>> /\ screen.phase # "gone"
    /\ LET event == Head(beats) IN
       CASE event[1] = "failed" -> screen' = Plays(screen, event) /\ beats' = <<>> /\ timers' = {}
         [] event[1] = "removed" ->
               /\ screen' = [screen EXCEPT !.steps = [i \in 1 .. 3 |-> "done"]]
               /\ beats' = Tail(beats) /\ timers' = timers \cup {"removed"}
         [] OTHER ->
               /\ screen' = Plays(screen, event) /\ beats' = Tail(beats)
               /\ timers' = IF screen.task = "install" /\ IsLast(event) THEN timers \cup {"finish"} ELSE timers
    /\ UNCHANGED <<start, wire, main, work, old, works>>

\* finish, handoff (land, leave, fly), and the end of a removal.
Timer(name, next, after) ==
    /\ name \in timers /\ screen.phase # "gone"
    /\ timers' = (timers \ {name}) \cup after
    /\ screen' = next
    /\ UNCHANGED <<start, beats, wire, main, work, old, works>>
Finish == Timer("finish", [screen EXCEPT !.phase = "done"], {"handoff"})
Handoff == Timer("handoff", screen, {"enter"})
RemovalDone == Timer("removed", [screen EXCEPT !.phase = "removed", !.panel = "removed"], {})

\* bridge.entered: the main process lays the application over the window, if there is one by now.
Entered ==
    /\ "enter" \in timers /\ main.prepared \in {"ready", "no"}
    /\ timers' = timers \ {"enter"}
    /\ main' = [main EXCEPT !.app = main.prepared = "ready"]
    /\ UNCHANGED <<start, screen, beats, wire, work, old, works>>

\* «Завершить», «Вернуться в приложение», and the window closed.
FinishRemoval ==
    /\ screen.phase = "removed"
    /\ screen' = [screen EXCEPT !.phase = "gone"]
    /\ UNCHANGED <<start, beats, timers, wire, main, work, old, works>>
ReturnsToApp ==
    /\ InApp /\ screen.phase = "failed" /\ ~main.running /\ wire = <<>>
    /\ screen' = [BackToChoice(screen) EXCEPT !.steps = Pending]
    /\ UNCHANGED <<start, beats, timers, wire, main, work, old, works>>

User == \/ Express \/ Reinstall \/ Manual \/ Back \/ InstallHere \/ OpenInstalled \/ UpdateApp
        \/ AskRemove \/ RemoveCancel \/ (\E keep \in BOOLEAN : BeginRemove(keep))
        \/ AnswerPassword \/ FinishRemoval \/ ReturnsToApp
Helper == Prompt \/ NoAgent \/ Reports \/ HelperFails \/ HelperEnds \/ HandsOver \/ FallsSilent
Process == UpdateGoes \/ Spawned \/ AskPassword \/ Follow \/ Settle \/ RemovalSettles \/ RemovalIdles \/ Prepares
Page == \/ ReceivesEvent \/ ReceivesReply \/ ReceivesQuestion \/ ReceivesUpdate
        \/ Beat \/ Finish \/ Handoff \/ RemovalDone \/ Entered

Next == User \/ Helper \/ Process \/ Page \/ OldQuits
Spec == Init /\ [][Next]_vars

\* Someone answers the system's prompt, the helper's steps end, the pollers and the page's timers
\* run, and the old application quits when told.  Nothing makes the person press anything.
Fairness == WF_vars(Helper) /\ WF_vars(Process) /\ WF_vars(Page) /\ WF_vars(OldQuits)
FairSpec == Spec /\ Fairness

----------------------------------------------------------------------------
(* What must hold *)

\* The page says «Готово», and makes way for the application, only when the helper has done its last
\* step and reported no failure; and «SenAWG удалён» only when the removal has ended.
DoneIsDone ==
    screen.phase \in {"done", "removed"} => work.what = screen.task /\ Finished /\ ~work.failed

\* At the choice nothing elevated runs, nothing is being updated behind live buttons, and the manager
\* of an application the person has come back to is not held off.
Ready(p) == screen.phase = "intro" /\ ~screen.busy /\ p
ChoiceIsFree == Ready(wire = <<>>) => ~main.running /\ main.updating = "no" /\ ~main.paused /\ ~main.answer

\* A removal that erases ticks its last step only when the servers and keys are gone, and they go
\* only after the helper has taken the program off.
TickedIsGone ==
    /\ screen.task = "remove" /\ work.what = "remove" /\ ~work.keep /\ screen.steps[3] = "done" => main.forgot
    /\ main.forgot => Finished

\* While the new version is put in place of the old one there is always a window: the old
\* application's, or this one; and the old one is not told that it may stay once it may go.
SomeoneIsThere ==
    Seamless => /\ old = "running" \/ main.window
                /\ main.told # {"shown", "aborted"}

\* Whatever becomes of a work, its screen does not stand at it for good: it ends, or asks.
WorkEnds == (screen.phase = "work") ~> (screen.phase # "work" \/ screen.asking)

\* RemoveScreen.tsx:49-50: «Declining the administrator prompt goes straight back».
DeclinedGoesBack == [](work.code = "cancelled" => screen.phase # "failed")

\* setup/index.ts:149-150: the application is shown whatever became of preparing it, «otherwise the
\* window stays on the greeting's picture for good».
EnteredIsShown == screen.phase = "done" /\ timers = {} /\ screen.task = "install" => main.app
=============================================================================
