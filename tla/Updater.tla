------------------------------ MODULE Updater ------------------------------
(***************************************************************************)
(* Updates over the air: the card (src/main/update/updater.ts), where a    *)
(* download comes from and what it leaves on disk (server.ts, retry.ts),   *)
(* and the handoff to the installer that replaces the running application  *)
(* (index.ts, handoff.ts, and setup/index.ts on the installer's side).     *)
(*                                                                         *)
(* A download is a call in `ops`: it waits for the call that `running`     *)
(* names to let go of the file, and then looks at what is there, tries the *)
(* changed files ("delta", then "tree"), or fetches the installer ("whole")*)
(* and checks its signature ("verify").  An installer is two pieces long;  *)
(* its pieces come from the build the site has at that moment.             *)
(*                                                                         *)
(* The installer's window and the elevated setup are two processes that    *)
(* outlive the call that started them; the setup outlives the window.      *)
(***************************************************************************)
EXTENDS Naturals, FiniteSets, TLC

CONSTANTS
    Slots,      \* bound: downloads in progress
    None,
    MaxV,       \* bound: versions the site may come to offer
    MaxBuild,   \* bound: times one of them is built again under its name
    Tries,      \* bound: attempts at one request (RETRY_ATTEMPTS)
    MaxCalls,   \* bound: what the user and the timers ask
    MaxInstalls,    \* bound: installers started
    MaxRuns     \* bound: starts of the application

ASSUME BoundsAssumption == {MaxV, MaxBuild, Tries, MaxInstalls, MaxRuns} \subseteq Nat \ {0} /\ MaxCalls \in Nat
ASSUME SlotsAssumption == None \notin Slots /\ IsFiniteSet(Slots)

VARIABLES
    site,       \* the version it offers, and the build of each
    card, checking, running, ops, offered, file, wholeOnly,
    disk,       \* the installer's file of each version
    tree,       \* the folder put together from changed files
    app, run,   \* the application, and its start
    cur, have,  \* the version that runs, the version installed
    win, marker, setup, \* the installer's window, its word, the setup of each install
    calls,
    twice       \* history: two downloads were past the wait at once

diskVars == <<disk, tree>>
cardVars == <<card, checking, running, ops, offered, file, wholeOnly, twice>>
appVars == <<app, run, cur, have>>
handoffVars == <<win, marker, setup>>
vars == <<site, cardVars, diskVars, appVars, handoffVars, calls>>

Versions == 1 .. MaxV
Builds == 1 .. MaxBuild
Whole == 2
NoFile == [n |-> 0, by |-> {}]
NoTree == [v |-> 0, whole |-> FALSE]
NoCall == [pc |-> "free", v |-> 0, on |-> None, stop |-> FALSE, try |-> 0]
Started(v) == [NoCall EXCEPT !.pc = "look", !.v = v, !.try = 1]
Card(kind, v) == [kind |-> kind, v |-> v]
NoSetup == [st |-> "none", v |-> 0, run |-> 0]
Installs == {a \in 1 .. MaxInstalls : setup[a] # NoSetup}
Last == Cardinality(Installs)

TypeOK ==
    /\ site.v \in Versions /\ site.build \in [Versions -> Builds]
    /\ card.kind \in {"idle", "checking", "available", "downloading", "paused", "ready",
                      "installing", "failed"}
    /\ card.v \in 0 .. MaxV /\ checking \in BOOLEAN /\ wholeOnly \in BOOLEAN
    /\ (running # None => ops[running].pc \notin {"free", "wait"}) \/ twice
    /\ \A s \in Slots : /\ ops[s].pc \in {"free", "wait", "look", "delta", "tree", "whole", "verify"}
                        /\ ops[s].on # None <=> ops[s].pc = "wait"
                        /\ ops[s].try \in 0 .. Tries
    /\ offered \in 0 .. MaxV /\ file \in [v : 0 .. MaxV, tree : BOOLEAN]
    /\ disk \in [Versions -> [n : 0 .. Whole, by : SUBSET Builds]]
    /\ tree \in [v : 0 .. MaxV, whole : BOOLEAN]
    /\ app \in {"up", "quit"} /\ run \in 1 .. MaxRuns /\ cur \in 0 .. MaxV /\ have \in 0 .. MaxV
    /\ win \in {"none", "run"} /\ marker \in {"none", "shown", "cancelled", "failed"}
    /\ \A a \in 1 .. MaxInstalls : setup[a].st \in {"none", "prompt", "staging", "staged", "undone", "done"}
    /\ calls \in 0 .. MaxCalls /\ twice \in BOOLEAN

Fresh ==
    /\ card' = Card("idle", 0) /\ checking' = FALSE /\ running' = None
    /\ ops' = [s \in Slots |-> NoCall]
    /\ offered' = 0 /\ file' = [v |-> 0, tree |-> FALSE] /\ wholeOnly' = FALSE /\ twice' = FALSE

Init ==
    /\ site = [v |-> 1, build |-> [v \in Versions |-> 1]]
    /\ card = Card("idle", 0) /\ checking = FALSE /\ running = None
    /\ ops = [s \in Slots |-> NoCall]
    /\ offered = 0 /\ file = [v |-> 0, tree |-> FALSE] /\ wholeOnly = FALSE /\ twice = FALSE
    /\ disk = [v \in Versions |-> NoFile] /\ tree = NoTree
    /\ app = "up" /\ run = 1 /\ cur = 0 /\ have = 0
    /\ win = "none" /\ marker = "none" /\ setup = [a \in 1 .. MaxInstalls |-> NoSetup]
    /\ calls = 0

----------------------------------------------------------------------------
(* The site                                                                *)

Publishes ==
    /\ \/ site.v < MaxV /\ site' = [site EXCEPT !.v = @ + 1]
       \/ site.build[site.v] < MaxBuild /\ site' = [site EXCEPT !.build[site.v] = @ + 1]
    /\ UNCHANGED <<cardVars, diskVars, appVars, handoffVars, calls>>

----------------------------------------------------------------------------
(* The card's buttons and timers                                           *)

Asks == app = "up" /\ calls < MaxCalls /\ calls' = calls + 1

\* Over anything under way or already found it is ignored.
MayCheck == card.kind \in {"idle", "failed"}

Check ==
    /\ Asks
    /\ MayCheck
    /\ card' = Card("checking", 0) /\ checking' = TRUE
    /\ UNCHANGED <<running, ops, offered, file, wholeOnly, twice, site, diskVars, appVars, handoffVars>>

\* download(found): the file is let go of first by the call that has it.
Waits(s, v) == IF running = None THEN Started(v) ELSE [NoCall EXCEPT !.pc = "wait", !.v = v, !.on = running]

Begins(v) ==
    \E s \in Slots :
        /\ ops[s] = NoCall
        /\ ops' = [ops EXCEPT ![s] = Waits(s, v)]
        /\ running' = IF running = None THEN s ELSE running
        /\ card' = Card("downloading", v)

Checked ==
    /\ app = "up" /\ checking
    /\ checking' = FALSE
    /\ \/ card' \in {Card("failed", 0), Card("idle", 0)} /\ UNCHANGED <<running, ops, offered>>
       \/ /\ site.v > cur
          /\ offered' = site.v
          /\ \/ card' = Card("available", site.v) /\ UNCHANGED <<running, ops>>
             \/ Begins(site.v)                                   \* "update automatically"
    /\ UNCHANGED <<file, wholeOnly, twice, site, diskVars, appVars, handoffVars, calls>>

Download ==
    /\ Asks
    /\ card.kind \in {"available", "paused"}
    /\ Begins(card.v)
    /\ UNCHANGED <<checking, offered, file, wholeOnly, twice, site, diskVars, appVars, handoffVars>>

Pause ==
    /\ Asks
    /\ card.kind = "downloading"
    /\ card' = Card("paused", card.v)
    /\ ops' = IF running = None THEN ops ELSE [ops EXCEPT ![running].stop = TRUE]
    /\ UNCHANGED <<checking, running, offered, file, wholeOnly, twice, site, diskVars, appVars, handoffVars>>

----------------------------------------------------------------------------
(* A download ends: the calls that waited for it go on, all of them        *)

Ends(s, to) ==
    LET waiting == {w \in Slots : ops[w].on = s}
        go      == to.kind = "downloading" /\ waiting # {}
    IN /\ card' = to
       /\ ops' = [w \in Slots |-> CASE w = s -> NoCall
                                    [] w \in waiting -> IF go THEN Started(ops[w].v) ELSE NoCall
                                    [] OTHER -> ops[w]]
       /\ IF go THEN running' \in waiting ELSE running' = None
       /\ twice' = (twice \/ (go /\ Cardinality(waiting) > 1))

\* Paused, pause() has said so already.
Fails(s) == Ends(s, IF ops[s].stop THEN card ELSE Card("failed", 0))

Succeeds(s, f) == Ends(s, Card("ready", ops[s].v)) /\ file' = f

Goes(s, op) == ops' = [ops EXCEPT ![s] = op] /\ UNCHANGED <<running, twice>>

\* Progress goes to the card, unless the download was paused.
Shows(s) == card' = IF ops[s].stop THEN card ELSE Card("downloading", ops[s].v)

----------------------------------------------------------------------------
(* The steps of a download                                                 *)

At(s, pc) == app = "up" /\ ops[s].pc = pc

\* Changed files alone, unless an install from them failed, or part of the installer is here.
InPieces(v) == ~wholeOnly

Looks(s) ==
    /\ At(s, "look")
    /\ LET v == ops[s].v
       IN IF offered # v THEN Fails(s) /\ UNCHANGED disk
          ELSE IF disk[v].n \in 1 .. Whole - 1
            \* Gone on from, unless the server sends it all again.
            THEN /\ Goes(s, [ops[s] EXCEPT !.pc = "whole"])
                 /\ disk' \in {disk, [disk EXCEPT ![v] = NoFile]}
                 /\ UNCHANGED card
            ELSE \/ InPieces(v) /\ Goes(s, [ops[s] EXCEPT !.pc = "delta"]) /\ UNCHANGED <<card, disk>>
                 \/ /\ Goes(s, [ops[s] EXCEPT !.pc = "whole"])
                    /\ disk' = [disk EXCEPT ![v] = NoFile]
                    /\ UNCHANGED card
    /\ UNCHANGED <<checking, offered, file, wholeOnly, tree, site, appVars, handoffVars, calls>>

\* The list is signed and the installed files are counted, which no pause stops; folders
\* left from before go.
Listed(s) ==
    /\ At(s, "delta") /\ ~ops[s].stop
    /\ Goes(s, [ops[s] EXCEPT !.pc = "tree"])
    /\ tree' = [v |-> ops[s].v, whole |-> FALSE]
    /\ Shows(s)
    /\ UNCHANGED <<checking, offered, file, wholeOnly, disk, site, appVars, handoffVars, calls>>

Assembled(s) ==
    /\ At(s, "tree")
    /\ tree' = [tree EXCEPT !.whole = TRUE]
    /\ Succeeds(s, [v |-> ops[s].v, tree |-> TRUE])
    /\ UNCHANGED <<checking, offered, wholeOnly, disk, site, appVars, handoffVars, calls>>

\* Anything that goes wrong: the installer instead.  A pause: the changed files again.
DeltaFails(s) ==
    /\ At(s, "delta") \/ At(s, "tree")
    /\ tree' = IF ops[s].pc = "tree" THEN NoTree ELSE tree
    /\ \/ ops[s].stop /\ Fails(s) /\ UNCHANGED disk
       \/ /\ ~ops[s].stop
          /\ Goes(s, [ops[s] EXCEPT !.pc = "whole"])
          /\ disk' = [disk EXCEPT ![ops[s].v] = NoFile]
          /\ Shows(s)
    /\ UNCHANGED <<checking, offered, file, wholeOnly, site, appVars, handoffVars, calls>>

Receives(s) ==
    /\ At(s, "whole")
    /\ LET v == ops[s].v
           n == disk[v].n + 1
       IN /\ n <= Whole
          /\ disk' = [disk EXCEPT ![v] = [n |-> n, by |-> @.by \cup {site.build[v]}]]
          /\ Goes(s, [ops[s] EXCEPT !.pc = IF n = Whole THEN "verify" ELSE "whole"])
    /\ Shows(s)
    /\ UNCHANGED <<checking, offered, file, wholeOnly, tree, site, appVars, handoffVars, calls>>

\* What a download that ends badly leaves: a pause before the last byte keeps the part.
Left(s) == IF ops[s].stop /\ ops[s].pc = "whole" THEN disk ELSE [disk EXCEPT ![ops[s].v] = NoFile]

MayRetry(s) == ops[s].try < Tries /\ ~ops[s].stop

\* The connection is cut: from where it stopped, or all again, while tries are left.
Drops(s) ==
    /\ At(s, "whole")
    /\ \/ /\ MayRetry(s)
          /\ Goes(s, [ops[s] EXCEPT !.try = @ + 1])
          /\ disk' \in {disk, [disk EXCEPT ![ops[s].v] = NoFile]}
          /\ UNCHANGED card
       \/ /\ ~MayRetry(s)
          /\ Fails(s)
          /\ disk' = Left(s)
    /\ UNCHANGED <<checking, offered, file, wholeOnly, tree, site, appVars, handoffVars, calls>>

\* The signature is over the whole file, and of the build the site has now.
SlipSigned(v) == disk[v].n = Whole /\ site.build[v] \in disk[v].by
Signed(v) == disk[v] = [n |-> Whole, by |-> {site.build[v]}]

Verifies(s) ==
    /\ At(s, "verify")
    /\ \/ /\ Signed(ops[s].v)
          /\ Succeeds(s, [v |-> ops[s].v, tree |-> FALSE])
          /\ UNCHANGED disk
       \/ Fails(s) /\ disk' = Left(s) /\ UNCHANGED file
    /\ UNCHANGED <<checking, offered, wholeOnly, tree, site, appVars, handoffVars, calls>>

----------------------------------------------------------------------------
(* The handoff: the application's side                                     *)

\* install(): the installer is started, told the process to wait for.
Install ==
    /\ Asks
    /\ card.kind = "ready" /\ Last < MaxInstalls
    /\ card' = Card("installing", card.v)
    /\ win' = "run" /\ marker' = "none"
    /\ setup' = [setup EXCEPT ![Last + 1] = [st |-> "prompt", v |-> card.v, run |-> run]]
    /\ UNCHANGED <<checking, running, ops, offered, file, wholeOnly, twice, site, diskVars, appVars>>

\* Failed, not called off: not from the changed files again, until the next start.
InstallFails ==
    /\ card' = Card("failed", 0)
    /\ IF file.tree THEN wholeOnly' = TRUE /\ tree' = NoTree ELSE UNCHANGED <<wholeOnly, tree>>

\* What waitForMarker() may answer: the installer's word; without it, that it has gone or
\* that its time is up.
Says == IF marker = "none" THEN {"failed"} ELSE {marker}

\* The installer is done with unless its window is up: gone already, or told to go.
SlipLetGo == UNCHANGED win
LetGo == win' = "none"

Hears ==
    /\ app = "up" /\ card.kind = "installing"
    /\ \E said \in Says :
         \/ said = "shown" /\ app' = "quit" /\ UNCHANGED <<card, wholeOnly, tree, win>>
         \/ said = "cancelled" /\ card' = Card("ready", card.v) /\ LetGo
            /\ UNCHANGED <<app, wholeOnly, tree>>
         \/ said = "failed" /\ InstallFails /\ LetGo /\ UNCHANGED app
    /\ UNCHANGED <<checking, running, ops, offered, file, twice, site, disk, run, cur, have, marker, setup, calls>>

\* The user quits, or it crashes; started again, unless the installer's window has its lock.
Quits ==
    /\ app = "up" /\ run < MaxRuns
    /\ app' = "quit"
    /\ Fresh
    /\ UNCHANGED <<site, diskVars, run, cur, have, handoffVars, calls>>

Starts ==
    /\ app = "quit" /\ win = "none" /\ run < MaxRuns
    /\ app' = "up" /\ run' = run + 1 /\ cur' = have
    /\ Fresh
    /\ UNCHANGED <<site, diskVars, have, handoffVars, calls>>

----------------------------------------------------------------------------
(* The installer's window and the elevated setup                           *)

Becomes(a, st) == setup' = [setup EXCEPT ![a].st = st]
\* The window hears how its setup ended; with nothing staged it is never shown, and goes.
Aborts(a, word) == IF a = Last /\ win = "run" /\ marker = "none"
                     THEN marker' = word /\ win' = "none" ELSE UNCHANGED <<marker, win>>

Prompted(a) ==
    /\ setup[a].st = "prompt"
    /\ \/ Becomes(a, "staging") /\ UNCHANGED <<marker, win>>
       \/ Becomes(a, "none") /\ Aborts(a, "cancelled")
    /\ UNCHANGED <<site, cardVars, diskVars, appVars, calls>>

Stages(a) ==
    /\ setup[a].st = "staging"
    /\ \/ Becomes(a, "staged") /\ UNCHANGED <<marker, win>>
       \/ Becomes(a, "none") /\ Aborts(a, "failed")
    /\ UNCHANGED <<site, cardVars, diskVars, appVars, calls>>

\* The window reads that the new version is staged, whatever became of it since.
MayShow(a) == setup[a].st \in {"staged", "undone"}
Reveals(a) ==
    /\ a = Last /\ MayShow(a)
    /\ win = "run" /\ marker = "none"
    /\ marker' = "shown"
    /\ UNCHANGED <<site, cardVars, diskVars, appVars, win, setup, calls>>

\* The setup swaps the folders once the application that started it is gone, or gives up.
Swaps(a) ==
    /\ setup[a].st = "staged"
    /\ \/ /\ app = "quit" \/ setup[a].run # run
          /\ have' = setup[a].v
          /\ Becomes(a, "done")
       \/ Becomes(a, "undone") /\ UNCHANGED have
    /\ UNCHANGED <<site, cardVars, diskVars, app, run, cur, win, marker, calls>>

\* The window turns into the new application, or says what failed and is closed.
Closes ==
    /\ win = "run" /\ app = "quit" /\ Last > 0 /\ setup[Last].st \in {"undone", "done"}
    /\ marker = "shown"
    /\ win' = "none"
    /\ UNCHANGED <<site, cardVars, diskVars, appVars, marker, setup, calls>>

\* It dies before it is shown.
WindowDies ==
    /\ win = "run" /\ marker = "none"
    /\ win' = "none"
    /\ UNCHANGED <<site, cardVars, diskVars, appVars, marker, setup, calls>>

----------------------------------------------------------------------------

Downloads(s) == Looks(s) \/ Listed(s) \/ Assembled(s) \/ DeltaFails(s) \/ Receives(s) \/ Drops(s) \/ Verifies(s)
Setup(a) == Prompted(a) \/ Stages(a) \/ Reveals(a) \/ Swaps(a)
User == Check \/ Download \/ Pause \/ Install \/ Quits \/ Starts

Next ==
    \/ Publishes \/ User \/ Checked \/ Hears \/ Closes \/ WindowDies
    \/ \E s \in Slots : Downloads(s)
    \/ \E a \in 1 .. MaxInstalls : Setup(a)

\* Every request ends: an answer, a failure, or its time limit and its tries (retry.ts); the
\* wait for the installer has a time limit of its own.
Fairness == WF_vars(Checked) /\ WF_vars(Hears) /\ \A s \in Slots : WF_vars(Downloads(s))

Spec == Init /\ [][Next]_vars /\ Fairness
----------------------------------------------------------------------------
(* Properties                                                              *)

\* "A paused download may still be letting go of its file, and this one writes the same:
\* one at a time" (updater.ts:99).
OneDownload == ~twice

\* While downloads do take turns: what the card offers to start is on disk whole, of one
\* build, checked, and no download writes to it any more, however often the download was
\* paused, cut off or answered from another build.
ReadyIsChecked ==
    app = "up" /\ card.kind \in {"ready", "installing"} /\ ~twice =>
        /\ file.v = card.v
        /\ IF file.tree THEN tree = [v |-> card.v, whole |-> TRUE]
           ELSE disk[card.v].n = Whole /\ Cardinality(disk[card.v].by) = 1
        /\ \A s \in Slots : ops[s].pc = "free"

\* A paused card stays paused until the user goes on, or its download had just ended: no
\* late piece, failure or check moves it.
PauseHolds ==
    [][app = "up" /\ app' = "up" /\ card.kind = "paused" /\ ~twice /\ card'.kind # "paused" =>
         card'.kind = "ready" \/ (card'.kind = "downloading" /\ calls' > calls)]_vars

\* What is downloaded is the installer the last check found: server.ts keeps it apart from
\* the card, and refuses another (UPD-10).
OfferedIsFound == \A s \in Slots : ops[s].pc # "free" /\ ~twice => ops[s].v = offered

\* After an install from changed files failed, the next is the whole installer, until a
\* restart (index.ts:53).
TreeFailsOnce == wholeOnly /\ ~twice /\ card.kind \in {"ready", "installing"} => ~file.tree

\* An application that closed for the update has its successor's window open in its place,
\* or the update is over; and one that goes on has no installer left running.
HandedOver ==
    /\ app = "quit" /\ card.kind = "installing" =>
         marker = "shown" /\ (win = "run" \/ setup[Last].st \in {"undone", "done"})
    /\ app = "up" /\ card.kind # "installing" /\ ~twice => win = "none"

\* A check, a download or an install that is under way ends, whoever waits for whom.
Busy == app = "up" /\ card.kind \in {"checking", "downloading", "installing"}
Settles == Busy ~> ~Busy
=============================================================================
