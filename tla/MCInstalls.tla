----------------------------- MODULE MCInstalls -----------------------------
(***************************************************************************)
(* One run for installing and removing: either what the elevated helper    *)
(* does to the machine (Setup) or what the windows around it show          *)
(* (Installer), which takes the helper by what it reports.  They share no  *)
(* state: `part` says which of the two a behaviour is about, and the other *)
(* stays still.                                                            *)
(***************************************************************************)
EXTENDS Setup

CONSTANTS MaxWorks, MaxPasswords

VARIABLES part, start, screen, beats, timers, wire, main, work, other, works

window == <<start, screen, beats, timers, wire, main, work, other, works>>

\* The window's `old` is the application it replaces; Setup's is the version set aside.
W == INSTANCE Installer WITH old <- other

\* The part that stays still has one first state.
InstallsInit ==
    /\ part \in {"machine", "window"} /\ Init /\ W!Init
    /\ part = "machine" => start = [kind |-> "install", os |-> "linux"]
    /\ part = "window" => platform = "linux"
InstallsNext ==
    \/ part = "machine" /\ Next /\ UNCHANGED <<window, part>>
    \/ part = "window" /\ W!Next /\ UNCHANGED <<vars, part>>
Turn(A) == part = "window" /\ A /\ UNCHANGED <<vars, part>>
InstallsFairness ==
    /\ WF_window(Turn(W!Helper)) /\ WF_window(Turn(W!Process))
    /\ WF_window(Turn(W!Page)) /\ WF_window(Turn(W!OldQuits))

InstallsSpec == InstallsInit /\ [][InstallsNext]_<<vars, window, part>> /\ InstallsFairness

\* See Installer: what the page says has happened, what the choice and the ticks mean, and the end.
DoneIsDone == W!DoneIsDone
ChoiceIsFree == W!ChoiceIsFree
TickedIsGone == W!TickedIsGone
SomeoneIsThere == W!SomeoneIsThere
WorkEnds == part = "window" => W!WorkEnds
=============================================================================
