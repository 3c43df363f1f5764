------------------------------ MODULE MCWindow ------------------------------
(***************************************************************************)
(* One run for the window and what it shows: the journal and the report    *)
(* (Journal), the engine's log on its way there (DaemonLog), adding a      *)
(* server (AddServer) and the main screen (Page).  They share no state:    *)
(* `part` says which of the four a behaviour is about, and the others stay *)
(* still.                                                                  *)
(***************************************************************************)
EXTENDS Journal

CONSTANTS
    warn, info, Texts, Warnings, MAX_READ, RECENT_BYTES, MaxLines, MaxFiles, MaxStarts,
    blank, good, master, bad, Links, Blank, Good, Masters, Typed, MaxTexts, MaxForms,
    s1, s2, Servers, Edits, MaxActs

VARIABLES
    part,
    file, seesInode, tail, look, cut, from, got, seen, told, read, lines, files, starts,
    servers, listed, accounts, welcoming, back, adding, form, n, phase, field, previews, imports, texts, removed,
    state, routing, applied, fetch, states, calls, replies, pings, screen, acts, refused

engine == <<file, seesInode, tail, look, cut, from, got, seen, told, read, lines, files, starts>>
adds == <<servers, listed, accounts, welcoming, back, adding, form, n, phase, field, previews, imports, texts, removed>>
main_ == <<state, routing, applied, fetch, states, calls, replies, pings, screen, acts, refused>>

MCTyped == {<<good, bad>>, <<bad, good>>}

D == INSTANCE DaemonLog
\* The names that Journal has too are others here.
A == INSTANCE AddServer WITH shown <- listed, asks <- previews, faults <- removed
P == INSTANCE Page WITH pushes <- states, answers <- replies, page <- screen, faults <- refused

\* The parts that stay still have one first state.
WindowInit ==
    /\ part \in {"journal", "engine", "adds", "page"} /\ Init /\ D!Init /\ A!Init /\ P!Init
    /\ part # "engine" => seesInode
    /\ part # "adds" => servers = {} /\ ~accounts /\ ~back
WindowNext ==
    \/ part = "journal" /\ Next /\ UNCHANGED <<engine, adds, main_, part>>
    \/ part = "engine" /\ D!Next /\ UNCHANGED <<vars, adds, main_, part>>
    \/ part = "adds" /\ A!Next /\ UNCHANGED <<vars, engine, main_, part>>
    \/ part = "page" /\ P!Next /\ UNCHANGED <<vars, engine, adds, part>>

WindowSpec == WindowInit /\ [][WindowNext]_<<vars, engine, adds, main_, part>>

\* See DaemonLog: the journal has the engine's lines whole, in order and counted.
FollowsTheLog == D!FollowsTheLog

\* See AddServer: what is said of a key is said of the one in the field, and the first-run screen is
\* there until its note was seen.
PreviewIsOfLink == A!PreviewIsOfLink
NoteIsSeen == A!NoteIsSeen

\* See Page: a quiet page shows what the main process has.
PageAgrees == P!PageAgrees
=============================================================================
