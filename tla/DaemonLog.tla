------------------------------ MODULE DaemonLog ------------------------------
(***************************************************************************)
(* The engine's log on its way to the journal: the file another process    *)
(* writes, the follower that reads it once a second (tunnel/fileTail.ts)   *)
(* and the filter that counts repeated warnings instead of writing them    *)
(* (RepeatFilter, main/logger.ts).  The service is external: it appends    *)
(* whole lines and puts a new file in the place of the old one; the file   *)
(* may also be truncated in place.  A poll looks (stat) and then reads,    *)
(* with the service at work between the two.  A line is two halves, so     *)
(* that a read may end in the middle of one.                               *)
(***************************************************************************)
EXTENDS Integers, Sequences, FiniteSets, SequencesExt

CONSTANTS
    Texts,          \* what a line may say
    Warnings,       \* those that are warnings or errors
    MAX_READ,       \* halves that one poll reads
    RECENT_BYTES,   \* halves before the end where «recent» begins
    MaxLines,       \* bound: lines ever written
    MaxFiles,       \* bound: files, one in the place of another, and truncations
    MaxStarts       \* bound: times the follower is started

VARIABLES
    file,       \* the file by its path: its inode (0: there is none) and its halves
    seesInode,  \* the file system reports inodes (Windows may report 0)
    tail,       \* FileTail
    look,       \* halves that the poll under way is about to read (0: no poll)
    cut,        \* history: the file was truncated and no poll has looked since
    from,       \* history: the last line that this start does not show
    got,        \* history: the lines shown since the start
    seen,       \* RepeatFilter.seen
    told,       \* history: of each text, the lines the journal tells of
    read,       \* history: of each text, the lines the filter was given
    lines, files, starts

vars == <<file, seesInode, tail, look, cut, from, got, seen, told, read, lines, files, starts>>
written == <<lines, files>>
journal == <<seen, told, read>>

None == 0       \* no inode, no file
Torn == -1      \* half of a line, taken for one
Unsure == -1    \* nothing is promised: the start could not look where a line begins, or a
                \* poll could not see that it reads another file, or a truncated one

Line(i, says) == <<[line |-> i, half |-> 1, says |-> says], [line |-> i, half |-> 2, says |-> says]>>
NotSeen == [open |-> FALSE, count |-> 0, ended |-> FALSE]

TypeOK ==
    /\ file \in [ino : 0 .. MaxFiles, halves : Seq([line : 1 .. MaxLines, half : {1, 2}, says : Texts])]
    /\ seesInode \in BOOLEAN
    /\ tail \in [on : BOOLEAN, ino : 0 .. MaxFiles, offset : Nat, pending : Seq([line : 1 .. MaxLines, half : {1, 2}, says : Texts])]
    /\ look \in 0 .. MAX_READ /\ cut \in BOOLEAN
    /\ from \in Unsure .. MaxLines /\ got \in Seq(Torn .. MaxLines)
    /\ seen \in [Texts -> [open : BOOLEAN, count : Nat, ended : BOOLEAN]]
    /\ told \in [Texts -> Nat] /\ read \in [Texts -> Nat]

Init ==
    /\ file = [ino |-> None, halves |-> <<>>] /\ seesInode \in BOOLEAN
    /\ tail = [on |-> FALSE, ino |-> None, offset |-> 0, pending |-> <<>>]
    /\ look = 0 /\ cut = FALSE
    /\ from = 0 /\ got = <<>>
    /\ seen = [t \in Texts |-> NotSeen] /\ told = [t \in Texts |-> 0] /\ read = told
    /\ lines = 0 /\ files = 0 /\ starts = 0

----------------------------------------------------------------------------
(* The service *)

NewFile ==
    /\ files < MaxFiles /\ files' = files + 1
    /\ file' = [ino |-> files + 1, halves |-> <<>>]
    /\ cut' = FALSE
    /\ UNCHANGED <<seesInode, tail, look, from, got, journal, lines, starts>>
Vanishes ==
    /\ file.ino # None
    /\ file' = [ino |-> None, halves |-> <<>>]
    /\ cut' = FALSE
    /\ UNCHANGED <<seesInode, tail, look, from, got, journal, written, starts>>
Truncates ==
    /\ file.halves # <<>> /\ files < MaxFiles /\ files' = files + 1
    /\ file' = [file EXCEPT !.halves = <<>>]
    /\ cut' = TRUE
    /\ UNCHANGED <<seesInode, tail, look, from, got, journal, lines, starts>>
Appends ==
    /\ file.ino # None /\ lines < MaxLines
    /\ lines' = lines + 1
    /\ \E t \in Texts : file' = [file EXCEPT !.halves = @ \o Line(lines + 1, t)]
    /\ UNCHANGED <<seesInode, tail, look, cut, from, got, journal, files, starts>>

----------------------------------------------------------------------------
(* FileTail *)

Size == Len(file.halves)
statIno == IF seesInode THEN file.ino ELSE None

replaced(before, now) == before # None /\ now # None /\ before # now

\* Slip: the end of the last read is taken for the end of a line.
SlipLastNewline(all) == Len(all)
\* Where the last whole line ends; nothing of what is after it is shown yet.
LastNewline(all) ==
    LET ends == {k \in DOMAIN all : all[k].half = 2} IN IF ends = {} THEN 0 ELSE Max(ends)

\* The lines of a text that ends with one: what stands between two newlines, a half too.
Split(all) ==
    LET is(k) == all[k].half = 2 \/ k = Len(all)
        id(k) == IF k > 1 /\ all[k].half = 2 /\ all[k - 1] = [all[k] EXCEPT !.half = 1] THEN all[k].line ELSE Torn
        ends == SelectSeq([k \in DOMAIN all |-> k], is)
    IN [k \in DOMAIN ends |-> [id |-> id(ends[k]), says |-> all[ends[k]].says]]

\* The newline that «recent» skips to, from `at`.
SkipsTo(at) ==
    LET ends == {k \in at + 1 .. Size : file.halves[k].half = 2} IN IF ends = {} THEN at ELSE Min(ends)

\* start('end') before a connection, start('recent') when one is found running.
Start ==
    /\ look = 0
    /\ starts < MaxStarts /\ starts' = starts + 1
    /\ \E where \in {"end", "recent"}, locked \in BOOLEAN :
          LET back == IF Size > RECENT_BYTES THEN Size - RECENT_BYTES ELSE 0
              offset == IF where = "end" THEN Size ELSE IF back = 0 \/ locked THEN back ELSE SkipsTo(back) IN
          /\ locked => where = "recent" /\ back > 0
          /\ tail' = [on |-> TRUE, ino |-> statIno, offset |-> offset, pending |-> <<>>]
          /\ from' = IF locked THEN Unsure
                     ELSE IF offset > 0 THEN file.halves[offset].line
                     ELSE IF Size > 0 THEN file.halves[1].line - 1 ELSE lines
    /\ got' = <<>> /\ cut' = FALSE
    /\ UNCHANGED <<file, seesInode, look, journal, written>>
Stop ==
    /\ tail.on /\ look = 0
    /\ tail' = [on |-> FALSE, ino |-> None, offset |-> 0, pending |-> <<>>]
    /\ from' = 0 /\ got' = <<>>
    /\ UNCHANGED <<file, seesInode, look, cut, journal, written, starts>>

(* RepeatFilter *)

\* A window that has ended: with repeats its count is told and the next one begins, a quiet one is over.
Flushed(e) == IF ~e.ended THEN e ELSE IF e.count = 0 THEN NotSeen ELSE [open |-> TRUE, count |-> 0, ended |-> FALSE]

Summary(e) == IF e.ended THEN e.count ELSE 0

\* filter(): the first line of a text is written, the others are counted; other lines always pass.
Journals(shown) ==
    LET n(t) == Cardinality({k \in DOMAIN shown : shown[k].says = t})
        flushed(t) == Flushed(seen[t])
        first(t) == IF n(t) > 0 /\ ~flushed(t).open THEN 1 ELSE 0 IN
    /\ read' = [t \in Texts |-> read[t] + n(t)]
    /\ told' = [t \in Texts |-> told[t] + (IF t \in Warnings THEN Summary(seen[t]) + first(t) ELSE n(t))]
    /\ seen' = [t \in Texts |-> IF t \notin Warnings \/ (n(t) = 0 /\ ~flushed(t).open) THEN flushed(t)
                                ELSE [open |-> TRUE, count |-> flushed(t).count + n(t) - first(t), ended |-> FALSE]]
\* Thirty seconds of a window.
WindowEnds ==
    /\ look = 0
    /\ \E t \in Warnings : seen[t].open /\ ~seen[t].ended /\ seen' = [seen EXCEPT ![t].ended = TRUE]
    /\ UNCHANGED <<file, seesInode, tail, look, cut, from, got, told, read, written, starts>>

\* poll(): no file, or what its size says there is to read.
PollsNothing ==
    /\ tail.on /\ look = 0 /\ file.ino = None
    /\ tail' = [tail EXCEPT !.ino = None, !.offset = 0, !.pending = <<>>]
    /\ UNCHANGED <<file, seesInode, look, cut, from, got, journal, written, starts>>
Poll ==
    /\ tail.on /\ look = 0 /\ file.ino # None
    /\ LET again == replaced(tail.ino, statIno) \/ Size < tail.offset
           at == IF again THEN 0 ELSE tail.offset IN
       /\ tail' = [tail EXCEPT !.ino = statIno, !.offset = at, !.pending = IF again THEN <<>> ELSE @]
       /\ look' = IF Size - at > MAX_READ THEN MAX_READ ELSE Size - at
       /\ from' = IF cut /\ ~again /\ at > 0 THEN Unsure ELSE from      \* it has grown past the offset again
    /\ cut' = FALSE
    /\ UNCHANGED <<file, seesInode, got, journal, written, starts>>

\* The read of a file that may not open, and may no longer be the one that was looked at;
\* what was read up to its last newline is shown.
Read ==
    /\ look > 0 /\ look' = 0
    /\ \E locked \in BOOLEAN :
          LET at == tail.offset
              to == IF locked \/ Size <= at THEN at ELSE Min({at + look, Size})
              all == tail.pending \o SubSeq(file.halves, at + 1, to)
              end == IF to = at THEN 0 ELSE LastNewline(all)
              shown == Split(SubSeq(all, 1, end)) IN
          /\ tail' = [tail EXCEPT !.offset = to, !.pending = SubSeq(all, end + 1, Len(all))]
          /\ got' = got \o [k \in DOMAIN shown |-> shown[k].id]
          /\ IF shown = <<>> THEN UNCHANGED journal ELSE Journals(shown)
          /\ from' = IF to > at /\ (tail.ino # statIno \/ (cut /\ at > 0)) THEN Unsure ELSE from
          /\ cut' = (cut /\ to = at)
    /\ UNCHANGED <<file, seesInode, written, starts>>

----------------------------------------------------------------------------

Next == NewFile \/ Vanishes \/ Truncates \/ Appends \/ Start \/ Stop \/ WindowEnds \/ PollsNothing \/ Poll \/ Read

Spec == Init /\ [][Next]_vars

----------------------------------------------------------------------------

CaughtUp == tail.on /\ ~cut /\ tail.ino = file.ino /\ tail.offset = Size

\* "Survives the file being replaced (new inode) or truncated, and never emits half-written lines"
\* (fileTail.ts): since its start the follower shows whole lines, each once and in their order, and
\* has shown every newer one of the file that it has read to its end; and the journal tells of each of
\* them, in a line or in a count, but for those that an open window still counts.  Nothing is said of
\* the lines where it had nothing to see the change by: no inodes, a file replaced between a poll's
\* look and its read, a truncated file that has grown past the offset again.
FollowsTheLog ==
    /\ seesInode /\ from # Unsure =>
          /\ \A k \in DOMAIN got : got[k] # Torn /\ (k > 1 => got[k - 1] < got[k])
          /\ CaughtUp => \A k \in 1 .. Size : file.halves[k].line > from => Contains(got, file.halves[k].line)
    /\ \A t \in Texts : told[t] + seen[t].count = read[t]
=============================================================================
