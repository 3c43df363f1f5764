------------------------------- MODULE Journal -------------------------------
(***************************************************************************)
(* The journal and what is sent of it: the ring of the main process        *)
(* (Logger, main/logger.ts), the page's copy (hooks/useLogs.ts,            *)
(* lib/logs.ts), «Очистить», and the two-step «Репорт» (ReportDialog.tsx,  *)
(* report.ts and its handlers of main/index.ts).  An entry is its number.  *)
(* What is pushed to the page keeps its order, and so do the answers; the  *)
(* two may overtake each other.                                            *)
(***************************************************************************)
EXTENDS Integers, Sequences, FiniteSets, SequencesExt

CONSTANTS
    MAX_LOGS,       \* what the ring and the page hold
    MaxEntries, MaxBatch,   \* bounds: entries ever made, those made at once
    MaxClears, MaxReports,  \* bounds: «Очистить», «Далее»
    MaxFaults,      \* bound: calls that fail
    Nothing

ASSUME JournalAssumption == MAX_LOGS > 0 /\ Nothing \notin Nat

VARIABLES
    entries,    \* the ring
    nextId,
    aged,       \* entries up to this one are older than half an hour
    pushes,     \* batches on their way to the page
    asks,       \* the page's calls on their way, in order
    answers,    \* and the answers
    page,       \* useLogs: the page's entries
    dialog,     \* ReportDialog
    preparing,  \* reports that wait for what the device is
    preparedReport,
    sending,    \* POST /report under way
    ma7,        \* the reports that MA7 has
    shown,      \* history: the reports that were shown for review
    across,     \* history: entries that were on their way during a «Очистить»
    clearedTo,  \* history: the last entry that a «Очистить» took away
    clears, reports, faults

logs == <<entries, nextId, aged>>
main == <<preparing, preparedReport, sending, ma7>>
past == <<shown, across, clearedTo>>
vars == <<logs, pushes, asks, answers, page, dialog, main, past, clears, reports, faults>>

Reports == [id : 1 .. MaxReports, text : 1 .. MaxReports, logs : Seq(1 .. MaxEntries), device : BOOLEAN]
NoDialog == [step |-> "none", busy |-> FALSE, preview |-> Nothing]

TypeOK ==
    /\ entries \in Seq(1 .. MaxEntries) /\ Len(entries) <= MAX_LOGS /\ nextId \in 1 .. MaxEntries + 1
    /\ aged \in 0 .. MaxEntries
    /\ pushes \in Seq(Seq(1 .. MaxEntries)) /\ page \in Seq(1 .. MaxEntries)
    /\ dialog.step \in {"none", "form", "review", "sent"} /\ dialog.busy \in BOOLEAN
    /\ dialog.preview \in Reports \cup {Nothing} /\ preparedReport \in Reports \cup {Nothing}
    /\ preparing \subseteq Reports /\ sending \subseteq Reports /\ ma7 \subseteq Reports /\ shown \subseteq Reports

\* The page has subscribed and asks for what there is already.
Init ==
    /\ entries = <<>> /\ nextId = 1 /\ aged = 0
    /\ pushes = <<>> /\ asks = <<[op |-> "getLogs"]>> /\ answers = <<>> /\ page = <<>>
    /\ dialog = NoDialog /\ preparing = {} /\ preparedReport = Nothing /\ sending = {} /\ ma7 = {}
    /\ shown = {} /\ across = {} /\ clearedTo = 0
    /\ clears = 0 /\ reports = 0 /\ faults = 0

LastOf(s, n) == IF Len(s) > n THEN SubSeq(s, Len(s) - n + 1, Len(s)) ELSE s
\* A «Очистить» is under way.
Clearing == \E k \in DOMAIN asks : asks[k].op = "clearLogs"
ClearAnswered == \E k \in DOMAIN answers : answers[k].op = "clearLogs"

----------------------------------------------------------------------------
(* The ring *)

\* Logger.addMany, of the main process's own words or of the daemon's lines.
AddMany ==
    /\ \E n \in 1 .. MaxBatch :
          LET created == [k \in 1 .. n |-> nextId + k - 1] IN
          /\ nextId + n <= MaxEntries + 1
          /\ nextId' = nextId + n
          /\ entries' = LastOf(entries \o created, MAX_LOGS)
          /\ pushes' = Append(pushes, created)
          /\ across' = IF Clearing \/ ClearAnswered THEN across \cup Range(created) ELSE across
    /\ UNCHANGED <<aged, asks, answers, page, dialog, main, shown, clearedTo, clears, reports, faults>>
HalfAnHour ==
    /\ entries # <<>> /\ aged # Last(entries)
    /\ aged' = Last(entries)
    /\ UNCHANGED <<entries, nextId, pushes, asks, answers, page, dialog, main, past, clears, reports, faults>>

----------------------------------------------------------------------------
(* The page *)

\* Slip: what comes is put after what is there.
SlipMerge(prev, incoming) == LastOf(prev \o incoming, MAX_LOGS)
\* mergeLogs: the union by number, oldest first.
mergeLogs(prev, incoming) ==
    LastOf(SetToSortSeq(Range(prev) \cup Range(incoming), <), MAX_LOGS)

Hears ==
    /\ pushes # <<>>
    /\ page' = mergeLogs(page, Head(pushes)) /\ pushes' = Tail(pushes)
    /\ UNCHANGED <<logs, asks, answers, dialog, main, past, clears, reports, faults>>

Clear ==
    /\ page # <<>> /\ dialog.step = "none" /\ clears < MaxClears
    /\ clears' = clears + 1 /\ asks' = Append(asks, [op |-> "clearLogs"])
    /\ across' = across \cup UNION {Range(pushes[k]) : k \in DOMAIN pushes}
    /\ UNCHANGED <<logs, pushes, answers, page, dialog, main, shown, clearedTo, reports, faults>>

OpenReport ==
    /\ dialog.step = "none" /\ reports < MaxReports
    /\ dialog' = [NoDialog EXCEPT !.step = "form"]
    /\ UNCHANGED <<logs, pushes, asks, answers, page, main, past, clears, reports, faults>>
\* Not while a call is on its way (canClose).
CloseReport ==
    /\ dialog.step # "none" /\ ~dialog.busy
    /\ dialog' = NoDialog
    /\ UNCHANGED <<logs, pushes, asks, answers, page, main, past, clears, reports, faults>>
\* «Далее»: what was written, and the two switches.
Review ==
    /\ dialog.step = "form" /\ ~dialog.busy /\ reports < MaxReports
    /\ reports' = reports + 1 /\ dialog' = [dialog EXCEPT !.busy = TRUE]
    /\ \E withLogs, withDevice \in BOOLEAN :
          asks' = Append(asks, [op |-> "prepareReport", text |-> reports + 1, withLogs |-> withLogs, withDevice |-> withDevice])
    /\ UNCHANGED <<logs, pushes, answers, page, main, past, clears, faults>>
Back ==
    /\ dialog.step = "review" /\ ~dialog.busy
    /\ dialog' = [NoDialog EXCEPT !.step = "form"]
    /\ UNCHANGED <<logs, pushes, asks, answers, page, main, past, clears, reports, faults>>
Send ==
    /\ dialog.step = "review" /\ ~dialog.busy
    /\ dialog' = [dialog EXCEPT !.busy = TRUE]
    /\ asks' = Append(asks, [op |-> "sendReport", id |-> dialog.preview.id])
    /\ UNCHANGED <<logs, pushes, answers, page, main, past, clears, reports, faults>>

\* An answer comes: the journal, an empty one, a report to look over, or an end.
Answered ==
    /\ answers # <<>> /\ answers' = Tail(answers)
    /\ LET a == Head(answers) IN
          /\ page' = IF a.op = "getLogs" THEN mergeLogs(page, a.list)
                     ELSE IF a.op = "clearLogs" THEN <<>> ELSE page
          /\ dialog' = IF a.op = "prepareReport" THEN [step |-> "review", busy |-> FALSE, preview |-> a.report]
                       ELSE IF a.op = "sendReport" THEN [NoDialog EXCEPT !.step = "sent"]
                       ELSE IF a.op = "error" THEN [dialog EXCEPT !.busy = FALSE] ELSE dialog
          /\ shown' = IF a.op = "prepareReport" THEN shown \cup {a.report} ELSE shown
    /\ UNCHANGED <<logs, pushes, asks, main, across, clearedTo, clears, reports, faults>>

----------------------------------------------------------------------------
(* The main process *)

Error == [op |-> "error"]
MayFail == faults < MaxFaults /\ faults' = faults + 1

GetLogs ==
    /\ asks # <<>> /\ Head(asks).op = "getLogs" /\ asks' = Tail(asks)
    /\ answers' = Append(answers, [op |-> "getLogs", list |-> entries])
    /\ UNCHANGED <<logs, pushes, page, dialog, main, past, clears, reports, faults>>
ClearLogs ==
    /\ asks # <<>> /\ Head(asks).op = "clearLogs" /\ asks' = Tail(asks)
    /\ entries' = <<>> /\ clearedTo' = nextId - 1
    /\ answers' = Append(answers, [op |-> "clearLogs"])
    /\ UNCHANGED <<nextId, aged, pushes, page, dialog, main, shown, across, clears, reports, faults>>

\* buildReport: the journal of the last half hour, the device only when asked.
Recent == SelectSeq(entries, LAMBDA e : e > aged)
buildReport(q) == [id |-> q.text, text |-> q.text, logs |-> IF q.withLogs THEN Recent ELSE <<>>, device |-> q.withDevice]

\* prepareReport: the journal is taken before the device is asked.
PrepareReport ==
    /\ asks # <<>> /\ Head(asks).op = "prepareReport" /\ asks' = Tail(asks)
    /\ preparing' = preparing \cup {buildReport(Head(asks))}
    /\ UNCHANGED <<logs, pushes, answers, page, dialog, preparedReport, sending, ma7, past, clears, reports, faults>>
\* Kept, and shown; or the account is no longer there.
Prepared ==
    /\ \E r \in preparing :
          /\ preparing' = preparing \ {r}
          /\ \/ preparedReport' = r /\ answers' = Append(answers, [op |-> "prepareReport", report |-> r]) /\ UNCHANGED faults
             \/ MayFail /\ answers' = Append(answers, Error) /\ UNCHANGED preparedReport
    /\ UNCHANGED <<logs, pushes, asks, page, dialog, sending, ma7, past, clears, reports>>

\* Slip: the report is put together again when it goes.
SlipGoes(r) == [r EXCEPT !.logs = IF r.logs = <<>> THEN r.logs ELSE Recent]
\* «Отправить» sends that very report.
Goes(r) == r
\* sendReport: the report it was asked for, or REP-04.
SendReport ==
    /\ asks # <<>> /\ Head(asks).op = "sendReport" /\ asks' = Tail(asks)
    /\ IF preparedReport # Nothing /\ preparedReport.id = Head(asks).id
       THEN sending' = sending \cup {Goes(preparedReport)} /\ UNCHANGED answers
       ELSE answers' = Append(answers, Error) /\ UNCHANGED sending
    /\ UNCHANGED <<logs, pushes, page, dialog, preparing, preparedReport, ma7, past, clears, reports, faults>>
\* MA7 takes it and says so; or takes it and its answer is lost; or does not.
Sent ==
    /\ \E r \in sending :
          /\ sending' = sending \ {r}
          /\ \/ /\ ma7' = ma7 \cup {r} /\ answers' = Append(answers, [op |-> "sendReport"])
                /\ preparedReport' = IF preparedReport # Nothing /\ preparedReport.id = r.id THEN Nothing ELSE preparedReport
                /\ UNCHANGED faults
             \/ MayFail /\ ma7' \in {ma7, ma7 \cup {r}} /\ answers' = Append(answers, Error) /\ UNCHANGED preparedReport
    /\ UNCHANGED <<logs, pushes, asks, page, dialog, preparing, past, clears, reports>>

----------------------------------------------------------------------------

Next ==
    \/ AddMany \/ HalfAnHour \/ Hears \/ Clear \/ Answered
    \/ OpenReport \/ CloseReport \/ Review \/ Back \/ Send
    \/ GetLogs \/ ClearLogs \/ PrepareReport \/ Prepared \/ SendReport \/ Sent

Spec == Init /\ [][Next]_vars

----------------------------------------------------------------------------

Quiet == pushes = <<>> /\ asks = <<>> /\ answers = <<>>

\* "Union by id, oldest first, capped. Safe when a pushed batch races the initial fetch" (lib/logs.ts):
\* the page's journal is in order and says nothing twice; when nothing is on its way it has every entry
\* of the ring and none that was cleared, but for those that were on their way during a «Очистить».
JournalKeeps ==
    /\ Len(page) <= MAX_LOGS
    /\ \A k \in DOMAIN page : k > 1 => page[k - 1] < page[k]
    /\ Quiet => /\ Range(entries) \subseteq Range(page) \cup across
                /\ \A e \in Range(page) : e > clearedTo \/ e \in across

\* "sends that very report - the one the person looked over" (main/index.ts): MA7 has no other.
SentIsReviewed == ma7 \subseteq shown
=============================================================================
