------------------------------ MODULE Payments ------------------------------
(***************************************************************************)
(* Paying for the subscription: a transfer that an administrator of MA7    *)
(* finds or does not find, and how the application reads the answer.  MA7  *)
(* does not say "approved" or "turned down": the account is what changes   *)
(* or stays (renderer/src/lib/payments.ts), and it is compared with what   *)
(* it was, kept in the page's storage, by the card of «Профиль» and by the *)
(* payment dialog, each on its own (components/ProfileView.tsx).           *)
(*                                                                         *)
(* MA7 is external: it takes a request, an administrator answers it, and a *)
(* scheduler charges a month when the period ends.  One month costs one.   *)
(***************************************************************************)
EXTENDS Naturals

CONSTANTS
    Nothing,
    MaxRequests,    \* bound: payment requests, of the application and of the bot
    MaxPeriods,     \* bound: ends of a period
    MaxLosses       \* bound: requests to MA7 that fail or whose answer is lost; restarts

ASSUME BoundsAssumption == {MaxRequests, MaxPeriods, MaxLosses} \subseteq Nat

VARIABLES
    account,    \* MA7's
    cache,      \* localStorage awg:profiles: the last answer
    entry,      \* localStorage awg:payments: the request this computer knows about
    ask,        \* loadProfile: the one request under way and who takes its answer
    page,       \* ProfileSection
    dialog,     \* PayDialog
    before,     \* history: the account as the request found it
    answers,    \* history: what the administrator has said since
    late,       \* history: the answer under way was given before that request
    requests, periods, losses

vars == <<account, cache, entry, ask, page, dialog, before, answers, late, requests, periods, losses>>
outside == <<before, answers, requests, periods>>

Statuses == {"active", "overdue", "processing"}
Profiles == [status : Statuses, balance : Nat, until : Nat]
\* trackPayment's Entry; `old`: REJECTION_DAYS have passed.
Entries == [is : {"none", "pending", "rejected"}, balance : Nat, until : Nat, old : BOOLEAN]
NoEntry == [is |-> "none", balance |-> 0, until |-> 0, old |-> FALSE]
Pending(p) == [NoEntry EXCEPT !.is = "pending", !.balance = p.balance, !.until = p.until]
Rejected == [NoEntry EXCEPT !.is = "rejected"]
NoAsk == [by |-> {}, at |-> "none", got |-> Nothing]
ClosedPage == [open |-> FALSE, data |-> Nothing, approved |-> FALSE, rejected |-> FALSE]
NoDialog == [stage |-> "closed", details |-> FALSE, p |-> Nothing, base |-> Nothing, got |-> Nothing, asks |-> FALSE]

TypeOK ==
    /\ account \in [status : Statuses, rest : Statuses, balance : Nat, until : Nat]
    /\ cache \in Profiles \cup {Nothing}
    /\ entry \in Entries
    /\ ask \in [by : SUBSET {"page", "left", "sync"}, at : {"none", "sent", "answered"}, got : Profiles \cup {Nothing}]
    /\ page \in [open : BOOLEAN, data : Profiles \cup {Nothing}, approved : BOOLEAN, rejected : BOOLEAN]
    /\ dialog \in [stage : {"closed", "details", "sending", "taken", "refused", "waiting", "approved", "rejected"},
                   details : BOOLEAN, p : Profiles \cup {Nothing}, base : Profiles \cup {Nothing},
                   got : Profiles \cup {Nothing}, asks : BOOLEAN]
    /\ before \in [balance : Nat, until : Nat] /\ answers \subseteq {"approved", "rejected"} /\ late \in BOOLEAN
    /\ requests \in 0 .. MaxRequests /\ periods \in 0 .. MaxPeriods /\ losses \in 0 .. MaxLosses

Init ==
    /\ account \in {[status |-> s, rest |-> s, balance |-> b, until |-> 1] : s \in {"active", "overdue"}, b \in {0, 1}}
    /\ account.status = "overdue" => account.balance = 0
    /\ cache \in {Nothing, [status |-> "active", balance |-> 0, until |-> 1]}
    /\ entry = NoEntry /\ ask = NoAsk /\ page = ClosedPage /\ dialog = NoDialog
    /\ before = [balance |-> account.balance, until |-> account.until] /\ answers = {} /\ late = FALSE
    /\ requests = 0 /\ periods = 0 /\ losses = 0

----------------------------------------------------------------------------
(* MA7 *)

\* What getinfologin answers (parseProfile).
Shown == [status |-> account.status, balance |-> account.balance, until |-> account.until]

\* A request, of `paid` or of the bot; history begins anew unless one is still unread here.
Takeable == account.status # "processing" /\ requests < MaxRequests
Requested ==
    /\ Takeable
    /\ requests' = requests + 1
    /\ late' = (late \/ ask.at = "answered")
    /\ account' = [account EXCEPT !.rest = account.status, !.status = "processing"]
    /\ IF entry.is = "pending" THEN UNCHANGED <<before, answers>>
       ELSE /\ before' = [balance |-> account.balance, until |-> account.until]
            /\ answers' = {}

BotRequests == Requested /\ UNCHANGED <<cache, entry, ask, page, dialog, periods, losses>>

Approves ==
    /\ account.status = "processing"
    /\ account' = [account EXCEPT !.status = account.rest, !.balance = @ + 1]
    /\ answers' = answers \cup {"approved"}
    /\ UNCHANGED <<cache, entry, ask, page, dialog, before, late, requests, periods, losses>>

TurnsDown ==
    /\ account.status = "processing"
    /\ account' = [account EXCEPT !.status = account.rest]
    /\ answers' = answers \cup {"rejected"}
    /\ UNCHANGED <<cache, entry, ask, page, dialog, before, late, requests, periods, losses>>

\* The scheduler charges the next month, or has nothing to charge it from.
PeriodEnds ==
    /\ periods < MaxPeriods /\ periods' = periods + 1
    /\ LET rest == IF account.balance > 0 THEN "active" ELSE "overdue"
           paid == IF account.balance > 0 THEN 1 ELSE 0 IN
       account' = [status |-> IF account.status = "processing" THEN "processing" ELSE rest,
                   rest |-> rest, balance |-> account.balance - paid, until |-> account.until + paid]
    /\ UNCHANGED <<cache, entry, ask, page, dialog, before, answers, late, requests, losses>>

----------------------------------------------------------------------------
(* lib/payments.ts *)

\* Slip: money on the balance is no answer.
SlipGrew(was, p) == p.until > was.until
Grew(was, p) == p.balance > was.balance \/ p.until > was.until
paymentOutcome(was, p) ==
    IF p.status = "processing" THEN "none" ELSE IF Grew(was, p) THEN "approved" ELSE "rejected"

\* trackPayment: what is kept, and what is said.
Kept(p) ==
    IF p.status = "processing" THEN IF entry.is = "pending" THEN entry ELSE Pending(p)
    ELSE IF entry.is # "pending" THEN entry
    ELSE IF paymentOutcome(entry, p) = "rejected" THEN Rejected ELSE NoEntry
Said(p) == IF entry.is = "pending" THEN paymentOutcome(entry, p) ELSE "none"

paymentRejected(e) == e.is = "rejected" /\ ~e.old
dismissRejection == IF paymentRejected(entry) THEN NoEntry ELSE entry

\* Days pass and nobody acts on the red card.
Ages ==
    /\ paymentRejected(entry)
    /\ entry' = [entry EXCEPT !.old = TRUE]
    /\ UNCHANGED <<account, cache, ask, page, dialog, losses, late, outside>>

----------------------------------------------------------------------------
(* lib/profiles.ts and the card *)

\* One request per login at a time; a second caller waits for the first one's answer.
Joins(who) == ask' = [ask EXCEPT !.by = @ \cup {who}, !.at = IF @ = "none" THEN "sent" ELSE @]

\* syncProfiles: an account not seen yet, in the background.
Syncs ==
    /\ cache = Nothing /\ ask.at = "none"
    /\ Joins("sync")
    /\ UNCHANGED <<account, cache, entry, page, dialog, losses, late, outside>>

\* «Профиль» is opened: the cached account at once, and a fresh one asked for.
Opens ==
    /\ ~page.open
    /\ page' = [open |-> TRUE, data |-> cache, approved |-> FALSE, rejected |-> paymentRejected(entry)]
    /\ Joins("page")
    /\ UNCHANGED <<account, cache, entry, dialog, losses, late, outside>>

\* Another page: what the section asked for still comes to its closures.
Leaves ==
    /\ page.open /\ dialog.stage = "closed"
    /\ page' = ClosedPage
    /\ ask' = IF "page" \in ask.by THEN [ask EXCEPT !.by = (@ \ {"page"}) \cup {"left"}] ELSE ask
    /\ UNCHANGED <<account, cache, entry, dialog, losses, late, outside>>

processing == page.open /\ page.data # Nothing /\ page.data.status = "processing"
\* The quiet poll while the transfer is checked.
Polls ==
    /\ processing /\ "page" \notin ask.by
    /\ Joins("page")
    /\ UNCHANGED <<account, cache, entry, page, dialog, losses, late, outside>>

\* «Обновить».
Refreshes ==
    /\ page.open /\ dialog.stage = "closed" /\ "page" \notin ask.by
    /\ Joins("page")
    /\ UNCHANGED <<account, cache, entry, page, dialog, losses, late, outside>>

MA7Answers ==
    /\ ask.at = "sent"
    /\ ask' = [ask EXCEPT !.at = "answered", !.got = Shown]
    /\ UNCHANGED <<account, cache, entry, page, dialog, losses, late, outside>>

\* take, by a section that is there; `said` is what trackPayment told this very caller.
Takes(p, said) ==
    /\ page' = [open |-> TRUE, data |-> p,
                approved |-> \/ said = "approved"
                             \/ page.approved /\ said # "rejected" /\ p.status # "processing",
                rejected |-> paymentRejected(Kept(p))]
    \* The dialog's effect runs again when the end date of the card's account moves.
    /\ dialog' = IF dialog.stage = "waiting" /\ page.data.until # p.until
                 THEN [dialog EXCEPT !.base = p, !.asks = FALSE, !.got = Nothing] ELSE dialog

Arrives ==
    /\ ask.at = "answered"
    /\ cache' = ask.got /\ ask' = NoAsk /\ late' = FALSE
    /\ entry' = IF ask.by \cap {"page", "left"} = {} THEN entry ELSE Kept(ask.got)
    \* A section that was left comes first and has the answer to itself.
    /\ IF "page" \in ask.by THEN Takes(ask.got, IF "left" \in ask.by THEN "none" ELSE Said(ask.got))
       ELSE UNCHANGED <<page, dialog>>
    /\ UNCHANGED <<account, losses, outside>>

Loses == losses < MaxLosses /\ losses' = losses + 1
Fails ==
    /\ ask.at # "none" /\ Loses
    /\ ask' = NoAsk /\ late' = FALSE
    /\ UNCHANGED <<account, cache, entry, page, dialog, outside>>

\* The application is closed and started again: the page's storage is what stays.
Restarts ==
    /\ Loses
    /\ ask' = NoAsk /\ late' = FALSE /\ page' = ClosedPage /\ dialog' = NoDialog
    /\ UNCHANGED <<account, cache, entry, outside>>

----------------------------------------------------------------------------
(* PayDialog *)

canPay == page.open /\ page.data # Nothing /\ page.data.status # "processing"

\* «Оплатить», or «Оплатить снова» of the red card, which goes with it.
Pays ==
    /\ canPay /\ dialog.stage = "closed"
    /\ dialog' = [NoDialog EXCEPT !.stage = "details"]
    /\ IF page.rejected THEN entry' = dismissRejection /\ page' = [page EXCEPT !.rejected = FALSE]
       ELSE page' = [page EXCEPT !.approved = FALSE] /\ UNCHANGED entry
    /\ UNCHANGED <<account, cache, ask, losses, late, outside>>

DetailsCome ==
    /\ dialog.stage = "details" /\ ~dialog.details
    /\ dialog' = [dialog EXCEPT !.details = TRUE]
    /\ UNCHANGED <<account, cache, entry, ask, page, losses, late, outside>>

\* «Подтвердить», with the account the card shows at that moment.
Confirms ==
    /\ dialog.stage = "details" /\ dialog.details
    /\ dialog' = [dialog EXCEPT !.stage = "sending", !.p = page.data]
    /\ UNCHANGED <<account, cache, entry, ask, page, losses, late, outside>>

MA7Takes ==
    /\ dialog.stage = "sending"
    /\ \/ Requested /\ dialog' = [dialog EXCEPT !.stage = "taken"]
       \/ /\ ~Takeable
          /\ dialog' = [dialog EXCEPT !.stage = "refused"]
          /\ UNCHANGED <<account, before, answers, late, requests>>
    /\ UNCHANGED <<cache, entry, ask, page, periods, losses>>

\* startPayment, and the wait for the administrator; the effect reads the card's account anew.
IsTaken ==
    /\ dialog.stage = "taken"
    /\ entry' = Pending(dialog.p)
    /\ dialog' = [dialog EXCEPT !.stage = "waiting", !.base = page.data]
    /\ UNCHANGED <<account, cache, ask, page, losses, late, outside>>

NotTaken ==
    /\ \/ dialog.stage = "refused" /\ UNCHANGED losses
       \/ dialog.stage \in {"sending", "taken"} /\ Loses
    /\ dialog' = [dialog EXCEPT !.stage = "details", !.p = Nothing]
    /\ UNCHANGED <<account, cache, entry, ask, page, late, outside>>

DialogAsks ==
    /\ dialog.stage = "waiting" /\ ~dialog.asks
    /\ dialog' = [dialog EXCEPT !.asks = TRUE, !.got = Nothing]
    /\ UNCHANGED <<account, cache, entry, ask, page, losses, late, outside>>

MA7AnswersDialog ==
    /\ dialog.stage = "waiting" /\ dialog.asks /\ dialog.got = Nothing
    /\ dialog' = [dialog EXCEPT !.got = Shown]
    /\ UNCHANGED <<account, cache, entry, ask, page, losses, late, outside>>

DialogHears ==
    /\ dialog.stage = "waiting" /\ dialog.got # Nothing
    /\ LET said == paymentOutcome(dialog.base, dialog.got) IN
       dialog' = [dialog EXCEPT !.asks = FALSE, !.got = Nothing,
                                !.stage = IF said = "none" THEN "waiting" ELSE said]
    /\ UNCHANGED <<account, cache, entry, ask, page, losses, late, outside>>

DialogFails ==
    /\ dialog.asks /\ Loses
    /\ dialog' = [dialog EXCEPT !.asks = FALSE, !.got = Nothing]
    /\ UNCHANGED <<account, cache, entry, ask, page, late, outside>>

\* «Оплатить снова» after a refusal.
PaysAgain ==
    /\ dialog.stage = "rejected"
    /\ entry' = dismissRejection
    /\ dialog' = [dialog EXCEPT !.stage = "details", !.p = Nothing, !.base = Nothing]
    /\ UNCHANGED <<account, cache, ask, page, losses, late, outside>>

\* Before the request nothing happened; after it the account is asked again.
Closes ==
    /\ dialog.stage \in {"details", "waiting", "approved", "rejected"}
    /\ dialog' = NoDialog
    /\ IF dialog.stage = "details" THEN UNCHANGED ask ELSE Joins("page")
    /\ UNCHANGED <<account, cache, entry, page, losses, late, outside>>

----------------------------------------------------------------------------

Card == Syncs \/ Opens \/ Leaves \/ Polls \/ Refreshes \/ MA7Answers \/ Arrives \/ Fails \/ Restarts \/ Ages
Dialog ==
    \/ Pays \/ DetailsCome \/ Confirms \/ MA7Takes \/ IsTaken \/ NotTaken \/ DialogAsks
    \/ MA7AnswersDialog \/ DialogHears \/ DialogFails \/ PaysAgain \/ Closes
Next == BotRequests \/ Approves \/ TurnsDown \/ PeriodEnds \/ Card \/ Dialog

\* MA7 answers or the request fails, and the page's timer keeps asking; nobody has to press anything.
Answering ==
    /\ WF_vars(Polls) /\ WF_vars(MA7Answers) /\ WF_vars(Arrives)
    /\ WF_vars(DialogAsks) /\ WF_vars(MA7AnswersDialog) /\ WF_vars(DialogHears)

Spec == Init /\ [][Next]_vars
FairSpec == Spec /\ Answering

----------------------------------------------------------------------------

\* The baseline is the account as the request found it, and no money lay on it.
Clear(was) == was.balance = before.balance /\ was.until = before.until /\ before.balance = 0

\* What the card says of a request is what the administrator said: it is turned down exactly when
\* no transfer was found, whoever asked.  Of a request made when no money lay on the account, and
\* remembered as the account then was; and not by an answer older than the request.
AnswerIsRead ==
    [][~late /\ entry.is = "pending" /\ entry'.is # "pending" /\ Clear(entry)
       => (entry'.is = "rejected") = ("approved" \notin answers)]_vars

\* "Turning it down puts the status back" (lib/payments.ts): no red card before an administrator
\* has answered at all.
RedCardIsAnswer ==
    [][entry.is = "pending" /\ entry'.is = "rejected" => answers # {}]_vars

\* The same of the payment dialog, for a request that was made on a fresh account.
DialogReadsAnswer ==
    dialog.stage = "rejected" /\ dialog.p # Nothing /\ Clear(dialog.p) => "approved" \notin answers

\* A card that shows a transfer being checked comes to say what the administrator answered.
CheckedIsRead ==
    processing /\ account.status # "processing" ~> ~processing \/ account.status = "processing"
\* "The admin's answer shows up by itself" (ProfileView.tsx): on a card that knows of the request.
AnswerShowsUp ==
    page.open /\ entry.is = "pending" /\ account.status # "processing" 
        ~> ~page.open \/ entry.is # "pending" \/ account.status = "processing"
=============================================================================
