---------------------------- MODULE NoticeCenter ----------------------------
(***************************************************************************)
(* The notices on the main screen: what MA7's notice center says to each   *)
(* account, asked round by round and kept in memory (main/ma7Notices.ts),  *)
(* less what the person has closed, remembered in settings.json            *)
(* (main/index.ts) and forgotten once MA7 no longer sends it; pushed to    *)
(* the window when it changes (components/Notices.tsx).                    *)
(*                                                                         *)
(* A login is what the link of a master key carries: a fresh link of the   *)
(* same account is another login (shared/account.ts).                      *)
(***************************************************************************)
EXTENDS Naturals, FiniteSets

CONSTANTS
    Logins, Ids,
    Nothing,
    MaxNews,        \* bound: what MA7 publishes and withdraws, accounts added and logged out
    MaxFaults       \* bound: failed requests and restarts of the application

VARIABLES
    sent,       \* MA7: what it sends to a login
    withdrawn,  \* MA7: what it will not send again
    accounts,   \* sen.accounts()
    cache,      \* Ma7Notices.cache: Nothing, or the last list
    round,      \* the round under way: the logins still to ask, the one asked, its answer; `changed`
    dismissed,  \* settings.json
    window,     \* the list that the window has, empty before its page is there
    fetch,      \* the page and its getNotices: at "main", "answered" and on the way back, "done"
    leaving,    \* cards that fold away before the window says so
    stale,      \* history: the page's list is an answer that main gave before its last push
    closed,     \* history: closed, and sent by MA7 ever since
    news, faults

vars == <<sent, withdrawn, accounts, cache, round, dismissed, window, fetch, leaving, stale, closed, news, faults>>
page == <<window, fetch, leaving, stale>>

Notices == Logins \X Ids
Idle == [on |-> FALSE, left |-> {}, login |-> Nothing, got |-> Nothing, changed |-> FALSE]
NoPage == [at |-> "nopage", list |-> {}, pushed |-> FALSE]

TypeOK ==
    /\ sent \in [Logins -> SUBSET Ids] /\ accounts \subseteq Logins
    /\ \A l \in Logins : cache[l] = Nothing \/ cache[l] \subseteq Ids
    /\ round.on \in BOOLEAN /\ round.left \subseteq Logins /\ round.login \in Logins \cup {Nothing} /\ round.changed \in BOOLEAN
    /\ dismissed \subseteq Notices /\ closed \subseteq Notices /\ leaving \subseteq Notices /\ withdrawn \subseteq Notices
    /\ window \subseteq Notices
    /\ fetch.at \in {"nopage", "main", "answered", "done"} /\ fetch.list \subseteq Notices /\ fetch.pushed \in BOOLEAN
    /\ stale \in BOOLEAN

Init ==
    /\ sent \in [Logins -> {{}, {CHOOSE i \in Ids : TRUE}}] /\ accounts \in SUBSET Logins
    /\ cache = [l \in Logins |-> Nothing] /\ round = Idle
    /\ withdrawn = {} /\ dismissed = {} /\ window = {} /\ leaving = {} /\ closed = {}
    /\ fetch = NoPage /\ stale = FALSE
    /\ news = 0 /\ faults = 0

----------------------------------------------------------------------------

\* notices(): an account that was logged out takes its own with it.
ListOf(as, c) == {n \in Notices : n[1] \in as /\ c[n[1]] # Nothing /\ n[2] \in c[n[1]]} \ dismissed
List(c) == ListOf(accounts, c)
\* The page has a list; the cards on their way out that it lacks are gone.
Shows(list) == window' = list /\ leaving' = leaving \cap list
\* The event to the window, if its page is there.
Told(list) ==
    IF fetch.at = "nopage" THEN UNCHANGED page
    ELSE Shows(list) /\ stale' = FALSE /\ fetch' = [fetch EXCEPT !.pushed = fetch.at = "answered"]

New == news < MaxNews /\ news' = news + 1
MA7Publishes ==
    /\ New
    /\ \E n \in Notices \ withdrawn :
          IF n[2] \in sent[n[1]]
          THEN /\ sent' = [sent EXCEPT ![n[1]] = @ \ {n[2]}]
               /\ withdrawn' = withdrawn \cup {n} /\ closed' = closed \ {n}
          ELSE /\ sent' = [sent EXCEPT ![n[1]] = @ \cup {n[2]}]
               /\ UNCHANGED <<withdrawn, closed>>
    /\ UNCHANGED <<accounts, cache, round, dismissed, page, faults>>

\* A key is added or an account is logged out: the window hears of it and poke() asks about
\* a login that was never asked.
AccountsChange ==
    /\ New
    /\ \E l \in Logins : accounts' = (accounts \ {l}) \cup ({l} \ accounts)
    /\ Told(ListOf(accounts', cache))
    /\ round' = IF ~round.on /\ \E l \in accounts' : cache[l] = Nothing
                THEN [Idle EXCEPT !.on = TRUE, !.left = accounts', !.changed = \E l \in Logins \ accounts' : cache[l] # Nothing]
                ELSE round
    /\ cache' = IF round' # round THEN [l \in Logins |-> IF l \in accounts' THEN cache[l] ELSE Nothing] ELSE cache
    /\ UNCHANGED <<sent, withdrawn, dismissed, closed, faults>>

\* The timer, the window brought to the front, «Обновить»: one round at a time.
Rounds ==
    /\ ~round.on
    /\ round' = [Idle EXCEPT !.on = TRUE, !.left = accounts, !.changed = \E l \in Logins \ accounts : cache[l] # Nothing]
    /\ cache' = [l \in Logins |-> IF l \in accounts THEN cache[l] ELSE Nothing]
    /\ UNCHANGED <<sent, withdrawn, accounts, dismissed, page, closed, news, faults>>

\* The accounts of the round's beginning, one after the other.
Asks ==
    /\ round.on /\ round.login = Nothing
    /\ \E l \in round.left : round' = [round EXCEPT !.login = l, !.left = @ \ {l}]
    /\ UNCHANGED <<sent, withdrawn, accounts, cache, dismissed, page, closed, news, faults>>

MA7Answers ==
    /\ round.login # Nothing /\ round.got = Nothing
    /\ round' = [round EXCEPT !.got = sent[round.login]]
    /\ UNCHANGED <<sent, withdrawn, accounts, cache, dismissed, page, closed, news, faults>>

\* forgotten: what of this login MA7 no longer sends, only with a fresh answer.
Forgotten(l, fresh) == {n \in dismissed : n[1] = l /\ n[2] \notin fresh}
\* Slip: only the first answer is news.
SlipChanges(l, fresh) == cache[l] = Nothing
Changes(l, fresh) == cache[l] # fresh
Next1(changed) == [round EXCEPT !.login = Nothing, !.got = Nothing, !.changed = @ \/ changed]

Arrives ==
    /\ round.got # Nothing
    /\ cache' = [cache EXCEPT ![round.login] = round.got]
    /\ dismissed' = dismissed \ Forgotten(round.login, round.got)
    /\ round' = Next1(Changes(round.login, round.got))
    /\ UNCHANGED <<sent, withdrawn, accounts, page, closed, news, faults>>

\* Slip: an answer that did not come names nothing, and all of the login's are forgotten.
SlipForgets(l) == {n \in dismissed : n[1] = l}
\* A failure keeps what was there; a login never answered counts as asked.
Forgets(l) == {}
Fails ==
    /\ round.login # Nothing /\ faults < MaxFaults /\ faults' = faults + 1
    /\ cache' = [cache EXCEPT ![round.login] = IF @ = Nothing THEN {} ELSE @]
    /\ dismissed' = dismissed \ Forgets(round.login)
    /\ round' = Next1(FALSE)
    /\ UNCHANGED <<sent, withdrawn, accounts, page, closed, news>>

RoundEnds ==
    /\ round.on /\ round.login = Nothing /\ round.left = {}
    /\ round' = Idle
    /\ IF round.changed THEN Told(List(cache)) ELSE UNCHANGED page
    /\ UNCHANGED <<sent, withdrawn, accounts, cache, dismissed, closed, news, faults>>

----------------------------------------------------------------------------

rest == <<sent, withdrawn, accounts, cache, round, dismissed, closed, news, faults>>

\* The page asks once for the list and from then on hears of every change.
PageOpens ==
    /\ fetch.at = "nopage"
    /\ fetch' = [fetch EXCEPT !.at = "main"]
    /\ UNCHANGED <<window, leaving, stale, rest>>
MainAnswers ==
    /\ fetch.at = "main"
    /\ fetch' = [fetch EXCEPT !.at = "answered", !.list = List(cache)]
    /\ UNCHANGED <<window, leaving, stale, rest>>
\* The answer takes the place of what was pushed meanwhile, the newer list included.
ListComes ==
    /\ fetch.at = "answered"
    /\ Shows(fetch.list) /\ stale' = fetch.pushed
    /\ fetch' = [NoPage EXCEPT !.at = "done"]
    /\ UNCHANGED rest

\* The cross: the card folds away, then main is told.
Closes ==
    /\ \E n \in window \ leaving : leaving' = leaving \cup {n}
    /\ UNCHANGED <<window, fetch, stale, rest>>

\* dismissNotice: only what is listed now; the list without it is sent at once.
Dismissed ==
    /\ \E n \in leaving :
          IF n \in List(cache)
          THEN /\ dismissed' = dismissed \cup {n}
               /\ closed' = IF n[2] \in sent[n[1]] THEN closed \cup {n} ELSE closed
               /\ Told(List(cache) \ {n})
          ELSE UNCHANGED <<dismissed, closed, page>>
    /\ UNCHANGED <<sent, withdrawn, accounts, cache, round, news, faults>>

Restarts ==
    /\ faults < MaxFaults /\ faults' = faults + 1
    /\ cache' = [l \in Logins |-> Nothing] /\ round' = Idle
    /\ window' = {} /\ fetch' = NoPage /\ leaving' = {} /\ stale' = FALSE
    /\ UNCHANGED <<sent, withdrawn, accounts, dismissed, closed, news>>

Round == Rounds \/ Asks \/ MA7Answers \/ Arrives \/ Fails \/ RoundEnds
Page == PageOpens \/ MainAnswers \/ ListComes
Next == MA7Publishes \/ AccountsChange \/ Round \/ Page \/ Closes \/ Dismissed \/ Restarts

\* The timer of five minutes, MA7's answers and the window's page.
Fairness ==
    /\ WF_vars(Rounds) /\ WF_vars(Asks) /\ WF_vars(MA7Answers \/ Arrives) /\ WF_vars(RoundEnds)
    /\ WF_vars(Page)
Spec == Init /\ [][Next]_vars /\ Fairness

----------------------------------------------------------------------------

\* "A closed one is remembered and does not come back" (main/index.ts): while MA7 keeps sending
\* it, through failed rounds, restarts and accounts that go and come.  Excepted is a page whose
\* first list was overtaken by a push (Notices.tsx:17): until the next push it shows that list.
ClosedStaysClosed == ~stale => closed \cap window = {}

\* What MA7 says to an account comes to the window, unless it is closed or withdrawn; or a push
\* has been lost to the page's first list (stale).
NewsArrives ==
    \A n \in Notices :
        n[1] \in accounts /\ n[2] \in sent[n[1]]
            ~> n[1] \notin accounts \/ n[2] \notin sent[n[1]] \/ n \in dismissed \/ n \in window \/ stale
=============================================================================
