-------------------------------- MODULE Page --------------------------------
(***************************************************************************)
(* The main screen and the main process it shows (renderer/src/App.tsx and *)
(* its hooks useAppState and useUiSettings): what is running, the sections, *)
(* the settings, which show a change before it is saved, the ping and the  *)
(* notice that changed rules wait for a new connection.  The manager is    *)
(* external: it takes a call or refuses it, and a tunnel may end by        *)
(* itself.  Pushes keep their order and so do answers; the two may         *)
(* overtake each other.                                                    *)
(***************************************************************************)
EXTENDS Naturals, Sequences, FiniteSets

CONSTANTS
    Servers,        \* ids
    Edits,          \* changes of the routing, each made or not
    Nothing,
    MaxActs,        \* bound: things the person does
    MaxFaults       \* bound: calls refused, tunnels that end, servers that go

VARIABLES
    state,      \* the manager's snapshot
    routing,    \* settings.json
    applied,    \* history: the routing that the running tunnel was brought up with
    fetch,      \* getState on its way: not read yet, read, or over
    pushes,     \* IPC.stateEvent on their way
    calls,      \* the page's calls on their way
    answers,    \* to setUiSettings, or an error of any
    pings,      \* measured, on their way
    page,       \* App's state
    acts, faults

main == <<state, routing, applied>>
ways == <<fetch, pushes, calls, answers, pings>>
bounds == <<acts, faults>>
vars == <<main, ways, page, bounds>>

States == [servers : SUBSET Servers, key : BOOLEAN, activeId : Servers \cup {Nothing}, session : Nat]

TypeOK ==
    /\ state \in States /\ routing \subseteq Edits /\ applied \subseteq Edits
    /\ fetch.at \in {"asked", "read", "over"} /\ fetch.state \in States
    /\ pushes \in Seq(States) /\ Len(calls) \in Nat /\ Len(answers) \in Nat
    /\ pings \subseteq [id : Servers, session : Nat]
    /\ page.state \in States \cup {Nothing} /\ page.ui \subseteq Edits
    /\ page.view \in {"tunnels", "key", "settings"} /\ page.lastId \in Servers \cup {Nothing}
    /\ {page.pushed, page.picking, page.pinging, page.splitOpen, page.splitStale, page.notice, page.unconfirmed} \subseteq BOOLEAN
    /\ page.ping \in [id : Servers, session : Nat] \cup {Nothing} /\ page.removing \in Servers \cup {Nothing}

Init ==
    /\ state = [servers |-> Servers, key |-> TRUE, activeId |-> Nothing, session |-> 0]
    /\ routing = {} /\ applied = {}
    /\ fetch = [at |-> "asked", state |-> state] /\ pushes = <<>>
    /\ calls = <<[op |-> "getUiSettings"]>> /\ answers = <<>> /\ pings = {}
    /\ page = [state |-> Nothing, pushed |-> FALSE, ui |-> {}, unconfirmed |-> FALSE, view |-> "tunnels", lastId |-> Nothing,
               picking |-> FALSE, ping |-> Nothing, pinging |-> FALSE, removing |-> Nothing, notice |-> FALSE,
               splitOpen |-> FALSE, splitAtOpen |-> {}, splitStale |-> FALSE]
    /\ acts = 0 /\ faults = 0

----------------------------------------------------------------------------
(* The page as it is drawn *)

\* The effects that follow a change: «Ключ» gives way to the servers when the key is gone, the ping
\* goes with the screen it was on, and the notice of changed rules with the connection.
Drawn(p) ==
    LET gone == p.view = "key" /\ p.state # Nothing /\ ~p.state.key
        view == IF gone THEN "tunnels" ELSE p.view IN
    [p EXCEPT !.view = view,
              !.ping = IF view # page.view \/ p.picking # page.picking THEN Nothing ELSE @,
              !.splitStale = @ /\ ~(p.state = Nothing \/ p.state.activeId = Nothing)]
Draws(p) == page' = Drawn(p)

Ready == page.state # Nothing
activeId == page.state.activeId
listed == page.state.servers
\* The server of the main screen: the running one, or the last chosen, or some other.
IsCurrent(id) ==
    /\ Ready /\ id \in listed
    /\ IF activeId # Nothing THEN id = activeId ELSE page.lastId \in listed => id = page.lastId
Free == Ready /\ ~page.splitOpen /\ page.removing = Nothing

\* Slip: the first fetch is taken whenever it comes.
SlipFetched(p) == TRUE
\* "A pushed snapshot is always newer than the initial fetch, so it wins any race."
TakesFetch(p) == ~p.pushed
FetchComes ==
    /\ fetch.at = "read" /\ fetch' = [fetch EXCEPT !.at = "over"]
    /\ IF TakesFetch(page) THEN Draws([page EXCEPT !.state = fetch.state]) ELSE UNCHANGED page
    /\ UNCHANGED <<main, pushes, calls, answers, pings, bounds>>
Hears ==
    /\ pushes # <<>> /\ pushes' = Tail(pushes)
    /\ Draws([page EXCEPT !.state = Head(pushes), !.pushed = TRUE])
    /\ UNCHANGED <<main, fetch, calls, answers, pings, bounds>>

\* An answer: the settings as they are saved, or an error, which the screen says.
Answered ==
    /\ answers # <<>> /\ answers' = Tail(answers)
    /\ LET a == Head(answers) IN
       Draws(IF a.op = "settings" THEN [page EXCEPT !.ui = a.routing, !.unconfirmed = FALSE]
             ELSE IF a.op = "unsaved" THEN [page EXCEPT !.unconfirmed = TRUE] ELSE [page EXCEPT !.notice = TRUE])
    /\ UNCHANGED <<main, fetch, pushes, calls, pings, bounds>>

\* The person does one thing more.
Acts == acts < MaxActs /\ acts' = acts + 1
Asks(call) == calls' = Append(calls, call)

Navigates ==
    /\ Acts /\ Free /\ \E view \in {"tunnels", "key", "settings"} \ {page.view} :
          /\ view = "key" => page.state.key
          /\ Draws([page EXCEPT !.picking = FALSE, !.view = view])
    /\ UNCHANGED <<main, ways, faults>>
Picks ==
    /\ Acts /\ Free /\ page.view = "tunnels"
    /\ Draws([page EXCEPT !.picking = ~page.picking])
    /\ UNCHANGED <<main, ways, faults>>

Connecting(id) == [page EXCEPT !.picking = FALSE, !.lastId = id, !.notice = FALSE, !.ping = Nothing]
\* The big button.
Presses ==
    /\ Acts /\ Free /\ page.view = "tunnels" /\ ~page.picking /\ calls = <<>>
    /\ \E id \in listed :
          /\ IsCurrent(id)
          /\ IF activeId = id
             THEN Draws([page EXCEPT !.ping = Nothing]) /\ Asks([op |-> "disconnect"])
             ELSE Draws(Connecting(id)) /\ Asks([op |-> "connect", id |-> id])
    /\ UNCHANGED <<main, fetch, pushes, answers, pings, faults>>
\* Another server of the list, while one is running: it switches to it right away.
Selects ==
    /\ Acts /\ Free /\ page.picking /\ calls = <<>>
    /\ \E id \in listed :
          IF activeId \notin {Nothing, id}
          THEN Draws(Connecting(id)) /\ Asks([op |-> "connect", id |-> id])
          ELSE Draws([page EXCEPT !.picking = FALSE, !.lastId = id]) /\ UNCHANGED calls
    /\ UNCHANGED <<main, fetch, pushes, answers, pings, faults>>
\* «Переподключиться» of the notice.
Reconnects ==
    /\ Acts /\ Free /\ page.splitStale /\ activeId # Nothing /\ calls = <<>>
    /\ Draws([page EXCEPT !.splitStale = FALSE])
    /\ Asks([op |-> "reconnect"])
    /\ UNCHANGED <<main, fetch, pushes, answers, pings, faults>>

\* «Удалить сервер?» and its answer.
AsksRemove ==
    /\ Acts /\ Free /\ page.picking
    /\ \E id \in listed : Draws([page EXCEPT !.removing = id])
    /\ UNCHANGED <<main, ways, faults>>
AnswersRemove ==
    /\ Acts /\ page.removing # Nothing
    /\ Draws([page EXCEPT !.removing = Nothing])
    /\ calls' \in {calls, Append(calls, [op |-> "removeTunnel", id |-> page.removing])}
    /\ UNCHANGED <<main, fetch, pushes, answers, pings, faults>>

\* «Проверить»: the number is of the running server.
ChecksPing ==
    /\ Acts /\ Free /\ ~page.pinging /\ activeId # Nothing
    /\ Draws([page EXCEPT !.pinging = TRUE]) /\ Asks([op |-> "ping", id |-> activeId])
    /\ UNCHANGED <<main, fetch, pushes, answers, pings, faults>>
PingComes ==
    /\ \E p \in pings : pings' = pings \ {p} /\ Draws([page EXCEPT !.ping = p, !.pinging = FALSE])
    /\ UNCHANGED <<main, fetch, pushes, calls, answers, bounds>>
PingFades ==
    /\ page.ping # Nothing /\ Draws([page EXCEPT !.ping = Nothing])
    /\ UNCHANGED <<main, ways, bounds>>

\* The editor of the rules, and a change of them: at once here, and sent whole.
OpensSplit ==
    /\ Acts /\ Free /\ page.view = "tunnels"
    /\ Draws([page EXCEPT !.splitOpen = TRUE, !.splitAtOpen = page.ui])
    /\ UNCHANGED <<main, ways, faults>>
ClosesSplit ==
    /\ Acts /\ page.splitOpen
    /\ Draws([page EXCEPT !.splitOpen = FALSE, !.splitAtOpen = {},
                          !.splitStale = @ \/ (activeId # Nothing /\ page.ui # page.splitAtOpen)])
    /\ UNCHANGED <<main, ways, faults>>
Changes ==
    /\ Acts /\ page.splitOpen
    /\ \E e \in Edits :
          LET now == IF e \in page.ui THEN page.ui \ {e} ELSE page.ui \cup {e} IN
          /\ Draws([page EXCEPT !.ui = now]) /\ Asks([op |-> "setUiSettings", routing |-> now])
    /\ UNCHANGED <<main, fetch, pushes, answers, pings, faults>>

----------------------------------------------------------------------------
(* The main process *)

Faulty == faults < MaxFaults /\ faults' = faults + 1
Pushes(s) == state' = s /\ pushes' = Append(pushes, s)

GetState ==
    /\ fetch.at = "asked" /\ fetch' = [at |-> "read", state |-> state]
    /\ UNCHANGED <<main, pushes, calls, answers, pings, page, bounds>>

Call(op) == calls # <<>> /\ Head(calls).op = op /\ calls' = Tail(calls)
\* The settings as they are read back.
Saved(patch) == patch
\* setUiSettings saves the patch and answers all the settings; or cannot save.
SetUiSettings ==
    /\ Call("setUiSettings")
    /\ LET patch == Head(calls).routing IN
       \/ routing' = patch /\ answers' = Append(answers, [op |-> "settings", routing |-> Saved(patch)]) /\ UNCHANGED faults
       \/ Faulty /\ answers' = Append(answers, [op |-> "unsaved"]) /\ UNCHANGED routing
    /\ UNCHANGED <<state, applied, fetch, pushes, pings, page, acts>>
GetUiSettings ==
    /\ Call("getUiSettings")
    /\ answers' = Append(answers, [op |-> "settings", routing |-> routing])
    /\ UNCHANGED <<main, fetch, pushes, pings, page, bounds>>

\* The call is refused: the manager is busy, the server is not there, the tunnel does not come up.
Refused(op) ==
    /\ Call(op) /\ Faulty
    /\ answers' = Append(answers, [op |-> "error"])
    /\ UNCHANGED <<main, fetch, pushes, pings, page, acts>>
Runs(id) ==
    /\ id \in state.servers
    /\ Pushes([state EXCEPT !.activeId = id, !.session = @ + 1]) /\ applied' = routing
    /\ UNCHANGED <<routing, fetch, answers, pings, page, bounds>>
Connect == Call("connect") /\ Runs(Head(calls).id)
Reconnect == Call("reconnect") /\ state.activeId # Nothing /\ Runs(state.activeId)
Disconnect ==
    /\ Call("disconnect")
    /\ Pushes([state EXCEPT !.activeId = Nothing]) /\ applied' = {}
    /\ UNCHANGED <<routing, fetch, answers, pings, page, bounds>>
\* A call that has lost its reason.
Pointless ==
    /\ \/ Call("connect") /\ Head(calls).id \notin state.servers
       \/ Call("reconnect") /\ state.activeId = Nothing
       \/ Call("removeTunnel") /\ Head(calls).id = state.activeId
    /\ answers' = Append(answers, [op |-> "error"])
    /\ UNCHANGED <<main, fetch, pushes, pings, page, bounds>>
\* Not the server that runs.
RemoveTunnel ==
    /\ Call("removeTunnel") /\ Head(calls).id # state.activeId
    /\ Pushes([state EXCEPT !.servers = @ \ {Head(calls).id}])
    /\ UNCHANGED <<routing, applied, fetch, answers, pings, page, bounds>>
\* Only while that server runs.
Ping ==
    /\ Call("ping")
    /\ pings' = pings \cup {[id |-> Head(calls).id, session |-> IF state.activeId = Head(calls).id THEN state.session ELSE 0]}
    /\ UNCHANGED <<main, fetch, pushes, answers, page, bounds>>
\* By itself: the tunnel ends, the key's last server goes.
ByItself ==
    /\ Faulty
    /\ \/ state.activeId # Nothing /\ Pushes([state EXCEPT !.activeId = Nothing]) /\ applied' = {}
       \/ state.key /\ Pushes([state EXCEPT !.key = FALSE]) /\ UNCHANGED applied
    /\ UNCHANGED <<routing, fetch, calls, answers, pings, page, acts>>

----------------------------------------------------------------------------

Next ==
    \/ FetchComes \/ Hears \/ Answered \/ Navigates \/ Picks \/ Presses \/ Selects \/ Reconnects
    \/ AsksRemove \/ AnswersRemove \/ ChecksPing \/ PingComes \/ PingFades
    \/ OpensSplit \/ ClosesSplit \/ Changes
    \/ GetState \/ SetUiSettings \/ GetUiSettings \/ Refused("connect") \/ Refused("disconnect") \/ Refused("reconnect")
    \/ Connect \/ Reconnect \/ Disconnect \/ Pointless \/ RemoveTunnel \/ Ping \/ ByItself

Spec == Init /\ [][Next]_vars

----------------------------------------------------------------------------

Quiet == fetch.at = "over" /\ pushes = <<>> /\ calls = <<>> /\ answers = <<>>

\* When nothing is on its way the page shows what the main process has: the snapshot, whether it was
\* pushed or fetched first, and the settings, however the changes of them and their confirmations
\* passed each other ("a change shows at once and is then confirmed by main", useUiSettings.ts), but
\* for a change that could not be saved.
PageAgrees == Quiet => page.state = state /\ (page.ui = routing \/ page.unconfirmed)

\* "Only the running server's own number: disconnecting or switching takes it off the bar" (App.tsx).
PingIsOfSession ==
    page.ping # Nothing /\ Ready /\ page.ping.id = activeId /\ Quiet => page.ping.session = state.session

\* "a list changed while connected waits for a new connection" (App.tsx), and the screen says so.
RulesAreSaid ==
    Quiet /\ ~page.splitOpen /\ state.activeId # Nothing /\ routing # applied => page.splitStale
=============================================================================
