------------------------------ MODULE AddServer ------------------------------
(***************************************************************************)
(* Adding a server by its link: the field with its preview                 *)
(* (hooks/useLinkPreview.ts, components/KeyField.tsx), the two forms it    *)
(* stands in, the first-run screen (components/Welcome.tsx) and the dialog *)
(* (components/AddTunnelDialog.tsx), and the main process behind them,     *)
(* which reads a link, saves its server and pushes the new list            *)
(* (main/index.ts).  A server is named by its link.                        *)
(***************************************************************************)
EXTENDS Naturals, FiniteSets

CONSTANTS
    Links, Blank,   \* what the field may hold, and the empty text
    Good, Masters,  \* links that parse, and those that are master keys
    Typed,          \* pairs of links one character apart
    Nothing,
    MaxTexts,       \* bound: changes of the field's text
    MaxForms,       \* bound: how many forms there were when a dialog is opened
    MaxFaults       \* bound: imports that fail, servers that are removed

VARIABLES
    servers,    \* the main process's list
    shown,      \* useAppState: the page's
    accounts,   \* accounts of MA7 are known: not a first run
    welcoming, back, adding,    \* App's state
    form,       \* the form on the screen
    n,          \* which form it is
    phase,      \* Welcome's phase, AddTunnelDialog's `saving`
    field,      \* KeyField and useLinkPreview
    asks,       \* previewLink of this form, under way
    imports,    \* importLink of any form, under way or waiting for its bar
    texts, faults

page == <<welcoming, back, adding>>
vars == <<servers, shown, accounts, page, form, n, phase, field, asks, imports, texts, faults>>

EmptyField == [link |-> Blank, settled |-> Blank, pause |-> FALSE, preview |-> Nothing, face |-> "field", swap |-> "none"]

TypeOK ==
    /\ servers \subseteq Good /\ shown \subseteq Good /\ {accounts, welcoming, back, adding} \subseteq BOOLEAN
    /\ form \in {"welcome", "dialog", "none"} /\ n \in Nat
    /\ phase \in {"input", "saving", "done", "leaving"}
    /\ field \in [link : Links, settled : Links, pause : BOOLEAN, preview : Links \cup {Nothing},
                  face : {"field", "server"}, swap : {"none", "field", "server"}]
    /\ asks \subseteq Links
    /\ imports \subseteq [of : Nat, by : {"welcome", "dialog"}, link : Links,
                          at : {"asked", "added", "refused", "bar"}]

----------------------------------------------------------------------------
(* What is on the screen *)

\* App: the first-run screen while there is nothing, or while it asks to be kept.
Screen(list, w, b, a) ==
    IF (list = {} /\ ~accounts) \/ w \/ b THEN "welcome" ELSE IF a THEN "dialog" ELSE "none"

\* The page is drawn: a form that was not there begins with an empty field; with servers kept
\* from an earlier install the first-run screen only says hello.
Draws(list, w, b, a) ==
    LET now == Screen(list, w, b, a) IN
    /\ welcoming' = w /\ back' = b /\ adding' = a
    /\ form' = now
    /\ IF now \in {form, "none"}
       THEN /\ UNCHANGED n
            /\ field' = IF now = form THEN field ELSE EmptyField
            /\ asks' = IF now = form THEN asks ELSE {}
       ELSE n' = n + 1 /\ field' = EmptyField /\ asks' = {}
Begins(list, b) == IF b /\ list # {} THEN "done" ELSE "input"
\* The phase of a form that stays, or of one that begins.
PhaseOf(list, b, stays) == IF form' = form THEN stays ELSE Begins(list, b)

Init ==
    /\ servers \in SUBSET {CHOOSE l \in Masters : TRUE} /\ shown = servers
    /\ accounts \in BOOLEAN /\ back \in BOOLEAN
    /\ back => servers # {}
    /\ welcoming = FALSE /\ adding = FALSE
    /\ form = Screen(shown, welcoming, back, adding)
    /\ n = IF form = "none" THEN 0 ELSE 1
    /\ phase = Begins(shown, back) /\ field = EmptyField /\ asks = {} /\ imports = {}
    /\ texts = 0 /\ faults = 0

----------------------------------------------------------------------------
(* The field *)

Ok(p) == p \in Good
\* useLinkPreview: an empty field has no preview.
Preview(f) == IF f.link = Blank THEN Nothing ELSE f.preview
valid == Ok(Preview(field))
Locked == phase # "input"
Table(f) == f.face = "server" /\ Ok(Preview(f))

\* KeyField's effect: the field gives way when the key comes to parse.
GivesWay(f) ==
    IF Ok(Preview(f)) /\ ~valid /\ f.face = "field" /\ f.swap = "none" THEN [f EXCEPT !.swap = "server"] ELSE f

\* The link settles: it is read anew, an empty one has nothing to read.
Settles(f, l) ==
    /\ field' = GivesWay([f EXCEPT !.settled = l, !.pause = FALSE, !.preview = IF l = Blank THEN Nothing ELSE @])
    /\ asks' = IF l \in {Blank, f.settled} THEN asks ELSE asks \cup {l}

\* Pasted text settles at once, typed text when the typing pauses.
EntersText ==
    /\ form # "none" /\ ~Locked /\ ~Table(field) /\ texts < MaxTexts
    /\ \E l \in Links \ {field.link} :
          IF <<field.link, l>> \in Typed
          THEN field' = GivesWay([field EXCEPT !.link = l, !.pause = TRUE]) /\ UNCHANGED asks
          ELSE Settles([field EXCEPT !.link = l], l)
    /\ texts' = texts + 1
    /\ UNCHANGED <<servers, shown, accounts, page, form, n, phase, imports, faults>>

TypingPauses ==
    /\ field.pause
    /\ Settles(field, field.link)
    /\ UNCHANGED <<servers, shown, accounts, page, form, n, phase, imports, texts, faults>>

\* Slip: an answer is taken whenever it comes.
SlipNewest(l) == TRUE
\* The effect of an older link was cleaned up: its answer is stale.
Newest(l) == l = field.settled
PreviewComes ==
    /\ \E l \in asks :
          /\ asks' = asks \ {l}
          /\ field' = IF Newest(l) THEN GivesWay([field EXCEPT !.preview = l]) ELSE field
    /\ UNCHANGED <<servers, shown, accounts, page, form, n, phase, imports, texts, faults>>

SwapEnds ==
    /\ field.swap # "none"
    /\ field' = [field EXCEPT !.face = field.swap, !.swap = "none"]
    /\ UNCHANGED <<servers, shown, accounts, page, form, n, phase, asks, imports, texts, faults>>

\* «Сменить ключ»: the text goes at once, the empty field comes after the swap.
ChangesKey ==
    /\ form # "none" /\ Table(field) /\ ~Locked
    /\ field' = [EmptyField EXCEPT !.face = "server", !.swap = "field"]
    /\ UNCHANGED <<servers, shown, accounts, page, form, n, phase, asks, imports, texts, faults>>

----------------------------------------------------------------------------
(* Adding *)

\* Slip: the first-run screen asks to be kept only once the key is added.
SlipHolds == welcoming
\* Welcome.next: hold(true) before the import.
Holds == welcoming \/ form = "welcome"
\* «Добавить», «Далее», or Enter in the field.
Submits ==
    /\ form # "none" /\ valid /\ ~Locked
    /\ phase' = "saving" /\ welcoming' = Holds
    /\ imports' = imports \cup {[of |-> n, by |-> form, link |-> field.link, at |-> "asked"]}
    /\ UNCHANGED <<servers, shown, accounts, back, adding, form, n, field, asks, texts, faults>>

At(i, at) == imports' = (imports \ {i}) \cup {[i EXCEPT !.at = at]}
\* importLink: the link is read again, its server saved and the list pushed; or it is refused.
MainImports ==
    /\ \E i \in imports :
          /\ i.at = "asked"
          /\ \/ /\ Ok(i.link)
                /\ servers' = servers \cup {i.link} /\ At(i, "added")
                /\ UNCHANGED faults
             \/ /\ IF Ok(i.link) THEN faults < MaxFaults /\ faults' = faults + 1 ELSE UNCHANGED faults
                /\ At(i, "refused") /\ UNCHANGED servers
    /\ UNCHANGED <<shown, accounts, page, form, n, phase, field, asks, texts>>

\* IPC.stateEvent.
Hears ==
    /\ shown # servers
    /\ shown' = servers
    /\ Draws(servers, welcoming, back, adding)
    /\ phase' = PhaseOf(servers, back, phase)
    /\ UNCHANGED <<servers, accounts, imports, texts, faults>>

Mine(i) == form = i.by /\ n = i.of
\* What came of an import, in the form that asked: the dialog closes by App's `adding`, whichever
\* dialog is open by then.
Added(i) ==
    /\ imports' = imports \ {i}
    /\ IF i.by = "dialog"
       THEN Draws(shown, welcoming, back, FALSE) /\ phase' = PhaseOf(shown, back, phase)
       ELSE /\ phase' = IF Mine(i) THEN "done" ELSE phase
            /\ UNCHANGED <<page, form, n, field, asks>>
\* The answer comes after the list that was pushed before it; a master key's bar is seen first.
AddedComes ==
    /\ shown = servers
    /\ \E i \in imports :
          /\ i.at = "added"
          /\ IF i.link \in Masters THEN At(i, "bar") /\ UNCHANGED <<page, form, n, phase, field, asks>> ELSE Added(i)
    /\ UNCHANGED <<servers, shown, accounts, texts, faults>>
BarEnds ==
    /\ \E i \in imports : i.at = "bar" /\ Added(i)
    /\ UNCHANGED <<servers, shown, accounts, texts, faults>>
RefusedComes ==
    /\ shown = servers
    /\ \E i \in imports :
          /\ i.at = "refused" /\ imports' = imports \ {i}
          /\ IF i.by = "welcome"
             THEN Draws(shown, FALSE, FALSE, adding) /\ phase' = PhaseOf(shown, FALSE, "input")
             ELSE /\ phase' = IF Mine(i) THEN "input" ELSE phase
                  /\ UNCHANGED <<page, form, n, field, asks>>
    /\ UNCHANGED <<servers, shown, accounts, texts, faults>>

\* The green note is seen, the screen fades, hold(false).
NoteEnds ==
    /\ form = "welcome" /\ phase = "done"
    /\ phase' = "leaving"
    /\ UNCHANGED <<servers, shown, accounts, page, form, n, field, asks, imports, texts, faults>>
Leaves ==
    /\ form = "welcome" /\ phase = "leaving" /\ (welcoming \/ back)
    /\ Draws(shown, FALSE, FALSE, adding)
    /\ phase' = PhaseOf(shown, FALSE, phase)
    /\ UNCHANGED <<servers, shown, accounts, imports, texts, faults>>

OpensDialog ==
    /\ form = "none" /\ n < MaxForms
    /\ Draws(shown, welcoming, back, TRUE)
    /\ phase' = "input"
    /\ UNCHANGED <<servers, shown, accounts, imports, texts, faults>>
\* Closed at any moment, also while it saves.
ClosesDialog ==
    /\ form = "dialog"
    /\ Draws(shown, welcoming, back, FALSE)
    /\ phase' = "input"
    /\ UNCHANGED <<servers, shown, accounts, imports, texts, faults>>

\* The person removes a server; a refresh takes a master key's away.
Removes ==
    /\ faults < MaxFaults /\ faults' = faults + 1
    /\ \E s \in servers : (form = "none" \/ s \in Masters) /\ servers' = servers \ {s}
    /\ UNCHANGED <<shown, accounts, page, form, n, phase, field, asks, imports, texts>>

----------------------------------------------------------------------------

Next ==
    \/ EntersText \/ TypingPauses \/ PreviewComes \/ SwapEnds \/ ChangesKey
    \/ Submits \/ MainImports \/ Hears \/ AddedComes \/ BarEnds \/ RefusedComes
    \/ NoteEnds \/ Leaves \/ OpensDialog \/ ClosesDialog \/ Removes

Spec == Init /\ [][Next]_vars

----------------------------------------------------------------------------

\* What is said of the key is said of the link in the field, once the typing has paused and every
\* answer has come, in whatever order they came.
PreviewIsOfLink ==
    form # "none" /\ ~field.pause /\ asks = {} => Preview(field) = IF field.link = Blank THEN Nothing ELSE field.link

\* "The screen must outlive the moment the tunnel list stops being empty, or the green note would
\* never be seen" (Welcome.tsx): the first-run screen that adds a server goes only after its note.
NoteIsSeen ==
    [][form = "welcome" /\ phase \in {"saving", "done"} /\ form' # "welcome" => \E i \in imports : i.at = "refused"]_vars

\* "paste a vpn:// or sen:// key, see its server, add it" (AddTunnelDialog.tsx): what is added is what
\* was previewed.
ShownIsAdded == [][imports' # imports /\ phase' = "saving" /\ phase = "input" => field.preview = field.link]_vars

\* A dialog is closed by its own answer, not by that of one that was closed before.
ClosesItself == [][form = "dialog" /\ AddedComes /\ form' = "none" => \E i \in imports \ imports' : Mine(i)]_vars

\* The first-run screen that has said its note is not on the screen for good.
WelcomeGoes == form = "welcome" /\ phase = "leaving" => welcoming \/ back
=============================================================================
