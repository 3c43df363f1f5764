----------------------------- MODULE WindowProofs -----------------------------
(***************************************************************************)
(* What the window says and sends, for any number of entries, reports,     *)
(* links, servers, edits and steps, and answers in any order that the two  *)
(* ways between the processes allow: MA7 gets the report that was looked   *)
(* over, a preview is of the link in the field, the first-run screen goes  *)
(* after its note, and a quiet page shows what the main process has.  The  *)
(* parts share no state, so each has an invariant of its own.              *)
(***************************************************************************)
EXTENDS MCWindow, SequenceTheorems, TLAPS

\* A sequence, whatever it is of.
IsSeq(s) == s \in Seq({s[k] : k \in DOMAIN s})

\* What App's state is made of.
Fields == {"state", "pushed", "ui", "unconfirmed", "view", "lastId", "picking", "ping", "pinging", "removing", "notice",
           "splitOpen", "splitAtOpen", "splitStale"}

-----------------------------------------------------------------------------
(* The journal's report *)

ReportAsks == {k \in DOMAIN asks : asks[k].op = "prepareReport"}
ReportAnswers == {k \in DOMAIN answers : answers[k].op = "prepareReport"}

\* The reports that there are anywhere.
Made ==
    preparing \cup (IF preparedReport = Nothing THEN {} ELSE {preparedReport})
              \cup {answers[k].report : k \in ReportAnswers} \cup shown

\* A number is one report's: those asked for and those made have each their own, none ahead of the
\* count.
OneANumber ==
    /\ reports \in Nat
    /\ \A r \in Made : r.id \in Nat /\ r.id <= reports
    /\ \A q, r \in Made : q.id = r.id => q = r
    /\ \A k \in ReportAsks : asks[k].text \in Nat /\ asks[k].text <= reports /\ \A r \in Made : r.id # asks[k].text
    /\ \A j, k \in ReportAsks : asks[j].text = asks[k].text => j = k

\* What is asked to be sent was shown, and so is what goes.
Reviewed ==
    /\ dialog.step = "review" => dialog.preview \in shown
    /\ \A k \in DOMAIN asks : asks[k].op = "sendReport" => \E r \in shown : r.id = asks[k].id
    /\ sending \subseteq shown /\ ma7 \subseteq shown

\* Calls and answers are sequences.
Calls == IsSeq(asks) /\ IsSeq(answers)

JournalInv == Calls /\ DOMAIN dialog = {"step", "busy", "preview"} /\ OneANumber /\ Reviewed

-----------------------------------------------------------------------------
(* Adding a server *)

\* A text that stands still has settled, and the settled one is shown or read.
SettledIsRead ==
    /\ DOMAIN field = {"link", "settled", "pause", "preview", "face", "swap"}
    /\ form # "none" /\ ~field.pause => field.link = field.settled
    /\ form # "none" /\ field.settled \notin previews \cup {Blank} => field.preview = field.settled

OfWelcome == {i \in imports : i.by = "welcome"}
\* The first-run screen waits for one import, its own.
WelcomeWaits ==
    /\ \A i \in imports : DOMAIN i = {"of", "by", "link", "at"}
    /\ \A i \in OfWelcome : form = "welcome" /\ n = i.of /\ phase = "saving"
    /\ \A i, j \in OfWelcome : i = j

\* While it saves and says so it asks to be kept.
WelcomeIsKept == form = "welcome" /\ phase \in {"saving", "done"} => welcoming \/ back

AddInv == SettledIsRead /\ WelcomeWaits /\ WelcomeIsKept

-----------------------------------------------------------------------------
(* The main screen *)

\* The last snapshot on its way is the manager's; with none on its way the page has it, or the first
\* fetch will bring it.
NewestComes ==
    /\ IsSeq(states) /\ DOMAIN screen = Fields /\ DOMAIN fetch = {"at", "state"}
    /\ states # <<>> => states[Len(states)] = state
    /\ states = <<>> /\ screen.pushed => screen.state = state
    /\ states = <<>> /\ ~screen.pushed => fetch.state = state /\ (fetch.at = "over" => screen.state = state)

SettingsAnswers == {k \in DOMAIN replies : replies[k].op \in {"settings", "unsaved"}}
SettingsCalls == {k \in DOMAIN calls : calls[k].op \in {"setUiSettings", "getUiSettings"}}
\* The last answer about the settings has them as they are, or says that they were not saved; after
\* the last of all the page does.
LastIsSaved ==
    /\ IsSeq(calls) /\ IsSeq(replies)
    /\ \A k \in SettingsAnswers :
          (\A j \in SettingsAnswers : j <= k) => replies[k].op = "unsaved" \/ replies[k].routing = routing
    /\ SettingsAnswers = {} /\ SettingsCalls = {} => screen.ui = routing \/ screen.unconfirmed

PageInv == NewestComes /\ LastIsSaved

----------------------------------------------------------------------------
(* Sequences *)

LEMMA NoneIsSeq == IsSeq(<<>>) /\ DOMAIN <<>> = {}
<1>1. <<>> \in Seq({<<>>[k] : k \in DOMAIN <<>>})
  BY EmptySeq
<1> QED
  BY <1>1 DEF IsSeq

LEMMA SeqFacts ==
  ASSUME NEW s, IsSeq(s)
  PROVE  Len(s) \in Nat /\ DOMAIN s = 1 .. Len(s) /\ (s = <<>> <=> Len(s) = 0) /\ (s = <<>> <=> DOMAIN s = {})
<1> DEFINE S == {s[k] : k \in DOMAIN s}
<1>1. s \in Seq(S)
  BY DEF IsSeq
<1> HIDE DEF S
<1>2. Len(s) \in Nat /\ DOMAIN s = 1 .. Len(s) /\ (s # <<>> => Len(s) \in Nat \ {0})
  BY <1>1, LenProperties, EmptySeq
<1>3. Len(<<>>) = 0
  BY EmptySeq
<1> QED
  BY <1>2, <1>3

LEMMA Narrowed ==
  ASSUME NEW S, NEW T, NEW s \in Seq(S), \A k \in 1 .. Len(s) : s[k] \in T
  PROVE  s \in Seq(T)
<1>1. s \in [1 .. Len(s) -> S] /\ Len(s) \in Nat
  BY LenProperties
<1>2. s \in [1 .. Len(s) -> T]
  BY <1>1
<1> DEFINE size == Len(s)
<1>3. s \in [1 .. size -> T] /\ size \in Nat
  BY <1>1, <1>2
<1> HIDE DEF size
<1> QED
  BY <1>3, SMT

LEMMA Appended ==
  ASSUME NEW s, IsSeq(s), NEW e
  PROVE  /\ IsSeq(Append(s, e)) /\ Append(s, e) # <<>>
         /\ Len(Append(s, e)) = Len(s) + 1
         /\ DOMAIN Append(s, e) = DOMAIN s \cup {Len(s) + 1} /\ Len(s) + 1 \notin DOMAIN s
         /\ Append(s, e)[Len(s) + 1] = e
         /\ \A k \in DOMAIN s : k < Len(s) + 1 /\ Append(s, e)[k] = s[k]
<1> DEFINE S == {s[k] : k \in DOMAIN s} \cup {e}
           t == Append(s, e)
<1>1. s \in Seq(S) /\ e \in S
  BY SeqMonotonic DEF IsSeq
<1>2. Len(s) \in Nat /\ DOMAIN s = 1 .. Len(s)
  BY SeqFacts
<1> HIDE DEF S
<1>3. /\ t \in Seq(S) /\ Len(t) = Len(s) + 1 /\ t[Len(s) + 1] = e
      /\ \A k \in 1 .. Len(s) : t[k] = s[k]
  BY <1>1, AppendProperties
<1>4. DOMAIN t = 1 .. Len(s) + 1
  BY <1>3, LenProperties
<1>5. \A k \in 1 .. Len(t) : t[k] \in {t[j] : j \in DOMAIN t}
  BY <1>3, <1>4
<1>6. t \in Seq({t[j] : j \in DOMAIN t})
  BY <1>3, <1>5, Narrowed
<1> HIDE DEF t
<1>7. IsSeq(t)
  BY <1>6 DEF IsSeq
<1>8. t # <<>>
  BY <1>2, <1>3, EmptySeq
<1> QED
  BY <1>2, <1>3, <1>4, <1>7, <1>8 DEF t

LEMMA Shortened ==
  ASSUME NEW s, IsSeq(s), s # <<>>
  PROVE  /\ IsSeq(Tail(s)) /\ Head(s) = s[1] /\ 1 \in DOMAIN s
         /\ Len(Tail(s)) = Len(s) - 1
         /\ DOMAIN Tail(s) = 1 .. Len(s) - 1
         /\ \A k \in DOMAIN Tail(s) : k + 1 \in DOMAIN s /\ Tail(s)[k] = s[k + 1]
<1> DEFINE S == {s[k] : k \in DOMAIN s}
           t == Tail(s)
<1>1. s \in Seq(S)
  BY DEF IsSeq
<1>2. Len(s) \in Nat /\ DOMAIN s = 1 .. Len(s) /\ Len(s) # 0
  BY SeqFacts
<1> HIDE DEF S
<1>3. t \in Seq(S) /\ Len(t) = Len(s) - 1 /\ \A k \in 1 .. Len(t) : t[k] = s[k + 1]
  BY <1>1, HeadTailProperties
<1>4. DOMAIN t = 1 .. Len(s) - 1
  BY <1>3, LenProperties
<1>5. t \in Seq({t[j] : j \in DOMAIN t})
  <2>2. \A k \in 1 .. Len(t) : t[k] \in {t[j] : j \in DOMAIN t}
    BY <1>3, <1>4
  <2> QED
    BY <1>3, <2>2, Narrowed
<1>6. Head(s) = s[1]
  BY <1>1
<1> HIDE DEF t
<1>7. IsSeq(t)
  BY <1>5 DEF IsSeq
<1> QED
  BY <1>2, <1>3, <1>4, <1>6, <1>7 DEF t

----------------------------------------------------------------------------
(* The main screen *)

LEMMA DrawnKeeps ==
  ASSUME NEW p, DOMAIN p = Fields
  PROVE  /\ DOMAIN P!Drawn(p) = Fields
         /\ P!Drawn(p).state = p.state /\ P!Drawn(p).pushed = p.pushed
         /\ P!Drawn(p).ui = p.ui /\ P!Drawn(p).unconfirmed = p.unconfirmed
  BY DEF P!Drawn, Fields

\* What a step leaves of the page that the two invariants speak of.
SameState == DOMAIN screen' = Fields /\ screen'.state = screen.state /\ screen'.pushed = screen.pushed
SameRules == screen'.ui = screen.ui /\ screen'.unconfirmed = screen.unconfirmed

LEMMA SameNewest ==
  ASSUME NewestComes, states' = states, state' = state, fetch' = fetch, SameState
  PROVE  NewestComes'
  BY DEF NewestComes, SameState

LEMMA PushedNewest ==
  ASSUME NewestComes, states' = Append(states, state'), fetch' = fetch, DOMAIN screen' = Fields
  PROVE  NewestComes'
<1>1. IsSeq(states') /\ states' # <<>> /\ states'[Len(states')] = state'
  BY Appended DEF NewestComes
<1> QED
  BY <1>1 DEF NewestComes

\* The calls of a step: none that speaks of the settings is taken.
NoCallTaken == IsSeq(calls') /\ (SettingsCalls' = {} => SettingsCalls = {})

LEMMA CallAsked ==
  ASSUME IsSeq(calls), NEW c, calls' = Append(calls, c)
  PROVE  NoCallTaken /\ (c.op = "setUiSettings" => SettingsCalls' # {})
<1>1. /\ IsSeq(calls') /\ DOMAIN calls' = DOMAIN calls \cup {Len(calls) + 1} /\ calls'[Len(calls) + 1] = c
      /\ \A k \in DOMAIN calls : calls'[k] = calls[k]
  BY Appended
<1> QED
  BY <1>1 DEF NoCallTaken, SettingsCalls

LEMMA CallTaken ==
  ASSUME IsSeq(calls), NEW op, P!Call(op), op \notin {"setUiSettings", "getUiSettings"}
  PROVE  NoCallTaken
<1>1. calls # <<>> /\ Head(calls).op = op /\ calls' = Tail(calls)
  BY DEF P!Call
<1>2. /\ IsSeq(calls') /\ Head(calls) = calls[1] /\ Len(calls') = Len(calls) - 1
      /\ \A k \in DOMAIN calls' : calls'[k] = calls[k + 1]
  BY <1>1, Shortened
<1>3. DOMAIN calls = 1 .. Len(calls) /\ DOMAIN calls' = 1 .. Len(calls') /\ Len(calls) \in Nat
  BY <1>2, SeqFacts
<1>4. \A k \in DOMAIN calls : k # 1 => k - 1 \in DOMAIN calls' /\ calls'[k - 1] = calls[k]
  BY <1>2, <1>3
<1> QED
  BY <1>1, <1>2, <1>4 DEF NoCallTaken, SettingsCalls

LEMMA SameSaved ==
  ASSUME LastIsSaved, replies' = replies, routing' = routing, SameRules, NoCallTaken
  PROVE  LastIsSaved'
  BY DEF LastIsSaved, SettingsAnswers, SameRules, NoCallTaken

LEMMA OtherAnswer ==
  ASSUME LastIsSaved, NEW a, replies' = Append(replies, a), a.op \notin {"settings", "unsaved"},
         routing' = routing, SameRules, NoCallTaken
  PROVE  LastIsSaved'
<1>1. /\ IsSeq(replies') /\ DOMAIN replies' = DOMAIN replies \cup {Len(replies) + 1} /\ replies'[Len(replies) + 1] = a
      /\ \A k \in DOMAIN replies : replies'[k] = replies[k]
  BY Appended DEF LastIsSaved
<1>2. SettingsAnswers' = SettingsAnswers /\ \A k \in SettingsAnswers : replies'[k] = replies[k]
  BY <1>1 DEF SettingsAnswers, LastIsSaved
<1> QED
  BY <1>1, <1>2 DEF LastIsSaved, SameRules, NoCallTaken

LEMMA SettingsAnswer ==
  ASSUME LastIsSaved, NEW a, replies' = Append(replies, a),
         a.op = "unsaved" \/ (a.op = "settings" /\ a.routing = routing'), IsSeq(calls')
  PROVE  LastIsSaved'
<1>1. /\ IsSeq(replies') /\ DOMAIN replies' = DOMAIN replies \cup {Len(replies) + 1} /\ replies'[Len(replies) + 1] = a
      /\ \A k \in DOMAIN replies : k < Len(replies) + 1 /\ k \in Nat
      /\ Len(replies) + 1 \in Nat
  BY Appended, SeqFacts DEF LastIsSaved
<1>2. Len(replies) + 1 \in SettingsAnswers' /\ \A k \in SettingsAnswers' : k = Len(replies) + 1 \/ k \in DOMAIN replies
  BY <1>1 DEF SettingsAnswers
<1>3. ASSUME NEW k \in SettingsAnswers', \A j \in SettingsAnswers' : j <= k
      PROVE  replies'[k].op = "unsaved" \/ replies'[k].routing = routing'
  <2>1. k = Len(replies) + 1
    BY <1>1, <1>2, <1>3
  <2> QED
    BY <1>1, <2>1
<1> QED
  BY <1>1, <1>2, <1>3 DEF LastIsSaved

LEMMA FetchCases ==
  ASSUME PageInv, P!FetchComes
  PROVE  PageInv'
<1>1. /\ states' = states /\ state' = state /\ routing' = routing /\ calls' = calls /\ replies' = replies
      /\ fetch.at = "read" /\ fetch' = [fetch EXCEPT !.at = "over"]
  BY DEF P!FetchComes, P!main
<1>2. DOMAIN fetch' = {"at", "state"} /\ fetch'.at = "over" /\ fetch'.state = fetch.state
  BY <1>1 DEF PageInv, NewestComes
<1> DEFINE p == [screen EXCEPT !.state = fetch.state]
<1>3. DOMAIN p = Fields /\ p.state = fetch.state /\ p.pushed = screen.pushed /\ p.ui = screen.ui /\ p.unconfirmed = screen.unconfirmed
  BY DEF PageInv, NewestComes, Fields
<1>4. IF ~screen.pushed THEN screen' = P!Drawn(p) ELSE screen' = screen
  BY DEF P!FetchComes, P!TakesFetch, P!Draws
<1> HIDE DEF p
<1>5. /\ DOMAIN screen' = Fields /\ screen'.pushed = screen.pushed /\ SameRules
      /\ screen'.state = IF ~screen.pushed THEN fetch.state ELSE screen.state
  BY <1>3, <1>4, DrawnKeeps DEF PageInv, NewestComes, SameRules
<1>6. NewestComes'
  BY <1>1, <1>2, <1>5 DEF PageInv, NewestComes
<1>7. LastIsSaved'
  BY <1>1, <1>5, SameSaved DEF PageInv, LastIsSaved, NoCallTaken, SettingsCalls
<1> QED
  BY <1>6, <1>7 DEF PageInv

LEMMA HearsCases ==
  ASSUME PageInv, P!Hears
  PROVE  PageInv'
<1>1. /\ states # <<>> /\ states' = Tail(states) /\ state' = state /\ routing' = routing
      /\ calls' = calls /\ replies' = replies /\ fetch' = fetch
  BY DEF P!Hears, P!main
<1> DEFINE p == [screen EXCEPT !.state = Head(states), !.pushed = TRUE]
<1>2. DOMAIN p = Fields /\ p.state = Head(states) /\ p.pushed = TRUE /\ p.ui = screen.ui /\ p.unconfirmed = screen.unconfirmed
  BY DEF PageInv, NewestComes, Fields
<1>3. screen' = P!Drawn(p)
  BY DEF P!Hears, P!Draws
<1> HIDE DEF p
<1>4. DOMAIN screen' = Fields /\ screen'.pushed /\ SameRules /\ screen'.state = Head(states)
  BY <1>2, <1>3, DrawnKeeps DEF SameRules
<1>5. /\ IsSeq(states') /\ Head(states) = states[1] /\ Len(states') = Len(states) - 1
      /\ \A k \in DOMAIN states' : states'[k] = states[k + 1]
  BY <1>1, Shortened DEF PageInv, NewestComes
<1>6. /\ Len(states) \in Nat /\ DOMAIN states' = 1 .. Len(states')
      /\ (states' = <<>> <=> Len(states') = 0)
  BY <1>5, SeqFacts DEF PageInv, NewestComes
<1>7. states' # <<>> => states'[Len(states')] = states[Len(states)]
  BY <1>5, <1>6
<1>8. states' = <<>> => Head(states) = states[Len(states)]
  BY <1>5, <1>6
<1>9. NewestComes'
  BY <1>1, <1>4, <1>5, <1>7, <1>8 DEF PageInv, NewestComes
<1>10. LastIsSaved'
  BY <1>1, <1>4, SameSaved DEF PageInv, LastIsSaved, NoCallTaken, SettingsCalls
<1> QED
  BY <1>9, <1>10 DEF PageInv

LEMMA AnsweredCases ==
  ASSUME PageInv, P!Answered
  PROVE  PageInv'
<1> DEFINE a == Head(replies)
           p == IF a.op = "settings" THEN [screen EXCEPT !.ui = a.routing, !.unconfirmed = FALSE]
                ELSE IF a.op = "unsaved" THEN [screen EXCEPT !.unconfirmed = TRUE] ELSE [screen EXCEPT !.notice = TRUE]
<1>1. /\ replies # <<>> /\ replies' = Tail(replies) /\ state' = state /\ routing' = routing
      /\ calls' = calls /\ states' = states /\ fetch' = fetch /\ screen' = P!Drawn(p)
  BY DEF P!Answered, P!main, P!Draws
<1>2. /\ DOMAIN p = Fields /\ p.state = screen.state /\ p.pushed = screen.pushed
      /\ a.op = "settings" => p.ui = a.routing
      /\ a.op = "unsaved" => p.unconfirmed
      /\ a.op \notin {"settings", "unsaved"} => p.ui = screen.ui /\ p.unconfirmed = screen.unconfirmed
  BY DEF PageInv, NewestComes, Fields
<1> HIDE DEF p
<1>3. SameState
  BY <1>1, <1>2, DrawnKeeps DEF SameState
<1>4. /\ a.op = "settings" => screen'.ui = a.routing
      /\ a.op = "unsaved" => screen'.unconfirmed
      /\ a.op \notin {"settings", "unsaved"} => SameRules
  BY <1>1, <1>2, DrawnKeeps DEF SameRules
<1>5. /\ IsSeq(replies') /\ a = replies[1] /\ 1 \in DOMAIN replies /\ Len(replies') = Len(replies) - 1
      /\ \A k \in DOMAIN replies' : replies'[k] = replies[k + 1]
  BY <1>1, Shortened DEF PageInv, LastIsSaved
<1>6. DOMAIN replies = 1 .. Len(replies) /\ DOMAIN replies' = 1 .. Len(replies') /\ Len(replies) \in Nat
  BY <1>5, SeqFacts DEF PageInv, LastIsSaved
<1> HIDE DEF a
<1>7. \A k \in DOMAIN replies : k # 1 => k - 1 \in DOMAIN replies' /\ replies'[k - 1] = replies[k]
  BY <1>5, <1>6
<1>8. \A k \in DOMAIN replies' : k \in Nat /\ k + 1 \in DOMAIN replies /\ k + 1 # 1
  BY <1>5, <1>6
<1>9. ASSUME NEW k \in SettingsAnswers', \A j \in SettingsAnswers' : j <= k
      PROVE  replies'[k].op = "unsaved" \/ replies'[k].routing = routing'
  <2>1. k \in DOMAIN replies' /\ k + 1 \in SettingsAnswers /\ k \in Nat
    BY <1>5, <1>8, <1>9 DEF SettingsAnswers
  <2>2. ASSUME NEW j \in SettingsAnswers
        PROVE  j <= k + 1
    <3>1. j \in DOMAIN replies /\ j \in Nat
      BY <1>6 DEF SettingsAnswers
    <3>2. CASE j = 1
      BY <2>1, <3>2
    <3>3. CASE j # 1
      <4>1. j - 1 \in SettingsAnswers'
        BY <1>7, <3>1, <3>3 DEF SettingsAnswers
      <4> QED
        BY <1>9, <2>1, <3>1, <4>1
    <3> QED
      BY <3>2, <3>3
  <2>3. replies[k + 1].op = "unsaved" \/ replies[k + 1].routing = routing
    BY <2>1, <2>2 DEF PageInv, LastIsSaved
  <2> QED
    BY <1>1, <1>5, <2>1, <2>3
<1>10. ASSUME SettingsAnswers' = {}, SettingsCalls' = {}
       PROVE  screen'.ui = routing' \/ screen'.unconfirmed
  <2>1. SettingsCalls = {}
    BY <1>1, <1>10 DEF SettingsCalls
  <2>2. SettingsAnswers \subseteq {1}
    BY <1>7, <1>10 DEF SettingsAnswers
  <2>3. CASE a.op \in {"settings", "unsaved"}
    <3>1. 1 \in SettingsAnswers /\ \A j \in SettingsAnswers : j <= 1
      BY <1>5, <2>2, <2>3 DEF SettingsAnswers
    <3>2. a.op = "unsaved" \/ a.routing = routing
      BY <1>5, <3>1 DEF PageInv, LastIsSaved
    <3> QED
      BY <1>1, <1>4, <2>3, <3>2
  <2>4. CASE a.op \notin {"settings", "unsaved"}
    <3>1. SettingsAnswers = {}
      BY <1>5, <2>2, <2>4 DEF SettingsAnswers
    <3> QED
      BY <1>1, <1>4, <2>1, <2>4, <3>1 DEF PageInv, LastIsSaved, SameRules
  <2> QED
    BY <2>3, <2>4
<1>11. LastIsSaved'
  BY <1>1, <1>5, <1>9, <1>10 DEF PageInv, LastIsSaved
<1> QED
  BY <1>1, <1>3, <1>11, SameNewest DEF PageInv

\* What the person does touches neither the snapshot on the page nor, but in the editor, the settings.
Person(p) ==
    /\ DOMAIN p = Fields /\ p.state = screen.state /\ p.pushed = screen.pushed
    /\ p.ui = screen.ui /\ p.unconfirmed = screen.unconfirmed
    /\ screen' = P!Drawn(p)
    /\ state' = state /\ routing' = routing /\ fetch' = fetch /\ states' = states /\ replies' = replies

LEMMA PersonKeeps ==
  ASSUME PageInv, NEW p, Person(p), calls' = calls \/ \E c : calls' = Append(calls, c)
  PROVE  PageInv'
<1>1. SameState /\ SameRules
  BY DrawnKeeps DEF Person, SameState, SameRules
<1>2. NoCallTaken
  <2>1. CASE calls' = calls
    BY <2>1 DEF NoCallTaken, SettingsCalls, PageInv, LastIsSaved
  <2>2. CASE \E c : calls' = Append(calls, c)
    BY <2>2, CallAsked DEF PageInv, LastIsSaved
  <2> QED
    BY <2>1, <2>2
<1> QED
  BY <1>1, <1>2, SameNewest, SameSaved DEF PageInv, Person

LEMMA PressesCases ==
  ASSUME PageInv, P!Presses \/ P!Selects \/ P!Reconnects
  PROVE  PageInv'
<1>1. DOMAIN screen = Fields
  BY DEF PageInv, NewestComes
<1>2. \A id : /\ DOMAIN P!Connecting(id) = Fields
              /\ P!Connecting(id).state = screen.state /\ P!Connecting(id).pushed = screen.pushed
              /\ P!Connecting(id).ui = screen.ui /\ P!Connecting(id).unconfirmed = screen.unconfirmed
  BY <1>1 DEF P!Connecting, Fields
<1> DEFINE p1 == [screen EXCEPT !.ping = Nothing]
           p2 == [screen EXCEPT !.splitStale = FALSE]
           p3(id) == [screen EXCEPT !.picking = FALSE, !.lastId = id]
<1>3. /\ DOMAIN p1 = Fields /\ p1.state = screen.state /\ p1.pushed = screen.pushed
      /\ p1.ui = screen.ui /\ p1.unconfirmed = screen.unconfirmed
      /\ DOMAIN p2 = Fields /\ p2.state = screen.state /\ p2.pushed = screen.pushed
      /\ p2.ui = screen.ui /\ p2.unconfirmed = screen.unconfirmed
  BY <1>1 DEF Fields
<1>4. \A id : /\ DOMAIN p3(id) = Fields /\ p3(id).state = screen.state /\ p3(id).pushed = screen.pushed
              /\ p3(id).ui = screen.ui /\ p3(id).unconfirmed = screen.unconfirmed
  BY <1>1 DEF Fields
<1>5. PICK p : /\ p = p1 \/ p = p2 \/ \E id : p = p3(id) \/ p = P!Connecting(id)
               /\ screen' = P!Drawn(p)
               /\ calls' = calls \/ \E c : calls' = Append(calls, c)
  <2>1. CASE P!Presses
    BY <2>1 DEF P!Presses, P!Draws, P!Asks
  <2>2. CASE P!Selects
    BY <2>2 DEF P!Selects, P!Draws, P!Asks
  <2>3. CASE P!Reconnects
    BY <2>3 DEF P!Reconnects, P!Draws, P!Asks
  <2> QED
    BY <2>1, <2>2, <2>3
<1> HIDE DEF p1, p2, p3
<1>6. state' = state /\ routing' = routing /\ fetch' = fetch /\ states' = states /\ replies' = replies
  BY DEF P!Presses, P!Selects, P!Reconnects, P!main
<1>7. Person(p)
  BY <1>2, <1>3, <1>4, <1>5, <1>6 DEF Person
<1> QED
  BY <1>5, <1>7, PersonKeeps

LEMMA LooksCases ==
  ASSUME PageInv, P!Navigates \/ P!Picks \/ P!AsksRemove \/ P!AnswersRemove \/ P!ChecksPing \/ P!PingComes \/ P!PingFades
                  \/ P!OpensSplit \/ P!ClosesSplit
  PROVE  PageInv'
<1>1. DOMAIN screen = Fields
  BY DEF PageInv, NewestComes
<1> DEFINE Same(p) == /\ DOMAIN p = Fields /\ p.state = screen.state /\ p.pushed = screen.pushed
                      /\ p.ui = screen.ui /\ p.unconfirmed = screen.unconfirmed
<1>2. PICK p : Same(p) /\ screen' = P!Drawn(p) /\ (calls' = calls \/ \E c : calls' = Append(calls, c))
  <2>1. CASE P!Navigates
    <3>1. PICK view : screen' = P!Drawn([screen EXCEPT !.picking = FALSE, !.view = view])
      BY <2>1 DEF P!Navigates, P!Draws
    <3>2. Same([screen EXCEPT !.picking = FALSE, !.view = view])
      BY <1>1 DEF Fields
    <3> QED
      BY <2>1, <3>1, <3>2 DEF P!Navigates, P!ways
  <2>2. CASE P!Picks
    <3>1. Same([screen EXCEPT !.picking = ~screen.picking])
      BY <1>1 DEF Fields
    <3> QED
      BY <2>2, <3>1 DEF P!Picks, P!Draws, P!ways
  <2>3. CASE P!AsksRemove
    <3>1. PICK id : screen' = P!Drawn([screen EXCEPT !.removing = id])
      BY <2>3 DEF P!AsksRemove, P!Draws
    <3>2. Same([screen EXCEPT !.removing = id])
      BY <1>1 DEF Fields
    <3> QED
      BY <2>3, <3>1, <3>2 DEF P!AsksRemove, P!ways
  <2>4. CASE P!AnswersRemove
    <3>1. Same([screen EXCEPT !.removing = Nothing])
      BY <1>1 DEF Fields
    <3>2. calls' = calls \/ \E c : calls' = Append(calls, c)
      BY <2>4 DEF P!AnswersRemove
    <3> QED
      BY <2>4, <3>1, <3>2 DEF P!AnswersRemove, P!Draws
  <2>5. CASE P!ChecksPing
    <3>1. Same([screen EXCEPT !.pinging = TRUE])
      BY <1>1 DEF Fields
    <3>2. calls' = calls \/ \E c : calls' = Append(calls, c)
      BY <2>5 DEF P!ChecksPing, P!Asks
    <3> QED
      BY <2>5, <3>1, <3>2 DEF P!ChecksPing, P!Draws
  <2>6. CASE P!PingComes
    <3>1. PICK g : screen' = P!Drawn([screen EXCEPT !.ping = g, !.pinging = FALSE])
      BY <2>6 DEF P!PingComes, P!Draws
    <3>2. Same([screen EXCEPT !.ping = g, !.pinging = FALSE])
      BY <1>1 DEF Fields
    <3> QED
      BY <2>6, <3>1, <3>2 DEF P!PingComes
  <2>7. CASE P!PingFades
    <3>1. Same([screen EXCEPT !.ping = Nothing])
      BY <1>1 DEF Fields
    <3> QED
      BY <2>7, <3>1 DEF P!PingFades, P!Draws, P!ways
  <2>8. CASE P!OpensSplit
    <3>1. Same([screen EXCEPT !.splitOpen = TRUE, !.splitAtOpen = screen.ui])
      BY <1>1 DEF Fields
    <3> QED
      BY <2>8, <3>1 DEF P!OpensSplit, P!Draws, P!ways
  <2>9. CASE P!ClosesSplit
    <3>1. \A b : Same([screen EXCEPT !.splitOpen = FALSE, !.splitAtOpen = {}, !.splitStale = b])
      BY <1>1 DEF Fields
    <3>2. PICK b : screen' = P!Drawn([screen EXCEPT !.splitOpen = FALSE, !.splitAtOpen = {}, !.splitStale = b])
      BY <2>9 DEF P!ClosesSplit, P!Draws
    <3> QED
      BY <2>9, <3>1, <3>2 DEF P!ClosesSplit, P!ways
  <2> QED
    BY <2>1, <2>2, <2>3, <2>4, <2>5, <2>6, <2>7, <2>8, <2>9
<1>3. state' = state /\ routing' = routing /\ fetch' = fetch /\ states' = states /\ replies' = replies
  BY DEF P!Navigates, P!Picks, P!AsksRemove, P!AnswersRemove, P!ChecksPing, P!PingComes, P!PingFades,
         P!OpensSplit, P!ClosesSplit, P!main, P!ways
<1>4. Person(p)
  BY <1>2, <1>3 DEF Person
<1> QED
  BY <1>2, <1>4, PersonKeeps

LEMMA ChangesCases ==
  ASSUME PageInv, P!Changes
  PROVE  PageInv'
<1>1. PICK now : /\ screen' = P!Drawn([screen EXCEPT !.ui = now])
                 /\ calls' = Append(calls, [op |-> "setUiSettings", routing |-> now])
  BY DEF P!Changes, P!Draws, P!Asks
<1>2. state' = state /\ routing' = routing /\ fetch' = fetch /\ states' = states /\ replies' = replies
  BY DEF P!Changes, P!main
<1> DEFINE p == [screen EXCEPT !.ui = now]
<1>3. DOMAIN p = Fields /\ p.state = screen.state /\ p.pushed = screen.pushed
  BY DEF PageInv, NewestComes, Fields
<1>4. SameState
  BY <1>1, <1>3, DrawnKeeps DEF SameState
<1>5. IsSeq(calls') /\ SettingsCalls' # {}
  BY <1>1, CallAsked DEF PageInv, LastIsSaved, NoCallTaken
<1>6. SettingsAnswers' = SettingsAnswers
  BY <1>2 DEF SettingsAnswers
<1>7. LastIsSaved'
  BY <1>2, <1>5, <1>6 DEF PageInv, LastIsSaved
<1> QED
  BY <1>2, <1>4, <1>7, SameNewest DEF PageInv

\* The main process's own steps leave the page alone; a call of none of the settings is taken, and a
\* snapshot may be pushed.
MainOnly == screen' = screen /\ routing' = routing

LEMMA MainKeeps ==
  ASSUME PageInv, MainOnly, NoCallTaken,
         replies' = replies \/ replies' = Append(replies, [op |-> "error"]),
         fetch' = fetch, (states' = states /\ state' = state) \/ states' = Append(states, state')
  PROVE  PageInv'
<1>1. SameState /\ SameRules
  BY DEF SameState, SameRules, MainOnly, PageInv, NewestComes
<1>2. NewestComes'
  BY <1>1, SameNewest, PushedNewest DEF PageInv, SameState
<1>3. LastIsSaved'
  <2>1. CASE replies' = replies
    BY <1>1, <2>1, SameSaved DEF PageInv, MainOnly
  <2>2. CASE replies' = Append(replies, [op |-> "error"])
    BY <1>1, <2>2, OtherAnswer DEF PageInv, MainOnly
  <2> QED
    BY <2>1, <2>2
<1> QED
  BY <1>2, <1>3 DEF PageInv

LEMMA SettingsCases ==
  ASSUME PageInv, P!SetUiSettings \/ P!GetUiSettings
  PROVE  PageInv'
<1>1. state' = state /\ fetch' = fetch /\ states' = states /\ screen' = screen
  BY DEF P!SetUiSettings, P!GetUiSettings, P!main
<1>2. IsSeq(calls')
  <2>1. calls # <<>> /\ calls' = Tail(calls)
    BY DEF P!SetUiSettings, P!GetUiSettings, P!Call
  <2> QED
    BY <2>1, Shortened DEF PageInv, LastIsSaved
<1>3. \/ replies' = Append(replies, [op |-> "settings", routing |-> routing'])
      \/ replies' = Append(replies, [op |-> "unsaved"])
  BY DEF P!SetUiSettings, P!GetUiSettings, P!main, P!Saved
<1>4. LastIsSaved'
  BY <1>2, <1>3, SettingsAnswer DEF PageInv
<1> QED
  BY <1>1, <1>4, SameNewest DEF PageInv, SameState, NewestComes

LEMMA MainCases ==
  ASSUME PageInv,
         P!GetState \/ P!Refused("connect") \/ P!Refused("disconnect") \/ P!Refused("reconnect")
         \/ P!Connect \/ P!Reconnect \/ P!Disconnect \/ P!Pointless \/ P!RemoveTunnel \/ P!Ping \/ P!ByItself
  PROVE  PageInv'
<1>1. CASE P!GetState
  <2>1. /\ screen' = screen /\ routing' = routing /\ state' = state /\ states' = states /\ replies' = replies
        /\ calls' = calls /\ fetch.at = "asked" /\ fetch' = [at |-> "read", state |-> state]
    BY <1>1 DEF P!GetState, P!main
  <2>2. NewestComes'
    BY <2>1 DEF PageInv, NewestComes
  <2>3. LastIsSaved'
    BY <2>1, SameSaved DEF PageInv, LastIsSaved, SameRules, NoCallTaken, SettingsCalls
  <2> QED
    BY <2>2, <2>3 DEF PageInv
<1>2. CASE P!Refused("connect") \/ P!Refused("disconnect") \/ P!Refused("reconnect")
  <2>1. PICK op \in {"connect", "disconnect", "reconnect"} : P!Refused(op)
    BY <1>2
  <2>2. /\ P!Call(op) /\ MainOnly /\ fetch' = fetch /\ states' = states /\ state' = state
        /\ replies' = Append(replies, [op |-> "error"])
    BY <2>1 DEF P!Refused, P!main, MainOnly
  <2>3. NoCallTaken
    BY <2>2, CallTaken DEF PageInv, LastIsSaved
  <2> QED
    BY <2>2, <2>3, MainKeeps
<1>3. CASE P!Connect \/ P!Reconnect
  <2>1. P!Call("connect") \/ P!Call("reconnect")
    BY <1>3 DEF P!Connect, P!Reconnect
  <2>2. \E id : P!Runs(id)
    BY <1>3 DEF P!Connect, P!Reconnect
  <2>3. MainOnly /\ fetch' = fetch /\ replies' = replies /\ states' = Append(states, state')
    BY <2>2 DEF P!Runs, P!Pushes, MainOnly
  <2>4. NoCallTaken
    BY <2>1, CallTaken DEF PageInv, LastIsSaved
  <2> QED
    BY <2>3, <2>4, MainKeeps
<1>4. CASE P!Disconnect \/ P!RemoveTunnel
  <2>1. P!Call("disconnect") \/ P!Call("removeTunnel")
    BY <1>4 DEF P!Disconnect, P!RemoveTunnel
  <2>2. MainOnly /\ fetch' = fetch /\ replies' = replies /\ states' = Append(states, state')
    BY <1>4 DEF P!Disconnect, P!RemoveTunnel, P!Pushes, MainOnly
  <2>3. NoCallTaken
    BY <2>1, CallTaken DEF PageInv, LastIsSaved
  <2> QED
    BY <2>2, <2>3, MainKeeps
<1>5. CASE P!Pointless
  <2>1. P!Call("connect") \/ P!Call("reconnect") \/ P!Call("removeTunnel")
    BY <1>5 DEF P!Pointless
  <2>2. /\ MainOnly /\ fetch' = fetch /\ states' = states /\ state' = state
        /\ replies' = Append(replies, [op |-> "error"])
    BY <1>5 DEF P!Pointless, P!main, MainOnly
  <2>3. NoCallTaken
    BY <2>1, CallTaken DEF PageInv, LastIsSaved
  <2> QED
    BY <2>2, <2>3, MainKeeps
<1>6. CASE P!Ping
  <2>1. /\ P!Call("ping") /\ MainOnly /\ fetch' = fetch /\ states' = states /\ state' = state /\ replies' = replies
    BY <1>6 DEF P!Ping, P!main, MainOnly
  <2>2. NoCallTaken
    BY <2>1, CallTaken DEF PageInv, LastIsSaved
  <2> QED
    BY <2>1, <2>2, MainKeeps
<1>7. CASE P!ByItself
  <2>1. MainOnly /\ fetch' = fetch /\ replies' = replies /\ calls' = calls /\ states' = Append(states, state')
    BY <1>7 DEF P!ByItself, P!Pushes, MainOnly
  <2>2. NoCallTaken
    BY <2>1 DEF NoCallTaken, SettingsCalls, PageInv, LastIsSaved
  <2> QED
    BY <2>1, <2>2, MainKeeps
<1> QED
  BY <1>1, <1>2, <1>3, <1>4, <1>5, <1>6, <1>7

LEMMA PageStep ==
  ASSUME PageInv, P!Next
  PROVE  PageInv'
<1>1. CASE P!FetchComes \/ P!Hears \/ P!Answered
  BY <1>1, FetchCases, HearsCases, AnsweredCases
<1>2. CASE P!Presses \/ P!Selects \/ P!Reconnects
  BY <1>2, PressesCases
<1>3. CASE P!Navigates \/ P!Picks \/ P!AsksRemove \/ P!AnswersRemove \/ P!ChecksPing \/ P!PingComes \/ P!PingFades
           \/ P!OpensSplit \/ P!ClosesSplit
  BY <1>3, LooksCases
<1>4. CASE P!Changes
  BY <1>4, ChangesCases
<1>5. CASE P!SetUiSettings \/ P!GetUiSettings
  BY <1>5, SettingsCases
<1>6. CASE P!GetState \/ P!Refused("connect") \/ P!Refused("disconnect") \/ P!Refused("reconnect")
           \/ P!Connect \/ P!Reconnect \/ P!Disconnect \/ P!Pointless \/ P!RemoveTunnel \/ P!Ping \/ P!ByItself
  BY <1>6, MainCases
<1> QED
  BY <1>1, <1>2, <1>3, <1>4, <1>5, <1>6 DEF P!Next

LEMMA PageStart ==
  ASSUME P!Init
  PROVE  PageInv
<1>1. /\ state = [servers |-> Servers, key |-> TRUE, activeId |-> Nothing, session |-> 0]
      /\ fetch = [at |-> "asked", state |-> state] /\ states = <<>> /\ replies = <<>>
      /\ calls = <<[op |-> "getUiSettings"]>> /\ ~screen.pushed /\ DOMAIN screen = Fields
  BY DEF P!Init, Fields
<1>2. IsSeq(calls) /\ 1 \in SettingsCalls
  <2>1. calls \in Seq({[op |-> "getUiSettings"]}) /\ DOMAIN calls = 1 .. 1 /\ calls[1] = [op |-> "getUiSettings"]
    BY <1>1
  <2> QED
    BY <2>1 DEF IsSeq, SettingsCalls
<1>3. SettingsAnswers = {}
  BY <1>1, NoneIsSeq DEF SettingsAnswers
<1>4. NewestComes
  BY <1>1, NoneIsSeq DEF NewestComes
<1>5. LastIsSaved
  BY <1>1, <1>2, <1>3, NoneIsSeq DEF LastIsSaved
<1> QED
  BY <1>4, <1>5 DEF PageInv

LEMMA PageSays == PageInv => PageAgrees
<1>1. ASSUME PageInv, P!Quiet
      PROVE  screen.state = state /\ (screen.ui = routing \/ screen.unconfirmed)
  <2>1. fetch.at = "over" /\ states = <<>> /\ calls = <<>> /\ replies = <<>>
    BY <1>1 DEF P!Quiet
  <2>2. SettingsAnswers = {} /\ SettingsCalls = {}
    BY <2>1, NoneIsSeq DEF SettingsAnswers, SettingsCalls
  <2>3. screen.state = state
    BY <1>1, <2>1 DEF PageInv, NewestComes
  <2> QED
    BY <1>1, <2>2, <2>3 DEF PageInv, LastIsSaved
<1> QED
  BY <1>1 DEF PageAgrees, P!PageAgrees

----------------------------------------------------------------------------
(* Adding a server *)

FieldParts == {"link", "settled", "pause", "preview", "face", "swap"}

LEMMA GivesWayKeeps ==
  ASSUME NEW f, DOMAIN f = FieldParts
  PROVE  /\ DOMAIN A!GivesWay(f) = FieldParts /\ A!GivesWay(f).link = f.link /\ A!GivesWay(f).settled = f.settled
         /\ A!GivesWay(f).pause = f.pause /\ A!GivesWay(f).preview = f.preview
  BY DEF A!GivesWay, FieldParts

LEMMA EmptyFieldFacts ==
  /\ DOMAIN A!EmptyField = FieldParts /\ A!EmptyField.link = Blank /\ A!EmptyField.settled = Blank
  /\ A!EmptyField.pause = FALSE
  BY DEF A!EmptyField, FieldParts

LEMMA SettlesKeeps ==
  ASSUME SettledIsRead, NEW f, NEW l, DOMAIN f = FieldParts, f.link = l, f.settled = field.settled, f.preview = field.preview,
         A!Settles(f, l), form' = form
  PROVE  SettledIsRead'
<1> DEFINE g == [f EXCEPT !.settled = l, !.pause = FALSE, !.preview = IF l = Blank THEN Nothing ELSE f.preview]
<1>1. DOMAIN g = FieldParts /\ g.link = l /\ g.settled = l /\ (l # Blank => g.preview = f.preview)
  BY DEF FieldParts
<1>2. field' = A!GivesWay(g) /\ previews' = IF l \in {Blank, f.settled} THEN previews ELSE previews \cup {l}
  BY DEF A!Settles
<1> HIDE DEF g
<1>3. DOMAIN field' = FieldParts /\ field'.link = l /\ field'.settled = l /\ (l # Blank => field'.preview = field.preview)
  BY <1>1, <1>2, GivesWayKeeps
<1> QED
  BY <1>2, <1>3 DEF SettledIsRead, FieldParts

LEMMA FieldCases ==
  ASSUME AddInv, A!EntersText \/ A!TypingPauses \/ A!PreviewComes \/ A!SwapEnds \/ A!ChangesKey
  PROVE  AddInv' /\ form' = form
<1>1. /\ form' = form /\ n' = n /\ phase' = phase /\ imports' = imports /\ welcoming' = welcoming /\ back' = back
  BY DEF A!EntersText, A!TypingPauses, A!PreviewComes, A!SwapEnds, A!ChangesKey, A!page
<1>2. WelcomeWaits' /\ WelcomeIsKept'
  BY <1>1 DEF AddInv, WelcomeWaits, WelcomeIsKept, OfWelcome
<1>3. DOMAIN field = FieldParts
  BY DEF AddInv, SettledIsRead, FieldParts
<1>4. CASE A!EntersText
  <2>1. PICK l : IF <<field.link, l>> \in Typed
                 THEN field' = A!GivesWay([field EXCEPT !.link = l, !.pause = TRUE]) /\ previews' = previews
                 ELSE A!Settles([field EXCEPT !.link = l], l)
    BY <1>4 DEF A!EntersText
  <2>2. CASE <<field.link, l>> \in Typed
    <3> DEFINE g == [field EXCEPT !.link = l, !.pause = TRUE]
    <3>1. /\ DOMAIN g = FieldParts /\ g.settled = field.settled /\ g.pause = TRUE /\ g.preview = field.preview
      BY <1>3 DEF FieldParts
    <3>2. field' = A!GivesWay(g) /\ previews' = previews
      BY <2>1, <2>2
    <3> HIDE DEF g
    <3>3. DOMAIN field' = FieldParts /\ field'.settled = field.settled /\ field'.pause = TRUE /\ field'.preview = field.preview
      BY <3>1, <3>2, GivesWayKeeps
    <3> QED
      BY <1>1, <3>2, <3>3, <1>2 DEF AddInv, SettledIsRead, FieldParts
  <2>3. CASE <<field.link, l>> \notin Typed
    <3> DEFINE g == [field EXCEPT !.link = l]
    <3>1. DOMAIN g = FieldParts /\ g.link = l /\ g.settled = field.settled /\ g.preview = field.preview
      BY <1>3 DEF FieldParts
    <3>2. A!Settles(g, l)
      BY <2>1, <2>3
    <3> HIDE DEF g
    <3> QED
      BY <1>1, <1>2, <3>1, <3>2, SettlesKeeps DEF AddInv
  <2> QED
    BY <2>2, <2>3
<1>5. CASE A!TypingPauses
  <2>1. A!Settles(field, field.link)
    BY <1>5 DEF A!TypingPauses
  <2> QED
    BY <1>1, <1>2, <1>3, <2>1, SettlesKeeps DEF AddInv
<1>6. CASE A!PreviewComes
  <2>1. PICK l \in previews : /\ previews' = previews \ {l}
                              /\ field' = IF l = field.settled THEN A!GivesWay([field EXCEPT !.preview = l]) ELSE field
    BY <1>6 DEF A!PreviewComes, A!Newest
  <2> DEFINE g == [field EXCEPT !.preview = l]
  <2>2. DOMAIN g = FieldParts /\ g.settled = field.settled /\ g.link = field.link /\ g.pause = field.pause /\ g.preview = l
    BY <1>3 DEF FieldParts
  <2>3. field' = IF l = field.settled THEN A!GivesWay(g) ELSE field
    BY <2>1
  <2> HIDE DEF g
  <2>4. /\ DOMAIN field' = FieldParts /\ field'.settled = field.settled /\ field'.link = field.link /\ field'.pause = field.pause
        /\ field'.preview = IF l = field.settled THEN l ELSE field.preview
    BY <1>3, <2>2, <2>3, GivesWayKeeps
  <2> QED
    BY <1>1, <1>2, <2>1, <2>4 DEF AddInv, SettledIsRead, FieldParts
<1>7. CASE A!SwapEnds
  <2>1. previews' = previews /\ field' = [field EXCEPT !.face = field.swap, !.swap = "none"]
    BY <1>7 DEF A!SwapEnds
  <2>2. /\ DOMAIN field' = FieldParts /\ field'.settled = field.settled /\ field'.link = field.link
        /\ field'.pause = field.pause /\ field'.preview = field.preview
    BY <1>3, <2>1 DEF FieldParts
  <2> QED
    BY <1>1, <1>2, <2>1, <2>2 DEF AddInv, SettledIsRead, FieldParts
<1>8. CASE A!ChangesKey
  <2>1. field' = [A!EmptyField EXCEPT !.face = "server", !.swap = "field"]
    BY <1>8 DEF A!ChangesKey
  <2>2. DOMAIN field' = FieldParts /\ field'.settled = Blank /\ field'.link = Blank
    BY <2>1, EmptyFieldFacts DEF FieldParts
  <2> QED
    BY <1>1, <1>2, <2>2 DEF AddInv, SettledIsRead, FieldParts
<1> QED
  BY <1>1, <1>4, <1>5, <1>6, <1>7, <1>8

\* However the page is drawn, the field that stays or begins shows what settled in it.
LEMMA DrawsSettled ==
  ASSUME SettledIsRead, NEW list, NEW w, NEW b, NEW a, A!Draws(list, w, b, a)
  PROVE  /\ SettledIsRead' /\ form' = A!Screen(list, w, b, a) /\ welcoming' = w /\ back' = b
         /\ form' = form => n' = n
         /\ w \/ b => form' = "welcome"
<1>1. /\ form' = A!Screen(list, w, b, a) /\ welcoming' = w /\ back' = b
      /\ (field' = field /\ previews' = previews /\ form' = form) \/ field' = A!EmptyField
      /\ form' = form => n' = n
  BY DEF A!Draws
<1>2. SettledIsRead'
  BY <1>1, EmptyFieldFacts DEF SettledIsRead, FieldParts
<1> QED
  BY <1>1, <1>2 DEF A!Screen

LEMMA Redrawn ==
  ASSUME AddInv, NEW list, NEW a, A!Draws(list, welcoming, back, a), phase' = A!PhaseOf(list, back, phase),
         imports' \subseteq imports
  PROVE  AddInv' /\ (form = "welcome" /\ phase \in {"saving", "done"} => form' = "welcome")
<1>1. /\ SettledIsRead' /\ welcoming' = welcoming /\ back' = back
      /\ form' = form => n' = n
      /\ welcoming \/ back => form' = "welcome"
  BY DrawsSettled DEF AddInv
<1>2. form = "welcome" /\ phase \in {"saving", "done"} => form' = "welcome"
  BY <1>1 DEF AddInv, WelcomeIsKept
<1>3. phase' = IF form' = form THEN phase ELSE IF back /\ list # {} THEN "done" ELSE "input"
  BY DEF A!PhaseOf, A!Begins
<1>4. WelcomeWaits'
  BY <1>1, <1>2, <1>3 DEF AddInv, WelcomeWaits, OfWelcome
<1>5. WelcomeIsKept'
  BY <1>1, <1>3 DEF AddInv, WelcomeIsKept
<1> QED
  BY <1>1, <1>2, <1>4, <1>5 DEF AddInv

\* A form that waits for nothing may be drawn anew in any way, if it does not begin with the note.
LEMMA RedrawnIdle ==
  ASSUME AddInv, NEW list, NEW w, NEW b, NEW a, A!Draws(list, w, b, a), phase' \in {"input", "leaving"},
         imports' \subseteq imports, OfWelcome' = {}
  PROVE  AddInv'
<1>1. SettledIsRead'
  BY DrawsSettled DEF AddInv
<1>2. WelcomeWaits' /\ WelcomeIsKept'
  BY DEF AddInv, WelcomeWaits, WelcomeIsKept
<1> QED
  BY <1>1, <1>2 DEF AddInv

LEMMA AtKeeps ==
  ASSUME WelcomeWaits, NEW i \in imports, NEW at, A!At(i, at), form' = form, n' = n, phase' = phase
  PROVE  WelcomeWaits'
<1> DEFINE j == [i EXCEPT !.at = at]
<1>1. DOMAIN i = {"of", "by", "link", "at"}
  BY DEF WelcomeWaits
<1>2. DOMAIN j = {"of", "by", "link", "at"} /\ j.by = i.by /\ j.of = i.of
  BY <1>1
<1>3. imports' = (imports \ {i}) \cup {j}
  BY DEF A!At
<1> HIDE DEF j
<1>4. \A x \in imports' : x = j \/ (x \in imports /\ x # i)
  BY <1>3
<1>5. \A x \in OfWelcome' : (x = j /\ i \in OfWelcome) \/ (x \in OfWelcome /\ x # i)
  BY <1>2, <1>4 DEF OfWelcome
<1>6. \A x \in OfWelcome' : form' = "welcome" /\ n' = x.of /\ phase' = "saving"
  BY <1>2, <1>5 DEF WelcomeWaits
<1>7. \A x, y \in OfWelcome' : x = y
  BY <1>5 DEF WelcomeWaits
<1> QED
  BY <1>2, <1>4, <1>6, <1>7 DEF WelcomeWaits

\* What a step of the form may do to the note.
NoteStays == form = "welcome" /\ phase \in {"saving", "done"} /\ form' # "welcome" => \E i \in imports : i.at = "refused"

LEMMA SubmitsCase ==
  ASSUME AddInv, A!Submits
  PROVE  AddInv' /\ NoteStays
<1>1. /\ phase = "input" /\ phase' = "saving" /\ welcoming' = (welcoming \/ form = "welcome") /\ back' = back
      /\ form' = form /\ n' = n /\ field' = field /\ previews' = previews
      /\ imports' = imports \cup {[of |-> n, by |-> form, link |-> field.link, at |-> "asked"]}
  BY DEF A!Submits, A!Locked, A!Holds
<1>2. OfWelcome = {}
  BY <1>1 DEF AddInv, WelcomeWaits
<1> DEFINE new == [of |-> n, by |-> form, link |-> field.link, at |-> "asked"]
<1>3. DOMAIN new = {"of", "by", "link", "at"} /\ new.by = form /\ new.of = n
  OBVIOUS
<1>4. imports' = imports \cup {new}
  BY <1>1
<1> HIDE DEF new
<1>5. \A x \in OfWelcome' : x = new
  BY <1>2, <1>4 DEF OfWelcome
<1>6. \A x \in OfWelcome' : form = "welcome"
  BY <1>3, <1>5 DEF OfWelcome
<1>7. WelcomeWaits'
  BY <1>1, <1>3, <1>4, <1>5, <1>6 DEF AddInv, WelcomeWaits
<1>8. SettledIsRead' /\ WelcomeIsKept'
  BY <1>1 DEF AddInv, SettledIsRead, WelcomeIsKept
<1> QED
  BY <1>1, <1>7, <1>8 DEF AddInv, NoteStays

\* What came of an import that was added.
LEMMA AddedKeeps ==
  ASSUME AddInv, NEW i \in imports, A!Added(i)
  PROVE  AddInv' /\ NoteStays
<1>1. imports' = imports \ {i}
  BY DEF A!Added
<1>2. CASE i.by = "dialog"
  <2>1. A!Draws(listed, welcoming, back, FALSE) /\ phase' = A!PhaseOf(listed, back, phase)
    BY <1>2 DEF A!Added
  <2> QED
    BY <1>1, <2>1, Redrawn DEF NoteStays
<1>3. CASE i.by # "dialog"
  <2>1. /\ phase' = IF A!Mine(i) THEN "done" ELSE phase
        /\ form' = form /\ n' = n /\ field' = field /\ previews' = previews /\ welcoming' = welcoming /\ back' = back
    BY <1>3 DEF A!Added, A!page
  <2>2. A!Mine(i) /\ form = "welcome" => i \in OfWelcome /\ phase = "saving"
    BY DEF A!Mine, OfWelcome, AddInv, WelcomeWaits
  <2>3. OfWelcome' = OfWelcome \ {i}
    BY <1>1 DEF OfWelcome
  <2>4. ASSUME NEW x \in OfWelcome'
        PROVE  form = "welcome" /\ n = x.of /\ phase' = "saving"
    <3>1. x \in OfWelcome /\ x # i
      BY <2>3
    <3>2. form = "welcome" /\ n = x.of /\ phase = "saving"
      BY <3>1 DEF AddInv, WelcomeWaits
    <3>3. i \notin OfWelcome
      BY <3>1 DEF AddInv, WelcomeWaits
    <3> QED
      BY <2>1, <2>2, <3>2, <3>3
  <2>5. WelcomeWaits'
    BY <1>1, <2>1, <2>3, <2>4 DEF AddInv, WelcomeWaits
  <2>6. SettledIsRead' /\ WelcomeIsKept'
    BY <2>1, <2>2 DEF AddInv, SettledIsRead, WelcomeIsKept
  <2> QED
    BY <2>1, <2>5, <2>6 DEF AddInv, NoteStays
<1> QED
  BY <1>2, <1>3

LEMMA ImportCases ==
  ASSUME AddInv, A!MainImports \/ A!AddedComes \/ A!BarEnds
  PROVE  AddInv' /\ NoteStays
<1>1. ASSUME NEW i \in imports, NEW at, A!At(i, at),
             form' = form, n' = n, phase' = phase, field' = field, previews' = previews, welcoming' = welcoming, back' = back
      PROVE  AddInv' /\ NoteStays
  <2>1. WelcomeWaits'
    BY <1>1, AtKeeps DEF AddInv
  <2>2. SettledIsRead' /\ WelcomeIsKept'
    BY <1>1 DEF AddInv, SettledIsRead, WelcomeIsKept
  <2> QED
    BY <1>1, <2>1, <2>2 DEF AddInv, NoteStays
<1>2. CASE A!MainImports
  <2>1. \E i \in imports : A!At(i, "added") \/ A!At(i, "refused")
    BY <1>2 DEF A!MainImports
  <2> QED
    BY <1>1, <1>2, <2>1 DEF A!MainImports, A!page
<1>3. CASE A!AddedComes
  <2>1. PICK i \in imports : \/ /\ A!At(i, "bar") /\ form' = form /\ n' = n /\ phase' = phase /\ field' = field
                                /\ previews' = previews /\ welcoming' = welcoming /\ back' = back
                             \/ A!Added(i)
    BY <1>3 DEF A!AddedComes, A!page
  <2> QED
    BY <1>1, <2>1, AddedKeeps
<1>4. CASE A!BarEnds
  BY <1>4, AddedKeeps DEF A!BarEnds
<1> QED
  BY <1>2, <1>3, <1>4

LEMMA RefusedCase ==
  ASSUME AddInv, A!RefusedComes
  PROVE  AddInv' /\ NoteStays
<1>1. PICK i \in imports :
         /\ i.at = "refused" /\ imports' = imports \ {i}
         /\ IF i.by = "welcome"
            THEN A!Draws(listed, FALSE, FALSE, adding) /\ phase' = A!PhaseOf(listed, FALSE, "input")
            ELSE /\ phase' = IF A!Mine(i) THEN "input" ELSE phase
                 /\ form' = form /\ n' = n /\ field' = field /\ previews' = previews /\ welcoming' = welcoming /\ back' = back
  BY DEF A!RefusedComes, A!page
<1>2. OfWelcome' = OfWelcome \ {i}
  BY <1>1 DEF OfWelcome
<1>3. CASE i.by = "welcome"
  <2>1. OfWelcome' = {}
    BY <1>2, <1>3 DEF AddInv, WelcomeWaits, OfWelcome
  <2>2. phase' = "input"
    BY <1>1, <1>3 DEF A!PhaseOf, A!Begins
  <2> QED
    BY <1>1, <1>3, <2>1, <2>2, RedrawnIdle DEF NoteStays
<1>4. CASE i.by # "welcome"
  <2>1. i \notin OfWelcome /\ OfWelcome' = OfWelcome
    BY <1>2, <1>4 DEF OfWelcome
  <2>2. A!Mine(i) => form # "welcome"
    BY <1>4 DEF A!Mine
  <2>3. WelcomeWaits'
    BY <1>1, <1>4, <2>1, <2>2 DEF AddInv, WelcomeWaits
  <2>4. SettledIsRead' /\ WelcomeIsKept'
    BY <1>1, <1>4, <2>2 DEF AddInv, SettledIsRead, WelcomeIsKept
  <2> QED
    BY <1>1, <1>4, <2>3, <2>4 DEF AddInv, NoteStays
<1> QED
  BY <1>3, <1>4

LEMMA FormCases ==
  ASSUME AddInv, A!Hears \/ A!NoteEnds \/ A!Leaves \/ A!OpensDialog \/ A!ClosesDialog \/ A!Removes
  PROVE  AddInv' /\ NoteStays
<1>1. imports' = imports /\ OfWelcome' = OfWelcome
  BY DEF A!Hears, A!NoteEnds, A!Leaves, A!OpensDialog, A!ClosesDialog, A!Removes, OfWelcome
<1>2. CASE A!Hears
  <2>1. A!Draws(servers, welcoming, back, adding) /\ phase' = A!PhaseOf(servers, back, phase)
    BY <1>2 DEF A!Hears
  <2> QED
    BY <1>1, <2>1, Redrawn DEF NoteStays
<1>3. CASE A!NoteEnds
  <2>1. /\ form = "welcome" /\ phase = "done" /\ phase' = "leaving"
        /\ form' = form /\ n' = n /\ field' = field /\ previews' = previews /\ welcoming' = welcoming /\ back' = back
    BY <1>3 DEF A!NoteEnds, A!page
  <2>2. OfWelcome = {}
    BY <2>1 DEF AddInv, WelcomeWaits
  <2> QED
    BY <1>1, <2>1, <2>2 DEF AddInv, SettledIsRead, WelcomeWaits, WelcomeIsKept, NoteStays
<1>4. CASE A!Leaves
  <2>1. form = "welcome" /\ phase = "leaving" /\ A!Draws(listed, FALSE, FALSE, adding) /\ phase' = A!PhaseOf(listed, FALSE, phase)
    BY <1>4 DEF A!Leaves
  <2>2. OfWelcome = {} /\ phase' \in {"input", "leaving"}
    BY <2>1 DEF AddInv, WelcomeWaits, A!PhaseOf, A!Begins
  <2> QED
    BY <1>1, <2>1, <2>2, RedrawnIdle DEF NoteStays
<1>5. CASE A!OpensDialog \/ A!ClosesDialog
  <2>1. form # "welcome" /\ phase' = "input" /\ \E a : A!Draws(listed, welcoming, back, a)
    BY <1>5 DEF A!OpensDialog, A!ClosesDialog
  <2>2. OfWelcome = {}
    BY <2>1 DEF AddInv, WelcomeWaits
  <2> QED
    BY <1>1, <2>1, <2>2, RedrawnIdle DEF NoteStays
<1>6. CASE A!Removes
  <2>1. /\ phase' = phase /\ form' = form /\ n' = n /\ field' = field /\ previews' = previews
        /\ welcoming' = welcoming /\ back' = back
    BY <1>6 DEF A!Removes, A!page
  <2> QED
    BY <1>1, <2>1 DEF AddInv, SettledIsRead, WelcomeWaits, WelcomeIsKept, NoteStays
<1> QED
  BY <1>2, <1>3, <1>4, <1>5, <1>6

LEMMA AddStep ==
  ASSUME AddInv, A!Next
  PROVE  AddInv' /\ NoteStays
<1>1. CASE A!EntersText \/ A!TypingPauses \/ A!PreviewComes \/ A!SwapEnds \/ A!ChangesKey
  BY <1>1, FieldCases DEF NoteStays
<1>2. CASE A!Submits
  BY <1>2, SubmitsCase
<1>3. CASE A!MainImports \/ A!AddedComes \/ A!BarEnds
  BY <1>3, ImportCases
<1>4. CASE A!RefusedComes
  BY <1>4, RefusedCase
<1>5. CASE A!Hears \/ A!NoteEnds \/ A!Leaves \/ A!OpensDialog \/ A!ClosesDialog \/ A!Removes
  BY <1>5, FormCases
<1> QED
  BY <1>1, <1>2, <1>3, <1>4, <1>5 DEF A!Next

LEMMA AddStart ==
  ASSUME A!Init
  PROVE  AddInv
<1>1. field = A!EmptyField /\ imports = {} /\ phase = A!Begins(listed, back)
  BY DEF A!Init
<1>2. SettledIsRead
  BY <1>1, EmptyFieldFacts DEF SettledIsRead, FieldParts
<1>3. WelcomeWaits /\ WelcomeIsKept
  BY <1>1 DEF WelcomeWaits, WelcomeIsKept, OfWelcome, A!Begins
<1> QED
  BY <1>2, <1>3 DEF AddInv

LEMMA AddSays == AddInv => PreviewIsOfLink
<1>1. ASSUME AddInv, form # "none", ~field.pause, previews = {}
      PROVE  A!Preview(field) = IF field.link = Blank THEN Nothing ELSE field.link
  BY <1>1 DEF A!Preview, AddInv, SettledIsRead
<1> QED
  BY <1>1 DEF PreviewIsOfLink, A!PreviewIsOfLink

----------------------------------------------------------------------------
(* The journal's report *)

AnswerReports == {answers[k].report : k \in ReportAnswers}

LEMMA AnswerGiven ==
  ASSUME IsSeq(answers), NEW a, answers' = Append(answers, a)
  PROVE  /\ IsSeq(answers')
         /\ AnswerReports' \subseteq AnswerReports \cup (IF a.op = "prepareReport" THEN {a.report} ELSE {})
<1>1. /\ IsSeq(answers') /\ DOMAIN answers' = DOMAIN answers \cup {Len(answers) + 1} /\ answers'[Len(answers) + 1] = a
      /\ \A k \in DOMAIN answers : answers'[k] = answers[k]
  BY Appended
<1> QED
  BY <1>1 DEF AnswerReports, ReportAnswers

LEMMA AnswerHeard ==
  ASSUME IsSeq(answers), answers # <<>>, answers' = Tail(answers)
  PROVE  /\ IsSeq(answers') /\ AnswerReports' \subseteq AnswerReports
         /\ Head(answers).op = "prepareReport" => Head(answers).report \in AnswerReports
<1>1. /\ IsSeq(answers') /\ Head(answers) = answers[1] /\ 1 \in DOMAIN answers
      /\ \A k \in DOMAIN answers' : k + 1 \in DOMAIN answers /\ answers'[k] = answers[k + 1]
  BY Shortened
<1> QED
  BY <1>1 DEF AnswerReports, ReportAnswers

LEMMA MadeIs ==
  /\ Made = preparing \cup (IF preparedReport = Nothing THEN {} ELSE {preparedReport}) \cup AnswerReports \cup shown
  /\ Made' = preparing' \cup (IF preparedReport' = Nothing THEN {} ELSE {preparedReport'}) \cup AnswerReports' \cup shown'
  BY DEF Made, AnswerReports

\* The calls that are left are calls that there were, d places further on.
AsksShift(d) ==
    /\ IsSeq(asks')
    /\ \A k \in DOMAIN asks' : k \in Nat /\ k + d \in DOMAIN asks /\ asks'[k] = asks[k + d]

LEMMA AskTaken ==
  ASSUME IsSeq(asks), asks # <<>>, asks' = Tail(asks)
  PROVE  AsksShift(1) /\ 1 \in DOMAIN asks /\ Head(asks) = asks[1]
<1>1. /\ IsSeq(asks') /\ Head(asks) = asks[1] /\ 1 \in DOMAIN asks
      /\ \A k \in DOMAIN asks' : k + 1 \in DOMAIN asks /\ asks'[k] = asks[k + 1]
  BY Shortened
<1>2. DOMAIN asks' = 1 .. Len(asks') /\ Len(asks') \in Nat
  BY <1>1, SeqFacts
<1> QED
  BY <1>1, <1>2 DEF AsksShift

LEMMA AsksStand ==
  ASSUME IsSeq(asks), asks' = asks
  PROVE  AsksShift(0)
<1>1. DOMAIN asks = 1 .. Len(asks) /\ Len(asks) \in Nat
  BY SeqFacts
<1> QED
  BY <1>1 DEF AsksShift

LEMMA NumbersKept ==
  ASSUME OneANumber, reports' = reports, Made' \subseteq Made, NEW d \in {0, 1}, AsksShift(d)
  PROVE  OneANumber'
<1>1. \A k \in ReportAsks' : k \in Nat /\ k + d \in ReportAsks /\ asks'[k].text = asks[k + d].text
  BY DEF ReportAsks, AsksShift
<1>2. \A j, k \in ReportAsks' : asks'[j].text = asks'[k].text => j = k
  <2> SUFFICES ASSUME NEW j \in ReportAsks', NEW k \in ReportAsks', asks'[j].text = asks'[k].text
               PROVE  j = k
    OBVIOUS
  <2>1. j + d = k + d
    BY <1>1 DEF OneANumber
  <2> QED
    BY <1>1, <2>1
<1>3. \A k \in ReportAsks' : asks'[k].text \in Nat /\ asks'[k].text <= reports' /\ \A r \in Made' : r.id # asks'[k].text
  BY <1>1 DEF OneANumber
<1> QED
  BY <1>2, <1>3 DEF OneANumber

LEMMA ReviewedKept ==
  ASSUME Reviewed, shown \subseteq shown', NEW d \in {0, 1}, AsksShift(d),
         dialog'.step = "review" => dialog'.preview \in shown', sending' \subseteq shown', ma7' \subseteq shown'
  PROVE  Reviewed'
  BY DEF Reviewed, AsksShift

\* A call of the page's that is one more.
LEMMA AskAdded ==
  ASSUME IsSeq(asks), NEW c, asks' = Append(asks, c)
  PROVE  /\ IsSeq(asks') /\ Len(asks) + 1 \notin DOMAIN asks
         /\ DOMAIN asks' = DOMAIN asks \cup {Len(asks) + 1} /\ asks'[Len(asks) + 1] = c
         /\ \A k \in DOMAIN asks : asks'[k] = asks[k]
         /\ c.op # "prepareReport" => ReportAsks' = ReportAsks
<1>1. /\ IsSeq(asks') /\ DOMAIN asks' = DOMAIN asks \cup {Len(asks) + 1} /\ asks'[Len(asks) + 1] = c
      /\ Len(asks) + 1 \notin DOMAIN asks
      /\ \A k \in DOMAIN asks : asks'[k] = asks[k]
  BY Appended
<1> QED
  BY <1>1 DEF ReportAsks

\* Nothing of the report moves, but the page asks something else.
LEMMA OtherAsk ==
  ASSUME JournalInv, NEW c, asks' = Append(asks, c), c.op # "prepareReport",
         c.op = "sendReport" => \E r \in shown : r.id = c.id,
         answers' = answers, main' = main, shown' = shown, reports' = reports,
         dialog'.step = "review" => dialog'.preview \in shown, DOMAIN dialog' = {"step", "busy", "preview"}
  PROVE  JournalInv'
<1>1. /\ IsSeq(asks') /\ ReportAsks' = ReportAsks
      /\ DOMAIN asks' = DOMAIN asks \cup {Len(asks) + 1} /\ asks'[Len(asks) + 1] = c
      /\ \A k \in DOMAIN asks : asks'[k] = asks[k]
  BY AskAdded DEF JournalInv, Calls
<1>2. Made' = Made /\ \A k \in ReportAsks' : asks'[k] = asks[k]
  BY <1>1 DEF Made, main, ReportAnswers, ReportAsks
<1>3. OneANumber'
  <2>1. \A k \in ReportAsks' : k \in ReportAsks /\ asks'[k] = asks[k]
    BY <1>1, <1>2
  <2>2. \A j, k \in ReportAsks' : asks'[j].text = asks'[k].text => j = k
    BY <2>1 DEF JournalInv, OneANumber
  <2>3. \A k \in ReportAsks' : asks'[k].text \in Nat /\ asks'[k].text <= reports' /\ \A r \in Made' : r.id # asks'[k].text
    BY <1>2, <2>1 DEF JournalInv, OneANumber
  <2>4. /\ reports' \in Nat /\ \A r \in Made' : r.id \in Nat /\ r.id <= reports'
        /\ \A q, r \in Made' : q.id = r.id => q = r
    BY <1>2 DEF JournalInv, OneANumber
  <2> QED
    BY <2>2, <2>3, <2>4 DEF OneANumber
<1>4. Reviewed'
  BY <1>1 DEF JournalInv, Reviewed, main
<1> QED
  BY <1>1, <1>3, <1>4 DEF JournalInv, Calls

LEMMA PageAsksCases ==
  ASSUME JournalInv, Clear \/ Send
  PROVE  JournalInv'
<1>1. CASE Clear
  <2>1. /\ asks' = Append(asks, [op |-> "clearLogs"]) /\ answers' = answers /\ main' = main /\ shown' = shown
        /\ reports' = reports /\ dialog' = dialog
    BY <1>1 DEF Clear
  <2> QED
    BY <2>1, OtherAsk DEF JournalInv, Reviewed
<1>2. CASE Send
  <2>1. /\ asks' = Append(asks, [op |-> "sendReport", id |-> dialog.preview.id]) /\ answers' = answers /\ main' = main
        /\ shown' = shown /\ reports' = reports /\ dialog.step = "review" /\ dialog' = [dialog EXCEPT !.busy = TRUE]
    BY <1>2 DEF Send, past
  <2>2. dialog.preview \in shown /\ DOMAIN dialog = {"step", "busy", "preview"}
    BY <2>1 DEF JournalInv, Reviewed
  <2>3. DOMAIN dialog' = {"step", "busy", "preview"} /\ dialog'.preview = dialog.preview
    BY <2>1, <2>2
  <2> QED
    BY <2>1, <2>2, <2>3, OtherAsk
<1> QED
  BY <1>1, <1>2

LEMMA ReviewCase ==
  ASSUME JournalInv, Review
  PROVE  JournalInv'
<1>1. /\ reports' = reports + 1 /\ dialog.step = "form" /\ dialog' = [dialog EXCEPT !.busy = TRUE]
      /\ answers' = answers /\ main' = main /\ shown' = shown
  BY DEF Review, past
<1>2. PICK c : asks' = Append(asks, c) /\ c.op = "prepareReport" /\ c.text = reports + 1
  BY DEF Review
<1>3. /\ IsSeq(asks') /\ DOMAIN asks' = DOMAIN asks \cup {Len(asks) + 1} /\ asks'[Len(asks) + 1] = c
      /\ \A k \in DOMAIN asks : asks'[k] = asks[k]
  BY <1>2, AskAdded DEF JournalInv, Calls
<1>4. Made' = Made /\ reports \in Nat
  BY <1>1 DEF Made, main, ReportAnswers, JournalInv, OneANumber
<1>5. \A k \in ReportAsks' : (k = Len(asks) + 1 /\ asks'[k].text = reports + 1) \/ (k \in ReportAsks /\ asks'[k] = asks[k])
  BY <1>2, <1>3 DEF ReportAsks
<1>6. \A k \in ReportAsks : asks[k].text \in Nat /\ asks[k].text <= reports
  BY DEF JournalInv, OneANumber
<1>7. ASSUME NEW j \in ReportAsks', NEW k \in ReportAsks', asks'[j].text = asks'[k].text
      PROVE  j = k
  <2>1. CASE j \in ReportAsks /\ k \in ReportAsks /\ asks'[j] = asks[j] /\ asks'[k] = asks[k]
    BY <1>7, <2>1 DEF JournalInv, OneANumber
  <2>2. CASE j = Len(asks) + 1 /\ k = Len(asks) + 1
    BY <2>2
  <2>3. CASE j = Len(asks) + 1 /\ asks'[j].text = reports + 1 /\ k \in ReportAsks /\ asks'[k] = asks[k]
    BY <1>4, <1>6, <1>7, <2>3
  <2>4. CASE k = Len(asks) + 1 /\ asks'[k].text = reports + 1 /\ j \in ReportAsks /\ asks'[j] = asks[j]
    BY <1>4, <1>6, <1>7, <2>4
  <2> QED
    BY <1>5, <2>1, <2>2, <2>3, <2>4
<1>8. \A r \in Made : r.id \in Nat /\ r.id <= reports
  BY DEF JournalInv, OneANumber
<1>9. \A k \in ReportAsks' : asks'[k].text \in Nat /\ asks'[k].text <= reports' /\ \A r \in Made' : r.id # asks'[k].text
  <2> SUFFICES ASSUME NEW k \in ReportAsks'
               PROVE  asks'[k].text \in Nat /\ asks'[k].text <= reports' /\ \A r \in Made' : r.id # asks'[k].text
    OBVIOUS
  <2>1. CASE k = Len(asks) + 1 /\ asks'[k].text = reports + 1
    BY <1>1, <1>4, <1>8, <2>1
  <2>2. CASE k \in ReportAsks /\ asks'[k] = asks[k]
    BY <1>1, <1>4, <1>6, <2>2 DEF JournalInv, OneANumber
  <2> QED
    BY <1>5, <2>1, <2>2
<1>10. \A r \in Made' : r.id \in Nat /\ r.id <= reports'
  BY <1>1, <1>4, <1>8
<1>11. OneANumber'
  BY <1>1, <1>4, <1>7, <1>9, <1>10 DEF JournalInv, OneANumber
<1>12. Reviewed' /\ DOMAIN dialog' = {"step", "busy", "preview"}
  <2>1. DOMAIN dialog' = {"step", "busy", "preview"} /\ dialog'.step = "form"
    BY <1>1 DEF JournalInv
  <2> QED
    BY <1>1, <1>2, <1>3, <2>1 DEF JournalInv, Reviewed, main
<1> QED
  BY <1>1, <1>3, <1>11, <1>12 DEF JournalInv, Calls

LEMMA StillCases ==
  ASSUME JournalInv, AddMany \/ HalfAnHour \/ Hears \/ OpenReport \/ CloseReport \/ Back
  PROVE  JournalInv'
<1>1. /\ asks' = asks /\ answers' = answers /\ main' = main /\ shown' = shown /\ reports' = reports
      /\ dialog' = dialog \/ dialog' = NoDialog \/ dialog' = [NoDialog EXCEPT !.step = "form"]
  BY DEF AddMany, HalfAnHour, Hears, OpenReport, CloseReport, Back, past
<1>2. DOMAIN dialog' = {"step", "busy", "preview"} /\ (dialog'.step = "review" => dialog'.preview \in shown')
  BY <1>1 DEF JournalInv, Reviewed, NoDialog
<1>3. Made' = Made
  BY <1>1 DEF Made, main, ReportAnswers
<1>4. AsksShift(0)
  BY <1>1, AsksStand DEF JournalInv, Calls
<1>5. OneANumber'
  BY <1>1, <1>3, <1>4, NumbersKept DEF JournalInv
<1>6. Reviewed'
  BY <1>1, <1>2, <1>4, ReviewedKept DEF JournalInv, Reviewed, main
<1> QED
  BY <1>1, <1>2, <1>5, <1>6 DEF JournalInv, Calls

LEMMA JournalAnswered ==
  ASSUME JournalInv, Answered
  PROVE  JournalInv'
<1> DEFINE a == Head(answers)
<1>1. /\ answers # <<>> /\ answers' = Tail(answers) /\ asks' = asks /\ main' = main /\ reports' = reports
      /\ dialog' = IF a.op = "prepareReport" THEN [step |-> "review", busy |-> FALSE, preview |-> a.report]
                   ELSE IF a.op = "sendReport" THEN [NoDialog EXCEPT !.step = "sent"]
                   ELSE IF a.op = "error" THEN [dialog EXCEPT !.busy = FALSE] ELSE dialog
      /\ shown' = IF a.op = "prepareReport" THEN shown \cup {a.report} ELSE shown
  BY DEF Answered
<1>2. /\ IsSeq(answers') /\ AnswerReports' \subseteq AnswerReports
      /\ a.op = "prepareReport" => a.report \in AnswerReports
  BY <1>1, AnswerHeard DEF JournalInv, Calls
<1>3. shown' \subseteq shown \cup AnswerReports /\ shown \subseteq shown'
  BY <1>1, <1>2
<1>4. Made' \subseteq Made
  BY <1>1, <1>2, <1>3, MadeIs DEF main
<1>5. AsksShift(0)
  BY <1>1, AsksStand DEF JournalInv, Calls
<1>6. OneANumber'
  BY <1>1, <1>4, <1>5, NumbersKept DEF JournalInv
<1>7. DOMAIN dialog' = {"step", "busy", "preview"} /\ (dialog'.step = "review" => dialog'.preview \in shown')
  <2>1. CASE a.op = "prepareReport"
    BY <1>1, <2>1
  <2>2. CASE a.op # "prepareReport"
    <3>1. DOMAIN dialog = {"step", "busy", "preview"} /\ (dialog.step = "review" => dialog.preview \in shown)
      BY DEF JournalInv, Reviewed
    <3> HIDE DEF a
    <3> QED
      BY <1>1, <2>2, <3>1 DEF NoDialog
  <2> QED
    BY <2>1, <2>2
<1>8. sending' \subseteq shown' /\ ma7' \subseteq shown'
  BY <1>1, <1>3 DEF JournalInv, Reviewed, main
<1>9. Reviewed'
  BY <1>3, <1>5, <1>7, <1>8, ReviewedKept DEF JournalInv
<1> QED
  BY <1>1, <1>2, <1>6, <1>7, <1>9 DEF JournalInv, Calls

\* The main process has done something and says so, or not; nothing new was made.
LEMMA MainDone ==
  ASSUME JournalInv, NEW d \in {0, 1}, AsksShift(d), IsSeq(answers'), Made' \subseteq Made,
         reports' = reports, dialog' = dialog, shown' = shown, sending' \subseteq shown, ma7' \subseteq shown
  PROVE  JournalInv'
<1>1. OneANumber'
  BY NumbersKept DEF JournalInv
<1>2. Reviewed'
  BY ReviewedKept DEF JournalInv, Reviewed
<1>3. IsSeq(asks')
  BY DEF AsksShift
<1> QED
  BY <1>1, <1>2, <1>3 DEF JournalInv, Calls

LEMMA LogCases ==
  ASSUME JournalInv, GetLogs \/ ClearLogs
  PROVE  JournalInv'
<1>1. /\ asks # <<>> /\ asks' = Tail(asks) /\ main' = main /\ shown' = shown /\ reports' = reports /\ dialog' = dialog
      /\ \E a : answers' = Append(answers, a) /\ a.op # "prepareReport"
  BY DEF GetLogs, ClearLogs, past
<1>2. AsksShift(1)
  BY <1>1, AskTaken DEF JournalInv, Calls
<1>3. IsSeq(answers') /\ AnswerReports' \subseteq AnswerReports
  BY <1>1, AnswerGiven DEF JournalInv, Calls
<1>4. Made' \subseteq Made
  BY <1>1, <1>3, MadeIs DEF main
<1> QED
  BY <1>1, <1>2, <1>3, <1>4, MainDone DEF JournalInv, Reviewed, main

LEMMA PrepareCase ==
  ASSUME JournalInv, PrepareReport
  PROVE  JournalInv'
<1> DEFINE q == Head(asks)
           new == buildReport(q)
<1>1. /\ asks # <<>> /\ q.op = "prepareReport" /\ asks' = Tail(asks) /\ preparing' = preparing \cup {new}
      /\ answers' = answers /\ dialog' = dialog /\ preparedReport' = preparedReport /\ sending' = sending
      /\ ma7' = ma7 /\ shown' = shown /\ reports' = reports
  BY DEF PrepareReport, past
<1>2. AsksShift(1) /\ 1 \in DOMAIN asks /\ q = asks[1]
  BY <1>1, AskTaken DEF JournalInv, Calls
<1>3. new.id = q.text
  BY DEF buildReport
<1> HIDE DEF q, new
<1>4. Made' = Made \cup {new}
  BY <1>1 DEF Made, ReportAnswers
<1>5. 1 \in ReportAsks
  BY <1>1, <1>2 DEF ReportAsks
<1>6. q.text \in Nat /\ q.text <= reports /\ \A r \in Made : r.id # q.text
  BY <1>2, <1>5 DEF JournalInv, OneANumber
<1>7. \A k \in ReportAsks' : k \in Nat /\ k + 1 \in ReportAsks /\ asks'[k].text = asks[k + 1].text /\ k + 1 # 1
  <2>1. \A k \in DOMAIN asks' : k \in Nat /\ k # 0
    BY <1>2, SeqFacts DEF AsksShift
  <2> QED
    BY <1>2, <2>1 DEF ReportAsks, AsksShift
<1>8. \A j, k \in ReportAsks' : asks'[j].text = asks'[k].text => j = k
  <2> SUFFICES ASSUME NEW j \in ReportAsks', NEW k \in ReportAsks', asks'[j].text = asks'[k].text
               PROVE  j = k
    OBVIOUS
  <2>1. j + 1 = k + 1
    BY <1>7 DEF JournalInv, OneANumber
  <2> QED
    BY <1>7, <2>1
<1>9. \A k \in ReportAsks' : asks'[k].text # q.text
  BY <1>2, <1>5, <1>7 DEF JournalInv, OneANumber
<1>10. \A k \in ReportAsks' : asks'[k].text \in Nat /\ asks'[k].text <= reports' /\ \A r \in Made' : r.id # asks'[k].text
  <2> SUFFICES ASSUME NEW k \in ReportAsks'
               PROVE  asks'[k].text \in Nat /\ asks'[k].text <= reports' /\ \A r \in Made' : r.id # asks'[k].text
    OBVIOUS
  <2>1. k + 1 \in ReportAsks /\ asks'[k].text = asks[k + 1].text
    BY <1>7
  <2>2. asks[k + 1].text \in Nat /\ asks[k + 1].text <= reports /\ \A r \in Made : r.id # asks[k + 1].text
    BY <2>1 DEF JournalInv, OneANumber
  <2> QED
    BY <1>1, <1>3, <1>4, <1>9, <2>1, <2>2
<1>11. /\ \A r \in Made' : r.id \in Nat /\ r.id <= reports'
       /\ \A x, y \in Made' : x.id = y.id => x = y
  BY <1>1, <1>3, <1>4, <1>6 DEF JournalInv, OneANumber
<1>12. OneANumber'
  BY <1>1, <1>8, <1>10, <1>11 DEF JournalInv, OneANumber
<1>13. Reviewed'
  BY <1>1, <1>2, ReviewedKept DEF JournalInv, Reviewed
<1> QED
  BY <1>1, <1>2, <1>12, <1>13 DEF JournalInv, Calls, AsksShift

LEMMA PreparedCase ==
  ASSUME JournalInv, Prepared
  PROVE  JournalInv'
<1>1. PICK r \in preparing :
         /\ preparing' = preparing \ {r}
         /\ \/ preparedReport' = r /\ answers' = Append(answers, [op |-> "prepareReport", report |-> r])
            \/ preparedReport' = preparedReport /\ answers' = Append(answers, Error)
         /\ asks' = asks /\ dialog' = dialog /\ sending' = sending /\ ma7' = ma7 /\ shown' = shown /\ reports' = reports
  BY DEF Prepared, past
<1>2. Error.op # "prepareReport"
  BY DEF Error
<1>3. /\ IsSeq(answers')
      /\ AnswerReports' \subseteq AnswerReports \cup {r}
  BY <1>1, <1>2, AnswerGiven DEF JournalInv, Calls
<1>4. Made' \subseteq Made
  BY <1>1, <1>3, MadeIs
<1>5. AsksShift(0)
  BY <1>1, AsksStand DEF JournalInv, Calls
<1> QED
  BY <1>1, <1>3, <1>4, <1>5, MainDone DEF JournalInv, Reviewed

LEMMA SendsCase ==
  ASSUME JournalInv, SendReport
  PROVE  JournalInv'
<1> DEFINE q == Head(asks)
<1>1. /\ asks # <<>> /\ q.op = "sendReport" /\ asks' = Tail(asks) /\ preparing' = preparing
      /\ IF preparedReport # Nothing /\ preparedReport.id = q.id
         THEN sending' = sending \cup {preparedReport} /\ answers' = answers
         ELSE answers' = Append(answers, Error) /\ sending' = sending
      /\ dialog' = dialog /\ preparedReport' = preparedReport /\ ma7' = ma7 /\ shown' = shown /\ reports' = reports
  BY DEF SendReport, past, Goes
<1>2. AsksShift(1) /\ 1 \in DOMAIN asks /\ q = asks[1]
  BY <1>1, AskTaken DEF JournalInv, Calls
<1> HIDE DEF q
<1>3. Error.op # "prepareReport"
  BY DEF Error
<1>4. IsSeq(answers') /\ AnswerReports' \subseteq AnswerReports
  <2>1. CASE answers' = answers
    BY <2>1 DEF JournalInv, Calls, AnswerReports, ReportAnswers
  <2>2. CASE answers' = Append(answers, Error)
    BY <1>3, <2>2, AnswerGiven DEF JournalInv, Calls
  <2> QED
    BY <1>1, <2>1, <2>2
<1>5. Made' \subseteq Made
  BY <1>1, <1>4, MadeIs
<1>6. PICK r \in shown : r.id = q.id
  BY <1>1, <1>2 DEF JournalInv, Reviewed
<1>7. preparedReport # Nothing /\ preparedReport.id = q.id => preparedReport \in shown
  <2>1. r \in Made
    BY MadeIs
  <2>2. preparedReport # Nothing => preparedReport \in Made
    BY MadeIs
  <2>3. \A x, y \in Made : x.id = y.id => x = y
    BY DEF JournalInv, OneANumber
  <2> QED
    BY <1>6, <2>1, <2>2, <2>3
<1>8. sending' \subseteq shown
  BY <1>1, <1>7 DEF JournalInv, Reviewed
<1> QED
  BY <1>1, <1>2, <1>4, <1>5, <1>8, MainDone DEF JournalInv, Reviewed

LEMMA SentCase ==
  ASSUME JournalInv, Sent
  PROVE  JournalInv'
<1>1. PICK r \in sending :
         /\ sending' = sending \ {r} /\ ma7' \subseteq ma7 \cup {r}
         /\ answers' = Append(answers, [op |-> "sendReport"]) \/ answers' = Append(answers, Error)
         /\ preparedReport' \in {Nothing, preparedReport}
         /\ asks' = asks /\ dialog' = dialog /\ preparing' = preparing /\ shown' = shown /\ reports' = reports
  BY DEF Sent, past
<1>2. Error.op # "prepareReport"
  BY DEF Error
<1>3. IsSeq(answers') /\ AnswerReports' \subseteq AnswerReports
  BY <1>1, <1>2, AnswerGiven DEF JournalInv, Calls
<1>4. Made' \subseteq Made
  BY <1>1, <1>3, MadeIs
<1>5. AsksShift(0)
  BY <1>1, AsksStand DEF JournalInv, Calls
<1>6. sending' \subseteq shown /\ ma7' \subseteq shown
  BY <1>1 DEF JournalInv, Reviewed
<1> QED
  BY <1>1, <1>3, <1>4, <1>5, <1>6, MainDone

LEMMA JournalStep ==
  ASSUME JournalInv, Next
  PROVE  JournalInv'
<1>1. CASE AddMany \/ HalfAnHour \/ Hears \/ OpenReport \/ CloseReport \/ Back
  BY <1>1, StillCases
<1>2. CASE Clear \/ Send
  BY <1>2, PageAsksCases
<1>3. CASE Review
  BY <1>3, ReviewCase
<1>4. CASE Answered
  BY <1>4, JournalAnswered
<1>5. CASE GetLogs \/ ClearLogs
  BY <1>5, LogCases
<1>6. CASE PrepareReport \/ Prepared
  BY <1>6, PrepareCase, PreparedCase
<1>7. CASE SendReport \/ Sent
  BY <1>7, SendsCase, SentCase
<1> QED
  BY <1>1, <1>2, <1>3, <1>4, <1>5, <1>6, <1>7 DEF Next

LEMMA JournalStart ==
  ASSUME Init
  PROVE  JournalInv
<1>1. /\ asks = <<[op |-> "getLogs"]>> /\ answers = <<>> /\ dialog = NoDialog /\ preparing = {}
      /\ preparedReport = Nothing /\ sending = {} /\ ma7 = {} /\ shown = {} /\ reports = 0
  BY DEF Init
<1>2. asks \in Seq({[op |-> "getLogs"]}) /\ DOMAIN asks = 1 .. 1 /\ asks[1] = [op |-> "getLogs"]
  BY <1>1
<1>3. IsSeq(asks) /\ ReportAsks = {} /\ \A k \in DOMAIN asks : asks[k].op # "sendReport"
  BY <1>2 DEF IsSeq, ReportAsks
<1>4. IsSeq(answers) /\ ReportAnswers = {}
  BY <1>1, NoneIsSeq DEF ReportAnswers
<1>5. Made = {}
  BY <1>1, <1>4 DEF Made
<1>6. OneANumber
  BY <1>1, <1>3, <1>5 DEF OneANumber
<1>7. Reviewed /\ DOMAIN dialog = {"step", "busy", "preview"}
  BY <1>1, <1>3 DEF Reviewed, NoDialog
<1> QED
  BY <1>3, <1>4, <1>6, <1>7 DEF JournalInv, Calls

----------------------------------------------------------------------------
(* The window *)

WindowInv == JournalInv /\ AddInv /\ PageInv

\* The invariants of the parts hold throughout.
THEOREM WindowInvariance == WindowSpec => []WindowInv
<1>1. WindowInit => WindowInv
  BY JournalStart, AddStart, PageStart DEF WindowInit, WindowInv
<1>2. WindowInv /\ [WindowNext]_<<vars, engine, adds, main_, part>> => WindowInv'
  <2> SUFFICES ASSUME WindowInv, [WindowNext]_<<vars, engine, adds, main_, part>>
               PROVE  WindowInv'
    OBVIOUS
  <2>1. vars' = vars => JournalInv'
    BY DEF vars, logs, main, past, WindowInv, JournalInv, Calls, OneANumber, Reviewed, Made, ReportAsks, ReportAnswers
  <2>2. adds' = adds => AddInv'
    BY DEF adds, WindowInv, AddInv, SettledIsRead, WelcomeWaits, WelcomeIsKept, OfWelcome
  <2>3. main_' = main_ => PageInv'
    BY DEF main_, WindowInv, PageInv, NewestComes, LastIsSaved, SettingsAnswers, SettingsCalls
  <2>4. CASE Next /\ UNCHANGED <<engine, adds, main_, part>>
    BY <2>2, <2>3, <2>4, JournalStep DEF WindowInv
  <2>5. CASE D!Next /\ UNCHANGED <<vars, adds, main_, part>>
    BY <2>1, <2>2, <2>3, <2>5 DEF WindowInv
  <2>6. CASE A!Next /\ UNCHANGED <<vars, engine, main_, part>>
    BY <2>1, <2>3, <2>6, AddStep DEF WindowInv
  <2>7. CASE P!Next /\ UNCHANGED <<vars, engine, adds, part>>
    BY <2>1, <2>2, <2>7, PageStep DEF WindowInv
  <2>8. CASE UNCHANGED <<vars, engine, adds, main_, part>>
    BY <2>1, <2>2, <2>3, <2>8 DEF WindowInv
  <2> QED
    BY <2>4, <2>5, <2>6, <2>7, <2>8 DEF WindowNext
<1> QED
  BY <1>1, <1>2, PTL DEF WindowSpec

\* MA7 is sent no report but the one that the person looked over, however often «Далее» and «Назад»
\* were pressed while others were still being made.
THEOREM SendsWhatWasSeen == WindowSpec => []SentIsReviewed
<1>1. WindowInv => SentIsReviewed
  BY DEF WindowInv, JournalInv, Reviewed, SentIsReviewed
<1> QED
  BY <1>1, WindowInvariance, PTL

\* What is said of a key is said of the one in the field.
THEOREM PreviewsTheLink == WindowSpec => []PreviewIsOfLink
<1>1. WindowInv => PreviewIsOfLink
  BY AddSays DEF WindowInv
<1> QED
  BY <1>1, WindowInvariance, PTL

\* The first-run screen that adds a server goes only after its note.
THEOREM NoteSeen == WindowSpec => NoteIsSeen
<1>1. WindowInv /\ [WindowNext]_<<vars, engine, adds, main_, part>> =>
        [form = "welcome" /\ phase \in {"saving", "done"} /\ form' # "welcome" => \E i \in imports : i.at = "refused"]_(A!vars)
  <2> SUFFICES ASSUME WindowInv, [WindowNext]_<<vars, engine, adds, main_, part>>, A!vars' # A!vars
               PROVE  NoteStays
    BY DEF NoteStays
  <2>1. A!Next
    BY DEF WindowNext, adds, A!vars, A!page
  <2> QED
    BY <2>1, AddStep DEF WindowInv
<1> QED
  BY <1>1, WindowInvariance, PTL DEF WindowSpec, NoteIsSeen, A!NoteIsSeen

\* A quiet page shows what the main process has.
THEOREM PageAgreement == WindowSpec => []PageAgrees
<1>1. WindowInv => PageAgrees
  BY PageSays DEF WindowInv
<1> QED
  BY <1>1, WindowInvariance, PTL

=============================================================================
