--------------------------- MODULE AccountProofs ---------------------------
(* What holds of an account in the window for any devices, logins and       *)
(* notices, and any number of requests, of those that fail too.             *)
(*                                                                         *)
(* A payment: only an approval adds to the account, and a request sent      *)
(* after an answer was given makes that answer late.                        *)
(*                                                                         *)
(* A closed notice: MA7 has sent it since it was closed, so an answer that  *)
(* does not have it would have to be older than the list it was closed in,  *)
(* and answers come in the order they were asked for.                       *)
EXTENDS MCAccount, TLAPS

------------------------------------------------------------------------------
(* The notices *)

\* The rounds ask one login at a time.
RoundTyped ==
    /\ DOMAIN round = {"on", "left", "login", "got", "changed"}
    /\ accounts \subseteq Logins /\ round.left \subseteq Logins
    /\ round.login = Nothing => round.got = Nothing
    /\ round.login # Nothing => round.login \in Logins

\* What MA7 withdrew it does not send, and what it said once it sends or has withdrawn.
SaidByMA7(l, i) == i \in sent[l] \/ <<l, i>> \in withdrawn
Heard(l) == IF heard[l] = Nothing THEN {} ELSE heard[l]
HeardWasSaid ==
    /\ DOMAIN sent = Logins /\ DOMAIN heard = Logins
    /\ \A n \in N!Notices \cap withdrawn : n[2] \notin sent[n[1]]
    /\ \A l \in Logins : \A i \in Heard(l) : SaidByMA7(l, i)

\* The answer on its way is newer than the list it replaces.
AnswerIsNewer ==
    round.got # Nothing => \A i \in Heard(round.login) : i \in round.got \/ <<round.login, i>> \in withdrawn

AnswerWasSaid == round.got # Nothing => \A i \in round.got : SaidByMA7(round.login, i)

\* Closed, and sent by MA7 ever since: it is remembered, and the answer on its way has it.
ClosedIsRemembered ==
    /\ closed \subseteq N!Notices \cap dismissed
    /\ \A n \in closed : n[2] \in sent[n[1]]
    /\ round.got # Nothing => \A n \in closed : n[1] = round.login => n[2] \in round.got

\* The page asks once it is there; an answer that no push has overtaken leaves out what is closed.
PageInv ==
    /\ ClosedStaysClosed
    /\ DOMAIN fetch = {"at", "list", "pushed"}
    /\ fetch.at = "nopage" => window = {}
    /\ fetch.at = "answered" /\ ~fetch.pushed => closed \cap fetch.list = {}

NoticesInv == RoundTyped /\ HeardWasSaid /\ AnswerIsNewer /\ AnswerWasSaid /\ ClosedIsRemembered /\ PageInv

------------------------------------------------------------------------------
(* The number of devices *)

\* A pressed button keeps the others and the prices away until its request is over: the sum it
\* named is the one it still shows.
KeysInv ==
    /\ DOMAIN call = {"is", "n", "sum", "rest", "quote", "at"}
    /\ call.at = "count" => call.is \in {"buy", "reduce"}
    /\ call.at \in {"unbind", "unbound"} => call.is = "reduce"
    /\ call.at \in {"topup", "sent"} => call.is = "topup"
    /\ call.is = "none" => call.at = "none"
    /\ call.is # "none" => busy
    /\ call.is = "reduce" => call.sum = 0
    /\ call.is = "buy" => stage = "pick" /\ pricing = Nothing /\ call.sum = K!Sum(call.n)
    /\ ChargedAsPressed

CallParts == {"is", "n", "sum", "rest", "quote", "at"}

\* The request is the same, at v.
CallAt(v) == /\ DOMAIN call' = CallParts /\ call'.at = v
             /\ call'.is = call.is /\ call'.sum = call.sum /\ call'.n = call.n
LEMMA CallIsAt ==
  ASSUME KeysInv, NEW v, call' = [call EXCEPT !.at = v] \/ \E q : call' = [call EXCEPT !.at = v, !.quote = q]
  PROVE  CallAt(v)
  BY DEF CallAt, CallParts, KeysInv

LEMMA NoCallFacts ==
  /\ DOMAIN K!NoCall = CallParts /\ K!NoCall.is = "none" /\ K!NoCall.at = "none" /\ K!NoCall.sum = 0
  BY DEF K!NoCall, CallParts

\* What KeysInv speaks of.
CallStays == call' = call /\ busy' = busy /\ charged' = charged
ButtonStays == stage' = stage /\ table' = table /\ pricing' = pricing

LEMMA AmountStays ==
  ASSUME NEW n, table' = table
  PROVE  K!Sum(n)' = K!Sum(n)
  BY DEF K!Sum

LEMMA KeysStay ==
  ASSUME KeysInv, CallStays, ButtonStays
  PROVE  KeysInv'
  BY DEF KeysInv, CallStays, ButtonStays, ChargedAsPressed, K!ChargedAsPressed, K!Sum

\* Nothing is pressed: the rest of the dialog may change.
LEMMA NothingPressed ==
  ASSUME KeysInv, CallStays, call.is # "buy"
  PROVE  KeysInv'
  BY DEF KeysInv, CallStays, ChargedAsPressed, K!ChargedAsPressed

\* A request is over.
LEMMA CallOver ==
  ASSUME KeysInv, DOMAIN call' = CallParts, call'.is = "none", call'.at = "none", charged' = charged
  PROVE  KeysInv'
  BY DEF KeysInv, CallParts, ChargedAsPressed, K!ChargedAsPressed

\* A request goes on, and takes no money.
LEMMA CallGoesOn ==
  ASSUME KeysInv, NEW v, CallAt(v),
         \/ v \in {"quoted", "conflict", "error", "ok"}
         \/ call.is = "reduce" /\ v \in {"count", "unbind", "unbound"}
         \/ call.is = "topup" /\ v = "sent",
         call.is # "none",
         busy' = busy, ButtonStays, charged' = charged
  PROVE  KeysInv'
<1>2. call.is = "buy" => K!Sum(call.n)' = K!Sum(call.n)
  BY DEF CallAt, ButtonStays, K!Sum
<1> QED
  BY <1>2 DEF CallAt, KeysInv, CallParts, ButtonStays, ChargedAsPressed, K!ChargedAsPressed

LEMMA PressesCase ==
  ASSUME KeysInv, K!Buys \/ K!Reduces \/ K!SendsTopup
  PROVE  KeysInv'
<1>1. CASE K!Buys
  <2>1. /\ call' = [is |-> "buy", n |-> count, sum |-> K!Sum(count), rest |-> {}, quote |-> Nothing, at |-> "count"]
        /\ busy' /\ stage' = "pick" /\ table' = table /\ pricing' = Nothing /\ charged' = charged
    BY <1>1 DEF K!Buys, K!Ready, K!loading, K!Presses, K!NoCall, K!dialog
  <2>2. K!Sum(count)' = K!Sum(count')
    BY <2>1 DEF K!Sum
  <2>3. count' = count
    BY <1>1 DEF K!Buys, K!dialog
  <2> QED
    BY <2>1, <2>2, <2>3 DEF KeysInv, ChargedAsPressed, K!ChargedAsPressed, K!Sum
<1>2. CASE K!Reduces
  <2>1. /\ call' = [is |-> "reduce", n |-> count, sum |-> 0, rest |-> picked, quote |-> Nothing,
                    at |-> IF picked = {} THEN "count" ELSE "unbind"]
        /\ busy' /\ charged' = charged
    BY <1>2 DEF K!Reduces, K!Presses, K!NoCall
  <2> QED
    BY <2>1 DEF KeysInv, ChargedAsPressed, K!ChargedAsPressed
<1>3. CASE K!SendsTopup
  <2>1. /\ call' = [is |-> "topup", n |-> count, sum |-> K!Shortfall(count), rest |-> {}, quote |-> Nothing, at |-> "topup"]
        /\ busy' /\ charged' = charged
    BY <1>3 DEF K!SendsTopup, K!Presses, K!NoCall
  <2> QED
    BY <2>1 DEF KeysInv, ChargedAsPressed, K!ChargedAsPressed
<1> QED
  BY <1>1, <1>2, <1>3

LEMMA UnbindsCase ==
  ASSUME KeysInv, K!Unbinds \/ K!Unbound
  PROVE  KeysInv'
<1>1. CASE K!Unbinds
  <2>1. /\ call.is = "reduce" /\ call.at = "unbind" /\ busy' = busy /\ charged' = charged /\ ButtonStays
        /\ \E d \in call.rest : \/ call' = [call EXCEPT !.rest = @ \ {d}, !.at = "unbound"]
                                \/ call' = [call EXCEPT !.at = "error"]
    BY <1>1 DEF K!Unbinds, KeysInv, ButtonStays, K!dialog
  <2>2. CASE call' = [call EXCEPT !.at = "error"]
    BY <2>1, <2>2, CallGoesOn, CallIsAt
  <2>3. ASSUME NEW d, call' = [call EXCEPT !.rest = @ \ {d}, !.at = "unbound"]
        PROVE  KeysInv'
    <3>1. DOMAIN call' = CallParts /\ call'.at = "unbound" /\ call'.is = call.is /\ call'.sum = call.sum
      BY <2>3 DEF KeysInv, CallParts
    <3> QED
      BY <2>1, <3>1 DEF KeysInv, CallParts, ChargedAsPressed, K!ChargedAsPressed
  <2> QED
    BY <2>1, <2>2, <2>3
<1>2. CASE K!Unbound
  <2>1. /\ call.is = "reduce" /\ busy' = busy /\ charged' = charged /\ ButtonStays
        /\ \E v \in {"count", "unbind"} : call' = [call EXCEPT !.at = v]
    BY <1>2 DEF K!Unbound, KeysInv, ButtonStays, K!dialog
  <2> QED
    BY <2>1, CallGoesOn, CallIsAt
<1> QED
  BY <1>1, <1>2

\* MA7 takes the sum that was named, or none.
LEMMA SetsCountCase ==
  ASSUME KeysInv, K!SetsCount
  PROVE  KeysInv'
<1>1. /\ call.at = "count" /\ call.is \in {"buy", "reduce"} /\ busy' = busy /\ ButtonStays
  BY DEF K!SetsCount, KeysInv, ButtonStays, K!dialog
<1>2. \E v \in {"quoted", "error", "ok"} : CallAt(v)
  <2>1. \E v \in {"quoted", "error", "ok"} :
           call' = [call EXCEPT !.at = v] \/ \E q : call' = [call EXCEPT !.at = v, !.quote = q]
    BY DEF K!SetsCount
  <2> QED
    BY <2>1, CallIsAt
<1>3. CASE charged' = charged
  BY <1>1, <1>2, <1>3, CallGoesOn
<1>4. CASE charged' # charged
  <2> DEFINE cost == K!Amount(call.n)
  <2>1. /\ cost = call.sum /\ cost > 0
        /\ charged' = charged \cup {[sum |-> cost, press |-> call.is, shown |-> K!Sum(call.n)]}
    BY <1>4 DEF K!SetsCount
  <2> HIDE DEF cost
  <2>2. call.is = "buy" /\ call.sum = K!Sum(call.n)
    BY <1>1, <2>1 DEF KeysInv
  <2>3. ChargedAsPressed'
    BY <2>1, <2>2 DEF KeysInv, ChargedAsPressed, K!ChargedAsPressed
  <2>5. PICK v \in {"quoted", "error", "ok"} : CallAt(v)
    BY <1>2
  <2>6. K!Sum(call.n)' = K!Sum(call.n)
    BY <1>1, <2>5 DEF CallAt, ButtonStays, K!Sum
  <2> QED
    BY <1>1, <2>2, <2>3, <2>5, <2>6 DEF CallAt, KeysInv, CallParts, ButtonStays
<1> QED
  BY <1>3, <1>4

LEMMA EndsCase ==
  ASSUME KeysInv, K!Done \/ K!Quoted \/ K!Broken \/ K!Waits \/ K!Approves
  PROVE  KeysInv'
<1>1. charged' = charged /\ (call' = K!NoCall \/ call' = [K!NoCall EXCEPT !.sum = call.sum])
  BY DEF K!Done, K!Quoted, K!Broken, K!Waits, K!Approves
<1>2. DOMAIN call' = CallParts /\ call'.is = "none" /\ call'.at = "none"
  BY <1>1 DEF K!NoCall, CallParts
<1> QED
  BY <1>1, <1>2, CallOver

LEMMA KeysNext ==
  ASSUME KeysInv, [K!Next]_(K!vars)
  PROVE  KeysInv'
<1>1. CASE K!Others
  <2>1. CallStays /\ ButtonStays
    BY <1>1 DEF K!Others, CallStays, ButtonStays, K!dialog, K!Moved
  <2> QED
    BY <2>1, KeysStay
<1>2. CASE K!Steps
  <2>1. CallStays /\ ButtonStays
    BY <1>2 DEF K!Steps, CallStays, ButtonStays, K!dialog, K!Moved
  <2> QED
    BY <2>1, KeysStay
<1>3. CASE K!Lists
  <2>1. CallStays /\ ButtonStays
    BY <1>3 DEF K!Lists, CallStays, ButtonStays, K!dialog, K!Moved
  <2> QED
    BY <2>1, KeysStay
<1>4. CASE K!ServerLists
  <2>1. CallStays /\ ButtonStays
    BY <1>4 DEF K!ServerLists, CallStays, ButtonStays, K!dialog, K!Moved
  <2> QED
    BY <2>1, KeysStay
<1>5. CASE K!ListComes
  <2>1. CallStays /\ ButtonStays
    BY <1>5 DEF K!ListComes, CallStays, ButtonStays, K!dialog, K!Moved
  <2> QED
    BY <2>1, KeysStay
<1>6. CASE K!Ticks
  <2>1. CallStays /\ ButtonStays
    BY <1>6 DEF K!Ticks, CallStays, ButtonStays, K!dialog, K!Moved
  <2> QED
    BY <2>1, KeysStay
<1>7. CASE K!PollsBalance
  <2>1. CallStays /\ ButtonStays
    BY <1>7 DEF K!PollsBalance, CallStays, ButtonStays, K!dialog, K!Moved
  <2> QED
    BY <2>1, KeysStay
<1>8. CASE K!MA7Prices
  <2>1. CallStays /\ call.is # "buy"
    BY <1>8, MarksAssumption DEF K!MA7Prices, CallStays, KeysInv, K!dialog, K!loading, K!Ready, K!Prices
  <2> QED
    BY <2>1, NothingPressed
<1>9. CASE K!PricesCome
  <2>1. CallStays /\ call.is # "buy"
    BY <1>9 DEF K!PricesCome, CallStays, KeysInv, K!dialog, K!loading, K!Ready, K!Prices
  <2> QED
    BY <2>1, NothingPressed
<1>10. CASE K!PricesFail
  <2>1. CallStays /\ call.is # "buy"
    BY <1>10 DEF K!PricesFail, CallStays, KeysInv, K!dialog, K!loading, K!Ready, K!Prices
  <2> QED
    BY <2>1, NothingPressed
<1>11. CASE K!Opens
  <2>1. CallStays /\ call.is # "buy"
    BY <1>11 DEF K!Opens, CallStays, KeysInv, K!dialog, K!loading, K!Ready, K!Prices
  <2> QED
    BY <2>1, NothingPressed
<1>12. CASE K!TopsUp
  <2>1. CallStays /\ call.is # "buy"
    BY <1>12 DEF K!TopsUp, CallStays, KeysInv, K!dialog, K!loading, K!Ready, K!Prices
  <2> QED
    BY <2>1, NothingPressed
<1>13. CASE K!Back
  <2>1. CallStays /\ call.is # "buy"
    BY <1>13 DEF K!Back, CallStays, KeysInv, K!dialog, K!loading, K!Ready, K!Prices
  <2> QED
    BY <2>1, NothingPressed
<1>14. CASE K!BalanceComes
  <2>1. CallStays /\ (stage = "waiting" \/ ButtonStays)
    BY <1>14 DEF K!BalanceComes, CallStays, ButtonStays
  <2> QED
    BY <2>1, KeysStay, NothingPressed DEF KeysInv
<1>15. CASE K!Closes
  <2>1. CallStays /\ call.is # "buy"
    BY <1>15 DEF K!Closes, CallStays, KeysInv, K!dialog, K!loading, K!Ready, K!Prices
  <2> QED
    BY <2>1, NothingPressed
<1>16. CASE K!Buys \/ K!Reduces \/ K!SendsTopup
  BY <1>16, PressesCase
<1>17. CASE K!Unbinds \/ K!Unbound
  BY <1>17, UnbindsCase
<1>18. CASE K!SetsCount
  BY <1>18, SetsCountCase
<1>19. CASE K!Done \/ K!Quoted \/ K!Broken \/ K!Waits \/ K!Approves
  BY <1>19, EndsCase
<1>20. CASE K!Conflicts \/ K!CountsAgain
  <2>1. /\ call.is # "none" /\ busy' = busy /\ charged' = charged /\ ButtonStays
        /\ \E v \in {"conflict", "quoted"} :
              call' = [call EXCEPT !.at = v] \/ \E q : call' = [call EXCEPT !.at = v, !.quote = q]
    BY <1>20 DEF K!Conflicts, K!CountsAgain, KeysInv, ButtonStays, K!dialog
  <2> QED
    BY <2>1, CallGoesOn, CallIsAt
<1>21. CASE K!MA7Topup
  <2>1. /\ call.is = "topup" /\ call' = [call EXCEPT !.at = "sent"] /\ busy' = busy /\ charged' = charged /\ ButtonStays
    BY <1>21 DEF K!MA7Topup, KeysInv, ButtonStays, K!dialog
  <2> QED
    BY <2>1, CallGoesOn, CallIsAt
<1>22. CASE UNCHANGED K!vars
  BY <1>22, KeysStay DEF K!vars, K!dialog, CallStays, ButtonStays
<1> QED
  BY <1>1, <1>2, <1>3, <1>4, <1>5, <1>6, <1>7, <1>8, <1>9, <1>10,
     <1>11, <1>12, <1>13, <1>14, <1>15, <1>16, <1>17, <1>18, <1>19, <1>20, <1>21, <1>22 DEF K!Next

LEMMA KeysStart ==
  ASSUME K!Init
  PROVE  KeysInv
  BY DEF K!Init, K!NoCall, KeysInv, ChargedAsPressed, K!ChargedAsPressed

------------------------------------------------------------------------------
(* The notices *)

\* What NoticesInv speaks of, besides the round and the lists.
SaysTheSame == sent' = sent /\ withdrawn' = withdrawn
ClosedTheSame == closed' = closed /\ dismissed' = dismissed

LEMMA PageStays ==
  ASSUME PageInv, UNCHANGED N!page, closed' \subseteq closed
  PROVE  PageInv'
  BY DEF PageInv, N!page, ClosedStaysClosed, N!ClosedStaysClosed

\* A push leaves out what is closed, and overtakes an answer on its way.
LEMMA PageTold ==
  ASSUME PageInv, NEW list, N!Told(list), list \cap closed' = {}
  PROVE  PageInv'
<1>1. CASE fetch.at = "nopage"
  BY <1>1 DEF PageInv, N!page, N!Told, ClosedStaysClosed, N!ClosedStaysClosed
<1>2. CASE fetch.at # "nopage"
  <2>1. /\ window' = list /\ fetch' = [fetch EXCEPT !.pushed = fetch.at = "answered"]
    BY <1>2 DEF N!Told, N!Shows
  <2>2. /\ DOMAIN fetch' = {"at", "list", "pushed"} /\ fetch'.at = fetch.at
        /\ fetch'.pushed = (fetch.at = "answered")
    BY <2>1 DEF PageInv
  <2> QED
    BY <1>2, <2>1, <2>2 DEF PageInv, ClosedStaysClosed, N!ClosedStaysClosed
<1> QED
  BY <1>1, <1>2

LEMMA PageOver ==
  ASSUME window' = {}, fetch' = N!NoPage
  PROVE  PageInv'
  BY DEF PageInv, N!NoPage, ClosedStaysClosed, N!ClosedStaysClosed

\* No answer is on its way, and a list is forgotten or kept.
LEMMA NoAnswerKeeps ==
  ASSUME NoticesInv, SaysTheSame, ClosedTheSame, round'.got = Nothing, RoundTyped',
         DOMAIN heard' = Logins, \A l \in Logins : heard'[l] \in {heard[l], Nothing, {}},
         PageInv'
  PROVE  NoticesInv'
<1>1. \A l \in Logins : Heard(l)' \subseteq Heard(l)
  BY DEF Heard
<1>2. HeardWasSaid'
  BY <1>1 DEF NoticesInv, HeardWasSaid, SaysTheSame, SaidByMA7
<1>3. AnswerIsNewer' /\ AnswerWasSaid'
  BY DEF AnswerIsNewer, AnswerWasSaid
<1>4. ClosedIsRemembered'
  BY DEF NoticesInv, ClosedIsRemembered, ClosedTheSame, SaysTheSame
<1> QED
  BY <1>2, <1>3, <1>4 DEF NoticesInv

LEMMA IdleRound ==
  /\ DOMAIN N!Idle = {"on", "left", "login", "got", "changed"}
  /\ N!Idle.login = Nothing /\ N!Idle.got = Nothing /\ N!Idle.left = {}
  BY DEF N!Idle

LEMMA PublishesCase ==
  ASSUME NoticesInv, N!MA7Publishes
  PROVE  NoticesInv'
<1>1. /\ heard' = heard /\ round' = round /\ accounts' = accounts /\ dismissed' = dismissed /\ UNCHANGED N!page
  BY DEF N!MA7Publishes, N!page
<1>2. RoundTyped'
  BY <1>1 DEF NoticesInv, RoundTyped
<1>3. \A l : Heard(l)' = Heard(l)
  BY <1>1 DEF Heard
<1>4. PICK n \in N!Notices \ withdrawn :
         IF n[2] \in sent[n[1]]
         THEN /\ sent' = [sent EXCEPT ![n[1]] = @ \ {n[2]}]
              /\ withdrawn' = withdrawn \cup {n} /\ closed' = closed \ {n}
         ELSE /\ sent' = [sent EXCEPT ![n[1]] = @ \cup {n[2]}]
              /\ UNCHANGED <<withdrawn, closed>>
  BY DEF N!MA7Publishes
<1> DEFINE l == n[1]
           i == n[2]
<1>5. n = <<l, i>> /\ l \in Logins /\ i \in Ids
  BY DEF N!Notices
<1> HIDE DEF l, i
<1>6. CASE i \in sent[l]
  <2>1. /\ sent' = [sent EXCEPT ![l] = @ \ {i}] /\ withdrawn' = withdrawn \cup {n} /\ closed' = closed \ {n}
    BY <1>4, <1>6 DEF l, i
  <2>2. /\ DOMAIN sent' = Logins /\ sent'[l] = sent[l] \ {i}
        /\ \A k \in Logins : k # l => sent'[k] = sent[k]
    BY <1>5, <2>1 DEF NoticesInv, HeardWasSaid
  <2>3. \A k \in Logins : \A j : SaidByMA7(k, j) => SaidByMA7(k, j)'
    BY <1>5, <2>1, <2>2 DEF SaidByMA7
  <2>4. \A m \in N!Notices \cap withdrawn' : m[2] \notin sent'[m[1]]
    BY <1>5, <2>1, <2>2 DEF NoticesInv, HeardWasSaid, N!Notices
  <2>5. HeardWasSaid'
    BY <1>1, <1>3, <2>2, <2>3, <2>4 DEF NoticesInv, HeardWasSaid
  <2>6. AnswerIsNewer' /\ AnswerWasSaid'
    BY <1>1, <1>3, <2>1, <2>3 DEF NoticesInv, RoundTyped, AnswerIsNewer, AnswerWasSaid
  <2>7. \A m \in closed' : m[2] \in sent'[m[1]]
    BY <1>5, <2>1, <2>2 DEF NoticesInv, ClosedIsRemembered, N!Notices
  <2>8. ClosedIsRemembered'
    BY <1>1, <2>1, <2>7 DEF NoticesInv, ClosedIsRemembered
  <2>9. PageInv'
    BY <1>1, <2>1, PageStays DEF NoticesInv
  <2> QED
    BY <1>2, <2>5, <2>6, <2>8, <2>9 DEF NoticesInv
<1>7. CASE i \notin sent[l]
  <2>1. sent' = [sent EXCEPT ![l] = @ \cup {i}] /\ withdrawn' = withdrawn /\ closed' = closed
    BY <1>4, <1>7 DEF l, i
  <2>2. /\ DOMAIN sent' = Logins /\ sent'[l] = sent[l] \cup {i}
        /\ \A k \in Logins : k # l => sent'[k] = sent[k]
    BY <1>5, <2>1 DEF NoticesInv, HeardWasSaid
  <2>3. \A k \in Logins : \A j : SaidByMA7(k, j) => SaidByMA7(k, j)'
    BY <1>5, <2>1, <2>2 DEF SaidByMA7
  <2>4. \A m \in N!Notices \cap withdrawn' : m[2] \notin sent'[m[1]]
    BY <1>4, <1>5, <2>1, <2>2 DEF NoticesInv, HeardWasSaid, N!Notices
  <2>5. HeardWasSaid'
    BY <1>1, <1>3, <2>2, <2>3, <2>4 DEF NoticesInv, HeardWasSaid
  <2>6. AnswerIsNewer' /\ AnswerWasSaid'
    BY <1>1, <1>3, <2>1, <2>3 DEF NoticesInv, RoundTyped, AnswerIsNewer, AnswerWasSaid
  <2>7. \A m \in closed' : m[2] \in sent'[m[1]]
    BY <1>5, <2>1, <2>2 DEF NoticesInv, ClosedIsRemembered, N!Notices
  <2>8. ClosedIsRemembered'
    BY <1>1, <2>1, <2>7 DEF NoticesInv, ClosedIsRemembered
  <2>9. PageInv'
    BY <1>1, <2>1, PageStays DEF NoticesInv
  <2> QED
    BY <1>2, <2>5, <2>6, <2>8, <2>9 DEF NoticesInv
<1> QED
  BY <1>6, <1>7

LEMMA AccountsCase ==
  ASSUME NoticesInv, N!AccountsChange
  PROVE  NoticesInv'
<1>1. SaysTheSame /\ ClosedTheSame
  BY DEF N!AccountsChange, SaysTheSame, ClosedTheSame
<1>2. accounts' \subseteq Logins
  BY DEF N!AccountsChange, NoticesInv, RoundTyped
<1>3. N!Told(N!ListOf(accounts', heard)) /\ N!ListOf(accounts', heard) \cap dismissed = {}
  BY DEF N!AccountsChange, N!ListOf
<1>4. PageInv'
  BY <1>1, <1>3, PageTold DEF ClosedTheSame, NoticesInv, ClosedIsRemembered
<1>5. CASE round' = round
  <2>1. heard' = heard
    BY <1>5 DEF N!AccountsChange
  <2>2. \A l : Heard(l)' = Heard(l)
    BY <2>1 DEF Heard
  <2> QED
    BY <1>1, <1>2, <1>4, <1>5, <2>1, <2>2 DEF NoticesInv, RoundTyped, HeardWasSaid, AnswerIsNewer,
       AnswerWasSaid, ClosedIsRemembered, SaysTheSame, ClosedTheSame, SaidByMA7
<1>6. CASE round' # round
  <2>1. /\ round' = [N!Idle EXCEPT !.on = TRUE, !.left = accounts', !.changed = \E l \in Logins \ accounts' : heard[l] # Nothing]
        /\ heard' = [l \in Logins |-> IF l \in accounts' THEN heard[l] ELSE Nothing]
    BY <1>6 DEF N!AccountsChange
  <2>2. /\ round'.got = Nothing /\ round'.login = Nothing /\ round'.left = accounts'
        /\ DOMAIN round' = {"on", "left", "login", "got", "changed"}
    BY <2>1 DEF N!Idle
  <2> QED
    <3>1. RoundTyped'
      BY <1>2, <2>2 DEF RoundTyped
    <3> QED
      BY <1>1, <1>4, <2>1, <2>2, <3>1, NoAnswerKeeps
<1> QED
  BY <1>5, <1>6

\* A round that begins, or asks the next login; the page; a restart.
LEMMA AsksCase ==
  ASSUME NoticesInv, N!Rounds \/ N!Asks \/ N!Restarts
  PROVE  NoticesInv'
<1>1. SaysTheSame /\ ClosedTheSame /\ accounts' = accounts
  BY DEF N!Rounds, N!Asks, N!Restarts, SaysTheSame, ClosedTheSame
<1>2. PageInv'
  <2>1. CASE N!Restarts
    BY <2>1, PageOver DEF N!Restarts
  <2>2. CASE N!Rounds \/ N!Asks
    BY <1>1, <2>2, PageStays DEF NoticesInv, N!Rounds, N!Asks, N!page, ClosedTheSame
  <2> QED
    BY <2>1, <2>2
<1>3. /\ DOMAIN heard' = Logins /\ \A l \in Logins : heard'[l] \in {heard[l], Nothing, {}}
  BY DEF N!Rounds, N!Asks, N!Restarts, NoticesInv, HeardWasSaid
<1>4. RoundTyped' /\ round'.got = Nothing
  <2>1. CASE N!Rounds
    <3>1. round' = [N!Idle EXCEPT !.on = TRUE, !.left = accounts, !.changed = \E l \in Logins \ accounts : heard[l] # Nothing]
      BY <2>1 DEF N!Rounds
    <3>2. /\ round'.got = Nothing /\ round'.login = Nothing /\ round'.left = accounts
          /\ DOMAIN round' = {"on", "left", "login", "got", "changed"}
      BY <3>1 DEF N!Idle
    <3> QED
      BY <1>1, <3>2 DEF NoticesInv, RoundTyped
  <2>2. CASE N!Asks
    <3>1. PICK l \in round.left : round' = [round EXCEPT !.login = l, !.left = @ \ {l}]
      BY <2>2 DEF N!Asks
    <3>2. /\ round'.got = round.got /\ round'.login = l /\ round'.left = round.left \ {l}
          /\ DOMAIN round' = {"on", "left", "login", "got", "changed"}
      BY <3>1 DEF NoticesInv, RoundTyped
    <3>3. round.got = Nothing
      BY <2>2 DEF N!Asks, NoticesInv, RoundTyped
    <3> QED
      BY <1>1, <3>2, <3>3 DEF NoticesInv, RoundTyped
  <2>3. CASE N!Restarts
    BY <1>1, <2>3, IdleRound DEF N!Restarts, NoticesInv, RoundTyped
  <2> QED
    BY <2>1, <2>2, <2>3
<1> QED
  BY <1>1, <1>2, <1>3, <1>4, NoAnswerKeeps

LEMMA RoundEndsCase ==
  ASSUME NoticesInv, N!RoundEnds
  PROVE  NoticesInv'
<1>1. /\ SaysTheSame /\ ClosedTheSame /\ accounts' = accounts /\ round' = N!Idle /\ heard' = heard
  BY DEF N!RoundEnds, SaysTheSame, ClosedTheSame
<1>2. RoundTyped' /\ round'.got = Nothing
  BY <1>1, IdleRound DEF NoticesInv, RoundTyped
<1>3. (N!Told(N!List(heard)) \/ UNCHANGED N!page) /\ N!List(heard) \cap dismissed = {}
  BY DEF N!RoundEnds, N!List, N!ListOf
<1>4. PageInv'
  BY <1>1, <1>3, PageStays, PageTold DEF NoticesInv, ClosedIsRemembered, ClosedTheSame
<1>5. DOMAIN heard' = Logins /\ \A l \in Logins : heard'[l] = heard[l]
  BY <1>1 DEF NoticesInv, HeardWasSaid
<1> QED
  BY <1>1, <1>2, <1>4, <1>5, NoAnswerKeeps

LEMMA FailsCase ==
  ASSUME NoticesInv, N!Fails
  PROVE  NoticesInv'
<1>1. /\ SaysTheSame /\ ClosedTheSame /\ accounts' = accounts /\ UNCHANGED N!page
      /\ heard' = [heard EXCEPT ![round.login] = IF @ = Nothing THEN {} ELSE @]
      /\ round' = N!Next1(FALSE) /\ round.login \in Logins
  BY DEF N!Fails, N!Forgets, N!page, SaysTheSame, ClosedTheSame, NoticesInv, RoundTyped
<1>2. RoundTyped' /\ round'.got = Nothing
  BY <1>1 DEF NoticesInv, RoundTyped, N!Next1
<1>3. PageInv'
  BY <1>1, PageStays DEF NoticesInv, ClosedTheSame
<1>4. DOMAIN heard' = Logins /\ \A l \in Logins : heard'[l] \in {heard[l], {}}
  BY <1>1 DEF NoticesInv, HeardWasSaid
<1> QED
  BY <1>1, <1>2, <1>3, <1>4, NoAnswerKeeps

\* MA7 says what it sends now: all that is listed and not withdrawn, and all that is closed.
LEMMA AnswersCase ==
  ASSUME NoticesInv, N!MA7Answers
  PROVE  NoticesInv'
<1>1. /\ SaysTheSame /\ ClosedTheSame /\ accounts' = accounts /\ UNCHANGED N!page /\ heard' = heard
      /\ round' = [round EXCEPT !.got = sent[round.login]] /\ round.login \in Logins /\ round.login # Nothing
  BY DEF N!MA7Answers, N!page, SaysTheSame, ClosedTheSame, NoticesInv, RoundTyped
<1>2. /\ round'.got = sent[round.login] /\ round'.login = round.login /\ round'.left = round.left
      /\ DOMAIN round' = {"on", "left", "login", "got", "changed"}
  BY <1>1 DEF NoticesInv, RoundTyped
<1>3. RoundTyped'
  BY <1>1, <1>2 DEF NoticesInv, RoundTyped
<1>4. \A l : Heard(l)' = Heard(l)
  BY <1>1 DEF Heard
<1>5. HeardWasSaid'
  BY <1>1, <1>4 DEF NoticesInv, HeardWasSaid, SaysTheSame, SaidByMA7
<1>6. AnswerIsNewer' /\ AnswerWasSaid'
  BY <1>1, <1>2, <1>4 DEF NoticesInv, HeardWasSaid, AnswerIsNewer, AnswerWasSaid, SaidByMA7, SaysTheSame
<1>7. ClosedIsRemembered'
  BY <1>1, <1>2 DEF NoticesInv, ClosedIsRemembered, SaysTheSame, ClosedTheSame
<1>8. PageInv'
  BY <1>1, PageStays DEF NoticesInv, ClosedTheSame
<1> QED
  BY <1>3, <1>5, <1>6, <1>7, <1>8 DEF NoticesInv

\* The answer takes the list's place; what is forgotten is not in it, so it was not closed and kept.
LEMMA ArrivesCase ==
  ASSUME NoticesInv, N!Arrives
  PROVE  NoticesInv'
<1>a. PICK l \in Logins : l = round.login
  BY DEF N!Arrives, NoticesInv, RoundTyped
<1>b. PICK fresh : fresh = round.got
  OBVIOUS
<1>1. /\ sent' = sent /\ withdrawn' = withdrawn /\ accounts' = accounts /\ UNCHANGED N!page /\ closed' = closed
      /\ heard' = [heard EXCEPT ![l] = fresh] /\ fresh # Nothing
      /\ dismissed' = dismissed \ N!Forgotten(l, fresh) /\ round' = N!Next1(N!Changes(l, fresh))
  BY <1>a, <1>b DEF N!Arrives, N!page
<1>2. l \in Logins
  BY <1>a
<1>3. RoundTyped' /\ round'.got = Nothing
  BY <1>1 DEF NoticesInv, RoundTyped, N!Next1
<1>4. /\ DOMAIN heard' = Logins /\ heard'[l] = fresh /\ \A k \in Logins : k # l => heard'[k] = heard[k]
  BY <1>1, <1>2 DEF NoticesInv, HeardWasSaid
<1>5. /\ Heard(l)' = fresh /\ \A k \in Logins : k # l => Heard(k)' = Heard(k)
  BY <1>1, <1>2, <1>4 DEF Heard
<1>6. \A i \in fresh : SaidByMA7(l, i)
  BY <1>a, <1>b, <1>1 DEF NoticesInv, AnswerWasSaid
<1>7. HeardWasSaid'
  BY <1>1, <1>4, <1>5, <1>6 DEF NoticesInv, HeardWasSaid, SaidByMA7
<1>8. AnswerIsNewer' /\ AnswerWasSaid'
  BY <1>3 DEF AnswerIsNewer, AnswerWasSaid
<1>9. closed \cap N!Forgotten(l, fresh) = {}
  BY <1>a, <1>b, <1>1 DEF NoticesInv, ClosedIsRemembered, N!Forgotten
<1>10. ClosedIsRemembered'
  BY <1>1, <1>3, <1>9 DEF NoticesInv, ClosedIsRemembered
<1>11. PageInv'
  BY <1>1, PageStays DEF NoticesInv
<1> QED
  BY <1>3, <1>7, <1>8, <1>10, <1>11 DEF NoticesInv

\* The page and the cards.
LEMMA PageCase ==
  ASSUME NoticesInv, N!Page \/ N!Closes \/ UNCHANGED N!vars
  PROVE  NoticesInv'
<1>1. /\ SaysTheSame /\ ClosedTheSame /\ accounts' = accounts /\ heard' = heard /\ round' = round
  BY DEF N!Page, N!PageOpens, N!MainAnswers, N!ListComes, N!Closes, N!vars, N!rest, SaysTheSame, ClosedTheSame
<1>2. \A l : Heard(l)' = Heard(l)
  BY <1>1 DEF Heard
<1>3. PageInv'
  <2>1. CASE N!PageOpens
    BY <1>1, <2>1 DEF N!PageOpens, NoticesInv, PageInv, ClosedTheSame, ClosedStaysClosed, N!ClosedStaysClosed
  <2>2. CASE N!MainAnswers
    <3>1. fetch' = [fetch EXCEPT !.at = "answered", !.list = N!List(heard)] /\ window' = window /\ stale' = stale
      BY <2>2 DEF N!MainAnswers
    <3>2. DOMAIN fetch' = {"at", "list", "pushed"} /\ fetch'.at = "answered" /\ fetch'.list = N!List(heard)
      BY <3>1 DEF NoticesInv, PageInv
    <3>3. closed \cap N!List(heard) = {}
      BY DEF NoticesInv, ClosedIsRemembered, N!List, N!ListOf
    <3> QED
      BY <1>1, <3>1, <3>2, <3>3 DEF NoticesInv, PageInv, ClosedTheSame, ClosedStaysClosed, N!ClosedStaysClosed
  <2>3. CASE N!ListComes
    <3>1. /\ fetch.at = "answered" /\ window' = fetch.list /\ stale' = fetch.pushed
          /\ fetch' = [N!NoPage EXCEPT !.at = "done"]
      BY <2>3 DEF N!ListComes, N!Shows
    <3>2. DOMAIN fetch' = {"at", "list", "pushed"} /\ fetch'.at = "done"
      BY <3>1 DEF N!NoPage
    <3> QED
      BY <1>1, <3>1, <3>2 DEF NoticesInv, PageInv, ClosedTheSame, ClosedStaysClosed, N!ClosedStaysClosed
  <2>4. CASE N!Closes \/ UNCHANGED N!vars
    BY <1>1, <2>4 DEF N!Closes, N!vars, NoticesInv, PageInv, ClosedTheSame, ClosedStaysClosed, N!ClosedStaysClosed
  <2> QED
    BY <2>1, <2>2, <2>3, <2>4 DEF N!Page
<1> QED
  BY <1>1, <1>2, <1>3 DEF NoticesInv, RoundTyped, HeardWasSaid, AnswerIsNewer, AnswerWasSaid, ClosedIsRemembered,
     SaysTheSame, ClosedTheSame, SaidByMA7

\* A listed notice is closed: MA7 has sent it, and the answer on its way has it or it is withdrawn.
LEMMA DismissedCase ==
  ASSUME NoticesInv, N!Dismissed
  PROVE  NoticesInv'
<1>1. /\ SaysTheSame /\ accounts' = accounts /\ heard' = heard /\ round' = round
  BY DEF N!Dismissed, SaysTheSame
<1>2. PICK n \in leaving :
         IF n \in N!List(heard)
         THEN /\ dismissed' = dismissed \cup {n}
              /\ closed' = IF n[2] \in sent[n[1]] THEN closed \cup {n} ELSE closed
              /\ N!Told(N!List(heard) \ {n})
         ELSE UNCHANGED <<dismissed, closed, N!page>>
  BY DEF N!Dismissed
<1>3. CASE n \notin N!List(heard)
  <2>1. ClosedTheSame /\ PageInv'
    BY <1>2, <1>3, PageStays DEF ClosedTheSame, NoticesInv
  <2>2. \A l : Heard(l)' = Heard(l)
    BY <1>1 DEF Heard
  <2> QED
    BY <1>1, <2>1, <2>2 DEF NoticesInv, RoundTyped, HeardWasSaid, AnswerIsNewer, AnswerWasSaid, ClosedIsRemembered,
       SaysTheSame, ClosedTheSame, SaidByMA7
<1>4. CASE n \in N!List(heard)
  <2>1. /\ dismissed' = dismissed \cup {n} /\ closed \subseteq closed' /\ closed' \subseteq closed \cup {n}
        /\ n \in closed' => n[2] \in sent[n[1]]
        /\ N!Told(N!List(heard) \ {n})
    BY <1>2, <1>4 DEF NoticesInv, ClosedIsRemembered
  <2>2. n \in N!Notices /\ n[2] \in Heard(n[1])
    BY <1>4 DEF N!List, N!ListOf, Heard
  <2>3. n \in closed' /\ round.got # Nothing /\ n[1] = round.login => n[2] \in round.got
    <3>1. n = <<n[1], n[2]>>
      BY <2>2 DEF N!Notices
    <3> QED
      BY <2>1, <2>2, <3>1 DEF NoticesInv, AnswerIsNewer, HeardWasSaid
  <2>4. ClosedIsRemembered'
    BY <1>1, <2>1, <2>2, <2>3 DEF NoticesInv, ClosedIsRemembered, SaysTheSame
  <2>5. PageInv'
    <3>1. (N!List(heard) \ {n}) \cap closed' = {}
      BY <2>1 DEF NoticesInv, ClosedIsRemembered, N!List, N!ListOf
    <3> QED
      BY <2>1, <3>1, PageTold DEF NoticesInv
  <2>6. \A l : Heard(l)' = Heard(l)
    BY <1>1 DEF Heard
  <2> QED
    BY <1>1, <2>4, <2>5, <2>6 DEF NoticesInv, RoundTyped, HeardWasSaid, AnswerIsNewer, AnswerWasSaid, SaysTheSame,
       SaidByMA7
<1> QED
  BY <1>3, <1>4

LEMMA NoticesStart ==
  ASSUME N!Init
  PROVE  NoticesInv
<1>1. \A l \in Logins : Heard(l) = {}
  BY DEF N!Init, Heard
<1>2. HeardWasSaid
  <2>1. sent \in [Logins -> {{}, {CHOOSE i \in Ids : TRUE}}]
    BY DEF N!Init
  <2> QED
    BY <1>1, <2>1 DEF N!Init, HeardWasSaid
<1>3. RoundTyped /\ AnswerIsNewer /\ AnswerWasSaid
  BY IdleRound DEF N!Init, RoundTyped, AnswerIsNewer, AnswerWasSaid
<1>4. ClosedIsRemembered /\ PageInv
  BY DEF N!Init, N!NoPage, ClosedIsRemembered, PageInv, ClosedStaysClosed, N!ClosedStaysClosed
<1> QED
  BY <1>2, <1>3, <1>4 DEF NoticesInv

LEMMA NoticesNext ==
  ASSUME NoticesInv, [N!Next]_(N!vars)
  PROVE  NoticesInv'
<1>1. CASE N!MA7Publishes
  BY <1>1, PublishesCase
<1>2. CASE N!AccountsChange
  BY <1>2, AccountsCase
<1>3. CASE N!Round
  BY <1>3, AsksCase, AnswersCase, ArrivesCase, FailsCase, RoundEndsCase DEF N!Round
<1>4. CASE N!Page \/ N!Closes \/ UNCHANGED N!vars
  BY <1>4, PageCase
<1>5. CASE N!Dismissed
  BY <1>5, DismissedCase
<1>6. CASE N!Restarts
  BY <1>6, AsksCase
<1> QED
  BY <1>1, <1>2, <1>3, <1>4, <1>5, <1>6 DEF N!Next

------------------------------------------------------------------------------
(* The payment *)

\* What the account is worth: a month charged moves one from the balance to the period.
Worth(a) == a.balance + a.until
PayTyped ==
    /\ DOMAIN account = {"status", "rest", "balance", "until"}
    /\ account.balance \in Nat /\ account.until \in Nat
    /\ before.balance \in Nat /\ before.until \in Nat
    /\ DOMAIN ask = {"by", "at", "got"}

\* Only an approval makes the account worth more than the request found it.
OnlyApprovalAdds ==
    /\ account.until >= before.until
    /\ Worth(account) >= Worth(before)
    /\ Worth(account) > Worth(before) <=> "approved" \in answers

\* An answer on its way that says nothing is being checked is still what the account is worth: a
\* request that came after it makes it late.
AnswerStands ==
    ask.at = "answered" /\ ~late /\ ask.got.status # "processing" =>
        /\ account.status # "processing"
        /\ ask.got.balance \in Nat /\ ask.got.until \in Nat
        /\ ask.got.until >= before.until /\ Worth(ask.got) = Worth(account)

PayInv == PayTyped /\ OnlyApprovalAdds /\ AnswerStands

\* MA7 and the answer stay as they are.
AnswerStays == account' = account /\ before' = before /\ answers' = answers

LEMMA PayStart ==
  ASSUME Init
  PROVE  PayInv
<1>1. /\ DOMAIN account = {"status", "rest", "balance", "until"}
      /\ account.balance \in {0, 1} /\ account.until = 1
      /\ before.balance = account.balance /\ before.until = account.until /\ answers = {}
      /\ DOMAIN ask = {"by", "at", "got"} /\ ask.at = "none"
  BY DEF Init, NoAsk
<1> QED
  BY <1>1 DEF PayInv, PayTyped, OnlyApprovalAdds, AnswerStands, Worth

\* No answer is on its way after the step, or the same one.
LEMMA AskMoves ==
  ASSUME PayInv, AnswerStays, DOMAIN ask' = {"by", "at", "got"},
         ask'.at # "answered" \/ (ask'.at = ask.at /\ ask'.got = ask.got /\ late' = late)
  PROVE  PayInv'
  BY DEF PayInv, PayTyped, OnlyApprovalAdds, AnswerStands, AnswerStays, Worth

LEMMA JoinsAsk ==
  ASSUME PayInv, NEW who, Joins(who), late' = late
  PROVE  /\ DOMAIN ask' = {"by", "at", "got"}
         /\ ask'.at # "answered" \/ (ask'.at = ask.at /\ ask'.got = ask.got /\ late' = late)
  BY DEF PayInv, PayTyped, Joins

\* A request is taken: what is asked for now begins here, and an answer on its way is late.
LEMMA RequestedCase ==
  ASSUME PayInv, Requested, ask' = ask
  PROVE  PayInv'
<1>1. /\ DOMAIN account' = {"status", "rest", "balance", "until"}
      /\ account'.balance = account.balance /\ account'.until = account.until
  BY DEF Requested, PayInv, PayTyped
<1>2. ask'.at = "answered" => late'
  BY DEF Requested
<1>3. CASE entry.is = "pending"
  BY <1>1, <1>2, <1>3 DEF Requested, PayInv, PayTyped, OnlyApprovalAdds, AnswerStands, Worth
<1>4. CASE entry.is # "pending"
  <2>1. before' = [balance |-> account.balance, until |-> account.until] /\ answers' = {}
    BY <1>4 DEF Requested
  <2> QED
    BY <1>1, <1>2, <2>1 DEF PayInv, PayTyped, OnlyApprovalAdds, AnswerStands, Worth
<1> QED
  BY <1>3, <1>4

\* The administrator answers, and the scheduler charges.
LEMMA MA7Case ==
  ASSUME PayInv, Approves \/ TurnsDown \/ PeriodEnds
  PROVE  PayInv'
<1>1. CASE Approves
  <2>1. /\ account.status = "processing" /\ DOMAIN account' = {"status", "rest", "balance", "until"}
        /\ account'.balance = account.balance + 1 /\ account'.until = account.until
        /\ answers' = answers \cup {"approved"} /\ before' = before /\ ask' = ask /\ late' = late
    BY <1>1 DEF Approves, PayInv, PayTyped
  <2> QED
    BY <2>1 DEF PayInv, PayTyped, OnlyApprovalAdds, AnswerStands, Worth
<1>2. CASE TurnsDown
  <2>1. /\ account.status = "processing" /\ DOMAIN account' = {"status", "rest", "balance", "until"}
        /\ account'.balance = account.balance /\ account'.until = account.until
        /\ answers' = answers \cup {"rejected"} /\ before' = before /\ ask' = ask /\ late' = late
    BY <1>2 DEF TurnsDown, PayInv, PayTyped
  <2> QED
    BY <2>1 DEF PayInv, PayTyped, OnlyApprovalAdds, AnswerStands, Worth
<1>3. CASE PeriodEnds
  <2>1. /\ DOMAIN account' = {"status", "rest", "balance", "until"} /\ answers' = answers
        /\ before' = before /\ ask' = ask /\ late' = late
        /\ account.status # "processing" => account'.status # "processing"
    BY <1>3 DEF PeriodEnds
  <2>2. \/ account'.balance = account.balance - 1 /\ account'.until = account.until + 1 /\ account.balance > 0
        \/ account'.balance = account.balance - 0 /\ account'.until = account.until + 0
    BY <1>3 DEF PeriodEnds
  <2>3. /\ account'.balance \in Nat /\ account'.until \in Nat /\ account'.until >= account.until
        /\ Worth(account') = Worth(account)
    BY <2>2 DEF PayInv, PayTyped, Worth
  <2> QED
    BY <2>1, <2>3 DEF PayInv, PayTyped, OnlyApprovalAdds, AnswerStands, Worth
<1> QED
  BY <1>1, <1>2, <1>3

LEMMA MA7AnswersCase ==
  ASSUME PayInv, MA7Answers
  PROVE  PayInv'
<1>1. AnswerStays /\ ask' = [ask EXCEPT !.at = "answered", !.got = Shown]
  BY DEF MA7Answers, outside, AnswerStays
<1>2. DOMAIN ask' = {"by", "at", "got"} /\ ask'.got = Shown
  BY <1>1 DEF PayInv, PayTyped
<1>3. Shown.status = account.status /\ Shown.balance = account.balance /\ Shown.until = account.until
  BY DEF Shown
<1> QED
  BY <1>1, <1>2, <1>3 DEF PayInv, PayTyped, OnlyApprovalAdds, AnswerStands, AnswerStays, Worth

LEMMA CardCase ==
  ASSUME PayInv, Card
  PROVE  PayInv'
<1>1. CASE Syncs \/ Opens \/ Polls \/ Refreshes
  BY <1>1, JoinsAsk, AskMoves DEF Syncs, Opens, Polls, Refreshes, outside, AnswerStays
<1>2. CASE Leaves
  <2>1. AnswerStays /\ late' = late /\ DOMAIN ask' = {"by", "at", "got"} /\ ask'.at = ask.at /\ ask'.got = ask.got
    BY <1>2 DEF Leaves, outside, AnswerStays, PayInv, PayTyped
  <2> QED
    BY <2>1, AskMoves
<1>3. CASE MA7Answers
  BY <1>3, MA7AnswersCase
<1>4. CASE Arrives \/ Fails \/ Restarts
  <2>1. AnswerStays /\ DOMAIN ask' = {"by", "at", "got"} /\ ask'.at = "none"
    BY <1>4 DEF Arrives, Fails, Restarts, outside, AnswerStays, NoAsk
  <2> QED
    BY <2>1, AskMoves
<1>5. CASE Ages
  BY <1>5, AskMoves DEF Ages, outside, AnswerStays, PayInv, PayTyped
<1> QED
  BY <1>1, <1>2, <1>3, <1>4, <1>5 DEF Card

LEMMA DialogCase ==
  ASSUME PayInv, Dialog
  PROVE  PayInv'
<1>1. CASE MA7Takes
  <2>1. CASE Requested
    BY <1>1, <2>1, RequestedCase DEF MA7Takes
  <2>2. CASE ~Requested
    BY <1>1, <2>2, AskMoves DEF MA7Takes, AnswerStays, PayInv, PayTyped
  <2> QED
    BY <2>1, <2>2
<1>2. CASE Closes
  <2>1. AnswerStays /\ late' = late /\ (ask' = ask \/ Joins("page"))
    BY <1>2 DEF Closes, outside, AnswerStays
  <2> QED
    BY <2>1, JoinsAsk, AskMoves DEF PayInv, PayTyped
<1>3. CASE \/ Pays \/ DetailsCome \/ Confirms \/ IsTaken \/ NotTaken \/ DialogAsks
           \/ MA7AnswersDialog \/ DialogHears \/ DialogFails \/ PaysAgain
  <2>1. AnswerStays /\ late' = late /\ ask' = ask
    BY <1>3 DEF Pays, DetailsCome, Confirms, IsTaken, NotTaken, DialogAsks, MA7AnswersDialog, DialogHears,
       DialogFails, PaysAgain, outside, AnswerStays
  <2> QED
    BY <2>1, AskMoves DEF PayInv, PayTyped
<1> QED
  BY <1>1, <1>2, <1>3 DEF Dialog

LEMMA PayNext ==
  ASSUME PayInv, [Next]_vars
  PROVE  PayInv'
<1>1. CASE UNCHANGED vars
  BY <1>1 DEF vars, PayInv, PayTyped, OnlyApprovalAdds, AnswerStands, Worth
<1>2. CASE BotRequests
  BY <1>2, RequestedCase DEF BotRequests
<1> QED
  BY <1>1, <1>2, MA7Case, CardCase, DialogCase DEF Next

\* The entry is given up only where an answer arrives, and the answer has grown as the account has.
LEMMA EntryRead ==
  ASSUME PayInv, [Next]_vars, ~late, entry.is = "pending", entry'.is # "pending", Clear(entry)
  PROVE  entry'.is = "rejected" <=> "approved" \notin answers
<1>1. Pending(dialog.p).is = "pending"
  BY DEF Pending, NoEntry
<1>2. dismissRejection = entry
  BY DEF dismissRejection, paymentRejected
<1>3. Arrives
  BY <1>1, <1>2 DEF Next, vars, BotRequests, Approves, TurnsDown, PeriodEnds, Card, Dialog, Syncs, Opens, Leaves,
     Polls, Refreshes, MA7Answers, Fails, Restarts, Ages, paymentRejected, Pays, DetailsCome, Confirms, MA7Takes,
     IsTaken, NotTaken, DialogAsks, MA7AnswersDialog, DialogHears, DialogFails, PaysAgain, Closes
<1>4. ask.at = "answered" /\ entry' = Kept(ask.got)
  BY <1>3 DEF Arrives
<1>5. /\ ask.got.status # "processing"
      /\ entry' = IF Grew(entry, ask.got) THEN NoEntry ELSE Rejected
  BY <1>4 DEF Kept, paymentOutcome
<1>6. entry'.is = "rejected" <=> ~Grew(entry, ask.got)
  BY <1>5 DEF NoEntry, Rejected
<1>7. Grew(entry, ask.got) <=> Worth(account) > Worth(before)
  BY <1>4, <1>5 DEF PayInv, PayTyped, AnswerStands, OnlyApprovalAdds, Clear, Grew, Worth
<1> QED
  BY <1>6, <1>7 DEF PayInv, OnlyApprovalAdds

------------------------------------------------------------------------------
(* The account *)

\* The three parts take no steps in each other's state.
LEMMA AccountStep ==
  ASSUME [AccountNext]_<<vars, keys, notices, part>>
  PROVE  [Next]_vars /\ [K!Next]_(K!vars) /\ [N!Next]_(N!vars)
<1>1. UNCHANGED keys => UNCHANGED K!vars
  BY DEF keys, K!vars, K!dialog
<1>2. UNCHANGED notices => UNCHANGED N!vars
  BY DEF notices, N!vars
<1> QED
  BY <1>1, <1>2 DEF AccountNext

\* The strengthened invariants of the parts, for any devices, logins, notices, requests and bounds: an
\* answer on its way is worth what the account is (lib/payments.ts), the sum of a request is that of its
\* button (KeysDialog.tsx), and what was closed is in every newer answer (main/ma7Notices.ts).
THEOREM Invariance == AccountSpec => [](PayInv /\ KeysInv /\ NoticesInv)
<1>1. AccountInit => PayInv /\ KeysInv /\ NoticesInv
  BY PayStart, KeysStart, NoticesStart DEF AccountInit
<1>2. /\ PayInv /\ KeysInv /\ NoticesInv /\ [AccountNext]_<<vars, keys, notices, part>>
      => PayInv' /\ KeysInv' /\ NoticesInv'
  BY AccountStep, PayNext, KeysNext, NoticesNext
<1> QED
  BY <1>1, <1>2, PTL DEF AccountSpec

\* MA7 takes money for places only by a press of «Оплатить», and the sum that its button showed,
\* whatever prices, refusals and top-ups come between (KeysDialog.tsx, main/ma7.ts).
THEOREM Charged == AccountSpec => []ChargedAsPressed
<1>1. KeysInv => ChargedAsPressed
  BY DEF KeysInv
<1> QED
  BY <1>1, Invariance, PTL

\* A closed notice is not shown again while MA7 keeps sending it, through failed rounds, restarts and
\* accounts that go and come (main/index.ts, main/ma7Notices.ts), on a page whose first list was not
\* overtaken by a push (Notices.tsx:17).
THEOREM StaysClosed == AccountSpec => []ClosedStaysClosed
<1>1. NoticesInv => ClosedStaysClosed
  BY DEF NoticesInv, PageInv
<1> QED
  BY <1>1, Invariance, PTL

\* Of a request for payment made when no money lay on the account, and remembered as the account then
\* was (Clear), the card says turned down exactly when the administrator found no transfer, unless the
\* answer it came with was older than the request (late), however often the application was started anew
\* (renderer/src/lib/payments.ts).
THEOREM AnswerRead == AccountSpec => AnswerIsRead
<1>1. /\ PayInv /\ [AccountNext]_<<vars, keys, notices, part>>
      => [~late /\ entry.is = "pending" /\ entry'.is # "pending" /\ Clear(entry)
          => (entry'.is = "rejected") = ("approved" \notin answers)]_vars
  BY AccountStep, EntryRead
<1> QED
  BY <1>1, Invariance, PTL DEF AccountSpec, AnswerIsRead
=============================================================================
