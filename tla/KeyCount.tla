------------------------------ MODULE KeyCount ------------------------------
(***************************************************************************)
(* "Devices" (components/KeysDialog.tsx): more or fewer devices on an      *)
(* account of MA7, and so on its master key.  MA7 prices every count in    *)
(* one answer; a purchase names the sum the person saw and MA7 charges     *)
(* that sum or none; a balance too small is topped up through an           *)
(* administrator; fewer devices means unbinding the ones that do not fit,  *)
(* one by one, before the count goes down (main/ma7.ts, main/index.ts).    *)
(* A refused purchase brings the sum MA7 counts now: it takes the old      *)
(* one's place in the table until all of them are priced again.            *)
(*                                                                         *)
(* MA7 is external.  Places above the paid ones cost `price` each; days    *)
(* pass, the bot and other computers use the account meanwhile.            *)
(***************************************************************************)
EXTENDS Integers, FiniteSets, FiniteSetsExt

CONSTANTS
    Devices, Mine,  \* devices of the master key; this computer's own
    MaxKeys,        \* the most MA7 gives
    Nothing, Asked,
    MaxMoves,       \* bound: what others do to the account
    MaxFailures     \* bound: requests that fail or whose answer is lost

VARIABLES
    ma7,        \* the account: devices allowed and paid, balance, price of a place, devices bound
    count, table, placed, picked, bound, stage, busy, want,   \* the dialog's state
    pricing,    \* the newest getKeyQuotes: Nothing, Asked, or the answer on its way
    listing,    \* getAccountDevices
    call,       \* the request of a pressed button
    polled,     \* the balance on its way while a top-up is waited for
    touched,    \* onChanged will be called
    card,       \* history: the account has been read since this dialog changed it
    charged,    \* history: sums taken by MA7 under this dialog's requests, each with its press
    moves, failures

dialog == <<count, table, placed, picked, bound, stage, want>>
vars == <<ma7, dialog, busy, pricing, listing, call, polled, touched, card, charged, moves, failures>>

Stages == {"closed", "pick", "topup", "waiting", "done"}
Counts == 1 .. MaxKeys

\* keyquote, as MA7 counts it now: one count, or all of them.
Amount(n) == ma7.price * Max({0, n - ma7.paid})
Quote(n) == [amount |-> Amount(n), balance |-> ma7.balance]
Quotes == [keys |-> ma7.keys, quote |-> [n \in Counts |-> Quote(n)]]

NoCall == [is |-> "none", n |-> 0, sum |-> 0, rest |-> {}, quote |-> Nothing, at |-> "none"]

TypeOK ==
    /\ ma7.keys \in Counts /\ ma7.paid \in Counts /\ ma7.balance \in Nat /\ ma7.price \in Nat
    /\ ma7.bound \subseteq Devices
    /\ count \in Counts /\ placed \in BOOLEAN /\ picked \subseteq Devices
    /\ bound = Nothing \/ bound \subseteq Devices
    /\ stage \in Stages /\ busy \in BOOLEAN /\ touched \in BOOLEAN /\ card \in BOOLEAN
    /\ moves \in 0 .. MaxMoves /\ failures \in 0 .. MaxFailures

Init ==
    /\ ma7 \in {[keys |-> Cardinality(Devices), paid |-> Cardinality(Devices), balance |-> b, price |-> 1,
                 bound |-> Devices] : b \in {0, 2}}
    /\ count = 1 /\ table = Nothing /\ placed = FALSE /\ picked = {} /\ bound = Nothing
    /\ stage = "closed" /\ want = 0 /\ busy = FALSE
    /\ pricing = Nothing /\ listing = Nothing /\ call = NoCall /\ polled = Nothing
    /\ touched = FALSE /\ card = TRUE /\ charged = {} /\ moves = 0 /\ failures = 0

----------------------------------------------------------------------------
(* Others, and requests that fail *)

Moved == moves < MaxMoves /\ moves' = moves + 1
\* Days pass, a month is charged, the bot buys or gives up places, a device is bound.
Others ==
    /\ Moved
    /\ ma7' \in {[ma7 EXCEPT !.price = 2], [ma7 EXCEPT !.balance = Max({0, @ - 1})],
                 [ma7 EXCEPT !.keys = Max({1, @ - 1, Cardinality(ma7.bound)})],
                 [ma7 EXCEPT !.paid = @ - 1, !.keys = Max({1, @ - 1, Cardinality(ma7.bound)})]}
    /\ ma7'.paid \in Counts /\ ma7' # ma7
    /\ UNCHANGED <<dialog, busy, pricing, listing, call, polled, touched, card, charged, failures>>

Failed == failures < MaxFailures /\ failures' = failures + 1

----------------------------------------------------------------------------
(* What the dialog derives *)

current == IF table = Nothing THEN count ELSE table.keys
fewer == count < current
need == IF fewer /\ bound # Nothing THEN Max({0, Cardinality(bound) - count}) ELSE 0
priced == table # Nothing
loading == pricing # Nothing
\* The sum on the screen for a count, and what the balance lacks for it.
Sum(n) == table.quote[n].amount
Shortfall(n) == Max({0, Sum(n) - table.quote[n].balance})
enough == priced /\ Shortfall(count) = 0
Trim(ids, n) == IF Cardinality(ids) <= n THEN {ids} ELSE {s \in SUBSET ids : Cardinality(s) = n}
NeedAt(n, t, b) == IF t # Nothing /\ n < t.keys /\ b # Nothing THEN Max({0, Cardinality(b) - n}) ELSE 0
Clamp(n) == Max({1, IF n > MaxKeys THEN MaxKeys ELSE n})

\* price(): asked anew, an older answer is dropped.
Prices == pricing' = Asked

----------------------------------------------------------------------------
(* Opening, pricing and choosing *)

Opens ==
    /\ stage = "closed"
    /\ \E way \in {1, -1}, shown \in Counts :
          count' = Clamp(shown + way) /\ placed' = FALSE /\ want' = way
    /\ stage' = "pick" /\ Prices
    /\ UNCHANGED <<ma7, table, picked, bound, touched, busy, listing, call, polled, card, charged, moves, failures>>

MA7Prices ==
    /\ pricing = Asked
    /\ pricing' = Quotes
    /\ UNCHANGED <<ma7, dialog, busy, listing, call, polled, touched, card, charged, moves, failures>>

\* The first answer says how many there really are; later ones leave the choice where it is.
PricesCome ==
    /\ pricing \notin {Nothing, Asked}
    /\ table' = pricing /\ pricing' = Nothing
    /\ count' = IF placed THEN Clamp(count) ELSE Clamp(pricing.keys + want)
    /\ placed' = TRUE /\ want' = 0
    /\ picked' \in Trim(picked, NeedAt(count', pricing, bound))
    /\ UNCHANGED <<ma7, bound, stage, busy, listing, call, polled, touched, card, charged, moves, failures>>

PricesFail ==
    /\ loading /\ Failed
    /\ pricing' = Nothing
    /\ UNCHANGED <<ma7, dialog, busy, listing, call, polled, touched, card, charged, moves>>

\* «−» and «+»; a count raised again needs fewer ticks.
Steps ==
    /\ stage = "pick" /\ ~busy /\ placed
    /\ \E n \in {count - 1, count + 1} \cap Counts :
          count' = n /\ picked' \in Trim(picked, NeedAt(n, table, bound))
    /\ UNCHANGED <<ma7, table, placed, bound, stage, want, busy, pricing, listing, call, polled, touched, card, charged, moves, failures>>

\* accountDevices: from the key's own server, so that this computer is marked.
Lists ==
    /\ stage = "pick" /\ priced /\ fewer /\ bound = Nothing /\ listing = Nothing
    /\ listing' = Asked
    /\ UNCHANGED <<ma7, dialog, busy, pricing, call, polled, touched, card, charged, moves, failures>>
ServerLists ==
    /\ listing = Asked /\ listing' = ma7.bound
    /\ UNCHANGED <<ma7, dialog, busy, pricing, call, polled, touched, card, charged, moves, failures>>
ListComes ==
    /\ listing \notin {Nothing, Asked}
    /\ bound' = listing /\ listing' = Nothing
    /\ UNCHANGED <<ma7, count, table, placed, picked, stage, want, busy, pricing, call, polled, touched, card, charged, moves, failures>>

\* This computer is not among those that can be ticked.
Ticks ==
    /\ stage = "pick" /\ ~busy /\ bound # Nothing
    /\ \E d \in bound \ {Mine} :
          picked' = IF d \in picked THEN picked \ {d} ELSE picked \cup {d}
    /\ Cardinality(picked') <= need
    /\ UNCHANGED <<ma7, count, table, placed, bound, stage, want, busy, pricing, listing, call, polled, touched, card, charged, moves, failures>>

----------------------------------------------------------------------------
(* The buttons *)

Ready == stage = "pick" /\ ~busy /\ priced /\ ~loading
Presses(c) == busy' = TRUE /\ call' = c

\* «Оплатить», with the sum on the button.
Buys ==
    /\ Ready /\ count > current /\ enough
    /\ Presses([NoCall EXCEPT !.is = "buy", !.n = count, !.sum = Sum(count), !.at = "count"])
    /\ UNCHANGED <<ma7, dialog, pricing, listing, polled, touched, card, charged, moves, failures>>

\* «Отвязать и уменьшить»: the ticked devices one by one, then the count, for nothing.
Reduces ==
    /\ Ready /\ fewer /\ bound # Nothing /\ Cardinality(picked) >= need
    /\ Presses([NoCall EXCEPT !.is = "reduce", !.n = count, !.rest = picked, !.at = IF picked = {} THEN "count" ELSE "unbind"])
    /\ UNCHANGED <<ma7, dialog, pricing, listing, polled, touched, card, charged, moves, failures>>

\* index.ts looks once more which device is this one (MA7-12); MA7 does not know one that is gone.
Unbinds ==
    /\ call.at = "unbind"
    /\ \E d \in call.rest :
          IF d # Mine /\ d \in ma7.bound
          THEN /\ ma7' = [ma7 EXCEPT !.bound = @ \ {d}]
               /\ call' = [call EXCEPT !.rest = @ \ {d}, !.at = "unbound"]
               /\ card' = FALSE
          ELSE call' = [call EXCEPT !.at = "error"] /\ UNCHANGED <<ma7, card>>
    /\ UNCHANGED <<dialog, busy, pricing, listing, polled, touched, charged, moves, failures>>
Unbound ==
    /\ call.at = "unbound"
    /\ call' = [call EXCEPT !.at = IF call.rest = {} THEN "count" ELSE "unbind"]
    /\ touched' = TRUE
    /\ UNCHANGED <<ma7, dialog, busy, pricing, listing, polled, card, charged, moves, failures>>

\* setkeycount: the sum must be the one named, the balance must hold it, the devices must fit;
\* the node may fail after the money went, and the places are paid then.
SetsCount ==
    /\ call.at = "count"
    /\ LET cost == Amount(call.n) IN
       IF cost # call.sum \/ ma7.balance < cost
       THEN call' = [call EXCEPT !.at = "quoted", !.quote = Quote(call.n)] /\ UNCHANGED <<ma7, card, charged>>
       ELSE IF Cardinality(ma7.bound) > call.n
       THEN call' = [call EXCEPT !.at = "error"] /\ UNCHANGED <<ma7, card, charged>>
       ELSE /\ \E answers \in BOOLEAN :
                  /\ ma7' = [ma7 EXCEPT !.balance = @ - cost, !.paid = Max({@, call.n}),
                                        !.keys = IF answers THEN call.n ELSE @]
                  /\ call' = [call EXCEPT !.at = IF answers THEN "ok" ELSE "error"]
            /\ card' = (card /\ ma7' = ma7)
            /\ charged' = IF cost > 0 THEN charged \cup {[sum |-> cost, press |-> call.is, shown |-> Sum(call.n)]} ELSE charged
    /\ UNCHANGED <<dialog, busy, pricing, listing, polled, touched, moves, failures>>

\* CONFLICT: the period moved under the request; main asks for the sum once more.
Conflicts ==
    /\ call.at = "count" /\ Moved
    /\ call' = [call EXCEPT !.at = "conflict"]
    /\ ma7' = [ma7 EXCEPT !.price = 3 - @]
    /\ UNCHANGED <<dialog, busy, pricing, listing, polled, touched, card, charged, failures>>
CountsAgain ==
    /\ call.at = "conflict"
    /\ call' = [call EXCEPT !.at = "quoted", !.quote = Quote(call.n)]
    /\ UNCHANGED <<ma7, dialog, busy, pricing, listing, polled, touched, card, charged, moves, failures>>

Done ==
    /\ call.at = "ok"
    /\ call' = NoCall /\ busy' = FALSE /\ touched' = TRUE /\ stage' = "done"
    /\ UNCHANGED <<ma7, count, table, placed, picked, bound, want, pricing, listing, polled, card, charged, moves, failures>>

\* Slip: the new sum is sent again without asking.
SlipQuoted ==
    /\ call.at = "quoted"
    /\ call' = [call EXCEPT !.at = "count", !.sum = call.quote.amount]
    /\ UNCHANGED <<ma7, dialog, busy, pricing, listing, polled, touched, card, charged, moves, failures>>
\* Nothing was charged: a purchase's new sum stands where the old one was, and the rest of the
\* table is asked again; should that fail, the new sum is the one on the button.
Quoted ==
    /\ call.at = "quoted"
    /\ table' = IF call.is = "buy" THEN [table EXCEPT !.quote[call.n] = call.quote] ELSE table
    /\ call' = NoCall /\ busy' = FALSE /\ touched' = TRUE
    /\ Prices
    /\ UNCHANGED <<ma7, count, placed, picked, bound, stage, want, listing, polled, card, charged, moves, failures>>

\* Refused, no answer in time, or the node's failure: a reduction asks for the list again.
Broken ==
    /\ \/ call.at = "error" /\ UNCHANGED failures
       \/ call.at \in {"unbind", "unbound", "count", "conflict", "quoted", "ok", "topup", "sent"} /\ Failed
    /\ call' = NoCall /\ busy' = FALSE
    /\ IF call.is = "reduce" THEN picked' = {} /\ bound' = Nothing ELSE UNCHANGED <<picked, bound>>
    /\ UNCHANGED <<ma7, count, table, placed, stage, want, pricing, listing, polled, touched, card, charged, moves>>

----------------------------------------------------------------------------
(* The top-up *)

TopsUp ==
    /\ Ready /\ count > current /\ ~enough
    /\ stage' = "topup"
    /\ UNCHANGED <<ma7, count, table, placed, picked, bound, want, busy, pricing, listing, call, polled, touched, card, charged, moves, failures>>
Back ==
    /\ stage = "topup" /\ ~busy
    /\ stage' = "pick" /\ Prices
    /\ UNCHANGED <<ma7, count, table, placed, picked, bound, want, busy, listing, call, polled, touched, card, charged, moves, failures>>
SendsTopup ==
    /\ stage = "topup" /\ ~busy
    /\ Presses([NoCall EXCEPT !.is = "topup", !.n = count, !.sum = Shortfall(count), !.at = "topup"])
    /\ UNCHANGED <<ma7, dialog, pricing, listing, polled, touched, card, charged, moves, failures>>
\* The administrator answers sooner or later, or never; the sum is the one asked for.
MA7Topup ==
    /\ call.at = "topup"
    /\ call' = [call EXCEPT !.at = "sent"]
    /\ UNCHANGED <<ma7, dialog, busy, pricing, listing, polled, touched, card, charged, moves, failures>>
Waits ==
    /\ call.at = "sent"
    /\ call' = [NoCall EXCEPT !.sum = call.sum] /\ busy' = FALSE /\ touched' = TRUE /\ stage' = "waiting"
    /\ UNCHANGED <<ma7, count, table, placed, picked, bound, want, pricing, listing, polled, card, charged, moves, failures>>
Approves ==
    /\ call.is = "none" /\ call.sum > 0
    /\ ma7' = [ma7 EXCEPT !.balance = @ + call.sum] /\ call' = NoCall
    /\ UNCHANGED <<dialog, busy, pricing, listing, polled, touched, card, charged, moves, failures>>
PollsBalance ==
    /\ stage = "waiting" /\ polled = Nothing
    /\ polled' = ma7.balance
    /\ UNCHANGED <<ma7, dialog, busy, pricing, listing, call, touched, card, charged, moves, failures>>
\* Once the balance holds the sum the devices are priced again.
BalanceComes ==
    /\ polled # Nothing /\ polled' = Nothing
    /\ IF stage = "waiting" /\ polled >= Sum(count) THEN stage' = "pick" /\ Prices ELSE UNCHANGED <<stage, pricing>>
    /\ UNCHANGED <<ma7, count, table, placed, picked, bound, want, busy, listing, call, touched, card, charged, moves, failures>>

\* finish: onChanged reads the account again, if something was done here.
Closes ==
    /\ stage # "closed" /\ ~busy
    /\ stage' = "closed" /\ pricing' = Nothing /\ listing' = Nothing /\ polled' = Nothing
    /\ count' = 1 /\ table' = Nothing /\ placed' = FALSE /\ picked' = {} /\ bound' = Nothing /\ want' = 0
    /\ card' = (card \/ touched) /\ touched' = FALSE
    /\ UNCHANGED <<ma7, busy, call, charged, moves, failures>>

----------------------------------------------------------------------------

Next ==
    \/ Others \/ Opens \/ MA7Prices \/ PricesCome \/ PricesFail \/ Steps \/ Lists \/ ServerLists \/ ListComes
    \/ Ticks \/ Buys \/ Reduces \/ Unbinds \/ Unbound \/ SetsCount \/ Conflicts \/ CountsAgain \/ Done \/ Quoted \/ Broken
    \/ TopsUp \/ Back \/ SendsTopup \/ MA7Topup \/ Waits \/ Approves \/ PollsBalance \/ BalanceComes \/ Closes

Spec == Init /\ [][Next]_vars

----------------------------------------------------------------------------

\* Money goes only by a press on "Pay", for the sum that the button showed.
ChargedAsPressed == \A c \in charged : c.press = "buy" /\ c.sum = c.shown

\* "Whatever happened in it — devices bought, a top-up sent — the account is asked again on the
\* way out" (ProfileView.tsx).
ChangedIsReread == stage = "closed" => card

\* "What is shown is what is bound" (KeysDialog.tsx): a device that was unbound here is not
\* offered for unbinding.
ShownIsBound == stage = "pick" /\ ~busy /\ bound # Nothing /\ listing = Nothing => bound \subseteq ma7.bound
=============================================================================
