-------------------------- MODULE SplitRoutesProofs --------------------------
(***************************************************************************)
(* What a program was told goes where the rule sends it, for any           *)
(* addresses, queries, cap and lifetimes of leases and answers.  The       *)
(* argument is the lease's: an address that may still be used is leased    *)
(* and younger than its route's lifetime, and the leased are laid, first   *)
(* as the default way asks and, once the daemon has died, as failClosed    *)
(* does.  And nothing of a tunnel on Windows outlives it unseen, for any   *)
(* rules, gateways, crashes, refusals and runs of the application.  On     *)
(* macOS what a tunnel changed stays on record for whoever undoes it, and  *)
(* follows the network, for any faults, network services and routers.      *)
(***************************************************************************)
EXTENDS SplitRoutes, MCTunnels, Integers, TLAPS

\* `dead` is set by failClosed alone, which runs only once the interface is gone.
DeadIsGone ==
    /\ dead <=> hold # "no"
    /\ dead => ~link

\* While rules are pinned nothing is asked for or leased; they go where rules about names go, or nowhere.
PinsAgree ==
    /\ phase = "starting" => seen = {} /\ ~dead /\ \A q \in Slots : ~queries[q].busy
    /\ \A h \in Hosts : pinned[h] \in {Other, "block", "none"}

\* What a query has leased, and is still leased, was renewed no earlier than the query began.
QueriesFresh ==
    \A q \in Slots :
        /\ ~queries[q].busy => queries[q].left = {} /\ queries[q].done = {}
        /\ \A h \in queries[q].done \cap seen : since[h] <= queries[q].age

\* An address that a program may use is leased, and was renewed at most a tick before it was told.
ToldIsLeased ==
    \A h \in Hosts : told[h] <= AnswerTTL => h \in seen /\ since[h] <= told[h] + 1

\* Rules send names past the tunnel: the leased have their rule, and only what is blocked has a
\* route in the main table.
DirectLaid ==
    Other = "direct" =>
        /\ seen \subseteq system.rules
        /\ toHold = {}
        /\ \A h \in Hosts : system.main[h] # "none" => system.main[h] = "hole" /\ pinned[h] = "block"

\* Rules send names into the tunnel: the leased have their route while it is there; failClosed
\* black-holes those it has listed, and what is leased after it is black-holed at once.
TunnelLaid ==
    Other = "tunnel" =>
        \A h \in seen :
            /\ link => system.main[h] = "tunnel"
            /\ hold = "laying" => h \in toHold \cup unlaid \/ system.main[h] = "hole"
            /\ hold = "done" => h \in unlaid \/ system.main[h] = "hole"

IInv == TypeOK /\ DeadIsGone /\ PinsAgree /\ QueriesFresh /\ ToldIsLeased /\ DirectLaid /\ TunnelLaid

-----------------------------------------------------------------------------
(* What the router does to the kernel's rules and routes *)

Kernel == [rules : SUBSET Hosts, main : [Hosts -> {"none", "tunnel", "hole"}]]

LEMMA OtherWays ==
  ASSUME TypeOK
  PROVE  Other \in {"direct", "tunnel"}
  BY DEF TypeOK, Other

\* A route that is laid changes one address: its rule, or its route.
LEMMA RoutedLays ==
  ASSUME NEW sys \in Kernel, NEW h \in Hosts, NEW way \in Ways
  PROVE  /\ Routed(sys, h, way) \in Kernel
         /\ way = "direct" => /\ Routed(sys, h, way).rules = sys.rules \cup {h}
                              /\ Routed(sys, h, way).main = sys.main
         /\ way # "direct" => /\ Routed(sys, h, way).rules = sys.rules
                              /\ Routed(sys, h, way).main[h] = Kind(way)
                              /\ \A k \in Hosts \ {h} : Routed(sys, h, way).main[k] = sys.main[k]
<1>1. Kind(way) \in {"tunnel", "hole"}
  BY DEF Kind
<1> QED
  BY <1>1 DEF Routed, Kernel, Ways

\* What is taken back is the very rules, or the routes of that kind, and nothing else.
LEMMA UnroutedKernel ==
  ASSUME NEW sys \in Kernel, NEW gone \in SUBSET Hosts, NEW way \in Ways
  PROVE  Unrouted(sys, gone, way) \in Kernel
  BY DEF Unrouted, Kernel, Ways

LEMMA UnroutedRules ==
  ASSUME NEW sys \in Kernel, NEW gone \in SUBSET Hosts, NEW way, way = "direct"
  PROVE  /\ Unrouted(sys, gone, way).rules = sys.rules \ gone
         /\ Unrouted(sys, gone, way).main = sys.main
  BY DEF Unrouted, Kernel

LEMMA UnroutedRoutes ==
  ASSUME NEW sys \in Kernel, NEW gone \in SUBSET Hosts, NEW way, way # "direct", NEW k \in Hosts
  PROVE  /\ Unrouted(sys, gone, way).main[k] \in {sys.main[k], "none"}
         /\ k \notin gone => Unrouted(sys, gone, way).main[k] = sys.main[k]
         /\ k \in gone /\ sys.main[k] = Kind(way) => Unrouted(sys, gone, way).main[k] = "none"
  BY DEF Unrouted, Kernel

\* The set makes room by giving up leased addresses.
LEMMA EvictedLeased ==
  ASSUME NEW gone \in Evicted
  PROVE  gone \subseteq seen
  BY DEF Evicted, Oldest

-----------------------------------------------------------------------------
(* The invariant holds at first and every step keeps it *)

LEMMA InitHolds == Init => IInv
<1> SUFFICES ASSUME Init PROVE IInv
  OBVIOUS
<1>1. TypeOK
  <2>1. NoQuery \in Query
    BY DEF NoQuery, Query
  <2>2. 0 \in 0 .. RouteTTL + 1 /\ NotTold \in 0 .. NotTold
    BY TTLAssumption DEF NotTold
  <2> QED
    BY <2>1, <2>2 DEF Init, TypeOK
<1>2. DeadIsGone /\ PinsAgree
  BY DEF Init, DeadIsGone, PinsAgree, NoQuery
<1>3. QueriesFresh
  BY DEF Init, QueriesFresh, NoQuery
<1>4. ToldIsLeased
  BY TTLAssumption DEF Init, ToldIsLeased, NotTold
<1>5. DirectLaid /\ TunnelLaid
  BY DEF Init, DirectLaid, TunnelLaid
<1> QED
  BY <1>1, <1>2, <1>3, <1>4, <1>5 DEF IInv

LEMMA PinKeeps ==
  ASSUME IInv, NEW h \in Hosts, NEW way \in Ways, Pin(h, way)
  PROVE  IInv'
<1> DEFINE before == pinned[h]
           free == IF before = "none" THEN system ELSE Unrouted(system, {h}, before)
<1>1. /\ system \in Kernel /\ before \in {Other, "block", "none"} /\ Other \in {"direct", "tunnel"}
      /\ way \in {Other, "block"} /\ phase = "starting" /\ seen = {} /\ ~dead /\ before # way
  BY OtherWays DEF IInv, TypeOK, Kernel, PinsAgree, Pin
<1>2. free \in Kernel
  BY <1>1, UnroutedKernel DEF Ways
<1>3. CASE /\ system' = Routed(free, h, way)
           /\ pinned' = [pinned EXCEPT ![h] = way]
  <2>1. system' \in Kernel
    BY <1>2, <1>3, RoutedLays
  <2>2. TypeOK'
    BY <1>3, <2>1 DEF IInv, TypeOK, Pin, Kernel, holdVars, Query
  <2>3. DeadIsGone' /\ PinsAgree'
    BY <1>1, <1>3 DEF IInv, TypeOK, DeadIsGone, PinsAgree, Pin, holdVars, Other
  <2>4. QueriesFresh' /\ ToldIsLeased'
    BY DEF IInv, QueriesFresh, ToldIsLeased, Pin
  <2>5. DirectLaid'
    <3> SUFFICES ASSUME Other = "direct"
                 PROVE  \A k \in Hosts : system'.main[k] # "none" => system'.main[k] = "hole" /\ pinned'[k] = "block"
      BY <1>1 DEF IInv, DirectLaid, Pin, holdVars, Other
    <3> TAKE k \in Hosts
    <3>1. CASE k = h
      <4>1. free.main[h] = "none"
        BY <1>1, UnroutedRoutes, UnroutedRules DEF IInv, DirectLaid, Kind
      <4> QED
        BY <1>1, <1>2, <1>3, <3>1, <4>1, RoutedLays DEF IInv, TypeOK, Kind
    <3>2. CASE k # h
      <4>1. free.main[k] = system.main[k]
        BY <1>1, <3>2, UnroutedRoutes, UnroutedRules
      <4>2. system'.main[k] = free.main[k]
        BY <1>1, <1>2, <1>3, <3>2, RoutedLays
      <4> QED
        BY <1>3, <3>2, <4>1, <4>2 DEF IInv, DirectLaid, TypeOK
    <3> QED
      BY <3>1, <3>2
  <2>6. TunnelLaid'
    BY <1>1 DEF TunnelLaid, Pin
  <2> QED
    BY <2>2, <2>3, <2>4, <2>5, <2>6 DEF IInv
<1>4. CASE /\ system' = free
           /\ pinned' = [pinned EXCEPT ![h] = "none"]
  <2>2. TypeOK'
    BY <1>2, <1>4 DEF IInv, TypeOK, Pin, Kernel, holdVars, Query
  <2>3. DeadIsGone' /\ PinsAgree'
    BY <1>1, <1>4 DEF IInv, TypeOK, DeadIsGone, PinsAgree, Pin, holdVars, Other
  <2>4. QueriesFresh' /\ ToldIsLeased'
    BY DEF IInv, QueriesFresh, ToldIsLeased, Pin
  <2>5. DirectLaid'
    <3> SUFFICES ASSUME Other = "direct"
                 PROVE  \A k \in Hosts : system'.main[k] # "none" => system'.main[k] = "hole" /\ pinned'[k] = "block"
      BY <1>1 DEF IInv, DirectLaid, Pin, holdVars, Other
    <3> TAKE k \in Hosts
    <3>1. CASE k = h
      BY <1>1, <1>4, <3>1, UnroutedRoutes, UnroutedRules DEF IInv, DirectLaid, Kind
    <3>2. CASE k # h
      <4>1. free.main[k] = system.main[k]
        BY <1>1, <3>2, UnroutedRoutes, UnroutedRules
      <4> QED
        BY <1>4, <3>2, <4>1 DEF IInv, DirectLaid, TypeOK
    <3> QED
      BY <3>1, <3>2
  <2>6. TunnelLaid'
    BY <1>1 DEF TunnelLaid, Pin
  <2> QED
    BY <2>2, <2>3, <2>4, <2>5, <2>6 DEF IInv
<1> QED
  BY <1>3, <1>4 DEF Pin

LEMMA ServesKeeps ==
  ASSUME IInv, Serves
  PROVE  IInv'
<1>1. TypeOK'
  BY DEF IInv, TypeOK, Serves, setVars, holdVars
<1>2. DeadIsGone' /\ PinsAgree'
  BY DEF IInv, DeadIsGone, PinsAgree, Serves, setVars, holdVars, Other
<1>3. QueriesFresh' /\ ToldIsLeased' /\ DirectLaid' /\ TunnelLaid'
  BY DEF IInv, QueriesFresh, ToldIsLeased, DirectLaid, TunnelLaid, Serves, setVars, holdVars, Other
<1> QED
  BY <1>1, <1>2, <1>3 DEF IInv

LEMMA AskedKeeps ==
  ASSUME IInv, NEW q \in Slots, Asked(q)
  PROVE  IInv'
<1>1. PICK addresses \in SUBSET Hosts :
        queries' = [queries EXCEPT ![q] = [NoQuery EXCEPT !.busy = TRUE, !.left = addresses]]
  BY DEF Asked
<1> DEFINE asked == [NoQuery EXCEPT !.busy = TRUE, !.left = addresses]
<1>2. asked \in Query /\ asked.busy /\ asked.done = {}
  <2>1. NoQuery \in Query /\ NoQuery.done = {}
    BY DEF NoQuery, Query
  <2> QED
    BY <2>1 DEF Query
<1> HIDE DEF asked
<1>3. queries' = [queries EXCEPT ![q] = asked]
  BY <1>1 DEF asked
<1>4. TypeOK'
  BY <1>2, <1>3 DEF IInv, TypeOK, Asked, setVars, holdVars
<1>5. DeadIsGone' /\ PinsAgree'
  BY DEF IInv, DeadIsGone, PinsAgree, Asked, setVars, holdVars, Other
<1>6. QueriesFresh'
  BY <1>2, <1>3 DEF IInv, TypeOK, QueriesFresh, Asked, setVars
<1>7. ToldIsLeased' /\ DirectLaid' /\ TunnelLaid'
  BY DEF IInv, ToldIsLeased, DirectLaid, TunnelLaid, Asked, setVars, holdVars, Other
<1> QED
  BY <1>4, <1>5, <1>6, <1>7 DEF IInv

\* What an answer renews, or gives up, stays as young as the queries and the programs take it for.
LEMMA EnsureKeeps ==
  ASSUME IInv, NEW q \in Slots, NEW h \in queries[q].left, Ensure(q, h),
         UNCHANGED <<final, phase, pinned, link, holdVars>>
  PROVE  IInv'
<1> DEFINE query == queries[q]
           taken == [query EXCEPT !.left = @ \ {h}]
           leased == [query EXCEPT !.left = @ \ {h}, !.done = @ \cup {h}]
<1>1. query \in Query /\ h \in Hosts
  BY DEF IInv, TypeOK, Query
<1>2. /\ taken \in Query /\ leased \in Query
      /\ taken.busy = query.busy /\ taken.done = query.done /\ taken.age = query.age
      /\ leased.busy = query.busy /\ leased.done = query.done \cup {h} /\ leased.age = query.age
  BY <1>1 DEF Query
<1>3. query.busy
  BY DEF IInv, QueriesFresh
<1>4. Other \in {"direct", "tunnel"} /\ Other' = Other /\ system \in Kernel /\ Other \in Ways
  BY OtherWays DEF IInv, TypeOK, Kernel, Other, Ways
<1> HIDE DEF taken, leased
<1>5. PICK gone \in SUBSET Hosts :
        /\ gone \subseteq seen /\ (gone = {} \/ h \notin seen)
        /\ \/ seen' = seen \ gone
           \/ seen' = (seen \ gone) \cup {h} /\ since'[h] = 0
        /\ \A k \in Hosts \ {h} : since'[k] = Without(gone)[k]
        /\ since' \in [Hosts -> 0 .. RouteTTL + 1]
        /\ since'[h] = 0 \/ since'[h] = since[h]
        /\ told' = [k \in Hosts |-> IF k \in gone THEN NotTold ELSE told[k]]
        /\ \/ queries' = [queries EXCEPT ![q] = taken]
           \/ queries' = [queries EXCEPT ![q] = leased] /\ since'[h] = 0
        /\ \/ system' = Unrouted(system, gone, Other) /\ h \notin seen'
           \/ system' = Routed(Unrouted(system, gone, Other), h, Other) /\ h \notin seen
           \/ system' = system /\ gone = {} /\ seen' = seen
  <2>0. told \in [Hosts -> 0 .. NotTold] /\ since \in [Hosts -> 0 .. RouteTTL + 1] /\ 0 \in 0 .. RouteTTL + 1
    BY TTLAssumption DEF IInv, TypeOK
  <2>1. CASE /\ queries' = [queries EXCEPT ![q].left = @ \ {h}]
             /\ UNCHANGED <<seen, since, system, told>>
    <3>1. queries' = [queries EXCEPT ![q] = taken]
      BY <2>1 DEF taken
    <3> QED
      BY <2>0, <2>1, <3>1, <1>1 DEF Without
  <2>2. CASE /\ h \in seen
             /\ since' = Renewed(h)
             /\ queries' = [queries EXCEPT ![q].left = @ \ {h}, ![q].done = @ \cup {h}]
             /\ UNCHANGED <<seen, system, told>>
    <3>1. queries' = [queries EXCEPT ![q] = leased]
      BY <2>2, <1>1 DEF leased, IInv, TypeOK
    <3> QED
      BY <2>0, <2>2, <3>1, <1>1 DEF Without, Renewed
  <2>3. CASE h \notin seen /\ ~Skips(h)
    <3>1. PICK gone \in Evicted :
             LET room == Unrouted(system, gone, Other) IN
             /\ told' = [k \in Hosts |-> IF k \in gone THEN NotTold ELSE told[k]]
             /\ \/ /\ Layable(Other)
                   /\ system' = Routed(room, h, Other)
                   /\ seen' = (seen \ gone) \cup {h}
                   /\ since' = [Without(gone) EXCEPT ![h] = 0]
                   /\ queries' = [queries EXCEPT ![q].left = @ \ {h}, ![q].done = @ \cup {h}]
                \/ /\ system' = room
                   /\ seen' = seen \ gone
                   /\ since' = Without(gone)
                   /\ queries' = [queries EXCEPT ![q].left = @ \ {h}]
      BY <2>3 DEF Ensure
    <3>2. gone \subseteq seen /\ gone \in SUBSET Hosts
      BY EvictedLeased DEF IInv, TypeOK
    <3>3. CASE /\ system' = Routed(Unrouted(system, gone, Other), h, Other)
               /\ seen' = (seen \ gone) \cup {h}
               /\ since' = [Without(gone) EXCEPT ![h] = 0]
               /\ queries' = [queries EXCEPT ![q].left = @ \ {h}, ![q].done = @ \cup {h}]
      <4>1. queries' = [queries EXCEPT ![q] = leased]
        BY <3>3, <1>1 DEF leased, IInv, TypeOK
      <4> QED
        BY <2>0, <2>3, <3>1, <3>2, <3>3, <4>1, <1>1 DEF Without
    <3>4. CASE /\ system' = Unrouted(system, gone, Other)
               /\ seen' = seen \ gone
               /\ since' = Without(gone)
               /\ queries' = [queries EXCEPT ![q].left = @ \ {h}]
      <4>1. queries' = [queries EXCEPT ![q] = taken]
        BY <3>4 DEF taken
      <4> QED
        BY <2>0, <2>3, <3>1, <3>2, <3>4, <4>1, <1>1 DEF Without
    <3> QED
      BY <3>1, <3>3, <3>4
  <2> QED
    BY <2>1, <2>2, <2>3 DEF Ensure
<1>6. /\ system' \in Kernel
      /\ Other = "direct" => system'.main = system.main /\ seen' \subseteq system'.rules
      /\ Other = "tunnel" =>
           \A k \in seen' : \/ k \in seen /\ system'.main[k] = system.main[k]
                            \/ k = h /\ system'.main[h] = Kind("tunnel")
  <2> DEFINE room == Unrouted(system, gone, Other)
  <2>1. /\ room \in Kernel
        /\ Other = "direct" => room.main = system.main /\ room.rules = system.rules \ gone
        /\ Other = "tunnel" => \A k \in Hosts \ gone : room.main[k] = system.main[k]
    <3>1. gone \in SUBSET Hosts
      OBVIOUS
    <3>2. room \in Kernel
      BY <1>4, <3>1, UnroutedKernel
    <3>3. Other = "direct" => room.main = system.main /\ room.rules = system.rules \ gone
      BY <1>4, <3>1, UnroutedRules
    <3>4. ASSUME Other = "tunnel", NEW k \in Hosts \ gone
          PROVE  room.main[k] = system.main[k]
      BY <1>4, <3>1, <3>4, UnroutedRoutes
    <3> QED
      BY <3>2, <3>3, <3>4
  <2>2. /\ Routed(room, h, Other) \in Kernel
        /\ Other = "direct" => /\ Routed(room, h, Other).main = room.main
                               /\ Routed(room, h, Other).rules = room.rules \cup {h}
        /\ Other = "tunnel" => /\ Routed(room, h, Other).main[h] = Kind("tunnel")
                               /\ \A k \in Hosts \ {h} : Routed(room, h, Other).main[k] = room.main[k]
    BY <1>1, <1>4, <2>1, RoutedLays
  <2>3. seen \subseteq Hosts /\ (Other = "direct" => seen \subseteq system.rules)
    BY DEF IInv, TypeOK, DirectLaid
  <2> HIDE DEF room
  <2>4. \/ system' = room /\ h \notin seen'
        \/ system' = Routed(room, h, Other) /\ h \notin seen
        \/ system' = system /\ gone = {} /\ seen' = seen
    BY <1>5 DEF room
  <2> QED
    BY <1>4, <1>5, <2>1, <2>2, <2>3, <2>4
<1>7. TypeOK'
  <2>1. NotTold \in 0 .. NotTold /\ NotTold' = NotTold
    BY TTLAssumption DEF NotTold
  <2>2. queries' \in [Slots -> Query]
    BY <1>2, <1>5 DEF IInv, TypeOK
  <2>3. told' \in [Hosts -> 0 .. NotTold]
    BY <1>5, <2>1 DEF IInv, TypeOK
  <2>4. seen' \subseteq Hosts
    BY <1>1, <1>5 DEF IInv, TypeOK
  <2> QED
    BY <1>5, <1>6, <2>2, <2>3, <2>4 DEF IInv, TypeOK, holdVars, Kernel
<1>8. DeadIsGone' /\ PinsAgree'
  <2>1. phase # "starting"
    BY <1>3 DEF IInv, PinsAgree
  <2>2. phase' = phase /\ pinned' = pinned /\ dead' = dead /\ hold' = hold /\ link' = link
    BY DEF holdVars
  <2> QED
    BY <1>4, <2>1, <2>2 DEF IInv, DeadIsGone, PinsAgree
<1>9. \A k \in seen' : since'[k] = 0 \/ (k \in seen /\ since'[k] = since[k])
  BY <1>1, <1>5 DEF Without, IInv, TypeOK
<1>10. QueriesFresh'
  <2> SUFFICES ASSUME NEW p \in Slots
               PROVE  /\ ~queries'[p].busy => queries'[p].left = {} /\ queries'[p].done = {}
                      /\ \A k \in queries'[p].done \cap seen' : since'[k] <= queries'[p].age
    BY DEF QueriesFresh
  <2>1. /\ queries'[p].busy = queries[p].busy /\ queries'[p].age = queries[p].age
        /\ queries'[p].age \in 0 .. 1
        /\ \/ queries'[p].left = queries[p].left /\ queries'[p].done = queries[p].done
           \/ queries'[p].busy /\ queries'[p].done = queries[p].done
           \/ queries'[p].busy /\ queries'[p].done = queries[p].done \cup {h} /\ since'[h] = 0
    BY <1>2, <1>3, <1>5 DEF IInv, TypeOK, Query
  <2> QED
    BY <1>9, <2>1 DEF IInv, QueriesFresh
<1>11. ToldIsLeased'
  <2> SUFFICES ASSUME NEW k \in Hosts, told'[k] <= AnswerTTL
               PROVE  k \in seen' /\ since'[k] <= told'[k] + 1
    BY DEF ToldIsLeased
  <2>1. k \notin gone /\ told'[k] = told[k] /\ told[k] \in Nat
    BY <1>5, TTLAssumption DEF NotTold, IInv, TypeOK
  <2> QED
    BY <1>5, <1>9, <2>1 DEF IInv, ToldIsLeased
<1>12. DirectLaid'
  BY <1>4, <1>6 DEF IInv, DirectLaid, holdVars
<1>13. TunnelLaid'
  BY <1>4, <1>6 DEF IInv, TunnelLaid, holdVars, DeadIsGone, Kind
<1> QED
  BY <1>7, <1>8, <1>10, <1>11, <1>12, <1>13 DEF IInv

\* An address told of is one the query leased at most a tick ago, unless others' answers took it.
LEMMA AnswersKeeps ==
  ASSUME IInv, NEW q \in Slots, Answers(q)
  PROVE  IInv'
<1>1. NoQuery \in Query /\ NoQuery.done = {} /\ NoQuery.left = {} /\ NoQuery.age = 0 /\ ~NoQuery.busy
  BY DEF NoQuery, Query
<1>2. queries' = [queries EXCEPT ![q] = NoQuery] /\ UNCHANGED <<final, phase, setVars, link, holdVars>>
  BY DEF Answers
<1>3. TypeOK'
  <2>1. 0 \in 0 .. NotTold /\ NotTold' = NotTold
    BY TTLAssumption DEF NotTold
  <2>2. told' \in [Hosts -> 0 .. NotTold]
    BY <2>1 DEF IInv, TypeOK, Answers
  <2> QED
    BY <1>1, <1>2, <2>1, <2>2 DEF IInv, TypeOK, setVars, holdVars
<1>4. DeadIsGone' /\ PinsAgree'
  BY <1>1, <1>2 DEF IInv, TypeOK, DeadIsGone, PinsAgree, setVars, holdVars, Other
<1>5. QueriesFresh'
  BY <1>1, <1>2 DEF IInv, TypeOK, QueriesFresh, setVars
<1>6. ToldIsLeased'
  <2> SUFFICES ASSUME NEW h \in Hosts, told'[h] <= AnswerTTL
               PROVE  h \in seen /\ since[h] <= told'[h] + 1
    BY <1>2 DEF ToldIsLeased, setVars
  <2>1. told'[h] = IF h \in queries[q].done \cap seen THEN 0 ELSE told[h]
    BY DEF Answers
  <2>2. CASE h \in queries[q].done \cap seen
    <3>1. queries[q].age \in 0 .. 1 /\ since[h] \in Nat
      BY TTLAssumption DEF IInv, TypeOK, Query
    <3> QED
      BY <2>1, <2>2, <3>1 DEF IInv, QueriesFresh
  <2>3. CASE h \notin queries[q].done \cap seen
    BY <2>1, <2>3 DEF IInv, ToldIsLeased
  <2> QED
    BY <2>2, <2>3
<1>7. DirectLaid' /\ TunnelLaid'
  BY <1>2 DEF IInv, DirectLaid, TunnelLaid, setVars, holdVars, Other
<1> QED
  BY <1>3, <1>4, <1>5, <1>6, <1>7 DEF IInv

\* What has expired is older than any answer still in use.
LEMMA ExpireKeeps ==
  ASSUME IInv, Expire
  PROVE  IInv'
<1> DEFINE gone == {h \in seen : since[h] > RouteTTL}
<1>1. /\ system' = Unrouted(system, gone, Other) /\ seen' = seen \ gone /\ since' = Without(gone)
      /\ UNCHANGED <<final, phase, pinned, queries, link, holdVars, told>> /\ phase # "starting"
  BY DEF Expire
<1>2. Other \in {"direct", "tunnel"} /\ Other' = Other /\ system \in Kernel /\ Other \in Ways
      /\ gone \in SUBSET Hosts /\ gone \subseteq seen
  BY <1>1, OtherWays DEF IInv, TypeOK, Kernel, Other, Ways
<1>3. \A h \in Hosts : told[h] <= AnswerTTL => h \notin gone
  <2> SUFFICES ASSUME NEW h \in Hosts, told[h] <= AnswerTTL
               PROVE  h \in seen /\ since[h] <= RouteTTL
    BY TTLAssumption DEF IInv, TypeOK
  <2>1. since[h] \in Nat /\ told[h] \in Nat
    BY TTLAssumption DEF IInv, TypeOK, NotTold
  <2> QED
    BY <2>1, TTLAssumption DEF IInv, ToldIsLeased
<1>4. /\ system' \in Kernel
      /\ Other = "direct" => system'.rules = system.rules \ gone /\ system'.main = system.main
      /\ Other = "tunnel" => \A k \in Hosts \ gone : system'.main[k] = system.main[k]
  <2> HIDE DEF gone
  <2>1. system' \in Kernel
    BY <1>1, <1>2, UnroutedKernel
  <2>2. Other = "direct" => system'.rules = system.rules \ gone /\ system'.main = system.main
    BY <1>1, <1>2, UnroutedRules
  <2>3. ASSUME Other = "tunnel", NEW k \in Hosts \ gone
        PROVE  system'.main[k] = system.main[k]
    BY <1>1, <1>2, <2>3, UnroutedRoutes
  <2> QED
    BY <2>1, <2>2, <2>3
<1>5. since' \in [Hosts -> 0 .. RouteTTL + 1] /\ \A k \in Hosts \ gone : since'[k] = since[k]
  BY <1>1, TTLAssumption DEF IInv, TypeOK, Without
<1> HIDE DEF gone
<1>6. TypeOK'
  <2>1. NotTold' = NotTold
    BY DEF NotTold
  <2>2. seen' \subseteq Hosts
    BY <1>1 DEF IInv, TypeOK
  <2> QED
    BY <1>1, <1>4, <1>5, <2>1, <2>2 DEF IInv, TypeOK, holdVars, Kernel
<1>7. DeadIsGone' /\ PinsAgree'
  BY <1>1, <1>2 DEF IInv, DeadIsGone, PinsAgree, holdVars
<1>8. QueriesFresh'
  <2>0. \A h \in seen' : h \in Hosts /\ h \in seen /\ h \notin gone
    BY <1>1 DEF IInv, TypeOK
  <2> QED
    BY <1>1, <1>5, <2>0 DEF IInv, QueriesFresh
<1>9. ToldIsLeased'
  BY <1>1, <1>3, <1>5 DEF IInv, ToldIsLeased
<1>10. DirectLaid'
  BY <1>1, <1>2, <1>4 DEF IInv, DirectLaid, holdVars
<1>11. TunnelLaid'
  BY <1>1, <1>2, <1>4 DEF IInv, TunnelLaid, holdVars, TypeOK
<1> QED
  BY <1>6, <1>7, <1>8, <1>9, <1>10, <1>11 DEF IInv

\* Every age grows by one alike, up to where only its being too old matters.
LEMMA TickKeeps ==
  ASSUME IInv, Tick
  PROVE  IInv'
<1>1. /\ since' = [h \in Hosts |-> IF h \in seen THEN Aged(since[h]) ELSE 0]
      /\ told' = [h \in Hosts |-> IF told[h] = NotTold THEN NotTold ELSE told[h] + 1]
      /\ queries' = [q \in Slots |-> [queries[q] EXCEPT !.age = IF queries[q].busy THEN 1 ELSE 0]]
      /\ UNCHANGED <<final, phase, pinned, seen, system, link, holdVars>>
      /\ \A q \in Slots : queries[q].age = 0
      /\ phase # "starting"
  BY DEF Tick
<1>2. \A h \in Hosts : /\ since[h] \in Nat /\ since[h] <= RouteTTL + 1
                       /\ Aged(since[h]) \in 0 .. RouteTTL + 1 /\ Aged(since[h]) <= since[h] + 1
  BY TTLAssumption DEF IInv, TypeOK, Aged
<1>3. \A q \in Slots : /\ queries'[q] \in Query
                       /\ queries'[q].busy = queries[q].busy
                       /\ queries'[q].left = queries[q].left
                       /\ queries'[q].done = queries[q].done
                       /\ queries[q].busy => queries'[q].age = 1
  BY <1>1 DEF IInv, TypeOK, Query
<1>4. TypeOK'
  <2>1. NotTold' = NotTold /\ NotTold \in Nat
    BY TTLAssumption DEF NotTold
  <2>2. told' \in [Hosts -> 0 .. NotTold]
    <3> SUFFICES ASSUME NEW h \in Hosts
                 PROVE  (IF told[h] = NotTold THEN NotTold ELSE told[h] + 1) \in 0 .. NotTold
      BY <1>1
    <3>1. told[h] \in 0 .. NotTold
      BY DEF IInv, TypeOK
    <3> QED
      BY <2>1, <3>1
  <2>3. since' \in [Hosts -> 0 .. RouteTTL + 1]
    BY <1>1, <1>2, TTLAssumption
  <2>4. queries' \in [Slots -> Query]
    BY <1>1, <1>3
  <2> QED
    BY <1>1, <2>1, <2>2, <2>3, <2>4 DEF IInv, TypeOK, holdVars
<1>5. DeadIsGone' /\ PinsAgree'
  BY <1>1 DEF IInv, DeadIsGone, PinsAgree, holdVars, Other
<1>6. QueriesFresh'
  <2> SUFFICES ASSUME NEW q \in Slots
               PROVE  /\ ~queries'[q].busy => queries'[q].left = {} /\ queries'[q].done = {}
                      /\ \A h \in queries'[q].done \cap seen' : since'[h] <= queries'[q].age
    BY DEF QueriesFresh
  <2>1. ASSUME NEW h \in queries[q].done \cap seen
        PROVE  since'[h] <= queries'[q].age
    <3>1. queries[q].busy /\ since[h] <= 0 /\ h \in Hosts
      BY <1>1 DEF IInv, QueriesFresh, TypeOK
    <3>2. since'[h] = Aged(since[h]) /\ queries'[q].age = 1 /\ Aged(since[h]) \in Int
      BY <1>1, <1>2, <1>3, <3>1, TTLAssumption
    <3> QED
      BY <1>2, <3>1, <3>2
  <2> QED
    BY <1>1, <1>3, <2>1 DEF IInv, QueriesFresh
<1>7. ToldIsLeased'
  <2> SUFFICES ASSUME NEW h \in Hosts, told'[h] <= AnswerTTL
               PROVE  h \in seen' /\ since'[h] <= told'[h] + 1
    BY DEF ToldIsLeased
  <2>1. told[h] \in Nat /\ told'[h] = told[h] + 1
    BY <1>1, TTLAssumption DEF IInv, TypeOK, NotTold
  <2>2. h \in seen /\ since[h] <= told[h] + 1
    BY <2>1, TTLAssumption DEF IInv, ToldIsLeased
  <2>3. since'[h] = Aged(since[h]) /\ Aged(since[h]) \in Int
    BY <1>1, <1>2, <2>2, TTLAssumption
  <2> QED
    BY <1>1, <1>2, <2>1, <2>2, <2>3
<1>8. DirectLaid' /\ TunnelLaid'
  BY <1>1 DEF IInv, DirectLaid, TunnelLaid, holdVars, Other
<1> QED
  BY <1>4, <1>5, <1>6, <1>7, <1>8 DEF IInv

\* The interface takes its routes; what failClosed has laid before is no more than it was.
LEMMA DaemonDiesKeeps ==
  ASSUME IInv, DaemonDies
  PROVE  IInv'
<1>1. /\ link /\ ~link'
      /\ system' = [system EXCEPT !.main = [h \in Hosts |-> IF @[h] = "tunnel" THEN "none" ELSE @[h]]]
      /\ UNCHANGED <<final, phase, pinned, seen, since, queries, holdVars, told>>
  BY DEF DaemonDies
<1>2. /\ system'.rules = system.rules
      /\ system'.main = [h \in Hosts |-> IF system.main[h] = "tunnel" THEN "none" ELSE system.main[h]]
      /\ system' \in Kernel
  BY <1>1 DEF IInv, TypeOK, Kernel
<1>3. TypeOK'
  BY <1>1, <1>2 DEF IInv, TypeOK, holdVars, Kernel, DaemonDies, NotTold
<1>4. DeadIsGone' /\ PinsAgree'
  BY <1>1 DEF IInv, DeadIsGone, PinsAgree, holdVars, Other
<1>5. QueriesFresh' /\ ToldIsLeased'
  BY <1>1 DEF IInv, QueriesFresh, ToldIsLeased
<1>6. DirectLaid'
  BY <1>1, <1>2 DEF IInv, DirectLaid, holdVars, Other
<1>7. TunnelLaid'
  BY <1>1, <1>2 DEF IInv, TunnelLaid, DeadIsGone, holdVars, Other
<1> QED
  BY <1>3, <1>4, <1>5, <1>6, <1>7 DEF IInv

LEMMA MarksKeeps ==
  ASSUME IInv, Marks
  PROVE  IInv'
<1>1. TypeOK'
  BY DEF IInv, TypeOK, Marks, setVars
<1>2. DeadIsGone' /\ PinsAgree'
  BY DEF IInv, DeadIsGone, PinsAgree, Marks, setVars, Other
<1>3. QueriesFresh' /\ ToldIsLeased' /\ DirectLaid' /\ TunnelLaid'
  BY DEF IInv, QueriesFresh, ToldIsLeased, DirectLaid, TunnelLaid, Marks, setVars, Other
<1> QED
  BY <1>1, <1>2, <1>3 DEF IInv

\* failClosed lists whatever is leased into the tunnel, and no rule points there otherwise.
LEMMA ListsKeeps ==
  ASSUME IInv, Lists
  PROVE  IInv'
<1>1. /\ hold' = "laying" /\ toHold' = Entries("tunnel") /\ hold = "marked"
      /\ UNCHANGED <<final, phase, setVars, queries, link, dead, unlaid, late, told>>
  BY DEF Lists
<1>2. Other \in {"direct", "tunnel"} /\ Other' = Other
  BY <1>1, OtherWays DEF IInv, Other
<1>3. TypeOK'
  BY <1>1 DEF IInv, TypeOK, setVars, Entries
<1>4. DeadIsGone' /\ PinsAgree'
  BY <1>1, <1>2 DEF IInv, DeadIsGone, PinsAgree, setVars
<1>5. QueriesFresh' /\ ToldIsLeased'
  BY <1>1 DEF IInv, QueriesFresh, ToldIsLeased, setVars
<1>6. DirectLaid'
  BY <1>1, <1>2 DEF IInv, DirectLaid, PinsAgree, Entries, setVars
<1>7. TunnelLaid'
  BY <1>1, <1>2 DEF IInv, DeadIsGone, TunnelLaid, Entries, setVars
<1> QED
  BY <1>3, <1>4, <1>5, <1>6, <1>7 DEF IInv

LEMMA LaysKeeps ==
  ASSUME IInv, NEW h \in Hosts, Lays(h)
  PROVE  IInv'
<1>1. /\ hold = "laying" /\ h \in toHold /\ toHold' = toHold \ {h} /\ dead /\ ~link
      /\ UNCHANGED <<final, phase, pinned, seen, since, queries, link, dead, hold, told>>
  BY DEF Lays, IInv, DeadIsGone
<1>2. Other = "tunnel" /\ Other' = Other
  BY <1>1, OtherWays DEF IInv, DirectLaid, Other
<1>3. /\ system' \in Kernel
      /\ \A k \in Hosts \ {h} : system'.main[k] = system.main[k]
      /\ \/ system'.main[h] = "hole" /\ unlaid' = unlaid
         \/ system' = system /\ unlaid' = unlaid \cup {h}
      /\ late' \subseteq Hosts
  <2>1. system \in Kernel /\ "tunnel" \in Ways /\ late \subseteq Hosts
    BY DEF IInv, TypeOK, Kernel, Ways
  <2>2. /\ Routed(system, h, "tunnel") \in Kernel
        /\ Routed(system, h, "tunnel").main[h] = "hole"
        /\ \A k \in Hosts \ {h} : Routed(system, h, "tunnel").main[k] = system.main[k]
    BY <1>1, <2>1, RoutedLays DEF Kind
  <2> QED
    BY <2>1, <2>2 DEF Lays
<1>4. TypeOK'
  BY <1>1, <1>3 DEF IInv, TypeOK, Kernel, NotTold
<1>5. DeadIsGone' /\ PinsAgree'
  BY <1>1, <1>2 DEF IInv, DeadIsGone, PinsAgree
<1>6. QueriesFresh' /\ ToldIsLeased'
  BY <1>1 DEF IInv, QueriesFresh, ToldIsLeased
<1>7. DirectLaid'
  BY <1>2 DEF DirectLaid
<1>8. TunnelLaid'
  BY <1>1, <1>2, <1>3 DEF IInv, TypeOK, TunnelLaid
<1> QED
  BY <1>4, <1>5, <1>6, <1>7, <1>8 DEF IInv

LEMMA HoldsKeeps ==
  ASSUME IInv, Holds
  PROVE  IInv'
<1>1. TypeOK'
  BY DEF IInv, TypeOK, Holds, setVars
<1>2. DeadIsGone' /\ PinsAgree'
  BY DEF IInv, DeadIsGone, PinsAgree, Holds, setVars, Other
<1>3. QueriesFresh' /\ ToldIsLeased' /\ DirectLaid' /\ TunnelLaid'
  BY DEF IInv, QueriesFresh, ToldIsLeased, DirectLaid, TunnelLaid, Holds, setVars, Other
<1> QED
  BY <1>1, <1>2, <1>3 DEF IInv

LEMMA CloseBeginsKeeps ==
  ASSUME IInv, CloseBegins
  PROVE  IInv'
<1>1. TypeOK'
  BY DEF IInv, TypeOK, CloseBegins, setVars, holdVars
<1>2. DeadIsGone' /\ PinsAgree'
  BY DEF IInv, DeadIsGone, PinsAgree, CloseBegins, setVars, holdVars, Other
<1>3. QueriesFresh' /\ ToldIsLeased' /\ DirectLaid' /\ TunnelLaid'
  BY DEF IInv, QueriesFresh, ToldIsLeased, DirectLaid, TunnelLaid, CloseBegins, setVars, holdVars, Other
<1> QED
  BY <1>1, <1>2, <1>3 DEF IInv

\* Nothing is leased or told of any more; the black holes of the blocked go with their pins.
LEMMA ClosedKeeps ==
  ASSUME IInv, Closed
  PROVE  IInv'
<1> DEFINE pinnedTo(way) == {h \in Hosts : pinned[h] = way}
           leases == Unrouted(system, seen, Other)
           others == Unrouted(leases, pinnedTo(Other), Other)
<1>1. /\ phase' = "closed" /\ seen' = {} /\ since' = [h \in Hosts |-> 0]
      /\ system' = Unrouted(others, pinnedTo("block"), "block")
      /\ pinned' = [h \in Hosts |-> "none"] /\ told' = [h \in Hosts |-> NotTold]
      /\ UNCHANGED <<final, queries, link, holdVars>>
  BY DEF Closed
<1>2. /\ Other \in {"direct", "tunnel"} /\ Other' = Other /\ system \in Kernel /\ Other \in Ways
      /\ "block" \in Ways /\ seen \in SUBSET Hosts
  BY <1>1, OtherWays DEF IInv, TypeOK, Kernel, Other, Ways
<1>3. leases \in Kernel /\ (Other = "direct" => leases.main = system.main)
  BY <1>2, UnroutedKernel, UnroutedRules
<1>4. others \in Kernel /\ (Other = "direct" => others.main = leases.main)
  <2>1. pinnedTo(Other) \in SUBSET Hosts
    OBVIOUS
  <2> HIDE DEF leases, pinnedTo
  <2> QED
    BY <1>2, <1>3, <2>1, UnroutedKernel, UnroutedRules
<1>5. /\ system' \in Kernel
      /\ \A h \in Hosts : /\ system'.main[h] \in {others.main[h], "none"}
                          /\ pinned[h] = "block" /\ others.main[h] = "hole" => system'.main[h] = "none"
  <2>1. pinnedTo("block") \in SUBSET Hosts /\ Kind("block") = "hole"
        /\ \A h \in Hosts : pinned[h] = "block" => h \in pinnedTo("block")
    BY DEF Kind
  <2> HIDE DEF others, pinnedTo
  <2>2. system' \in Kernel
    BY <1>1, <1>2, <1>4, <2>1, UnroutedKernel
  <2>3. ASSUME NEW h \in Hosts
        PROVE  /\ system'.main[h] \in {others.main[h], "none"}
               /\ pinned[h] = "block" /\ others.main[h] = "hole" => system'.main[h] = "none"
    BY <1>1, <1>2, <1>4, <2>1, UnroutedRoutes
  <2> QED
    BY <2>2, <2>3
<1>6. TypeOK'
  <2>1. NotTold \in 0 .. NotTold /\ NotTold' = NotTold /\ 0 \in 0 .. RouteTTL + 1
    BY TTLAssumption DEF NotTold
  <2>2. told' \in [Hosts -> 0 .. NotTold] /\ since' \in [Hosts -> 0 .. RouteTTL + 1]
    BY <1>1, <2>1
  <2>3. pinned' \in [Hosts -> Ways \cup {"none"}] /\ seen' \subseteq Hosts
    BY <1>1
  <2> QED
    BY <1>1, <1>5, <2>1, <2>2, <2>3 DEF IInv, TypeOK, Kernel, holdVars
<1>7. DeadIsGone' /\ PinsAgree'
  BY <1>1 DEF IInv, DeadIsGone, PinsAgree, holdVars
<1>8. QueriesFresh' /\ TunnelLaid'
  BY <1>1 DEF IInv, QueriesFresh, TunnelLaid
<1>9. ToldIsLeased'
  BY <1>1, TTLAssumption DEF ToldIsLeased, NotTold
<1>10. DirectLaid'
  <2> SUFFICES ASSUME Other = "direct"
               PROVE  toHold = {} /\ \A h \in Hosts : system'.main[h] = "none"
    BY <1>1, <1>2 DEF DirectLaid, holdVars
  <2> QED
    BY <1>3, <1>4, <1>5 DEF IInv, DirectLaid
<1> QED
  BY <1>6, <1>7, <1>8, <1>9, <1>10 DEF IInv

LEMMA Inductive == IInv /\ [Next]_vars => IInv'
<1> SUFFICES ASSUME IInv, [Next]_vars PROVE IInv'
  OBVIOUS
<1>1. ASSUME NEW h \in Hosts, NEW way \in Ways, Pin(h, way) PROVE IInv'
  BY <1>1, PinKeeps
<1>2. CASE Serves
  BY <1>2, ServesKeeps
<1>3. ASSUME NEW q \in Slots, Asked(q) PROVE IInv'
  BY <1>3, AskedKeeps
<1>4. ASSUME NEW q \in Slots, Diverts(q) PROVE IInv'
  BY <1>4, EnsureKeeps DEF Diverts
<1>5. ASSUME NEW q \in Slots, Answers(q) PROVE IInv'
  BY <1>5, AnswersKeeps
<1>6. CASE Expire
  BY <1>6, ExpireKeeps
<1>7. CASE Tick
  BY <1>7, TickKeeps
<1>8. CASE DaemonDies
  BY <1>8, DaemonDiesKeeps
<1>9. CASE Marks
  BY <1>9, MarksKeeps
<1>10. CASE Lists
  BY <1>10, ListsKeeps
<1>11. CASE Holds
  BY <1>11, HoldsKeeps
<1>12. ASSUME NEW h \in Hosts, Lays(h) PROVE IInv'
  BY <1>12, LaysKeeps
<1>13. CASE CloseBegins
  BY <1>13, CloseBeginsKeeps
<1>14. CASE Closed
  BY <1>14, ClosedKeeps
<1>15. CASE UNCHANGED vars
  <2>1. TypeOK' /\ DeadIsGone' /\ PinsAgree' /\ QueriesFresh'
    BY <1>15 DEF IInv, TypeOK, DeadIsGone, PinsAgree, QueriesFresh, vars, setVars, holdVars, Other, NotTold
  <2>2. ToldIsLeased' /\ DirectLaid' /\ TunnelLaid'
    BY <1>15 DEF IInv, ToldIsLeased, DirectLaid, TunnelLaid, vars, setVars, holdVars, Other
  <2> QED
    BY <2>1, <2>2 DEF IInv
<1> QED
  BY <1>1, <1>2, <1>3, <1>4, <1>5, <1>6, <1>7, <1>8, <1>9, <1>10, <1>11, <1>12, <1>13, <1>14, <1>15
  DEF Next

\* Every state that the forwarder reaches has the invariant.
THEOREM Invariance == Spec => []IInv
  BY InitHolds, Inductive, PTL DEF Spec

-----------------------------------------------------------------------------
(* What the invariant says of the traffic *)

\* The leased go the other way, and where it was the dead tunnel they are blocked.
LEMMA LeasedAreRouted ==
  ASSUME IInv, Steady, NEW h \in seen \ unlaid, pinned[h] = "none" \/ Other = "tunnel"
  PROVE  Kept(h, Other)
<1>1. Other \in {"direct", "tunnel"} /\ h \in Hosts
  BY OtherWays DEF IInv, TypeOK
<1>2. CASE Other = "direct"
  <2>1. system.main[h] = "none" /\ h \in system.rules
    BY <1>1, <1>2 DEF IInv, DirectLaid
  <2> QED
    BY <1>2, <2>1 DEF Kept, WayTo
<1>3. CASE Other = "tunnel" /\ link
  BY <1>3 DEF IInv, TunnelLaid, Kept, WayTo
<1>4. CASE Other = "tunnel" /\ ~link
  BY <1>4 DEF IInv, TunnelLaid, Kept, WayTo, Steady
<1> QED
  BY <1>1, <1>2, <1>3, <1>4

\* An address that a program was given goes where the rule sends its name, for as long as the
\* program may use the answer.
THEOREM Answered == Spec => []AnsweredIsRouted
<1>1. IInv => AnsweredIsRouted
  <2> SUFFICES ASSUME IInv, Steady, NEW h \in Hosts \ unlaid, told[h] <= AnswerTTL, pinned[h] = "none"
               PROVE  Kept(h, Other)
    BY DEF AnsweredIsRouted
  <2>1. h \in seen
    BY DEF IInv, ToldIsLeased
  <2> QED
    BY <2>1, LeasedAreRouted
<1> QED
  BY <1>1, Invariance, PTL

\* After failClosed nothing that a rule sends into the tunnel takes the physical network.
THEOREM Held == Spec => []HeldWhenDead
<1>1. IInv => HeldWhenDead
  BY DEF HeldWhenDead, WayTo, IInv, TunnelLaid
<1> QED
  BY <1>1, Invariance, PTL

----------------------------------------------------------------------------
(* The tunnel on Windows.  What a crash may leave is known at every step:  *)
(* every direct route is in the memory of the run or in split.json, or is  *)
(* a crash's; the rule of the DNS Client is the run's; a tunnel with rules *)
(* has its proxy, or a record of it for the next start.                    *)

Jobs == [what : {"none", "boot", "up", "down", "stop"}, at : W!Steps, then : W!Steps,
         mode : W!Modes, pid : Nat, saved : SUBSET Dests]
Tunnels == [st : {"none", "stopped", "running"}, doomed : BOOLEAN, mode : W!Modes]
Runs == [mode : {"none", "proxy", "direct"}, best : Gateways \cup {NoGateway},
         tun : BOOLEAN, nrpt : BOOLEAN]
Records == [mode : {"none", "proxy", "direct"}, routes : SUBSET Dests]
WindowsTyped ==
    /\ helper \in {"off", "boot", "ready", "dead"}
    /\ job \in Jobs
    /\ app \in [n : Nat, alive : BOOLEAN] /\ follows \in Nat
    /\ tun \in Tunnels
    /\ state \in [pid : Nat, id : W!Modes]
    /\ splitFile \in Records
    /\ nrpt \in BOOLEAN
    /\ run \in Runs
    /\ held \subseteq Dests /\ noted \subseteq Dests
    /\ direct \in [Dests -> SUBSET Gateways] /\ placed \in [Dests -> Gateways \cup {NoGateway}]
    /\ gateway \in Gateways \cup {NoGateway}

\* Which steps a boot, an `up` and a teardown go through.
Placing ==
    /\ helper \in {"off", "dead"} => job.what = "none"
    /\ helper = "boot" <=> job.what = "boot"
    /\ job.what = "none" => job.at = "end"
    /\ job.what = "boot" =>
        /\ job.at \in W!Teardown \cup {"tunnel", "leftovers", "restart", "proxy", "attach", "pins",
                                       "rule", "adopt", "end"}
        /\ job.at \in W!Teardown => job.then = "leftovers"
    /\ job.what = "up" =>
        /\ job.at \in W!Teardown \cup {"check", "split", "conf", "start", "failed", "attach", "pins",
                                       "rule", "save", "end"}
        /\ job.at \in W!Teardown => job.then \in {"split", "end"}
    /\ job.what \in {"down", "stop"} => job.at \in W!Teardown \cup {"end"} /\ job.then = "end"

\* The files of the service before have not been looked at yet.
Unread == helper = "dead" \/ (job.what = "boot" /\ job.at \in W!Teardown \cup {"tunnel", "leftovers", "restart"})
\* No tunnel is registered, or it goes as soon as its process ends.
Over == tun.st = "none" \/ tun.doomed

\* Where no proxy runs.
Alone ==
    \/ helper = "off" \/ Unread \/ job.at \in {"proxy", "clear"}
    \/ job.what = "stop" /\ job.at = "end"
NoProxyYet == Alone => ~W!HasSplit
\* Without a proxy nothing is held, and only what is held has been put anywhere.
HeldKnown ==
    /\ ~W!HasSplit => held = {} /\ noted = {} /\ ~run.nrpt
    /\ \A x \in Dests : placed[x] # NoGateway => x \in held
\* A direct route is where the run put it, or in the split.json of the run before, or no record names it.
RoutesKnown ==
    \A x \in Dests : \A g \in direct[x] :
        <<x, g>> \in orphans \/ placed[x] = g \/ (Unread /\ x \in splitFile.routes)
\* Without a proxy there is no split.json, and the rule of the DNS Client is taken back by who put it,
\* unless it was half-written.
RecordsKnown ==
    ~Unread => /\ ~W!HasSplit => splitFile = W!NoSplitFile
               /\ nrpt => "rule" \in excused \/ (W!HasSplit /\ run.nrpt)
\* A .conf without a tunnel is about to be used or removed, unless a crash or the disk left it.
ConfKnown ==
    Over => conf = "none" \/ "conf" \in excused \/ job.at \in {"start", "failed", "halt", "delete"}
\* Past the deletion of the service, and until a new one runs, there is no tunnel to keep, unless the
\* SCM did not give it to us.
OverAt == job.at \in {"unsplit", "clear", "split", "conf", "start"} => Over \/ "unanswered" \in excused
\* A proxy without a tunnel waits for one, or is being stopped, unless a doomed tunnel was kept.
KeptKnown ==
    Over /\ W!HasSplit =>
        "kept" \in excused \/ job.at \in {"conf", "start", "failed", "halt", "delete", "unsplit"}
\* A start goes on with a tunnel that is over only when it kept a doomed one.
RestartKnown == Over /\ job.at \in {"restart", "proxy"} => "kept" \in excused
\* What a proxy is needed for has one, and a record of it.
ModeKnown ==
    /\ job.at \in {"conf", "start"} /\ job.mode # "full" => W!HasSplit /\ splitFile.mode # "none"
    /\ job.at \in {"attach", "pins", "rule", "adopt"} => W!HasSplit
    /\ job.at = "proxy" => job.mode # "full"
\* A tunnel with rules has its proxy, or the next start can tell by split.json that it needs one.
AnswersKnown ==
    W!Adapter /\ ~tun.doomed /\ tun.mode # "full" =>
        \/ "unanswered" \in excused
        \/ splitFile.mode # "none" /\ W!HasSplit
        \/ splitFile.mode # "none" /\ Unread /\ job.at # "leftovers"
        \/ W!Unrecorded
WindowsInv ==
    /\ WindowsTyped /\ Placing /\ NoProxyYet /\ HeldKnown /\ RoutesKnown /\ RecordsKnown /\ ConfKnown /\ OverAt
    /\ KeptKnown /\ RestartKnown /\ ModeKnown /\ AnswersKnown

LEMMA AllSteps ==
  W!Steps = {"halt", "delete", "unsplit", "clear", "tunnel", "leftovers", "restart", "proxy", "attach", "pins",
             "rule", "adopt", "check", "split", "conf", "start", "failed", "save", "end"}
  BY DEF W!Steps, W!Teardown

\* What the two ways on do to the job.
LEMMA Going ==
  ASSUME WindowsTyped, NEW step, W!Goes(step)
  PROVE  /\ job'.at = step /\ job'.what = job.what /\ job'.then = job.then
         /\ job'.mode = job.mode /\ job'.pid = job.pid /\ job'.saved = job.saved
         /\ step \in W!Steps => job' \in Jobs
  BY DEF WindowsTyped, Jobs, W!Goes

LEMMA Tearing ==
  ASSUME WindowsTyped, NEW then, W!TearsDown(then)
  PROVE  /\ job'.at = "halt" /\ job'.what = job.what /\ job'.then = then
         /\ job'.mode = job.mode /\ job'.pid = job.pid /\ job'.saved = job.saved
         /\ then \in W!Steps => job' \in Jobs
  BY AllSteps DEF WindowsTyped, Jobs, W!TearsDown

LEMMA Fields ==
  ASSUME WindowsTyped
  PROVE  /\ job.what \in {"none", "boot", "up", "down", "stop"} /\ job.at \in W!Steps /\ job.then \in W!Steps
         /\ job.mode \in W!Modes /\ job.pid \in Nat /\ job.saved \subseteq Dests
         /\ tun.st \in {"none", "stopped", "running"} /\ tun.doomed \in BOOLEAN /\ tun.mode \in W!Modes
         /\ run.mode \in {"none", "proxy", "direct"} /\ run.best \in Gateways \cup {NoGateway}
         /\ run.tun \in BOOLEAN /\ run.nrpt \in BOOLEAN
         /\ splitFile.mode \in {"none", "proxy", "direct"} /\ splitFile.routes \subseteq Dests
  BY DEF WindowsTyped, Jobs, Tunnels, Runs, Records

LEMMA NoneYet ==
  /\ W!NoTunnel \in Tunnels /\ W!NoTunnel.st = "none" /\ ~W!NoTunnel.doomed
  /\ W!NoRun \in Runs /\ W!NoRun.mode = "none" /\ ~W!NoRun.nrpt
  /\ W!NoJob \in Jobs /\ W!NoJob.what = "none" /\ W!NoJob.at = "end" /\ W!NoJob.then = "end"
  /\ W!NoSplitFile \in Records /\ W!NoSplitFile.mode = "none" /\ W!NoSplitFile.routes = {}
  BY AllSteps DEF Jobs, Tunnels, Runs, Records, W!NoTunnel, W!NoRun, W!NoJob, W!NoSplitFile, W!Modes

\* A job begun.
LEMMA Begun ==
  ASSUME NEW what \in {"boot", "up", "down", "stop"}, NEW at \in W!Steps,
         job' = [W!NoJob EXCEPT !.what = what, !.at = at]
  PROVE  job' \in Jobs /\ job'.what = what /\ job'.at = at /\ job'.then = "end"
  BY NoneYet DEF Jobs

LEMMA RequestBegun ==
  ASSUME NEW what \in {"boot", "up", "down", "stop"}, NEW at \in W!Steps, NEW mode \in W!Modes,
         NEW pid \in Nat,
         job' = [W!NoJob EXCEPT !.what = what, !.at = at, !.mode = mode, !.pid = pid]
  PROVE  job' \in Jobs /\ job'.what = what /\ job'.at = at /\ job'.then = "end"
  BY NoneYet DEF Jobs

\* A tunnel whose process ends.
LEMMA Ending ==
  ASSUME WindowsTyped, W!Adapter, W!TunnelStops
  PROVE  /\ tun' \in Tunnels /\ tun'.st # "running" /\ ~tun'.doomed
         /\ tun'.st = "none" <=> tun.doomed
<1>1. CASE tun.doomed
  BY <1>1, NoneYet DEF W!TunnelStops, W!Gone
<1>2. CASE ~tun.doomed
  <2>1. tun' = [tun EXCEPT !.st = "stopped"] BY <1>2 DEF W!TunnelStops, W!Gone
  <2> QED BY <1>2, <2>1 DEF Tunnels, WindowsTyped
<1> QED BY <1>1, <1>2

\* splitRun.stop leaves nothing but what no record names.
LEMMA RunStops ==
  ASSUME WindowsTyped, HeldKnown, RoutesKnown, RecordsKnown, ~Unread, W!StopsRun
  PROVE  /\ run' \in Runs /\ run'.mode = "none" /\ ~run'.nrpt /\ held' = {} /\ noted' = {}
         /\ splitFile' = W!NoSplitFile /\ nrpt' \in BOOLEAN /\ (nrpt' => "rule" \in excused)
         /\ direct' \in [Dests -> SUBSET Gateways] /\ \A x \in Dests : placed'[x] = NoGateway
         /\ placed' \in [Dests -> Gateways \cup {NoGateway}]
         /\ \A x \in Dests : \A g \in direct'[x] : <<x, g>> \in orphans
<1> USE WinAssumption DEF RoutesKnown, WindowsTyped
<1>1. CASE ~W!HasSplit
  <2>1. /\ UNCHANGED <<run, held, noted, placed, direct, nrpt, splitFile>> /\ held = {} /\ noted = {}
        /\ ~run.nrpt /\ splitFile = W!NoSplitFile /\ (nrpt => "rule" \in excused)
    BY <1>1 DEF W!StopsRun, HeldKnown, RecordsKnown
  <2>2. \A x \in Dests : placed[x] = NoGateway
    BY <2>1 DEF HeldKnown
  <2>3. \A x \in Dests : \A g \in direct[x] : g # NoGateway
    OBVIOUS
  <2> QED BY <1>1, <2>1, <2>2, <2>3 DEF W!HasSplit
<1>2. CASE W!HasSplit
  <2>1. /\ held' = {} /\ noted' = {} /\ run' = W!NoRun /\ splitFile' = W!NoSplitFile
        /\ nrpt' = (nrpt /\ ~run.nrpt)
        /\ direct' = [x \in Dests |-> IF x \in held THEN direct[x] \ {placed[x]} ELSE direct[x]]
        /\ placed' = [x \in Dests |-> IF x \in held THEN NoGateway ELSE placed[x]]
    BY <1>2 DEF W!StopsRun, W!Unroutes, W!Unplaced, W!RuleAfter
  <2>2. nrpt' \in BOOLEAN /\ (nrpt' => "rule" \in excused)
    BY <2>1 DEF RecordsKnown
  <2>3. \A x \in Dests : placed'[x] = NoGateway
    BY <2>1 DEF HeldKnown
  <2>4. ASSUME NEW x \in Dests, NEW g \in direct'[x] PROVE <<x, g>> \in orphans
    <3>1. g \in direct[x] /\ g # NoGateway /\ (x \in held => placed[x] # g)
      BY <2>1
    <3>2. x \notin held => placed[x] = NoGateway
      BY DEF HeldKnown
    <3> QED BY <3>1, <3>2
  <2>5. direct' \in [Dests -> SUBSET Gateways] /\ placed' \in [Dests -> Gateways \cup {NoGateway}]
    BY <2>1
  <2> QED BY <2>1, <2>2, <2>3, <2>4, <2>5, NoneYet
<1> QED BY <1>1, <1>2

\* Where a route is laid or replaced, what is there is known or as it was.
LEMMA Laying ==
  ASSUME WindowsTyped, HeldKnown, RoutesKnown, ~Unread, NEW D, D \subseteq Dests,
         NEW gw \in Gateways \cup {NoGateway}, gw # NoGateway \/ run.mode # "proxy",
         W!Routes(D, gw)
  PROVE  /\ direct' \in [Dests -> SUBSET Gateways] /\ placed' \in [Dests -> Gateways \cup {NoGateway}]
         /\ \A x \in Dests : placed'[x] # NoGateway => x \in held \cup D
         /\ \A x \in Dests : \A g \in direct'[x] : <<x, g>> \in orphans \/ placed'[x] = g
<1> USE WinAssumption DEF RoutesKnown, WindowsTyped, HeldKnown
<1>1. CASE run.mode = "proxy"
  <2>1. /\ direct' = [x \in Dests |-> IF x \in D THEN (direct[x] \ {placed[x]}) \cup {gw} ELSE direct[x]]
        /\ placed' = [x \in Dests |-> IF x \in D THEN gw ELSE placed[x]]
    BY <1>1 DEF W!Routes, W!Replaced
  <2> QED BY <1>1, <2>1
<1>2. CASE run.mode # "proxy"
  BY <1>2 DEF W!Routes
<1> QED BY <1>1, <1>2

----------------------------------------------------------------------------
(* Every step keeps it *)

LEMMA WinAppEndsKeeps ==
  ASSUME WindowsInv, W!AppEnds
  PROVE  WindowsInv'
<1> USE WinAssumption, AppsAssumption, Going, Tearing, Fields, NoneYet DEF WindowsInv
<1> USE DEF W!AppEnds, W!Same, W!At, W!Fault, W!files, W!system, W!memory, W!history, W!world
<1>1. WindowsTyped'
  BY AllSteps DEF WindowsTyped, Unread, Over
<1>2. Placing'
  BY DEF Placing, WindowsTyped, Unread, Over, W!Teardown
<1>3. NoProxyYet'
  BY DEF NoProxyYet, WindowsTyped, Alone, Unread, Over, W!Teardown, W!HasSplit
<1>4. HeldKnown'
  BY DEF HeldKnown, WindowsTyped, Unread, Over, W!HasSplit
<1>5. RoutesKnown'
  BY DEF RoutesKnown, WindowsTyped, Unread, Over, W!Teardown
<1>6. RecordsKnown'
  BY DEF RecordsKnown, WindowsTyped, Unread, Over, W!Teardown, W!HasSplit
<1>7. ConfKnown'
  BY DEF ConfKnown, WindowsTyped, Unread, Over
<1>8. OverAt'
  BY DEF OverAt, WindowsTyped, Unread, Over
<1>9. KeptKnown'
  BY DEF KeptKnown, WindowsTyped, Unread, Over, W!HasSplit
<1>10. RestartKnown'
  BY DEF RestartKnown, WindowsTyped, Unread, Over
<1>11. ModeKnown'
  BY DEF ModeKnown, WindowsTyped, Unread, Over, W!HasSplit
<1>12. AnswersKnown'
  BY DEF AnswersKnown, WindowsTyped, Unread, Over, W!Teardown, W!HasSplit, W!Adapter, W!Unrecorded, W!At
<1> QED
  BY <1>1, <1>2, <1>3, <1>4, <1>5, <1>6, <1>7, <1>8, <1>9, <1>10, <1>11, <1>12

LEMMA WinAppStartsKeeps ==
  ASSUME WindowsInv, W!AppStarts
  PROVE  WindowsInv'
<1> USE WinAssumption, AppsAssumption, Going, Tearing, Fields, NoneYet DEF WindowsInv
<1> USE DEF W!AppStarts, W!Same, W!At, W!Fault, W!files, W!system, W!memory, W!history, W!world
<1>1. WindowsTyped'
  BY AllSteps DEF WindowsTyped, Unread, Over
<1>2. Placing'
  BY DEF Placing, WindowsTyped, Unread, Over, W!Teardown
<1>3. NoProxyYet'
  BY DEF NoProxyYet, WindowsTyped, Alone, Unread, Over, W!Teardown, W!HasSplit
<1>4. HeldKnown'
  BY DEF HeldKnown, WindowsTyped, Unread, Over, W!HasSplit
<1>5. RoutesKnown'
  BY DEF RoutesKnown, WindowsTyped, Unread, Over, W!Teardown
<1>6. RecordsKnown'
  BY DEF RecordsKnown, WindowsTyped, Unread, Over, W!Teardown, W!HasSplit
<1>7. ConfKnown'
  BY DEF ConfKnown, WindowsTyped, Unread, Over
<1>8. OverAt'
  BY DEF OverAt, WindowsTyped, Unread, Over
<1>9. KeptKnown'
  BY DEF KeptKnown, WindowsTyped, Unread, Over, W!HasSplit
<1>10. RestartKnown'
  BY DEF RestartKnown, WindowsTyped, Unread, Over
<1>11. ModeKnown'
  BY DEF ModeKnown, WindowsTyped, Unread, Over, W!HasSplit
<1>12. AnswersKnown'
  BY DEF AnswersKnown, WindowsTyped, Unread, Over, W!Teardown, W!HasSplit, W!Adapter, W!Unrecorded, W!At
<1> QED
  BY <1>1, <1>2, <1>3, <1>4, <1>5, <1>6, <1>7, <1>8, <1>9, <1>10, <1>11, <1>12

LEMMA WinNetworkChangesKeeps ==
  ASSUME WindowsInv, W!NetworkChanges
  PROVE  WindowsInv'
<1> USE WinAssumption, AppsAssumption, Going, Tearing, Fields, NoneYet DEF WindowsInv
<1> USE DEF W!NetworkChanges, W!Same, W!At, W!Fault, W!files, W!system, W!memory, W!history,
           W!world
<1>1. WindowsTyped'
  BY AllSteps DEF WindowsTyped, Unread, Over
<1>2. Placing'
  BY DEF Placing, WindowsTyped, Unread, Over, W!Teardown
<1>3. NoProxyYet'
  BY DEF NoProxyYet, WindowsTyped, Alone, Unread, Over, W!Teardown, W!HasSplit
<1>4. HeldKnown'
  BY DEF HeldKnown, WindowsTyped, Unread, Over, W!HasSplit
<1>5. RoutesKnown'
  BY DEF RoutesKnown, WindowsTyped, Unread, Over, W!Teardown
<1>6. RecordsKnown'
  BY DEF RecordsKnown, WindowsTyped, Unread, Over, W!Teardown, W!HasSplit
<1>7. ConfKnown'
  BY DEF ConfKnown, WindowsTyped, Unread, Over
<1>8. OverAt'
  BY DEF OverAt, WindowsTyped, Unread, Over
<1>9. KeptKnown'
  BY DEF KeptKnown, WindowsTyped, Unread, Over, W!HasSplit
<1>10. RestartKnown'
  BY DEF RestartKnown, WindowsTyped, Unread, Over
<1>11. ModeKnown'
  BY DEF ModeKnown, WindowsTyped, Unread, Over, W!HasSplit
<1>12. AnswersKnown'
  BY DEF AnswersKnown, WindowsTyped, Unread, Over, W!Teardown, W!HasSplit, W!Adapter, W!Unrecorded, W!At
<1> QED
  BY <1>1, <1>2, <1>3, <1>4, <1>5, <1>6, <1>7, <1>8, <1>9, <1>10, <1>11, <1>12

LEMMA WinTunnelDiesKeeps ==
  ASSUME WindowsInv, W!TunnelDies
  PROVE  WindowsInv'
<1> USE WinAssumption, AppsAssumption, Going, Tearing, Fields, NoneYet DEF WindowsInv
<1> USE DEF W!TunnelDies, W!Adapter, W!Same, W!At, W!Fault, W!files, W!system, W!memory, W!history,
           W!world
<1>1. WindowsTyped'
  BY AllSteps, Ending DEF WindowsTyped, Unread, Over
<1>2. Placing'
  BY Ending DEF Placing, WindowsTyped, Unread, Over, W!Teardown
<1>3. NoProxyYet'
  BY Ending DEF NoProxyYet, WindowsTyped, Alone, Unread, Over, W!Teardown, W!HasSplit
<1>4. HeldKnown'
  BY Ending DEF HeldKnown, WindowsTyped, Unread, Over, W!HasSplit
<1>5. RoutesKnown'
  BY Ending DEF RoutesKnown, WindowsTyped, Unread, Over, W!Teardown
<1>6. RecordsKnown'
  BY Ending DEF RecordsKnown, WindowsTyped, Unread, Over, W!Teardown, W!HasSplit
<1>7. ConfKnown'
  BY Ending DEF ConfKnown, WindowsTyped, Unread, Over
<1>8. OverAt'
  BY Ending DEF OverAt, WindowsTyped, Unread, Over
<1>9. KeptKnown'
  BY Ending DEF KeptKnown, WindowsTyped, Unread, Over, W!HasSplit
<1>10. RestartKnown'
  BY Ending DEF RestartKnown, WindowsTyped, Unread, Over
<1>11. ModeKnown'
  BY Ending DEF ModeKnown, WindowsTyped, Unread, Over, W!HasSplit
<1>12. AnswersKnown'
  BY Ending DEF AnswersKnown, WindowsTyped, Unread, Over, W!Teardown, W!HasSplit, W!Adapter, W!Unrecorded, W!At
<1> QED
  BY <1>1, <1>2, <1>3, <1>4, <1>5, <1>6, <1>7, <1>8, <1>9, <1>10, <1>11, <1>12

LEMMA WinDoomedEndsKeeps ==
  ASSUME WindowsInv, W!DoomedEnds
  PROVE  WindowsInv'
<1> USE WinAssumption, AppsAssumption, Going, Tearing, Fields, NoneYet DEF WindowsInv
<1> USE DEF W!DoomedEnds, W!Adapter, W!Same, W!At, W!Fault, W!files, W!system, W!memory, W!history,
           W!world
<1>1. WindowsTyped'
  BY AllSteps, Ending DEF WindowsTyped, Unread, Over
<1>2. Placing'
  BY Ending DEF Placing, WindowsTyped, Unread, Over, W!Teardown
<1>3. NoProxyYet'
  BY Ending DEF NoProxyYet, WindowsTyped, Alone, Unread, Over, W!Teardown, W!HasSplit
<1>4. HeldKnown'
  BY Ending DEF HeldKnown, WindowsTyped, Unread, Over, W!HasSplit
<1>5. RoutesKnown'
  BY Ending DEF RoutesKnown, WindowsTyped, Unread, Over, W!Teardown
<1>6. RecordsKnown'
  BY Ending DEF RecordsKnown, WindowsTyped, Unread, Over, W!Teardown, W!HasSplit
<1>7. ConfKnown'
  BY Ending DEF ConfKnown, WindowsTyped, Unread, Over
<1>8. OverAt'
  BY Ending DEF OverAt, WindowsTyped, Unread, Over
<1>9. KeptKnown'
  BY Ending DEF KeptKnown, WindowsTyped, Unread, Over, W!HasSplit
<1>10. RestartKnown'
  BY Ending DEF RestartKnown, WindowsTyped, Unread, Over
<1>11. ModeKnown'
  BY Ending DEF ModeKnown, WindowsTyped, Unread, Over, W!HasSplit
<1>12. AnswersKnown'
  BY Ending DEF AnswersKnown, WindowsTyped, Unread, Over, W!Teardown, W!HasSplit, W!Adapter, W!Unrecorded, W!At
<1> QED
  BY <1>1, <1>2, <1>3, <1>4, <1>5, <1>6, <1>7, <1>8, <1>9, <1>10, <1>11, <1>12

LEMMA WinAppStartsHelperKeeps ==
  ASSUME WindowsInv, W!AppStartsHelper
  PROVE  WindowsInv'
<1> USE WinAssumption, AppsAssumption
<1>0. /\ job' \in Jobs /\ job'.what = "boot" /\ job'.at = "tunnel" /\ helper' = "boot"
      /\ follows' \in Nat /\ job.what = "none" /\ job.at = "end" /\ helper \in {"off", "dead"}
      /\ helper = "off" /\ app' = app /\ tun' = tun /\ conf' = conf /\ state' = state
      /\ splitFile' = splitFile /\ nrpt' = nrpt /\ direct' = direct /\ into' = into /\ run' = run
      /\ held' = held /\ placed' = placed /\ noted' = noted /\ gateway' = gateway
      /\ orphans' = orphans /\ excused' = excused
  <2> USE DEF WindowsInv, W!AppStartsHelper, W!Boots, W!Same, W!files, W!system, W!memory, W!history, W!world, Placing
  <2>1. job' = [W!NoJob EXCEPT !.what = "boot", !.at = "tunnel"]
    OBVIOUS
  <2>2. "tunnel" \in W!Steps
    BY AllSteps
  <2>3. job' \in Jobs /\ job'.what = "boot" /\ job'.at = "tunnel" /\ job'.then = "end"
    BY <2>1, <2>2, Begun
  <2> QED
    BY <2>3, Fields DEF WindowsTyped
<1> USE DEF WindowsInv
<1>1. WindowsTyped'
  BY <1>0 DEF WindowsTyped, Unread, Over
<1>2. Placing'
  BY <1>0, Fields DEF Placing, WindowsTyped, Unread, Over, W!Teardown
<1>3. NoProxyYet'
  BY <1>0, Fields DEF NoProxyYet, WindowsTyped, Alone, Unread, Over, W!Teardown, W!HasSplit
<1>4. HeldKnown'
  BY <1>0, Fields DEF HeldKnown, WindowsTyped, Unread, Over, W!HasSplit
<1>5. RoutesKnown'
  BY <1>0, Fields DEF RoutesKnown, WindowsTyped, Unread, Over, W!Teardown
<1>6. RecordsKnown'
  BY <1>0, Fields DEF RecordsKnown, WindowsTyped, Unread, Over, W!Teardown, W!HasSplit
<1>7. ConfKnown'
  BY <1>0, Fields DEF ConfKnown, WindowsTyped, Unread, Over
<1>8. OverAt'
  BY <1>0, Fields DEF OverAt, WindowsTyped, Unread, Over
<1>9. KeptKnown'
  BY <1>0, Fields DEF KeptKnown, WindowsTyped, Unread, Over, W!HasSplit
<1>10. RestartKnown'
  BY <1>0, Fields DEF RestartKnown, WindowsTyped, Unread, Over
<1>11. ModeKnown'
  BY <1>0, Fields DEF ModeKnown, WindowsTyped, Unread, Over, W!HasSplit
<1>12. AnswersKnown'
  BY <1>0, Fields DEF AnswersKnown, WindowsTyped, Unread, Over, W!Teardown, W!HasSplit, W!Adapter, W!Unrecorded, W!At
<1> QED
  BY <1>1, <1>2, <1>3, <1>4, <1>5, <1>6, <1>7, <1>8, <1>9, <1>10, <1>11, <1>12

LEMMA WinScmRestartsKeeps ==
  ASSUME WindowsInv, W!ScmRestarts
  PROVE  WindowsInv'
<1> USE WinAssumption, AppsAssumption
<1>0. /\ job' \in Jobs /\ job'.what = "boot" /\ job'.at = "tunnel" /\ helper' = "boot"
      /\ follows' \in Nat /\ job.what = "none" /\ job.at = "end" /\ helper \in {"off", "dead"}
      /\ helper = "dead" /\ app' = app /\ tun' = tun /\ conf' = conf /\ state' = state
      /\ splitFile' = splitFile /\ nrpt' = nrpt /\ direct' = direct /\ into' = into /\ run' = run
      /\ held' = held /\ placed' = placed /\ noted' = noted /\ gateway' = gateway
      /\ orphans' = orphans /\ excused' = excused
  <2> USE DEF WindowsInv, W!ScmRestarts, W!Boots, W!Same, W!files, W!system, W!memory, W!history, W!world, Placing
  <2>1. job' = [W!NoJob EXCEPT !.what = "boot", !.at = "tunnel"]
    OBVIOUS
  <2>2. "tunnel" \in W!Steps
    BY AllSteps
  <2>3. job' \in Jobs /\ job'.what = "boot" /\ job'.at = "tunnel" /\ job'.then = "end"
    BY <2>1, <2>2, Begun
  <2> QED
    BY <2>3, Fields DEF WindowsTyped
<1> USE DEF WindowsInv
<1>1. WindowsTyped'
  BY <1>0 DEF WindowsTyped, Unread, Over
<1>2. Placing'
  BY <1>0, Fields DEF Placing, WindowsTyped, Unread, Over, W!Teardown
<1>3. NoProxyYet'
  BY <1>0, Fields DEF NoProxyYet, WindowsTyped, Alone, Unread, Over, W!Teardown, W!HasSplit
<1>4. HeldKnown'
  BY <1>0, Fields DEF HeldKnown, WindowsTyped, Unread, Over, W!HasSplit
<1>5. RoutesKnown'
  BY <1>0, Fields DEF RoutesKnown, WindowsTyped, Unread, Over, W!Teardown
<1>6. RecordsKnown'
  BY <1>0, Fields DEF RecordsKnown, WindowsTyped, Unread, Over, W!Teardown, W!HasSplit
<1>7. ConfKnown'
  BY <1>0, Fields DEF ConfKnown, WindowsTyped, Unread, Over
<1>8. OverAt'
  BY <1>0, Fields DEF OverAt, WindowsTyped, Unread, Over
<1>9. KeptKnown'
  BY <1>0, Fields DEF KeptKnown, WindowsTyped, Unread, Over, W!HasSplit
<1>10. RestartKnown'
  BY <1>0, Fields DEF RestartKnown, WindowsTyped, Unread, Over
<1>11. ModeKnown'
  BY <1>0, Fields DEF ModeKnown, WindowsTyped, Unread, Over, W!HasSplit
<1>12. AnswersKnown'
  BY <1>0, Fields DEF AnswersKnown, WindowsTyped, Unread, Over, W!Teardown, W!HasSplit, W!Adapter, W!Unrecorded, W!At
<1> QED
  BY <1>1, <1>2, <1>3, <1>4, <1>5, <1>6, <1>7, <1>8, <1>9, <1>10, <1>11, <1>12

LEMMA WinCrashKeeps ==
  ASSUME WindowsInv, W!Crash
  PROVE  WindowsInv'
<1> USE WinAssumption, AppsAssumption, Going, Tearing, Fields, NoneYet DEF WindowsInv
<1> USE DEF W!Crash, W!Unrecorded, W!Same, W!At, W!Fault, W!files, W!system, W!memory, W!history,
           W!world
<1>1. WindowsTyped'
  BY AllSteps DEF WindowsTyped, Unread, Over
<1>2. Placing'
  BY DEF Placing, WindowsTyped, Unread, Over, W!Teardown
<1>3. NoProxyYet'
  BY DEF NoProxyYet, WindowsTyped, Alone, Unread, Over, W!Teardown, W!HasSplit
<1>4. HeldKnown'
  BY DEF HeldKnown, WindowsTyped, Unread, Over, W!HasSplit
<1>5. RoutesKnown'
  BY DEF RoutesKnown, WindowsTyped, Unread, Over, W!Teardown
<1>6. RecordsKnown'
  BY DEF RecordsKnown, WindowsTyped, Unread, Over, W!Teardown, W!HasSplit
<1>7. ConfKnown'
  BY DEF ConfKnown, WindowsTyped, Unread, Over
<1>8. OverAt'
  BY DEF OverAt, WindowsTyped, Unread, Over
<1>9. KeptKnown'
  BY DEF KeptKnown, WindowsTyped, Unread, Over, W!HasSplit
<1>10. RestartKnown'
  BY DEF RestartKnown, WindowsTyped, Unread, Over
<1>11. ModeKnown'
  BY DEF ModeKnown, WindowsTyped, Unread, Over, W!HasSplit
<1>12. AnswersKnown'
  BY DEF AnswersKnown, WindowsTyped, Unread, Over, W!Teardown, W!HasSplit, W!Adapter, W!Unrecorded, W!At
<1> QED
  BY <1>1, <1>2, <1>3, <1>4, <1>5, <1>6, <1>7, <1>8, <1>9, <1>10, <1>11, <1>12

LEMMA WinStopKeeps ==
  ASSUME WindowsInv, W!Stop
  PROVE  WindowsInv'
<1> USE WinAssumption, AppsAssumption
<1>0. /\ job' \in Jobs /\ job'.what = "stop" /\ job'.at = "halt" /\ job'.then = "end"
      /\ helper = "ready" /\ job.what = "none" /\ job.at = "end" /\ app' = app /\ helper' = helper
      /\ follows' = follows /\ tun' = tun /\ conf' = conf /\ state' = state
      /\ splitFile' = splitFile /\ nrpt' = nrpt /\ direct' = direct /\ into' = into /\ run' = run
      /\ held' = held /\ placed' = placed /\ noted' = noted /\ gateway' = gateway
      /\ orphans' = orphans /\ excused' = excused
  <2> USE DEF WindowsInv, W!Stop, W!Boots, W!Same, W!files, W!system, W!memory, W!history, W!world, Placing
  <2>1. job' = [W!NoJob EXCEPT !.what = "stop", !.at = "halt"]
    OBVIOUS
  <2>2. "halt" \in W!Steps
    BY AllSteps
  <2>3. job' \in Jobs /\ job'.what = "stop" /\ job'.at = "halt" /\ job'.then = "end"
    BY <2>1, <2>2, Begun
  <2> QED
    BY <2>3, Fields DEF WindowsTyped
<1> USE DEF WindowsInv
<1>1. WindowsTyped'
  BY <1>0 DEF WindowsTyped, Unread, Over
<1>2. Placing'
  BY <1>0, Fields DEF Placing, WindowsTyped, Unread, Over, W!Teardown
<1>3. NoProxyYet'
  BY <1>0, Fields DEF NoProxyYet, WindowsTyped, Alone, Unread, Over, W!Teardown, W!HasSplit
<1>4. HeldKnown'
  BY <1>0, Fields DEF HeldKnown, WindowsTyped, Unread, Over, W!HasSplit
<1>5. RoutesKnown'
  BY <1>0, Fields DEF RoutesKnown, WindowsTyped, Unread, Over, W!Teardown
<1>6. RecordsKnown'
  BY <1>0, Fields DEF RecordsKnown, WindowsTyped, Unread, Over, W!Teardown, W!HasSplit
<1>7. ConfKnown'
  BY <1>0, Fields DEF ConfKnown, WindowsTyped, Unread, Over
<1>8. OverAt'
  BY <1>0, Fields DEF OverAt, WindowsTyped, Unread, Over
<1>9. KeptKnown'
  BY <1>0, Fields DEF KeptKnown, WindowsTyped, Unread, Over, W!HasSplit
<1>10. RestartKnown'
  BY <1>0, Fields DEF RestartKnown, WindowsTyped, Unread, Over
<1>11. ModeKnown'
  BY <1>0, Fields DEF ModeKnown, WindowsTyped, Unread, Over, W!HasSplit
<1>12. AnswersKnown'
  BY <1>0, Fields DEF AnswersKnown, WindowsTyped, Unread, Over, W!Teardown, W!HasSplit, W!Adapter, W!Unrecorded, W!At
<1> QED
  BY <1>1, <1>2, <1>3, <1>4, <1>5, <1>6, <1>7, <1>8, <1>9, <1>10, <1>11, <1>12

LEMMA WinRequestKeeps ==
  ASSUME WindowsInv, NEW mode \in W!Modes, NEW what, NEW at,
         \/ what = "up" /\ at = "check"
         \/ what = "down" /\ at = "halt", W!Request(what, at, mode)
  PROVE  WindowsInv'
<1> USE WinAssumption, AppsAssumption
<1>0. /\ job' \in Jobs /\ job'.what = what /\ job'.at = at /\ job'.then = "end"
      /\ helper = "ready" /\ follows' \in Nat /\ job.what = "none" /\ job.at = "end"
      /\ \/ what = "up" /\ at = "check"
         \/ what = "down" /\ at = "halt"
      /\ app' = app /\ helper' = helper /\ tun' = tun /\ conf' = conf /\ state' = state
      /\ splitFile' = splitFile /\ nrpt' = nrpt /\ direct' = direct /\ into' = into /\ run' = run
      /\ held' = held /\ placed' = placed /\ noted' = noted /\ gateway' = gateway
      /\ orphans' = orphans /\ excused' = excused
  <2> USE DEF WindowsInv, W!Request, W!Same, W!files, W!system, W!memory, W!history, W!world, Placing
  <2>1. job' = [W!NoJob EXCEPT !.what = what, !.at = at, !.mode = mode, !.pid = app.n]
    OBVIOUS
  <2>2. at \in W!Steps /\ what \in {"boot", "up", "down", "stop"} /\ app.n \in Nat
    BY AllSteps DEF WindowsTyped
  <2>3. job' \in Jobs /\ job'.what = what /\ job'.at = at /\ job'.then = "end"
    BY ONLY <2>1, <2>2, RequestBegun, mode \in W!Modes
  <2> QED
    BY <2>2, <2>3, Fields DEF WindowsTyped
<1> USE DEF WindowsInv
<1>1. WindowsTyped'
  BY <1>0 DEF WindowsTyped, Unread, Over
<1>2. Placing'
  BY <1>0, Fields DEF Placing, WindowsTyped, Unread, Over, W!Teardown
<1>3. NoProxyYet'
  BY <1>0, Fields DEF NoProxyYet, WindowsTyped, Alone, Unread, Over, W!Teardown, W!HasSplit
<1>4. HeldKnown'
  BY <1>0, Fields DEF HeldKnown, WindowsTyped, Unread, Over, W!HasSplit
<1>5. RoutesKnown'
  BY <1>0, Fields DEF RoutesKnown, WindowsTyped, Unread, Over, W!Teardown
<1>6. RecordsKnown'
  BY <1>0, Fields DEF RecordsKnown, WindowsTyped, Unread, Over, W!Teardown, W!HasSplit
<1>7. ConfKnown'
  BY <1>0, Fields DEF ConfKnown, WindowsTyped, Unread, Over
<1>8. OverAt'
  BY <1>0, Fields DEF OverAt, WindowsTyped, Unread, Over
<1>9. KeptKnown'
  BY <1>0, Fields DEF KeptKnown, WindowsTyped, Unread, Over, W!HasSplit
<1>10. RestartKnown'
  BY <1>0, Fields DEF RestartKnown, WindowsTyped, Unread, Over
<1>11. ModeKnown'
  BY <1>0, Fields DEF ModeKnown, WindowsTyped, Unread, Over, W!HasSplit
<1>12. AnswersKnown'
  BY <1>0, Fields DEF AnswersKnown, WindowsTyped, Unread, Over, W!Teardown, W!HasSplit, W!Adapter, W!Unrecorded, W!At
<1> QED
  BY <1>1, <1>2, <1>3, <1>4, <1>5, <1>6, <1>7, <1>8, <1>9, <1>10, <1>11, <1>12

LEMMA WinEndsKeeps ==
  ASSUME WindowsInv, W!Ends
  PROVE  WindowsInv'
<1> USE WinAssumption, AppsAssumption
<1>0. /\ job' \in Jobs /\ job'.what = "none" /\ job'.at = "end" /\ job.at = "end"
      /\ job.what # "none" /\ follows' \in Nat
      /\ \/ job.what = "stop" /\ helper' = "off"
         \/ job.what # "stop" /\ helper' = "ready"
      /\ ~Unread /\ ~Unread' /\ app' = app /\ tun' = tun /\ conf' = conf /\ state' = state
      /\ splitFile' = splitFile /\ nrpt' = nrpt /\ direct' = direct /\ into' = into /\ run' = run
      /\ held' = held /\ placed' = placed /\ noted' = noted /\ gateway' = gateway
      /\ orphans' = orphans /\ excused' = excused
  <2> USE DEF WindowsInv, W!Ends, W!At, W!Same, W!files, W!system, W!memory, W!history, W!world
  <2>1. ~Unread
    BY DEF Unread, Placing, W!Teardown
  <2> QED BY <2>1, NoneYet, Fields DEF WindowsTyped, Unread
<1> USE DEF WindowsInv
<1>1. WindowsTyped'
  BY <1>0 DEF WindowsTyped, Unread, Over
<1>2. Placing'
  BY <1>0, Fields DEF Placing, WindowsTyped, Unread, Over, W!Teardown
<1>3. NoProxyYet'
  BY <1>0, Fields DEF NoProxyYet, WindowsTyped, Alone, Unread, Over, W!Teardown, W!HasSplit
<1>4. HeldKnown'
  BY <1>0, Fields DEF HeldKnown, WindowsTyped, Unread, Over, W!HasSplit
<1>5. RoutesKnown'
  BY <1>0, Fields DEF RoutesKnown, WindowsTyped, Unread, Over, W!Teardown
<1>6. RecordsKnown'
  BY <1>0, Fields DEF RecordsKnown, WindowsTyped, Unread, Over, W!Teardown, W!HasSplit
<1>7. ConfKnown'
  BY <1>0, Fields DEF ConfKnown, WindowsTyped, Unread, Over
<1>8. OverAt'
  BY <1>0, Fields DEF OverAt, WindowsTyped, Unread, Over
<1>9. KeptKnown'
  BY <1>0, Fields DEF KeptKnown, WindowsTyped, Unread, Over, W!HasSplit
<1>10. RestartKnown'
  BY <1>0, Fields DEF RestartKnown, WindowsTyped, Unread, Over
<1>11. ModeKnown'
  BY <1>0, Fields DEF ModeKnown, WindowsTyped, Unread, Over, W!HasSplit
<1>12. AnswersKnown'
  BY <1>0, Fields DEF AnswersKnown, WindowsTyped, Unread, Over, W!Teardown, W!HasSplit, W!Adapter, W!Unrecorded, W!At
<1> QED
  BY <1>1, <1>2, <1>3, <1>4, <1>5, <1>6, <1>7, <1>8, <1>9, <1>10, <1>11, <1>12

LEMMA WinNameAskedKeeps ==
  ASSUME WindowsInv, NEW x \in Dests, W!NameAsked(x)
  PROVE  WindowsInv'
<1> USE WinAssumption, AppsAssumption
<1>0. /\ held' = held \cup {x} /\ held' \subseteq Dests /\ noted' \subseteq Dests /\ W!HasSplit
      /\ direct' \in [Dests -> SUBSET Gateways]
      /\ placed' \in [Dests -> Gateways \cup {NoGateway}]
      /\ \A y \in Dests : placed'[y] # NoGateway => y \in held'
      /\ \A y \in Dests : \A g \in direct'[y] : <<y, g>> \in orphans \/ placed'[y] = g
      /\ ~Unread /\ app' = app /\ helper' = helper /\ follows' = follows /\ job' = job
      /\ tun' = tun /\ conf' = conf /\ state' = state /\ splitFile' = splitFile /\ nrpt' = nrpt
      /\ run' = run /\ gateway' = gateway /\ orphans' = orphans /\ excused' = excused
  <2> USE DEF WindowsInv, W!NameAsked, W!At, W!Same, W!files, W!system, W!memory, W!history, W!world
  <2>1. ~Unread
    BY DEF NoProxyYet, Alone
  <2>2. run.best \in Gateways \cup {NoGateway} /\ (run.best # NoGateway \/ run.mode # "proxy")
    BY Fields DEF W!CanRoute
  <2>3. W!Routes({x}, run.best) /\ {x} \subseteq Dests
    OBVIOUS
  <2>4. /\ direct' \in [Dests -> SUBSET Gateways] /\ placed' \in [Dests -> Gateways \cup {NoGateway}]
        /\ \A y \in Dests : placed'[y] # NoGateway => y \in held \cup {x}
        /\ \A y \in Dests : \A g \in direct'[y] : <<y, g>> \in orphans \/ placed'[y] = g
    BY ONLY <2>1, <2>2, <2>3, Laying, WindowsInv DEF WindowsInv
  <2>5. held' = held \cup {x} /\ held' \subseteq Dests /\ noted' \subseteq Dests
    BY DEF WindowsTyped
  <2> QED
    BY <2>1, <2>4, <2>5
<1> USE DEF WindowsInv
<1>1. WindowsTyped'
  BY <1>0 DEF WindowsTyped, Unread, Over
<1>2. Placing'
  BY <1>0, Fields DEF Placing, WindowsTyped, Unread, Over, W!Teardown
<1>3. NoProxyYet'
  BY <1>0, Fields DEF NoProxyYet, WindowsTyped, Alone, Unread, Over, W!Teardown, W!HasSplit
<1>4. HeldKnown'
  BY <1>0, Fields DEF HeldKnown, WindowsTyped, Unread, Over, W!HasSplit
<1>5. RoutesKnown'
  BY <1>0, Fields DEF RoutesKnown, WindowsTyped, Unread, Over, W!Teardown
<1>6. RecordsKnown'
  BY <1>0, Fields DEF RecordsKnown, WindowsTyped, Unread, Over, W!Teardown, W!HasSplit
<1>7. ConfKnown'
  BY <1>0, Fields DEF ConfKnown, WindowsTyped, Unread, Over
<1>8. OverAt'
  BY <1>0, Fields DEF OverAt, WindowsTyped, Unread, Over
<1>9. KeptKnown'
  BY <1>0, Fields DEF KeptKnown, WindowsTyped, Unread, Over, W!HasSplit
<1>10. RestartKnown'
  BY <1>0, Fields DEF RestartKnown, WindowsTyped, Unread, Over
<1>11. ModeKnown'
  BY <1>0, Fields DEF ModeKnown, WindowsTyped, Unread, Over, W!HasSplit
<1>12. AnswersKnown'
  BY <1>0, Fields DEF AnswersKnown, WindowsTyped, Unread, Over, W!Teardown, W!HasSplit, W!Adapter, W!Unrecorded, W!At
<1> QED
  BY <1>1, <1>2, <1>3, <1>4, <1>5, <1>6, <1>7, <1>8, <1>9, <1>10, <1>11, <1>12

LEMMA WinNameExpiresKeeps ==
  ASSUME WindowsInv, NEW x \in Dests, W!NameExpires(x)
  PROVE  WindowsInv'
<1> USE WinAssumption, AppsAssumption
<1>0. /\ held' = held \ {x} /\ held' \subseteq Dests /\ noted' \subseteq Dests /\ W!HasSplit
      /\ direct' \in [Dests -> SUBSET Gateways]
      /\ placed' \in [Dests -> Gateways \cup {NoGateway}]
      /\ \A y \in Dests : placed'[y] # NoGateway => y \in held'
      /\ \A y \in Dests : \A g \in direct'[y] : <<y, g>> \in orphans \/ placed'[y] = g
      /\ ~Unread /\ app' = app /\ helper' = helper /\ follows' = follows /\ job' = job
      /\ tun' = tun /\ conf' = conf /\ state' = state /\ splitFile' = splitFile /\ nrpt' = nrpt
      /\ run' = run /\ gateway' = gateway /\ orphans' = orphans /\ excused' = excused
  <2> USE DEF WindowsInv, W!NameExpires, W!At, W!Same, W!files, W!system, W!memory, W!history, W!world, W!Unroutes, W!Unplaced
  <2>1. ~Unread
    BY DEF NoProxyYet, Alone
  <2>2. /\ direct' = [y \in Dests |-> IF y \in {x} THEN direct[y] \ {placed[y]} ELSE direct[y]]
        /\ placed' = [y \in Dests |-> IF y \in {x} THEN NoGateway ELSE placed[y]]
        /\ held' = held \ {x} /\ noted' = noted \ {x}
    OBVIOUS
  <2>3. direct' \in [Dests -> SUBSET Gateways] /\ placed' \in [Dests -> Gateways \cup {NoGateway}]
    BY <2>2 DEF WindowsTyped
  <2>4. ASSUME NEW y \in Dests, placed'[y] # NoGateway PROVE y \in held'
    BY <2>2, <2>4 DEF HeldKnown
  <2>5. ASSUME NEW y \in Dests, NEW g \in direct'[y] PROVE <<y, g>> \in orphans \/ placed'[y] = g
    BY <2>1, <2>2, <2>5 DEF RoutesKnown
  <2>6. held' \subseteq Dests /\ noted' \subseteq Dests
    BY <2>2 DEF WindowsTyped
  <2> QED
    BY <2>1, <2>2, <2>3, <2>4, <2>5, <2>6
<1> USE DEF WindowsInv
<1>1. WindowsTyped'
  BY <1>0 DEF WindowsTyped, Unread, Over
<1>2. Placing'
  BY <1>0, Fields DEF Placing, WindowsTyped, Unread, Over, W!Teardown
<1>3. NoProxyYet'
  BY <1>0, Fields DEF NoProxyYet, WindowsTyped, Alone, Unread, Over, W!Teardown, W!HasSplit
<1>4. HeldKnown'
  BY <1>0, Fields DEF HeldKnown, WindowsTyped, Unread, Over, W!HasSplit
<1>5. RoutesKnown'
  BY <1>0, Fields DEF RoutesKnown, WindowsTyped, Unread, Over, W!Teardown
<1>6. RecordsKnown'
  BY <1>0, Fields DEF RecordsKnown, WindowsTyped, Unread, Over, W!Teardown, W!HasSplit
<1>7. ConfKnown'
  BY <1>0, Fields DEF ConfKnown, WindowsTyped, Unread, Over
<1>8. OverAt'
  BY <1>0, Fields DEF OverAt, WindowsTyped, Unread, Over
<1>9. KeptKnown'
  BY <1>0, Fields DEF KeptKnown, WindowsTyped, Unread, Over, W!HasSplit
<1>10. RestartKnown'
  BY <1>0, Fields DEF RestartKnown, WindowsTyped, Unread, Over
<1>11. ModeKnown'
  BY <1>0, Fields DEF ModeKnown, WindowsTyped, Unread, Over, W!HasSplit
<1>12. AnswersKnown'
  BY <1>0, Fields DEF AnswersKnown, WindowsTyped, Unread, Over, W!Teardown, W!HasSplit, W!Adapter, W!Unrecorded, W!At
<1> QED
  BY <1>1, <1>2, <1>3, <1>4, <1>5, <1>6, <1>7, <1>8, <1>9, <1>10, <1>11, <1>12

LEMMA WinWatchKeeps ==
  ASSUME WindowsInv, W!Watch
  PROVE  WindowsInv'
<1> USE WinAssumption, AppsAssumption
<1>0. /\ run' \in Runs /\ run'.mode = run.mode /\ run'.nrpt = run.nrpt /\ W!HasSplit
      /\ direct' \in [Dests -> SUBSET Gateways]
      /\ placed' \in [Dests -> Gateways \cup {NoGateway}]
      /\ \A y \in Dests : placed'[y] # NoGateway => y \in held'
      /\ \A y \in Dests : \A g \in direct'[y] : <<y, g>> \in orphans \/ placed'[y] = g
      /\ ~Unread /\ app' = app /\ helper' = helper /\ follows' = follows /\ job' = job
      /\ tun' = tun /\ conf' = conf /\ state' = state /\ splitFile' = splitFile /\ nrpt' = nrpt
      /\ held' = held /\ noted' = noted /\ gateway' = gateway /\ orphans' = orphans
      /\ excused' = excused
  <2> USE DEF WindowsInv, W!Watch, W!At, W!Same, W!files, W!system, W!memory, W!history, W!world
  <2>1. ~Unread
    BY DEF NoProxyYet, Alone
  <2>2. run' \in Runs /\ run'.mode = run.mode /\ run'.nrpt = run.nrpt
    BY DEF WindowsTyped, Runs
  <2>3. CASE run.mode = "proxy" /\ gateway # NoGateway
    <3>1. W!Routes(held, gateway) /\ gateway \in Gateways \cup {NoGateway} /\ held \subseteq Dests
      BY <2>3 DEF WindowsTyped
    <3>2. /\ direct' \in [Dests -> SUBSET Gateways] /\ placed' \in [Dests -> Gateways \cup {NoGateway}]
          /\ \A y \in Dests : placed'[y] # NoGateway => y \in held \cup held
          /\ \A y \in Dests : \A g \in direct'[y] : <<y, g>> \in orphans \/ placed'[y] = g
      BY ONLY <2>1, <2>3, <3>1, Laying, WindowsInv DEF WindowsInv
    <3> QED BY <2>1, <2>2, <3>2
  <2>4. CASE ~(run.mode = "proxy" /\ gateway # NoGateway)
    BY <2>1, <2>2, <2>4 DEF WindowsTyped, HeldKnown, RoutesKnown
  <2> QED BY <2>3, <2>4
<1> USE DEF WindowsInv
<1>1. WindowsTyped'
  BY <1>0 DEF WindowsTyped, Unread, Over
<1>2. Placing'
  BY <1>0, Fields DEF Placing, WindowsTyped, Unread, Over, W!Teardown
<1>3. NoProxyYet'
  BY <1>0, Fields DEF NoProxyYet, WindowsTyped, Alone, Unread, Over, W!Teardown, W!HasSplit
<1>4. HeldKnown'
  BY <1>0, Fields DEF HeldKnown, WindowsTyped, Unread, Over, W!HasSplit
<1>5. RoutesKnown'
  BY <1>0, Fields DEF RoutesKnown, WindowsTyped, Unread, Over, W!Teardown
<1>6. RecordsKnown'
  BY <1>0, Fields DEF RecordsKnown, WindowsTyped, Unread, Over, W!Teardown, W!HasSplit
<1>7. ConfKnown'
  BY <1>0, Fields DEF ConfKnown, WindowsTyped, Unread, Over
<1>8. OverAt'
  BY <1>0, Fields DEF OverAt, WindowsTyped, Unread, Over
<1>9. KeptKnown'
  BY <1>0, Fields DEF KeptKnown, WindowsTyped, Unread, Over, W!HasSplit
<1>10. RestartKnown'
  BY <1>0, Fields DEF RestartKnown, WindowsTyped, Unread, Over
<1>11. ModeKnown'
  BY <1>0, Fields DEF ModeKnown, WindowsTyped, Unread, Over, W!HasSplit
<1>12. AnswersKnown'
  BY <1>0, Fields DEF AnswersKnown, WindowsTyped, Unread, Over, W!Teardown, W!HasSplit, W!Adapter, W!Unrecorded, W!At
<1> QED
  BY <1>1, <1>2, <1>3, <1>4, <1>5, <1>6, <1>7, <1>8, <1>9, <1>10, <1>11, <1>12

LEMMA WinFlushKeeps ==
  ASSUME WindowsInv, W!Flush
  PROVE  WindowsInv'
<1> USE WinAssumption, AppsAssumption
<1>0. /\ ~Unread /\ W!HasSplit /\ splitFile' \in Records /\ splitFile'.mode = run.mode
      /\ app' = app /\ helper' = helper /\ follows' = follows /\ job' = job /\ tun' = tun
      /\ conf' = conf /\ state' = state /\ nrpt' = nrpt /\ direct' = direct /\ into' = into
      /\ run' = run /\ held' = held /\ placed' = placed /\ noted' = noted /\ gateway' = gateway
      /\ orphans' = orphans /\ excused' = excused
  <2> USE DEF WindowsInv, W!Flush, W!At, W!Same, W!files, W!system, W!memory, W!history, W!world
  <2>1. ~Unread
    BY DEF NoProxyYet, Alone
  <2> QED
    BY <2>1, Fields DEF W!Flushed, Records, WindowsTyped
<1> USE DEF WindowsInv
<1>1. WindowsTyped'
  BY <1>0 DEF WindowsTyped, Unread, Over
<1>2. Placing'
  BY <1>0, Fields DEF Placing, WindowsTyped, Unread, Over, W!Teardown
<1>3. NoProxyYet'
  BY <1>0, Fields DEF NoProxyYet, WindowsTyped, Alone, Unread, Over, W!Teardown, W!HasSplit
<1>4. HeldKnown'
  BY <1>0, Fields DEF HeldKnown, WindowsTyped, Unread, Over, W!HasSplit
<1>5. RoutesKnown'
  BY <1>0, Fields DEF RoutesKnown, WindowsTyped, Unread, Over, W!Teardown
<1>6. RecordsKnown'
  BY <1>0, Fields DEF RecordsKnown, WindowsTyped, Unread, Over, W!Teardown, W!HasSplit
<1>7. ConfKnown'
  BY <1>0, Fields DEF ConfKnown, WindowsTyped, Unread, Over
<1>8. OverAt'
  BY <1>0, Fields DEF OverAt, WindowsTyped, Unread, Over
<1>9. KeptKnown'
  BY <1>0, Fields DEF KeptKnown, WindowsTyped, Unread, Over, W!HasSplit
<1>10. RestartKnown'
  BY <1>0, Fields DEF RestartKnown, WindowsTyped, Unread, Over
<1>11. ModeKnown'
  BY <1>0, Fields DEF ModeKnown, WindowsTyped, Unread, Over, W!HasSplit
<1>12. AnswersKnown'
  BY <1>0, Fields DEF AnswersKnown, WindowsTyped, Unread, Over, W!Teardown, W!HasSplit, W!Adapter, W!Unrecorded, W!At
<1> QED
  BY <1>1, <1>2, <1>3, <1>4, <1>5, <1>6, <1>7, <1>8, <1>9, <1>10, <1>11, <1>12

LEMMA WinHaltKeeps ==
  ASSUME WindowsInv, W!Halt
  PROVE  WindowsInv'
<1> USE WinAssumption, AppsAssumption, Going, Tearing, Fields, NoneYet DEF WindowsInv
<1> USE DEF W!Halt, W!Adapter, W!Same, W!At, W!Fault, W!files, W!system, W!memory, W!history,
           W!world
<1>1. WindowsTyped'
  BY AllSteps, Ending DEF WindowsTyped, Unread, Over
<1>2. Placing'
  BY Ending DEF Placing, WindowsTyped, Unread, Over, W!Teardown
<1>3. NoProxyYet'
  BY Ending DEF NoProxyYet, WindowsTyped, Alone, Unread, Over, W!Teardown, W!HasSplit
<1>4. HeldKnown'
  BY Ending DEF HeldKnown, WindowsTyped, Unread, Over, W!HasSplit
<1>5. RoutesKnown'
  BY Ending DEF RoutesKnown, WindowsTyped, Unread, Over, W!Teardown
<1>6. RecordsKnown'
  BY Ending DEF RecordsKnown, WindowsTyped, Unread, Over, W!Teardown, W!HasSplit
<1>7. ConfKnown'
  BY Ending DEF ConfKnown, WindowsTyped, Unread, Over
<1>8. OverAt'
  BY Ending DEF OverAt, WindowsTyped, Unread, Over
<1>9. KeptKnown'
  BY Ending DEF KeptKnown, WindowsTyped, Unread, Over, W!HasSplit
<1>10. RestartKnown'
  BY Ending DEF RestartKnown, WindowsTyped, Unread, Over
<1>11. ModeKnown'
  BY Ending DEF ModeKnown, WindowsTyped, Unread, Over, W!HasSplit
<1>12. AnswersKnown'
  BY Ending DEF AnswersKnown, WindowsTyped, Unread, Over, W!Teardown, W!HasSplit, W!Adapter, W!Unrecorded, W!At
<1> QED
  BY <1>1, <1>2, <1>3, <1>4, <1>5, <1>6, <1>7, <1>8, <1>9, <1>10, <1>11, <1>12

LEMMA WinDeleteKeeps ==
  ASSUME WindowsInv, W!Delete
  PROVE  WindowsInv'
<1> USE WinAssumption, AppsAssumption
<1>0. /\ job' \in Jobs /\ job'.at = "unsplit" /\ job'.what = job.what /\ job'.then = job.then
      /\ job'.mode = job.mode /\ job.at = "delete" /\ job.what # "none" /\ tun' \in Tunnels
      /\ conf' = "none" /\ \A w \in {"rule", "missed", "adopted"} : w \in excused' <=> w \in excused
      /\ \/ Over' /\ (tun'.st = "running" => tun'.doomed)
         \/ "unanswered" \in excused' /\ ~Over'
      /\ app' = app /\ helper' = helper /\ follows' = follows /\ state' = state
      /\ splitFile' = splitFile /\ nrpt' = nrpt /\ direct' = direct /\ into' = into /\ run' = run
      /\ held' = held /\ placed' = placed /\ noted' = noted /\ gateway' = gateway
      /\ orphans' = orphans
  <2> USE DEF WindowsInv, W!Delete, W!At, W!Same, W!files, W!system, W!memory, W!history, W!world
  <2>1. "unsplit" \in W!Steps
    BY AllSteps
  <2>2. CASE tun' = IF W!Adapter THEN [tun EXCEPT !.doomed = TRUE] ELSE W!NoTunnel
    <3>1. tun' \in Tunnels /\ (tun'.st = "none" \/ tun'.doomed) /\ (tun'.st = "running" => tun'.doomed)
      BY <2>2, NoneYet DEF Tunnels, WindowsTyped
    <3> QED BY <2>1, <3>1, Going DEF Over
  <2>3. CASE tun' = tun /\ tun.st # "none" /\ ~tun.doomed /\ "unanswered" \in excused'
    BY <2>1, <2>3, Going DEF Over, WindowsTyped
  <2> QED BY <2>2, <2>3
<1> USE DEF WindowsInv
<1>1. WindowsTyped'
  BY <1>0 DEF WindowsTyped, Unread, Over
<1>2. Placing'
  BY <1>0, Fields DEF Placing, WindowsTyped, Unread, Over, W!Teardown
<1>3. NoProxyYet'
  BY <1>0, Fields DEF NoProxyYet, WindowsTyped, Alone, Unread, Over, W!Teardown, W!HasSplit
<1>4. HeldKnown'
  BY <1>0, Fields DEF HeldKnown, WindowsTyped, Unread, Over, W!HasSplit
<1>5. RoutesKnown'
  BY <1>0, Fields DEF RoutesKnown, WindowsTyped, Unread, Over, W!Teardown
<1>6. RecordsKnown'
  BY <1>0, Fields DEF RecordsKnown, WindowsTyped, Unread, Over, W!Teardown, W!HasSplit
<1>7. ConfKnown'
  BY <1>0, Fields DEF ConfKnown, WindowsTyped, Unread, Over
<1>8. OverAt'
  BY <1>0, Fields DEF OverAt, WindowsTyped, Unread, Over
<1>9. KeptKnown'
  BY <1>0, Fields DEF KeptKnown, WindowsTyped, Unread, Over, W!HasSplit
<1>10. RestartKnown'
  BY <1>0, Fields DEF RestartKnown, WindowsTyped, Unread, Over
<1>11. ModeKnown'
  BY <1>0, Fields DEF ModeKnown, WindowsTyped, Unread, Over, W!HasSplit
<1>12. AnswersKnown'
  BY <1>0, Fields DEF AnswersKnown, WindowsTyped, Unread, Over, W!Teardown, W!HasSplit, W!Adapter, W!Unrecorded, W!At
<1> QED
  BY <1>1, <1>2, <1>3, <1>4, <1>5, <1>6, <1>7, <1>8, <1>9, <1>10, <1>11, <1>12

LEMMA WinUnsplitUnreadKeeps ==
  ASSUME WindowsInv, Unread, W!Unsplit
  PROVE  WindowsInv'
<1> USE WinAssumption, AppsAssumption
<1>0. /\ job' \in Jobs /\ job'.at = "clear" /\ job'.what = job.what /\ job'.then = job.then
      /\ job'.mode = job.mode /\ job.at = "unsplit" /\ job.what = "boot" /\ job.then = "leftovers"
      /\ ~W!HasSplit /\ app' = app /\ helper' = helper /\ follows' = follows /\ tun' = tun
      /\ conf' = conf /\ state' = state /\ splitFile' = splitFile /\ nrpt' = nrpt
      /\ direct' = direct /\ run' = run /\ held' = held /\ placed' = placed /\ noted' = noted
      /\ gateway' = gateway /\ orphans' = orphans /\ excused' = excused
  <2> USE DEF WindowsInv, W!Unsplit, W!At, W!Same, W!files, W!system, W!memory, W!history, W!world, Placing
  <2>1. ~W!HasSplit
    BY DEF NoProxyYet, Alone
  <2>2. /\ run' = run /\ held' = held /\ noted' = noted /\ placed' = placed /\ direct' = direct
        /\ nrpt' = nrpt /\ splitFile' = splitFile
    BY <2>1 DEF W!StopsRun
  <2>3. job.what = "boot" /\ job.then = "leftovers"
    BY DEF Unread, W!Teardown
  <2>4. "clear" \in W!Steps
    BY AllSteps
  <2> QED
    BY <2>1, <2>2, <2>3, <2>4, Going
<1> USE DEF WindowsInv
<1>1. WindowsTyped'
  BY <1>0 DEF WindowsTyped, Unread, Over
<1>2. Placing'
  BY <1>0, Fields DEF Placing, WindowsTyped, Unread, Over, W!Teardown
<1>3. NoProxyYet'
  BY <1>0, Fields DEF NoProxyYet, WindowsTyped, Alone, Unread, Over, W!Teardown, W!HasSplit
<1>4. HeldKnown'
  BY <1>0, Fields DEF HeldKnown, WindowsTyped, Unread, Over, W!HasSplit
<1>5. RoutesKnown'
  BY <1>0, Fields DEF RoutesKnown, WindowsTyped, Unread, Over, W!Teardown
<1>6. RecordsKnown'
  BY <1>0, Fields DEF RecordsKnown, WindowsTyped, Unread, Over, W!Teardown, W!HasSplit
<1>7. ConfKnown'
  BY <1>0, Fields DEF ConfKnown, WindowsTyped, Unread, Over
<1>8. OverAt'
  BY <1>0, Fields DEF OverAt, WindowsTyped, Unread, Over
<1>9. KeptKnown'
  BY <1>0, Fields DEF KeptKnown, WindowsTyped, Unread, Over, W!HasSplit
<1>10. RestartKnown'
  BY <1>0, Fields DEF RestartKnown, WindowsTyped, Unread, Over
<1>11. ModeKnown'
  BY <1>0, Fields DEF ModeKnown, WindowsTyped, Unread, Over, W!HasSplit
<1>12. AnswersKnown'
  BY <1>0, Fields DEF AnswersKnown, WindowsTyped, Unread, Over, W!Teardown, W!HasSplit, W!Adapter, W!Unrecorded, W!At
<1> QED
  BY <1>1, <1>2, <1>3, <1>4, <1>5, <1>6, <1>7, <1>8, <1>9, <1>10, <1>11, <1>12

LEMMA WinUnsplitStopsKeeps ==
  ASSUME WindowsInv, ~Unread, W!Unsplit
  PROVE  WindowsInv'
<1> USE WinAssumption, AppsAssumption
<1>0. /\ job' \in Jobs /\ job'.at = "clear" /\ job'.what = job.what /\ job'.then = job.then
      /\ job'.mode = job.mode /\ job.at = "unsplit" /\ job.what # "none" /\ run' \in Runs
      /\ Over \/ "unanswered" \in excused
      /\ run'.mode = "none" /\ ~run'.nrpt /\ held' = {} /\ noted' = {}
      /\ splitFile' = W!NoSplitFile /\ nrpt' \in BOOLEAN
      /\ nrpt' => "rule" \in excused
      /\ direct' \in [Dests -> SUBSET Gateways]
      /\ placed' \in [Dests -> Gateways \cup {NoGateway}]
      /\ \A x \in Dests : placed'[x] = NoGateway
      /\ \A x \in Dests : \A g \in direct'[x] : <<x, g>> \in orphans
      /\ app' = app /\ helper' = helper /\ follows' = follows /\ tun' = tun /\ conf' = conf
      /\ state' = state /\ gateway' = gateway /\ orphans' = orphans /\ excused' = excused
  <2> USE DEF WindowsInv, W!Unsplit, W!At, W!Same, W!files, W!system, W!memory, W!history, W!world
  <2>1. "clear" \in W!Steps
    BY AllSteps
  <2> QED
    BY <2>1, Going, RunStops DEF OverAt
<1> USE DEF WindowsInv
<1>1. WindowsTyped'
  BY <1>0, NoneYet DEF WindowsTyped, Unread, Over
<1>2. Placing'
  BY <1>0, Fields DEF Placing, WindowsTyped, Unread, Over, W!Teardown
<1>3. NoProxyYet'
  BY <1>0, Fields DEF NoProxyYet, WindowsTyped, Alone, Unread, Over, W!Teardown, W!HasSplit
<1>4. HeldKnown'
  BY <1>0, Fields DEF HeldKnown, WindowsTyped, Unread, Over, W!HasSplit
<1>5. RoutesKnown'
  BY <1>0, Fields DEF RoutesKnown, WindowsTyped, Unread, Over, W!Teardown
<1>6. RecordsKnown'
  BY <1>0, Fields, NoneYet DEF RecordsKnown, WindowsTyped, Unread, Over, W!Teardown, W!HasSplit
<1>7. ConfKnown'
  BY <1>0, Fields DEF ConfKnown, WindowsTyped, Unread, Over
<1>8. OverAt'
  BY <1>0, Fields DEF OverAt, WindowsTyped, Unread, Over
<1>9. KeptKnown'
  BY <1>0, Fields DEF KeptKnown, WindowsTyped, Unread, Over, W!HasSplit
<1>10. RestartKnown'
  BY <1>0, Fields DEF RestartKnown, WindowsTyped, Unread, Over
<1>11. ModeKnown'
  BY <1>0, Fields DEF ModeKnown, WindowsTyped, Unread, Over, W!HasSplit
<1>12. AnswersKnown'
  BY <1>0, Fields DEF AnswersKnown, WindowsTyped, Unread, Over, W!Teardown, W!HasSplit, W!Adapter, W!Unrecorded, W!At
<1> QED
  BY <1>1, <1>2, <1>3, <1>4, <1>5, <1>6, <1>7, <1>8, <1>9, <1>10, <1>11, <1>12

LEMMA WinUnsplitKeeps ==
  ASSUME WindowsInv, W!Unsplit
  PROVE  WindowsInv'
  BY WinUnsplitUnreadKeeps, WinUnsplitStopsKeeps

LEMMA WinClearKeeps ==
  ASSUME WindowsInv, W!Clear
  PROVE  WindowsInv'
<1> USE WinAssumption, AppsAssumption
<1>0. /\ job.what \in {"down", "stop"} => job.then = "end"
      /\ job.what = "up" => job.then \in {"split", "end"}
      /\ job.what = "boot" => job.then = "leftovers"
      /\ job.at = "clear" /\ job.what # "none" /\ job' \in Jobs /\ job'.at = job.then
      /\ job'.what = job.what /\ job'.then = job.then /\ job'.mode = job.mode
      /\ state' \in [pid : Nat, id : W!Modes] /\ Unread' = Unread /\ ~W!HasSplit
      /\ Over \/ "unanswered" \in excused
      /\ job.then \in {"leftovers", "split", "end"} /\ app' = app /\ helper' = helper
      /\ follows' = follows /\ tun' = tun /\ conf' = conf /\ splitFile' = splitFile
      /\ nrpt' = nrpt /\ direct' = direct /\ into' = into /\ run' = run /\ held' = held
      /\ placed' = placed /\ noted' = noted /\ gateway' = gateway /\ orphans' = orphans
      /\ excused' = excused
  <2> USE DEF WindowsInv, W!Clear, W!At, W!Same, W!files, W!system, W!memory, W!history, W!world
  <2>1. job.at = "clear" /\ job.what # "none"
    OBVIOUS
  <2>2. ~W!HasSplit /\ (Over \/ "unanswered" \in excused)
    BY <2>1 DEF NoProxyYet, Alone, OverAt
  <2>3. /\ job.what = "boot" => job.then = "leftovers"
        /\ job.what = "up" => job.then \in {"split", "end"}
        /\ job.what \in {"down", "stop"} => job.then = "end"
    BY <2>1 DEF Placing, W!Teardown
  <2>4. /\ job' \in Jobs /\ job'.at = job.then /\ job'.what = job.what /\ job'.then = job.then
        /\ job'.mode = job.mode
    BY Going, Fields
  <2>5. Unread' = Unread
    BY <2>1, <2>3, <2>4, Fields DEF Unread, Placing, W!Teardown
  <2>6. state' \in [pid : Nat, id : W!Modes]
    BY DEF W!StateCleared, W!NoState, W!Modes
  <2> QED
    BY <2>1, <2>2, <2>3, <2>4, <2>5, <2>6, Fields DEF Over
<1> USE DEF WindowsInv
<1>1. WindowsTyped'
  BY <1>0 DEF WindowsTyped, Unread, Over
<1>2. Placing'
  BY <1>0, Fields DEF Placing, WindowsTyped, Unread, Over, W!Teardown
<1>3. NoProxyYet'
  BY <1>0, Fields DEF NoProxyYet, WindowsTyped, Alone, Unread, Over, W!Teardown, W!HasSplit
<1>4. HeldKnown'
  BY <1>0, Fields DEF HeldKnown, WindowsTyped, Unread, Over, W!HasSplit
<1>5. RoutesKnown'
  BY <1>0, Fields DEF RoutesKnown, WindowsTyped, Unread, Over, W!Teardown
<1>6. RecordsKnown'
  BY <1>0, Fields DEF RecordsKnown, WindowsTyped, Unread, Over, W!Teardown, W!HasSplit
<1>7. ConfKnown'
  BY <1>0, Fields DEF ConfKnown, WindowsTyped, Unread, Over
<1>8. OverAt'
  BY <1>0, Fields DEF OverAt, WindowsTyped, Unread, Over
<1>9. KeptKnown'
  BY <1>0, Fields DEF KeptKnown, WindowsTyped, Unread, Over, W!HasSplit
<1>10. RestartKnown'
  BY <1>0, Fields DEF RestartKnown, WindowsTyped, Unread, Over
<1>11. ModeKnown'
  BY <1>0, Fields DEF ModeKnown, WindowsTyped, Unread, Over, W!HasSplit
<1>12. AnswersKnown'
  BY <1>0, Fields DEF AnswersKnown, WindowsTyped, Unread, Over, W!Teardown, W!HasSplit, W!Adapter, W!Unrecorded, W!At
<1> QED
  BY <1>1, <1>2, <1>3, <1>4, <1>5, <1>6, <1>7, <1>8, <1>9, <1>10, <1>11, <1>12

LEMMA WinCheckKeeps ==
  ASSUME WindowsInv, W!Check
  PROVE  WindowsInv'
<1> USE WinAssumption, AppsAssumption
<1>0. /\ job.at = "check" /\ job.what # "none" /\ job' \in Jobs /\ job'.what = job.what
      /\ job'.mode = job.mode /\ job.what = "up"
      /\ \/ tun.st = "none" /\ job'.at = "split"
         \/ job'.at = "halt" /\ job'.then = "split"
         \/ job'.at = "end"
      /\ app' = app /\ helper' = helper /\ follows' = follows /\ tun' = tun /\ conf' = conf
      /\ state' = state /\ splitFile' = splitFile /\ nrpt' = nrpt /\ direct' = direct
      /\ into' = into /\ run' = run /\ held' = held /\ placed' = placed /\ noted' = noted
      /\ gateway' = gateway /\ orphans' = orphans /\ excused' = excused
  <2> USE DEF WindowsInv, W!Check, W!At, W!Same, W!files, W!system, W!memory, W!history, W!world
  <2>1. {"split", "end"} \subseteq W!Steps
    BY AllSteps
  <2>2. job.at = "check" /\ job.what = "up"
    BY Fields DEF Placing, W!Teardown
  <2> QED
    BY <2>1, <2>2, Going, Tearing
<1> USE DEF WindowsInv
<1>1. WindowsTyped'
  BY <1>0 DEF WindowsTyped, Unread, Over
<1>2. Placing'
  BY <1>0, Fields DEF Placing, WindowsTyped, Unread, Over, W!Teardown
<1>3. NoProxyYet'
  BY <1>0, Fields DEF NoProxyYet, WindowsTyped, Alone, Unread, Over, W!Teardown, W!HasSplit
<1>4. HeldKnown'
  BY <1>0, Fields DEF HeldKnown, WindowsTyped, Unread, Over, W!HasSplit
<1>5. RoutesKnown'
  BY <1>0, Fields DEF RoutesKnown, WindowsTyped, Unread, Over, W!Teardown
<1>6. RecordsKnown'
  BY <1>0, Fields DEF RecordsKnown, WindowsTyped, Unread, Over, W!Teardown, W!HasSplit
<1>7. ConfKnown'
  BY <1>0, Fields DEF ConfKnown, WindowsTyped, Unread, Over
<1>8. OverAt'
  BY <1>0, Fields DEF OverAt, WindowsTyped, Unread, Over
<1>9. KeptKnown'
  BY <1>0, Fields DEF KeptKnown, WindowsTyped, Unread, Over, W!HasSplit
<1>10. RestartKnown'
  BY <1>0, Fields DEF RestartKnown, WindowsTyped, Unread, Over
<1>11. ModeKnown'
  BY <1>0, Fields DEF ModeKnown, WindowsTyped, Unread, Over, W!HasSplit
<1>12. AnswersKnown'
  BY <1>0, Fields DEF AnswersKnown, WindowsTyped, Unread, Over, W!Teardown, W!HasSplit, W!Adapter, W!Unrecorded, W!At
<1> QED
  BY <1>1, <1>2, <1>3, <1>4, <1>5, <1>6, <1>7, <1>8, <1>9, <1>10, <1>11, <1>12

LEMMA WinSplitFullKeeps ==
  ASSUME WindowsInv, job.mode = "full", W!Split
  PROVE  WindowsInv'
<1> USE WinAssumption, AppsAssumption
<1>0. /\ job' \in Jobs /\ job'.at = "conf" /\ job'.what = job.what /\ job'.then = job.then
      /\ job'.mode = job.mode /\ job.at = "split" /\ job.what \in {"up"} /\ ~Unread /\ ~Unread'
      /\ job.mode = "full" /\ (Over \/ "unanswered" \in excused)
       /\ app' = app /\ helper' = helper /\ follows' = follows
      /\ tun' = tun /\ conf' = conf /\ state' = state /\ splitFile' = splitFile /\ nrpt' = nrpt
      /\ direct' = direct /\ into' = into /\ run' = run /\ held' = held /\ placed' = placed
      /\ noted' = noted /\ gateway' = gateway /\ orphans' = orphans /\ excused' = excused
  <2> USE DEF WindowsInv, W!Split, W!At, W!Same, W!files, W!system, W!memory, W!history, W!world
  <2>1. {"conf"} \subseteq W!Steps
    BY AllSteps
  <2>2. job.at = "split" /\ job.what \in {"up"} /\ ~Unread
    BY Fields DEF Placing, Unread, W!Teardown
  <2>3. job' \in Jobs /\ job'.at = "conf" /\ job'.what = job.what /\ job'.then = job.then
        /\ job'.mode = job.mode /\ helper' = helper
    BY <2>1, Going
  <2>4. ~Unread'
    BY <2>2, <2>3 DEF Unread, W!Teardown
  <2> QED
    BY <2>2, <2>3, <2>4 DEF OverAt
<1> USE DEF WindowsInv
<1>1. WindowsTyped'
  BY <1>0 DEF WindowsTyped, Unread, Over
<1>2. Placing'
  BY <1>0, Fields DEF Placing, WindowsTyped, Unread, Over, W!Teardown
<1>3. NoProxyYet'
  BY <1>0, Fields DEF NoProxyYet, WindowsTyped, Alone, Unread, Over, W!Teardown, W!HasSplit
<1>4. HeldKnown'
  BY <1>0, Fields DEF HeldKnown, WindowsTyped, Unread, Over, W!HasSplit
<1>5. RoutesKnown'
  BY <1>0, Fields DEF RoutesKnown, WindowsTyped, Unread, Over, W!Teardown
<1>6. RecordsKnown'
  BY <1>0, Fields DEF RecordsKnown, WindowsTyped, Unread, Over, W!Teardown, W!HasSplit
<1>7. ConfKnown'
  BY <1>0, Fields DEF ConfKnown, WindowsTyped, Unread, Over
<1>8. OverAt'
  BY <1>0, Fields DEF OverAt, WindowsTyped, Unread, Over
<1>9. KeptKnown'
  BY <1>0, Fields DEF KeptKnown, WindowsTyped, Unread, Over, W!HasSplit
<1>10. RestartKnown'
  BY <1>0, Fields DEF RestartKnown, WindowsTyped, Unread, Over
<1>11. ModeKnown'
  BY <1>0, Fields DEF ModeKnown, WindowsTyped, Unread, Over, W!HasSplit
<1>12. AnswersKnown'
  BY <1>0, Fields DEF AnswersKnown, WindowsTyped, Unread, Over, W!Teardown, W!HasSplit, W!Adapter, W!Unrecorded, W!At
<1> QED
  BY <1>1, <1>2, <1>3, <1>4, <1>5, <1>6, <1>7, <1>8, <1>9, <1>10, <1>11, <1>12

LEMMA WinSplitStartsKeeps ==
  ASSUME WindowsInv, job.mode # "full", ~W!HasSplit, W!StartsProxy(job.mode), W!Goes("conf"), W!Split
  PROVE  WindowsInv'
<1> USE WinAssumption, AppsAssumption
<1>0. /\ job' \in Jobs /\ job'.at = "conf" /\ job'.what = job.what /\ job'.then = job.then
      /\ job'.mode = job.mode /\ job.at = "split" /\ job.what \in {"up"} /\ ~Unread /\ ~Unread'
      /\ ~W!HasSplit /\ (Over \/ "unanswered" \in excused)
       /\ run' \in Runs /\ run'.mode # "none" /\ ~run'.nrpt
      /\ splitFile' \in Records /\ splitFile'.mode # "none" /\ held = {} /\ noted = {}
      /\ (nrpt => "rule" \in excused) /\ app' = app /\ helper' = helper /\ follows' = follows /\ tun' = tun
      /\ conf' = conf /\ state' = state /\ nrpt' = nrpt /\ direct' = direct /\ into' = into
      /\ held' = held /\ placed' = placed /\ noted' = noted /\ gateway' = gateway
      /\ orphans' = orphans /\ excused' = excused
  <2> USE DEF WindowsInv, W!Split, W!At, W!Same, W!files, W!system, W!memory, W!history, W!world
  <2>1. {"conf"} \subseteq W!Steps
    BY AllSteps
  <2>2. job.at = "split" /\ job.what \in {"up"} /\ ~Unread
    BY Fields DEF Placing, Unread, W!Teardown
  <2>3. job' \in Jobs /\ job'.at = "conf" /\ job'.what = job.what /\ job'.then = job.then
        /\ job'.mode = job.mode /\ helper' = helper
    BY <2>1, Going
  <2>4. ~Unread'
    BY <2>2, <2>3 DEF Unread, W!Teardown
  <2>5. run' = [mode |-> job.mode, best |-> gateway, tun |-> FALSE, nrpt |-> FALSE]
        /\ splitFile' = [mode |-> job.mode, routes |-> {}]
    BY DEF W!StartsProxy
  <2>6. job.mode \in {"proxy", "direct"}
    BY Fields DEF W!Modes
  <2>7. run' \in Runs /\ splitFile' \in Records
    BY <2>5, <2>6 DEF Runs, Records, WindowsTyped
  <2>8. held = {} /\ noted = {} /\ (nrpt => "rule" \in excused)
    BY <2>2 DEF HeldKnown, RecordsKnown, WindowsTyped
  <2> QED
    BY <2>2, <2>3, <2>4, <2>5, <2>6, <2>7, <2>8 DEF OverAt
<1> USE DEF WindowsInv
<1>1. WindowsTyped'
  BY <1>0 DEF WindowsTyped, Unread, Over
<1>2. Placing'
  BY <1>0, Fields DEF Placing, WindowsTyped, Unread, Over, W!Teardown
<1>3. NoProxyYet'
  BY <1>0, Fields DEF NoProxyYet, WindowsTyped, Alone, Unread, Over, W!Teardown, W!HasSplit, Placing
<1>4. HeldKnown'
  BY <1>0, Fields DEF HeldKnown, WindowsTyped, Unread, Over, W!HasSplit
<1>5. RoutesKnown'
  BY <1>0, Fields DEF RoutesKnown, WindowsTyped, Unread, Over, W!Teardown
<1>6. RecordsKnown'
  BY <1>0, Fields DEF RecordsKnown, WindowsTyped, Unread, Over, W!Teardown, W!HasSplit
<1>7. ConfKnown'
  BY <1>0, Fields DEF ConfKnown, WindowsTyped, Unread, Over
<1>8. OverAt'
  BY <1>0, Fields DEF OverAt, WindowsTyped, Unread, Over
<1>9. KeptKnown'
  BY <1>0, Fields DEF KeptKnown, WindowsTyped, Unread, Over, W!HasSplit, RestartKnown
<1>10. RestartKnown'
  BY <1>0, Fields DEF RestartKnown, WindowsTyped, Unread, Over
<1>11. ModeKnown'
  BY <1>0, Fields DEF ModeKnown, WindowsTyped, Unread, Over, W!HasSplit
<1>12. AnswersKnown'
  BY <1>0, Fields DEF AnswersKnown, WindowsTyped, Unread, Over, W!Teardown, W!HasSplit, W!Adapter, W!Unrecorded, W!At
<1> QED
  BY <1>1, <1>2, <1>3, <1>4, <1>5, <1>6, <1>7, <1>8, <1>9, <1>10, <1>11, <1>12

LEMMA WinSplitFailsKeeps ==
  ASSUME WindowsInv, W!Goes("end"), splitFile' = W!NoSplitFile, UNCHANGED run, W!Split
  PROVE  WindowsInv'
<1> USE WinAssumption, AppsAssumption
<1>0. /\ job' \in Jobs /\ job'.at = "end" /\ job'.what = job.what /\ job'.then = job.then
      /\ job'.mode = job.mode /\ job.at = "split" /\ job.what \in {"up"} /\ ~Unread /\ ~Unread'
      /\ splitFile' = W!NoSplitFile /\ (Over \/ "unanswered" \in excused)
      /\ app' = app /\ helper' = helper
      /\ follows' = follows /\ tun' = tun /\ conf' = conf /\ state' = state /\ nrpt' = nrpt
      /\ direct' = direct /\ into' = into /\ run' = run /\ held' = held /\ placed' = placed
      /\ noted' = noted /\ gateway' = gateway /\ orphans' = orphans /\ excused' = excused
  <2> USE DEF WindowsInv, W!Split, W!At, W!Same, W!files, W!system, W!memory, W!history, W!world
  <2>1. {"end"} \subseteq W!Steps
    BY AllSteps
  <2>2. job.at = "split" /\ job.what \in {"up"} /\ ~Unread
    BY Fields DEF Placing, Unread, W!Teardown
  <2>3. job' \in Jobs /\ job'.at = "end" /\ job'.what = job.what /\ job'.then = job.then
        /\ job'.mode = job.mode /\ helper' = helper
    BY <2>1, Going
  <2>4. ~Unread'
    BY <2>2, <2>3 DEF Unread, W!Teardown
  <2> QED
    BY <2>2, <2>3, <2>4 DEF OverAt
<1> USE DEF WindowsInv
<1>1. WindowsTyped'
  BY <1>0, NoneYet DEF WindowsTyped, Unread, Over
<1>2. Placing'
  BY <1>0, Fields DEF Placing, WindowsTyped, Unread, Over, W!Teardown
<1>3. NoProxyYet'
  BY <1>0, Fields DEF NoProxyYet, WindowsTyped, Alone, Unread, Over, W!Teardown, W!HasSplit
<1>4. HeldKnown'
  BY <1>0, Fields DEF HeldKnown, WindowsTyped, Unread, Over, W!HasSplit
<1>5. RoutesKnown'
  BY <1>0, Fields DEF RoutesKnown, WindowsTyped, Unread, Over, W!Teardown
<1>6. RecordsKnown'
  BY <1>0, Fields, NoneYet DEF RecordsKnown, WindowsTyped, Unread, Over, W!Teardown, W!HasSplit
<1>7. ConfKnown'
  BY <1>0, Fields DEF ConfKnown, WindowsTyped, Unread, Over
<1>8. OverAt'
  BY <1>0, Fields DEF OverAt, WindowsTyped, Unread, Over
<1>9. KeptKnown'
  BY <1>0, Fields DEF KeptKnown, WindowsTyped, Unread, Over, W!HasSplit
<1>10. RestartKnown'
  BY <1>0, Fields DEF RestartKnown, WindowsTyped, Unread, Over
<1>11. ModeKnown'
  BY <1>0, Fields DEF ModeKnown, WindowsTyped, Unread, Over, W!HasSplit
<1>12. AnswersKnown'
  BY <1>0, Fields DEF AnswersKnown, WindowsTyped, Unread, Over, W!Teardown, W!HasSplit, W!Adapter, W!Unrecorded, W!At
<1> QED
  BY <1>1, <1>2, <1>3, <1>4, <1>5, <1>6, <1>7, <1>8, <1>9, <1>10, <1>11, <1>12

LEMMA WinSplitKeeps ==
  ASSUME WindowsInv, W!Split
  PROVE  WindowsInv'
  BY WinSplitFullKeeps, WinSplitStartsKeeps, WinSplitFailsKeeps DEF W!Split

LEMMA WinConfWrittenKeeps ==
  ASSUME WindowsInv, W!Goes("start"), UNCHANGED <<excused, splitFile, nrpt, direct, into, run, held, placed, noted>>, W!WritesConf
  PROVE  WindowsInv'
<1> USE WinAssumption, AppsAssumption
<1>0. /\ job' \in Jobs /\ job'.at = "start" /\ job'.what = job.what /\ job'.then = job.then
      /\ job'.mode = job.mode /\ job.at = "conf" /\ job.what \in {"up"} /\ ~Unread /\ ~Unread'
      /\ app' = app /\ helper' = helper /\ follows' = follows /\ tun' = tun /\ state' = state
      /\ splitFile' = splitFile /\ nrpt' = nrpt /\ direct' = direct /\ into' = into /\ run' = run
      /\ held' = held /\ placed' = placed /\ noted' = noted /\ gateway' = gateway
      /\ orphans' = orphans /\ excused' = excused
  <2> USE DEF WindowsInv, W!WritesConf, W!At, W!Same, W!files, W!system, W!memory, W!history, W!world
  <2>1. {"start"} \subseteq W!Steps
    BY AllSteps
  <2>2. job.at = "conf" /\ job.what \in {"up"} /\ ~Unread
    BY Fields DEF Placing, Unread, W!Teardown
  <2>3. job' \in Jobs /\ job'.at = "start" /\ job'.what = job.what /\ job'.then = job.then
        /\ job'.mode = job.mode /\ helper' = helper
    BY <2>1, Going
  <2>4. ~Unread'
    BY <2>2, <2>3 DEF Unread, W!Teardown
  <2> QED
    BY <2>2, <2>3, <2>4
<1> USE DEF WindowsInv
<1>1. WindowsTyped'
  BY <1>0 DEF WindowsTyped, Unread, Over
<1>2. Placing'
  BY <1>0, Fields DEF Placing, WindowsTyped, Unread, Over, W!Teardown
<1>3. NoProxyYet'
  BY <1>0, Fields DEF NoProxyYet, WindowsTyped, Alone, Unread, Over, W!Teardown, W!HasSplit
<1>4. HeldKnown'
  BY <1>0, Fields DEF HeldKnown, WindowsTyped, Unread, Over, W!HasSplit
<1>5. RoutesKnown'
  BY <1>0, Fields DEF RoutesKnown, WindowsTyped, Unread, Over, W!Teardown
<1>6. RecordsKnown'
  BY <1>0, Fields DEF RecordsKnown, WindowsTyped, Unread, Over, W!Teardown, W!HasSplit
<1>7. ConfKnown'
  BY <1>0, Fields DEF ConfKnown, WindowsTyped, Unread, Over
<1>8. OverAt'
  BY <1>0, Fields DEF OverAt, WindowsTyped, Unread, Over
<1>9. KeptKnown'
  BY <1>0, Fields DEF KeptKnown, WindowsTyped, Unread, Over, W!HasSplit
<1>10. RestartKnown'
  BY <1>0, Fields DEF RestartKnown, WindowsTyped, Unread, Over
<1>11. ModeKnown'
  BY <1>0, Fields DEF ModeKnown, WindowsTyped, Unread, Over, W!HasSplit
<1>12. AnswersKnown'
  BY <1>0, Fields DEF AnswersKnown, WindowsTyped, Unread, Over, W!Teardown, W!HasSplit, W!Adapter, W!Unrecorded, W!At
<1> QED
  BY <1>1, <1>2, <1>3, <1>4, <1>5, <1>6, <1>7, <1>8, <1>9, <1>10, <1>11, <1>12

LEMMA WinConfFailsKeeps ==
  ASSUME WindowsInv, W!Goes("end"), W!Unwritten, W!WritesConf
  PROVE  WindowsInv'
<1> USE WinAssumption, AppsAssumption
<1>0. /\ job' \in Jobs /\ job'.at = "end" /\ job'.what = job.what /\ job'.then = job.then
      /\ job'.mode = job.mode /\ job.at = "conf" /\ job.what \in {"up"} /\ ~Unread /\ ~Unread'
      /\ conf' = "none" \/ "conf" \in excused'
      /\ \A w \in {"rule", "kept", "unanswered"} : w \in excused' <=> w \in excused
      /\ Over \/ "unanswered" \in excused
      /\ run' \in Runs /\ run'.mode = "none" /\ ~run'.nrpt /\ held' = {}
      /\ noted' = {} /\ splitFile' = W!NoSplitFile /\ nrpt' \in BOOLEAN
      /\ nrpt' => "rule" \in excused
      /\ direct' \in [Dests -> SUBSET Gateways]
      /\ placed' \in [Dests -> Gateways \cup {NoGateway}]
      /\ \A x \in Dests : placed'[x] = NoGateway
      /\ \A x \in Dests : \A g \in direct'[x] : <<x, g>> \in orphans
      /\ app' = app /\ helper' = helper /\ follows' = follows /\ tun' = tun /\ state' = state
      /\ gateway' = gateway /\ orphans' = orphans
  <2> USE DEF WindowsInv, W!WritesConf, W!At, W!Same, W!files, W!system, W!memory, W!history, W!world
  <2>1. {"end"} \subseteq W!Steps
    BY AllSteps
  <2>2. job.at = "conf" /\ job.what \in {"up"} /\ ~Unread
    BY Fields DEF Placing, Unread, W!Teardown
  <2>3. job' \in Jobs /\ job'.at = "end" /\ job'.what = job.what /\ job'.then = job.then
        /\ job'.mode = job.mode /\ helper' = helper
    BY <2>1, Going
  <2>4. ~Unread'
    BY <2>2, <2>3 DEF Unread, W!Teardown
  <2>5. Over \/ "unanswered" \in excused
    BY <2>2 DEF OverAt
  <2>6. /\ conf' = "none" \/ "conf" \in excused'
        /\ \A w \in {"rule", "kept", "unanswered"} : w \in excused' <=> w \in excused
        /\ W!StopsRun
    BY DEF W!Unwritten
  <2> QED
    BY <2>2, <2>3, <2>4, <2>5, <2>6, RunStops
<1> USE DEF WindowsInv
<1>1. WindowsTyped'
  BY <1>0, NoneYet DEF WindowsTyped, Unread, Over
<1>2. Placing'
  BY <1>0, Fields DEF Placing, WindowsTyped, Unread, Over, W!Teardown
<1>3. NoProxyYet'
  BY <1>0, Fields DEF NoProxyYet, WindowsTyped, Alone, Unread, Over, W!Teardown, W!HasSplit
<1>4. HeldKnown'
  BY <1>0, Fields DEF HeldKnown, WindowsTyped, Unread, Over, W!HasSplit
<1>5. RoutesKnown'
  BY <1>0, Fields DEF RoutesKnown, WindowsTyped, Unread, Over, W!Teardown
<1>6. RecordsKnown'
  BY <1>0, Fields, NoneYet DEF RecordsKnown, WindowsTyped, Unread, Over, W!Teardown, W!HasSplit
<1>7. ConfKnown'
  BY <1>0, Fields DEF ConfKnown, WindowsTyped, Unread, Over
<1>8. OverAt'
  BY <1>0, Fields DEF OverAt, WindowsTyped, Unread, Over
<1>9. KeptKnown'
  BY <1>0, Fields DEF KeptKnown, WindowsTyped, Unread, Over, W!HasSplit
<1>10. RestartKnown'
  BY <1>0, Fields DEF RestartKnown, WindowsTyped, Unread, Over
<1>11. ModeKnown'
  BY <1>0, Fields DEF ModeKnown, WindowsTyped, Unread, Over, W!HasSplit
<1>12. AnswersKnown'
  BY <1>0, Fields DEF AnswersKnown, WindowsTyped, Unread, Over, W!Teardown, W!HasSplit, W!Adapter, W!Unrecorded, W!At
<1> QED
  BY <1>1, <1>2, <1>3, <1>4, <1>5, <1>6, <1>7, <1>8, <1>9, <1>10, <1>11, <1>12

LEMMA WinWritesConfKeeps ==
  ASSUME WindowsInv, W!WritesConf
  PROVE  WindowsInv'
<1>1. CASE W!Goes("start") /\ UNCHANGED <<excused, splitFile, nrpt, direct, into, run, held, placed, noted>>
  BY <1>1, WinConfWrittenKeeps
<1>2. CASE W!Goes("end") /\ W!Unwritten
  BY <1>2, WinConfFailsKeeps
<1> QED
  BY <1>1, <1>2 DEF W!WritesConf, W!memory

LEMMA WinStartRunsKeeps ==
  ASSUME WindowsInv, tun' = [st |-> "running", doomed |-> FALSE, mode |-> job.mode],
         W!Goes(IF W!HasSplit /\ job.mode # "full" THEN "attach" ELSE "save"), W!Start
  PROVE  WindowsInv'
<1> USE WinAssumption, AppsAssumption
<1>0. /\ job' \in Jobs /\ job.at = "start" /\ job.what \in {"up"} /\ ~Unread /\ ~Unread'
      /\ tun' \in Tunnels /\ tun'.st = "running" /\ tun'.mode = job.mode /\ ~Over'
      /\ job'.at \in {"attach", "save"}
      /\ job'.at = "attach" => W!HasSplit
      /\ job'.what = job.what /\ job'.then = job.then /\ job'.mode = job.mode /\ app' = app
      /\ helper' = helper /\ follows' = follows /\ conf' = conf /\ state' = state
      /\ splitFile' = splitFile /\ nrpt' = nrpt /\ direct' = direct /\ into' = into /\ run' = run
      /\ held' = held /\ placed' = placed /\ noted' = noted /\ gateway' = gateway
      /\ orphans' = orphans /\ excused' = excused
  <2> USE DEF WindowsInv, W!Start, W!At, W!Same, W!files, W!system, W!memory, W!history, W!world
  <2>1. {"attach", "save"} \subseteq W!Steps
    BY AllSteps
  <2>2. job.at = "start" /\ job.what \in {"up"} /\ ~Unread
    BY Fields DEF Placing, Unread, W!Teardown
  <2>3. /\ job' \in Jobs /\ job'.what = job.what /\ job'.then = job.then /\ job'.mode = job.mode
        /\ helper' = helper /\ job'.at \in {"attach", "save"}
        /\ job'.at = "attach" => W!HasSplit
    BY <2>1, Going
  <2>4. ~Unread'
    BY <2>2, <2>3 DEF Unread, W!Teardown
  <2>5. tun' \in Tunnels /\ tun'.st = "running" /\ tun'.mode = job.mode /\ ~Over'
    BY Fields DEF Tunnels, Over
  <2> QED
    BY <2>2, <2>3, <2>4, <2>5
<1> USE DEF WindowsInv
<1>1. WindowsTyped'
  BY <1>0 DEF WindowsTyped, Unread, Over
<1>2. Placing'
  BY <1>0, Fields DEF Placing, WindowsTyped, Unread, Over, W!Teardown
<1>3. NoProxyYet'
  BY <1>0, Fields DEF NoProxyYet, WindowsTyped, Alone, Unread, Over, W!Teardown, W!HasSplit
<1>4. HeldKnown'
  BY <1>0, Fields DEF HeldKnown, WindowsTyped, Unread, Over, W!HasSplit
<1>5. RoutesKnown'
  BY <1>0, Fields DEF RoutesKnown, WindowsTyped, Unread, Over, W!Teardown
<1>6. RecordsKnown'
  BY <1>0, Fields DEF RecordsKnown, WindowsTyped, Unread, Over, W!Teardown, W!HasSplit
<1>7. ConfKnown'
  BY <1>0, Fields DEF ConfKnown, WindowsTyped, Unread, Over
<1>8. OverAt'
  BY <1>0, Fields DEF OverAt, WindowsTyped, Unread, Over
<1>9. KeptKnown'
  BY <1>0, Fields DEF KeptKnown, WindowsTyped, Unread, Over, W!HasSplit
<1>10. RestartKnown'
  BY <1>0, Fields DEF RestartKnown, WindowsTyped, Unread, Over
<1>11. ModeKnown'
  BY <1>0, Fields DEF ModeKnown, WindowsTyped, Unread, Over, W!HasSplit
<1>12. AnswersKnown'
  BY <1>0, Fields DEF AnswersKnown, WindowsTyped, Unread, Over, W!Teardown, W!HasSplit, W!Adapter, W!Unrecorded, W!At, ModeKnown
<1> QED
  BY <1>1, <1>2, <1>3, <1>4, <1>5, <1>6, <1>7, <1>8, <1>9, <1>10, <1>11, <1>12

LEMMA WinStartGivesUpKeeps ==
  ASSUME WindowsInv, W!Goes("failed"), UNCHANGED tun, W!Start
  PROVE  WindowsInv'
<1> USE WinAssumption, AppsAssumption
<1>0. /\ job' \in Jobs /\ job'.at = "failed" /\ job'.what = job.what /\ job'.then = job.then
      /\ job'.mode = job.mode /\ job.at = "start" /\ job.what \in {"up"} /\ ~Unread /\ ~Unread'
      /\ (Over \/ "unanswered" \in excused) /\ app' = app /\ helper' = helper /\ follows' = follows /\ tun' = tun
      /\ conf' = conf /\ state' = state /\ splitFile' = splitFile /\ nrpt' = nrpt
      /\ direct' = direct /\ into' = into /\ run' = run /\ held' = held /\ placed' = placed
      /\ noted' = noted /\ gateway' = gateway /\ orphans' = orphans /\ excused' = excused
  <2> USE DEF WindowsInv, W!Start, W!At, W!Same, W!files, W!system, W!memory, W!history, W!world
  <2>1. {"failed"} \subseteq W!Steps
    BY AllSteps
  <2>2. job.at = "start" /\ job.what \in {"up"} /\ ~Unread
    BY Fields DEF Placing, Unread, W!Teardown
  <2>3. job' \in Jobs /\ job'.at = "failed" /\ job'.what = job.what /\ job'.then = job.then
        /\ job'.mode = job.mode /\ helper' = helper
    BY <2>1, Going
  <2>4. ~Unread'
    BY <2>2, <2>3 DEF Unread, W!Teardown
  <2> QED
    BY <2>2, <2>3, <2>4 DEF OverAt
<1> USE DEF WindowsInv
<1>1. WindowsTyped'
  BY <1>0 DEF WindowsTyped, Unread, Over
<1>2. Placing'
  BY <1>0, Fields DEF Placing, WindowsTyped, Unread, Over, W!Teardown
<1>3. NoProxyYet'
  BY <1>0, Fields DEF NoProxyYet, WindowsTyped, Alone, Unread, Over, W!Teardown, W!HasSplit
<1>4. HeldKnown'
  BY <1>0, Fields DEF HeldKnown, WindowsTyped, Unread, Over, W!HasSplit
<1>5. RoutesKnown'
  BY <1>0, Fields DEF RoutesKnown, WindowsTyped, Unread, Over, W!Teardown
<1>6. RecordsKnown'
  BY <1>0, Fields DEF RecordsKnown, WindowsTyped, Unread, Over, W!Teardown, W!HasSplit
<1>7. ConfKnown'
  BY <1>0, Fields DEF ConfKnown, WindowsTyped, Unread, Over
<1>8. OverAt'
  BY <1>0, Fields DEF OverAt, WindowsTyped, Unread, Over
<1>9. KeptKnown'
  BY <1>0, Fields DEF KeptKnown, WindowsTyped, Unread, Over, W!HasSplit
<1>10. RestartKnown'
  BY <1>0, Fields DEF RestartKnown, WindowsTyped, Unread, Over
<1>11. ModeKnown'
  BY <1>0, Fields DEF ModeKnown, WindowsTyped, Unread, Over, W!HasSplit
<1>12. AnswersKnown'
  BY <1>0, Fields DEF AnswersKnown, WindowsTyped, Unread, Over, W!Teardown, W!HasSplit, W!Adapter, W!Unrecorded, W!At
<1> QED
  BY <1>1, <1>2, <1>3, <1>4, <1>5, <1>6, <1>7, <1>8, <1>9, <1>10, <1>11, <1>12

LEMMA WinStartHalfwayKeeps ==
  ASSUME WindowsInv, W!Goes("failed"), NEW st \in {"none", "stopped", "running"},
         tun' = [st |-> st, doomed |-> FALSE, mode |-> job.mode], W!Start
  PROVE  WindowsInv'
<1> USE WinAssumption, AppsAssumption
<1>0. /\ job' \in Jobs /\ job'.at = "failed" /\ job'.what = job.what /\ job'.then = job.then
      /\ job'.mode = job.mode /\ job.at = "start" /\ job.what \in {"up"} /\ ~Unread /\ ~Unread'
      /\ tun' \in Tunnels /\ tun'.st = st /\ tun'.mode = job.mode /\ app' = app
      /\ helper' = helper /\ follows' = follows /\ conf' = conf /\ state' = state
      /\ splitFile' = splitFile /\ nrpt' = nrpt /\ direct' = direct /\ into' = into /\ run' = run
      /\ held' = held /\ placed' = placed /\ noted' = noted /\ gateway' = gateway
      /\ orphans' = orphans /\ excused' = excused
  <2> USE DEF WindowsInv, W!Start, W!At, W!Same, W!files, W!system, W!memory, W!history, W!world
  <2>1. {"failed"} \subseteq W!Steps
    BY AllSteps
  <2>2. job.at = "start" /\ job.what \in {"up"} /\ ~Unread
    BY Fields DEF Placing, Unread, W!Teardown
  <2>3. job' \in Jobs /\ job'.at = "failed" /\ job'.what = job.what /\ job'.then = job.then
        /\ job'.mode = job.mode /\ helper' = helper
    BY <2>1, Going
  <2>4. ~Unread'
    BY <2>2, <2>3 DEF Unread, W!Teardown
  <2>5. tun' \in Tunnels /\ tun'.st = st /\ tun'.mode = job.mode
    BY Fields DEF Tunnels
  <2> QED
    BY <2>2, <2>3, <2>4, <2>5
<1> USE DEF WindowsInv
<1>1. WindowsTyped'
  BY <1>0 DEF WindowsTyped, Unread, Over
<1>2. Placing'
  BY <1>0, Fields DEF Placing, WindowsTyped, Unread, Over, W!Teardown
<1>3. NoProxyYet'
  BY <1>0, Fields DEF NoProxyYet, WindowsTyped, Alone, Unread, Over, W!Teardown, W!HasSplit
<1>4. HeldKnown'
  BY <1>0, Fields DEF HeldKnown, WindowsTyped, Unread, Over, W!HasSplit
<1>5. RoutesKnown'
  BY <1>0, Fields DEF RoutesKnown, WindowsTyped, Unread, Over, W!Teardown
<1>6. RecordsKnown'
  BY <1>0, Fields DEF RecordsKnown, WindowsTyped, Unread, Over, W!Teardown, W!HasSplit
<1>7. ConfKnown'
  BY <1>0, Fields DEF ConfKnown, WindowsTyped, Unread, Over
<1>8. OverAt'
  BY <1>0, Fields DEF OverAt, WindowsTyped, Unread, Over
<1>9. KeptKnown'
  BY <1>0, Fields DEF KeptKnown, WindowsTyped, Unread, Over, W!HasSplit
<1>10. RestartKnown'
  BY <1>0, Fields DEF RestartKnown, WindowsTyped, Unread, Over
<1>11. ModeKnown'
  BY <1>0, Fields DEF ModeKnown, WindowsTyped, Unread, Over, W!HasSplit
<1>12. AnswersKnown'
  BY <1>0, Fields DEF AnswersKnown, WindowsTyped, Unread, Over, W!Teardown, W!HasSplit, W!Adapter, W!Unrecorded, W!At, ModeKnown
<1> QED
  BY <1>1, <1>2, <1>3, <1>4, <1>5, <1>6, <1>7, <1>8, <1>9, <1>10, <1>11, <1>12

LEMMA WinStartKeeps ==
  ASSUME WindowsInv, W!Start
  PROVE  WindowsInv'
  BY WinStartRunsKeeps, WinStartGivesUpKeeps, WinStartHalfwayKeeps DEF W!Start

LEMMA WinStartFailedKeeps ==
  ASSUME WindowsInv, W!StartFailed
  PROVE  WindowsInv'
<1> USE WinAssumption, AppsAssumption
<1>0. /\ job' \in Jobs /\ job.at = "failed" /\ job.what \in {"up"} /\ ~Unread /\ ~Unread'
      /\ job'.at = "halt" /\ job'.then = "end" /\ job'.what = "up" /\ run' \in Runs
      /\ run'.mode = "none" /\ ~run'.nrpt /\ held' = {} /\ noted' = {}
      /\ splitFile' = W!NoSplitFile /\ nrpt' \in BOOLEAN
      /\ nrpt' => "rule" \in excused
      /\ direct' \in [Dests -> SUBSET Gateways]
      /\ placed' \in [Dests -> Gateways \cup {NoGateway}]
      /\ \A x \in Dests : placed'[x] = NoGateway
      /\ \A x \in Dests : \A g \in direct'[x] : <<x, g>> \in orphans
      /\ app' = app /\ helper' = helper /\ follows' = follows /\ tun' = tun /\ conf' = conf
      /\ state' = state /\ gateway' = gateway /\ orphans' = orphans /\ excused' = excused
  <2> USE DEF WindowsInv, W!StartFailed, W!At, W!Same, W!files, W!system, W!memory, W!history, W!world
  <2>1. {"end"} \subseteq W!Steps
    BY AllSteps
  <2>2. job.at = "failed" /\ job.what \in {"up"} /\ ~Unread
    BY Fields DEF Placing, Unread, W!Teardown
  <2>3. job' \in Jobs /\ job'.at = "halt" /\ job'.what = job.what /\ job'.then = "end"
    BY <2>1, Tearing
  <2>4. ~Unread'
    BY <2>2, <2>3 DEF Unread
  <2> QED
    BY <2>2, <2>3, <2>4, RunStops
<1> USE DEF WindowsInv
<1>1. WindowsTyped'
  BY <1>0, NoneYet DEF WindowsTyped, Unread, Over
<1>2. Placing'
  BY <1>0, Fields DEF Placing, WindowsTyped, Unread, Over, W!Teardown
<1>3. NoProxyYet'
  BY <1>0, Fields DEF NoProxyYet, WindowsTyped, Alone, Unread, Over, W!Teardown, W!HasSplit
<1>4. HeldKnown'
  BY <1>0, Fields DEF HeldKnown, WindowsTyped, Unread, Over, W!HasSplit
<1>5. RoutesKnown'
  BY <1>0, Fields DEF RoutesKnown, WindowsTyped, Unread, Over, W!Teardown
<1>6. RecordsKnown'
  BY <1>0, Fields, NoneYet DEF RecordsKnown, WindowsTyped, Unread, Over, W!Teardown, W!HasSplit
<1>7. ConfKnown'
  BY <1>0, Fields DEF ConfKnown, WindowsTyped, Unread, Over
<1>8. OverAt'
  BY <1>0, Fields DEF OverAt, WindowsTyped, Unread, Over
<1>9. KeptKnown'
  BY <1>0, Fields DEF KeptKnown, WindowsTyped, Unread, Over, W!HasSplit
<1>10. RestartKnown'
  BY <1>0, Fields DEF RestartKnown, WindowsTyped, Unread, Over
<1>11. ModeKnown'
  BY <1>0, Fields DEF ModeKnown, WindowsTyped, Unread, Over, W!HasSplit
<1>12. AnswersKnown'
  BY <1>0, Fields DEF AnswersKnown, WindowsTyped, Unread, Over, W!Teardown, W!HasSplit, W!Adapter, W!Unrecorded, W!At
<1> QED
  BY <1>1, <1>2, <1>3, <1>4, <1>5, <1>6, <1>7, <1>8, <1>9, <1>10, <1>11, <1>12

LEMMA WinSaveKeeps ==
  ASSUME WindowsInv, W!Save
  PROVE  WindowsInv'
<1> USE WinAssumption, AppsAssumption
<1>0. /\ job' \in Jobs /\ job'.at = "end" /\ job'.what = job.what /\ job'.then = job.then
      /\ job'.mode = job.mode /\ job.at = "save" /\ job.what # "none"
      /\ state' \in [pid : Nat, id : W!Modes] /\ job.what = "up" /\ app' = app /\ helper' = helper
      /\ follows' = follows /\ tun' = tun /\ conf' = conf /\ splitFile' = splitFile
      /\ nrpt' = nrpt /\ direct' = direct /\ into' = into /\ run' = run /\ held' = held
      /\ placed' = placed /\ noted' = noted /\ gateway' = gateway /\ orphans' = orphans
      /\ excused' = excused
  <2> USE DEF WindowsInv, W!Save, W!At, W!Same, W!files, W!system, W!memory, W!history, W!world
  <2>1. "end" \in W!Steps
    BY AllSteps
  <2>2. job.what = "up"
    BY Fields DEF Placing, W!Teardown
  <2>3. state' \in [pid : Nat, id : W!Modes]
    BY Fields
  <2> QED
    BY <2>1, <2>2, <2>3, Going
<1> USE DEF WindowsInv
<1>1. WindowsTyped'
  BY <1>0 DEF WindowsTyped, Unread, Over
<1>2. Placing'
  BY <1>0, Fields DEF Placing, WindowsTyped, Unread, Over, W!Teardown
<1>3. NoProxyYet'
  BY <1>0, Fields DEF NoProxyYet, WindowsTyped, Alone, Unread, Over, W!Teardown, W!HasSplit
<1>4. HeldKnown'
  BY <1>0, Fields DEF HeldKnown, WindowsTyped, Unread, Over, W!HasSplit
<1>5. RoutesKnown'
  BY <1>0, Fields DEF RoutesKnown, WindowsTyped, Unread, Over, W!Teardown
<1>6. RecordsKnown'
  BY <1>0, Fields DEF RecordsKnown, WindowsTyped, Unread, Over, W!Teardown, W!HasSplit
<1>7. ConfKnown'
  BY <1>0, Fields DEF ConfKnown, WindowsTyped, Unread, Over
<1>8. OverAt'
  BY <1>0, Fields DEF OverAt, WindowsTyped, Unread, Over
<1>9. KeptKnown'
  BY <1>0, Fields DEF KeptKnown, WindowsTyped, Unread, Over, W!HasSplit
<1>10. RestartKnown'
  BY <1>0, Fields DEF RestartKnown, WindowsTyped, Unread, Over
<1>11. ModeKnown'
  BY <1>0, Fields DEF ModeKnown, WindowsTyped, Unread, Over, W!HasSplit
<1>12. AnswersKnown'
  BY <1>0, Fields DEF AnswersKnown, WindowsTyped, Unread, Over, W!Teardown, W!HasSplit, W!Adapter, W!Unrecorded, W!At
<1> QED
  BY <1>1, <1>2, <1>3, <1>4, <1>5, <1>6, <1>7, <1>8, <1>9, <1>10, <1>11, <1>12

LEMMA WinAttachKeeps ==
  ASSUME WindowsInv, W!Attach
  PROVE  WindowsInv'
<1> USE WinAssumption, AppsAssumption
<1>0. /\ job' \in Jobs /\ job.at = "attach" /\ job.what \in {"boot", "up"} /\ ~Unread /\ ~Unread'
      /\ W!HasSplit /\ run' \in Runs /\ run'.mode = run.mode /\ run'.nrpt = run.nrpt
      /\ excused \subseteq excused'
      /\ \/ job'.at = "pins" /\ job'.then = job.then
         \/ job.what = "up" /\ job'.at = "halt" /\ job'.then = "end"
         \/ job.what = "boot" /\ job'.at = "adopt" /\ job'.then = job.then
      /\ job'.what = job.what /\ job'.mode = job.mode /\ app' = app /\ helper' = helper
      /\ follows' = follows /\ tun' = tun /\ conf' = conf /\ state' = state
      /\ splitFile' = splitFile /\ nrpt' = nrpt /\ direct' = direct /\ into' = into
      /\ held' = held /\ placed' = placed /\ noted' = noted /\ gateway' = gateway
      /\ orphans' = orphans
  <2> USE DEF WindowsInv, W!Attach, W!At, W!Same, W!files, W!system, W!memory, W!history, W!world
  <2>1. {"pins", "end", "adopt"} \subseteq W!Steps
    BY AllSteps
  <2>2. job.at = "attach" /\ job.what \in {"boot", "up"} /\ ~Unread
    BY Fields DEF Placing, Unread, W!Teardown
  <2>3. /\ run' \in Runs /\ run'.mode = run.mode /\ run'.nrpt = run.nrpt
        /\ excused \subseteq excused'
    <3>1. CASE run' = run
      BY <3>1, Fields DEF WindowsTyped
    <3>2. CASE run' = [run EXCEPT !.best = gateway, !.tun = TRUE]
      BY <3>2, Fields DEF WindowsTyped, Runs
    <3> QED BY <3>1, <3>2
  <2>4. \/ W!Goes("pins") \/ W!Unattached
    OBVIOUS
  <2>5. /\ job' \in Jobs /\ job'.what = job.what /\ job'.mode = job.mode /\ helper' = helper
        /\ \/ job'.at = "pins" /\ job'.then = job.then
           \/ job.what = "up" /\ job'.at = "halt" /\ job'.then = "end"
           \/ job.what = "boot" /\ job'.at = "adopt" /\ job'.then = job.then
    <3>1. CASE W!Goes("pins")
      BY <2>1, <3>1, Going
    <3>2. CASE W!Unattached /\ job.what = "up"
      BY <2>1, <3>2, Tearing DEF W!Unattached
    <3>3. CASE W!Unattached /\ job.what # "up"
      BY <2>1, <2>2, <3>3, Going DEF W!Unattached
    <3> QED BY <2>4, <3>1, <3>2, <3>3
  <2>6. ~Unread'
    BY <2>2, <2>5 DEF Unread, W!Teardown
  <2> QED
    BY <2>2, <2>3, <2>5, <2>6 DEF ModeKnown
<1> USE DEF WindowsInv
<1>1. WindowsTyped'
  BY <1>0 DEF WindowsTyped, Unread, Over
<1>2. Placing'
  BY <1>0, Fields DEF Placing, WindowsTyped, Unread, Over, W!Teardown
<1>3. NoProxyYet'
  BY <1>0, Fields DEF NoProxyYet, WindowsTyped, Alone, Unread, Over, W!Teardown, W!HasSplit
<1>4. HeldKnown'
  BY <1>0, Fields DEF HeldKnown, WindowsTyped, Unread, Over, W!HasSplit
<1>5. RoutesKnown'
  BY <1>0, Fields DEF RoutesKnown, WindowsTyped, Unread, Over, W!Teardown
<1>6. RecordsKnown'
  BY <1>0, Fields DEF RecordsKnown, WindowsTyped, Unread, Over, W!Teardown, W!HasSplit
<1>7. ConfKnown'
  BY <1>0, Fields DEF ConfKnown, WindowsTyped, Unread, Over
<1>8. OverAt'
  BY <1>0, Fields DEF OverAt, WindowsTyped, Unread, Over
<1>9. KeptKnown'
  BY <1>0, Fields DEF KeptKnown, WindowsTyped, Unread, Over, W!HasSplit
<1>10. RestartKnown'
  BY <1>0, Fields DEF RestartKnown, WindowsTyped, Unread, Over
<1>11. ModeKnown'
  BY <1>0, Fields DEF ModeKnown, WindowsTyped, Unread, Over, W!HasSplit
<1>12. AnswersKnown'
  BY <1>0, Fields DEF AnswersKnown, WindowsTyped, Unread, Over, W!Teardown, W!HasSplit, W!Adapter, W!Unrecorded, W!At
<1> QED
  BY <1>1, <1>2, <1>3, <1>4, <1>5, <1>6, <1>7, <1>8, <1>9, <1>10, <1>11, <1>12

LEMMA WinPinsKeeps ==
  ASSUME WindowsInv, W!Pins
  PROVE  WindowsInv'
<1> USE WinAssumption, AppsAssumption
<1>0. /\ job' \in Jobs /\ job'.at = "rule" /\ job'.what = job.what /\ job'.then = job.then
      /\ job'.mode = job.mode /\ job.at = "pins" /\ job.what # "none"
      /\ job.what \in {"boot", "up"} /\ held' \subseteq Dests /\ noted' \subseteq Dests
      /\ ~Unread' /\ direct' \in [Dests -> SUBSET Gateways]
      /\ placed' \in [Dests -> Gateways \cup {NoGateway}]
      /\ \A y \in Dests : placed'[y] # NoGateway => y \in held'
      /\ \A y \in Dests : \A g \in direct'[y] : <<y, g>> \in orphans \/ placed'[y] = g
      /\ ~Unread /\ W!HasSplit /\ app' = app /\ helper' = helper /\ follows' = follows
      /\ tun' = tun /\ conf' = conf /\ state' = state /\ splitFile' = splitFile /\ nrpt' = nrpt
      /\ run' = run /\ gateway' = gateway /\ orphans' = orphans /\ excused' = excused
  <2> USE DEF WindowsInv, W!Pins, W!At, W!Same, W!files, W!system, W!memory, W!history, W!world
  <2>2. job.at = "pins" /\ job.what \in {"boot", "up"}
    BY Fields DEF Placing, W!Teardown
  <2>3. ~Unread
    BY <2>2 DEF Unread, Placing, W!Teardown
  <2>4. "rule" \in W!Steps
    BY AllSteps
  <2>7. W!HasSplit
    BY <2>2 DEF ModeKnown
  <2>8. /\ job' \in Jobs /\ job'.at = "rule" /\ job'.what = job.what /\ job'.then = job.then
        /\ job'.mode = job.mode /\ helper' = helper
    BY <2>4, Going
  <2>9. ~Unread'
    BY <2>2, <2>3, <2>8 DEF Unread, W!Teardown
  <2>5. CASE W!CanRoute(run.best)
    <3>1. run.best \in Gateways \cup {NoGateway} /\ (run.best # NoGateway \/ run.mode # "proxy")
      BY <2>5, Fields DEF W!CanRoute
    <3>2. /\ W!Routes(Static, run.best) /\ Static \subseteq Dests
          /\ held' = held \cup Static /\ noted' = noted \cup Static
      BY <2>5
    <3>3. /\ direct' \in [Dests -> SUBSET Gateways] /\ placed' \in [Dests -> Gateways \cup {NoGateway}]
          /\ \A y \in Dests : placed'[y] # NoGateway => y \in held \cup Static
          /\ \A y \in Dests : \A g \in direct'[y] : <<y, g>> \in orphans \/ placed'[y] = g
      BY ONLY <2>3, <3>1, <3>2, Laying, WindowsInv DEF WindowsInv
    <3> QED BY <2>2, <2>3, <2>7, <2>8, <2>9, <3>2, <3>3 DEF WindowsTyped
  <2>6. CASE ~W!CanRoute(run.best)
    BY <2>2, <2>3, <2>6, <2>7, <2>8, <2>9 DEF WindowsTyped, HeldKnown, RoutesKnown
  <2> QED BY <2>5, <2>6
<1> USE DEF WindowsInv
<1>1. WindowsTyped'
  BY <1>0 DEF WindowsTyped, Unread, Over
<1>2. Placing'
  BY <1>0, Fields DEF Placing, WindowsTyped, Unread, Over, W!Teardown
<1>3. NoProxyYet'
  BY <1>0, Fields DEF NoProxyYet, WindowsTyped, Alone, Unread, Over, W!Teardown, W!HasSplit
<1>4. HeldKnown'
  BY <1>0, Fields DEF HeldKnown, WindowsTyped, Unread, Over, W!HasSplit
<1>5. RoutesKnown'
  BY <1>0, Fields DEF RoutesKnown, WindowsTyped, Unread, Over, W!Teardown
<1>6. RecordsKnown'
  BY <1>0, Fields DEF RecordsKnown, WindowsTyped, Unread, Over, W!Teardown, W!HasSplit
<1>7. ConfKnown'
  BY <1>0, Fields DEF ConfKnown, WindowsTyped, Unread, Over
<1>8. OverAt'
  BY <1>0, Fields DEF OverAt, WindowsTyped, Unread, Over
<1>9. KeptKnown'
  BY <1>0, Fields DEF KeptKnown, WindowsTyped, Unread, Over, W!HasSplit
<1>10. RestartKnown'
  BY <1>0, Fields DEF RestartKnown, WindowsTyped, Unread, Over
<1>11. ModeKnown'
  BY <1>0, Fields DEF ModeKnown, WindowsTyped, Unread, Over, W!HasSplit
<1>12. AnswersKnown'
  BY <1>0, Fields DEF AnswersKnown, WindowsTyped, Unread, Over, W!Teardown, W!HasSplit, W!Adapter, W!Unrecorded, W!At
<1> QED
  BY <1>1, <1>2, <1>3, <1>4, <1>5, <1>6, <1>7, <1>8, <1>9, <1>10, <1>11, <1>12

LEMMA WinRuleKeeps ==
  ASSUME WindowsInv, W!Rule
  PROVE  WindowsInv'
<1> USE WinAssumption, AppsAssumption
<1>0. /\ job' \in Jobs /\ job.at = "rule" /\ job.what \in {"boot", "up"} /\ ~Unread /\ ~Unread'
      /\ W!HasSplit /\ run' \in Runs /\ run'.mode = run.mode /\ splitFile' \in Records
      /\ nrpt' \in BOOLEAN
      /\ nrpt' => run'.nrpt \/ "rule" \in excused'
      /\ \A w \in {"conf", "kept", "unanswered"} : w \in excused' <=> w \in excused
      /\ splitFile'.mode = run.mode \/ splitFile' = splitFile
      /\ \/ job.what = "up" /\ job'.at = "save"
         \/ job.what = "boot" /\ job'.at = "adopt"
      /\ job'.what = job.what /\ job'.then = job.then /\ job'.mode = job.mode /\ app' = app
      /\ helper' = helper /\ follows' = follows /\ tun' = tun /\ conf' = conf /\ state' = state
      /\ direct' = direct /\ into' = into /\ held' = held /\ placed' = placed /\ noted' = noted
      /\ gateway' = gateway /\ orphans' = orphans
  <2> USE DEF WindowsInv, W!Rule, W!At, W!Same, W!files, W!system, W!memory, W!history, W!world
  <2>1. {"save", "adopt"} \subseteq W!Steps
    BY AllSteps
  <2>2. job.at = "rule" /\ job.what \in {"boot", "up"} /\ ~Unread
    BY Fields DEF Placing, Unread, W!Teardown
  <2>3. /\ job' \in Jobs /\ job'.what = job.what /\ job'.mode = job.mode /\ helper' = helper
        /\ job'.then = job.then
        /\ \/ job.what = "up" /\ job'.at = "save"
           \/ job.what = "boot" /\ job'.at = "adopt"
    <3>1. CASE job.what = "up"
      BY <2>1, <3>1, Going DEF W!Attached
    <3>2. CASE job.what = "boot"
      BY <2>1, <3>2, Going DEF W!Attached
    <3> QED BY <2>2, <3>1, <3>2
  <2>4. ~Unread' /\ W!HasSplit
    BY <2>2, <2>3 DEF Unread, W!Teardown, ModeKnown
  <2>5. CASE run' = [run EXCEPT !.nrpt = TRUE] /\ splitFile' = W!Flushed /\ nrpt' = TRUE
    <3>1. run' \in Runs /\ run'.mode = run.mode /\ run'.nrpt
      BY <2>5 DEF WindowsTyped, Runs
    <3>2. splitFile' \in Records /\ splitFile'.mode = run.mode
      BY <2>5, Fields DEF W!Flushed, Records, WindowsTyped
    <3> QED BY <2>2, <2>3, <2>4, <2>5, <3>1, <3>2
  <2>6. CASE /\ UNCHANGED <<run, splitFile>> /\ nrpt' \in {nrpt, TRUE}
             /\ excused' = IF nrpt' THEN excused \cup {"rule"} ELSE excused
    BY <2>2, <2>3, <2>4, <2>6 DEF WindowsTyped
  <2> QED BY <2>5, <2>6
<1> USE DEF WindowsInv
<1>1. WindowsTyped'
  BY <1>0 DEF WindowsTyped, Unread, Over
<1>2. Placing'
  BY <1>0, Fields DEF Placing, WindowsTyped, Unread, Over, W!Teardown
<1>3. NoProxyYet'
  BY <1>0, Fields DEF NoProxyYet, WindowsTyped, Alone, Unread, Over, W!Teardown, W!HasSplit
<1>4. HeldKnown'
  BY <1>0, Fields DEF HeldKnown, WindowsTyped, Unread, Over, W!HasSplit
<1>5. RoutesKnown'
  BY <1>0, Fields DEF RoutesKnown, WindowsTyped, Unread, Over, W!Teardown
<1>6. RecordsKnown'
  BY <1>0, Fields DEF RecordsKnown, WindowsTyped, Unread, Over, W!Teardown, W!HasSplit
<1>7. ConfKnown'
  BY <1>0, Fields DEF ConfKnown, WindowsTyped, Unread, Over
<1>8. OverAt'
  BY <1>0, Fields DEF OverAt, WindowsTyped, Unread, Over
<1>9. KeptKnown'
  BY <1>0, Fields DEF KeptKnown, WindowsTyped, Unread, Over, W!HasSplit
<1>10. RestartKnown'
  BY <1>0, Fields DEF RestartKnown, WindowsTyped, Unread, Over
<1>11. ModeKnown'
  BY <1>0, Fields DEF ModeKnown, WindowsTyped, Unread, Over, W!HasSplit
<1>12. AnswersKnown'
  BY <1>0, Fields DEF AnswersKnown, WindowsTyped, Unread, Over, W!Teardown, W!HasSplit, W!Adapter, W!Unrecorded, W!At
<1> QED
  BY <1>1, <1>2, <1>3, <1>4, <1>5, <1>6, <1>7, <1>8, <1>9, <1>10, <1>11, <1>12

LEMMA WinReconcileTunnelKeeps ==
  ASSUME WindowsInv, W!ReconcileTunnel
  PROVE  WindowsInv'
<1> USE WinAssumption, AppsAssumption, Going, Tearing, Fields, NoneYet DEF WindowsInv
<1> USE DEF W!ReconcileTunnel, W!IsKept, W!Adapter, W!Same, W!At, W!Fault, W!files, W!system,
           W!memory, W!history, W!world
<1>1. WindowsTyped'
  BY AllSteps DEF WindowsTyped, Unread, Over
<1>2. Placing'
  BY DEF Placing, WindowsTyped, Unread, Over, W!Teardown
<1>3. NoProxyYet'
  BY DEF NoProxyYet, WindowsTyped, Alone, Unread, Over, W!Teardown, W!HasSplit
<1>4. HeldKnown'
  BY DEF HeldKnown, WindowsTyped, Unread, Over, W!HasSplit
<1>5. RoutesKnown'
  BY DEF RoutesKnown, WindowsTyped, Unread, Over, W!Teardown
<1>6. RecordsKnown'
  BY DEF RecordsKnown, WindowsTyped, Unread, Over, W!Teardown, W!HasSplit
<1>7. ConfKnown'
  BY DEF ConfKnown, WindowsTyped, Unread, Over
<1>8. OverAt'
  BY DEF OverAt, WindowsTyped, Unread, Over
<1>9. KeptKnown'
  BY DEF KeptKnown, WindowsTyped, Unread, Over, W!HasSplit
<1>10. RestartKnown'
  BY DEF RestartKnown, WindowsTyped, Unread, Over
<1>11. ModeKnown'
  BY DEF ModeKnown, WindowsTyped, Unread, Over, W!HasSplit
<1>12. AnswersKnown'
  BY DEF AnswersKnown, WindowsTyped, Unread, Over, W!Teardown, W!HasSplit, W!Adapter, W!Unrecorded, W!At
<1> QED
  BY <1>1, <1>2, <1>3, <1>4, <1>5, <1>6, <1>7, <1>8, <1>9, <1>10, <1>11, <1>12

LEMMA WinLeftoversKeeps ==
  ASSUME WindowsInv, W!Leftovers
  PROVE  WindowsInv'
<1> USE WinAssumption, AppsAssumption
<1>0. /\ job' \in Jobs /\ job'.at = "end" /\ job'.what = job.what /\ job'.then = job.then
      /\ job'.mode = job.mode /\ job.at = "leftovers" /\ job.what \in {"boot"} /\ ~W!HasSplit
      /\ nrpt' = FALSE /\ splitFile' = W!NoSplitFile /\ direct' \in [Dests -> SUBSET Gateways]
      /\ ~Unread'
      /\ \A x \in Dests : \A g \in direct'[x] : <<x, g>> \in orphans \/ placed[x] = g
      /\ app' = app /\ helper' = helper /\ follows' = follows /\ tun' = tun /\ conf' = conf
      /\ state' = state /\ run' = run /\ held' = held /\ placed' = placed /\ noted' = noted
      /\ gateway' = gateway /\ orphans' = orphans /\ excused' = excused \ {"rule"}
  <2> USE DEF WindowsInv, W!Leftovers, W!At, W!Same, W!files, W!system, W!memory, W!history, W!world
  <2>1. {"end"} \subseteq W!Steps
    BY AllSteps
  <2>2. job.at = "leftovers" /\ job.what \in {"boot"}
    BY Fields DEF Placing, Unread, W!Teardown
  <2>3. job' \in Jobs /\ job'.at = "end" /\ job'.what = job.what /\ job'.then = job.then
        /\ job'.mode = job.mode /\ helper' = helper
    BY <2>1, Going
  <2>4. ~W!HasSplit
    BY <2>2 DEF NoProxyYet, Alone, Unread
  <2>5. direct' = [x \in Dests |-> IF x \in splitFile.routes THEN {} ELSE direct[x]]
    OBVIOUS
  <2>6. \A x \in Dests : \A g \in direct'[x] : <<x, g>> \in orphans \/ placed[x] = g
    BY <2>5 DEF RoutesKnown
  <2>7. direct' \in [Dests -> SUBSET Gateways]
    BY <2>5 DEF WindowsTyped
  <2>8. ~Unread'
    BY <2>2, <2>3 DEF Unread, Placing, W!Teardown
  <2> QED
    BY <2>2, <2>3, <2>4, <2>6, <2>7, <2>8
<1> USE DEF WindowsInv
<1>1. WindowsTyped'
  BY <1>0, NoneYet DEF WindowsTyped, Unread, Over
<1>2. Placing'
  BY <1>0, Fields DEF Placing, WindowsTyped, Unread, Over, W!Teardown
<1>3. NoProxyYet'
  BY <1>0, Fields DEF NoProxyYet, WindowsTyped, Alone, Unread, Over, W!Teardown, W!HasSplit
<1>4. HeldKnown'
  BY <1>0, Fields DEF HeldKnown, WindowsTyped, Unread, Over, W!HasSplit
<1>5. RoutesKnown'
  BY <1>0, Fields DEF RoutesKnown, WindowsTyped, Unread, Over, W!Teardown
<1>6. RecordsKnown'
  BY <1>0, Fields, NoneYet DEF RecordsKnown, WindowsTyped, Unread, Over, W!Teardown, W!HasSplit
<1>7. ConfKnown'
  BY <1>0, Fields DEF ConfKnown, WindowsTyped, Unread, Over
<1>8. OverAt'
  BY <1>0, Fields DEF OverAt, WindowsTyped, Unread, Over
<1>9. KeptKnown'
  BY <1>0, Fields DEF KeptKnown, WindowsTyped, Unread, Over, W!HasSplit
<1>10. RestartKnown'
  BY <1>0, Fields DEF RestartKnown, WindowsTyped, Unread, Over
<1>11. ModeKnown'
  BY <1>0, Fields DEF ModeKnown, WindowsTyped, Unread, Over, W!HasSplit
<1>12. AnswersKnown'
  BY <1>0, Fields DEF AnswersKnown, WindowsTyped, Unread, Over, W!Teardown, W!HasSplit, W!Adapter, W!Unrecorded, W!At
<1> QED
  BY <1>1, <1>2, <1>3, <1>4, <1>5, <1>6, <1>7, <1>8, <1>9, <1>10, <1>11, <1>12

LEMMA WinRestartNoneKeeps ==
  ASSUME WindowsInv, splitFile.mode = "none", W!Restart
  PROVE  WindowsInv'
<1> USE WinAssumption, AppsAssumption
<1>0. /\ job' \in Jobs /\ job'.at = "leftovers" /\ job'.what = job.what /\ job'.then = job.then
      /\ job'.mode = job.mode /\ job.at = "restart" /\ job.what \in {"boot"}
      /\ splitFile.mode = "none" /\ ~W!HasSplit /\ app' = app /\ helper' = helper
      /\ follows' = follows /\ tun' = tun /\ conf' = conf /\ state' = state
      /\ splitFile' = splitFile /\ nrpt' = nrpt /\ direct' = direct /\ into' = into /\ run' = run
      /\ held' = held /\ placed' = placed /\ noted' = noted /\ gateway' = gateway
      /\ orphans' = orphans /\ excused' = excused
  <2> USE DEF WindowsInv, W!Restart, W!At, W!Same, W!files, W!system, W!memory, W!history, W!world
  <2>1. {"leftovers"} \subseteq W!Steps
    BY AllSteps
  <2>2. job.at = "restart" /\ job.what \in {"boot"}
    BY Fields DEF Placing, Unread, W!Teardown
  <2>3. job' \in Jobs /\ job'.at = "leftovers" /\ job'.what = job.what /\ job'.then = job.then
        /\ job'.mode = job.mode /\ helper' = helper
    BY <2>1, Going
  <2>4. ~W!HasSplit
    BY <2>2 DEF NoProxyYet, Alone, Unread
  <2> QED
    BY <2>2, <2>3, <2>4
<1> USE DEF WindowsInv
<1>1. WindowsTyped'
  BY <1>0 DEF WindowsTyped, Unread, Over
<1>2. Placing'
  BY <1>0, Fields DEF Placing, WindowsTyped, Unread, Over, W!Teardown
<1>3. NoProxyYet'
  BY <1>0, Fields DEF NoProxyYet, WindowsTyped, Alone, Unread, Over, W!Teardown, W!HasSplit
<1>4. HeldKnown'
  BY <1>0, Fields DEF HeldKnown, WindowsTyped, Unread, Over, W!HasSplit
<1>5. RoutesKnown'
  BY <1>0, Fields DEF RoutesKnown, WindowsTyped, Unread, Over, W!Teardown
<1>6. RecordsKnown'
  BY <1>0, Fields DEF RecordsKnown, WindowsTyped, Unread, Over, W!Teardown, W!HasSplit
<1>7. ConfKnown'
  BY <1>0, Fields DEF ConfKnown, WindowsTyped, Unread, Over
<1>8. OverAt'
  BY <1>0, Fields DEF OverAt, WindowsTyped, Unread, Over
<1>9. KeptKnown'
  BY <1>0, Fields DEF KeptKnown, WindowsTyped, Unread, Over, W!HasSplit
<1>10. RestartKnown'
  BY <1>0, Fields DEF RestartKnown, WindowsTyped, Unread, Over
<1>11. ModeKnown'
  BY <1>0, Fields DEF ModeKnown, WindowsTyped, Unread, Over, W!HasSplit
<1>12. AnswersKnown'
  BY <1>0, Fields DEF AnswersKnown, WindowsTyped, Unread, Over, W!Teardown, W!HasSplit, W!Adapter, W!Unrecorded, W!At
<1> QED
  BY <1>1, <1>2, <1>3, <1>4, <1>5, <1>6, <1>7, <1>8, <1>9, <1>10, <1>11, <1>12

LEMMA WinRestartSplitKeeps ==
  ASSUME WindowsInv, splitFile.mode # "none", W!Restart
  PROVE  WindowsInv'
<1> USE WinAssumption, AppsAssumption
<1>0. /\ job' \in Jobs /\ job.at = "restart" /\ job.what \in {"boot"} /\ job'.at = "proxy"
      /\ job'.what = "boot" /\ job'.mode # "full" /\ job'.then = job.then /\ ~W!HasSplit
      /\ nrpt' = FALSE /\ splitFile' = W!NoSplitFile /\ ~Unread'
      /\ \A x \in Dests : \A g \in direct[x] : <<x, g>> \in orphans'
      /\ app' = app /\ helper' = helper /\ follows' = follows /\ tun' = tun /\ conf' = conf
      /\ state' = state /\ direct' = direct /\ into' = into /\ run' = run /\ held' = held
      /\ placed' = placed /\ noted' = noted /\ gateway' = gateway /\ excused' = excused \ {"rule"}
  <2> USE DEF WindowsInv, W!Restart, W!At, W!Same, W!files, W!system, W!memory, W!history, W!world
  <2>1. {"proxy"} \subseteq W!Steps
    BY AllSteps
  <2>2. job.at = "restart" /\ job.what \in {"boot"}
    BY Fields DEF Placing, Unread, W!Teardown
  <2>3. job' = [job EXCEPT !.at = "proxy", !.saved = splitFile.routes, !.mode = splitFile.mode]
    OBVIOUS
  <2>4. splitFile.mode \in W!Modes \ {"full"} /\ splitFile.routes \subseteq Dests
    BY Fields DEF W!Modes
  <2>5. /\ job' \in Jobs /\ job'.at = "proxy" /\ job'.what = "boot" /\ job'.mode # "full"
        /\ job'.then = job.then
    BY <2>1, <2>2, <2>3, <2>4 DEF WindowsTyped, Jobs
  <2>6. ~W!HasSplit /\ helper = "boot"
    BY <2>2 DEF NoProxyYet, Alone, Unread, Placing
  <2>7. ~Unread'
    BY <2>5, <2>6 DEF Unread, W!Teardown
  <2>8. \A x \in Dests : \A g \in direct[x] : <<x, g>> \in orphans'
    BY DEF WindowsTyped
  <2> QED
    BY <2>2, <2>5, <2>6, <2>7, <2>8
<1> USE DEF WindowsInv
<1>1. WindowsTyped'
  BY <1>0, NoneYet DEF WindowsTyped, Unread, Over
<1>2. Placing'
  BY <1>0, Fields DEF Placing, WindowsTyped, Unread, Over, W!Teardown
<1>3. NoProxyYet'
  BY <1>0, Fields DEF NoProxyYet, WindowsTyped, Alone, Unread, Over, W!Teardown, W!HasSplit
<1>4. HeldKnown'
  BY <1>0, Fields DEF HeldKnown, WindowsTyped, Unread, Over, W!HasSplit
<1>5. RoutesKnown'
  BY <1>0, Fields DEF RoutesKnown, WindowsTyped, Unread, Over, W!Teardown
<1>6. RecordsKnown'
  BY <1>0, Fields, NoneYet DEF RecordsKnown, WindowsTyped, Unread, Over, W!Teardown, W!HasSplit
<1>7. ConfKnown'
  BY <1>0, Fields DEF ConfKnown, WindowsTyped, Unread, Over
<1>8. OverAt'
  BY <1>0, Fields DEF OverAt, WindowsTyped, Unread, Over
<1>9. KeptKnown'
  BY <1>0, Fields DEF KeptKnown, WindowsTyped, Unread, Over, W!HasSplit
<1>10. RestartKnown'
  BY <1>0, Fields DEF RestartKnown, WindowsTyped, Unread, Over
<1>11. ModeKnown'
  BY <1>0, Fields DEF ModeKnown, WindowsTyped, Unread, Over, W!HasSplit
<1>12. AnswersKnown'
  BY <1>0, Fields DEF AnswersKnown, WindowsTyped, Unread, Over, W!Teardown, W!HasSplit, W!Adapter, W!Unrecorded, W!At
<1> QED
  BY <1>1, <1>2, <1>3, <1>4, <1>5, <1>6, <1>7, <1>8, <1>9, <1>10, <1>11, <1>12

LEMMA WinRestartKeeps ==
  ASSUME WindowsInv, W!Restart
  PROVE  WindowsInv'
  BY WinRestartNoneKeeps, WinRestartSplitKeeps

LEMMA WinProxyRestartsKeeps ==
  ASSUME WindowsInv, W!StartsProxy(job.mode), W!Goes("attach"), UNCHANGED excused, W!RestartsProxy
  PROVE  WindowsInv'
<1> USE WinAssumption, AppsAssumption
<1>0. /\ job' \in Jobs /\ job'.at = "attach" /\ job'.what = job.what /\ job'.then = job.then
      /\ job'.mode = job.mode /\ job.at = "proxy" /\ job.what \in {"boot"} /\ ~Unread /\ ~Unread'
      /\ ~W!HasSplit /\ run' \in Runs /\ run'.mode # "none" /\ ~run'.nrpt
      /\ splitFile' \in Records /\ splitFile'.mode # "none" /\ held = {} /\ noted = {}
      /\ (nrpt => "rule" \in excused) /\ app' = app /\ helper' = helper /\ follows' = follows /\ tun' = tun
      /\ conf' = conf /\ state' = state /\ nrpt' = nrpt /\ direct' = direct /\ into' = into
      /\ held' = held /\ placed' = placed /\ noted' = noted /\ gateway' = gateway
      /\ orphans' = orphans /\ excused' = excused
  <2> USE DEF WindowsInv, W!RestartsProxy, W!At, W!Same, W!files, W!system, W!memory, W!history, W!world
  <2>1. {"attach"} \subseteq W!Steps
    BY AllSteps
  <2>2. job.at = "proxy" /\ job.what \in {"boot"} /\ ~Unread
    BY Fields DEF Placing, Unread, W!Teardown
  <2>3. job' \in Jobs /\ job'.at = "attach" /\ job'.what = job.what /\ job'.then = job.then
        /\ job'.mode = job.mode /\ helper' = helper
    BY <2>1, Going
  <2>4. ~Unread'
    BY <2>2, <2>3 DEF Unread, W!Teardown
  <2>5. run' = [mode |-> job.mode, best |-> gateway, tun |-> FALSE, nrpt |-> FALSE]
        /\ splitFile' = [mode |-> job.mode, routes |-> {}]
    BY DEF W!StartsProxy
  <2>6. job.mode \in {"proxy", "direct"}
    BY <2>2, Fields DEF W!Modes, ModeKnown
  <2>7. run' \in Runs /\ splitFile' \in Records
    BY <2>5, <2>6 DEF Runs, Records, WindowsTyped
  <2>8. ~W!HasSplit
    BY <2>2 DEF NoProxyYet, Alone
  <2>9. held = {} /\ noted = {} /\ (nrpt => "rule" \in excused)
    BY <2>2, <2>8 DEF HeldKnown, RecordsKnown, WindowsTyped
  <2> QED
    BY <2>2, <2>3, <2>4, <2>5, <2>6, <2>7, <2>8, <2>9
<1> USE DEF WindowsInv
<1>1. WindowsTyped'
  BY <1>0 DEF WindowsTyped, Unread, Over
<1>2. Placing'
  BY <1>0, Fields DEF Placing, WindowsTyped, Unread, Over, W!Teardown
<1>3. NoProxyYet'
  BY <1>0, Fields DEF NoProxyYet, WindowsTyped, Alone, Unread, Over, W!Teardown, W!HasSplit, Placing
<1>4. HeldKnown'
  BY <1>0, Fields DEF HeldKnown, WindowsTyped, Unread, Over, W!HasSplit
<1>5. RoutesKnown'
  BY <1>0, Fields DEF RoutesKnown, WindowsTyped, Unread, Over, W!Teardown
<1>6. RecordsKnown'
  BY <1>0, Fields DEF RecordsKnown, WindowsTyped, Unread, Over, W!Teardown, W!HasSplit
<1>7. ConfKnown'
  BY <1>0, Fields DEF ConfKnown, WindowsTyped, Unread, Over
<1>8. OverAt'
  BY <1>0, Fields DEF OverAt, WindowsTyped, Unread, Over
<1>9. KeptKnown'
  BY <1>0, Fields DEF KeptKnown, WindowsTyped, Unread, Over, W!HasSplit, RestartKnown
<1>10. RestartKnown'
  BY <1>0, Fields DEF RestartKnown, WindowsTyped, Unread, Over
<1>11. ModeKnown'
  BY <1>0, Fields DEF ModeKnown, WindowsTyped, Unread, Over, W!HasSplit
<1>12. AnswersKnown'
  BY <1>0, Fields DEF AnswersKnown, WindowsTyped, Unread, Over, W!Teardown, W!HasSplit, W!Adapter, W!Unrecorded, W!At
<1> QED
  BY <1>1, <1>2, <1>3, <1>4, <1>5, <1>6, <1>7, <1>8, <1>9, <1>10, <1>11, <1>12

LEMMA WinProxyFailsKeeps ==
  ASSUME WindowsInv, excused' = excused \cup {"unanswered"}, W!Goes("end"), UNCHANGED <<run, splitFile>>, W!RestartsProxy
  PROVE  WindowsInv'
<1> USE WinAssumption, AppsAssumption
<1>0. /\ job' \in Jobs /\ job'.at = "end" /\ job'.what = job.what /\ job'.then = job.then
      /\ job'.mode = job.mode /\ job.at = "proxy" /\ job.what \in {"boot"} /\ ~Unread /\ ~Unread'
      /\ excused' = excused \cup {"unanswered"} /\ app' = app /\ helper' = helper
      /\ follows' = follows /\ tun' = tun /\ conf' = conf /\ state' = state
      /\ splitFile' = splitFile /\ nrpt' = nrpt /\ direct' = direct /\ into' = into /\ run' = run
      /\ held' = held /\ placed' = placed /\ noted' = noted /\ gateway' = gateway
      /\ orphans' = orphans
  <2> USE DEF WindowsInv, W!RestartsProxy, W!At, W!Same, W!files, W!system, W!memory, W!history, W!world
  <2>1. {"end"} \subseteq W!Steps
    BY AllSteps
  <2>2. job.at = "proxy" /\ job.what \in {"boot"} /\ ~Unread
    BY Fields DEF Placing, Unread, W!Teardown
  <2>3. job' \in Jobs /\ job'.at = "end" /\ job'.what = job.what /\ job'.then = job.then
        /\ job'.mode = job.mode /\ helper' = helper
    BY <2>1, Going
  <2>4. ~Unread'
    BY <2>2, <2>3 DEF Unread, W!Teardown
  <2> QED
    BY <2>2, <2>3, <2>4
<1> USE DEF WindowsInv
<1>1. WindowsTyped'
  BY <1>0 DEF WindowsTyped, Unread, Over
<1>2. Placing'
  BY <1>0, Fields DEF Placing, WindowsTyped, Unread, Over, W!Teardown
<1>3. NoProxyYet'
  BY <1>0, Fields DEF NoProxyYet, WindowsTyped, Alone, Unread, Over, W!Teardown, W!HasSplit
<1>4. HeldKnown'
  BY <1>0, Fields DEF HeldKnown, WindowsTyped, Unread, Over, W!HasSplit
<1>5. RoutesKnown'
  BY <1>0, Fields DEF RoutesKnown, WindowsTyped, Unread, Over, W!Teardown
<1>6. RecordsKnown'
  BY <1>0, Fields DEF RecordsKnown, WindowsTyped, Unread, Over, W!Teardown, W!HasSplit
<1>7. ConfKnown'
  BY <1>0, Fields DEF ConfKnown, WindowsTyped, Unread, Over
<1>8. OverAt'
  BY <1>0, Fields DEF OverAt, WindowsTyped, Unread, Over
<1>9. KeptKnown'
  BY <1>0, Fields DEF KeptKnown, WindowsTyped, Unread, Over, W!HasSplit
<1>10. RestartKnown'
  BY <1>0, Fields DEF RestartKnown, WindowsTyped, Unread, Over
<1>11. ModeKnown'
  BY <1>0, Fields DEF ModeKnown, WindowsTyped, Unread, Over, W!HasSplit
<1>12. AnswersKnown'
  BY <1>0, Fields DEF AnswersKnown, WindowsTyped, Unread, Over, W!Teardown, W!HasSplit, W!Adapter, W!Unrecorded, W!At
<1> QED
  BY <1>1, <1>2, <1>3, <1>4, <1>5, <1>6, <1>7, <1>8, <1>9, <1>10, <1>11, <1>12

LEMMA WinRestartsProxyKeeps ==
  ASSUME WindowsInv, W!RestartsProxy
  PROVE  WindowsInv'
  BY WinProxyRestartsKeeps, WinProxyFailsKeeps DEF W!RestartsProxy

LEMMA WinAdoptKeeps ==
  ASSUME WindowsInv, W!Adopt
  PROVE  WindowsInv'
<1> USE WinAssumption, AppsAssumption
<1>0. /\ job' \in Jobs /\ job'.at = "end" /\ job'.what = job.what /\ job'.then = job.then
      /\ job'.mode = job.mode /\ job.at = "adopt" /\ job.what \in {"boot"} /\ ~Unread /\ ~Unread'
      /\ W!HasSplit /\ excused \subseteq excused' /\ held \subseteq held' /\ held' \subseteq Dests
      /\ noted' \subseteq Dests /\ app' = app /\ helper' = helper /\ follows' = follows
      /\ tun' = tun /\ conf' = conf /\ state' = state /\ splitFile' = splitFile /\ nrpt' = nrpt
      /\ direct' = direct /\ into' = into /\ run' = run /\ placed' = placed /\ gateway' = gateway
      /\ orphans' = orphans
  <2> USE DEF WindowsInv, W!Adopt, W!At, W!Same, W!files, W!system, W!memory, W!history, W!world
  <2>1. {"end"} \subseteq W!Steps
    BY AllSteps
  <2>2. job.at = "adopt" /\ job.what \in {"boot"} /\ ~Unread
    BY Fields DEF Placing, Unread, W!Teardown
  <2>3. job' \in Jobs /\ job'.at = "end" /\ job'.what = job.what /\ job'.then = job.then
        /\ job'.mode = job.mode /\ helper' = helper
    BY <2>1, Going
  <2>4. ~Unread'
    BY <2>2, <2>3 DEF Unread, W!Teardown
  <2>5. W!HasSplit
    BY <2>2 DEF ModeKnown
  <2>6. held' \subseteq Dests /\ noted' \subseteq Dests /\ held \subseteq held'
    BY Fields DEF WindowsTyped
  <2> QED
    BY <2>2, <2>3, <2>4, <2>5, <2>6
<1> USE DEF WindowsInv
<1>1. WindowsTyped'
  BY <1>0 DEF WindowsTyped, Unread, Over
<1>2. Placing'
  BY <1>0, Fields DEF Placing, WindowsTyped, Unread, Over, W!Teardown
<1>3. NoProxyYet'
  BY <1>0, Fields DEF NoProxyYet, WindowsTyped, Alone, Unread, Over, W!Teardown, W!HasSplit
<1>4. HeldKnown'
  BY <1>0, Fields DEF HeldKnown, WindowsTyped, Unread, Over, W!HasSplit
<1>5. RoutesKnown'
  BY <1>0, Fields DEF RoutesKnown, WindowsTyped, Unread, Over, W!Teardown
<1>6. RecordsKnown'
  BY <1>0, Fields DEF RecordsKnown, WindowsTyped, Unread, Over, W!Teardown, W!HasSplit
<1>7. ConfKnown'
  BY <1>0, Fields DEF ConfKnown, WindowsTyped, Unread, Over
<1>8. OverAt'
  BY <1>0, Fields DEF OverAt, WindowsTyped, Unread, Over
<1>9. KeptKnown'
  BY <1>0, Fields DEF KeptKnown, WindowsTyped, Unread, Over, W!HasSplit
<1>10. RestartKnown'
  BY <1>0, Fields DEF RestartKnown, WindowsTyped, Unread, Over
<1>11. ModeKnown'
  BY <1>0, Fields DEF ModeKnown, WindowsTyped, Unread, Over, W!HasSplit
<1>12. AnswersKnown'
  BY <1>0, Fields DEF AnswersKnown, WindowsTyped, Unread, Over, W!Teardown, W!HasSplit, W!Adapter, W!Unrecorded, W!At
<1> QED
  BY <1>1, <1>2, <1>3, <1>4, <1>5, <1>6, <1>7, <1>8, <1>9, <1>10, <1>11, <1>12

LEMMA WinStays ==
  ASSUME WindowsInv, UNCHANGED windows
  PROVE  WindowsInv'
  BY DEF WindowsInv, windows, WindowsTyped, Placing, Unread, Over, Alone, NoProxyYet, HeldKnown, RoutesKnown,
         RecordsKnown, ConfKnown, OverAt, KeptKnown, RestartKnown, ModeKnown, AnswersKnown,
         W!HasSplit, W!Adapter, W!Unrecorded, W!At

LEMMA WinBegins == W!Init => WindowsInv
<1> SUFFICES ASSUME W!Init PROVE WindowsInv OBVIOUS
<1> USE NoneYet, WinAssumption, AppsAssumption DEF W!Init
<1>1. WindowsTyped
  BY AllSteps DEF WindowsTyped, W!NoState, W!Modes
<1>2. /\ tun.st = "none" /\ job.what = "none" /\ job.at = "end" /\ run.mode = "none" /\ ~run.nrpt
      /\ splitFile = W!NoSplitFile
  OBVIOUS
<1>3. Placing /\ NoProxyYet /\ HeldKnown
  BY <1>2 DEF Placing, NoProxyYet, HeldKnown, W!HasSplit
<1>4. RoutesKnown /\ RecordsKnown
  BY <1>2 DEF RoutesKnown, RecordsKnown
<1>5. ConfKnown /\ OverAt /\ KeptKnown /\ RestartKnown /\ ModeKnown /\ AnswersKnown
  BY <1>2 DEF ConfKnown, OverAt, KeptKnown, RestartKnown, ModeKnown, AnswersKnown, W!HasSplit, W!Adapter
<1> QED
  BY <1>1, <1>3, <1>4, <1>5 DEF WindowsInv

LEMMA WinWorks ==
  ASSUME WindowsInv, W!Works
  PROVE  WindowsInv'
<1>1. CASE W!Teardowns
  BY <1>1, WinHaltKeeps, WinDeleteKeeps, WinUnsplitKeeps, WinClearKeeps DEF W!Teardowns
<1>2. CASE W!Ups
  BY <1>2, WinCheckKeeps, WinSplitKeeps, WinWritesConfKeeps, WinStartKeeps, WinStartFailedKeeps,
     WinAttachKeeps, WinPinsKeeps, WinRuleKeeps, WinSaveKeeps DEF W!Ups
<1>3. CASE W!Reconciles
  BY <1>3, WinReconcileTunnelKeeps, WinLeftoversKeeps, WinRestartKeeps, WinRestartsProxyKeeps,
     WinAdoptKeeps DEF W!Reconciles
<1> QED
  BY <1>1, <1>2, <1>3, WinEndsKeeps DEF W!Works

LEMMA WinKeeps ==
  ASSUME WindowsInv, [TunnelsNext]_<<windows, macos, part>>
  PROVE  WindowsInv'
<1>1. CASE UNCHANGED windows
  BY <1>1, WinStays
<1>2. CASE W!Next
  <2>1. CASE W!Up
    <3>1. PICK mode \in W!Modes : W!Request("up", "check", mode) BY <2>1 DEF W!Up
    <3> QED BY <3>1, WinRequestKeeps
  <2>2. CASE W!DownOrCleanup
    <3>1. W!Request("down", "halt", "full") /\ "full" \in W!Modes BY <2>2 DEF W!DownOrCleanup, W!Modes
    <3> QED BY <3>1, WinRequestKeeps
  <2>3. CASE W!LifeEnds
    BY <2>3, WinStopKeeps DEF W!LifeEnds
  <2>4. CASE \E x \in Dests : W!NameAsked(x) \/ W!NameExpires(x)
    BY <2>4, WinNameAskedKeeps, WinNameExpiresKeeps
  <2>5. CASE W!TunnelDies \/ W!DoomedEnds \/ W!Crash \/ W!Stop
    BY <2>5, WinTunnelDiesKeeps, WinDoomedEndsKeeps, WinCrashKeeps, WinStopKeeps
  <2>6. CASE W!AppEnds \/ W!AppStarts \/ W!NetworkChanges \/ W!AppStartsHelper \/ W!ScmRestarts
    BY <2>6, WinAppEndsKeeps, WinAppStartsKeeps, WinNetworkChangesKeeps, WinAppStartsHelperKeeps,
       WinScmRestartsKeeps
  <2>7. CASE W!Watch \/ W!Flush
    BY <2>7, WinWatchKeeps, WinFlushKeeps
  <2> QED
    BY <1>2, <2>1, <2>2, <2>3, <2>4, <2>5, <2>6, <2>7, WinWorks DEF W!Next
<1> QED
  BY <1>1, <1>2 DEF TunnelsNext

LEMMA WinInvariant == TunnelsSpec => []WindowsInv
<1>1. TunnelsInit => WindowsInv
  BY WinBegins DEF TunnelsInit
<1>2. WindowsInv /\ [TunnelsNext]_<<windows, macos, part>> => WindowsInv'
  BY WinKeeps
<1> QED
  BY <1>1, <1>2, PTL DEF TunnelsSpec

\* On Windows, once a request has been answered or the service has started or stopped and no tunnel is
\* registered, nothing of one is left: no .conf, rule of the DNS Client, split.json or direct route, for
\* any number of crashes, refusals, changes of network and runs of the application (tunnel_windows.go,
\* split_windows.go).  Excepted by name: a .conf that a crash left unused or the disk half-written, a
\* half-written rule, the direct routes that a crash or a restart took from every record, and all of it
\* while a proxy runs that a restart began beside a tunnel already marked for deletion.
THEOREM NothingIsLeft == TunnelsSpec => []NothingLeft
<1>1. WindowsInv => NothingLeft
  <2> SUFFICES ASSUME WindowsInv, W!Settled, tun.st = "none", ~(W!HasSplit /\ "kept" \in excused)
               PROVE  /\ conf = "none" \/ "conf" \in excused
                      /\ ~nrpt \/ "rule" \in excused
                      /\ splitFile = W!NoSplitFile
                      /\ \A x \in Dests : \A g \in direct[x] : <<x, g>> \in orphans
    BY DEF NothingLeft, W!NothingLeft
  <2>1. job.what = "none" /\ job.at = "end" /\ ~Unread /\ Over
    BY DEF WindowsInv, W!Settled, Placing, Unread, Over
  <2>2. conf = "none" \/ "conf" \in excused
    BY <2>1 DEF WindowsInv, ConfKnown
  <2>3. ~W!HasSplit
    BY <2>1 DEF WindowsInv, KeptKnown
  <2>4. (~nrpt \/ "rule" \in excused) /\ splitFile = W!NoSplitFile /\ held = {}
    BY <2>1, <2>3 DEF WindowsInv, RecordsKnown, HeldKnown
  <2>5. \A x \in Dests : placed[x] = NoGateway
    BY <2>4 DEF WindowsInv, HeldKnown
  <2>6. \A x \in Dests : \A g \in direct[x] : <<x, g>> \in orphans
    BY <2>1, <2>5, WinAssumption DEF WindowsInv, RoutesKnown, WindowsTyped
  <2> QED
    BY <2>2, <2>4, <2>6
<1> QED
  BY <1>1, WinInvariant, PTL

\* A settled service has no whole rule of the DNS Client, and no running tunnel with rules, without the
\* proxy that answers them (split_windows.go).  Excepted by name: a rule that was half-written; and of
\* tunnels, one marked for deletion, one that the SCM did not answer for, one whose proxy found port 53
\* taken when the service started again, and one beside which the service crashed after split.json was
\* gone and before the proxy was up, or while a failed `up` was being undone.
THEOREM NamesHaveAProxy == TunnelsSpec => []NamesAreAnswered
<1>1. WindowsInv => NamesAreAnswered
  <2> SUFFICES ASSUME WindowsInv, W!Settled
               PROVE  /\ nrpt => W!HasSplit \/ "rule" \in excused
                      /\ W!Adapter /\ ~tun.doomed /\ tun.mode # "full" =>
                            W!HasSplit \/ "unanswered" \in excused
    BY DEF NamesAreAnswered, W!NamesAreAnswered
  <2>1. job.what = "none" /\ job.at = "end" /\ ~Unread
    BY DEF WindowsInv, W!Settled, Placing, Unread
  <2>2. ~W!Unrecorded
    BY <2>1 DEF W!Unrecorded, W!At
  <2> QED
    BY <2>1, <2>2 DEF WindowsInv, RecordsKnown, AnswersKnown
<1> QED
  BY <1>1, WinInvariant, PTL

(* What a script of macOS leaves for whoever undoes it *)

MacStates == [pid : Nat, mode : M!Modes, iface : BOOLEAN, pinned : BOOLEAN,
              list : [Networks -> {"-", "own", "vpn"}], black : BOOLEAN, monitor : BOOLEAN, app : Nat]
\* The network service at hand, or any before there was one.
AnyNetwork == Networks \cup {CHOOSE x \in Networks : TRUE}
MacJobs == [what : {"none", "up", "down"}, at : M!JobSteps, then : {"split", "reap", "end"},
            replace : BOOLEAN, mode : M!Modes, app : Nat, tun : MacStates, net : AnyNetwork]
Monitors == [at : M!Teardown \cup {"none", "watch", "held", "dns", "set"},
             tun : MacStates, news : BOOLEAN, net : AnyNetwork]
MacTyped ==
    /\ user \in [n : Nat, alive : BOOLEAN] /\ owner \in Nat
    /\ script \in MacJobs /\ monitor \in Monitors /\ file \in MacStates
    /\ born \in Nat /\ daemons \subseteq 1 .. born
    /\ dns \in [Networks -> {"own", "vpn"}] /\ holes \in BOOLEAN
    /\ names \in [tracked : BOOLEAN, kernel : {"none", "laid", "hole"}]
    /\ record \in [mode : {"none", "proxy", "direct", "all"}, routes : BOOLEAN]
    /\ present \subseteq Networks
    /\ router \in Routers \cup {NoGateway}

\* Nobody was refused or cut off so that a record is missing.
Honest == {"refused", "window"} \cap pardoned = {}
OwnDns == Honest => \A x \in Networks : dns[x] # "vpn"
NoHoles == holes => "window" \in pardoned

\* What UndoIsRecorded says of the state file.
DnsRecorded == Honest => \A x \in Networks : dns[x] = "vpn" => file.list[x] = "own"
DaemonRecorded == \A t \in daemons : file.pid = t
PinRecorded == pin # "none" => file.pinned
HolesRecorded == holes /\ "window" \notin pardoned => file.black \/ monitor.at = "held"

\* A state file without a daemon is an empty one.
FileWhole == file.pid = 0 => file = M!NoState
\* What was recorded of a network service was its own setting.
ListsOwn ==
    Honest => \A x \in Networks :
        file.list[x] # "vpn" /\ script.tun.list[x] # "vpn" /\ monitor.tun.list[x] # "vpn"

Setting == {"start", "iface", "pin", "routes", "dns", "set", "fork"}
Undoing == {"unroute", "stop", "forget"}
\* The script and the monitor do not undo or set anything at the same time.
Placed ==
    /\ script.what = "none" => script.at = "end"
    /\ script.what # "none" => service = "serving"
    /\ script.at \in Setting \cup Undoing \cup {"reap"} => monitor.at = "none"
    /\ script.at = "untie" /\ monitor.at # "none" => script.tun.monitor
    /\ script.at = "final" => monitor.at \notin {"dns", "set"}
\* The copy that a monitor works on is the file, but for the black holes and the monitor's own pid.
MonitorsFile ==
    monitor.at # "none" =>
        /\ file.pid = monitor.tun.pid /\ file.pid # 0 /\ file.list = monitor.tun.list
        /\ file.pinned /\ monitor.tun.pinned
        /\ file.black = monitor.tun.black \/ "window" \in pardoned
        /\ file.monitor \/ script.at = "final"
\* What a monitor that takes its tunnel down has undone so far.
MonitorUndoes ==
    /\ monitor.at \in Undoing => OwnDns
    /\ monitor.at \in {"stop", "forget"} => pin = "none" /\ NoHoles
    /\ monitor.at = "forget" => daemons = {}
    /\ monitor.at = "held" => monitor.tun.pid \notin daemons
\* It notes what the DNS of a service was before it sets it.
MonitorSets ==
    monitor.at = "set" => monitor.net \in Networks /\ (Honest => monitor.tun.list[monitor.net] = "own")
\* Nothing is left of a tunnel.
Clear == daemons = {} /\ pin = "none" /\ NoHoles /\ OwnDns
\* The script's variables are the file, from load_state or save_state to its last write.
JobsFile ==
    /\ script.at \in {"reap", "start"} => file = M!NoState
    /\ script.at \in Setting \ {"start"} => file = script.tun /\ file.pid # 0
    /\ script.at \in {"pin", "routes", "dns", "set", "fork", "final"} => script.tun.pinned /\ ~script.tun.black
    /\ script.at = "iface" => ~script.tun.black
    /\ script.at = "set" => script.net \in Networks /\ (Honest => script.tun.list[script.net] = "own")
    /\ script.at = "final" =>
        IF monitor.at = "none" THEN Clear
        ELSE file.pid = script.tun.pid /\ file.list = script.tun.list
    /\ script.at = "final" => script.tun.pid # 0
    /\ script.at = "untie" =>
        \/ file = script.tun
        \/ script.tun.monitor /\ file.pid \in {script.tun.pid, 0} /\ (file.pinned => script.tun.pinned)
\* What a script that takes a tunnel down has undone so far: the file stands until all of it is.
JobUndoes ==
    /\ script.at \in Undoing => file.pid \in {script.tun.pid, 0} /\ (file.pinned => script.tun.pinned) /\ OwnDns
    /\ script.at = "unroute" => file = script.tun \/ "window" \in pardoned
    /\ script.at \in {"stop", "forget"} => pin = "none" /\ NoHoles
    /\ script.at = "forget" => daemons = {}

\* Networksetup and route did what they were asked to, and no change went by unseen.
Obeyed == {"refused", "missed"} \cap pardoned = {}
\* What `up` has set so far is as the network is now, unless a change went by unseen.
UpFollows ==
    /\ script.at \in {"iface", "pin", "routes"} => \A x \in Networks : script.tun.list[x] = "-"
    /\ Obeyed /\ script.at \in {"routes", "dns", "set", "fork"} => pin = M!Want
    /\ Obeyed /\ script.at \in {"dns", "set", "fork"} =>
        \A x \in Networks : script.tun.list[x] # "-" => dns[x] = "vpn" \/ (script.at = "set" /\ script.net = x)
    /\ Obeyed /\ script.at = "fork" => \A x \in present : script.tun.list[x] # "-"
\* Between two changes of the network a monitor has nothing left to set.
MonitorFollows ==
    /\ Obeyed /\ monitor.at \in {"watch", "held", "dns", "set"} =>
        \A x \in Networks : monitor.tun.list[x] # "-" => dns[x] = "vpn" \/ (monitor.at = "set" /\ monitor.net = x)
    /\ Obeyed /\ monitor.at \in {"watch", "dns", "set"} /\ ~monitor.news /\ monitor.tun.pid \in daemons => pin = M!Want
    /\ Obeyed /\ monitor.at = "watch" /\ ~monitor.news /\ monitor.tun.pid \in daemons =>
        \A x \in present : monitor.tun.list[x] # "-"

\* The routes of names: of the proxy that laid them, of split.json, or lost with either.
NamesLost == {"restart", "flush", "body"} \cap pardoned # {}
NamesKnown ==
    /\ service # "serving" => proxy = "none"
    /\ proxy = "lost" => "body" \in pardoned
    /\ proxy = "none" => ~names.tracked
    /\ service = "serving" /\ proxy = "none" => record = M!NoSplitFile
    /\ names.kernel # "none" => names.tracked \/ NamesLost \/ (proxy = "none" /\ record.routes)

TunnelInv ==
    /\ DnsRecorded /\ DaemonRecorded /\ PinRecorded /\ HolesRecorded /\ FileWhole /\ ListsOwn
    /\ Placed /\ MonitorsFile /\ MonitorUndoes /\ MonitorSets /\ JobsFile /\ JobUndoes
    /\ UpFollows /\ MonitorFollows
MacInv == MacTyped /\ TunnelInv /\ NamesKnown

LEMMA MacSteps ==
  /\ M!JobSteps = {"untie", "unroute", "stop", "forget", "begin", "down", "split", "clean", "reap", "start",
                   "iface", "pin", "routes", "dns", "set", "fork", "final", "attach", "end"}
  /\ M!Teardown = {"untie", "unroute", "stop", "forget"}
  BY DEF M!JobSteps, M!Teardown

LEMMA MacNone ==
  /\ M!NoState \in MacStates /\ M!NoState.pid = 0 /\ M!NoState.mode = "all" /\ ~M!NoState.iface
  /\ ~M!NoState.pinned /\ ~M!NoState.black /\ ~M!NoState.monitor
  /\ \A x \in Networks : M!NoState.list[x] = "-"
  /\ M!NoMonitor \in Monitors /\ M!NoMonitor.at = "none" /\ M!NoMonitor.tun = M!NoState
  /\ M!NoJob \in MacJobs /\ M!NoJob.what = "none" /\ M!NoJob.at = "end" /\ M!NoJob.then = "end"
  /\ M!NoJob.tun = M!NoState
  /\ M!NoNames.kernel = "none" /\ ~M!NoNames.tracked
  /\ M!NoNames \in [tracked : BOOLEAN, kernel : {"none", "laid", "hole"}]
  /\ M!NoSplitFile.mode = "none" /\ ~M!NoSplitFile.routes
  /\ M!NoSplitFile \in [mode : {"none", "proxy", "direct", "all"}, routes : BOOLEAN]
<1>1. M!NoState \in MacStates /\ M!NoState.pid = 0 /\ M!NoState.mode = "all" /\ ~M!NoState.iface
      /\ ~M!NoState.pinned /\ ~M!NoState.black /\ ~M!NoState.monitor
      /\ \A x \in Networks : M!NoState.list[x] = "-"
  BY DEF M!NoState, MacStates, M!Modes
<1>2. M!NoMonitor \in Monitors /\ M!NoMonitor.at = "none" /\ M!NoMonitor.tun = M!NoState
  BY <1>1 DEF M!NoMonitor, Monitors, AnyNetwork
<1>3. M!NoJob \in MacJobs /\ M!NoJob.what = "none" /\ M!NoJob.at = "end" /\ M!NoJob.then = "end"
      /\ M!NoJob.tun = M!NoState
  BY <1>1, MacSteps DEF M!NoJob, MacJobs, AnyNetwork, M!Modes
<1> QED
  BY <1>1, <1>2, <1>3 DEF M!NoNames, M!NoSplitFile

LEMMA MacFields ==
  ASSUME MacTyped
  PROVE  /\ script.what \in {"none", "up", "down"} /\ script.at \in M!JobSteps
         /\ script.then \in {"split", "reap", "end"} /\ script.replace \in BOOLEAN
         /\ script.mode \in M!Modes /\ script.app \in Nat /\ script.tun \in MacStates
         /\ script.net \in AnyNetwork
         /\ monitor.at \in M!Teardown \cup {"none", "watch", "held", "dns", "set"}
         /\ monitor.tun \in MacStates /\ monitor.news \in BOOLEAN /\ monitor.net \in AnyNetwork
         /\ file \in MacStates
  BY DEF MacTyped, MacJobs, Monitors

LEMMA StateFields ==
  ASSUME NEW f \in MacStates
  PROVE  /\ f.pid \in Nat /\ f.iface \in BOOLEAN /\ f.pinned \in BOOLEAN /\ f.black \in BOOLEAN
         /\ f.monitor \in BOOLEAN /\ f.list \in [Networks -> {"-", "own", "vpn"}]
  BY DEF MacStates

LEMMA MacMoves ==
  ASSUME MacTyped, NEW at, M!Moves(at)
  PROVE  /\ script'.at = at /\ script'.what = script.what /\ script'.then = script.then
         /\ script'.mode = script.mode /\ script'.tun = script.tun /\ script'.net = script.net
         /\ at \in M!JobSteps => script' \in MacJobs
  BY DEF MacTyped, MacJobs, M!Moves

LEMMA DaemonsNumbered ==
  ASSUME MacTyped
  PROVE  0 \notin daemons /\ born + 1 \notin daemons /\ born + 1 # 0
  BY DEF MacTyped

\* The next step of an up, its variables saved.
LEMMA MacRecords ==
  ASSUME MacTyped, NEW at \in M!JobSteps, NEW st \in MacStates, M!Records(st, at)
  PROVE  /\ script'.at = at /\ script'.what = script.what /\ script'.then = script.then
         /\ script'.tun = st /\ script'.net = script.net /\ file' = st /\ script' \in MacJobs
  BY DEF MacTyped, MacJobs, M!Records, M!Saves

\* A network service more in the list, with the setting it has.
LEMMA Listing ==
  ASSUME MacTyped, NEW st \in MacStates, NEW x \in Networks
  PROVE  /\ M!Listed(st, x) \in MacStates
         /\ M!Listed(st, x).pid = st.pid /\ M!Listed(st, x).monitor = st.monitor
         /\ M!Listed(st, x).black = st.black /\ M!Listed(st, x).pinned = st.pinned
         /\ \A y \in Networks : M!Listed(st, x).list[y] = IF y = x THEN dns[y] ELSE st.list[y]
  BY DEF MacTyped, MacStates, M!Listed

LEMMA PuttingBack ==
  ASSUME MacTyped, NEW st \in MacStates, NEW lost, M!PutsBack(st, lost)
  PROVE  /\ dns' \in [Networks -> {"own", "vpn"}] /\ pardoned \subseteq pardoned' /\ lost \subseteq pardoned'
         /\ \/ "refused" \in pardoned'
            \/ \A x \in Networks : dns'[x] = IF st.list[x] = "-" THEN dns[x] ELSE st.list[x]
<1>1. M!DnsBack(st) \in [Networks -> {"own", "vpn"}]
  BY StateFields DEF MacTyped, M!DnsBack
<1>2. CASE dns' = M!DnsBack(st) /\ pardoned' = pardoned \cup lost
  BY <1>1, <1>2 DEF M!DnsBack
<1>3. CASE \E x \in Networks : /\ st.list[x] # "-" /\ dns' = [M!DnsBack(st) EXCEPT ![x] = dns[x]]
                               /\ M!Fault({"refused"} \cup lost)
  BY <1>1, <1>3 DEF M!Fault, MacTyped
<1> QED
  BY <1>2, <1>3 DEF M!PutsBack

LEMMA MacWatches ==
  ASSUME MacTyped, NEW at, M!Watches(at)
  PROVE  /\ monitor'.at = at /\ monitor'.tun = monitor.tun /\ monitor'.news = monitor.news
         /\ monitor'.net = monitor.net
         /\ at \in M!Teardown \cup {"none", "watch", "held", "dns", "set"} => monitor' \in Monitors
  BY DEF MacTyped, Monitors, M!Watches

LEMMA MacDownKeeps ==
  ASSUME MacInv, M!Down
  PROVE  MacInv'
<1>1. /\ script.at = "down"
      /\ monitor' = M!NoMonitor
      /\ pardoned \subseteq pardoned'
      /\ (monitor.at = "held" => "window" \in pardoned')
      /\ \/ /\ file.pid # 0
            /\ script'.at = "untie" /\ script'.what = script.what /\ script'.then = script.then
            /\ script'.tun = file /\ script'.net = script.net /\ script' \in MacJobs
         \/ /\ file.pid = 0
            /\ script'.at = script.then /\ script'.what = script.what /\ script'.then = script.then
            /\ script'.tun = script.tun /\ script'.net = script.net /\ script' \in MacJobs
      /\ user' = user /\ service' = service /\ owner' = owner /\ file' = file /\ daemons' = daemons
      /\ born' = born /\ dns' = dns /\ pin' = pin /\ holes' = holes /\ proxy' = proxy /\ names' = names
      /\ record' = record /\ present' = present /\ router' = router
  <2> USE DEF M!Down
  <2>1. script.at = "down"
    OBVIOUS
  <2>2. monitor' = M!NoMonitor
    BY DEF M!KillsMonitor
  <2>3. pardoned \subseteq pardoned'
    BY DEF M!KillsMonitor
  <2>4. (monitor.at = "held" => "window" \in pardoned')
    BY DEF M!KillsMonitor, M!Cut
  <2>5. \/ /\ file.pid # 0
           /\ script'.at = "untie" /\ script'.what = script.what /\ script'.then = script.then
           /\ script'.tun = file /\ script'.net = script.net /\ script' \in MacJobs
        \/ /\ file.pid = 0
           /\ script'.at = script.then /\ script'.what = script.what /\ script'.then = script.then
           /\ script'.tun = script.tun /\ script'.net = script.net /\ script' \in MacJobs
    <3>1. script \in MacJobs /\ file \in MacStates /\ "untie" \in M!JobSteps /\ script.then \in M!JobSteps
      BY MacFields, MacSteps DEF MacInv, MacTyped
    <3>2. CASE file.pid # 0
      <4>1. script' = [script EXCEPT !.at = "untie", !.tun = file] BY <3>2 DEF M!There
      <4> HIDE DEF M!Down
      <4> QED BY <3>1, <3>2, <4>1 DEF MacJobs
    <3>3. CASE file.pid = 0
      <4>1. M!Moves(script.then) BY <3>3 DEF M!There
      <4> HIDE DEF M!Down
      <4> QED BY <3>1, <3>3, <4>1, MacMoves DEF MacInv
    <3> QED BY <3>1, <3>2, <3>3 
  <2>6. /\ user' = user /\ service' = service /\ owner' = owner /\ file' = file
        /\ daemons' = daemons /\ born' = born /\ dns' = dns /\ pin' = pin /\ holes' = holes
        /\ proxy' = proxy /\ names' = names /\ record' = record /\ present' = present
        /\ router' = router
    BY DEF M!systemVars, M!splitVars
  <2> QED BY <2>1, <2>2, <2>3, <2>4, <2>5, <2>6
<1>2. MacTyped'
  BY <1>1, MacNone DEF MacInv, MacTyped
<1>3. DnsRecorded'
  BY <1>1 DEF MacInv, TunnelInv, DnsRecorded, Honest
<1>4. DaemonRecorded'
  BY <1>1 DEF MacInv, TunnelInv, DaemonRecorded
<1>5. PinRecorded'
  BY <1>1 DEF MacInv, TunnelInv, PinRecorded
<1>6. HolesRecorded'
  BY <1>1 DEF MacInv, TunnelInv, HolesRecorded
<1>7. FileWhole'
  BY <1>1 DEF MacInv, TunnelInv, FileWhole
<1>8. ListsOwn'
  BY <1>1, MacNone DEF MacInv, TunnelInv, ListsOwn, Honest
<1>9. Placed'
  BY <1>1, MacNone DEF MacInv, TunnelInv, Placed
<1>10. MonitorsFile'
  BY <1>1, MacNone DEF MonitorsFile
<1>11. MonitorUndoes'
  BY <1>1, MacNone DEF MonitorUndoes, Undoing
<1>12. MonitorSets'
  BY <1>1, MacNone DEF MonitorSets
<1>13. JobsFile'
  BY <1>1, MacFields DEF MacInv, TunnelInv, JobsFile, FileWhole, Setting
<1>14. JobUndoes'
  BY <1>1, MacFields DEF MacInv, JobUndoes, Undoing
<1>15. UpFollows'
  BY <1>1, MacFields DEF MacInv, UpFollows
<1>16. MonitorFollows'
  BY <1>1, MacNone DEF MonitorFollows
<1>17. NamesKnown'
  BY <1>1 DEF MacInv, NamesKnown, NamesLost
<1> QED
  BY <1>2, <1>3, <1>4, <1>5, <1>6, <1>7, <1>8, <1>9, <1>10, <1>11, <1>12, <1>13, <1>14, <1>15, <1>16, <1>17
     DEF MacInv, TunnelInv

LEMMA MacJobUntiesKeeps ==
  ASSUME MacInv, M!JobUnties
  PROVE  MacInv'
<1>1. /\ script.at = "untie"
      /\ script'.at = "unroute" /\ script'.what = script.what /\ script'.then = script.then
      /\ script'.tun = script.tun /\ script'.net = script.net /\ script' \in MacJobs
      /\ pardoned \subseteq pardoned'
      /\ monitor' = IF script.tun.monitor THEN M!NoMonitor ELSE monitor
      /\ (script.tun.monitor /\ (file # script.tun \/ monitor.at = "held") => "window" \in pardoned')
      /\ dns' \in [Networks -> {"own", "vpn"}]
      /\ \/ /\ "refused" \in pardoned'
         \/ /\ \A x \in Networks : dns'[x] = IF script.tun.list[x] = "-" THEN dns[x] ELSE script.tun.list[x]
      /\ user' = user /\ service' = service /\ owner' = owner /\ file' = file /\ daemons' = daemons
      /\ born' = born /\ pin' = pin /\ holes' = holes /\ proxy' = proxy /\ names' = names
      /\ record' = record /\ present' = present /\ router' = router
  <2> USE DEF M!JobUnties
  <2>0. /\ dns' \in [Networks -> {"own", "vpn"}] /\ pardoned \subseteq pardoned'
        /\ \/ "refused" \in pardoned'
           \/ \A x \in Networks : dns'[x] = IF script.tun.list[x] = "-" THEN dns[x] ELSE script.tun.list[x]
    <3>1. script.tun \in MacStates BY MacFields DEF MacInv
    <3>2. PICK lost : M!PutsBack(script.tun, lost) OBVIOUS
    <3> HIDE DEF M!JobUnties
    <3> QED BY <3>1, <3>2, PuttingBack DEF MacInv
  <2>1. script.at = "untie"
    OBVIOUS
  <2>2. script'.at = "unroute" /\ script'.what = script.what /\ script'.then = script.then
        /\ script'.tun = script.tun /\ script'.net = script.net /\ script' \in MacJobs
    BY MacMoves, MacSteps DEF MacInv
  <2>3. pardoned \subseteq pardoned'
    BY DEF M!PutsBack, M!Fault
  <2>4. monitor' = IF script.tun.monitor THEN M!NoMonitor ELSE monitor
    OBVIOUS
  <2>5. (script.tun.monitor /\ (file # script.tun \/ monitor.at = "held") => "window" \in pardoned')
    BY DEF M!PutsBack, M!Unread, M!Cut, M!Fault
  <2>6. dns' \in [Networks -> {"own", "vpn"}]
    BY <2>0
  <2>7. \/ /\ "refused" \in pardoned'
        \/ /\ \A x \in Networks : dns'[x] = IF script.tun.list[x] = "-" THEN dns[x] ELSE script.tun.list[x]
    BY <2>0
  <2>8. /\ user' = user /\ service' = service /\ owner' = owner /\ file' = file
        /\ daemons' = daemons /\ born' = born /\ pin' = pin /\ holes' = holes /\ proxy' = proxy
        /\ names' = names /\ record' = record /\ present' = present /\ router' = router
    BY DEF M!splitVars
  <2> QED BY <2>1, <2>2, <2>3, <2>4, <2>5, <2>6, <2>7, <2>8
<1>2. MacTyped'
  BY <1>1, MacNone DEF MacInv, MacTyped
<1>3. DnsRecorded'
  BY <1>1 DEF MacInv, TunnelInv, DnsRecorded, ListsOwn, Honest
<1>4. DaemonRecorded'
  BY <1>1 DEF MacInv, TunnelInv, DaemonRecorded
<1>5. PinRecorded'
  BY <1>1 DEF MacInv, TunnelInv, PinRecorded
<1>6. HolesRecorded'
  BY <1>1 DEF MacInv, TunnelInv, HolesRecorded
<1>7. FileWhole'
  BY <1>1 DEF MacInv, TunnelInv, FileWhole
<1>8. ListsOwn'
  BY <1>1, MacNone DEF MacInv, TunnelInv, ListsOwn, Honest
<1>9. Placed'
  BY <1>1, MacNone DEF MacInv, TunnelInv, Placed
<1>10. MonitorsFile'
  BY <1>1, MacNone DEF MacInv, TunnelInv, MonitorsFile
<1>11. MonitorUndoes'
  BY <1>1, MacNone DEF MacInv, TunnelInv, MonitorUndoes, MonitorsFile, JobsFile, Undoing
<1>12. MonitorSets'
  BY <1>1, MacNone DEF MacInv, TunnelInv, MonitorSets, Honest
<1>13. JobsFile'
  BY <1>1 DEF JobsFile, Setting
<1>14. JobUndoes'
  BY <1>1 DEF MacInv, TunnelInv, JobUndoes, DnsRecorded, ListsOwn, JobsFile, Honest, OwnDns
<1>15. UpFollows'
  BY <1>1 DEF UpFollows
<1>16. MonitorFollows'
  BY <1>1, MacNone DEF MacInv, TunnelInv, MonitorFollows, Placed
<1>17. NamesKnown'
  BY <1>1 DEF MacInv, NamesKnown, NamesLost
<1> QED
  BY <1>2, <1>3, <1>4, <1>5, <1>6, <1>7, <1>8, <1>9, <1>10, <1>11, <1>12, <1>13, <1>14, <1>15, <1>16, <1>17
     DEF MacInv, TunnelInv

LEMMA MacJobUnroutesKeeps ==
  ASSUME MacInv, M!JobUnroutes
  PROVE  MacInv'
<1>1. /\ script.at = "unroute"
      /\ script'.at = "stop" /\ script'.what = script.what /\ script'.then = script.then
      /\ script'.tun = script.tun /\ script'.net = script.net /\ script' \in MacJobs
      /\ holes' = (holes /\ ~script.tun.black)
      /\ pin' = IF script.tun.pinned THEN "none" ELSE pin
      /\ user' = user /\ service' = service /\ owner' = owner /\ file' = file /\ monitor' = monitor
      /\ daemons' = daemons /\ born' = born /\ dns' = dns /\ proxy' = proxy /\ names' = names
      /\ record' = record /\ present' = present /\ router' = router /\ pardoned' = pardoned
  <2> USE DEF M!JobUnroutes
  <2>1. script.at = "unroute"
    OBVIOUS
  <2>2. script'.at = "stop" /\ script'.what = script.what /\ script'.then = script.then
        /\ script'.tun = script.tun /\ script'.net = script.net /\ script' \in MacJobs
    BY MacSteps DEF MacInv, MacTyped, MacJobs, M!Moves
  <2>3. holes' = (holes /\ ~script.tun.black)
    BY DEF M!Unroutes
  <2>4. pin' = IF script.tun.pinned THEN "none" ELSE pin
    BY DEF M!Unroutes
  <2>5. /\ user' = user /\ service' = service /\ owner' = owner /\ file' = file
        /\ monitor' = monitor /\ daemons' = daemons /\ born' = born /\ dns' = dns
        /\ proxy' = proxy /\ names' = names /\ record' = record /\ present' = present
        /\ router' = router /\ pardoned' = pardoned
    BY DEF M!splitVars, M!envVars
  <2> QED BY <2>1, <2>2, <2>3, <2>4, <2>5
<1>2. MacTyped'
  BY <1>1 DEF MacInv, MacTyped
<1>3. DnsRecorded'
  BY <1>1 DEF MacInv, TunnelInv, DnsRecorded, Honest
<1>4. DaemonRecorded'
  BY <1>1 DEF MacInv, TunnelInv, DaemonRecorded
<1>5. PinRecorded'
  BY <1>1 DEF MacInv, TunnelInv, PinRecorded
<1>6. HolesRecorded'
  BY <1>1 DEF MacInv, TunnelInv, HolesRecorded
<1>7. FileWhole'
  BY <1>1 DEF MacInv, TunnelInv, FileWhole
<1>8. ListsOwn'
  BY <1>1 DEF MacInv, TunnelInv, ListsOwn, Honest
<1>9. Placed'
  BY <1>1 DEF MacInv, TunnelInv, Placed, Undoing
<1>10. MonitorsFile'
  BY <1>1 DEF MacInv, TunnelInv, MonitorsFile
<1>11. MonitorUndoes'
  BY <1>1 DEF MacInv, TunnelInv, MonitorUndoes, Honest, OwnDns, NoHoles
<1>12. MonitorSets'
  BY <1>1 DEF MacInv, TunnelInv, MonitorSets, Honest
<1>13. JobsFile'
  BY <1>1 DEF JobsFile, Setting
<1>14. JobUndoes'
  BY <1>1 DEF MacInv, TunnelInv, JobUndoes, PinRecorded, HolesRecorded, Placed, Honest, OwnDns, NoHoles, Undoing
<1>15. UpFollows'
  BY <1>1 DEF UpFollows
<1>16. MonitorFollows'
  BY <1>1 DEF MacInv, TunnelInv, MonitorFollows, Placed, Undoing
<1>17. NamesKnown'
  BY <1>1 DEF MacInv, NamesKnown, NamesLost
<1> QED
  BY <1>2, <1>3, <1>4, <1>5, <1>6, <1>7, <1>8, <1>9, <1>10, <1>11, <1>12, <1>13, <1>14, <1>15, <1>16, <1>17
     DEF MacInv, TunnelInv

LEMMA MacJobStopsKeeps ==
  ASSUME MacInv, M!JobStops
  PROVE  MacInv'
<1>1. /\ script.at = "stop"
      /\ script'.at = "forget" /\ script'.what = script.what /\ script'.then = script.then
      /\ script'.tun = script.tun /\ script'.net = script.net /\ script' \in MacJobs
      /\ daemons' = daemons \ {script.tun.pid}
      /\ names'.tracked = names.tracked /\ names' \in [tracked : BOOLEAN, kernel : {"none", "laid", "hole"}]
      /\ names'.kernel = names.kernel \/ names'.kernel = "none"
      /\ user' = user /\ service' = service /\ owner' = owner /\ file' = file /\ monitor' = monitor
      /\ born' = born /\ dns' = dns /\ pin' = pin /\ holes' = holes /\ proxy' = proxy
      /\ record' = record /\ present' = present /\ router' = router /\ pardoned' = pardoned
  <2> USE DEF M!JobStops
  <2>1. script.at = "stop"
    OBVIOUS
  <2>2. script'.at = "forget" /\ script'.what = script.what /\ script'.then = script.then
        /\ script'.tun = script.tun /\ script'.net = script.net /\ script' \in MacJobs
    BY MacSteps DEF MacInv, MacTyped, MacJobs, M!Moves
  <2>3. daemons' = daemons \ {script.tun.pid}
    BY DEF M!Ends
  <2>4. /\ names'.tracked = names.tracked /\ names' \in [tracked : BOOLEAN, kernel : {"none", "laid", "hole"}]
        /\ names'.kernel = names.kernel \/ names'.kernel = "none"
    BY DEF M!Ends, MacInv, MacTyped
  <2>5. /\ user' = user /\ service' = service /\ owner' = owner /\ file' = file
        /\ monitor' = monitor /\ born' = born /\ dns' = dns /\ pin' = pin /\ holes' = holes
        /\ proxy' = proxy /\ record' = record /\ present' = present /\ router' = router
        /\ pardoned' = pardoned
    BY DEF M!envVars
  <2> QED BY <2>1, <2>2, <2>3, <2>4, <2>5
<1>2. MacTyped'
  BY <1>1 DEF MacInv, MacTyped
<1>3. DnsRecorded'
  BY <1>1 DEF MacInv, TunnelInv, DnsRecorded, Honest
<1>4. DaemonRecorded'
  BY <1>1 DEF MacInv, TunnelInv, DaemonRecorded
<1>5. PinRecorded'
  BY <1>1 DEF MacInv, TunnelInv, PinRecorded
<1>6. HolesRecorded'
  BY <1>1 DEF MacInv, TunnelInv, HolesRecorded
<1>7. FileWhole'
  BY <1>1 DEF MacInv, TunnelInv, FileWhole
<1>8. ListsOwn'
  BY <1>1 DEF MacInv, TunnelInv, ListsOwn, Honest
<1>9. Placed'
  BY <1>1 DEF MacInv, TunnelInv, Placed, Undoing
<1>10. MonitorsFile'
  BY <1>1 DEF MacInv, TunnelInv, MonitorsFile
<1>11. MonitorUndoes'
  BY <1>1 DEF MacInv, TunnelInv, MonitorUndoes, Honest, OwnDns, NoHoles
<1>12. MonitorSets'
  BY <1>1 DEF MacInv, TunnelInv, MonitorSets, Honest
<1>13. JobsFile'
  BY <1>1 DEF JobsFile, Setting
<1>14. JobUndoes'
  BY <1>1, DaemonsNumbered DEF MacInv, TunnelInv, JobUndoes, DaemonRecorded, Honest, OwnDns, NoHoles, Undoing
<1>15. UpFollows'
  BY <1>1 DEF UpFollows
<1>16. MonitorFollows'
  BY <1>1 DEF MacInv, TunnelInv, MonitorFollows, Placed, Undoing
<1>17. NamesKnown'
  BY <1>1 DEF MacInv, NamesKnown, NamesLost
<1> QED
  BY <1>2, <1>3, <1>4, <1>5, <1>6, <1>7, <1>8, <1>9, <1>10, <1>11, <1>12, <1>13, <1>14, <1>15, <1>16, <1>17
     DEF MacInv, TunnelInv

LEMMA MacJobForgetsKeeps ==
  ASSUME MacInv, M!JobForgets
  PROVE  MacInv'
<1>1. /\ script.at = "forget"
      /\ file' = M!NoState
      /\ script'.at = script.then /\ script'.what = script.what /\ script'.then = script.then
      /\ script'.tun = M!NoState /\ script'.net = script.net /\ script' \in MacJobs
      /\ user' = user /\ service' = service /\ owner' = owner /\ monitor' = monitor
      /\ daemons' = daemons /\ born' = born /\ dns' = dns /\ pin' = pin /\ holes' = holes
      /\ proxy' = proxy /\ names' = names /\ record' = record /\ present' = present /\ router' = router
      /\ pardoned' = pardoned
  <2> USE DEF M!JobForgets
  <2>1. script.at = "forget"
    OBVIOUS
  <2>2. file' = M!NoState
    OBVIOUS
  <2>3. script'.at = script.then /\ script'.what = script.what /\ script'.then = script.then
        /\ script'.tun = M!NoState /\ script'.net = script.net /\ script' \in MacJobs
    <3>1. script' = [script EXCEPT !.at = script.then, !.tun = M!NoState] OBVIOUS
    <3>2. script \in MacJobs /\ M!NoState \in MacStates /\ script.then \in M!JobSteps
      BY MacFields, MacNone, MacSteps DEF MacInv, MacTyped
    <3> HIDE DEF M!JobForgets
    <3> QED BY <3>1, <3>2 DEF MacJobs
  <2>4. /\ user' = user /\ service' = service /\ owner' = owner /\ monitor' = monitor
        /\ daemons' = daemons /\ born' = born /\ dns' = dns /\ pin' = pin /\ holes' = holes
        /\ proxy' = proxy /\ names' = names /\ record' = record /\ present' = present
        /\ router' = router /\ pardoned' = pardoned
    BY DEF M!systemVars, M!splitVars, M!envVars
  <2> QED BY <2>1, <2>2, <2>3, <2>4
<1>2. MacTyped'
  BY <1>1, MacNone DEF MacInv, MacTyped
<1>3. DnsRecorded'
  BY <1>1 DEF MacInv, TunnelInv, DnsRecorded, JobUndoes, Honest, OwnDns, Undoing
<1>4. DaemonRecorded'
  BY <1>1 DEF MacInv, TunnelInv, DaemonRecorded, JobUndoes
<1>5. PinRecorded'
  BY <1>1 DEF MacInv, TunnelInv, PinRecorded, JobUndoes
<1>6. HolesRecorded'
  BY <1>1 DEF MacInv, TunnelInv, HolesRecorded, JobUndoes, NoHoles
<1>7. FileWhole'
  BY <1>1 DEF FileWhole
<1>8. ListsOwn'
  BY <1>1, MacNone DEF MacInv, TunnelInv, ListsOwn, Honest
<1>9. Placed'
  BY <1>1 DEF MacInv, TunnelInv, Placed, Undoing
<1>10. MonitorsFile'
  BY <1>1 DEF MacInv, TunnelInv, MonitorsFile, Placed, Undoing
<1>11. MonitorUndoes'
  BY <1>1 DEF MacInv, TunnelInv, MonitorUndoes, Honest, OwnDns, NoHoles
<1>12. MonitorSets'
  BY <1>1 DEF MacInv, TunnelInv, MonitorSets, Honest
<1>13. JobsFile'
  BY <1>1, MacFields DEF MacInv, JobsFile, Setting
<1>14. JobUndoes'
  BY <1>1 DEF MacInv, TunnelInv, JobUndoes, Honest, OwnDns, NoHoles, Undoing
<1>15. UpFollows'
  BY <1>1, MacFields DEF MacInv, UpFollows
<1>16. MonitorFollows'
  BY <1>1 DEF MacInv, TunnelInv, MonitorFollows, Placed, Undoing
<1>17. NamesKnown'
  BY <1>1 DEF MacInv, NamesKnown, NamesLost
<1> QED
  BY <1>2, <1>3, <1>4, <1>5, <1>6, <1>7, <1>8, <1>9, <1>10, <1>11, <1>12, <1>13, <1>14, <1>15, <1>16, <1>17
     DEF MacInv, TunnelInv

LEMMA MacCleansKeeps ==
  ASSUME MacInv, M!Cleans
  PROVE  MacInv'
<1>1. /\ script.at = "clean"
      /\ \/ /\ file.pid = 0
            /\ script'.at = "reap" /\ script'.what = script.what /\ script'.then = script.then
            /\ script'.tun = script.tun /\ script'.net = script.net /\ script' \in MacJobs
         \/ /\ script'.at = "end" /\ script'.what = script.what /\ script'.then = script.then
            /\ script'.tun = script.tun /\ script'.net = script.net /\ script' \in MacJobs
         \/ /\ file.pid # 0
            /\ script'.at = "untie" /\ script'.what = script.what /\ script'.then = "reap"
            /\ script'.tun = file /\ script'.net = script.net /\ script' \in MacJobs
      /\ user' = user /\ service' = service /\ owner' = owner /\ file' = file /\ monitor' = monitor
      /\ daemons' = daemons /\ born' = born /\ dns' = dns /\ pin' = pin /\ holes' = holes
      /\ proxy' = proxy /\ names' = names /\ record' = record /\ present' = present /\ router' = router
      /\ pardoned' = pardoned
  <2> USE DEF M!Cleans
  <2>1. script.at = "clean"
    OBVIOUS
  <2>2. \/ /\ file.pid = 0
           /\ script'.at = "reap" /\ script'.what = script.what /\ script'.then = script.then
           /\ script'.tun = script.tun /\ script'.net = script.net /\ script' \in MacJobs
        \/ /\ script'.at = "end" /\ script'.what = script.what /\ script'.then = script.then
           /\ script'.tun = script.tun /\ script'.net = script.net /\ script' \in MacJobs
        \/ /\ file.pid # 0
           /\ script'.at = "untie" /\ script'.what = script.what /\ script'.then = "reap"
           /\ script'.tun = file /\ script'.net = script.net /\ script' \in MacJobs
    <3>1. script \in MacJobs /\ file \in MacStates /\ {"untie", "reap", "end"} \subseteq M!JobSteps
      BY MacSteps DEF MacInv, MacTyped
    <3>2. \/ file.pid = 0 /\ M!Moves("reap")
          \/ M!Moves("end")
          \/ file.pid # 0 /\ script' = [script EXCEPT !.at = "untie", !.then = "reap", !.tun = file]
      BY DEF M!There
    <3> HIDE DEF M!Cleans
    <3>3. CASE file.pid = 0 /\ M!Moves("reap") BY <3>1, <3>2, <3>3, MacMoves DEF MacInv
    <3>4. CASE M!Moves("end") BY <3>1, <3>4, MacMoves DEF MacInv
    <3>5. CASE file.pid # 0 /\ script' = [script EXCEPT !.at = "untie", !.then = "reap", !.tun = file]
      BY <3>1, <3>5 DEF MacJobs
    <3> QED BY <3>2, <3>3, <3>4, <3>5
  <2>3. /\ user' = user /\ service' = service /\ owner' = owner /\ file' = file
        /\ monitor' = monitor /\ daemons' = daemons /\ born' = born /\ dns' = dns /\ pin' = pin
        /\ holes' = holes /\ proxy' = proxy /\ names' = names /\ record' = record
        /\ present' = present /\ router' = router /\ pardoned' = pardoned
    BY DEF M!systemVars, M!splitVars, M!envVars
  <2> QED BY <2>1, <2>2, <2>3
<1>2. MacTyped'
  BY <1>1 DEF MacInv, MacTyped
<1>3. DnsRecorded'
  BY <1>1 DEF MacInv, TunnelInv, DnsRecorded, Honest
<1>4. DaemonRecorded'
  BY <1>1 DEF MacInv, TunnelInv, DaemonRecorded
<1>5. PinRecorded'
  BY <1>1 DEF MacInv, TunnelInv, PinRecorded
<1>6. HolesRecorded'
  BY <1>1 DEF MacInv, TunnelInv, HolesRecorded
<1>7. FileWhole'
  BY <1>1 DEF MacInv, TunnelInv, FileWhole
<1>8. ListsOwn'
  BY <1>1 DEF MacInv, TunnelInv, ListsOwn, Honest
<1>9. Placed'
  BY <1>1 DEF MacInv, TunnelInv, Placed, MonitorsFile, Setting, Undoing
<1>10. MonitorsFile'
  BY <1>1 DEF MacInv, TunnelInv, MonitorsFile
<1>11. MonitorUndoes'
  BY <1>1 DEF MacInv, TunnelInv, MonitorUndoes, Honest, OwnDns, NoHoles
<1>12. MonitorSets'
  BY <1>1 DEF MacInv, TunnelInv, MonitorSets, Honest
<1>13. JobsFile'
  BY <1>1 DEF MacInv, TunnelInv, JobsFile, FileWhole, Setting
<1>14. JobUndoes'
  BY <1>1 DEF JobUndoes, Undoing
<1>15. UpFollows'
  BY <1>1 DEF UpFollows
<1>16. MonitorFollows'
  BY <1>1 DEF MacInv, TunnelInv, MonitorFollows, M!Want, Obeyed
<1>17. NamesKnown'
  BY <1>1 DEF MacInv, NamesKnown, NamesLost
<1> QED
  BY <1>2, <1>3, <1>4, <1>5, <1>6, <1>7, <1>8, <1>9, <1>10, <1>11, <1>12, <1>13, <1>14, <1>15, <1>16, <1>17
     DEF MacInv, TunnelInv

LEMMA MacReapsKeeps ==
  ASSUME MacInv, M!Reaps
  PROVE  MacInv'
<1>1. /\ script.at = "reap"
      /\ monitor' = M!NoMonitor
      /\ pardoned \subseteq pardoned'
      /\ (monitor.at = "held" => "window" \in pardoned')
      /\ \/ /\ script'.at = "forget" /\ script'.what = script.what /\ script'.then = "end"
            /\ script'.tun = script.tun /\ script'.net = script.net /\ script' \in MacJobs
         \/ /\ script'.at = "start" /\ script'.what = script.what /\ script'.then = "end"
            /\ script'.tun = script.tun /\ script'.net = script.net /\ script' \in MacJobs
      /\ user' = user /\ service' = service /\ owner' = owner /\ file' = file /\ daemons' = daemons
      /\ born' = born /\ dns' = dns /\ pin' = pin /\ holes' = holes /\ proxy' = proxy /\ names' = names
      /\ record' = record /\ present' = present /\ router' = router
  <2> USE DEF M!Reaps
  <2>1. script.at = "reap"
    OBVIOUS
  <2>2. monitor' = M!NoMonitor
    BY DEF M!KillsMonitor
  <2>3. pardoned \subseteq pardoned'
    BY DEF M!KillsMonitor
  <2>4. (monitor.at = "held" => "window" \in pardoned')
    BY DEF M!KillsMonitor, M!Cut
  <2>5. \/ /\ script'.at = "forget" /\ script'.what = script.what /\ script'.then = "end"
           /\ script'.tun = script.tun /\ script'.net = script.net /\ script' \in MacJobs
        \/ /\ script'.at = "start" /\ script'.what = script.what /\ script'.then = "end"
           /\ script'.tun = script.tun /\ script'.net = script.net /\ script' \in MacJobs
    <3>1. \E at \in {"forget", "start"} : script' = [script EXCEPT !.at = at, !.then = "end"] OBVIOUS
    <3>2. script \in MacJobs /\ {"forget", "start"} \subseteq M!JobSteps
      BY MacSteps DEF MacInv, MacTyped
    <3> HIDE DEF M!Reaps
    <3> QED BY <3>1, <3>2 DEF MacJobs
  <2>6. /\ user' = user /\ service' = service /\ owner' = owner /\ file' = file
        /\ daemons' = daemons /\ born' = born /\ dns' = dns /\ pin' = pin /\ holes' = holes
        /\ proxy' = proxy /\ names' = names /\ record' = record /\ present' = present
        /\ router' = router
    BY DEF M!systemVars, M!splitVars
  <2> QED BY <2>1, <2>2, <2>3, <2>4, <2>5, <2>6
<1>2. MacTyped'
  BY <1>1, MacNone DEF MacInv, MacTyped
<1>3. DnsRecorded'
  BY <1>1 DEF MacInv, TunnelInv, DnsRecorded, Honest
<1>4. DaemonRecorded'
  BY <1>1 DEF MacInv, TunnelInv, DaemonRecorded
<1>5. PinRecorded'
  BY <1>1 DEF MacInv, TunnelInv, PinRecorded
<1>6. HolesRecorded'
  BY <1>1 DEF MacInv, TunnelInv, HolesRecorded
<1>7. FileWhole'
  BY <1>1 DEF MacInv, TunnelInv, FileWhole
<1>8. ListsOwn'
  BY <1>1, MacNone DEF MacInv, TunnelInv, ListsOwn, Honest
<1>9. Placed'
  BY <1>1, MacNone DEF MacInv, TunnelInv, Placed
<1>10. MonitorsFile'
  BY <1>1, MacNone DEF MonitorsFile
<1>11. MonitorUndoes'
  BY <1>1, MacNone DEF MonitorUndoes, Undoing
<1>12. MonitorSets'
  BY <1>1, MacNone DEF MonitorSets
<1>13. JobsFile'
  BY <1>1 DEF MacInv, TunnelInv, JobsFile, Setting
<1>14. JobUndoes'
  BY <1>1, MacNone, DaemonsNumbered DEF MacInv, TunnelInv, JobUndoes, DnsRecorded, DaemonRecorded, PinRecorded,
     HolesRecorded, JobsFile, Honest, OwnDns, NoHoles
<1>15. UpFollows'
  BY <1>1 DEF UpFollows
<1>16. MonitorFollows'
  BY <1>1, MacNone DEF MonitorFollows
<1>17. NamesKnown'
  BY <1>1 DEF MacInv, NamesKnown, NamesLost
<1> QED
  BY <1>2, <1>3, <1>4, <1>5, <1>6, <1>7, <1>8, <1>9, <1>10, <1>11, <1>12, <1>13, <1>14, <1>15, <1>16, <1>17
     DEF MacInv, TunnelInv

LEMMA MacStartsKeeps ==
  ASSUME MacInv, M!Starts
  PROVE  MacInv'
<1>1. /\ script.at = "start"
      /\ born' = born + 1
      /\ daemons' = daemons \cup {born + 1}
      /\ file' = script'.tun
      /\ script'.at = "iface" /\ script'.what = script.what /\ script'.tun.pid = born + 1
      /\ ~script'.tun.monitor /\ ~script'.tun.black /\ ~script'.tun.pinned
      /\ script'.tun.list = M!NoState.list /\ script' \in MacJobs
      /\ user' = user /\ service' = service /\ owner' = owner /\ monitor' = monitor /\ dns' = dns
      /\ pin' = pin /\ holes' = holes /\ proxy' = proxy /\ names' = names /\ record' = record
      /\ present' = present /\ router' = router /\ pardoned' = pardoned
  <2> USE DEF M!Starts
  <2>0. /\ file' = script'.tun /\ script'.at = "iface" /\ script'.what = script.what /\ script' \in MacJobs
        /\ script'.tun.pid = born + 1 /\ ~script'.tun.monitor /\ ~script'.tun.black /\ ~script'.tun.pinned
        /\ script'.tun.list = M!NoState.list
    <3> DEFINE begun == [M!NoState EXCEPT !.pid = born + 1, !.mode = script.mode, !.app = script.app]
    <3>1. /\ begun \in MacStates /\ begun.pid = born + 1 /\ ~begun.monitor /\ ~begun.black /\ ~begun.pinned
          /\ begun.list = M!NoState.list
      <4>1. M!NoState \in MacStates /\ script.mode \in M!Modes /\ script.app \in Nat /\ born + 1 \in Nat
            /\ ~M!NoState.monitor /\ ~M!NoState.black /\ ~M!NoState.pinned
        BY MacNone, MacFields DEF MacInv, MacTyped
      <4> HIDE DEF M!Starts
      <4> QED BY <4>1 DEF MacStates
    <3>2. M!Records(begun, "iface") OBVIOUS
    <3> HIDE DEF begun
    <3> QED BY <3>1, <3>2, MacRecords, MacSteps DEF MacInv
  <2>1. script.at = "start"
    OBVIOUS
  <2>2. born' = born + 1
    OBVIOUS
  <2>3. daemons' = daemons \cup {born + 1}
    OBVIOUS
  <2>4. file' = script'.tun
    BY <2>0 
  <2>5. script'.at = "iface" /\ script'.what = script.what /\ script'.tun.pid = born + 1
    BY <2>0 
  <2>6. ~script'.tun.monitor /\ ~script'.tun.black /\ ~script'.tun.pinned
    BY <2>0 
  <2>7. script'.tun.list = M!NoState.list /\ script' \in MacJobs
    BY <2>0 
  <2>8. /\ user' = user /\ service' = service /\ owner' = owner /\ monitor' = monitor
        /\ dns' = dns /\ pin' = pin /\ holes' = holes /\ proxy' = proxy /\ names' = names
        /\ record' = record /\ present' = present /\ router' = router /\ pardoned' = pardoned
    BY DEF M!splitVars, M!envVars
  <2> QED BY <2>1, <2>2, <2>3, <2>4, <2>5, <2>6, <2>7, <2>8
<1>2. MacTyped'
  <2>1. daemons' \subseteq 1 .. born' /\ born' \in Nat BY <1>1 DEF MacInv, MacTyped
  <2> QED BY <1>1, <2>1 DEF MacInv, MacTyped, MacJobs
<1>3. DnsRecorded'
  BY <1>1 DEF MacInv, TunnelInv, DnsRecorded, JobsFile, Honest
<1>4. DaemonRecorded'
  BY <1>1, MacNone, DaemonsNumbered DEF MacInv, TunnelInv, DaemonRecorded, JobsFile
<1>5. PinRecorded'
  BY <1>1, MacNone DEF MacInv, TunnelInv, PinRecorded, JobsFile
<1>6. HolesRecorded'
  BY <1>1, MacNone DEF MacInv, TunnelInv, HolesRecorded, JobsFile
<1>7. FileWhole'
  BY <1>1, DaemonsNumbered DEF MacInv, FileWhole
<1>8. ListsOwn'
  BY <1>1, MacNone DEF MacInv, TunnelInv, ListsOwn, Honest
<1>9. Placed'
  BY <1>1 DEF MacInv, TunnelInv, Placed, Setting
<1>10. MonitorsFile'
  BY <1>1, MacNone DEF MacInv, TunnelInv, MonitorsFile, JobsFile
<1>11. MonitorUndoes'
  BY <1>1 DEF MacInv, TunnelInv, MonitorUndoes, Placed, Setting, Undoing
<1>12. MonitorSets'
  BY <1>1 DEF MacInv, TunnelInv, MonitorSets, Honest
<1>13. JobsFile'
  BY <1>1, DaemonsNumbered DEF MacInv, JobsFile
<1>14. JobUndoes'
  BY <1>1 DEF JobUndoes, Undoing
<1>15. UpFollows'
  BY <1>1, MacNone DEF UpFollows
<1>16. MonitorFollows'
  BY <1>1 DEF MacInv, TunnelInv, MonitorFollows, Placed, Setting
<1>17. NamesKnown'
  BY <1>1 DEF MacInv, NamesKnown, NamesLost
<1> QED
  BY <1>2, <1>3, <1>4, <1>5, <1>6, <1>7, <1>8, <1>9, <1>10, <1>11, <1>12, <1>13, <1>14, <1>15, <1>16, <1>17
     DEF MacInv, TunnelInv

LEMMA MacGetsIfaceKeeps ==
  ASSUME MacInv, M!GetsIface
  PROVE  MacInv'
<1>1. /\ script.at = "iface"
      /\ pardoned \subseteq pardoned'
      /\ \/ /\ file' = file
            /\ script'.at = "untie" /\ script'.what = script.what /\ script'.then = script.then
            /\ script'.tun = script.tun /\ script'.net = script.net /\ script' \in MacJobs
         \/ /\ file' = script'.tun
            /\ script'.at = "pin" /\ script'.what = script.what /\ script'.tun.pid = script.tun.pid
            /\ script'.tun.monitor = script.tun.monitor /\ script'.tun.black = script.tun.black
            /\ script'.tun.pinned
            /\ script'.tun.list = script.tun.list /\ script' \in MacJobs
      /\ user' = user /\ service' = service /\ owner' = owner /\ monitor' = monitor
      /\ daemons' = daemons /\ born' = born /\ dns' = dns /\ pin' = pin /\ holes' = holes
      /\ proxy' = proxy /\ names' = names /\ record' = record /\ present' = present /\ router' = router
  <2> USE DEF M!GetsIface
  <2>0. ASSUME M!Records([script.tun EXCEPT !.iface = TRUE, !.pinned = TRUE], "pin")
        PROVE  /\ file' = script'.tun /\ script'.at = "pin" /\ script'.what = script.what /\ script' \in MacJobs
               /\ script'.tun.pid = script.tun.pid /\ script'.tun.monitor = script.tun.monitor
               /\ script'.tun.black = script.tun.black /\ script'.tun.pinned
               /\ script'.tun.list = script.tun.list
    <3> DEFINE taken == [script.tun EXCEPT !.iface = TRUE, !.pinned = TRUE]
    <3>1. /\ taken \in MacStates /\ taken.pid = script.tun.pid /\ taken.monitor = script.tun.monitor
          /\ taken.black = script.tun.black /\ taken.pinned /\ taken.list = script.tun.list
      BY MacFields DEF MacStates, MacInv
    <3>2. M!Records(taken, "pin") BY <2>0
    <3> HIDE DEF taken
    <3> QED BY <3>1, <3>2, MacRecords, MacSteps DEF MacInv
  <2>1. script.at = "iface"
    OBVIOUS
  <2>2. pardoned \subseteq pardoned'
    BY DEF M!Fault, M!NoFault
  <2>3. \/ /\ file' = file
           /\ script'.at = "untie" /\ script'.what = script.what /\ script'.then = script.then
           /\ script'.tun = script.tun /\ script'.net = script.net /\ script' \in MacJobs
        \/ /\ file' = script'.tun
           /\ script'.at = "pin" /\ script'.what = script.what /\ script'.tun.pid = script.tun.pid
           /\ script'.tun.monitor = script.tun.monitor /\ script'.tun.black = script.tun.black
           /\ script'.tun.pinned
           /\ script'.tun.list = script.tun.list /\ script' \in MacJobs
    BY <2>0, MacMoves, MacSteps DEF MacInv, M!Fails
  <2>4. /\ user' = user /\ service' = service /\ owner' = owner /\ monitor' = monitor
        /\ daemons' = daemons /\ born' = born /\ dns' = dns /\ pin' = pin /\ holes' = holes
        /\ proxy' = proxy /\ names' = names /\ record' = record /\ present' = present
        /\ router' = router
    BY DEF M!systemVars, M!splitVars
  <2> QED BY <2>1, <2>2, <2>3, <2>4
<1>2. MacTyped'
  BY <1>1 DEF MacInv, MacTyped, MacJobs
<1>3. DnsRecorded'
  BY <1>1 DEF MacInv, TunnelInv, DnsRecorded, JobsFile, Honest, Setting
<1>4. DaemonRecorded'
  BY <1>1 DEF MacInv, TunnelInv, DaemonRecorded, JobsFile, Setting
<1>5. PinRecorded'
  BY <1>1 DEF MacInv, TunnelInv, PinRecorded
<1>6. HolesRecorded'
  BY <1>1 DEF MacInv, TunnelInv, HolesRecorded, JobsFile, Setting
<1>7. FileWhole'
  BY <1>1 DEF MacInv, TunnelInv, FileWhole, JobsFile, Setting
<1>8. ListsOwn'
  BY <1>1 DEF MacInv, TunnelInv, ListsOwn, Honest
<1>9. Placed'
  BY <1>1 DEF MacInv, TunnelInv, Placed, Setting
<1>10. MonitorsFile'
  BY <1>1 DEF MacInv, TunnelInv, MonitorsFile, JobsFile, Setting
<1>11. MonitorUndoes'
  BY <1>1 DEF MacInv, TunnelInv, MonitorUndoes, Honest, OwnDns, NoHoles
<1>12. MonitorSets'
  BY <1>1 DEF MacInv, TunnelInv, MonitorSets, Honest
<1>13. JobsFile'
  BY <1>1 DEF MacInv, TunnelInv, JobsFile, Setting
<1>14. JobUndoes'
  BY <1>1 DEF JobUndoes, Undoing
<1>15. UpFollows'
  BY <1>1 DEF MacInv, TunnelInv, UpFollows
<1>16. MonitorFollows'
  BY <1>1 DEF MacInv, TunnelInv, MonitorFollows, Placed, Setting
<1>17. NamesKnown'
  BY <1>1 DEF MacInv, NamesKnown, NamesLost
<1> QED
  BY <1>2, <1>3, <1>4, <1>5, <1>6, <1>7, <1>8, <1>9, <1>10, <1>11, <1>12, <1>13, <1>14, <1>15, <1>16, <1>17
     DEF MacInv, TunnelInv

LEMMA MacUpPinsKeeps ==
  ASSUME MacInv, M!UpPins
  PROVE  MacInv'
<1>1. /\ script.at = "pin"
      /\ pardoned \subseteq pardoned'
      /\ file' = file
      /\ \/ /\ pin' = M!Want
            /\ script'.at = "routes" /\ script'.what = script.what /\ script'.then = script.then
            /\ script'.tun = script.tun /\ script'.net = script.net /\ script' \in MacJobs
         \/ /\ pin' = "none" /\ "refused" \in pardoned'
            /\ script'.at = "untie" /\ script'.what = script.what /\ script'.then = script.then
            /\ script'.tun = script.tun /\ script'.net = script.net /\ script' \in MacJobs
      /\ user' = user /\ service' = service /\ owner' = owner /\ monitor' = monitor
      /\ daemons' = daemons /\ born' = born /\ dns' = dns /\ holes' = holes /\ proxy' = proxy
      /\ names' = names /\ record' = record /\ present' = present /\ router' = router
  <2> USE DEF M!UpPins
  <2>1. script.at = "pin"
    OBVIOUS
  <2>2. pardoned \subseteq pardoned'
    BY DEF M!Pins, M!FailsToPin, M!Fault, M!NoFault
  <2>3. file' = file
    BY DEF M!Fails
  <2>4. \/ /\ pin' = M!Want
           /\ script'.at = "routes" /\ script'.what = script.what /\ script'.then = script.then
           /\ script'.tun = script.tun /\ script'.net = script.net /\ script' \in MacJobs
        \/ /\ pin' = "none" /\ "refused" \in pardoned'
           /\ script'.at = "untie" /\ script'.what = script.what /\ script'.then = script.then
           /\ script'.tun = script.tun /\ script'.net = script.net /\ script' \in MacJobs
    BY MacMoves, MacSteps DEF M!Pins, M!FailsToPin, M!Fails, M!Fault, MacInv
  <2>5. /\ user' = user /\ service' = service /\ owner' = owner /\ monitor' = monitor
        /\ daemons' = daemons /\ born' = born /\ dns' = dns /\ holes' = holes /\ proxy' = proxy
        /\ names' = names /\ record' = record /\ present' = present /\ router' = router
    BY DEF M!splitVars
  <2> QED BY <2>1, <2>2, <2>3, <2>4, <2>5
<1>2. MacTyped'
  BY <1>1 DEF MacInv, MacTyped
<1>3. DnsRecorded'
  BY <1>1 DEF MacInv, TunnelInv, DnsRecorded, Honest
<1>4. DaemonRecorded'
  BY <1>1 DEF MacInv, TunnelInv, DaemonRecorded
<1>5. PinRecorded'
  BY <1>1 DEF MacInv, TunnelInv, PinRecorded, JobsFile, Setting
<1>6. HolesRecorded'
  BY <1>1 DEF MacInv, TunnelInv, HolesRecorded
<1>7. FileWhole'
  BY <1>1 DEF MacInv, TunnelInv, FileWhole
<1>8. ListsOwn'
  BY <1>1 DEF MacInv, TunnelInv, ListsOwn, Honest
<1>9. Placed'
  BY <1>1 DEF MacInv, TunnelInv, Placed, Setting
<1>10. MonitorsFile'
  BY <1>1 DEF MacInv, TunnelInv, MonitorsFile
<1>11. MonitorUndoes'
  BY <1>1 DEF MacInv, TunnelInv, MonitorUndoes, Placed, Setting, Undoing
<1>12. MonitorSets'
  BY <1>1 DEF MacInv, TunnelInv, MonitorSets, Honest
<1>13. JobsFile'
  BY <1>1 DEF MacInv, TunnelInv, JobsFile, Setting
<1>14. JobUndoes'
  BY <1>1 DEF JobUndoes, Undoing
<1>15. UpFollows'
  BY <1>1 DEF MacInv, TunnelInv, UpFollows, M!Want
<1>16. MonitorFollows'
  BY <1>1 DEF MacInv, TunnelInv, MonitorFollows, Placed, Setting
<1>17. NamesKnown'
  BY <1>1 DEF MacInv, NamesKnown, NamesLost
<1> QED
  BY <1>2, <1>3, <1>4, <1>5, <1>6, <1>7, <1>8, <1>9, <1>10, <1>11, <1>12, <1>13, <1>14, <1>15, <1>16, <1>17
     DEF MacInv, TunnelInv

LEMMA MacTakesTrafficKeeps ==
  ASSUME MacInv, M!TakesTraffic
  PROVE  MacInv'
<1>1. /\ script.at = "routes"
      /\ \/ /\ file' = file
            /\ script'.at = "untie" /\ script'.what = script.what /\ script'.then = script.then
            /\ script'.tun = script.tun /\ script'.net = script.net /\ script' \in MacJobs
         \/ /\ file' = script.tun
            /\ script'.at = "dns" /\ script'.what = script.what /\ script'.then = script.then
            /\ script'.tun = script.tun /\ script'.net = script.net /\ script' \in MacJobs
      /\ user' = user /\ service' = service /\ owner' = owner /\ monitor' = monitor
      /\ daemons' = daemons /\ born' = born /\ dns' = dns /\ pin' = pin /\ holes' = holes
      /\ proxy' = proxy /\ names' = names /\ record' = record /\ present' = present /\ router' = router
      /\ pardoned' = pardoned
  <2> USE DEF M!TakesTraffic
  <2>1. script.at = "routes"
    OBVIOUS
  <2>2. \/ /\ file' = file
           /\ script'.at = "untie" /\ script'.what = script.what /\ script'.then = script.then
           /\ script'.tun = script.tun /\ script'.net = script.net /\ script' \in MacJobs
        \/ /\ file' = script.tun
           /\ script'.at = "dns" /\ script'.what = script.what /\ script'.then = script.then
           /\ script'.tun = script.tun /\ script'.net = script.net /\ script' \in MacJobs
    <3>1. CASE script.tun.pid \in daemons
      <4>1. script.tun \in MacStates /\ M!Records(script.tun, "dns") BY <3>1, MacFields DEF MacInv
      <4> HIDE DEF M!TakesTraffic
      <4> QED BY <4>1, MacRecords, MacSteps DEF MacInv
    <3>2. CASE script.tun.pid \notin daemons
      <4>1. M!Moves("untie") /\ file' = file BY <3>2 DEF M!Fails
      <4> HIDE DEF M!TakesTraffic
      <4> QED BY <4>1, MacMoves, MacSteps DEF MacInv
    <3> QED BY <3>1, <3>2
  <2>3. /\ user' = user /\ service' = service /\ owner' = owner /\ monitor' = monitor
        /\ daemons' = daemons /\ born' = born /\ dns' = dns /\ pin' = pin /\ holes' = holes
        /\ proxy' = proxy /\ names' = names /\ record' = record /\ present' = present
        /\ router' = router /\ pardoned' = pardoned
    BY DEF M!systemVars, M!splitVars, M!envVars
  <2> QED BY <2>1, <2>2, <2>3
<1>2. MacTyped'
  BY <1>1 DEF MacInv, MacTyped, MacJobs
<1>3. DnsRecorded'
  BY <1>1 DEF MacInv, TunnelInv, DnsRecorded, JobsFile, Honest, Setting
<1>4. DaemonRecorded'
  BY <1>1 DEF MacInv, TunnelInv, DaemonRecorded, JobsFile, Setting
<1>5. PinRecorded'
  BY <1>1 DEF MacInv, TunnelInv, PinRecorded, JobsFile
<1>6. HolesRecorded'
  BY <1>1 DEF MacInv, TunnelInv, HolesRecorded, JobsFile, Setting
<1>7. FileWhole'
  BY <1>1 DEF MacInv, TunnelInv, FileWhole, JobsFile, Setting
<1>8. ListsOwn'
  BY <1>1 DEF MacInv, TunnelInv, ListsOwn, Honest
<1>9. Placed'
  BY <1>1 DEF MacInv, TunnelInv, Placed, Setting
<1>10. MonitorsFile'
  BY <1>1 DEF MacInv, TunnelInv, MonitorsFile, JobsFile, Setting
<1>11. MonitorUndoes'
  BY <1>1 DEF MacInv, TunnelInv, MonitorUndoes, Honest, OwnDns, NoHoles
<1>12. MonitorSets'
  BY <1>1 DEF MacInv, TunnelInv, MonitorSets, Honest
<1>13. JobsFile'
  BY <1>1 DEF MacInv, TunnelInv, JobsFile, Setting
<1>14. JobUndoes'
  BY <1>1 DEF JobUndoes, Undoing
<1>15. UpFollows'
  BY <1>1 DEF MacInv, TunnelInv, UpFollows, M!Want, Obeyed
<1>16. MonitorFollows'
  BY <1>1 DEF MacInv, TunnelInv, MonitorFollows, Placed, Setting
<1>17. NamesKnown'
  BY <1>1 DEF MacInv, NamesKnown, NamesLost
<1> QED
  BY <1>2, <1>3, <1>4, <1>5, <1>6, <1>7, <1>8, <1>9, <1>10, <1>11, <1>12, <1>13, <1>14, <1>15, <1>16, <1>17
     DEF MacInv, TunnelInv

LEMMA MacUpListsDnsKeeps ==
  ASSUME MacInv, M!UpListsDns
  PROVE  MacInv'
<1>1. /\ script.at = "dns"
      /\ \/ /\ file' = file /\ (\A x \in present : script.tun.list[x] # "-")
            /\ script'.at = "fork" /\ script'.what = script.what /\ script'.then = script.then
            /\ script'.tun = script.tun /\ script'.net = script.net /\ script' \in MacJobs
         \/ /\ script'.at = "set" /\ script'.what = script.what /\ script'.net \in Networks
            /\ script.tun.list[script'.net] = "-" /\ file' = script'.tun
            /\ script'.tun.pid = script.tun.pid /\ script'.tun.monitor = script.tun.monitor
            /\ script'.tun.black = script.tun.black /\ script'.tun.pinned = script.tun.pinned
            /\ script'.tun.list \in [Networks -> {"-", "own", "vpn"}]
            /\ \A x \in Networks : script'.tun.list[x] = IF x = script'.net THEN dns[x] ELSE script.tun.list[x]
            /\ script' \in MacJobs
      /\ user' = user /\ service' = service /\ owner' = owner /\ monitor' = monitor
      /\ daemons' = daemons /\ born' = born /\ dns' = dns /\ pin' = pin /\ holes' = holes
      /\ proxy' = proxy /\ names' = names /\ record' = record /\ present' = present /\ router' = router
      /\ pardoned' = pardoned
  <2> USE DEF M!UpListsDns
  <2>0. ASSUME M!Unlisted(script.tun) # {}
        PROVE  \E x \in Networks :
                 /\ script'.at = "set" /\ script'.what = script.what /\ script'.net = x /\ script' \in MacJobs
                 /\ script.tun.list[x] = "-" /\ script'.tun = M!Listed(script.tun, x) /\ file' = script'.tun
    <3>1. PICK x \in M!Unlisted(script.tun) :
            /\ file' = M!Listed(script.tun, x)
            /\ script' = [script EXCEPT !.tun = M!Listed(script.tun, x), !.at = "set", !.net = x]
      BY <2>0 DEF M!Saves
    <3>2. x \in Networks /\ script.tun.list[x] = "-" /\ M!Listed(script.tun, x) \in MacStates
      BY MacFields, Listing DEF MacInv, MacTyped, M!Unlisted
    <3> QED BY <3>1, <3>2, MacSteps DEF MacInv, MacTyped, MacJobs, AnyNetwork
  <2>1. script.at = "dns"
    OBVIOUS
  <2>2. \/ /\ file' = file /\ (\A x \in present : script.tun.list[x] # "-")
           /\ script'.at = "fork" /\ script'.what = script.what /\ script'.then = script.then
           /\ script'.tun = script.tun /\ script'.net = script.net /\ script' \in MacJobs
        \/ /\ script'.at = "set" /\ script'.what = script.what /\ script'.net \in Networks
           /\ script.tun.list[script'.net] = "-" /\ file' = script'.tun
           /\ script'.tun.pid = script.tun.pid /\ script'.tun.monitor = script.tun.monitor
           /\ script'.tun.black = script.tun.black /\ script'.tun.pinned = script.tun.pinned
           /\ script'.tun.list \in [Networks -> {"-", "own", "vpn"}]
           /\ \A x \in Networks : script'.tun.list[x] = IF x = script'.net THEN dns[x] ELSE script.tun.list[x]
           /\ script' \in MacJobs
    <3>1. CASE M!Unlisted(script.tun) = {}
      BY <3>1, MacMoves, MacSteps DEF MacInv, M!Unlisted
    <3>2. CASE M!Unlisted(script.tun) # {}
      <4>1. PICK x \in Networks :
                 /\ script'.at = "set" /\ script'.what = script.what /\ script'.net = x /\ script' \in MacJobs
                 /\ script.tun.list[x] = "-" /\ script'.tun = M!Listed(script.tun, x) /\ file' = script'.tun
        BY <2>0, <3>2
      <4>2. script.tun \in MacStates BY MacFields DEF MacInv
      <4> HIDE DEF M!UpListsDns
      <4>3. /\ M!Listed(script.tun, x) \in MacStates
            /\ M!Listed(script.tun, x).pid = script.tun.pid /\ M!Listed(script.tun, x).monitor = script.tun.monitor
            /\ M!Listed(script.tun, x).black = script.tun.black /\ M!Listed(script.tun, x).pinned = script.tun.pinned
            /\ \A y \in Networks : M!Listed(script.tun, x).list[y] = IF y = x THEN dns[y] ELSE script.tun.list[y]
        BY <4>2, Listing DEF MacInv
      <4>4. M!Listed(script.tun, x).list \in [Networks -> {"-", "own", "vpn"}] BY <4>3, StateFields 
      <4> QED BY <4>1, <4>3, <4>4
    <3> QED BY <3>1, <3>2
  <2>3. /\ user' = user /\ service' = service /\ owner' = owner /\ monitor' = monitor
        /\ daemons' = daemons /\ born' = born /\ dns' = dns /\ pin' = pin /\ holes' = holes
        /\ proxy' = proxy /\ names' = names /\ record' = record /\ present' = present
        /\ router' = router /\ pardoned' = pardoned
    BY DEF M!systemVars, M!splitVars, M!envVars
  <2> QED BY <2>1, <2>2, <2>3
<1>2. MacTyped'
  BY <1>1 DEF MacInv, MacTyped, MacJobs
<1>3. DnsRecorded'
  BY <1>1 DEF MacInv, TunnelInv, DnsRecorded, JobsFile, Honest, Setting
<1>4. DaemonRecorded'
  BY <1>1 DEF MacInv, TunnelInv, DaemonRecorded, JobsFile, Setting
<1>5. PinRecorded'
  BY <1>1 DEF MacInv, TunnelInv, PinRecorded, JobsFile
<1>6. HolesRecorded'
  BY <1>1 DEF MacInv, TunnelInv, HolesRecorded, JobsFile, Setting
<1>7. FileWhole'
  BY <1>1 DEF MacInv, TunnelInv, FileWhole, JobsFile, Setting
<1>8. ListsOwn'
  BY <1>1 DEF MacInv, TunnelInv, ListsOwn, DnsRecorded, JobsFile, Honest, Setting
<1>9. Placed'
  BY <1>1 DEF MacInv, TunnelInv, Placed, Setting
<1>10. MonitorsFile'
  BY <1>1 DEF MacInv, TunnelInv, MonitorsFile, Placed, Setting
<1>11. MonitorUndoes'
  BY <1>1 DEF MacInv, TunnelInv, MonitorUndoes, Honest, OwnDns, NoHoles
<1>12. MonitorSets'
  BY <1>1 DEF MacInv, TunnelInv, MonitorSets, Honest
<1>13. JobsFile'
  BY <1>1 DEF MacInv, TunnelInv, JobsFile, DnsRecorded, Setting, Honest, MacTyped
<1>14. JobUndoes'
  BY <1>1 DEF JobUndoes, Undoing
<1>15. UpFollows'
  BY <1>1 DEF MacInv, TunnelInv, UpFollows, M!Want, Obeyed
<1>16. MonitorFollows'
  BY <1>1 DEF MacInv, TunnelInv, MonitorFollows, Placed, Setting
<1>17. NamesKnown'
  BY <1>1 DEF MacInv, NamesKnown, NamesLost
<1> QED
  BY <1>2, <1>3, <1>4, <1>5, <1>6, <1>7, <1>8, <1>9, <1>10, <1>11, <1>12, <1>13, <1>14, <1>15, <1>16, <1>17
     DEF MacInv, TunnelInv

LEMMA MacUpSetsDnsKeeps ==
  ASSUME MacInv, M!UpSetsDns
  PROVE  MacInv'
<1>1. /\ script.at = "set"
      /\ script'.at = "dns" /\ script'.what = script.what /\ script'.then = script.then
      /\ script'.tun = script.tun /\ script'.net = script.net /\ script' \in MacJobs
      /\ pardoned \subseteq pardoned'
      /\ dns' \in [Networks -> {"own", "vpn"}]
      /\ \/ /\ \A x \in Networks : dns'[x] = IF x = script.net THEN "vpn" ELSE dns[x]
         \/ /\ dns' = dns
            /\ "refused" \in pardoned'
      /\ user' = user /\ service' = service /\ owner' = owner /\ file' = file /\ monitor' = monitor
      /\ daemons' = daemons /\ born' = born /\ pin' = pin /\ holes' = holes /\ proxy' = proxy
      /\ names' = names /\ record' = record /\ present' = present /\ router' = router
  <2> USE DEF M!UpSetsDns
  <2>1. script.at = "set"
    OBVIOUS
  <2>2. script'.at = "dns" /\ script'.what = script.what /\ script'.then = script.then
        /\ script'.tun = script.tun /\ script'.net = script.net /\ script' \in MacJobs
    BY MacSteps DEF MacInv, MacTyped, MacJobs, M!Moves
  <2>3. pardoned \subseteq pardoned'
    BY DEF M!SetsDns, M!Fault, M!NoFault
  <2>4. dns' \in [Networks -> {"own", "vpn"}]
    BY DEF M!SetsDns, MacInv, MacTyped
  <2>5. \/ /\ \A x \in Networks : dns'[x] = IF x = script.net THEN "vpn" ELSE dns[x]
        \/ /\ dns' = dns
           /\ "refused" \in pardoned'
    BY DEF M!SetsDns, M!Fault, MacInv, MacTyped
  <2>6. /\ user' = user /\ service' = service /\ owner' = owner /\ file' = file
        /\ monitor' = monitor /\ daemons' = daemons /\ born' = born /\ pin' = pin
        /\ holes' = holes /\ proxy' = proxy /\ names' = names /\ record' = record
        /\ present' = present /\ router' = router
    BY DEF M!splitVars
  <2> QED BY <2>1, <2>2, <2>3, <2>4, <2>5, <2>6
<1>2. MacTyped'
  BY <1>1 DEF MacInv, MacTyped
<1>3. DnsRecorded'
  BY <1>1 DEF MacInv, TunnelInv, DnsRecorded, JobsFile, Honest, Setting
<1>4. DaemonRecorded'
  BY <1>1 DEF MacInv, TunnelInv, DaemonRecorded
<1>5. PinRecorded'
  BY <1>1 DEF MacInv, TunnelInv, PinRecorded
<1>6. HolesRecorded'
  BY <1>1 DEF MacInv, TunnelInv, HolesRecorded
<1>7. FileWhole'
  BY <1>1 DEF MacInv, TunnelInv, FileWhole
<1>8. ListsOwn'
  BY <1>1 DEF MacInv, TunnelInv, ListsOwn, Honest
<1>9. Placed'
  BY <1>1 DEF MacInv, TunnelInv, Placed, Setting
<1>10. MonitorsFile'
  BY <1>1 DEF MacInv, TunnelInv, MonitorsFile
<1>11. MonitorUndoes'
  BY <1>1 DEF MacInv, TunnelInv, MonitorUndoes, Placed, Setting, Undoing
<1>12. MonitorSets'
  BY <1>1 DEF MacInv, TunnelInv, MonitorSets, Honest
<1>13. JobsFile'
  BY <1>1 DEF MacInv, TunnelInv, JobsFile, Setting
<1>14. JobUndoes'
  BY <1>1 DEF JobUndoes, Undoing
<1>15. UpFollows'
  BY <1>1 DEF MacInv, TunnelInv, UpFollows, M!Want, Obeyed
<1>16. MonitorFollows'
  BY <1>1 DEF MacInv, TunnelInv, MonitorFollows, Placed, Setting
<1>17. NamesKnown'
  BY <1>1 DEF MacInv, NamesKnown, NamesLost
<1> QED
  BY <1>2, <1>3, <1>4, <1>5, <1>6, <1>7, <1>8, <1>9, <1>10, <1>11, <1>12, <1>13, <1>14, <1>15, <1>16, <1>17
     DEF MacInv, TunnelInv

LEMMA MacForksKeeps ==
  ASSUME MacInv, M!Forks
  PROVE  MacInv'
<1>1. /\ script.at = "fork"
      /\ monitor'.at = "watch" /\ monitor'.tun = script.tun /\ monitor'.net = M!NoMonitor.net
      /\ monitor'.news = FALSE /\ monitor' \in Monitors
      /\ script'.at = "final" /\ script'.what = script.what /\ script'.then = script.then
      /\ script'.tun = script.tun /\ script'.net = script.net /\ script' \in MacJobs
      /\ user' = user /\ service' = service /\ owner' = owner /\ file' = file /\ daemons' = daemons
      /\ born' = born /\ dns' = dns /\ pin' = pin /\ holes' = holes /\ proxy' = proxy /\ names' = names
      /\ record' = record /\ present' = present /\ router' = router /\ pardoned' = pardoned
  <2> USE DEF M!Forks
  <2>1. script.at = "fork"
    OBVIOUS
  <2>2. monitor'.at = "watch" /\ monitor'.tun = script.tun /\ monitor'.net = M!NoMonitor.net
        /\ monitor'.news = FALSE /\ monitor' \in Monitors
    <3>1. monitor' = [M!NoMonitor EXCEPT !.at = "watch", !.tun = script.tun] OBVIOUS
    <3>2. script.tun \in MacStates /\ M!NoMonitor \in Monitors /\ M!NoMonitor.news = FALSE
      BY MacFields, MacNone DEF MacInv, M!NoMonitor
    <3> HIDE DEF M!Forks
    <3> QED BY <3>1, <3>2 DEF Monitors
  <2>3. script'.at = "final" /\ script'.what = script.what /\ script'.then = script.then
        /\ script'.tun = script.tun /\ script'.net = script.net /\ script' \in MacJobs
    BY MacMoves, MacSteps DEF MacInv
  <2>4. /\ user' = user /\ service' = service /\ owner' = owner /\ file' = file
        /\ daemons' = daemons /\ born' = born /\ dns' = dns /\ pin' = pin /\ holes' = holes
        /\ proxy' = proxy /\ names' = names /\ record' = record /\ present' = present
        /\ router' = router /\ pardoned' = pardoned
    BY DEF M!systemVars, M!splitVars, M!envVars
  <2> QED BY <2>1, <2>2, <2>3, <2>4
<1>2. MacTyped'
  BY <1>1 DEF MacInv, MacTyped
<1>3. DnsRecorded'
  BY <1>1 DEF MacInv, TunnelInv, DnsRecorded, Honest
<1>4. DaemonRecorded'
  BY <1>1 DEF MacInv, TunnelInv, DaemonRecorded
<1>5. PinRecorded'
  BY <1>1 DEF MacInv, TunnelInv, PinRecorded
<1>6. HolesRecorded'
  BY <1>1 DEF MacInv, TunnelInv, HolesRecorded, Placed, Setting
<1>7. FileWhole'
  BY <1>1 DEF MacInv, TunnelInv, FileWhole
<1>8. ListsOwn'
  BY <1>1 DEF MacInv, TunnelInv, ListsOwn, Honest
<1>9. Placed'
  BY <1>1 DEF MacInv, TunnelInv, Placed, Setting, Undoing
<1>10. MonitorsFile'
  BY <1>1 DEF MacInv, TunnelInv, MonitorsFile, JobsFile, Setting
<1>11. MonitorUndoes'
  BY <1>1 DEF MonitorUndoes, Undoing
<1>12. MonitorSets'
  BY <1>1 DEF MonitorSets
<1>13. JobsFile'
  BY <1>1 DEF MacInv, TunnelInv, JobsFile, Setting
<1>14. JobUndoes'
  BY <1>1 DEF JobUndoes, Undoing
<1>15. UpFollows'
  BY <1>1 DEF UpFollows
<1>16. MonitorFollows'
  BY <1>1 DEF MacInv, TunnelInv, MonitorFollows, UpFollows, M!Want, Obeyed
<1>17. NamesKnown'
  BY <1>1 DEF MacInv, NamesKnown, NamesLost
<1> QED
  BY <1>2, <1>3, <1>4, <1>5, <1>6, <1>7, <1>8, <1>9, <1>10, <1>11, <1>12, <1>13, <1>14, <1>15, <1>16, <1>17
     DEF MacInv, TunnelInv

LEMMA MacFinishesKeeps ==
  ASSUME MacInv, M!Finishes
  PROVE  MacInv'
<1>1. /\ script.at = "final"
      /\ pardoned \subseteq pardoned'
      /\ (file.black => "window" \in pardoned')
      /\ file' \in MacStates /\ file'.pid = script.tun.pid /\ file'.list = script.tun.list
      /\ file'.pinned = script.tun.pinned /\ file'.black = script.tun.black /\ file'.monitor
      /\ \/ /\ script' = M!NoJob
         \/ /\ script'.at = "attach" /\ script'.what = script.what /\ script'.then = script.then
            /\ script'.tun = script.tun /\ script'.net = script.net /\ script' \in MacJobs
      /\ user' = user /\ service' = service /\ owner' = owner /\ monitor' = monitor
      /\ daemons' = daemons /\ born' = born /\ dns' = dns /\ pin' = pin /\ holes' = holes
      /\ proxy' = proxy /\ names' = names /\ record' = record /\ present' = present /\ router' = router
  <2> USE DEF M!Finishes
  <2>1. script.at = "final"
    OBVIOUS
  <2>2. pardoned \subseteq pardoned'
    OBVIOUS
  <2>3. (file.black => "window" \in pardoned')
    OBVIOUS
  <2>4. file' \in MacStates /\ file'.pid = script.tun.pid /\ file'.list = script.tun.list
        /\ file'.pinned = script.tun.pinned /\ file'.black = script.tun.black /\ file'.monitor
    BY MacFields DEF M!Saves, MacInv, MacStates
  <2>5. \/ /\ script' = M!NoJob
        \/ /\ script'.at = "attach" /\ script'.what = script.what /\ script'.then = script.then
           /\ script'.tun = script.tun /\ script'.net = script.net /\ script' \in MacJobs
    BY MacSteps DEF MacInv, MacTyped, MacJobs, M!Moves
  <2>6. /\ user' = user /\ service' = service /\ owner' = owner /\ monitor' = monitor
        /\ daemons' = daemons /\ born' = born /\ dns' = dns /\ pin' = pin /\ holes' = holes
        /\ proxy' = proxy /\ names' = names /\ record' = record /\ present' = present
        /\ router' = router
    BY DEF M!systemVars, M!splitVars, M!envVars
  <2> QED BY <2>1, <2>2, <2>3, <2>4, <2>5, <2>6
<1>2. MacTyped'
  BY <1>1, MacNone DEF MacInv, MacTyped
<1>3. DnsRecorded'
  BY <1>1 DEF MacInv, TunnelInv, DnsRecorded, JobsFile, Honest, OwnDns, Clear
<1>4. DaemonRecorded'
  BY <1>1 DEF MacInv, TunnelInv, DaemonRecorded, JobsFile, Clear
<1>5. PinRecorded'
  BY <1>1 DEF MacInv, TunnelInv, PinRecorded, JobsFile
<1>6. HolesRecorded'
  BY <1>1 DEF MacInv, TunnelInv, HolesRecorded
<1>7. FileWhole'
  BY <1>1 DEF MacInv, TunnelInv, FileWhole, JobsFile
<1>8. ListsOwn'
  BY <1>1, MacNone DEF MacInv, TunnelInv, ListsOwn, Honest
<1>9. Placed'
  BY <1>1, MacNone DEF MacInv, TunnelInv, Placed, Setting, Undoing
<1>10. MonitorsFile'
  BY <1>1, MacFields, StateFields DEF MacInv, TunnelInv, MonitorsFile, JobsFile
<1>11. MonitorUndoes'
  BY <1>1 DEF MacInv, TunnelInv, MonitorUndoes, Honest, OwnDns, NoHoles
<1>12. MonitorSets'
  BY <1>1 DEF MacInv, TunnelInv, MonitorSets, Honest
<1>13. JobsFile'
  BY <1>1, MacNone DEF JobsFile, Setting
<1>14. JobUndoes'
  BY <1>1, MacNone DEF JobUndoes, Undoing
<1>15. UpFollows'
  BY <1>1, MacNone DEF UpFollows
<1>16. MonitorFollows'
  BY <1>1 DEF MacInv, TunnelInv, MonitorFollows, M!Want, Obeyed
<1>17. NamesKnown'
  BY <1>1 DEF MacInv, NamesKnown, NamesLost
<1> QED
  BY <1>2, <1>3, <1>4, <1>5, <1>6, <1>7, <1>8, <1>9, <1>10, <1>11, <1>12, <1>13, <1>14, <1>15, <1>16, <1>17
     DEF MacInv, TunnelInv

LEMMA MacTimesOutKeeps ==
  ASSUME MacInv, M!TimesOut
  PROVE  MacInv'
<1>1. /\ script.at \in {"untie", "unroute", "stop", "iface", "pin", "routes", "set"}
      /\ pardoned \subseteq pardoned'
      /\ "timeout" \in pardoned'
      /\ \/ /\ script'.at = "split" /\ script'.what = script.what /\ script'.then = script.then
            /\ script'.tun = script.tun /\ script'.net = script.net /\ script' \in MacJobs
         \/ /\ script'.at = "end" /\ script'.what = script.what /\ script'.then = script.then
            /\ script'.tun = script.tun /\ script'.net = script.net /\ script' \in MacJobs
      /\ dns' \in [Networks -> {"own", "vpn"}]
      /\ \/ /\ dns' = dns
            /\ pin' = pin
         \/ /\ script.at = "set"
            /\ pin' = pin
            /\ \A x \in Networks : dns'[x] = IF x = script.net THEN "vpn" ELSE dns[x]
         \/ /\ script.at = "pin"
            /\ dns' = dns
      /\ user' = user /\ service' = service /\ owner' = owner /\ file' = file /\ monitor' = monitor
      /\ daemons' = daemons /\ born' = born /\ holes' = holes /\ proxy' = proxy /\ names' = names
      /\ record' = record /\ present' = present /\ router' = router
  <2> USE DEF M!TimesOut
  <2>1. script.at \in {"untie", "unroute", "stop", "iface", "pin", "routes", "set"}
    OBVIOUS
  <2>2. pardoned \subseteq pardoned'
    BY DEF M!Fault
  <2>3. "timeout" \in pardoned'
    BY DEF M!Fault
  <2>4. \/ /\ script'.at = "split" /\ script'.what = script.what /\ script'.then = script.then
           /\ script'.tun = script.tun /\ script'.net = script.net /\ script' \in MacJobs
        \/ /\ script'.at = "end" /\ script'.what = script.what /\ script'.then = script.then
           /\ script'.tun = script.tun /\ script'.net = script.net /\ script' \in MacJobs
    BY MacSteps DEF MacInv, MacTyped, MacJobs, M!Moves
  <2>5. dns' \in [Networks -> {"own", "vpn"}]
    BY DEF MacInv, MacTyped
  <2>6. \/ /\ dns' = dns
           /\ pin' = pin
        \/ /\ script.at = "set"
           /\ pin' = pin
           /\ \A x \in Networks : dns'[x] = IF x = script.net THEN "vpn" ELSE dns[x]
        \/ /\ script.at = "pin"
           /\ dns' = dns
    BY DEF MacInv, MacTyped
  <2>7. /\ user' = user /\ service' = service /\ owner' = owner /\ file' = file
        /\ monitor' = monitor /\ daemons' = daemons /\ born' = born /\ holes' = holes
        /\ proxy' = proxy /\ names' = names /\ record' = record /\ present' = present
        /\ router' = router
    BY DEF M!splitVars
  <2> QED BY <2>1, <2>2, <2>3, <2>4, <2>5, <2>6, <2>7
<1>2. MacTyped'
  BY <1>1 DEF MacInv, MacTyped
<1>3. DnsRecorded'
  BY <1>1 DEF MacInv, TunnelInv, DnsRecorded, JobsFile, Honest, Setting
<1>4. DaemonRecorded'
  BY <1>1 DEF MacInv, TunnelInv, DaemonRecorded
<1>5. PinRecorded'
  BY <1>1 DEF MacInv, TunnelInv, PinRecorded, JobsFile, Setting
<1>6. HolesRecorded'
  BY <1>1 DEF MacInv, TunnelInv, HolesRecorded
<1>7. FileWhole'
  BY <1>1 DEF MacInv, TunnelInv, FileWhole
<1>8. ListsOwn'
  BY <1>1 DEF MacInv, TunnelInv, ListsOwn, Honest
<1>9. Placed'
  BY <1>1 DEF MacInv, TunnelInv, Placed, Setting, Undoing
<1>10. MonitorsFile'
  BY <1>1 DEF MacInv, TunnelInv, MonitorsFile
<1>11. MonitorUndoes'
  BY <1>1 DEF MacInv, TunnelInv, MonitorUndoes, Placed, Honest, OwnDns, NoHoles, Setting, Undoing
<1>12. MonitorSets'
  BY <1>1 DEF MacInv, TunnelInv, MonitorSets, Honest
<1>13. JobsFile'
  BY <1>1 DEF JobsFile, Setting
<1>14. JobUndoes'
  BY <1>1 DEF JobUndoes, Undoing
<1>15. UpFollows'
  BY <1>1 DEF UpFollows
<1>16. MonitorFollows'
  BY <1>1 DEF MacInv, TunnelInv, MonitorFollows, Placed, M!Want, Setting, Obeyed
<1>17. NamesKnown'
  BY <1>1 DEF MacInv, NamesKnown, NamesLost
<1> QED
  BY <1>2, <1>3, <1>4, <1>5, <1>6, <1>7, <1>8, <1>9, <1>10, <1>11, <1>12, <1>13, <1>14, <1>15, <1>16, <1>17
     DEF MacInv, TunnelInv

LEMMA MacMonitorLeavesKeeps ==
  ASSUME MacInv, M!MonitorLeaves
  PROVE  MacInv'
<1>1. /\ monitor.at = "watch"
      /\ monitor'.at = "untie" /\ monitor'.tun = monitor.tun /\ monitor'.net = monitor.net
      /\ monitor'.news = monitor.news /\ monitor' \in Monitors
      /\ user' = user /\ service' = service /\ owner' = owner /\ script' = script /\ file' = file
      /\ daemons' = daemons /\ born' = born /\ dns' = dns /\ pin' = pin /\ holes' = holes
      /\ proxy' = proxy /\ names' = names /\ record' = record /\ present' = present /\ router' = router
      /\ pardoned' = pardoned
  <2> USE DEF M!MonitorLeaves
  <2>1. monitor.at = "watch"
    OBVIOUS
  <2>2. monitor'.at = "untie" /\ monitor'.tun = monitor.tun /\ monitor'.net = monitor.net
        /\ monitor'.news = monitor.news /\ monitor' \in Monitors
    BY MacSteps, MacWatches DEF MacInv
  <2>3. /\ user' = user /\ service' = service /\ owner' = owner /\ script' = script
        /\ file' = file /\ daemons' = daemons /\ born' = born /\ dns' = dns /\ pin' = pin
        /\ holes' = holes /\ proxy' = proxy /\ names' = names /\ record' = record
        /\ present' = present /\ router' = router /\ pardoned' = pardoned
    BY DEF M!systemVars, M!splitVars, M!envVars
  <2> QED BY <2>1, <2>2, <2>3
<1>2. MacTyped'
  BY <1>1 DEF MacInv, MacTyped
<1>3. DnsRecorded'
  BY <1>1 DEF MacInv, TunnelInv, DnsRecorded, Honest
<1>4. DaemonRecorded'
  BY <1>1 DEF MacInv, TunnelInv, DaemonRecorded
<1>5. PinRecorded'
  BY <1>1 DEF MacInv, TunnelInv, PinRecorded
<1>6. HolesRecorded'
  BY <1>1 DEF MacInv, TunnelInv, HolesRecorded
<1>7. FileWhole'
  BY <1>1 DEF MacInv, TunnelInv, FileWhole
<1>8. ListsOwn'
  BY <1>1 DEF MacInv, TunnelInv, ListsOwn, Honest
<1>9. Placed'
  BY <1>1 DEF MacInv, TunnelInv, Placed
<1>10. MonitorsFile'
  BY <1>1 DEF MacInv, TunnelInv, MonitorsFile
<1>11. MonitorUndoes'
  BY <1>1 DEF MonitorUndoes, Undoing
<1>12. MonitorSets'
  BY <1>1 DEF MonitorSets
<1>13. JobsFile'
  BY <1>1 DEF MacInv, TunnelInv, JobsFile, Honest
<1>14. JobUndoes'
  BY <1>1 DEF MacInv, TunnelInv, JobUndoes, Honest, OwnDns, NoHoles
<1>15. UpFollows'
  BY <1>1 DEF MacInv, TunnelInv, UpFollows, Placed, Setting
<1>16. MonitorFollows'
  BY <1>1 DEF MonitorFollows
<1>17. NamesKnown'
  BY <1>1 DEF MacInv, NamesKnown, NamesLost
<1> QED
  BY <1>2, <1>3, <1>4, <1>5, <1>6, <1>7, <1>8, <1>9, <1>10, <1>11, <1>12, <1>13, <1>14, <1>15, <1>16, <1>17
     DEF MacInv, TunnelInv

LEMMA MacMonitorUntiesKeeps ==
  ASSUME MacInv, M!MonitorUnties
  PROVE  MacInv'
<1>1. /\ monitor.at = "untie"
      /\ monitor'.at = "unroute" /\ monitor'.tun = monitor.tun /\ monitor'.net = monitor.net
      /\ monitor'.news = monitor.news /\ monitor' \in Monitors
      /\ pardoned \subseteq pardoned'
      /\ dns' \in [Networks -> {"own", "vpn"}]
      /\ \/ /\ "refused" \in pardoned'
         \/ /\ \A x \in Networks : dns'[x] = IF monitor.tun.list[x] = "-" THEN dns[x] ELSE monitor.tun.list[x]
      /\ user' = user /\ service' = service /\ owner' = owner /\ script' = script /\ file' = file
      /\ daemons' = daemons /\ born' = born /\ pin' = pin /\ holes' = holes /\ proxy' = proxy
      /\ names' = names /\ record' = record /\ present' = present /\ router' = router
  <2> USE DEF M!MonitorUnties
  <2>0. /\ dns' \in [Networks -> {"own", "vpn"}] /\ pardoned \subseteq pardoned'
        /\ \/ "refused" \in pardoned'
           \/ \A x \in Networks : dns'[x] = IF monitor.tun.list[x] = "-" THEN dns[x] ELSE monitor.tun.list[x]
    <3>1. monitor.tun \in MacStates BY MacFields DEF MacInv
    <3>2. PICK lost : M!PutsBack(monitor.tun, lost) OBVIOUS
    <3> HIDE DEF M!MonitorUnties
    <3> QED BY <3>1, <3>2, PuttingBack DEF MacInv
  <2>1. monitor.at = "untie"
    OBVIOUS
  <2>2. monitor'.at = "unroute" /\ monitor'.tun = monitor.tun /\ monitor'.net = monitor.net
        /\ monitor'.news = monitor.news /\ monitor' \in Monitors
    BY MacSteps DEF MacInv, MacTyped, Monitors, M!Watches
  <2>3. pardoned \subseteq pardoned'
    BY DEF M!PutsBack, M!Fault
  <2>4. dns' \in [Networks -> {"own", "vpn"}]
    BY <2>0
  <2>5. \/ /\ "refused" \in pardoned'
        \/ /\ \A x \in Networks : dns'[x] = IF monitor.tun.list[x] = "-" THEN dns[x] ELSE monitor.tun.list[x]
    BY <2>0
  <2>6. /\ user' = user /\ service' = service /\ owner' = owner /\ script' = script
        /\ file' = file /\ daemons' = daemons /\ born' = born /\ pin' = pin /\ holes' = holes
        /\ proxy' = proxy /\ names' = names /\ record' = record /\ present' = present
        /\ router' = router
    BY DEF M!splitVars
  <2> QED BY <2>1, <2>2, <2>3, <2>4, <2>5, <2>6
<1>2. MacTyped'
  BY <1>1 DEF MacInv, MacTyped
<1>3. DnsRecorded'
  BY <1>1 DEF MacInv, TunnelInv, DnsRecorded, ListsOwn, Honest
<1>4. DaemonRecorded'
  BY <1>1 DEF MacInv, TunnelInv, DaemonRecorded
<1>5. PinRecorded'
  BY <1>1 DEF MacInv, TunnelInv, PinRecorded
<1>6. HolesRecorded'
  BY <1>1 DEF MacInv, TunnelInv, HolesRecorded
<1>7. FileWhole'
  BY <1>1 DEF MacInv, TunnelInv, FileWhole
<1>8. ListsOwn'
  BY <1>1 DEF MacInv, TunnelInv, ListsOwn, Honest
<1>9. Placed'
  BY <1>1 DEF MacInv, TunnelInv, Placed
<1>10. MonitorsFile'
  BY <1>1 DEF MacInv, TunnelInv, MonitorsFile
<1>11. MonitorUndoes'
  BY <1>1 DEF MacInv, TunnelInv, MonitorUndoes, DnsRecorded, ListsOwn, MonitorsFile, Honest, OwnDns
<1>12. MonitorSets'
  BY <1>1 DEF MonitorSets
<1>13. JobsFile'
  BY <1>1 DEF MacInv, TunnelInv, JobsFile, Honest
<1>14. JobUndoes'
  BY <1>1 DEF MacInv, TunnelInv, JobUndoes, Placed, Undoing
<1>15. UpFollows'
  BY <1>1 DEF MacInv, TunnelInv, UpFollows, Placed, Setting
<1>16. MonitorFollows'
  BY <1>1 DEF MonitorFollows
<1>17. NamesKnown'
  BY <1>1 DEF MacInv, NamesKnown, NamesLost
<1> QED
  BY <1>2, <1>3, <1>4, <1>5, <1>6, <1>7, <1>8, <1>9, <1>10, <1>11, <1>12, <1>13, <1>14, <1>15, <1>16, <1>17
     DEF MacInv, TunnelInv

LEMMA MacMonitorUnroutesKeeps ==
  ASSUME MacInv, M!MonitorUnroutes
  PROVE  MacInv'
<1>1. /\ monitor.at = "unroute"
      /\ monitor'.at = "stop" /\ monitor'.tun = monitor.tun /\ monitor'.net = monitor.net
      /\ monitor'.news = monitor.news /\ monitor' \in Monitors
      /\ holes' = (holes /\ ~monitor.tun.black)
      /\ pin' = IF monitor.tun.pinned THEN "none" ELSE pin
      /\ user' = user /\ service' = service /\ owner' = owner /\ script' = script /\ file' = file
      /\ daemons' = daemons /\ born' = born /\ dns' = dns /\ proxy' = proxy /\ names' = names
      /\ record' = record /\ present' = present /\ router' = router /\ pardoned' = pardoned
  <2> USE DEF M!MonitorUnroutes
  <2>1. monitor.at = "unroute"
    OBVIOUS
  <2>2. monitor'.at = "stop" /\ monitor'.tun = monitor.tun /\ monitor'.net = monitor.net
        /\ monitor'.news = monitor.news /\ monitor' \in Monitors
    BY MacSteps DEF MacInv, MacTyped, Monitors, M!Watches
  <2>3. holes' = (holes /\ ~monitor.tun.black)
    BY DEF M!Unroutes
  <2>4. pin' = IF monitor.tun.pinned THEN "none" ELSE pin
    BY DEF M!Unroutes
  <2>5. /\ user' = user /\ service' = service /\ owner' = owner /\ script' = script
        /\ file' = file /\ daemons' = daemons /\ born' = born /\ dns' = dns /\ proxy' = proxy
        /\ names' = names /\ record' = record /\ present' = present /\ router' = router
        /\ pardoned' = pardoned
    BY DEF M!splitVars, M!envVars
  <2> QED BY <2>1, <2>2, <2>3, <2>4, <2>5
<1>2. MacTyped'
  BY <1>1 DEF MacInv, MacTyped
<1>3. DnsRecorded'
  BY <1>1 DEF MacInv, TunnelInv, DnsRecorded, Honest
<1>4. DaemonRecorded'
  BY <1>1 DEF MacInv, TunnelInv, DaemonRecorded
<1>5. PinRecorded'
  BY <1>1 DEF MacInv, TunnelInv, PinRecorded
<1>6. HolesRecorded'
  BY <1>1 DEF MacInv, TunnelInv, HolesRecorded
<1>7. FileWhole'
  BY <1>1 DEF MacInv, TunnelInv, FileWhole
<1>8. ListsOwn'
  BY <1>1 DEF MacInv, TunnelInv, ListsOwn, Honest
<1>9. Placed'
  BY <1>1 DEF MacInv, TunnelInv, Placed
<1>10. MonitorsFile'
  BY <1>1 DEF MacInv, TunnelInv, MonitorsFile
<1>11. MonitorUndoes'
  BY <1>1 DEF MacInv, TunnelInv, MonitorUndoes, HolesRecorded, MonitorsFile, Honest, OwnDns, NoHoles, Undoing
<1>12. MonitorSets'
  BY <1>1 DEF MonitorSets
<1>13. JobsFile'
  BY <1>1 DEF MacInv, TunnelInv, JobsFile, Honest
<1>14. JobUndoes'
  BY <1>1 DEF MacInv, TunnelInv, JobUndoes, Honest, OwnDns, NoHoles
<1>15. UpFollows'
  BY <1>1 DEF MacInv, TunnelInv, UpFollows, Placed, Setting
<1>16. MonitorFollows'
  BY <1>1 DEF MonitorFollows
<1>17. NamesKnown'
  BY <1>1 DEF MacInv, NamesKnown, NamesLost
<1> QED
  BY <1>2, <1>3, <1>4, <1>5, <1>6, <1>7, <1>8, <1>9, <1>10, <1>11, <1>12, <1>13, <1>14, <1>15, <1>16, <1>17
     DEF MacInv, TunnelInv

LEMMA MacMonitorStopsKeeps ==
  ASSUME MacInv, M!MonitorStops
  PROVE  MacInv'
<1>1. /\ monitor.at = "stop"
      /\ monitor'.at = "forget" /\ monitor'.tun = monitor.tun /\ monitor'.net = monitor.net
      /\ monitor'.news = monitor.news /\ monitor' \in Monitors
      /\ daemons' = daemons \ {monitor.tun.pid}
      /\ names'.tracked = names.tracked /\ names' \in [tracked : BOOLEAN, kernel : {"none", "laid", "hole"}]
      /\ names'.kernel = names.kernel \/ names'.kernel = "none"
      /\ user' = user /\ service' = service /\ owner' = owner /\ script' = script /\ file' = file
      /\ born' = born /\ dns' = dns /\ pin' = pin /\ holes' = holes /\ proxy' = proxy
      /\ record' = record /\ present' = present /\ router' = router /\ pardoned' = pardoned
  <2> USE DEF M!MonitorStops
  <2>1. monitor.at = "stop"
    OBVIOUS
  <2>2. monitor'.at = "forget" /\ monitor'.tun = monitor.tun /\ monitor'.net = monitor.net
        /\ monitor'.news = monitor.news /\ monitor' \in Monitors
    BY MacSteps DEF MacInv, MacTyped, Monitors, M!Watches
  <2>3. daemons' = daemons \ {monitor.tun.pid}
    BY DEF M!Ends
  <2>4. /\ names'.tracked = names.tracked /\ names' \in [tracked : BOOLEAN, kernel : {"none", "laid", "hole"}]
        /\ names'.kernel = names.kernel \/ names'.kernel = "none"
    BY DEF M!Ends, MacInv, MacTyped
  <2>5. /\ user' = user /\ service' = service /\ owner' = owner /\ script' = script
        /\ file' = file /\ born' = born /\ dns' = dns /\ pin' = pin /\ holes' = holes
        /\ proxy' = proxy /\ record' = record /\ present' = present /\ router' = router
        /\ pardoned' = pardoned
    BY DEF M!envVars
  <2> QED BY <2>1, <2>2, <2>3, <2>4, <2>5
<1>2. MacTyped'
  BY <1>1 DEF MacInv, MacTyped
<1>3. DnsRecorded'
  BY <1>1 DEF MacInv, TunnelInv, DnsRecorded, Honest
<1>4. DaemonRecorded'
  BY <1>1 DEF MacInv, TunnelInv, DaemonRecorded
<1>5. PinRecorded'
  BY <1>1 DEF MacInv, TunnelInv, PinRecorded
<1>6. HolesRecorded'
  BY <1>1 DEF MacInv, TunnelInv, HolesRecorded
<1>7. FileWhole'
  BY <1>1 DEF MacInv, TunnelInv, FileWhole
<1>8. ListsOwn'
  BY <1>1 DEF MacInv, TunnelInv, ListsOwn, Honest
<1>9. Placed'
  BY <1>1 DEF MacInv, TunnelInv, Placed
<1>10. MonitorsFile'
  BY <1>1 DEF MacInv, TunnelInv, MonitorsFile
<1>11. MonitorUndoes'
  BY <1>1 DEF MacInv, TunnelInv, MonitorUndoes, DaemonRecorded, MonitorsFile, Honest, OwnDns, NoHoles, Undoing
<1>12. MonitorSets'
  BY <1>1 DEF MonitorSets
<1>13. JobsFile'
  BY <1>1 DEF MacInv, TunnelInv, JobsFile, Honest
<1>14. JobUndoes'
  BY <1>1 DEF MacInv, TunnelInv, JobUndoes, Honest, OwnDns, NoHoles
<1>15. UpFollows'
  BY <1>1 DEF MacInv, TunnelInv, UpFollows, Placed, Setting
<1>16. MonitorFollows'
  BY <1>1 DEF MonitorFollows
<1>17. NamesKnown'
  BY <1>1 DEF MacInv, NamesKnown, NamesLost
<1> QED
  BY <1>2, <1>3, <1>4, <1>5, <1>6, <1>7, <1>8, <1>9, <1>10, <1>11, <1>12, <1>13, <1>14, <1>15, <1>16, <1>17
     DEF MacInv, TunnelInv

LEMMA MacMonitorForgetsKeeps ==
  ASSUME MacInv, M!MonitorForgets
  PROVE  MacInv'
<1>1. /\ monitor.at = "forget"
      /\ file' = M!NoState
      /\ monitor' = M!NoMonitor
      /\ user' = user /\ service' = service /\ owner' = owner /\ script' = script /\ daemons' = daemons
      /\ born' = born /\ dns' = dns /\ pin' = pin /\ holes' = holes /\ proxy' = proxy /\ names' = names
      /\ record' = record /\ present' = present /\ router' = router /\ pardoned' = pardoned
  <2> USE DEF M!MonitorForgets
  <2>1. monitor.at = "forget"
    OBVIOUS
  <2>2. file' = M!NoState
    OBVIOUS
  <2>3. monitor' = M!NoMonitor
    OBVIOUS
  <2>4. /\ user' = user /\ service' = service /\ owner' = owner /\ script' = script
        /\ daemons' = daemons /\ born' = born /\ dns' = dns /\ pin' = pin /\ holes' = holes
        /\ proxy' = proxy /\ names' = names /\ record' = record /\ present' = present
        /\ router' = router /\ pardoned' = pardoned
    BY DEF M!systemVars, M!splitVars, M!envVars
  <2> QED BY <2>1, <2>2, <2>3, <2>4
<1>2. MacTyped'
  BY <1>1, MacNone DEF MacInv, MacTyped
<1>3. DnsRecorded'
  BY <1>1 DEF MacInv, TunnelInv, DnsRecorded, MonitorUndoes, Honest, OwnDns, Undoing
<1>4. DaemonRecorded'
  BY <1>1 DEF MacInv, TunnelInv, DaemonRecorded, MonitorUndoes
<1>5. PinRecorded'
  BY <1>1 DEF MacInv, TunnelInv, PinRecorded, MonitorUndoes
<1>6. HolesRecorded'
  BY <1>1 DEF MacInv, TunnelInv, HolesRecorded, MonitorUndoes, NoHoles
<1>7. FileWhole'
  BY <1>1 DEF FileWhole
<1>8. ListsOwn'
  BY <1>1, MacNone DEF MacInv, TunnelInv, ListsOwn, Honest
<1>9. Placed'
  BY <1>1, MacNone DEF MacInv, TunnelInv, Placed
<1>10. MonitorsFile'
  BY <1>1, MacNone DEF MonitorsFile
<1>11. MonitorUndoes'
  BY <1>1 DEF MacInv, TunnelInv, MonitorUndoes, Honest, OwnDns, NoHoles, Undoing
<1>12. MonitorSets'
  BY <1>1, MacNone DEF MonitorSets
<1>13. JobsFile'
  BY <1>1, MacNone DEF MacInv, TunnelInv, JobsFile, Placed, MonitorUndoes, Honest, OwnDns, NoHoles, Undoing, Clear
<1>14. JobUndoes'
  BY <1>1 DEF MacInv, TunnelInv, JobUndoes, Placed, Undoing
<1>15. UpFollows'
  BY <1>1 DEF MacInv, TunnelInv, UpFollows, Placed, Setting
<1>16. MonitorFollows'
  BY <1>1, MacNone DEF MonitorFollows
<1>17. NamesKnown'
  BY <1>1 DEF MacInv, NamesKnown, NamesLost
<1> QED
  BY <1>2, <1>3, <1>4, <1>5, <1>6, <1>7, <1>8, <1>9, <1>10, <1>11, <1>12, <1>13, <1>14, <1>15, <1>16, <1>17
     DEF MacInv, TunnelInv

LEMMA MacMonitorHoldsKeeps ==
  ASSUME MacInv, M!MonitorHolds
  PROVE  MacInv'
<1>1. /\ monitor.at = "watch"
      /\ monitor.tun.pid \notin daemons
      /\ ~monitor.tun.black
      /\ holes' \in BOOLEAN
      /\ \/ /\ file.pid = monitor.tun.pid
            /\ monitor'.at = "held" /\ monitor'.tun = monitor.tun /\ monitor'.net = monitor.net
            /\ monitor'.news = monitor.news /\ monitor' \in Monitors
         \/ /\ file.pid # monitor.tun.pid
            /\ holes' = holes
            /\ monitor' = M!NoMonitor
      /\ user' = user /\ service' = service /\ owner' = owner /\ script' = script /\ file' = file
      /\ daemons' = daemons /\ born' = born /\ dns' = dns /\ pin' = pin /\ proxy' = proxy
      /\ names' = names /\ record' = record /\ present' = present /\ router' = router
      /\ pardoned' = pardoned
  <2> USE DEF M!MonitorHolds
  <2>1. monitor.at = "watch"
    OBVIOUS
  <2>2. monitor.tun.pid \notin daemons
    OBVIOUS
  <2>3. ~monitor.tun.black
    OBVIOUS
  <2>4. holes' \in BOOLEAN
    BY DEF MacInv, MacTyped
  <2>5. \/ /\ file.pid = monitor.tun.pid
           /\ monitor'.at = "held" /\ monitor'.tun = monitor.tun /\ monitor'.net = monitor.net
           /\ monitor'.news = monitor.news /\ monitor' \in Monitors
        \/ /\ file.pid # monitor.tun.pid
           /\ holes' = holes
           /\ monitor' = M!NoMonitor
    BY DEF MacInv, MacTyped, Monitors, M!Watches
  <2>6. /\ user' = user /\ service' = service /\ owner' = owner /\ script' = script
        /\ file' = file /\ daemons' = daemons /\ born' = born /\ dns' = dns /\ pin' = pin
        /\ proxy' = proxy /\ names' = names /\ record' = record /\ present' = present
        /\ router' = router /\ pardoned' = pardoned
    BY DEF M!splitVars, M!envVars
  <2> QED BY <2>1, <2>2, <2>3, <2>4, <2>5, <2>6
<1>2. MacTyped'
  BY <1>1, MacNone DEF MacInv, MacTyped
<1>3. DnsRecorded'
  BY <1>1 DEF MacInv, TunnelInv, DnsRecorded, Honest
<1>4. DaemonRecorded'
  BY <1>1 DEF MacInv, TunnelInv, DaemonRecorded
<1>5. PinRecorded'
  BY <1>1 DEF MacInv, TunnelInv, PinRecorded
<1>6. HolesRecorded'
  BY <1>1 DEF MacInv, TunnelInv, HolesRecorded
<1>7. FileWhole'
  BY <1>1 DEF MacInv, TunnelInv, FileWhole
<1>8. ListsOwn'
  BY <1>1, MacNone DEF MacInv, TunnelInv, ListsOwn, Honest
<1>9. Placed'
  BY <1>1, MacNone DEF MacInv, TunnelInv, Placed
<1>10. MonitorsFile'
  BY <1>1 DEF MacInv, TunnelInv, MonitorsFile
<1>11. MonitorUndoes'
  BY <1>1, MacNone DEF MonitorUndoes, Undoing
<1>12. MonitorSets'
  BY <1>1, MacNone DEF MonitorSets
<1>13. JobsFile'
  BY <1>1 DEF MacInv, TunnelInv, JobsFile, MonitorsFile, Honest
<1>14. JobUndoes'
  BY <1>1 DEF MacInv, TunnelInv, JobUndoes, Placed, Undoing
<1>15. UpFollows'
  BY <1>1 DEF MacInv, TunnelInv, UpFollows, Placed, Setting
<1>16. MonitorFollows'
  BY <1>1 DEF MacInv, TunnelInv, MonitorFollows, MonitorsFile, Obeyed
<1>17. NamesKnown'
  BY <1>1 DEF MacInv, NamesKnown, NamesLost
<1> QED
  BY <1>2, <1>3, <1>4, <1>5, <1>6, <1>7, <1>8, <1>9, <1>10, <1>11, <1>12, <1>13, <1>14, <1>15, <1>16, <1>17
     DEF MacInv, TunnelInv

LEMMA MacMonitorHeldKeeps ==
  ASSUME MacInv, M!MonitorHeld
  PROVE  MacInv'
<1>1. /\ monitor.at = "held"
      /\ monitor'.at = "watch"
      /\ monitor'.net = monitor.net
      /\ file' \in MacStates /\ file'.monitor = file.monitor
      /\ file'.pid = monitor.tun.pid /\ file'.pinned = monitor.tun.pinned
      /\ monitor'.tun.pid = monitor.tun.pid /\ monitor'.tun.pinned = monitor.tun.pinned
      /\ file'.list = monitor'.tun.list /\ file'.black = monitor'.tun.black
      /\ monitor'.news = monitor.news /\ monitor' \in Monitors
      /\ monitor'.tun.list = monitor.tun.list
      /\ monitor'.tun.black
      /\ user' = user /\ service' = service /\ owner' = owner /\ script' = script /\ daemons' = daemons
      /\ born' = born /\ dns' = dns /\ pin' = pin /\ holes' = holes /\ proxy' = proxy /\ names' = names
      /\ record' = record /\ present' = present /\ router' = router /\ pardoned' = pardoned
  <2> USE DEF M!MonitorHeld
  <2>1. monitor.at = "held"
    OBVIOUS
  <2>2. monitor'.at = "watch"
    BY DEF M!MonitorSaves
  <2>3. monitor'.net = monitor.net
    BY DEF M!MonitorSaves
  <2>4. file' \in MacStates /\ file'.monitor = file.monitor
    BY MacFields DEF M!MonitorSaves, M!Blackened, MacInv, MacStates
  <2>5. file'.pid = monitor.tun.pid /\ file'.pinned = monitor.tun.pinned
    BY DEF M!MonitorSaves, M!Blackened
  <2>6. monitor'.tun.pid = monitor.tun.pid /\ monitor'.tun.pinned = monitor.tun.pinned
    BY DEF M!MonitorSaves, M!Blackened, MacInv, MacTyped, Monitors, MacStates
  <2>7. file'.list = monitor'.tun.list /\ file'.black = monitor'.tun.black
    BY DEF M!MonitorSaves
  <2>8. monitor'.news = monitor.news /\ monitor' \in Monitors
    BY DEF M!MonitorSaves, M!Blackened, MacInv, MacTyped, Monitors, MacStates
  <2>9. monitor'.tun.list = monitor.tun.list
    BY DEF M!MonitorSaves, M!Blackened, MacInv, MacTyped, Monitors, MacStates
  <2>10. monitor'.tun.black
    BY DEF M!MonitorSaves, M!Blackened, MacInv, MacTyped, Monitors, MacStates
  <2>11. /\ user' = user /\ service' = service /\ owner' = owner /\ script' = script
         /\ daemons' = daemons /\ born' = born /\ dns' = dns /\ pin' = pin /\ holes' = holes
         /\ proxy' = proxy /\ names' = names /\ record' = record /\ present' = present
         /\ router' = router /\ pardoned' = pardoned
    BY DEF M!systemVars, M!splitVars, M!envVars
  <2> QED BY <2>1, <2>2, <2>3, <2>4, <2>5, <2>6, <2>7, <2>8, <2>9, <2>10, <2>11
<1>2. MacTyped'
  BY <1>1 DEF MacInv, MacTyped
<1>3. DnsRecorded'
  BY <1>1 DEF MacInv, TunnelInv, DnsRecorded, MonitorsFile, Honest
<1>4. DaemonRecorded'
  BY <1>1 DEF MacInv, TunnelInv, DaemonRecorded, MonitorsFile
<1>5. PinRecorded'
  BY <1>1 DEF MacInv, TunnelInv, PinRecorded, MonitorsFile
<1>6. HolesRecorded'
  BY <1>1 DEF HolesRecorded
<1>7. FileWhole'
  BY <1>1 DEF MacInv, TunnelInv, FileWhole, MonitorsFile
<1>8. ListsOwn'
  BY <1>1 DEF MacInv, TunnelInv, ListsOwn, Honest
<1>9. Placed'
  BY <1>1 DEF MacInv, TunnelInv, Placed
<1>10. MonitorsFile'
  BY <1>1 DEF MacInv, TunnelInv, MonitorsFile
<1>11. MonitorUndoes'
  BY <1>1 DEF MonitorUndoes, Undoing
<1>12. MonitorSets'
  BY <1>1 DEF MonitorSets
<1>13. JobsFile'
  BY <1>1 DEF MacInv, TunnelInv, JobsFile, Placed, MonitorsFile, Setting
<1>14. JobUndoes'
  BY <1>1 DEF MacInv, TunnelInv, JobUndoes, Placed, Undoing
<1>15. UpFollows'
  BY <1>1 DEF MacInv, TunnelInv, UpFollows, Placed, Setting
<1>16. MonitorFollows'
  BY <1>1 DEF MacInv, TunnelInv, MonitorFollows, MonitorUndoes, Obeyed
<1>17. NamesKnown'
  BY <1>1 DEF MacInv, NamesKnown, NamesLost
<1> QED
  BY <1>2, <1>3, <1>4, <1>5, <1>6, <1>7, <1>8, <1>9, <1>10, <1>11, <1>12, <1>13, <1>14, <1>15, <1>16, <1>17
     DEF MacInv, TunnelInv

LEMMA MacMonitorPinsKeeps ==
  ASSUME MacInv, M!MonitorPins
  PROVE  MacInv'
<1>1. /\ monitor.at = "watch"
      /\ monitor.tun.pid \in daemons
      /\ script.at # "final"
      /\ pardoned \subseteq pardoned'
      /\ monitor'.at = "dns" /\ monitor'.tun = monitor.tun /\ monitor'.net = monitor.net
      /\ monitor'.news = FALSE /\ monitor' \in Monitors
      /\ \/ /\ pin' = M!Want
         \/ /\ pin' = "none"
            /\ "refused" \in pardoned'
      /\ user' = user /\ service' = service /\ owner' = owner /\ script' = script /\ file' = file
      /\ daemons' = daemons /\ born' = born /\ dns' = dns /\ holes' = holes /\ proxy' = proxy
      /\ names' = names /\ record' = record /\ present' = present /\ router' = router
  <2> USE DEF M!MonitorPins
  <2>1. monitor.at = "watch"
    OBVIOUS
  <2>2. monitor.tun.pid \in daemons
    OBVIOUS
  <2>3. script.at # "final"
    OBVIOUS
  <2>4. pardoned \subseteq pardoned'
    BY DEF M!Pins, M!FailsToPin, M!Fault, M!NoFault
  <2>5. monitor'.at = "dns" /\ monitor'.tun = monitor.tun /\ monitor'.net = monitor.net
        /\ monitor'.news = FALSE /\ monitor' \in Monitors
    BY DEF MacInv, MacTyped, Monitors
  <2>6. \/ /\ pin' = M!Want
        \/ /\ pin' = "none"
           /\ "refused" \in pardoned'
    BY DEF M!Pins, M!FailsToPin, M!Fault
  <2>7. /\ user' = user /\ service' = service /\ owner' = owner /\ script' = script
        /\ file' = file /\ daemons' = daemons /\ born' = born /\ dns' = dns /\ holes' = holes
        /\ proxy' = proxy /\ names' = names /\ record' = record /\ present' = present
        /\ router' = router
    BY DEF M!splitVars
  <2> QED BY <2>1, <2>2, <2>3, <2>4, <2>5, <2>6, <2>7
<1>2. MacTyped'
  BY <1>1 DEF MacInv, MacTyped
<1>3. DnsRecorded'
  BY <1>1 DEF MacInv, TunnelInv, DnsRecorded, Honest
<1>4. DaemonRecorded'
  BY <1>1 DEF MacInv, TunnelInv, DaemonRecorded
<1>5. PinRecorded'
  BY <1>1 DEF MacInv, TunnelInv, PinRecorded, MonitorsFile
<1>6. HolesRecorded'
  BY <1>1 DEF MacInv, TunnelInv, HolesRecorded
<1>7. FileWhole'
  BY <1>1 DEF MacInv, TunnelInv, FileWhole
<1>8. ListsOwn'
  BY <1>1 DEF MacInv, TunnelInv, ListsOwn, Honest
<1>9. Placed'
  BY <1>1 DEF MacInv, TunnelInv, Placed
<1>10. MonitorsFile'
  BY <1>1 DEF MacInv, TunnelInv, MonitorsFile
<1>11. MonitorUndoes'
  BY <1>1 DEF MonitorUndoes, Undoing
<1>12. MonitorSets'
  BY <1>1 DEF MonitorSets
<1>13. JobsFile'
  BY <1>1 DEF MacInv, TunnelInv, JobsFile, Honest
<1>14. JobUndoes'
  BY <1>1 DEF MacInv, TunnelInv, JobUndoes, Placed, Undoing
<1>15. UpFollows'
  BY <1>1 DEF MacInv, TunnelInv, UpFollows, Placed, Setting
<1>16. MonitorFollows'
  BY <1>1 DEF MacInv, TunnelInv, MonitorFollows, M!Want, Obeyed
<1>17. NamesKnown'
  BY <1>1 DEF MacInv, NamesKnown, NamesLost
<1> QED
  BY <1>2, <1>3, <1>4, <1>5, <1>6, <1>7, <1>8, <1>9, <1>10, <1>11, <1>12, <1>13, <1>14, <1>15, <1>16, <1>17
     DEF MacInv, TunnelInv

LEMMA MacMonitorListsDnsKeeps ==
  ASSUME MacInv, M!MonitorListsDns
  PROVE  MacInv'
<1>1. /\ monitor.at = "dns"
      /\ \/ /\ file' = file /\ (\A x \in present : monitor.tun.list[x] # "-")
            /\ monitor'.at = "watch" /\ monitor'.tun = monitor.tun /\ monitor'.net = monitor.net
            /\ monitor'.news = monitor.news /\ monitor' \in Monitors
         \/ /\ monitor'.at = "set" /\ monitor'.net \in Networks
            /\ monitor.tun.list[monitor'.net] = "-"
            /\ file' \in MacStates /\ file'.monitor = file.monitor
            /\ file'.pid = monitor.tun.pid /\ file'.pinned = monitor.tun.pinned
            /\ monitor'.tun.pid = monitor.tun.pid /\ monitor'.tun.pinned = monitor.tun.pinned
            /\ file'.list = monitor'.tun.list /\ file'.black = monitor'.tun.black
            /\ monitor'.news = monitor.news /\ monitor' \in Monitors
            /\ monitor'.tun.black = monitor.tun.black
            /\ monitor'.tun.list \in [Networks -> {"-", "own", "vpn"}]
            /\ \A x \in Networks : monitor'.tun.list[x] = IF x = monitor'.net THEN dns[x] ELSE monitor.tun.list[x]
      /\ user' = user /\ service' = service /\ owner' = owner /\ script' = script /\ daemons' = daemons
      /\ born' = born /\ dns' = dns /\ pin' = pin /\ holes' = holes /\ proxy' = proxy /\ names' = names
      /\ record' = record /\ present' = present /\ router' = router /\ pardoned' = pardoned
  <2> USE DEF M!MonitorListsDns
  <2>0. ASSUME M!Unlisted(monitor.tun) # {}
        PROVE  \E x \in Networks :
                 /\ monitor'.at = "set" /\ monitor'.net = x /\ monitor'.news = monitor.news /\ monitor' \in Monitors
                 /\ monitor.tun.list[x] = "-" /\ monitor'.tun = M!Listed(monitor.tun, x)
                 /\ file' = [M!Listed(monitor.tun, x) EXCEPT !.monitor = file.monitor]
    <3>1. PICK x \in M!Unlisted(monitor.tun) : M!MonitorSaves(M!Listed(monitor.tun, x), "set", x)
      BY <2>0
    <3>2. x \in Networks /\ monitor.tun.list[x] = "-" /\ M!Listed(monitor.tun, x) \in MacStates
      BY MacFields, Listing DEF MacInv, MacTyped, M!Unlisted
    <3> QED BY <3>1, <3>2 DEF MacInv, MacTyped, Monitors, AnyNetwork, M!MonitorSaves
  <2>1. monitor.at = "dns"
    OBVIOUS
  <2>2. \/ /\ file' = file /\ (\A x \in present : monitor.tun.list[x] # "-")
           /\ monitor'.at = "watch" /\ monitor'.tun = monitor.tun /\ monitor'.net = monitor.net
           /\ monitor'.news = monitor.news /\ monitor' \in Monitors
        \/ /\ monitor'.at = "set" /\ monitor'.net \in Networks
           /\ monitor.tun.list[monitor'.net] = "-"
           /\ file' \in MacStates /\ file'.monitor = file.monitor
           /\ file'.pid = monitor.tun.pid /\ file'.pinned = monitor.tun.pinned
           /\ monitor'.tun.pid = monitor.tun.pid /\ monitor'.tun.pinned = monitor.tun.pinned
           /\ file'.list = monitor'.tun.list /\ file'.black = monitor'.tun.black
           /\ monitor'.news = monitor.news /\ monitor' \in Monitors
           /\ monitor'.tun.black = monitor.tun.black
           /\ monitor'.tun.list \in [Networks -> {"-", "own", "vpn"}]
           /\ \A x \in Networks : monitor'.tun.list[x] = IF x = monitor'.net THEN dns[x] ELSE monitor.tun.list[x]
    <3>1. CASE M!Unlisted(monitor.tun) = {}
      BY <3>1, MacWatches DEF MacInv, M!Unlisted
    <3>2. CASE M!Unlisted(monitor.tun) # {}
      <4>1. PICK x \in Networks :
                 /\ monitor'.at = "set" /\ monitor'.net = x /\ monitor'.news = monitor.news /\ monitor' \in Monitors
                 /\ monitor.tun.list[x] = "-" /\ monitor'.tun = M!Listed(monitor.tun, x)
                 /\ file' = [M!Listed(monitor.tun, x) EXCEPT !.monitor = file.monitor]
        BY <2>0, <3>2
      <4>2. monitor.tun \in MacStates /\ file.monitor \in BOOLEAN BY MacFields, StateFields DEF MacInv
      <4> HIDE DEF M!MonitorListsDns
      <4>3. /\ M!Listed(monitor.tun, x) \in MacStates
            /\ M!Listed(monitor.tun, x).pid = monitor.tun.pid
            /\ M!Listed(monitor.tun, x).black = monitor.tun.black
            /\ M!Listed(monitor.tun, x).pinned = monitor.tun.pinned
            /\ \A y \in Networks : M!Listed(monitor.tun, x).list[y] = IF y = x THEN dns[y] ELSE monitor.tun.list[y]
        BY <4>2, Listing DEF MacInv
      <4>4. M!Listed(monitor.tun, x).list \in [Networks -> {"-", "own", "vpn"}] BY <4>3, StateFields 
      <4>5. /\ file' \in MacStates /\ file'.monitor = file.monitor /\ file'.pid = monitor'.tun.pid
            /\ file'.pinned = monitor'.tun.pinned /\ file'.list = monitor'.tun.list
            /\ file'.black = monitor'.tun.black
        BY <4>1, <4>2, <4>3 DEF MacStates
      <4> QED BY <4>1, <4>3, <4>4, <4>5
    <3> QED BY <3>1, <3>2
  <2>3. /\ user' = user /\ service' = service /\ owner' = owner /\ script' = script
        /\ daemons' = daemons /\ born' = born /\ dns' = dns /\ pin' = pin /\ holes' = holes
        /\ proxy' = proxy /\ names' = names /\ record' = record /\ present' = present
        /\ router' = router /\ pardoned' = pardoned
    BY DEF M!systemVars, M!splitVars, M!envVars
  <2> QED BY <2>1, <2>2, <2>3
<1>2. MacTyped'
  BY <1>1 DEF MacInv, MacTyped
<1>3. DnsRecorded'
  BY <1>1 DEF MacInv, TunnelInv, DnsRecorded, MonitorsFile, Honest
<1>4. DaemonRecorded'
  BY <1>1 DEF MacInv, TunnelInv, DaemonRecorded, MonitorsFile
<1>5. PinRecorded'
  BY <1>1 DEF MacInv, TunnelInv, PinRecorded, MonitorsFile
<1>6. HolesRecorded'
  BY <1>1 DEF MacInv, TunnelInv, HolesRecorded, MonitorsFile
<1>7. FileWhole'
  BY <1>1 DEF MacInv, TunnelInv, FileWhole, MonitorsFile
<1>8. ListsOwn'
  BY <1>1 DEF MacInv, TunnelInv, ListsOwn, DnsRecorded, MonitorsFile, Honest
<1>9. Placed'
  BY <1>1 DEF MacInv, TunnelInv, Placed
<1>10. MonitorsFile'
  BY <1>1 DEF MacInv, TunnelInv, MonitorsFile
<1>11. MonitorUndoes'
  BY <1>1 DEF MonitorUndoes, Undoing
<1>12. MonitorSets'
  BY <1>1 DEF MacInv, TunnelInv, MonitorSets, MonitorsFile, DnsRecorded, Honest, MacTyped
<1>13. JobsFile'
  BY <1>1 DEF MacInv, TunnelInv, JobsFile, Placed, MonitorsFile, Setting
<1>14. JobUndoes'
  BY <1>1 DEF MacInv, TunnelInv, JobUndoes, Placed, Undoing
<1>15. UpFollows'
  BY <1>1 DEF MacInv, TunnelInv, UpFollows, Placed, Setting
<1>16. MonitorFollows'
  BY <1>1 DEF MacInv, TunnelInv, MonitorFollows, M!Want, Obeyed
<1>17. NamesKnown'
  BY <1>1 DEF MacInv, NamesKnown, NamesLost
<1> QED
  BY <1>2, <1>3, <1>4, <1>5, <1>6, <1>7, <1>8, <1>9, <1>10, <1>11, <1>12, <1>13, <1>14, <1>15, <1>16, <1>17
     DEF MacInv, TunnelInv

LEMMA MacMonitorSetsDnsKeeps ==
  ASSUME MacInv, M!MonitorSetsDns
  PROVE  MacInv'
<1>1. /\ monitor.at = "set"
      /\ monitor'.at = "dns" /\ monitor'.tun = monitor.tun /\ monitor'.net = monitor.net
      /\ monitor'.news = monitor.news /\ monitor' \in Monitors
      /\ pardoned \subseteq pardoned'
      /\ dns' \in [Networks -> {"own", "vpn"}]
      /\ \/ /\ \A x \in Networks : dns'[x] = IF x = monitor.net THEN "vpn" ELSE dns[x]
         \/ /\ dns' = dns
            /\ "refused" \in pardoned'
      /\ user' = user /\ service' = service /\ owner' = owner /\ script' = script /\ file' = file
      /\ daemons' = daemons /\ born' = born /\ pin' = pin /\ holes' = holes /\ proxy' = proxy
      /\ names' = names /\ record' = record /\ present' = present /\ router' = router
  <2> USE DEF M!MonitorSetsDns
  <2>1. monitor.at = "set"
    OBVIOUS
  <2>2. monitor'.at = "dns" /\ monitor'.tun = monitor.tun /\ monitor'.net = monitor.net
        /\ monitor'.news = monitor.news /\ monitor' \in Monitors
    BY DEF MacInv, MacTyped, Monitors, M!Watches
  <2>3. pardoned \subseteq pardoned'
    BY DEF M!SetsDns, M!Fault, M!NoFault
  <2>4. dns' \in [Networks -> {"own", "vpn"}]
    BY DEF M!SetsDns, MacInv, MacTyped
  <2>5. \/ /\ \A x \in Networks : dns'[x] = IF x = monitor.net THEN "vpn" ELSE dns[x]
        \/ /\ dns' = dns
           /\ "refused" \in pardoned'
    BY DEF M!SetsDns, M!Fault, MacInv, MacTyped
  <2>6. /\ user' = user /\ service' = service /\ owner' = owner /\ script' = script
        /\ file' = file /\ daemons' = daemons /\ born' = born /\ pin' = pin /\ holes' = holes
        /\ proxy' = proxy /\ names' = names /\ record' = record /\ present' = present
        /\ router' = router
    BY DEF M!splitVars
  <2> QED BY <2>1, <2>2, <2>3, <2>4, <2>5, <2>6
<1>2. MacTyped'
  BY <1>1 DEF MacInv, MacTyped
<1>3. DnsRecorded'
  BY <1>1 DEF MacInv, TunnelInv, DnsRecorded, MonitorsFile, MonitorSets, Honest
<1>4. DaemonRecorded'
  BY <1>1 DEF MacInv, TunnelInv, DaemonRecorded
<1>5. PinRecorded'
  BY <1>1 DEF MacInv, TunnelInv, PinRecorded
<1>6. HolesRecorded'
  BY <1>1 DEF MacInv, TunnelInv, HolesRecorded
<1>7. FileWhole'
  BY <1>1 DEF MacInv, TunnelInv, FileWhole
<1>8. ListsOwn'
  BY <1>1 DEF MacInv, TunnelInv, ListsOwn, Honest
<1>9. Placed'
  BY <1>1 DEF MacInv, TunnelInv, Placed
<1>10. MonitorsFile'
  BY <1>1 DEF MacInv, TunnelInv, MonitorsFile
<1>11. MonitorUndoes'
  BY <1>1 DEF MonitorUndoes, Undoing
<1>12. MonitorSets'
  BY <1>1 DEF MonitorSets
<1>13. JobsFile'
  BY <1>1 DEF MacInv, TunnelInv, JobsFile, Honest
<1>14. JobUndoes'
  BY <1>1 DEF MacInv, TunnelInv, JobUndoes, Placed, Undoing
<1>15. UpFollows'
  BY <1>1 DEF MacInv, TunnelInv, UpFollows, Placed, Setting
<1>16. MonitorFollows'
  BY <1>1 DEF MacInv, TunnelInv, MonitorFollows, M!Want, Obeyed
<1>17. NamesKnown'
  BY <1>1 DEF MacInv, NamesKnown, NamesLost
<1> QED
  BY <1>2, <1>3, <1>4, <1>5, <1>6, <1>7, <1>8, <1>9, <1>10, <1>11, <1>12, <1>13, <1>14, <1>15, <1>16, <1>17
     DEF MacInv, TunnelInv

LEMMA MacDaemonDiesKeeps ==
  ASSUME MacInv, M!DaemonDies
  PROVE  MacInv'
<1>1. /\ daemons' \subseteq daemons
      /\ names'.tracked = names.tracked /\ names' \in [tracked : BOOLEAN, kernel : {"none", "laid", "hole"}]
      /\ names'.kernel = names.kernel \/ names'.kernel = "none"
      /\ pardoned \subseteq pardoned'
      /\ user' = user /\ service' = service /\ owner' = owner /\ script' = script /\ file' = file
      /\ monitor' = monitor /\ born' = born /\ dns' = dns /\ pin' = pin /\ holes' = holes
      /\ proxy' = proxy /\ record' = record /\ present' = present /\ router' = router
  <2> USE DEF M!DaemonDies
  <2>1. daemons' \subseteq daemons
    BY DEF M!Ends
  <2>2. /\ names'.tracked = names.tracked /\ names' \in [tracked : BOOLEAN, kernel : {"none", "laid", "hole"}]
        /\ names'.kernel = names.kernel \/ names'.kernel = "none"
    BY DEF M!Ends, MacInv, MacTyped
  <2>3. pardoned \subseteq pardoned'
    BY DEF M!Fault
  <2>4. /\ user' = user /\ service' = service /\ owner' = owner /\ script' = script
        /\ file' = file /\ monitor' = monitor /\ born' = born /\ dns' = dns /\ pin' = pin
        /\ holes' = holes /\ proxy' = proxy /\ record' = record /\ present' = present
        /\ router' = router
    OBVIOUS
  <2> QED BY <2>1, <2>2, <2>3, <2>4
<1>2. MacTyped'
  BY <1>1 DEF MacInv, MacTyped
<1>3. DnsRecorded'
  BY <1>1 DEF MacInv, TunnelInv, DnsRecorded, Honest
<1>4. DaemonRecorded'
  BY <1>1 DEF MacInv, TunnelInv, DaemonRecorded
<1>5. PinRecorded'
  BY <1>1 DEF MacInv, TunnelInv, PinRecorded
<1>6. HolesRecorded'
  BY <1>1 DEF MacInv, TunnelInv, HolesRecorded
<1>7. FileWhole'
  BY <1>1 DEF MacInv, TunnelInv, FileWhole
<1>8. ListsOwn'
  BY <1>1 DEF MacInv, TunnelInv, ListsOwn, Honest
<1>9. Placed'
  BY <1>1 DEF MacInv, TunnelInv, Placed
<1>10. MonitorsFile'
  BY <1>1 DEF MacInv, TunnelInv, MonitorsFile
<1>11. MonitorUndoes'
  BY <1>1 DEF MacInv, TunnelInv, MonitorUndoes, Honest, OwnDns, NoHoles
<1>12. MonitorSets'
  BY <1>1 DEF MacInv, TunnelInv, MonitorSets, Honest
<1>13. JobsFile'
  BY <1>1 DEF MacInv, TunnelInv, JobsFile, Honest, OwnDns, NoHoles, Clear
<1>14. JobUndoes'
  BY <1>1 DEF MacInv, TunnelInv, JobUndoes, Honest, OwnDns, NoHoles
<1>15. UpFollows'
  BY <1>1 DEF MacInv, TunnelInv, UpFollows, M!Want, Obeyed
<1>16. MonitorFollows'
  BY <1>1 DEF MacInv, TunnelInv, MonitorFollows, M!Want, Obeyed
<1>17. NamesKnown'
  BY <1>1 DEF MacInv, NamesKnown, NamesLost
<1> QED
  BY <1>2, <1>3, <1>4, <1>5, <1>6, <1>7, <1>8, <1>9, <1>10, <1>11, <1>12, <1>13, <1>14, <1>15, <1>16, <1>17
     DEF MacInv, TunnelInv

LEMMA MacNetworkChangesKeeps ==
  ASSUME MacInv, M!NetworkChanges
  PROVE  MacInv'
<1>1. /\ pardoned \subseteq pardoned'
      /\ present' \subseteq Networks
      /\ router' \in Routers \cup {NoGateway}
      /\ \/ /\ monitor.at = "none"
            /\ monitor' = monitor
         \/ /\ monitor.at # "none"
            /\ monitor'.at = monitor.at /\ monitor'.tun = monitor.tun /\ monitor'.net = monitor.net
            /\ monitor'.news = TRUE /\ monitor' \in Monitors
      /\ (script.at \in {"routes", "dns", "set", "fork"} => "missed" \in pardoned')
      /\ user' = user /\ service' = service /\ owner' = owner /\ script' = script /\ file' = file
      /\ daemons' = daemons /\ born' = born /\ dns' = dns /\ pin' = pin /\ holes' = holes
      /\ proxy' = proxy /\ names' = names /\ record' = record
  <2> USE DEF M!NetworkChanges
  <2>1. pardoned \subseteq pardoned'
    OBVIOUS
  <2>2. present' \subseteq Networks
    BY DEF MacInv, MacTyped
  <2>3. router' \in Routers \cup {NoGateway}
    BY DEF MacInv, MacTyped
  <2>4. \/ /\ monitor.at = "none"
           /\ monitor' = monitor
        \/ /\ monitor.at # "none"
           /\ monitor'.at = monitor.at /\ monitor'.tun = monitor.tun /\ monitor'.net = monitor.net
           /\ monitor'.news = TRUE /\ monitor' \in Monitors
    BY DEF MacInv, MacTyped, Monitors
  <2>5. (script.at \in {"routes", "dns", "set", "fork"} => "missed" \in pardoned')
    OBVIOUS
  <2>6. /\ user' = user /\ service' = service /\ owner' = owner /\ script' = script
        /\ file' = file /\ daemons' = daemons /\ born' = born /\ dns' = dns /\ pin' = pin
        /\ holes' = holes /\ proxy' = proxy /\ names' = names /\ record' = record
    BY DEF M!systemVars, M!splitVars
  <2> QED BY <2>1, <2>2, <2>3, <2>4, <2>5, <2>6
<1>2. MacTyped'
  BY <1>1 DEF MacInv, MacTyped
<1>3. DnsRecorded'
  BY <1>1 DEF MacInv, TunnelInv, DnsRecorded, Honest
<1>4. DaemonRecorded'
  BY <1>1 DEF MacInv, TunnelInv, DaemonRecorded
<1>5. PinRecorded'
  BY <1>1 DEF MacInv, TunnelInv, PinRecorded
<1>6. HolesRecorded'
  BY <1>1 DEF MacInv, TunnelInv, HolesRecorded
<1>7. FileWhole'
  BY <1>1 DEF MacInv, TunnelInv, FileWhole
<1>8. ListsOwn'
  BY <1>1 DEF MacInv, TunnelInv, ListsOwn, Honest
<1>9. Placed'
  BY <1>1 DEF MacInv, TunnelInv, Placed
<1>10. MonitorsFile'
  BY <1>1 DEF MacInv, TunnelInv, MonitorsFile
<1>11. MonitorUndoes'
  BY <1>1 DEF MacInv, TunnelInv, MonitorUndoes, Honest, OwnDns, NoHoles
<1>12. MonitorSets'
  BY <1>1 DEF MacInv, TunnelInv, MonitorSets, Honest
<1>13. JobsFile'
  BY <1>1 DEF MacInv, TunnelInv, JobsFile, Honest, OwnDns, NoHoles, Clear
<1>14. JobUndoes'
  BY <1>1 DEF MacInv, TunnelInv, JobUndoes, Honest, OwnDns, NoHoles
<1>15. UpFollows'
  BY <1>1 DEF MacInv, TunnelInv, UpFollows, Obeyed
<1>16. MonitorFollows'
  BY <1>1 DEF MacInv, TunnelInv, MonitorFollows, Obeyed
<1>17. NamesKnown'
  BY <1>1 DEF MacInv, NamesKnown, NamesLost
<1> QED
  BY <1>2, <1>3, <1>4, <1>5, <1>6, <1>7, <1>8, <1>9, <1>10, <1>11, <1>12, <1>13, <1>14, <1>15, <1>16, <1>17
     DEF MacInv, TunnelInv

\* What the tunnel's invariant is about stays as it is, but for the script, which is between two tunnels.
Aside ==
    /\ UNCHANGED <<monitor, file, daemons, born, dns, pin, holes, present, router>>
    /\ pardoned \subseteq pardoned'
    /\ \/ script' = script
       \/ /\ script.at # "final"
          /\ script' \in MacJobs /\ script'.at \in {"begin", "down", "split", "clean", "attach", "end"}
          /\ script'.tun \in {script.tun, M!NoState}
    /\ script'.what = "none" => script'.at = "end"
    /\ script'.what # "none" => service' = "serving"

LEMMA MacAside ==
  ASSUME MacInv, Aside
  PROVE  TunnelInv'
<1> DEFINE between == script'.at \in {"begin", "down", "split", "clean", "attach", "end"}
<1>1. /\ monitor' = monitor /\ file' = file /\ daemons' = daemons /\ born' = born /\ dns' = dns /\ pin' = pin
      /\ holes' = holes /\ present' = present /\ router' = router /\ pardoned \subseteq pardoned'
      /\ script' = script \/ (script.at # "final" /\ between /\ script'.tun \in {script.tun, M!NoState})
      /\ script'.what = "none" => script'.at = "end"
      /\ script'.what # "none" => service' = "serving"
  BY DEF Aside
<1>2. DnsRecorded' /\ DaemonRecorded' /\ PinRecorded' /\ HolesRecorded' /\ FileWhole'
  BY <1>1 DEF MacInv, TunnelInv, DnsRecorded, DaemonRecorded, PinRecorded, HolesRecorded, FileWhole, Honest
<1>3. ListsOwn'
  BY <1>1, MacNone DEF MacInv, TunnelInv, ListsOwn, Honest
<1>4. /\ Placed' /\ MonitorsFile' /\ MonitorUndoes' /\ MonitorSets'
  <2>1. Placed'
    <3>1. CASE script' = script
      BY <1>1, <3>1 DEF MacInv, TunnelInv, Placed
    <3>2. CASE between
      BY <1>1, <3>2 DEF Placed, Setting, Undoing
    <3> QED BY <1>1, <3>1, <3>2
  <2>2. MonitorsFile'
    <3>1. CASE script' = script
      BY <1>1, <3>1 DEF MacInv, TunnelInv, MonitorsFile
    <3>2. CASE between /\ script.at # "final"
      BY <1>1, <3>2 DEF MacInv, TunnelInv, MonitorsFile
    <3> QED BY <1>1, <3>1, <3>2
  <2>3. MonitorUndoes' /\ MonitorSets'
    BY <1>1 DEF MacInv, TunnelInv, MonitorUndoes, MonitorSets, OwnDns, NoHoles, Honest
  <2> QED BY <2>1, <2>2, <2>3
<1>5. JobsFile'
  <2>1. CASE script' = script
    BY <1>1, <2>1 DEF MacInv, TunnelInv, JobsFile, Clear, NoHoles, OwnDns, Honest
  <2>2. CASE between
    BY <2>2 DEF JobsFile, Setting
  <2> QED BY <1>1, <2>1, <2>2
<1>6. JobUndoes'
  <2>1. CASE script' = script
    BY <1>1, <2>1 DEF MacInv, TunnelInv, JobUndoes, NoHoles, OwnDns, Honest
  <2>2. CASE between
    BY <2>2 DEF JobUndoes, Undoing
  <2> QED BY <1>1, <2>1, <2>2
<1>7. UpFollows'
  <2>1. CASE script' = script
    BY <1>1, <2>1 DEF MacInv, TunnelInv, UpFollows, Obeyed, M!Want
  <2>2. CASE between
    BY <2>2 DEF UpFollows
  <2> QED BY <1>1, <2>1, <2>2
<1>8. MonitorFollows'
  BY <1>1 DEF MacInv, TunnelInv, MonitorFollows, Obeyed, M!Want
<1> QED
  BY <1>2, <1>3, <1>4, <1>5, <1>6, <1>7, <1>8 DEF TunnelInv

\* The proxy stops, with its routes and its file, while the service goes on or ends.
LEMMA ProxyStops ==
  ASSUME MacInv, M!StopsProxy, pardoned \subseteq pardoned', service = "serving", service' = service
  PROVE  /\ NamesKnown'
         /\ names' \in [tracked : BOOLEAN, kernel : {"none", "laid", "hole"}]
         /\ record' \in [mode : {"none", "proxy", "direct", "all"}, routes : BOOLEAN]
  BY MacNone DEF MacInv, MacTyped, M!StopsProxy, M!HasSplit, M!splitVars, NamesKnown, NamesLost

LEMMA MacAppDiesKeeps ==
  ASSUME MacInv, M!AppDies
  PROVE  MacInv'
<1>1. Aside
  BY DEF M!AppDies, M!systemVars, M!envVars, MacInv, TunnelInv, Placed, Aside
<1>2. MacTyped'
  BY DEF M!AppDies, M!systemVars, M!splitVars, M!envVars, MacInv, MacTyped
<1>3. NamesKnown'
  BY DEF M!AppDies, M!splitVars, MacInv, NamesKnown, NamesLost
<1> QED
  BY <1>1, <1>2, <1>3, MacAside DEF MacInv

LEMMA MacAppStartsKeeps ==
  ASSUME MacInv, M!AppStarts
  PROVE  MacInv'
<1>1. Aside
  BY DEF M!AppStarts, M!systemVars, M!envVars, MacInv, TunnelInv, Placed, Aside
<1>2. MacTyped'
  BY DEF M!AppStarts, M!systemVars, M!splitVars, M!envVars, MacInv, MacTyped
<1>3. NamesKnown'
  BY DEF M!AppStarts, M!splitVars, MacInv, NamesKnown, NamesLost
<1> QED
  BY <1>1, <1>2, <1>3, MacAside DEF MacInv

LEMMA MacServiceStartsKeeps ==
  ASSUME MacInv, M!ServiceStarts
  PROVE  MacInv'
<1>1. Aside
  BY DEF M!ServiceStarts, M!systemVars, M!envVars, MacInv, TunnelInv, Placed, Aside
<1>2. MacTyped'
  BY DEF M!ServiceStarts, M!systemVars, M!splitVars, M!envVars, MacInv, MacTyped
<1>3. NamesKnown'
  BY DEF M!ServiceStarts, M!splitVars, MacInv, NamesKnown, NamesLost
<1> QED
  BY <1>1, <1>2, <1>3, MacAside DEF MacInv

LEMMA MacReconcilesKeeps ==
  ASSUME MacInv, M!Reconciles
  PROVE  MacInv'
<1>1. Aside
  BY DEF M!Reconciles, M!systemVars, MacInv, TunnelInv, Placed, Aside, M!Fault, M!NoFault
<1>2. MacTyped'
  BY MacNone DEF M!Reconciles, M!systemVars, M!splitVars, MacInv, MacTyped
<1>3. NamesKnown'
  <2>1. /\ service = "boot" /\ proxy = "none" /\ ~names.tracked
        /\ names \in [tracked : BOOLEAN, kernel : {"none", "laid", "hole"}]
        /\ names.kernel # "none" => NamesLost \/ record.routes
    BY DEF M!Reconciles, MacInv, MacTyped, NamesKnown
  <2>2. CASE record = M!NoSplitFile /\ UNCHANGED M!splitVars /\ M!NoFault
    BY <2>1, <2>2 DEF M!splitVars, M!NoFault, NamesKnown, NamesLost
  <2>3. CASE /\ names' = IF record.routes THEN M!NoNames ELSE names
             /\ record' = M!NoSplitFile /\ UNCHANGED proxy /\ M!NoFault
    BY <2>1, <2>3, MacNone DEF M!NoFault, NamesKnown, NamesLost
  <2>4. CASE /\ proxy' = "attached" /\ names' = [names EXCEPT !.tracked = record.routes]
             /\ UNCHANGED record /\ M!NoFault
    BY <2>1, <2>4 DEF M!NoFault, NamesKnown, NamesLost, M!Reconciles
  <2>5. CASE record' = M!NoSplitFile /\ M!Fault({"restart"}) /\ UNCHANGED <<proxy, names>>
    BY <2>1, <2>5 DEF M!Fault, NamesKnown, NamesLost
  <2> QED
    BY <2>2, <2>3, <2>4, <2>5 DEF M!Reconciles
<1> QED
  BY <1>1, <1>2, <1>3, MacAside DEF MacInv

LEMMA MacServiceStopsKeeps ==
  ASSUME MacInv, M!ServiceStops
  PROVE  MacInv'
<1>4. /\ NamesKnown'
      /\ names' \in [tracked : BOOLEAN, kernel : {"none", "laid", "hole"}]
      /\ record' \in [mode : {"none", "proxy", "direct", "all"}, routes : BOOLEAN]
  <2>1. service = "serving" /\ service' = "off" /\ pardoned' = pardoned
    BY DEF M!ServiceStops
  <2>2. CASE proxy = "lost"
    BY <2>1, <2>2 DEF M!ServiceStops, M!ProxyEnds, MacInv, MacTyped, NamesKnown, NamesLost
  <2>3. CASE proxy = "none" /\ UNCHANGED M!splitVars
    BY <2>1, <2>3 DEF M!splitVars, MacInv, MacTyped, NamesKnown, NamesLost
  <2>4. CASE /\ proxy' = "none" /\ record' = M!NoSplitFile /\ proxy # "none"
             /\ names' = IF names.tracked THEN M!NoNames ELSE names
    BY <2>1, <2>4, MacNone DEF MacInv, MacTyped, NamesKnown, NamesLost
  <2> QED
    BY <2>2, <2>3, <2>4 DEF M!ServiceStops, M!StopsProxy, M!HasSplit
<1>1. Aside
  BY DEF M!ServiceStops, M!systemVars, M!envVars, MacInv, TunnelInv, Placed, Aside
<1>2. MacTyped'
  BY <1>4 DEF M!ServiceStops, M!systemVars, M!envVars, MacInv, MacTyped
<1>3. NamesKnown'
  BY <1>4
<1> QED
  BY <1>1, <1>2, <1>3, MacAside DEF MacInv

LEMMA MacServiceKilledKeeps ==
  ASSUME MacInv, M!ServiceKilled
  PROVE  MacInv'
<1>1. Aside
  BY DEF M!ServiceKilled, M!systemVars, MacInv, TunnelInv, Placed, Aside, M!Fault
<1>2. MacTyped'
  BY DEF M!ServiceKilled, M!ProxyEnds, M!systemVars, MacInv, MacTyped
<1>3. NamesKnown'
  BY DEF M!ServiceKilled, M!ProxyEnds, MacInv, MacTyped, NamesKnown, NamesLost, M!Fault
<1> QED
  BY <1>1, <1>2, <1>3, MacAside DEF MacInv

LEMMA MacRequestsKeeps ==
  ASSUME MacInv, M!Requests
  PROVE  MacInv'
<1>1. Aside
  <2>1. /\ script' \in MacJobs /\ script'.at \in {"begin", "down"}
        /\ script'.tun \in {script.tun, M!NoState}
        /\ script'.what = "none" => script'.at = "end"
        /\ service = "serving" /\ script.at # "final"
    <3>1. /\ M!NoJob \in MacJobs /\ M!NoJob.tun = M!NoState /\ {"begin", "down"} \subseteq M!JobSteps
          /\ user.n \in Nat /\ service = "serving" /\ script.at # "final"
      BY MacNone, MacSteps DEF MacInv, MacTyped, TunnelInv, Placed, M!Requests
    <3>2. CASE \E replace \in BOOLEAN, mode \in M!Modes :
                 script' = [M!NoJob EXCEPT !.what = "up", !.at = "begin", !.replace = replace,
                                           !.mode = mode, !.app = user.n]
      <4>1. PICK replace \in BOOLEAN, mode \in M!Modes :
              script' = [M!NoJob EXCEPT !.what = "up", !.at = "begin", !.replace = replace,
                                        !.mode = mode, !.app = user.n]
        BY <3>2
      <4>2. script' \in MacJobs BY <3>1, <4>1 DEF MacJobs
      <4>3. script'.what = "up" /\ script'.at = "begin" /\ script'.tun = M!NoJob.tun
        BY <3>1, <4>1 
      <4> QED BY <3>1, <4>2, <4>3
    <3>3. CASE script' = [M!NoJob EXCEPT !.what = "down", !.at = "down"]
      <4>1. script' \in MacJobs BY <3>1, <3>3 DEF MacJobs
      <4>2. script'.what = "down" /\ script'.at = "down" /\ script'.tun = M!NoJob.tun
        BY <3>1, <3>3 
      <4> QED BY <3>1, <4>1, <4>2
    <3> QED BY <3>2, <3>3 DEF M!Requests
  <2>2. /\ UNCHANGED <<monitor, file, daemons, born, dns, pin, holes, present, router>>
        /\ service' = service /\ pardoned \subseteq pardoned'
    BY DEF M!Requests, M!systemVars, M!envVars
  <2> QED BY <2>1, <2>2 DEF Aside
<1>2. MacTyped'
  BY <1>1 DEF Aside, M!Requests, M!splitVars, MacInv, MacTyped
<1>3. NamesKnown'
  BY DEF M!Requests, M!splitVars, MacInv, NamesKnown, NamesLost
<1> QED
  BY <1>1, <1>2, <1>3, MacAside DEF MacInv

LEMMA MacBeginsKeeps ==
  ASSUME MacInv, M!Begins
  PROVE  MacInv'
<1>4. /\ NamesKnown'
      /\ names' \in [tracked : BOOLEAN, kernel : {"none", "laid", "hole"}]
      /\ record' \in [mode : {"none", "proxy", "direct", "all"}, routes : BOOLEAN]
  <2>1. service = "serving" /\ service' = service /\ pardoned \subseteq pardoned'
    BY DEF M!Begins, M!Fault, M!NoFault, MacInv, TunnelInv, Placed
  <2>2. CASE UNCHANGED M!splitVars
    BY <2>1, <2>2 DEF M!splitVars, M!Begins, MacInv, MacTyped, NamesKnown, NamesLost
  <2>3. CASE M!StopsProxy
    BY <2>1, <2>3, ProxyStops 
  <2> QED BY <2>2, <2>3 DEF M!Begins
<1>1. Aside
  <2>1. /\ script' \in MacJobs /\ script'.at \in {"clean", "split", "down", "end"}
        /\ script'.tun \in {script.tun, M!NoState}
        /\ script'.what = "none" => script'.at = "end"
        /\ service = "serving" /\ script.at # "final"
    <3>1. /\ script \in MacJobs /\ script.what # "none" /\ service = "serving" /\ script.at # "final"
          /\ {"begin", "down", "split", "clean", "attach", "end"} \subseteq M!JobSteps
      BY MacSteps DEF MacInv, MacTyped, TunnelInv, Placed, M!Begins
    <3>2. \/ script' = M!NoJob \/ M!Moves("clean") \/ M!Moves("split")
          \/ script' = [script EXCEPT !.at = "down", !.then = "split"]
      BY DEF M!Begins
    <3>3. CASE script' = M!NoJob BY <3>1, <3>3, MacNone 
    <3>4. CASE M!Moves("clean") \/ M!Moves("split")
      BY <3>1, <3>4, MacMoves DEF MacInv
    <3>5. CASE script' = [script EXCEPT !.at = "down", !.then = "split"]
      BY <3>1, <3>5 DEF MacJobs
    <3> QED BY <3>2, <3>3, <3>4, <3>5
  <2>2. /\ UNCHANGED <<monitor, file, daemons, born, dns, pin, holes, present, router>>
        /\ service' = service /\ pardoned \subseteq pardoned'
    BY DEF M!Begins, M!systemVars, M!Fault, M!NoFault
  <2> QED BY <2>1, <2>2 DEF Aside
<1>2. MacTyped'
  BY <1>1, <1>4 DEF Aside, M!Begins, MacInv, MacTyped
<1>3. NamesKnown'
  BY <1>4
<1> QED
  BY <1>1, <1>2, <1>3, MacAside DEF MacInv

LEMMA MacBeginsSplitKeeps ==
  ASSUME MacInv, M!BeginsSplit
  PROVE  MacInv'
<1>1. Aside
  <2>1. /\ script' \in MacJobs /\ script'.at \in {"clean", "end"}
        /\ script'.tun \in {script.tun, M!NoState}
        /\ script'.what = "none" => script'.at = "end"
        /\ service = "serving" /\ script.at # "final"
    <3>1. /\ script \in MacJobs /\ script.what # "none" /\ service = "serving" /\ script.at # "final"
          /\ {"begin", "down", "split", "clean", "attach", "end"} \subseteq M!JobSteps
      BY MacSteps DEF MacInv, MacTyped, TunnelInv, Placed, M!BeginsSplit
    <3>2. M!NoState \in MacStates BY MacNone 
    <3>3. CASE script' = [script EXCEPT !.at = "clean", !.then = "end", !.tun = M!NoState]
      BY <3>1, <3>2, <3>3 DEF MacJobs
    <3>4. CASE M!Moves("end")
      BY <3>1, <3>4, MacMoves DEF MacInv
    <3>5. CASE script' = M!NoJob
      BY <3>1, <3>5, MacNone
    <3> QED BY <3>3, <3>4, <3>5 DEF M!BeginsSplit
  <2>2. /\ UNCHANGED <<monitor, file, daemons, born, dns, pin, holes, present, router>>
        /\ service' = service /\ pardoned \subseteq pardoned'
    BY DEF M!BeginsSplit, M!systemVars, M!Fault, M!NoFault
  <2> QED BY <2>1, <2>2 DEF Aside
<1>2. MacTyped'
  <2>1. record' \in [mode : {"none", "proxy", "direct", "all"}, routes : BOOLEAN]
    <3>1. \/ record' = M!NoSplitFile
          \/ record' = [mode |-> script.mode, routes |-> FALSE]
      BY DEF M!BeginsSplit
    <3>2. /\ script.mode \in {"all", "proxy", "direct"}
          /\ record \in [mode : {"none", "proxy", "direct", "all"}, routes : BOOLEAN]
      BY MacFields DEF MacInv, MacTyped, M!Modes
    <3> HIDE DEF M!BeginsSplit
    <3>3. CASE record' = [mode |-> script.mode, routes |-> FALSE] BY <3>2, <3>3
    <3> QED BY <3>1, <3>2, <3>3, MacNone
  <2>2. names' \in [tracked : BOOLEAN, kernel : {"none", "laid", "hole"}]
    <3>1. names' = names \/ M!PinsDns
      BY DEF M!BeginsSplit
    <3>2. CASE names' = names BY <3>2 DEF MacInv, MacTyped
    <3>3. CASE M!PinsDns BY <3>3 DEF M!PinsDns
    <3> QED BY <3>1, <3>2, <3>3
  <2>3. user' = user /\ owner' = owner
    BY DEF M!BeginsSplit
  <2> QED BY <1>1, <2>1, <2>2, <2>3 DEF Aside, MacInv, MacTyped
<1>3. NamesKnown'
  <2>1. service = "serving" /\ service' = service
    BY DEF M!BeginsSplit, MacInv, TunnelInv, Placed
  <2>2. CASE proxy = "none" /\ proxy' = "begun" /\ UNCHANGED names /\ M!NoFault
    BY <2>1, <2>2, MacNone DEF M!NoFault, MacInv, NamesKnown, NamesLost
  <2>3. CASE /\ M!Fault({}) \/ (proxy = "lost" /\ M!NoFault)
             /\ record' = M!NoSplitFile /\ UNCHANGED <<proxy, names>>
    BY <2>1, <2>3, MacNone DEF M!Fault, M!NoFault, MacInv, NamesKnown, NamesLost
  <2>4. CASE proxy' = "lost" /\ M!Fault({"body"})
    BY <2>1, <2>4 DEF M!Fault, NamesKnown, NamesLost
  <2> QED
    BY <2>2, <2>3, <2>4 DEF M!BeginsSplit
<1> QED
  BY <1>1, <1>2, <1>3, MacAside DEF MacInv

LEMMA MacAttachesKeeps ==
  ASSUME MacInv, M!Attaches
  PROVE  MacInv'
<1>1. Aside
  <2>1. /\ script' \in MacJobs /\ script'.at \in {"down", "end"}
        /\ script'.tun \in {script.tun, M!NoState}
        /\ script'.what = "none" => script'.at = "end"
        /\ service = "serving" /\ script.at # "final"
    <3>1. /\ script \in MacJobs /\ script.what # "none" /\ service = "serving" /\ script.at # "final"
          /\ {"begin", "down", "split", "clean", "attach", "end"} \subseteq M!JobSteps
      BY MacSteps DEF MacInv, MacTyped, TunnelInv, Placed, M!Attaches
    <3>3. CASE script' = [script EXCEPT !.at = "down", !.then = "end"]
      BY <3>1, <3>3 DEF MacJobs
    <3>4. CASE M!Moves("end")
      BY <3>1, <3>4, MacMoves DEF MacInv
    <3>5. CASE script' = M!NoJob BY <3>1, <3>5, MacNone 
    <3> QED BY <3>3, <3>4, <3>5 DEF M!Attaches
  <2>2. /\ UNCHANGED <<monitor, file, daemons, born, dns, pin, holes, present, router>>
        /\ service' = service /\ pardoned \subseteq pardoned'
    BY DEF M!Attaches, M!systemVars, M!Fault, M!NoFault
  <2> QED BY <2>1, <2>2 DEF Aside
<1>2. MacTyped'
  BY <1>1 DEF Aside, M!Attaches, MacInv, MacTyped
<1>3. NamesKnown'
  <2>1. /\ service' = service /\ service = "serving" /\ names' = names /\ record' = record /\ pardoned \subseteq pardoned'
        /\ proxy' = "attached" \/ proxy' = proxy
    BY DEF M!Attaches, M!Fault, M!NoFault, MacInv, TunnelInv, Placed
  <2>2. service = "serving" /\ proxy = "none" => record = M!NoSplitFile
    BY DEF MacInv, NamesKnown
  <2> QED BY <2>1, <2>2, MacNone DEF MacInv, NamesKnown, NamesLost
<1> QED
  BY <1>1, <1>2, <1>3, MacAside DEF MacInv

LEMMA MacAnsweredKeeps ==
  ASSUME MacInv, M!Answered
  PROVE  MacInv'
<1>4. /\ NamesKnown'
      /\ names' \in [tracked : BOOLEAN, kernel : {"none", "laid", "hole"}]
      /\ record' \in [mode : {"none", "proxy", "direct", "all"}, routes : BOOLEAN]
  <2>1. service = "serving" /\ service' = service /\ pardoned \subseteq pardoned'
    BY DEF M!Answered, M!envVars, MacInv, TunnelInv, Placed
  <2> QED BY <2>1, ProxyStops DEF M!Answered
<1>1. Aside
  <2>1. /\ script' \in MacJobs /\ script'.at \in {"end"}
        /\ script'.tun \in {script.tun, M!NoState}
        /\ script'.what = "none" => script'.at = "end"
        /\ service = "serving" /\ script.at # "final"
    <3>1. /\ script \in MacJobs /\ script.what # "none" /\ service = "serving" /\ script.at # "final"
          /\ {"begin", "down", "split", "clean", "attach", "end"} \subseteq M!JobSteps
      BY MacSteps DEF MacInv, MacTyped, TunnelInv, Placed, M!Answered
    <3> QED BY <3>1, MacNone DEF M!Answered
  <2>2. /\ UNCHANGED <<monitor, file, daemons, born, dns, pin, holes, present, router>>
        /\ service' = service /\ pardoned \subseteq pardoned'
    BY DEF M!Answered, M!systemVars, M!envVars
  <2> QED BY <2>1, <2>2 DEF Aside
<1>2. MacTyped'
  BY <1>1, <1>4 DEF Aside, M!Answered, MacInv, MacTyped
<1>3. NamesKnown'
  BY <1>4
<1> QED
  BY <1>1, <1>2, <1>3, MacAside DEF MacInv

LEMMA MacNameRoutedKeeps ==
  ASSUME MacInv, M!NameRouted
  PROVE  MacInv'
<1>1. Aside
  BY DEF M!NameRouted, M!systemVars, M!envVars, MacInv, TunnelInv, Placed, Aside
<1>2. MacTyped'
  BY DEF M!NameRouted, M!systemVars, M!envVars, MacInv, MacTyped, M!Laid
<1>3. NamesKnown'
  BY DEF M!NameRouted, M!HasSplit, MacInv, NamesKnown
<1> QED
  BY <1>1, <1>2, <1>3, MacAside DEF MacInv

LEMMA MacNameExpiresKeeps ==
  ASSUME MacInv, M!NameExpires
  PROVE  MacInv'
<1>1. Aside
  BY DEF M!NameExpires, M!systemVars, M!envVars, MacInv, TunnelInv, Placed, Aside
<1>2. MacTyped'
  BY MacNone DEF M!NameExpires, M!systemVars, M!envVars, MacInv, MacTyped
<1>3. NamesKnown'
  BY MacNone DEF M!NameExpires, M!HasSplit, MacInv, NamesKnown
<1> QED
  BY <1>1, <1>2, <1>3, MacAside DEF MacInv

LEMMA MacStoreFlushedKeeps ==
  ASSUME MacInv, M!StoreFlushed
  PROVE  MacInv'
<1>1. Aside
  BY DEF M!StoreFlushed, M!systemVars, M!envVars, MacInv, TunnelInv, Placed, Aside
<1>2. MacTyped'
  BY DEF M!StoreFlushed, M!systemVars, M!envVars, MacInv, MacTyped
<1>3. NamesKnown'
  BY DEF M!StoreFlushed, MacInv, NamesKnown, NamesLost
<1> QED
  BY <1>1, <1>2, <1>3, MacAside DEF MacInv

LEMMA MacTunnelMissedKeeps ==
  ASSUME MacInv, M!TunnelMissed
  PROVE  MacInv'
<1>1. Aside
  BY DEF M!TunnelMissed, M!systemVars, M!envVars, MacInv, TunnelInv, Placed, Aside
<1>2. MacTyped'
  BY DEF M!TunnelMissed, M!systemVars, M!envVars, MacInv, MacTyped
<1>3. NamesKnown'
  BY DEF M!TunnelMissed, MacInv, NamesKnown, NamesLost
<1> QED
  BY <1>1, <1>2, <1>3, MacAside DEF MacInv

LEMMA MacStays ==
  ASSUME MacInv, UNCHANGED macos
  PROVE  MacInv'
<1>1. Aside
  BY DEF macos, Aside, MacInv, TunnelInv, Placed
<1>2. MacTyped' /\ NamesKnown'
  BY DEF macos, MacInv, MacTyped, NamesKnown, NamesLost
<1> QED
  BY <1>1, <1>2, MacAside DEF MacInv

LEMMA MacBegins == M!Init => MacInv
<1> SUFFICES ASSUME M!Init PROVE MacInv OBVIOUS
<1>1. /\ user = [n |-> 1, alive |-> TRUE] /\ service = "off" /\ owner = 0 /\ script = M!NoJob
      /\ monitor = M!NoMonitor /\ file = M!NoState /\ daemons = {} /\ born = 0
      /\ dns = [x \in Networks |-> "own"] /\ pin = "none" /\ holes = FALSE /\ proxy = "none"
      /\ names = M!NoNames /\ record = M!NoSplitFile /\ present \subseteq Networks
      /\ router \in Routers /\ pardoned = {}
  BY MacAssumption DEF M!Init
<1>2. MacTyped
  BY <1>1, MacNone DEF MacTyped
<1>3. TunnelInv
  BY <1>1, MacNone DEF TunnelInv, DnsRecorded, DaemonRecorded, PinRecorded, HolesRecorded, FileWhole, ListsOwn,
     Placed, MonitorsFile, MonitorUndoes, MonitorSets, JobsFile, JobUndoes, UpFollows, MonitorFollows,
     Setting, Undoing, Honest
<1>4. NamesKnown
  BY <1>1, MacNone DEF NamesKnown
<1> QED
  BY <1>2, <1>3, <1>4 DEF MacInv

LEMMA MacScripts ==
  ASSUME MacInv, M!Script
  PROVE  MacInv'
  BY MacBeginsKeeps, MacBeginsSplitKeeps, MacAttachesKeeps, MacAnsweredKeeps, MacDownKeeps,
     MacJobUntiesKeeps, MacJobUnroutesKeeps, MacJobStopsKeeps, MacJobForgetsKeeps, MacCleansKeeps,
     MacReapsKeeps, MacStartsKeeps, MacGetsIfaceKeeps, MacUpPinsKeeps, MacTakesTrafficKeeps,
     MacUpListsDnsKeeps, MacUpSetsDnsKeeps, MacForksKeeps, MacFinishesKeeps DEF M!Script

LEMMA MacWatch ==
  ASSUME MacInv, M!Watch
  PROVE  MacInv'
  BY MacMonitorLeavesKeeps, MacMonitorUntiesKeeps, MacMonitorUnroutesKeeps, MacMonitorStopsKeeps,
     MacMonitorForgetsKeeps, MacMonitorHoldsKeeps, MacMonitorHeldKeeps, MacMonitorPinsKeeps,
     MacMonitorListsDnsKeeps, MacMonitorSetsDnsKeeps DEF M!Watch

LEMMA MacKeeps ==
  ASSUME MacInv, [TunnelsNext]_<<windows, macos, part>>
  PROVE  MacInv'
<1>1. CASE M!Next
  BY <1>1, MacScripts, MacWatch,
     MacAppDiesKeeps, MacAppStartsKeeps, MacServiceStartsKeeps, MacReconcilesKeeps,
     MacServiceStopsKeeps, MacServiceKilledKeeps, MacRequestsKeeps, MacTimesOutKeeps,
     MacNameRoutedKeeps, MacNameExpiresKeeps, MacStoreFlushedKeeps, MacTunnelMissedKeeps,
     MacDaemonDiesKeeps, MacNetworkChangesKeeps DEF M!Next
<1>2. CASE UNCHANGED macos
  BY <1>2, MacStays 
<1> QED
  BY <1>1, <1>2 DEF TunnelsNext

LEMMA MacInvariant == TunnelsSpec => []MacInv
<1>1. TunnelsInit => MacInv
  BY MacBegins DEF TunnelsInit
<1>2. MacInv /\ [TunnelsNext]_<<windows, macos, part>> => MacInv'
  BY MacKeeps 
<1> QED
  BY <1>1, <1>2, PTL DEF TunnelsSpec

\* Whoever is killed or timed out, and whenever: state.env names the DNS, the daemon, the route and the
\* black holes that have to be undone, split.json or the proxy the routes of names (awg.sh, save_state,
\* and split_darwin.go).  Excepted by name: a DNS that networksetup refused to put back; what a kill or
\* a second writer of the file cut off from its record; and routes of names after a proxy that could
\* not be started again, a store not yet flushed, or an `up` that forgot its run.
THEOREM UndoIsKept == TunnelsSpec => []UndoIsRecorded
<1>1. MacInv => UndoIsRecorded
  <2> SUFFICES ASSUME MacInv PROVE UndoIsRecorded OBVIOUS
  <2>1. DnsRecorded /\ DaemonRecorded /\ PinRecorded /\ HolesRecorded /\ NamesKnown
    BY DEF MacInv, TunnelInv
  <2> QED
    BY <2>1 DEF UndoIsRecorded, M!UndoIsRecorded, DnsRecorded, DaemonRecorded, PinRecorded, HolesRecorded,
                NamesKnown, NamesLost, Honest
<1> QED
  BY <1>1, MacInvariant, PTL

\* Once the monitor has nothing left to do, the server is reached by the router that is there, and
\* every network service asks the tunnel's DNS (awg.sh, pin_endpoint and monitor_loop).
THEOREM NetworkFollowed == TunnelsSpec => []FollowsNetwork
<1>1. MacInv => FollowsNetwork
  BY DEF MacInv, TunnelInv, MacTyped, MonitorFollows, Obeyed, FollowsNetwork, M!FollowsNetwork
<1> QED
  BY <1>1, MacInvariant, PTL
=============================================================================
