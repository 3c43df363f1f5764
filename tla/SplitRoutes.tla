----------------------------- MODULE SplitRoutes -----------------------------
(***************************************************************************)
(* The routes of a connection with rules («Маршрутизация»), on Linux: the  *)
(* set of routes (helper/internal/splitdns/routes.go), the DNS proxy that  *)
(* leases them (proxy.go), and what the service makes of both              *)
(* (helper/split_linux.go).                                                *)
(*                                                                         *)
(* Traffic goes one way by default and the rules send some of it the other *)
(* way.  An `ip` rule and the tunnel's own DNS are pinned for the run; an  *)
(* address of a listed name is leased when a query for the name is         *)
(* answered, and again with every later answer.  Queries are answered      *)
(* concurrently: each call of the set is one step, under its mutex, and    *)
(* anything may happen between the addresses of one answer.  The daemon    *)
(* may die: what its interface carried is then black-holed, without the    *)
(* mutex, while the queries go on.                                         *)
(*                                                                         *)
(* Time passes in ticks, in units of the longest a query may take.         *)
(* Addresses stand for networks of one address: wider ones meet no lease.  *)
(***************************************************************************)
EXTENDS Naturals, FiniteSets

CONSTANTS
    Hosts,          \* addresses
    Skipped,        \* the tunnel's DNS and the server's endpoint: never routed by name
    Slots,          \* queries that may be in flight
    MaxRoutes,      \* addresses that may be leased at a time
    RouteTTL,       \* how long a lease lasts after the last answer, in ticks
    AnswerTTL,      \* how long a program may use an answer, in ticks
    MaxAddresses    \* bound: addresses in one answer

ASSUME SkippedAssumption == Skipped \subseteq Hosts
ASSUME MaxAssumption == MaxRoutes \in Nat \ {0}
\* An answer is used for less long than its routes last, by more than a query takes.
ASSUME TTLAssumption == RouteTTL \in Nat /\ AnswerTTL \in Nat /\ AnswerTTL < RouteTTL

VARIABLES
    final,          \* the default way
    phase,          \* "starting", "serving", "closing" or "closed"
    pinned,         \* RouteSet.pinned: the way of each address, or "none"
    seen, since,    \* RouteSet.seen: the leased addresses, ticks since their last answer
    queries,        \* what each goroutine of Handle has left to lease, and has leased
    system,         \* the kernel's: rules to the main table, and its routes
    link,           \* the tunnel's interface is there
    dead,           \* linuxRouter.dead
    hold, toHold,   \* failClosed: where it stands, and what it has still to black-hole
    told,           \* history: ticks since a program was given the address of a leased route
    unlaid,         \* history: the kernel refused a black hole for it
    late            \* history: black-holed after its lease had gone

setVars == <<pinned, seen, since, system>>
holdVars == <<dead, hold, toHold, unlaid, late>>
vars == <<final, phase, setVars, queries, link, holdVars, told>>

Ways == {"tunnel", "direct", "block"}
\* Where a rule about names sends what it names, unless it blocks it: a name that takes the
\* default way gets no route, a blocked one no address.
Other == IF final = "tunnel" THEN "direct" ELSE "tunnel"

NotTold == AnswerTTL + 1
Query == [busy : BOOLEAN, left : SUBSET Hosts, done : SUBSET Hosts, age : 0 .. 1]
NoQuery == [busy |-> FALSE, left |-> {}, done |-> {}, age |-> 0]

TypeOK ==
    /\ final \in {"tunnel", "direct"}
    /\ phase \in {"starting", "serving", "closing", "closed"}
    /\ pinned \in [Hosts -> Ways \cup {"none"}]
    /\ seen \subseteq Hosts
    /\ since \in [Hosts -> 0 .. RouteTTL + 1]
    /\ queries \in [Slots -> Query]
    /\ system \in [rules : SUBSET Hosts, main : [Hosts -> {"none", "tunnel", "hole"}]]
    /\ link \in BOOLEAN /\ dead \in BOOLEAN
    /\ hold \in {"no", "marked", "laying", "done"}
    /\ toHold \subseteq Hosts
    /\ told \in [Hosts -> 0 .. NotTold]
    /\ unlaid \subseteq Hosts /\ late \subseteq Hosts

Init ==
    /\ final \in {"tunnel", "direct"}
    /\ phase = "starting"
    /\ pinned = [h \in Hosts |-> "none"]
    /\ seen = {} /\ since = [h \in Hosts |-> 0]
    /\ queries = [q \in Slots |-> NoQuery]
    /\ system = [rules |-> {}, main |-> [h \in Hosts |-> "none"]]
    /\ link = TRUE /\ dead = FALSE
    /\ hold = "no" /\ toHold = {}
    /\ told = [h \in Hosts |-> NotTold]
    /\ unlaid = {} /\ late = {}

----------------------------------------------------------------------------
(* The router *)

\* Plausible slips in the operators below: each shows that a property notices.
SlipOldAge(h) == since                              \* an answer again does not renew the lease
SlipPinsOnly(way) == {h \in Hosts : pinned[h] = way} \* Entries without the leased ones

\* What a route to one address is in the main table: on the interface, or a black hole once
\* the interface is gone.
Kind(way) == IF way = "block" \/ dead THEN "hole" ELSE "tunnel"

\* Whether the kernel can take the route: a rule or a black hole always, one on an interface
\* while it is there.
Layable(way) == way = "direct" \/ Kind(way) = "hole" \/ link

\* A rule that is there already is fine, and a route replaces the one there was.
Routed(sys, h, way) ==
    IF way = "direct" THEN [sys EXCEPT !.rules = @ \cup {h}]
    ELSE [sys EXCEPT !.main[h] = Kind(way)]

\* Only the very rule, or a route of that kind, is deleted; nothing there is no matter.
Unrouted(sys, gone, way) ==
    IF way = "direct" THEN [sys EXCEPT !.rules = @ \ gone]
    ELSE [sys EXCEPT !.main = [h \in Hosts |-> IF h \in gone /\ @[h] = Kind(way)
                                               THEN "none" ELSE @[h]]]

----------------------------------------------------------------------------
(* startSplit *)

\* Pin(h, way): the tunnel's DNS goes into the tunnel where the default would not send it,
\* an `ip` rule where the default does not.  A way pinned before gives place.
Pin(h, way) ==
    LET before == pinned[h]
        free == IF before = "none" THEN system ELSE Unrouted(system, {h}, before) IN
    /\ phase = "starting"
    /\ way \in {Other, "block"}
    /\ before # way
    /\ \/ /\ Layable(way)
          /\ system' = Routed(free, h, way)
          /\ pinned' = [pinned EXCEPT ![h] = way]
       \/ /\ system' = free
          /\ pinned' = [pinned EXCEPT ![h] = "none"]
    /\ UNCHANGED <<final, phase, seen, since, queries, link, holdVars, told>>

Serves ==
    /\ phase = "starting"
    /\ phase' = "serving"
    /\ UNCHANGED <<final, setVars, queries, link, holdVars, told>>

----------------------------------------------------------------------------
(* The proxy *)

\* A query for a listed name is let in and will be answered with these addresses; with none,
\* it fails or needs no route.
Asked(q) ==
    /\ phase = "serving"
    /\ ~queries[q].busy
    /\ \E addresses \in SUBSET Hosts :
          /\ Cardinality(addresses) <= MaxAddresses
          /\ queries' = [queries EXCEPT ![q] = [NoQuery EXCEPT !.busy = TRUE, !.left = addresses]]
    /\ UNCHANGED <<final, phase, setVars, link, holdVars, told>>

Skips(h) == h \in Skipped
Renewed(h) == [since EXCEPT ![h] = 0]
Without(gone) == [h \in Hosts |-> IF h \in gone THEN 0 ELSE since[h]]

\* evictOldestLocked: what goes when the set is full.  Answers of one tick are as old.
Oldest == {h \in seen : \A k \in seen : since[k] <= since[h]}
Evicted == IF Cardinality(seen) < MaxRoutes THEN {{}} ELSE {{h} : h \in Oldest}

\* Ensure, for one address of the answer; a route that is refused leaves the eviction made.
Ensure(q, h) ==
    \/ /\ Skips(h)
       /\ queries' = [queries EXCEPT ![q].left = @ \ {h}]
       /\ UNCHANGED <<seen, since, system, told>>
    \/ /\ ~Skips(h) /\ h \in seen
       /\ since' = Renewed(h)
       /\ queries' = [queries EXCEPT ![q].left = @ \ {h}, ![q].done = @ \cup {h}]
       /\ UNCHANGED <<seen, system, told>>
    \/ /\ ~Skips(h) /\ h \notin seen
       /\ \E gone \in Evicted :
             LET room == Unrouted(system, gone, Other) IN
             /\ told' = [k \in Hosts |-> IF k \in gone THEN NotTold ELSE told[k]]
             /\ \/ /\ Layable(Other)
                   /\ system' = Routed(room, h, Other)
                   /\ seen' = (seen \ gone) \cup {h}
                   /\ since' = [Without(gone) EXCEPT ![h] = 0]
                   /\ queries' = [queries EXCEPT ![q].left = @ \ {h}, ![q].done = @ \cup {h}]
                \/ /\ system' = room
                   /\ seen' = seen \ gone
                   /\ since' = Without(gone)
                   /\ queries' = [queries EXCEPT ![q].left = @ \ {h}]

Diverts(q) ==
    /\ \E h \in queries[q].left : Ensure(q, h)
    /\ UNCHANGED <<final, phase, pinned, link, holdVars>>

\* The answer is handed back.  An address evicted meanwhile, by the answers to others, is not
\* promised a route.
Answers(q) ==
    LET query == queries[q] IN
    /\ query.busy /\ query.left = {}
    /\ queries' = [queries EXCEPT ![q] = NoQuery]
    /\ told' = [h \in Hosts |-> IF h \in query.done \cap seen THEN 0 ELSE told[h]]
    /\ UNCHANGED <<final, phase, setVars, link, holdVars>>

\* Expire, each minute until the loop sees that the proxy is closed.
Expire ==
    LET gone == {h \in seen : since[h] > RouteTTL} IN
    /\ phase \in {"serving", "closing"}
    /\ gone # {}
    /\ system' = Unrouted(system, gone, Other)
    /\ seen' = seen \ gone
    /\ since' = Without(gone)
    /\ UNCHANGED <<final, phase, pinned, queries, link, holdVars, told>>

Aged(age) == IF age > RouteTTL THEN age ELSE age + 1

\* A query does not last longer than a tick: its exchanges are given up on.
Tick ==
    /\ phase \in {"serving", "closing"}
    /\ \A q \in Slots : queries[q].age = 0
    /\ since' = [h \in Hosts |-> IF h \in seen THEN Aged(since[h]) ELSE 0]
    /\ told' = [h \in Hosts |-> IF told[h] = NotTold THEN NotTold ELSE told[h] + 1]
    /\ queries' = [q \in Slots |-> [queries[q] EXCEPT !.age = IF queries[q].busy THEN 1 ELSE 0]]
    /\ UNCHANGED <<final, phase, pinned, seen, system, link, holdVars>>

----------------------------------------------------------------------------
(* The daemon's death, and failClosed *)

\* The interface goes and takes its routes along.
DaemonDies ==
    /\ link /\ phase # "closed"
    /\ link' = FALSE
    /\ system' = [system EXCEPT !.main = [h \in Hosts |-> IF @[h] = "tunnel" THEN "none" ELSE @[h]]]
    /\ UNCHANGED <<final, phase, pinned, seen, since, queries, holdVars, told>>

Marks ==
    /\ phase = "serving" /\ ~link /\ hold = "no"
    /\ dead' = TRUE
    /\ hold' = "marked"
    /\ UNCHANGED <<final, phase, setVars, queries, link, toHold, unlaid, late, told>>

\* Entries of a way: taken under the mutex, used without it.
Entries(way) == {h \in seen : way = Other} \cup {h \in Hosts : pinned[h] = way}

Lists ==
    /\ hold = "marked"
    /\ hold' = "laying"
    /\ toHold' = Entries("tunnel")
    /\ UNCHANGED <<final, phase, setVars, queries, link, dead, unlaid, late, told>>

Lays(h) ==
    /\ hold = "laying" /\ h \in toHold
    /\ toHold' = toHold \ {h}
    /\ \/ /\ system' = Routed(system, h, "tunnel")
          /\ late' = IF h \in Entries("tunnel") THEN late ELSE late \cup {h}
          /\ UNCHANGED unlaid
       \/ /\ unlaid' = unlaid \cup {h}
          /\ UNCHANGED <<system, late>>
    /\ UNCHANGED <<final, phase, pinned, seen, since, queries, link, dead, hold, told>>

Holds ==
    /\ hold = "laying" /\ toHold = {}
    /\ hold' = "done"
    /\ UNCHANGED <<final, phase, setVars, queries, link, dead, toHold, unlaid, late, told>>

----------------------------------------------------------------------------
(* stop *)

\* The proxy stops listening, unless the service is still in failClosed: both have c.mu.
CloseBegins ==
    /\ phase = "serving"
    /\ hold \in {"no", "done"}
    /\ phase' = "closing"
    /\ UNCHANGED <<final, setVars, queries, link, holdVars, told>>

Waited == phase = "closing" /\ \A q \in Slots : ~queries[q].busy

\* Everything that was leased goes, then everything that was pinned; a start that failed has
\* pins only.
Closed ==
    LET leases == Unrouted(system, seen, Other)
        PinnedTo(way) == {h \in Hosts : pinned[h] = way} IN
    /\ Waited \/ phase = "starting"
    /\ phase' = "closed"
    /\ system' = Unrouted(Unrouted(leases, PinnedTo(Other), Other), PinnedTo("block"), "block")
    /\ seen' = {} /\ since' = [h \in Hosts |-> 0]
    /\ pinned' = [h \in Hosts |-> "none"]
    /\ told' = [h \in Hosts |-> NotTold]
    /\ UNCHANGED <<final, queries, link, holdVars>>

Next ==
    \/ \E h \in Hosts, way \in Ways : Pin(h, way)
    \/ Serves
    \/ \E q \in Slots : Asked(q) \/ Diverts(q) \/ Answers(q)
    \/ Expire \/ Tick
    \/ DaemonDies \/ Marks \/ Lists \/ Holds
    \/ \E h \in Hosts : Lays(h)
    \/ CloseBegins \/ Closed

Spec == Init /\ [][Next]_vars

----------------------------------------------------------------------------
(* Safety *)

\* The way that traffic to an address takes: its rule leads to the main table, and past the
\* routes there it leaves by the physical network.
WayTo(h) ==
    CASE system.main[h] = "hole" -> "block"
      [] system.main[h] = "tunnel" -> "tunnel"
      [] OTHER -> IF h \in system.rules THEN "direct" ELSE final

\* Whether `way` is kept to: once the tunnel is gone, what it carried is blocked.
Kept(h, way) == WayTo(h) = (IF way = "tunnel" /\ ~link THEN "block" ELSE way)

\* Between the death of the tunnel and the end of failClosed nothing is promised.
Steady == link \/ hold = "done"

\* An address that a program was given goes where the rule sends its name, for as long as the
\* program may use the answer: whichever other names share it, however often it is asked for,
\* expired, or asked for again while the tunnel dies.  Addresses evicted from a full set, and
\* those that an `ip` rule names, are excepted.
AnsweredIsRouted ==
    phase = "serving" /\ Steady =>
        \A h \in Hosts \ unlaid :
            told[h] <= AnswerTTL /\ pinned[h] = "none" => Kept(h, Other)

\* The way of the tunnel's DNS does not depend on what names resolve to: the pin stands until
\* the set is closed, although an answer may hold that address.
SkippedStayPinned ==
    phase = "serving" /\ Steady =>
        \A h \in Skipped \ unlaid : pinned[h] # "none" => Kept(h, pinned[h])

\* After failClosed nothing that a rule sends into the tunnel takes the physical network, new
\* leases included.
HeldWhenDead ==
    phase = "serving" /\ hold = "done" =>
        \A h \in seen \ unlaid : Other = "tunnel" => WayTo(h) = "block"

\* A closed set leaves nothing in the system («so nothing outlives it»), but for an address
\* that failClosed black-holed after its lease had gone.
ClosedIsClean ==
    phase = "closed" =>
        system.rules = {} /\ \A h \in Hosts \ late : system.main[h] = "none"

----------------------------------------------------------------------------
(* What comments say and the code does not do *)

\* routes.go:78: pinned networks are "not subject to the TTL or the cap".  Said of the pins
\* that agree with the rules about names, which have only the TTL and the cap to fear.
PinsStand ==
    phase = "serving" /\ Steady =>
        \A h \in Hosts \ unlaid : pinned[h] = Other => Kept(h, Other)

\* routes.go:68: the set is kept "so nothing outlives it".
NothingOutlives ==
    phase = "closed" => system.rules = {} /\ \A h \in Hosts : system.main[h] = "none"
=============================================================================
