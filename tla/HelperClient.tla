---------------------------- MODULE HelperClient ----------------------------
(***************************************************************************)
(* The application's way to the service on Windows and Linux: one request  *)
(* per connection, a service that is started when a request finds no pipe  *)
(* (HelperClient, tunnel/windows/helperClient.ts), and the `hello` of the  *)
(* controllers, asked once and shared (windowsHelperController.ts,         *)
(* linuxHelperController.ts).                                              *)
(*                                                                         *)
(* Calls come from the polls, the operation on the tunnel, the kept keys,  *)
(* the probes and the journal's first line, all at once.  The service may  *)
(* be a previous instance on its way out, may die at any moment, and may   *)
(* come back as another build.                                             *)
(***************************************************************************)
EXTENDS Naturals, FiniteSets

CONSTANTS
    Calls,      \* bound: calls under way
    None,
    Tries,      \* bound: sends of one request after a start (START_TIMEOUT_MS / RETRY_MS)
    MaxCalls,   \* bound: calls made
    MaxDeaths   \* bound: deaths of a service that runs

ASSUME BoundsAssumption == Tries \in Nat \ {0} /\ MaxCalls \in Nat /\ MaxDeaths \in Nat
ASSUME CallsAssumption == None \notin Calls /\ "ours" \notin Calls /\ IsFiniteSet(Calls)

VARIABLES
    call,       \* each call: request() and the controller's method around it
    starting,   \* the start that a request which finds no pipe joins
    starts,     \* the calls of startService() under way
    engine,     \* the `hello` remembered: None, the call that asks, or "ours"
    svc,        \* the service, and whether it speaks this application's protocol
    made, deaths

vars == <<call, starting, starts, engine, svc, made, deaths>>

NoCall == [op |-> "none", pc |-> "free", loop |-> FALSE, n |-> 0, on |-> 0, ok |-> FALSE, acts |-> 0]
New(op, pc) == [NoCall EXCEPT !.op = op, !.pc = pc]
\* A start nobody waits for any more gives its number back.
Starts == 1 .. Cardinality(Calls) + 1
Free == {p \in Starts : p # starting /\ \A c \in Calls : call[c].on # p}

TypeOK ==
    /\ \A c \in Calls :
         /\ call[c].op \in {"none", "hello", "up", "other"}
         /\ call[c].pc \in {"free", "hello", "ask", "refused", "start", "open", "acted", "closed"}
         /\ call[c].n \in 0 .. Tries /\ call[c].on \in Starts \cup {0} /\ call[c].acts \in Nat
         /\ call[c].pc = "start" => ~call[c].loop /\ call[c].on # 0
         /\ call[c].n > 0 => call[c].loop
    /\ starting \in Starts \cup {0}
    /\ starts \subseteq Starts
    /\ engine \in Calls \cup {None, "ours"}
    /\ svc \in [st : {"off", "coming", "up", "going"}, ours : BOOLEAN]
    /\ made \in 0 .. MaxCalls /\ deaths \in 0 .. MaxDeaths

Init ==
    /\ call = [c \in Calls |-> NoCall]
    /\ starting = 0 /\ starts = {}
    /\ engine = None
    /\ svc \in [st : {"off", "up", "going"}, ours : BOOLEAN]
    /\ made = 0 /\ deaths = 0

----------------------------------------------------------------------------
(* Calls                                                                   *)

\* hello(): the one remembered, or a request of its own.
Hello(c) == engine = None /\ engine' = c /\ call' = [call EXCEPT ![c] = New("hello", "ask")]

\* up(): nothing is sent before `hello` has been answered.
Up(c) ==
    \/ engine = "ours" /\ call' = [call EXCEPT ![c] = New("up", "ask")] /\ UNCHANGED engine
    \/ engine \in Calls /\ call' = [call EXCEPT ![c] = New("up", "hello")] /\ UNCHANGED engine
    \/ \E h \in Calls \ {c} :
         /\ engine = None /\ call[h] = NoCall
         /\ engine' = h
         /\ call' = [call EXCEPT ![c] = New("up", "hello"), ![h] = New("hello", "ask")]

\* stats, down, status, cleanup, netinfo, the kept keys.
Other(c) == call' = [call EXCEPT ![c] = New("other", "ask")] /\ UNCHANGED engine

Makes(c) ==
    /\ call[c] = NoCall /\ made < MaxCalls
    /\ made' = made + 1
    /\ Hello(c) \/ Up(c) \/ Other(c)
    /\ UNCHANGED <<starting, starts, svc, deaths>>

\* These calls are over.  A `hello` among them is settled, for those who wait for it: kept, or
\* asked anew next time.
Over(gone, ok) ==
    LET said == \E h \in gone : call[h].op = "hello"
    IN /\ engine' = IF ~said THEN engine ELSE IF ok THEN "ours" ELSE None
       /\ call' = [c \in Calls |->
                     IF c \in gone \/ (said /\ ~ok /\ call[c].pc = "hello") THEN NoCall
                     ELSE IF said /\ call[c].pc = "hello" THEN [call[c] EXCEPT !.pc = "ask"] ELSE call[c]]

\* However a request of a start ends, the start is forgotten: a later one makes its own.
SlipForgets(c, ok) == starting' = IF call[c].on # 0 /\ ok THEN 0 ELSE starting
Forgets(c, ok) == starting' = IF call[c].on # 0 THEN 0 ELSE starting

Ends(c, ok) == Over({c}, ok) /\ Forgets(c, ok) /\ UNCHANGED starts

----------------------------------------------------------------------------
(* One request                                                             *)

At(c, pc) == call[c].pc = pc
Awaits(c, p) ==
    call' = [call EXCEPT ![c].on = p, ![c].pc = IF p \in starts' THEN "start" ELSE "ask", ![c].loop = p \notin starts']
Goes(c, pc) == call' = [call EXCEPT ![c].pc = pc]

Connects(c) ==
    /\ At(c, "ask")
    /\ Goes(c, IF svc.st = "up" THEN "open" ELSE "refused")
    /\ UNCHANGED <<starting, starts, engine, svc, made, deaths>>

\* No pipe, for the first time: the start under way, one that was accepted and whose service
\* has not answered yet, or one of its own.
Joins(c) ==
    /\ At(c, "refused") /\ ~call[c].loop
    /\ LET own == CHOOSE p \in Free : TRUE
       IN \/ starting = 0 /\ starting' = own /\ starts' = starts \cup {own} /\ Awaits(c, own)
          \/ starting # 0 /\ UNCHANGED <<starting, starts>> /\ Awaits(c, starting)
    /\ UNCHANGED <<engine, svc, made, deaths>>

\* Still no pipe: again in a moment, until its time is up.
MayAsk(c) == call[c].n < Tries
Waits(c) ==
    /\ At(c, "refused") /\ call[c].loop
    /\ \/ /\ MayAsk(c)
          /\ call' = [call EXCEPT ![c].pc = "ask", ![c].n = @ + 1]
          /\ UNCHANGED <<starting, starts, engine>>
       \/ Ends(c, FALSE)
    /\ UNCHANGED <<svc, made, deaths>>

\* The service reads the request; to another protocol's it answers `hello` alone.
Acts(c) ==
    /\ At(c, "open") /\ svc.st = "up"
    /\ call' = [call EXCEPT ![c].pc = "acted", ![c].ok = svc.ours,
                            ![c].acts = IF svc.ours THEN @ + 1 ELSE @]
    /\ UNCHANGED <<starting, starts, engine, svc, made, deaths>>

Answered(c) ==
    /\ At(c, "acted")
    /\ Ends(c, call[c].ok)
    /\ UNCHANGED <<svc, made, deaths>>

TimesOut(c) ==
    /\ At(c, "open") \/ At(c, "acted")
    /\ Ends(c, FALSE)
    /\ UNCHANGED <<svc, made, deaths>>

\* Slip: a request whose connection was closed is sent again, like one that found no pipe.
SlipHangsUp(c) == Goes(c, "refused") /\ UNCHANGED <<starting, starts, engine>>
\* Closed without an answer: whether it was acted on is not known, so it is not sent again.
HangsUp(c) == Ends(c, FALSE)
Closed(c) == At(c, "closed") /\ HangsUp(c) /\ UNCHANGED <<svc, made, deaths>>

----------------------------------------------------------------------------
(* Starting the service                                                    *)

\* sc start, or pkexec, is accepted: the service is launched, unless it runs already or is not
\* gone yet (Windows says "already running" then).
Accepted == IF svc.st = "off" THEN svc' \in [st : {"coming"}, ours : BOOLEAN] ELSE UNCHANGED svc

\* Refused for good, or still refused when time is up, the start fails; refused meanwhile, it is
\* tried again.  All who wait for it hear at once.
Attempts(p) ==
    /\ p \in starts
    /\ starts' = starts \ {p}
    /\ LET waiting == {c \in Calls : call[c].pc = "start" /\ call[c].on = p}
       IN \/ /\ Accepted
             /\ call' = [c \in Calls |-> IF c \in waiting THEN [call[c] EXCEPT !.pc = "ask", !.loop = TRUE] ELSE call[c]]
             /\ UNCHANGED <<starting, engine>>
          \/ Over(waiting, FALSE) /\ starting' = 0 /\ UNCHANGED svc
    /\ UNCHANGED <<made, deaths>>

Hung == [c \in Calls |-> IF call[c].pc \in {"open", "acted"} THEN [call[c] EXCEPT !.pc = "closed"] ELSE call[c]]

Service ==
    /\ \/ svc.st = "coming" /\ svc' \in {[svc EXCEPT !.st = "up"], [svc EXCEPT !.st = "off"]} /\ UNCHANGED <<call, deaths>>
       \/ svc.st = "going" /\ svc' = [svc EXCEPT !.st = "off"] /\ UNCHANGED <<call, deaths>>
       \/ /\ svc.st = "up" /\ deaths < MaxDeaths
          /\ deaths' = deaths + 1
          /\ svc' \in {[svc EXCEPT !.st = "going"], [svc EXCEPT !.st = "off"]}
          /\ call' = Hung
    /\ UNCHANGED <<starting, starts, engine, made>>

----------------------------------------------------------------------------

Request(c) ==
    Connects(c) \/ Joins(c) \/ Waits(c) \/ Acts(c) \/ Answered(c) \/ TimesOut(c) \/ Closed(c)

Next == Service \/ (\E c \in Calls : Makes(c) \/ Request(c)) \/ (\E p \in Starts : Attempts(p))

\* Every send has a time limit, and so has the program that starts the service (execFile).
Fairness == (\A c \in Calls : WF_vars(Request(c))) /\ (\A p \in Starts : WF_vars(Attempts(p)))

Spec == Init /\ [][Next]_vars /\ Fairness
----------------------------------------------------------------------------
(* Properties                                                              *)

\* A request is sent again only when nobody read it: whatever starts and dies meanwhile, the
\* service carries out an `up` or a `down` at most once (helperClient.ts:90).
HandledOnce == \A c \in Calls : call[c].acts <= 1

\* Nobody waits for what will not come (helperClient.ts:78, linuxHelperController.ts): a call
\* that waits for a start waits for one under way, an `up` that waits for a `hello` for the one
\* that is asked; and what is remembered for those to come, a start or a `hello`, is that of a
\* call that has not ended.  It need not be a start of the service there is now: see OneStart.
SharesAreLive ==
    /\ \A c \in Calls : call[c].pc = "start" => call[c].on \in starts
    /\ \A c \in Calls : call[c].pc = "hello" => engine \in Calls
    /\ \A c \in Calls : call[c].op = "hello" <=> engine = c
    /\ starting # 0 => \E c \in Calls : call[c].on = starting

\* "One start, not one each" (helperClient.ts:57).  Not so: every request that ends forgets the
\* start that is remembered (:89, :95), be it a newer one than its own, and the next request that
\* finds no pipe makes another beside it.
OneStart == Cardinality(starts) <= 1

\* Every call ends, whoever it waits for (the start, the `hello` of another): the manager's one
\* operation, which holds its lock over these calls, is released.
CallEnds == \A c \in Calls : call[c].pc # "free" ~> call[c].pc = "free"
=============================================================================
