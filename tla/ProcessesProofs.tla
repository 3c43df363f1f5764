--------------------------- MODULE ProcessesProofs ---------------------------
(***************************************************************************)
(* The application's processes, for any number of calls and of processes.  *)
(* Nobody waits for what will not come, and a request is carried out at    *)
(* most once; of the processes on one desktop at most one steers the       *)
(* tunnel, because whoever runs the application and is not on its way out  *)
(* holds the single-instance lock.                                         *)
(***************************************************************************)
EXTENDS MCProcesses, Integers, FiniteSetTheorems, TLAPS

Call == [op : {"none", "hello", "up", "other"},
         pc : {"free", "hello", "ask", "refused", "start", "open", "acted", "closed"},
         loop : BOOLEAN, n : 0 .. Tries, on : Starts \cup {0}, ok : BOOLEAN, acts : 0 .. 1]

\* A request that the service may yet read has not been read: it is sent again only when there
\* was no pipe.
Unread(r) == r.pc \notin {"acted", "closed"} => r.acts = 0

\* An `up` that waits for a `hello` has sent nothing, and joined no start.
WaitsForHello(r) == r.pc = "hello" => r.op = "up" /\ r.on = 0

CallsInv ==
    /\ call \in [Calls -> Call]
    /\ starting \in Starts \cup {0}
    /\ starts \subseteq Starts
    /\ svc \in [st : {"off", "coming", "up", "going"}, ours : BOOLEAN]
    /\ \A c \in Calls : Unread(call[c]) /\ WaitsForHello(call[c])
    /\ SharesAreLive

\* Whoever runs the application, or is about to, and does not quit, owns the lock.
OwnsLock ==
    /\ \A p \in S!Apps : app[p].at = "app" => app[p].primary = "got"
    /\ \A p \in S!Apps : S!Alive(p) /\ app[p].primary = "got" /\ ~app[p].quitting => lock = p

ShellInv == S!TypeOK /\ OwnsLock

-----------------------------------------------------------------------------
(* Calls *)

LEMMA StartsFinite == IsFiniteSet(Starts) /\ Starts \subseteq Nat \ {0}
                      /\ Cardinality(Starts) = Cardinality(Calls) + 1
<1>1. Cardinality(Calls) \in Nat
  BY CallsAssumption, FS_CardinalityType
<1>2. IsFiniteSet(1 .. Cardinality(Calls) + 1)
      /\ Cardinality(1 .. Cardinality(Calls) + 1) = Cardinality(Calls) + 1
  <2>1. 1 \in Int /\ Cardinality(Calls) + 1 \in Int /\ ~(1 > Cardinality(Calls) + 1)
    BY <1>1
  <2> QED
    BY <1>1, <2>1, FS_Interval
<1> QED
  BY <1>1, <1>2 DEF Starts

\* There is always a number for a start of one's own: each is held by a call at most.
LEMMA FreeStart ==
  ASSUME call \in [Calls -> Call], starting = 0
  PROVE  Free # {}
<1> SUFFICES ASSUME Free = {} PROVE FALSE
  OBVIOUS
<1>1. \A p \in Starts : \E c \in Calls : call[c].on = p
  BY StartsFinite DEF Free
<1> DEFINE holder == [p \in Starts |-> CHOOSE c \in Calls : call[c].on = p]
<1>2. \A p \in Starts : holder[p] \in Calls /\ call[holder[p]].on = p
  BY <1>1
<1>3. holder \in [Starts -> Calls]
  BY <1>2
<1>4. Cardinality(Calls) < Cardinality(Starts) /\ Cardinality(Calls) \in Nat
  BY StartsFinite, CallsAssumption, FS_CardinalityType
<1> HIDE DEF holder
<1>5. \E p, q \in Starts : p # q /\ holder[p] = holder[q]
  <2>1. IsFiniteSet(Starts) /\ IsFiniteSet(Calls)
    BY StartsFinite, CallsAssumption
  <2> QED
    BY <1>3, <1>4, <2>1, FS_PigeonHole, Zenon
<1> QED
  BY <1>2, <1>5

LEMMA NewCall ==
  /\ NoCall \in Call /\ NoCall.op = "none" /\ NoCall.on = 0 /\ NoCall.pc = "free" /\ NoCall.acts = 0
  /\ \A op \in {"hello", "up", "other"} : \A pc \in {"ask", "hello"} :
        /\ New(op, pc) \in Call /\ New(op, pc).op = op /\ New(op, pc).pc = pc
        /\ New(op, pc).on = 0 /\ New(op, pc).acts = 0
<1>1. NoCall \in Call
  BY BoundsAssumption DEF NoCall, Call
<1>2. NoCall.op = "none" /\ NoCall.on = 0 /\ NoCall.pc = "free" /\ NoCall.acts = 0
  BY DEF NoCall
<1> QED
  BY <1>1, <1>2 DEF New, Call

LEMMA CallsInit == Init => CallsInv
<1> SUFFICES ASSUME Init PROVE CallsInv
  OBVIOUS
<1>1. call \in [Calls -> Call] /\ \A c \in Calls : Unread(call[c]) /\ WaitsForHello(call[c])
  BY NewCall DEF Init, Unread, WaitsForHello
<1> QED
  <2>1. /\ starting = 0 /\ starts = {} /\ engine = None /\ svc \in [st : {"off", "coming", "up", "going"}, ours : BOOLEAN]
        /\ \A c \in Calls : call[c].op = "none" /\ call[c].pc = "free" /\ call[c].on = 0
    BY NewCall DEF Init
  <2>2. SharesAreLive
    BY <2>1, CallsAssumption DEF SharesAreLive
  <2> QED
    BY <1>1, <2>1, <2>2 DEF CallsInv

\* One call goes on with its request, and shares what it shared.
LEMMA CallMoves ==
  ASSUME CallsInv, NEW c \in Calls, NEW r \in Call, call' = [call EXCEPT ![c] = r],
         Unread(r), WaitsForHello(r), r.op = call[c].op, r.on = call[c].on, r.pc \notin {"hello", "start"},
         UNCHANGED <<starting, starts, engine, svc>>
  PROVE  CallsInv'
<1>1. /\ call'[c] = r /\ \A d \in Calls \ {c} : call'[d] = call[d]
      /\ call' \in [Calls -> Call]
  BY DEF CallsInv
<1>2. \A d \in Calls : Unread(call'[d]) /\ WaitsForHello(call'[d])
  BY <1>1 DEF CallsInv
<1>3. \A d \in Calls : call'[d].op = call[d].op /\ call'[d].on = call[d].on
  BY <1>1
<1>4. \A d \in Calls : call'[d].pc \in {"hello", "start"} => call'[d].pc = call[d].pc
  BY <1>1
<1>5. SharesAreLive'
  BY <1>3, <1>4 DEF CallsInv, SharesAreLive
<1> QED
  BY <1>1, <1>2, <1>5 DEF CallsInv

\* Calls that end settle the `hello` among them; no other call leaves the start it waits for.
LEMMA OverSettles ==
  ASSUME CallsInv, NEW gone \in SUBSET Calls, NEW ok, Over(gone, ok)
  PROVE  /\ call' \in [Calls -> Call]
         /\ \A c \in Calls : Unread(call'[c]) /\ WaitsForHello(call'[c])
         /\ \A c \in Calls : call'[c].op = "hello" <=> engine' = c
         /\ \A c \in Calls : call'[c].pc = "hello" => engine' \in Calls
         /\ \A c \in Calls : call'[c].pc = "start" => c \notin gone /\ call[c].pc = "start" /\ call'[c].on = call[c].on
         /\ \A c \in Calls \ gone : call[c].on # 0 => call'[c].on = call[c].on
<1> DEFINE said == \E h \in gone : call[h].op = "hello"
<1>1. /\ engine' = IF ~said THEN engine ELSE IF ok THEN "ours" ELSE None
      /\ call' = [c \in Calls |->
                    IF c \in gone \/ (said /\ ~ok /\ call[c].pc = "hello") THEN NoCall
                    ELSE IF said /\ call[c].pc = "hello" THEN [call[c] EXCEPT !.pc = "ask"] ELSE call[c]]
  BY DEF Over
<1>2. \A c \in Calls : \/ call'[c] = NoCall /\ (c \in gone \/ call[c].on = 0)
                       \/ call'[c] = [call[c] EXCEPT !.pc = "ask"] /\ call[c].pc = "hello"
                       \/ call'[c] = call[c]
  BY <1>1 DEF CallsInv, WaitsForHello
<1>3. \A c \in Calls : /\ [call[c] EXCEPT !.pc = "ask"] \in Call
                       /\ [call[c] EXCEPT !.pc = "ask"].pc = "ask"
                       /\ [call[c] EXCEPT !.pc = "ask"].acts = call[c].acts
                       /\ [call[c] EXCEPT !.pc = "ask"].on = call[c].on
                       /\ [call[c] EXCEPT !.pc = "ask"].op = call[c].op
  BY DEF CallsInv, Call
<1>4. call' \in [Calls -> Call]
  BY <1>1, <1>3, NewCall DEF CallsInv
<1>5. ASSUME NEW c \in Calls PROVE Unread(call'[c]) /\ WaitsForHello(call'[c])
  BY <1>2, <1>3, NewCall DEF CallsInv, Unread, WaitsForHello
<1>6. \A c \in Calls : call'[c].op = "hello" <=> engine' = c
  <2>1. CASE said
    <3>1. engine' \notin Calls
      BY <1>1, <2>1, CallsAssumption
    <3>2. \A c \in Calls : call[c].op = "hello" => c \in gone
      BY <2>1 DEF CallsInv, SharesAreLive
    <3> QED
      BY <1>1, <1>2, <1>3, <3>1, <3>2, NewCall
  <2>2. CASE ~said
    <3>1. engine' = engine /\ \A c \in gone : call[c].op # "hello"
      BY <1>1, <2>2
    <3> QED
      BY <1>1, <2>2, <3>1, NewCall DEF CallsInv, SharesAreLive
  <2> QED
    BY <2>1, <2>2
<1>8. \A c \in Calls : call'[c].pc = "hello" => engine' \in Calls
  <2> SUFFICES ASSUME NEW c \in Calls, call'[c].pc = "hello" PROVE engine' \in Calls
    OBVIOUS
  <2>1. call'[c] = call[c] /\ ~said
    BY <1>1, <1>2, <1>3, NewCall
  <2> QED
    BY <1>1, <2>1 DEF CallsInv, SharesAreLive
<1>9. \A c \in Calls : call'[c].pc = "start" => c \notin gone /\ call[c].pc = "start" /\ call'[c].on = call[c].on
  BY <1>1, <1>2, <1>3, NewCall
<1>7. ASSUME NEW c \in Calls \ gone, call[c].on # 0 PROVE call'[c].on = call[c].on
  BY <1>2, <1>3, <1>7, NewCall
<1> QED
  BY <1>4, <1>5, <1>6, <1>7, <1>8, <1>9

\* A call that ends forgets the start it joined, or joined none.
LEMMA EndsKeeps ==
  ASSUME CallsInv, NEW c \in Calls, NEW ok, Ends(c, ok), svc' = svc
  PROVE  CallsInv'
<1>1. Over({c}, ok) /\ starting' = (IF call[c].on # 0 THEN 0 ELSE starting) /\ starts' = starts
  BY DEF Ends, Forgets
<1>2. /\ call' \in [Calls -> Call]
      /\ \A d \in Calls : Unread(call'[d]) /\ WaitsForHello(call'[d])
      /\ \A d \in Calls : call'[d].op = "hello" <=> engine' = d
      /\ \A d \in Calls : call'[d].pc = "hello" => engine' \in Calls
      /\ \A d \in Calls : call'[d].pc = "start" => call[d].pc = "start" /\ call'[d].on = call[d].on
      /\ \A d \in Calls \ {c} : call[d].on # 0 => call'[d].on = call[d].on
  BY <1>1, OverSettles
<1>3. starting' # 0 => \E d \in Calls : call'[d].on = starting'
  <2> SUFFICES ASSUME starting' # 0 PROVE \E d \in Calls : call'[d].on = starting'
    OBVIOUS
  <2>1. PICK d \in Calls : call[d].on = starting
    BY <1>1 DEF CallsInv, SharesAreLive
  <2> QED
    BY <1>1, <1>2, <2>1
<1> QED
  BY <1>1, <1>2, <1>3 DEF CallsInv, SharesAreLive

\* A new call shares nothing yet, unless it is the `hello` that the others will wait for.
Fresh(r) == r \in Call /\ r.on = 0 /\ Unread(r) /\ WaitsForHello(r)

LEMMA FreshCalls ==
  Fresh(New("hello", "ask")) /\ Fresh(New("up", "ask")) /\ Fresh(New("up", "hello")) /\ Fresh(New("other", "ask"))
  BY NewCall DEF Fresh, Unread, WaitsForHello

LEMMA CallMade ==
  ASSUME CallsInv, NEW c \in Calls, call[c] = NoCall, NEW r, Fresh(r), call' = [call EXCEPT ![c] = r],
         engine' = c <=> r.op = "hello", engine' # c => engine' = engine, engine' = c => engine = None,
         r.pc = "hello" => engine' \in Calls, r.pc # "start",
         UNCHANGED <<starting, starts, svc>>
  PROVE  CallsInv'
<1>1. /\ call'[c] = r /\ \A d \in Calls \ {c} : call'[d] = call[d]
      /\ call' \in [Calls -> Call]
  BY DEF CallsInv, Fresh
<1>2. \A d \in Calls : Unread(call'[d]) /\ WaitsForHello(call'[d])
  BY <1>1 DEF CallsInv, Fresh
<1>3. call[c].on = 0 /\ call[c].op = "none" /\ engine # c
  BY NewCall DEF CallsInv, SharesAreLive
<1>4. \A d \in Calls : call'[d].op = "hello" <=> engine' = d
  BY <1>1, <1>3, CallsAssumption DEF CallsInv, SharesAreLive
<1>5. \A d \in Calls : call'[d].pc = "hello" => engine' \in Calls
  BY <1>1 DEF CallsInv, SharesAreLive
<1>6. SharesAreLive'
  BY <1>1, <1>3, <1>4, <1>5 DEF CallsInv, SharesAreLive
<1> QED
  BY <1>1, <1>2, <1>6 DEF CallsInv

LEMMA MakesKeeps ==
  ASSUME CallsInv, NEW c \in Calls, Makes(c)
  PROVE  CallsInv'
<1>1. call[c] = NoCall /\ UNCHANGED <<starting, starts, svc, deaths>>
  BY DEF Makes
<1>2. CASE Hello(c)
  <2>1. New("hello", "ask").op = "hello"
    BY NewCall
  <2> QED
    BY <1>1, <1>2, <2>1, FreshCalls, CallMade, NewCall DEF Hello
<1>3. engine # c
  BY <1>1, NewCall DEF CallsInv, SharesAreLive
<1>4. ASSUME engine' = engine,
             \/ call' = [call EXCEPT ![c] = New("up", "ask")]
             \/ engine \in Calls /\ call' = [call EXCEPT ![c] = New("up", "hello")]
             \/ call' = [call EXCEPT ![c] = New("other", "ask")]
      PROVE  CallsInv'
  <2>1. ASSUME NEW op \in {"up", "other"}, NEW pc \in {"ask", "hello"}, Fresh(New(op, pc)),
               call' = [call EXCEPT ![c] = New(op, pc)], pc = "hello" => engine \in Calls
        PROVE  CallsInv'
    <3>1. New(op, pc).op = op /\ New(op, pc).pc = pc
      BY NewCall
    <3>2. New(op, pc).op # "hello" /\ New(op, pc).pc # "start" /\ engine' # c
      BY <1>3, <1>4, <3>1
    <3>3. New(op, pc).pc = "hello" => engine' \in Calls
      BY <1>4, <2>1, <3>1
    <3> QED
      BY <1>1, <1>4, <2>1, <3>2, <3>3, CallMade
  <2>2. CASE call' = [call EXCEPT ![c] = New("up", "ask")]
    BY <2>1, <2>2, FreshCalls
  <2>3. CASE engine \in Calls /\ call' = [call EXCEPT ![c] = New("up", "hello")]
    BY <2>1, <2>3, FreshCalls
  <2>4. CASE call' = [call EXCEPT ![c] = New("other", "ask")]
    BY <2>1, <2>4, FreshCalls
  <2> QED
    BY <1>4, <2>2, <2>3, <2>4
<1>5. ASSUME NEW h \in Calls \ {c}, engine = None, call[h] = NoCall, engine' = h,
             call' = [call EXCEPT ![c] = New("up", "hello"), ![h] = New("hello", "ask")]
      PROVE  CallsInv'
  <2>1. /\ call'[c] = New("up", "hello") /\ call'[h] = New("hello", "ask")
        /\ \A d \in Calls \ {c, h} : call'[d] = call[d]
        /\ call' \in [Calls -> Call]
    BY <1>5, NewCall DEF CallsInv
  <2>2. \A d \in Calls : Unread(call'[d]) /\ WaitsForHello(call'[d])
    BY <2>1, NewCall DEF CallsInv, Unread, WaitsForHello
  <2>3. SharesAreLive'
    <3>1. \A d \in {c, h} : call[d].on = 0
      BY <1>1, <1>5, NewCall
    <3>2. \A d \in Calls : call'[d].op = "hello" <=> engine' = d
      BY <1>5, <2>1, NewCall, CallsAssumption DEF CallsInv, SharesAreLive
    <3>3. UNCHANGED <<starting, starts>> /\ engine' \in Calls
      BY <1>1, <1>5
    <3>4. \A d \in Calls : /\ call'[d].on = call[d].on
                           /\ call'[d].pc = "start" => call[d].pc = "start"
      BY <2>1, <3>1, NewCall
    <3> QED
      BY <3>2, <3>3, <3>4 DEF CallsInv, SharesAreLive
  <2> QED
    BY <1>1, <2>1, <2>2, <2>3 DEF CallsInv
<1> QED
  BY <1>2, <1>4, <1>5 DEF Makes, Up, Other

LEMMA ConnectsKeeps ==
  ASSUME CallsInv, NEW c \in Calls, Connects(c)
  PROVE  CallsInv'
<1> DEFINE r == [call[c] EXCEPT !.pc = IF svc.st = "up" THEN "open" ELSE "refused"]
<1>1. call' = [call EXCEPT ![c] = r] /\ UNCHANGED <<starting, starts, engine, svc>>
  BY DEF Connects, Goes
<1>2. /\ r \in Call /\ r.op = call[c].op /\ r.on = call[c].on /\ r.acts = call[c].acts
      /\ r.pc \in {"open", "refused"} /\ call[c].pc = "ask"
  BY DEF CallsInv, Call, Connects, At
<1> HIDE DEF r
<1>3. Unread(r) /\ WaitsForHello(r)
  BY <1>2 DEF CallsInv, Unread, WaitsForHello
<1> QED
  BY <1>1, <1>2, <1>3, CallMoves

\* A start is remembered by the call that makes it, and the one there is by the call that joins.
LEMMA JoinsKeeps ==
  ASSUME CallsInv, NEW c \in Calls, Joins(c)
  PROVE  CallsInv'
<1>1. PICK p \in Starts :
        /\ starting' = p /\ starts' \in {starts, starts \cup {p}} /\ starting \in {0, p}
        /\ Awaits(c, p)
  <2>1. CASE starting = 0
    <3> DEFINE own == CHOOSE p \in Free : TRUE
    <3>1. own \in Free /\ own \in Starts
      BY <2>1, FreeStart DEF CallsInv, Free
    <3> QED
      BY <2>1, <3>1 DEF Joins
  <2>2. CASE starting # 0
    BY <2>2 DEF Joins, CallsInv
  <2> QED
    BY <2>1, <2>2
<1> DEFINE r == [call[c] EXCEPT !.on = p, !.pc = IF p \in starts' THEN "start" ELSE "ask",
                                !.loop = p \notin starts']
<1>2. call' = [call EXCEPT ![c] = r]
  BY <1>1 DEF Awaits, CallsInv, Call
<1>3. /\ r \in Call /\ r.op = call[c].op /\ r.on = p /\ r.acts = call[c].acts
      /\ r.pc \in {"start", "ask"} /\ call[c].pc = "refused"
  <2>1. call[c] \in Call /\ (p \notin starts') \in BOOLEAN
    BY DEF CallsInv
  <2> QED
    BY <2>1, StartsFinite DEF Call, Joins, At
<1>6. r.pc = "start" => p \in starts'
  BY DEF CallsInv, Call
<1> HIDE DEF r
<1>4. call' \in [Calls -> Call] /\ \A d \in Calls : Unread(call'[d]) /\ WaitsForHello(call'[d])
  BY <1>2, <1>3 DEF CallsInv, Unread, WaitsForHello
<1>5. SharesAreLive'
  <2>1. /\ call'[c] = r /\ starts \subseteq starts' /\ engine' = engine
        /\ \A d \in Calls \ {c} : call'[d] = call[d]
    BY <1>1, <1>2 DEF CallsInv, Joins
  <2>3. \A d \in Calls : call'[d].pc = "start" => call'[d].on \in starts'
    BY <1>3, <1>6, <2>1 DEF CallsInv, SharesAreLive
  <2>4. \A d \in Calls : call'[d].pc = "hello" => engine' \in Calls
    BY <1>3, <2>1 DEF CallsInv, SharesAreLive
  <2>5. \A d \in Calls : call'[d].op = call[d].op
    BY <1>3, <2>1
  <2>6. call'[c].on = starting'
    BY <1>1, <1>3, <2>1
  <2>7. \A d \in Calls : call'[d].op = "hello" <=> engine' = d
    BY <2>1, <2>5 DEF CallsInv, SharesAreLive
  <2> QED
    BY <2>3, <2>4, <2>6, <2>7 DEF SharesAreLive
<1> QED
  BY <1>1, <1>4, <1>5 DEF CallsInv, Joins

LEMMA WaitsKeeps ==
  ASSUME CallsInv, NEW c \in Calls, Waits(c)
  PROVE  CallsInv'
<1>1. CASE Ends(c, FALSE)
  BY <1>1, EndsKeeps DEF Waits
<1>2. CASE /\ MayAsk(c)
           /\ call' = [call EXCEPT ![c].pc = "ask", ![c].n = @ + 1]
           /\ UNCHANGED <<starting, starts, engine>>
  <2> DEFINE r == [call[c] EXCEPT !.pc = "ask", !.n = @ + 1]
  <2>1. call' = [call EXCEPT ![c] = r]
    BY <1>2 DEF CallsInv, Call
  <2>2. /\ r \in Call /\ r.op = call[c].op /\ r.on = call[c].on /\ r.acts = call[c].acts
        /\ r.pc = "ask" /\ call[c].pc = "refused"
    BY <1>2, BoundsAssumption DEF CallsInv, Call, MayAsk, Waits, At
  <2> HIDE DEF r
  <2>3. Unread(r) /\ WaitsForHello(r)
    BY <2>2 DEF CallsInv, Unread, WaitsForHello
  <2> QED
    BY <1>2, <2>1, <2>2, <2>3, CallMoves DEF Waits
<1> QED
  BY <1>1, <1>2 DEF Waits

LEMMA ActsKeeps ==
  ASSUME CallsInv, NEW c \in Calls, Acts(c)
  PROVE  CallsInv'
<1> DEFINE r == [call[c] EXCEPT !.pc = "acted", !.ok = svc.ours, !.acts = IF svc.ours THEN @ + 1 ELSE @]
<1>1. call' = [call EXCEPT ![c] = r] /\ UNCHANGED <<starting, starts, engine, svc>>
  BY DEF Acts, CallsInv, Call
<1>2. call[c] \in Call /\ call[c].acts = 0 /\ svc.ours \in BOOLEAN
  BY DEF CallsInv, Unread, Acts, At
<1>3. (IF svc.ours THEN call[c].acts + 1 ELSE call[c].acts) \in 0 .. 1
  BY <1>2
<1>4. r \in Call /\ r.op = call[c].op /\ r.on = call[c].on /\ r.pc = "acted"
  BY <1>2, <1>3 DEF Call
<1> HIDE DEF r
<1> QED
  BY <1>1, <1>4, CallMoves DEF Unread, WaitsForHello

\* All who waited for a start hear of its end; when it failed, nobody may join it any more.
LEMMA AttemptsKeeps ==
  ASSUME CallsInv, NEW p \in Starts, Attempts(p)
  PROVE  CallsInv'
<1> DEFINE waiting == {c \in Calls : call[c].pc = "start" /\ call[c].on = p}
<1>1. starts' \subseteq Starts
  BY DEF Attempts, CallsInv
<1>2. CASE /\ Accepted
           /\ call' = [c \in Calls |-> IF c \in waiting THEN [call[c] EXCEPT !.pc = "ask", !.loop = TRUE] ELSE call[c]]
           /\ UNCHANGED <<starting, engine>>
  <2> DEFINE asks(c) == [call[c] EXCEPT !.pc = "ask", !.loop = TRUE]
  <2>1. \A c \in Calls : /\ asks(c) \in Call /\ asks(c).pc = "ask" /\ asks(c).acts = call[c].acts
                         /\ asks(c).on = call[c].on /\ asks(c).op = call[c].op
    BY DEF CallsInv, Call
  <2> HIDE DEF asks
  <2>2. \A c \in Calls : call'[c] = call[c] \/ (call'[c] = asks(c) /\ call[c].pc = "start")
    BY <1>2 DEF asks
  <2>3. call' \in [Calls -> Call]
    BY <1>2, <2>1 DEF asks, CallsInv
  <2>4. \A c \in Calls : Unread(call'[c]) /\ WaitsForHello(call'[c])
    BY <2>1, <2>2 DEF CallsInv, Unread, WaitsForHello
  <2>7. starts' = starts \ {p}
    BY DEF Attempts
  <2>8. \A c \in Calls : call'[c].pc = "start" => call'[c].on \in starts'
    <3> SUFFICES ASSUME NEW c \in Calls, call'[c].pc = "start" PROVE call'[c].on \in starts'
      OBVIOUS
    <3>1. call'[c] = call[c]
      BY <2>1, <2>2
    <3>2. call[c].on # p
      <4> SUFFICES ASSUME call[c].on = p PROVE FALSE
        OBVIOUS
      <4>1. call'[c] = asks(c)
        BY <1>2, <3>1 DEF asks
      <4> QED
        BY <2>1, <4>1
    <3>3. call[c].on \in starts
      BY <3>1 DEF CallsInv, SharesAreLive
    <3> QED
      BY <2>7, <3>1, <3>2, <3>3
  <2>5. SharesAreLive'
    <3>1. engine' = engine /\ starting' = starting
      BY <1>2
    <3>2. \A c \in Calls : /\ call'[c].op = call[c].op /\ call'[c].on = call[c].on
                           /\ call'[c].pc = "hello" => call[c].pc = "hello"
      BY <2>1, <2>2
    <3>3. \A c \in Calls : call'[c].pc = "hello" => engine' \in Calls
      BY <3>1, <3>2 DEF CallsInv, SharesAreLive
    <3>4. \A c \in Calls : call[c].op = "hello" <=> engine = c
      BY DEF CallsInv, SharesAreLive
    <3>5. \A c \in Calls : call'[c].op = "hello" <=> engine' = c
      BY <3>1, <3>2, <3>4
    <3>6. starting' # 0 => \E c \in Calls : call'[c].on = starting'
      BY <3>1, <3>2 DEF CallsInv, SharesAreLive
    <3> QED
      BY <2>8, <3>3, <3>5, <3>6, Zenon DEF SharesAreLive
  <2>6. svc' \in [st : {"off", "coming", "up", "going"}, ours : BOOLEAN]
    BY <1>2 DEF Accepted, CallsInv
  <2> QED
    BY <1>1, <1>2, <2>3, <2>4, <2>5, <2>6 DEF CallsInv
<1>3. CASE Over(waiting, FALSE) /\ starting' = 0 /\ UNCHANGED svc
  <2>1. waiting \in SUBSET Calls
    OBVIOUS
  <2> HIDE DEF waiting
  <2>2. /\ call' \in [Calls -> Call]
        /\ \A d \in Calls : Unread(call'[d]) /\ WaitsForHello(call'[d])
        /\ \A d \in Calls : call'[d].op = "hello" <=> engine' = d
        /\ \A d \in Calls : call'[d].pc = "hello" => engine' \in Calls
        /\ \A d \in Calls : call'[d].pc = "start" => d \notin waiting /\ call[d].pc = "start" /\ call'[d].on = call[d].on
    BY <1>3, <2>1, OverSettles
  <2>3. starts' = starts \ {p}
    BY DEF Attempts
  <2>4. \A d \in Calls : call'[d].pc = "start" => call'[d].on \in starts'
    BY <2>2, <2>3 DEF CallsInv, SharesAreLive, waiting
  <2> QED
    BY <1>1, <1>3, <2>2, <2>4 DEF CallsInv, SharesAreLive
<1> QED
  BY <1>2, <1>3 DEF Attempts

LEMMA ServiceKeeps ==
  ASSUME CallsInv, Service
  PROVE  CallsInv'
<1>1. UNCHANGED <<starting, starts, engine>> /\ (call' = call \/ call' = Hung)
  BY DEF Service
<1>2. svc' \in [st : {"off", "coming", "up", "going"}, ours : BOOLEAN]
  <2>1. \E st \in {"off", "up", "going"} : svc' = [svc EXCEPT !.st = st]
    BY DEF Service
  <2> QED
    BY <2>1 DEF Service, CallsInv
<1> DEFINE hangs(c) == [call[c] EXCEPT !.pc = "closed"]
<1>3. \A c \in Calls : /\ hangs(c) \in Call /\ hangs(c).pc = "closed"
                       /\ hangs(c).on = call[c].on /\ hangs(c).op = call[c].op
  BY DEF CallsInv, Call
<1> HIDE DEF hangs
<1>4. call' \in [Calls -> Call] /\ \A c \in Calls : call'[c] = call[c] \/ call'[c] = hangs(c)
  BY <1>1, <1>3 DEF Hung, hangs, CallsInv
<1>5. \A c \in Calls : Unread(call'[c]) /\ WaitsForHello(call'[c])
  BY <1>3, <1>4 DEF CallsInv, Unread, WaitsForHello
<1>6. SharesAreLive'
  BY <1>1, <1>3, <1>4 DEF CallsInv, SharesAreLive
<1> QED
  BY <1>1, <1>2, <1>4, <1>5, <1>6 DEF CallsInv

LEMMA CallsKept == CallsInv /\ [Next]_vars => CallsInv'
<1> SUFFICES ASSUME CallsInv, [Next]_vars PROVE CallsInv'
  OBVIOUS
<1>1. CASE Service
  BY <1>1, ServiceKeeps
<1>2. ASSUME NEW c \in Calls, Makes(c) PROVE CallsInv'
  BY <1>2, MakesKeeps
<1>3. ASSUME NEW c \in Calls, Request(c) PROVE CallsInv'
  <2>1. CASE Connects(c)
    BY <2>1, ConnectsKeeps
  <2>2. CASE Joins(c)
    BY <2>2, JoinsKeeps
  <2>3. CASE Waits(c)
    BY <2>3, WaitsKeeps
  <2>4. CASE Acts(c)
    BY <2>4, ActsKeeps
  <2>5. CASE Answered(c) \/ TimesOut(c) \/ Closed(c)
    BY <2>5, EndsKeeps DEF Answered, TimesOut, Closed, HangsUp
  <2> QED
    BY <1>3, <2>1, <2>2, <2>3, <2>4, <2>5 DEF Request
<1>4. ASSUME NEW p \in Starts, Attempts(p) PROVE CallsInv'
  BY <1>4, AttemptsKeeps
<1>5. CASE UNCHANGED vars
  BY <1>5 DEF CallsInv, SharesAreLive, vars, Call, Starts
<1> QED
  BY <1>1, <1>2, <1>3, <1>4, <1>5 DEF Next

-----------------------------------------------------------------------------
(* Processes *)

LEMMA ShellInit == S!Init => ShellInv
<1> SUFFICES ASSUME S!Init PROVE ShellInv
  OBVIOUS
<1>1. S!TypeOK
  BY ShellAssumption DEF S!Init, S!TypeOK, S!Off, S!Kinds, S!Nobody
<1>2. OwnsLock
  BY DEF S!Init, OwnsLock, S!Off, S!Alive
<1> QED
  BY <1>1, <1>2 DEF ShellInv

Process == [at : {"off", "waiting", "setup", "app", "gone"}, kind : S!Kinds,
            primary : {"waiting", "asking", "got", "refused"}, tries : 0 .. MaxTries,
            window : {"none", "shown", "hidden"}, appShown : BOOLEAN, icon : BOOLEAN,
            quitting : BOOLEAN, patch : SUBSET BOOLEAN]

Rest == attempts \subseteq (S!Apps \X S!Kinds) /\ background \in BOOLEAN /\ toggles \in 0 .. MaxToggles

\* What a process has of the lock when the owner is `owner`.
HasLock(p, r, owner) ==
    /\ r.at = "app" => r.primary = "got"
    /\ r.at \notin {"off", "gone"} /\ r.primary = "got" /\ ~r.quitting => owner = p

\* The lock is taken by one who asks while nobody has it, and given up by its owner.
LockMoves(p, before, after) ==
    after = before \/ (after = p /\ before = S!Nobody) \/ (after = S!Nobody /\ before = p)

\* A step of one process, of the lock and of itself, is nothing to the others.
LEMMA ProcessMoves ==
  ASSUME ShellInv, NEW p \in S!Apps, NEW r, r \in Process, S!Sets(p, r),
         HasLock(p, r, lock'), LockMoves(p, lock, lock'), Rest'
  PROVE  ShellInv'
<1>1. app' = [app EXCEPT ![p] = r] /\ app \in [S!Apps -> Process] /\ lock \in S!Apps \cup {S!Nobody}
  BY DEF S!Sets, ShellInv, S!TypeOK, Process
<1>2. S!TypeOK'
  <2>1. app' \in [S!Apps -> Process]
    BY <1>1
  <2>2. lock' \in S!Apps \cup {S!Nobody}
    BY <1>1 DEF LockMoves
  <2> QED
    BY <2>1, <2>2 DEF S!TypeOK, Process, Rest
<1>3. OwnsLock'
  <2> SUFFICES ASSUME NEW q \in S!Apps
               PROVE  /\ app'[q].at = "app" => app'[q].primary = "got"
                      /\ app'[q].at \notin {"off", "gone"} /\ app'[q].primary = "got" /\ ~app'[q].quitting
                            => lock' = q
    BY DEF OwnsLock, S!Alive
  <2>1. CASE q = p
    BY <1>1, <2>1 DEF HasLock
  <2>2. CASE q # p
    <3>1. app'[q] = app[q]
      BY <1>1, <2>2
    <3>2. S!Nobody \notin S!Apps
      BY DEF S!Nobody, S!Apps
    <3> QED
      BY <2>2, <3>1, <3>2 DEF ShellInv, OwnsLock, S!Alive, LockMoves
  <2> QED
    BY <2>1, <2>2
<1> QED
  BY <1>2, <1>3 DEF ShellInv

LEMMA AppTyped ==
  ASSUME ShellInv, NEW p \in S!Apps
  PROVE  /\ app[p] \in Process /\ HasLock(p, app[p], lock) /\ Rest
         /\ lock \in S!Apps \cup {S!Nobody}
  BY DEF ShellInv, S!TypeOK, OwnsLock, Process, HasLock, Rest, S!Alive

LEMMA RestKept == Rest /\ UNCHANGED <<attempts, background, toggles>> => Rest'
  BY DEF Rest

LEMMA QuittingTyped ==
  ASSUME NEW r, r \in Process
  PROVE  /\ S!Quitting(r) \in Process /\ S!Quitting(r).quitting
         /\ S!Quitting(r).at = r.at /\ S!Quitting(r).primary = r.primary
  BY DEF S!Quitting, Process

LEMMA OffTyped == S!Off \in Process
  BY ShellAssumption DEF S!Off, Process, S!Kinds

LEMMA LaunchKeeps ==
  ASSUME ShellInv, NEW p \in S!Apps, S!Launch(p)
  PROVE  ShellInv'
<1>1. PICK k \in S!Kinds :
        S!Sets(p, [S!Off EXCEPT !.at = IF k = "update" THEN "setup" ELSE "waiting", !.kind = k,
                                !.primary = IF k = "update" THEN "waiting" ELSE "asking",
                                !.window = IF k = "update" THEN "shown" ELSE "none"])
  BY DEF S!Launch
<1> DEFINE r == [S!Off EXCEPT !.at = IF k = "update" THEN "setup" ELSE "waiting", !.kind = k,
                              !.primary = IF k = "update" THEN "waiting" ELSE "asking",
                              !.window = IF k = "update" THEN "shown" ELSE "none"]
<1>2. r \in Process /\ r.at # "app" /\ r.primary # "got"
  BY OffTyped DEF Process
<1>3. S!Sets(p, r) /\ UNCHANGED <<lock, attempts, background, toggles>>
  BY <1>1 DEF S!Launch
<1> HIDE DEF r
<1> QED
  BY <1>2, <1>3, AppTyped, RestKept, ProcessMoves DEF HasLock, LockMoves

LEMMA WaitedKeeps ==
  ASSUME ShellInv, NEW p \in S!Apps, S!Waited(p)
  PROVE  ShellInv'
<1> DEFINE r == [app[p] EXCEPT !.primary = "asking"]
<1>1. r \in Process /\ r.at # "app" /\ r.primary # "got"
  BY AppTyped DEF S!Waited, Process, HasLock
<1>2. S!Sets(p, r) /\ UNCHANGED <<lock, attempts, background, toggles>>
  BY DEF S!Waited
<1> HIDE DEF r
<1> QED
  BY <1>1, <1>2, AppTyped, RestKept, ProcessMoves DEF HasLock, LockMoves

\* The lock goes to one who asks while nobody has it.
LEMMA AsksLockKeeps ==
  ASSUME ShellInv, NEW p \in S!Apps, S!AsksLock(p)
  PROVE  ShellInv'
<1>0. app[p] \in Process /\ app[p].at # "app" /\ app[p].primary = "asking" /\ Rest
      /\ UNCHANGED <<background, toggles>>
  BY AppTyped DEF S!AsksLock, HasLock
<1>1. CASE lock = S!Nobody
  <2> DEFINE r == [app[p] EXCEPT !.primary = "got"]
  <2>1. r \in Process /\ r.primary = "got"
    BY <1>0 DEF Process
  <2>2. S!Sets(p, r) /\ lock' = p /\ attempts' = attempts
    BY <1>1 DEF S!AsksLock
  <2> HIDE DEF r
  <2> QED
    BY <1>0, <1>1, <2>1, <2>2, RestKept, ProcessMoves DEF HasLock, LockMoves
<1>2. CASE lock # S!Nobody
  <2>1. lock' = lock /\ attempts' = attempts \cup {<<lock, app[p].kind>>}
    BY <1>2 DEF S!AsksLock
  <2>2. Rest'
    BY <1>0, <1>2, <2>1, AppTyped DEF Process, Rest
  <2>3. CASE app[p].kind = "maintenance" /\ app[p].tries < MaxTries
    <3> DEFINE r == [app[p] EXCEPT !.tries = @ + 1]
    <3>1. r \in Process /\ r.at # "app" /\ r.primary = "asking"
      BY <1>0, <2>3, ShellAssumption DEF Process
    <3>2. S!Sets(p, r)
      BY <1>2, <2>3 DEF S!AsksLock
    <3> HIDE DEF r
    <3> QED
      BY <2>1, <2>2, <3>1, <3>2, ProcessMoves DEF HasLock, LockMoves
  <2>4. CASE ~(app[p].kind = "maintenance" /\ app[p].tries < MaxTries)
    <3> DEFINE refused == [app[p] EXCEPT !.primary = "refused"]
    <3>1. refused \in Process /\ refused.at # "app" /\ refused.primary = "refused"
      BY <1>0 DEF Process
    <3>2. S!Sets(p, S!Quitting(refused))
      BY <1>2, <2>4 DEF S!AsksLock
    <3> HIDE DEF refused
    <3>3. S!Quitting(refused) \in Process /\ S!Quitting(refused).at # "app" /\ S!Quitting(refused).quitting
      BY <3>1, QuittingTyped
    <3> QED
      BY <2>1, <2>2, <3>2, <3>3, ProcessMoves DEF HasLock, LockMoves
  <2> QED
    BY <2>3, <2>4
<1> QED
  BY <1>1, <1>2

LEMMA StartsKeeps ==
  ASSUME ShellInv, NEW p \in S!Apps, S!Starts(p) \/ S!Prepares(p)
  PROVE  ShellInv'
<1>0. app[p] \in Process /\ app[p].primary = "got" /\ lock = p /\ background \in BOOLEAN /\ Rest
      /\ UNCHANGED <<lock, attempts, background, toggles>>
  BY AppTyped DEF S!Starts, S!Prepares, S!Primary, HasLock, Rest
<1>1. PICK r \in Process : S!Sets(p, r) /\ r.primary = "got"
  <2>1. CASE S!Starts(p) /\ S!setupMode(p)
    <3> DEFINE r == [app[p] EXCEPT !.at = "setup", !.window = "shown"]
    <3>1. r \in Process /\ r.primary = "got"
      BY <1>0 DEF Process
    <3> QED
      BY <2>1, <3>1 DEF S!Starts
  <2>2. CASE S!Starts(p) /\ ~S!setupMode(p)
    <3> DEFINE r == [S!Started(app[p]) EXCEPT !.window = "shown", !.appShown = TRUE]
    <3>1. r \in Process /\ r.primary = "got"
      BY <1>0 DEF Process, S!Started, S!backgroundOn
    <3> QED
      BY <2>2, <3>1 DEF S!Starts
  <2>3. CASE S!Prepares(p)
    <3>1. S!Started(app[p]) \in Process /\ S!Started(app[p]).primary = "got"
      BY <1>0 DEF Process, S!Started, S!backgroundOn
    <3> QED
      BY <2>3, <3>1 DEF S!Prepares
  <2> QED
    BY <2>1, <2>2, <2>3
<1> QED
  BY <1>0, <1>1, RestKept, ProcessMoves DEF HasLock, LockMoves

\* What happens to a window, a switch or the icon is nothing to the lock.
LEMMA WindowKeeps ==
  ASSUME ShellInv, NEW p \in S!Apps, NEW r, r \in Process, S!Sets(p, r),
         r.at = app[p].at, r.primary = app[p].primary, ~r.quitting => ~app[p].quitting,
         UNCHANGED lock, Rest'
  PROVE  ShellInv'
<1>1. HasLock(p, r, lock') /\ LockMoves(p, lock, lock')
  BY AppTyped DEF HasLock, LockMoves
<1> QED
  BY <1>1, ProcessMoves

LEMMA WindowStepKeeps ==
  ASSUME ShellInv, NEW p \in S!Apps,
         S!ShowApp(p) \/ S!Close(p) \/ S!Toggle(p) \/ S!SetUiSettings(p) \/ S!TrayOpens(p) \/ S!Quit(p)
  PROVE  ShellInv'
<1>0. app[p] \in Process /\ UNCHANGED lock /\ Rest'
  <2>1. app[p] \in Process /\ Rest
    BY AppTyped
  <2>2. UNCHANGED <<lock, attempts>>
    BY DEF S!ShowApp, S!Close, S!Toggle, S!SetUiSettings, S!TrayOpens, S!Quit
  <2>3. toggles' = toggles \/ (toggles < MaxToggles /\ toggles' = toggles + 1)
    BY DEF S!ShowApp, S!Close, S!Toggle, S!SetUiSettings, S!TrayOpens, S!Quit
  <2>4. toggles' \in 0 .. MaxToggles
    BY <2>1, <2>3, ShellAssumption DEF Rest
  <2>5. background' \in BOOLEAN
    BY <2>1 DEF S!ShowApp, S!Close, S!Toggle, S!SetUiSettings, S!TrayOpens, S!Quit, Process, Rest
  <2> QED
    BY <2>1, <2>2, <2>4, <2>5 DEF Rest
<1>1. PICK r \in Process :
        /\ S!Sets(p, r) /\ r.at = app[p].at /\ r.primary = app[p].primary
        /\ ~r.quitting => ~app[p].quitting
  <2>1. CASE S!ShowApp(p)
    <3> DEFINE r == [app[p] EXCEPT !.appShown = TRUE]
    <3>1. r \in Process /\ r.at = app[p].at /\ r.primary = app[p].primary /\ r.quitting = app[p].quitting
      BY <1>0 DEF Process
    <3> QED
      BY <2>1, <3>1 DEF S!ShowApp
  <2>2. CASE S!Close(p)
    <3> DEFINE hidden == [app[p] EXCEPT !.window = "hidden"]
               closed == [app[p] EXCEPT !.window = "none"]
    <3>1. /\ hidden \in Process /\ hidden.at = app[p].at /\ hidden.primary = app[p].primary
          /\ hidden.quitting = app[p].quitting
          /\ closed \in Process /\ closed.at = app[p].at /\ closed.primary = app[p].primary
      BY <1>0 DEF Process
    <3>2. S!Sets(p, hidden) \/ S!Sets(p, S!Quitting(closed))
      BY <2>2 DEF S!Close
    <3> HIDE DEF hidden, closed
    <3> QED
      BY <3>1, <3>2, QuittingTyped
  <2>3. CASE S!Toggle(p)
    <3> DEFINE r == [app[p] EXCEPT !.patch = {~background}]
    <3>1. r \in Process /\ r.at = app[p].at /\ r.primary = app[p].primary /\ r.quitting = app[p].quitting
      BY <1>0 DEF Process
    <3> QED
      BY <2>3, <3>1 DEF S!Toggle
  <2>4. CASE S!SetUiSettings(p)
    <3>1. PICK on \in app[p].patch : S!Sets(p, [app[p] EXCEPT !.patch = {}, !.icon = on])
      BY <2>4 DEF S!SetUiSettings
    <3> DEFINE r == [app[p] EXCEPT !.patch = {}, !.icon = on]
    <3>2. r \in Process /\ r.at = app[p].at /\ r.primary = app[p].primary /\ r.quitting = app[p].quitting
      BY <1>0 DEF Process
    <3> QED
      BY <3>1, <3>2
  <2>5. CASE S!TrayOpens(p)
    <3>1. /\ S!showWindow(app[p]) \in Process /\ S!showWindow(app[p]).at = app[p].at
          /\ S!showWindow(app[p]).primary = app[p].primary /\ S!showWindow(app[p]).quitting = app[p].quitting
      BY <1>0 DEF Process, S!showWindow
    <3> QED
      BY <2>5, <3>1 DEF S!TrayOpens
  <2>6. CASE S!Quit(p)
    BY <1>0, <2>6, QuittingTyped DEF S!Quit
  <2> QED
    BY <2>1, <2>2, <2>3, <2>4, <2>5, <2>6
<1> QED
  BY <1>0, <1>1, WindowKeeps

\* The application gives up the lock only as it quits.
LEMMA SecondInstanceKeeps ==
  ASSUME ShellInv, S!SecondInstance
  PROVE  ShellInv'
<1>1. PICK a \in attempts :
        /\ attempts' = attempts \ {a}
        /\ IF ~S!setupMode(a[1]) /\ a[2] = "maintenance"
           THEN lock' = (IF lock = a[1] THEN S!Nobody ELSE lock) /\ S!Sets(a[1], S!Quitting(app[a[1]]))
           ELSE S!Sets(a[1], S!showWindow(app[a[1]])) /\ UNCHANGED lock
  BY DEF S!SecondInstance
<1> DEFINE p == a[1]
<1>2. p \in S!Apps /\ Rest /\ UNCHANGED <<background, toggles>>
  BY <1>1 DEF ShellInv, S!TypeOK, S!SecondInstance, Rest
<1> HIDE DEF p
<1>3. Rest' /\ app[p] \in Process /\ HasLock(p, app[p], lock)
  BY <1>1, <1>2, AppTyped DEF Rest
<1>4. CASE lock' = (IF lock = p THEN S!Nobody ELSE lock) /\ S!Sets(p, S!Quitting(app[p]))
  BY <1>2, <1>3, <1>4, QuittingTyped, ProcessMoves DEF HasLock, LockMoves
<1>5. CASE S!Sets(p, S!showWindow(app[p])) /\ UNCHANGED lock
  <2>1. /\ S!showWindow(app[p]) \in Process /\ S!showWindow(app[p]).at = app[p].at
        /\ S!showWindow(app[p]).primary = app[p].primary /\ S!showWindow(app[p]).quitting = app[p].quitting
    BY <1>3 DEF Process, S!showWindow
  <2> QED
    BY <1>2, <1>3, <1>5, <2>1, WindowKeeps
<1> QED
  BY <1>1, <1>4, <1>5 DEF p

LEMMA GoesKeeps ==
  ASSUME ShellInv, NEW p \in S!Apps, S!Goes(p)
  PROVE  ShellInv'
<1> DEFINE r == [S!Off EXCEPT !.at = "gone"]
<1>1. r \in Process /\ r.at = "gone"
  BY OffTyped DEF Process
<1>2. /\ S!Sets(p, r) /\ lock' = (IF lock = p THEN S!Nobody ELSE lock)
      /\ attempts' \subseteq attempts /\ UNCHANGED <<background, toggles>>
  BY DEF S!Goes
<1>3. Rest'
  BY <1>2, AppTyped DEF Rest
<1> HIDE DEF r
<1> QED
  BY <1>1, <1>2, <1>3, ProcessMoves DEF HasLock, LockMoves

LEMMA ShellKept == ShellInv /\ [S!Next]_shell => ShellInv'
<1> SUFFICES ASSUME ShellInv, [S!Next]_shell PROVE ShellInv'
  OBVIOUS
<1>1. CASE S!SecondInstance
  BY <1>1, SecondInstanceKeeps
<1>2. ASSUME NEW p \in S!Apps,
             S!Launch(p) \/ S!Waited(p) \/ S!AsksLock(p) \/ S!Starts(p) \/ S!Prepares(p) \/ S!Goes(p)
      PROVE  ShellInv'
  BY <1>2, LaunchKeeps, WaitedKeeps, AsksLockKeeps, StartsKeeps, GoesKeeps
<1>3. ASSUME NEW p \in S!Apps,
             S!ShowApp(p) \/ S!Close(p) \/ S!Toggle(p) \/ S!SetUiSettings(p) \/ S!TrayOpens(p) \/ S!Quit(p)
      PROVE  ShellInv'
  BY <1>3, WindowStepKeeps
<1>4. CASE UNCHANGED shell
  BY <1>4 DEF ShellInv, S!TypeOK, OwnsLock, shell, S!Alive
<1> QED
  BY <1>1, <1>2, <1>3, <1>4 DEF S!Next

-----------------------------------------------------------------------------
(* Both *)

\* Every state that the calls and the processes reach has the two invariants.
THEOREM ProcessesInvariance == ProcessesSpec => [](CallsInv /\ ShellInv)
<1>1. ProcessesInit => CallsInv /\ ShellInv
  BY CallsInit, ShellInit DEF ProcessesInit
<1>2. CallsInv /\ ShellInv /\ [ProcessesNext]_<<vars, shell, part>> => (CallsInv /\ ShellInv)'
  <2> SUFFICES ASSUME CallsInv, ShellInv, [ProcessesNext]_<<vars, shell, part>>
               PROVE  CallsInv' /\ ShellInv'
    OBVIOUS
  <2>1. [Next]_vars /\ [S!Next]_shell
    BY DEF ProcessesNext
  <2> QED
    BY <2>1, CallsKept, ShellKept
<1> QED
  BY <1>1, <1>2, PTL DEF ProcessesSpec

\* A call that waits for a start or a `hello` waits for one under way, and the one that is remembered
\* is that of a call that has not ended (helperClient.ts:78).
THEOREM SharesLive == ProcessesSpec => []SharesAreLive
<1>1. CallsInv => SharesAreLive
  BY DEF CallsInv
<1> QED
  BY <1>1, ProcessesInvariance, PTL

\* The service carries a request out at most once, however often it is sent again and whenever the
\* service is started or dies (helperClient.ts:90).
THEOREM ReadOnce == ProcessesSpec => []HandledOnce
<1>1. CallsInv => HandledOnce
  BY DEF CallsInv, Call, HandledOnce
<1> QED
  BY <1>1, ProcessesInvariance, PTL

\* Of all processes on a desktop at most one runs the tunnel manager and is not on its way out.
THEOREM OneSteers == ProcessesSpec => []OneUi
<1>1. ShellInv => OneUi
  BY DEF ShellInv, OwnsLock, OneUi, S!OneUi, S!Steers, S!Alive
<1> QED
  BY <1>1, ProcessesInvariance, PTL
=============================================================================
