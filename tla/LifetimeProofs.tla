--------------------------- MODULE LifetimeProofs ---------------------------
(***************************************************************************)
(* Lifetime keeps the promise of ServesTheApp, for any processes and any   *)
(* number of changes of the followed one.  The argument is the watchers':  *)
(* only the newest may stop the service, it waits for the followed pid,    *)
(* and past its await that process has exited.                             *)
(*                                                                         *)
(* Then the service on Linux (LinuxService): what its records say of the   *)
(* system, whenever it is killed.                                          *)
(***************************************************************************)
EXTENDS MCServices, TLAPS

\* What a watcher knows: its generation is not ahead of the lifetime's, the newest one
\* waits for the followed process, and past await its process is gone.
WatchersKnow ==
    \A w \in watchers :
        /\ w.gen <= gen
        /\ w.gen = gen => w.pid = pid
        /\ w.at = "gone" => w.pid \notin apps

IInv == TypeOK /\ AsksOnce /\ WatchersKnow

LEMMA NothingAskedYet ==
  ASSUME TypeOK, AsksOnce, ~closed PROVE done = 0
  BY DEF TypeOK, AsksOnce

\* finish: whoever calls it, one value at most is sent, and never by a closed lifetime.
LEMMA FinishKeeps ==
  ASSUME IInv, NEW still \in BOOLEAN, Finish(still)
  PROVE  /\ AsksOnce'
         /\ closed' \in BOOLEAN /\ done' \in Nat
         /\ \/ UNCHANGED <<closed, done>>
            \/ ~closed /\ still /\ closed' /\ done' = 1
<1>1. CASE MayFinish(still)
  <2>1. done = 0 BY <1>1, NothingAskedYet DEF IInv, MayFinish
  <2> QED BY <1>1, <2>1 DEF Finish, MayFinish, AsksOnce
<1>2. CASE ~MayFinish(still)
  BY <1>2 DEF Finish, IInv, AsksOnce, TypeOK
<1> QED BY <1>1, <1>2

LEMMA InitHolds == Init => IInv
<1> SUFFICES ASSUME Init PROVE IInv
  OBVIOUS
<1>1. TypeOK
  <2>1. gen \in 0 .. MaxGen BY GenAssumption DEF Init
  <2>2. watchers \subseteq Watcher BY DEF Init
  <2> QED BY <2>1, <2>2 DEF Init, TypeOK
<1>2. AsksOnce BY DEF Init, AsksOnce
<1>3. WatchersKnow BY DEF Init, WatchersKnow
<1> QED BY <1>1, <1>2, <1>3 DEF IInv

LEMMA WatchKeeps ==
  ASSUME IInv, NEW p \in Pids, Watch(p) PROVE IInv'
<1> DEFINE new == [pid |-> p, gen |-> gen + 1, at |-> "await"]
<1>1. gen' = gen + 1 /\ gen + 1 \in 1 .. MaxGen
  BY GenAssumption DEF IInv, TypeOK, Watch
<1>2. new \in Watcher
  BY <1>1 DEF Watcher
<1>3. TypeOK'
  BY <1>1, <1>2 DEF IInv, TypeOK, Watch, Arms
<1>4. AsksOnce'
  BY DEF IInv, AsksOnce, Watch
<1>5. WatchersKnow'
  <2> SUFFICES ASSUME NEW w \in watchers'
               PROVE  /\ w.gen <= gen'
                      /\ w.gen = gen' => w.pid = pid'
                      /\ w.at = "gone" => w.pid \notin apps'
    BY DEF WatchersKnow
  <2>1. CASE w = new
    BY <2>1, <1>1 DEF Watch
  <2>2. CASE w # new
    <3>1. w \in watchers BY <2>2 DEF Watch, Arms
    <3>2. w.gen \in Nat /\ gen \in Nat BY <3>1 DEF IInv, TypeOK, Watcher
    <3>3. w.gen <= gen /\ (w.at = "gone" => w.pid \notin apps)
      BY <3>1 DEF IInv, WatchersKnow
    <3> QED BY <1>1, <3>2, <3>3 DEF Watch
  <2> QED BY <2>1, <2>2
<1> QED BY <1>3, <1>4, <1>5 DEF IInv

LEMMA AwaitKeeps ==
  ASSUME IInv, NEW w \in watchers, AwaitReturns(w) PROVE IInv'
<1> DEFINE after == [w EXCEPT !.at = "gone"]
<1>1. w \in Watcher BY DEF IInv, TypeOK
<1>2. /\ after \in Watcher
      /\ after.gen = w.gen /\ after.pid = w.pid
  BY <1>1 DEF Watcher
<1>3. TypeOK' BY <1>2 DEF IInv, TypeOK, AwaitReturns
<1>4. WatchersKnow'
  BY <1>2 DEF IInv, WatchersKnow, AwaitReturns
<1>5. AsksOnce' BY DEF IInv, AsksOnce, AwaitReturns
<1> QED BY <1>3, <1>4, <1>5 DEF IInv

LEMMA FinishesKeeps ==
  ASSUME IInv, NEW w \in watchers, WatcherFinishes(w) PROVE IInv'
<1>1. StillFollowed(w) \in BOOLEAN BY DEF StillFollowed
<1>2. AsksOnce' /\ closed' \in BOOLEAN /\ done' \in Nat
  BY <1>1, FinishKeeps DEF WatcherFinishes
<1>3. TypeOK' BY <1>2 DEF IInv, TypeOK, WatcherFinishes
<1>4. WatchersKnow' BY DEF IInv, WatchersKnow, WatcherFinishes
<1> QED BY <1>2, <1>3, <1>4 DEF IInv

LEMMA IdleFiresKeeps ==
  ASSUME IInv, IdleFires PROVE IInv'
<1>1. AsksOnce' /\ closed' \in BOOLEAN /\ done' \in Nat
  BY FinishKeeps DEF IdleFires
<1>2. TypeOK' BY <1>1 DEF IInv, TypeOK, IdleFires
<1>3. WatchersKnow' BY DEF IInv, WatchersKnow, IdleFires
<1> QED BY <1>1, <1>2, <1>3 DEF IInv

LEMMA ExitKeeps ==
  ASSUME IInv, NEW p \in Pids, AppExits(p) PROVE IInv'
  BY DEF IInv, TypeOK, AsksOnce, WatchersKnow, AppExits

LEMMA Inductive == IInv /\ [Next]_vars => IInv'
<1> SUFFICES ASSUME IInv, [Next]_vars PROVE IInv'
  OBVIOUS
<1>1. ASSUME NEW p \in Pids, Watch(p) PROVE IInv'
  BY <1>1, WatchKeeps
<1>2. ASSUME NEW p \in Pids, AppExits(p) PROVE IInv'
  BY <1>2, ExitKeeps
<1>3. ASSUME NEW w \in watchers, AwaitReturns(w) PROVE IInv'
  BY <1>3, AwaitKeeps
<1>4. ASSUME NEW w \in watchers, WatcherFinishes(w) PROVE IInv'
  BY <1>4, FinishesKeeps
<1>5. CASE Idle
  BY <1>5 DEF Idle, IInv, TypeOK, AsksOnce, WatchersKnow
<1>6. CASE IdleFires
  BY <1>6, IdleFiresKeeps
<1>7. CASE Close
  BY <1>7 DEF Close, IInv, TypeOK, AsksOnce, WatchersKnow
<1>8. CASE UNCHANGED vars
  BY <1>8 DEF vars, IInv, TypeOK, AsksOnce, WatchersKnow
<1> QED BY <1>1, <1>2, <1>3, <1>4, <1>5, <1>6, <1>7, <1>8 DEF Next

THEOREM InvariantHolds == Spec => []IInv
  BY InitHolds, Inductive, PTL DEF Spec

\* The channel of Done never holds a second value (lifetime.go:67-75): no request can be
\* left waiting behind a send made under the lock.
THEOREM AskedOnce == Spec => []AsksOnce
<1>1. IInv => AsksOnce BY DEF IInv
<1> QED BY <1>1, InvariantHolds, PTL

----------------------------------------------------------------------------
(* The refinement *)

LEMMA PromiseInit == Init => Promise!Init
  BY DEF Init, Promise!Init, Stopping

\* A call of finish that stops the service is the promise's Ask, given that nothing
\* followed runs any more; one that does not is a stutter.
LEMMA FinishAsks ==
  ASSUME IInv, NEW still \in BOOLEAN, Finish(still),
         still => pid \notin apps,
         UNCHANGED <<apps, pid>>
  PROVE  Promise!Ask \/ UNCHANGED Promise!promised
<1>1. CASE UNCHANGED <<closed, done>>
  BY <1>1 DEF Promise!promised, Stopping
<1>2. CASE ~closed /\ still /\ closed' /\ done' = 1
  <2>1. done = 0 BY <1>2, NothingAskedYet DEF IInv
  <2>2. Stopping = "no" /\ Stopping' = "asked"
    BY <1>2, <2>1 DEF Stopping
  <2> QED BY <1>2, <2>2 DEF Promise!Ask
<1> QED BY <1>1, <1>2, FinishKeeps

LEMMA PromiseNext == IInv /\ [Next]_vars => [Promise!Next]_(Promise!promised)
<1> SUFFICES ASSUME IInv, [Next]_vars
             PROVE  Promise!Next \/ UNCHANGED Promise!promised
  OBVIOUS
<1>1. ASSUME NEW p \in Pids, Watch(p) PROVE Promise!Next
  <2>1. done = 0 BY <1>1, NothingAskedYet DEF IInv, Watch
  <2>2. Stopping = "no" /\ Stopping' = "no" BY <1>1, <2>1 DEF Watch, Stopping
  <2>3. Promise!Serve(p) BY <1>1, <2>2 DEF Watch, Promise!Serve
  <2> QED BY <2>3 DEF Promise!Next
<1>2. ASSUME NEW p \in Pids, AppExits(p) PROVE Promise!Next
  BY <1>2 DEF AppExits, Promise!Next, Promise!Exit, Stopping
<1>3. ASSUME NEW w \in watchers, AwaitReturns(w) PROVE UNCHANGED Promise!promised
  BY <1>3 DEF AwaitReturns, Promise!promised, Stopping
<1>4. ASSUME NEW w \in watchers, WatcherFinishes(w)
      PROVE  Promise!Ask \/ UNCHANGED Promise!promised
  <2>1. StillFollowed(w) => pid \notin apps
    BY <1>4 DEF IInv, WatchersKnow, WatcherFinishes, StillFollowed
  <2>2. StillFollowed(w) \in BOOLEAN BY DEF StillFollowed
  <2> QED BY <1>4, <2>1, <2>2, FinishAsks DEF WatcherFinishes
<1>5. ASSUME IdleFires PROVE Promise!Ask \/ UNCHANGED Promise!promised
  <2>1. pid = NoPid => pid \notin apps
    BY PidsAssumption DEF IInv, TypeOK
  <2> QED BY <1>5, <2>1, FinishAsks DEF IdleFires
<1>6. ASSUME Idle PROVE UNCHANGED Promise!promised
  BY <1>6 DEF Idle, Promise!promised, Stopping
<1>7. ASSUME Close PROVE Promise!Next \/ UNCHANGED Promise!promised
  <2>1. CASE done > 0
    BY <1>7, <2>1 DEF Close, Promise!promised, Stopping
  <2>2. CASE ~(done > 0) /\ closed
    BY <1>7, <2>2 DEF Close, Promise!promised, Stopping
  <2>3. CASE ~(done > 0) /\ ~closed
    BY <1>7, <2>3 DEF Close, Promise!Next, Promise!Told, Stopping
  <2> QED BY <2>1, <2>2, <2>3
<1>8. CASE UNCHANGED vars
  BY <1>8 DEF vars, Promise!promised, Stopping
<1> QED BY <1>1, <1>2, <1>3, <1>4, <1>5, <1>6, <1>7, <1>8 DEF Next, Promise!Next

\* The service asks to stop only when the application it follows is gone (or none ever
\* came), whatever watchers of earlier applications and the idle timer do.
THEOREM PromiseKept == Spec => KeepsPromise
  BY InvariantHolds, PromiseInit, PromiseNext, PTL DEF Spec, KeepsPromise, Promise!Spec

----------------------------------------------------------------------------
(* The service on Linux: what is on record *)
(* With one service (a second one would share the PID file, the socket and   *)
(* state.json with the first: see README).  The argument follows the calls   *)
(* step by step: the record is exact at rest, complete while a tunnel is     *)
(* taken down, and empty, on a clean system, when one begins to be brought   *)
(* up; from there until the record is written only the call knows.           *)


Phases == {"off", "boot", "serving", "closing", "leaving"}
Known == [pid : Nat, parts : SUBSET L!Parts, hole : BOOLEAN, dns : {"none", "link", "lo", "file"}]
Doings == {"none", "up", "down", "reconcile", "final", "exited"}
Holds == [what : Doings, at : L!Steps, rec : Known]

LinuxTyped ==
    /\ phase \in [Services -> Phases]
    /\ follows \in [Services -> {"nobody", "running", "gone"}]
    /\ waiting \in [Services -> SUBSET {"up", "down"}]
    /\ op \in [Services -> Holds] /\ mem \in [Services -> Known] /\ saved \in Known
    /\ born \in Nat /\ daemons \subseteq 1 .. born
    /\ parts \subseteq L!Parts /\ hole \in BOOLEAN /\ forgotten \in BOOLEAN
    /\ link \in {"none", "senawg0", "lo"}
    /\ conf \in {"system", "tunnel"} /\ bak \in {"none", "system", "tunnel"}

\* The process that runs is the one of the PID file, and one that is stopped for good does not run.
Running(v) ==
    /\ phase[v] = "off" => op[v] = L!NoOp /\ waiting[v] = {} /\ mem[v] = L!NoTunnel
    /\ phase[v] # "off" => pidFile = v
    /\ pidFile \in {v, None}
    /\ removal \in {"stopped", "done"} => phase[v] = "off"

\* Who may be at which step of c.mu's holder.
Holding(v) ==
    /\ op[v].what = "none" => op[v] = L!NoOp
    /\ op[v].at \in {"start", "conf", "rules", "split", "dns"} => op[v].what = "up"
    /\ op[v].at = "save" => op[v].what \in {"up", "exited"}
    /\ op[v].what = "exited" => op[v].at = "save"

\* A record is exactly what the system carries.
Exact(rec) ==
    /\ L!Carries(rec) /\ parts = rec.parts
    /\ rec.dns = "file" <=> conf = "tunnel"

Nothing(v) == saved = L!NoTunnel /\ mem[v] = L!NoTunnel

\* At rest the record, the memory and the system agree.
AtRest(v) ==
    /\ phase[v] = "off" => L!Carries(saved)
    /\ op[v].what = "none" /\ phase[v] # "off" => mem[v] = saved /\ Exact(saved)
    /\ saved.pid = 0 => saved = L!NoTunnel
    /\ bak = "none" \/ (conf = "tunnel" /\ bak = "system")

\* While a tunnel is taken down the record still has all that is left of it.
TakenDown(v) ==
    op[v].what # "none" =>
        /\ op[v].at = "kill" => op[v].rec = saved /\ L!Carries(saved)
        /\ op[v].at = "undo" => op[v].rec = saved /\ L!Carries(saved) /\ daemons = {}
        /\ op[v].at = "clear" => op[v].rec = saved /\ L!Clean

\* While one is brought up nothing is on record, and the call knows what it has done.
BroughtUp(v) ==
    /\ op[v].at = "start" => Nothing(v) /\ L!Clean
    /\ op[v].at \in {"conf", "rules", "split", "dns"} =>
          /\ Nothing(v) /\ op[v].rec.pid # 0 /\ daemons \subseteq {op[v].rec.pid}
          /\ parts = op[v].rec.parts /\ ~hole /\ ~op[v].rec.hole /\ op[v].rec.dns = "none"
          /\ link = "none" /\ conf = "system"
    /\ op[v].at \in {"conf", "rules"} => op[v].rec.parts = {}
    /\ op[v].at = "split" => op[v].rec.parts \subseteq {"rules"}
    /\ op[v].at = "save" => op[v].rec.pid # 0 /\ Exact(op[v].rec)
    /\ op[v].at = "save" /\ op[v].what = "exited" => mem[v] = op[v].rec

Recorded(v) == AtRest(v) /\ TakenDown(v) /\ BroughtUp(v)
LinuxInv(v) == LinuxTyped /\ Running(v) /\ Holding(v) /\ (~forgotten => Recorded(v))


\* v is the only service, and not one of the other values of `removal` and `pidFile`.
Only(v) == Services = {v} /\ v \notin {"none", "stopped", "done", None}
One(v) == Only(v) /\ LinuxInv(v)

\* What a step leaves in the hand of c.mu's holder.
LEMMA TakesTyped ==
  ASSUME LinuxTyped, NEW v \in Services, NEW what \in Doings, NEW at \in L!Steps, NEW rec \in Known,
         L!Takes(v, what, at, rec)
  PROVE  /\ op' \in [Services -> Holds]
         /\ op'[v].what = what /\ op'[v].at = at /\ op'[v].rec = rec
<1>1. [what |-> what, at |-> at, rec |-> rec] \in Holds BY DEF Holds
<1>2. op'[v] = [what |-> what, at |-> at, rec |-> rec] BY DEF LinuxTyped, L!Takes
<1> QED BY <1>1, <1>2 DEF LinuxTyped, L!Takes

LEMMA NothingIsKnown == L!NoTunnel \in Known /\ L!NoOp \in Holds
  BY DEF L!NoTunnel, L!NoOp, Known, Holds, Doings, L!Steps, L!Parts

LEMMA AtStep ==
  ASSUME LinuxTyped, NEW v \in Services
  PROVE  /\ op[v] \in Holds /\ op[v].what \in Doings /\ op[v].at \in L!Steps /\ op[v].rec \in Known
         /\ mem[v] \in Known /\ saved \in Known
  BY DEF LinuxTyped, Holds

\* Whatever the service is in the middle of, but for what CutsShort names, the record is
\* of everything the system carries.
LEMMA OnRecord ==
  ASSUME NEW v, One(v), ~forgotten, ~L!CutsShort(v) PROVE L!Carries(saved)
<1> USE DEF Only, One, LinuxInv
<1>0. Recorded(v) OBVIOUS
<1>1. CASE phase[v] = "off" BY <1>0, <1>1 DEF Recorded, AtRest
<1>2. CASE phase[v] # "off" /\ op[v].what = "none"
  BY <1>0, <1>2 DEF Recorded, AtRest, Exact
<1>3. CASE op[v].what # "none" /\ op[v].at \in {"kill", "undo"}
  BY <1>0, <1>3 DEF Recorded, TakenDown
<1>4. CASE op[v].what # "none" /\ op[v].at = "clear"
  <2>1. L!Clean BY <1>0, <1>4 DEF Recorded, TakenDown
  <2> QED BY <2>1 DEF L!Clean, L!Carries
<1>5. CASE op[v].at = "start"
  <2>1. L!Clean BY <1>0, <1>5 DEF Recorded, BroughtUp
  <2> QED BY <2>1 DEF L!Clean, L!Carries
<1> QED BY <1>1, <1>2, <1>3, <1>4, <1>5, AtStep DEF L!CutsShort, L!Steps, Holding

\* The process is gone, and leaves all else as it is.
LEMMA GoneKeeps ==
  ASSUME NEW v, One(v), L!Gone(v), UNCHANGED <<saved, daemons, born, parts, hole, link, conf, bak>>,
         pidFile' \in {pidFile, None},
         removal' = removal \/ removal' \in {v, "stopped"}
  PROVE  LinuxInv(v)'
<1> USE DEF Only, One, LinuxInv
<1>1. /\ phase'[v] = "off" /\ waiting'[v] = {} /\ mem'[v] = L!NoTunnel /\ op'[v] = L!NoOp
      /\ forgotten' = (forgotten \/ L!CutsShort(v))
  BY DEF LinuxTyped, L!Gone, L!Unlocks
<1>2. LinuxTyped'
  <2>1. op' \in [Services -> Holds] /\ mem' \in [Services -> Known]
    BY NothingIsKnown DEF LinuxTyped, L!Gone, L!Unlocks
  <2> QED BY <2>1 DEF LinuxTyped, L!Gone, L!CutsShort, Phases
<1>3. Running(v)' /\ Holding(v)'
  BY <1>1 DEF Running, Holding, L!NoOp
<1>4. ASSUME ~forgotten' PROVE Recorded(v)'
  <2>1. Recorded(v) /\ ~L!CutsShort(v) BY <1>1, <1>4 DEF L!CutsShort, LinuxTyped
  <2>2. L!Carries(saved) BY <2>1, <1>4, OnRecord DEF Recorded, L!Gone
  <2>3. AtRest(v)'
    BY <1>1, <2>1, <2>2 DEF Recorded, AtRest, L!Carries, L!NoOp
  <2>4. TakenDown(v)' /\ BroughtUp(v)'
    BY <1>1 DEF TakenDown, BroughtUp, L!NoOp
  <2> QED BY <2>3, <2>4 DEF Recorded
<1> QED BY <1>2, <1>3, <1>4

\* The listener goes; the tunnel is as it was.
LEMMA ClosesKeeps ==
  ASSUME NEW v, One(v), L!Closes(v), phase[v] = "serving",
         removal' = removal \/ removal' = v
  PROVE  LinuxInv(v)'
<1> USE DEF Only, One, LinuxInv, L!Closes, L!netVars
<1>1. LinuxTyped' BY DEF LinuxTyped, Phases
<1>2. Running(v)' /\ Holding(v)' BY DEF LinuxTyped, Running, Holding
<1>3. ASSUME ~forgotten' PROVE Recorded(v)'
  BY <1>3 DEF Recorded, AtRest, TakenDown, BroughtUp, Nothing, Exact, L!Carries, L!Clean, LinuxTyped
<1> QED BY <1>1, <1>2, <1>3

LEMMA LaunchKeeps ==
  ASSUME NEW v, One(v), L!Launch(v) PROVE LinuxInv(v)'
<1> USE DEF Only, One, LinuxInv
<1>0. op' \in [Services -> Holds] /\ (saved.pid = 0 => op' = op)
      /\ (saved.pid # 0 => op'[v].what = "reconcile" /\ op'[v].at = "kill" /\ op'[v].rec = saved)
  BY AtStep, TakesTyped DEF LinuxTyped, L!Launch, Doings, L!Steps
<1> USE DEF L!Launch, L!WritesPidFile, L!Takes, L!serviceVars, L!fileVars, L!netVars, L!NoOp,
           L!NoTunnel
<1>1. LinuxTyped'
  BY <1>0, NothingIsKnown DEF LinuxTyped, Holds, Doings, Known, Phases, L!Steps, L!Parts
<1>2. Running(v)'
  BY <1>0 DEF LinuxTyped, Running
<1>3. Holding(v)'
  BY <1>0 DEF LinuxTyped, Holding, Running, Holds
<1>4. ASSUME ~forgotten' PROVE Recorded(v)'
  <2>1. Recorded(v) BY <1>4 DEF LinuxTyped
  <2> USE DEF LinuxTyped, Running, Holding, Holds, Known, Recorded, AtRest, TakenDown, BroughtUp,
              Nothing, Exact, L!Carries, L!Clean
  <2>2. AtRest(v)' BY <1>0, <1>4, <2>1
  <2>3. TakenDown(v)' BY <1>0, <1>4, <2>1
  <2>4. BroughtUp(v)' BY <1>0, <1>4, <2>1
  <2> QED BY <2>2, <2>3, <2>4
<1> QED BY <1>1, <1>2, <1>3, <1>4

LEMMA ListensKeeps ==
  ASSUME NEW v, One(v), L!Listens(v) PROVE LinuxInv(v)'
<1> USE DEF Only, One, LinuxInv
<1> USE DEF L!Listens, L!Free, L!serviceVars, L!fileVars, L!netVars, L!NoOp, L!NoTunnel
<1>1. LinuxTyped'
  BY DEF LinuxTyped, Holds, Doings, Known, Phases, L!Steps, L!Parts
<1>2. Running(v)'
  BY DEF LinuxTyped, Running
<1>3. Holding(v)'
  BY DEF LinuxTyped, Holding, Running, Holds
<1>4. ASSUME ~forgotten' PROVE Recorded(v)'
  <2>1. Recorded(v) BY <1>4 DEF LinuxTyped
  <2> USE DEF LinuxTyped, Running, Holding, Holds, Known, Recorded, AtRest, TakenDown, BroughtUp,
              Nothing, Exact, L!Carries, L!Clean
  <2>2. AtRest(v)' BY <1>4, <2>1
  <2>3. TakenDown(v)' BY <1>4, <2>1
  <2>4. BroughtUp(v)' BY <1>4, <2>1
  <2> QED BY <2>2, <2>3, <2>4
<1> QED BY <1>1, <1>2, <1>3, <1>4

LEMMA StopsKeeps ==
  ASSUME NEW v, One(v), L!Stops(v) PROVE LinuxInv(v)'
  BY ClosesKeeps DEF L!Stops

LEMMA LastTeardownKeeps ==
  ASSUME NEW v, One(v), L!LastTeardown(v) PROVE LinuxInv(v)'
<1> USE DEF Only, One, LinuxInv
<1> USE DEF L!LastTeardown, L!Free, L!Takes, L!serviceVars, L!fileVars, L!netVars, L!NoOp,
           L!NoTunnel
<1>1. LinuxTyped'
  BY DEF LinuxTyped, Holds, Doings, Known, Phases, L!Steps, L!Parts
<1>2. Running(v)'
  BY DEF LinuxTyped, Running
<1>3. Holding(v)'
  BY DEF LinuxTyped, Holding, Running, Holds
<1>4. ASSUME ~forgotten' PROVE Recorded(v)'
  <2>1. Recorded(v) BY <1>4 DEF LinuxTyped
  <2> USE DEF LinuxTyped, Running, Holding, Holds, Known, Recorded, AtRest, TakenDown, BroughtUp,
              Nothing, Exact, L!Carries, L!Clean
  <2>2. AtRest(v)' BY <1>4, <2>1
  <2>3. TakenDown(v)' BY <1>4, <2>1
  <2>4. BroughtUp(v)' BY <1>4, <2>1
  <2> QED BY <2>2, <2>3, <2>4
<1> QED BY <1>1, <1>2, <1>3, <1>4

LEMMA LeavesKeeps ==
  ASSUME NEW v, One(v), L!Leaves(v) PROVE LinuxInv(v)'
  BY GoneKeeps DEF L!Leaves, L!fileVars, L!netVars

LEMMA KilledKeeps ==
  ASSUME NEW v, One(v), L!Killed(v) PROVE LinuxInv(v)'
  BY GoneKeeps DEF L!Killed, L!fileVars, L!netVars

LEMMA AppExitsKeeps ==
  ASSUME NEW v, One(v), L!AppExits PROVE LinuxInv(v)'
<1> USE DEF Only, One, LinuxInv
<1> USE DEF L!AppExits, L!serviceVars, L!fileVars, L!netVars, L!NoOp, L!NoTunnel
<1>1. LinuxTyped'
  BY DEF LinuxTyped, Holds, Doings, Known, Phases, L!Steps, L!Parts
<1>2. Running(v)'
  BY DEF LinuxTyped, Running
<1>3. Holding(v)'
  BY DEF LinuxTyped, Holding, Running, Holds
<1>4. ASSUME ~forgotten' PROVE Recorded(v)'
  <2>1. Recorded(v) BY <1>4 DEF LinuxTyped
  <2> USE DEF LinuxTyped, Running, Holding, Holds, Known, Recorded, AtRest, TakenDown, BroughtUp,
              Nothing, Exact, L!Carries, L!Clean
  <2>2. AtRest(v)' BY <1>4, <2>1
  <2>3. TakenDown(v)' BY <1>4, <2>1
  <2>4. BroughtUp(v)' BY <1>4, <2>1
  <2> QED BY <2>2, <2>3, <2>4
<1> QED BY <1>1, <1>2, <1>3, <1>4

LEMMA AppStartsKeeps ==
  ASSUME NEW v, One(v), L!AppStarts PROVE LinuxInv(v)'
<1> USE DEF Only, One, LinuxInv
<1> USE DEF L!AppStarts, L!serviceVars, L!fileVars, L!netVars, L!NoOp, L!NoTunnel
<1>1. LinuxTyped'
  BY DEF LinuxTyped, Holds, Doings, Known, Phases, L!Steps, L!Parts
<1>2. Running(v)'
  BY DEF LinuxTyped, Running
<1>3. Holding(v)'
  BY DEF LinuxTyped, Holding, Running, Holds
<1>4. ASSUME ~forgotten' PROVE Recorded(v)'
  <2>1. Recorded(v) BY <1>4 DEF LinuxTyped
  <2> USE DEF LinuxTyped, Running, Holding, Holds, Known, Recorded, AtRest, TakenDown, BroughtUp,
              Nothing, Exact, L!Carries, L!Clean
  <2>2. AtRest(v)' BY <1>4, <2>1
  <2>3. TakenDown(v)' BY <1>4, <2>1
  <2>4. BroughtUp(v)' BY <1>4, <2>1
  <2> QED BY <2>2, <2>3, <2>4
<1> QED BY <1>1, <1>2, <1>3, <1>4

LEMMA DownKeeps ==
  ASSUME NEW v, One(v), L!Down(v) PROVE LinuxInv(v)'
<1> USE DEF Only, One, LinuxInv
<1> USE DEF L!Down, L!Free, L!Takes, L!serviceVars, L!fileVars, L!netVars, L!NoOp, L!NoTunnel
<1>1. LinuxTyped'
  BY DEF LinuxTyped, Holds, Doings, Known, Phases, L!Steps, L!Parts
<1>2. Running(v)'
  BY DEF LinuxTyped, Running
<1>3. Holding(v)'
  BY DEF LinuxTyped, Holding, Running, Holds
<1>4. ASSUME ~forgotten' PROVE Recorded(v)'
  <2>1. Recorded(v) BY <1>4 DEF LinuxTyped
  <2> USE DEF LinuxTyped, Running, Holding, Holds, Known, Recorded, AtRest, TakenDown, BroughtUp,
              Nothing, Exact, L!Carries, L!Clean
  <2>2. AtRest(v)' BY <1>4, <2>1
  <2>3. TakenDown(v)' BY <1>4, <2>1
  <2>4. BroughtUp(v)' BY <1>4, <2>1
  <2> QED BY <2>2, <2>3, <2>4
<1> QED BY <1>1, <1>2, <1>3, <1>4

LEMMA KillsDaemonKeeps ==
  ASSUME NEW v, One(v), L!KillsDaemon(v) PROVE LinuxInv(v)'
<1> USE DEF Only, One, LinuxInv
<1> USE DEF L!KillsDaemon, L!Free, L!Terminates, L!LinkWithout, L!Moves, L!serviceVars, L!fileVars,
           L!netVars, L!NoOp, L!NoTunnel
<1>1. LinuxTyped'
  BY DEF LinuxTyped, Holds, Doings, Known, Phases, L!Steps, L!Parts
<1>2. Running(v)'
  BY DEF LinuxTyped, Running
<1>3. Holding(v)'
  BY DEF LinuxTyped, Holding, Running, Holds
<1>4. ASSUME ~forgotten' PROVE Recorded(v)'
  <2>1. Recorded(v) BY <1>4 DEF LinuxTyped
  <2> USE DEF LinuxTyped, Running, Holding, Holds, Known, Recorded, AtRest, TakenDown, BroughtUp,
              Nothing, Exact, L!Carries, L!Clean
  <2>2. AtRest(v)' BY <1>4, <2>1
  <2>3. TakenDown(v)' BY <1>4, <2>1
  <2>4. BroughtUp(v)' BY <1>4, <2>1
  <2> QED BY <2>2, <2>3, <2>4
<1> QED BY <1>1, <1>2, <1>3, <1>4

LEMMA UndoesNetworkKeeps ==
  ASSUME NEW v, One(v), L!UndoesNetwork(v) PROVE LinuxInv(v)'
<1> USE DEF Only, One, LinuxInv
<1> USE DEF L!UndoesNetwork, L!RemovesRoutes, L!RestoresDNS, L!Moves, L!serviceVars, L!fileVars,
           L!netVars, L!NoOp, L!NoTunnel
<1>1. LinuxTyped'
  BY DEF LinuxTyped, Holds, Doings, Known, Phases, L!Steps, L!Parts
<1>2. Running(v)'
  BY DEF LinuxTyped, Running
<1>3. Holding(v)'
  BY DEF LinuxTyped, Holding, Running, Holds
<1>4. ASSUME ~forgotten' PROVE Recorded(v)'
  <2>1. Recorded(v) BY <1>4 DEF LinuxTyped
  <2> USE DEF LinuxTyped, Running, Holding, Holds, Known, Recorded, AtRest, TakenDown, BroughtUp,
              Nothing, Exact, L!Carries, L!Clean
  <2>2. AtRest(v)' BY <1>4, <2>1
  <2>3. TakenDown(v)' BY <1>4, <2>1
  <2>4. BroughtUp(v)' BY <1>4, <2>1
  <2> QED BY <2>2, <2>3, <2>4
<1> QED BY <1>1, <1>2, <1>3, <1>4

LEMMA ClearsStateKeeps ==
  ASSUME NEW v, One(v), L!ClearsState(v) PROVE LinuxInv(v)'
<1> USE DEF Only, One, LinuxInv
<1>0. op' \in [Services -> Holds]
      /\ (op[v].what = "up" => op'[v].what = "up" /\ op'[v].at = "start" /\ op'[v].rec = L!NoTunnel)
      /\ (op[v].what # "up" => op'[v] = L!NoOp)
  BY NothingIsKnown, TakesTyped DEF LinuxTyped, L!ClearsState, L!Unlocks, Doings, L!Steps
<1> USE DEF L!ClearsState, L!Forgets, L!Takes, L!Unlocks, L!serviceVars, L!fileVars, L!netVars,
           L!NoOp, L!NoTunnel
<1>1. LinuxTyped'
  BY <1>0, NothingIsKnown DEF LinuxTyped, Holds, Doings, Known, Phases, L!Steps, L!Parts
<1>2. Running(v)'
  BY <1>0 DEF LinuxTyped, Running
<1>3. Holding(v)'
  BY <1>0 DEF LinuxTyped, Holding, Running, Holds
<1>4. ASSUME ~forgotten' PROVE Recorded(v)'
  <2>1. Recorded(v) BY <1>4 DEF LinuxTyped
  <2> USE DEF LinuxTyped, Running, Holding, Holds, Known, Recorded, AtRest, TakenDown, BroughtUp,
              Nothing, Exact, L!Carries, L!Clean
  <2>2. AtRest(v)' BY <1>0, <1>4, <2>1
  <2>3. TakenDown(v)' BY <1>0, <1>4, <2>1
  <2>4. BroughtUp(v)' BY <1>0, <1>4, <2>1
  <2> QED BY <2>2, <2>3, <2>4
<1> QED BY <1>1, <1>2, <1>3, <1>4

LEMMA UpBeginsKeeps ==
  ASSUME NEW v, One(v), L!UpBegins(v) PROVE LinuxInv(v)'
<1> USE DEF Only, One, LinuxInv
<1>0. op' \in [Services -> Holds]
      /\ \/ op'[v].what = "up" /\ op'[v].at = "kill" /\ op'[v].rec = mem[v] /\ mem[v].pid # 0
         \/ op'[v].what = "up" /\ op'[v].at = "start" /\ op'[v].rec = L!NoTunnel /\ mem[v].pid = 0
         \/ op' = op
  BY AtStep, NothingIsKnown, TakesTyped DEF LinuxTyped, L!UpBegins, Doings, L!Steps
<1> USE DEF L!UpBegins, L!Free, L!Takes, L!serviceVars, L!fileVars, L!netVars, L!NoOp, L!NoTunnel
<1>1. LinuxTyped'
  BY <1>0, NothingIsKnown DEF LinuxTyped, Holds, Doings, Known, Phases, L!Steps, L!Parts
<1>2. Running(v)'
  BY <1>0 DEF LinuxTyped, Running
<1>3. Holding(v)'
  BY <1>0 DEF LinuxTyped, Holding, Running, Holds
<1>4. ASSUME ~forgotten' PROVE Recorded(v)'
  <2>1. Recorded(v) BY <1>4 DEF LinuxTyped
  <2> USE DEF LinuxTyped, Running, Holding, Holds, Known, Recorded, AtRest, TakenDown, BroughtUp,
              Nothing, Exact, L!Carries, L!Clean
  <2>2. AtRest(v)' BY <1>0, <1>4, <2>1
  <2>3. TakenDown(v)' BY <1>0, <1>4, <2>1
  <2>4. BroughtUp(v)' BY <1>0, <1>4, <2>1
  <2> QED BY <2>2, <2>3, <2>4
<1> QED BY <1>1, <1>2, <1>3, <1>4

LEMMA StartsDaemonKeeps ==
  ASSUME NEW v, One(v), L!StartsDaemon(v) PROVE LinuxInv(v)'
<1> USE DEF Only, One, LinuxInv
<1>0. op' \in [Services -> Holds] /\ op'[v].what = "up" /\ op'[v].at = "conf"
      /\ op'[v].rec.pid = born + 1 /\ op'[v].rec.parts = {}
      /\ ~op'[v].rec.hole /\ op'[v].rec.dns = "none"
  <2>1. /\ L!NoTunnel.pid = 0 /\ L!NoTunnel.parts = {}
        /\ ~L!NoTunnel.hole /\ L!NoTunnel.dns = "none"
    BY DEF L!NoTunnel
  <2>2. LET rec == [L!NoTunnel EXCEPT !.pid = born + 1] IN
          /\ rec \in Known /\ rec.pid = born + 1 /\ rec.parts = {}
          /\ ~rec.hole /\ rec.dns = "none"
    BY <2>1, NothingIsKnown DEF LinuxTyped, Known
  <2> QED BY <2>2, TakesTyped DEF L!StartsDaemon, Doings, L!Steps
<1> USE DEF L!StartsDaemon, L!Takes, L!serviceVars, L!fileVars, L!netVars, L!NoOp, L!NoTunnel
<1>1. LinuxTyped'
  BY <1>0, NothingIsKnown DEF LinuxTyped, Holds, Doings, Known, Phases, L!Steps, L!Parts
<1>2. Running(v)'
  BY <1>0 DEF LinuxTyped, Running
<1>3. Holding(v)'
  BY <1>0 DEF LinuxTyped, Holding, Running, Holds
<1>4. ASSUME ~forgotten' PROVE Recorded(v)'
  <2>1. Recorded(v) BY <1>4 DEF LinuxTyped
  <2> USE DEF LinuxTyped, Running, Holding, Holds, Known, Recorded, AtRest, TakenDown, BroughtUp,
              Nothing, Exact, L!Carries, L!Clean
  <2>2. AtRest(v)' BY <1>0, <1>4, <2>1
  <2>3. TakenDown(v)' BY <1>0, <1>4, <2>1
  <2>4. BroughtUp(v)' BY <1>0, <1>4, <2>1
  <2> QED BY <2>2, <2>3, <2>4
<1> QED BY <1>1, <1>2, <1>3, <1>4

LEMMA ConfiguresKeeps ==
  ASSUME NEW v, One(v), L!Configures(v) PROVE LinuxInv(v)'
<1> USE DEF Only, One, LinuxInv
<1> USE DEF L!Configures, L!Moves, L!serviceVars, L!fileVars, L!netVars, L!NoOp, L!NoTunnel
<1>1. LinuxTyped'
  BY DEF LinuxTyped, Holds, Doings, Known, Phases, L!Steps, L!Parts
<1>2. Running(v)'
  BY DEF LinuxTyped, Running
<1>3. Holding(v)'
  BY DEF LinuxTyped, Holding, Running, Holds
<1>4. ASSUME ~forgotten' PROVE Recorded(v)'
  <2>1. Recorded(v) BY <1>4 DEF LinuxTyped
  <2> USE DEF LinuxTyped, Running, Holding, Holds, Known, Recorded, AtRest, TakenDown, BroughtUp,
              Nothing, Exact, L!Carries, L!Clean
  <2>2. AtRest(v)' BY <1>4, <2>1
  <2>3. TakenDown(v)' BY <1>4, <2>1
  <2>4. BroughtUp(v)' BY <1>4, <2>1
  <2> QED BY <2>2, <2>3, <2>4
<1> QED BY <1>1, <1>2, <1>3, <1>4

LEMMA AppliesRulesKeeps ==
  ASSUME NEW v, One(v), L!AppliesRules(v) PROVE LinuxInv(v)'
<1> USE DEF Only, One, LinuxInv
<1>0. op' \in [Services -> Holds]
      /\ \/ /\ op'[v].what = "up" /\ op'[v].at = "split"
            /\ op'[v].rec = [op[v].rec EXCEPT !.parts = {"rules"}]
            /\ "rules" \notin parts /\ parts' = parts \cup {"rules"} /\ hole' = FALSE
         \/ /\ op'[v] = [op[v] EXCEPT !.at = "split"] /\ UNCHANGED <<parts, hole>>
  <2>1. [op[v].rec EXCEPT !.parts = {"rules"}] \in Known
    BY AtStep DEF Known, L!Parts
  <2>2. ASSUME L!Takes(v, "up", "split", [op[v].rec EXCEPT !.parts = {"rules"}])
        PROVE /\ op' \in [Services -> Holds] /\ op'[v].what = "up" /\ op'[v].at = "split"
              /\ op'[v].rec = [op[v].rec EXCEPT !.parts = {"rules"}]
    BY <2>1, <2>2, TakesTyped DEF Doings, L!Steps
  <2>3. ASSUME L!Moves(v, "split")
        PROVE op' \in [Services -> Holds] /\ op'[v] = [op[v] EXCEPT !.at = "split"]
    BY <2>3 DEF LinuxTyped, L!Moves, Holds, L!Steps
  <2> QED BY <2>2, <2>3 DEF L!AppliesRules
<1> USE DEF L!AppliesRules, L!Takes, L!Moves, L!serviceVars, L!fileVars, L!netVars, L!NoOp,
           L!NoTunnel
<1>1. LinuxTyped'
  BY <1>0, NothingIsKnown, ZenonT(60)
  DEF LinuxTyped, Holds, Doings, Known, Phases, L!Steps, L!Parts
<1>2. Running(v)'
  BY <1>0 DEF LinuxTyped, Running
<1>3. Holding(v)'
  BY <1>0 DEF LinuxTyped, Holding, Running, Holds
<1>4. ASSUME ~forgotten' PROVE Recorded(v)'
  <2>1. Recorded(v) BY <1>4 DEF LinuxTyped
  <2> USE DEF LinuxTyped, Running, Holding, Holds, Known, Recorded, AtRest, TakenDown, BroughtUp,
              Nothing, Exact, L!Carries, L!Clean
  <2>2. AtRest(v)' BY <1>0, <1>4, <2>1
  <2>3. TakenDown(v)' BY <1>0, <1>4, <2>1
  <2>4. op[v].at = "rules" /\ op[v].rec.parts = {} /\ parts = {} /\ op[v].rec \in Known
    BY <2>1, AtStep
  <2>5. /\ op'[v].at = "split" /\ op'[v].rec.parts = parts' /\ parts' \subseteq {"rules"}
        /\ op'[v].rec.pid = op[v].rec.pid /\ op'[v].rec.hole = op[v].rec.hole
        /\ op'[v].rec.dns = op[v].rec.dns
    <3>1. CASE op'[v] = [op[v] EXCEPT !.at = "split"] /\ UNCHANGED <<parts, hole>>
      BY <2>4, <3>1, AtStep
    <3>2. CASE /\ op'[v].at = "split" /\ op'[v].rec = [op[v].rec EXCEPT !.parts = {"rules"}]
               /\ parts' = parts \cup {"rules"}
      BY <2>4, <3>2
    <3> QED BY <1>0, <3>1, <3>2
  <2>6. Nothing(v)' /\ ~hole' /\ UNCHANGED <<daemons, link, conf>>
    BY <1>0, <2>1, <2>4
  <2>7. BroughtUp(v)' BY <2>1, <2>4, <2>5, <2>6
  <2> QED BY <2>2, <2>3, <2>7
<1> QED BY <1>1, <1>2, <1>3, <1>4

LEMMA StartsSplitKeeps ==
  ASSUME NEW v, One(v), L!StartsSplit(v) PROVE LinuxInv(v)'
<1> USE DEF Only, One, LinuxInv
<1> USE DEF L!StartsSplit, L!Takes, L!Moves, L!serviceVars, L!fileVars, L!netVars, L!NoOp,
           L!NoTunnel
<1>1. LinuxTyped'
  BY DEF LinuxTyped, Holds, Doings, Known, Phases, L!Steps, L!Parts
<1>2. Running(v)'
  BY DEF LinuxTyped, Running
<1>3. Holding(v)'
  BY DEF LinuxTyped, Holding, Running, Holds
<1>4. ASSUME ~forgotten' PROVE Recorded(v)'
  <2>1. Recorded(v) BY <1>4 DEF LinuxTyped
  <2> USE DEF LinuxTyped, Running, Holding, Holds, Known, Recorded, AtRest, TakenDown, BroughtUp,
              Nothing, Exact, L!Carries, L!Clean
  <2>2. AtRest(v)' BY <1>4, <2>1
  <2>3. TakenDown(v)' BY <1>4, <2>1
  <2>4. op[v].rec.parts = parts /\ op[v].rec \in Known
    BY <2>1, AtStep
  <2>5. /\ op'[v].at = "dns" /\ op'[v].rec.parts = parts'
        /\ op'[v].rec.pid = op[v].rec.pid /\ op'[v].rec.hole = op[v].rec.hole
        /\ op'[v].rec.dns = op[v].rec.dns
    <3>1. CASE L!Moves(v, "dns") /\ UNCHANGED parts
      BY <2>4, <3>1
    <3>2. ASSUME NEW on, parts' = parts \cup on,
                 L!Takes(v, "up", "dns", [op[v].rec EXCEPT !.parts = @ \cup on])
          PROVE  /\ op'[v].at = "dns" /\ op'[v].rec.parts = parts'
                 /\ op'[v].rec.pid = op[v].rec.pid /\ op'[v].rec.hole = op[v].rec.hole
                 /\ op'[v].rec.dns = op[v].rec.dns
      BY <2>4, <3>2
    <3> QED BY <3>1, <3>2
  <2>6. Nothing(v)' /\ UNCHANGED <<daemons, hole, link, conf>>
    BY <2>1
  <2>7. BroughtUp(v)' BY <2>1, <2>5, <2>6
  <2> QED BY <2>2, <2>3, <2>7
<1> QED BY <1>1, <1>2, <1>3, <1>4

LEMMA UpFailsKeeps ==
  ASSUME NEW v, One(v), L!UpFails(v) PROVE LinuxInv(v)'
<1> USE DEF Only, One, LinuxInv
<1> USE DEF L!UpFails, L!RemovesRoutes, L!Terminates, L!LinkWithout, L!Unlocks, L!serviceVars,
           L!fileVars, L!netVars, L!NoOp, L!NoTunnel
<1>1. LinuxTyped'
  BY DEF LinuxTyped, Holds, Doings, Known, Phases, L!Steps, L!Parts
<1>2. Running(v)'
  BY DEF LinuxTyped, Running
<1>3. Holding(v)'
  BY DEF LinuxTyped, Holding, Running, Holds
<1>4. ASSUME ~forgotten' PROVE Recorded(v)'
  <2>1. Recorded(v) BY <1>4 DEF LinuxTyped
  <2> USE DEF LinuxTyped, Running, Holding, Holds, Known, Recorded, AtRest, TakenDown, BroughtUp,
              Nothing, Exact, L!Carries, L!Clean
  <2>2. Nothing(v) /\ phase[v] # "off" /\ ~hole /\ link = "none" /\ conf = "system"
    BY <2>1
  <2>3. daemons \subseteq {op[v].rec.pid} /\ (op[v].at = "start" => parts = {})
        /\ (op[v].at # "start" => parts = op[v].rec.parts)
    BY <2>1
  <2>4. op[v].at = "rules" => parts = {}
    BY <2>1
  <2>5. L!Clean'
    BY <2>2, <2>3, <2>4
  <2>6. op'[v] = L!NoOp /\ Nothing(v)' /\ phase' = phase /\ bak' = bak
    BY <2>2
  <2>7. AtRest(v)' BY <2>1, <2>2, <2>5, <2>6
  <2>8. TakenDown(v)' /\ BroughtUp(v)' BY <2>6
  <2> QED BY <2>7, <2>8
<1> QED BY <1>1, <1>2, <1>3, <1>4

LEMMA SetsDNSKeeps ==
  ASSUME NEW v, One(v), L!SetsDNS(v) PROVE LinuxInv(v)'
<1> USE DEF Only, One, LinuxInv
<1> USE DEF L!SetsDNS, L!Takes, L!Moves, L!serviceVars, L!fileVars, L!netVars, L!NoOp, L!NoTunnel
<1>1. LinuxTyped'
  BY DEF LinuxTyped, Holds, Doings, Known, Phases, L!Steps, L!Parts
<1>2. Running(v)'
  BY DEF LinuxTyped, Running
<1>3. Holding(v)'
  BY DEF LinuxTyped, Holding, Running, Holds
<1>4. ASSUME ~forgotten' PROVE Recorded(v)'
  <2>1. Recorded(v) BY <1>4 DEF LinuxTyped
  <2> USE DEF LinuxTyped, Running, Holding, Holds, Known, Recorded, AtRest, TakenDown, BroughtUp,
              Nothing, Exact, L!Carries, L!Clean
  <2>2. AtRest(v)' BY <1>4, <2>1
  <2>3. TakenDown(v)' BY <1>4, <2>1
  <2>4. BroughtUp(v)' BY <1>4, <2>1
  <2> QED BY <2>2, <2>3, <2>4
<1> QED BY <1>1, <1>2, <1>3, <1>4

LEMMA RemembersKeeps ==
  ASSUME NEW v, One(v), L!Remembers(v) PROVE LinuxInv(v)'
<1> USE DEF Only, One, LinuxInv
<1> USE DEF L!Remembers, L!Saves, L!Unlocks, L!serviceVars, L!fileVars, L!netVars, L!NoOp,
           L!NoTunnel
<1>1. LinuxTyped'
  BY DEF LinuxTyped, Holds, Doings, Known, Phases, L!Steps, L!Parts
<1>2. Running(v)'
  BY DEF LinuxTyped, Running
<1>3. Holding(v)'
  BY DEF LinuxTyped, Holding, Running, Holds
<1>4. ASSUME ~forgotten' PROVE Recorded(v)'
  <2>1. Recorded(v) BY <1>4 DEF LinuxTyped
  <2> USE DEF LinuxTyped, Running, Holding, Holds, Known, Recorded, AtRest, TakenDown, BroughtUp,
              Nothing, Exact, L!Carries, L!Clean
  <2>2. AtRest(v)' BY <1>4, <2>1
  <2>3. TakenDown(v)' BY <1>4, <2>1
  <2>4. BroughtUp(v)' BY <1>4, <2>1
  <2> QED BY <2>2, <2>3, <2>4
<1> QED BY <1>1, <1>2, <1>3, <1>4

LEMMA DaemonDiesKeeps ==
  ASSUME NEW v, One(v), NEW p \in daemons, L!DaemonDies(p) PROVE LinuxInv(v)'
<1> USE DEF Only, One, LinuxInv
<1> USE DEF L!DaemonDies, L!Terminates, L!LinkWithout, L!serviceVars, L!fileVars, L!netVars,
           L!NoOp, L!NoTunnel
<1>1. LinuxTyped'
  BY DEF LinuxTyped, Holds, Doings, Known, Phases, L!Steps, L!Parts
<1>2. Running(v)'
  BY DEF LinuxTyped, Running
<1>3. Holding(v)'
  BY DEF LinuxTyped, Holding, Running, Holds
<1>4. ASSUME ~forgotten' PROVE Recorded(v)'
  <2>1. Recorded(v) BY <1>4 DEF LinuxTyped
  <2> USE DEF LinuxTyped, Running, Holding, Holds, Known, Recorded, AtRest, TakenDown, BroughtUp,
              Nothing, Exact, L!Carries, L!Clean
  <2>2. AtRest(v)' BY <1>4, <2>1
  <2>3. TakenDown(v)' BY <1>4, <2>1
  <2>4. BroughtUp(v)' BY <1>4, <2>1
  <2> QED BY <2>2, <2>3, <2>4
<1> QED BY <1>1, <1>2, <1>3, <1>4

LEMMA DaemonExitedKeeps ==
  ASSUME NEW v, One(v), L!DaemonExited(v) PROVE LinuxInv(v)'
<1> USE DEF Only, One, LinuxInv
<1>0. op' \in [Services -> Holds]
      /\ op'[v].what = "exited" /\ op'[v].at = "save" /\ op'[v].rec = L!Held(mem[v])
      /\ L!Held(mem[v]) \in Known
  <2>1. L!Held(mem[v]) \in Known
    BY AtStep DEF L!Held, Known, L!ByTable
  <2> QED BY <2>1, TakesTyped DEF L!DaemonExited, Doings, L!Steps
<1> USE DEF L!DaemonExited, L!SeesExit, L!Free, L!ByTable, L!Held, L!Takes, L!serviceVars,
           L!fileVars, L!netVars, L!NoOp, L!NoTunnel
<1>1. LinuxTyped'
  BY <1>0, NothingIsKnown DEF LinuxTyped, Holds, Doings, Known, Phases, L!Steps, L!Parts
<1>2. Running(v)'
  BY <1>0 DEF LinuxTyped, Running
<1>3. Holding(v)'
  BY <1>0 DEF LinuxTyped, Holding, Running, Holds
<1>4. ASSUME ~forgotten' PROVE Recorded(v)'
  <2>1. Recorded(v) BY <1>4 DEF LinuxTyped
  <2> USE DEF LinuxTyped, Running, Holding, Holds, Known, Recorded, AtRest, TakenDown, BroughtUp,
              Nothing, Exact, L!Carries, L!Clean
  <2>2. AtRest(v)' BY <1>0, <1>4, <2>1
  <2>3. TakenDown(v)' BY <1>0, <1>4, <2>1
  <2>4. Exact(mem[v]) /\ mem[v] = saved /\ saved.pid # 0
    BY <2>1, SMTT(40)
  <2>5. Exact(op[v].rec)'
    BY <1>0, <2>4, ZenonT(60)
  <2>6. BroughtUp(v)'
    BY <1>0, <2>4, <2>5, ZenonT(60)
  <2> QED BY <2>2, <2>3, <2>6
<1> QED BY <1>1, <1>2, <1>3, <1>4

LEMMA RemoveStopsKeeps ==
  ASSUME NEW v, One(v), L!RemoveStops(v) PROVE LinuxInv(v)'
<1> USE DEF L!RemoveStops
<1>1. CASE phase[v] = "boot"
  BY <1>1, GoneKeeps DEF L!fileVars, L!netVars
<1>2. CASE phase[v] = "serving"
  BY <1>2, ClosesKeeps
<1>3. CASE phase[v] \notin {"boot", "serving"}
  <2>1. removal' = v /\ UNCHANGED <<app, L!serviceVars, L!fileVars, L!netVars, forgotten>> BY <1>3
  <2> HIDE DEF L!RemoveStops
  <2> USE <2>1 DEF Only, One, LinuxInv, L!serviceVars, L!fileVars, L!netVars
  <2>2. LinuxTyped' BY DEF LinuxTyped
  <2>3. Running(v)' /\ Holding(v)' BY DEF Running, Holding
  <2>4. ASSUME ~forgotten' PROVE Recorded(v)'
    BY <2>4 DEF Recorded, AtRest, TakenDown, BroughtUp, Nothing, Exact, L!Carries, L!Clean
  <2> QED BY <2>2, <2>3, <2>4
<1> QED BY <1>1, <1>2, <1>3

LEMMA RemoveKillsKeeps ==
  ASSUME NEW v, One(v), L!RemoveKills(v) PROVE LinuxInv(v)'
  BY GoneKeeps DEF L!RemoveKills, L!fileVars, L!netVars

LEMMA RemoveWaitedKeeps ==
  ASSUME NEW v, One(v), L!RemoveWaited PROVE LinuxInv(v)'
<1> USE DEF Only, One, LinuxInv
<1> USE DEF L!RemoveWaited, L!serviceVars, L!fileVars, L!netVars, L!NoOp, L!NoTunnel
<1>1. LinuxTyped'
  BY DEF LinuxTyped, Holds, Doings, Known, Phases, L!Steps, L!Parts
<1>2. Running(v)'
  BY DEF LinuxTyped, Running
<1>3. Holding(v)'
  BY DEF LinuxTyped, Holding, Running, Holds
<1>4. ASSUME ~forgotten' PROVE Recorded(v)'
  <2>1. Recorded(v) BY <1>4 DEF LinuxTyped
  <2> USE DEF LinuxTyped, Running, Holding, Holds, Known, Recorded, AtRest, TakenDown, BroughtUp,
              Nothing, Exact, L!Carries, L!Clean
  <2>2. AtRest(v)' BY <1>4, <2>1
  <2>3. TakenDown(v)' BY <1>4, <2>1
  <2>4. BroughtUp(v)' BY <1>4, <2>1
  <2> QED BY <2>2, <2>3, <2>4
<1> QED BY <1>1, <1>2, <1>3, <1>4

LEMMA RemoveRecordsKeeps ==
  ASSUME NEW v, One(v), L!RemoveRecords PROVE LinuxInv(v)'
<1> USE DEF Only, One, LinuxInv
<1> USE DEF L!RemoveRecords, L!serviceVars, L!fileVars, L!netVars, L!NoOp, L!NoTunnel
<1>1. LinuxTyped'
  BY DEF LinuxTyped, Holds, Doings, Known, Phases, L!Steps, L!Parts
<1>2. Running(v)'
  BY DEF LinuxTyped, Running
<1>3. Holding(v)'
  BY DEF LinuxTyped, Holding, Running, Holds
<1>4. ASSUME ~forgotten' PROVE Recorded(v)'
  <2>1. Recorded(v) BY <1>4 DEF LinuxTyped
  <2> USE DEF LinuxTyped, Running, Holding, Holds, Known, Recorded, AtRest, TakenDown, BroughtUp,
              Nothing, Exact, L!Carries, L!Clean
  <2>2. AtRest(v)' BY <1>4, <2>1
  <2>3. TakenDown(v)' BY <1>4, <2>1
  <2>4. BroughtUp(v)' BY <1>4, <2>1
  <2> QED BY <2>2, <2>3, <2>4
<1> QED BY <1>1, <1>2, <1>3, <1>4

LEMMA RequestKeeps ==
  ASSUME NEW v, One(v), NEW r \in SUBSET {"up", "down"}, L!Request(v, r) PROVE LinuxInv(v)'
<1> USE DEF Only, One, LinuxInv
<1> USE DEF L!Request, L!serviceVars, L!fileVars, L!netVars, L!NoOp, L!NoTunnel
<1>1. LinuxTyped'
  BY DEF LinuxTyped, Holds, Doings, Known, Phases, L!Steps, L!Parts
<1>2. Running(v)'
  BY DEF LinuxTyped, Running
<1>3. Holding(v)'
  BY DEF LinuxTyped, Holding, Running, Holds
<1>4. ASSUME ~forgotten' PROVE Recorded(v)'
  <2>1. Recorded(v) BY <1>4 DEF LinuxTyped
  <2> USE DEF LinuxTyped, Running, Holding, Holds, Known, Recorded, AtRest, TakenDown, BroughtUp,
              Nothing, Exact, L!Carries, L!Clean
  <2>2. AtRest(v)' BY <1>4, <2>1
  <2>3. TakenDown(v)' BY <1>4, <2>1
  <2>4. BroughtUp(v)' BY <1>4, <2>1
  <2> QED BY <2>2, <2>3, <2>4
<1> QED BY <1>1, <1>2, <1>3, <1>4

LEMMA StepKeeps ==
  ASSUME NEW v, One(v), L!ServiceSteps(v) PROVE LinuxInv(v)'
  BY ListensKeeps, StopsKeeps, LastTeardownKeeps, LeavesKeeps, DownKeeps, KillsDaemonKeeps, UndoesNetworkKeeps, ClearsStateKeeps, UpBeginsKeeps,
     StartsDaemonKeeps, ConfiguresKeeps, AppliesRulesKeeps, StartsSplitKeeps, UpFailsKeeps, SetsDNSKeeps, RemembersKeeps, DaemonExitedKeeps
  DEF L!ServiceSteps

LEMMA StillKeeps ==
  ASSUME NEW v, One(v), UNCHANGED linux PROVE LinuxInv(v)'
<1> USE DEF One, LinuxInv, linux
<1>1. LinuxTyped' BY DEF LinuxTyped
<1>2. Running(v)' /\ Holding(v)' BY DEF Running, Holding
<1>3. ASSUME ~forgotten' PROVE Recorded(v)'
  BY <1>3 DEF Recorded, AtRest, TakenDown, BroughtUp, Nothing, Exact, L!Carries, L!Clean
<1> QED BY <1>1, <1>2, <1>3

LEMMA LinuxInit ==
  ASSUME NEW v, Only(v), L!Init PROVE LinuxInv(v)
<1> USE DEF L!Init, Only, LinuxInv
<1>1. LinuxTyped
  BY NothingIsKnown DEF LinuxTyped, Phases
<1>2. op[v].what = "none" /\ op[v].at = "kill" /\ op[v] = L!NoOp
  BY DEF L!NoOp
<1>3. Running(v) /\ Holding(v)
  BY <1>2 DEF Running, Holding
<1>4. Recorded(v)
  BY <1>2 DEF Recorded, AtRest, TakenDown, BroughtUp, L!Carries, L!NoTunnel
<1> QED BY <1>1, <1>3, <1>4

LEMMA LinuxKeeps ==
  ASSUME NEW v, One(v), [ServicesNext]_<<vars, linux, part>> PROVE LinuxInv(v)'
<1> DEFINE Goal == LinuxInv(v)'
<1> HIDE DEF Goal
<1> SUFFICES Goal BY DEF Goal
<1>1. CASE UNCHANGED linux
  BY <1>1, StillKeeps DEF Goal
<1>2. CASE L!Next
  <2>1. Services = {v} BY DEF One, Only
  <2>2. ASSUME L!ServiceSteps(v) PROVE Goal BY <2>2, StepKeeps DEF Goal
  <2>3. ASSUME L!Launch(v) PROVE Goal BY <2>3, LaunchKeeps DEF Goal
  <2>4. ASSUME L!Killed(v) PROVE Goal BY <2>4, KilledKeeps DEF Goal
  <2>5. ASSUME NEW r \in SUBSET {"up", "down"}, L!Request(v, r) PROVE Goal
    BY <2>5, RequestKeeps DEF Goal
  <2>6. ASSUME L!RemoveStops(v) PROVE Goal BY <2>6, RemoveStopsKeeps DEF Goal
  <2>7. ASSUME L!RemoveKills(v) PROVE Goal BY <2>7, RemoveKillsKeeps DEF Goal
  <2>8. ASSUME NEW p \in daemons, L!DaemonDies(p) PROVE Goal BY <2>8, DaemonDiesKeeps DEF Goal
  <2>9. CASE L!AppExits BY <2>9, AppExitsKeeps DEF Goal
  <2>10. CASE L!AppStarts BY <2>10, AppStartsKeeps DEF Goal
  <2>11. CASE L!RemoveWaited BY <2>11, RemoveWaitedKeeps DEF Goal
  <2>12. CASE L!RemoveRecords BY <2>12, RemoveRecordsKeeps DEF Goal
  <2>13. \A r \in {{}, {"up"}, {"down"}} : r \in SUBSET {"up", "down"} OBVIOUS
  <2> QED BY <1>2, <2>1, <2>2, <2>3, <2>4, <2>5, <2>6, <2>7, <2>8, <2>9, <2>10, <2>11, <2>12,
             <2>13 DEF L!Next
<1> QED BY <1>1, <1>2 DEF ServicesNext

LEMMA LinuxInvariant ==
  ASSUME NEW v, Only(v) PROVE ServicesSpec => []LinuxInv(v)
<1>1. ServicesInit => LinuxInv(v) BY LinuxInit DEF ServicesInit
<1>2. LinuxInv(v) /\ [ServicesNext]_<<vars, linux, part>> => LinuxInv(v)'
  BY LinuxKeeps DEF One
<1> QED BY <1>1, <1>2, PTL DEF ServicesSpec

\* state.json is written last by `up` and removed last by the teardown: a service killed at
\* any moment outside those windows, in any order of requests, deaths of the daemon, starts
\* and a removal, leaves a record of everything the system still carries, for the next one
\* to undo (tunnel_linux.go).
THEOREM RecordKept ==
  ASSUME \E v : Only(v) PROVE ServicesSpec => []CrashSafe
<1>1. PICK v : Only(v) OBVIOUS
<1>2. LinuxInv(v) => CrashSafe
  <2>1. Services = {v} BY <1>1 DEF Only
  <2> QED BY <1>1, <2>1, OnRecord DEF One, CrashSafe, L!CrashSafe
<1>3. ServicesSpec => []LinuxInv(v) BY <1>1, LinuxInvariant
<1> QED BY <1>2, <1>3, PTL

\* Between two operations the service knows exactly what the system carries, nothing more
\* and nothing less: after a failed `up`, a switch, a cleanup after a crash, a daemon that
\* died (tunnel_linux.go).
THEOREM MemoryKept ==
  ASSUME \E v : Only(v) PROVE ServicesSpec => []MemoryMatchesSystem
<1>1. PICK v : Only(v) OBVIOUS
<1>2. LinuxInv(v) => MemoryMatchesSystem
  <2>1. Services = {v} BY <1>1 DEF Only
  <2> SUFFICES ASSUME LinuxInv(v), phase[v] = "serving", L!Free(v), ~forgotten
               PROVE  /\ L!Carries(mem[v]) /\ parts = mem[v].parts
                      /\ mem[v].dns = "file" <=> conf = "tunnel"
    BY <2>1 DEF MemoryMatchesSystem, L!MemoryMatchesSystem
  <2>2. mem[v] = saved /\ Exact(saved)
    BY DEF LinuxInv, Recorded, AtRest, L!Free
  <2> QED BY <2>2 DEF Exact
<1>3. ServicesSpec => []LinuxInv(v) BY <1>1, LinuxInvariant
<1> QED BY <1>2, <1>3, PTL
=============================================================================
