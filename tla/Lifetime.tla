------------------------------ MODULE Lifetime ------------------------------
(***************************************************************************)
(* When the privileged service stops (src/helper/internal/lifetime).       *)
(* Every request calls Watch with the pid at the other end of its          *)
(* connection; a new pid starts a goroutine that waits for that process    *)
(* and then asks, under the lock, whether it is still the one that counts. *)
(* What runs under the lock is one step; a goroutine between the return    *)
(* of await and the lock is a watcher "gone", and anything may come first. *)
(***************************************************************************)
EXTENDS Naturals, FiniteSets

CONSTANTS
    Pids,       \* processes that talk to the service; a pid is not used again
    NoPid,      \* pid 0
    MaxGen      \* bound: how often the followed pid may change

ASSUME PidsAssumption == NoPid \notin Pids
ASSUME GenAssumption == MaxGen \in Nat

VARIABLES
    apps,       \* the processes still running
    pid, gen, closed,
    done,       \* how many values were ever sent on the channel (capacity 1)
    watchers,   \* goroutines: in await, or past it
    idle        \* the timer of Idle: "unset", "armed" or "fired"

vars == <<apps, pid, gen, closed, done, watchers, idle>>

Watcher == [pid : Pids, gen : 1 .. MaxGen, at : {"await", "gone"}]

TypeOK ==
    /\ apps \subseteq Pids
    /\ pid \in Pids \cup {NoPid}
    /\ gen \in 0 .. MaxGen
    /\ closed \in BOOLEAN
    /\ done \in Nat
    /\ watchers \subseteq Watcher
    /\ idle \in {"unset", "armed", "fired"}

Init ==
    /\ apps = Pids
    /\ pid = NoPid /\ gen = 0 /\ closed = FALSE
    /\ done = 0
    /\ watchers = {}
    /\ idle = "unset"

\* Slips that the properties below notice.
SlipAnyWatcher(w) == w \in watchers        \* the generation not compared

\* finish(still): `still` is the caller's condition, and l.closed is asked first.
MayFinish(still) == ~closed /\ still
Finish(still) ==
    IF MayFinish(still)
    THEN closed' = TRUE /\ done' = done + 1
    ELSE UNCHANGED <<closed, done>>
StillFollowed(w) == gen = w.gen
Arms(p) == watchers' = watchers \cup {[pid |-> p, gen |-> gen + 1, at |-> "await"]}

\* A request of p; p may have died since it sent it.  The same pid again, or a closing
\* service, changes nothing.
Watch(p) ==
    /\ p # pid /\ ~closed
    /\ gen < MaxGen
    /\ pid' = p
    /\ gen' = gen + 1
    /\ Arms(p)
    /\ UNCHANGED <<apps, closed, done, idle>>

AwaitReturns(w) ==
    /\ w.at = "await" /\ w.pid \notin apps
    /\ watchers' = (watchers \ {w}) \cup {[w EXCEPT !.at = "gone"]}
    /\ UNCHANGED <<apps, pid, gen, closed, done, idle>>

WatcherFinishes(w) ==
    /\ w.at = "gone"
    /\ Finish(StillFollowed(w))
    /\ watchers' = watchers \ {w}
    /\ UNCHANGED <<apps, pid, gen, idle>>

Idle ==
    /\ idle = "unset"
    /\ idle' = "armed"
    /\ UNCHANGED <<apps, pid, gen, closed, done, watchers>>

IdleFires ==
    /\ idle = "armed"
    /\ idle' = "fired"
    /\ Finish(pid = NoPid)
    /\ UNCHANGED <<apps, pid, gen, watchers>>

Close ==
    /\ closed' = TRUE
    /\ UNCHANGED <<apps, pid, gen, done, watchers, idle>>

AppExits(p) ==
    /\ p \in apps
    /\ apps' = apps \ {p}
    /\ UNCHANGED <<pid, gen, closed, done, watchers, idle>>

Next ==
    \/ \E p \in Pids : Watch(p) \/ AppExits(p)
    \/ \E w \in watchers : AwaitReturns(w) \/ WatcherFinishes(w)
    \/ Idle \/ IdleFires \/ Close

Spec == Init /\ [][Next]_vars

\* The kernel wakes whoever waits for a process that has exited, goroutines run, the
\* service arms the timer once it listens, and a timer of 60 s fires.
Fairness ==
    /\ WF_vars(\E w \in watchers : AwaitReturns(w) \/ WatcherFinishes(w))
    /\ WF_vars(Idle)
    /\ WF_vars(IdleFires)

FairSpec == Spec /\ Fairness

----------------------------------------------------------------------------

\* The service asks to stop at most once: the channel holds one value, and a second send
\* would block for ever with the lock held, and every request behind it.
AsksOnce == done <= 1 /\ (done = 1 => closed)

\* What the package comment promises: the exit of an application no longer followed, a
\* timer that fires late, a request that comes while the service stops, all change nothing.
Stopping == IF done > 0 THEN "asked" ELSE IF closed THEN "told" ELSE "no"
Promise == INSTANCE ServesTheApp WITH served <- pid, stopping <- Stopping
KeepsPromise == Promise!Spec

\* A service whose application is gone stops, and so does one that nobody came to:
\* nothing privileged outlives the application it was started for.
StopsWithApp == (pid \notin apps) ~> (closed \/ pid \in apps)
=============================================================================
