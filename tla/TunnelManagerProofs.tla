------------------------ MODULE TunnelManagerProofs ------------------------
(* What holds of the tunnel manager for any list of servers, any number of  *)
(* calls and polls in flight and any number of automatic reconnects.        *)
(*                                                                         *)
(* TypeOK is not inductive: the answer of `up` makes a connection out of   *)
(* the tunnel its call names, so a call that waits for one must name a     *)
(* tunnel, and a poll a connection.  IInv adds that, and is split by the   *)
(* part of the state it is about: most actions touch two or three parts.   *)
(*                                                                         *)
(* Then what holds of a master key's exchanges (SenSync) for any servers,  *)
(* cards, number of calls and faults.  SyncInv says which calls are at     *)
(* work (Turns, ImportIsAlone), that the cards one is making are its own   *)
(* (CardsMade), and that what it copied before an await is still so when   *)
(* it writes (Copied).                                                     *)
EXTENDS TunnelManager, MCSenSync, Sequences, Integers, WellFoundedInduction, TLAPS

CardTyped ==
    /\ known \subseteq Tunnels
    /\ active \in Conns \cup {NoConn}
    /\ shownUp \subseteq Tunnels
    /\ busy \in BOOLEAN /\ switching \in BOOLEAN
    /\ polling \in BOOLEAN /\ paused \in BOOLEAN
    /\ needsCleanup \in BOOLEAN

HealTyped == autoTries \in 0 .. MaxAuto

JobsTyped ==
    /\ jobs \in [Slots -> Job]
    /\ \A j \in Slots :
          /\ jobs[j].at \in {"hook", "up", "retry", "down", "refuse"} => jobs[j].id \in Tunnels
          /\ jobs[j].at = "recover" => jobs[j].prev \in Tunnels

PollsTyped ==
    /\ polls \subseteq Poll
    /\ \A p \in polls : p.at # "leftovers" => p.conn \in Conns

BootTyped == boot \in Boot

SystemTyped == held \in Tunnels \cup {None} /\ alive \in BOOLEAN /\ lost \in BOOLEAN

IInv == CardTyped /\ HealTyped /\ JobsTyped /\ PollsTyped /\ BootTyped /\ SystemTyped

LEMMA IInvTyped == IInv => TypeOK
BY DEF IInv, TypeOK, CardTyped, HealTyped, JobsTyped, PollsTyped, BootTyped, SystemTyped

----------------------------------------------------------------------------
(* What the helpers of the actions keep *)

LEMMA ActiveNamed ==
    ASSUME CardTyped, active # NoConn
    PROVE  active \in Conns /\ active.id \in Tunnels
BY DEF CardTyped, Conns

LEMMA ConnectsTyped ==
    ASSUME NEW id \in Tunnels, Connects(id)
    PROVE  active' \in Conns
BY BoundsAssumption DEF Connects, Conns

LEMMA BootAtTyped ==
    ASSUME NEW place \in BootPlaces
    PROVE  BootAt(place) \in Boot
BY DEF BootAt, Boot, BootPlaces

\* A slot that becomes a typed call that names what it will use.
LEMMA JobReplaced ==
    ASSUME JobsTyped, NEW j \in Slots, NEW job \in Job,
           job.at \in {"hook", "up", "retry", "down", "refuse"} => job.id \in Tunnels,
           job.at = "recover" => job.prev \in Tunnels,
           jobs' = [jobs EXCEPT ![j] = job]
    PROVE  JobsTyped'
BY DEF JobsTyped

LEMMA FreeJobTyped ==
    /\ FreeJob \in Job
    /\ FreeJob.at = "free"
BY DEF FreeJob, Job, Places, JobAnswers

LEMMA NewPlaceTyped ==
    ASSUME NEW place \in Places, NEW job, job = [FreeJob EXCEPT !.at = place]
    PROVE  job \in Job /\ job.at = place
BY DEF FreeJob, Job, Places, JobAnswers

LEMMA EndsTyped ==
    ASSUME JobsTyped, NEW j \in Slots, Ends(j)
    PROVE  JobsTyped'
<1> HIDE DEF FreeJob
<1> QED
    BY JobReplaced, FreeJobTyped DEF Ends

LEMMA RepliesTyped ==
    ASSUME JobsTyped, NEW j \in Slots, NEW ans \in JobAnswers, Replies(j, ans)
    PROVE  JobsTyped'
<1> DEFINE job == [jobs[j] EXCEPT !.ans = ans]
<1>1. job \in Job /\ job.at = jobs[j].at /\ job.id = jobs[j].id /\ job.prev = jobs[j].prev
    BY DEF JobsTyped, Job
<1>2. jobs' = [jobs EXCEPT ![j] = job]
    BY DEF Replies, JobsTyped
<1> HIDE DEF job
<1> QED
    BY <1>1, <1>2, JobReplaced DEF JobsTyped

LEMMA MovesTyped ==
    ASSUME JobsTyped, NEW j \in Slots, NEW place \in Places, Moves(j, place),
           place \in {"hook", "up", "retry", "down", "refuse"} => jobs[j].id \in Tunnels,
           place = "recover" => jobs[j].prev \in Tunnels
    PROVE  JobsTyped'
<1> DEFINE job == [jobs[j] EXCEPT !.at = place, !.ans = "none"]
<1>1. job \in Job /\ job.at = place /\ job.id = jobs[j].id /\ job.prev = jobs[j].prev
    BY DEF JobsTyped, Job, JobAnswers
<1>2. jobs' = [jobs EXCEPT ![j] = job]
    BY DEF Moves, JobsTyped
<1> HIDE DEF job
<1> QED
    BY <1>1, <1>2, JobReplaced

LEMMA SettlesTyped ==
    ASSUME JobsTyped, CardTyped, NEW j \in Slots, NEW on, Settles(j, on)
    PROVE  /\ JobsTyped'
           /\ needsCleanup' \in BOOLEAN /\ busy' \in BOOLEAN /\ switching' \in BOOLEAN
<1>1. CASE on
    BY <1>1, EndsTyped DEF Settles
<1>2. CASE ~on
    <2> DEFINE job == [FreeJob EXCEPT !.at = "stale"]
    <2>1. job \in Job /\ job.at = "stale"
        BY NewPlaceTyped DEF Places
    <2>2. jobs' = [jobs EXCEPT ![j] = job]
        BY <1>2 DEF Settles
    <2> HIDE DEF job
    <2>3. JobsTyped'
        BY <2>1, <2>2, JobReplaced
    <2> QED
        BY <1>2, <2>3 DEF Settles, CardTyped
<1> QED
    BY <1>1, <1>2

LEMMA StartsTyped ==
    ASSUME JobsTyped, CardTyped, NEW id \in Tunnels, Starts(id)
    PROVE  JobsTyped' /\ busy' \in BOOLEAN
<1>1. CASE id \in known
    <2> DEFINE job == [FreeJob EXCEPT !.at = "hook", !.id = id]
    <2>1. job \in Job /\ job.at = "hook" /\ job.id = id
        BY DEF FreeJob, Job, Places, JobAnswers
    <2>2. PICK j \in Slots : jobs' = [jobs EXCEPT ![j] = job]
        BY <1>1 DEF Starts
    <2>3. busy' = TRUE
        BY <1>1 DEF Starts
    <2> HIDE DEF job
    <2> QED
        BY <2>1, <2>2, <2>3, JobReplaced
<1>2. CASE id \notin known
    BY <1>2 DEF Starts, JobsTyped, CardTyped
<1> QED
    BY <1>1, <1>2

\* autoReconnect() with an attempt left.
LEMMA AutoReconnectsTyped ==
    ASSUME JobsTyped, CardTyped, HealTyped, CanHeal, AutoReconnects
    PROVE  JobsTyped' /\ busy' \in BOOLEAN /\ autoTries' \in 0 .. MaxAuto
<1>1. CASE active = NoConn \/ ~NotBusy
    BY <1>1 DEF AutoReconnects, JobsTyped, CardTyped, HealTyped
<1>2. CASE ~(active = NoConn \/ ~NotBusy)
    <2>1. autoTries' = autoTries + 1 /\ Starts(active.id)
        BY <1>2 DEF AutoReconnects
    <2>2. autoTries' \in 0 .. MaxAuto
        BY <2>1, BoundsAssumption DEF HealTyped, CanHeal
    <2> QED
        BY <1>2, <2>1, <2>2, ActiveNamed, StartsTyped
<1> QED
    BY <1>1, <1>2

LEMMA HealsTyped ==
    ASSUME JobsTyped, CardTyped, HealTyped, NEW fresh, Heals(fresh)
    PROVE  JobsTyped' /\ busy' \in BOOLEAN /\ HealTyped'
<1>1. CASE UNCHANGED <<autoTries, busy, jobs>>
    BY <1>1 DEF JobsTyped, CardTyped, HealTyped
<1>2. CASE autoTries' = 0 /\ UNCHANGED <<busy, jobs>>
    BY <1>2, BoundsAssumption DEF JobsTyped, CardTyped, HealTyped
<1>3. CASE CanHeal /\ AutoReconnects
    BY <1>3, AutoReconnectsTyped DEF HealTyped
<1> QED
    BY <1>1, <1>2, <1>3 DEF Heals

\* A poll in flight that is replaced, or dropped.
LEMMA PollReplaced ==
    ASSUME PollsTyped, NEW p \in polls, NEW q \in Poll,
           q.at # "leftovers" => q.conn \in Conns,
           polls' = (polls \ {p}) \cup {q}
    PROVE  PollsTyped'
BY DEF PollsTyped

LEMMA PollDropped ==
    ASSUME PollsTyped, NEW p \in polls, polls' = polls \ {p}
    PROVE  PollsTyped'
BY DEF PollsTyped

----------------------------------------------------------------------------
(* Every action keeps IInv *)

LEMMA InitIInv == Init => IInv
<1> SUFFICES ASSUME Init PROVE IInv
    OBVIOUS
<1>1. CardTyped
    BY DEF Init, CardTyped
<1>2. HealTyped
    <2>1. 0 \in 0 .. MaxAuto
        BY BoundsAssumption
    <2> QED
        BY <2>1 DEF Init, HealTyped
<1>3. JobsTyped
    BY FreeJobTyped DEF Init, JobsTyped
<1>4. PollsTyped
    BY DEF Init, PollsTyped
<1>5. BootTyped
    BY BootAtTyped DEF Init, BootTyped, BootPlaces
<1>6. SystemTyped
    BY DEF Init, SystemTyped
<1> QED
    BY <1>1, <1>2, <1>3, <1>4, <1>5, <1>6 DEF IInv

LEMMA ConnectKeeps == ASSUME IInv, NEW id \in Tunnels, Connect(id) PROVE IInv'
<1>1. CardTyped'
    BY StartsTyped DEF Connect, IInv, CardTyped, cardVars
<1>2. HealTyped'
    BY BoundsAssumption DEF Connect, IInv, HealTyped
<1>3. JobsTyped'
    BY StartsTyped DEF Connect, IInv, JobsTyped, callVars
<1>4. PollsTyped' /\ BootTyped' /\ SystemTyped'
    BY DEF Connect, IInv, PollsTyped, BootTyped, SystemTyped,
       callVars, systemVars
<1> QED
    BY <1>1, <1>2, <1>3, <1>4 DEF IInv

LEMMA ReconnectKeeps == ASSUME IInv, Reconnect PROVE IInv'
<1>1. CardTyped'
    BY StartsTyped, ActiveNamed DEF Reconnect, IInv, CardTyped, cardVars
<1>2. HealTyped'
    BY BoundsAssumption DEF Reconnect, IInv, HealTyped
<1>3. JobsTyped'
    BY StartsTyped, ActiveNamed DEF Reconnect, IInv, JobsTyped, callVars
<1>4. PollsTyped' /\ BootTyped' /\ SystemTyped'
    BY DEF Reconnect, IInv, PollsTyped, BootTyped, SystemTyped,
       callVars, systemVars
<1> QED
    BY <1>1, <1>2, <1>3, <1>4 DEF IInv

LEMMA RemoveTunnelKeeps == ASSUME IInv, NEW id \in Tunnels, RemoveTunnel(id) PROVE IInv'
<1>1. CardTyped'
    BY DEF RemoveTunnel, IInv, CardTyped, cardVars
<1>2. HealTyped' /\ JobsTyped' /\ PollsTyped' /\ BootTyped' /\ SystemTyped'
    BY DEF RemoveTunnel, IInv, HealTyped, JobsTyped, PollsTyped, BootTyped, SystemTyped,
       callVars, systemVars
<1> QED
    BY <1>1, <1>2 DEF IInv

LEMMA PauseKeeps == ASSUME IInv, Pause PROVE IInv'
<1>1. CardTyped'
    BY DEF Pause, IInv, CardTyped, cardVars
<1>2. HealTyped' /\ JobsTyped' /\ PollsTyped' /\ BootTyped' /\ SystemTyped'
    BY DEF Pause, IInv, HealTyped, JobsTyped, PollsTyped, BootTyped, SystemTyped,
       callVars, systemVars
<1> QED
    BY <1>1, <1>2 DEF IInv

LEMMA ResumeKeeps == ASSUME IInv, Resume PROVE IInv'
<1>1. CardTyped'
    BY DEF Resume, IInv, CardTyped, cardVars
<1>2. HealTyped' /\ JobsTyped' /\ PollsTyped' /\ BootTyped' /\ SystemTyped'
    BY DEF Resume, IInv, HealTyped, JobsTyped, PollsTyped, BootTyped, SystemTyped,
       callVars, systemVars
<1> QED
    BY <1>1, <1>2 DEF IInv

LEMMA DisconnectKeeps == ASSUME IInv, NEW j \in Slots, Disconnect(j) PROVE IInv'
<1>1. CardTyped'
    BY DEF Disconnect, IInv, CardTyped, cardVars
<1>2. JobsTyped'
    <2> DEFINE job == [FreeJob EXCEPT !.at = "down", !.id = active.id]
    <2>1. active.id \in Tunnels
        BY ActiveNamed DEF Disconnect, IInv
    <2>2. job \in Job /\ job.at = "down" /\ job.id \in Tunnels
        BY <2>1 DEF FreeJob, Job, Places, JobAnswers
    <2>3. jobs' = [jobs EXCEPT ![j] = job]
        BY DEF Disconnect
    <2> HIDE DEF job
    <2> QED
        BY <2>2, <2>3, JobReplaced DEF IInv
<1>3. HealTyped' /\ PollsTyped' /\ BootTyped' /\ SystemTyped'
    BY DEF Disconnect, IInv, HealTyped, PollsTyped, BootTyped, SystemTyped,
       callVars, systemVars
<1> QED
    BY <1>1, <1>2, <1>3 DEF IInv

LEMMA CleanupKeeps == ASSUME IInv, NEW j \in Slots, Cleanup(j) PROVE IInv'
<1>1. CardTyped'
    BY DEF Cleanup, IInv, CardTyped, cardVars
<1>2. JobsTyped'
    <2> DEFINE job == [FreeJob EXCEPT !.at = "cleanup"]
    <2>1. job \in Job /\ job.at = "cleanup"
        BY NewPlaceTyped DEF Places
    <2>2. jobs' = [jobs EXCEPT ![j] = job]
        BY DEF Cleanup
    <2> HIDE DEF job
    <2> QED
        BY <2>1, <2>2, JobReplaced DEF IInv
<1>3. HealTyped' /\ PollsTyped' /\ BootTyped' /\ SystemTyped'
    BY DEF Cleanup, IInv, HealTyped, PollsTyped, BootTyped, SystemTyped,
       callVars, systemVars
<1> QED
    BY <1>1, <1>2, <1>3 DEF IInv

LEMMA HookLetsGoKeeps == ASSUME IInv, NEW j \in Slots, HookLetsGo(j) PROVE IInv'
<1>1. CardTyped'
    BY DEF HookLetsGo, IInv, CardTyped, cardVars
<1>2. HealTyped'
    BY DEF HookLetsGo, IInv, HealTyped
<1>3. JobsTyped'
    <2> DEFINE job == [at |-> "up", id |-> jobs[j].id, prev |-> active.id, ans |-> "none",
                       was |-> active.id \in shownUp]
    <2>1. active.id \in Tunnels \cup {None}
        BY ActiveNamed DEF IInv, NoConn
    <2>2. jobs[j].id \in Tunnels
        BY DEF HookLetsGo, IInv, JobsTyped
    <2>3. job \in Job /\ job.at = "up" /\ job.id \in Tunnels
        BY <2>1, <2>2 DEF Job, Places, JobAnswers
    <2>4. jobs' = [jobs EXCEPT ![j] = job]
        BY DEF HookLetsGo
    <2> HIDE DEF job
    <2> QED
        BY <2>3, <2>4, JobReplaced DEF IInv
<1>4. PollsTyped' /\ BootTyped' /\ SystemTyped'
    BY DEF HookLetsGo, IInv, PollsTyped, BootTyped, SystemTyped,
       callVars, systemVars
<1> QED
    BY <1>1, <1>2, <1>3, <1>4 DEF IInv

LEMMA HookLosesTunnelKeeps == ASSUME IInv, NEW j \in Slots, HookLosesTunnel(j) PROVE IInv'
<1>1. CardTyped'
    BY DEF HookLosesTunnel, IInv, CardTyped, cardVars
<1>2. JobsTyped'
    BY EndsTyped DEF HookLosesTunnel, IInv, JobsTyped, callVars
<1>3. HealTyped' /\ PollsTyped' /\ BootTyped' /\ SystemTyped'
    BY DEF HookLosesTunnel, IInv, HealTyped, PollsTyped, BootTyped, SystemTyped,
       callVars, systemVars
<1> QED
    BY <1>1, <1>2, <1>3 DEF IInv

LEMMA HookRefusesKeeps == ASSUME IInv, NEW j \in Slots, HookRefuses(j) PROVE IInv'
<1>1. CardTyped'
    BY DEF HookRefuses, IInv, CardTyped, cardVars
<1>2. JobsTyped'
    <2>1. CASE active.id = jobs[j].id
        <3> DEFINE job == [jobs[j] EXCEPT !.at = "refuse"]
        <3>1. job \in Job /\ job.at = "refuse" /\ job.id \in Tunnels
            BY DEF HookRefuses, IInv, JobsTyped, Job, Places
        <3>2. jobs' = [jobs EXCEPT ![j] = job]
            BY <2>1 DEF HookRefuses, IInv, JobsTyped
        <3> HIDE DEF job
        <3> QED
            BY <3>1, <3>2, JobReplaced DEF IInv
    <2>2. CASE active.id # jobs[j].id
        BY <2>2, EndsTyped DEF HookRefuses, IInv
    <2> QED
        BY <2>1, <2>2
<1>3. HealTyped' /\ PollsTyped' /\ BootTyped' /\ SystemTyped'
    BY DEF HookRefuses, IInv, HealTyped, PollsTyped, BootTyped, SystemTyped,
       callVars, systemVars
<1> QED
    BY <1>1, <1>2, <1>3 DEF IInv

LEMMA ControllerUpKeeps == ASSUME IInv, NEW j \in Slots, ControllerUp(j) PROVE IInv'
<1>1. JobsTyped'
    BY RepliesTyped DEF ControllerUp, IInv, JobsTyped, callVars, JobAnswers
<1>2. SystemTyped'
    BY DEF ControllerUp, IInv, SystemTyped, systemVars, Waits, JobsTyped
<1>3. CardTyped' /\ HealTyped' /\ PollsTyped' /\ BootTyped'
    BY DEF ControllerUp, IInv, CardTyped, HealTyped, PollsTyped, BootTyped,
       cardVars, callVars
<1> QED
    BY <1>1, <1>2, <1>3 DEF IInv

LEMMA UpSucceedsKeeps == ASSUME IInv, NEW j \in Slots, UpSucceeds(j) PROVE IInv'
<1>1. CardTyped'
    BY SettlesTyped, ConnectsTyped DEF UpSucceeds, IInv, CardTyped, cardVars, Answered, JobsTyped, StartsPolling
<1>2. JobsTyped'
    BY SettlesTyped DEF UpSucceeds, IInv, JobsTyped, callVars
<1>3. SystemTyped'
    BY DEF UpSucceeds, IInv, SystemTyped, systemVars, Asking
<1>4. HealTyped' /\ PollsTyped' /\ BootTyped'
    BY DEF UpSucceeds, IInv, HealTyped, PollsTyped, BootTyped,
       callVars
<1> QED
    BY <1>1, <1>2, <1>3, <1>4 DEF IInv

LEMMA UpTriesAgainKeeps == ASSUME IInv, NEW j \in Slots, UpTriesAgain(j) PROVE IInv'
<1>1. JobsTyped'
    BY MovesTyped DEF UpTriesAgain, IInv, JobsTyped, callVars, Answered, Places
<1>2. CardTyped' /\ HealTyped' /\ PollsTyped' /\ BootTyped' /\ SystemTyped'
    BY DEF UpTriesAgain, IInv, CardTyped, HealTyped, PollsTyped, BootTyped, SystemTyped,
       cardVars, callVars, systemVars
<1> QED
    BY <1>1, <1>2 DEF IInv

LEMMA UpFailsKeeps == ASSUME IInv, NEW j \in Slots, UpFails(j) PROVE IInv'
<1>1. CardTyped'
    BY SettlesTyped DEF UpFails, IInv, CardTyped, cardVars
<1>2. JobsTyped'
    BY SettlesTyped, MovesTyped DEF UpFails, IInv, JobsTyped, callVars, Job, Places
<1>3. HealTyped' /\ PollsTyped' /\ BootTyped' /\ SystemTyped'
    BY DEF UpFails, IInv, HealTyped, PollsTyped, BootTyped, SystemTyped,
       callVars, systemVars
<1> QED
    BY <1>1, <1>2, <1>3 DEF IInv

LEMMA ControllerRecoverKeeps == ASSUME IInv, NEW j \in Slots, ControllerRecover(j) PROVE IInv'
<1>1. JobsTyped'
    BY RepliesTyped DEF ControllerRecover, IInv, JobsTyped, callVars, JobAnswers
<1>2. SystemTyped'
    BY DEF ControllerRecover, IInv, SystemTyped, systemVars
<1>3. CardTyped' /\ HealTyped' /\ PollsTyped' /\ BootTyped'
    BY DEF ControllerRecover, IInv, CardTyped, HealTyped, PollsTyped, BootTyped,
       cardVars, callVars
<1> QED
    BY <1>1, <1>2, <1>3 DEF IInv

LEMMA PreviousKeptKeeps == ASSUME IInv, NEW j \in Slots, PreviousKept(j) PROVE IInv'
<1>1. CardTyped'
    BY SettlesTyped, ConnectsTyped DEF PreviousKept, IInv, CardTyped, cardVars, Answered, JobsTyped, StartsPolling
<1>2. HealTyped'
    BY DEF PreviousKept, IInv, HealTyped
<1>3. JobsTyped'
    BY SettlesTyped DEF PreviousKept, IInv, JobsTyped, callVars
<1>4. PollsTyped' /\ BootTyped' /\ SystemTyped'
    BY DEF PreviousKept, IInv, PollsTyped, BootTyped, SystemTyped,
       callVars, systemVars
<1> QED
    BY <1>1, <1>2, <1>3, <1>4 DEF IInv

LEMMA PreviousGoneKeeps == ASSUME IInv, NEW j \in Slots, PreviousGone(j) PROVE IInv'
<1>1. CardTyped'
    BY SettlesTyped DEF PreviousGone, IInv, CardTyped, cardVars
<1>2. JobsTyped'
    BY SettlesTyped DEF PreviousGone, IInv, JobsTyped, callVars
<1>3. HealTyped' /\ PollsTyped' /\ BootTyped' /\ SystemTyped'
    BY DEF PreviousGone, IInv, HealTyped, PollsTyped, BootTyped, SystemTyped,
       callVars, systemVars
<1> QED
    BY <1>1, <1>2, <1>3 DEF IInv

LEMMA ControllerStaleKeeps == ASSUME IInv, NEW j \in Slots, ControllerStale(j) PROVE IInv'
<1>1. JobsTyped'
    BY RepliesTyped DEF ControllerStale, IInv, JobsTyped, callVars, JobAnswers, Leftovers
<1>2. SystemTyped'
    BY DEF ControllerStale, IInv, SystemTyped, systemVars
<1>3. CardTyped' /\ HealTyped' /\ PollsTyped' /\ BootTyped'
    BY DEF ControllerStale, IInv, CardTyped, HealTyped, PollsTyped, BootTyped,
       cardVars, callVars
<1> QED
    BY <1>1, <1>2, <1>3 DEF IInv

LEMMA StartSettledKeeps == ASSUME IInv, NEW j \in Slots, StartSettled(j) PROVE IInv'
<1>1. CardTyped'
    BY DEF StartSettled, IInv, CardTyped, cardVars
<1>2. JobsTyped'
    BY EndsTyped DEF StartSettled, IInv, JobsTyped, callVars
<1>3. HealTyped' /\ PollsTyped' /\ BootTyped' /\ SystemTyped'
    BY DEF StartSettled, IInv, HealTyped, PollsTyped, BootTyped, SystemTyped,
       callVars, systemVars
<1> QED
    BY <1>1, <1>2, <1>3 DEF IInv

LEMMA ControllerDownKeeps == ASSUME IInv, NEW j \in Slots, ControllerDown(j) PROVE IInv'
<1>1. JobsTyped'
    BY RepliesTyped DEF ControllerDown, IInv, JobsTyped, callVars, JobAnswers
<1>2. SystemTyped'
    BY DEF ControllerDown, IInv, SystemTyped, systemVars
<1>3. CardTyped' /\ HealTyped' /\ PollsTyped' /\ BootTyped'
    BY DEF ControllerDown, IInv, CardTyped, HealTyped, PollsTyped, BootTyped,
       cardVars, callVars
<1> QED
    BY <1>1, <1>2, <1>3 DEF IInv

LEMMA DisconnectedKeeps == ASSUME IInv, NEW j \in Slots, Disconnected(j) PROVE IInv'
<1>1. CardTyped'
    BY DEF Disconnected, IInv, CardTyped, cardVars
<1>2. JobsTyped'
    BY EndsTyped DEF Disconnected, IInv, JobsTyped, callVars
<1>3. SystemTyped'
    BY DEF Disconnected, IInv, SystemTyped, systemVars, Asking
<1>4. HealTyped' /\ PollsTyped' /\ BootTyped'
    BY DEF Disconnected, IInv, HealTyped, PollsTyped, BootTyped,
       callVars
<1> QED
    BY <1>1, <1>2, <1>3, <1>4 DEF IInv

LEMMA CleanedUpKeeps == ASSUME IInv, NEW j \in Slots, CleanedUp(j) PROVE IInv'
<1>1. CardTyped'
    BY DEF CleanedUp, IInv, CardTyped, cardVars
<1>2. JobsTyped'
    BY EndsTyped DEF CleanedUp, IInv, JobsTyped, callVars
<1>3. SystemTyped'
    BY DEF CleanedUp, IInv, SystemTyped, systemVars, Asking
<1>4. HealTyped' /\ PollsTyped' /\ BootTyped'
    BY DEF CleanedUp, IInv, HealTyped, PollsTyped, BootTyped,
       callVars
<1> QED
    BY <1>1, <1>2, <1>3, <1>4 DEF IInv

LEMMA PollStartsKeeps == ASSUME IInv, PollStarts PROVE IInv'
<1>1. PollsTyped'
    BY ActiveNamed DEF PollStarts, IInv, PollsTyped, callVars, Poll, PollAnswers
<1>2. CardTyped' /\ HealTyped' /\ JobsTyped' /\ BootTyped' /\ SystemTyped'
    BY DEF PollStarts, IInv, CardTyped, HealTyped, JobsTyped, BootTyped, SystemTyped,
       cardVars, callVars, systemVars
<1> QED
    BY <1>1, <1>2 DEF IInv

LEMMA ControllerStatsKeeps == ASSUME IInv, NEW p \in polls, ControllerStats(p) PROVE IInv'
<1>1. PollsTyped'
    <2>1. PICK ans \in PollAnswers : polls' = (polls \ {p}) \cup {[p EXCEPT !.ans = ans]}
        BY DEF ControllerStats, PollAnswers
    <2>2. [p EXCEPT !.ans = ans] \in Poll /\ [p EXCEPT !.ans = ans].at = p.at
             /\ [p EXCEPT !.ans = ans].conn = p.conn
        BY DEF IInv, PollsTyped, Poll
    <2> QED
        BY <2>1, <2>2, PollReplaced DEF IInv, PollsTyped
<1>2. CardTyped' /\ HealTyped' /\ JobsTyped' /\ BootTyped' /\ SystemTyped'
    BY DEF ControllerStats, IInv, CardTyped, HealTyped, JobsTyped, BootTyped, SystemTyped,
       cardVars, callVars, systemVars
<1> QED
    BY <1>1, <1>2 DEF IInv

LEMMA StatsApplyKeeps == ASSUME IInv, NEW p \in polls, StatsApply(p) PROVE IInv'
<1>1. CardTyped'
    BY HealsTyped DEF StatsApply, IInv, CardTyped, cardVars, HealTyped, PollsTyped, Conns
<1>2. HealTyped'
    BY HealsTyped DEF StatsApply, IInv, HealTyped
<1>3. JobsTyped'
    BY HealsTyped DEF StatsApply, IInv, JobsTyped, callVars, HealTyped
<1>4. PollsTyped'
    <2>1. CASE polls' = (polls \ {p}) \cup {[p EXCEPT !.at = "watch"]}
        <3>1. [p EXCEPT !.at = "watch"] \in Poll /\ [p EXCEPT !.at = "watch"].conn \in Conns
            BY DEF StatsApply, IInv, PollsTyped, Poll
        <3> QED
            BY <2>1, <3>1, PollReplaced DEF IInv
    <2>2. CASE polls' = polls \ {p}
        BY <2>2, PollDropped DEF IInv
    <2> QED
        BY <2>1, <2>2 DEF StatsApply
<1>5. BootTyped' /\ SystemTyped'
    BY DEF StatsApply, IInv, BootTyped, SystemTyped,
       callVars, systemVars
<1> QED
    BY <1>1, <1>2, <1>3, <1>4, <1>5 DEF IInv

LEMMA WatchApplyKeeps == ASSUME IInv, NEW p \in polls, WatchApply(p) PROVE IInv'
<1>1. CardTyped'
    BY HealsTyped DEF WatchApply, IInv, CardTyped, cardVars
<1>2. HealTyped'
    BY HealsTyped DEF WatchApply, IInv, HealTyped
<1>3. JobsTyped'
    BY HealsTyped DEF WatchApply, IInv, JobsTyped, callVars
<1>4. PollsTyped'
    BY PollDropped DEF WatchApply, IInv, PollsTyped, callVars
<1>5. BootTyped' /\ SystemTyped'
    BY DEF WatchApply, IInv, BootTyped, SystemTyped,
       callVars, systemVars
<1> QED
    BY <1>1, <1>2, <1>3, <1>4, <1>5 DEF IInv

LEMMA HungHealsKeeps == ASSUME IInv, NEW p \in polls, HungHeals(p) PROVE IInv'
<1>1. CardTyped'
    BY AutoReconnectsTyped DEF HungHeals, IInv, CardTyped, cardVars
<1>2. HealTyped'
    BY AutoReconnectsTyped DEF HungHeals, IInv, HealTyped
<1>3. JobsTyped'
    BY AutoReconnectsTyped DEF HungHeals, IInv, JobsTyped, callVars
<1>4. PollsTyped'
    BY PollDropped DEF HungHeals, IInv, PollsTyped, callVars
<1>5. BootTyped' /\ SystemTyped'
    BY DEF HungHeals, IInv, BootTyped, SystemTyped,
       callVars, systemVars
<1> QED
    BY <1>1, <1>2, <1>3, <1>4, <1>5 DEF IInv

LEMMA DeclareDeadKeeps == ASSUME IInv, NEW p \in polls, DeclareDead(p) PROVE IInv'
<1>1. CardTyped'
    BY DEF DeclareDead, IInv, CardTyped, cardVars
<1>2. PollsTyped'
    BY PollReplaced DEF DeclareDead, IInv, PollsTyped, callVars, Poll, PollAnswers
<1>3. SystemTyped'
    BY DEF DeclareDead, IInv, SystemTyped, systemVars
<1>4. HealTyped' /\ JobsTyped' /\ BootTyped'
    BY DEF DeclareDead, IInv, HealTyped, JobsTyped, BootTyped,
       callVars
<1> QED
    BY <1>1, <1>2, <1>3, <1>4 DEF IInv

LEMMA DropLateFailureKeeps == ASSUME IInv, NEW p \in polls, DropLateFailure(p) PROVE IInv'
<1>1. PollsTyped'
    BY PollDropped DEF DropLateFailure, IInv, PollsTyped, callVars
<1>2. CardTyped' /\ HealTyped' /\ JobsTyped' /\ BootTyped' /\ SystemTyped'
    BY DEF DropLateFailure, IInv, CardTyped, HealTyped, JobsTyped, BootTyped, SystemTyped,
       cardVars, callVars, systemVars
<1> QED
    BY <1>1, <1>2 DEF IInv

LEMMA ControllerLeftoversKeeps == ASSUME IInv, NEW p \in polls, ControllerLeftovers(p) PROVE IInv'
<1>1. PollsTyped'
    <2>1. PICK ans \in PollAnswers : polls' = (polls \ {p}) \cup {[p EXCEPT !.ans = ans]}
        BY DEF ControllerLeftovers, Leftovers, PollAnswers
    <2>2. [p EXCEPT !.ans = ans] \in Poll /\ [p EXCEPT !.ans = ans].at = p.at
             /\ [p EXCEPT !.ans = ans].conn = p.conn
        BY DEF IInv, PollsTyped, Poll
    <2> QED
        BY <2>1, <2>2, PollReplaced DEF IInv, PollsTyped
<1>2. CardTyped' /\ HealTyped' /\ JobsTyped' /\ BootTyped' /\ SystemTyped'
    BY DEF ControllerLeftovers, IInv, CardTyped, HealTyped, JobsTyped, BootTyped, SystemTyped,
       cardVars, callVars, systemVars
<1> QED
    BY <1>1, <1>2 DEF IInv

LEMMA LeftoversApplyKeeps == ASSUME IInv, NEW p \in polls, LeftoversApply(p) PROVE IInv'
<1>1. CardTyped'
    BY DEF LeftoversApply, IInv, CardTyped, cardVars
<1>2. PollsTyped'
    BY PollDropped DEF LeftoversApply, IInv, PollsTyped, callVars
<1>3. SystemTyped'
    BY DEF LeftoversApply, IInv, SystemTyped, systemVars
<1>4. HealTyped' /\ JobsTyped' /\ BootTyped'
    BY DEF LeftoversApply, IInv, HealTyped, JobsTyped, BootTyped,
       callVars
<1> QED
    BY <1>1, <1>2, <1>3, <1>4 DEF IInv

LEMMA ControllerBootKeeps == ASSUME IInv, ControllerBoot PROVE IInv'
<1>1. BootTyped'
    BY DEF ControllerBoot, IInv, BootTyped, callVars, Boot, BootPlaces, Leftovers, SystemTyped
<1>2. CardTyped' /\ HealTyped' /\ JobsTyped' /\ PollsTyped' /\ SystemTyped'
    BY DEF ControllerBoot, IInv, CardTyped, HealTyped, JobsTyped, PollsTyped, SystemTyped,
       cardVars, callVars, systemVars
<1> QED
    BY <1>1, <1>2 DEF IInv

LEMMA BootAdoptsKeeps == ASSUME IInv, BootAdopts PROVE IInv'
<1>1. CardTyped'
    BY ConnectsTyped DEF BootAdopts, IInv, CardTyped, cardVars, StartsPolling
<1>2. HealTyped'
    BY DEF BootAdopts, IInv, HealTyped
<1>3. BootTyped'
    BY BootAtTyped DEF BootAdopts, IInv, BootTyped, callVars, BootPlaces
<1>4. SystemTyped'
    BY DEF BootAdopts, IInv, SystemTyped, systemVars
<1>5. JobsTyped' /\ PollsTyped'
    BY DEF BootAdopts, IInv, JobsTyped, PollsTyped,
       callVars
<1> QED
    BY <1>1, <1>2, <1>3, <1>4, <1>5 DEF IInv

LEMMA BootWatchesKeeps == ASSUME IInv, BootWatches PROVE IInv'
<1>1. CardTyped'
    BY DEF BootWatches, IInv, CardTyped, cardVars, StartsPolling
<1>2. HealTyped'
    BY DEF BootWatches, IInv, HealTyped
<1>3. BootTyped'
    BY BootAtTyped DEF BootWatches, IInv, BootTyped, callVars, BootPlaces
<1>4. JobsTyped' /\ PollsTyped' /\ SystemTyped'
    BY DEF BootWatches, IInv, JobsTyped, PollsTyped, SystemTyped,
       callVars, systemVars
<1> QED
    BY <1>1, <1>2, <1>3, <1>4 DEF IInv

LEMMA BootFindsNoneKeeps == ASSUME IInv, BootFindsNone PROVE IInv'
<1>1. BootTyped'
    BY BootAtTyped DEF BootFindsNone, IInv, BootTyped, callVars, BootPlaces
<1>2. SystemTyped'
    BY DEF BootFindsNone, IInv, SystemTyped, systemVars
<1>3. CardTyped' /\ HealTyped' /\ JobsTyped' /\ PollsTyped'
    BY DEF BootFindsNone, IInv, CardTyped, HealTyped, JobsTyped, PollsTyped,
       cardVars, callVars
<1> QED
    BY <1>1, <1>2, <1>3 DEF IInv

LEMMA BootFailsKeeps == ASSUME IInv, BootFails PROVE IInv'
<1>1. BootTyped'
    BY BootAtTyped DEF BootFails, IInv, BootTyped, callVars, BootPlaces
<1>2. SystemTyped'
    BY DEF BootFails, IInv, SystemTyped, systemVars
<1>3. CardTyped' /\ HealTyped' /\ JobsTyped' /\ PollsTyped'
    BY DEF BootFails, IInv, CardTyped, HealTyped, JobsTyped, PollsTyped,
       cardVars, callVars
<1> QED
    BY <1>1, <1>2, <1>3 DEF IInv

LEMMA BootEndsKeeps == ASSUME IInv, BootEnds PROVE IInv'
<1>1. CardTyped'
    BY DEF BootEnds, IInv, CardTyped, cardVars
<1>2. JobsTyped'
    <2> DEFINE job == [FreeJob EXCEPT !.at = "cleanup"]
    <2>1. job \in Job /\ job.at = "cleanup"
        BY NewPlaceTyped DEF Places
    <2>2. CASE UNCHANGED jobs
        BY <2>2 DEF IInv, JobsTyped
    <2>3. ASSUME NEW j \in Slots, jobs' = [jobs EXCEPT ![j] = job] PROVE JobsTyped'
        <3> HIDE DEF job
        <3> QED
            BY <2>1, <2>3, JobReplaced DEF IInv
    <2> QED
        BY <2>2, <2>3 DEF BootEnds
<1>3. BootTyped'
    BY BootAtTyped DEF BootEnds, IInv, BootTyped, callVars, BootPlaces
<1>4. SystemTyped'
    BY DEF BootEnds, IInv, SystemTyped, systemVars
<1>5. HealTyped' /\ PollsTyped'
    BY DEF BootEnds, IInv, HealTyped, PollsTyped,
       callVars
<1> QED
    BY <1>1, <1>2, <1>3, <1>4, <1>5 DEF IInv

LEMMA DaemonDiesKeeps == ASSUME IInv, DaemonDies PROVE IInv'
<1>1. SystemTyped'
    BY DEF DaemonDies, IInv, SystemTyped, systemVars
<1>2. CardTyped' /\ HealTyped' /\ JobsTyped' /\ PollsTyped' /\ BootTyped'
    BY DEF DaemonDies, IInv, CardTyped, HealTyped, JobsTyped, PollsTyped, BootTyped,
       cardVars, callVars
<1> QED
    BY <1>1, <1>2 DEF IInv

LEMMA NextKeeps == ASSUME IInv, [Next]_vars PROVE IInv'
<1>1. ASSUME NEW id \in Tunnels, Connect(id) \/ RemoveTunnel(id) PROVE IInv'
    BY <1>1, ConnectKeeps, RemoveTunnelKeeps
<1>2. CASE Reconnect \/ Pause \/ Resume
    BY <1>2, ReconnectKeeps, PauseKeeps, ResumeKeeps
<1>3. ASSUME NEW j \in Slots, Disconnect(j) \/ Cleanup(j) PROVE IInv'
    BY <1>3, DisconnectKeeps, CleanupKeeps
<1>4. ASSUME NEW j \in Slots, CallSteps(j) PROVE IInv'
    BY <1>4, HookLetsGoKeeps, HookLosesTunnelKeeps, HookRefusesKeeps, ControllerUpKeeps,
       UpSucceedsKeeps, UpTriesAgainKeeps, UpFailsKeeps, ControllerRecoverKeeps,
       PreviousKeptKeeps, PreviousGoneKeeps, ControllerStaleKeeps, StartSettledKeeps,
       ControllerDownKeeps, DisconnectedKeeps, CleanedUpKeeps DEF CallSteps
<1>5. ASSUME NEW p \in polls, PollSteps(p) PROVE IInv'
    BY <1>5, ControllerStatsKeeps, StatsApplyKeeps, WatchApplyKeeps, HungHealsKeeps,
       DeclareDeadKeeps, DropLateFailureKeeps, ControllerLeftoversKeeps,
       LeftoversApplyKeeps DEF PollSteps
<1>6. CASE BootSteps
    BY <1>6, ControllerBootKeeps, BootAdoptsKeeps, BootWatchesKeeps, BootFindsNoneKeeps,
       BootFailsKeeps, BootEndsKeeps DEF BootSteps
<1>7. CASE PollStarts \/ DaemonDies
    BY <1>7, PollStartsKeeps, DaemonDiesKeeps
<1>8. CASE UNCHANGED vars
    BY <1>8 DEF vars, cardVars, callVars, systemVars, IInv, CardTyped, HealTyped,
       JobsTyped, PollsTyped, BootTyped, SystemTyped
<1> QED
    BY <1>1, <1>2, <1>3, <1>4, <1>5, <1>6, <1>7, <1>8 DEF Next

\* Every state the manager reaches is typed: in particular the connection made of a late
\* answer of `up` is one of a tunnel, and automatic reconnects stay within MaxAuto.
THEOREM TypeCorrect == Spec => []TypeOK
<1>1. Init => IInv
    BY InitIInv
<1>2. IInv /\ [Next]_vars => IInv'
    BY NextKeeps
<1> QED
    BY <1>1, <1>2, IInvTyped, PTL DEF Spec

----------------------------------------------------------------------------
(* One operation at a time *)

LEMMA OneStarts ==
    ASSUME JobsTyped, OneOperation, NotBusy, NEW j \in Slots, NEW job \in Job,
           job.at # "free", jobs' = [jobs EXCEPT ![j] = job], busy' = TRUE
    PROVE  OneOperation'
<1>1. \A k \in Slots : jobs[k].at = "free"
    BY DEF OneOperation, Working, NotBusy
<1>2. Working' = {j}
    BY <1>1 DEF Working, JobsTyped
<1> QED
    BY <1>2 DEF OneOperation

LEMMA OneGoesOn ==
    ASSUME JobsTyped, OneOperation, NEW j \in Slots, jobs[j].at # "free", NEW job \in Job,
           job.at # "free", jobs' = [jobs EXCEPT ![j] = job], busy' = busy \/ busy' = TRUE
    PROVE  OneOperation'
<1>1. busy = TRUE /\ Working = {j}
    BY DEF OneOperation, Working
<1>2. Working' = Working
    BY <1>1 DEF Working, JobsTyped
<1> QED
    BY <1>1, <1>2 DEF OneOperation

LEMMA OneEnds ==
    ASSUME JobsTyped, OneOperation, NEW j \in Slots, jobs[j].at # "free", Ends(j), busy' = FALSE
    PROVE  OneOperation'
<1>1. Working = {j}
    BY DEF OneOperation, Working
<1>2. Working' = {}
    BY <1>1, FreeJobTyped DEF Working, JobsTyped, Ends
<1> QED
    BY <1>2 DEF OneOperation

LEMMA OneUnchanged ==
    ASSUME OneOperation, UNCHANGED <<busy, jobs>>
    PROVE  OneOperation'
BY DEF OneOperation, Working

LEMMA RepliesOne ==
    ASSUME JobsTyped, OneOperation, NEW j \in Slots, NEW ans \in JobAnswers,
           jobs[j].at # "free", Replies(j, ans), busy' = busy
    PROVE  OneOperation'
<1> DEFINE job == [jobs[j] EXCEPT !.ans = ans]
<1>1. job \in Job /\ job.at # "free"
    BY DEF JobsTyped, Job
<1>2. jobs' = [jobs EXCEPT ![j] = job]
    BY DEF Replies, JobsTyped
<1> HIDE DEF job
<1> QED
    BY <1>1, <1>2, OneGoesOn

LEMMA MovesOne ==
    ASSUME JobsTyped, OneOperation, NEW j \in Slots, NEW place \in Places \ {"free"},
           jobs[j].at # "free", Moves(j, place), busy' = busy
    PROVE  OneOperation'
<1> DEFINE job == [jobs[j] EXCEPT !.at = place, !.ans = "none"]
<1>1. job \in Job /\ job.at # "free"
    BY DEF JobsTyped, Job, JobAnswers
<1>2. jobs' = [jobs EXCEPT ![j] = job]
    BY DEF Moves, JobsTyped
<1> HIDE DEF job
<1> QED
    BY <1>1, <1>2, OneGoesOn

LEMMA SettlesOne ==
    ASSUME JobsTyped, OneOperation, NEW j \in Slots, NEW on, jobs[j].at # "free", Settles(j, on)
    PROVE  OneOperation'
<1>1. CASE on
    BY <1>1, OneEnds DEF Settles
<1>2. CASE ~on
    <2> DEFINE job == [FreeJob EXCEPT !.at = "stale"]
    <2>1. job \in Job /\ job.at = "stale"
        BY NewPlaceTyped DEF Places
    <2>2. jobs' = [jobs EXCEPT ![j] = job] /\ busy' = busy
        BY <1>2 DEF Settles
    <2> HIDE DEF job
    <2> QED
        BY <2>1, <2>2, OneGoesOn
<1> QED
    BY <1>1, <1>2

LEMMA StartsOne ==
    ASSUME JobsTyped, OneOperation, NotBusy, NEW id \in Tunnels, Starts(id)
    PROVE  OneOperation'
<1>1. CASE id \in known
    <2> DEFINE job == [FreeJob EXCEPT !.at = "hook", !.id = id]
    <2>1. job \in Job /\ job.at = "hook"
        BY DEF FreeJob, Job, Places, JobAnswers
    <2>2. PICK j \in Slots : jobs' = [jobs EXCEPT ![j] = job]
        BY <1>1 DEF Starts
    <2>3. busy' = TRUE
        BY <1>1 DEF Starts
    <2> HIDE DEF job
    <2> QED
        BY <2>1, <2>2, <2>3, OneStarts
<1>2. CASE id \notin known
    BY <1>2, OneUnchanged DEF Starts
<1> QED
    BY <1>1, <1>2

LEMMA AutoReconnectsOne ==
    ASSUME JobsTyped, CardTyped, OneOperation, AutoReconnects
    PROVE  OneOperation'
<1>1. CASE active = NoConn \/ ~NotBusy
    BY <1>1, OneUnchanged DEF AutoReconnects
<1>2. CASE ~(active = NoConn \/ ~NotBusy)
    BY <1>2, ActiveNamed, StartsOne DEF AutoReconnects
<1> QED
    BY <1>1, <1>2

LEMMA HealsOne ==
    ASSUME JobsTyped, CardTyped, OneOperation, NEW fresh, Heals(fresh)
    PROVE  OneOperation'
<1>1. CASE UNCHANGED <<busy, jobs>>
    BY <1>1, OneUnchanged
<1>2. CASE AutoReconnects
    BY <1>2, AutoReconnectsOne
<1> QED
    BY <1>1, <1>2 DEF Heals

LEMMA NextOne == ASSUME IInv, OneOperation, [Next]_vars PROVE OneOperation'
<1> USE DEF IInv
<1>1. ASSUME NEW id \in Tunnels, Connect(id) PROVE OneOperation'
    BY <1>1, StartsOne DEF Connect
<1>2. CASE Reconnect
    BY <1>2, StartsOne, ActiveNamed DEF Reconnect
<1>3. ASSUME NEW j \in Slots, Disconnect(j) PROVE OneOperation'
    <2> DEFINE job == [FreeJob EXCEPT !.at = "down", !.id = active.id]
    <2>1. active.id \in Tunnels
        BY <1>3, ActiveNamed DEF Disconnect
    <2>2. job \in Job /\ job.at = "down"
        BY <2>1 DEF FreeJob, Job, Places, JobAnswers
    <2>3. jobs' = [jobs EXCEPT ![j] = job] /\ NotBusy /\ busy' = TRUE
        BY <1>3 DEF Disconnect
    <2> HIDE DEF job
    <2> QED
        BY <2>2, <2>3, OneStarts
<1>4. ASSUME NEW j \in Slots, Cleanup(j) PROVE OneOperation'
    <2> DEFINE job == [FreeJob EXCEPT !.at = "cleanup"]
    <2>1. job \in Job /\ job.at = "cleanup"
        BY NewPlaceTyped DEF Places
    <2>2. jobs' = [jobs EXCEPT ![j] = job] /\ NotBusy /\ busy' = TRUE
        BY <1>4 DEF Cleanup
    <2> HIDE DEF job
    <2> QED
        BY <2>1, <2>2, OneStarts
<1>5. ASSUME NEW j \in Slots, HookLetsGo(j) PROVE OneOperation'
    <2> DEFINE job == [at |-> "up", id |-> jobs[j].id, prev |-> active.id, ans |-> "none",
                       was |-> active.id \in shownUp]
    <2>1. active.id \in Tunnels \cup {None}
        BY ActiveNamed DEF NoConn
    <2>2. jobs[j].id \in Tunnels /\ jobs[j].at # "free"
        BY <1>5 DEF HookLetsGo, JobsTyped
    <2>3. job \in Job /\ job.at = "up"
        BY <2>1, <2>2 DEF Job, Places, JobAnswers
    <2>4. jobs' = [jobs EXCEPT ![j] = job] /\ busy' = TRUE
        BY <1>5 DEF HookLetsGo
    <2> HIDE DEF job
    <2> QED
        BY <2>2, <2>3, <2>4, OneGoesOn
<1>6. ASSUME NEW j \in Slots, HookLosesTunnel(j) PROVE OneOperation'
    BY <1>6, OneEnds DEF HookLosesTunnel
<1>7. ASSUME NEW j \in Slots, HookRefuses(j) PROVE OneOperation'
    <2>1. CASE active.id = jobs[j].id
        <3> DEFINE job == [jobs[j] EXCEPT !.at = "refuse"]
        <3>1. job \in Job /\ job.at = "refuse" /\ jobs[j].at # "free"
            BY <1>7 DEF HookRefuses, JobsTyped, Job, Places
        <3>2. jobs' = [jobs EXCEPT ![j] = job] /\ busy' = busy
            BY <1>7, <2>1 DEF HookRefuses, JobsTyped
        <3> HIDE DEF job
        <3> QED
            BY <3>1, <3>2, OneGoesOn
    <2>2. CASE active.id # jobs[j].id
        BY <1>7, <2>2, OneEnds DEF HookRefuses
    <2> QED
        BY <2>1, <2>2
<1>8. ASSUME NEW j \in Slots, ControllerUp(j) PROVE OneOperation'
    BY <1>8, RepliesOne DEF ControllerUp, Waits, JobAnswers, cardVars
<1>9. ASSUME NEW j \in Slots, ControllerRecover(j) PROVE OneOperation'
    BY <1>9, RepliesOne DEF ControllerRecover, Waits, JobAnswers, cardVars
<1>10. ASSUME NEW j \in Slots, ControllerStale(j) PROVE OneOperation'
    BY <1>10, RepliesOne DEF ControllerStale, Waits, Leftovers, JobAnswers, cardVars
<1>11. ASSUME NEW j \in Slots, ControllerDown(j) PROVE OneOperation'
    BY <1>11, RepliesOne DEF ControllerDown, Waits, JobAnswers, cardVars
<1>12. ASSUME NEW j \in Slots, UpSucceeds(j) PROVE OneOperation'
    BY <1>12, SettlesOne DEF UpSucceeds, Answered
<1>13. ASSUME NEW j \in Slots, PreviousKept(j) PROVE OneOperation'
    BY <1>13, SettlesOne DEF PreviousKept, Answered
<1>14. ASSUME NEW j \in Slots, PreviousGone(j) PROVE OneOperation'
    BY <1>14, SettlesOne DEF PreviousGone, Answered
<1>15. ASSUME NEW j \in Slots, UpTriesAgain(j) PROVE OneOperation'
    BY <1>15, MovesOne DEF UpTriesAgain, Answered, Places, cardVars
<1>16. ASSUME NEW j \in Slots, UpFails(j) PROVE OneOperation'
    BY <1>16, MovesOne, SettlesOne DEF UpFails, Answered, Places
<1>17. ASSUME NEW j \in Slots, StartSettled(j) PROVE OneOperation'
    BY <1>17, OneEnds DEF StartSettled, Answered
<1>18. ASSUME NEW j \in Slots, Disconnected(j) PROVE OneOperation'
    BY <1>18, OneEnds DEF Disconnected, Answered
<1>19. ASSUME NEW j \in Slots, CleanedUp(j) PROVE OneOperation'
    BY <1>19, OneEnds DEF CleanedUp, Answered
<1>20. ASSUME NEW p \in polls, StatsApply(p) PROVE OneOperation'
    BY <1>20, HealsOne, OneUnchanged DEF StatsApply
<1>21. ASSUME NEW p \in polls, WatchApply(p) PROVE OneOperation'
    BY <1>21, HealsOne, OneUnchanged DEF WatchApply
<1>22. ASSUME NEW p \in polls, HungHeals(p) PROVE OneOperation'
    BY <1>22, AutoReconnectsOne DEF HungHeals
<1>23. CASE BootEnds
    <2> DEFINE job == [FreeJob EXCEPT !.at = "cleanup"]
    <2>1. job \in Job /\ job.at = "cleanup"
        BY NewPlaceTyped DEF Places
    <2>2. CASE UNCHANGED <<busy, jobs>>
        BY <2>2, OneUnchanged
    <2>3. ASSUME NEW j \in Slots, NotBusy, busy' = TRUE, jobs' = [jobs EXCEPT ![j] = job]
          PROVE  OneOperation'
        <3> HIDE DEF job
        <3> QED
            BY <2>1, <2>3, OneStarts
    <2> QED
        BY <1>23, <2>2, <2>3 DEF BootEnds
<1>24. CASE UNCHANGED <<busy, jobs>>
    BY <1>24, OneUnchanged
<1>25. ASSUME NEW p \in polls, PollSteps(p), busy' # busy \/ jobs' # jobs
      PROVE  StatsApply(p) \/ WatchApply(p) \/ HungHeals(p)
    BY <1>25 DEF PollSteps, ControllerStats, DeclareDead, DropLateFailure, ControllerLeftovers,
       LeftoversApply, cardVars
<1>26. CASE BootSteps /\ ~BootEnds
    BY <1>26, OneUnchanged DEF BootSteps, ControllerBoot, BootAdopts, BootWatches,
       BootFindsNone, BootFails, cardVars
<1>27. CASE PollStarts \/ DaemonDies \/ Pause \/ Resume
    BY <1>27, OneUnchanged DEF PollStarts, DaemonDies, Pause, Resume,
       cardVars, callVars
<1>28. ASSUME NEW id \in Tunnels, RemoveTunnel(id) PROVE OneOperation'
    BY <1>28, OneUnchanged DEF RemoveTunnel, callVars
<1>29. CASE UNCHANGED vars
    BY <1>29, OneUnchanged DEF vars, cardVars, callVars
<1>30. ASSUME NEW j \in Slots, CallSteps(j) PROVE OneOperation'
    BY <1>30, <1>5, <1>6, <1>7, <1>8, <1>9, <1>10, <1>11, <1>12, <1>13, <1>14, <1>15, <1>16, <1>17, <1>18, <1>19 DEF CallSteps
<1>31. ASSUME NEW p \in polls, PollSteps(p) PROVE OneOperation'
    BY <1>31, <1>19, <1>20, <1>21, <1>22, <1>24, <1>25
<1> QED
    BY <1>1, <1>2, <1>3, <1>4, <1>23, <1>23, <1>24, <1>26, <1>27, <1>28, <1>29, <1>30, <1>31 DEF Next, BootSteps

\* At most one operation is under way in any interleaving of the user's calls, the polls'
\* reconnects and the start-up cleanup, and `busy` is exactly its being there: `finally`
\* leaves no way out of an operation that keeps the card locked, and no await lets a second
\* one begin.
THEOREM OneAtATime == Spec => []OneOperation
<1>1. Init => OneOperation
    BY DEF Init, OneOperation, Working, FreeJob
<1>2. IInv /\ OneOperation /\ [Next]_vars => OneOperation'
    BY NextOne
<1> QED
    BY <1>1, <1>2, InitIInv, NextKeeps, PTL DEF Spec

-----------------------------------------------------------------------------
(* Between operations the tunnel that runs is the one on the card, for any  *)
(* servers, callers, polls in flight and late answers.                      *)
(*                                                                         *)
(* CardMatchesSystem speaks of the quiet moments only, so it says nothing   *)
(* to lean on while a call is under way.  CardInv says what holds at each   *)
(* await: which tunnel runs there, and that an answer is still true when    *)
(* it is applied, or `lost` owns up to it.                                  *)
\* While one of these waits, `active` is null, or was set by someone else.
Between == {"up", "retry", "recover", "stale"}
Underway == \E j \in Slots : jobs[j].at \in Between

SystemSound == alive => held # None

\* What a call was answered is true until it is applied; where it may not be, `lost` says so.
AnswerStands(job) ==
    /\ job.at = "hook" => job.ans = "none"
    /\ job.at \in {"up", "retry"} /\ job.ans = "ok" /\ alive => held = job.id
    /\ job.at \in {"down", "refuse", "cleanup"} /\ job.ans = "ok" => ~alive
    /\ job.at = "recover" => job.ans \in {"none", "same", "other", "failed"}
    /\ job.at = "recover" /\ job.ans = "same" /\ alive => held = job.prev
    /\ job.at = "retry" /\ job.ans # "ok" => lost
    /\ job.at = "up" /\ job.ans = "noIface" => lost
    /\ job.at = "recover" /\ job.ans = "failed" => lost
AnswersStand == \A j \in Slots : AnswerStands(jobs[j])

\* Nothing is on the card in the middle of a start, unless init() put it there.
StartOwnsCard == active # NoConn /\ Underway => lost

\* A poll that was told its daemon is dead is right, for as long as its connection is on.
DeadIsDead ==
    \A p \in polls : p.at = "stats" /\ p.ans = "dead" /\ p.conn = active => ~alive \/ lost

\* init() has asked what runs: that is still so, or a start made meanwhile was answered,
\* and its success marks init()'s answer as late.
Superseded == \E j \in Slots : jobs[j].at \in {"up", "retry"} /\ jobs[j].ans = "ok"
BootStands ==
    boot.at = "recover" /\ alive =>
        \/ lost \/ Superseded
        \/ boot.ans = "none"
        \/ boot.ans = "yes" /\ held = boot.found

\* Where the tunnel that runs is kept: on the card, or in the start that let go of it.
Keeps(job) ==
    /\ job.at = "up" /\ job.ans # "ok" => held = job.prev
    /\ job.at = "recover" => held = job.prev /\ job.ans # "other"
    /\ job.at # "stale"
Certain == ~lost /\ alive /\ boot.at # "recover"
TunnelPlaced ==
    Certain => /\ \A j \in Slots : Keeps(jobs[j])
               /\ ~Underway => active.id = held

CardInv == /\ SystemSound /\ AnswersStand /\ StartOwnsCard
           /\ DeadIsDead /\ BootStands /\ TunnelPlaced

LEMMA CardInvMatches == IInv /\ OneOperation /\ CardInv => CardMatchesSystem
<1> SUFFICES ASSUME IInv, OneOperation, CardInv, ~busy, Booted, ~lost, alive
             PROVE  active # NoConn /\ active.id = held
    BY DEF CardMatchesSystem
<1>1. ~Underway
    BY DEF OneOperation, Working, Underway, Between
<1>2. active.id = held
    BY <1>1 DEF CardInv, TunnelPlaced, Certain, Booted
<1>3. held # None
    BY DEF CardInv, SystemSound
<1> QED
    BY <1>2, <1>3 DEF NoConn

LEMMA InitCard == Init => CardInv
<1> SUFFICES ASSUME Init PROVE CardInv
    OBVIOUS
<1>1. \A j \in Slots : jobs[j].at = "free"
    BY DEF Init, FreeJob
<1>2. AnswersStand
    BY <1>1 DEF AnswersStand, AnswerStands
<1>3. ~Underway
    BY <1>1 DEF Underway, Between
<1>4. boot.at = "recover" /\ boot.ans = "none" /\ polls = {} /\ SystemSound
    BY DEF Init, BootAt, SystemSound
<1> QED
    BY <1>2, <1>3, <1>4 DEF CardInv, StartOwnsCard, DeadIsDead, BootStands, TunnelPlaced, Certain

----------------------------------------------------------------------------
(* What a step makes of the calls *)

\* One call is under way, so the others are free and stay so.
LEMMA OthersFree ==
    ASSUME OneOperation, NEW j \in Slots, jobs[j].at # "free"
    PROVE  \A k \in Slots : k # j => jobs[k].at = "free"
BY DEF OneOperation, Working

LEMMA NoneUnderway ==
    ASSUME OneOperation, NotBusy
    PROVE  \A k \in Slots : jobs[k].at = "free"
BY DEF OneOperation, Working, NotBusy

LEMMA JobSet ==
    ASSUME JobsTyped, NEW j \in Slots, NEW job, jobs' = [jobs EXCEPT ![j] = job]
    PROVE  /\ jobs'[j] = job
           /\ \A k \in Slots : k # j => jobs'[k] = jobs[k]
BY DEF JobsTyped

LEMMA RepliesSet ==
    ASSUME JobsTyped, NEW j \in Slots, NEW ans, Replies(j, ans)
    PROVE  /\ jobs'[j].ans = ans /\ jobs'[j].at = jobs[j].at
           /\ jobs'[j].id = jobs[j].id /\ jobs'[j].prev = jobs[j].prev
           /\ \A k \in Slots : k # j => jobs'[k] = jobs[k]
BY DEF JobsTyped, Replies, Job

LEMMA MovesSet ==
    ASSUME JobsTyped, NEW j \in Slots, NEW place, Moves(j, place)
    PROVE  /\ jobs'[j].at = place /\ jobs'[j].ans = "none"
           /\ jobs'[j].id = jobs[j].id /\ jobs'[j].prev = jobs[j].prev
           /\ \A k \in Slots : k # j => jobs'[k] = jobs[k]
BY DEF JobsTyped, Moves, Job

LEMMA EndsSet ==
    ASSUME JobsTyped, OneOperation, NEW j \in Slots, jobs[j].at # "free", Ends(j)
    PROVE  \A k \in Slots : jobs'[k].at = "free"
<1>1. jobs'[j] = FreeJob /\ \A k \in Slots : k # j => jobs'[k] = jobs[k]
    BY JobSet DEF Ends
<1> QED
    BY <1>1, OthersFree DEF FreeJob

LEMMA SettlesSet ==
    ASSUME JobsTyped, OneOperation, NEW j \in Slots, jobs[j].at # "free", NEW on, Settles(j, on)
    PROVE  IF on THEN \A k \in Slots : jobs'[k].at = "free"
           ELSE /\ jobs'[j].at = "stale" /\ jobs'[j].ans = "none"
                /\ \A k \in Slots : k # j => jobs'[k] = jobs[k]
<1>1. CASE on
    BY <1>1, EndsSet DEF Settles
<1>2. CASE ~on
    <2> DEFINE job == [FreeJob EXCEPT !.at = "stale"]
    <2>1. job.at = "stale" /\ job.ans = "none"
        BY DEF FreeJob
    <2>2. jobs' = [jobs EXCEPT ![j] = job]
        BY <1>2 DEF Settles
    <2> HIDE DEF job
    <2> QED
        BY <1>2, <2>1, <2>2, JobSet
<1> QED
    BY <1>1, <1>2

----------------------------------------------------------------------------
(* Steps that change neither what runs nor what is on the card *)

\* A call that has begun, and asked nothing of the controller that could put a tunnel
\* elsewhere than where it is.
BeginsCall ==
    /\ \A k \in Slots : jobs[k].at = "free"
    /\ \A k \in Slots : jobs'[k].at \notin Between /\ (jobs'[k].at # "free" => jobs'[k].ans = "none")
CallsAlike == UNCHANGED jobs \/ BeginsCall

LEMMA JobBegins ==
    ASSUME JobsTyped, OneOperation, NotBusy, NEW j \in Slots, NEW job,
           job.at \notin Between, job.ans = "none", jobs' = [jobs EXCEPT ![j] = job]
    PROVE  BeginsCall
<1>1. jobs'[j] = job /\ \A k \in Slots : k # j => jobs'[k] = jobs[k]
    BY JobSet
<1>2. \A k \in Slots : jobs[k].at = "free"
    BY NoneUnderway
<1> QED
    BY <1>1, <1>2 DEF BeginsCall, Between

LEMMA StartsAlike ==
    ASSUME JobsTyped, OneOperation, NotBusy, NEW id, Starts(id)
    PROVE  CallsAlike
<1>1. CASE id \in known
    <2> DEFINE job == [FreeJob EXCEPT !.at = "hook", !.id = id]
    <2>1. job.at \notin Between /\ job.ans = "none"
        BY DEF FreeJob, Between
    <2>2. PICK j \in Slots : jobs' = [jobs EXCEPT ![j] = job]
        BY <1>1 DEF Starts
    <2> HIDE DEF job
    <2> QED
        BY <2>1, <2>2, JobBegins DEF CallsAlike
<1>2. CASE id \notin known
    BY <1>2 DEF Starts, CallsAlike
<1> QED
    BY <1>1, <1>2

LEMMA HealsAlike ==
    ASSUME JobsTyped, OneOperation, NEW fresh, Heals(fresh)
    PROVE  CallsAlike
<1>1. CASE AutoReconnects
    <2>1. CASE active = NoConn \/ ~NotBusy
        BY <1>1, <2>1 DEF AutoReconnects, CallsAlike
    <2>2. CASE ~(active = NoConn \/ ~NotBusy)
        BY <1>1, <2>2, StartsAlike DEF AutoReconnects
    <2> QED
        BY <2>1, <2>2
<1> QED
    BY <1>1 DEF Heals, CallsAlike

\* Such a step keeps everything but what is known of the polls.
LEMMA AlikeKeeps ==
    ASSUME CardInv, CallsAlike, UNCHANGED <<active, held, alive>>, lost => lost',
           UNCHANGED boot \/ (boot.at # "recover" /\ boot'.at # "recover"),
           DeadIsDead'
    PROVE  CardInv'
<1>1. SystemSound'
    BY DEF CardInv, SystemSound
<1>2. AnswersStand'
    BY DEF CardInv, AnswersStand, AnswerStands, CallsAlike, BeginsCall, Between
<1>3. Underway' => Underway
    BY DEF CallsAlike, BeginsCall, Underway, Between
<1>4. Underway => Underway'
    BY DEF CallsAlike, BeginsCall, Underway, Between
<1>5. StartOwnsCard'
    BY <1>3 DEF CardInv, StartOwnsCard
<1>6. BootStands'
    BY DEF CardInv, BootStands, Superseded, CallsAlike, BeginsCall
<1>7. TunnelPlaced'
    <2>1. Certain' => Certain
        BY DEF Certain
    <2>2. (\A j \in Slots : Keeps(jobs[j])) => (\A j \in Slots : Keeps(jobs[j]))'
        BY DEF Keeps, CallsAlike, BeginsCall, Between
    <2> QED
        BY <1>4, <2>1, <2>2 DEF CardInv, TunnelPlaced
<1> QED
    BY <1>1, <1>2, <1>5, <1>6, <1>7 DEF CardInv

\* Polls that are dropped, or go on without having been told that the daemon is dead.
LEMMA PollsKeep ==
    ASSUME CardInv, UNCHANGED <<active, held, alive>>, lost => lost',
           \A p \in polls' : p \in polls \/ p.at # "stats" \/ p.ans # "dead"
    PROVE  DeadIsDead'
BY DEF CardInv, DeadIsDead

\* Everything the user or the timer begins.
Begins ==
    \/ \E id \in Tunnels : Connect(id) \/ RemoveTunnel(id)
    \/ Reconnect \/ Pause \/ Resume \/ PollStarts
    \/ \E j \in Slots : Disconnect(j) \/ Cleanup(j)

LEMMA QuietAlike ==
    ASSUME IInv, OneOperation, Begins \/ BootWatches \/ UNCHANGED vars
    PROVE  CallsAlike
<1> USE DEF IInv
<1>1. ASSUME NEW id \in Tunnels, Connect(id) PROVE CallsAlike
    BY <1>1, StartsAlike DEF Connect
<1>2. CASE Reconnect
    BY <1>2, StartsAlike DEF Reconnect
<1>3. ASSUME NEW j \in Slots, Disconnect(j) PROVE CallsAlike
    <2> DEFINE job == [FreeJob EXCEPT !.at = "down", !.id = active.id]
    <2>1. job.at \notin Between /\ job.ans = "none"
        BY DEF FreeJob, Between
    <2>2. jobs' = [jobs EXCEPT ![j] = job] /\ NotBusy
        BY <1>3 DEF Disconnect
    <2> HIDE DEF job
    <2> QED
        BY <2>1, <2>2, JobBegins DEF CallsAlike
<1>4. ASSUME NEW j \in Slots, Cleanup(j) PROVE CallsAlike
    <2> DEFINE job == [FreeJob EXCEPT !.at = "cleanup"]
    <2>1. job.at \notin Between /\ job.ans = "none"
        BY DEF FreeJob, Between
    <2>2. jobs' = [jobs EXCEPT ![j] = job] /\ NotBusy
        BY <1>4 DEF Cleanup
    <2> HIDE DEF job
    <2> QED
        BY <2>1, <2>2, JobBegins DEF CallsAlike
<1>5. ASSUME NEW id \in Tunnels, RemoveTunnel(id) PROVE CallsAlike
    BY <1>5 DEF RemoveTunnel, CallsAlike, callVars
<1>6. CASE Pause \/ Resume \/ BootWatches \/ PollStarts \/ UNCHANGED vars
    BY <1>6 DEF Pause, Resume, BootWatches, PollStarts, vars, CallsAlike, callVars
<1> QED
    BY <1>1, <1>2, <1>3, <1>4, <1>5, <1>6 DEF Begins

LEMMA QuietKeeps ==
    ASSUME IInv, OneOperation, CardInv, Begins \/ BootWatches \/ UNCHANGED vars
    PROVE  CardInv'
<1>1. CallsAlike
    BY QuietAlike
<1>2. UNCHANGED <<active, held, alive, lost>>
    BY DEF Begins, Connect, RemoveTunnel, Reconnect, Pause, Resume, Disconnect, Cleanup,
       PollStarts, BootWatches, vars, cardVars, callVars, systemVars
<1>3. UNCHANGED boot \/ (boot.at # "recover" /\ boot'.at # "recover")
    BY DEF Begins, Connect, RemoveTunnel, Reconnect, Pause, Resume, Disconnect, Cleanup,
       PollStarts, BootWatches, vars, callVars, BootAt
<1>4. UNCHANGED polls \/ polls' = polls \cup {[conn |-> active, at |-> "stats", ans |-> "none"]}
    BY DEF Begins, Connect, RemoveTunnel, Reconnect, Pause, Resume, Disconnect, Cleanup,
       PollStarts, BootWatches, vars, callVars
<1> QED
    BY <1>1, <1>2, <1>3, <1>4, AlikeKeeps, PollsKeep

LEMMA DaemonDiesCard == ASSUME IInv, CardInv, DaemonDies PROVE CardInv'
<1>1. ~alive' /\ UNCHANGED <<active, jobs, polls, boot, held, lost>>
    BY DEF DaemonDies, cardVars, callVars
<1>2. SystemSound' /\ DeadIsDead' /\ BootStands' /\ TunnelPlaced'
    BY <1>1 DEF SystemSound, DeadIsDead, BootStands, TunnelPlaced, Certain
<1>3. AnswersStand' /\ StartOwnsCard'
    BY <1>1 DEF CardInv, AnswersStand, AnswerStands, StartOwnsCard, Underway
<1> QED
    BY <1>2, <1>3 DEF CardInv

----------------------------------------------------------------------------
(* Polls *)

\* What the daemon answers, applied to a card that is still about it, or not at all.
LEMMA PollGoesOnCard ==
    ASSUME IInv, OneOperation, CardInv, NEW p \in polls,
           \/ StatsApply(p) \/ WatchApply(p) \/ HungHeals(p) \/ DropLateFailure(p)
           \/ ControllerLeftovers(p) \/ LeftoversApply(p)
    PROVE  CardInv'
<1> USE DEF IInv
<1>1. CallsAlike
    <2>1. CASE StatsApply(p) \/ WatchApply(p)
        BY <2>1, HealsAlike DEF StatsApply, WatchApply, CallsAlike
    <2>2. CASE HungHeals(p)
        BY <2>2, HealsAlike DEF HungHeals, Heals
    <2>3. CASE DropLateFailure(p) \/ ControllerLeftovers(p) \/ LeftoversApply(p)
        BY <2>3 DEF DropLateFailure, ControllerLeftovers, LeftoversApply, CallsAlike
    <2> QED
        BY <2>1, <2>2, <2>3
<1>2. UNCHANGED <<active, held, alive, boot>> /\ (lost => lost')
    <2>1. CASE StatsApply(p) \/ WatchApply(p) \/ HungHeals(p)
        BY <2>1 DEF StatsApply, WatchApply, HungHeals, systemVars
    <2>2. CASE DropLateFailure(p) \/ ControllerLeftovers(p)
        BY <2>2 DEF DropLateFailure, ControllerLeftovers, cardVars, systemVars
    <2>3. CASE LeftoversApply(p)
        BY <2>3 DEF LeftoversApply
    <2> QED
        BY <2>1, <2>2, <2>3
<1>3. \A q \in polls' : q \in polls \/ q.at # "stats" \/ q.ans # "dead"
    <2>1. ASSUME NEW ans, p.at = "leftovers" PROVE [p EXCEPT !.ans = ans].at # "stats"
        BY <2>1 DEF PollsTyped, Poll
    <2>2. [p EXCEPT !.at = "watch"].at # "stats"
        BY DEF PollsTyped, Poll
    <2> QED
        BY <2>1, <2>2 DEF StatsApply, WatchApply, HungHeals, DropLateFailure,
           ControllerLeftovers, LeftoversApply
<1> QED
    BY <1>1, <1>2, <1>3, AlikeKeeps, PollsKeep

LEMMA PollAskedCard ==
    ASSUME IInv, CardInv, NEW p \in polls, ControllerStats(p)
    PROVE  CardInv'
<1> USE DEF IInv
<1>1. UNCHANGED <<active, held, alive, boot, lost, jobs>>
    BY DEF ControllerStats, cardVars, systemVars
<1>2. DeadIsDead'
    <2>1. PICK ans \in (IF alive THEN {"fresh", "stale", "hung"} ELSE {"dead"}) :
             polls' = (polls \ {p}) \cup {[p EXCEPT !.ans = ans]}
        BY DEF ControllerStats
    <2>2. [p EXCEPT !.ans = ans].ans = ans
        BY DEF PollsTyped, Poll
    <2>3. alive => ans # "dead"
        BY <2>1
    <2> QED
        BY <1>1, <2>1, <2>2, <2>3 DEF CardInv, DeadIsDead
<1> QED
    BY <1>1, <1>2, AlikeKeeps DEF CallsAlike

LEMMA DeclareDeadCard == ASSUME IInv, CardInv, NEW p \in polls, DeclareDead(p) PROVE CardInv'
<1> USE DEF IInv
<1>1. /\ active = p.conn /\ active' = NoConn
      /\ UNCHANGED <<jobs, boot, held, alive>>
      /\ lost' = (lost \/ p.ans = "hung")
    BY DEF DeclareDead, StillActive
<1>2. ~alive \/ lost'
    BY <1>1 DEF DeclareDead, CardInv, DeadIsDead
<1>3. DeadIsDead' /\ StartOwnsCard'
    BY <1>1, <1>2 DEF DeadIsDead, StartOwnsCard
<1>4. SystemSound' /\ BootStands' /\ TunnelPlaced'
    BY <1>1, <1>2 DEF CardInv, SystemSound, BootStands, Superseded, TunnelPlaced, Certain
<1>5. AnswersStand'
    BY <1>1 DEF CardInv, AnswersStand, AnswerStands
<1> QED
    BY <1>3, <1>4, <1>5 DEF CardInv

----------------------------------------------------------------------------
(* The hook, and the answers of the controller *)

\* A call that ends, or goes where it waits for nothing yet, outside of a start.
LEMMA CallEndsKeeps ==
    ASSUME CardInv, UNCHANGED <<active, held, alive, boot, polls, lost>>,
           \A k \in Slots : jobs[k].at \notin Between,
           \A k \in Slots : jobs'[k].at \notin Between
                            /\ (jobs'[k].at # "free" => jobs'[k].ans = "none")
    PROVE  CardInv'
<1>1. SystemSound' /\ DeadIsDead'
    BY DEF CardInv, SystemSound, DeadIsDead
<1>2. AnswersStand'
    BY DEF AnswersStand, AnswerStands, Between
<1>3. ~Underway /\ ~Underway'
    BY DEF Underway
<1>4. StartOwnsCard'
    BY <1>3 DEF StartOwnsCard
<1>5. BootStands'
    BY DEF CardInv, BootStands, Superseded, Between
<1>6. TunnelPlaced'
    BY <1>3 DEF CardInv, TunnelPlaced, Certain, Keeps, Between
<1> QED
    BY <1>1, <1>2, <1>4, <1>5, <1>6 DEF CardInv

LEMMA HookLosesTunnelCard ==
    ASSUME IInv, OneOperation, CardInv, NEW j \in Slots, HookLosesTunnel(j) PROVE CardInv'
<1> USE DEF IInv
<1>1. jobs[j].at = "hook" /\ Ends(j) /\ UNCHANGED <<active, held, alive, boot, polls, lost>>
    BY DEF HookLosesTunnel, systemVars
<1>2. \A k \in Slots : jobs[k].at \notin Between
    BY <1>1, OthersFree DEF Between
<1>3. \A k \in Slots : jobs'[k].at = "free"
    BY <1>1, EndsSet
<1> QED
    BY <1>1, <1>2, <1>3, CallEndsKeeps DEF Between

LEMMA HookRefusesCard ==
    ASSUME IInv, OneOperation, CardInv, NEW j \in Slots, HookRefuses(j) PROVE CardInv'
<1> USE DEF IInv
<1>1. jobs[j].at = "hook" /\ UNCHANGED <<active, held, alive, boot, polls, lost>>
    BY DEF HookRefuses, systemVars
<1>2. \A k \in Slots : k # j => jobs[k].at = "free"
    BY <1>1, OthersFree
<1>3. \A k \in Slots : jobs'[k].at \notin Between
                       /\ (jobs'[k].at # "free" => jobs'[k].ans = "none")
    <2>1. CASE Ends(j)
        BY <1>1, <2>1, EndsSet DEF Between
    <2>2. CASE jobs' = [jobs EXCEPT ![j].at = "refuse"]
        <3>1. jobs'[j].at = "refuse" /\ jobs'[j].ans = jobs[j].ans
            BY <2>2 DEF JobsTyped, Job
        <3>2. \A k \in Slots : k # j => jobs'[k] = jobs[k]
            BY <2>2 DEF JobsTyped
        <3> QED
            BY <1>1, <1>2, <3>1, <3>2 DEF Between, CardInv, AnswersStand, AnswerStands
    <2> QED
        BY <2>1, <2>2 DEF HookRefuses
<1> QED
    BY <1>1, <1>2, <1>3, CallEndsKeeps DEF Between

\* The tunnel that the card lets go of is the one the start remembers.
LEMMA HookLetsGoCard ==
    ASSUME IInv, OneOperation, CardInv, NEW j \in Slots, HookLetsGo(j) PROVE CardInv'
<1> USE DEF IInv
<1> DEFINE job == [at |-> "up", id |-> jobs[j].id, prev |-> active.id, ans |-> "none",
                   was |-> active.id \in shownUp]
<1>1. /\ jobs[j].at = "hook" /\ active' = NoConn
      /\ UNCHANGED <<held, alive, boot, polls, lost>>
      /\ jobs' = [jobs EXCEPT ![j] = job]
    BY DEF HookLetsGo, systemVars
<1>2. job.at = "up" /\ job.ans = "none" /\ job.prev = active.id
    OBVIOUS
<1> HIDE DEF job
<1>3. \A k \in Slots : k # j => jobs[k].at = "free" /\ jobs'[k].at = "free"
    BY <1>1, OthersFree, JobSet
<1>4. jobs'[j] = job
    BY <1>1, JobSet
<1>5. SystemSound'
    BY <1>1 DEF CardInv, SystemSound
<1>6. AnswersStand'
    BY <1>2, <1>3, <1>4 DEF AnswersStand, AnswerStands
<1>7. StartOwnsCard'
    BY <1>1 DEF StartOwnsCard
<1>8. DeadIsDead'
    BY <1>1 DEF DeadIsDead, PollsTyped, Conns, NoConn
<1>9. BootStands'
    BY <1>1, <1>3 DEF CardInv, BootStands, Superseded
<1>10. TunnelPlaced'
    <2>1. ~Underway
        BY <1>1, <1>3 DEF Underway, Between
    <2>2. Underway'
        BY <1>2, <1>4 DEF Underway, Between
    <2>3. Certain' => held = active.id
        BY <1>1, <2>1 DEF CardInv, TunnelPlaced, Certain
    <2>4. Certain' => \A k \in Slots : Keeps(jobs[k])'
        BY <1>1, <1>2, <1>3, <1>4, <2>3 DEF Keeps
    <2> QED
        BY <2>2, <2>4 DEF TunnelPlaced
<1> QED
    BY <1>5, <1>6, <1>7, <1>8, <1>9, <1>10 DEF CardInv

\* `up`: whatever it leaves is what its answer says, or `lost` is set.
LEMMA ControllerUpCard ==
    ASSUME IInv, OneOperation, CardInv, NEW j \in Slots, ControllerUp(j) PROVE CardInv'
<1> USE DEF IInv
<1>1. /\ jobs[j].at \in {"up", "retry"} /\ jobs[j].ans = "none"
      /\ UNCHANGED <<active, boot, polls>>
    BY DEF ControllerUp, Waits, cardVars
<1>2. PICK ans :
        /\ Replies(j, ans)
        /\ \/ ans = "failed" /\ UNCHANGED <<held, alive, lost>>
           \/ ans = "ok" /\ held' = jobs[j].id /\ alive' = TRUE /\ lost' = lost
           \/ ans = "noIface" /\ held' = jobs[j].id /\ alive' = TRUE /\ lost' = TRUE
           \/ ans = "failed" /\ held' = None /\ alive' = FALSE /\ lost' = lost
           \/ ans = "failed" /\ held' = jobs[j].id /\ alive' = TRUE /\ lost' = TRUE
    BY DEF ControllerUp, systemVars
<1>3. /\ jobs'[j].ans = ans /\ jobs'[j].at = jobs[j].at
      /\ jobs'[j].id = jobs[j].id /\ jobs'[j].prev = jobs[j].prev
      /\ \A k \in Slots : k # j => jobs'[k] = jobs[k] /\ jobs[k].at = "free"
    BY <1>1, <1>2, RepliesSet, OthersFree
<1>4. SystemSound'
    <2>1. jobs[j].id # None
        BY <1>1, TunnelsAssumption DEF JobsTyped
    <2> QED
        BY <1>2, <2>1 DEF CardInv, SystemSound
<1>5. AnswersStand'
    <2>1. jobs[j].at = "retry" => lost'
        BY <1>1, <1>2 DEF CardInv, AnswersStand, AnswerStands
    <2>2. AnswerStands(jobs[j])'
        BY <1>1, <1>2, <1>3, <2>1 DEF AnswerStands
    <2> QED
        BY <1>3, <2>2 DEF AnswersStand, AnswerStands
<1>6. lost => lost'
    BY <1>2
<1>7. active # NoConn => lost
    BY <1>1 DEF CardInv, StartOwnsCard, Underway, Between
<1>8. StartOwnsCard'
    BY <1>1, <1>6, <1>7 DEF StartOwnsCard
<1>9. DeadIsDead'
    BY <1>1, <1>6, <1>7 DEF DeadIsDead, PollsTyped, Conns, NoConn
<1>10. BootStands'
    <2>1. ~Superseded
        BY <1>1, <1>3 DEF Superseded
    <2>2. ans = "ok" => Superseded'
        BY <1>1, <1>3 DEF Superseded
    <2>3. CASE UNCHANGED <<held, alive, lost>>
        BY <1>1, <2>1, <2>3 DEF CardInv, BootStands
    <2>4. CASE ans = "ok" \/ lost' = TRUE \/ alive' = FALSE
        BY <2>2, <2>4 DEF BootStands
    <2> QED
        BY <1>2, <2>3, <2>4
<1>11. TunnelPlaced'
    <2>1. Underway'
        BY <1>1, <1>3 DEF Underway, Between
    <2>2. Certain' => Keeps(jobs[j])'
        <3>1. CASE UNCHANGED <<held, alive, lost>>
            <4>1. Certain' => Keeps(jobs[j])
                BY <1>1, <3>1 DEF CardInv, TunnelPlaced, Certain
            <4> QED
                BY <1>1, <1>3, <3>1, <4>1 DEF Keeps
        <3>2. CASE ans = "ok"
            BY <1>1, <1>3, <3>2 DEF Keeps
        <3>3. CASE lost' = TRUE \/ alive' = FALSE
            BY <3>3 DEF Certain
        <3> QED
            BY <1>2, <3>1, <3>2, <3>3
    <2>3. \A k \in Slots : k # j => Keeps(jobs[k])'
        BY <1>3 DEF Keeps
    <2> QED
        BY <2>1, <2>2, <2>3 DEF TunnelPlaced
<1> QED
    BY <1>4, <1>5, <1>8, <1>9, <1>10, <1>11 DEF CardInv

\* A connection made now is one that no poll in flight is about.
LEMMA ConnectsNew ==
    ASSUME NEW id, Connects(id)
    PROVE  active'.id = id /\ \A p \in polls : p.conn # active'
BY DEF Connects

LEMMA UpSucceedsCard ==
    ASSUME IInv, OneOperation, CardInv, NEW j \in Slots, UpSucceeds(j) PROVE CardInv'
<1> USE DEF IInv
<1>1. /\ jobs[j].at \in {"up", "retry"} /\ jobs[j].ans = "ok"
      /\ Connects(jobs[j].id) /\ Settles(j, TRUE)
      /\ lost' = Asking
      /\ UNCHANGED <<held, alive, boot, polls>>
    BY DEF UpSucceeds, Answered
<1>2. \A k \in Slots : jobs'[k].at = "free"
    BY <1>1, SettlesSet
<1>3. active'.id = jobs[j].id /\ \A p \in polls : p.conn # active'
    BY <1>1, ConnectsNew
<1>4. alive => held = jobs[j].id
    BY <1>1 DEF CardInv, AnswersStand, AnswerStands
<1>5. SystemSound' /\ DeadIsDead'
    BY <1>1, <1>3 DEF CardInv, SystemSound, DeadIsDead
<1>6. AnswersStand' /\ ~Underway'
    BY <1>2 DEF AnswersStand, AnswerStands, Underway, Between
<1>7. StartOwnsCard'
    BY <1>6 DEF StartOwnsCard
<1>8. BootStands'
    BY <1>1 DEF BootStands, Asking
<1>9. TunnelPlaced'
    BY <1>1, <1>2, <1>3, <1>4 DEF TunnelPlaced, Certain, Keeps
<1> QED
    BY <1>5, <1>6, <1>7, <1>8, <1>9 DEF CardInv

\* A start that goes on to its next question, the system being as it was.
LEMMA StartGoesOn ==
    ASSUME IInv, OneOperation, CardInv, NEW j \in Slots,
           UNCHANGED <<active, held, alive, boot, polls>>, lost => lost',
           jobs[j].at \in Between, jobs[j].at \in {"up", "retry"} => jobs[j].ans # "ok",
           \A k \in Slots : k # j => jobs'[k] = jobs[k],
           jobs'[j].at \in Between,
           AnswerStands(jobs[j])', Certain' => Keeps(jobs[j])'
    PROVE  CardInv'
<1> USE DEF IInv
<1>1. \A k \in Slots : k # j => jobs[k].at = "free" /\ jobs'[k].at = "free"
    BY OthersFree DEF Between
<1>2. SystemSound' /\ DeadIsDead'
    BY DEF CardInv, SystemSound, DeadIsDead
<1>3. AnswersStand'
    BY <1>1 DEF AnswersStand, AnswerStands
<1>4. Underway /\ Underway'
    BY DEF Underway
<1>5. StartOwnsCard'
    BY <1>4 DEF CardInv, StartOwnsCard
<1>6. BootStands'
    <2>1. ~Superseded
        BY <1>1 DEF Superseded
    <2> QED
        BY <2>1 DEF CardInv, BootStands
<1>7. TunnelPlaced'
    <2>1. \A k \in Slots : k # j => Keeps(jobs[k])'
        BY <1>1 DEF Keeps
    <2> QED
        BY <1>4, <2>1 DEF TunnelPlaced
<1> QED
    BY <1>2, <1>3, <1>5, <1>6, <1>7 DEF CardInv

\* A start that ends, or asks what is left: nothing runs, or it is not known.
LEMMA StartSettles ==
    ASSUME IInv, OneOperation, CardInv, NEW j \in Slots,
           UNCHANGED <<active, held, alive, boot, polls, lost>>,
           jobs[j].at \in Between, jobs[j].at \in {"up", "retry"} => jobs[j].ans # "ok",
           Settles(j, active # NoConn),
           active = NoConn => ~Certain
    PROVE  CardInv'
<1> USE DEF IInv
<1>1. ~Certain
    BY DEF CardInv, StartOwnsCard, Underway, Certain
<1>2. \A k \in Slots : k # j => jobs[k].at = "free"
    BY OthersFree DEF Between
<1>3. CASE active # NoConn
    <2>1. \A k \in Slots : jobs'[k].at = "free"
        BY <1>3, SettlesSet DEF Between
    <2>2. SystemSound' /\ DeadIsDead'
        BY DEF CardInv, SystemSound, DeadIsDead
    <2>3. AnswersStand' /\ ~Underway'
        BY <2>1 DEF AnswersStand, AnswerStands, Underway, Between
    <2>4. BootStands'
        <3>1. ~Superseded
            BY <1>2 DEF Superseded
        <3> QED
            BY <3>1 DEF CardInv, BootStands
    <2> QED
        BY <1>1, <2>2, <2>3, <2>4 DEF CardInv, StartOwnsCard, TunnelPlaced, Certain
<1>4. CASE active = NoConn
    <2> DEFINE job == jobs'[j]
    <2>1. job.at = "stale" /\ \A k \in Slots : k # j => jobs'[k] = jobs[k]
        BY <1>4, SettlesSet DEF Between
    <2>2. SystemSound' /\ DeadIsDead'
        BY DEF CardInv, SystemSound, DeadIsDead
    <2>3. AnswersStand'
        BY <1>2, <2>1 DEF AnswersStand, AnswerStands
    <2>4. BootStands'
        <3>1. ~Superseded
            BY <1>2 DEF Superseded
        <3> QED
            BY <3>1 DEF CardInv, BootStands
    <2> QED
        BY <1>1, <1>4, <2>2, <2>3, <2>4 DEF CardInv, StartOwnsCard, TunnelPlaced, Certain
<1> QED
    BY <1>3, <1>4

\* The second attempt, or the question whether the previous tunnel still runs.
LEMMA UpGoesOnCard ==
    ASSUME IInv, OneOperation, CardInv, NEW j \in Slots,
           jobs[j].at \in {"up", "retry"}, jobs[j].ans # "ok",
           NEW place, Moves(j, place),
           \/ place = "retry" /\ jobs[j].at = "up" /\ jobs[j].ans = "noIface"
           \/ place = "recover",
           UNCHANGED <<active, held, alive, boot, polls, lost>>
    PROVE  CardInv'
<1> USE DEF IInv
<1>1. /\ jobs'[j].at = place /\ jobs'[j].ans = "none" /\ jobs'[j].prev = jobs[j].prev
      /\ \A k \in Slots : k # j => jobs'[k] = jobs[k]
    BY MovesSet
<1>2. jobs[j].at \in Between /\ place \in Between
    BY DEF Between
<1>3. (jobs[j].at = "retry" \/ place = "retry") => lost
    BY DEF CardInv, AnswersStand, AnswerStands
<1>4. AnswerStands(jobs[j])'
    BY <1>1, <1>3 DEF AnswerStands
<1>5. Certain' => Keeps(jobs[j])'
    <2>1. CASE lost
        BY <2>1 DEF Certain
    <2>2. CASE ~lost
        <3>1. jobs[j].at = "up" /\ place = "recover"
            BY <1>3, <2>2
        <3>2. Certain => held = jobs[j].prev
            BY <3>1 DEF CardInv, TunnelPlaced, Keeps
        <3> QED
            BY <1>1, <3>1, <3>2 DEF Certain, Keeps
    <2> QED
        BY <2>1, <2>2
<1> QED
    BY <1>1, <1>2, <1>4, <1>5, StartGoesOn

LEMMA UpFailsCard ==
    ASSUME IInv, OneOperation, CardInv, NEW j \in Slots, UpFails(j) PROVE CardInv'
<1> USE DEF IInv
<1>1. /\ jobs[j].at \in {"up", "retry"} /\ jobs[j].ans # "ok"
      /\ UNCHANGED <<active, held, alive, boot, polls, lost>>
    BY DEF UpFails, Answered, systemVars
<1>2. CASE jobs[j].prev # None
    BY <1>1, <1>2, UpGoesOnCard DEF UpFails
<1>3. CASE jobs[j].prev = None
    <2>1. jobs[j].at = "retry" => lost
        BY <1>1 DEF CardInv, AnswersStand, AnswerStands
    <2>2. Certain => jobs[j].at = "up" /\ held = None
        BY <1>1, <1>3, <2>1 DEF CardInv, TunnelPlaced, Certain, Keeps
    <2>3. ~Certain
        BY <2>2 DEF CardInv, SystemSound, Certain
    <2>4. jobs[j].at \in Between /\ Settles(j, active # NoConn)
        BY <1>1, <1>3 DEF Between, UpFails
    <2> QED
        BY <1>1, <2>3, <2>4, StartSettles
<1> QED
    BY <1>2, <1>3

LEMMA UpTriesAgainCard ==
    ASSUME IInv, OneOperation, CardInv, NEW j \in Slots, UpTriesAgain(j) PROVE CardInv'
BY UpGoesOnCard DEF UpTriesAgain, Answered, cardVars, systemVars

LEMMA ControllerRecoverCard ==
    ASSUME IInv, OneOperation, CardInv, NEW j \in Slots, ControllerRecover(j) PROVE CardInv'
<1> USE DEF IInv
<1>1. /\ jobs[j].at = "recover" /\ jobs[j].ans = "none"
      /\ UNCHANGED <<active, held, alive, boot, polls>>
    BY DEF ControllerRecover, Waits, cardVars
<1>2. PICK ans :
        /\ Replies(j, ans)
        /\ \/ ans = "same" /\ alive /\ held = jobs[j].prev /\ lost' = lost
           \/ ans = "other" /\ ~(alive /\ held = jobs[j].prev) /\ lost' = lost
           \/ ans = "failed" /\ lost' = TRUE
    BY DEF ControllerRecover
<1>3. /\ jobs'[j].ans = ans /\ jobs'[j].at = "recover" /\ jobs'[j].prev = jobs[j].prev
      /\ \A k \in Slots : k # j => jobs'[k] = jobs[k]
    BY <1>1, <1>2, RepliesSet
<1>4. AnswerStands(jobs[j])'
    BY <1>1, <1>2, <1>3 DEF AnswerStands
<1>5. lost => lost'
    BY <1>2
<1>6. Certain => held = jobs[j].prev
    BY <1>1 DEF CardInv, TunnelPlaced, Keeps
<1>7. Certain' => Keeps(jobs[j])'
    BY <1>1, <1>2, <1>3, <1>5, <1>6 DEF Certain, Keeps
<1>8. jobs[j].at \in Between /\ jobs'[j].at \in Between
    BY <1>1, <1>3 DEF Between
<1> QED
    BY <1>1, <1>3, <1>4, <1>5, <1>7, <1>8, StartGoesOn

LEMMA PreviousKeptCard ==
    ASSUME IInv, OneOperation, CardInv, NEW j \in Slots, PreviousKept(j) PROVE CardInv'
<1> USE DEF IInv
<1>1. /\ jobs[j].at = "recover" /\ jobs[j].ans = "same"
      /\ Connects(jobs[j].prev) /\ Settles(j, TRUE)
      /\ UNCHANGED <<held, alive, boot, polls, lost>>
    BY DEF PreviousKept, Answered, systemVars
<1>2. \A k \in Slots : jobs'[k].at = "free"
    BY <1>1, SettlesSet
<1>3. active'.id = jobs[j].prev /\ \A p \in polls : p.conn # active'
    BY <1>1, ConnectsNew
<1>4. alive => held = jobs[j].prev
    BY <1>1 DEF CardInv, AnswersStand, AnswerStands
<1>5. SystemSound' /\ DeadIsDead'
    BY <1>1, <1>3 DEF CardInv, SystemSound, DeadIsDead
<1>6. AnswersStand' /\ ~Underway'
    BY <1>2 DEF AnswersStand, AnswerStands, Underway, Between
<1>7. StartOwnsCard'
    BY <1>6 DEF StartOwnsCard
<1>8. BootStands'
    <2>1. ~Superseded
        BY <1>1, OthersFree DEF Superseded
    <2> QED
        BY <1>1, <2>1 DEF CardInv, BootStands
<1>9. TunnelPlaced'
    BY <1>1, <1>2, <1>3, <1>4 DEF TunnelPlaced, Certain, Keeps
<1> QED
    BY <1>5, <1>6, <1>7, <1>8, <1>9 DEF CardInv

LEMMA PreviousGoneCard ==
    ASSUME IInv, OneOperation, CardInv, NEW j \in Slots, PreviousGone(j) PROVE CardInv'
<1> USE DEF IInv
<1>1. /\ jobs[j].at = "recover" /\ jobs[j].ans \notin {"same", "none"}
      /\ Settles(j, active # NoConn)
      /\ UNCHANGED <<active, held, alive, boot, polls, lost>>
    BY DEF PreviousGone, Answered, systemVars
<1>2. jobs[j].ans \in {"other", "failed"}
    BY <1>1 DEF CardInv, AnswersStand, AnswerStands
<1>3. ~Certain
    BY <1>1, <1>2 DEF CardInv, AnswersStand, AnswerStands, TunnelPlaced, Certain, Keeps
<1> QED
    BY <1>1, <1>3, StartSettles DEF Between

LEMMA ControllerStaleCard ==
    ASSUME IInv, OneOperation, CardInv, NEW j \in Slots, ControllerStale(j) PROVE CardInv'
<1> USE DEF IInv
<1>1. jobs[j].at = "stale" /\ UNCHANGED <<active, held, alive, boot, polls>>
    BY DEF ControllerStale, Waits, cardVars
<1>2. PICK ans : Replies(j, ans) /\ (lost' = lost \/ lost' = TRUE)
    BY DEF ControllerStale
<1>3. /\ jobs'[j].at = "stale"
      /\ \A k \in Slots : k # j => jobs'[k] = jobs[k]
    BY <1>1, <1>2, RepliesSet
<1>4. lost => lost'
    BY <1>2
<1>5. ~Certain
    BY <1>1 DEF CardInv, TunnelPlaced, Keeps
<1>6. ~Certain'
    BY <1>1, <1>4, <1>5 DEF Certain
<1>7. AnswerStands(jobs[j])'
    BY <1>3 DEF AnswerStands
<1>8. jobs[j].at \in Between /\ jobs'[j].at \in Between
    BY <1>1, <1>3 DEF Between
<1> QED
    BY <1>1, <1>3, <1>4, <1>6, <1>7, <1>8, StartGoesOn

\* The call is over, and what runs is on the card, or nothing does, or it is not known.
LEMMA CallOver ==
    ASSUME IInv, OneOperation, CardInv, NEW j \in Slots,
           UNCHANGED <<held, alive, boot, polls>>,
           jobs[j].at # "free", jobs[j].at \in {"up", "retry"} => jobs[j].ans # "ok",
           Ends(j),
           \/ ~alive
           \/ active' = active /\ lost' = lost /\ (Certain => active.id = held)
    PROVE  CardInv'
<1> USE DEF IInv
<1>1. \A k \in Slots : jobs'[k].at = "free"
    BY EndsSet
<1>2. AnswersStand' /\ StartOwnsCard' /\ ~Underway'
    BY <1>1 DEF AnswersStand, AnswerStands, StartOwnsCard, Underway, Between
<1>3. ~Superseded
    BY OthersFree DEF Superseded
<1>4. SystemSound' /\ DeadIsDead' /\ BootStands'
    BY <1>3 DEF CardInv, SystemSound, DeadIsDead, BootStands
<1>5. TunnelPlaced'
    BY <1>1 DEF TunnelPlaced, Certain, Keeps
<1> QED
    BY <1>2, <1>4, <1>5 DEF CardInv

LEMMA StartSettledCard ==
    ASSUME IInv, OneOperation, CardInv, NEW j \in Slots, StartSettled(j) PROVE CardInv'
<1>1. /\ jobs[j].at = "stale" /\ Ends(j)
      /\ UNCHANGED <<active, held, alive, boot, polls, lost>>
    BY DEF StartSettled, Answered, systemVars
<1>2. ~Certain
    BY <1>1 DEF CardInv, TunnelPlaced, Keeps
<1> QED
    BY <1>1, <1>2, CallOver

LEMMA ControllerDownCard ==
    ASSUME IInv, OneOperation, CardInv, NEW j \in Slots, ControllerDown(j) PROVE CardInv'
<1> USE DEF IInv
<1>1. /\ jobs[j].at \in {"down", "refuse", "cleanup"}
      /\ UNCHANGED <<active, boot, polls, lost>>
    BY DEF ControllerDown, Waits, cardVars
<1>2. PICK ans :
        /\ Replies(j, ans)
        /\ ~alive' \/ (ans = "failed" /\ UNCHANGED <<held, alive>>)
    BY DEF ControllerDown
<1>3. /\ jobs'[j].ans = ans /\ jobs'[j].at = jobs[j].at
      /\ \A k \in Slots : k # j => jobs'[k] = jobs[k] /\ jobs[k].at = "free"
    BY <1>1, <1>2, RepliesSet, OthersFree
<1>4. ~Underway /\ ~Underway'
    BY <1>1, <1>3 DEF Underway, Between
<1>5. AnswersStand'
    BY <1>1, <1>2, <1>3 DEF AnswersStand, AnswerStands
<1>6. \A k \in Slots : Keeps(jobs[k])'
    BY <1>1, <1>3 DEF Keeps
<1>7. CASE ~alive'
    BY <1>1, <1>4, <1>5, <1>7 DEF CardInv, SystemSound, StartOwnsCard, DeadIsDead, BootStands,
       TunnelPlaced, Certain
<1>8. CASE UNCHANGED <<held, alive>>
    <2>1. BootStands'
        BY <1>1, <1>3, <1>8 DEF CardInv, BootStands, Superseded
    <2> QED
        BY <1>1, <1>4, <1>5, <1>6, <1>8, <2>1 DEF CardInv, SystemSound, StartOwnsCard, DeadIsDead,
           TunnelPlaced, Certain
<1> QED
    BY <1>2, <1>7, <1>8

\* A disconnect that succeeded left nothing running; one that failed leaves the card alone.
LEMMA DisconnectedCard ==
    ASSUME IInv, OneOperation, CardInv, NEW j \in Slots, Disconnected(j) PROVE CardInv'
<1> USE DEF IInv
<1>1. /\ jobs[j].at \in {"down", "refuse"} /\ Ends(j)
      /\ UNCHANGED <<held, alive, boot, polls>>
    BY DEF Disconnected, Answered
<1>2. ~Underway
    BY <1>1, OthersFree DEF Underway, Between
<1>3. Certain => active.id = held
    BY <1>2 DEF CardInv, TunnelPlaced
<1>4. CASE jobs[j].ans = "ok"
    <2>1. ~alive
        BY <1>1, <1>4 DEF CardInv, AnswersStand, AnswerStands
    <2> QED
        BY <1>1, <2>1, CallOver
<1>5. CASE jobs[j].ans # "ok"
    <2>1. active' = active /\ lost' = lost
        BY <1>5 DEF Disconnected
    <2> QED
        BY <1>1, <1>3, <2>1, CallOver
<1> QED
    BY <1>4, <1>5

LEMMA CleanedUpCard ==
    ASSUME IInv, OneOperation, CardInv, NEW j \in Slots, CleanedUp(j) PROVE CardInv'
<1> USE DEF IInv
<1>1. /\ jobs[j].at = "cleanup" /\ Ends(j)
      /\ UNCHANGED <<active, held, alive, boot, polls>>
    BY DEF CleanedUp, Answered
<1>2. ~Underway
    BY <1>1, OthersFree DEF Underway, Between
<1>3. Certain => active.id = held
    BY <1>2 DEF CardInv, TunnelPlaced
<1>4. CASE jobs[j].ans = "ok"
    <2>1. ~alive
        BY <1>1, <1>4 DEF CardInv, AnswersStand, AnswerStands
    <2> QED
        BY <1>1, <2>1, CallOver
<1>5. CASE jobs[j].ans # "ok"
    <2>1. active' = active /\ lost' = lost
        BY <1>1, <1>5 DEF CleanedUp
    <2> QED
        BY <1>1, <1>3, <2>1, CallOver
<1> QED
    BY <1>4, <1>5

----------------------------------------------------------------------------
(* init() *)

\* Before init() has adopted anything, and after: the calls are as they were.
LEMMA ControllerBootCard ==
    ASSUME IInv, CardInv, ControllerBoot PROVE CardInv'
<1> USE DEF IInv
<1>1. UNCHANGED <<active, jobs, polls, held, alive, lost>> /\ boot'.at = boot.at
    BY DEF ControllerBoot, cardVars, systemVars, BootTyped, Boot
<1>2. BootStands'
    <2>1. CASE boot.at = "recover"
        <3>1. alive => boot'.ans = "yes" /\ boot'.found = held
            BY <2>1 DEF ControllerBoot, BootTyped, Boot
        <3> QED
            BY <1>1, <3>1 DEF BootStands
    <2>2. CASE boot.at # "recover"
        BY <1>1, <2>2 DEF BootStands
    <2> QED
        BY <2>1, <2>2
<1>3. SystemSound' /\ StartOwnsCard' /\ DeadIsDead' /\ AnswersStand'
    BY <1>1 DEF CardInv, SystemSound, StartOwnsCard, Underway, DeadIsDead, AnswersStand, AnswerStands
<1>4. TunnelPlaced'
    BY <1>1 DEF CardInv, TunnelPlaced, Certain, Keeps, Underway
<1> QED
    BY <1>2, <1>3, <1>4 DEF CardInv

\* init() goes on without a tunnel: nothing runs, or a start was answered meanwhile.
LEMMA BootLeavesCard ==
    ASSUME IInv, OneOperation, CardInv, BootFindsNone \/ BootFails \/ BootEnds
    PROVE  CardInv'
<1> USE DEF IInv
<1>1. UNCHANGED <<active, polls, held, alive>> /\ (lost => lost') /\ boot'.at # "recover"
    <2>1. CASE BootFindsNone
        BY <2>1 DEF BootFindsNone, BootAt, cardVars
    <2>2. CASE BootFails
        BY <2>2 DEF BootFails, BootAt, cardVars
    <2>3. CASE BootEnds
        BY <2>3 DEF BootEnds, BootAt
    <2> QED
        BY <2>1, <2>2, <2>3
<1>2. DeadIsDead'
    BY <1>1, PollsKeep
<1>3. CallsAlike
    <2>1. CASE BootFindsNone \/ BootFails
        BY <2>1 DEF BootFindsNone, BootFails, CallsAlike
    <2>2. CASE BootEnds
        <3> DEFINE job == [FreeJob EXCEPT !.at = "cleanup"]
        <3>1. job.at \notin Between /\ job.ans = "none"
            BY DEF FreeJob, Between
        <3>2. CASE UNCHANGED jobs
            BY <3>2 DEF CallsAlike
        <3>3. ASSUME NEW j \in Slots, NotBusy, jobs' = [jobs EXCEPT ![j] = job] PROVE CallsAlike
            <4> HIDE DEF job
            <4> QED
                BY <3>1, <3>3, JobBegins DEF CallsAlike
        <3> QED
            BY <2>2, <3>2, <3>3 DEF BootEnds
    <2> QED
        BY <2>1, <2>2
<1>4. CASE boot.at # "recover"
    BY <1>1, <1>2, <1>3, <1>4, AlikeKeeps
<1>5. CASE boot.at = "recover" /\ lost'
    <2>1. UNCHANGED jobs
        BY <1>5 DEF BootFindsNone, BootFails, BootEnds
    <2>2. AnswersStand'
        BY <1>1, <2>1 DEF CardInv, AnswersStand, AnswerStands
    <2> QED
        BY <1>1, <1>2, <1>5, <2>2 DEF CardInv, SystemSound, StartOwnsCard, BootStands, TunnelPlaced, Certain
<1>6. CASE boot.at = "recover" /\ ~lost'
    <2>1. BootFindsNone /\ boot.ans # "yes" /\ boot.ans # "none" /\ UNCHANGED jobs
        BY <1>6 DEF BootFindsNone, BootFails, BootEnds
    <2>2. alive => Superseded
        BY <1>1, <1>6, <2>1 DEF CardInv, BootStands
    <2>3. AnswersStand'
        BY <1>1, <2>1, <1>6 DEF CardInv, AnswersStand, AnswerStands
    <2>4. SystemSound' /\ StartOwnsCard' /\ BootStands'
        BY <1>1, <2>1 DEF CardInv, SystemSound, StartOwnsCard, Underway, BootStands
    <2>5. Certain' => Underway /\ \A k \in Slots : Keeps(jobs[k])
        <3> SUFFICES ASSUME Certain' PROVE Underway /\ \A k \in Slots : Keeps(jobs[k])
            OBVIOUS
        <3>1. PICK j \in Slots : jobs[j].at \in {"up", "retry"} /\ jobs[j].ans = "ok"
            BY <1>1, <2>2 DEF Certain, Superseded
        <3>2. \A k \in Slots : k # j => jobs[k].at = "free"
            BY <3>1, OthersFree
        <3> QED
            BY <3>1, <3>2 DEF Underway, Between, Keeps
    <2>6. TunnelPlaced'
        BY <1>1, <2>1, <2>5 DEF TunnelPlaced, Certain, Underway, Keeps
    <2> QED
        BY <1>2, <2>3, <2>4, <2>6 DEF CardInv
<1> QED
    BY <1>4, <1>5, <1>6

\* What init() puts on the card is what it found, or the answer came too late.
LEMMA BootAdoptsCard == ASSUME IInv, OneOperation, CardInv, BootAdopts PROVE CardInv'
<1> USE DEF IInv
<1>1. /\ boot.at = "recover" /\ boot.ans = "yes" /\ boot'.at # "recover"
      /\ Connects(boot.found)
      /\ lost' = (lost \/ busy \/ active # NoConn)
      /\ UNCHANGED <<jobs, polls, held, alive>>
    BY DEF BootAdopts, BootAt
<1>2. active'.id = boot.found /\ \A p \in polls : p.conn # active'
    BY <1>1, ConnectsNew
<1>3. Underway => lost'
    BY <1>1 DEF OneOperation, Working, Underway, Between
<1>4. AnswersStand'
    BY <1>1 DEF CardInv, AnswersStand, AnswerStands
<1>5. SystemSound' /\ DeadIsDead' /\ BootStands'
    BY <1>1, <1>2 DEF CardInv, SystemSound, DeadIsDead, BootStands
<1>6. StartOwnsCard'
    BY <1>1, <1>3 DEF StartOwnsCard, Underway
<1>7. TunnelPlaced'
    <2> SUFFICES ASSUME Certain' PROVE active'.id = held /\ \A k \in Slots : Keeps(jobs[k])'
        BY <1>1 DEF TunnelPlaced
    <2>1. \A k \in Slots : jobs[k].at = "free"
        BY <1>1, NoneUnderway DEF Certain, NotBusy
    <2>2. ~Superseded /\ ~lost /\ alive
        BY <1>1, <2>1 DEF Superseded, Certain
    <2>3. held = boot.found
        BY <1>1, <2>2 DEF CardInv, BootStands
    <2> QED
        BY <1>1, <1>2, <2>1, <2>3 DEF Keeps
<1> QED
    BY <1>4, <1>5, <1>6, <1>7 DEF CardInv

----------------------------------------------------------------------------

LEMMA NextCard == ASSUME IInv, OneOperation, CardInv, [Next]_vars PROVE CardInv'
<1>1. ASSUME NEW j \in Slots, CallSteps(j) PROVE CardInv'
    BY <1>1, HookLetsGoCard, HookLosesTunnelCard, HookRefusesCard, ControllerUpCard,
       UpSucceedsCard, UpTriesAgainCard, UpFailsCard, ControllerRecoverCard, PreviousKeptCard,
       PreviousGoneCard, ControllerStaleCard, StartSettledCard, ControllerDownCard,
       DisconnectedCard, CleanedUpCard DEF CallSteps
<1>2. ASSUME NEW p \in polls, PollSteps(p) PROVE CardInv'
    BY <1>2, PollGoesOnCard, PollAskedCard, DeclareDeadCard DEF PollSteps
<1>3. CASE BootSteps
    BY <1>3, ControllerBootCard, BootAdoptsCard, BootLeavesCard, QuietKeeps DEF BootSteps
<1>4. CASE DaemonDies
    BY <1>4, DaemonDiesCard
<1>5. CASE Begins \/ UNCHANGED vars
    BY <1>5, QuietKeeps
<1> QED
    BY <1>1, <1>2, <1>3, <1>4, <1>5 DEF Next, Begins

\* Between operations the tunnel that runs is the one on the card, in every interleaving of
\* any callers, polls, reconnects and the start-up with a controller that fails as it likes:
\* the comparison of connections by identity, the question keepPrevious asks, and `busy`
\* are together enough.  Only a lost answer, or one applied over a later call, may part them.
THEOREM CardIsRight == Spec => []CardMatchesSystem
<1>1. Init => IInv /\ OneOperation /\ CardInv
    <2>1. Init => OneOperation
        BY DEF Init, OneOperation, Working, FreeJob
    <2> QED
        BY <2>1, InitIInv, InitCard
<1>2. IInv /\ OneOperation /\ CardInv /\ [Next]_vars => (IInv /\ OneOperation /\ CardInv)'
    BY NextKeeps, NextOne, NextCard
<1>3. IInv /\ OneOperation /\ CardInv => CardMatchesSystem
    BY CardInvMatches
<1> QED
    BY <1>1, <1>2, <1>3, PTL DEF Spec

-----------------------------------------------------------------------------
(* A tunnel on the card is polled, and what a dead daemon left behind is    *)
(* offered for removal, for any servers, callers, polls and late answers.   *)
(*                                                                         *)
(* The first needs one state more than it speaks of: while init() waits for *)
(* the watchdog nothing is polled yet.  The second rests on what was asked  *)
(* of the system and is not applied yet: each answer "nothing is left" is   *)
(* still true then, or a start made meanwhile has been answered and will    *)
(* mark it as late.                                                         *)

Watched == active # NoConn /\ ~paused /\ boot.at # "watch" => polling

LEMMA InitWatched == Init => Watched
BY DEF Init, Watched

\* A card without a connection has nothing to poll.
LEMMA NextWatched == ASSUME IInv, Watched, [Next]_vars PROVE Watched'
<1> USE DEF IInv, CardTyped
<1>1. ASSUME NEW j \in Slots, CallSteps(j) PROVE Watched'
    <2>1. CASE \/ HookLetsGo(j) \/ HookLosesTunnel(j) \/ HookRefuses(j)
               \/ ControllerUp(j) \/ UpTriesAgain(j) \/ UpFails(j) \/ ControllerRecover(j)
               \/ PreviousGone(j) \/ ControllerStale(j) \/ StartSettled(j)
               \/ ControllerDown(j) \/ Disconnected(j) \/ CleanedUp(j)
        BY <2>1 DEF Watched, HookLetsGo, HookLosesTunnel, HookRefuses, ControllerUp, UpTriesAgain,
           UpFails, ControllerRecover, PreviousGone, ControllerStale, StartSettled,
           ControllerDown, Disconnected, CleanedUp, cardVars
    <2>2. CASE UpSucceeds(j) \/ PreviousKept(j)
        BY <2>2 DEF Watched, UpSucceeds, PreviousKept, StartsPolling
    <2> QED
        BY <1>1, <2>1, <2>2 DEF CallSteps
<1>2. ASSUME NEW p \in polls, PollSteps(p) PROVE Watched'
    BY <1>2 DEF PollSteps, Watched, ControllerStats, StatsApply, WatchApply, HungHeals,
       DeclareDead, DropLateFailure, ControllerLeftovers, LeftoversApply, cardVars
<1>3. CASE BootSteps
    <2>1. CASE ControllerBoot
        <3>1. boot'.at = "watch" <=> boot.at = "watch"
            BY <2>1 DEF ControllerBoot, BootTyped, Boot
        <3> QED
            BY <2>1, <3>1 DEF ControllerBoot, Watched, cardVars
    <2>2. CASE BootAdopts \/ BootWatches
        BY <2>2 DEF BootAdopts, BootWatches, BootAt, StartsPolling, Watched
    <2>3. CASE BootFindsNone \/ BootFails \/ BootEnds
        BY <2>3 DEF BootFindsNone, BootFails, BootEnds, cardVars, Watched
    <2> QED
        BY <1>3, <2>1, <2>2, <2>3 DEF BootSteps
<1>4. CASE PollStarts \/ DaemonDies \/ UNCHANGED vars
    BY <1>4 DEF PollStarts, DaemonDies, vars, cardVars, callVars, Watched
<1>5. ASSUME NEW id \in Tunnels, Connect(id) \/ RemoveTunnel(id) PROVE Watched'
    BY <1>5 DEF Connect, RemoveTunnel, callVars, Watched
<1>6. CASE Reconnect \/ Pause \/ Resume
    BY <1>6 DEF Reconnect, Pause, Resume, callVars, Watched
<1>7. ASSUME NEW j \in Slots, Disconnect(j) \/ Cleanup(j) PROVE Watched'
    BY <1>7 DEF Disconnect, Cleanup, Watched
<1> QED
    BY <1>1, <1>2, <1>3, <1>4, <1>5, <1>6, <1>7 DEF Next

\* A connection on the card is polled in every reachable state but the one where init() waits
\* for the watchdog or the removal screen is up: whichever way a start, a switch, an adoption or
\* a declined removal put it there, the timer was started with it.
THEOREM RunningWatched == Spec => []RunningIsWatched
<1>1. Watched => RunningIsWatched
    BY DEF Watched, RunningIsWatched, Booted
<1> QED
    BY <1>1, InitIInv, NextKeeps, InitWatched, NextWatched, PTL DEF Spec

----------------------------------------------------------------------------
(* What has been asked of the system, and is not applied yet *)

\* init() has been told what is left, or has nothing to ask.
Looked == boot.at \in {"watch", "done"} \/ (boot.at = "stale" /\ boot.ans = "no")

TakenDown ==
    \A j \in Slots :
        jobs[j].at \in {"down", "refuse", "cleanup"} /\ jobs[j].ans = "ok" => held = None

\* A start that failed has been told that nothing is left.
StartHasLooked(job) ==
    job.at = "stale" /\ ~lost => /\ job.ans \in {"none", "yes", "no"}
                                 /\ job.ans = "no" /\ Looked => held = None
StartLooked == \A j \in Slots : StartHasLooked(jobs[j])

\* A poll that found its daemon dead asks what is left of it.
PollLooks(p) ==
    p.at = "leftovers" /\ ~lost => /\ p.ans \in {"none", "yes", "no"}
                                   /\ alive => Superseded
                                   /\ p.ans = "no" => held = None \/ Superseded
PollsLook == \A p \in polls : PollLooks(p)

NoPollLooks == \A p \in polls : p.at # "leftovers"
LeftBehind == ~lost /\ Looked /\ active = NoConn /\ held # None /\ ~alive /\ NoPollLooks
Offered == LeftBehind /\ ~Underway => needsCleanup

LeftInv == TakenDown /\ StartLooked /\ PollsLook /\ Offered

LEMMA LeftInvOffers == OneOperation /\ LeftInv => LeftoversOffered
<1> SUFFICES ASSUME OneOperation, LeftInv, ~busy, Booted, ~lost, active = NoConn, held # None,
                    ~alive, ~\E p \in polls : p.at = "leftovers"
             PROVE  needsCleanup
    BY DEF LeftoversOffered
<1>1. ~Underway
    BY DEF OneOperation, Working, Underway, Between
<1> QED
    BY <1>1 DEF LeftInv, Offered, LeftBehind, NoPollLooks, Looked, Booted

LEMMA InitLeft == Init => LeftInv
<1> SUFFICES ASSUME Init PROVE LeftInv
    OBVIOUS
<1>1. \A j \in Slots : jobs[j].at = "free"
    BY DEF Init, FreeJob
<1>2. boot.at = "recover" /\ polls = {}
    BY DEF Init, BootAt
<1> QED
    BY <1>1, <1>2 DEF LeftInv, TakenDown, StartLooked, StartHasLooked, PollsLook, Offered,
       LeftBehind, Looked

----------------------------------------------------------------------------
(* Steps that are not about what is left *)

\* A call begins, or none does, and no question about leftovers is asked or answered.
LEMMA AlikeLeft ==
    ASSUME LeftInv, CallsAlike, UNCHANGED <<active, held, alive, needsCleanup>>,
           lost => lost', Looked' => Looked,
           \A p \in polls' : p \in polls \/ p.at # "leftovers",
           \A p \in polls : p.at = "leftovers" => p \in polls'
    PROVE  LeftInv'
<1>1. TakenDown'
    BY DEF LeftInv, TakenDown, CallsAlike, BeginsCall
<1>2. StartLooked'
    BY DEF LeftInv, StartLooked, StartHasLooked, CallsAlike, BeginsCall, Between
<1>3. Superseded' <=> Superseded
    BY DEF Superseded, CallsAlike, BeginsCall, Between
<1>4. Underway' <=> Underway
    BY DEF Underway, CallsAlike, BeginsCall, Between
<1>5. PollsLook'
    BY <1>3 DEF LeftInv, PollsLook, PollLooks
<1>6. Offered'
    BY <1>4 DEF LeftInv, Offered, LeftBehind, NoPollLooks
<1> QED
    BY <1>1, <1>2, <1>5, <1>6 DEF LeftInv

LEMMA QuietLeft ==
    ASSUME IInv, OneOperation, LeftInv, Begins \/ BootWatches \/ UNCHANGED vars
    PROVE  LeftInv'
<1>1. CallsAlike
    BY QuietAlike
<1>2. UNCHANGED <<active, held, alive, needsCleanup, lost>>
    BY DEF Begins, Connect, RemoveTunnel, Reconnect, Pause, Resume, Disconnect, Cleanup,
       PollStarts, BootWatches, vars, cardVars, callVars, systemVars
<1>3. Looked' => Looked
    BY DEF Begins, Connect, RemoveTunnel, Reconnect, Pause, Resume, Disconnect, Cleanup,
       PollStarts, BootWatches, vars, callVars, Looked
<1>4. UNCHANGED polls \/ polls' = polls \cup {[conn |-> active, at |-> "stats", ans |-> "none"]}
    BY DEF Begins, Connect, RemoveTunnel, Reconnect, Pause, Resume, Disconnect, Cleanup,
       PollStarts, BootWatches, vars, callVars
<1> QED
    BY <1>1, <1>2, <1>3, <1>4, AlikeLeft

\* A poll that is not one about leftovers, and does not become one.
LEMMA PollGoesOnLeft ==
    ASSUME IInv, OneOperation, LeftInv, NEW p \in polls,
           \/ ControllerStats(p) \/ StatsApply(p) \/ WatchApply(p)
           \/ HungHeals(p) \/ DropLateFailure(p)
    PROVE  LeftInv'
<1> USE DEF IInv
<1>1. CallsAlike
    <2>1. CASE StatsApply(p) \/ WatchApply(p)
        BY <2>1, HealsAlike DEF StatsApply, WatchApply, CallsAlike
    <2>2. CASE HungHeals(p)
        BY <2>2, HealsAlike DEF HungHeals, Heals
    <2>3. CASE DropLateFailure(p) \/ ControllerStats(p)
        BY <2>3 DEF DropLateFailure, ControllerStats, CallsAlike
    <2> QED
        BY <2>1, <2>2, <2>3
<1>2. UNCHANGED <<active, held, alive, needsCleanup, lost, boot>>
    BY DEF StatsApply, WatchApply, HungHeals, DropLateFailure, ControllerStats, cardVars, systemVars
<1>3. /\ \A q \in polls' : q \in polls \/ q.at # "leftovers"
      /\ polls \ {p} \subseteq polls'
    <2>1. CASE ControllerStats(p)
        <3>1. PICK ans : polls' = (polls \ {p}) \cup {[p EXCEPT !.ans = ans]} /\ p.at = "stats"
            BY <2>1 DEF ControllerStats
        <3>2. [p EXCEPT !.ans = ans].at # "leftovers"
            BY <3>1 DEF PollsTyped, Poll
        <3> QED
            BY <3>1, <3>2
    <2>2. CASE polls' = (polls \ {p}) \cup {[p EXCEPT !.at = "watch"]}
        <3>1. [p EXCEPT !.at = "watch"].at # "leftovers"
            BY DEF PollsTyped, Poll
        <3> QED
            BY <2>2, <3>1
    <2>3. CASE polls' = polls \ {p}
        BY <2>3
    <2> QED
        BY <2>1, <2>2, <2>3 DEF StatsApply, WatchApply, HungHeals, DropLateFailure
<1>4. p.at # "leftovers"
    BY DEF StatsApply, WatchApply, HungHeals, DropLateFailure, ControllerStats
<1>5. Looked' => Looked
    BY <1>2 DEF Looked
<1>6. \A q \in polls : q.at = "leftovers" => q \in polls'
    BY <1>3, <1>4
<1> QED
    BY <1>1, <1>2, <1>3, <1>5, <1>6, AlikeLeft

----------------------------------------------------------------------------
(* A death, and the question about what it left *)

\* The daemon of a tunnel that is off the card had a start under way or a poll about it.
LEMMA DaemonDiesLeft == ASSUME IInv, CardInv, LeftInv, DaemonDies PROVE LeftInv'
<1>1. alive /\ ~alive' /\ UNCHANGED <<active, needsCleanup, jobs, polls, boot, held, lost>>
    BY DEF DaemonDies, cardVars, callVars
<1>2. TakenDown' /\ StartLooked'
    BY <1>1 DEF LeftInv, TakenDown, StartLooked, StartHasLooked, Looked
<1>3. PollsLook'
    BY <1>1 DEF LeftInv, PollsLook, PollLooks, Superseded
<1>4. Offered'
    <2> SUFFICES ASSUME LeftBehind', ~Underway' PROVE FALSE
        BY DEF Offered
    <2>1. Certain /\ ~Underway /\ active = NoConn /\ held # None
        BY <1>1 DEF LeftBehind, Looked, Certain, Underway
    <2> QED
        BY <2>1 DEF CardInv, TunnelPlaced, NoConn
<1> QED
    BY <1>2, <1>3, <1>4 DEF LeftInv

LEMMA DeclareDeadLeft ==
    ASSUME IInv, CardInv, LeftInv, NEW p \in polls, DeclareDead(p) PROVE LeftInv'
<1> USE DEF IInv
<1>1. /\ active = p.conn /\ UNCHANGED <<jobs, boot, held, alive, needsCleanup>>
      /\ lost' = (lost \/ p.ans = "hung")
    BY DEF DeclareDead, StillActive
<1>2. ~alive \/ lost'
    BY <1>1 DEF DeclareDead, CardInv, DeadIsDead
<1> DEFINE new == [conn |-> NoConn, at |-> "leftovers", ans |-> "none"]
<1>3. polls' = (polls \ {p}) \cup {new} /\ new.at = "leftovers" /\ new.ans = "none"
    BY DEF DeclareDead
<1> HIDE DEF new
<1>4. TakenDown' /\ StartLooked'
    BY <1>1 DEF LeftInv, TakenDown, StartLooked, StartHasLooked, Looked
<1>5. PollsLook'
    BY <1>1, <1>2, <1>3 DEF LeftInv, PollsLook, PollLooks, Superseded
<1>6. Offered'
    BY <1>3 DEF Offered, LeftBehind, NoPollLooks
<1> QED
    BY <1>4, <1>5, <1>6 DEF LeftInv

LEMMA ControllerLeftoversLeft ==
    ASSUME IInv, LeftInv, NEW p \in polls, ControllerLeftovers(p) PROVE LeftInv'
<1> USE DEF IInv
<1>1. p.at = "leftovers" /\ UNCHANGED <<active, needsCleanup, jobs, boot, held, alive, lost>>
    BY DEF ControllerLeftovers, cardVars, systemVars
<1>2. PICK ans \in {Leftovers, "yes"} : polls' = (polls \ {p}) \cup {[p EXCEPT !.ans = ans]}
    BY DEF ControllerLeftovers
<1>3. [p EXCEPT !.ans = ans].at = "leftovers" /\ [p EXCEPT !.ans = ans].ans = ans
    BY <1>1 DEF PollsTyped, Poll
<1>4. ans \in {"yes", "no"} /\ (ans = "no" => held = None \/ alive)
    BY <1>2 DEF Leftovers
<1>5. TakenDown' /\ StartLooked'
    BY <1>1 DEF LeftInv, TakenDown, StartLooked, StartHasLooked, Looked
<1>6. ~lost => (alive => Superseded)
    BY <1>1 DEF LeftInv, PollsLook, PollLooks
<1>7. PollsLook'
    BY <1>1, <1>2, <1>3, <1>4, <1>6 DEF LeftInv, PollsLook, PollLooks, Superseded
<1>8. Offered'
    BY <1>2, <1>3 DEF Offered, LeftBehind, NoPollLooks
<1> QED
    BY <1>5, <1>7, <1>8 DEF LeftInv

LEMMA LeftoversApplyLeft ==
    ASSUME LeftInv, NEW p \in polls, LeftoversApply(p) PROVE LeftInv'
<1>1. /\ p.at = "leftovers" /\ p.ans # "none"
      /\ needsCleanup' = (p.ans = "yes") /\ polls' = polls \ {p}
      /\ lost => lost'
      /\ UNCHANGED <<active, jobs, boot, held, alive>>
    BY DEF LeftoversApply
<1>2. TakenDown' /\ StartLooked'
    BY <1>1 DEF LeftInv, TakenDown, StartLooked, StartHasLooked, Looked
<1>3. PollsLook'
    BY <1>1 DEF LeftInv, PollsLook, PollLooks, Superseded
<1>4. Offered'
    <2> SUFFICES ASSUME LeftBehind', ~Underway' PROVE p.ans = "yes"
        BY <1>1 DEF Offered
    <2>1. ~lost /\ held # None /\ ~Superseded
        BY <1>1 DEF LeftBehind, Underway, Superseded, Between
    <2> QED
        BY <1>1, <2>1 DEF LeftInv, PollsLook, PollLooks
<1> QED
    BY <1>2, <1>3, <1>4 DEF LeftInv

----------------------------------------------------------------------------
(* The calls *)

\* A start is under way afterwards, the system being as it was.
LEMMA StartGoesOnLeft ==
    ASSUME OneOperation, LeftInv, NEW j \in Slots, jobs[j].at # "free",
           UNCHANGED <<held, alive, boot, polls>>, lost => lost',
           jobs[j].at \in {"up", "retry"} => jobs[j].ans # "ok",
           \A k \in Slots : k # j => jobs'[k] = jobs[k],
           jobs'[j].at \in Between, StartHasLooked(jobs[j])'
    PROVE  LeftInv'
<1>1. \A k \in Slots : k # j => jobs[k].at = "free" /\ jobs'[k].at = "free"
    BY OthersFree
<1>2. TakenDown'
    BY <1>1 DEF TakenDown, Between
<1>3. StartLooked'
    BY <1>1 DEF StartLooked, StartHasLooked
<1>4. ~Superseded
    BY <1>1 DEF Superseded
<1>5. PollsLook'
    BY <1>4 DEF LeftInv, PollsLook, PollLooks
<1>6. Offered'
    BY DEF Offered, Underway
<1> QED
    BY <1>2, <1>3, <1>5, <1>6 DEF LeftInv

\* A call is over: whoever asks about leftovers is right, or marked as late.
LEMMA CallOverLeft ==
    ASSUME OneOperation, LeftInv, NEW j \in Slots, jobs[j].at # "free",
           UNCHANGED <<held, alive, boot, polls>>,
           \A k \in Slots : jobs'[k].at = "free",
           \/ lost' \/ NoPollLooks
           \/ (lost => lost') /\ (jobs[j].at \in {"up", "retry"} => jobs[j].ans # "ok"),
           LeftBehind' => needsCleanup'
    PROVE  LeftInv'
<1>1. TakenDown' /\ StartLooked'
    BY DEF TakenDown, StartLooked, StartHasLooked
<1>2. PollsLook'
    <2>1. CASE lost' \/ NoPollLooks
        BY <2>1 DEF PollsLook, PollLooks, NoPollLooks
    <2>2. CASE (lost => lost') /\ (jobs[j].at \in {"up", "retry"} => jobs[j].ans # "ok")
        <3>1. ~Superseded
            BY <2>2, OthersFree DEF Superseded
        <3> QED
            BY <2>2, <3>1 DEF LeftInv, PollsLook, PollLooks
    <2> QED
        BY <2>1, <2>2
<1>3. Offered'
    BY DEF Offered
<1> QED
    BY <1>1, <1>2, <1>3 DEF LeftInv

\* A call that ends without having touched anything.
LEMMA CallDropsLeft ==
    ASSUME IInv, OneOperation, LeftInv, NEW j \in Slots,
           jobs[j].at \notin Between \cup {"free"}, Ends(j),
           UNCHANGED <<active, held, alive, boot, polls, lost, needsCleanup>>
    PROVE  LeftInv'
<1>1. \A k \in Slots : jobs'[k].at = "free"
    BY EndsSet DEF IInv
<1>2. ~Underway
    BY OthersFree DEF Underway, Between
<1>3. LeftBehind' => needsCleanup'
    BY <1>2 DEF LeftInv, Offered, LeftBehind, NoPollLooks, Looked
<1> QED
    BY <1>1, <1>3, CallOverLeft DEF Between

LEMMA HookLetsGoLeft ==
    ASSUME IInv, OneOperation, LeftInv, NEW j \in Slots, HookLetsGo(j) PROVE LeftInv'
<1> USE DEF IInv
<1> DEFINE job == [at |-> "up", id |-> jobs[j].id, prev |-> active.id, ans |-> "none",
                   was |-> active.id \in shownUp]
<1>1. /\ jobs[j].at = "hook" /\ UNCHANGED <<held, alive, boot, polls, lost>>
      /\ jobs' = [jobs EXCEPT ![j] = job]
    BY DEF HookLetsGo, systemVars
<1>2. job.at = "up"
    OBVIOUS
<1> HIDE DEF job
<1>3. jobs'[j].at = "up" /\ \A k \in Slots : k # j => jobs'[k] = jobs[k]
    BY <1>1, <1>2, JobSet
<1> QED
    BY <1>1, <1>3, StartGoesOnLeft DEF StartHasLooked, Between

LEMMA HookEndsLeft ==
    ASSUME IInv, OneOperation, CardInv, LeftInv, NEW j \in Slots,
           HookLosesTunnel(j) \/ HookRefuses(j)
    PROVE  LeftInv'
<1> USE DEF IInv
<1>1. /\ jobs[j].at = "hook"
      /\ UNCHANGED <<active, held, alive, boot, polls, lost, needsCleanup>>
    BY DEF HookLosesTunnel, HookRefuses, systemVars
<1>2. CASE Ends(j)
    BY <1>1, <1>2, CallDropsLeft DEF Between
<1>3. CASE jobs' = [jobs EXCEPT ![j].at = "refuse"]
    <2>1. /\ jobs'[j].at = "refuse" /\ jobs'[j].ans = jobs[j].ans
          /\ \A k \in Slots : k # j => jobs'[k] = jobs[k] /\ jobs[k].at = "free"
        BY <1>1, <1>3, OthersFree DEF JobsTyped, Job
    <2>2. ~Underway /\ ~Superseded
        BY <1>1, <2>1 DEF Underway, Superseded, Between
    <2>3. TakenDown'
        BY <1>1, <2>1 DEF CardInv, AnswersStand, AnswerStands, TakenDown
    <2>4. StartLooked' /\ PollsLook'
        BY <1>1, <2>1, <2>2 DEF LeftInv, StartLooked, StartHasLooked, PollsLook, PollLooks
    <2>5. Offered'
        BY <1>1, <2>2 DEF LeftInv, Offered, LeftBehind, NoPollLooks, Looked
    <2> QED
        BY <2>3, <2>4, <2>5 DEF LeftInv
<1> QED
    BY <1>2, <1>3 DEF HookLosesTunnel, HookRefuses

\* What `up` brings about is answered with it, or lost.
LEMMA ControllerUpLeft ==
    ASSUME IInv, OneOperation, LeftInv, NEW j \in Slots, ControllerUp(j) PROVE LeftInv'
<1> USE DEF IInv
<1>1. /\ jobs[j].at \in {"up", "retry"} /\ jobs[j].ans = "none"
      /\ UNCHANGED <<boot, polls>>
    BY DEF ControllerUp, Waits, cardVars
<1>2. PICK ans :
        /\ Replies(j, ans)
        /\ \/ UNCHANGED systemVars
           \/ ans = "ok" /\ held' = jobs[j].id /\ lost' = lost
           \/ lost' = TRUE
           \/ held' = None /\ alive' = FALSE /\ lost' = lost
    BY DEF ControllerUp
<1>3. /\ jobs'[j].ans = ans /\ jobs'[j].at = jobs[j].at
      /\ \A k \in Slots : k # j => jobs'[k] = jobs[k] /\ jobs[k].at = "free"
    BY <1>1, <1>2, RepliesSet, OthersFree
<1>4. TakenDown' /\ StartLooked' /\ ~Superseded
    BY <1>1, <1>3 DEF TakenDown, StartLooked, StartHasLooked, Superseded
<1>5. Offered'
    BY <1>1, <1>3 DEF Offered, Underway, Between
<1>6. PollsLook'
    <2>1. CASE UNCHANGED systemVars
        BY <1>1, <1>4, <2>1 DEF LeftInv, PollsLook, PollLooks, systemVars
    <2>2. CASE ans = "ok" /\ lost' = lost
        <3>1. Superseded'
            BY <1>1, <1>3, <2>2 DEF Superseded
        <3> QED
            BY <1>1, <2>2, <3>1 DEF LeftInv, PollsLook, PollLooks
    <2>3. CASE lost' = TRUE
        BY <2>3 DEF PollsLook, PollLooks
    <2>4. CASE held' = None /\ alive' = FALSE /\ lost' = lost
        BY <1>1, <2>4 DEF LeftInv, PollsLook, PollLooks
    <2> QED
        BY <1>2, <2>1, <2>2, <2>3, <2>4
<1> QED
    BY <1>4, <1>5, <1>6 DEF LeftInv

\* A start that has put a connection on the card.
LEMMA StartConnectsLeft ==
    ASSUME IInv, OneOperation, LeftInv, NEW j \in Slots, UpSucceeds(j) \/ PreviousKept(j)
    PROVE  LeftInv'
<1> USE DEF IInv
<1>1. /\ jobs[j].at # "free" /\ Settles(j, TRUE)
      /\ UNCHANGED <<held, alive, boot, polls>>
    BY DEF UpSucceeds, PreviousKept, Answered, systemVars
<1>2. \A k \in Slots : jobs'[k].at = "free"
    BY <1>1, SettlesSet
<1>3. active' # NoConn
    <2>1. jobs[j].id \in Tunnels \/ jobs[j].at \notin {"up", "retry"}
        BY DEF JobsTyped
    <2>2. jobs[j].prev \in Tunnels \/ jobs[j].at # "recover"
        BY DEF JobsTyped
    <2>3. active'.id \in Tunnels
        BY <2>1, <2>2, ConnectsNew DEF UpSucceeds, PreviousKept, Answered
    <2> QED
        BY <2>3, TunnelsAssumption DEF NoConn
<1>4. \/ lost' \/ NoPollLooks
      \/ (lost => lost') /\ (jobs[j].at \in {"up", "retry"} => jobs[j].ans # "ok")
    BY DEF UpSucceeds, PreviousKept, Answered, Asking, NoPollLooks, systemVars
<1>5. LeftBehind' => needsCleanup'
    BY <1>3 DEF LeftBehind
<1> QED
    BY <1>1, <1>2, <1>4, <1>5, CallOverLeft

\* A start that has failed: what is left is asked for when nothing is on the card.
LEMMA StartFailsLeft ==
    ASSUME IInv, OneOperation, LeftInv, NEW j \in Slots, jobs[j].at # "free",
           jobs[j].at \in {"up", "retry"} => jobs[j].ans # "ok",
           UNCHANGED <<active, held, alive, boot, polls, lost>>, Settles(j, active # NoConn)
    PROVE  LeftInv'
<1> USE DEF IInv
<1>1. CASE active # NoConn
    <2>1. \A k \in Slots : jobs'[k].at = "free"
        BY <1>1, SettlesSet
    <2>2. LeftBehind' => needsCleanup'
        BY <1>1 DEF LeftBehind
    <2> QED
        BY <2>1, <2>2, CallOverLeft
<1>2. CASE active = NoConn
    <2>1. /\ jobs'[j].at = "stale" /\ jobs'[j].ans = "none"
          /\ \A k \in Slots : k # j => jobs'[k] = jobs[k]
        BY <1>2, SettlesSet
    <2>2. StartHasLooked(jobs[j])'
        BY <2>1 DEF StartHasLooked
    <2> QED
        BY <2>1, <2>2, StartGoesOnLeft DEF Between
<1> QED
    BY <1>1, <1>2

LEMMA UpGoesOnLeft ==
    ASSUME IInv, OneOperation, LeftInv, NEW j \in Slots,
           UpTriesAgain(j) \/ UpFails(j) \/ ControllerRecover(j) \/ PreviousGone(j)
    PROVE  LeftInv'
<1> USE DEF IInv
<1>1. /\ jobs[j].at \in {"up", "retry", "recover"}
      /\ jobs[j].at \in {"up", "retry"} => jobs[j].ans # "ok"
      /\ UNCHANGED <<active, held, alive, boot, polls>> /\ (lost => lost')
    BY DEF UpTriesAgain, UpFails, ControllerRecover, PreviousGone, Answered, Waits, cardVars,
       systemVars
<1>2. ASSUME NEW place \in {"retry", "recover"}, Moves(j, place) PROVE LeftInv'
    <2>1. jobs'[j].at = place /\ \A k \in Slots : k # j => jobs'[k] = jobs[k]
        BY <1>2, MovesSet
    <2> QED
        BY <1>1, <2>1, StartGoesOnLeft DEF StartHasLooked, Between
<1>3. CASE Settles(j, active # NoConn) /\ UNCHANGED lost
    BY <1>1, <1>3, StartFailsLeft
<1>4. ASSUME NEW ans, jobs[j].at = "recover", Replies(j, ans) PROVE LeftInv'
    <2>1. jobs'[j].at = "recover" /\ \A k \in Slots : k # j => jobs'[k] = jobs[k]
        BY <1>4, RepliesSet
    <2> QED
        BY <1>1, <2>1, StartGoesOnLeft DEF StartHasLooked, Between
<1> QED
    BY <1>2, <1>3, <1>4 DEF UpTriesAgain, UpFails, ControllerRecover, PreviousGone, Waits, systemVars

\* While a start asks what is left, no tunnel runs that the card could not show.
LEMMA ControllerStaleLeft ==
    ASSUME IInv, OneOperation, CardInv, LeftInv, NEW j \in Slots, ControllerStale(j)
    PROVE  LeftInv'
<1> USE DEF IInv
<1>1. jobs[j].at = "stale" /\ UNCHANGED <<active, held, alive, boot, polls>>
    BY DEF ControllerStale, Waits, cardVars
<1>2. PICK ans : Replies(j, ans) /\ \/ ans = Leftovers /\ lost' = lost
                                    \/ lost' = TRUE
    BY DEF ControllerStale
<1>3. jobs'[j].at = "stale" /\ jobs'[j].ans = ans /\ \A k \in Slots : k # j => jobs'[k] = jobs[k]
    BY <1>1, <1>2, RepliesSet
<1>4. ~Certain
    BY <1>1 DEF CardInv, TunnelPlaced, Keeps
<1>5. StartHasLooked(jobs[j])'
    <2> SUFFICES ASSUME ~lost' PROVE /\ ans \in {"none", "yes", "no"}
                                     /\ ans = "no" /\ Looked' => held' = None
        BY <1>3 DEF StartHasLooked
    <2>1. ans = Leftovers /\ ~lost
        BY <1>2
    <2>2. Looked' => boot.at # "recover"
        BY <1>1 DEF Looked
    <2> QED
        BY <1>1, <1>4, <2>1, <2>2 DEF Leftovers, Certain
<1>6. lost => lost'
    BY <1>2
<1> QED
    BY <1>1, <1>3, <1>5, <1>6, StartGoesOnLeft DEF Between

LEMMA StartSettledLeft ==
    ASSUME IInv, OneOperation, LeftInv, NEW j \in Slots, StartSettled(j) PROVE LeftInv'
<1>1. /\ jobs[j].at = "stale" /\ jobs[j].ans # "none" /\ Ends(j)
      /\ UNCHANGED <<active, held, alive, boot, polls, lost>>
    BY DEF StartSettled, Answered, systemVars
<1>2. \A k \in Slots : jobs'[k].at = "free"
    BY <1>1, EndsSet DEF IInv
<1>3. LeftBehind' => needsCleanup'
    <2> SUFFICES ASSUME LeftBehind' PROVE needsCleanup'
        OBVIOUS
    <2>1. ~lost /\ Looked /\ held # None
        BY <1>1 DEF LeftBehind, Looked
    <2>2. jobs[j].ans = "yes"
        BY <1>1, <2>1 DEF LeftInv, StartLooked, StartHasLooked
    <2> QED
        BY <2>2 DEF StartSettled
<1> QED
    BY <1>1, <1>2, <1>3, CallOverLeft

LEMMA ControllerDownLeft ==
    ASSUME IInv, OneOperation, LeftInv, NEW j \in Slots, ControllerDown(j) PROVE LeftInv'
<1> USE DEF IInv
<1>1. /\ jobs[j].at \in {"down", "refuse", "cleanup"}
      /\ UNCHANGED <<active, needsCleanup, boot, polls, lost>>
    BY DEF ControllerDown, Waits, cardVars
<1>2. PICK ans :
        /\ Replies(j, ans)
        /\ \/ held' = None /\ alive' = FALSE
           \/ ans = "failed" /\ UNCHANGED <<held, alive>>
    BY DEF ControllerDown
<1>3. /\ jobs'[j].ans = ans /\ jobs'[j].at = jobs[j].at
      /\ \A k \in Slots : k # j => jobs'[k] = jobs[k] /\ jobs[k].at = "free"
    BY <1>1, <1>2, RepliesSet, OthersFree
<1>4. ~Superseded /\ ~Underway
    BY <1>1, <1>3 DEF Superseded, Underway, Between
<1>5. TakenDown' /\ StartLooked'
    BY <1>1, <1>2, <1>3 DEF TakenDown, StartLooked, StartHasLooked
<1>6. PollsLook'
    BY <1>1, <1>2, <1>4 DEF LeftInv, PollsLook, PollLooks
<1>7. Offered'
    BY <1>1, <1>2, <1>4 DEF LeftInv, Offered, LeftBehind, NoPollLooks, Looked
<1> QED
    BY <1>5, <1>6, <1>7 DEF LeftInv

\* A disconnect or a cleanup that succeeded left nothing behind; one that failed changed nothing.
LEMMA TakenDownLeft ==
    ASSUME IInv, OneOperation, LeftInv, NEW j \in Slots, Disconnected(j) \/ CleanedUp(j)
    PROVE  LeftInv'
<1> USE DEF IInv
<1>1. /\ jobs[j].at \in {"down", "refuse", "cleanup"} /\ Ends(j)
      /\ UNCHANGED <<held, alive, boot, polls>>
    BY DEF Disconnected, CleanedUp, Answered
<1>2. CASE jobs[j].ans = "ok"
    <2>1. \A k \in Slots : jobs'[k].at = "free"
        BY <1>1, EndsSet
    <2>2. held' = None
        BY <1>1, <1>2 DEF LeftInv, TakenDown
    <2>3. lost' \/ NoPollLooks
        BY <1>2 DEF Disconnected, CleanedUp, Asking, NoPollLooks
    <2>4. LeftBehind' => needsCleanup'
        BY <2>2 DEF LeftBehind
    <2> QED
        BY <1>1, <2>1, <2>3, <2>4, CallOverLeft
<1>3. CASE jobs[j].ans # "ok"
    <2>1. UNCHANGED <<active, lost>> /\ needsCleanup' = needsCleanup
        BY <1>3 DEF Disconnected, CleanedUp, CardTyped
    <2> QED
        BY <1>1, <2>1, CallDropsLeft DEF Between
<1> QED
    BY <1>2, <1>3

----------------------------------------------------------------------------
(* init() *)

LEMMA ControllerBootLeft == ASSUME IInv, CardInv, LeftInv, ControllerBoot PROVE LeftInv'
<1> USE DEF IInv
<1>1. UNCHANGED <<active, needsCleanup, jobs, polls, held, alive, lost>>
    BY DEF ControllerBoot, cardVars, systemVars
<1>2. \/ boot.at = "recover" /\ boot'.at = "recover"
      \/ boot.at = "stale" /\ boot'.at = "stale" /\ boot'.ans = Leftovers
    BY DEF ControllerBoot, BootTyped, Boot
<1>3. Looked' => boot.at # "recover" /\ (held = None \/ alive)
    BY <1>2 DEF Looked, Leftovers
<1>4. TakenDown' /\ PollsLook'
    BY <1>1 DEF LeftInv, TakenDown, PollsLook, PollLooks, Superseded
<1>5. StartLooked'
    <2> SUFFICES ASSUME NEW j \in Slots, jobs[j].at = "stale", ~lost
                 PROVE  /\ jobs[j].ans \in {"none", "yes", "no"}
                        /\ jobs[j].ans = "no" /\ Looked' => held = None
        BY <1>1 DEF StartLooked, StartHasLooked
    <2>1. ~Certain
        BY DEF CardInv, TunnelPlaced, Keeps
    <2> QED
        BY <1>3, <2>1 DEF LeftInv, StartLooked, StartHasLooked, Certain
<1>6. Offered'
    BY <1>1, <1>3 DEF Offered, LeftBehind
<1> QED
    BY <1>4, <1>5, <1>6 DEF LeftInv

\* init() goes on, or ends: with a connection, with leftovers that it reports, or marked as
\* too late for what the user did meanwhile.
LEMMA BootGoesOnLeft ==
    ASSUME IInv, OneOperation, LeftInv, BootAdopts \/ BootFindsNone \/ BootFails \/ BootEnds
    PROVE  LeftInv'
<1> USE DEF IInv
<1>1. UNCHANGED <<polls, held, alive>> /\ (lost => lost')
    BY DEF BootAdopts, BootFindsNone, BootFails, BootEnds, cardVars
<1>2. CallsAlike
    <2>1. CASE UNCHANGED jobs
        BY <2>1 DEF CallsAlike
    <2>2. CASE BootEnds /\ ~UNCHANGED jobs
        <3> DEFINE job == [FreeJob EXCEPT !.at = "cleanup"]
        <3>1. job.at \notin Between /\ job.ans = "none"
            BY DEF FreeJob, Between
        <3>2. NotBusy /\ \E j \in Slots : jobs' = [jobs EXCEPT ![j] = job]
            BY <2>2 DEF BootEnds
        <3> HIDE DEF job
        <3> QED
            BY <3>1, <3>2, JobBegins DEF CallsAlike
    <2> QED
        BY <2>1, <2>2 DEF BootAdopts, BootFindsNone, BootFails
<1>3. (Superseded' <=> Superseded) /\ (Underway' <=> Underway)
    BY <1>2 DEF Superseded, Underway, CallsAlike, BeginsCall, Between
<1>4. TakenDown' /\ PollsLook'
    BY <1>1, <1>2, <1>3 DEF LeftInv, TakenDown, PollsLook, PollLooks, CallsAlike, BeginsCall
<1>5. ASSUME NEW j \in Slots, jobs[j].at # "free" PROVE Looked' => Looked \/ lost'
    <2>1. busy
        BY <1>5 DEF OneOperation, Working
    <2>2. lost' \/ ~Looked'
        <3>1. CASE BootAdopts \/ BootEnds
            BY <2>1, <3>1 DEF BootAdopts, BootEnds
        <3>2. CASE BootFindsNone
            BY <3>2 DEF BootFindsNone, BootAt, Looked
        <3>3. CASE BootFails
            BY <3>3 DEF BootFails
        <3> QED
            BY <3>1, <3>2, <3>3
    <2> QED
        BY <2>2
<1>6. StartLooked'
    BY <1>1, <1>2, <1>5 DEF LeftInv, StartLooked, StartHasLooked, CallsAlike, BeginsCall, Between
<1>7. Offered'
    <2> SUFFICES ASSUME LeftBehind', ~Underway' PROVE needsCleanup'
        BY DEF Offered
    <2>1. ~lost' /\ Looked' /\ active' = NoConn
        BY DEF LeftBehind
    <2>2. ~BootAdopts
        <3> SUFFICES ASSUME BootAdopts PROVE FALSE
            OBVIOUS
        <3>1. active'.id \in known
            BY ConnectsNew DEF BootAdopts
        <3> QED
            BY <2>1, <3>1, TunnelsAssumption DEF CardTyped, NoConn
    <2>3. BootEnds
        BY <2>1, <2>2 DEF BootFindsNone, BootFails, BootAt, Looked
    <2>4. boot.ans = "yes" \/ boot.ans = "no"
        BY <2>3 DEF BootEnds, BootTyped, Boot
    <2>5. CASE boot.ans = "yes"
        BY <2>3, <2>5 DEF BootEnds
    <2>6. CASE boot.ans = "no"
        <3>1. Looked /\ UNCHANGED active /\ ~lost
            BY <1>1, <2>1, <2>3, <2>6 DEF Looked, BootEnds
        <3>2. needsCleanup
            BY <1>1, <1>3, <3>1 DEF LeftInv, Offered, LeftBehind, NoPollLooks
        <3> QED
            BY <2>3, <3>2 DEF BootEnds
    <2> QED
        BY <2>4, <2>5, <2>6
<1> QED
    BY <1>4, <1>6, <1>7 DEF LeftInv

----------------------------------------------------------------------------

LEMMA NextLeft == ASSUME IInv, OneOperation, CardInv, LeftInv, [Next]_vars PROVE LeftInv'
<1>1. ASSUME NEW j \in Slots, CallSteps(j) PROVE LeftInv'
    BY <1>1, HookLetsGoLeft, HookEndsLeft, ControllerUpLeft, StartConnectsLeft, UpGoesOnLeft,
       ControllerStaleLeft, StartSettledLeft, ControllerDownLeft, TakenDownLeft DEF CallSteps
<1>2. ASSUME NEW p \in polls, PollSteps(p) PROVE LeftInv'
    BY <1>2, PollGoesOnLeft, DeclareDeadLeft, ControllerLeftoversLeft, LeftoversApplyLeft
       DEF PollSteps
<1>3. CASE BootSteps
    BY <1>3, ControllerBootLeft, BootGoesOnLeft, QuietLeft DEF BootSteps
<1>4. CASE DaemonDies
    BY <1>4, DaemonDiesLeft
<1>5. CASE Begins \/ UNCHANGED vars
    BY <1>5, QuietLeft
<1> QED
    BY <1>1, <1>2, <1>3, <1>4, <1>5 DEF Next, Begins

\* Routes and DNS without a daemon are offered for removal in every interleaving: a death is
\* asked about by the poll that saw it, by the start it interrupted, or by init(), and nobody
\* may leave the card off with the question unasked or its answer overwritten.
THEOREM CleanupOffered == Spec => []LeftoversOffered
<1> DEFINE Inv == IInv /\ OneOperation /\ CardInv /\ LeftInv
<1>1. Init => Inv
    <2>1. Init => OneOperation
        BY DEF Init, OneOperation, Working, FreeJob
    <2> QED
        BY <2>1, InitIInv, InitCard, InitLeft
<1>2. Inv /\ [Next]_vars => Inv'
    BY NextKeeps, NextOne, NextCard, NextLeft
<1>3. Inv => LeftoversOffered
    BY LeftInvOffers
<1> QED
    BY <1>1, <1>2, <1>3, PTL DEF Spec

----------------------------------------------------------------------------
(* A master key and its servers (SenSync)                                   *)

(* The key's calls *)

Refreshing == {"poll", "hook", "stale"}
Afterwards == {"lapse", "suspend", "down", "lapsed", "back", "reconnect"}
Owns == UNION {[D -> [id : Ids, psk : Nat]] : D \in SUBSET Servers}
CallRecords ==
    [kind : S!Kinds \cup {Nobody},
     pc : {"idle", "register", "wait", "rekey", "write", "sweep", "takeoff", "revoke", "revoked"} \cup Afterwards,
     retry : BOOLEAN, dead : BOOLEAN, at : Ids \cup {Nobody}, snap : SUBSET Ids, own : Owns, rev : Nat,
     psk : Nat, key : Nat, keyed : BOOLEAN, ran : BOOLEAN, set : SUBSET Servers, van : SUBSET Servers,
     todo : SUBSET (Ids \cup Servers), made : Owns, half : Ids \cup {Nobody},
     end : {"none", "same", "pending", "applied", "rekeyed"}]
SubRecords == [status : {"absent", "ok", "offline", "revoked", "removed"}, rev : Nat, own : Owns]
Managers == [active : Ids \cup {Nobody}, ph : {"idle", "hook", "up", "down"}, to : Ids \cup {Nobody},
             prev : Ids \cup {Nobody}, by : Exchanges \cup {Nobody}]
Answers == [rev : Nat, set : SUBSET Servers, psk : Nat, key : Nat, rekey : BOOLEAN, gone : BOOLEAN]
SyncTyped ==
    /\ sub \in SubRecords /\ listed \subseteq Ids
    /\ secrets \in [Ids -> [key : Nat, psk : Nat]]
    /\ queue \in Seq(Exchanges) /\ ops \in [Exchanges -> CallRecords]
    /\ mgr \in Managers /\ srv \in Answers /\ calls \in Nat /\ faults \in Nat

\* Which calls stand where, and what they hold there.
Held(c) ==
    /\ c.pc = "register" => c.kind = "import"
    /\ c.pc = "wait" => c.kind \in Refreshing \cup {"devices", "remove"}
    /\ c.pc \in {"rekey", "sweep"} => c.kind \in Refreshing
    /\ c.pc = "write" => c.kind \in Refreshing \cup {"import"}
    /\ c.pc \in {"revoke", "revoked"} => c.kind \in Refreshing \cup {"devices"}
    /\ c.pc = "takeoff" => c.kind \in Refreshing \cup {"devices", "remove", "import"}
    /\ c.pc \in Afterwards => c.kind \in {"poll", "stale"}
    /\ c.pc \notin {"rekey", "write"} \/ c.kind = "import" => c.own = <<>>
    /\ c.pc \notin {"write", "takeoff"} => c.made = <<>>
    /\ c.pc \notin {"write", "sweep", "takeoff"} => c.half = Nobody
    /\ c.keyed => c.pc = "write" /\ c.kind # "import"
    /\ c.pc \in Afterwards \cup {"idle"} \/ (c.pc = "wait" /\ c.kind \in Refreshing) => c.snap = {}
\* The key that is about to be written is a key.
KeyInHand(c) ==
    c.pc = "write" =>
        /\ c.keyed \/ c.kind = "import" => c.key # 0
        /\ c.key # 0 \/ \A s \in c.todo : s \in DOMAIN c.own /\ c.own[s].psk = c.psk
CallsHeld == \A sl \in Exchanges : Held(ops[sl]) /\ KeyInHand(ops[sl])

\* A call that has the key's turn.
HasTurn(c) ==
    /\ c.pc \in {"rekey", "write", "sweep", "takeoff", "revoke", "revoked"}
    /\ c.kind \in Refreshing \cup {"remove"}
Turns ==
    /\ \A i \in 1 .. Len(queue) : ops[queue[i]].pc = "wait" \/ (HasTurn(ops[queue[i]]) /\ i = 1)
    /\ \A i, j \in 1 .. Len(queue) : queue[i] = queue[j] => i = j
    /\ \A sl \in Exchanges : HasTurn(ops[sl]) => queue # <<>> /\ queue[1] = sl
Imports(c) == c.pc \in {"register", "write", "takeoff"} /\ c.kind = "import"
Absent == sub.status = "absent"
ImportIsAlone ==
    \A sl \in Exchanges :
        /\ Imports(ops[sl]) => Absent /\ \A o \in Exchanges \ {sl} : ops[o].pc = "idle"
        /\ Absent => ops[sl].pc = "idle" \/ Imports(ops[sl])

\* The cards that a call has to do with, but those it is making.
NamedBy(c) ==
    S!CardsOf(c.own) \cup c.snap \cup (IF c.pc \in {"sweep", "takeoff"} THEN c.todo \cup ({c.half} \cap Ids) ELSE {})
\* What a call is making is nobody else's, and is what it says.
Making(c) ==
    /\ S!CardsOf(c.made) \cap S!OwnIds = {}
    /\ c.todo \subseteq c.set /\ DOMAIN c.made = (c.set \ c.todo) \ DOMAIN c.own
    /\ \A s \in DOMAIN c.made :
          /\ c.made[s].psk = c.psk /\ secrets[c.made[s].id].psk = c.psk
          /\ c.made[s].id \in listed \/ c.made[s].id = c.half
    /\ c.half # Nobody => c.half \in S!CardsOf(c.made) \ listed /\ secrets[c.half] # S!NoKeys
CardsMade ==
    \A sl \in Exchanges : ops[sl].pc = "write" =>
        /\ Making(ops[sl])
        /\ \A o \in Exchanges : S!CardsOf(ops[sl].made) \cap NamedBy(ops[o]) = {}
CardsTaken == \A sl \in Exchanges : ops[sl].pc \in {"sweep", "takeoff"} => ops[sl].half \notin listed

\* While it has the turn, what it has copied is so.
CopyOf(c) ==
    /\ c.pc \in {"rekey", "write"} /\ S!On => c.own = sub.own
    /\ c.pc = "write" =>
          /\ c.rev = srv.rev /\ c.psk = srv.psk /\ c.set = srv.set
          /\ S!On => sub.rev < srv.rev
          /\ S!On => \A s \in (DOMAIN c.own \cap c.set) \ c.todo :
                       c.own[s].id \in listed => secrets[c.own[s].id].psk = c.psk
Copied == \A sl \in Exchanges : CopyOf(ops[sl])
Numbers ==
    /\ srv.psk <= srv.rev
    /\ S!On => sub.rev <= srv.rev /\ \A s \in DOMAIN sub.own : sub.own[s].psk <= srv.psk
\* The record never claims a preshared key that a card does not have.
HasPsk(x) == x \in listed => secrets[x].psk = srv.psk
Claims == S!On => \A s \in DOMAIN sub.own : sub.own[s].psk = srv.psk => HasPsk(sub.own[s].id)
Current == S!On /\ sub.rev = srv.rev => \A s \in DOMAIN sub.own \cap srv.set : HasPsk(sub.own[s].id)
\* Without a fault a server without its card is being taken off, or swept.
Missing ==
    S!On /\ faults = 0 =>
        \/ \E sl \in Exchanges : ops[sl].pc = "takeoff"
        \/ \A x \in S!OwnIds \ listed : \E sl \in Exchanges : ops[sl].pc = "sweep" /\ x \in ops[sl].snap
SyncInv ==
    /\ SyncTyped /\ CallsHeld /\ Turns /\ ImportIsAlone /\ CardsMade /\ CardsTaken
    /\ Copied /\ Numbers /\ Claims /\ Current /\ Missing /\ ListedHasKeys

LEMMA LeastNumber ==
  ASSUME NEW T \in SUBSET Nat, T # {}
  PROVE  \E x \in T : \A y \in T : x <= y
<1> DEFINE R == OpToRel(<, Nat)
<1>1. IsWellFoundedOn(R, Nat)
  BY NatLessThanWellFounded
<1>2. \A x, y \in Nat : <<y, x>> \in R <=> y < x
  BY DEF OpToRel
<1> HIDE DEF R
<1>3. PICK x \in T : \A y \in T : ~ (<<y, x>> \in R)
  BY <1>1, WFMin
<1>4. x \in Nat /\ \A y \in T : y \in Nat
  OBVIOUS
<1>5. \A y \in T : ~ (y < x)
  BY <1>2, <1>3, <1>4
<1> QED
  BY <1>4, <1>5

LEMMA OwnsHave ==
  ASSUME NEW f
  PROVE  f \in Owns <=> DOMAIN f \subseteq Servers /\ f \in [DOMAIN f -> [id : Ids, psk : Nat]]
BY DEF Owns

LEMMA NoOwns == <<>> \in Owns /\ DOMAIN <<>> = {} /\ S!CardsOf(<<>>) = {}
<1>1. DOMAIN <<>> = {} /\ <<>> \in [{} -> [id : Ids, psk : Nat]]
  OBVIOUS
<1> QED
  BY <1>1, OwnsHave DEF S!CardsOf

LEMMA IsNoOwns ==
  ASSUME NEW f \in Owns, DOMAIN f = {}
  PROVE  f = <<>>
<1>1. f \in [{} -> [id : Ids, psk : Nat]]
  BY OwnsHave
<1> QED
  BY <1>1

LEMMA CardsAre ==
  ASSUME NEW f \in Owns
  PROVE  S!CardsOf(f) \subseteq Ids /\ \A s \in DOMAIN f : f[s].id \in Ids /\ f[s].psk \in Nat /\ f[s].id \in S!CardsOf(f)
BY OwnsHave DEF S!CardsOf

LEMMA IdleIs ==
  /\ S!Idle \in CallRecords /\ S!Idle.pc = "idle" /\ S!Idle.snap = {} /\ S!Idle.own = <<>>
  /\ S!Idle.made = <<>> /\ S!Idle.half = Nobody /\ ~S!Idle.keyed
<1>1. <<>> \in Owns
  BY NoOwns
<1> QED
  BY <1>1 DEF S!Idle, CallRecords, S!Kinds, Afterwards

\* A call that has let its turn go, or has none: it names nothing.
Blank(c) == c \in CallRecords /\ Held(c) /\ c.pc \in Afterwards \cup {"idle"}

LEMMA IdleIsBlank == Blank(S!Idle)
BY IdleIs DEF Blank, Held, Afterwards, Refreshing

LEMMA BlankNames ==
  ASSUME NEW c, Blank(c)
  PROVE  NamedBy(c) = {} /\ ~HasTurn(c) /\ ~Imports(c)
<1>1. c.own = <<>> /\ c.snap = {}
  BY DEF Blank, Held, Afterwards
<1> QED
  BY <1>1, NoOwns DEF NamedBy, Blank, Held, HasTurn, Imports, Afterwards

\* Two calls of the key never work on it together.
Works(c) == HasTurn(c) \/ Imports(c)

LEMMA WorksWhen ==
  ASSUME NEW c, Held(c), c.pc \in {"rekey", "write", "sweep"}
  PROVE  Works(c)
BY DEF Held, Works, HasTurn, Imports, Refreshing

LEMMA OneWorks ==
  ASSUME Turns, ImportIsAlone, NEW sl \in Exchanges, NEW o \in Exchanges, Works(ops[sl]), Works(ops[o])
  PROVE  sl = o
<1>1. CASE Imports(ops[sl]) /\ sl # o
  <2>1. ops[o].pc = "idle"
    BY <1>1 DEF ImportIsAlone
  <2> QED
    BY <2>1 DEF Works, HasTurn, Imports
<1>2. CASE Imports(ops[o]) /\ sl # o
  <2>1. ops[sl].pc = "idle"
    BY <1>2 DEF ImportIsAlone
  <2> QED
    BY <2>1 DEF Works, HasTurn, Imports
<1>3. CASE HasTurn(ops[sl]) /\ HasTurn(ops[o])
  BY <1>3 DEF Turns
<1> QED
  BY <1>1, <1>2, <1>3 DEF Works

(* The turns *)

LEMMA TurnsSame ==
  ASSUME SyncTyped, Turns, NEW sl \in Exchanges, NEW c \in CallRecords,
         ops' = [ops EXCEPT ![sl] = c], queue' = queue,
         IF HasTurn(c) THEN S!Turn(sl) ELSE ops[sl].pc # "wait" /\ ~HasTurn(ops[sl])
  PROVE  Turns' /\ queue' \in Seq(Exchanges)
<1> USE DEF SyncTyped
<1>1. \A o \in Exchanges : ops'[o] = IF o = sl THEN c ELSE ops[o]
  OBVIOUS
<1>2. \A i \in 1 .. Len(queue) : queue[i] \in Exchanges
  OBVIOUS
<1>3. CASE HasTurn(c)
  <2>1. queue # <<>> /\ queue[1] = sl /\ 1 \in 1 .. Len(queue)
    BY <1>3 DEF S!Turn
  <2>2. \A i \in 1 .. Len(queue) : i # 1 => queue[i] # sl
    BY <2>1 DEF Turns
  <2> QED
    BY <1>1, <1>2, <1>3, <2>1, <2>2 DEF Turns
<1>4. CASE ~HasTurn(c)
  <2>1. \A i \in 1 .. Len(queue) : queue[i] # sl
    BY <1>4 DEF Turns
  <2> QED
    BY <1>1, <1>2, <1>4, <2>1 DEF Turns
<1> QED
  BY <1>3, <1>4

LEMMA TurnsAppended ==
  ASSUME SyncTyped, Turns, NEW sl \in Exchanges, NEW c \in CallRecords,
         ops' = [ops EXCEPT ![sl] = c], queue' = Append(queue, sl),
         c.pc = "wait", ops[sl].pc # "wait", ~HasTurn(ops[sl])
  PROVE  Turns' /\ queue' \in Seq(Exchanges)
<1> USE DEF SyncTyped
<1>1. \A o \in Exchanges : ops'[o] = IF o = sl THEN c ELSE ops[o]
  OBVIOUS
<1>2. \A i \in 1 .. Len(queue) : queue[i] \in Exchanges /\ queue[i] # sl
  BY DEF Turns
<1>3. /\ Len(queue') = Len(queue) + 1 /\ queue'[Len(queue) + 1] = sl /\ queue' \in Seq(Exchanges)
      /\ \A i \in 1 .. Len(queue) : queue'[i] = queue[i]
      /\ queue' # <<>> /\ Len(queue) \in Nat /\ (queue # <<>> => Len(queue) > 0)
  <2>1. queue \in Seq(Exchanges) /\ queue' = Append(queue, sl)
    OBVIOUS
  <2>2. Len(queue') = Len(queue) + 1 /\ queue' \in Seq(Exchanges) /\ Len(queue) \in Nat
    BY <2>1
  <2>3. queue'[Len(queue) + 1] = sl /\ \A i \in 1 .. Len(queue) : queue'[i] = queue[i]
    BY <2>1
  <2>4. queue # <<>> => Len(queue) > 0
    BY <2>1
  <2>5. queue' # <<>>
    BY <2>2
  <2> QED
    BY <2>2, <2>3, <2>4, <2>5
<1>4. ~HasTurn(c)
  BY DEF HasTurn
<1>5. \A i \in 1 .. Len(queue') : ops'[queue'[i]].pc = "wait" \/ (HasTurn(ops'[queue'[i]]) /\ i = 1)
  BY <1>1, <1>2, <1>3 DEF Turns
<1>6. \A i, j \in 1 .. Len(queue') : queue'[i] = queue'[j] => i = j
  BY <1>2, <1>3 DEF Turns
<1>7. \A o \in Exchanges : HasTurn(ops'[o]) => queue' # <<>> /\ queue'[1] = o
  BY <1>1, <1>3, <1>4 DEF Turns
<1> QED
  BY <1>3, <1>5, <1>6, <1>7 DEF Turns

LEMMA TurnsUnlocked ==
  ASSUME SyncTyped, Turns, NEW sl \in Exchanges, NEW c \in CallRecords,
         ops' = [ops EXCEPT ![sl] = c], S!Unlock(sl), ~HasTurn(c),
         ops[sl].pc = "wait" => S!Turn(sl)
  PROVE  Turns' /\ queue' \in Seq(Exchanges)
<1>1. CASE S!Turn(sl)
  <2> USE DEF SyncTyped
  <2>1. queue # <<>> /\ queue[1] = sl /\ 1 \in 1 .. Len(queue) /\ queue' = Tail(queue)
    BY <1>1 DEF S!Turn, S!Unlock
  <2>2. \A i \in 1 .. Len(queue) : queue[i] \in Exchanges /\ (i # 1 => queue[i] # sl)
    BY <2>1 DEF Turns
  <2>3. /\ Len(queue) \in Nat /\ Len(queue') = Len(queue) - 1 /\ queue' \in Seq(Exchanges)
        /\ \A i \in 1 .. Len(queue') : queue'[i] = queue[i + 1] /\ i + 1 \in 1 .. Len(queue)
    BY <2>1
  <2>4. \A o \in Exchanges : ops'[o] = IF o = sl THEN c ELSE ops[o]
    OBVIOUS
  <2>5. \A i \in 1 .. Len(queue') : ops'[queue'[i]].pc = "wait" \/ (HasTurn(ops'[queue'[i]]) /\ i = 1)
    BY <2>2, <2>3, <2>4 DEF Turns
  <2>6. \A i, j \in 1 .. Len(queue') : queue'[i] = queue'[j] => i = j
    BY <2>3 DEF Turns
  <2>7. \A o \in Exchanges : ~HasTurn(ops'[o])
    BY <2>1, <2>4 DEF Turns
  <2> QED
    BY <2>3, <2>5, <2>6, <2>7 DEF Turns
<1>2. CASE ~S!Turn(sl)
  <2>1. ~HasTurn(ops[sl]) /\ ops[sl].pc # "wait" /\ queue' = queue
    BY <1>2 DEF Turns, S!Turn, S!Unlock, SyncTyped
  <2> QED
    BY <2>1, TurnsSame
<1> QED
  BY <1>1, <1>2

(* A step that gives one call its next place *)

\* The record keeps its servers or loses some; what is in the key's turn may rely on them.
SubGoes(sl) ==
    /\ sub' \in SubRecords /\ (Absent' <=> Absent)
    /\ S!On' => S!On /\ sub'.rev = sub.rev /\ (sub'.own = sub.own \/ Works(ops[sl]))
    /\ DOMAIN sub'.own \subseteq DOMAIN sub.own /\ \A s \in DOMAIN sub'.own : sub'.own[s] = sub.own[s]
SubStays == sub' \in SubRecords /\ sub'.rev = sub.rev /\ sub'.own = sub.own /\ (S!On' <=> S!On) /\ (Absent' <=> Absent)
Elsewhere == mgr' \in Managers /\ calls' \in Nat /\ faults' \in Nat
\* A key that the server takes is one more revision: no other call of the key is at work then.
SrvGoes(sl) ==
    /\ srv' \in Answers /\ srv'.psk = srv.psk /\ srv'.set = srv.set
    /\ srv'.rev = srv.rev \/ (srv'.rev = srv.rev + 1 /\ Works(ops[sl]))

LEMMA StaysGoes ==
  ASSUME SubStays, NEW sl
  PROVE  SubGoes(sl)
BY DEF SubStays, SubGoes

LEMMA StaysSame ==
  ASSUME SyncTyped, sub' = sub
  PROVE  SubStays
BY DEF SubStays, SyncTyped, S!On, Absent

LEMMA NotRecognisedStays ==
  ASSUME SyncTyped, S!NotRecognised
  PROVE  SubStays
BY DEF SubStays, SyncTyped, S!On, Absent, S!NotRecognised, SubRecords

LEMMA UnreachedStays ==
  ASSUME SyncTyped, NEW cards, S!Unreached(cards)
  PROVE  SubStays
BY DEF SubStays, SyncTyped, S!On, Absent, S!Unreached, SubRecords

LEMMA MissingKept ==
  ASSUME SyncTyped, Missing, NEW sl \in Exchanges, NEW c \in CallRecords, ops' = [ops EXCEPT ![sl] = c],
         listed' = listed, S!OwnIds' \subseteq S!OwnIds, S!On' => S!On, faults' = 0 => faults = 0,
         ops[sl].pc \in {"sweep", "takeoff"} /\ S!On' => c.pc = ops[sl].pc /\ ops[sl].snap \subseteq c.snap
  PROVE  Missing'
<1> SUFFICES ASSUME S!On', faults' = 0
             PROVE  \/ \E o \in Exchanges : ops'[o].pc = "takeoff"
                    \/ \A x \in S!OwnIds' \ listed : \E o \in Exchanges : ops'[o].pc = "sweep" /\ x \in ops'[o].snap
  BY DEF Missing
<1>1. \A o \in Exchanges : ops'[o] = IF o = sl THEN c ELSE ops[o]
  BY DEF SyncTyped
<1>2. CASE \E o \in Exchanges : ops[o].pc = "takeoff"
  BY <1>1, <1>2
<1>3. CASE \A x \in S!OwnIds \ listed : \E o \in Exchanges : ops[o].pc = "sweep" /\ x \in ops[o].snap
  BY <1>1, <1>3
<1> QED
  BY <1>2, <1>3 DEF Missing

LEMMA Stepped ==
  ASSUME SyncInv, NEW sl \in Exchanges, NEW c \in CallRecords, Held(c), c.pc # "write",
         ops' = [ops EXCEPT ![sl] = c], UNCHANGED <<listed, secrets>>, queue' \in Seq(Exchanges),
         Turns', Missing', SubGoes(sl), Elsewhere, SrvGoes(sl),
         Imports(c) => Absent /\ \A o \in Exchanges \ {sl} : ops[o].pc = "idle",
         Absent => c.pc = "idle" \/ Imports(c),
         c.pc = "rekey" /\ S!On' => c.own = sub'.own,
         NamedBy(c) \subseteq NamedBy(ops[sl]) \cup S!OwnIds \/ Works(ops[sl]),
         c.pc \in {"sweep", "takeoff"} => c.half \notin listed
  PROVE  SyncInv'
<1>1. \A o \in Exchanges : ops'[o] = IF o = sl THEN c ELSE ops[o]
  BY DEF SyncInv, SyncTyped
<1>2. \A o \in Exchanges : ops'[o].pc = "write" => o # sl /\ ops'[o] = ops[o] /\ Works(ops[o])
  BY <1>1, WorksWhen DEF SyncInv, CallsHeld
<1>3. S!OwnIds' \subseteq S!OwnIds
  BY DEF SubGoes, S!OwnIds, S!CardsOf
<1>4. SyncTyped'
  BY <1>1 DEF SyncInv, SyncTyped, SubGoes, Elsewhere, SrvGoes
<1>5. CallsHeld'
  BY <1>1 DEF SyncInv, CallsHeld, KeyInHand
<1>6. ImportIsAlone'
  BY <1>1 DEF SyncInv, ImportIsAlone, SubGoes, Imports
<1>7. CardsMade'
  <2> SUFFICES ASSUME NEW o \in Exchanges, ops'[o].pc = "write"
               PROVE  /\ Making(ops[o])'
                      /\ \A p \in Exchanges : S!CardsOf(ops[o].made)' \cap NamedBy(ops[p])' = {}
    BY DEF CardsMade
  <2>1. o # sl /\ ops'[o] = ops[o] /\ Works(ops[o]) /\ ops[o].pc = "write"
    BY <1>2
  <2>2. Making(ops[o]) /\ \A p \in Exchanges : S!CardsOf(ops[o].made) \cap NamedBy(ops[p]) = {}
    BY <2>1 DEF SyncInv, CardsMade
  <2>3. Making(ops[o])'
    BY <1>3, <2>1, <2>2 DEF Making, S!NoKeys, S!CardsOf
  <2>4. ~Works(ops[sl])
    BY <2>1, OneWorks DEF SyncInv
  <2>5. S!CardsOf(ops[o].made) \cap NamedBy(c) = {}
    BY <2>2, <2>4 DEF Making
  <2>6. S!CardsOf(ops[o].made)' = S!CardsOf(ops[o].made)
    BY <2>1 DEF S!CardsOf
  <2>7. \A p \in Exchanges : NamedBy(ops[p])' = IF p = sl THEN NamedBy(c) ELSE NamedBy(ops[p])
    BY <1>1 DEF NamedBy, S!CardsOf
  <2> QED
    BY <2>2, <2>3, <2>5, <2>6, <2>7
<1>8. CardsTaken'
  BY <1>1 DEF SyncInv, CardsTaken
<1>9. Copied'
  <2> SUFFICES ASSUME NEW o \in Exchanges, o # sl
               PROVE  CopyOf(ops[o])'
    BY <1>1 DEF Copied, CopyOf
  <2>1. ops'[o] = ops[o] /\ CopyOf(ops[o])
    BY <1>1 DEF SyncInv, Copied
  <2>2. CASE ops[o].pc \in {"rekey", "write"}
    <3>1. Works(ops[o])
      BY <2>2, WorksWhen DEF SyncInv, CallsHeld
    <3>2. (S!On' => S!On /\ sub'.own = sub.own /\ sub'.rev = sub.rev) /\ srv'.rev = srv.rev
      BY <3>1, OneWorks DEF SyncInv, SubGoes, SrvGoes
    <3> QED
      BY <2>1, <3>2 DEF CopyOf, SrvGoes
  <2> QED
    BY <2>1, <2>2 DEF CopyOf
<1>10. sub.rev \in Nat /\ srv.rev \in Nat /\ srv.psk \in Nat
  BY DEF SyncInv, SyncTyped, SubRecords, Answers
<1>11. Numbers'
  BY <1>10 DEF SyncInv, Numbers, SubGoes, SrvGoes
<1>12. Claims'
  BY DEF SyncInv, Claims, HasPsk, SubGoes, SrvGoes
<1>13. Current'
  BY <1>10 DEF SyncInv, Numbers, Current, HasPsk, SubGoes, SrvGoes
<1>14. ListedHasKeys'
  BY DEF SyncInv, ListedHasKeys, S!ListedHasKeys, S!NoKeys
<1> QED
  BY <1>4, <1>5, <1>6, <1>7, <1>8, <1>9, <1>11, <1>12, <1>13, <1>14 DEF SyncInv

\* The commonest of them: the record stays, and the call neither sweeps nor takes off.
LEMMA Moved ==
  ASSUME SyncInv, NEW sl \in Exchanges, NEW c \in CallRecords, Held(c), c.pc # "write",
         ops' = [ops EXCEPT ![sl] = c], UNCHANGED <<listed, secrets>>, queue' \in Seq(Exchanges),
         Turns', SubStays, Elsewhere, faults' = 0 => faults = 0, SrvGoes(sl),
         ops[sl].pc \notin {"sweep", "takeoff"} \/ ~S!On,
         Imports(c) => Absent /\ \A o \in Exchanges \ {sl} : ops[o].pc = "idle",
         Absent => c.pc = "idle" \/ Imports(c),
         c.pc = "rekey" /\ S!On => c.own = sub.own,
         NamedBy(c) \subseteq NamedBy(ops[sl]) \cup S!OwnIds \/ Works(ops[sl]),
         c.pc \in {"sweep", "takeoff"} => c.half \notin listed
  PROVE  SyncInv'
<1>1. S!OwnIds' = S!OwnIds
  BY DEF SubStays, S!OwnIds, S!CardsOf
<1>2. Missing'
  BY <1>1, MissingKept DEF SyncInv, SubStays
<1>3. SubGoes(sl) /\ (S!On' <=> S!On) /\ sub'.own = sub.own
  BY StaysGoes DEF SubStays
<1> QED
  BY <1>2, <1>3, Stepped

\* A call begins to write.
LEMMA StartsToWrite ==
  ASSUME SyncInv, NEW sl \in Exchanges, NEW c \in CallRecords, Held(c), KeyInHand(c), c.pc = "write",
         ops' = [ops EXCEPT ![sl] = c], UNCHANGED <<sub, listed, secrets, mgr, queue, calls, faults>>,
         Turns', srv' \in Answers, srv'.rev \in {srv.rev, srv.rev + 1}, srv'.psk = srv.psk, srv'.set = srv.set,
         c.made = <<>>, c.half = Nobody, c.todo = srv.set, c.set = srv.set, c.rev = srv'.rev, c.psk = srv.psk,
         \A o \in Exchanges \ {sl} : ~Works(ops[o]), ops[sl].pc \notin {"sweep", "takeoff"},
         Imports(c) => Absent /\ \A o \in Exchanges \ {sl} : ops[o].pc = "idle", Absent => Imports(c),
         S!On => c.own = sub.own /\ sub.rev < srv'.rev
  PROVE  SyncInv'
<1>1. \A o \in Exchanges : ops'[o] = IF o = sl THEN c ELSE ops[o]
  BY DEF SyncInv, SyncTyped
<1>2. S!OwnIds' = S!OwnIds /\ (S!On' <=> S!On) /\ (Absent' <=> Absent)
  BY DEF S!OwnIds, S!CardsOf, S!On, Absent
<1>3. \A o \in Exchanges \ {sl} : ops[o].pc \notin {"rekey", "write", "sweep"}
  BY WorksWhen DEF SyncInv, CallsHeld
<1>4. SyncTyped'
  BY <1>1 DEF SyncInv, SyncTyped
<1>5. CallsHeld'
  BY <1>1 DEF SyncInv, CallsHeld, KeyInHand
<1>6. ImportIsAlone'
  BY <1>1, <1>2 DEF SyncInv, ImportIsAlone, Imports
<1>7. CardsMade'
  <2>1. S!CardsOf(c.made) = {} /\ DOMAIN c.made = {}
    BY NoOwns
  <2>2. Making(ops[sl])'
    BY <1>1, <2>1 DEF Making
  <2>3. S!CardsOf(ops[sl].made)' = {}
    BY <1>1, <2>1 DEF S!CardsOf
  <2> QED
    BY <1>1, <1>3, <2>2, <2>3 DEF CardsMade
<1>8. CardsTaken'
  BY <1>1 DEF SyncInv, CardsTaken
<1>9. Copied'
  <2>1. CopyOf(ops[sl])'
    BY <1>1, <1>2 DEF CopyOf
  <2> QED
    BY <1>1, <1>3, <2>1 DEF Copied, CopyOf
<1>10. srv.rev \in Nat /\ srv'.rev \in Nat /\ sub.rev \in Nat
  BY DEF SyncInv, SyncTyped, Answers, SubRecords
<1>11. Numbers'
  <2>1. srv.psk \in Nat
    BY DEF SyncInv, SyncTyped, Answers
  <2> QED
    BY <1>2, <1>10, <2>1 DEF SyncInv, Numbers
<1>12. Claims'
  BY <1>2 DEF SyncInv, Claims, HasPsk
<1>13. Current'
  BY <1>2, <1>10 DEF Current
<1>14. Missing'
  BY <1>2, MissingKept DEF SyncInv
<1>15. ListedHasKeys'
  BY DEF SyncInv, ListedHasKeys, S!ListedHasKeys, S!NoKeys
<1>16. Turns'
  OBVIOUS
<1> QED
  BY <1>4, <1>5, <1>6, <1>7, <1>8, <1>9, <1>11, <1>12, <1>13, <1>14, <1>15, <1>16 DEF SyncInv

(* The tunnel manager and the server *)

LEMMA AsideKept ==
  ASSUME SyncInv, UNCHANGED <<sub, listed, secrets, queue, ops, srv>>, Elsewhere, faults' = 0 => faults = 0
  PROVE  SyncInv'
<1>1. S!OwnIds' = S!OwnIds /\ (S!On' <=> S!On) /\ (Absent' <=> Absent)
  BY DEF S!OwnIds, S!CardsOf, S!On, Absent
<1>2. SyncTyped' /\ CallsHeld' /\ Turns'
  BY DEF SyncInv, SyncTyped, Elsewhere, CallsHeld, Turns
<1>3. ImportIsAlone'
  BY <1>1 DEF SyncInv, ImportIsAlone
<1>4. CardsMade'
  <2>1. \A sl \in Exchanges : /\ S!CardsOf(ops[sl].made)' = S!CardsOf(ops[sl].made) /\ NamedBy(ops[sl])' = NamedBy(ops[sl])
                              /\ (Making(ops[sl])' <=> Making(ops[sl]))
    BY <1>1 DEF NamedBy, S!CardsOf, Making, S!NoKeys
  <2> QED
    BY <2>1 DEF SyncInv, CardsMade
<1>5. CardsTaken' /\ Copied'
  BY <1>1 DEF SyncInv, CardsTaken, Copied, CopyOf
<1>6. Numbers' /\ Claims' /\ Current'
  BY <1>1 DEF SyncInv, Numbers, Claims, Current, HasPsk
<1>7. Missing'
  BY <1>1 DEF SyncInv, Missing
<1>8. ListedHasKeys'
  BY DEF SyncInv, ListedHasKeys, S!ListedHasKeys, S!NoKeys
<1> QED
  BY <1>2, <1>3, <1>4, <1>5, <1>6, <1>7, <1>8 DEF SyncInv

LEMMA ManagerKept ==
  ASSUME SyncInv, S!HookEnds \/ S!UpEnds \/ S!UserDisconnects \/ S!DownEnds
  PROVE  SyncInv'
<1>1. mgr \in Managers /\ calls \in Nat /\ faults \in Nat
  BY DEF SyncInv, SyncTyped
<1>2. UNCHANGED <<sub, listed, secrets, queue, ops, srv, calls, faults>>
  BY DEF S!HookEnds, S!UpEnds, S!UserDisconnects, S!DownEnds, S!diskVars
<1>3. mgr' \in Managers
  BY <1>1 DEF S!HookEnds, S!UpEnds, S!UserDisconnects, S!DownEnds, S!GoDown, Managers
<1> QED
  BY <1>1, <1>2, <1>3, AsideKept DEF Elsewhere

LEMMA AnswersAre ==
  ASSUME NEW r \in Answers, NEW n \in Nat, NEW m \in Nat, NEW set \in SUBSET Servers
  PROVE  [r EXCEPT !.set = set, !.rev = n] \in Answers /\ [r EXCEPT !.psk = m, !.rev = n] \in Answers
BY DEF Answers

LEMMA ServerKept ==
  ASSUME SyncInv, S!ServerChanges
  PROVE  SyncInv'
<1>1. UNCHANGED <<sub, listed, secrets, queue, ops, mgr, calls, faults>>
  BY DEF S!ServerChanges, S!diskVars
<1>2. \A sl \in Exchanges : ops[sl].pc \notin {"write", "sweep", "takeoff"}
  BY DEF S!ServerChanges
<1>3. srv \in Answers
  BY DEF SyncInv, SyncTyped
<1>0. srv.rev + 1 \in Nat
  BY DEF SyncInv, SyncTyped, Answers
<1>4. /\ srv' \in Answers
      /\ \/ srv'.rev = srv.rev + 1 /\ srv'.psk \in {srv.psk, srv.rev + 1}
         \/ srv'.rev = srv.rev /\ srv'.psk = srv.psk /\ srv'.set = srv.set
  <2>1. CASE \E set \in SUBSET Servers : srv' = [srv EXCEPT !.set = set, !.rev = @ + 1]
    <3>1. PICK set \in SUBSET Servers : srv' = [srv EXCEPT !.set = set, !.rev = srv.rev + 1]
      BY <1>3, <2>1 DEF Answers
    <3>2. srv'.rev = srv.rev + 1 /\ srv'.psk = srv.psk
      BY <1>3, <3>1 DEF Answers
    <3>3. srv' \in Answers
      BY <1>0, <1>3, <3>1, AnswersAre
    <3> QED
      BY <3>2, <3>3
  <2>2. CASE srv' = [srv EXCEPT !.psk = srv.rev + 1, !.rev = @ + 1]
    <3>1. srv' = [srv EXCEPT !.psk = srv.rev + 1, !.rev = srv.rev + 1]
      BY <1>3, <2>2 DEF Answers
    <3>2. srv'.rev = srv.rev + 1 /\ srv'.psk = srv.rev + 1
      BY <1>3, <3>1 DEF Answers
    <3>3. srv' \in Answers
      BY <1>0, <1>3, <3>1, AnswersAre
    <3> QED
      BY <3>2, <3>3
  <2>3. CASE srv' \in {[srv EXCEPT !.rekey = TRUE], [srv EXCEPT !.gone = TRUE]}
    BY <1>3, <2>3 DEF Answers
  <2> QED
    BY <2>1, <2>2, <2>3 DEF S!ServerChanges
<1>5. S!OwnIds' = S!OwnIds /\ (S!On' <=> S!On) /\ (Absent' <=> Absent)
  BY <1>1 DEF S!OwnIds, S!CardsOf, S!On, Absent
<1>6. SyncTyped' /\ CallsHeld' /\ Turns'
  BY <1>1, <1>4 DEF SyncInv, SyncTyped, CallsHeld, Turns
<1>7. ImportIsAlone'
  BY <1>1, <1>5 DEF SyncInv, ImportIsAlone
<1>8. CardsMade' /\ CardsTaken'
  BY <1>1, <1>2 DEF CardsMade, CardsTaken
<1>9. Copied'
  BY <1>1, <1>2, <1>5 DEF SyncInv, Copied, CopyOf
<1>10. sub.rev \in Nat /\ srv.rev \in Nat /\ srv.psk \in Nat /\ \A s \in DOMAIN sub.own : sub.own[s].psk \in Nat
  BY CardsAre DEF SyncInv, SyncTyped, SubRecords, Answers
<1>11. Numbers'
  BY <1>1, <1>4, <1>5, <1>10 DEF SyncInv, Numbers
<1>12. Claims'
  <2>1. CASE srv'.psk = srv.psk
    BY <1>1, <1>5, <2>1 DEF SyncInv, Claims, HasPsk
  <2>2. CASE srv'.psk = srv.rev + 1
    BY <1>1, <1>5, <1>10, <2>2 DEF SyncInv, Numbers, Claims
  <2> QED
    BY <1>4, <2>1, <2>2
<1>13. Current'
  <2>1. CASE srv'.rev = srv.rev + 1
    BY <1>1, <1>5, <1>10, <2>1 DEF SyncInv, Numbers, Current
  <2>2. CASE srv'.rev = srv.rev /\ srv'.psk = srv.psk /\ srv'.set = srv.set
    BY <1>1, <1>5, <2>2 DEF SyncInv, Current, HasPsk
  <2> QED
    BY <1>4, <2>1, <2>2
<1>14. Missing'
  BY <1>1, <1>5 DEF SyncInv, Missing
<1>15. ListedHasKeys'
  BY <1>1 DEF SyncInv, ListedHasKeys, S!ListedHasKeys, S!NoKeys
<1> QED
  BY <1>6, <1>7, <1>8, <1>9, <1>11, <1>12, <1>13, <1>14, <1>15 DEF SyncInv

LEMMA InitKept == S!Init => SyncInv
<1> SUFFICES ASSUME S!Init
             PROVE  SyncInv
  OBVIOUS
<1> USE DEF S!Init
<1>1. ~S!On /\ Absent /\ sub.own = <<>>
  BY DEF S!On, Absent, S!NoneSub
<1>2. SyncTyped
  <2>1. sub \in SubRecords
    BY NoOwns DEF S!NoneSub, SubRecords
  <2>2. secrets \in [Ids -> [key : Nat, psk : Nat]]
    BY DEF S!NoKeys
  <2>3. ops \in [Exchanges -> CallRecords]
    BY IdleIs
  <2>4. mgr \in Managers /\ srv \in Answers
    BY FirstAssumption DEF Managers, Answers
  <2>5. queue \in Seq(Exchanges)
    OBVIOUS
  <2> QED
    BY <2>1, <2>2, <2>3, <2>4, <2>5 DEF SyncTyped
<1>3. \A sl \in Exchanges : ops[sl].pc = "idle" /\ Blank(ops[sl])
  BY IdleIs, IdleIsBlank
<1>4. CallsHeld
  BY <1>3 DEF CallsHeld, KeyInHand, Blank
<1>5. Turns
  BY <1>3 DEF Turns, HasTurn
<1>6. ImportIsAlone /\ CardsMade /\ CardsTaken /\ Copied
  BY <1>3 DEF ImportIsAlone, Imports, CardsMade, CardsTaken, Copied, CopyOf
<1>7. Numbers /\ Claims /\ Current /\ Missing
  BY <1>1 DEF Numbers, Claims, Current, Missing
<1>8. ListedHasKeys
  BY DEF ListedHasKeys, S!ListedHasKeys
<1> QED
  BY <1>2, <1>4, <1>5, <1>6, <1>7, <1>8 DEF SyncInv

LEMMA CrashKept ==
  ASSUME SyncInv, S!Crash
  PROVE  SyncInv'
<1>1. /\ UNCHANGED <<sub, listed, secrets, srv, calls>> /\ faults' = faults + 1 /\ queue' = <<>>
      /\ ops' = [sl \in Exchanges |-> S!Idle]
  BY DEF S!Crash, S!diskVars
<1>2. S!OwnIds' = S!OwnIds /\ (S!On' <=> S!On) /\ (Absent' <=> Absent)
  BY <1>1 DEF S!OwnIds, S!CardsOf, S!On, Absent
<1>3. \A sl \in Exchanges : ops'[sl].pc = "idle" /\ Blank(ops'[sl])
  BY <1>1, IdleIs, IdleIsBlank
<1>4. SyncTyped'
  <2>1. mgr' \in Managers
    BY DEF S!Crash, SyncInv, SyncTyped, Managers
  <2>2. queue' \in Seq(Exchanges) /\ ops' \in [Exchanges -> CallRecords]
    BY <1>1, IdleIs
  <2> QED
    BY <1>1, <2>1, <2>2 DEF SyncInv, SyncTyped
<1>5. CallsHeld'
  BY <1>3 DEF CallsHeld, KeyInHand, Blank
<1>6. Turns'
  BY <1>1, <1>3 DEF Turns, HasTurn
<1>7. ImportIsAlone' /\ CardsMade' /\ CardsTaken' /\ Copied'
  BY <1>3 DEF ImportIsAlone, Imports, CardsMade, CardsTaken, Copied, CopyOf
<1>8. Numbers' /\ Claims' /\ Current'
  BY <1>1, <1>2 DEF SyncInv, Numbers, Claims, Current, HasPsk
<1>9. Missing'
  BY <1>1 DEF SyncInv, SyncTyped, Missing
<1>10. ListedHasKeys'
  BY <1>1 DEF SyncInv, ListedHasKeys, S!ListedHasKeys, S!NoKeys
<1> QED
  BY <1>4, <1>5, <1>6, <1>7, <1>8, <1>9, <1>10 DEF SyncInv

(* Calls begin, and what is left of them after their turn *)

\* A free call is replaced by one that waits for its turn.
LEMMA Queued ==
  ASSUME SyncInv, NEW sl \in Exchanges, NEW c \in CallRecords, Held(c), c.pc = "wait", c.own = <<>>,
         ops[sl].pc \in {"idle", "down", "back", "reconnect"}, ~Absent, c.snap \subseteq S!OwnIds,
         ops' = [ops EXCEPT ![sl] = c], queue' = Append(queue, sl),
         UNCHANGED <<sub, listed, secrets, srv, faults>>, mgr' \in Managers, calls' \in Nat
  PROVE  SyncInv'
<1>1. ~HasTurn(ops[sl])
  BY DEF HasTurn
<1>2. Turns' /\ queue' \in Seq(Exchanges)
  BY <1>1, TurnsAppended DEF SyncInv
<1>3. NamedBy(c) \subseteq S!OwnIds
  BY NoOwns DEF NamedBy
<1>4. ~Imports(c)
  BY DEF Imports
<1>5. SubStays /\ Elsewhere /\ SrvGoes(sl)
  BY StaysSame DEF SyncInv, SyncTyped, Elsewhere, SrvGoes
<1> QED
  BY <1>2, <1>3, <1>4, <1>5, Moved

\* A call without the turn comes to its next place after it, or ends.
LEMMA EndsKept ==
  ASSUME SyncInv, NEW sl \in Exchanges, NEW c, Blank(c), Absent => c.pc = "idle",
         ops[sl].pc \notin {"wait", "sweep", "takeoff"}, ~HasTurn(ops[sl]),
         ops' = [ops EXCEPT ![sl] = c], SubStays, Elsewhere, faults' = 0 => faults = 0, SrvGoes(sl),
         UNCHANGED <<listed, secrets, queue>>
  PROVE  SyncInv'
<1>1. NamedBy(c) = {} /\ ~HasTurn(c) /\ ~Imports(c) /\ c \in CallRecords /\ Held(c) /\ c.pc \in Afterwards \cup {"idle"}
  BY BlankNames DEF Blank
<1>2. Turns' /\ queue' \in Seq(Exchanges)
  BY <1>1, TurnsSame DEF SyncInv
<1>3. c.pc \notin {"write", "rekey", "sweep", "takeoff"}
  BY <1>1 DEF Afterwards
<1> QED
  BY <1>1, <1>2, <1>3, Moved

\* The same for one that hands its turn on.
LEMMA HandsOn ==
  ASSUME SyncInv, NEW sl \in Exchanges, NEW c, Blank(c), Absent => c.pc = "idle",
         ops[sl].pc \notin {"sweep", "takeoff"}, ops[sl].pc = "wait" => S!Turn(sl),
         ops' = [ops EXCEPT ![sl] = c], SubStays, Elsewhere, faults' = 0 => faults = 0, SrvGoes(sl),
         S!Unlock(sl), UNCHANGED <<listed, secrets>>
  PROVE  SyncInv'
<1>1. NamedBy(c) = {} /\ ~HasTurn(c) /\ ~Imports(c) /\ c \in CallRecords /\ Held(c) /\ c.pc \in Afterwards \cup {"idle"}
  BY BlankNames DEF Blank
<1>2. Turns' /\ queue' \in Seq(Exchanges)
  BY <1>1, TurnsUnlocked DEF SyncInv
<1>3. c.pc \notin {"write", "rekey", "sweep", "takeoff"}
  BY <1>1 DEF Afterwards
<1> QED
  BY <1>1, <1>2, <1>3, Moved

LEMMA AfterCall ==
  ASSUME SyncInv, NEW sl \in Exchanges, NEW how, S!After(sl, how)
  PROVE  \E c : Blank(c) /\ ops' = [ops EXCEPT ![sl] = c] /\ (ops[sl].kind \notin {"poll", "stale"} => c.pc = "idle")
<1>1. ops[sl] \in CallRecords
  BY DEF SyncInv, SyncTyped
<1>2. CASE S!Step(sl, S!Idle)
  BY <1>2, IdleIs, IdleIsBlank DEF S!Step
<1>3. ASSUME ~S!Step(sl, S!Idle)
      PROVE  \E next \in Afterwards :
               /\ ops[sl].kind \in {"poll", "stale"}
               /\ S!Step(sl, [S!Idle EXCEPT !.kind = ops[sl].kind, !.pc = next, !.retry = ops[sl].retry, !.at = ops[sl].at])
  BY <1>3 DEF S!After, Afterwards
<1>4. ASSUME NEW next \in Afterwards, ops[sl].kind \in {"poll", "stale"}
      PROVE  Blank([S!Idle EXCEPT !.kind = ops[sl].kind, !.pc = next, !.retry = ops[sl].retry, !.at = ops[sl].at])
  <2> DEFINE c == [S!Idle EXCEPT !.kind = ops[sl].kind, !.pc = next, !.retry = ops[sl].retry, !.at = ops[sl].at]
  <2>1. /\ c \in CallRecords /\ c.pc = next /\ c.kind = ops[sl].kind /\ c.snap = {} /\ c.own = <<>> /\ c.made = <<>>
        /\ c.half = Nobody /\ ~c.keyed
    BY <1>1, <1>4, IdleIs DEF CallRecords
  <2> QED
    BY <1>4, <2>1 DEF Blank, Held, Afterwards
<1> QED
  BY <1>2, <1>3, <1>4 DEF S!Step

LEMMA ConnectingKept ==
  ASSUME SyncInv, NEW sl \in Exchanges, NEW id \in Ids, S!Connecting(id, sl), calls' \in Nat,
         ops[sl].pc \in {"idle", "back", "reconnect"},
         UNCHANGED <<sub, listed, secrets, srv, faults>>
  PROVE  SyncInv'
<1>1. mgr' \in Managers
  BY DEF SyncInv, SyncTyped, Managers, S!Connecting
<1>2. CASE S!On /\ sub.status # "revoked"
  <2> DEFINE c == [S!Idle EXCEPT !.kind = "hook", !.pc = "wait"]
  <2>1. /\ c \in CallRecords /\ c.pc = "wait" /\ c.kind = "hook" /\ c.snap = {} /\ c.own = <<>> /\ c.made = <<>>
        /\ c.half = Nobody /\ ~c.keyed
    BY IdleIs DEF CallRecords, S!Kinds
  <2>2. Held(c)
    BY <2>1 DEF Held, Refreshing, Afterwards
  <2>3. ~Absent
    BY <1>2 DEF S!On, Absent
  <2>4. ops' = [ops EXCEPT ![sl] = c] /\ queue' = Append(queue, sl)
    BY <1>2 DEF S!Connecting
  <2> QED
    BY <1>1, <2>1, <2>2, <2>3, <2>4, Queued
<1>3. CASE ~(S!On /\ sub.status # "revoked")
  <2>1. ops' = [ops EXCEPT ![sl] = S!Idle] /\ queue' = queue
    BY <1>3 DEF S!Connecting
  <2>2. SubStays /\ Elsewhere /\ SrvGoes(sl)
    BY <1>1, StaysSame DEF SyncInv, SyncTyped, Elsewhere, SrvGoes
  <2>3. ~HasTurn(ops[sl])
    BY DEF HasTurn
  <2> QED
    BY <2>1, <2>2, <2>3, IdleIsBlank, IdleIs, EndsKept
<1> QED
  BY <1>2, <1>3

LEMMA UserConnectsKept ==
  ASSUME SyncInv, NEW sl \in Exchanges, NEW id \in Ids, S!UserConnects(id, sl)
  PROVE  SyncInv'
<1>1. ops[sl].pc = "idle"
  BY IdleIs DEF S!UserConnects, S!Free
<1>2. S!Connecting(id, sl) /\ calls' \in Nat /\ UNCHANGED <<sub, listed, secrets, srv, faults>>
  BY DEF S!UserConnects, S!diskVars, SyncInv, SyncTyped
<1> QED
  BY <1>1, <1>2, ConnectingKept

LEMMA ComeBackKept ==
  ASSUME SyncInv, NEW sl \in Exchanges, S!ComeBack(sl)
  PROVE  SyncInv'
<1>1. ops[sl].pc \in {"back", "reconnect"} /\ UNCHANGED <<sub, listed, secrets, srv, calls, faults>>
  BY DEF S!ComeBack, S!diskVars
<1>2. calls' \in Nat
  BY <1>1 DEF SyncInv, SyncTyped
<1>3. CASE \E id \in listed : S!Connecting(id, sl)
  BY <1>1, <1>2, <1>3, ConnectingKept DEF SyncInv, SyncTyped
<1>4. CASE S!Step(sl, S!Idle) /\ UNCHANGED <<queue, mgr>>
  <2>1. SubStays /\ Elsewhere /\ SrvGoes(sl)
    BY <1>1, <1>4, StaysSame DEF SyncInv, SyncTyped, Elsewhere, SrvGoes
  <2>2. ~HasTurn(ops[sl]) /\ ops' = [ops EXCEPT ![sl] = S!Idle]
    BY <1>1, <1>4 DEF HasTurn, S!Step
  <2> QED
    BY <1>1, <1>4, <2>1, <2>2, IdleIsBlank, IdleIs, EndsKept
<1>5. (\E id \in listed : S!Connecting(id, sl)) \/ (S!Step(sl, S!Idle) /\ UNCHANGED <<queue, mgr>>)
  BY DEF S!ComeBack
<1> QED
  BY <1>3, <1>4, <1>5

LEMMA RemoveCall ==
  ASSUME NEW c \in CallRecords, NEW dead \in BOOLEAN, NEW cards \in SUBSET Ids
  PROVE  [c EXCEPT !.kind = "remove", !.pc = "wait", !.snap = cards, !.dead = dead] \in CallRecords
BY DEF CallRecords, S!Kinds

LEMMA BeginsKept ==
  ASSUME SyncInv, NEW sl \in Exchanges, S!Begins(sl)
  PROVE  SyncInv'
<1>1. /\ ops[sl].pc = "idle" /\ calls' \in Nat /\ mgr' \in Managers /\ listed \subseteq Ids
      /\ UNCHANGED <<sub, listed, secrets, mgr, srv, faults>>
  BY IdleIs
     DEF S!Begins, S!Import, S!Poll, S!Stale, S!Devices, S!Remove, S!Begin, S!Free, S!diskVars, SyncInv, SyncTyped
<1>2. S!OwnIds \subseteq Ids
  BY CardsAre DEF SyncInv, SyncTyped, SubRecords, S!OwnIds
<1>3. CASE S!Import(sl)
  <2> DEFINE c == [S!Idle EXCEPT !.kind = "import", !.pc = "register"]
  <2>1. /\ c \in CallRecords /\ c.pc = "register" /\ c.kind = "import" /\ c.snap = {} /\ c.own = <<>> /\ c.made = <<>>
        /\ c.half = Nobody /\ ~c.keyed
    BY IdleIs DEF CallRecords, S!Kinds
  <2>2. Held(c) /\ NamedBy(c) = {} /\ ~HasTurn(c)
    BY <2>1, NoOwns DEF Held, Refreshing, Afterwards, NamedBy, HasTurn
  <2>3. Absent /\ \A o \in Exchanges : ops[o].pc = "idle"
    BY <1>3, IdleIs DEF S!Import, Absent, S!Free
  <2>4. ops' = [ops EXCEPT ![sl] = c] /\ queue' = queue
    BY <1>3 DEF S!Import, S!Begin
  <2>5. SubStays /\ Elsewhere /\ SrvGoes(sl)
    BY <1>1, StaysSame DEF SyncInv, SyncTyped, Elsewhere, SrvGoes
  <2>6. ~HasTurn(ops[sl])
    BY <1>1 DEF HasTurn
  <2>7. Turns' /\ queue' \in Seq(Exchanges)
    BY <1>1, <2>1, <2>2, <2>4, <2>6, TurnsSame DEF SyncInv
  <2> QED
    BY <1>1, <2>1, <2>2, <2>3, <2>4, <2>5, <2>7, Moved DEF Imports
<1>4. ASSUME NEW c, S!On, S!Begin(sl, c), queue' = Append(queue, sl), c \in CallRecords,
             c.pc = "wait", c.kind \in {"poll", "stale", "devices", "remove"}, c.own = <<>>, c.made = <<>>, c.half = Nobody, ~c.keyed,
             c.snap \subseteq S!OwnIds, c.kind \in Refreshing => c.snap = {}
      PROVE  SyncInv'
  <2>1. Held(c)
    BY <1>4 DEF Held, Refreshing, Afterwards
  <2>2. ~Absent /\ ops' = [ops EXCEPT ![sl] = c]
    BY <1>4 DEF S!On, Absent, S!Begin
  <2> QED
    BY <1>1, <1>4, <2>1, <2>2, Queued
<1>5. CASE S!Poll(sl)
  <2> DEFINE c == [S!Idle EXCEPT !.kind = "poll", !.pc = "wait"]
  <2>1. /\ c \in CallRecords /\ c.pc = "wait" /\ c.kind = "poll" /\ c.snap = {} /\ c.own = <<>> /\ c.made = <<>>
        /\ c.half = Nobody /\ ~c.keyed
    BY IdleIs DEF CallRecords, S!Kinds
  <2> QED
    BY <1>4, <1>5, <2>1 DEF S!Poll
<1>6. CASE S!Stale(sl)
  <2> DEFINE c == [S!Idle EXCEPT !.kind = "stale", !.pc = "wait", !.at = mgr.active]
  <2>1. /\ c \in CallRecords /\ c.pc = "wait" /\ c.kind = "stale" /\ c.snap = {} /\ c.own = <<>>
        /\ c.made = <<>> /\ c.half = Nobody /\ ~c.keyed
    BY <1>1, <1>6, IdleIs DEF CallRecords, S!Kinds, S!Stale
  <2> QED
    BY <1>4, <1>6, <2>1 DEF S!Stale
<1>7. CASE S!Devices(sl)
  <2> DEFINE c == [S!Idle EXCEPT !.kind = "devices", !.pc = "wait", !.snap = S!OwnIds]
  <2>1. /\ c \in CallRecords /\ c.pc = "wait" /\ c.kind = "devices" /\ c.snap = S!OwnIds /\ c.own = <<>> /\ c.made = <<>>
        /\ c.half = Nobody /\ ~c.keyed
    BY <1>2, IdleIs DEF CallRecords, S!Kinds
  <2> QED
    BY <1>4, <1>7, <2>1 DEF S!Devices, Refreshing
<1>8. CASE S!Remove(sl)
  <2> DEFINE c == [S!Idle EXCEPT !.kind = "remove", !.pc = "wait", !.snap = S!OwnIds, !.dead = sub.status = "revoked"]
  <2>1. S!OwnIds \in SUBSET Ids /\ (sub.status = "revoked") \in BOOLEAN
    BY <1>2
  <2>2. c \in CallRecords
    BY <2>1, IdleIs, RemoveCall
  <2>3. /\ c.pc = "wait" /\ c.kind = "remove" /\ c.snap = S!OwnIds /\ c.own = <<>> /\ c.made = <<>>
        /\ c.half = Nobody /\ ~c.keyed
    BY IdleIs DEF CallRecords
  <2> QED
    BY <1>4, <1>8, <2>2, <2>3 DEF S!Remove, Refreshing
<1> QED
  BY <1>3, <1>5, <1>6, <1>7, <1>8 DEF S!Begins

(* What a call does after its turn *)

LEMMA TailsKept ==
  ASSUME SyncInv, NEW sl \in Exchanges, S!Tails(sl)
  PROVE  SyncInv'
<1> DEFINE op == ops[sl]
<1>1. op \in CallRecords /\ Held(op) /\ mgr \in Managers /\ calls \in Nat /\ faults \in Nat /\ listed \subseteq Ids
  BY DEF SyncInv, SyncTyped, CallsHeld
<1>2. ASSUME op.pc \in Afterwards
      PROVE  /\ op.own = <<>> /\ op.snap = {} /\ op.made = <<>> /\ op.half = Nobody /\ ~op.keyed /\ op.kind \in {"poll", "stale"}
             /\ ~HasTurn(op) /\ ~Absent
  <2>1. /\ op.own = <<>> /\ op.snap = {} /\ op.made = <<>> /\ op.half = Nobody /\ ~op.keyed
        /\ op.kind \in {"poll", "stale"} /\ ~HasTurn(op)
    BY <1>1, <1>2 DEF Held, HasTurn, Afterwards
  <2>2. ~Imports(op) /\ op.pc # "idle"
    BY <1>2 DEF Imports, Afterwards
  <2> QED
    BY <2>1, <2>2 DEF SyncInv, ImportIsAlone
<1>3. ASSUME NEW c \in CallRecords, op.pc \in Afterwards, c.pc \in Afterwards, c.kind = op.kind, c.own = op.own,
             c.snap = op.snap, c.made = op.made, c.half = op.half, c.keyed = op.keyed
      PROVE  Blank(c)
  BY <1>2, <1>3 DEF Blank, Held, Afterwards
<1>4. ASSUME NEW c, Blank(c), op.pc \in Afterwards, S!Step(sl, c), SubStays, mgr' \in Managers,
             UNCHANGED <<listed, secrets, queue, srv, calls, faults>>
      PROVE  SyncInv'
  <2>1. Elsewhere /\ SrvGoes(sl) /\ ops' = [ops EXCEPT ![sl] = c]
    BY <1>1, <1>4 DEF Elsewhere, SrvGoes, S!Step, SyncInv, SyncTyped
  <2>2. op.pc \notin {"wait", "sweep", "takeoff"}
    BY <1>4 DEF Afterwards
  <2> QED
    BY <1>2, <1>4, <2>1, <2>2, EndsKept
<1>5. CASE S!Lapse(sl)
  <2>1. op.pc = "lapse" /\ op.pc \in Afterwards /\ UNCHANGED <<sub, listed, secrets, queue, srv, calls, faults>>
    BY <1>5 DEF S!Lapse, S!diskVars, Afterwards
  <2>2. mgr' \in Managers /\ SubStays
    BY <1>1, <1>5, <2>1, StaysSame DEF S!Lapse, S!GoDown, Managers, SyncInv
  <2>3. CASE S!Step(sl, S!Idle)
    BY <1>4, <2>1, <2>2, <2>3, IdleIsBlank
  <2>4. CASE S!Step(sl, [op EXCEPT !.pc = "down", !.at = mgr.active])
    <3> DEFINE c == [op EXCEPT !.pc = "down", !.at = mgr.active]
    <3>0. mgr.active \in Ids \cup {Nobody}
      BY <1>1 DEF Managers
    <3>1. c \in CallRecords
      BY <1>1, <3>0 DEF CallRecords, Afterwards
    <3>2. /\ c.pc = "down" /\ c.kind = op.kind /\ c.own = op.own /\ c.snap = op.snap /\ c.made = op.made
          /\ c.half = op.half /\ c.keyed = op.keyed
      BY <1>1 DEF CallRecords
    <3>3. Blank(c)
      BY <1>3, <2>1, <3>1, <3>2 DEF Afterwards
    <3> QED
      BY <1>4, <2>1, <2>2, <2>4, <3>3
  <2> QED
    BY <1>5, <2>3, <2>4 DEF S!Lapse
<1>6. CASE S!Suspend(sl)
  <2>1. op.pc = "suspend" /\ op.pc \in Afterwards /\ UNCHANGED <<sub, listed, secrets, queue, srv, calls, faults>>
    BY <1>6 DEF S!Suspend, S!diskVars, Afterwards
  <2>2. mgr' \in Managers /\ SubStays
    BY <1>1, <1>6, <2>1, StaysSame DEF S!Suspend, S!GoDown, Managers, SyncInv
  <2>3. CASE S!Step(sl, S!Idle)
    BY <1>4, <2>1, <2>2, <2>3, IdleIsBlank
  <2>4. CASE S!Step(sl, [op EXCEPT !.pc = "down"])
    <3> DEFINE c == [op EXCEPT !.pc = "down"]
    <3>1. c \in CallRecords
      BY <1>1 DEF CallRecords, Afterwards
    <3>2. /\ c.pc = "down" /\ c.kind = op.kind /\ c.own = op.own /\ c.snap = op.snap /\ c.made = op.made
          /\ c.half = op.half /\ c.keyed = op.keyed
      BY <1>1 DEF CallRecords
    <3>3. Blank(c)
      BY <1>3, <2>1, <3>1, <3>2 DEF Afterwards
    <3> QED
      BY <1>4, <2>1, <2>2, <2>4, <3>3
  <2> QED
    BY <1>6, <2>3, <2>4 DEF S!Suspend
<1>7. CASE S!AskAgain(sl)
  <2>1. op.pc = "down" /\ op.pc \in Afterwards /\ UNCHANGED <<sub, listed, secrets, mgr, srv, calls, faults>>
    BY <1>7 DEF S!AskAgain, S!diskVars, Afterwards
  <2>2. mgr' \in Managers /\ SubStays /\ calls' \in Nat
    BY <1>1, <2>1, StaysSame DEF SyncInv
  <2>3. CASE S!Step(sl, [op EXCEPT !.pc = "lapsed"]) /\ UNCHANGED queue
    <3> DEFINE c == [op EXCEPT !.pc = "lapsed"]
    <3>1. c \in CallRecords
      BY <1>1 DEF CallRecords, Afterwards
    <3>2. /\ c.pc = "lapsed" /\ c.kind = op.kind /\ c.own = op.own /\ c.snap = op.snap /\ c.made = op.made
          /\ c.half = op.half /\ c.keyed = op.keyed
      BY <1>1 DEF CallRecords
    <3>3. Blank(c)
      BY <1>3, <2>1, <3>1, <3>2 DEF Afterwards
    <3> QED
      BY <1>4, <2>1, <2>2, <2>3, <3>3
  <2>4. CASE S!Step(sl, [op EXCEPT !.pc = "wait", !.retry = TRUE]) /\ queue' = Append(queue, sl)
    <3> DEFINE c == [op EXCEPT !.pc = "wait", !.retry = TRUE]
    <3>1. c \in CallRecords
      BY <1>1 DEF CallRecords
    <3>2. /\ c.pc = "wait" /\ c.kind = op.kind /\ c.own = op.own /\ c.snap = op.snap /\ c.made = op.made
          /\ c.half = op.half /\ c.keyed = op.keyed
      BY <1>1 DEF CallRecords
    <3>3. Held(c)
      BY <1>2, <2>1, <3>2 DEF Held, Refreshing, Afterwards
    <3>4. c.snap \subseteq S!OwnIds /\ c.own = <<>> /\ ~Absent
      BY <1>2, <2>1, <3>2
    <3>5. ops' = [ops EXCEPT ![sl] = c]
      BY <2>4 DEF S!Step
    <3> HIDE DEF c
    <3> QED
      BY <2>1, <2>2, <2>4, <3>1, <3>2, <3>3, <3>4, <3>5, Queued
  <2> QED
    BY <1>7, <2>3, <2>4 DEF S!AskAgain
<1>8. CASE S!Lapsed(sl)
  <2>1. /\ op.pc = "lapsed" /\ op.pc \in Afterwards /\ UNCHANGED <<listed, secrets, queue, mgr, srv, calls, faults>>
        /\ S!Step(sl, S!Idle)
    BY <1>8 DEF S!Lapsed, Afterwards
  <2>2. SubStays
    BY <1>8 DEF SubStays, SyncInv, SyncTyped, S!On, Absent, S!Lapsed, SubRecords
  <2> QED
    BY <1>1, <1>4, <2>1, <2>2, IdleIsBlank
<1>9. CASE S!ComeBack(sl)
  BY <1>9, ComeBackKept
<1> QED
  BY <1>5, <1>6, <1>7, <1>8, <1>9 DEF S!Tails

(* An exchange, and the other requests *)

LEMMA FailKept ==
  ASSUME SyncInv, NEW sl \in Exchanges, NEW kind, S!RefreshFails(sl, kind), ops[sl].pc \in {"wait", "rekey", "write"},
         ops[sl].pc = "wait" => S!Turn(sl), Elsewhere, faults' = 0 => faults = 0, SrvGoes(sl), UNCHANGED <<listed, secrets>>
  PROVE  SyncInv'
<1>1. SubStays
  BY NotRecognisedStays, UnreachedStays DEF S!RefreshFails, SyncInv
<1>2. PICK c : Blank(c) /\ ops' = [ops EXCEPT ![sl] = c] /\ (ops[sl].kind \notin {"poll", "stale"} => c.pc = "idle")
  BY AfterCall DEF S!RefreshFails
<1>3. Absent => c.pc = "idle"
  BY <1>2 DEF SyncInv, ImportIsAlone, Imports
<1>4. S!Unlock(sl)
  BY DEF S!RefreshFails
<1> QED
  BY <1>1, <1>2, <1>3, <1>4, HandsOn

LEMMA RevokeCall ==
  ASSUME NEW c \in CallRecords, NEW kind \in S!Kinds \cup {Nobody}, NEW retry \in BOOLEAN,
         NEW at \in Ids \cup {Nobody}, NEW cards \in SUBSET Ids
  PROVE  [c EXCEPT !.kind = kind, !.retry = retry, !.at = at, !.pc = "revoke", !.snap = cards] \in CallRecords
BY DEF CallRecords

LEMMA GoneCall ==
  ASSUME SyncInv, NEW sl \in Exchanges, S!Gone(sl), ops[sl].kind \in Refreshing \cup {"devices"}
  PROVE  \E c \in CallRecords : /\ Held(c) /\ c.pc = "revoke" /\ c.kind = ops[sl].kind /\ ops' = [ops EXCEPT ![sl] = c]
                                /\ NamedBy(c) \subseteq NamedBy(ops[sl]) \cup S!OwnIds
<1> DEFINE op == ops[sl]
           snap == IF op.kind = "devices" THEN op.snap ELSE S!OwnIds
           c == [S!Idle EXCEPT !.kind = op.kind, !.retry = op.retry, !.at = op.at, !.pc = "revoke", !.snap = snap]
<1>1. op \in CallRecords
  BY DEF SyncInv, SyncTyped
<1>2. S!OwnIds \subseteq Ids
  BY CardsAre DEF SyncInv, SyncTyped, SubRecords, S!OwnIds
<1>3. snap \in SUBSET Ids
  BY <1>1, <1>2 DEF CallRecords
<1> HIDE DEF snap
<1>4. c \in CallRecords
  <2>1. op.kind \in S!Kinds \cup {Nobody} /\ op.retry \in BOOLEAN /\ op.at \in Ids \cup {Nobody}
    BY <1>1 DEF CallRecords
  <2> QED
    BY <1>3, <2>1, IdleIs, RevokeCall
<1>5. /\ c.pc = "revoke" /\ c.kind = op.kind /\ c.snap = snap /\ c.own = <<>> /\ c.made = <<>>
      /\ c.half = Nobody /\ ~c.keyed
  BY <1>1, <1>3, IdleIs DEF CallRecords
<1>6. ops' = [ops EXCEPT ![sl] = c]
  BY DEF S!Gone, S!Step, snap
<1> HIDE DEF c
<1>7. Held(c)
  BY <1>5 DEF Held, Refreshing, Afterwards
<1>8. NamedBy(c) \subseteq NamedBy(op) \cup S!OwnIds
  BY <1>5, NoOwns DEF NamedBy, snap
<1> QED
  BY <1>4, <1>5, <1>6, <1>7, <1>8

LEMMA HeadAlone ==
  ASSUME SyncInv, NEW sl \in Exchanges, S!Turn(sl), ops[sl].pc = "wait"
  PROVE  (\A o \in Exchanges : ~Works(ops[o])) /\ ~Absent
<1>1. queue # <<>> /\ queue[1] = sl
  BY DEF S!Turn, SyncInv, SyncTyped
<1>2. ~Works(ops[sl]) /\ ~Imports(ops[sl]) /\ ops[sl].pc # "idle"
  BY DEF Works, HasTurn, Imports
<1>3. \A o \in Exchanges : ~HasTurn(ops[o])
  BY <1>1, <1>2 DEF SyncInv, Turns, Works
<1>4. \A o \in Exchanges : ~Imports(ops[o])
  BY <1>2 DEF SyncInv, ImportIsAlone
<1>5. ~Absent
  BY <1>2 DEF SyncInv, ImportIsAlone
<1> QED
  BY <1>3, <1>4, <1>5 DEF Works

LEMMA ConfigCall ==
  ASSUME NEW c \in CallRecords, NEW own \in Owns, NEW rev \in Nat, NEW psk \in Nat, NEW set \in SUBSET Servers,
         NEW van \in SUBSET Servers, NEW ran \in BOOLEAN, NEW key \in Nat
  PROVE  [c EXCEPT !.own = own, !.rev = rev, !.psk = psk, !.set = set, !.van = van, !.ran = ran, !.key = key] \in CallRecords
BY DEF CallRecords

LEMMA WriteCall ==
  ASSUME NEW c \in CallRecords, NEW rev \in Nat, NEW psk \in Nat, NEW key \in Nat, NEW set \in SUBSET Servers
  PROVE  /\ [c EXCEPT !.pc = "write", !.rev = rev, !.psk = psk, !.set = set, !.key = key, !.todo = set] \in CallRecords
         /\ [c EXCEPT !.pc = "write", !.rev = rev, !.psk = psk, !.set = set, !.key = key, !.keyed = TRUE, !.todo = set]
              \in CallRecords
<1>1. set \in SUBSET (Ids \cup Servers)
  OBVIOUS
<1> QED
  BY <1>1 DEF CallRecords

LEMMA AppliesKept ==
  ASSUME SyncInv, NEW sl \in Exchanges, S!Turn(sl), ops[sl].pc = "wait", ops[sl].kind \in Refreshing, S!On, S!Applies(sl),
         UNCHANGED <<listed, secrets, mgr, srv, calls, faults>>
  PROVE  SyncInv'
<1> DEFINE op == ops[sl]
           own == sub.own
           ran == S!Running(S!OwnIds)
           van == DOMAIN own \ srv.set
           first == CHOOSE s \in DOMAIN own : \A t \in DOMAIN own : s <= t
           inHand == IF own = <<>> \/ S!HeldByService THEN 0 ELSE secrets[own[first].id].key
           pskNew == \E s \in srv.set : s \notin DOMAIN own \/ own[s].psk # srv.psk
           cfg == [op EXCEPT !.own = own, !.rev = srv.rev, !.psk = srv.psk, !.set = srv.set,
                             !.van = van, !.ran = ran, !.key = inHand]
<1>1. /\ op \in CallRecords /\ Held(op) /\ own \in Owns /\ sub \in SubRecords /\ srv \in Answers /\ sub.rev \in Nat
      /\ srv.rev \in Nat /\ srv.psk \in Nat /\ srv.set \in SUBSET Servers /\ DOMAIN own \subseteq Servers
      /\ sub.rev <= srv.rev
  <2>1. op \in CallRecords /\ Held(op) /\ sub \in SubRecords /\ srv \in Answers
    BY DEF SyncInv, SyncTyped, CallsHeld
  <2>2. own \in Owns /\ sub.rev \in Nat /\ srv.rev \in Nat /\ srv.psk \in Nat /\ srv.set \in SUBSET Servers
    BY <2>1 DEF SubRecords, Answers
  <2>3. DOMAIN own \subseteq Servers
    BY <2>2, OwnsHave
  <2> QED
    BY <2>1, <2>2, <2>3 DEF SyncInv, Numbers
<1>2. op.own = <<>> /\ op.made = <<>> /\ op.half = Nobody /\ ~op.keyed /\ op.snap = {}
  BY <1>1 DEF Held
<1>3. Elsewhere /\ SrvGoes(sl) /\ ~Absent /\ \A o \in Exchanges : ~Works(ops[o])
  BY <1>1, HeadAlone DEF Elsewhere, SrvGoes, SyncInv, SyncTyped
<1>4. CASE S!Step(sl, [op EXCEPT !.pc = "sweep", !.todo = {own[s].id : s \in van}, !.end = "same"]) /\ UNCHANGED <<sub, queue>>
  <2> DEFINE c == [op EXCEPT !.pc = "sweep", !.todo = {own[s].id : s \in van}, !.end = "same"]
  <2>1. {own[s].id : s \in van} \subseteq S!OwnIds /\ {own[s].id : s \in van} \in SUBSET (Ids \cup Servers)
    BY <1>1, CardsAre DEF S!OwnIds, S!CardsOf
  <2>2. c \in CallRecords
    BY <1>1, <2>1 DEF CallRecords
  <2>3. /\ c.pc = "sweep" /\ c.kind = op.kind /\ c.own = <<>> /\ c.made = <<>> /\ c.half = Nobody /\ ~c.keyed /\ c.snap = {}
        /\ c.todo = {own[s].id : s \in van}
    BY <1>1, <1>2 DEF CallRecords
  <2>4. ops' = [ops EXCEPT ![sl] = c]
    BY <1>4 DEF S!Step
  <2> HIDE DEF c
  <2>5. Held(c) /\ HasTurn(c) /\ ~Imports(c)
    BY <2>3 DEF Held, HasTurn, Imports, Refreshing, Afterwards
  <2>6. NamedBy(c) \subseteq S!OwnIds
    BY <2>1, <2>3, NoOwns, CardsAssumption DEF NamedBy
  <2>7. Turns' /\ queue' \in Seq(Exchanges)
    BY <1>4, <2>2, <2>4, <2>5, TurnsSame DEF SyncInv
  <2>8. SubStays /\ c.half \notin listed
    BY <1>4, <2>3, CardsAssumption, StaysSame DEF SyncInv, SyncTyped
  <2> QED
    BY <1>3, <2>2, <2>3, <2>4, <2>5, <2>6, <2>7, <2>8, Moved
<1>5. CASE sub' = [sub EXCEPT !.status = "ok"] /\ S!After(sl, "pending") /\ S!Unlock(sl)
  <2>1. SubStays
    BY <1>1, <1>5 DEF SubStays, S!On, Absent, SubRecords
  <2>2. PICK c : Blank(c) /\ ops' = [ops EXCEPT ![sl] = c]
    BY <1>5, AfterCall
  <2> QED
    BY <1>3, <1>5, <2>1, <2>2, HandsOn
<1>6. CASE /\ srv.rev # sub.rev \/ srv.rekey
           /\ S!Step(sl, IF srv.rekey \/ (pskNew /\ inHand = 0) THEN [cfg EXCEPT !.pc = "rekey"]
                         ELSE [cfg EXCEPT !.pc = "write", !.todo = srv.set])
           /\ UNCHANGED <<sub, queue>>
  <2>1. inHand \in Nat
    <3>1. CASE own # <<>>
      <4>1. DOMAIN own \in SUBSET Nat /\ DOMAIN own # {}
        BY <1>1, <3>1, IsNoOwns, ServersAssumption
      <4>2. \E s \in DOMAIN own : \A t \in DOMAIN own : s <= t
        BY <4>1, LeastNumber
      <4>3. first \in DOMAIN own
        BY <4>2
      <4> HIDE DEF first
      <4>4. own[first].id \in Ids
        BY <1>1, <4>3, CardsAre
      <4>5. secrets[own[first].id].key \in Nat
        BY <4>4 DEF SyncInv, SyncTyped
      <4> QED
        BY <4>5
    <3> QED
      BY <3>1
  <2>2. ran \in BOOLEAN /\ van \in SUBSET Servers
    BY <1>1 DEF S!Running
  <2> HIDE DEF inHand, ran, van, pskNew
  <2>3. cfg \in CallRecords
    <3>1. op \in CallRecords /\ own \in Owns /\ srv.rev \in Nat /\ srv.psk \in Nat /\ srv.set \in SUBSET Servers
      BY <1>1
    <3>2. ASSUME NEW v \in SUBSET Servers, NEW b \in BOOLEAN, NEW k \in Nat
          PROVE  [op EXCEPT !.own = own, !.rev = srv.rev, !.psk = srv.psk, !.set = srv.set, !.van = v, !.ran = b, !.key = k]
                   \in CallRecords
      <4> HIDE DEF op, own
      <4> QED
        BY <3>1, ConfigCall
    <3> QED
      BY <2>1, <2>2, <3>2
  <2>4. /\ cfg.kind = op.kind /\ cfg.own = own /\ cfg.made = <<>> /\ cfg.half = Nobody /\ ~cfg.keyed /\ cfg.snap = {}
        /\ cfg.rev = srv.rev /\ cfg.psk = srv.psk /\ cfg.set = srv.set /\ cfg.key = inHand
    BY <1>1, <1>2, <2>1 DEF CallRecords
  <2> HIDE DEF cfg
  <2>5. CASE S!Step(sl, [cfg EXCEPT !.pc = "rekey"])
    <3> DEFINE c == [cfg EXCEPT !.pc = "rekey"]
    <3>1. /\ c \in CallRecords /\ c.pc = "rekey" /\ c.kind = op.kind /\ c.own = own /\ c.made = <<>>
          /\ c.half = Nobody /\ ~c.keyed /\ c.snap = {}
      BY <2>3, <2>4 DEF CallRecords
    <3>2. ops' = [ops EXCEPT ![sl] = c]
      BY <2>5 DEF S!Step
    <3> HIDE DEF c
    <3>3. Held(c) /\ HasTurn(c) /\ ~Imports(c)
      BY <3>1 DEF Held, HasTurn, Imports, Refreshing, Afterwards
    <3>4. NamedBy(c) \subseteq S!OwnIds
      BY <3>1 DEF NamedBy, S!OwnIds
    <3>5. Turns' /\ queue' \in Seq(Exchanges)
      BY <1>6, <3>1, <3>2, <3>3, TurnsSame DEF SyncInv
    <3>6. SubStays
      BY <1>6, StaysSame DEF SyncInv
    <3> QED
      BY <1>3, <3>1, <3>2, <3>3, <3>4, <3>5, <3>6, Moved
  <2>6. CASE ~(srv.rekey \/ (pskNew /\ inHand = 0)) /\ S!Step(sl, [cfg EXCEPT !.pc = "write", !.todo = srv.set])
    <3> DEFINE c == [cfg EXCEPT !.pc = "write", !.todo = srv.set]
    <3>0. srv.set \in SUBSET (Ids \cup Servers)
      BY <1>1
    <3>1. /\ c \in CallRecords /\ c.pc = "write" /\ c.kind = op.kind /\ c.own = own /\ c.made = <<>>
          /\ c.half = Nobody /\ ~c.keyed /\ c.snap = {}
          /\ c.rev = srv.rev /\ c.psk = srv.psk /\ c.set = srv.set /\ c.key = inHand /\ c.todo = srv.set
      BY <2>3, <2>4, <3>0 DEF CallRecords
    <3>2. ops' = [ops EXCEPT ![sl] = c]
      BY <2>6 DEF S!Step
    <3> HIDE DEF c
    <3>3. Held(c) /\ HasTurn(c) /\ ~Imports(c)
      BY <3>1 DEF Held, HasTurn, Imports, Refreshing, Afterwards
    <3>4. KeyInHand(c)
      BY <2>6, <3>1 DEF KeyInHand, Refreshing, pskNew
    <3>5. Turns' /\ queue' \in Seq(Exchanges)
      BY <1>6, <3>1, <3>2, <3>3, TurnsSame DEF SyncInv
    <3>6. sub.rev < srv.rev
      BY <1>1, <1>6, <2>6
    <3> QED
      BY <1>1, <1>3, <1>6, <3>1, <3>2, <3>3, <3>4, <3>5, <3>6, StartsToWrite
  <2> QED
    BY <1>6, <2>5, <2>6
<1>7. CASE srv.rev = sub.rev /\ ~srv.rekey
  BY <1>4, <1>7 DEF S!Applies
<1>8. CASE (srv.rev # sub.rev \/ srv.rekey) /\ S!Running(S!OwnIds) /\ ~S!Forced(sl) /\ ~srv.rekey
  BY <1>5, <1>8 DEF S!Applies
<1>9. CASE ~(srv.rev = sub.rev /\ ~srv.rekey) /\ ~((srv.rev # sub.rev \/ srv.rekey) /\ S!Running(S!OwnIds) /\ ~S!Forced(sl) /\ ~srv.rekey)
  BY <1>6, <1>9 DEF S!Applies
<1> QED
  BY <1>7, <1>8, <1>9

LEMMA ExchangeKept ==
  ASSUME SyncInv, NEW sl \in Exchanges, S!Exchange(sl)
  PROVE  SyncInv'
<1>1. /\ S!Turn(sl) /\ ops[sl].pc = "wait" /\ ops[sl].kind \in Refreshing
      /\ UNCHANGED <<listed, secrets, mgr, srv, calls, faults>>
  BY DEF S!Exchange, Refreshing
<1>2. Elsewhere /\ SrvGoes(sl) /\ ~Absent
  BY <1>1, HeadAlone DEF SyncInv, SyncTyped, Elsewhere, SrvGoes
<1>3. CASE S!After(sl, "failed") /\ S!Unlock(sl) /\ UNCHANGED sub
  <2>1. PICK c : Blank(c) /\ ops' = [ops EXCEPT ![sl] = c]
    BY <1>3, AfterCall
  <2>2. SubStays
    BY <1>3, StaysSame DEF SyncInv
  <2> QED
    BY <1>1, <1>2, <1>3, <2>1, <2>2, HandsOn
<1>4. CASE \E kind \in {"network", "unauthorized"} : S!RefreshFails(sl, kind)
  BY <1>1, <1>2, <1>4, FailKept
<1>5. CASE S!Gone(sl) /\ UNCHANGED <<sub, queue>>
  <2>1. PICK c \in CallRecords : /\ Held(c) /\ c.pc = "revoke" /\ c.kind = ops[sl].kind /\ ops' = [ops EXCEPT ![sl] = c]
                                 /\ NamedBy(c) \subseteq NamedBy(ops[sl]) \cup S!OwnIds
    BY <1>1, <1>5, GoneCall
  <2>2. HasTurn(c) /\ ~Imports(c)
    BY <1>1, <2>1 DEF HasTurn, Imports
  <2>3. Turns' /\ queue' \in Seq(Exchanges)
    BY <1>1, <1>5, <2>1, <2>2, TurnsSame DEF SyncInv
  <2>4. SubStays
    BY <1>5, StaysSame DEF SyncInv
  <2> QED
    BY <1>1, <1>2, <2>1, <2>2, <2>3, <2>4, Moved
<1>6. CASE S!On /\ S!Applies(sl)
  BY <1>1, <1>6, AppliesKept
<1> QED
  BY <1>3, <1>4, <1>5, <1>6 DEF S!Exchange

LEMMA TakesKeyIs ==
  ASSUME SyncInv
  PROVE  /\ S!TakesKey \in Answers /\ S!TakesKey.rev = srv.rev + 1 /\ S!TakesKey.psk = srv.psk /\ S!TakesKey.set = srv.set
         /\ S!TakesKey.key = srv.rev + 1 /\ S!TakesKey.key \in Nat /\ S!TakesKey.key # 0
<1>1. srv \in Answers /\ srv.rev \in Nat /\ srv.rev + 1 \in Nat /\ srv.rev + 1 # 0
  BY DEF SyncInv, SyncTyped, Answers
<1>2. S!TakesKey = [srv EXCEPT !.rev = srv.rev + 1, !.key = srv.rev + 1, !.rekey = FALSE]
  BY <1>1 DEF S!TakesKey, Answers
<1>3. \A n \in Nat : [srv EXCEPT !.rev = n, !.key = n, !.rekey = FALSE] \in Answers
  BY <1>1 DEF Answers
<1>4. S!TakesKey \in Answers
  BY <1>1, <1>2, <1>3
<1>5. /\ S!TakesKey.rev = srv.rev + 1 /\ S!TakesKey.psk = srv.psk /\ S!TakesKey.set = srv.set
      /\ S!TakesKey.key = srv.rev + 1
  BY <1>1, <1>2 DEF Answers
<1> QED
  BY <1>1, <1>4, <1>5

LEMMA RekeyKept ==
  ASSUME SyncInv, NEW sl \in Exchanges, S!Rekey(sl)
  PROVE  SyncInv'
<1> DEFINE op == ops[sl]
<1>1. op \in CallRecords /\ Held(op) /\ op.pc = "rekey" /\ CopyOf(op)
  BY DEF SyncInv, SyncTyped, CallsHeld, Copied, S!Rekey
<1>2. op.made = <<>> /\ op.half = Nobody /\ op.kind \in Refreshing /\ Works(op) /\ HasTurn(op) /\ ~Imports(op)
  BY <1>1 DEF Held, Works, HasTurn, Imports, Refreshing
<1>3. ~Absent /\ S!Turn(sl)
  BY <1>1, <1>2 DEF SyncInv, SyncTyped, ImportIsAlone, Turns, S!Turn
<1>4. UNCHANGED <<listed, secrets, mgr, calls>>
  BY DEF S!Rekey
<1>5. calls \in Nat /\ faults \in Nat /\ mgr \in Managers /\ srv \in Answers
  BY DEF SyncInv, SyncTyped
<1>6. ASSUME S!RefreshFails(sl, "network") \/ S!RefreshFails(sl, "unauthorized"),
             (srv' = S!TakesKey /\ faults' = faults + 1) \/ (srv' = srv /\ faults' = faults)
      PROVE  SyncInv'
  <2>1. Elsewhere /\ (faults' = 0 => faults = 0)
    BY <1>4, <1>5, <1>6 DEF Elsewhere
  <2>2. SrvGoes(sl)
    BY <1>2, <1>5, <1>6, TakesKeyIs DEF SrvGoes
  <2> QED
    BY <1>1, <1>4, <1>6, <2>1, <2>2, FailKept
<1>7. CASE /\ srv' = S!TakesKey
           /\ S!Step(sl, [op EXCEPT !.pc = "write", !.rev = srv'.rev, !.psk = srv.psk,
                                 !.set = srv.set, !.key = srv'.key, !.keyed = TRUE, !.todo = srv.set])
           /\ UNCHANGED <<sub, queue, faults>>
  <2> DEFINE c == [op EXCEPT !.pc = "write", !.rev = srv'.rev, !.psk = srv.psk,
                                 !.set = srv.set, !.key = srv'.key, !.keyed = TRUE, !.todo = srv.set]
  <2>1. /\ srv' \in Answers /\ srv'.rev = srv.rev + 1 /\ srv'.psk = srv.psk /\ srv'.set = srv.set
        /\ srv'.key \in Nat /\ srv'.key # 0
    BY <1>7, TakesKeyIs
  <2>2. srv.set \in SUBSET Servers /\ srv.psk \in Nat /\ srv'.rev \in Nat /\ srv.rev \in Nat /\ sub.rev \in Nat
    BY <1>5, <2>1 DEF Answers, SyncInv, SyncTyped, SubRecords
  <2>3. c \in CallRecords
    BY <1>1, <2>1, <2>2, WriteCall
  <2>4. /\ c.pc = "write" /\ c.kind = op.kind /\ c.own = op.own /\ c.made = <<>> /\ c.half = Nobody /\ c.keyed
        /\ c.snap = op.snap
        /\ c.rev = srv'.rev /\ c.psk = srv.psk /\ c.set = srv.set /\ c.key = srv'.key /\ c.todo = srv.set
    BY <1>1, <1>2 DEF CallRecords
  <2>5. ops' = [ops EXCEPT ![sl] = c]
    BY <1>7 DEF S!Step
  <2> HIDE DEF c
  <2>6. Held(c) /\ KeyInHand(c) /\ HasTurn(c) /\ ~Imports(c)
    BY <1>2, <2>1, <2>4 DEF Held, KeyInHand, HasTurn, Imports, Refreshing, Afterwards
  <2>7. Turns' /\ queue' \in Seq(Exchanges)
    BY <1>3, <1>7, <2>3, <2>5, <2>6, TurnsSame DEF SyncInv
  <2>8. \A o \in Exchanges \ {sl} : ~Works(ops[o])
    BY <1>2, OneWorks DEF SyncInv
  <2>9. S!On => c.own = sub.own /\ sub.rev < srv'.rev
    BY <1>1, <2>1, <2>2, <2>4 DEF CopyOf, SyncInv, Numbers
  <2> QED
    BY <1>1, <1>3, <1>4, <1>7, <2>1, <2>3, <2>4, <2>5, <2>6, <2>7, <2>8, <2>9, StartsToWrite
<1>8. CASE S!Gone(sl) /\ UNCHANGED <<sub, queue, srv, calls, faults>>
  <2>1. PICK c \in CallRecords : /\ Held(c) /\ c.pc = "revoke" /\ c.kind = ops[sl].kind /\ ops' = [ops EXCEPT ![sl] = c]
                                 /\ NamedBy(c) \subseteq NamedBy(ops[sl]) \cup S!OwnIds
    BY <1>2, <1>8, GoneCall
  <2>2. HasTurn(c) /\ ~Imports(c)
    BY <1>2, <2>1 DEF HasTurn, Imports
  <2>3. Turns' /\ queue' \in Seq(Exchanges)
    BY <1>3, <1>8, <2>1, <2>2, TurnsSame DEF SyncInv
  <2>4. SubStays /\ Elsewhere /\ SrvGoes(sl)
    BY <1>4, <1>5, <1>8, StaysSame DEF SyncInv, Elsewhere, SrvGoes
  <2> QED
    BY <1>1, <1>3, <1>4, <1>8, <2>1, <2>2, <2>3, <2>4, Moved
<1> QED
  BY <1>6, <1>7, <1>8 DEF S!Rekey

LEMMA RegisterKept ==
  ASSUME SyncInv, NEW sl \in Exchanges, S!Register(sl)
  PROVE  SyncInv'
<1> DEFINE op == ops[sl]
<1>1. op \in CallRecords /\ Held(op) /\ op.pc = "register"
  BY DEF SyncInv, SyncTyped, CallsHeld, S!Register
<1>2. /\ op.own = <<>> /\ op.made = <<>> /\ op.half = Nobody /\ ~op.keyed /\ op.kind = "import"
      /\ Works(op) /\ ~HasTurn(op) /\ Imports(op)
  BY <1>1 DEF Held, Works, HasTurn, Imports
<1>3. Absent /\ \A o \in Exchanges \ {sl} : ops[o].pc = "idle"
  BY <1>2 DEF SyncInv, ImportIsAlone
<1>4. UNCHANGED <<sub, listed, secrets, mgr, queue, calls>>
  BY DEF S!Register, S!diskVars
<1>5. calls \in Nat /\ faults \in Nat /\ mgr \in Managers /\ srv \in Answers
  BY DEF SyncInv, SyncTyped
<1>6. ASSUME S!Step(sl, S!Idle),
             (srv' = S!TakesKey /\ faults' = faults + 1) \/ (srv' = srv /\ faults' = faults)
      PROVE  SyncInv'
  <2>1. Elsewhere /\ (faults' = 0 => faults = 0)
    BY <1>4, <1>5, <1>6 DEF Elsewhere
  <2>2. SrvGoes(sl)
    BY <1>2, <1>5, <1>6, TakesKeyIs DEF SrvGoes
  <2>3. SubStays /\ ops' = [ops EXCEPT ![sl] = S!Idle]
    BY <1>4, <1>6, StaysSame DEF SyncInv, S!Step
  <2> QED
    BY <1>1, <1>2, <1>4, <2>1, <2>2, <2>3, IdleIs, IdleIsBlank, EndsKept
<1>7. CASE /\ srv' = S!TakesKey
           /\ S!Step(sl, [op EXCEPT !.pc = "write", !.rev = srv'.rev, !.psk = srv.psk,
                                 !.set = srv.set, !.key = srv'.key, !.todo = srv.set])
           /\ UNCHANGED faults
  <2> DEFINE c == [op EXCEPT !.pc = "write", !.rev = srv'.rev, !.psk = srv.psk,
                                 !.set = srv.set, !.key = srv'.key, !.todo = srv.set]
  <2>1. /\ srv' \in Answers /\ srv'.rev = srv.rev + 1 /\ srv'.psk = srv.psk /\ srv'.set = srv.set
        /\ srv'.key \in Nat /\ srv'.key # 0
    BY <1>7, TakesKeyIs
  <2>2. srv.set \in SUBSET Servers /\ srv.psk \in Nat /\ srv'.rev \in Nat
    BY <1>5, <2>1 DEF Answers
  <2>3. c \in CallRecords
    BY <1>1, <2>1, <2>2, WriteCall
  <2>4. /\ c.pc = "write" /\ c.kind = op.kind /\ c.own = <<>> /\ c.made = <<>> /\ c.half = Nobody /\ ~c.keyed
        /\ c.rev = srv'.rev /\ c.psk = srv.psk /\ c.set = srv.set /\ c.key = srv'.key /\ c.todo = srv.set
    BY <1>1, <1>2 DEF CallRecords
  <2>5. ops' = [ops EXCEPT ![sl] = c]
    BY <1>7 DEF S!Step
  <2> HIDE DEF c
  <2>6. Held(c) /\ KeyInHand(c) /\ ~HasTurn(c) /\ Imports(c)
    BY <1>2, <2>1, <2>4 DEF Held, KeyInHand, HasTurn, Imports, Refreshing, Afterwards
  <2>7. Turns' /\ queue' \in Seq(Exchanges)
    BY <1>1, <1>2, <1>4, <2>3, <2>5, <2>6, TurnsSame DEF SyncInv
  <2>8. (\A o \in Exchanges \ {sl} : ~Works(ops[o])) /\ ~S!On
    BY <1>3 DEF Works, HasTurn, Imports, Absent, S!On
  <2> QED
    BY <1>1, <1>3, <1>4, <1>7, <2>1, <2>3, <2>4, <2>5, <2>6, <2>7, <2>8, StartsToWrite
<1> QED
  <2>1. \/ /\ srv' = S!TakesKey
           /\ S!Step(sl, [op EXCEPT !.pc = "write", !.rev = srv'.rev, !.psk = srv.psk,
                                 !.set = srv.set, !.key = srv'.key, !.todo = srv.set])
           /\ UNCHANGED faults
        \/ S!Step(sl, S!Idle) /\ srv' = S!TakesKey /\ faults' = faults + 1
        \/ S!Step(sl, S!Idle) /\ UNCHANGED <<srv, faults>>
    BY DEF S!Register
  <2>2. CASE S!Step(sl, S!Idle) /\ srv' = S!TakesKey /\ faults' = faults + 1
    BY <1>6, <2>2
  <2>3. CASE S!Step(sl, S!Idle) /\ UNCHANGED <<srv, faults>>
    BY <1>6, <2>3
  <2> QED
    BY <1>7, <2>1, <2>2, <2>3

LEMMA WriteFailsKept ==
  ASSUME SyncInv, NEW sl \in Exchanges, S!WriteFails(sl)
  PROVE  SyncInv'
<1> DEFINE op == ops[sl]
<1>1. op \in CallRecords /\ Held(op) /\ op.pc = "write" /\ Works(op)
  BY WorksWhen DEF SyncInv, SyncTyped, CallsHeld, S!WriteFails
<1>2. UNCHANGED <<listed, secrets, mgr, srv, calls>> /\ faults' \in {faults, faults + 1} /\ faults \in Nat
  BY DEF S!WriteFails, SyncInv, SyncTyped
<1>3. Elsewhere /\ SrvGoes(sl) /\ (faults' = 0 => faults = 0)
  BY <1>2 DEF SyncInv, SyncTyped, Elsewhere, SrvGoes
<1>4. CASE op.kind = "import"
  <2> DEFINE c == [op EXCEPT !.pc = "takeoff", !.half = Nobody, !.todo = S!CardsOf(op.made) \ {op.half}]
  <2>1. S!CardsOf(op.made) \ {op.half} \in SUBSET (Ids \cup Servers)
    BY <1>1, CardsAre DEF CallRecords
  <2>2. c \in CallRecords
    BY <1>1, <2>1 DEF CallRecords
  <2>3. c.pc = "takeoff" /\ c.kind = "import" /\ c.own = <<>> /\ c.half = Nobody /\ c.keyed = op.keyed
    BY <1>1, <1>4 DEF CallRecords, Held
  <2>4. ops' = [ops EXCEPT ![sl] = c] /\ UNCHANGED <<sub, queue>>
    BY <1>4 DEF S!WriteFails, S!Step
  <2>5. ~op.keyed
    BY <1>1, <1>4 DEF Held
  <2> HIDE DEF c
  <2>6. Held(c) /\ Imports(c) /\ ~HasTurn(c) /\ ~HasTurn(op) /\ Imports(op)
    BY <1>1, <1>4, <2>3, <2>5 DEF Held, Imports, HasTurn, Refreshing, Afterwards
  <2>7. Absent /\ \A o \in Exchanges \ {sl} : ops[o].pc = "idle"
    BY <2>6 DEF SyncInv, ImportIsAlone
  <2>8. Turns' /\ queue' \in Seq(Exchanges)
    BY <1>1, <2>2, <2>4, <2>6, TurnsSame DEF SyncInv
  <2>9. SubStays /\ Nobody \notin listed
    BY <2>4, StaysSame, CardsAssumption DEF SyncInv, SyncTyped
  <2> QED
    BY <1>1, <1>2, <1>3, <2>2, <2>3, <2>4, <2>6, <2>7, <2>8, <2>9, Moved
<1>5. CASE op.kind # "import"
  BY <1>1, <1>2, <1>3, <1>5, FailKept DEF S!WriteFails
<1> QED
  BY <1>4, <1>5

LEMMA AsksDevicesKept ==
  ASSUME SyncInv, NEW sl \in Exchanges, S!AsksDevices(sl)
  PROVE  SyncInv'
<1>1. /\ S!Turn(sl) /\ ops[sl].pc = "wait" /\ ops[sl].kind = "devices" /\ S!Unlock(sl)
      /\ UNCHANGED <<listed, secrets, mgr, srv, calls, faults>>
  BY DEF S!AsksDevices
<1>2. Elsewhere /\ SrvGoes(sl) /\ ~Absent
  BY <1>1, HeadAlone DEF SyncInv, SyncTyped, Elsewhere, SrvGoes
<1>3. CASE S!Step(sl, S!Idle) /\ (UNCHANGED sub \/ S!NotRecognised)
  <2>1. SubStays /\ ops' = [ops EXCEPT ![sl] = S!Idle]
    BY <1>3, StaysSame, NotRecognisedStays DEF SyncInv, S!Step
  <2> QED
    BY <1>1, <1>2, <2>1, IdleIsBlank, HandsOn
<1>4. CASE S!Gone(sl) /\ UNCHANGED sub
  <2>1. PICK c \in CallRecords : /\ Held(c) /\ c.pc = "revoke" /\ c.kind = ops[sl].kind /\ ops' = [ops EXCEPT ![sl] = c]
                                 /\ NamedBy(c) \subseteq NamedBy(ops[sl]) \cup S!OwnIds
    BY <1>1, <1>4, GoneCall
  <2>2. ~HasTurn(c) /\ ~Imports(c)
    BY <1>1, <2>1 DEF HasTurn, Imports, Refreshing
  <2>3. Turns' /\ queue' \in Seq(Exchanges)
    BY <1>1, <2>1, <2>2, TurnsUnlocked DEF SyncInv
  <2>4. SubStays
    BY <1>4, StaysSame DEF SyncInv
  <2> QED
    BY <1>1, <1>2, <2>1, <2>2, <2>3, <2>4, Moved
<1> QED
  BY <1>3, <1>4 DEF S!AsksDevices

\* A removal of the key's servers begins.
LEMMA TakesOff ==
  ASSUME SyncInv, NEW sl \in Exchanges, S!Step(sl, [ops[sl] EXCEPT !.pc = "takeoff", !.todo = ops[sl].snap]),
         (ops[sl].pc = "wait" /\ ops[sl].kind = "remove" /\ S!Turn(sl)) \/ ops[sl].pc = "revoked",
         UNCHANGED <<sub, listed, secrets, queue, mgr, calls, faults>>, SrvGoes(sl)
  PROVE  SyncInv'
<1> DEFINE op == ops[sl]
           c == [op EXCEPT !.pc = "takeoff", !.todo = op.snap]
<1>1. op \in CallRecords /\ Held(op)
  BY DEF SyncInv, SyncTyped, CallsHeld
<1>2. /\ op.own = <<>> /\ op.made = <<>> /\ op.half = Nobody /\ ~op.keyed
      /\ op.pc = "revoked" => op.kind \in Refreshing \cup {"devices"}
  BY <1>1 DEF Held
<1>3. op.snap \in SUBSET (Ids \cup Servers)
  BY <1>1 DEF CallRecords
<1>4. c \in CallRecords
  BY <1>1, <1>3 DEF CallRecords
<1>5. /\ c.pc = "takeoff" /\ c.kind = op.kind /\ c.own = <<>> /\ c.made = <<>> /\ c.half = Nobody /\ ~c.keyed
      /\ c.snap = op.snap /\ c.todo = op.snap
  BY <1>1, <1>2 DEF CallRecords
<1>6. ops' = [ops EXCEPT ![sl] = c]
  BY DEF S!Step
<1> HIDE DEF c
<1>7. Held(c) /\ ~Imports(c)
  BY <1>2, <1>5 DEF Held, Imports, Refreshing, Afterwards
<1>8. NamedBy(c) \subseteq NamedBy(op)
  BY <1>2, <1>5, CardsAssumption DEF NamedBy
<1>9. ~Absent
  BY DEF SyncInv, ImportIsAlone, Imports
<1>10. Turns' /\ queue' \in Seq(Exchanges)
  <2>1. CASE HasTurn(op) \/ op.pc = "wait"
    <3>1. HasTurn(c) /\ S!Turn(sl)
      BY <1>5, <2>1 DEF HasTurn, SyncInv, SyncTyped, Turns, S!Turn
    <3> QED
      BY <1>4, <1>6, <3>1, TurnsSame DEF SyncInv
  <2>2. CASE ~HasTurn(op) /\ op.pc # "wait"
    <3>1. ~HasTurn(c)
      BY <1>2, <1>5, <2>2 DEF HasTurn
    <3> QED
      BY <1>4, <1>6, <2>2, <3>1, TurnsSame DEF SyncInv
  <2> QED
    BY <2>1, <2>2
<1>11. SubStays /\ Elsewhere /\ c.half \notin listed
  BY <1>5, StaysSame, CardsAssumption DEF SyncInv, SyncTyped, Elsewhere
<1> QED
  BY <1>4, <1>5, <1>6, <1>7, <1>8, <1>9, <1>10, <1>11, Moved

LEMMA UnbindKept ==
  ASSUME SyncInv, NEW sl \in Exchanges, S!Unbind(sl)
  PROVE  SyncInv'
<1>1. srv \in Answers
  BY DEF SyncInv, SyncTyped
<1>2. srv' \in {srv, [srv EXCEPT !.gone = TRUE]}
  BY DEF S!Unbind
<1>3. SrvGoes(sl)
  BY <1>1, <1>2 DEF SrvGoes, Answers
<1>4. /\ ops[sl].pc = "wait" /\ ops[sl].kind = "remove" /\ S!Turn(sl)
      /\ UNCHANGED <<sub, listed, secrets, queue, mgr, calls, faults>>
      /\ S!Step(sl, [ops[sl] EXCEPT !.pc = "takeoff", !.todo = ops[sl].snap])
  BY DEF S!Unbind, S!diskVars
<1> QED
  BY <1>3, <1>4, TakesOff

LEMMA RevokeDownKept ==
  ASSUME SyncInv, NEW sl \in Exchanges, S!RevokeDown(sl)
  PROVE  SyncInv'
<1> DEFINE op == ops[sl]
           c == [op EXCEPT !.pc = "revoked"]
<1>1. op \in CallRecords /\ Held(op) /\ op.pc = "revoke" /\ mgr \in Managers
  BY DEF SyncInv, SyncTyped, CallsHeld, S!RevokeDown
<1>2. c \in CallRecords
  BY <1>1 DEF CallRecords
<1>3. /\ c.pc = "revoked" /\ c.kind = op.kind /\ c.own = op.own /\ c.made = op.made /\ c.half = op.half
      /\ c.keyed = op.keyed
      /\ c.snap = op.snap
  BY <1>1 DEF CallRecords
<1>4. ops' = [ops EXCEPT ![sl] = c] /\ UNCHANGED <<sub, listed, secrets, queue, srv, calls, faults>>
  BY DEF S!RevokeDown, S!Step, S!diskVars
<1> HIDE DEF c
<1>5. Held(c) /\ ~Imports(c) /\ (HasTurn(c) <=> HasTurn(op))
  BY <1>1, <1>3 DEF Held, Imports, HasTurn, Refreshing, Afterwards
<1>6. NamedBy(c) \subseteq NamedBy(op)
  BY <1>1, <1>3 DEF NamedBy
<1>7. ~Absent
  BY <1>1 DEF SyncInv, ImportIsAlone, Imports
<1>8. Turns' /\ queue' \in Seq(Exchanges)
  <2>1. HasTurn(op) => S!Turn(sl)
    BY DEF SyncInv, SyncTyped, Turns, S!Turn
  <2> QED
    BY <1>1, <1>2, <1>4, <1>5, <2>1, TurnsSame DEF SyncInv
<1>9. mgr' \in Managers
  BY <1>1 DEF S!RevokeDown, S!GoDown, Managers
<1>10. SubStays /\ Elsewhere /\ SrvGoes(sl)
  BY <1>4, <1>9, StaysSame DEF SyncInv, SyncTyped, Elsewhere, SrvGoes
<1> QED
  BY <1>1, <1>2, <1>3, <1>4, <1>5, <1>6, <1>7, <1>8, <1>10, Moved

LEMMA RevokedKept ==
  ASSUME SyncInv, NEW sl \in Exchanges, S!Revoked(sl)
  PROVE  SyncInv'
<1>1. /\ ops[sl].pc = "revoked" /\ UNCHANGED <<listed, secrets, mgr, srv, calls, faults>>
  BY DEF S!Revoked
<1>2. Elsewhere /\ SrvGoes(sl) /\ ~Absent
  BY <1>1 DEF SyncInv, SyncTyped, ImportIsAlone, Imports, Elsewhere, SrvGoes
<1>3. CASE S!NotRecognised /\ (S!Step(sl, S!Idle) \/ S!After(sl, "failed")) /\ S!Unlock(sl)
  <2>1. SubStays
    BY <1>3, NotRecognisedStays DEF SyncInv
  <2>2. PICK c : Blank(c) /\ ops' = [ops EXCEPT ![sl] = c]
    BY <1>3, AfterCall, IdleIsBlank DEF S!Step
  <2> QED
    BY <1>1, <1>2, <1>3, <2>1, <2>2, HandsOn
<1>4. CASE /\ S!Step(sl, [ops[sl] EXCEPT !.pc = "takeoff", !.todo = ops[sl].snap])
           /\ UNCHANGED <<sub, queue>>
  BY <1>1, <1>2, <1>4, TakesOff
<1> QED
  BY <1>3, <1>4 DEF S!Revoked

(* The writes of apply() and import() *)

LEMMA Writer ==
  ASSUME SyncInv, NEW sl \in Exchanges, ops[sl].pc = "write"
  PROVE  /\ ops[sl] \in CallRecords /\ Held(ops[sl]) /\ KeyInHand(ops[sl]) /\ Making(ops[sl]) /\ CopyOf(ops[sl]) /\ Works(ops[sl])
         /\ \A o \in Exchanges : S!CardsOf(ops[sl].made) \cap NamedBy(ops[o]) = {}
         /\ \A o \in Exchanges \ {sl} : ~Works(ops[o]) /\ ops[o].pc \notin {"rekey", "write", "sweep"}
<1>1. ops[sl] \in CallRecords /\ Held(ops[sl]) /\ KeyInHand(ops[sl]) /\ Making(ops[sl]) /\ CopyOf(ops[sl])
  BY DEF SyncInv, SyncTyped, CallsHeld, CardsMade, Copied
<1>2. Works(ops[sl])
  BY <1>1, WorksWhen
<1>3. \A o \in Exchanges \ {sl} : ~Works(ops[o])
  BY <1>2, OneWorks DEF SyncInv
<1>4. \A o \in Exchanges \ {sl} : ops[o].pc \notin {"rekey", "write", "sweep"}
  BY <1>3, WorksWhen DEF SyncInv, CallsHeld
<1> QED
  BY <1>1, <1>2, <1>3, <1>4 DEF SyncInv, CardsMade

LEMMA WriteSteps ==
  ASSUME SyncInv, NEW sl \in Exchanges, ops[sl].pc = "write", NEW c \in CallRecords, ops' = [ops EXCEPT ![sl] = c],
         c.pc = "write", c.kind = ops[sl].kind, c.own = ops[sl].own, c.snap = ops[sl].snap, c.keyed => ops[sl].keyed,
         UNCHANGED <<sub, queue, mgr, srv, calls, faults>>, listed \subseteq listed', listed' \subseteq Ids,
         secrets' \in [Ids -> [key : Nat, psk : Nat]], KeyInHand(c),
         \A o \in Exchanges : ops[o].pc \in {"sweep", "takeoff"} => ops[o].half \notin listed',
         Making(c)', \A o \in Exchanges : S!CardsOf(c.made) \cap NamedBy(ops[o]) = {},
         CopyOf(c)', Claims', ListedHasKeys'
  PROVE  SyncInv'
<1>1. \A o \in Exchanges : ops'[o] = IF o = sl THEN c ELSE ops[o]
  BY DEF SyncInv, SyncTyped
<1>2. S!OwnIds' = S!OwnIds /\ (S!On' <=> S!On) /\ (Absent' <=> Absent)
  BY DEF S!OwnIds, S!CardsOf, S!On, Absent
<1>3. Held(c) /\ (HasTurn(c) <=> HasTurn(ops[sl])) /\ (Imports(c) <=> Imports(ops[sl]))
  BY Writer DEF Held, HasTurn, Imports, Afterwards
<1>4. NamedBy(c) = NamedBy(ops[sl])
  BY DEF NamedBy
<1>5. SyncTyped'
  BY <1>1 DEF SyncInv, SyncTyped
<1>6. CallsHeld'
  BY <1>1, <1>3 DEF SyncInv, CallsHeld, KeyInHand
<1>7. Turns'
  <2>1. HasTurn(ops[sl]) => S!Turn(sl)
    BY DEF SyncInv, SyncTyped, Turns, S!Turn
  <2> QED
    BY <1>3, <2>1, TurnsSame DEF SyncInv
<1>8. ImportIsAlone'
  BY <1>1, <1>2, <1>3 DEF SyncInv, ImportIsAlone, Imports
<1>9. CardsMade'
  <2>1. \A o \in Exchanges \ {sl} : ops'[o].pc # "write"
    BY <1>1, Writer
  <2>2. Making(ops[sl])'
    BY <1>1 DEF Making
  <2>3. S!CardsOf(ops[sl].made)' = S!CardsOf(c.made)
    BY <1>1 DEF S!CardsOf
  <2>4. \A o \in Exchanges : NamedBy(ops[o])' = NamedBy(ops[o])
    BY <1>1, <1>4 DEF NamedBy, S!CardsOf
  <2> QED
    BY <2>1, <2>2, <2>3, <2>4 DEF CardsMade
<1>10. CardsTaken'
  BY <1>1 DEF CardsTaken
<1>11. Copied'
  <2>1. CopyOf(ops[sl])'
    BY <1>1 DEF CopyOf
  <2>2. \A o \in Exchanges \ {sl} : ops'[o].pc \notin {"rekey", "write"}
    BY <1>1, Writer
  <2> QED
    BY <2>1, <2>2 DEF Copied, CopyOf
<1>12. Numbers'
  BY <1>2 DEF SyncInv, Numbers
<1>13. Current'
  <2>1. S!On => sub.rev < srv.rev
    BY Writer DEF CopyOf
  <2>2. sub.rev \in Nat /\ srv.rev \in Nat
    BY DEF SyncInv, SyncTyped, SubRecords, Answers
  <2> QED
    BY <1>2, <2>1, <2>2 DEF Current
<1>14. Missing'
  BY <1>1, <1>2 DEF SyncInv, Missing
<1> QED
  BY <1>5, <1>6, <1>7, <1>8, <1>9, <1>10, <1>11, <1>12, <1>13, <1>14 DEF SyncInv

LEMMA SavedIs ==
  ASSUME SyncInv, NEW c \in CallRecords, NEW id \in Ids
  PROVE  /\ S!Saved(id, c) \in [Ids -> [key : Nat, psk : Nat]]
         /\ \A x \in Ids \ {id} : S!Saved(id, c)[x] = secrets[x]
         /\ S!Saved(id, c)[id].psk = c.psk
         /\ c.key # 0 => S!Saved(id, c)[id] # S!NoKeys
<1>1. secrets \in [Ids -> [key : Nat, psk : Nat]]
  BY DEF SyncInv, SyncTyped
<1>2. [key |-> c.key, psk |-> c.psk] \in [key : Nat, psk : Nat]
  BY DEF CallRecords
<1>3. S!Saved(id, c)[id] = [key |-> c.key, psk |-> c.psk]
  BY <1>1 DEF S!Saved
<1>4. c.key # 0 => [key |-> c.key, psk |-> c.psk] # S!NoKeys
  BY DEF S!NoKeys
<1> QED
  BY <1>1, <1>2, <1>3, <1>4 DEF S!Saved

LEMMA UpdateKept ==
  ASSUME SyncInv, NEW sl \in Exchanges, NEW s \in Servers, S!Update(sl, s)
  PROVE  SyncInv'
<1> DEFINE op == ops[sl]
           id == op.own[s].id
<1>0. PICK c : c = [op EXCEPT !.todo = op.todo \ {s}]
  OBVIOUS
<1>1. op.pc = "write" /\ op.half = Nobody /\ s \in op.todo /\ s \in DOMAIN op.own /\ id \in listed
  BY DEF S!Update, S!Writing
<1>2. op \in CallRecords /\ KeyInHand(op) /\ Making(op) /\ CopyOf(op) /\ Held(op)
  BY <1>1, Writer
<1>3. /\ secrets' = IF S!NewKeys(op, s) THEN S!Saved(id, op) ELSE secrets
      /\ UNCHANGED <<sub, listed, queue, mgr, srv, calls, faults>> /\ ops' = [ops EXCEPT ![sl] = c]
  BY <1>0, <1>2 DEF S!Update, S!Step, CallRecords
<1>4. id \in Ids /\ listed \subseteq Ids /\ secrets \in [Ids -> [key : Nat, psk : Nat]]
  BY <1>1 DEF SyncInv, SyncTyped
<1>5. op.todo \ {s} \in SUBSET (Ids \cup Servers)
  BY <1>2 DEF CallRecords
<1>6. c \in CallRecords
  BY <1>0, <1>2, <1>5 DEF CallRecords
<1>7. /\ c.pc = "write" /\ c.kind = op.kind /\ c.own = op.own /\ c.snap = op.snap /\ c.keyed = op.keyed
      /\ c.todo = op.todo \ {s} /\ c.key = op.key /\ c.psk = op.psk /\ c.made = op.made /\ c.set = op.set
      /\ c.rev = op.rev /\ c.half = Nobody
  BY <1>0, <1>1, <1>2 DEF CallRecords
<1>8. KeyInHand(c)
  BY <1>1, <1>2, <1>7 DEF KeyInHand
<1>9. secrets' \in [Ids -> [key : Nat, psk : Nat]]
  BY <1>2, <1>3, <1>4, SavedIs
<1>10. S!NewKeys(op, s) => op.key # 0
  BY <1>1, <1>2 DEF KeyInHand, S!NewKeys
<1>11. \A x \in Ids : secrets'[x].psk = secrets[x].psk \/ secrets'[x].psk = op.psk
  <2>1. CASE S!NewKeys(op, s)
    <3>1. secrets' = S!Saved(id, op)
      BY <1>3, <2>1
    <3>2. (\A x \in Ids \ {id} : S!Saved(id, op)[x] = secrets[x]) /\ S!Saved(id, op)[id].psk = op.psk
      BY <1>2, <1>4, SavedIs
    <3> HIDE DEF id
    <3> QED
      BY <3>1, <3>2
  <2>2. CASE ~S!NewKeys(op, s)
    BY <1>3, <2>2
  <2> QED
    BY <2>1, <2>2
<1>12. ListedHasKeys'
  <2>1. \A x \in listed : secrets'[x] # S!NoKeys
    BY <1>2, <1>3, <1>4, <1>10, SavedIs DEF SyncInv, ListedHasKeys, S!ListedHasKeys
  <2> QED
    BY <1>3, <2>1 DEF ListedHasKeys, S!ListedHasKeys, S!NoKeys
<1>13. S!OwnIds' = S!OwnIds /\ (S!On' <=> S!On)
  BY <1>3 DEF S!OwnIds, S!CardsOf, S!On
<1>14. op.psk = srv.psk
  BY <1>1, <1>2 DEF CopyOf
<1>15. Making(c)'
  <2>1. \A t \in DOMAIN op.made : op.made[t].id \in Ids
    BY <1>2, CardsAre DEF CallRecords
  <2> QED
    BY <1>1, <1>2, <1>3, <1>7, <1>11, <1>13, <2>1 DEF Making, S!CardsOf
<1>16. Claims'
  <2>1. sub.own \in Owns
    BY DEF SyncInv, SyncTyped, SubRecords
  <2>2. \A t \in DOMAIN sub.own : sub.own[t].id \in Ids
    BY <2>1, CardsAre
  <2> QED
    BY <1>3, <1>11, <1>13, <1>14, <2>2 DEF SyncInv, Claims, HasPsk
<1>17. CopyOf(c)'
  <2>1. S!On => secrets'[id].psk = op.psk
    <3>1. CASE S!NewKeys(op, s)
      BY <1>2, <1>3, <1>4, <3>1, SavedIs
    <3>2. CASE ~S!NewKeys(op, s) /\ S!On
      <4>1. op.own = sub.own /\ op.own[s].psk = srv.psk
        BY <1>1, <1>2, <1>14, <3>2 DEF CopyOf, S!NewKeys
      <4> QED
        BY <1>1, <1>3, <1>14, <3>2, <4>1 DEF SyncInv, Claims, HasPsk
    <3> QED
      BY <3>1, <3>2
  <2>2. \A t \in DOMAIN op.own : op.own[t].id \in Ids
    BY <1>2, CardsAre DEF CallRecords
  <2> QED
    BY <1>1, <1>2, <1>3, <1>7, <1>11, <1>13, <2>1, <2>2 DEF CopyOf
<1>18. \A o \in Exchanges : S!CardsOf(c.made) \cap NamedBy(ops[o]) = {}
  BY <1>1, <1>7, Writer
<1>19. \A o \in Exchanges : ops[o].pc \in {"sweep", "takeoff"} => ops[o].half \notin listed'
  BY <1>3 DEF SyncInv, CardsTaken
<1> QED
  BY <1>1, <1>3, <1>4, <1>6, <1>7, <1>8, <1>9, <1>12, <1>15, <1>16, <1>17, <1>18, <1>19, WriteSteps

LEMMA SaveKeysKept ==
  ASSUME SyncInv, NEW sl \in Exchanges, NEW s \in Servers, S!SaveKeys(sl, s)
  PROVE  SyncInv'
<1> DEFINE op == ops[sl]
           id == CHOOSE i \in S!Fresh : TRUE
           made == [t \in DOMAIN op.made \cup {s} |-> IF t = s THEN [id |-> id, psk |-> op.psk] ELSE op.made[t]]
<1>1. op.pc = "write" /\ op.half = Nobody /\ s \in op.todo /\ s \notin DOMAIN op.own /\ S!Fresh # {}
  BY DEF S!SaveKeys, S!Writing
<1>2. op \in CallRecords /\ KeyInHand(op) /\ Making(op) /\ CopyOf(op) /\ Held(op)
  BY <1>1, Writer
<1>3. /\ secrets' = S!Saved(id, op)
      /\ UNCHANGED <<sub, listed, queue, mgr, srv, calls, faults>>
      /\ ops' = [ops EXCEPT ![sl] = [op EXCEPT !.todo = @ \ {s}, !.half = id,
                                            !.made = [t \in DOMAIN @ \cup {s} |-> IF t = s THEN [id |-> id, psk |-> op.psk] ELSE @[t]]]]
  BY DEF S!SaveKeys, S!Step
<1>4. id \in S!Fresh
  BY <1>1
<1> HIDE DEF id
<1>5. /\ id \in Ids /\ id \notin listed /\ id \notin S!OwnIds /\ id # Nobody
      /\ \A o \in Exchanges : id \notin NamedBy(ops[o]) /\ id \notin S!CardsOf(ops[o].made) /\ id # ops[o].half
  BY <1>4, CardsAssumption DEF S!Fresh, NamedBy
<1>0. PICK c : c = [op EXCEPT !.todo = op.todo \ {s}, !.half = id, !.made = made]
  OBVIOUS
<1>6. ops' = [ops EXCEPT ![sl] = c]
  BY <1>0, <1>2, <1>3 DEF CallRecords
<1>7. op.made \in Owns /\ op.psk \in Nat /\ (op.todo \ {s}) \in SUBSET (Ids \cup Servers) /\ op.key # 0
  BY <1>1, <1>2 DEF CallRecords, KeyInHand
<1>8. /\ DOMAIN op.made \subseteq Servers
      /\ \A t \in DOMAIN op.made : op.made[t].id \in Ids /\ op.made[t].id # id /\ op.made[t] \in [id : Ids, psk : Nat]
  BY <1>5, <1>7, OwnsHave, CardsAre
<1>9. /\ DOMAIN made = DOMAIN op.made \cup {s}
      /\ \A t \in DOMAIN made : made[t] = IF t = s THEN [id |-> id, psk |-> op.psk] ELSE op.made[t]
  OBVIOUS
<1>10. made \in [DOMAIN op.made \cup {s} -> [id : Ids, psk : Nat]]
  BY <1>5, <1>7, <1>8
<1> HIDE DEF made
<1>11. made \in Owns
  BY <1>8, <1>9, <1>10, OwnsHave
<1>12. c \in CallRecords
  BY <1>0, <1>2, <1>5, <1>7, <1>11 DEF CallRecords
<1>13. /\ c.pc = "write" /\ c.kind = op.kind /\ c.own = op.own /\ c.snap = op.snap /\ c.keyed = op.keyed
       /\ c.todo = op.todo \ {s} /\ c.key = op.key /\ c.psk = op.psk /\ c.made = made /\ c.set = op.set
       /\ c.rev = op.rev /\ c.half = id
  BY <1>0, <1>1, <1>2 DEF CallRecords
<1>14. KeyInHand(c)
  BY <1>1, <1>2, <1>13 DEF KeyInHand
<1>15. secrets' \in [Ids -> [key : Nat, psk : Nat]] /\ listed \subseteq Ids
  BY <1>2, <1>3, <1>5, SavedIs DEF SyncInv, SyncTyped
<1>16. (\A x \in Ids : x # id => secrets'[x] = secrets[x]) /\ secrets'[id].psk = op.psk /\ secrets'[id] # S!NoKeys
  BY <1>2, <1>3, <1>5, <1>7, SavedIs
<1>17. S!OwnIds' = S!OwnIds /\ (S!On' <=> S!On)
  BY <1>3 DEF S!OwnIds, S!CardsOf, S!On
<1>18. S!CardsOf(made) = S!CardsOf(op.made) \cup {id}
  <2>1. s \notin DOMAIN op.made
    BY <1>1, <1>2 DEF Making
  <2> QED
    BY <1>9, <2>1 DEF S!CardsOf
<1>19. ListedHasKeys'
  <2>1. \A x \in listed : secrets'[x] # S!NoKeys
    BY <1>5, <1>15, <1>16 DEF SyncInv, ListedHasKeys, S!ListedHasKeys
  <2> QED
    BY <1>3, <2>1 DEF ListedHasKeys, S!ListedHasKeys, S!NoKeys
<1>20. Making(c)'
  <2>1. S!CardsOf(c.made) \cap S!OwnIds = {}
    BY <1>2, <1>5, <1>13, <1>18 DEF Making
  <2>2. c.todo \subseteq c.set /\ DOMAIN c.made = (c.set \ c.todo) \ DOMAIN c.own
    BY <1>1, <1>2, <1>9, <1>13 DEF Making
  <2>3. \A t \in DOMAIN c.made : /\ c.made[t].psk = c.psk /\ secrets'[c.made[t].id].psk = c.psk
                                 /\ c.made[t].id \in listed \/ c.made[t].id = c.half
    <3> SUFFICES ASSUME NEW t \in DOMAIN made
                 PROVE  /\ made[t].psk = op.psk /\ secrets'[made[t].id].psk = op.psk
                        /\ made[t].id \in listed \/ made[t].id = id
      BY <1>13
    <3>1. CASE t = s
      <4>1. made[t] = [id |-> id, psk |-> op.psk]
        BY <1>9, <3>1
      <4> QED
        BY <1>16, <4>1
    <3>2. CASE t # s
      <4>1. made[t] = op.made[t] /\ t \in DOMAIN op.made
        BY <1>9, <3>2
      <4>2. op.made[t].id \in Ids /\ op.made[t].id # id
        BY <1>8, <4>1
      <4>3. op.made[t].psk = op.psk /\ secrets[op.made[t].id].psk = op.psk /\ op.made[t].id \in listed
        BY <1>1, <1>2, <4>1, <4>2, CardsAssumption DEF Making
      <4> QED
        BY <1>16, <4>1, <4>2, <4>3
    <3> QED
      BY <3>1, <3>2
  <2>4. c.half \in S!CardsOf(c.made) \ listed /\ secrets'[c.half] # S!NoKeys
    BY <1>5, <1>13, <1>16, <1>18
  <2> QED
    BY <1>3, <1>17, <2>1, <2>2, <2>3, <2>4 DEF Making, S!CardsOf, S!NoKeys
<1>21. \A x \in listed : secrets'[x] = secrets[x]
  BY <1>5, <1>15, <1>16
<1>22. Claims'
  BY <1>3, <1>17, <1>21 DEF SyncInv, Claims, HasPsk
<1>23. CopyOf(c)'
  BY <1>1, <1>2, <1>3, <1>13, <1>17, <1>21 DEF CopyOf
<1>24. \A o \in Exchanges : S!CardsOf(c.made) \cap NamedBy(ops[o]) = {}
  BY <1>1, <1>5, <1>13, <1>18, Writer
<1>25. \A o \in Exchanges : ops[o].pc \in {"sweep", "takeoff"} => ops[o].half \notin listed'
  BY <1>3 DEF SyncInv, CardsTaken
<1> QED
  BY <1>1, <1>3, <1>6, <1>12, <1>13, <1>14, <1>15, <1>19, <1>20, <1>22, <1>23, <1>24, <1>25, WriteSteps

LEMMA SaveCardKept ==
  ASSUME SyncInv, NEW sl \in Exchanges, S!SaveCard(sl)
  PROVE  SyncInv'
<1> DEFINE op == ops[sl]
<1>0. PICK c : c = [op EXCEPT !.half = Nobody]
  OBVIOUS
<1>1. op.pc = "write" /\ op.half # Nobody
  BY DEF S!SaveCard
<1>2. op \in CallRecords /\ KeyInHand(op) /\ Making(op) /\ CopyOf(op) /\ Held(op)
  BY <1>1, Writer
<1>3. /\ listed' = listed \cup {op.half} /\ UNCHANGED <<sub, secrets, queue, mgr, srv, calls, faults>>
      /\ ops' = [ops EXCEPT ![sl] = c]
  BY <1>0 DEF S!SaveCard, S!Step
<1>4. op.half \in Ids /\ op.half \in S!CardsOf(op.made) /\ secrets[op.half] # S!NoKeys /\ op.half \notin S!OwnIds
  BY <1>1, <1>2 DEF CallRecords, Making
<1>5. c \in CallRecords
  BY <1>0, <1>2 DEF CallRecords
<1>6. /\ c.pc = "write" /\ c.kind = op.kind /\ c.own = op.own /\ c.snap = op.snap /\ c.keyed = op.keyed
      /\ c.todo = op.todo /\ c.key = op.key /\ c.psk = op.psk /\ c.made = op.made /\ c.set = op.set
      /\ c.rev = op.rev /\ c.half = Nobody
  BY <1>0, <1>1, <1>2 DEF CallRecords
<1>7. KeyInHand(c)
  BY <1>1, <1>2, <1>6 DEF KeyInHand
<1>8. secrets' \in [Ids -> [key : Nat, psk : Nat]] /\ listed' \subseteq Ids
  BY <1>3, <1>4 DEF SyncInv, SyncTyped
<1>9. S!OwnIds' = S!OwnIds /\ (S!On' <=> S!On)
  BY <1>3 DEF S!OwnIds, S!CardsOf, S!On
<1>10. ListedHasKeys'
  BY <1>3, <1>4 DEF SyncInv, ListedHasKeys, S!ListedHasKeys, S!NoKeys
<1>11. Making(c)'
  BY <1>2, <1>3, <1>6, <1>9 DEF Making, S!CardsOf, S!NoKeys
<1>12. \A t \in DOMAIN sub.own : sub.own[t].id \in S!OwnIds
  BY DEF S!OwnIds, S!CardsOf
<1>13. Claims'
  BY <1>3, <1>4, <1>9, <1>12 DEF SyncInv, Claims, HasPsk
<1>14. CopyOf(c)'
  BY <1>1, <1>2, <1>3, <1>4, <1>6, <1>9, <1>12 DEF CopyOf
<1>15. \A o \in Exchanges : S!CardsOf(c.made) \cap NamedBy(ops[o]) = {}
  BY <1>1, <1>6, Writer
<1>16. \A o \in Exchanges : ops[o].pc \in {"sweep", "takeoff"} => ops[o].half \notin listed'
  <2>1. \A o \in Exchanges : op.half \notin NamedBy(ops[o])
    BY <1>1, <1>4, Writer
  <2> QED
    BY <1>3, <1>4, <2>1 DEF SyncInv, CardsTaken, NamedBy
<1> QED
  BY <1>1, <1>3, <1>5, <1>6, <1>7, <1>8, <1>10, <1>11, <1>13, <1>14, <1>15, <1>16, WriteSteps

(* The removals of cards *)

\* A call takes one more of its cards, or the keys of one that it took.
LEMMA TakeSteps ==
  ASSUME SyncInv, NEW sl \in Exchanges, ops[sl].pc \in {"sweep", "takeoff"}, NEW c \in CallRecords,
         ops' = [ops EXCEPT ![sl] = c], Held(c), c.pc = ops[sl].pc, c.kind = ops[sl].kind,
         ops[sl].snap \subseteq c.snap, NamedBy(c) \subseteq NamedBy(ops[sl]),
         UNCHANGED <<sub, queue, mgr, srv, calls>>, faults' \in {faults, faults + 1},
         listed' \subseteq listed, listed \ listed' \subseteq NamedBy(ops[sl]),
         ops[sl].pc = "sweep" => listed \ listed' \subseteq c.snap,
         secrets' \in [Ids -> [key : Nat, psk : Nat]], \A x \in listed' : secrets'[x] = secrets[x],
         \A x \in Ids \ NamedBy(ops[sl]) : secrets'[x] = secrets[x],
         c.half \notin listed'
  PROVE  SyncInv'
<1>1. \A o \in Exchanges : ops'[o] = IF o = sl THEN c ELSE ops[o]
  BY DEF SyncInv, SyncTyped
<1>2. S!OwnIds' = S!OwnIds /\ (S!On' <=> S!On) /\ (Absent' <=> Absent)
  BY DEF S!OwnIds, S!CardsOf, S!On, Absent
<1>3. (HasTurn(c) <=> HasTurn(ops[sl])) /\ (Imports(c) <=> Imports(ops[sl]))
  BY DEF HasTurn, Imports
<1>0. faults \in Nat /\ faults' \in Nat /\ (faults' = 0 => faults = 0)
  BY DEF SyncInv, SyncTyped
<1>4. SyncTyped'
  BY <1>0, <1>1 DEF SyncInv, SyncTyped
<1>5. CallsHeld'
  BY <1>1 DEF SyncInv, CallsHeld, KeyInHand
<1>6. Turns'
  <2>1. HasTurn(ops[sl]) => S!Turn(sl)
    BY DEF SyncInv, SyncTyped, Turns, S!Turn
  <2> QED
    BY <1>3, <2>1, TurnsSame DEF SyncInv
<1>7. ImportIsAlone'
  BY <1>1, <1>2, <1>3 DEF SyncInv, ImportIsAlone, Imports
<1>8. CardsMade'
  <2> SUFFICES ASSUME NEW o \in Exchanges, ops'[o].pc = "write"
               PROVE  /\ Making(ops[o])'
                      /\ \A p \in Exchanges : S!CardsOf(ops[o].made)' \cap NamedBy(ops[p])' = {}
    BY DEF CardsMade
  <2>1. ops'[o] = ops[o] /\ ops[o].pc = "write"
    BY <1>1
  <2>2. Making(ops[o]) /\ \A p \in Exchanges : S!CardsOf(ops[o].made) \cap NamedBy(ops[p]) = {}
    BY <2>1, Writer
  <2>3. S!CardsOf(ops[o].made) \cap NamedBy(ops[sl]) = {} /\ S!CardsOf(ops[o].made) \subseteq Ids
    BY <2>2, CardsAre DEF SyncInv, SyncTyped, CallRecords
  <2>4. \A x \in S!CardsOf(ops[o].made) : secrets'[x] = secrets[x] /\ (x \in listed' <=> x \in listed)
    BY <2>3
  <2>5. Making(ops[o])'
    BY <1>2, <2>1, <2>2, <2>4 DEF Making, S!NoKeys, S!CardsOf
  <2>6. S!CardsOf(ops[o].made)' = S!CardsOf(ops[o].made)
    BY <2>1 DEF S!CardsOf
  <2>7. \A p \in Exchanges : NamedBy(ops[p])' = IF p = sl THEN NamedBy(c) ELSE NamedBy(ops[p])
    BY <1>1 DEF NamedBy, S!CardsOf
  <2> QED
    BY <2>2, <2>3, <2>5, <2>6, <2>7
<1>9. CardsTaken'
  BY <1>1 DEF SyncInv, CardsTaken
<1>10. Copied'
  <2> SUFFICES ASSUME NEW o \in Exchanges, o # sl
               PROVE  CopyOf(ops[o])'
    BY <1>1 DEF Copied, CopyOf
  <2>1. ops'[o] = ops[o] /\ CopyOf(ops[o])
    BY <1>1 DEF SyncInv, Copied
  <2>2. \A x \in listed' : x \in listed /\ secrets'[x] = secrets[x]
    OBVIOUS
  <2> QED
    BY <1>2, <2>1, <2>2 DEF CopyOf
<1>11. Numbers'
  BY <1>2 DEF SyncInv, Numbers
<1>12. Claims' /\ Current'
  BY <1>2 DEF SyncInv, Claims, Current, HasPsk
<1>13. Missing'
  <2> SUFFICES ASSUME S!On, faults = 0, ops[sl].pc = "sweep", \A o \in Exchanges : ops[o].pc # "takeoff"
               PROVE  \A x \in S!OwnIds \ listed' : \E o \in Exchanges : ops'[o].pc = "sweep" /\ x \in ops'[o].snap
    BY <1>0, <1>1, <1>2 DEF Missing, SyncInv
  <2>1. \A x \in S!OwnIds \ listed : \E o \in Exchanges : ops[o].pc = "sweep" /\ x \in ops[o].snap
    BY DEF SyncInv, Missing
  <2> QED
    BY <1>1, <2>1
<1>14. ListedHasKeys'
  BY DEF SyncInv, ListedHasKeys, S!ListedHasKeys, S!NoKeys
<1> QED
  BY <1>4, <1>5, <1>6, <1>7, <1>8, <1>9, <1>10, <1>11, <1>12, <1>13, <1>14 DEF SyncInv

LEMMA TakeCardKept ==
  ASSUME SyncInv, NEW sl \in Exchanges, NEW id \in Ids, S!TakeCard(sl, id)
  PROVE  SyncInv'
<1> DEFINE op == ops[sl]
<1>1. /\ op.pc \in {"sweep", "takeoff"} /\ op.half = Nobody /\ id \in op.todo
      /\ UNCHANGED <<sub, secrets, queue, mgr, srv, calls>> /\ faults' \in {faults, faults + 1}
  BY DEF S!TakeCard
<1>2. /\ op \in CallRecords /\ Held(op) /\ listed \subseteq Ids /\ secrets \in [Ids -> [key : Nat, psk : Nat]]
      /\ Nobody \notin Ids
  BY CardsAssumption DEF SyncInv, SyncTyped, CallsHeld
<1>3. op.todo \ {id} \in SUBSET (Ids \cup Servers) /\ op.snap \cup {id} \in SUBSET Ids
  BY <1>2 DEF CallRecords
<1>4. id \in NamedBy(op)
  BY <1>1 DEF NamedBy
<1>5. CASE S!Step(sl, [op EXCEPT !.todo = op.todo \ {id}]) /\ UNCHANGED listed
  <2>0. PICK c : c = [op EXCEPT !.todo = op.todo \ {id}]
    OBVIOUS
  <2>1. c \in CallRecords
    BY <1>2, <1>3, <2>0 DEF CallRecords
  <2>2. /\ c.pc = op.pc /\ c.kind = op.kind /\ c.own = op.own /\ c.made = op.made /\ c.half = Nobody /\ c.keyed = op.keyed
        /\ c.snap = op.snap /\ c.todo = op.todo \ {id}
    BY <1>1, <1>2, <2>0 DEF CallRecords
  <2>3. ops' = [ops EXCEPT ![sl] = c]
    BY <1>5, <2>0 DEF S!Step
  <2>4. Held(c) /\ NamedBy(c) \subseteq NamedBy(op) /\ c.half \notin listed'
    BY <1>1, <1>2, <1>5, <2>2 DEF Held, NamedBy
  <2> QED
    BY <1>1, <1>2, <1>5, <2>1, <2>2, <2>3, <2>4, TakeSteps
<1>6. CASE /\ S!Step(sl, [op EXCEPT !.todo = op.todo \ {id}, !.half = id, !.snap = op.snap \cup {id}])
           /\ listed' = listed \ {id}
  <2>0. PICK c : c = [op EXCEPT !.todo = op.todo \ {id}, !.half = id, !.snap = op.snap \cup {id}]
    OBVIOUS
  <2>1. c \in CallRecords
    BY <1>2, <1>3, <2>0 DEF CallRecords
  <2>2. /\ c.pc = op.pc /\ c.kind = op.kind /\ c.own = op.own /\ c.made = op.made /\ c.half = id /\ c.keyed = op.keyed
        /\ c.snap = op.snap \cup {id} /\ c.todo = op.todo \ {id}
    BY <1>2, <2>0 DEF CallRecords
  <2>3. ops' = [ops EXCEPT ![sl] = c]
    BY <1>6, <2>0 DEF S!Step
  <2>4. Held(c) /\ NamedBy(c) \subseteq NamedBy(op) /\ c.half \notin listed'
    BY <1>1, <1>2, <1>4, <1>6, <2>2 DEF Held, NamedBy, Afterwards
  <2> QED
    BY <1>1, <1>2, <1>4, <1>6, <2>1, <2>2, <2>3, <2>4, TakeSteps
<1>7. CASE /\ S!Step(sl, [op EXCEPT !.todo = op.todo \ {id}, !.snap = op.snap \cup {id}])
           /\ UNCHANGED listed
  <2>0. PICK c : c = [op EXCEPT !.todo = op.todo \ {id}, !.snap = op.snap \cup {id}]
    OBVIOUS
  <2>1. c \in CallRecords
    BY <1>2, <1>3, <2>0 DEF CallRecords
  <2>2. /\ c.pc = op.pc /\ c.kind = op.kind /\ c.own = op.own /\ c.made = op.made /\ c.half = Nobody /\ c.keyed = op.keyed
        /\ c.snap = op.snap \cup {id} /\ c.todo = op.todo \ {id}
    BY <1>1, <1>2, <2>0 DEF CallRecords
  <2>3. ops' = [ops EXCEPT ![sl] = c]
    BY <1>7, <2>0 DEF S!Step
  <2>4. Held(c) /\ NamedBy(c) \subseteq NamedBy(op) /\ c.half \notin listed'
    BY <1>1, <1>2, <1>4, <1>7, <2>2 DEF Held, NamedBy, Afterwards
  <2> QED
    BY <1>1, <1>2, <1>4, <1>7, <2>1, <2>2, <2>3, <2>4, TakeSteps
<1> QED
  BY <1>2, <1>5, <1>6, <1>7 DEF S!TakeCard, S!Dropped, CallRecords

LEMMA TakeKeysKept ==
  ASSUME SyncInv, NEW sl \in Exchanges, S!TakeKeys(sl)
  PROVE  SyncInv'
<1> DEFINE op == ops[sl]
<1>0. PICK c : c = [op EXCEPT !.half = Nobody]
  OBVIOUS
<1>1. /\ op.pc \in {"sweep", "takeoff"} /\ op.half # Nobody /\ ops' = [ops EXCEPT ![sl] = c]
      /\ UNCHANGED <<sub, listed, queue, mgr, srv, calls>> /\ faults' \in {faults, faults + 1}
      /\ secrets' = [secrets EXCEPT ![op.half] = S!NoKeys] \/ UNCHANGED secrets
  BY <1>0 DEF S!TakeKeys, S!Step
<1>2. /\ op \in CallRecords /\ Held(op) /\ listed \subseteq Ids /\ secrets \in [Ids -> [key : Nat, psk : Nat]]
      /\ Nobody \notin Ids
  BY CardsAssumption DEF SyncInv, SyncTyped, CallsHeld
<1>3. op.half \in Ids /\ op.half \notin listed
  BY <1>1, <1>2 DEF CallRecords, SyncInv, CardsTaken
<1>4. c \in CallRecords
  BY <1>0, <1>2 DEF CallRecords
<1>5. /\ c.pc = op.pc /\ c.kind = op.kind /\ c.own = op.own /\ c.made = op.made /\ c.half = Nobody /\ c.keyed = op.keyed
      /\ c.snap = op.snap /\ c.todo = op.todo
  BY <1>0, <1>2 DEF CallRecords
<1>6. Held(c) /\ NamedBy(c) \subseteq NamedBy(op) /\ c.half \notin listed'
  BY <1>1, <1>2, <1>5 DEF Held, NamedBy
<1>7. op.half \in NamedBy(op)
  BY <1>1, <1>3 DEF NamedBy
<1>8. /\ secrets' \in [Ids -> [key : Nat, psk : Nat]] /\ \A x \in Ids \ {op.half} : secrets'[x] = secrets[x]
  BY <1>1, <1>2, <1>3 DEF S!NoKeys
<1> QED
  BY <1>1, <1>2, <1>3, <1>4, <1>5, <1>6, <1>7, <1>8, TakeSteps
\* The last patch of sweep().
LEMMA SweptKept ==
  ASSUME SyncInv, NEW sl \in Exchanges, S!Swept(sl)
  PROVE  SyncInv'
<1> DEFINE op == ops[sl]
<1>1. /\ op.pc = "sweep" /\ UNCHANGED <<listed, secrets, mgr, srv, calls, faults>> /\ S!Unlock(sl)
      /\ S!After(sl, op.end)
      /\ sub' = IF S!On THEN [sub EXCEPT !.status = "ok", !.own = S!Without(sub.own, op.snap)] ELSE sub
  BY DEF S!Swept, SyncInv, SyncTyped, SubRecords
<1>2. PICK c : Blank(c) /\ ops' = [ops EXCEPT ![sl] = c]
  BY <1>1, AfterCall
<1>3. NamedBy(c) = {} /\ ~HasTurn(c) /\ ~Imports(c) /\ c \in CallRecords /\ Held(c) /\ c.pc \in Afterwards \cup {"idle"}
  BY <1>2, BlankNames DEF Blank
<1>4. c.pc \notin {"write", "rekey", "sweep", "takeoff"}
  BY <1>3 DEF Afterwards
<1>5. Turns' /\ queue' \in Seq(Exchanges)
  BY <1>1, <1>2, <1>3, TurnsUnlocked DEF SyncInv
<1>6. Elsewhere /\ SrvGoes(sl) /\ ~Absent
  BY <1>1 DEF SyncInv, SyncTyped, ImportIsAlone, Imports, Elsewhere, SrvGoes
<1>7. Works(op)
  BY <1>1, WorksWhen DEF SyncInv, CallsHeld
<1> DEFINE left == {s \in DOMAIN sub.own : sub.own[s].id \notin op.snap}
<1>8. /\ S!Without(sub.own, op.snap) \in Owns /\ DOMAIN S!Without(sub.own, op.snap) = left
      /\ \A s \in left : S!Without(sub.own, op.snap)[s] = sub.own[s]
  <2>1. S!Without(sub.own, op.snap) = [s \in left |-> sub.own[s]]
    BY DEF S!Without, S!Restrict
  <2>2. sub.own \in Owns
    BY DEF SyncInv, SyncTyped, SubRecords
  <2>3. DOMAIN sub.own \subseteq Servers /\ \A s \in DOMAIN sub.own : sub.own[s] \in [id : Ids, psk : Nat]
    BY <2>2, OwnsHave
  <2>4. [s \in left |-> sub.own[s]] \in Owns
    BY <2>3, OwnsHave
  <2> QED
    BY <2>1, <2>4
<1>9. S!On => /\ sub' \in SubRecords /\ sub'.status = "ok" /\ sub'.rev = sub.rev /\ DOMAIN sub'.own = left
              /\ \A s \in left : sub'.own[s] = sub.own[s]
  <2>1. sub \in SubRecords
    BY DEF SyncInv, SyncTyped
  <2> HIDE DEF left
  <2> QED
    BY <1>1, <1>8, <2>1 DEF SubRecords
<1>10. ~S!On => sub' = sub /\ sub \in SubRecords
  BY <1>1 DEF SyncInv, SyncTyped
<1>11. SubGoes(sl)
  BY <1>6, <1>7, <1>9, <1>10 DEF SubGoes, S!On, Absent
<1>12. Missing'
  <2> SUFFICES ASSUME S!On', faults = 0, \A o \in Exchanges : ops'[o].pc # "takeoff"
               PROVE  S!OwnIds' \subseteq listed
    BY <1>1 DEF Missing
  <2>1. S!On
    BY <1>10 DEF S!On
  <2>2. \A o \in Exchanges : ops'[o] = IF o = sl THEN c ELSE ops[o]
    BY <1>2 DEF SyncInv, SyncTyped
  <2>3. \A o \in Exchanges : ops[o].pc # "takeoff"
    BY <1>1, <2>2
  <2>4. \A x \in S!OwnIds \ listed : \E o \in Exchanges : ops[o].pc = "sweep" /\ x \in ops[o].snap
    BY <2>1, <2>3 DEF SyncInv, Missing
  <2>5. \A o \in Exchanges : ops[o].pc = "sweep" => o = sl
    BY <1>7, WorksWhen, OneWorks DEF SyncInv, CallsHeld
  <2>6. S!OwnIds \ listed \subseteq op.snap
    BY <2>4, <2>5
  <2>7. S!OwnIds' \subseteq S!OwnIds \ op.snap
    BY <1>9, <2>1 DEF S!OwnIds, S!CardsOf
  <2> QED
    BY <2>6, <2>7
<1> QED
  BY <1>1, <1>2, <1>3, <1>4, <1>5, <1>6, <1>7, <1>11, <1>12, Stepped

LEMMA TakenOffKept ==
  ASSUME SyncInv, NEW sl \in Exchanges, S!TakenOff(sl)
  PROVE  SyncInv'
<1> DEFINE op == ops[sl]
<1>1. op.pc = "takeoff" /\ UNCHANGED <<listed, secrets, mgr, calls, faults>>
  BY DEF S!TakenOff
<1>2. srv \in Answers /\ sub \in SubRecords /\ queue \in Seq(Exchanges)
  BY DEF SyncInv, SyncTyped
<1>3. Elsewhere
  BY <1>1 DEF SyncInv, SyncTyped, Elsewhere
<1>4. CASE op.kind = "import"
  <2>1. srv' \in {srv, [srv EXCEPT !.key = 0]} /\ ops' = [ops EXCEPT ![sl] = S!Idle] /\ UNCHANGED <<sub, queue>>
    BY <1>4 DEF S!TakenOff, S!Step
  <2>2. SrvGoes(sl)
    BY <1>2, <2>1 DEF SrvGoes, Answers
  <2>3. Imports(op) /\ ~HasTurn(op)
    BY <1>1, <1>4 DEF Imports, HasTurn, Refreshing
  <2>4. ~S!On
    BY <2>3 DEF SyncInv, ImportIsAlone, Absent, S!On
  <2>5. SubStays
    BY <2>1, StaysSame DEF SyncInv
  <2>6. Blank(S!Idle) /\ S!Idle \in CallRecords /\ Held(S!Idle) /\ S!Idle.pc = "idle"
    BY IdleIs, IdleIsBlank DEF Blank
  <2>7. NamedBy(S!Idle) = {} /\ ~HasTurn(S!Idle) /\ ~Imports(S!Idle)
    BY <2>6, BlankNames
  <2>8. Turns' /\ queue' \in Seq(Exchanges)
    BY <1>1, <1>2, <2>1, <2>3, <2>6, <2>7, TurnsSame DEF SyncInv
  <2> QED
    BY <1>1, <1>3, <2>1, <2>2, <2>4, <2>5, <2>6, <2>7, <2>8, Moved
<1>5. CASE op.kind # "import"
  <2>1. /\ sub' = IF S!On THEN [S!NoneSub EXCEPT !.status = "removed"] ELSE sub
        /\ S!Unlock(sl) /\ srv' = srv /\ (S!Step(sl, S!Idle) \/ S!After(sl, "failed"))
    BY <1>5 DEF S!TakenOff
  <2>2. PICK c : Blank(c) /\ ops' = [ops EXCEPT ![sl] = c]
    BY <2>1, AfterCall, IdleIsBlank DEF S!Step
  <2>3. NamedBy(c) = {} /\ ~HasTurn(c) /\ ~Imports(c) /\ c \in CallRecords /\ Held(c) /\ c.pc \in Afterwards \cup {"idle"}
    BY <2>2, BlankNames DEF Blank
  <2>4. c.pc \notin {"write", "rekey", "sweep", "takeoff"}
    BY <2>3 DEF Afterwards
  <2>5. Turns' /\ queue' \in Seq(Exchanges)
    BY <1>1, <2>1, <2>2, <2>3, TurnsUnlocked DEF SyncInv
  <2>6. ~Absent
    BY <1>1, <1>5 DEF SyncInv, ImportIsAlone, Imports
  <2>7. [S!NoneSub EXCEPT !.status = "removed"] \in SubRecords /\ [S!NoneSub EXCEPT !.status = "removed"].status = "removed"
        /\ [S!NoneSub EXCEPT !.status = "removed"].own = <<>>
    BY NoOwns DEF S!NoneSub, SubRecords
  <2>8. ~S!On'
    BY <2>1, <2>7 DEF S!On
  <2>9. SubGoes(sl)
    BY <1>2, <2>1, <2>6, <2>7, <2>8, NoOwns DEF SubGoes, Absent, S!On
  <2>10. Missing' /\ SrvGoes(sl)
    BY <1>2, <2>1, <2>8 DEF Missing, SrvGoes
  <2> QED
    BY <1>1, <1>3, <2>2, <2>3, <2>4, <2>5, <2>6, <2>8, <2>9, <2>10, Stepped
<1> QED
  BY <1>4, <1>5

LEMMA TakesKept ==
  ASSUME SyncInv, NEW sl \in Exchanges, S!Takes(sl)
  PROVE  SyncInv'
BY TakeKeysKept, SweptKept, TakenOffKept, TakeCardKept DEF S!Takes

(* The record of what was written *)

LEMMA Recorded ==
  ASSUME SyncInv, NEW sl \in Exchanges, ops[sl].pc = "write", NEW c \in CallRecords, Held(c), c.pc \in {"idle", "sweep"},
         c.half = Nobody, HasTurn(c) <=> HasTurn(ops[sl]), ops' = [ops EXCEPT ![sl] = c],
         UNCHANGED <<listed, secrets, queue, mgr, srv, calls, faults>>,
         sub' \in SubRecords, S!On', sub'.rev = srv.rev,
         \A s \in DOMAIN sub'.own : /\ sub'.own[s].psk <= srv.psk
                                    /\ s \in srv.set \/ sub'.own[s].psk = srv.psk => HasPsk(sub'.own[s].id),
         S!OwnIds' \subseteq listed \/ faults # 0 \/ \E o \in Exchanges : ops[o].pc = "takeoff"
  PROVE  SyncInv'
<1>1. \A o \in Exchanges : ops'[o] = IF o = sl THEN c ELSE ops[o]
  BY DEF SyncInv, SyncTyped
<1>2. \A o \in Exchanges \ {sl} : ~Works(ops[o]) /\ ops[o].pc \notin {"rekey", "write", "sweep"}
  BY Writer
<1>3. \A o \in Exchanges : ops'[o].pc \notin {"rekey", "write"}
  BY <1>1, <1>2
<1>4. SyncTyped' /\ CallsHeld'
  BY <1>1, <1>3 DEF SyncInv, SyncTyped, CallsHeld, KeyInHand
<1>5. Turns'
  <2>1. HasTurn(ops[sl]) => S!Turn(sl)
    BY DEF SyncInv, SyncTyped, Turns, S!Turn
  <2> QED
    BY <2>1, TurnsSame DEF SyncInv
<1>6. ImportIsAlone'
  <2>1. ~Absent'
    BY DEF S!On, Absent
  <2>2. \A o \in Exchanges : ~Imports(ops'[o])
    BY <1>1, <1>2 DEF Works, Imports
  <2> QED
    BY <2>1, <2>2 DEF ImportIsAlone, Imports
<1>7. CardsMade' /\ Copied'
  BY <1>3 DEF CardsMade, Copied, CopyOf
<1>8. CardsTaken'
  BY <1>1, CardsAssumption DEF SyncInv, SyncTyped, CardsTaken
<1>9. srv.rev \in Nat /\ srv.psk \in Nat
  BY DEF SyncInv, SyncTyped, Answers
<1>10. Numbers'
  BY <1>9 DEF SyncInv, Numbers
<1>11. Claims' /\ Current'
  BY DEF Claims, Current, HasPsk
<1>12. Missing'
  BY <1>1 DEF Missing
<1>13. ListedHasKeys'
  BY DEF SyncInv, ListedHasKeys, S!ListedHasKeys, S!NoKeys
<1> QED
  BY <1>4, <1>5, <1>6, <1>7, <1>8, <1>10, <1>11, <1>12, <1>13 DEF SyncInv

LEMMA ImportedKept ==
  ASSUME SyncInv, NEW sl \in Exchanges, S!Imported(sl)
  PROVE  SyncInv'
<1> DEFINE op == ops[sl]
<1>1. /\ op.pc = "write" /\ op.half = Nobody /\ op.todo = {} /\ op.kind = "import"
      /\ sub' = [status |-> "ok", rev |-> op.rev, own |-> op.made] /\ ops' = [ops EXCEPT ![sl] = S!Idle]
      /\ UNCHANGED <<listed, secrets, queue, mgr, srv, calls, faults>>
  BY DEF S!Imported, S!Writing, S!Step
<1>2. op \in CallRecords /\ Making(op) /\ CopyOf(op)
  BY <1>1, Writer
<1>3. op.made \in Owns /\ srv.psk \in Nat /\ srv.rev \in Nat
  BY <1>2 DEF CallRecords, SyncInv, SyncTyped, Answers
<1>4. \A s \in DOMAIN op.made : op.made[s].id \in Ids
  BY <1>3, CardsAre
<1>5. op.rev = srv.rev /\ op.psk = srv.psk
  BY <1>1, <1>2 DEF CopyOf
<1>6. \A s \in DOMAIN op.made : op.made[s].psk = srv.psk /\ HasPsk(op.made[s].id) /\ op.made[s].id \in listed
  BY <1>1, <1>2, <1>4, <1>5, CardsAssumption DEF Making, HasPsk
<1>7. sub' \in SubRecords /\ S!On' /\ sub'.rev = srv.rev /\ sub'.own = op.made
  BY <1>1, <1>3, <1>5 DEF SubRecords, S!On
<1>8. S!OwnIds' \subseteq listed
  BY <1>6, <1>7 DEF S!OwnIds, S!CardsOf
<1>9. Blank(S!Idle) /\ S!Idle \in CallRecords /\ Held(S!Idle) /\ S!Idle.pc = "idle" /\ S!Idle.half = Nobody
  BY IdleIs, IdleIsBlank DEF Blank
<1>10. ~HasTurn(S!Idle) /\ ~HasTurn(op)
  BY <1>1, <1>9 DEF HasTurn, Refreshing
<1>11. \A s \in DOMAIN sub'.own : /\ sub'.own[s].psk <= srv.psk
                                  /\ s \in srv.set \/ sub'.own[s].psk = srv.psk => HasPsk(sub'.own[s].id)
  BY <1>3, <1>6, <1>7
<1> QED
  BY <1>1, <1>7, <1>8, <1>9, <1>10, <1>11, Recorded

SweepCall(kind, retry, at, cards, how) ==
    [S!Idle EXCEPT !.kind = kind, !.retry = retry, !.at = at, !.pc = "sweep", !.todo = cards, !.end = how]

LEMMA SweepCallIs ==
  ASSUME NEW kind \in S!Kinds \cup {Nobody}, NEW retry \in BOOLEAN, NEW at \in Ids \cup {Nobody},
         NEW cards \in SUBSET (Ids \cup Servers), NEW how \in {"applied", "rekeyed"}
  PROVE  SweepCall(kind, retry, at, cards, how) \in CallRecords
<1>1. \A c \in CallRecords : [c EXCEPT !.kind = kind, !.retry = retry, !.at = at] \in CallRecords
  BY DEF CallRecords
<1>2. \A c \in CallRecords : [c EXCEPT !.pc = "sweep", !.todo = cards, !.end = how] \in CallRecords
  BY DEF CallRecords
<1>3. SweepCall(kind, retry, at, cards, how)
        = [[S!Idle EXCEPT !.kind = kind, !.retry = retry, !.at = at] EXCEPT !.pc = "sweep", !.todo = cards, !.end = how]
  BY DEF SweepCall
<1>4. [S!Idle EXCEPT !.kind = kind, !.retry = retry, !.at = at] \in CallRecords
  BY <1>1, IdleIs
<1> QED
  BY <1>2, <1>3, <1>4, Zenon

LEMMA WrittenKept ==
  ASSUME SyncInv, NEW sl \in Exchanges, S!Written(sl)
  PROVE  SyncInv'
<1> DEFINE op == ops[sl]
           kept == op.van \cap DOMAIN op.own
           own == [s \in op.set \cup kept |->
                      CASE s \in kept                   -> op.own[s]
                        [] s \in DOMAIN op.own \ kept   -> [op.own[s] EXCEPT !.psk = op.psk]
                        [] OTHER                        -> op.made[s]]
<1>1. /\ op.pc = "write" /\ op.half = Nobody /\ op.todo = {} /\ op.kind # "import"
      /\ UNCHANGED <<listed, secrets, mgr, srv, calls, faults>>
  BY DEF S!Written, S!Writing
<1>2. op \in CallRecords /\ Held(op) /\ Making(op) /\ CopyOf(op)
  BY <1>1, Writer
<1>3. CASE ~S!On
  <2>1. S!RefreshFails(sl, "network")
    BY <1>3 DEF S!Written
  <2>2. Elsewhere /\ SrvGoes(sl)
    BY <1>1 DEF SyncInv, SyncTyped, Elsewhere, SrvGoes
  <2> QED
    BY <1>1, <1>2, <2>1, <2>2, FailKept
<1>4. CASE S!On
  <2>1. PICK c : c = [S!Idle EXCEPT !.kind = op.kind, !.retry = op.retry, !.at = op.at,
                                 !.pc = "sweep", !.todo = {op.own[s].id : s \in kept},
                                 !.end = IF op.keyed /\ op.ran THEN "rekeyed" ELSE "applied"]
    OBVIOUS
  <2>2. sub' = [sub EXCEPT !.rev = op.rev, !.own = own] /\ ops' = [ops EXCEPT ![sl] = c] /\ queue' = queue
    BY <1>4, <2>1 DEF S!Written, S!Step
  <2>3. /\ op.own = sub.own /\ op.rev = srv.rev /\ op.psk = srv.psk /\ op.set = srv.set
        /\ \A s \in DOMAIN op.own \cap op.set : HasPsk(op.own[s].id)
    BY <1>1, <1>2, <1>4 DEF CopyOf, HasPsk
  <2>4. /\ op.own \in Owns /\ op.made \in Owns /\ srv.psk \in Nat /\ srv.rev \in Nat /\ sub \in SubRecords
        /\ srv.set \subseteq Servers
    BY <1>2 DEF CallRecords, SyncInv, SyncTyped, Answers
  <2>5. /\ \A s \in DOMAIN op.own : s \in Servers /\ op.own[s] \in [id : Ids, psk : Nat]
        /\ \A s \in DOMAIN op.made : s \in Servers /\ op.made[s] \in [id : Ids, psk : Nat]
    BY <2>4, OwnsHave
  <2>6. DOMAIN op.made = op.set \ DOMAIN op.own
    BY <1>1, <1>2 DEF Making
  <2>7. \A s \in DOMAIN op.made : op.made[s].psk = srv.psk /\ HasPsk(op.made[s].id) /\ op.made[s].id \in listed
    BY <1>1, <1>2, <2>3, <2>5, CardsAssumption DEF Making, HasPsk
  <2>8. DOMAIN own = op.set \cup kept
    OBVIOUS
  <2>9. \A s \in kept : own[s] = op.own[s]
    OBVIOUS
  <2>10. \A s \in (op.set \cap DOMAIN op.own) \ kept : own[s] = [op.own[s] EXCEPT !.psk = op.psk]
    OBVIOUS
  <2>11. \A s \in op.set \ DOMAIN op.own : own[s] = op.made[s]
    OBVIOUS
  <2> HIDE DEF own
  <2>12. \A s \in DOMAIN own : own[s] \in [id : Ids, psk : Nat]
    <3> SUFFICES ASSUME NEW s \in DOMAIN own
                 PROVE  own[s] \in [id : Ids, psk : Nat]
      OBVIOUS
    <3>1. CASE s \in kept
      BY <2>5, <2>9, <3>1
    <3>2. CASE s \in (op.set \cap DOMAIN op.own) \ kept
      BY <2>3, <2>4, <2>5, <2>10, <3>2
    <3>3. CASE s \in op.set \ DOMAIN op.own
      BY <2>5, <2>6, <2>11, <3>3
    <3> QED
      BY <2>8, <3>1, <3>2, <3>3
  <2>13. \A s \in DOMAIN own :
           /\ own[s].psk <= srv.psk
           /\ s \in srv.set \/ own[s].psk = srv.psk => HasPsk(own[s].id)
           /\ own[s].id \in S!OwnIds \cup listed
    <3> SUFFICES ASSUME NEW s \in DOMAIN own
                 PROVE  /\ own[s].psk <= srv.psk
                        /\ s \in srv.set \/ own[s].psk = srv.psk => HasPsk(own[s].id)
                        /\ own[s].id \in S!OwnIds \cup listed
      OBVIOUS
    <3>1. CASE s \in kept
      BY <1>4, <2>3, <2>9, <3>1 DEF SyncInv, Numbers, Claims, S!OwnIds, S!CardsOf
    <3>2. CASE s \in (op.set \cap DOMAIN op.own) \ kept
      <4>1. own[s].id = op.own[s].id /\ own[s].psk = srv.psk
        BY <2>3, <2>5, <2>10, <3>2
      <4> QED
        BY <2>3, <2>4, <3>2, <4>1 DEF S!OwnIds, S!CardsOf
    <3>3. CASE s \in op.set \ DOMAIN op.own
      BY <2>4, <2>6, <2>7, <2>11, <3>3
    <3> QED
      BY <2>8, <3>1, <3>2, <3>3
  <2>14. own \in Owns
    <3>1. DOMAIN own \subseteq Servers
      BY <2>3, <2>4, <2>5, <2>8
    <3>2. own \in [DOMAIN own -> [id : Ids, psk : Nat]]
      <4>1. own = [s \in DOMAIN own |-> own[s]]
        BY DEF own
      <4> QED
        BY <2>12, <4>1
    <3> QED
      BY <3>1, <3>2, OwnsHave
  <2>15. sub' \in SubRecords /\ sub'.status = sub.status /\ sub'.rev = srv.rev /\ sub'.own = own
    BY <2>2, <2>3, <2>4, <2>14 DEF SubRecords
  <2>16. S!On'
    BY <1>4, <2>15 DEF S!On
  <2>17. S!OwnIds' \subseteq listed \/ faults # 0 \/ \E o \in Exchanges : ops[o].pc = "takeoff"
    <3> SUFFICES ASSUME faults = 0, \A o \in Exchanges : ops[o].pc # "takeoff"
                 PROVE  S!OwnIds' \subseteq listed
      OBVIOUS
    <3>1. S!OwnIds \subseteq listed
      BY <1>1, <1>4, Writer DEF SyncInv, Missing
    <3>2. S!OwnIds' \subseteq S!OwnIds \cup listed
      BY <2>13, <2>15 DEF S!OwnIds, S!CardsOf
    <3> QED
      BY <3>1, <3>2
  <2>18. {op.own[s].id : s \in kept} \in SUBSET (Ids \cup Servers)
    BY <2>5
  <2>19. c \in CallRecords
    <3>1. (IF op.keyed /\ op.ran THEN "rekeyed" ELSE "applied") \in {"applied", "rekeyed"}
      OBVIOUS
    <3>2. op.kind \in S!Kinds \cup {Nobody} /\ op.retry \in BOOLEAN /\ op.at \in Ids \cup {Nobody}
      BY <1>2 DEF CallRecords
    <3>3. SweepCall(op.kind, op.retry, op.at, {op.own[s].id : s \in kept},
                    IF op.keyed /\ op.ran THEN "rekeyed" ELSE "applied") \in CallRecords
      BY <2>18, <3>1, <3>2, SweepCallIs
    <3> QED
      BY <2>1, <3>3 DEF SweepCall
  <2>20. /\ c.pc = "sweep" /\ c.kind = op.kind /\ c.half = Nobody /\ c.own = <<>> /\ c.made = <<>>
         /\ c.snap = {} /\ ~c.keyed
    BY <1>2, <2>1, IdleIs DEF CallRecords, S!Idle
  <2>21. Held(c) /\ HasTurn(c) /\ HasTurn(op)
    BY <1>1, <1>2, <2>20 DEF Held, HasTurn, Afterwards
  <2> QED
    BY <1>1, <2>2, <2>13, <2>15, <2>16, <2>17, <2>19, <2>20, <2>21, Recorded
<1> QED
  BY <1>3, <1>4
(* Every step *)

LEMMA RefreshesKept ==
  ASSUME SyncInv, NEW sl \in Exchanges, S!Refreshes(sl)
  PROVE  SyncInv'
BY ExchangeKept, RekeyKept, SaveCardKept, WriteFailsKept, WrittenKept, UpdateKept, SaveKeysKept DEF S!Refreshes

LEMMA OthersKept ==
  ASSUME SyncInv, NEW sl \in Exchanges, S!Others(sl)
  PROVE  SyncInv'
BY RegisterKept, ImportedKept, AsksDevicesKept, UnbindKept, RevokeDownKept, RevokedKept DEF S!Others

LEMMA SyncKept == SyncInv /\ [S!Next]_(S!vars) => SyncInv'
<1> SUFFICES ASSUME SyncInv, [S!Next]_(S!vars)
             PROVE  SyncInv'
  OBVIOUS
<1>1. CASE UNCHANGED S!vars
  <2>1. UNCHANGED <<sub, listed, secrets, queue, ops, srv, mgr, calls, faults>>
    BY <1>1 DEF S!vars, S!diskVars
  <2>2. Elsewhere
    BY <2>1 DEF SyncInv, SyncTyped, Elsewhere
  <2> QED
    BY <2>1, <2>2, AsideKept
<1>2. CASE S!Next
  <2>1. CASE S!ServerChanges \/ S!Crash
    BY <2>1, ServerKept, CrashKept
  <2>2. CASE S!Manager
    BY <2>2, ManagerKept, UserConnectsKept DEF S!Manager
  <2>3. ASSUME NEW sl \in Exchanges, S!Begins(sl) \/ S!Refreshes(sl) \/ S!Takes(sl) \/ S!Others(sl) \/ S!Tails(sl)
        PROVE  SyncInv'
    BY <2>3, BeginsKept, RefreshesKept, TakesKept, OthersKept, TailsKept
  <2> QED
    BY <1>2, <2>1, <2>2, <2>3 DEF S!Next
<1> QED
  BY <1>1, <1>2

\* The exchanges with the key's server keep SyncInv: no two calls work on the key at once,
\* what one is making is its own, and what it copied is still so when it writes.
THEOREM SyncInvariant == SenSpec => []SyncInv
<1>1. S!Init => SyncInv
  BY InitKept
<1>2. SyncInv /\ [S!Next]_(S!vars) => SyncInv'
  BY SyncKept
<1> QED
  BY <1>1, <1>2, PTL DEF SenSpec, S!Spec

\* Every card has its keys, whatever write failed: saveTunnel() and removeTunnel() change
\* the two files in opposite orders.
THEOREM CardsHaveKeys == SenSpec => []ListedHasKeys
<1>1. SyncInv => ListedHasKeys
  BY DEF SyncInv
<1> QED
  BY <1>1, SyncInvariant, PTL

\* A record that has the server's revision names no card with another preshared key than the
\* server's, whatever failed before: apply() writes the revision last (manager.ts:498).
THEOREM AppliedStaysCurrent == SenSpec => []AppliedIsCurrent
<1>1. SyncInv => AppliedIsCurrent
  BY DEF SyncInv, Current, HasPsk, AppliedIsCurrent, S!AppliedIsCurrent
<1> QED
  BY <1>1, SyncInvariant, PTL

\* Without a fault every server of the record has its card whenever no call is at work:
\* sweep() ends with the record that no longer names what it took.
THEOREM RecordStaysListed == SenSpec => []RecordIsListed
<1>1. SyncInv => RecordIsListed
  BY DEF SyncInv, Missing, RecordIsListed, S!RecordIsListed, S!AtRest
<1> QED
  BY <1>1, SyncInvariant, PTL

\* The key's turn is never left with a call that has ended: every way out of refresh(),
\* devices() and removeSubscription() unlocks.
THEOREM TurnStaysLive == SenSpec => []TurnIsLive
<1>1. SyncInv => TurnIsLive
  BY DEF SyncInv, Turns, HasTurn, TurnIsLive, S!TurnIsLive
<1> QED
  BY <1>1, SyncInvariant, PTL
=============================================================================
