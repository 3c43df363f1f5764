------------------------------ MODULE SenSync ------------------------------
(***************************************************************************)
(* A master key and its servers on this computer                           *)
(* (src/main/sen/manager.ts over src/main/sen/store.ts and                 *)
(* src/main/store.ts): the link is added, its settings are asked for by a  *)
(* timer, before a connect and when the handshake is gone, and it is       *)
(* removed by the user or by the server's 410.                             *)
(*                                                                         *)
(* What is kept on disk is `sub` (subscriptions.json), `listed`            *)
(* (tunnels.json) and `secrets` (secrets.json or the Linux service); each  *)
(* file is replaced whole.  A call is a record in `ops` that says at which *)
(* await it stands ("pc"); the calls of one key take turns in `queue`, the *)
(* promise chain of locked(), whose head runs.                             *)
(*                                                                         *)
(* The key's server answers as the requests make it; its revisions, device *)
(* keys and preshared keys are numbered by the revision that brought them. *)
(* The tunnel manager is its contract: one operation at a time ("ph"),     *)
(* active still the old tunnel in the hook, none while the new one starts. *)
(***************************************************************************)
EXTENDS Naturals, Sequences, FiniteSets, Functions, TLC

CONSTANTS
    Servers,    \* ids of the key's servers, as the server numbers them
    FirstServers,   \* those the key has at first
    Ids,        \* ids of cards in tunnels.json (numbers stand for UUIDs)
    Slots,      \* bound: calls in progress
    None,       \* no card, no call
    Hosts,      \* platforms: who holds the keys, what a tunnel blocks
    MaxRev,     \* bound: changes on the server
    MaxEvents,  \* bound: calls begun by timers and the user, and faults
    MaxFaults   \* bound: crashes, failed writes, lost answers to register and rekey


VARIABLES
    host,
    sub,        \* the record of the key
    listed, secrets,
    pending,    \* this.pending has the key
    queue, ops,
    mgr,        \* the tunnel manager
    srv,        \* the key's server
    calls, faults

diskVars == <<sub, listed, secrets>>
vars == <<host, diskVars, pending, queue, ops, mgr, srv, calls, faults>>

----------------------------------------------------------------------------

\* The service keeps the keys: the application never reads them back.
HeldByService == host = "linux"

Kinds == {"import", "poll", "hook", "stale", "devices", "remove"}
Idle == [kind |-> None, pc |-> "idle", retry |-> FALSE, dead |-> FALSE, at |-> None, snap |-> {},
         own |-> <<>>, rev |-> 0, psk |-> 0, key |-> 0, keyed |-> FALSE, ran |-> FALSE,
         set |-> {}, van |-> {}, todo |-> {}, made |-> <<>>, half |-> None, end |-> "none"]

On == sub.status \in {"ok", "offline", "revoked"}
CardsOf(own) == {own[s].id : s \in DOMAIN own}
OwnIds == CardsOf(sub.own)
Running(cards) == mgr.active \in cards
NoKeys == [key |-> 0, psk |-> 0]
NoneSub == [status |-> "absent", rev |-> 0, own |-> <<>>]

\* The bounds: what else may happen.
MayCall == calls + faults < MaxEvents
MayFail == faults < MaxFaults /\ MayCall

Free(sl) == ops[sl] = Idle
\* Its turn: the calls before it on the key have ended.
Turn(sl) == queue # <<>> /\ Head(queue) = sl
\* A new UUID is one that nothing names yet; which of them makes no difference.
Fresh == {id \in Ids : /\ id \notin listed \cup OwnIds \cup {mgr.active, mgr.to, mgr.prev}
                       /\ secrets[id] = NoKeys
                       /\ \A sl \in Slots : id \notin CardsOf(ops[sl].made) \cup CardsOf(ops[sl].own) \cup ops[sl].snap
                                                   \cup ops[sl].todo \cup {ops[sl].half, ops[sl].at}}

TypeOK ==
    /\ host \in Hosts
    /\ sub.status \in {"absent", "ok", "offline", "revoked", "removed"}
    /\ sub.rev \in 0 .. MaxRev
    /\ DOMAIN sub.own \subseteq Servers
    /\ \A s \in DOMAIN sub.own : sub.own[s] \in [id : Ids, psk : 0 .. MaxRev]
    /\ listed \subseteq Ids
    /\ secrets \in [Ids -> [key : 0 .. MaxRev, psk : 0 .. MaxRev]]
    /\ pending \in BOOLEAN
    /\ queue \in Seq(Slots)
    /\ \A sl \in Slots : ops[sl].kind \in Kinds \cup {None} /\ DOMAIN ops[sl] = DOMAIN Idle
    /\ {mgr.active, mgr.to, mgr.prev} \subseteq Ids \cup {None}
    /\ mgr.ph \in {"idle", "hook", "up", "down"} /\ (mgr.to # None <=> mgr.ph \in {"hook", "up"})
    /\ mgr.by \in Slots \cup {None}
    /\ srv \in [rev : 0 .. MaxRev, set : SUBSET Servers, psk : 0 .. MaxRev,
                key : 0 .. MaxRev, rekey : BOOLEAN, gone : BOOLEAN]
    /\ calls \in 0 .. MaxEvents /\ faults \in 0 .. MaxFaults

Init ==
    /\ host \in Hosts
    /\ sub = NoneSub
    /\ listed = {}
    /\ secrets = [id \in Ids |-> NoKeys]
    /\ pending = FALSE
    /\ queue = <<>>
    /\ ops = [sl \in Slots |-> Idle]
    /\ mgr = [active |-> None, ph |-> "idle", to |-> None, prev |-> None, by |-> None]
    /\ srv = [rev |-> 0, set |-> FirstServers, psk |-> 0, key |-> 0, rekey |-> FALSE, gone |-> FALSE]
    /\ calls = 0 /\ faults = 0

----------------------------------------------------------------------------
(* The key's server                                                        *)

\* The operator adds or drops servers, changes the preshared keys, asks for a new
\* device key, or deletes the device.  What a call does between its requests does not
\* depend on the server: a change then is as good as one before the next request.
ServerChanges ==
    /\ srv.key # 0 /\ srv.rev < MaxRev /\ ~srv.gone
    /\ \A sl \in Slots : ops[sl].pc \notin {"write", "sweep", "takeoff", "revoke", "revoked"}
    /\ \/ \E set \in SUBSET Servers \ {{}, srv.set} :
            srv' = [srv EXCEPT !.set = set, !.rev = @ + 1]
       \/ srv' = [srv EXCEPT !.psk = srv.rev + 1, !.rev = @ + 1]
       \/ ~srv.rekey /\ srv' = [srv EXCEPT !.rekey = TRUE]
       \/ srv' = [srv EXCEPT !.gone = TRUE]
    /\ UNCHANGED <<host, diskVars, pending, queue, ops, mgr, calls, faults>>

\* The server takes the device's new public key (register and rekey).
TakesKey == [srv EXCEPT !.rev = @ + 1, !.key = srv.rev + 1, !.rekey = FALSE]

----------------------------------------------------------------------------
(* The tunnel manager's contract                                           *)

\* connect() and reconnect(): the hook of a key's card asks for its settings in a
\* call of its own (beforeConnect), which may outlast the connect's patience.
Connecting(id, sl) ==
    /\ mgr.ph = "idle"
    /\ mgr' = [mgr EXCEPT !.ph = "hook", !.to = id]
    /\ IF On /\ sub.status # "revoked"
         THEN /\ ops' = [ops EXCEPT ![sl] = [Idle EXCEPT !.kind = "hook", !.pc = "wait"]]
              /\ queue' = Append(queue, sl)
         ELSE ops' = [ops EXCEPT ![sl] = Idle] /\ UNCHANGED queue

UserConnects(id, sl) ==
    /\ id \in listed \ {mgr.active}
    /\ Free(sl) /\ MayCall
    /\ calls' = calls + 1
    /\ Connecting(id, sl)
    /\ UNCHANGED <<host, diskVars, pending, srv, faults>>

\* The hook answered or ran out of time.
HookEnds ==
    /\ mgr.ph = "hook"
    /\ \/ /\ On /\ sub.status # "revoked"            \* KEY-21, if past the grace
          /\ mgr' = [mgr EXCEPT !.ph = "idle", !.to = None]
       \/ mgr' = IF mgr.to \notin listed \/ secrets[mgr.to] = NoKeys
                   THEN [mgr EXCEPT !.ph = "idle", !.to = None]
                   ELSE [mgr EXCEPT !.ph = "up", !.prev = mgr.active, !.active = None]
    /\ UNCHANGED <<host, diskVars, pending, queue, ops, srv, calls, faults>>

\* The new tunnel is up, or not; a switch that failed may have left the old one (keepPrevious()).
UpEnds ==
    /\ mgr.ph = "up"
    /\ \E now \in {mgr.to, mgr.prev, None} :
         mgr' = [mgr EXCEPT !.ph = "idle", !.active = now, !.to = None, !.prev = None]
    /\ UNCHANGED <<host, diskVars, pending, queue, ops, srv, calls, faults>>

GoDown(by) == mgr.ph = "idle" /\ mgr' = [mgr EXCEPT !.ph = "down", !.by = by]

UserDisconnects ==
    /\ mgr.active # None
    /\ GoDown(None)
    /\ UNCHANGED <<host, diskVars, pending, queue, ops, srv, calls, faults>>

\* A failed down leaves the tunnel as it is, and its caller goes on.
DownEnds ==
    /\ mgr.ph = "down"
    /\ \E now \in {mgr.active, None} :
         mgr' = [mgr EXCEPT !.ph = "idle", !.active = now, !.by = None]
    /\ UNCHANGED <<host, diskVars, pending, queue, ops, srv, calls, faults>>

----------------------------------------------------------------------------
(* Calls begin                                                             *)

Begin(sl, op) ==
    /\ Free(sl)
    /\ ops' = [ops EXCEPT ![sl] = op]
    /\ IF op.kind = "import" THEN UNCHANGED calls ELSE MayCall /\ calls' = calls + 1
    /\ UNCHANGED <<host, diskVars, pending, mgr, srv, faults>>

\* import(): a second link of the same key is refused while it is there (KEY-14).
Import(sl) ==
    /\ sub.status = "absent" /\ ~srv.gone /\ srv.rev < MaxRev
    /\ \A o \in Slots : Free(o)
    /\ Begin(sl, [Idle EXCEPT !.kind = "import", !.pc = "register"])
    /\ UNCHANGED queue

\* The timer of start(), and "check again"; onStale(), once in STALE_RETRY_MS; devices().
Poll(sl) ==
    /\ On
    /\ Begin(sl, [Idle EXCEPT !.kind = "poll", !.pc = "wait"])
    /\ queue' = Append(queue, sl)

Stale(sl) ==
    /\ On /\ sub.status # "revoked"
    /\ mgr.active \in listed
    /\ Begin(sl, [Idle EXCEPT !.kind = "stale", !.pc = "wait", !.at = mgr.active])
    /\ queue' = Append(queue, sl)

Devices(sl) ==
    /\ On
    /\ Begin(sl, [Idle EXCEPT !.kind = "devices", !.pc = "wait", !.snap = OwnIds])
    /\ queue' = Append(queue, sl)

\* removeSubscription(): its copy of the record, and the check that no server of the
\* key runs, are taken before its turn.
Remove(sl) ==
    /\ On
    /\ ~Running(OwnIds)
    /\ Begin(sl, [Idle EXCEPT !.kind = "remove", !.pc = "wait", !.snap = OwnIds,
                              !.dead = sub.status = "revoked"])
    /\ queue' = Append(queue, sl)

----------------------------------------------------------------------------
(* refresh(): one exchange, then apply() or failed(), in the key's turn    *)

\* Connections about to be made or made again: a running tunnel may be updated too.
Forced(sl) == ops[sl].kind \in {"hook", "stale"} \/ ops[sl].retry

Step(sl, op) == ops' = [ops EXCEPT ![sl] = op]
Unlock(sl) == queue' = IF Turn(sl) THEN Tail(queue) ELSE queue

\* What the caller of refresh() goes on with, once the lock is free.
After(sl, how) ==
    LET op == ops[sl]
        next == CASE op.kind = "poll" /\ ~op.retry /\ how = "rekeyed"     -> "reconnect"
                  [] op.kind = "poll" /\ ~op.retry /\ how = "failed"      -> "lapse"
                  [] op.kind = "poll" /\ op.retry                         -> IF how = "failed" THEN "lapsed" ELSE "back"
                  [] op.kind = "stale" /\ op.retry                        -> "back"
                  [] op.kind = "stale" /\ ~op.retry /\ how = "failed" /\ host # "macos" -> "suspend"
                  [] op.kind = "stale" /\ ~op.retry /\ how \in {"applied", "rekeyed"}   -> "reconnect"
                  [] OTHER                                                -> "idle"
    IN IF next = "idle" THEN Step(sl, Idle)
       ELSE Step(sl, [Idle EXCEPT !.kind = op.kind, !.pc = next, !.retry = op.retry, !.at = op.at])

\* failed(), of all but a 410: the clock may be wrong, so the key stays; a tunnel that is
\* up may be what cuts the request off, so nothing is said of the server then.
NotRecognised == sub' = IF On THEN [sub EXCEPT !.status = "revoked"] ELSE sub
Unreached(cards) == sub' = IF On /\ ~Running(cards) THEN [sub EXCEPT !.status = "offline"] ELSE sub

SlipRefreshFails(sl, kind) ==
    /\ IF kind = "unauthorized" THEN NotRecognised ELSE Unreached(OwnIds)
    /\ After(sl, "failed")
    /\ UNCHANGED queue
RefreshFails(sl, kind) ==
    /\ IF kind = "unauthorized" THEN NotRecognised ELSE Unreached(OwnIds)
    /\ After(sl, "failed")
    /\ Unlock(sl)

\* failed(), a 410: its tunnel is asked down first.
Gone(sl) ==
    LET op == ops[sl]
    IN Step(sl, [Idle EXCEPT !.kind = op.kind, !.retry = op.retry, !.at = op.at, !.pc = "revoke",
                             !.snap = IF op.kind = "devices" THEN op.snap ELSE OwnIds])

\* apply(): same settings, settings that wait, a new key to be made, or the writes.
Applies(sl) ==
    LET op      == ops[sl]
        own     == sub.own
        ran     == Running(OwnIds)
        van     == DOMAIN own \ srv.set
        first   == CHOOSE s \in DOMAIN own : \A t \in DOMAIN own : s <= t
        inHand  == IF own = <<>> \/ HeldByService THEN 0 ELSE secrets[own[first].id].key
        pskNew  == \E s \in srv.set : s \notin DOMAIN own \/ own[s].psk # srv.psk
        cfg     == [op EXCEPT !.own = own, !.rev = srv.rev, !.psk = srv.psk, !.set = srv.set,
                              !.van = van, !.ran = ran, !.key = inHand]
    IN CASE srv.rev = sub.rev /\ ~srv.rekey ->
              /\ Step(sl, [op EXCEPT !.pc = "sweep", !.todo = {own[s].id : s \in van}, !.end = "same"])
              /\ UNCHANGED <<sub, pending, queue>>
         [] (srv.rev # sub.rev \/ srv.rekey) /\ ran /\ ~Forced(sl) /\ ~srv.rekey ->
              /\ pending' = TRUE
              /\ sub' = [sub EXCEPT !.status = "ok"]
              /\ After(sl, "pending")
              /\ Unlock(sl)
         [] OTHER ->
              /\ Step(sl, IF srv.rekey \/ (pskNew /\ inHand = 0)
                            THEN [cfg EXCEPT !.pc = "rekey"]
                            ELSE [cfg EXCEPT !.pc = "write", !.todo = srv.set])
              /\ UNCHANGED <<sub, pending, queue>>

\* GET /sub/v1/config, and what the answer leads to before the next await.
Exchange(sl) ==
    /\ Turn(sl) /\ ops[sl].pc = "wait" /\ ops[sl].kind \in {"poll", "hook", "stale"}
    /\ \/ ~On /\ After(sl, "failed") /\ Unlock(sl) /\ UNCHANGED <<sub, pending>>
       \/ On /\ \E kind \in {"network", "unauthorized"} : RefreshFails(sl, kind) /\ UNCHANGED pending
       \/ On /\ srv.gone /\ Gone(sl) /\ UNCHANGED <<sub, pending, queue>>
       \/ On /\ ~srv.gone /\ Applies(sl)
    /\ UNCHANGED <<host, listed, secrets, mgr, srv, calls, faults>>

\* POST /sub/v1/rekey: the servers and the preshared keys of its answer are written, the
\* servers that vanished are those of the answer before it.
Rekey(sl) ==
    /\ ops[sl].pc = "rekey"
    /\ \/ /\ ~srv.gone /\ srv.rev < MaxRev
          /\ srv' = TakesKey
          /\ \/ /\ Step(sl, [ops[sl] EXCEPT !.pc = "write", !.rev = srv'.rev, !.psk = srv.psk,
                                  !.set = srv.set, !.key = srv'.key, !.keyed = TRUE, !.todo = srv.set])
                /\ UNCHANGED <<sub, queue, faults>>
             \/ /\ MayFail /\ faults' = faults + 1      \* the answer is lost
                /\ RefreshFails(sl, "network")
       \/ /\ \E kind \in {"network", "unauthorized"} : RefreshFails(sl, kind)
          /\ UNCHANGED <<srv, calls, faults>>
       \/ srv.gone /\ Gone(sl) /\ UNCHANGED <<sub, queue, srv, calls, faults>>
    /\ UNCHANGED <<host, listed, secrets, pending, mgr, calls>>

----------------------------------------------------------------------------
(* The writes of apply() and import()                                      *)

Writing(sl) == ops[sl].pc = "write" /\ ops[sl].half = None

\* saveSecrets()
SlipSaved(id, op) == IF id \in listed THEN [secrets EXCEPT ![id] = [key |-> op.key, psk |-> op.psk]]
                     ELSE secrets
Saved(id, op) == [secrets EXCEPT ![id] = [key |-> op.key, psk |-> op.psk]]

\* updateTunnel() has keys to write: a new device key, or a preshared key not yet there.
SlipNewPsks(op, s) == op.keyed
NewKeys(op, s) == op.keyed \/ op.own[s].psk # op.psk

\* updateTunnel(): the keys only when they changed.
Update(sl, s) ==
    /\ Writing(sl) /\ s \in ops[sl].todo \cap DOMAIN ops[sl].own
    /\ LET op == ops[sl]
           id == op.own[s].id
       IN /\ id \in listed
          /\ secrets' = IF NewKeys(op, s) THEN Saved(id, op) ELSE secrets
          /\ Step(sl, [op EXCEPT !.todo = @ \ {s}])
    /\ UNCHANGED <<host, sub, listed, pending, queue, mgr, srv, calls, faults>>

\* saveTunnel(): the keys, then the card.
SaveKeys(sl, s) ==
    /\ Writing(sl) /\ s \in ops[sl].todo \ DOMAIN ops[sl].own
    /\ Fresh # {}
    /\ LET id == CHOOSE i \in Fresh : TRUE
           op == ops[sl]
       IN /\ secrets' = Saved(id, op)
          /\ Step(sl, [op EXCEPT !.todo = @ \ {s}, !.half = id,
                                 !.made = [t \in DOMAIN @ \cup {s} |->
                                             IF t = s THEN [id |-> id, psk |-> op.psk] ELSE @[t]]])
    /\ UNCHANGED <<host, sub, listed, pending, queue, mgr, srv, calls, faults>>

SaveCard(sl) ==
    /\ ops[sl].pc = "write" /\ ops[sl].half # None
    /\ listed' = listed \cup {ops[sl].half}
    /\ Step(sl, [ops[sl] EXCEPT !.half = None])
    /\ UNCHANGED <<host, sub, secrets, pending, queue, mgr, srv, calls, faults>>

\* The keyring, the service or the disk refuses, or a card is not there any more (TUN-01):
\* a refresh fails, an import takes back the cards it saved.  Keys whose card was not
\* written are in neither list and stay behind.
WriteFails(sl) ==
    /\ ops[sl].pc = "write"
    /\ \/ MayFail /\ faults' = faults + 1
       \/ /\ Writing(sl) /\ UNCHANGED faults
          /\ \E s \in ops[sl].todo \cap DOMAIN ops[sl].own : ops[sl].own[s].id \notin listed
    /\ IF ops[sl].kind = "import"
         THEN /\ Step(sl, [ops[sl] EXCEPT !.pc = "takeoff", !.half = None,
                                          !.todo = CardsOf(ops[sl].made) \ {ops[sl].half}])
              /\ UNCHANGED <<sub, queue>>
         ELSE RefreshFails(sl, "network")
    /\ UNCHANGED <<host, listed, secrets, pending, mgr, srv, calls>>

\* The record names what was written, and goes on naming the vanished until they are swept;
\* a key removed meanwhile (by a 410 that devices() heard) has no record to sweep.
Written(sl) ==
    /\ Writing(sl) /\ ops[sl].todo = {} /\ ops[sl].kind # "import"
    /\ LET op   == ops[sl]
           kept == op.van \cap DOMAIN op.own
           own  == [s \in op.set \cup kept |->
                      CASE s \in kept                   -> op.own[s]
                        [] s \in DOMAIN op.own \ kept   -> [op.own[s] EXCEPT !.psk = op.psk]
                        [] OTHER                        -> op.made[s]]
       IN IF ~On THEN RefreshFails(sl, "network")
          ELSE /\ sub' = [sub EXCEPT !.rev = op.rev, !.own = own]
               /\ Step(sl, [Idle EXCEPT !.kind = op.kind, !.retry = op.retry, !.at = op.at,
                                 !.pc = "sweep", !.todo = {op.own[s].id : s \in kept},
                                 !.end = IF op.keyed /\ op.ran THEN "rekeyed" ELSE "applied"])
               /\ UNCHANGED queue
    /\ UNCHANGED <<host, listed, secrets, pending, mgr, srv, calls, faults>>

\* POST /sub/v1/register.  A lost answer leaves the device with the server.
Register(sl) ==
    /\ ops[sl].pc = "register"
    /\ \/ /\ ~srv.gone /\ srv.rev < MaxRev
          /\ srv' = TakesKey
          /\ \/ /\ Step(sl, [ops[sl] EXCEPT !.pc = "write", !.rev = srv'.rev, !.psk = srv.psk,
                                  !.set = srv.set, !.key = srv'.key, !.todo = srv.set])
                /\ UNCHANGED faults
             \/ /\ MayFail /\ faults' = faults + 1
                /\ Step(sl, Idle)
       \/ Step(sl, Idle) /\ UNCHANGED <<srv, faults>>
    /\ UNCHANGED <<host, diskVars, pending, queue, mgr, calls>>

Imported(sl) ==
    /\ Writing(sl) /\ ops[sl].todo = {} /\ ops[sl].kind = "import"
    /\ sub' = [status |-> "ok", rev |-> ops[sl].rev, own |-> ops[sl].made]
    /\ Step(sl, Idle)
    /\ UNCHANGED <<host, listed, secrets, pending, queue, mgr, srv, calls, faults>>

----------------------------------------------------------------------------
(* Removals: sweep() of vanished servers, takeOff() of all, an import's own *)

\* The card goes to the callers of removeTunnel() whatever became of it.
Dropped(sl, id) == [ops[sl] EXCEPT !.todo = @ \ {id}, !.snap = @ \cup {id}]

\* removeTunnel(): the card, then its keys.  sweep() leaves the running one.  A removal
\* that fails is caught: the card stays while the record drops it.
TakeCard(sl, id) ==
    /\ ops[sl].pc \in {"sweep", "takeoff"} /\ ops[sl].half = None
    /\ id \in ops[sl].todo
    /\ \/ /\ ops[sl].pc = "sweep" /\ mgr.active = id
          /\ Step(sl, [ops[sl] EXCEPT !.todo = @ \ {id}])
          /\ UNCHANGED <<listed, faults>>
       \/ /\ ops[sl].pc = "takeoff" \/ mgr.active # id
          /\ \/ /\ listed' = listed \ {id}
                /\ Step(sl, [Dropped(sl, id) EXCEPT !.half = id])
                /\ UNCHANGED faults
             \/ /\ MayFail /\ faults' = faults + 1
                /\ Step(sl, Dropped(sl, id))
                /\ UNCHANGED listed
    /\ UNCHANGED <<host, sub, secrets, pending, queue, mgr, srv, calls>>

\* removeSecrets(): the keys of a card that is gone may stay.
TakeKeys(sl) ==
    /\ ops[sl].pc \in {"sweep", "takeoff"} /\ ops[sl].half # None
    /\ \/ /\ secrets' = [secrets EXCEPT ![ops[sl].half] = NoKeys]
          /\ UNCHANGED faults
       \/ /\ MayFail /\ faults' = faults + 1
          /\ UNCHANGED secrets
    /\ Step(sl, [ops[sl] EXCEPT !.half = None])
    /\ UNCHANGED <<host, sub, listed, pending, queue, mgr, srv, calls>>

\* Nothing waits for the next connect any more.
Settled == pending' = FALSE

\* The record without the servers that were swept.
SlipWithout(own, swept) == own
Without(own, swept) == Restrict(own, {s \in DOMAIN own : own[s].id \notin swept})

\* The last patch of sweep() and of refresh().
Swept(sl) ==
    /\ ops[sl].pc = "sweep" /\ ops[sl].half = None /\ ops[sl].todo = {}
    /\ sub' = IF On THEN [sub EXCEPT !.status = "ok", !.own = Without(@, ops[sl].snap)] ELSE sub
    /\ Settled
    /\ After(sl, ops[sl].end)
    /\ Unlock(sl)
    /\ UNCHANGED <<host, listed, secrets, mgr, srv, calls, faults>>

\* The auth key and the record go last; of an import, the slot on the server (best effort).
TakenOff(sl) ==
    /\ ops[sl].pc = "takeoff" /\ ops[sl].half = None /\ ops[sl].todo = {}
    /\ IF ops[sl].kind = "import"
         THEN /\ srv' \in {srv, [srv EXCEPT !.key = 0]}
              /\ Step(sl, Idle)
              /\ UNCHANGED <<sub, pending, queue>>
         ELSE /\ sub' = IF On THEN [NoneSub EXCEPT !.status = "removed"] ELSE sub
              /\ Settled
              /\ IF ops[sl].kind \in {"remove", "devices"} THEN Step(sl, Idle) ELSE After(sl, "failed")
              /\ Unlock(sl)
              /\ UNCHANGED srv
    /\ UNCHANGED <<host, listed, secrets, mgr, calls, faults>>

----------------------------------------------------------------------------
(* The other calls in their turn                                           *)

\* GET /sub/v1/devices; failed() is called after the turn, with the record of the start.
AsksDevices(sl) ==
    /\ Turn(sl) /\ ops[sl].pc = "wait" /\ ops[sl].kind = "devices"
    /\ Unlock(sl)
    /\ \/ Step(sl, Idle) /\ UNCHANGED sub                            \* answered, or no network
       \/ Step(sl, Idle) /\ NotRecognised
       \/ On /\ srv.gone /\ Gone(sl) /\ UNCHANGED sub
    /\ UNCHANGED <<host, listed, secrets, pending, mgr, srv, calls, faults>>

\* DELETE /sub/v1/device, unless the key is revoked: the server may not hear of it.
Unbind(sl) ==
    /\ Turn(sl) /\ ops[sl].pc = "wait" /\ ops[sl].kind = "remove"
    /\ Step(sl, [ops[sl] EXCEPT !.pc = "takeoff", !.todo = ops[sl].snap])
    /\ srv' \in {srv} \cup (IF ops[sl].dead \/ ~On THEN {} ELSE {[srv EXCEPT !.gone = TRUE]})
    /\ UNCHANGED <<host, diskVars, pending, queue, mgr, calls, faults>>

\* failed(), a 410: the key's tunnel goes down first, unless the manager is busy.
RevokeDown(sl) ==
    /\ ops[sl].pc = "revoke"
    /\ \/ Running(ops[sl].snap) /\ GoDown(sl)
       \/ (~Running(ops[sl].snap) \/ mgr.ph # "idle") /\ UNCHANGED mgr
    /\ Step(sl, [ops[sl] EXCEPT !.pc = "revoked"])
    /\ UNCHANGED <<host, diskVars, pending, queue, srv, calls, faults>>

\* Still up: not pulled out from under the person, and the key shows as revoked.
Revoked(sl) ==
    /\ ops[sl].pc = "revoked" /\ mgr.by # sl
    /\ IF Running(ops[sl].snap)
         THEN /\ NotRecognised
              /\ IF ops[sl].kind = "devices" THEN Step(sl, Idle) ELSE After(sl, "failed")
              /\ Unlock(sl)
         ELSE /\ Step(sl, [ops[sl] EXCEPT !.pc = "takeoff", !.todo = ops[sl].snap])
              /\ UNCHANGED <<sub, queue>>
    /\ UNCHANGED <<host, listed, secrets, pending, mgr, srv, calls, faults>>

----------------------------------------------------------------------------
(* After the turn: lapse(), onStale(), the reconnect of a new device key   *)

\* The grace is over: the running server goes down; elsewhere than on macOS the server is
\* asked once more without it.
Lapse(sl) ==
    /\ ops[sl].pc = "lapse"
    /\ \/ /\ On /\ sub.status # "revoked" /\ Running(OwnIds)
          /\ GoDown(sl) \/ (mgr.ph # "idle" /\ UNCHANGED mgr)
          /\ Step(sl, [ops[sl] EXCEPT !.pc = "down", !.at = mgr.active])
       \/ Step(sl, Idle) /\ UNCHANGED mgr
    /\ UNCHANGED <<host, diskVars, pending, queue, srv, calls, faults>>

\* onStale() does the same for one exchange.  disconnect() throws only while the manager
\* is busy (TUN-04), a down that failed it reports itself: uncaught, the first ends the call.
Suspend(sl) ==
    /\ ops[sl].pc = "suspend"
    /\ IF ~On \/ mgr.ph # "idle" THEN Step(sl, Idle) /\ UNCHANGED mgr
       ELSE /\ Step(sl, [ops[sl] EXCEPT !.pc = "down"])
            /\ IF mgr.active = ops[sl].at THEN GoDown(sl) ELSE UNCHANGED mgr
    /\ UNCHANGED <<host, diskVars, pending, queue, srv, calls, faults>>

AskAgain(sl) ==
    /\ ops[sl].pc = "down" /\ mgr.by # sl
    /\ IF ops[sl].kind = "poll" /\ host = "macos"
         THEN Step(sl, [ops[sl] EXCEPT !.pc = "lapsed"]) /\ UNCHANGED queue
         ELSE /\ Step(sl, [ops[sl] EXCEPT !.pc = "wait", !.retry = TRUE])
              /\ queue' = Append(queue, sl)
    /\ UNCHANGED <<host, diskVars, pending, mgr, srv, calls, faults>>

Lapsed(sl) ==
    /\ ops[sl].pc = "lapsed"
    /\ sub' = IF On THEN [sub EXCEPT !.status = "offline"] ELSE sub
    /\ Step(sl, Idle)
    /\ UNCHANGED <<host, listed, secrets, pending, queue, mgr, srv, calls, faults>>

\* connect(running) of lapse() and onStale(), reconnect() of a new device key: nothing
\* comes of them while the manager is busy.
ComeBack(sl) ==
    /\ ops[sl].pc \in {"back", "reconnect"}
    /\ LET id == IF ops[sl].pc = "back" THEN ops[sl].at ELSE mgr.active
           may == /\ mgr.ph = "idle" /\ id \in listed
                  /\ IF ops[sl].pc = "back" THEN On /\ id # mgr.active ELSE TRUE
       IN IF may THEN Connecting(id, sl)
                 ELSE Step(sl, Idle) /\ UNCHANGED <<queue, mgr>>
    /\ UNCHANGED <<host, diskVars, pending, srv, calls, faults>>

----------------------------------------------------------------------------

\* The application ends anywhere; at the next start it finds the tunnel up or not.
Crash ==
    /\ MayFail
    /\ faults' = faults + 1
    /\ ops' = [sl \in Slots |-> Idle]
    /\ queue' = <<>>
    /\ pending' = FALSE
    /\ \E now \in {mgr.active, mgr.to, mgr.prev, None} :
         mgr' = [active |-> now, ph |-> "idle", to |-> None, prev |-> None, by |-> None]
    /\ UNCHANGED <<host, diskVars, srv, calls>>

Manager == HookEnds \/ UpEnds \/ UserDisconnects \/ DownEnds
           \/ \E sl \in Slots, id \in Ids : UserConnects(id, sl)
Begins(sl) == Import(sl) \/ Poll(sl) \/ Stale(sl) \/ Devices(sl) \/ Remove(sl)
Refreshes(sl) == Exchange(sl) \/ Rekey(sl) \/ SaveCard(sl) \/ WriteFails(sl) \/ Written(sl)
                 \/ \E s \in Servers : Update(sl, s) \/ SaveKeys(sl, s)
Takes(sl) == TakeKeys(sl) \/ Swept(sl) \/ TakenOff(sl) \/ \E id \in Ids : TakeCard(sl, id)
Others(sl) == Register(sl) \/ Imported(sl) \/ AsksDevices(sl) \/ Unbind(sl)
              \/ RevokeDown(sl) \/ Revoked(sl)
Tails(sl) == Lapse(sl) \/ Suspend(sl) \/ AskAgain(sl) \/ Lapsed(sl) \/ ComeBack(sl)

Next ==
    \/ ServerChanges \/ Manager \/ Crash
    \/ \E sl \in Slots : Begins(sl) \/ Refreshes(sl) \/ Takes(sl) \/ Others(sl) \/ Tails(sl)

Spec == Init /\ [][Next]_vars

----------------------------------------------------------------------------
(* Properties                                                              *)

AtRest == \A sl \in Slots : ops[sl].pc \in {"idle", "wait"}

\* Every card in the list has its keys, whatever write failed and wherever the
\* application ended: keys are saved before the card and removed after it
\* (store.ts:112-135).  A card without keys can only be refused (TUN-02).
ListedHasKeys == \A id \in listed : secrets[id] # NoKeys

\* Whatever failed before: once the record says that the server's present settings are
\* applied, each of its servers has the preshared key the server has now.  An apply()
\* that stops halfway must leave the record behind (manager.ts:498), so that the next
\* one finds and rewrites what it left.
AppliedIsCurrent ==
    AtRest /\ On /\ sub.rev = srv.rev =>
        \A s \in DOMAIN sub.own \cap srv.set :
            sub.own[s].id \in listed => secrets[sub.own[s].id].psk = srv.psk

\* Without such failures, the servers of the key all stand for the device key the server
\* knows: no exchange with a key interleaves with another (manager.ts:97).
OneDeviceKey ==
    AtRest /\ On /\ faults = 0 /\ ~srv.gone =>
        \A s \in DOMAIN sub.own : s \in srv.set => secrets[sub.own[s].id].key = srv.key

\* Without a crash every server the record names has its card: apply(), sweep() and
\* takeOff() change the two files in steps, and updateTunnel() refuses a card that is
\* gone (TUN-01), for good.
RecordIsListed == AtRest /\ On /\ faults = 0 => OwnIds \subseteq listed

\* "Settings wait for the next connect" is said only of a key that is here and whose
\* settings do differ from the server's.
PendingIsReal == pending /\ AtRest => On /\ sub.rev < srv.rev

\* The turn belongs to a call that still runs: an exchange that failed hands it on.
TurnIsLive == \A i \in 1 .. Len(queue) : ops[queue[i]].pc # "idle"
=============================================================================
