---------------------------- MODULE UpdaterProofs ----------------------------
(***************************************************************************)
(* What the card offers to start is on disk whole and checked, and an      *)
(* application that closes for the update has its successor in its place,  *)
(* for any versions, builds, downloads, attempts and restarts.  While      *)
(* downloads take turns one of them has the file and the others wait for   *)
(* that one; the card is ready only once all of them are over.             *)
(*                                                                         *)
(* Then what the scanner of programs (PerApp) leaves behind, for any       *)
(* programs, processes, rules, connections and kills: it acts by a list    *)
(* that is old, and remembers enough to undo what it did.                  *)
(***************************************************************************)
EXTENDS MCRules, Updater, Integers, FiniteSetTheorems, TLAPS

Kinds == {"idle", "checking", "available", "downloading", "paused", "ready", "installing", "failed"}
Op == [pc : {"free", "wait", "look", "delta", "tree", "whole", "verify"}, v : Nat,
       on : Slots \cup {None}, stop : BOOLEAN, try : Nat]
SetupState == [st : {"none", "prompt", "staging", "staged", "undone", "done"}, v : Nat, run : Nat]
Active(s) == ops[s].pc \notin {"free", "wait"}

Typed ==
    /\ ops \in [Slots -> Op] /\ running \in Slots \cup {None}
    /\ \A s \in Slots : ops[s].on # None <=> ops[s].pc = "wait"
    /\ card \in [kind : Kinds, v : Nat] /\ checking \in BOOLEAN /\ twice \in BOOLEAN
    /\ file \in [v : Nat, tree : BOOLEAN] /\ tree \in [v : Nat, whole : BOOLEAN]
    /\ site \in [v : Nat, build : [Versions -> Nat]] /\ app \in {"up", "quit"} /\ run \in Nat \ {0}
    /\ win \in {"none", "run"} /\ marker \in {"none", "shown", "cancelled", "failed"}
    /\ setup \in [1 .. MaxInstalls -> SetupState]

\* One download has the file, and whoever else has begun waits for it.
Turns ==
    ~twice =>
        /\ running # None => Active(running)
        /\ \A s \in Slots : /\ Active(s) => s = running
                            /\ ops[s].pc = "wait" => ops[s].on = running

\* Downloads are under way only while the card says so, or that they were paused.
Quiet ==
    ~twice =>
        /\ card.kind \notin {"downloading", "paused"} => \A s \in Slots : ops[s].pc = "free"
        /\ checking => card.kind = "checking"

\* The folder of changed files is of the version that is being put together.
TreeIsOurs == ~twice => \A s \in Slots : ops[s].pc = "tree" => tree.v = ops[s].v

\* What the card offers to start is there, whole and checked.
OnDisk(v) ==
    /\ file.v = v
    /\ IF file.tree THEN tree = [v |-> v, whole |-> TRUE]
       ELSE disk[v].n = Whole /\ Cardinality(disk[v].by) = 1
OfferIsThere == ~twice /\ card.kind \in {"ready", "installing"} => OnDisk(card.v)

\* Installs are numbered as they come.
Numbered ==
    /\ \E k \in 0 .. MaxInstalls : Installs = 1 .. k
    /\ \A a \in Installs : setup[a].run # 0

\* A window that was shown stands for a setup that has staged, and is closed once that is over.
ShownIsStaged ==
    marker = "shown" =>
        /\ Last > 0 /\ setup[Last].st \in {"staged", "undone", "done"}
        /\ win = "run" \/ setup[Last].st \in {"undone", "done"}

QuitIsShown == app = "quit" /\ card.kind = "installing" => marker = "shown"
UpIsAlone == app = "up" /\ card.kind # "installing" /\ ~twice => win = "none"

DInv == Typed /\ Turns /\ Quiet /\ TreeIsOurs /\ OfferIsThere
HInv == Numbered /\ ShownIsStaged /\ QuitIsShown /\ UpIsAlone
IInv == DInv /\ HInv

-----------------------------------------------------------------------------
(* Lemmas *)

LEMMA CallTyped ==
  /\ None \notin Slots
  /\ NoCall \in Op /\ NoCall.pc = "free" /\ NoCall.on = None
  /\ \A v \in Nat : /\ Started(v) \in Op /\ Started(v).pc = "look" /\ Started(v).on = None
                    /\ Started(v).v = v
<1>1. NoCall \in Op /\ NoCall.pc = "free" /\ NoCall.on = None
  BY DEF NoCall, Op
<1>2. ASSUME NEW v \in Nat
      PROVE  Started(v) \in Op /\ Started(v).pc = "look" /\ Started(v).on = None /\ Started(v).v = v
  BY DEF Started, NoCall, Op
<1> QED
  BY <1>1, <1>2, SlotsAssumption

LEMMA CardTyped ==
  ASSUME NEW kind \in Kinds, NEW v \in Nat
  PROVE  Card(kind, v) \in [kind : Kinds, v : Nat] /\ Card(kind, v).kind = kind /\ Card(kind, v).v = v
  BY DEF Card

LEMMA NumbersTyped == 0 \in Nat /\ MaxInstalls \in Nat \ {0}
  BY BoundsAssumption

\* The last install is the number of those there are.
LEMMA LastIs ==
  ASSUME NEW k \in Nat, Installs = 1 .. k
  PROVE  Last = k
<1>1. Cardinality(1 .. k) = k
  <2>1. 1 \in Int /\ k \in Int /\ (1 > k <=> k = 0)
    OBVIOUS
  <2> QED
    BY <2>1, FS_Interval
<1> QED
  BY <1>1 DEF Last

\* A set of two or more is what makes downloads take the same turn.
LEMMA FewAreOne ==
  ASSUME NEW W \in SUBSET Slots, W # {}, ~(Cardinality(W) > 1)
  PROVE  \E w \in W : W = {w}
<1>1. IsFiniteSet(W) /\ Cardinality(W) \in Nat
  BY SlotsAssumption, FS_Subset, FS_CardinalityType
<1>2. Cardinality(W) # 0
  BY <1>1, FS_EmptySet
<1>3. Cardinality(W) = 1
  BY <1>1, <1>2
<1> QED
  BY <1>1, <1>3, FS_Singleton

LEMMA InitHolds == Init => IInv
<1> SUFFICES ASSUME Init PROVE IInv
  OBVIOUS
<1>1. card \in [kind : Kinds, v : Nat] /\ card.kind = "idle"
  BY CardTyped, NumbersTyped DEF Init, Kinds
<1>2. \A s \in Slots : ops[s] \in Op /\ ops[s].pc = "free" /\ ops[s].on = None
  BY CallTyped DEF Init
<1>3. NoTree \in [v : Nat, whole : BOOLEAN] /\ NoSetup \in SetupState
  BY DEF NoTree, NoSetup, SetupState
<1>4. Typed
  <2>1. /\ ops \in [Slots -> Op] /\ setup \in [1 .. MaxInstalls -> SetupState]
        /\ \A s \in Slots : ops[s].on # None <=> ops[s].pc = "wait"
    BY <1>2, <1>3, CallTyped DEF Init
  <2>2. /\ file \in [v : Nat, tree : BOOLEAN] /\ tree \in [v : Nat, whole : BOOLEAN]
        /\ site \in [v : Nat, build : [Versions -> Nat]] /\ run \in Nat \ {0} /\ running \in Slots \cup {None}
    BY <1>3 DEF Init
  <2>3. /\ app \in {"up", "quit"} /\ checking \in BOOLEAN /\ twice \in BOOLEAN
        /\ win \in {"none", "run"} /\ marker \in {"none", "shown", "cancelled", "failed"}
    BY DEF Init
  <2> QED
    BY <1>1, <2>1, <2>2, <2>3 DEF Typed
<1>5. Turns /\ Quiet /\ TreeIsOurs /\ OfferIsThere
  BY <1>1, <1>2 DEF Init, Turns, Quiet, TreeIsOurs, OfferIsThere, Active
<1>6. Numbered
  <2>1. Installs = {} /\ 1 .. 0 = {} /\ 0 \in 0 .. MaxInstalls
    BY NumbersTyped DEF Init, Installs
  <2> QED
    BY <2>1 DEF Numbered
<1>7. ShownIsStaged /\ QuitIsShown /\ UpIsAlone
  BY DEF Init, ShownIsStaged, QuitIsShown, UpIsAlone
<1> QED
  BY <1>4, <1>5, <1>6, <1>7 DEF IInv, DInv, HInv

-----------------------------------------------------------------------------
(* The steps of a download *)

\* None of them concerns the handoff, which has no download left to wait for.
LEMMA HandoffStands ==
  ASSUME IInv, NEW s \in Slots, Active(s), app = "up", UNCHANGED <<appVars, handoffVars>>,
         ~twice' => ~twice
  PROVE  HInv'
<1>1. ~twice => card.kind # "installing"
  BY DEF IInv, DInv, Quiet, Active
<1>2. Numbered' /\ ShownIsStaged'
  BY DEF IInv, HInv, Numbered, ShownIsStaged, Installs, Last, handoffVars
<1>3. QuitIsShown' /\ UpIsAlone'
  BY <1>1 DEF IInv, HInv, QuitIsShown, UpIsAlone, appVars, handoffVars
<1> QED
  BY <1>2, <1>3 DEF HInv

\* The call that has the file goes on.
LEMMA GoesKeeps ==
  ASSUME IInv, NEW s \in Slots, Active(s), app = "up",
         NEW op, op \in Op, op.pc \notin {"free", "wait"}, op.on = None, Goes(s, op),
         card' = card \/ card' = Card("downloading", op.v),
         tree' \in [v : Nat, whole : BOOLEAN], op.pc = "tree" => tree'.v = op.v,
         UNCHANGED <<checking, file, site, appVars, handoffVars>>
  PROVE  IInv'
<1>1. /\ ops' = [ops EXCEPT ![s] = op] /\ running' = running /\ twice' = twice
      /\ ops \in [Slots -> Op]
  BY DEF Goes, IInv, DInv, Typed
<1>2. /\ ops'[s] = op /\ ops' \in [Slots -> Op]
      /\ \A w \in Slots \ {s} : ops'[w] = ops[w]
  BY <1>1
<1>3. card' = card \/ (card' \in [kind : Kinds, v : Nat] /\ card'.kind = "downloading")
  BY CardTyped DEF Kinds, Op
<1>4. ~twice => s = running /\ card.kind \in {"downloading", "paused"} /\ card'.kind \in {"downloading", "paused"}
  BY <1>3 DEF IInv, DInv, Turns, Quiet, Active
<1>5. Typed'
  BY <1>1, <1>2, <1>3 DEF IInv, DInv, Typed, appVars, handoffVars
<1>6. Turns'
  BY <1>1, <1>2, <1>4 DEF IInv, DInv, Turns, Active
<1>7. Quiet' /\ OfferIsThere'
  BY <1>1, <1>4 DEF IInv, DInv, Quiet, OfferIsThere
<1>8. TreeIsOurs'
  <2> SUFFICES ASSUME ~twice, NEW w \in Slots, ops'[w].pc = "tree"
               PROVE  tree'.v = ops'[w].v
    BY <1>1 DEF TreeIsOurs
  <2>1. w = s
    BY <1>2, <1>4 DEF IInv, DInv, Turns, Active
  <2> QED
    BY <1>2, <2>1
<1>9. HInv'
  BY <1>1, HandoffStands
<1> QED
  BY <1>5, <1>6, <1>7, <1>8, <1>9 DEF IInv, DInv

\* It ends, and the one who waited has the file.
LEMMA EndsKeeps ==
  ASSUME IInv, NEW s \in Slots, Active(s), app = "up", NEW to, Ends(s, to),
         to \in [kind : Kinds, v : Nat], file' \in [v : Nat, tree : BOOLEAN],
         tree' \in [v : Nat, whole : BOOLEAN],
         ~twice => to.kind \in {"downloading", "paused", "failed", "ready"},
         ~twice /\ to.kind = "ready" => OnDisk(to.v)',
         UNCHANGED <<checking, site, appVars, handoffVars>>
  PROVE  IInv'
<1> DEFINE waiting == {w \in Slots : ops[w].on = s}
           go == to.kind = "downloading" /\ waiting # {}
<1>1. /\ card' = to
      /\ ops' = [w \in Slots |-> CASE w = s -> NoCall
                                   [] w \in waiting -> IF go THEN Started(ops[w].v) ELSE NoCall
                                   [] OTHER -> ops[w]]
      /\ IF go THEN running' \in waiting ELSE running' = None
      /\ twice' = (twice \/ (go /\ Cardinality(waiting) > 1))
  BY DEF Ends
<1>2. /\ \A w \in Slots : ops[w] \in Op /\ Started(ops[w].v) \in Op
                          /\ Started(ops[w].v).pc = "look" /\ Started(ops[w].v).on = None
      /\ waiting \in SUBSET Slots
  BY CallTyped DEF IInv, DInv, Typed, Op
<1> HIDE DEF waiting, go
<1>3. \A w \in Slots : \/ ops'[w] = NoCall
                       \/ go /\ w \in waiting /\ ops'[w] = Started(ops[w].v)
                       \/ w \notin waiting /\ w # s /\ ops'[w] = ops[w]
  BY <1>1
<1>4. Typed'
  <2>1. ops' \in [Slots -> Op] /\ \A w \in Slots : ops'[w].on # None <=> ops'[w].pc = "wait"
    BY <1>1, <1>2, <1>3, CallTyped DEF IInv, DInv, Typed
  <2>2. running' \in Slots \cup {None}
    BY <1>1, <1>2
  <2>3. twice' \in BOOLEAN
    BY <1>1 DEF IInv, DInv, Typed
  <2> QED
    BY <1>1, <2>1, <2>2, <2>3 DEF IInv, DInv, Typed, appVars, handoffVars
<1>5. ASSUME ~twice'
      PROVE  /\ ~twice /\ ~checking
             /\ \A w \in Slots : ops'[w].pc = "free" \/ (go /\ w = running' /\ ops'[w].pc = "look")
             /\ \A w \in Slots : ops'[w].on = None
             /\ go => running' \in Slots /\ ops'[running'].pc = "look"
  <2>1. ~twice /\ s = running /\ card.kind \in {"downloading", "paused"} /\ ~checking
    BY <1>1, <1>5 DEF IInv, DInv, Turns, Quiet, Active
  <2>2. \A w \in Slots : w \notin waiting /\ w # s => ops[w].pc = "free" /\ ops[w].on = None
    BY <2>1 DEF IInv, DInv, Typed, Turns, Active, waiting
  <2>3. s \notin waiting
    BY <2>1, CallTyped DEF IInv, DInv, Typed, Turns, Active, waiting
  <2>4. ASSUME go PROVE waiting = {running'}
    <3>1. waiting # {} /\ ~(Cardinality(waiting) > 1) /\ running' \in waiting
      BY <1>1, <1>5, <2>4 DEF go
    <3>2. \E w \in waiting : waiting = {w}
      BY <1>2, <3>1, FewAreOne
    <3> QED
      BY <3>1, <3>2
  <2>5. ASSUME go PROVE running' \in Slots /\ ops'[running'].pc = "look"
    <3>1. running' \in waiting /\ running' \in Slots /\ running' # s
      BY <1>2, <2>3, <2>4, <2>5
    <3>2. ops'[running'] = Started(ops[running'].v)
      BY <1>1, <2>5, <3>1
    <3> QED
      BY <1>2, <3>1, <3>2
  <2>6. ASSUME NEW w \in Slots
        PROVE  /\ ops'[w].pc = "free" \/ (go /\ w = running' /\ ops'[w].pc = "look")
               /\ ops'[w].on = None
    BY <1>2, <1>3, <2>2, <2>4, CallTyped
  <2> QED
    BY <2>1, <2>5, <2>6
<1>6. Turns'
  BY <1>1, <1>5 DEF Turns, Active
<1>7. Quiet'
  BY <1>1, <1>5 DEF Quiet, go
<1>8. TreeIsOurs'
  BY <1>5 DEF TreeIsOurs
<1>9. OfferIsThere'
  BY <1>1, <1>5 DEF OfferIsThere
<1>10. HInv'
  BY <1>1, HandoffStands
<1> QED
  BY <1>4, <1>6, <1>7, <1>8, <1>9, <1>10 DEF IInv, DInv

\* A failure says so on the card, unless the download was paused.
LEMMA FailsKeeps ==
  ASSUME IInv, NEW s \in Slots, Active(s), app = "up", Fails(s),
         tree' \in [v : Nat, whole : BOOLEAN],
         UNCHANGED <<checking, file, site, appVars, handoffVars>>
  PROVE  IInv'
<1> DEFINE to == IF ops[s].stop THEN card ELSE Card("failed", 0)
<1>1. to = card \/ (to \in [kind : Kinds, v : Nat] /\ to.kind = "failed")
  BY CardTyped, NumbersTyped DEF Kinds
<1>2. Ends(s, to)
  BY DEF Fails
<1> HIDE DEF to
<1>3. to \in [kind : Kinds, v : Nat] /\ file' \in [v : Nat, tree : BOOLEAN]
  BY <1>1 DEF IInv, DInv, Typed
<1>4. ~twice => to.kind \in {"downloading", "paused", "failed"}
  BY <1>1 DEF IInv, DInv, Quiet, Active
<1> QED
  BY <1>2, <1>3, <1>4, EndsKeeps

\* Where a download goes next, for as long as it is the same call.
LEMMA Moved ==
  ASSUME IInv, NEW s \in Slots, NEW pc \in {"delta", "tree", "whole", "verify"}, Active(s)
  PROVE  LET op == [ops[s] EXCEPT !.pc = pc] IN
         op \in Op /\ op.pc = pc /\ op.v = ops[s].v /\ op.on = None
<1>1. ops[s] \in Op /\ ops[s].on = None
  BY DEF IInv, DInv, Typed, Active
<1> QED
  BY <1>1 DEF Op

\* A call goes from one step to the next.
LEMMA MovesKeeps ==
  ASSUME IInv, NEW s \in Slots, Active(s), app = "up", NEW pc \in {"delta", "tree", "whole", "verify"},
         Goes(s, [ops[s] EXCEPT !.pc = pc]), card' = card \/ Shows(s),
         tree' \in [v : Nat, whole : BOOLEAN], pc = "tree" => tree'.v = ops[s].v,
         UNCHANGED <<checking, file, site, appVars, handoffVars>>
  PROVE  IInv'
<1> DEFINE op == [ops[s] EXCEPT !.pc = pc]
<1>1. op \in Op /\ op.pc = pc /\ op.v = ops[s].v /\ op.on = None
  BY Moved
<1>2. card' = card \/ card' = Card("downloading", op.v)
  BY <1>1 DEF Shows
<1> HIDE DEF op
<1>3. Goes(s, op)
  BY DEF op
<1> QED
  BY <1>1, <1>2, <1>3, GoesKeeps

LEMMA LooksKeeps ==
  ASSUME IInv, NEW s \in Slots, Looks(s)
  PROVE  IInv'
<1>1. Active(s) /\ app = "up" /\ UNCHANGED <<checking, file, tree, site, appVars, handoffVars>>
  BY DEF Looks, At, Active
<1>2. tree' \in [v : Nat, whole : BOOLEAN]
  BY <1>1 DEF IInv, DInv, Typed
<1>3. CASE Fails(s)
  BY <1>1, <1>2, <1>3, FailsKeeps
<1>4. CASE Goes(s, [ops[s] EXCEPT !.pc = "whole"]) /\ card' = card
  BY <1>1, <1>2, <1>4, MovesKeeps
<1>5. CASE Goes(s, [ops[s] EXCEPT !.pc = "delta"]) /\ card' = card
  BY <1>1, <1>2, <1>5, MovesKeeps
<1> QED
  BY <1>3, <1>4, <1>5 DEF Looks

LEMMA ListedKeeps ==
  ASSUME IInv, NEW s \in Slots, Listed(s)
  PROVE  IInv'
<1>1. Active(s) /\ app = "up" /\ UNCHANGED <<checking, file, site, appVars, handoffVars>>
  BY DEF Listed, At, Active
<1>2. tree' = [v |-> ops[s].v, whole |-> FALSE] /\ ops[s].v \in Nat
  BY DEF Listed, IInv, DInv, Typed, Op
<1>3. tree' \in [v : Nat, whole : BOOLEAN] /\ tree'.v = ops[s].v
  BY <1>2
<1> QED
  BY <1>1, <1>3, MovesKeeps DEF Listed

\* The folder that is complete is the one this call has put together.
LEMMA AssembledKeeps ==
  ASSUME IInv, NEW s \in Slots, Assembled(s)
  PROVE  IInv'
<1>1. Active(s) /\ app = "up" /\ UNCHANGED <<checking, site, appVars, handoffVars>>
  BY DEF Assembled, At, Active
<1>2. /\ tree' = [tree EXCEPT !.whole = TRUE] /\ tree \in [v : Nat, whole : BOOLEAN] /\ ops[s].v \in Nat
      /\ ops[s].pc = "tree" /\ file' = [v |-> ops[s].v, tree |-> TRUE]
  BY DEF Assembled, At, IInv, DInv, Typed, Op, Succeeds
<1>3. /\ tree' \in [v : Nat, whole : BOOLEAN] /\ file' \in [v : Nat, tree : BOOLEAN]
      /\ tree' = [v |-> tree.v, whole |-> TRUE]
  BY <1>2
<1> DEFINE to == Card("ready", ops[s].v)
<1>4. to \in [kind : Kinds, v : Nat] /\ to.kind = "ready" /\ to.v = ops[s].v
  BY <1>2, CardTyped DEF Kinds
<1>5. Ends(s, to)
  BY DEF Assembled, Succeeds
<1> HIDE DEF to
<1>6. ~twice => tree' = [v |-> to.v, whole |-> TRUE] /\ file'.v = to.v /\ file'.tree
  BY <1>2, <1>3, <1>4 DEF IInv, DInv, TreeIsOurs
<1>7. ASSUME ~twice PROVE file'.v = to.v /\ tree' = [v |-> to.v, whole |-> TRUE] /\ file'.tree
  BY <1>6, <1>7
<1> QED
  BY <1>1, <1>3, <1>4, <1>5, <1>7, EndsKeeps DEF OnDisk

LEMMA DeltaFailsKeeps ==
  ASSUME IInv, NEW s \in Slots, DeltaFails(s)
  PROVE  IInv'
<1>1. Active(s) /\ app = "up" /\ UNCHANGED <<checking, file, site, appVars, handoffVars>>
  BY DEF DeltaFails, At, Active
<1>2. tree' \in [v : Nat, whole : BOOLEAN]
  BY NumbersTyped DEF DeltaFails, IInv, DInv, Typed, NoTree
<1>3. CASE Fails(s)
  BY <1>1, <1>2, <1>3, FailsKeeps
<1>4. CASE Goes(s, [ops[s] EXCEPT !.pc = "whole"]) /\ Shows(s)
  BY <1>1, <1>2, <1>4, MovesKeeps
<1> QED
  BY <1>3, <1>4 DEF DeltaFails

LEMMA ReceivesKeeps ==
  ASSUME IInv, NEW s \in Slots, Receives(s)
  PROVE  IInv'
<1>1. Active(s) /\ app = "up" /\ UNCHANGED <<checking, file, tree, site, appVars, handoffVars>> /\ Shows(s)
  BY DEF Receives, At, Active
<1>2. tree' \in [v : Nat, whole : BOOLEAN]
  BY <1>1 DEF IInv, DInv, Typed
<1>3. PICK pc \in {"verify", "whole"} : Goes(s, [ops[s] EXCEPT !.pc = pc])
  BY DEF Receives
<1> QED
  BY <1>1, <1>2, <1>3, MovesKeeps

LEMMA DropsKeeps ==
  ASSUME IInv, NEW s \in Slots, Drops(s)
  PROVE  IInv'
<1>1. Active(s) /\ app = "up" /\ UNCHANGED <<checking, file, tree, site, appVars, handoffVars>>
  BY DEF Drops, At, Active
<1>2. tree' \in [v : Nat, whole : BOOLEAN]
  BY <1>1 DEF IInv, DInv, Typed
<1>3. CASE Goes(s, [ops[s] EXCEPT !.try = @ + 1]) /\ card' = card
  <2> DEFINE op == [ops[s] EXCEPT !.try = @ + 1]
  <2>1. ops[s] \in Op /\ ops[s].pc = "whole" /\ ops[s].on = None
    BY DEF IInv, DInv, Typed, Drops, At
  <2>2. op \in Op /\ op.pc = "whole" /\ op.on = None
    BY <2>1 DEF Op
  <2> HIDE DEF op
  <2>3. Goes(s, op)
    BY <1>3 DEF op
  <2> QED
    BY <1>1, <1>2, <1>3, <2>2, <2>3, GoesKeeps
<1>4. CASE Fails(s)
  BY <1>1, <1>2, <1>4, FailsKeeps
<1> QED
  BY <1>3, <1>4 DEF Drops

\* What passes the check is the whole installer, of the one build that was signed.
LEMMA VerifiesKeeps ==
  ASSUME IInv, NEW s \in Slots, Verifies(s)
  PROVE  IInv'
<1>1. Active(s) /\ app = "up" /\ UNCHANGED <<checking, tree, site, appVars, handoffVars>>
  BY DEF Verifies, At, Active
<1>2. tree' \in [v : Nat, whole : BOOLEAN] /\ ops[s].v \in Nat
  BY <1>1 DEF IInv, DInv, Typed, Op
<1>3. CASE Fails(s) /\ file' = file
  BY <1>1, <1>2, <1>3, FailsKeeps
<1>4. CASE Signed(ops[s].v) /\ Succeeds(s, [v |-> ops[s].v, tree |-> FALSE]) /\ disk' = disk
  <2> DEFINE to == Card("ready", ops[s].v)
  <2>1. to \in [kind : Kinds, v : Nat] /\ to.kind = "ready" /\ to.v = ops[s].v
    BY <1>2, CardTyped DEF Kinds
  <2>2. Ends(s, to) /\ file' = [v |-> ops[s].v, tree |-> FALSE]
    BY <1>4 DEF Succeeds
  <2>3. file' \in [v : Nat, tree : BOOLEAN] /\ file'.v = ops[s].v /\ ~file'.tree
    BY <1>2, <2>2
  <2>4. disk'[ops[s].v].n = Whole /\ Cardinality(disk'[ops[s].v].by) = 1
    <3>1. disk'[ops[s].v] = [n |-> Whole, by |-> {site.build[ops[s].v]}]
      BY <1>4 DEF Signed
    <3>2. disk'[ops[s].v].n = Whole /\ disk'[ops[s].v].by = {site.build[ops[s].v]}
      BY <3>1
    <3> QED
      BY <3>2, FS_Singleton
  <2> HIDE DEF to
  <2> QED
    BY <1>1, <1>2, <2>1, <2>2, <2>3, <2>4, EndsKeeps DEF OnDisk
<1> QED
  BY <1>3, <1>4 DEF Verifies

-----------------------------------------------------------------------------
(* The card's buttons and timers *)

\* Nothing but the site changes.
LEMMA PublishesKeeps ==
  ASSUME IInv, Publishes
  PROVE  IInv'
<1>1. UNCHANGED <<cardVars, diskVars, appVars, handoffVars>>
  BY DEF Publishes
<1>2. site' \in [v : Nat, build : [Versions -> Nat]]
  BY DEF Publishes, IInv, DInv, Typed
<1>3. DInv'
  BY <1>1, <1>2 DEF IInv, DInv, Typed, Turns, Quiet, TreeIsOurs, OfferIsThere, OnDisk, Active,
                    cardVars, diskVars, appVars, handoffVars
<1>4. HInv'
  BY <1>1 DEF IInv, HInv, Numbered, Installs, ShownIsStaged, Last, QuitIsShown, UpIsAlone,
              cardVars, appVars, handoffVars
<1> QED
  BY <1>3, <1>4 DEF IInv

\* The handoff has nothing to do with a card that offers no install, before and after.
LEMMA HandoffIdle ==
  ASSUME IInv, UNCHANGED <<appVars, handoffVars>>, twice' = twice, app = "up",
         ~twice => card.kind # "installing", card'.kind # "installing"
  PROVE  HInv'
  BY DEF IInv, HInv, Numbered, Installs, ShownIsStaged, Last, QuitIsShown, UpIsAlone, appVars, handoffVars

LEMMA CheckKeeps ==
  ASSUME IInv, Check
  PROVE  IInv'
<1>1. /\ card' = Card("checking", 0) /\ checking' /\ card.kind \in {"idle", "failed"} /\ app = "up"
      /\ UNCHANGED <<running, ops, offered, file, wholeOnly, twice, site, diskVars, appVars, handoffVars>>
  BY DEF Check, MayCheck, Asks
<1>2. card' \in [kind : Kinds, v : Nat] /\ card'.kind = "checking"
  BY <1>1, CardTyped, NumbersTyped DEF Kinds
<1>3. checking' \in BOOLEAN
  BY DEF Check
<1>4. Typed' /\ Turns'
  BY <1>1, <1>2, <1>3 DEF IInv, DInv, Typed, Turns, Active, diskVars, appVars, handoffVars
<1>5. Quiet' /\ TreeIsOurs' /\ OfferIsThere'
  BY <1>1, <1>2 DEF IInv, DInv, Quiet, TreeIsOurs, OfferIsThere, diskVars
<1>6. HInv'
  BY <1>1, <1>2, HandoffIdle
<1> QED
  BY <1>4, <1>5, <1>6 DEF IInv, DInv

\* A new call takes the file if nobody has it, and waits for it otherwise.
LEMMA BeginsKeeps ==
  ASSUME IInv, NEW v \in Nat, Begins(v), app = "up", ~twice => card.kind # "installing",
         checking' \in BOOLEAN, ~twice => ~checking',
         UNCHANGED <<file, twice, site, diskVars, appVars, handoffVars>>
  PROVE  IInv'
<1>1. PICK s \in Slots :
        /\ ops[s] = NoCall /\ ops' = [ops EXCEPT ![s] = Waits(s, v)]
        /\ running' = IF running = None THEN s ELSE running
        /\ card' = Card("downloading", v)
  BY DEF Begins
<1>2. card' \in [kind : Kinds, v : Nat] /\ card'.kind = "downloading"
  BY <1>1, CardTyped DEF Kinds
<1>3. /\ Waits(s, v) \in Op
      /\ running = None => Waits(s, v).pc = "look" /\ Waits(s, v).on = None
      /\ running # None => Waits(s, v).pc = "wait" /\ Waits(s, v).on = running
  <2>1. running \in Slots \cup {None}
    BY DEF IInv, DInv, Typed
  <2> DEFINE waits == [NoCall EXCEPT !.pc = "wait", !.v = v, !.on = running]
  <2>2. waits \in Op /\ waits.pc = "wait" /\ waits.on = running
    BY <2>1, CallTyped DEF Op
  <2> HIDE DEF waits
  <2>3. Waits(s, v) = IF running = None THEN Started(v) ELSE waits
    BY DEF Waits, waits
  <2> QED
    BY <2>2, <2>3, CallTyped
<1>4. /\ ops \in [Slots -> Op] /\ ops' \in [Slots -> Op] /\ ops'[s] = Waits(s, v)
      /\ \A w \in Slots \ {s} : ops'[w] = ops[w]
  BY <1>1, <1>3 DEF IInv, DInv, Typed
<1>5. Typed'
  <2>1. running' \in Slots \cup {None}
    BY <1>1 DEF IInv, DInv, Typed
  <2>2. \A w \in Slots : ops'[w].on # None <=> ops'[w].pc = "wait"
    BY <1>3, <1>4 DEF IInv, DInv, Typed
  <2> QED
    BY <1>2, <1>4, <2>1, <2>2 DEF IInv, DInv, Typed, diskVars, appVars, handoffVars
<1>6. Turns'
  <2>1. CASE running = None
    <3>1. ~twice => \A w \in Slots : ~Active(w) /\ ops[w].pc # "wait"
      BY <2>1, CallTyped DEF IInv, DInv, Typed, Turns
    <3> QED
      BY <1>1, <1>3, <1>4, <2>1, <3>1, CallTyped DEF Turns, Active
  <2>2. CASE running # None
    <3>1. running \in Slots /\ running' = running /\ ~Active(s)'
      BY <1>1, <1>3, <1>4, <2>2 DEF IInv, DInv, Typed, Active
    <3>2. ~twice => running # s
      BY <1>1, <2>2, CallTyped DEF IInv, DInv, Turns, Active
    <3> QED
      BY <1>1, <1>3, <1>4, <2>2, <3>1, <3>2 DEF IInv, DInv, Turns, Active
  <2> QED
    BY <2>1, <2>2
<1>7. Quiet' /\ OfferIsThere'
  BY <1>2 DEF Quiet, OfferIsThere
<1>8. TreeIsOurs'
  BY <1>3, <1>4 DEF IInv, DInv, TreeIsOurs, diskVars
<1>9. HInv'
  BY <1>2, HandoffIdle
<1> QED
  BY <1>5, <1>6, <1>7, <1>8, <1>9 DEF IInv, DInv

LEMMA CheckedKeeps ==
  ASSUME IInv, Checked
  PROVE  IInv'
<1>1. /\ app = "up" /\ checking /\ ~checking' /\ checking' \in BOOLEAN
      /\ UNCHANGED <<file, twice, site, diskVars, appVars, handoffVars>>
  BY DEF Checked
<1>2. ~twice => card.kind = "checking" /\ \A s \in Slots : ops[s].pc = "free"
  BY <1>1 DEF IInv, DInv, Quiet
<1>3. CASE Begins(site.v)
  <2>1. site.v \in Nat
    BY DEF IInv, DInv, Typed
  <2> QED
    BY <1>1, <1>2, <1>3, <2>1, BeginsKeeps
<1>4. CASE UNCHANGED <<running, ops>>
           /\ card' \in {Card("failed", 0), Card("idle", 0), Card("available", site.v)}
  <2>1. /\ card' \in [kind : Kinds, v : Nat]
        /\ card'.kind \in {"failed", "idle", "available"}
    <3>1. site.v \in Nat /\ {"failed", "idle", "available"} \subseteq Kinds
      BY DEF IInv, DInv, Typed, Kinds
    <3> QED
      BY <1>4, <3>1, CardTyped, NumbersTyped
  <2>2. Typed' /\ Turns'
    BY <1>1, <1>4, <2>1 DEF IInv, DInv, Typed, Turns, Active, diskVars, appVars, handoffVars
  <2>3. Quiet' /\ TreeIsOurs' /\ OfferIsThere'
    BY <1>1, <1>2, <1>4, <2>1 DEF IInv, DInv, Quiet, TreeIsOurs, OfferIsThere, diskVars
  <2>4. HInv'
    BY <1>1, <1>2, <2>1, HandoffIdle
  <2> QED
    BY <2>2, <2>3, <2>4 DEF IInv, DInv
<1> QED
  BY <1>3, <1>4 DEF Checked

LEMMA DownloadKeeps ==
  ASSUME IInv, Download
  PROVE  IInv'
<1>1. /\ app = "up" /\ card.kind \in {"available", "paused"} /\ Begins(card.v) /\ card.v \in Nat
      /\ checking' \in BOOLEAN
      /\ UNCHANGED <<checking, file, twice, site, diskVars, appVars, handoffVars>>
  BY DEF Download, Asks, IInv, DInv, Typed
<1>2. ~twice => ~checking'
  BY <1>1 DEF IInv, DInv, Quiet
<1> QED
  BY <1>1, <1>2, BeginsKeeps

LEMMA PauseKeeps ==
  ASSUME IInv, Pause
  PROVE  IInv'
<1>1. /\ app = "up" /\ card.kind = "downloading" /\ card' = Card("paused", card.v) /\ card.v \in Nat
      /\ ops' = (IF running = None THEN ops ELSE [ops EXCEPT ![running].stop = TRUE])
      /\ UNCHANGED <<checking, running, file, twice, site, diskVars, appVars, handoffVars>>
  BY DEF Pause, Asks, IInv, DInv, Typed
<1>2. card' \in [kind : Kinds, v : Nat] /\ card'.kind = "paused"
  BY <1>1, CardTyped DEF Kinds
<1>3. /\ ops' \in [Slots -> Op]
      /\ \A s \in Slots : /\ ops'[s].pc = ops[s].pc /\ ops'[s].on = ops[s].on
                          /\ ops'[s].v = ops[s].v
  <2> DEFINE stopped(s) == [ops[s] EXCEPT !.stop = TRUE]
  <2>1. \A s \in Slots : /\ stopped(s) \in Op /\ stopped(s).pc = ops[s].pc
                         /\ stopped(s).on = ops[s].on /\ stopped(s).v = ops[s].v
    BY DEF IInv, DInv, Typed, Op
  <2>2. ops' = ops \/ (running \in Slots /\ ops' = [ops EXCEPT ![running] = stopped(running)])
    BY <1>1 DEF IInv, DInv, Typed
  <2> HIDE DEF stopped
  <2> QED
    BY <2>1, <2>2 DEF IInv, DInv, Typed
<1>4. Typed' /\ Turns'
  BY <1>1, <1>2, <1>3 DEF IInv, DInv, Typed, Turns, Active, diskVars, appVars, handoffVars
<1>5. Quiet' /\ TreeIsOurs' /\ OfferIsThere'
  BY <1>1, <1>2, <1>3 DEF IInv, DInv, Quiet, TreeIsOurs, OfferIsThere, diskVars
<1>6. HInv'
  BY <1>1, <1>2, HandoffIdle
<1> QED
  BY <1>4, <1>5, <1>6 DEF IInv, DInv

-----------------------------------------------------------------------------
(* The handoff *)

HandoffTyped ==
    /\ app \in {"up", "quit"} /\ run \in Nat \ {0}
    /\ win \in {"none", "run"} /\ marker \in {"none", "shown", "cancelled", "failed"}
    /\ setup \in [1 .. MaxInstalls -> SetupState]

\* The installer's window and the setup say nothing to the card before it hears them.
LEMMA DownloadsStand ==
  ASSUME IInv, UNCHANGED <<site, cardVars, diskVars>>, HandoffTyped'
  PROVE  DInv'
  BY DEF IInv, DInv, Typed, Turns, Quiet, TreeIsOurs, OfferIsThere, OnDisk, Active, HandoffTyped,
         cardVars, diskVars

LEMMA LastTyped ==
  ASSUME IInv
  PROVE  /\ Last \in 0 .. MaxInstalls /\ Installs = 1 .. Last
         /\ MaxInstalls \in Nat /\ HandoffTyped
<1>1. PICK k \in 0 .. MaxInstalls : Installs = 1 .. k
  BY DEF IInv, HInv, Numbered
<1>2. k \in Nat /\ MaxInstalls \in Nat
  BY NumbersTyped
<1>3. Last = k
  BY <1>1, <1>2, LastIs
<1> QED
  BY <1>1, <1>2, <1>3 DEF IInv, DInv, Typed, HandoffTyped

\* A setup goes on: it is the same install.
LEMMA BecomesNumbered ==
  ASSUME IInv, NEW a \in 1 .. MaxInstalls, NEW st, st \in {"none", "staging", "staged", "undone", "done"},
         setup[a].st # "none", Becomes(a, st)
  PROVE  /\ setup' \in [1 .. MaxInstalls -> SetupState]
         /\ Numbered' /\ Last' = Last /\ a \in 1 .. Last
         /\ setup'[a].st = st /\ \A b \in (1 .. MaxInstalls) \ {a} : setup'[b] = setup[b]
<1> DEFINE r == [setup[a] EXCEPT !.st = st]
<1>1. setup \in [1 .. MaxInstalls -> SetupState] /\ setup[a] \in SetupState
  BY DEF IInv, DInv, Typed
<1>2. r \in SetupState /\ r.st = st /\ r.run = setup[a].run
  BY <1>1 DEF SetupState
<1>3. a \in Installs
  BY DEF Installs, NoSetup
<1>4. setup[a].run # 0 /\ NoSetup.run = 0
  BY <1>3 DEF IInv, HInv, Numbered, NoSetup
<1> HIDE DEF r
<1>5. setup' = [setup EXCEPT ![a] = r]
  BY DEF Becomes, r
<1>6. /\ setup' \in [1 .. MaxInstalls -> SetupState] /\ setup'[a] = r
      /\ \A b \in (1 .. MaxInstalls) \ {a} : setup'[b] = setup[b]
  BY <1>1, <1>2, <1>5
<1>7. r # NoSetup
  BY <1>2, <1>4
<1>8. Installs' = Installs
  BY <1>3, <1>6, <1>7 DEF Installs
<1>9. Last' = Last
  BY <1>8 DEF Last
<1>10. Numbered'
  <2>1. \A b \in Installs : b \in 1 .. MaxInstalls /\ setup'[b].run = setup[b].run
    BY <1>2, <1>6 DEF Installs
  <2> QED
    BY <1>8, <2>1 DEF IInv, HInv, Numbered
<1> QED
  BY <1>2, <1>3, <1>6, <1>9, <1>10, LastTyped

\* Before it was shown, a window that goes was never waited for.
LEMMA PromptedKeeps ==
  ASSUME IInv, NEW a \in 1 .. MaxInstalls, Prompted(a) \/ Stages(a)
  PROVE  IInv'
<1>1. /\ UNCHANGED <<site, cardVars, diskVars, appVars, calls>>
      /\ setup[a].st \in {"prompt", "staging"}
      /\ \/ UNCHANGED <<marker, win>>
         \/ marker = "none" /\ marker' \in {"cancelled", "failed"} /\ win' = "none"
  BY DEF Prompted, Stages, Aborts
<1>2. PICK st \in {"none", "staging", "staged"} : Becomes(a, st)
  BY DEF Prompted, Stages
<1>3. /\ setup' \in [1 .. MaxInstalls -> SetupState]
      /\ Numbered' /\ Last' = Last /\ a \in 1 .. Last
      /\ \A b \in (1 .. MaxInstalls) \ {a} : setup'[b] = setup[b]
  BY <1>1, <1>2, BecomesNumbered
<1>4. HandoffTyped'
  BY <1>1, <1>3, LastTyped DEF HandoffTyped, appVars
<1>5. ShownIsStaged'
  <2> SUFFICES ASSUME marker' = "shown" PROVE ShownIsStaged'
    BY DEF ShownIsStaged
  <2>1. marker = "shown" /\ win' = win
    BY <1>1
  <2>2. Last # a /\ Last \in 1 .. MaxInstalls
    BY <1>1, <2>1, LastTyped DEF IInv, HInv, ShownIsStaged
  <2>3. setup'[Last] = setup[Last]
    BY <1>3, <2>2
  <2> QED
    BY <1>3, <2>1, <2>3 DEF IInv, HInv, ShownIsStaged
<1>6. QuitIsShown' /\ UpIsAlone'
  BY <1>1 DEF IInv, HInv, QuitIsShown, UpIsAlone, appVars, cardVars
<1> QED
  BY <1>1, <1>3, <1>4, <1>5, <1>6, DownloadsStand DEF IInv, HInv

\* The window says that it is shown once the new version is staged.
LEMMA RevealsKeeps ==
  ASSUME IInv, NEW a \in 1 .. MaxInstalls, Reveals(a)
  PROVE  IInv'
<1>1. /\ UNCHANGED <<site, cardVars, diskVars, appVars, win, setup>> /\ marker' = "shown" /\ win = "run"
      /\ a = Last /\ setup[Last].st \in {"staged", "undone"}
  BY DEF Reveals, MayShow
<1>2. HandoffTyped'
  BY <1>1, LastTyped DEF HandoffTyped, appVars
<1>3. Last' = Last /\ Numbered'
  BY <1>1 DEF IInv, HInv, Numbered, Last, Installs
<1>4. ShownIsStaged'
  BY <1>1, <1>3, LastTyped DEF ShownIsStaged
<1>5. QuitIsShown' /\ UpIsAlone'
  BY <1>1 DEF IInv, HInv, QuitIsShown, UpIsAlone, appVars, cardVars
<1> QED
  BY <1>1, <1>2, <1>3, <1>4, <1>5, DownloadsStand DEF IInv, HInv

LEMMA SwapsKeeps ==
  ASSUME IInv, NEW a \in 1 .. MaxInstalls, Swaps(a)
  PROVE  IInv'
<1>1. UNCHANGED <<site, cardVars, diskVars, app, run, win, marker>> /\ setup[a].st = "staged"
  BY DEF Swaps
<1>2. PICK st \in {"undone", "done"} : Becomes(a, st)
  BY DEF Swaps
<1>3. /\ setup' \in [1 .. MaxInstalls -> SetupState]
      /\ Numbered' /\ Last' = Last /\ a \in 1 .. Last /\ setup'[a].st = st
      /\ \A b \in (1 .. MaxInstalls) \ {a} : setup'[b] = setup[b]
  BY <1>1, <1>2, BecomesNumbered
<1>4. HandoffTyped'
  BY <1>1, <1>3, LastTyped DEF HandoffTyped
<1>5. ShownIsStaged'
  <2> SUFFICES ASSUME marker = "shown" PROVE ShownIsStaged'
    BY <1>1 DEF ShownIsStaged
  <2>1. Last \in 1 .. MaxInstalls /\ (Last # a => setup'[Last] = setup[Last])
    BY <1>3, LastTyped DEF IInv, HInv, ShownIsStaged
  <2> QED
    BY <1>1, <1>3, <2>1 DEF IInv, HInv, ShownIsStaged
<1>6. QuitIsShown' /\ UpIsAlone'
  BY <1>1 DEF IInv, HInv, QuitIsShown, UpIsAlone, cardVars
<1> QED
  BY <1>1, <1>3, <1>4, <1>5, <1>6, DownloadsStand DEF IInv, HInv

\* A window that goes had its word said, and its setup over, or had said nothing.
LEMMA WindowGoesKeeps ==
  ASSUME IInv, Closes \/ WindowDies
  PROVE  IInv'
<1>1. /\ UNCHANGED <<site, cardVars, diskVars, appVars, marker, setup>> /\ win' = "none"
      /\ marker = "none" \/ setup[Last].st \in {"undone", "done"}
  BY DEF Closes, WindowDies
<1>2. HandoffTyped'
  BY <1>1, LastTyped DEF HandoffTyped, appVars
<1>3. Last' = Last /\ Numbered'
  BY <1>1 DEF IInv, HInv, Numbered, Last, Installs
<1>4. ShownIsStaged'
  BY <1>1, <1>3 DEF IInv, HInv, ShownIsStaged
<1>5. QuitIsShown' /\ UpIsAlone'
  BY <1>1 DEF IInv, HInv, QuitIsShown, UpIsAlone, appVars, cardVars
<1> QED
  BY <1>1, <1>2, <1>3, <1>4, <1>5, DownloadsStand DEF IInv, HInv

\* The next install has the next number.
LEMMA InstallKeeps ==
  ASSUME IInv, Install
  PROVE  IInv'
<1> DEFINE next == Last + 1
           r == [st |-> "prompt", v |-> card.v, run |-> run]
<1>1. /\ app = "up" /\ card.kind = "ready" /\ Last < MaxInstalls
      /\ card' = Card("installing", card.v) /\ win' = "run" /\ marker' = "none"
      /\ setup' = [setup EXCEPT ![next] = r]
      /\ UNCHANGED <<checking, running, ops, offered, file, wholeOnly, twice, site, diskVars, appVars>>
  BY DEF Install, Asks
<1>2. card' \in [kind : Kinds, v : Nat] /\ card'.kind = "installing" /\ card'.v = card.v
  BY <1>1, CardTyped DEF IInv, DInv, Typed, Kinds
<1>3. r \in SetupState /\ r.run # 0 /\ r # NoSetup
  BY DEF IInv, DInv, Typed, SetupState, NoSetup
<1>4. next \in 1 .. MaxInstalls /\ setup \in [1 .. MaxInstalls -> SetupState] /\ Last \in Nat
  BY <1>1, LastTyped DEF HandoffTyped
<1> HIDE DEF r
<1>5. /\ setup' \in [1 .. MaxInstalls -> SetupState] /\ setup'[next] = r
      /\ \A a \in (1 .. MaxInstalls) \ {next} : setup'[a] = setup[a]
  BY <1>1, <1>3, <1>4
<1>6. Numbered'
  <2>1. Installs' = Installs \cup {next}
    BY <1>3, <1>4, <1>5 DEF Installs
  <2>2. Installs' = 1 .. next
    BY <1>4, <2>1, LastTyped
  <2>3. \A a \in Installs' : setup'[a].run # 0
    BY <1>3, <1>5, <2>1 DEF IInv, HInv, Numbered, Installs
  <2> QED
    BY <1>4, <2>2, <2>3 DEF Numbered
<1>7. Typed' /\ Turns'
  BY <1>1, <1>2, <1>5 DEF IInv, DInv, Typed, Turns, Active, diskVars, appVars
<1>8. Quiet' /\ TreeIsOurs' /\ OfferIsThere'
  BY <1>1, <1>2 DEF IInv, DInv, Quiet, TreeIsOurs, OfferIsThere, OnDisk, diskVars
<1>9. ShownIsStaged' /\ QuitIsShown' /\ UpIsAlone'
  BY <1>1, <1>2 DEF ShownIsStaged, QuitIsShown, UpIsAlone, appVars
<1> QED
  BY <1>6, <1>7, <1>8, <1>9 DEF IInv, DInv, HInv

\* It quits for a window that is shown, and goes on without one otherwise.
LEMMA HearsKeeps ==
  ASSUME IInv, Hears
  PROVE  IInv'
<1>1. /\ app = "up" /\ card.kind = "installing"
      /\ UNCHANGED <<checking, running, ops, offered, file, twice, site, disk, run, cur, have, marker, setup, calls>>
      /\ \/ marker = "shown" /\ app' = "quit" /\ UNCHANGED <<card, wholeOnly, tree, win>>
         \/ /\ marker # "shown" /\ app' = app /\ win' = "none"
            /\ \/ card' = Card("ready", card.v) /\ tree' = tree
               \/ card' = Card("failed", 0) /\ tree' \in {tree, NoTree}
  BY DEF Hears, Says, InstallFails, LetGo
<1>2. /\ card' \in [kind : Kinds, v : Nat]
      /\ \/ card' = card /\ app' = "quit" /\ marker = "shown" /\ win' = win /\ tree' = tree
         \/ /\ app' = app /\ win' = "none" /\ marker # "shown"
            /\ \/ card'.kind = "ready" /\ card'.v = card.v /\ tree' = tree
               \/ card'.kind = "failed"
  <2>1. card.v \in Nat /\ card \in [kind : Kinds, v : Nat] /\ {"ready", "failed"} \subseteq Kinds
    BY DEF IInv, DInv, Typed, Kinds
  <2>2. /\ Card("ready", card.v) \in [kind : Kinds, v : Nat]
        /\ Card("ready", card.v).kind = "ready" /\ Card("ready", card.v).v = card.v
        /\ Card("failed", 0) \in [kind : Kinds, v : Nat] /\ Card("failed", 0).kind = "failed"
    BY <2>1, CardTyped, NumbersTyped
  <2> QED
    BY <1>1, <2>1, <2>2
<1>3. tree' \in [v : Nat, whole : BOOLEAN]
  <2>1. NoTree \in [v : Nat, whole : BOOLEAN] /\ tree \in [v : Nat, whole : BOOLEAN]
    BY DEF NoTree, IInv, DInv, Typed
  <2>2. tree' = tree \/ tree' = NoTree
    BY <1>1
  <2> QED
    BY <2>1, <2>2
<1>4. Typed' /\ Turns'
  BY <1>1, <1>2, <1>3 DEF IInv, DInv, Typed, Turns, Active
<1>5. ~twice => (\A s \in Slots : ops[s].pc = "free") /\ ~checking
  BY <1>1 DEF IInv, DInv, Quiet
<1>6. Quiet' /\ TreeIsOurs'
  BY <1>1, <1>5 DEF Quiet, TreeIsOurs
<1>7. OfferIsThere'
  BY <1>1, <1>2 DEF IInv, DInv, OfferIsThere, OnDisk
<1>8. Numbered' /\ Last' = Last
  BY <1>1 DEF IInv, HInv, Numbered, Last, Installs
<1>9. ShownIsStaged' /\ QuitIsShown' /\ UpIsAlone'
  BY <1>1, <1>2, <1>8 DEF IInv, HInv, ShownIsStaged, QuitIsShown, UpIsAlone
<1> QED
  BY <1>4, <1>6, <1>7, <1>8, <1>9 DEF IInv, DInv, HInv

\* A start begins with nothing: no card, no download, and no window beside it.
LEMMA StartsKeeps ==
  ASSUME IInv, Quits \/ Starts
  PROVE  IInv'
<1>1. /\ Fresh /\ UNCHANGED <<site, diskVars, handoffVars>>
      /\ \/ app' = "quit" /\ run' = run
         \/ app' = "up" /\ run' = run + 1 /\ win = "none"
  BY DEF Quits, Starts
<1>2. card' \in [kind : Kinds, v : Nat] /\ card'.kind = "idle"
  BY <1>1, CardTyped, NumbersTyped DEF Fresh, Kinds
<1>3. /\ ops' \in [Slots -> Op] /\ running' = None /\ ~checking' /\ ~twice'
      /\ \A s \in Slots : ops'[s].pc = "free" /\ ops'[s].on = None
      /\ file' \in [v : Nat, tree : BOOLEAN] /\ checking' \in BOOLEAN /\ twice' \in BOOLEAN
  BY <1>1, CallTyped, NumbersTyped DEF Fresh
<1>4. Typed'
  BY <1>1, <1>2, <1>3 DEF IInv, DInv, Typed, diskVars, handoffVars
<1>5. Turns' /\ Quiet' /\ TreeIsOurs' /\ OfferIsThere'
  BY <1>2, <1>3 DEF Turns, Quiet, TreeIsOurs, OfferIsThere, Active
<1>6. Numbered' /\ ShownIsStaged'
  BY <1>1 DEF IInv, HInv, Numbered, ShownIsStaged, Installs, Last, handoffVars
<1>7. QuitIsShown' /\ UpIsAlone'
  BY <1>1, <1>2 DEF QuitIsShown, UpIsAlone, handoffVars
<1> QED
  BY <1>4, <1>5, <1>6, <1>7 DEF IInv, DInv, HInv

LEMMA Inductive == IInv /\ [Next]_vars => IInv'
<1> SUFFICES ASSUME IInv, [Next]_vars PROVE IInv'
  OBVIOUS
<1>1. CASE Publishes \/ Check \/ Download \/ Pause \/ Checked
  BY <1>1, PublishesKeeps, CheckKeeps, DownloadKeeps, PauseKeeps, CheckedKeeps
<1>2. CASE Install \/ Quits \/ Starts \/ Hears \/ Closes \/ WindowDies
  BY <1>2, InstallKeeps, StartsKeeps, HearsKeeps, WindowGoesKeeps
<1>3. ASSUME NEW s \in Slots, Downloads(s) PROVE IInv'
  BY <1>3, LooksKeeps, ListedKeeps, AssembledKeeps, DeltaFailsKeeps, ReceivesKeeps, DropsKeeps, VerifiesKeeps
  DEF Downloads
<1>4. ASSUME NEW a \in 1 .. MaxInstalls, Setup(a) PROVE IInv'
  BY <1>4, PromptedKeeps, RevealsKeeps, SwapsKeeps DEF Setup
<1>5. CASE UNCHANGED vars
  <2>1. UNCHANGED <<site, cardVars, diskVars>> /\ UNCHANGED <<appVars, handoffVars>>
    BY <1>5 DEF vars
  <2>2. HandoffTyped'
    BY <2>1, LastTyped DEF HandoffTyped, appVars, handoffVars
  <2>3. HInv'
    BY <2>1 DEF IInv, HInv, Numbered, Installs, ShownIsStaged, Last, QuitIsShown, UpIsAlone,
                cardVars, appVars, handoffVars
  <2> QED
    BY <2>1, <2>2, <2>3, DownloadsStand DEF IInv
<1> QED
  BY <1>1, <1>2, <1>3, <1>4, <1>5 DEF Next, User

\* Every state that the updater reaches has the invariant.
THEOREM Invariance == Spec => []IInv
  BY InitHolds, Inductive, PTL DEF Spec

\* What the card offers to start is on disk whole, of one build, checked, and no download writes
\* to it any more.
THEOREM Ready == Spec => []ReadyIsChecked
<1>1. IInv => ReadyIsChecked
  BY DEF IInv, DInv, ReadyIsChecked, OfferIsThere, OnDisk, Quiet
<1> QED
  BY <1>1, Invariance, PTL

\* An application that closed for the update has its successor's window open in its place, or the
\* update is over; one that goes on has no installer left running.
THEOREM Handed == Spec => []HandedOver
<1>1. IInv => HandedOver
  BY DEF IInv, HInv, HandedOver, ShownIsStaged, QuitIsShown, UpIsAlone
<1> QED
  BY <1>1, Invariance, PTL
(* What the scanner of programs leaves behind (PerApp) *)

\* Where a process, a list or the scanner's memory may say that it is.
Places == Homes \cup P!Ways \cup {P!Root}
\* The programs that a process may be running: the first is any of them.
Images == Exes \cup {"", CHOOSE e \in Exes : TRUE}
AppsTyped ==
    /\ DOMAIN proc = Pids /\ (\A p \in Pids : proc[p] \in [exe : Images, at : Places \cup {""}])
    /\ \A p \in Pids : proc[p].at = "" => proc[p] = P!NoProc
    /\ DOMAIN home = Pids /\ gone \subseteq Homes /\ there \subseteq P!Ways
    /\ DOMAIN list \subseteq Pids /\ (\A p \in DOMAIN list : list[p].at \in Places)
    /\ DOMAIN origin \subseteq Pids /\ (\A p \in DOMAIN origin : origin[p] \in Places)
    /\ DOMAIN where \subseteq DOMAIN origin /\ left \subseteq DOMAIN list
    /\ count \in [runs : Nat, steps : Nat, kills : Nat]
\* What the service remembers and has set up when it is not carrying the rules out.
AppsPhases ==
    /\ looking => stage \in {"first", "on"}
    /\ stage \notin {"first", "saving", "on", "restoring"} => DOMAIN origin = {}
    /\ stage \in {"removing", "emptying"} => fw = {} /\ ~marked
    /\ stage = "dead" /\ ~saved => lost
    /\ stage \in {"dead", "emptying"} => count.kills > 0
\* A cgroup of the service with a process in it is there.
WaysAreThere ==
    /\ stage \in {"firewall", "marks", "first", "saving", "on"} => P!Dirs \subseteq there
    /\ \A p \in Pids : proc[p].at \in P!Ways => proc[p].at \in there
    /\ \A p \in DOMAIN origin : origin[p] \in P!Ways => origin[p] \in there
    /\ looking => \A p \in DOMAIN list : list[p].at \in P!Ways => list[p].at \in there
\* A process in one was moved there, or began in it.
MovedOrBorn ==
    ~lost =>
        /\ stage \notin {"dead", "emptying"} =>
              \A p \in Pids : proc[p].at \in P!Ways => p \in DOMAIN where \cup inside
        /\ stage = "emptying" => \A p \in Pids : proc[p].at \in P!Ways => p \in left \cup inside
        /\ \A p \in DOMAIN origin : origin[p] \in P!Ways => p \in inside
        /\ looking => \A p \in DOMAIN list : list[p].at \in P!Ways => p \in DOMAIN where \cup inside
\* Whom the scanner has moved and does not see any more has exited.
ForgottenAreGone == looking => \A p \in DOMAIN where \ DOMAIN list : proc[p].at = ""
\* Where a process that began outside the service's cgroups may be put back.
BackAt(p, x) == x = home[p] \/ (x = P!Root /\ (home[p] \in gone \/ count.kills > 0))
KnowsTheWayBack ==
    ~lost => \A p \in Pids \ inside :
        /\ proc[p].at \notin P!Ways \cup {""} => BackAt(p, proc[p].at)
        /\ p \in DOMAIN origin => BackAt(p, origin[p])
        /\ looking /\ p \in DOMAIN list /\ list[p].at \notin P!Ways => BackAt(p, list[p].at)
AppsInv == AppsTyped /\ AppsPhases /\ WaysAreThere /\ MovedOrBorn /\ ForgottenAreGone /\ KnowsTheWayBack

LEMMA NothingIs == DOMAIN P!Nothing = {}
BY DEF P!Nothing

LEMMA WaysAre == \A w \in P!Ways : w # "" /\ w # P!Root /\ w \notin Homes
BY HomesAssumption DEF P!Ways, P!Root

LEMMA PlacesAre == "" \notin Places
BY HomesAssumption DEF P!Ways, P!Root, Places

LEMMA CountGrows ==
  ASSUME NEW c \in [runs : Nat, steps : Nat, kills : Nat]
  PROVE  /\ [c EXCEPT !.runs = @ + 1] \in [runs : Nat, steps : Nat, kills : Nat]
         /\ [c EXCEPT !.steps = @ + 1] \in [runs : Nat, steps : Nat, kills : Nat]
         /\ [c EXCEPT !.kills = @ + 1] \in [runs : Nat, steps : Nat, kills : Nat]
         /\ [c EXCEPT !.kills = @ + 1].kills > 0
         /\ [c EXCEPT !.runs = @ + 1].kills = c.kills /\ [c EXCEPT !.steps = @ + 1].kills = c.kills
OBVIOUS

(* What the service does by itself *)

LEMMA StartKept ==
  ASSUME AppsInv, P!Start
  PROVE  AppsInv'
<1> USE DEF P!Start, P!Stays, P!world, P!scanner, P!Nothing
<1>1. AppsTyped'
  <2>1. count' \in [runs : Nat, steps : Nat, kills : Nat]
    BY CountGrows DEF AppsInv, AppsTyped
  <2>2. there' \subseteq P!Ways
    <3>1. \E made \in SUBSET P!DirsOf(routing') : there' = there \cup made
      OBVIOUS
    <3>2. P!DirsOf(routing') \subseteq P!Ways /\ there \subseteq P!Ways
      BY RoutingsAssumption DEF AppsInv, AppsTyped
    <3> QED
      BY <3>1, <3>2
  <2> QED
    BY <2>1, <2>2 DEF AppsInv, AppsTyped
<1>2. AppsPhases'
  BY DEF AppsInv, AppsPhases
<1>3. WaysAreThere'
  <2>1. P!Dirs' = P!DirsOf(routing')
    BY DEF P!Dirs
  <2> QED
    BY <2>1 DEF AppsInv, WaysAreThere
<1>4. MovedOrBorn'
  BY DEF AppsInv, MovedOrBorn
<1>5. ForgottenAreGone'
  BY DEF AppsInv, ForgottenAreGone
<1>6. KnowsTheWayBack'
  BY DEF AppsInv, AppsTyped, KnowsTheWayBack, BackAt
<1> QED
  BY <1>1, <1>2, <1>3, <1>4, <1>5, <1>6 DEF AppsInv

LEMMA InstallFirewallKept ==
  ASSUME AppsInv, P!InstallFirewall
  PROVE  AppsInv'
<1> USE DEF P!InstallFirewall, P!Stays, P!world, P!scanner, P!Nothing
<1>1. AppsTyped'
  BY DEF AppsInv, AppsTyped
<1>2. AppsPhases'
  BY DEF AppsInv, AppsPhases
<1>3. WaysAreThere'
  <2>1. P!Dirs' = P!Dirs
    BY DEF P!Dirs
  <2> QED
    BY <2>1 DEF AppsInv, WaysAreThere
<1>4. MovedOrBorn'
  BY DEF AppsInv, MovedOrBorn
<1>5. ForgottenAreGone'
  BY DEF AppsInv, ForgottenAreGone
<1>6. KnowsTheWayBack'
  BY DEF AppsInv, KnowsTheWayBack, BackAt
<1> QED
  BY <1>1, <1>2, <1>3, <1>4, <1>5, <1>6 DEF AppsInv

LEMMA RouteMarkKept ==
  ASSUME AppsInv, P!RouteMark
  PROVE  AppsInv'
<1> USE DEF P!RouteMark, P!Stays, P!world, P!scanner, P!Nothing
<1>1. AppsTyped'
  BY DEF AppsInv, AppsTyped
<1>2. AppsPhases'
  BY DEF AppsInv, AppsPhases
<1>3. WaysAreThere'
  <2>1. P!Dirs' = P!Dirs
    BY DEF P!Dirs
  <2> QED
    BY <2>1 DEF AppsInv, WaysAreThere
<1>4. MovedOrBorn'
  BY DEF AppsInv, MovedOrBorn
<1>5. ForgottenAreGone'
  BY DEF AppsInv, ForgottenAreGone
<1>6. KnowsTheWayBack'
  BY DEF AppsInv, KnowsTheWayBack, BackAt
<1> QED
  BY <1>1, <1>2, <1>3, <1>4, <1>5, <1>6 DEF AppsInv

LEMMA SaveStateKept ==
  ASSUME AppsInv, P!SaveState
  PROVE  AppsInv'
<1> USE DEF P!SaveState, P!Stays, P!world, P!scanner, P!Nothing
<1>1. AppsTyped'
  BY DEF AppsInv, AppsTyped
<1>2. AppsPhases'
  BY DEF AppsPhases
<1>3. WaysAreThere'
  <2>1. P!Dirs' = P!Dirs
    BY DEF P!Dirs
  <2> QED
    BY <2>1 DEF AppsInv, WaysAreThere
<1>4. MovedOrBorn'
  BY DEF AppsInv, MovedOrBorn
<1>5. ForgottenAreGone'
  BY DEF AppsInv, ForgottenAreGone
<1>6. KnowsTheWayBack'
  BY DEF AppsInv, KnowsTheWayBack, BackAt
<1> QED
  BY <1>1, <1>2, <1>3, <1>4, <1>5, <1>6 DEF AppsInv

LEMMA ListsKept ==
  ASSUME AppsInv, P!Lists
  PROVE  AppsInv'
<1> USE DEF P!Lists, P!Stays, P!world, P!scanner, P!Nothing, P!Alive, P!NoProc
<1>1. AppsTyped'
  BY DEF AppsInv, AppsTyped
<1>2. AppsPhases'
  BY DEF AppsPhases
<1>3. WaysAreThere'
  <2>1. P!Dirs' = P!Dirs
    BY DEF P!Dirs
  <2> QED
    BY <2>1 DEF AppsInv, WaysAreThere
<1>4. MovedOrBorn'
  BY DEF AppsInv, MovedOrBorn
<1>5. ForgottenAreGone'
  <2>1. DOMAIN list' = {q \in Pids : P!Alive(q)} /\ where' = where /\ proc' = proc
    OBVIOUS
  <2>2. \A p \in Pids : p \notin DOMAIN list' => proc[p] = P!NoProc
    BY <2>1
  <2>3. DOMAIN where \subseteq Pids
    BY DEF AppsInv, AppsTyped
  <2>4. P!NoProc.at = ""
    OBVIOUS
  <2> QED
    BY <2>1, <2>2, <2>3, <2>4 DEF ForgottenAreGone
<1>6. KnowsTheWayBack'
  BY DEF AppsInv, AppsTyped, KnowsTheWayBack, BackAt
<1> QED
  BY <1>1, <1>2, <1>3, <1>4, <1>5, <1>6 DEF AppsInv

LEMMA ForgetsKept ==
  ASSUME AppsInv, P!Forgets
  PROVE  AppsInv'
<1> USE DEF P!Forgets, P!Stays, P!world, P!scanner, P!Nothing
<1>1. AppsTyped'
  BY DEF AppsInv, AppsTyped
<1>2. AppsPhases'
  BY DEF AppsInv, AppsPhases
<1>3. WaysAreThere'
  <2>1. P!Dirs' = P!Dirs
    BY DEF P!Dirs
  <2> QED
    BY <2>1 DEF AppsInv, WaysAreThere
<1>4. MovedOrBorn'
  BY WaysAre DEF AppsInv, MovedOrBorn, ForgottenAreGone
<1>5. ForgottenAreGone'
  BY DEF ForgottenAreGone
<1>6. KnowsTheWayBack'
  BY DEF AppsInv, KnowsTheWayBack, BackAt
<1> QED
  BY <1>1, <1>2, <1>3, <1>4, <1>5, <1>6 DEF AppsInv

LEMMA StopKept ==
  ASSUME AppsInv, P!Stop
  PROVE  AppsInv'
<1> USE DEF P!Stop, P!Stays, P!world, P!scanner, P!Nothing
<1>1. AppsTyped'
  BY DEF AppsInv, AppsTyped
<1>2. AppsPhases'
  BY DEF AppsPhases
<1>3. WaysAreThere'
  BY DEF AppsInv, WaysAreThere
<1>4. MovedOrBorn'
  BY DEF AppsInv, MovedOrBorn
<1>5. ForgottenAreGone'
  BY DEF ForgottenAreGone
<1>6. KnowsTheWayBack'
  BY DEF AppsInv, KnowsTheWayBack, BackAt
<1> QED
  BY <1>1, <1>2, <1>3, <1>4, <1>5, <1>6 DEF AppsInv

LEMMA RestoredKept ==
  ASSUME AppsInv, P!Restored
  PROVE  AppsInv'
<1> USE DEF P!Restored, P!Stays, P!world, P!scanner, P!Nothing
<1>1. AppsTyped'
  BY DEF AppsInv, AppsTyped
<1>2. AppsPhases'
  BY DEF AppsInv, AppsPhases
<1>3. WaysAreThere'
  BY DEF AppsInv, WaysAreThere
<1>4. MovedOrBorn'
  BY DEF AppsInv, MovedOrBorn
<1>5. ForgottenAreGone'
  BY DEF ForgottenAreGone
<1>6. KnowsTheWayBack'
  BY DEF AppsInv, KnowsTheWayBack, BackAt
<1> QED
  BY <1>1, <1>2, <1>3, <1>4, <1>5, <1>6 DEF AppsInv

LEMMA UnmarkKept ==
  ASSUME AppsInv, P!Unmark
  PROVE  AppsInv'
<1> USE DEF P!Unmark, P!Stays, P!world, P!scanner, P!Nothing
<1>1. AppsTyped'
  BY DEF AppsInv, AppsTyped
<1>2. AppsPhases'
  BY DEF AppsInv, AppsPhases
<1>3. WaysAreThere'
  BY DEF AppsInv, WaysAreThere
<1>4. MovedOrBorn'
  BY DEF AppsInv, MovedOrBorn
<1>5. ForgottenAreGone'
  BY DEF AppsInv, ForgottenAreGone
<1>6. KnowsTheWayBack'
  BY DEF AppsInv, KnowsTheWayBack, BackAt
<1> QED
  BY <1>1, <1>2, <1>3, <1>4, <1>5, <1>6 DEF AppsInv

LEMMA RemoveCgroupsKept ==
  ASSUME AppsInv, P!RemoveCgroups
  PROVE  AppsInv'
<1> USE DEF P!RemoveCgroups, P!Stays, P!world, P!scanner, P!Nothing, P!Empty
<1>1. AppsTyped'
  BY DEF AppsInv, AppsTyped
<1>2. AppsPhases'
  BY DEF AppsInv, AppsPhases
<1>3. WaysAreThere'
  BY DEF AppsInv, AppsPhases, WaysAreThere
<1>4. MovedOrBorn'
  BY DEF AppsInv, MovedOrBorn
<1>5. ForgottenAreGone'
  BY DEF AppsInv, ForgottenAreGone
<1>6. KnowsTheWayBack'
  BY DEF AppsInv, KnowsTheWayBack, BackAt
<1> QED
  BY <1>1, <1>2, <1>3, <1>4, <1>5, <1>6 DEF AppsInv

LEMMA KilledKept ==
  ASSUME AppsInv, P!Killed
  PROVE  AppsInv'
<1> USE DEF P!Killed, P!Stays, P!world, P!scanner, P!Nothing
<1>1. AppsTyped'
  <2>1. count' \in [runs : Nat, steps : Nat, kills : Nat]
    BY CountGrows DEF AppsInv, AppsTyped
  <2> QED
    BY <2>1 DEF AppsInv, AppsTyped
<1>2. AppsPhases'
  <2>1. count'.kills > 0
    BY CountGrows DEF AppsInv, AppsTyped
  <2> QED
    BY <2>1 DEF AppsPhases
<1>3. WaysAreThere'
  BY DEF AppsInv, WaysAreThere
<1>4. MovedOrBorn'
  BY DEF MovedOrBorn
<1>5. ForgottenAreGone'
  BY DEF ForgottenAreGone
<1>6. KnowsTheWayBack'
  <2>1. count'.kills > 0
    BY CountGrows DEF AppsInv, AppsTyped
  <2>2. \A p, x : BackAt(p, x) => BackAt(p, x)'
    BY <2>1 DEF BackAt
  <2> QED
    BY <2>2 DEF AppsInv, KnowsTheWayBack
<1> QED
  BY <1>1, <1>2, <1>3, <1>4, <1>5, <1>6 DEF AppsInv

LEMMA BootKept ==
  ASSUME AppsInv, P!Boot
  PROVE  AppsInv'
<1> USE DEF P!Boot, P!Stays, P!world, P!scanner, P!Nothing
<1>1. AppsTyped'
  <2>1. CASE ~saved
    BY <2>1 DEF AppsInv, AppsTyped
  <2>2. CASE saved
    <3>1. DOMAIN list' = {q \in Pids : proc[q].at \in there} /\ \A p \in DOMAIN list' : list'[p] = proc[p]
      BY <2>2
    <3>2. left' = DOMAIN list' /\ UNCHANGED <<proc, home, gone, there, origin, where, count>>
      BY <2>2
    <3>3. \A p \in DOMAIN list' : list'[p].at \in Places
      BY <3>1 DEF AppsInv, AppsTyped, Places
    <3> QED
      BY <3>1, <3>2, <3>3 DEF AppsInv, AppsTyped
  <2> QED
    BY <2>1, <2>2
<1>2. AppsPhases'
  BY DEF AppsInv, AppsPhases
<1>3. WaysAreThere'
  BY DEF AppsInv, WaysAreThere
<1>4. MovedOrBorn'
  BY DEF AppsInv, AppsPhases, WaysAreThere, MovedOrBorn
<1>5. ForgottenAreGone'
  BY DEF AppsInv, AppsPhases, ForgottenAreGone
<1>6. KnowsTheWayBack'
  BY DEF AppsInv, AppsPhases, KnowsTheWayBack, BackAt
<1> QED
  BY <1>1, <1>2, <1>3, <1>4, <1>5, <1>6 DEF AppsInv

LEMMA EmptiedKept ==
  ASSUME AppsInv, P!Emptied
  PROVE  AppsInv'
<1> USE DEF P!Emptied, P!Stays, P!world, P!scanner, P!Nothing, P!Empty
<1>1. AppsTyped'
  BY DEF AppsInv, AppsTyped
<1>2. AppsPhases'
  BY DEF AppsInv, AppsPhases
<1>3. WaysAreThere'
  BY DEF AppsInv, AppsPhases, WaysAreThere
<1>4. MovedOrBorn'
  BY DEF AppsInv, MovedOrBorn
<1>5. ForgottenAreGone'
  BY DEF AppsInv, AppsPhases, ForgottenAreGone
<1>6. KnowsTheWayBack'
  BY DEF AppsInv, KnowsTheWayBack, BackAt
<1> QED
  BY <1>1, <1>2, <1>3, <1>4, <1>5, <1>6 DEF AppsInv

(* The service puts a process somewhere *)

LEMMA PutIs ==
  ASSUME AppsTyped, NEW p \in Pids, NEW dir \in Places, P!Put(p, dir)
  PROVE  /\ DOMAIN proc' = Pids /\ proc'[p].at = dir /\ dir # "" /\ \A q \in Pids \ {p} : proc'[q] = proc[q]
         /\ \A q \in Pids : proc'[q] \in [exe : Images, at : Places \cup {""}]
         /\ \A q \in Pids : proc'[q].at = "" => proc'[q] = P!NoProc
<1>1. proc' = [proc EXCEPT ![p] = [proc[p] EXCEPT !.at = dir]] /\ proc[p] \in [exe : Images, at : Places \cup {""}]
  BY DEF P!Put, AppsTyped
<1>2. [proc[p] EXCEPT !.at = dir].at = dir /\ [proc[p] EXCEPT !.at = dir] \in [exe : Images, at : Places \cup {""}]
  BY <1>1
<1>3. dir # ""
  BY PlacesAre 
<1> QED
  BY <1>1, <1>2, <1>3 DEF AppsTyped

LEMMA LooksAtKept ==
  ASSUME AppsInv, NEW p \in Pids, P!LooksAt(p)
  PROVE  AppsInv'
<1> DEFINE dir == P!ActionFor(list[p].exe)
<1>1. /\ looking /\ p \in left /\ left' = left \ {p} /\ stage \in {"first", "on"} /\ p \in DOMAIN list
      /\ UNCHANGED <<stage, routing, there, fw, marked, saved, list, looking, lost, gone, home, inside, count>>
  BY DEF P!LooksAt, AppsInv, AppsTyped, AppsPhases
<1>2. P!Dirs' = P!Dirs
  BY <1>1 DEF P!Dirs
<1>3. CASE UNCHANGED <<origin, where, proc>>
  BY <1>1, <1>2, <1>3
     DEF AppsInv, AppsTyped, AppsPhases, WaysAreThere, MovedOrBorn, ForgottenAreGone, KnowsTheWayBack, BackAt
<1>4. CASE ~UNCHANGED <<origin, where, proc>>
  <2>1. P!OutOfPlace(p, list[p]) /\ origin' = P!OriginAfter(p, list[p].at)
    BY <1>4 DEF P!LooksAt
  <2>2. dir \in P!Dirs
    BY <2>1 DEF P!OutOfPlace, P!Wanted
  <2>3. (P!Put(p, dir) /\ where' = P!Set(where, p, dir)) \/ UNCHANGED <<proc, where>>
    BY <1>4 DEF P!LooksAt
  <2> HIDE DEF dir
  <2>4. dir \in P!Ways /\ dir \in there /\ dir \in Places
    BY <1>1, <2>2 DEF AppsInv, AppsTyped, WaysAreThere, Places
  <2>5. /\ DOMAIN origin' = DOMAIN origin \cup {p} /\ \A q \in DOMAIN origin : origin'[q] = origin[q]
        /\ p \notin DOMAIN origin => origin'[p] = list[p].at
    BY <2>1 DEF P!OriginAfter, P!Set
  <2>6. CASE P!Put(p, dir) /\ where' = P!Set(where, p, dir)
    <3>1. DOMAIN where' = DOMAIN where \cup {p}
      BY <2>6 DEF P!Set
    <3>2. /\ DOMAIN proc' = Pids /\ proc'[p].at = dir /\ dir # "" /\ \A q \in Pids \ {p} : proc'[q] = proc[q]
          /\ \A q \in Pids : proc'[q] \in [exe : Images, at : Places \cup {""}]
          /\ \A q \in Pids : proc'[q].at = "" => proc'[q] = P!NoProc
      BY <2>4, <2>6, PutIs DEF AppsInv
    <3>3. AppsTyped' /\ AppsPhases'
      BY <1>1, <2>5, <3>1, <3>2 DEF AppsInv, AppsTyped, AppsPhases
    <3>4. WaysAreThere'
      BY <1>1, <1>2, <2>4, <2>5, <3>2 DEF AppsInv, WaysAreThere
    <3>5. MovedOrBorn'
      <4> SUFFICES ASSUME ~lost
                   PROVE  /\ \A q \in Pids : proc'[q].at \in P!Ways => q \in DOMAIN where' \cup inside
                          /\ \A q \in DOMAIN origin' : origin'[q] \in P!Ways => q \in inside
                          /\ \A q \in DOMAIN list : list[q].at \in P!Ways => q \in DOMAIN where' \cup inside
        BY <1>1 DEF MovedOrBorn
      <4>1. \A q \in DOMAIN list : list[q].at \in P!Ways => q \in DOMAIN where \cup inside
        BY <1>1 DEF AppsInv, MovedOrBorn
      <4>2. \A q \in Pids : proc'[q].at \in P!Ways => q \in DOMAIN where' \cup inside
        BY <1>1, <3>1, <3>2 DEF AppsInv, MovedOrBorn
      <4>3. DOMAIN where \subseteq DOMAIN origin /\ \A q \in DOMAIN origin : origin[q] \in P!Ways => q \in inside
        BY DEF AppsInv, AppsTyped, MovedOrBorn
      <4>4. \A q \in DOMAIN origin' : origin'[q] \in P!Ways => q \in inside
        BY <1>1, <2>5, <4>1, <4>3
      <4> QED
        BY <3>1, <4>1, <4>2, <4>4
    <3>6. ForgottenAreGone'
      BY <1>1, <3>1, <3>2 DEF AppsInv, AppsTyped, ForgottenAreGone
    <3>7. KnowsTheWayBack'
      <4> SUFFICES ASSUME ~lost, NEW q \in Pids \ inside
                   PROVE  /\ proc'[q].at \notin P!Ways \cup {""} => BackAt(q, proc'[q].at)
                          /\ q \in DOMAIN origin' => BackAt(q, origin'[q])
                          /\ q \in DOMAIN list /\ list[q].at \notin P!Ways => BackAt(q, list[q].at)
        BY <1>1 DEF KnowsTheWayBack, BackAt
      <4>1. q \in DOMAIN list /\ list[q].at \notin P!Ways => BackAt(q, list[q].at)
        BY <1>1 DEF AppsInv, KnowsTheWayBack
      <4>2. q \in DOMAIN origin => BackAt(q, origin[q])
        BY DEF AppsInv, KnowsTheWayBack
      <4>3. proc'[q].at \notin P!Ways \cup {""} => BackAt(q, proc'[q].at)
        BY <2>4, <3>2 DEF AppsInv, KnowsTheWayBack
      <4>4. q \in DOMAIN origin' => BackAt(q, origin'[q])
        BY <1>1, <2>5, <4>1, <4>2 DEF AppsInv, AppsTyped, MovedOrBorn
      <4> QED
        BY <4>1, <4>3, <4>4
    <3> QED
      BY <3>3, <3>4, <3>5, <3>6, <3>7 DEF AppsInv
  <2>7. CASE UNCHANGED <<proc, where>>
    <3>1. AppsTyped' /\ AppsPhases'
      BY <1>1, <2>5, <2>7 DEF AppsInv, AppsTyped, AppsPhases
    <3>2. WaysAreThere'
      BY <1>1, <1>2, <2>5, <2>7 DEF AppsInv, WaysAreThere
    <3>3. MovedOrBorn'
      BY <1>1, <2>5, <2>7 DEF AppsInv, AppsTyped, MovedOrBorn
    <3>4. ForgottenAreGone'
      BY <1>1, <2>7 DEF AppsInv, ForgottenAreGone
    <3>5. KnowsTheWayBack'
      BY <1>1, <2>5, <2>7 DEF AppsInv, AppsTyped, MovedOrBorn, KnowsTheWayBack, BackAt
    <3> QED
      BY <3>1, <3>2, <3>3, <3>4, <3>5 DEF AppsInv
  <2> QED
    BY <2>3, <2>6, <2>7
<1> QED
  BY <1>3, <1>4

LEMMA RestoreKept ==
  ASSUME AppsInv, NEW p \in Pids, P!Restore(p)
  PROVE  AppsInv'
<1>1. /\ stage = "restoring" /\ ~looking /\ p \in DOMAIN where /\ p \in DOMAIN origin /\ DOMAIN where' = DOMAIN where \ {p}
      /\ UNCHANGED <<stage, routing, there, fw, marked, saved, origin, list, left, looking, lost, gone, home, inside, count>>
  BY DEF P!Restore, AppsInv, AppsTyped, AppsPhases
<1>2. origin[p] \in Places /\ P!Root \in Places /\ P!Root \notin P!Ways
  BY <1>1, WaysAre DEF AppsInv, AppsTyped, Places
<1>3. ASSUME NEW dir \in Places, P!Put(p, dir), dir = origin[p] \/ (dir = P!Root /\ (origin[p] \in gone \/ dir = origin[p]))
      PROVE  AppsInv'
  <2>1. /\ DOMAIN proc' = Pids /\ proc'[p].at = dir /\ dir # "" /\ \A q \in Pids \ {p} : proc'[q] = proc[q]
        /\ \A q \in Pids : proc'[q] \in [exe : Images, at : Places \cup {""}]
        /\ \A q \in Pids : proc'[q].at = "" => proc'[q] = P!NoProc
    BY <1>3, PutIs DEF AppsInv
  <2>2. AppsTyped' /\ AppsPhases'
    BY <1>1, <2>1 DEF AppsInv, AppsTyped, AppsPhases
  <2>3. WaysAreThere'
    BY <1>1, <1>2, <1>3, <2>1 DEF AppsInv, WaysAreThere
  <2>4. MovedOrBorn'
    <3>1. ~lost /\ dir \in P!Ways => p \in inside
      BY <1>1, <1>2, <1>3 DEF AppsInv, MovedOrBorn
    <3>2. ~lost => \A q \in Pids : proc'[q].at \in P!Ways => q \in DOMAIN where' \cup inside
      BY <1>1, <2>1, <3>1 DEF AppsInv, MovedOrBorn
    <3> QED
      BY <1>1, <3>2 DEF AppsInv, MovedOrBorn
  <2>5. ForgottenAreGone'
    BY <1>1 DEF ForgottenAreGone
  <2>6. ~lost /\ p \notin inside => BackAt(p, dir)
    BY <1>1, <1>3 DEF AppsInv, KnowsTheWayBack, BackAt
  <2>7. KnowsTheWayBack'
    BY <1>1, <2>1, <2>6 DEF AppsInv, KnowsTheWayBack, BackAt
  <2> QED
    BY <2>2, <2>3, <2>4, <2>5, <2>7 DEF AppsInv
<1>4. CASE UNCHANGED proc /\ ~P!Alive(p)
  <2>1. proc[p].at = ""
    <3>1. proc[p] = P!NoProc
      BY <1>4 DEF P!Alive
    <3>2. P!NoProc.at = ""
      BY DEF P!NoProc
    <3> QED
      BY <3>1, <3>2
  <2>2. AppsTyped' /\ AppsPhases' /\ WaysAreThere' /\ ForgottenAreGone' /\ KnowsTheWayBack'
    BY <1>1, <1>4 DEF AppsInv, AppsTyped, AppsPhases, WaysAreThere, ForgottenAreGone, KnowsTheWayBack, BackAt
  <2>3. MovedOrBorn'
    BY <1>1, <1>4, <2>1, WaysAre DEF AppsInv, MovedOrBorn
  <2> QED
    BY <2>2, <2>3 DEF AppsInv
<1> QED
  BY <1>2, <1>3, <1>4 DEF P!Restore, P!PutBack, P!Movable

LEMMA EmptiesKept ==
  ASSUME AppsInv, NEW p \in Pids, P!Empties(p)
  PROVE  AppsInv'
<1>1. /\ stage = "emptying" /\ p \in left /\ left' = left \ {p} /\ ~looking /\ count.kills > 0
      /\ UNCHANGED <<stage, routing, there, fw, marked, saved, origin, where, list, looking, lost, gone, home, inside, count>>
  BY DEF P!Empties, AppsInv, AppsPhases
<1>2. P!Root \in Places /\ P!Root \notin P!Ways
  BY WaysAre DEF Places
<1>3. CASE P!Put(p, P!Root)
  <2>1. /\ DOMAIN proc' = Pids /\ proc'[p].at = P!Root /\ P!Root # "" /\ \A q \in Pids \ {p} : proc'[q] = proc[q]
        /\ \A q \in Pids : proc'[q] \in [exe : Images, at : Places \cup {""}]
        /\ \A q \in Pids : proc'[q].at = "" => proc'[q] = P!NoProc
    BY <1>2, <1>3, PutIs DEF AppsInv
  <2>2. AppsTyped' /\ AppsPhases'
    BY <1>1, <2>1 DEF AppsInv, AppsTyped, AppsPhases
  <2>3. WaysAreThere'
    BY <1>1, <1>2, <2>1 DEF AppsInv, WaysAreThere
  <2>4. MovedOrBorn'
    BY <1>1, <1>2, <2>1 DEF AppsInv, MovedOrBorn
  <2>5. ForgottenAreGone'
    BY <1>1 DEF ForgottenAreGone
  <2>6. KnowsTheWayBack'
    BY <1>1, <2>1 DEF AppsInv, KnowsTheWayBack, BackAt
  <2> QED
    BY <2>2, <2>3, <2>4, <2>5, <2>6 DEF AppsInv
<1>4. CASE UNCHANGED proc /\ ~P!Alive(p)
  <2>1. proc[p].at = ""
    <3>1. proc[p] = P!NoProc
      BY <1>4 DEF P!Alive
    <3>2. P!NoProc.at = ""
      BY DEF P!NoProc
    <3> QED
      BY <3>1, <3>2
  <2>2. AppsTyped' /\ AppsPhases' /\ WaysAreThere' /\ ForgottenAreGone' /\ KnowsTheWayBack'
    BY <1>1, <1>4 DEF AppsInv, AppsTyped, AppsPhases, WaysAreThere, ForgottenAreGone, KnowsTheWayBack, BackAt
  <2>3. MovedOrBorn'
    BY <1>1, <1>4, <2>1, WaysAre DEF AppsInv, MovedOrBorn
  <2> QED
    BY <2>2, <2>3 DEF AppsInv
<1> QED
  BY <1>3, <1>4 DEF P!Empties

(* The processes *)

\* Every process goes on where it is, exits, or begins where it is said to.
LEMMA LivesKept ==
  ASSUME AppsInv, P!Lives, DOMAIN proc' = Pids, DOMAIN home' = Pids, gone \subseteq gone', gone' \subseteq Homes,
         \A p \in Pids : /\ proc'[p] \in [exe : Images, at : Places \cup {""}] /\ (proc'[p].at = "" => proc'[p] = P!NoProc)
                         /\ \/ proc'[p].at \in {proc[p].at, ""} /\ home'[p] = home[p] /\ (p \in inside' <=> p \in inside)
                            \/ /\ p \notin DOMAIN origin \cup DOMAIN list
                               /\ IF proc'[p].at \in P!Ways THEN p \in inside' /\ proc'[p].at \in there
                                  ELSE home'[p] = proc'[p].at
  PROVE  AppsInv'
<1>1. /\ UNCHANGED <<stage, routing, there, fw, marked, saved, origin, where, list, left, looking, lost>>
      /\ count' = [count EXCEPT !.steps = @ + 1]
  BY DEF P!Lives, P!service, P!scanner
<1>2. count' \in [runs : Nat, steps : Nat, kills : Nat] /\ count'.kills = count.kills
  BY <1>1, CountGrows DEF AppsInv, AppsTyped
<1>3. P!Dirs' = P!Dirs
  BY <1>1 DEF P!Dirs
<1>4. AppsTyped' /\ AppsPhases'
  BY <1>1, <1>2 DEF AppsInv, AppsTyped, AppsPhases
<1>5. WaysAreThere'
  BY <1>1, <1>3, WaysAre DEF AppsInv, WaysAreThere
<1>6. MovedOrBorn'
  BY <1>1, WaysAre DEF AppsInv, AppsTyped, MovedOrBorn
<1>7. ForgottenAreGone'
  BY <1>1 DEF AppsInv, AppsTyped, ForgottenAreGone
<1>8. KnowsTheWayBack'
  BY <1>1, <1>2 DEF AppsInv, KnowsTheWayBack, BackAt
<1> QED
  BY <1>4, <1>5, <1>6, <1>7, <1>8 DEF AppsInv

LEMMA ProcIs ==
  ASSUME AppsInv, NEW p \in Pids, NEW exe \in Exes, NEW h \in Places
  PROVE  /\ [exe |-> exe, at |-> h] \in [exe : Images, at : Places \cup {""}] /\ h # ""
         /\ P!NoProc \in [exe : Images, at : Places \cup {""}] /\ P!NoProc.at = ""
         /\ [proc[p] EXCEPT !.exe = exe] \in [exe : Images, at : Places \cup {""}] /\ [proc[p] EXCEPT !.exe = exe].at = proc[p].at
<1>1. h # "" /\ exe \in Images /\ "" \in Images
  BY PlacesAre DEF Images
<1>2. proc[p] \in [exe : Images, at : Places \cup {""}]
  BY DEF AppsInv, AppsTyped
<1> HIDE DEF Images
<1> QED
  BY <1>1, <1>2 DEF P!NoProc

LEMMA ProcessesKept ==
  ASSUME AppsInv, P!Processes
  PROVE  AppsInv'
<1> USE DEF P!Unknown, P!Alive
<1>1. ASSUME NEW p \in Pids, NEW exe \in Exes, NEW h \in Homes, P!Spawn(p, exe, h)
      PROVE  AppsInv'
  <2>1. /\ P!Lives /\ proc' = [proc EXCEPT ![p] = [exe |-> exe, at |-> h]] /\ home' = [home EXCEPT ![p] = h]
        /\ inside' = inside \ {p} /\ gone' = gone /\ p \notin DOMAIN origin \cup DOMAIN list
    BY <1>1 DEF P!Spawn
  <2>2. h \in Places /\ h \notin P!Ways
    BY HomesAssumption DEF Places, P!Ways
  <2>3. [exe |-> exe, at |-> h] \in [exe : Images, at : Places \cup {""}] /\ h # ""
    BY <2>2, ProcIs 
  <2> QED
    BY <2>1, <2>2, <2>3, LivesKept DEF AppsInv, AppsTyped
<1>2. ASSUME NEW p \in Pids, NEW c \in Pids, P!Fork(p, c)
      PROVE  AppsInv'
  <2>1. /\ P!Lives /\ proc' = [proc EXCEPT ![c] = proc[p]] /\ home' = [home EXCEPT ![c] = proc[p].at]
        /\ inside' = (IF proc[p].at \in P!Ways THEN inside \cup {c} ELSE inside \ {c}) /\ gone' = gone
        /\ c \notin DOMAIN origin \cup DOMAIN list
    BY <1>2 DEF P!Fork
  <2>2. proc[p].at \in P!Ways => proc[p].at \in there
    BY DEF AppsInv, WaysAreThere
  <2> QED
    BY <2>1, <2>2, LivesKept DEF AppsInv, AppsTyped
<1>3. ASSUME NEW p \in Pids, NEW exe \in Exes, P!Exec(p, exe)
      PROVE  AppsInv'
  <2>1. /\ P!Lives /\ proc' = [proc EXCEPT ![p] = [proc[p] EXCEPT !.exe = exe]] /\ UNCHANGED <<gone, home, inside>>
        /\ proc[p] # P!NoProc
    BY <1>3 DEF P!Exec
  <2>2. [proc[p] EXCEPT !.exe = exe] \in [exe : Images, at : Places \cup {""}] /\ [proc[p] EXCEPT !.exe = exe].at = proc[p].at
    BY ProcIs DEF Places
  <2>3. proc[p].at # ""
    BY <2>1 DEF AppsInv, AppsTyped
  <2> QED
    BY <2>1, <2>2, <2>3, LivesKept DEF AppsInv, AppsTyped
<1>4. ASSUME NEW p \in Pids, P!Exit(p)
      PROVE  AppsInv'
  <2>1. P!Lives /\ proc' = [proc EXCEPT ![p] = P!NoProc] /\ UNCHANGED <<gone, home, inside>>
    BY <1>4 DEF P!Exit
  <2>2. P!NoProc \in [exe : Images, at : Places \cup {""}] /\ P!NoProc.at = ""
    BY DEF P!NoProc, Images
  <2> QED
    BY <2>1, <2>2, LivesKept DEF AppsInv, AppsTyped
<1>5. ASSUME NEW h \in Homes, P!HomeRemoved(h)
      PROVE  AppsInv'
  BY <1>5, LivesKept DEF P!HomeRemoved, AppsInv, AppsTyped
<1> QED
  BY <1>1, <1>2, <1>3, <1>4, <1>5 DEF P!Processes

LEMMA AppsInit == P!Init => AppsInv
<1> SUFFICES ASSUME P!Init
             PROVE  AppsInv
  OBVIOUS
<1>1. \A p \in Pids : proc[p] \in [exe : Images, at : {P!Root, ""}] /\ (proc[p].at = "" => proc[p] = P!NoProc)
  <2>1. P!NoProc \in [exe : Images, at : {P!Root, ""}] /\ P!Root # ""
    BY DEF P!NoProc, P!Root, Images
  <2>2. [exe |-> CHOOSE e \in Exes : TRUE, at |-> P!Root] \in [exe : Images, at : {P!Root, ""}]
    BY DEF Images
  <2> QED
    BY <2>1, <2>2 DEF P!Init
<1>2. \A p \in Pids : proc[p].at \in {P!Root, ""} /\ home[p] = P!Root
  BY <1>1 DEF P!Init
<1>3. AppsTyped
  BY <1>1, NothingIs DEF P!Init, AppsTyped, Places
<1>4. AppsPhases /\ ForgottenAreGone
  BY NothingIs DEF P!Init, AppsPhases, ForgottenAreGone
<1>5. WaysAreThere /\ MovedOrBorn
  BY <1>2, NothingIs, WaysAre DEF P!Init, WaysAreThere, MovedOrBorn
<1>6. KnowsTheWayBack
  BY <1>2, NothingIs DEF P!Init, KnowsTheWayBack, BackAt
<1> QED
  BY <1>3, <1>4, <1>5, <1>6 DEF AppsInv

LEMMA AppsKept ==
  ASSUME AppsInv, P!Next
  PROVE  AppsInv'
<1>1. CASE P!Processes \/ P!Scan
  BY <1>1, ProcessesKept, ListsKept, ForgetsKept, LooksAtKept DEF P!Scan
<1>2. CASE P!Start \/ P!InstallFirewall \/ P!RouteMark \/ P!SaveState
  BY <1>2, StartKept, InstallFirewallKept, RouteMarkKept, SaveStateKept 
<1>3. CASE P!Stop \/ (\E p \in Pids : P!Restore(p)) \/ P!Restored \/ P!Unmark \/ P!RemoveCgroups
  BY <1>3, StopKept, RestoreKept, RestoredKept, UnmarkKept, RemoveCgroupsKept 
<1>4. CASE P!Killed \/ P!Boot \/ (\E p \in Pids : P!Empties(p)) \/ P!Emptied
  BY <1>4, KilledKept, BootKept, EmptiesKept, EmptiedKept 
<1> QED
  BY <1>1, <1>2, <1>3, <1>4 DEF P!Next

LEMMA RulesKept == AppsInv /\ [RulesNext]_<<programs, editor, part>> => AppsInv'
<1> SUFFICES ASSUME AppsInv, [RulesNext]_<<programs, editor, part>>
             PROVE  AppsInv'
  OBVIOUS
<1>1. CASE P!Next
  BY <1>1, AppsKept 
<1>2. CASE UNCHANGED programs
  BY <1>2 DEF programs, AppsInv, AppsTyped, AppsPhases, WaysAreThere, MovedOrBorn, ForgottenAreGone, KnowsTheWayBack,
     BackAt, P!Dirs
<1> QED
  BY <1>1, <1>2 DEF RulesNext

LEMMA AppsInvariant == RulesSpec => []AppsInv
<1>1. RulesInit => AppsInv
  BY AppsInit DEF RulesInit
<1> QED
  BY <1>1, RulesKept, PTL DEF RulesSpec

\* Where the service stops or is started anew after a kill, it leaves no mark, and no cgroup
\* but those that processes born in them still hold (helper/perapp.go, stop and cleanupPerApp).
THEOREM CleansUp == RulesSpec => NothingStays
<1>1. AppsInv /\ [RulesNext]_<<programs, editor, part>>
        => [stage # "off" /\ stage' = "off" /\ ~lost =>
              /\ fw' = {} /\ ~marked'
              /\ \A d \in there' \cap P!Dirs : \E p \in inside' : proc'[p].at = d]_(P!vars)
  <2> SUFFICES ASSUME AppsInv, P!Next, stage # "off", stage' = "off", ~lost
               PROVE  /\ fw' = {} /\ ~marked'
                      /\ \A d \in there' \cap P!Dirs : \E p \in inside' : proc'[p].at = d
    BY DEF RulesNext, programs
  <2>1. P!RemoveCgroups \/ P!Emptied \/ P!Boot
    BY DEF P!Next, P!Processes, P!Scan, P!Spawn, P!Exec, P!Exit, P!Fork, P!HomeRemoved, P!Lives, P!service,
           P!Lists, P!Forgets, P!LooksAt, P!Start, P!InstallFirewall, P!RouteMark, P!SaveState, P!Stop, P!Restore,
           P!Restored, P!Unmark, P!Killed, P!Empties
  <2>2. ~P!Boot
    BY DEF P!Boot, AppsInv, AppsPhases
  <2>3. CASE P!RemoveCgroups
    <3>1. \A d \in there' \cap P!Dirs : \E p \in Pids : proc[p].at = d
      BY <2>3 DEF P!RemoveCgroups, P!Empty
    <3>2. \A p \in Pids : proc[p].at \in P!Ways => p \in inside
      BY <2>3 DEF P!RemoveCgroups, AppsInv, AppsTyped, AppsPhases, MovedOrBorn
    <3>3. there' \subseteq P!Ways /\ UNCHANGED <<proc, inside, fw, marked>> /\ fw = {} /\ ~marked
      BY <2>3 DEF P!RemoveCgroups, P!Stays, P!world, AppsInv, AppsTyped, AppsPhases
    <3> QED
      BY <3>1, <3>2, <3>3
  <2>4. CASE P!Emptied
    <3>1. \A d \in there' : \E p \in Pids : proc[p].at = d
      BY <2>4 DEF P!Emptied, P!Empty
    <3>2. \A p \in Pids : proc[p].at \in P!Ways => p \in inside
      BY <2>4 DEF P!Emptied, AppsInv, MovedOrBorn
    <3>3. there' \subseteq P!Ways /\ UNCHANGED <<proc, inside, fw, marked>> /\ fw = {} /\ ~marked
      BY <2>4 DEF P!Emptied, P!Stays, P!world, AppsInv, AppsTyped, AppsPhases
    <3> QED
      BY <3>1, <3>2, <3>3
  <2> QED
    BY <2>1, <2>2, <2>3, <2>4
<1> QED
  BY <1>1, AppsInvariant, PTL DEF RulesSpec, NothingStays, P!NothingStays

\* With no connection every process that began outside the service's cgroups is where it
\* began, or in the root when that is gone or the service was killed.
THEOREM BackWhereTheyWere == RulesSpec => []P!BackWhereItWas
<1>1. AppsInv => P!BackWhereItWas
  <2> SUFFICES ASSUME AppsInv, stage = "off", ~lost, NEW p \in Pids \ inside, P!Alive(p)
               PROVE  BackAt(p, proc[p].at)
    BY DEF P!BackWhereItWas, BackAt
  <2>1. proc[p].at # ""
    BY DEF AppsInv, AppsTyped, P!Alive
  <2>2. proc[p].at \notin P!Ways
    BY DEF AppsInv, AppsTyped, AppsPhases, MovedOrBorn
  <2> QED
    BY <2>1, <2>2 DEF AppsInv, KnowsTheWayBack
<1> QED
  BY <1>1, AppsInvariant, PTL
=============================================================================
