-------------------------------- MODULE SetupProofs -----------------------------
(***************************************************************************)
(* Installing and removing, for any set of files, versions, platforms and  *)
(* any bounds.  The first part is about Setup: its state stays well-formed *)
(* and an update that is cut short loses no program.  The second is about  *)
(* Installer: what the windows show of the elevated work is true of it.    *)
(* The invariants are taken apart by the groups of variables that steps    *)
(* change together, so that a step's proof names only what it touches.     *)
(***************************************************************************)
EXTENDS MCInstalls, SequenceTheorems, TLAPS

\* TypeOK in parts, one for each group of variables a step changes together.
FoldersTyped == app \in Tree /\ next \in Tree /\ old \in Tree /\ svc \in Tree

EntriesTyped ==
    /\ platform \in {"linux", "windows", "bundle", "service"}
    /\ platform \in Platforms
    /\ reg \in Versions \cup {Absent} /\ unit \in BOOLEAN
    /\ open \in BOOLEAN /\ asked \in BOOLEAN

ListsTyped ==
    /\ todo \in SUBSET Files /\ made \in SUBSET Files
    /\ madeSvc \in SUBSET Files
    /\ undo \in Seq(Undos)

PlaceTyped ==
    /\ pc \in {"idle", "undo"} \cup Steps \cup RemoveSteps
    /\ stuck \in BOOLEAN /\ last \in Outcomes
    /\ runs \in 0..MaxRuns /\ faults \in 0..MaxFaults

\* The records `run` ranges over.
Run == [kind : {"none", "swap", "over", "remove"}, from : Tree,
        to : Versions \cup {Absent}, fresh : BOOLEAN, clean : BOOLEAN,
        reg : Versions \cup {Absent}, hadOld : BOOLEAN, inApp : BOOLEAN]

RunTyped == run \in Run

Typed == FoldersTyped /\ EntriesTyped /\ ListsTyped /\ PlaceTyped /\ RunTyped

\* The parts make up the type invariant that the run checks.
LEMMA TypedMeans == Typed <=> TypeOK
BY KnownPlatforms DEF Typed, TypeOK, FoldersTyped, EntriesTyped, ListsTyped, PlaceTyped, RunTyped, Run

\* What removals, failed removals and copies do to a folder leaves a folder.
LEMMA TreesTyped ==
    /\ Gone \in Tree
    /\ \A v \in Versions : Full(v) \in Tree
    /\ \A t \in Tree : \A F : Without(t, F) \in Tree
    /\ \A t \in Tree : Remains(t) \subseteq Tree
    /\ \A t \in Tree, f \in Files : Broken(t, f) \subseteq Tree
    /\ \A t \in Tree, f \in Files, v \in Versions \cup {Absent} :
          [t EXCEPT ![f] = v] \in Tree
BY DEF Gone, Tree, Full, Content, Without, Remains, Broken

\* The undo stack of doSetup stays a sequence when steps are pushed on it and popped.
LEMMA UndosTyped ==
    /\ \A u \in Seq(Undos), a \in Undos : <<a>> \o u \in Seq(Undos)
    /\ \A u \in Seq(Undos), a \in Undos, b \in Undos : <<a, b>> \o u \in Seq(Undos)
    /\ \A u \in Seq(Undos), a \in Undos : u \o <<a>> \in Seq(Undos)
    /\ \A u \in Seq(Undos) : u # <<>> => Tail(u) \in Seq(Undos)
OBVIOUS

\* A fault counts towards its bound.
LEMMA FaultTyped ==
    ASSUME faults \in 0..MaxFaults, Fault
    PROVE  faults' \in 0..MaxFaults
BY BoundsAreNumbers DEF Fault

\* A run of the setup or of the removal counts towards its bound.
LEMMA RunCounted ==
    ASSUME runs \in 0..MaxRuns, runs < MaxRuns, runs' = runs + 1
    PROVE  runs' \in 0..MaxRuns
BY BoundsAreNumbers

\* A record built from parts of the right types is a run.
LEMMA RunMade ==
    ASSUME NEW kind \in {"none", "swap", "over", "remove"}, NEW from \in Tree,
           NEW to \in Versions \cup {Absent}, NEW fresh \in BOOLEAN,
           NEW clean \in BOOLEAN, NEW r \in Versions \cup {Absent},
           NEW hadOld \in BOOLEAN, NEW inApp \in BOOLEAN
    PROVE  [kind |-> kind, from |-> from, to |-> to, fresh |-> fresh,
            clean |-> clean, reg |-> r, hadOld |-> hadOld, inApp |-> inApp] \in Run
BY DEF Run

\* A setup begins with an empty undo stack and a well-formed run, on every platform.
LEMMA AskedTyped ==
    ASSUME Typed, NEW v \in Versions, NEW kind \in {"swap", "over"},
           Asked(kind, v)
    PROVE  /\ runs' \in 0..MaxRuns
           /\ RunTyped'
           /\ undo' = <<>> /\ last' = "running" /\ stuck' = FALSE
           /\ faults' = faults
<1>1. (reg = Absent /\ ~unit) \in BOOLEAN /\ Clean \in BOOLEAN
  BY DEF Clean
<1>2. run' \in Run
  BY <1>1, RunMade DEF Asked, Typed, FoldersTyped, EntriesTyped
<1>q. QED
  BY <1>2, RunCounted DEF Asked, RunTyped, Typed, PlaceTyped

\* Once the new files are in place, what each platform pushes on the undo stack is an undo.
LEMMA PlacedTyped ==
    ASSUME EntriesTyped, ListsTyped, NEW how \in {"rollback", "made"},
           Placed(how)
    PROVE  /\ pc' \in Steps /\ faults' = faults
           /\ todo' \in SUBSET Files /\ madeSvc' \in SUBSET Files
           /\ undo' \in Seq(Undos)
<1>1. pc' \in Steps
  BY DEF EntriesTyped, Placed, Steps
<1>2. undo' \in Seq(Undos)
  <2>1. how \in Undos /\ "svc" \in Undos /\ "unit" \in Undos /\ "plist" \in Undos
    BY DEF Undos
  <2>2. CASE platform = "linux"
    BY <2>1, <2>2 DEF Placed, ListsTyped
  <2>3. CASE platform = "windows"
    BY <2>1, <2>3 DEF Placed, ListsTyped
  <2>4. CASE platform = "bundle"
    BY <2>4 DEF Placed
  <2>5. CASE platform = "service"
    BY <2>1, <2>5 DEF Placed
  <2>q. QED
    BY <2>2, <2>3, <2>4, <2>5 DEF EntriesTyped
<1>q. QED
  BY <1>1, <1>2 DEF Placed, NotThere

\* The state the setup finds is well-formed.
LEMMA TypedInit == Init => Typed
<1> SUFFICES ASSUME Init PROVE Typed
  OBVIOUS
<1>1. FoldersTyped
  BY TreesTyped DEF Init, FoldersTyped
<1>2. EntriesTyped
  BY KnownPlatforms DEF Init, EntriesTyped
<1>3. ListsTyped
  BY DEF Init, ListsTyped
<1>4. PlaceTyped
  <2>1. 0 \in 0..MaxRuns /\ 0 \in 0..MaxFaults
    BY BoundsAreNumbers
  <2>q. QED
    BY <2>1 DEF Init, PlaceTyped, Outcomes
<1>5. RunTyped
  BY TreesTyped, RunMade DEF Init, RunTyped, NoRun
<1>q. QED
  BY <1>1, <1>2, <1>3, <1>4, <1>5 DEF Typed

\* Every step of a setup, of its undoing and of a removal keeps the state well-formed.
LEMMA TypedStep == Typed /\ [Next]_vars => Typed'
<1> SUFFICES ASSUME Typed, [Next]_vars PROVE Typed'
  OBVIOUS
<1> USE DEF Typed
<1>1. CASE Launch
  <2>1. EntriesTyped'
    BY <1>1 DEF Launch, EntriesTyped, entries
  <2>q. QED
    BY <1>1, <2>1 DEF Launch, FoldersTyped, ListsTyped, bookkeeping, PlaceTyped, RunTyped
<1>2. CASE Quit
  <2>1. EntriesTyped'
    BY <1>2 DEF Quit, EntriesTyped, entries
  <2>q. QED
    BY <1>2, <2>1 DEF Quit, FoldersTyped, ListsTyped, bookkeeping, PlaceTyped, RunTyped
<1>3. ASSUME NEW v \in Versions, StartSwap(v) PROVE Typed'
  <2>1. EntriesTyped'
    BY <1>3 DEF StartSwap, Asked, EntriesTyped, entries
  <2>2. ListsTyped'
    BY <1>3 DEF StartSwap, Asked, ListsTyped, bookkeeping
  <2>3. PlaceTyped'
    BY <1>3, AskedTyped DEF StartSwap, PlaceTyped, Steps, Outcomes
  <2>4. RunTyped'
    BY <1>3, AskedTyped DEF StartSwap
  <2>q. QED
    BY <1>3, <2>1, <2>2, <2>3, <2>4 DEF StartSwap, Asked, FoldersTyped
<1>4. ASSUME NEW v \in Versions, StartOver(v) PROVE Typed'
  <2>1. EntriesTyped'
    BY <1>4 DEF StartOver, Asked, EntriesTyped, entries
  <2>2. ListsTyped'
    BY <1>4 DEF StartOver, Asked, ListsTyped, bookkeeping
  <2>3. PlaceTyped'
    BY <1>4, AskedTyped DEF StartOver, PlaceTyped, Steps, Outcomes
  <2>4. RunTyped'
    BY <1>4, AskedTyped DEF StartOver
  <2>q. QED
    BY <1>4, <2>1, <2>2, <2>3, <2>4 DEF StartOver, Asked, FoldersTyped
<1>5. CASE ClearNext
  <2>1. FoldersTyped'
    BY <1>5, TreesTyped DEF ClearNext, FoldersTyped
  <2>2. ListsTyped'
    BY <1>5 DEF ClearNext, ListsTyped, bookkeeping
  <2>3. PlaceTyped'
    BY <1>5, FaultTyped DEF ClearNext, PlaceTyped, Steps, Fails
  <2>q. QED
    BY <1>5, <2>1, <2>2, <2>3 DEF ClearNext, EntriesTyped, entries, application, RunTyped
<1>6. ASSUME NEW f \in Files, StageFile(f) PROVE Typed'
  <2>1. FoldersTyped'
    BY <1>6, TreesTyped DEF StageFile, FoldersTyped, RunTyped, Run
  <2>2. ListsTyped'
    BY <1>6 DEF StageFile, ListsTyped, bookkeeping
  <2>q. QED
    BY <1>6, <2>1, <2>2 DEF StageFile, EntriesTyped, entries, application, PlaceTyped, RunTyped
<1>7. CASE StageFails
  <2>1. FoldersTyped'
    BY <1>7, TreesTyped DEF StageFails, FoldersTyped
  <2>2. PlaceTyped'
    BY <1>7, FaultTyped DEF StageFails, PlaceTyped, Fails
  <2>q. QED
    BY <1>7, <2>1, <2>2 DEF StageFails, EntriesTyped, entries, application, ListsTyped, bookkeeping, RunTyped
<1>8. CASE Staged
  <2>1. ListsTyped'
    BY <1>8 DEF Staged, ListsTyped, bookkeeping, Undos
  <2>2. PlaceTyped'
    BY <1>8 DEF Staged, PlaceTyped, Steps
  <2>q. QED
    BY <1>8, <2>1, <2>2 DEF Staged, FoldersTyped, EntriesTyped, entries, application, RunTyped
<1>9. CASE WaitGone
  <2>1. PlaceTyped'
    BY <1>9 DEF WaitGone, PlaceTyped, Steps
  <2>q. QED
    BY <1>9, <2>1 DEF WaitGone, FoldersTyped, EntriesTyped, entries, application, ListsTyped, bookkeeping, RunTyped
<1>10. CASE Stop
  <2>1. EntriesTyped'
    BY <1>10 DEF Stop, EntriesTyped, application
  <2>2. ListsTyped'
    BY <1>10, UndosTyped DEF Stop, ListsTyped, Undos
  <2>3. PlaceTyped'
    BY <1>10 DEF Stop, PlaceTyped, Steps
  <2>q. QED
    BY <1>10, <2>1, <2>2, <2>3 DEF Stop, FoldersTyped, RunTyped
<1>11. CASE ClearOld
  <2>1. FoldersTyped'
    BY <1>11, TreesTyped DEF ClearOld, FoldersTyped
  <2>2. PlaceTyped'
    BY <1>11, FaultTyped DEF ClearOld, PlaceTyped, Steps, Fails
  <2>q. QED
    BY <1>11, <2>1, <2>2 DEF ClearOld, EntriesTyped, entries, application, ListsTyped, bookkeeping, RunTyped
<1>12. CASE MoveAway
  <2>1. FoldersTyped'
    BY <1>12, TreesTyped DEF MoveAway, SetAside, FoldersTyped
  <2>2. PlaceTyped'
    BY <1>12, FaultTyped DEF MoveAway, PlaceTyped, Steps, Fails
  <2>3. RunTyped'
    BY <1>12 DEF MoveAway, RunTyped, Run
  <2>q. QED
    BY <1>12, <2>1, <2>2, <2>3 DEF MoveAway, EntriesTyped, entries, application, ListsTyped, bookkeeping
<1>13. CASE MoveInto
  <2>1. FoldersTyped'
    BY <1>13, TreesTyped DEF MoveInto, FoldersTyped
  <2>2. ListsTyped'
    BY <1>13, PlacedTyped DEF MoveInto, ListsTyped
  <2>3. PlaceTyped'
    BY <1>13, PlacedTyped DEF MoveInto, PlaceTyped
  <2>q. QED
    BY <1>13, <2>1, <2>2, <2>3 DEF MoveInto, EntriesTyped, entries, application, RunTyped
<1>14. CASE MoveIntoFails
  <2>1. FoldersTyped'
    BY <1>14, TreesTyped DEF MoveIntoFails, FoldersTyped
  <2>2. PlaceTyped'
    BY <1>14, FaultTyped DEF MoveIntoFails, PlaceTyped, Fails, RunTyped, Run
  <2>q. QED
    BY <1>14, <2>1, <2>2 DEF MoveIntoFails, EntriesTyped, entries, application, ListsTyped, bookkeeping, RunTyped
<1>15. ASSUME NEW f \in Files, CopyFile(f) PROVE Typed'
  <2>1. FoldersTyped'
    BY <1>15, TreesTyped DEF CopyFile, FoldersTyped, RunTyped, Run
  <2>2. ListsTyped'
    BY <1>15 DEF CopyFile, NotThere, ListsTyped
  <2>q. QED
    BY <1>15, <2>1, <2>2 DEF CopyFile, EntriesTyped, entries, application, PlaceTyped, RunTyped
<1>16. ASSUME NEW f \in Files, CopyFails(f) PROVE Typed'
  <2>1. FoldersTyped'
    BY <1>16, TreesTyped DEF CopyFails, FoldersTyped
  <2>2. ListsTyped'
    BY <1>16 DEF CopyFails, ListsTyped, bookkeeping, Undos
  <2>3. PlaceTyped'
    BY <1>16, FaultTyped DEF CopyFails, PlaceTyped, Fails
  <2>q. QED
    BY <1>16, <2>1, <2>2, <2>3 DEF CopyFails, EntriesTyped, entries, application, RunTyped
<1>17. CASE Copied
  <2>1. ListsTyped'
    BY <1>17, PlacedTyped DEF Copied, ListsTyped
  <2>2. PlaceTyped'
    BY <1>17, PlacedTyped DEF Copied, PlaceTyped
  <2>q. QED
    BY <1>17, <2>1, <2>2 DEF Copied, FoldersTyped, EntriesTyped, entries, application, RunTyped
<1>18. ASSUME NEW f \in Files, SvcFile(f) PROVE Typed'
  <2>1. FoldersTyped'
    BY <1>18, TreesTyped DEF SvcFile, FoldersTyped, RunTyped, Run
  <2>2. ListsTyped'
    BY <1>18 DEF SvcFile, ListsTyped, bookkeeping
  <2>q. QED
    BY <1>18, <2>1, <2>2 DEF SvcFile, EntriesTyped, entries, application, PlaceTyped, RunTyped
<1>19. ASSUME NEW f \in Files, SvcFileFails(f) PROVE Typed'
  <2>1. FoldersTyped'
    BY <1>19, TreesTyped DEF SvcFileFails, FoldersTyped
  <2>2. PlaceTyped'
    BY <1>19, FaultTyped DEF SvcFileFails, PlaceTyped, Fails
  <2>q. QED
    BY <1>19, <2>1, <2>2 DEF SvcFileFails, EntriesTyped, entries, application, ListsTyped, bookkeeping, RunTyped
<1>20. CASE SvcFilesDone
  <2>1. ListsTyped'
    BY <1>20, UndosTyped DEF SvcFilesDone, ListsTyped, bookkeeping, Undos
  <2>2. PlaceTyped'
    BY <1>20 DEF SvcFilesDone, PlaceTyped, Steps
  <2>q. QED
    BY <1>20, <2>1, <2>2 DEF SvcFilesDone, FoldersTyped, EntriesTyped, entries, application, RunTyped
<1>21. CASE Unit
  <2>1. EntriesTyped'
    BY <1>21 DEF Unit, EntriesTyped, application
  <2>2. ListsTyped'
    BY <1>21, UndosTyped DEF Unit, ListsTyped, bookkeeping, Undos
  <2>3. PlaceTyped'
    BY <1>21 DEF Unit, PlaceTyped, Steps
  <2>q. QED
    BY <1>21, <2>1, <2>2, <2>3 DEF Unit, FoldersTyped, RunTyped
<1>22. CASE UnitFails
  <2>1. EntriesTyped'
    BY <1>22 DEF UnitFails, EntriesTyped, application
  <2>2. PlaceTyped'
    BY <1>22, FaultTyped DEF UnitFails, PlaceTyped, Fails
  <2>q. QED
    BY <1>22, <2>1, <2>2 DEF UnitFails, FoldersTyped, ListsTyped, bookkeeping, RunTyped
<1>23. CASE Register
  <2>1. EntriesTyped'
    BY <1>23 DEF Register, EntriesTyped, application, RunTyped, Run
  <2>2. ListsTyped'
    BY <1>23, UndosTyped DEF Register, ListsTyped, bookkeeping, Undos
  <2>3. PlaceTyped'
    BY <1>23 DEF Register, PlaceTyped, Steps
  <2>q. QED
    BY <1>23, <2>1, <2>2, <2>3 DEF Register, FoldersTyped, RunTyped
<1>24. CASE RegisterFails
  <2>1. EntriesTyped'
    BY <1>24 DEF RegisterFails, EntriesTyped, application, RunTyped, Run
  <2>2. PlaceTyped'
    BY <1>24, FaultTyped DEF RegisterFails, PlaceTyped, Fails
  <2>q. QED
    BY <1>24, <2>1, <2>2 DEF RegisterFails, FoldersTyped, ListsTyped, bookkeeping, RunTyped
<1>25. CASE Check
  <2>1. FoldersTyped'
    BY <1>25, TreesTyped DEF Check, FoldersTyped
  <2>2. ListsTyped'
    BY <1>25 DEF Check, ListsTyped, bookkeeping
  <2>3. PlaceTyped'
    BY <1>25, FaultTyped DEF Check, PlaceTyped, Outcomes
  <2>q. QED
    BY <1>25, <2>1, <2>2, <2>3 DEF Check, EntriesTyped, entries, application, RunTyped
<1>26. CASE CheckFails
  <2>1. PlaceTyped'
    BY <1>26, FaultTyped DEF CheckFails, PlaceTyped, Fails
  <2>q. QED
    BY <1>26, <2>1 DEF CheckFails, FoldersTyped, EntriesTyped, entries, application, ListsTyped, bookkeeping, RunTyped
<1>27. CASE UndoStage
  <2>1. FoldersTyped'
    BY <1>27, TreesTyped DEF UndoStage, FoldersTyped
  <2>2. ListsTyped'
    BY <1>27 DEF UndoStage, Undoes, ListsTyped, bookkeeping
  <2>3. PlaceTyped'
    BY <1>27, FaultTyped DEF UndoStage, PlaceTyped, Works, Sticks
  <2>q. QED
    BY <1>27, <2>1, <2>2, <2>3 DEF UndoStage, EntriesTyped, entries, application, RunTyped
<1>28. CASE UndoStart
  <2>1. EntriesTyped'
    BY <1>28 DEF UndoStart, EntriesTyped, application
  <2>2. ListsTyped'
    BY <1>28 DEF UndoStart, Undoes, ListsTyped, bookkeeping
  <2>3. PlaceTyped'
    BY <1>28, FaultTyped DEF UndoStart, PlaceTyped, Works, Sticks
  <2>q. QED
    BY <1>28, <2>1, <2>2, <2>3 DEF UndoStart, FoldersTyped, RunTyped
<1>29. CASE UndoRollback
  <2>1. FoldersTyped'
    BY <1>29, TreesTyped DEF UndoRollback, RolledBack, FoldersTyped
  <2>2. ListsTyped'
    BY <1>29 DEF UndoRollback, Undoes, ListsTyped, bookkeeping
  <2>3. PlaceTyped'
    BY <1>29, FaultTyped DEF UndoRollback, PlaceTyped, Works, Sticks
  <2>q. QED
    BY <1>29, <2>1, <2>2, <2>3 DEF UndoRollback, EntriesTyped, entries, application, RunTyped
<1>30. CASE UndoMade
  <2>1. FoldersTyped'
    BY <1>30, TreesTyped DEF UndoMade, FoldersTyped
  <2>2. ListsTyped'
    BY <1>30 DEF UndoMade, Undoes, ListsTyped, bookkeeping
  <2>3. PlaceTyped'
    BY <1>30, FaultTyped DEF UndoMade, PlaceTyped, Works, Sticks
  <2>q. QED
    BY <1>30, <2>1, <2>2, <2>3 DEF UndoMade, EntriesTyped, entries, application, RunTyped
<1>31. CASE UndoSvc
  <2>1. FoldersTyped'
    BY <1>31, TreesTyped DEF UndoSvc, FoldersTyped
  <2>2. ListsTyped'
    BY <1>31 DEF UndoSvc, Undoes, ListsTyped, bookkeeping
  <2>3. PlaceTyped'
    BY <1>31, FaultTyped DEF UndoSvc, PlaceTyped, Works, Sticks
  <2>q. QED
    BY <1>31, <2>1, <2>2, <2>3 DEF UndoSvc, EntriesTyped, entries, application, RunTyped
<1>32. CASE UndoUnit
  <2>1. EntriesTyped'
    BY <1>32 DEF UndoUnit, EntriesTyped, application
  <2>2. ListsTyped'
    BY <1>32 DEF UndoUnit, Undoes, ListsTyped, bookkeeping
  <2>3. PlaceTyped'
    BY <1>32, FaultTyped DEF UndoUnit, PlaceTyped, Works, Sticks
  <2>q. QED
    BY <1>32, <2>1, <2>2, <2>3 DEF UndoUnit, FoldersTyped, RunTyped
<1>33. CASE UndoReg
  <2>1. EntriesTyped'
    BY <1>33 DEF UndoReg, EntriesTyped, application
  <2>2. ListsTyped'
    BY <1>33 DEF UndoReg, Undoes, ListsTyped, bookkeeping
  <2>3. PlaceTyped'
    BY <1>33, FaultTyped DEF UndoReg, PlaceTyped, Works, Sticks
  <2>q. QED
    BY <1>33, <2>1, <2>2, <2>3 DEF UndoReg, FoldersTyped, RunTyped
<1>34. CASE UndoPlist
  <2>1. EntriesTyped'
    BY <1>34 DEF UndoPlist, EntriesTyped, application, RunTyped, Run
  <2>2. ListsTyped'
    BY <1>34 DEF UndoPlist, Undoes, ListsTyped, bookkeeping
  <2>3. PlaceTyped'
    BY <1>34, FaultTyped DEF UndoPlist, PlaceTyped, Works, Sticks
  <2>q. QED
    BY <1>34, <2>1, <2>2, <2>3 DEF UndoPlist, FoldersTyped, RunTyped
<1>35. CASE Failed
  <2>1. PlaceTyped'
    BY <1>35 DEF Failed, PlaceTyped, Outcomes
  <2>q. QED
    BY <1>35, <2>1 DEF Failed, FoldersTyped, EntriesTyped, entries, application, ListsTyped, bookkeeping, RunTyped
<1>36. ASSUME NEW inApp \in BOOLEAN, StartRemove(inApp) PROVE Typed'
  <2>1. ListsTyped'
    BY <1>36 DEF StartRemove, ListsTyped, bookkeeping
  <2>2. PlaceTyped'
    BY <1>36, RunCounted DEF StartRemove, PlaceTyped, RemoveSteps, Outcomes
  <2>3. RunTyped'
    BY <1>36 DEF StartRemove, NoRun, RunTyped, Run, FoldersTyped
  <2>q. QED
    BY <1>36, <2>1, <2>2, <2>3 DEF StartRemove, FoldersTyped, EntriesTyped, entries, application
<1>37. CASE RemoveStop
  <2>1. EntriesTyped'
    BY <1>37 DEF RemoveStop, EntriesTyped, entries, application
  <2>2. PlaceTyped'
    BY <1>37 DEF RemoveStop, PlaceTyped, RemoveSteps
  <2>q. QED
    BY <1>37, <2>1, <2>2 DEF RemoveStop, FoldersTyped, ListsTyped, bookkeeping, RunTyped
<1>38. CASE RemoveUnit
  <2>1. EntriesTyped'
    BY <1>38 DEF RemoveUnit, EntriesTyped, application
  <2>2. PlaceTyped'
    BY <1>38 DEF RemoveUnit, PlaceTyped, RemoveSteps
  <2>q. QED
    BY <1>38, <2>1, <2>2 DEF RemoveUnit, FoldersTyped, ListsTyped, bookkeeping, RunTyped
<1>39. CASE RemoveUnitFails
  <2>1. PlaceTyped'
    BY <1>39, FaultTyped DEF RemoveUnitFails, PlaceTyped, Outcomes
  <2>q. QED
    BY <1>39, <2>1 DEF RemoveUnitFails, FoldersTyped, EntriesTyped, entries, application, ListsTyped, bookkeeping, RunTyped
<1>40. CASE RemoveNamed
  <2>1. FoldersTyped'
    BY <1>40, TreesTyped DEF RemoveNamed, FoldersTyped
  <2>2. PlaceTyped'
    BY <1>40 DEF RemoveNamed, PlaceTyped, Outcomes
  <2>q. QED
    BY <1>40, <2>1, <2>2 DEF RemoveNamed, EntriesTyped, entries, application, ListsTyped, bookkeeping, RunTyped
<1>41. CASE RemoveService
  <2>1. FoldersTyped'
    BY <1>41, TreesTyped DEF RemoveService, FoldersTyped
  <2>2. EntriesTyped'
    BY <1>41 DEF RemoveService, EntriesTyped, application
  <2>3. PlaceTyped'
    BY <1>41, FaultTyped DEF RemoveService, PlaceTyped, Outcomes, Works, Sticks
  <2>q. QED
    BY <1>41, <2>1, <2>2, <2>3 DEF RemoveService, ListsTyped, bookkeeping, RunTyped
<1>42. CASE RemoveFiles
  <2>1. FoldersTyped'
    BY <1>42, TreesTyped DEF RemoveFiles, FoldersTyped
  <2>2. EntriesTyped'
    BY <1>42 DEF RemoveFiles, EntriesTyped, application
  <2>3. PlaceTyped'
    <3>1. pc' \in {"idle", "r_app"} /\ last' \in {last, "removed", "failed"}
      BY <1>42 DEF RemoveFiles
    <3>2. stuck' \in BOOLEAN /\ faults' \in 0..MaxFaults
      <4>1. CASE UNCHANGED <<stuck, faults>>
        BY <4>1 DEF PlaceTyped
      <4>2. CASE Sticks
        BY <4>2, FaultTyped DEF Sticks, PlaceTyped
      <4>q. QED
        BY <1>42, <4>1, <4>2 DEF RemoveFiles
    <3>q. QED
      BY <1>42, <3>1, <3>2 DEF RemoveFiles, PlaceTyped, RemoveSteps, Outcomes
  <2>q. QED
    BY <1>42, <2>1, <2>2, <2>3 DEF RemoveFiles, ListsTyped, bookkeeping, RunTyped
<1>43. CASE RemoveApp
  <2>1. FoldersTyped'
    BY <1>43, TreesTyped DEF RemoveApp, FoldersTyped
  <2>2. PlaceTyped'
    BY <1>43, FaultTyped DEF RemoveApp, PlaceTyped, Outcomes, Works, Sticks
  <2>q. QED
    BY <1>43, <2>1, <2>2 DEF RemoveApp, EntriesTyped, entries, application, ListsTyped, bookkeeping, RunTyped
<1>44. CASE Crash
  <2>1. EntriesTyped'
    BY <1>44 DEF Crash, EntriesTyped, entries
  <2>2. ListsTyped'
    BY <1>44 DEF Crash, ListsTyped, bookkeeping
  <2>3. PlaceTyped'
    BY <1>44, FaultTyped DEF Crash, PlaceTyped, Outcomes
  <2>q. QED
    BY <1>44, <2>1, <2>2, <2>3 DEF Crash, FoldersTyped, RunTyped
<1>0. CASE UNCHANGED vars
  BY <1>0 DEF vars, FoldersTyped, EntriesTyped, ListsTyped, PlaceTyped, RunTyped, entries, application, bookkeeping
<1>q. QED
  BY <1>0, <1>1, <1>2, <1>3, <1>4, <1>5, <1>6, <1>7, <1>8, <1>9, <1>10, <1>11, <1>12, <1>13, <1>14, <1>15, <1>16, <1>17, <1>18, <1>19, <1>20, <1>21, <1>22, <1>23, <1>24, <1>25, <1>26, <1>27, <1>28, <1>29, <1>30, <1>31, <1>32, <1>33, <1>34, <1>35, <1>36, <1>37, <1>38, <1>39, <1>40, <1>41, <1>42, <1>43, <1>44 DEF Next

\* The state of doSetup, its undo stack and doRemove stays well-formed for any files, versions,
\* platforms and bounds.
THEOREM TypeCorrect == Spec => []TypeOK
<1>1. Typed /\ [Next]_vars => Typed'
  BY TypedStep
<1>q. QED
  BY TypedInit, <1>1, TypedMeans, PTL DEF Spec

-----------------------------------------------------------------------------
(***************************************************************************)
(* An update by folders keeps a whole program, and one that fails puts     *)
(* back what it found, for any set of files, versions and platforms and    *)
(* any number of setups, crashes and refusals.                             *)
(*                                                                         *)
(* The argument: up to the rename into place the program is what it was,   *)
(* in its folder or (between the two renames) in the folder beside it;     *)
(* from there on the folder beside it has the old one, and the undo stack  *)
(* a rollback, exactly once: a second would put back an empty folder.  No  *)
(* application is open where a step takes its folder away.                 *)
(***************************************************************************)

\* Where a step of setup finds every application closed.
Later == {"stop", "clear", "away", "into", "over", "svc", "unit", "reg",
          "check"}
\* A swap before and after the new version is in its folder.
Placing == {"stage", "copy", "wait", "stop", "clear", "away", "into"}
InPlace == {"svc", "unit", "reg", "check"}

\* `what` is on the list u, and is on it at most once.
In(what, u) == \E i \in 1..Len(u) : u[i] = what
Once(what, u) == \A i, j \in 1..Len(u) : u[i] = what /\ u[j] = what => i = j

\* Which steps belong to which kind of run.
KindTold ==
    /\ pc \in {"stage", "copy", "wait", "clear", "away", "into"} =>
          run.kind = "swap"
    /\ pc = "over" => run.kind = "over"
    /\ pc = "stop" => run.kind \in {"swap", "over"}
    /\ pc \in RemoveSteps => run.kind = "remove"
    /\ last = "failed" => pc = "idle"
    /\ platform = "bundle" => pc \notin {"svc", "unit", "reg"}

\* An application on the screen has its folder, and no step that takes the
\* folder away finds one.
Closed ==
    /\ open => app # Gone /\ platform # "service"
    /\ pc \in {"stage", "copy", "wait"} /\ open => asked
    /\ pc \in Later => ~open
    /\ pc \in {"stage", "copy"} => undo = <<>>
    /\ pc = "wait" => undo = <<"stage">>
    /\ pc = "undo" /\ open => ~In("rollback", undo) /\ ~In("made", undo)
    /\ platform = "linux" /\ pc = "r_files" => reg = Absent
    /\ platform = "windows" /\ pc \in {"r_unit", "r_files"}
       /\ reg # Absent /\ ~run.inApp => ~open

\* What is moved into place is the whole of the new version.
StagedWhole ==
    /\ pc = "copy" => \A f \in Files \ todo : next[f] = run.to
    /\ pc \in {"wait", "clear", "away", "into"}
          \/ (pc = "stop" /\ run.kind = "swap") => next = Full(run.to)

\* Where the program is at each step of a swap.
ProgramKept ==
    run.kind = "swap" =>
      /\ run.from # Gone \/ platform = "service"
      /\ app = run.from \/ old = run.from \/ app = Full(run.to)
      /\ pc \in Placing \ {"into"} => app = run.from
      /\ pc = "away" /\ platform = "service" => old = Gone
      /\ pc = "into" => old = run.from /\ app = Gone
      /\ pc \in InPlace => app = Full(run.to) /\ old = run.from

\* A rollback is on the list at most once, and finds the previous version.
UndoKeeps ==
    run.kind = "swap" =>
      /\ ~In("made", undo)
      /\ In("rollback", undo) => old = run.from
      /\ Once("rollback", undo)
      /\ pc \in Placing => ~In("rollback", undo)

\* What is not as it was found is on the list of what to undo.
OnTheList ==
    run.kind = "swap" =>
      /\ pc \in {"into"} \cup InPlace \/ (pc = "undo" /\ In("rollback", undo)) =>
            (run.hadOld <=> run.from # Gone)
      /\ pc \in InPlace => In("rollback", undo) \/ platform = "bundle"
      /\ pc \in {"stop", "clear", "away", "into"} => In("stage", undo)
      /\ pc \in InPlace => next = Gone \/ In("stage", undo)
      /\ platform = "service" =>
            /\ ~In("reg", undo)
            /\ pc \in Placing => reg = run.reg
            /\ pc \in InPlace => In("plist", undo)
      /\ pc = "undo" /\ ~stuck =>
            /\ app = run.from \/ In("rollback", undo)
            /\ next = Gone \/ In("stage", undo)
            /\ platform = "service" => reg = run.reg \/ In("plist", undo)
      /\ last = "failed" /\ ~stuck =>
            /\ app = run.from /\ next = Gone
            /\ platform = "service" => reg = run.reg

\* The inductive invariant: the two properties follow from it, and need each part of it.
Kept == KindTold /\ Closed /\ StagedWhole /\ ProgramKept /\ UndoKeeps /\ OnTheList

\* Membership of an empty list, of one step, and of a list that a step is put before,
\* put after, or taken off.
LEMMA InNone == \A w : ~In(w, <<>>) /\ Once(w, <<>>)
BY DEF In, Once

\* A list of one step has that step, once.
LEMMA InOne == \A w, a : (In(w, <<a>>) <=> w = a) /\ Once(w, <<a>>)
BY DEF In, Once

\* A step put before a list is on it, and the rest stays as often as it was.
LEMMA InFront ==
    ASSUME NEW u \in Seq(Undos), NEW a \in Undos, NEW w
    PROVE  /\ In(w, <<a>> \o u) <=> w = a \/ In(w, u)
           /\ ~In(w, u) \/ (w # a /\ Once(w, u)) => Once(w, <<a>> \o u)
<1> DEFINE t == <<a>> \o u
<1>1. Len(t) = Len(u) + 1 /\ t[1] = a /\ \A i \in 1..Len(u) : t[i + 1] = u[i]
  OBVIOUS
<1>2. \A i \in 1..Len(t) : i = 1 \/ (i - 1 \in 1..Len(u) /\ t[i] = u[i - 1])
  BY <1>1
<1>3. In(w, t) <=> w = a \/ In(w, u)
  <2>1. ASSUME w = a PROVE In(w, t)
    BY <1>1, <2>1 DEF In
  <2>2. ASSUME In(w, u) PROVE In(w, t)
    <3>1. PICK i \in 1..Len(u) : u[i] = w
      BY <2>2 DEF In
    <3>2. i + 1 \in 1..Len(t) /\ t[i + 1] = w
      BY <1>1, <3>1
    <3>q. QED
      BY <3>2 DEF In
  <2>3. ASSUME In(w, t) PROVE w = a \/ In(w, u)
    BY <1>1, <1>2, <2>3 DEF In
  <2>q. QED
    BY <2>1, <2>2, <2>3
<1>4. ASSUME ~In(w, u) \/ (w # a /\ Once(w, u)) PROVE Once(w, t)
  <2>1. SUFFICES ASSUME NEW i \in 1..Len(t), NEW j \in 1..Len(t),
                        t[i] = w, t[j] = w
                 PROVE  i = j
    BY DEF Once
  <2>2. CASE ~In(w, u)
    BY <1>2, <2>1, <2>2 DEF In
  <2>3. CASE w # a /\ Once(w, u)
    BY <1>1, <1>2, <2>1, <2>3 DEF Once
  <2>q. QED
    BY <1>4, <2>2, <2>3
<1>q. QED
  BY <1>3, <1>4

\* A step put after a list is on it, and the rest stays as often as it was.
LEMMA InBack ==
    ASSUME NEW u \in Seq(Undos), NEW a \in Undos, NEW w
    PROVE  /\ In(w, u \o <<a>>) <=> w = a \/ In(w, u)
           /\ w # a /\ Once(w, u) => Once(w, u \o <<a>>)
<1> DEFINE t == u \o <<a>>
<1>1. Len(t) = Len(u) + 1 /\ t[Len(t)] = a /\ \A i \in 1..Len(u) : t[i] = u[i]
  OBVIOUS
<1>2. \A i \in 1..Len(t) : i = Len(t) \/ i \in 1..Len(u)
  BY <1>1
<1>3. In(w, t) <=> w = a \/ In(w, u)
  <2>0. Len(t) \in 1..Len(t) /\ \A i \in 1..Len(u) : i \in 1..Len(t)
    BY <1>1
  <2>q. QED
    BY <1>1, <1>2, <2>0 DEF In
<1>4. w # a /\ Once(w, u) => Once(w, t)
  BY <1>1, <1>2 DEF Once
<1>q. QED
  BY <1>3, <1>4

\* What is on a list is its first step or is on the rest; a step that is on it once and comes
\* first is not on the rest.
LEMMA InTail ==
    ASSUME NEW u \in Seq(Undos), u # <<>>, NEW w
    PROVE  /\ In(w, u) <=> Head(u) = w \/ In(w, Tail(u))
           /\ Once(w, u) => Once(w, Tail(u))
           /\ Once(w, u) /\ Head(u) = w => ~In(w, Tail(u))
<1> DEFINE t == Tail(u)
<1>1. Len(u) >= 1 /\ Len(t) = Len(u) - 1 /\ Head(u) = u[1]
      /\ \A i \in 1..Len(t) : t[i] = u[i + 1]
  OBVIOUS
<1>2. \A i \in 1..Len(u) : i = 1 \/ (i - 1 \in 1..Len(t) /\ u[i] = t[i - 1])
  BY <1>1
<1>3. \A i \in 1..Len(t) : i + 1 \in 1..Len(u) /\ i + 1 # 1
  BY <1>1
<1>4. 1 \in 1..Len(u)
  BY <1>1
<1>5. In(w, u) <=> Head(u) = w \/ In(w, t)
  <2>1. In(w, u) => Head(u) = w \/ In(w, t)
    BY <1>1, <1>2 DEF In
  <2>2. Head(u) = w => In(w, u)
    BY <1>1, <1>4 DEF In
  <2>3. In(w, t) => In(w, u)
    <3>1. ASSUME NEW i \in 1..Len(t), t[i] = w PROVE In(w, u)
      BY <1>1, <1>3, <3>1 DEF In
    <3>q. QED
      BY <3>1 DEF In
  <2>q. QED
    BY <2>1, <2>2, <2>3
<1>6. Once(w, u) => Once(w, t)
  BY <1>1, <1>3 DEF Once
<1>7. Once(w, u) /\ Head(u) = w => ~In(w, t)
  BY <1>1, <1>3, <1>4 DEF Once, In
<1>q. QED
  BY <1>5, <1>6, <1>7

\* The program is in place: the rollback is on the list, once.
LEMMA PlacedLists ==
    ASSUME EntriesTyped, ListsTyped, Placed("rollback"), ~In("made", undo),
           ~In("rollback", undo)
    PROVE  /\ platform # "bundle" => In("rollback", undo')
           /\ Once("rollback", undo')
           /\ ~In("made", undo')
           /\ platform = "service" => In("plist", undo') /\ ~In("reg", undo')
<1>1. "rollback" \in Undos /\ "svc" \in Undos
  BY DEF Undos
<1>2. CASE platform = "linux"
  BY <1>1, <1>2, InFront DEF Placed, ListsTyped
<1>3. CASE platform = "windows"
  <2> DEFINE u == <<"rollback">> \o undo
  <2>1. undo' = <<"svc">> \o u /\ u \in Seq(Undos)
    BY <1>1, <1>3 DEF Placed, ListsTyped
  <2>2. /\ In("rollback", u) /\ Once("rollback", u) /\ ~In("made", u)
    BY <1>1, InFront DEF ListsTyped
  <2> HIDE DEF u
  <2>q. QED
    BY <1>1, <1>3, <2>1, <2>2, InFront
<1>4. CASE platform = "bundle"
  BY <1>4, InNone DEF Placed
<1>5. CASE platform = "service"
  <2>1. undo' = <<"unit", "rollback", "plist">>
    BY <1>5 DEF Placed
  <2>2. /\ Len(undo') = 3
        /\ undo'[1] = "unit" /\ undo'[2] = "rollback" /\ undo'[3] = "plist"
    BY <2>1
  <2>3. /\ 2 \in 1..Len(undo') /\ 3 \in 1..Len(undo')
        /\ \A i \in 1..Len(undo') : i = 1 \/ i = 2 \/ i = 3
    BY <2>2
  <2>q. QED
    BY <1>5, <2>2, <2>3 DEF In, Once
<1>q. QED
  BY <1>2, <1>3, <1>4, <1>5 DEF EntriesTyped

\* Before any setup nothing is to be undone.
LEMMA KeptInit == Init => Kept
BY DEF Init, Kept, KindTold, Closed, StagedWhole, ProgramKept, UndoKeeps, OnTheList, NoRun, RemoveSteps

\* Every step, an undo, a crash and a launch of the application between two steps included,
\* keeps the invariant.
LEMMA KeptStep == Typed /\ Kept /\ [Next]_vars => Kept'
<1> SUFFICES ASSUME Typed, Kept, [Next]_vars PROVE Kept'
  OBVIOUS
<1> USE DEF Typed, Kept
<1>1. CASE Launch
  <2>1. Closed'
    BY <1>1 DEF Launch, Closed, Later
  <2>q. QED
    BY <1>1, <2>1 DEF Launch, KindTold, StagedWhole, ProgramKept, UndoKeeps, OnTheList
<1>2. CASE Quit
  <2>1. Closed'
    BY <1>2 DEF Quit, Closed, entries
  <2>q. QED
    BY <1>2, <2>1 DEF Quit, KindTold, StagedWhole, ProgramKept, UndoKeeps, OnTheList, entries
<1>3. ASSUME NEW v \in Versions, StartSwap(v) PROVE Kept'
  <2>1. KindTold'
    BY <1>3 DEF StartSwap, Asked, KindTold, RemoveSteps
  <2>2. Closed'
    BY <1>3 DEF StartSwap, Asked, Closed, Later
  <2>3. StagedWhole'
    BY <1>3 DEF StartSwap, StagedWhole
  <2>4. ProgramKept'
    BY <1>3 DEF StartSwap, Asked, ProgramKept, InPlace, Closed, EntriesTyped
  <2>5. UndoKeeps'
    BY <1>3, InNone DEF StartSwap, Asked, UndoKeeps
  <2>6. OnTheList'
    BY <1>3, InNone DEF StartSwap, Asked, OnTheList, InPlace, entries
  <2>q. QED
    BY <1>3, <2>1, <2>2, <2>3, <2>4, <2>5, <2>6
<1>4. ASSUME NEW v \in Versions, StartOver(v) PROVE Kept'
  <2>1. KindTold'
    BY <1>4 DEF StartOver, Asked, KindTold, RemoveSteps
  <2>2. Closed'
    BY <1>4 DEF StartOver, Asked, Closed
  <2>3. StagedWhole'
    BY <1>4 DEF StartOver, Asked, StagedWhole
  <2>4. ProgramKept'
    BY <1>4 DEF StartOver, Asked, ProgramKept
  <2>5. UndoKeeps'
    BY <1>4 DEF StartOver, Asked, UndoKeeps
  <2>6. OnTheList'
    BY <1>4 DEF StartOver, Asked, OnTheList
  <2>q. QED
    BY <1>4, <2>1, <2>2, <2>3, <2>4, <2>5, <2>6
<1>5. CASE ClearNext
  <2>1. KindTold'
    BY <1>5 DEF ClearNext, Fails, KindTold, RemoveSteps
  <2>2. Closed'
    BY <1>5, InNone DEF ClearNext, Fails, Closed, Later, application
  <2>3. StagedWhole'
    BY <1>5 DEF ClearNext, Fails, StagedWhole
  <2>4. ProgramKept'
    BY <1>5 DEF ClearNext, Fails, ProgramKept, Placing, InPlace
  <2>5. UndoKeeps'
    BY <1>5 DEF ClearNext, UndoKeeps, Placing
  <2>6. OnTheList'
    BY <1>5 DEF ClearNext, Fails, OnTheList, Placing, InPlace, entries, UndoKeeps
  <2>q. QED
    BY <1>5, <2>1, <2>2, <2>3, <2>4, <2>5, <2>6
<1>6. ASSUME NEW f \in Files, StageFile(f) PROVE Kept'
  <2>1. StagedWhole'
    BY <1>6 DEF StageFile, StagedWhole, FoldersTyped, Tree
  <2>2. OnTheList'
    BY <1>6 DEF StageFile, OnTheList, InPlace, KindTold, entries
  <2>q. QED
    BY <1>6, <2>1, <2>2 DEF StageFile, KindTold, Closed, ProgramKept, UndoKeeps, application
<1>7. CASE StageFails
  <2>1. KindTold'
    BY <1>7 DEF StageFails, Fails, KindTold, RemoveSteps
  <2>2. Closed'
    BY <1>7, InNone DEF StageFails, Fails, Closed, Later, application
  <2>3. StagedWhole'
    BY <1>7 DEF StageFails, Fails, StagedWhole
  <2>4. ProgramKept'
    BY <1>7 DEF StageFails, Fails, ProgramKept, Placing, InPlace
  <2>5. UndoKeeps'
    BY <1>7 DEF StageFails, UndoKeeps, Placing
  <2>6. OnTheList'
    BY <1>7 DEF StageFails, Fails, OnTheList, Placing, InPlace, entries, ProgramKept, UndoKeeps
  <2>q. QED
    BY <1>7, <2>1, <2>2, <2>3, <2>4, <2>5, <2>6
<1>8. CASE Staged
  <2>1. KindTold'
    BY <1>8 DEF Staged, KindTold, RemoveSteps
  <2>2. Closed'
    BY <1>8 DEF Staged, Closed, Later, application
  <2>3. StagedWhole'
    BY <1>8 DEF Staged, StagedWhole, FoldersTyped, Tree, Full
  <2>4. ProgramKept'
    BY <1>8 DEF Staged, ProgramKept, Placing, InPlace
  <2>5. UndoKeeps'
    BY <1>8, InOne DEF Staged, UndoKeeps
  <2>6. OnTheList'
    BY <1>8, InOne DEF Staged, OnTheList, Placing, InPlace, entries
  <2>q. QED
    BY <1>8, <2>1, <2>2, <2>3, <2>4, <2>5, <2>6
<1>9. CASE WaitGone
  <2>1. KindTold'
    BY <1>9 DEF WaitGone, KindTold, RemoveSteps
  <2>2. Closed'
    BY <1>9, InOne DEF WaitGone, Closed, Later, application
  <2>3. StagedWhole'
    BY <1>9 DEF WaitGone, StagedWhole
  <2>4. ProgramKept'
    BY <1>9 DEF WaitGone, ProgramKept, Placing, InPlace
  <2>5. UndoKeeps'
    BY <1>9 DEF WaitGone, UndoKeeps, Placing
  <2>6. OnTheList'
    BY <1>9, InOne DEF WaitGone, OnTheList, Placing, InPlace, entries, ProgramKept, Closed
  <2>q. QED
    BY <1>9, <2>1, <2>2, <2>3, <2>4, <2>5, <2>6
<1>10. CASE Stop
  <2>1. KindTold'
    BY <1>10 DEF Stop, KindTold, RemoveSteps
  <2>2. Closed'
    BY <1>10 DEF Stop, Closed, Later, application
  <2>3. StagedWhole'
    BY <1>10 DEF Stop, StagedWhole
  <2>4. ProgramKept'
    BY <1>10 DEF Stop, ProgramKept, Placing, InPlace
  <2>5. UndoKeeps'
    BY <1>10, InFront, InBack DEF Stop, UndoKeeps, Placing, ListsTyped, Undos
  <2>6. OnTheList'
    BY <1>10, InFront, InBack DEF Stop, OnTheList, Placing, InPlace, ListsTyped, Undos
  <2>q. QED
    BY <1>10, <2>1, <2>2, <2>3, <2>4, <2>5, <2>6
<1>11. CASE ClearOld
  <2>1. KindTold'
    BY <1>11 DEF ClearOld, Fails, KindTold, RemoveSteps
  <2>2. Closed'
    BY <1>11 DEF ClearOld, Fails, Closed, Later, application
  <2>3. StagedWhole'
    BY <1>11 DEF ClearOld, Fails, StagedWhole
  <2>4. ProgramKept'
    BY <1>11 DEF ClearOld, Fails, ProgramKept, Placing, InPlace
  <2>5. UndoKeeps'
    BY <1>11 DEF ClearOld, UndoKeeps, Placing
  <2>6. OnTheList'
    BY <1>11 DEF ClearOld, Fails, OnTheList, Placing, InPlace, entries, ProgramKept, UndoKeeps
  <2>q. QED
    BY <1>11, <2>1, <2>2, <2>3, <2>4, <2>5, <2>6
<1>12. CASE MoveAway
  <2>1. KindTold'
    BY <1>12 DEF MoveAway, Fails, KindTold, RemoveSteps
  <2>2. Closed'
    BY <1>12 DEF MoveAway, Fails, Closed, Later, application
  <2>3. StagedWhole'
    BY <1>12 DEF MoveAway, Fails, StagedWhole
  <2>4. ProgramKept'
    BY <1>12 DEF MoveAway, Fails, SetAside, ProgramKept, Placing, InPlace
  <2>5. UndoKeeps'
    BY <1>12 DEF MoveAway, UndoKeeps, Placing
  <2>6. OnTheList'
    BY <1>12 DEF MoveAway, Fails, OnTheList, Placing, InPlace, KindTold, entries, ProgramKept, RunTyped, Run
  <2>q. QED
    BY <1>12, <2>1, <2>2, <2>3, <2>4, <2>5, <2>6
<1>13. CASE MoveInto
  <2>1. KindTold'
    BY <1>13 DEF MoveInto, Placed, KindTold, RemoveSteps, EntriesTyped
  <2>2. Closed'
    BY <1>13 DEF MoveInto, Placed, Closed, Later, application, EntriesTyped
  <2>3. StagedWhole'
    BY <1>13 DEF MoveInto, Placed, StagedWhole, EntriesTyped
  <2>4. ProgramKept'
    BY <1>13 DEF MoveInto, Placed, ProgramKept, Placing, StagedWhole, EntriesTyped
  <2>5. UndoKeeps'
    <3>1. run.kind = "swap" /\ ~In("made", undo) /\ ~In("rollback", undo)
      BY <1>13 DEF MoveInto, KindTold, UndoKeeps, Placing
    <3>2. old' = run'.from /\ pc' \notin Placing
      BY <1>13, <3>1 DEF MoveInto, Placed, ProgramKept, Placing, EntriesTyped
    <3>q. QED
      BY <1>13, <3>1, <3>2, PlacedLists DEF MoveInto, UndoKeeps
  <2>6. OnTheList'
    <3>1. run.kind = "swap" /\ ~In("made", undo) /\ ~In("rollback", undo)
      BY <1>13 DEF MoveInto, KindTold, UndoKeeps, Placing
    <3>2. pc' \in InPlace /\ next' = Gone /\ UNCHANGED <<platform, run, last>>
      BY <1>13 DEF MoveInto, Placed, InPlace, EntriesTyped
    <3>3. (run.hadOld <=> run.from # Gone) /\ last # "failed"
      BY <1>13, <3>1 DEF MoveInto, OnTheList, KindTold
    <3>q. QED
      BY <1>13, <3>1, <3>2, <3>3, PlacedLists DEF MoveInto, OnTheList, Placing, InPlace
  <2>q. QED
    BY <1>13, <2>1, <2>2, <2>3, <2>4, <2>5, <2>6
<1>14. CASE MoveIntoFails
  <2>1. KindTold'
    BY <1>14 DEF MoveIntoFails, Fails, KindTold, RemoveSteps
  <2>2. Closed'
    BY <1>14 DEF MoveIntoFails, Fails, Closed, Later, application
  <2>3. StagedWhole'
    BY <1>14 DEF MoveIntoFails, Fails, StagedWhole
  <2>4. ProgramKept'
    BY <1>14 DEF MoveIntoFails, Fails, ProgramKept, Placing, InPlace
  <2>5. UndoKeeps'
    BY <1>14 DEF MoveIntoFails, UndoKeeps, Placing
  <2>6. OnTheList'
    BY <1>14 DEF MoveIntoFails, Fails, OnTheList, Placing, InPlace, KindTold, entries, ProgramKept
  <2>q. QED
    BY <1>14, <2>1, <2>2, <2>3, <2>4, <2>5, <2>6
<1>15. ASSUME NEW f \in Files, CopyFile(f) PROVE Kept'
  <2>1. Closed'
    BY <1>15 DEF CopyFile, Closed, Later, application
  <2>2. StagedWhole'
    BY <1>15 DEF CopyFile, StagedWhole
  <2>3. ProgramKept'
    BY <1>15 DEF CopyFile, ProgramKept, KindTold
  <2>4. OnTheList'
    BY <1>15 DEF CopyFile, OnTheList, KindTold
  <2>q. QED
    BY <1>15, <2>1, <2>2, <2>3, <2>4 DEF CopyFile, KindTold, UndoKeeps
<1>16. ASSUME NEW f \in Files, CopyFails(f) PROVE Kept'
  <2>1. KindTold'
    BY <1>16 DEF CopyFails, Fails, KindTold, RemoveSteps
  <2>2. Closed'
    BY <1>16 DEF CopyFails, Fails, Closed, Later, application
  <2>3. StagedWhole'
    BY <1>16 DEF CopyFails, Fails, StagedWhole
  <2>4. ProgramKept'
    BY <1>16 DEF CopyFails, ProgramKept, KindTold
  <2>5. UndoKeeps'
    BY <1>16 DEF CopyFails, UndoKeeps, KindTold
  <2>6. OnTheList'
    BY <1>16 DEF CopyFails, OnTheList, KindTold
  <2>q. QED
    BY <1>16, <2>1, <2>2, <2>3, <2>4, <2>5, <2>6
<1>17. CASE Copied
  <2>1. KindTold'
    BY <1>17 DEF Copied, Placed, KindTold, RemoveSteps, EntriesTyped
  <2>2. Closed'
    BY <1>17 DEF Copied, Placed, Closed, Later, application, EntriesTyped
  <2>3. StagedWhole'
    BY <1>17 DEF Copied, Placed, StagedWhole, EntriesTyped
  <2>4. ProgramKept'
    BY <1>17 DEF Copied, ProgramKept, KindTold
  <2>5. UndoKeeps'
    BY <1>17 DEF Copied, UndoKeeps, KindTold
  <2>6. OnTheList'
    BY <1>17 DEF Copied, OnTheList, KindTold
  <2>q. QED
    BY <1>17, <2>1, <2>2, <2>3, <2>4, <2>5, <2>6
<1>18. ASSUME NEW f \in Files, SvcFile(f) PROVE Kept'
  <2>1. StagedWhole'
    BY <1>18 DEF SvcFile, StagedWhole
  <2>q. QED
    BY <1>18, <2>1 DEF SvcFile, KindTold, Closed, ProgramKept, UndoKeeps, OnTheList, entries, application
<1>19. ASSUME NEW f \in Files, SvcFileFails(f) PROVE Kept'
  <2>1. KindTold'
    BY <1>19 DEF SvcFileFails, Fails, KindTold, RemoveSteps
  <2>2. Closed'
    BY <1>19 DEF SvcFileFails, Fails, Closed, Later, application
  <2>3. StagedWhole'
    BY <1>19 DEF SvcFileFails, Fails, StagedWhole
  <2>4. ProgramKept'
    BY <1>19 DEF SvcFileFails, Fails, ProgramKept, Placing, InPlace
  <2>5. UndoKeeps'
    BY <1>19 DEF SvcFileFails, Fails, UndoKeeps, Placing
  <2>6. OnTheList'
    BY <1>19 DEF SvcFileFails, Fails, OnTheList, Placing, InPlace, KindTold
  <2>q. QED
    BY <1>19, <2>1, <2>2, <2>3, <2>4, <2>5, <2>6
<1>20. CASE SvcFilesDone
  <2>1. KindTold'
    BY <1>20 DEF SvcFilesDone, KindTold, RemoveSteps
  <2>2. Closed'
    BY <1>20 DEF SvcFilesDone, Closed, Later, application
  <2>3. StagedWhole'
    BY <1>20 DEF SvcFilesDone, StagedWhole
  <2>4. ProgramKept'
    BY <1>20 DEF SvcFilesDone, ProgramKept, Placing, InPlace
  <2>5. UndoKeeps'
    BY <1>20, InFront DEF SvcFilesDone, UndoKeeps, Placing, ListsTyped, Undos
  <2>6. OnTheList'
    BY <1>20, InFront DEF SvcFilesDone, OnTheList, Placing, InPlace, KindTold, ListsTyped, Undos
  <2>q. QED
    BY <1>20, <2>1, <2>2, <2>3, <2>4, <2>5, <2>6
<1>21. CASE Unit
  <2>1. KindTold'
    BY <1>21 DEF Unit, KindTold, RemoveSteps
  <2>2. Closed'
    BY <1>21 DEF Unit, Closed, Later, application
  <2>3. StagedWhole'
    BY <1>21 DEF Unit, StagedWhole
  <2>4. ProgramKept'
    BY <1>21 DEF Unit, ProgramKept, Placing, InPlace
  <2>5. UndoKeeps'
    BY <1>21, InFront DEF Unit, UndoKeeps, Placing, ListsTyped, Undos
  <2>6. OnTheList'
    BY <1>21, InFront DEF Unit, OnTheList, Placing, InPlace, ListsTyped, Undos
  <2>q. QED
    BY <1>21, <2>1, <2>2, <2>3, <2>4, <2>5, <2>6
<1>22. CASE UnitFails
  <2>1. KindTold'
    BY <1>22 DEF UnitFails, Fails, KindTold, RemoveSteps
  <2>2. Closed'
    BY <1>22 DEF UnitFails, Fails, Closed, Later, application
  <2>3. StagedWhole'
    BY <1>22 DEF UnitFails, Fails, StagedWhole
  <2>4. ProgramKept'
    BY <1>22 DEF UnitFails, Fails, ProgramKept, Placing, InPlace
  <2>5. UndoKeeps'
    BY <1>22 DEF UnitFails, Fails, UndoKeeps, Placing
  <2>6. OnTheList'
    BY <1>22 DEF UnitFails, Fails, OnTheList, Placing, InPlace, KindTold
  <2>q. QED
    BY <1>22, <2>1, <2>2, <2>3, <2>4, <2>5, <2>6
<1>23. CASE Register
  <2>1. KindTold'
    BY <1>23 DEF Register, KindTold, RemoveSteps
  <2>2. Closed'
    BY <1>23 DEF Register, Closed, Later, application
  <2>3. StagedWhole'
    BY <1>23 DEF Register, StagedWhole
  <2>4. ProgramKept'
    BY <1>23 DEF Register, ProgramKept, Placing, InPlace
  <2>5. UndoKeeps'
    BY <1>23, InFront DEF Register, UndoKeeps, Placing, ListsTyped, Undos
  <2>6. OnTheList'
    BY <1>23, InFront DEF Register, OnTheList, Placing, InPlace, KindTold, ListsTyped, Undos
  <2>q. QED
    BY <1>23, <2>1, <2>2, <2>3, <2>4, <2>5, <2>6
<1>24. CASE RegisterFails
  <2>1. KindTold'
    BY <1>24 DEF RegisterFails, Fails, KindTold, RemoveSteps
  <2>2. Closed'
    BY <1>24 DEF RegisterFails, Fails, Closed, Later, application
  <2>3. StagedWhole'
    BY <1>24 DEF RegisterFails, Fails, StagedWhole
  <2>4. ProgramKept'
    BY <1>24 DEF RegisterFails, Fails, ProgramKept, Placing, InPlace
  <2>5. UndoKeeps'
    BY <1>24 DEF RegisterFails, Fails, UndoKeeps, Placing
  <2>6. OnTheList'
    BY <1>24 DEF RegisterFails, Fails, OnTheList, Placing, InPlace, KindTold
  <2>q. QED
    BY <1>24, <2>1, <2>2, <2>3, <2>4, <2>5, <2>6
<1>25. CASE Check
  <2>1. KindTold'
    BY <1>25 DEF Check, KindTold, RemoveSteps
  <2>2. Closed'
    BY <1>25 DEF Check, Closed, Later, application
  <2>3. StagedWhole'
    BY <1>25 DEF Check, StagedWhole
  <2>4. ProgramKept'
    BY <1>25 DEF Check, ProgramKept, Placing, InPlace
  <2>5. UndoKeeps'
    BY <1>25, InNone DEF Check, UndoKeeps
  <2>6. OnTheList'
    BY <1>25, InNone DEF Check, OnTheList, Placing, InPlace
  <2>q. QED
    BY <1>25, <2>1, <2>2, <2>3, <2>4, <2>5, <2>6
<1>26. CASE CheckFails
  <2>1. KindTold'
    BY <1>26 DEF CheckFails, Fails, KindTold, RemoveSteps
  <2>2. Closed'
    BY <1>26 DEF CheckFails, Fails, Closed, Later, application
  <2>3. StagedWhole'
    BY <1>26 DEF CheckFails, Fails, StagedWhole
  <2>4. ProgramKept'
    BY <1>26 DEF CheckFails, Fails, ProgramKept, Placing, InPlace
  <2>5. UndoKeeps'
    BY <1>26 DEF CheckFails, Fails, UndoKeeps, Placing
  <2>6. OnTheList'
    BY <1>26 DEF CheckFails, Fails, OnTheList, Placing, InPlace, KindTold
  <2>q. QED
    BY <1>26, <2>1, <2>2, <2>3, <2>4, <2>5, <2>6
<1>27. CASE UndoStage
  <2>1. Closed'
    BY <1>27, InTail DEF UndoStage, Undoes, Closed, application, ListsTyped
  <2>2. StagedWhole'
    BY <1>27 DEF UndoStage, Undoes, StagedWhole
  <2>3. UndoKeeps'
    BY <1>27, InTail DEF UndoStage, Undoes, UndoKeeps, ListsTyped
  <2>4. OnTheList'
    BY <1>27, InTail DEF UndoStage, Sticks, Works, Undoes, OnTheList, InPlace, entries, ListsTyped
  <2>q. QED
    BY <1>27, <2>1, <2>2, <2>3, <2>4 DEF UndoStage, KindTold, ProgramKept
<1>28. CASE UndoStart
  <2>1. Closed'
    BY <1>28, InTail DEF UndoStart, Undoes, Closed, application, ListsTyped
  <2>2. UndoKeeps'
    BY <1>28, InTail DEF UndoStart, Undoes, UndoKeeps, ListsTyped
  <2>3. OnTheList'
    BY <1>28, InTail DEF UndoStart, Sticks, Works, Undoes, OnTheList, ListsTyped
  <2>q. QED
    BY <1>28, <2>1, <2>2, <2>3 DEF UndoStart, KindTold, StagedWhole, ProgramKept
<1>29. CASE UndoRollback
  <2>1. Closed'
    BY <1>29, InTail DEF UndoRollback, Undoes, Closed, application, ListsTyped
  <2>2. ProgramKept'
    BY <1>29, InTail DEF UndoRollback, Undoes, RolledBack, ProgramKept, InPlace, UndoKeeps, ListsTyped
  <2>3. UndoKeeps'
    BY <1>29, InTail DEF UndoRollback, Undoes, UndoKeeps, ListsTyped
  <2>4. OnTheList'
    BY <1>29, InTail DEF UndoRollback, Sticks, Works, Undoes, RolledBack, OnTheList, InPlace, entries, ListsTyped, ProgramKept, UndoKeeps
  <2>q. QED
    BY <1>29, <2>1, <2>2, <2>3, <2>4 DEF UndoRollback, KindTold, StagedWhole
<1>30. CASE UndoMade
  <2>1. Closed'
    BY <1>30, InTail DEF UndoMade, Undoes, Closed, application, ListsTyped
  <2>2. ProgramKept'
    BY <1>30, InTail DEF UndoMade, Undoes, ProgramKept, UndoKeeps, ListsTyped
  <2>3. UndoKeeps'
    BY <1>30, InTail DEF UndoMade, Undoes, UndoKeeps, ListsTyped
  <2>4. OnTheList'
    BY <1>30, InTail DEF UndoMade, Undoes, OnTheList, ListsTyped, UndoKeeps
  <2>q. QED
    BY <1>30, <2>1, <2>2, <2>3, <2>4 DEF UndoMade, KindTold, StagedWhole
<1>31. CASE UndoSvc
  <2>1. Closed'
    BY <1>31, InTail DEF UndoSvc, Undoes, Closed, application, ListsTyped
  <2>2. UndoKeeps'
    BY <1>31, InTail DEF UndoSvc, Undoes, UndoKeeps, ListsTyped
  <2>3. OnTheList'
    BY <1>31, InTail DEF UndoSvc, Sticks, Works, Undoes, OnTheList, entries, ListsTyped
  <2>q. QED
    BY <1>31, <2>1, <2>2, <2>3 DEF UndoSvc, KindTold, StagedWhole, ProgramKept
<1>32. CASE UndoUnit
  <2>1. Closed'
    BY <1>32, InTail DEF UndoUnit, Undoes, Closed, application, ListsTyped
  <2>2. UndoKeeps'
    BY <1>32, InTail DEF UndoUnit, Undoes, UndoKeeps, ListsTyped
  <2>3. OnTheList'
    BY <1>32, InTail DEF UndoUnit, Sticks, Works, Undoes, OnTheList, ListsTyped
  <2>q. QED
    BY <1>32, <2>1, <2>2, <2>3 DEF UndoUnit, KindTold, StagedWhole, ProgramKept
<1>33. CASE UndoReg
  <2>1. Closed'
    BY <1>33, InTail DEF UndoReg, Undoes, Closed, application, ListsTyped
  <2>2. UndoKeeps'
    BY <1>33, InTail DEF UndoReg, Undoes, UndoKeeps, ListsTyped
  <2>3. OnTheList'
    BY <1>33, InTail DEF UndoReg, Sticks, Works, Undoes, OnTheList, ListsTyped
  <2>q. QED
    BY <1>33, <2>1, <2>2, <2>3 DEF UndoReg, KindTold, StagedWhole, ProgramKept
<1>34. CASE UndoPlist
  <2>1. Closed'
    BY <1>34, InTail DEF UndoPlist, Undoes, Closed, application, ListsTyped
  <2>2. UndoKeeps'
    BY <1>34, InTail DEF UndoPlist, Undoes, UndoKeeps, ListsTyped
  <2>3. OnTheList'
    BY <1>34, InTail DEF UndoPlist, Sticks, Works, Undoes, OnTheList, InPlace, ListsTyped
  <2>q. QED
    BY <1>34, <2>1, <2>2, <2>3 DEF UndoPlist, KindTold, StagedWhole, ProgramKept
<1>35. CASE Failed
  <2>1. KindTold'
    BY <1>35 DEF Failed, KindTold, RemoveSteps
  <2>2. Closed'
    BY <1>35 DEF Failed, Closed, Later, application
  <2>3. StagedWhole'
    BY <1>35 DEF Failed, StagedWhole
  <2>4. ProgramKept'
    BY <1>35 DEF Failed, ProgramKept, Placing, InPlace
  <2>5. UndoKeeps'
    BY <1>35 DEF Failed, UndoKeeps, Placing
  <2>6. OnTheList'
    BY <1>35, InNone DEF Failed, OnTheList, Placing, InPlace, entries
  <2>q. QED
    BY <1>35, <2>1, <2>2, <2>3, <2>4, <2>5, <2>6
<1>36. ASSUME NEW inApp \in BOOLEAN, StartRemove(inApp) PROVE Kept'
  <2>1. KindTold'
    BY <1>36 DEF StartRemove, KindTold
  <2>2. Closed'
    BY <1>36 DEF StartRemove, Closed, Later, application
  <2>3. StagedWhole'
    BY <1>36 DEF StartRemove, StagedWhole
  <2>4. ProgramKept'
    BY <1>36 DEF StartRemove, ProgramKept
  <2>5. UndoKeeps'
    BY <1>36 DEF StartRemove, UndoKeeps
  <2>6. OnTheList'
    BY <1>36 DEF StartRemove, OnTheList
  <2>q. QED
    BY <1>36, <2>1, <2>2, <2>3, <2>4, <2>5, <2>6
<1>37. CASE RemoveStop
  <2>1. KindTold'
    BY <1>37 DEF RemoveStop, KindTold, RemoveSteps
  <2>2. Closed'
    BY <1>37 DEF RemoveStop, Closed, Later, entries, application
  <2>3. StagedWhole'
    BY <1>37 DEF RemoveStop, StagedWhole
  <2>4. ProgramKept'
    BY <1>37 DEF RemoveStop, ProgramKept, Placing, InPlace
  <2>5. UndoKeeps'
    BY <1>37 DEF RemoveStop, UndoKeeps, Placing
  <2>6. OnTheList'
    BY <1>37 DEF RemoveStop, OnTheList, Placing, InPlace, KindTold
  <2>q. QED
    BY <1>37, <2>1, <2>2, <2>3, <2>4, <2>5, <2>6
<1>38. CASE RemoveUnit
  <2>1. KindTold'
    BY <1>38 DEF RemoveUnit, KindTold, RemoveSteps
  <2>2. Closed'
    BY <1>38 DEF RemoveUnit, Closed, Later, application
  <2>3. StagedWhole'
    BY <1>38 DEF RemoveUnit, StagedWhole
  <2>4. ProgramKept'
    BY <1>38 DEF RemoveUnit, ProgramKept, Placing, InPlace
  <2>5. UndoKeeps'
    BY <1>38 DEF RemoveUnit, UndoKeeps, Placing
  <2>6. OnTheList'
    BY <1>38 DEF RemoveUnit, OnTheList, Placing, InPlace
  <2>q. QED
    BY <1>38, <2>1, <2>2, <2>3, <2>4, <2>5, <2>6
<1>39. CASE RemoveUnitFails
  <2>1. KindTold'
    BY <1>39 DEF RemoveUnitFails, KindTold, RemoveSteps
  <2>2. Closed'
    BY <1>39 DEF RemoveUnitFails, Closed, Later, application
  <2>3. StagedWhole'
    BY <1>39 DEF RemoveUnitFails, StagedWhole
  <2>4. ProgramKept'
    BY <1>39 DEF RemoveUnitFails, ProgramKept, Placing, InPlace
  <2>5. UndoKeeps'
    BY <1>39 DEF RemoveUnitFails, UndoKeeps, Placing
  <2>6. OnTheList'
    BY <1>39 DEF RemoveUnitFails, OnTheList, KindTold, RemoveSteps
  <2>q. QED
    BY <1>39, <2>1, <2>2, <2>3, <2>4, <2>5, <2>6
<1>40. CASE RemoveNamed
  <2>1. KindTold'
    BY <1>40 DEF RemoveNamed, KindTold, RemoveSteps
  <2>2. Closed'
    BY <1>40 DEF RemoveNamed, Closed, Later, application
  <2>3. StagedWhole'
    BY <1>40 DEF RemoveNamed, StagedWhole
  <2>4. ProgramKept'
    BY <1>40 DEF RemoveNamed, ProgramKept, KindTold, RemoveSteps
  <2>5. UndoKeeps'
    BY <1>40 DEF RemoveNamed, UndoKeeps, Placing
  <2>6. OnTheList'
    BY <1>40 DEF RemoveNamed, OnTheList, InPlace
  <2>q. QED
    BY <1>40, <2>1, <2>2, <2>3, <2>4, <2>5, <2>6
<1>41. CASE RemoveService
  <2>1. KindTold'
    BY <1>41 DEF RemoveService, KindTold, RemoveSteps
  <2>2. Closed'
    BY <1>41 DEF RemoveService, Closed, application
  <2>3. StagedWhole'
    BY <1>41 DEF RemoveService, StagedWhole
  <2>4. ProgramKept'
    BY <1>41 DEF RemoveService, ProgramKept, KindTold, RemoveSteps
  <2>5. UndoKeeps'
    BY <1>41 DEF RemoveService, UndoKeeps, KindTold, RemoveSteps
  <2>6. OnTheList'
    BY <1>41 DEF RemoveService, Sticks, OnTheList, Placing, InPlace
  <2>q. QED
    BY <1>41, <2>1, <2>2, <2>3, <2>4, <2>5, <2>6
<1>42. CASE RemoveFiles
  <2>1. KindTold'
    BY <1>42 DEF RemoveFiles, KindTold, RemoveSteps
  <2>2. Closed'
    BY <1>42 DEF RemoveFiles, Closed, Later, application
  <2>3. StagedWhole'
    BY <1>42 DEF RemoveFiles, StagedWhole
  <2>4. ProgramKept'
    BY <1>42 DEF RemoveFiles, ProgramKept, KindTold, RemoveSteps
  <2>5. UndoKeeps'
    BY <1>42 DEF RemoveFiles, UndoKeeps, Placing
  <2>6. OnTheList'
    BY <1>42 DEF RemoveFiles, Sticks, OnTheList, InPlace
  <2>q. QED
    BY <1>42, <2>1, <2>2, <2>3, <2>4, <2>5, <2>6
<1>43. CASE RemoveApp
  <2>1. KindTold'
    BY <1>43 DEF RemoveApp, KindTold, RemoveSteps
  <2>2. Closed'
    BY <1>43 DEF RemoveApp, Closed, application
  <2>3. StagedWhole'
    BY <1>43 DEF RemoveApp, StagedWhole
  <2>4. ProgramKept'
    BY <1>43 DEF RemoveApp, ProgramKept, KindTold, RemoveSteps
  <2>5. UndoKeeps'
    BY <1>43 DEF RemoveApp, UndoKeeps, Placing
  <2>6. OnTheList'
    BY <1>43 DEF RemoveApp, Sticks, OnTheList, Placing, InPlace
  <2>q. QED
    BY <1>43, <2>1, <2>2, <2>3, <2>4, <2>5, <2>6
<1>44. CASE Crash
  <2>1. KindTold'
    BY <1>44 DEF Crash, KindTold, RemoveSteps
  <2>2. Closed'
    BY <1>44 DEF Crash, Closed, Later
  <2>3. StagedWhole'
    BY <1>44 DEF Crash, StagedWhole
  <2>4. ProgramKept'
    BY <1>44 DEF Crash, ProgramKept, Placing, InPlace
  <2>5. UndoKeeps'
    BY <1>44, InNone DEF Crash, UndoKeeps
  <2>6. OnTheList'
    BY <1>44, InNone DEF Crash, OnTheList, Placing, InPlace
  <2>q. QED
    BY <1>44, <2>1, <2>2, <2>3, <2>4, <2>5, <2>6
<1>0. CASE UNCHANGED vars
  BY <1>0 DEF vars, KindTold, Closed, StagedWhole, ProgramKept, UndoKeeps, OnTheList, entries, application
<1>q. QED
  BY <1>0, <1>1, <1>2, <1>3, <1>4, <1>5, <1>6, <1>7, <1>8, <1>9, <1>10, <1>11, <1>12, <1>13, <1>14, <1>15, <1>16, <1>17, <1>18, <1>19, <1>20, <1>21, <1>22, <1>23, <1>24, <1>25, <1>26, <1>27, <1>28, <1>29, <1>30, <1>31, <1>32, <1>33, <1>34, <1>35, <1>36, <1>37, <1>38, <1>39, <1>40, <1>41, <1>42, <1>43, <1>44 DEF Next

\* At every instant of an update by folders, a crash or a failed command included, the version
\* before it is whole in its place or beside it, or the new one is whole in its place
\* (internal/setup/swap.go, setup_linux.go, install_darwin.go).
THEOREM UpdateKeepsProgram == Spec => []SwapKeepsProgram
<1>1. Kept => SwapKeepsProgram
  BY DEF Kept, ProgramKept, SwapKeepsProgram
<1>2. Typed /\ Kept /\ [Next]_vars => Typed' /\ Kept'
  BY TypedStep, KeptStep
<1>q. QED
  BY TypedInit, KeptInit, <1>1, <1>2, PTL DEF Spec

\* An update that failed and whose undo met no failure of its own leaves the program it found
\* and nothing staged beside it, and of the macOS service its plist (doSetup's undo stack).
THEOREM FailedUpdateRestores == Spec => []RollbackRestores
<1>1. Kept => RollbackRestores
  BY DEF Kept, OnTheList, RollbackRestores
<1>2. Typed /\ Kept /\ [Next]_vars => Typed' /\ Kept'
  BY TypedStep, KeptStep
<1>q. QED
  BY TypedInit, KeptInit, <1>1, <1>2, PTL DEF Spec

------------------------------------------------------------------------------
(* What the main process sends and the screen plays *)

Told == {"active", "done", "staged", "failed"} \X (1 .. 3)
Ticks == {"step"} \X Told
Losses == {"failed"} \X (1 .. 3)
Replies == {"reply"} \X {"ok", "failed", "cancelled"}
Asks == {"password", "update"} \X {"asked", "ready", "idle", "failed"}
End == <<"removed", "shown">>
Notes == Asks \cup {End}
Event == Ticks \cup Losses \cup Replies \cup Notes

\* The events that speak of the work; of them those that say it has been done, and that it has not.
Tellings == Ticks \cup Losses \cup Replies
Claims == {<<"step", <<"done", 3>>>>, <<"reply", "ok">>, End}
Sorries == Losses \cup {<<"reply", "failed">>, <<"reply", "cancelled">>}

Says(s, kinds) == \E i \in 1 .. Len(s) : s[i] \in kinds

\* After the reply nothing more is said of the work.
ReplyLast(s) ==
    \A i, j \in 1 .. Len(s) : s[i] \in Replies /\ i < j => s[j] \notin Tellings

LEMMA SaysAppended ==
    ASSUME NEW s \in Seq(Event), NEW t \in Seq(Event), NEW K
    PROVE  s \o t \in Seq(Event) /\ (Says(s \o t, K) <=> Says(s, K) \/ Says(t, K))
<1>1. s \o t \in Seq(Event) /\ Len(s \o t) = Len(s) + Len(t)
  OBVIOUS
<1>2. \A i \in 1 .. Len(s) : (s \o t)[i] = s[i]
  OBVIOUS
<1>3. \A i \in 1 .. Len(t) : (s \o t)[Len(s) + i] = t[i]
  OBVIOUS
<1>4. ASSUME Says(s \o t, K) PROVE Says(s, K) \/ Says(t, K)
  <2>1. PICK i \in 1 .. Len(s \o t) : (s \o t)[i] \in K
    BY <1>4 DEF Says
  <2>2. CASE i <= Len(s)
    BY <1>1, <1>2, <2>1, <2>2 DEF Says
  <2>3. CASE i > Len(s)
    <3>1. i - Len(s) \in 1 .. Len(t) /\ i = Len(s) + (i - Len(s))
      BY <1>1, <2>1, <2>3
    <3> QED
      BY <3>1, <1>3, <2>1 DEF Says
  <2> QED
    BY <2>1, <2>2, <2>3, <1>1
<1>5. Says(s, K) => Says(s \o t, K)
  BY <1>1, <1>2 DEF Says
<1>6. Says(t, K) => Says(s \o t, K)
  <2>1. \A i \in 1 .. Len(t) : Len(s) + i \in 1 .. Len(s \o t)
    BY <1>1
  <2> QED
    BY <2>1, <1>3 DEF Says
<1> QED
  BY <1>1, <1>4, <1>5, <1>6

LEMMA SaysOne ==
    ASSUME NEW s \in Seq(Event), NEW e \in Event, NEW K
    PROVE  Append(s, e) \in Seq(Event) /\ (Says(Append(s, e), K) <=> Says(s, K) \/ e \in K)
<1>1. Append(s, e) \in Seq(Event) /\ Len(Append(s, e)) = Len(s) + 1 /\ Append(s, e)[Len(s) + 1] = e
      /\ \A i \in 1 .. Len(s) : Append(s, e)[i] = s[i]
  OBVIOUS
<1>2. \A i \in 1 .. Len(s) + 1 : i \in 1 .. Len(s) \/ i = Len(s) + 1
  OBVIOUS
<1>3. Len(s) + 1 \in 1 .. Len(s) + 1 /\ \A i \in 1 .. Len(s) : i \in 1 .. Len(s) + 1
  OBVIOUS
<1> QED
  BY <1>1, <1>2, <1>3 DEF Says

LEMMA SaysRest ==
    ASSUME NEW s \in Seq(Event), s # <<>>, NEW K
    PROVE  /\ Head(s) \in Event /\ Tail(s) \in Seq(Event)
           /\ Says(s, K) <=> Says(Tail(s), K) \/ Head(s) \in K
<1>1. Len(s) >= 1 /\ Head(s) = s[1] /\ Tail(s) \in Seq(Event) /\ Len(Tail(s)) = Len(s) - 1 /\ s[1] \in Event
      /\ \A i \in 1 .. Len(s) - 1 : Tail(s)[i] = s[i + 1]
  OBVIOUS
<1>2. Says(Tail(s), K) \/ Head(s) \in K => Says(s, K)
  <2>1. \A i \in 1 .. Len(s) - 1 : i + 1 \in 1 .. Len(s)
    BY <1>1
  <2> QED
    BY <1>1, <2>1 DEF Says
<1>3. ASSUME Says(s, K) PROVE Says(Tail(s), K) \/ Head(s) \in K
  <2>1. PICK i \in 1 .. Len(s) : s[i] \in K
    BY <1>3 DEF Says
  <2>2. CASE i > 1
    <3>1. i - 1 \in 1 .. Len(s) - 1 /\ (i - 1) + 1 = i
      BY <2>1, <2>2
    <3> QED
      BY <3>1, <1>1, <2>1 DEF Says
  <2> QED
    BY <1>1, <2>1, <2>2
<1> QED
  BY <1>1, <1>2, <1>3

LEMMA ReplyEnds ==
    ASSUME NEW s \in Seq(Event), s # <<>>, ReplyLast(s)
    PROVE  ReplyLast(Tail(s)) /\ (Head(s) \in Replies => ~Says(Tail(s), Tellings))
<1>1. Len(s) >= 1 /\ Head(s) = s[1] /\ Len(Tail(s)) = Len(s) - 1
      /\ \A i \in 1 .. Len(s) - 1 : Tail(s)[i] = s[i + 1]
  OBVIOUS
<1>2. \A i \in 1 .. Len(s) - 1 : i + 1 \in 1 .. Len(s) /\ 1 < i + 1
  BY <1>1
<1>3. 1 \in 1 .. Len(s)
  BY <1>1
<1>4. \A i, j \in 1 .. Len(s) - 1 : i < j => i + 1 < j + 1
  BY <1>1
<1> QED
  BY <1>1, <1>2, <1>3, <1>4 DEF ReplyLast, Says

LEMMA ReplyJoins ==
    ASSUME NEW s \in Seq(Event), NEW t \in Seq(Event), ReplyLast(s), ReplyLast(t),
           ~Says(s, Replies) \/ ~Says(t, Tellings)
    PROVE  ReplyLast(s \o t)
<1>1. Len(s \o t) = Len(s) + Len(t) /\ (\A i \in 1 .. Len(s) : (s \o t)[i] = s[i])
      /\ (\A i \in 1 .. Len(t) : (s \o t)[Len(s) + i] = t[i])
  OBVIOUS
<1> SUFFICES ASSUME NEW i \in 1 .. Len(s \o t), NEW j \in 1 .. Len(s \o t), i < j, (s \o t)[i] \in Replies,
                    (s \o t)[j] \in Tellings
             PROVE FALSE
  BY DEF ReplyLast
<1>2. CASE j <= Len(s)
  <2>1. i \in 1 .. Len(s) /\ j \in 1 .. Len(s)
    BY <1>2
  <2> QED
    BY <2>1, <1>1 DEF ReplyLast
<1>3. CASE i > Len(s)
  <2>1. i - Len(s) \in 1 .. Len(t) /\ j - Len(s) \in 1 .. Len(t) /\ i - Len(s) < j - Len(s)
        /\ Len(s) + (i - Len(s)) = i /\ Len(s) + (j - Len(s)) = j
    BY <1>3, <1>1
  <2> QED
    BY <2>1, <1>1 DEF ReplyLast
<1>4. CASE i <= Len(s) /\ j > Len(s)
  <2>1. i \in 1 .. Len(s) /\ j - Len(s) \in 1 .. Len(t) /\ Len(s) + (j - Len(s)) = j
    BY <1>4, <1>1
  <2> QED
    BY <2>1, <1>1 DEF Says
<1> QED
  BY <1>2, <1>3, <1>4

\* What the kinds of events have to do with each other.
LEMMA Kinds ==
    /\ Event = Ticks \cup Losses \cup Replies \cup Notes
    /\ \A e \in Notes : e \notin Tellings /\ e \notin Replies /\ e \notin Sorries
    /\ \A e \in Ticks \cup Losses : e \notin Replies
    /\ \A e \in Ticks : e \notin Sorries
    /\ \A e \in Losses : e \notin Claims /\ e \in Sorries
    /\ Sorries \subseteq Tellings
    /\ \A e \in Claims : e \in Tellings \/ e = End
<1>1. /\ \A e \in Ticks : e[1] = "step"
      /\ \A e \in Losses : e[1] = "failed"
      /\ \A e \in Replies : e[1] = "reply"
      /\ \A e \in Notes : e[1] \in {"password", "update", "removed"}
      /\ \A e \in Sorries : e[1] \in {"reply", "failed"}
      /\ \A e \in Claims : e[1] \in {"reply", "step", "removed"}
  <2>1. \A e \in Ticks : e[1] = "step"
    BY DEF Ticks
  <2>2. \A e \in Losses : e[1] = "failed"
    BY DEF Losses
  <2>3. \A e \in Replies : e[1] = "reply"
    BY DEF Replies
  <2>4. \A e \in Notes : e[1] \in {"password", "update", "removed"}
    BY DEF Notes, Asks, End
  <2>5. \A e \in Sorries : e[1] \in {"reply", "failed"}
    BY <2>2 DEF Sorries
  <2>6. ASSUME NEW e \in Claims PROVE e[1] \in {"reply", "step", "removed"}
    <3>1. e = <<"step", <<"done", 3>>>> \/ e = <<"reply", "ok">> \/ e = <<"removed", "shown">>
      BY DEF Claims, End
    <3>2. e = <<"step", <<"done", 3>>>> => e[1] = "step"
      OBVIOUS
    <3>3. e = <<"reply", "ok">> => e[1] = "reply"
      OBVIOUS
    <3>4. e = <<"removed", "shown">> => e[1] = "removed"
      OBVIOUS
    <3> QED
      BY <3>1, <3>2, <3>3, <3>4
  <2> QED
    BY <2>1, <2>2, <2>3, <2>4, <2>5, <2>6
<1>2. <<"reply", "failed">> \in Replies /\ <<"reply", "cancelled">> \in Replies /\ <<"reply", "ok">> \in Replies
  BY DEF Replies
<1>3. <<"step", <<"done", 3>>>> \in Ticks
  BY DEF Ticks, Told
<1>4. \A e \in Notes : e \notin Tellings /\ e \notin Replies /\ e \notin Sorries
  <2>1. \A e \in Tellings : e[1] \in {"step", "failed", "reply"}
    BY <1>1 DEF Tellings
  <2> QED
    BY <1>1, <2>1
<1>5. \A e \in Ticks \cup Losses : e \notin Replies
  BY <1>1
<1>6. \A e \in Ticks : e \notin Sorries
  BY <1>1
<1>7. \A e \in Losses : e \notin Claims /\ e \in Sorries
  BY <1>1 DEF Sorries
<1>8. Sorries \subseteq Tellings
  BY <1>2 DEF Sorries, Tellings
<1>9. \A e \in Claims : e \in Tellings \/ e = End
  BY <1>2, <1>3 DEF Claims, Tellings
<1> QED
  BY <1>4, <1>5, <1>6, <1>7, <1>8, <1>9 DEF Event

------------------------------------------------------------------------------
(* The lines of the helper *)

LEMMA LinesAre ==
    /\ W!Lines \in Seq(Told) /\ Len(W!Lines) \in {6, 7}
    /\ \A i \in 1 .. Len(W!Lines) : W!Lines[i] = <<"done", 3>> <=> i = Len(W!Lines)
<1> DEFINE seamless == W!Seamless /\ work.what = "install"
<1>1. CASE seamless
  <2>1. W!Lines = <<<<"active", 1>>, <<"staged", 1>>, <<"done", 1>>, <<"active", 2>>, <<"done", 2>>,
                    <<"active", 3>>, <<"done", 3>>>>
    BY <1>1 DEF W!Lines
  <2> QED
    BY <2>1 DEF Told
<1>2. CASE ~seamless
  <2>1. W!Lines = <<<<"active", 1>>, <<"done", 1>>, <<"active", 2>>, <<"done", 2>>,
                    <<"active", 3>>, <<"done", 3>>>>
    BY <1>2 DEF W!Lines
  <2> QED
    BY <2>1 DEF Told
<1> QED
  BY <1>1, <1>2

LEMMA SomeLines == Len(W!Lines) # 0
BY LinesAre

LEMMA LinesCounted == Len(W!Lines) \in Nat
BY LinesAre

\* None of them says that a step failed.
LEMMA NoFailures == \A i \in 1 .. Len(W!Lines) : W!Lines[i][1] # "failed"
<1>1. CASE W!Seamless /\ work.what = "install"
  <2>1. W!Lines = <<<<"active", 1>>, <<"staged", 1>>, <<"done", 1>>, <<"active", 2>>, <<"done", 2>>,
                    <<"active", 3>>, <<"done", 3>>>>
    BY <1>1 DEF W!Lines
  <2> QED
    BY <2>1
<1>2. CASE ~(W!Seamless /\ work.what = "install")
  <2>1. W!Lines = <<<<"active", 1>>, <<"done", 1>>, <<"active", 2>>, <<"done", 2>>,
                    <<"active", 3>>, <<"done", 3>>>>
    BY <1>2 DEF W!Lines
  <2> QED
    BY <2>1
<1> QED
  BY <1>1, <1>2

\* The same work has the same lines.
LEMMA LinesStay ==
    ASSUME start' = start, work'.what = work.what
    PROVE  W!Lines' = W!Lines
BY DEF W!Lines, W!Seamless

WorkTyped ==
    /\ work \in [what : {"none", "install", "remove"}, keep : BOOLEAN,
                 at : {"prompt", "terminal", "works", "handed", "stuck", "ended"},
                 code : {"ok", "failed", "cancelled"}, said : Nat, failed : BOOLEAN, read : Nat]
    /\ work.said <= Len(W!Lines)

LEMMA CurrentIs ==
    ASSUME WorkTyped
    PROVE  W!Current \in 1 .. 3 /\ <<"failed", W!Current>> \in Told /\ <<"failed", W!Current>> \in Losses
<1>1. W!Current \in 1 .. 3
  <2>1. CASE work.said = 0
    BY <2>1 DEF W!Current
  <2>2. CASE work.said # 0
    <3>1. work.said \in 1 .. Len(W!Lines)
      BY <2>2, LinesAre DEF WorkTyped
    <3>2. W!Lines[work.said] \in Told
      BY <3>1, LinesAre
    <3> QED
      BY <3>2, <2>2 DEF W!Current, Told
  <2> QED
    BY <2>1, <2>2
<1> QED
  BY <1>1 DEF Told, Losses

LEMMA FileIs ==
    ASSUME WorkTyped
    PROVE  /\ W!File \in Seq(Told)
           /\ Len(W!File) = work.said + (IF work.failed THEN 1 ELSE 0)
           /\ \A i \in 1 .. work.said : W!File[i] = W!Lines[i]
           /\ work.failed => W!File[work.said + 1] = <<"failed", W!Current>>
<1> DEFINE begun == SubSeq(W!Lines, 1, work.said)
<1>1. begun \in Seq(Told) /\ Len(begun) = work.said /\ \A i \in 1 .. work.said : begun[i] = W!Lines[i]
  BY LinesAre DEF WorkTyped
<1> HIDE DEF begun
<1>2. CASE work.failed
  <2>1. W!File = begun \o <<<<"failed", W!Current>>>>
    BY <1>2 DEF W!File, begun
  <2> DEFINE line == <<"failed", W!Current>>
  <2>2. line \in Told
    BY CurrentIs
  <2> HIDE DEF line
  <2>3. begun \o <<line>> \in Seq(Told) /\ Len(begun \o <<line>>) = work.said + 1
        /\ (\A i \in 1 .. work.said : (begun \o <<line>>)[i] = begun[i])
        /\ (begun \o <<line>>)[work.said + 1] = line
    BY <1>1, <2>2
  <2> QED
    BY <1>1, <1>2, <2>1, <2>3 DEF line
<1>3. CASE ~work.failed
  <2>1. W!File = begun
    BY <1>1, <1>3 DEF W!File, begun
  <2> QED
    BY <1>1, <1>3, <2>1 DEF WorkTyped
<1> QED
  BY <1>2, <1>3 DEF WorkTyped

\* What has not been read yet.
LEMMA UnreadIs ==
    ASSUME WorkTyped, work.read <= Len(W!File)
    PROVE  /\ W!Unread \in Seq(Told)
           /\ Len(W!Unread) = Len(W!File) - work.read
           /\ \A i \in 1 .. Len(W!Unread) : W!Unread[i] = W!File[work.read + i]
<1>1. W!File \in Seq(Told) /\ Len(W!File) \in Nat /\ work.read \in Nat
  BY FileIs DEF WorkTyped
<1> QED
  BY <1>1 DEF W!Unread

LEMMA LinesJoined ==
    ASSUME NEW a \in Seq(Told), NEW b \in Seq(Told)
    PROVE  /\ a \o b \in Seq(Told) /\ Len(a \o b) = Len(a) + Len(b)
           /\ \A i \in 1 .. Len(a) : (a \o b)[i] = a[i]
           /\ \A i \in Len(a) + 1 .. Len(a) + Len(b) : (a \o b)[i] = b[i - Len(a)]
<1>1. a \o b \in Seq(Told) /\ Len(a \o b) = Len(a) + Len(b)
  BY ConcatProperties
<1>2. \A i \in 1 .. Len(a) + Len(b) : (a \o b)[i] = IF i <= Len(a) THEN a[i] ELSE b[i - Len(a)]
  BY ConcatProperties
<1>3. Len(a) \in Nat /\ Len(b) \in Nat
  OBVIOUS
<1>4. \A i \in 1 .. Len(a) : i \in 1 .. Len(a) + Len(b) /\ i <= Len(a)
  BY <1>3
<1>5. \A i \in Len(a) + 1 .. Len(a) + Len(b) : i \in 1 .. Len(a) + Len(b) /\ ~(i <= Len(a))
  BY <1>3
<1> QED
  BY <1>1, <1>2, <1>4, <1>5

\* The messages of some lines are of these lines.
LEMMA MessagesAre ==
    ASSUME NEW lines \in Seq(Told)
    PROVE  /\ W!Messages(lines) \in Seq(Event)
           /\ \A i \in 1 .. Len(W!Messages(lines)) : \E k \in 1 .. Len(lines) :
                 W!Messages(lines)[i] = W!Message(lines[k])
<1> DEFINE at == CHOOSE i \in DOMAIN lines : lines[i][1] = "staged"
           told == IF W!Names(lines, "staged") THEN W!RemoveAt(lines, at) ELSE lines
<1>1. told \in Seq(Told) /\ \A i \in 1 .. Len(told) : \E k \in 1 .. Len(lines) : told[i] = lines[k]
  <2>1. CASE W!Names(lines, "staged")
    <3>1. at \in 1 .. Len(lines)
      BY <2>1 DEF W!Names
    <3> HIDE DEF at
    <3>2. told = SubSeq(lines, 1, at - 1) \o SubSeq(lines, at + 1, Len(lines))
      BY <2>1 DEF W!RemoveAt
    <3> DEFINE a == SubSeq(lines, 1, at - 1)
               b == SubSeq(lines, at + 1, Len(lines))
    <3>3. a \in Seq(Told) /\ Len(a) = at - 1 /\ \A i \in 1 .. at - 1 : a[i] = lines[i]
      BY <3>1
    <3>4. b \in Seq(Told) /\ Len(b) = Len(lines) - at /\ \A i \in 1 .. Len(lines) - at : b[i] = lines[at + i]
      BY <3>1
    <3> HIDE DEF a, b
    <3>5. a \o b \in Seq(Told) /\ Len(a \o b) = Len(a) + Len(b)
          /\ (\A i \in 1 .. Len(a) : (a \o b)[i] = a[i])
          /\ (\A i \in Len(a) + 1 .. Len(a) + Len(b) : (a \o b)[i] = b[i - Len(a)])
      BY <3>3, <3>4, LinesJoined
    <3>6. ASSUME NEW i \in 1 .. Len(a \o b)
          PROVE  \E k \in 1 .. Len(lines) : (a \o b)[i] = lines[k]
      <4>1. CASE i <= Len(a)
        BY <4>1, <3>1, <3>3, <3>5
      <4>2. CASE i > Len(a)
        <5>1. i - Len(a) \in 1 .. Len(lines) - at /\ i \in Len(a) + 1 .. Len(a) + Len(b)
          BY <4>2, <3>1, <3>3, <3>4, <3>5
        <5>2. (a \o b)[i] = lines[at + (i - Len(a))] /\ at + (i - Len(a)) \in 1 .. Len(lines)
          BY <5>1, <3>1, <3>3, <3>4, <3>5
        <5> QED
          BY <5>2
      <4> QED
        BY <4>1, <4>2, <3>3, <3>5
    <3> QED
      BY <3>2, <3>5, <3>6 DEF a, b
  <2>2. CASE ~W!Names(lines, "staged")
    BY <2>2
  <2> QED
    BY <2>1, <2>2
<1>2. W!Messages(lines) = [i \in DOMAIN told |-> W!Message(told[i])]
  BY DEF W!Messages
<1> HIDE DEF told
<1>3. \A l \in Told : W!Message(l) \in Event
  <2> SUFFICES ASSUME NEW l \in Told PROVE W!Message(l) \in Event
    OBVIOUS
  <2>1. CASE l[1] = "failed"
    <3>1. W!Message(l) = <<"failed", l[2]>> /\ l[2] \in 1 .. 3
      BY <2>1 DEF W!Message, Told
    <3> QED
      BY <3>1 DEF Event, Losses
  <2>2. CASE l[1] # "failed"
    <3>1. W!Message(l) = <<"step", l>>
      BY <2>2 DEF W!Message
    <3> QED
      BY <3>1 DEF Event, Ticks
  <2> QED
    BY <2>1, <2>2
<1>4. DOMAIN told = 1 .. Len(told) /\ \A i \in 1 .. Len(told) : told[i] \in Told
  BY <1>1
<1>5. W!Messages(lines) \in Seq(Event) /\ Len(W!Messages(lines)) = Len(told)
      /\ \A i \in 1 .. Len(told) : W!Messages(lines)[i] = W!Message(told[i])
  BY <1>1, <1>2, <1>3, <1>4
<1> QED
  BY <1>1, <1>5

------------------------------------------------------------------------------
(* What is known of the work, and what has been said of it *)

Achieved == W!Finished /\ ~work.failed
Failing == main.reported \/ (work.at = "ended" /\ work.code # "ok") \/ work.at = "stuck"
Erased == work.what = "remove" /\ ~work.keep => main.forgot

\* The main process has nothing more to say of the work; nothing said of it is left to be shown.
Quiet == ~main.running /\ ~Says(wire, Tellings)
Still == Quiet /\ beats = <<>> /\ timers = {}

ScreenTyped ==
    /\ DOMAIN screen = {"phase", "panel", "task", "steps", "choice", "busy", "asking"}
    /\ DOMAIN screen.steps = 1 .. 3
    /\ screen.phase \in {"intro", "work", "done", "failed", "removed", "gone"}
    /\ screen.task \in {"install", "remove"}

MainTyped ==
    /\ DOMAIN main = {"running", "answer", "staged", "told", "reported", "prepared", "app", "window",
                      "updating", "forgot", "paused", "passwords"}
    /\ main.running \in BOOLEAN /\ main.answer \in BOOLEAN
    /\ main.reported \in BOOLEAN /\ main.forgot \in BOOLEAN

QueuesTyped ==
    /\ wire \in Seq(Event) /\ ~Says(wire, {End})
    /\ beats \in Seq(Event) /\ ~Says(beats, Replies \cup Asks)

\* A work that ended well has done all its steps; what failed, fell silent or was declined has not.
WorkGoes ==
    /\ work.failed => work.code = "failed" /\ ~W!Finished /\ work.at \in {"ended", "handed"}
    /\ ~work.failed /\ work.code # "ok" => work.at = "ended" /\ work.said = 0
    /\ work.at = "ended" /\ work.code = "ok" /\ work.what # "none" => Achieved
    /\ work.at \in {"prompt", "terminal"} => work.said = 0 /\ ~work.failed /\ main.running
    /\ work.at = "terminal" => work.what = "install"
    /\ work.at = "stuck" => ~W!Finished
    /\ work.at \in {"stuck", "handed"} => work.what = "remove"
    /\ main.answer => work.at = "terminal"
    /\ main.running => work.what # "none"

\* The main process reads no more than there is, says that the work failed when it reads so, and erases
\* what a removal must before it has read the last line.
ReadGoes ==
    /\ work.read <= work.said + (IF work.failed THEN 1 ELSE 0)
    /\ work.read = work.said + 1 => main.reported
    /\ work.what = "remove" /\ ~work.keep /\ ~main.reported /\ work.read = Len(W!Lines) => main.forgot

ForgotLast ==
    main.forgot =>
        /\ work.what = "remove" /\ Achieved /\ work.read = work.said /\ ~Failing
        /\ screen.phase # "intro"

\* What has been said of the work is true.
Truly(s) == (Says(s, Claims) => Achieved /\ Erased) /\ (Says(s, Sorries) => Failing)
SaidTruly ==
    /\ Truly(wire) /\ Truly(beats)
    /\ ReplyLast(wire) /\ (Says(wire, Replies) => ~main.running)
    /\ "finish" \in timers => Achieved
    /\ "removed" \in timers => Achieved /\ Erased

\* The screen shows the work that runs, and goes back to the choice only with nothing left to show.
ScreenSays ==
    /\ screen.phase = "intro" => Still
    /\ screen.phase \notin {"intro", "gone"} \/ ~Still => work.what = screen.task
    /\ screen.phase \in {"done", "removed"} => Achieved
    /\ screen.phase = "failed" => Failing
    /\ screen.task = "remove" /\ screen.steps[3] = "done" => Erased

\* In the application the screen of removal shows what comes at once.
InAppOnly ==
    W!InApp => /\ beats = <<>>
               /\ timers # {} => Quiet /\ screen.phase \in {"done", "removed", "gone"}

WindowTyped == ScreenTyped /\ MainTyped /\ QueuesTyped /\ WorkTyped
WindowInv ==
    /\ WindowTyped /\ WorkGoes /\ ReadGoes /\ ForgotLast
    /\ SaidTruly /\ ScreenSays /\ InAppOnly

\* The last line is read when all the others are, and means that the work is done.
LEMMA DoneUnread ==
    ASSUME WindowTyped, WorkGoes, ReadGoes
    PROVE  /\ \A k \in 1 .. Len(W!Unread) : W!Unread[k] = <<"done", 3>> => Achieved /\ k = Len(W!Unread)
           /\ Achieved /\ work.read < Len(W!Lines) => W!Unread # <<>> /\ W!Unread[Len(W!Unread)] = <<"done", 3>>
           /\ W!Names(W!Unread, "failed") <=> work.failed /\ work.read <= work.said
           /\ W!Unread \in Seq(Told) /\ Len(W!Unread) = Len(W!File) - work.read
<1>1. /\ Len(W!File) = work.said + (IF work.failed THEN 1 ELSE 0)
      /\ \A i \in 1 .. work.said : W!File[i] = W!Lines[i]
      /\ work.failed => W!File[work.said + 1] = <<"failed", W!Current>>
  BY FileIs DEF WindowTyped
<1>2. work.read \in Nat /\ work.said \in Nat /\ work.failed \in BOOLEAN /\ work.said <= Len(W!Lines)
      /\ work.read <= Len(W!File)
  BY <1>1 DEF WindowTyped, WorkTyped, ReadGoes
<1>3. /\ W!Unread \in Seq(Told) /\ Len(W!Unread) = Len(W!File) - work.read
      /\ \A i \in 1 .. Len(W!Unread) : W!Unread[i] = W!File[work.read + i]
  BY <1>2, UnreadIs DEF WindowTyped
<1>4. ASSUME NEW k \in 1 .. Len(W!Unread)
      PROVE  /\ W!Unread[k] = <<"done", 3>> => Achieved /\ k = Len(W!Unread)
             /\ W!Unread[k][1] = "failed" => work.failed /\ work.read <= work.said
  <2> DEFINE i == work.read + k
  <2>1. i \in 1 .. Len(W!File) /\ W!Unread[k] = W!File[i]
    BY <1>2, <1>3
  <2>2. CASE i <= work.said
    <3>1. i \in 1 .. Len(W!Lines) /\ W!Unread[k] = W!Lines[i]
      BY <2>1, <2>2, <1>1, <1>2, LinesAre
    <3>2. W!Lines[i] = <<"done", 3>> => i = Len(W!Lines)
      BY <3>1, LinesAre
    <3>3. W!Unread[k] = <<"done", 3>> => W!Finished
      BY <3>1, <3>2, <2>2, <1>2, LinesAre DEF W!Finished
    <3>4. W!Unread[k] = <<"done", 3>> => Achieved /\ k = Len(W!Unread)
      BY <3>3, <3>1, <3>2, <1>1, <1>2, <1>3 DEF Achieved, WorkGoes, W!Finished
    <3>5. W!Lines[i][1] # "failed"
      BY <3>1, NoFailures
    <3> QED
      BY <3>1, <3>4, <3>5
  <2>3. CASE i > work.said
    <3>1. work.failed /\ i = work.said + 1 /\ W!Unread[k] = <<"failed", W!Current>>
      BY <2>1, <2>3, <1>1, <1>2
    <3>2. <<"failed", W!Current>> # <<"done", 3>>
      OBVIOUS
    <3> QED
      BY <3>1, <3>2, <1>2
  <2> QED
    BY <2>1, <2>2, <2>3, <1>2, <1>1
<1>5. ASSUME Achieved, work.read < Len(W!Lines)
      PROVE  W!Unread # <<>> /\ W!Unread[Len(W!Unread)] = <<"done", 3>>
  <2>1. work.said = Len(W!Lines) /\ ~work.failed
    BY <1>5 DEF Achieved, W!Finished
  <2>2. Len(W!Unread) = Len(W!Lines) - work.read /\ Len(W!Unread) \in 1 .. Len(W!Unread)
    BY <2>1, <1>1, <1>2, <1>3, <1>5, LinesAre
  <2>3. W!Unread[Len(W!Unread)] = W!Lines[Len(W!Lines)]
    BY <2>1, <2>2, <1>1, <1>2, <1>3, LinesAre
  <2> QED
    BY <2>2, <2>3, LinesAre
<1>6. ASSUME work.failed, work.read <= work.said
      PROVE  W!Names(W!Unread, "failed")
  <2>1. Len(W!Unread) \in 1 .. Len(W!Unread) /\ work.read + Len(W!Unread) = work.said + 1
    BY <1>1, <1>2, <1>3, <1>6
  <2>2. W!Unread[Len(W!Unread)][1] = "failed"
    BY <2>1, <1>1, <1>3, <1>6
  <2> QED
    BY <2>1, <2>2, <1>3 DEF W!Names
<1>7. W!Names(W!Unread, "failed") => work.failed /\ work.read <= work.said
  BY <1>4, <1>3 DEF W!Names
<1> QED
  BY <1>3, <1>4, <1>5, <1>6, <1>7

LEMMA FrontIs ==
    ASSUME NEW s \in Seq(Told), s # <<>>
    PROVE  /\ W!Front(s) \in Seq(Told) /\ Len(W!Front(s)) = Len(s) - 1
           /\ \A k \in 1 .. Len(s) - 1 : W!Front(s)[k] = s[k]
<1>1. Len(s) \in Nat /\ Len(s) >= 1
  OBVIOUS
<1>2. W!Front(s) = SubSeq(s, 1, Len(s) - 1)
  BY DEF W!Front
<1>3. SubSeq(s, 1, Len(s) - 1) \in Seq(Told) /\ Len(SubSeq(s, 1, Len(s) - 1)) = Len(s) - 1
      /\ \A k \in 1 .. Len(s) - 1 : SubSeq(s, 1, Len(s) - 1)[k] = s[k]
  <2>1. PICK n \in Nat : n = Len(s) - 1
    BY <1>1
  <2>2. SubSeq(s, 1, n) \in Seq(Told)
    BY <1>1, <2>1
  <2>3. Len(SubSeq(s, 1, n)) = n
    BY <1>1, <2>1
  <2>4. \A k \in 1 .. n : SubSeq(s, 1, n)[k] = s[k]
    BY <1>1, <2>1
  <2> QED
    BY <2>1, <2>2, <2>3, <2>4
<1> QED
  BY <1>2, <1>3

\* What is sent of what was read.
LEMMA ForwardedIs ==
    ASSUME WindowTyped, WorkGoes, ReadGoes, NEW refused \in BOOLEAN, refused => W!Erases(W!Unread)
    PROVE  LET sent == W!Forwarded(W!Unread, refused) IN
           /\ sent \in Seq(Event) /\ ~Says(sent, Replies) /\ ~Says(sent, {End})
           /\ Says(sent, Claims) => Achieved /\ ~refused /\ W!Contains(W!Unread, <<"done", 3>>)
           /\ Says(sent, Sorries) => refused \/ W!Names(W!Unread, "failed")
<1> DEFINE lines == W!Unread
<1>1. lines \in Seq(Told) /\ \A k \in 1 .. Len(lines) : lines[k] = <<"done", 3>> => Achieved /\ k = Len(lines)
  BY DoneUnread
<1>2. ASSUME NEW ls \in Seq(Told)
      PROVE  /\ W!Messages(ls) \in Seq(Event) /\ ~Says(W!Messages(ls), Replies) /\ ~Says(W!Messages(ls), {End})
             /\ Says(W!Messages(ls), Claims) => \E k \in 1 .. Len(ls) : ls[k] = <<"done", 3>>
             /\ Says(W!Messages(ls), Sorries) => W!Names(ls, "failed")
  <2>1. \A l \in Told : /\ W!Message(l) \notin Replies /\ W!Message(l) # End
                        /\ W!Message(l) \in Claims => l = <<"done", 3>>
                        /\ W!Message(l) \in Sorries => l[1] = "failed"
    <3> SUFFICES ASSUME NEW l \in Told
                 PROVE  /\ W!Message(l) \notin Replies /\ W!Message(l) # End
                        /\ W!Message(l) \in Claims => l = <<"done", 3>>
                        /\ W!Message(l) \in Sorries => l[1] = "failed"
      OBVIOUS
    <3>1. CASE l[1] = "failed"
      <4>1. W!Message(l) = <<"failed", l[2]>> /\ l[2] \in 1 .. 3
        BY <3>1 DEF W!Message, Told
      <4>2. W!Message(l) \in Losses
        BY <4>1 DEF Losses
      <4>3. W!Message(l) # End
        BY <4>1 DEF End
      <4> QED
        BY <4>2, <4>3, <3>1, Kinds
    <3>2. CASE l[1] # "failed"
      <4>1. W!Message(l) = <<"step", l>>
        BY <3>2 DEF W!Message
      <4>2. W!Message(l) \in Ticks
        BY <4>1 DEF Ticks
      <4>3. <<"step", l>> # <<"reply", "ok">> /\ <<"step", l>> # <<"removed", "shown">>
        OBVIOUS
      <4>4. <<"step", l>> = <<"step", <<"done", 3>>>> => l = <<"done", 3>>
        OBVIOUS
      <4>5. W!Message(l) \in Claims => l = <<"done", 3>>
        BY <4>1, <4>3, <4>4 DEF Claims, End
      <4> QED
        BY <4>1, <4>2, <4>3, <4>5, Kinds DEF End
    <3> QED
      BY <3>1, <3>2
  <2>2. \A i \in 1 .. Len(W!Messages(ls)) : \E k \in 1 .. Len(ls) :
           W!Messages(ls)[i] = W!Message(ls[k]) /\ ls[k] \in Told
    BY MessagesAre
  <2>3. ~Says(W!Messages(ls), Replies) /\ ~Says(W!Messages(ls), {End})
    BY <2>1, <2>2 DEF Says
  <2>4. Says(W!Messages(ls), Claims) => \E k \in 1 .. Len(ls) : ls[k] = <<"done", 3>>
    BY <2>1, <2>2 DEF Says
  <2>5. ASSUME Says(W!Messages(ls), Sorries) PROVE W!Names(ls, "failed")
    <3>1. \E k \in 1 .. Len(ls) : ls[k][1] = "failed"
      BY <2>1, <2>2, <2>5 DEF Says
    <3>2. DOMAIN ls = 1 .. Len(ls)
      BY <1>2
    <3> QED
      BY <3>1, <3>2 DEF W!Names
  <2> QED
    BY <2>3, <2>4, <2>5, MessagesAre
<1>3. CASE ~refused
  <2>1. W!Forwarded(W!Unread, refused) = W!Messages(lines)
    BY <1>3 DEF W!Forwarded
  <2> QED
    BY <1>1, <1>2, <1>3, <2>1 DEF W!Contains
<1>4. CASE refused
  <2>1. lines # <<>>
    BY <1>4, <1>1 DEF W!Erases, W!Contains
  <2>2. W!Front(lines) \in Seq(Told) /\ Len(W!Front(lines)) = Len(lines) - 1
        /\ \A k \in 1 .. Len(lines) - 1 : W!Front(lines)[k] = lines[k]
    BY <1>1, <2>1, FrontIs
  <2>3. ~\E k \in 1 .. Len(W!Front(lines)) : W!Front(lines)[k] = <<"done", 3>>
    BY <1>1, <2>2
  <2>4. <<"failed", 3>> \in Losses
    BY DEF Losses
  <2> DEFINE e == <<"failed", 3>>
             ms == W!Messages(W!Front(lines))
  <2>5. W!Forwarded(W!Unread, refused) = ms \o <<e>>
    BY <1>4 DEF W!Forwarded
  <2>6. ms \in Seq(Event) /\ ~Says(ms, Replies) /\ ~Says(ms, {End}) /\ ~Says(ms, Claims)
    BY <1>2, <2>2, <2>3
  <2> HIDE DEF e, ms
  <2>7. e \in Event /\ e \notin Replies /\ e \notin Claims /\ e # End
    BY <2>4, Kinds DEF e, End
  <2>8. \A K : Says(<<e>>, K) => e \in K
    BY DEF Says
  <2>9. <<e>> \in Seq(Event)
    BY <2>7
  <2>10. ms \o <<e>> \in Seq(Event) /\ ~Says(ms \o <<e>>, Replies) /\ ~Says(ms \o <<e>>, {End}) /\ ~Says(ms \o <<e>>, Claims)
    BY <2>6, <2>7, <2>8, <2>9, SaysAppended
  <2> QED
    BY <1>4, <2>5, <2>10
<1> QED
  BY <1>3, <1>4

\* An event is known by its tag.
LEMMA Tags ==
    ASSUME NEW e \in Event
    PROVE  /\ e \in Ticks <=> e[1] = "step"
           /\ e \in Losses <=> e[1] = "failed"
           /\ e \in Replies <=> e[1] = "reply"
           /\ e \in Asks <=> e[1] \in {"password", "update"}
           /\ e = End <=> e[1] = "removed"
<1>1. e \in Ticks \/ e \in Losses \/ e \in Replies \/ e \in Asks \/ e = End
  BY DEF Event, Notes
<1>2. e \in Ticks => e[1] = "step"
  BY DEF Ticks
<1>3. e \in Losses => e[1] = "failed"
  BY DEF Losses
<1>4. e \in Replies => e[1] = "reply"
  BY DEF Replies
<1>5. e \in Asks => e[1] \in {"password", "update"}
  BY DEF Asks
<1>6. e = End => e[1] = "removed"
  BY DEF End
<1> QED
  BY <1>1, <1>2, <1>3, <1>4, <1>5, <1>6

LEMMA AsksAre ==
    \A e \in Asks : /\ e \in Event /\ e \notin Tellings /\ e \notin Replies /\ e \notin Sorries
                    /\ e \notin Claims /\ e # End
<1> SUFFICES ASSUME NEW e \in Asks
             PROVE  /\ e \in Event /\ e \notin Tellings /\ e \notin Replies /\ e \notin Sorries
                    /\ e \notin Claims /\ e # End
  OBVIOUS
<1>1. e \in Event /\ e \in Notes
  BY DEF Event, Notes
<1>2. e # End /\ e \notin Tellings /\ e \notin Replies /\ e \notin Sorries
  BY <1>1, Tags, Kinds
<1> QED
  BY <1>1, <1>2, Kinds

------------------------------------------------------------------------------
(* Steps that say nothing of the work *)

\* What comes or goes on the wire is a question or news of an update.
WireStays ==
    /\ QueuesTyped' /\ ReplyLast(wire)'
    /\ Says(wire', Claims) <=> Says(wire, Claims)
    /\ Says(wire', Sorries) <=> Says(wire, Sorries)
    /\ Says(wire', Replies) <=> Says(wire, Replies)
    /\ Says(wire', Tellings) <=> Says(wire, Tellings)

LEMMA SameWire ==
    ASSUME WindowInv, wire' = wire, beats' = beats
    PROVE  WireStays
BY DEF WindowInv, WindowTyped, WireStays, QueuesTyped, SaidTruly

LEMMA AskSent ==
    ASSUME WindowInv, NEW e \in Asks, wire' = Append(wire, e), beats' = beats
    PROVE  WireStays
<1>1. wire \in Seq(Event) /\ e \in Event /\ QueuesTyped /\ ReplyLast(wire)
  BY AsksAre DEF WindowInv, WindowTyped, QueuesTyped, SaidTruly
<1>2. \A K : Says(wire', K) <=> Says(wire, K) \/ e \in K
  BY <1>1, SaysOne
<1>3. wire' \in Seq(Event)
  BY <1>1
<1>4. ReplyLast(wire')
  <2>1. Len(wire') = Len(wire) + 1 /\ wire'[Len(wire) + 1] = e /\ \A i \in 1 .. Len(wire) : wire'[i] = wire[i]
    BY <1>1
  <2>2. \A i \in 1 .. Len(wire') : i \in 1 .. Len(wire) \/ i = Len(wire) + 1
    BY <1>1, <2>1
  <2>3. e \notin Tellings /\ e \notin Replies
    BY AsksAre
  <2> QED
    BY <1>1, <2>1, <2>2, <2>3 DEF ReplyLast
<1>5. QueuesTyped'
  BY <1>1, <1>2, <1>3, AsksAre DEF QueuesTyped
<1> QED
  BY <1>2, <1>4, <1>5, AsksAre DEF WireStays

LEMMA AskReceived ==
    ASSUME WindowInv, wire # <<>>, Head(wire) \in Asks, wire' = Tail(wire), beats' = beats
    PROVE  WireStays
<1>1. wire \in Seq(Event) /\ QueuesTyped /\ ReplyLast(wire)
  BY DEF WindowInv, WindowTyped, QueuesTyped, SaidTruly
<1>2. \A K : Says(wire, K) <=> Says(wire', K) \/ Head(wire) \in K
  BY <1>1, SaysRest
<1>3. wire' \in Seq(Event) /\ ReplyLast(wire')
  BY <1>1, SaysRest, ReplyEnds
<1>4. QueuesTyped'
  BY <1>1, <1>2, <1>3, AsksAre DEF QueuesTyped
<1> QED
  BY <1>2, <1>3, <1>4, AsksAre DEF WireStays

\* The screen still shows the same work, or closes.
ScreenStays ==
    /\ DOMAIN screen' = DOMAIN screen /\ screen'.task = screen.task /\ screen'.steps = screen.steps
    /\ screen'.phase = screen.phase \/ screen'.phase = "gone"
    /\ beats' = beats /\ timers' = timers /\ start' = start

\* The main process knows what it knew.
MainStays ==
    /\ MainTyped' /\ main'.running = main.running /\ main'.reported = main.reported /\ main'.forgot = main.forgot

\* A work goes on: what was true of it and has been said stays true.
LEMMA GoesOn ==
    ASSUME WindowInv, ScreenStays, WireStays, MainTyped',
           main'.running = main.running, main'.forgot = main.forgot,
           work'.what = work.what, work'.keep = work.keep,
           WorkTyped', WorkGoes', ReadGoes',
           Achieved => Achieved', Failing => Failing',
           main.forgot => work'.read = work'.said /\ ~Failing'
    PROVE  WindowInv'
<1> USE DEF ScreenStays
<1>1. Erased => Erased'
  BY DEF Erased
<1>2. WindowTyped'
  <2>1. ScreenTyped'
    BY DEF WindowInv, WindowTyped, ScreenTyped
  <2> QED
    BY <2>1 DEF WindowTyped, WireStays
<1>3. ForgotLast'
  BY DEF WindowInv, ForgotLast
<1>4. SaidTruly'
  BY <1>1 DEF WindowInv, SaidTruly, Truly, WireStays
<1>5. Quiet' = Quiet
  BY DEF Quiet, WireStays, WindowInv, WindowTyped, MainTyped
<1>6. Still' = Still
  BY <1>5 DEF Still
<1>7. ScreenSays'
  BY <1>1, <1>6 DEF WindowInv, ScreenSays
<1>8. InAppOnly'
  <2>1. W!InApp' = W!InApp
    BY DEF W!InApp
  <2> QED
    BY <1>5, <2>1 DEF WindowInv, InAppOnly
<1> QED
  BY <1>2, <1>3, <1>4, <1>7, <1>8 DEF WindowInv

\* The work stands as it did.
LEMMA WorkStands ==
    ASSUME WindowInv, work' = work, start' = start, MainStays,
           main'.answer => main.answer \/ work.at = "terminal"
    PROVE  /\ WorkTyped' /\ WorkGoes' /\ ReadGoes' /\ Achieved' = Achieved /\ Failing' = Failing
           /\ Erased' = Erased
<1>1. W!Lines' = W!Lines
  BY LinesStay
<1>2. Achieved' = Achieved /\ W!Finished' = W!Finished
  BY <1>1 DEF Achieved, W!Finished
<1>3. WorkTyped'
  BY <1>1 DEF WindowInv, WindowTyped, WorkTyped
<1>4. WorkGoes'
  BY <1>2 DEF WindowInv, WorkGoes, MainStays
<1>5. ReadGoes'
  BY <1>1 DEF WindowInv, ReadGoes, MainStays
<1> QED
  BY <1>2, <1>3, <1>4, <1>5 DEF Failing, Erased, MainStays

LEMMA Aside ==
    ASSUME WindowInv, ScreenStays, WireStays, work' = work, MainStays,
           main'.answer => main.answer \/ work.at = "terminal"
    PROVE  WindowInv'
<1>1. start' = start
  BY DEF ScreenStays
<1>2. /\ WorkTyped' /\ WorkGoes' /\ ReadGoes' /\ Achieved' = Achieved /\ Failing' = Failing
  BY <1>1, WorkStands
<1>3. main.forgot => work'.read = work'.said /\ ~Failing'
  BY <1>2 DEF WindowInv, ForgotLast
<1> QED
  BY <1>2, <1>3, GoesOn DEF MainStays

\* The choice, the update, the closing of the window.
LEMMA MovesAside ==
    ASSUME WindowInv,
           \/ W!Manual \/ W!Back \/ W!AskRemove \/ W!RemoveCancel \/ W!UpdateApp \/ W!OpenInstalled
           \/ W!FinishRemoval \/ W!Spawned \/ W!Prepares \/ W!OldQuits \/ W!AskPassword \/ W!UpdateGoes
           \/ W!ReceivesQuestion \/ W!ReceivesUpdate
    PROVE  WindowInv'
<1> USE DEF WindowInv, WindowTyped, ScreenTyped, MainTyped
<1>1. CASE W!Manual \/ W!Back \/ W!AskRemove \/ W!RemoveCancel
  <2>1. ScreenStays /\ MainStays /\ work' = work /\ wire' = wire /\ beats' = beats /\ main' = main
    BY <1>1 DEF W!Manual, W!Back, W!AskRemove, W!RemoveCancel, W!Shows, ScreenStays, MainStays
  <2> QED
    BY <2>1, SameWire, Aside
<1>2. CASE W!OpenInstalled \/ W!FinishRemoval \/ W!Spawned
  <2>1. ScreenStays /\ MainStays /\ work' = work /\ wire' = wire /\ beats' = beats /\ main' = main
    BY <1>2 DEF W!OpenInstalled, W!FinishRemoval, W!Spawned, ScreenStays, MainStays
  <2> QED
    BY <2>1, SameWire, Aside
<1>3. CASE W!UpdateApp
  <2>1. ScreenStays /\ MainStays /\ work' = work /\ wire' = wire /\ beats' = beats /\ main'.answer = main.answer
    BY <1>3 DEF W!UpdateApp, W!SetBusy, ScreenStays, MainStays
  <2> QED
    BY <2>1, SameWire, Aside
<1>4. CASE W!Prepares \/ W!OldQuits
  <2>1. ScreenStays /\ MainStays /\ work' = work /\ wire' = wire /\ beats' = beats /\ main'.answer = main.answer
    BY <1>4 DEF W!Prepares, W!OldQuits, ScreenStays, MainStays
  <2> QED
    BY <2>1, SameWire, Aside
<1>5. CASE W!AskPassword
  <2>1. ScreenStays /\ MainStays /\ work' = work /\ beats' = beats /\ work.at = "terminal"
        /\ wire' = Append(wire, <<"password", "asked">>)
    BY <1>5 DEF W!AskPassword, ScreenStays, MainStays
  <2>2. <<"password", "asked">> \in Asks
    BY DEF Asks
  <2>3. WireStays
    BY <2>1, <2>2, AskSent
  <2> QED
    BY <2>1, <2>3, Aside
<1>6. CASE W!UpdateGoes
  <2>1. ScreenStays /\ MainStays /\ work' = work /\ beats' = beats /\ main'.answer = main.answer
    BY <1>6 DEF W!UpdateGoes, ScreenStays, MainStays
  <2>2. wire' = wire \/ \E e \in Asks : wire' = Append(wire, e)
    <3>1. <<"update", "ready">> \in Asks /\ <<"update", "idle">> \in Asks /\ <<"update", "failed">> \in Asks
      BY DEF Asks
    <3> QED
      BY <1>6, <3>1 DEF W!UpdateGoes
  <2>3. WireStays
    BY <2>1, <2>2, AskSent, SameWire
  <2> QED
    BY <2>1, <2>3, Aside
<1>7. CASE W!ReceivesQuestion \/ W!ReceivesUpdate
  <2>1. ScreenStays /\ MainStays /\ work' = work /\ beats' = beats /\ main' = main
    BY <1>7 DEF W!ReceivesQuestion, W!ReceivesUpdate, W!SetBusy, ScreenStays, MainStays
  <2>2. wire # <<>> /\ wire' = Tail(wire) /\ Head(wire)[1] \in {"password", "update"}
    BY <1>7 DEF W!ReceivesQuestion, W!ReceivesUpdate
  <2>3. Head(wire) \in Event
    BY <2>2, SaysRest DEF QueuesTyped
  <2>4. WireStays
    BY <2>1, <2>2, <2>3, Tags, AskReceived
  <2> QED
    BY <2>1, <2>4, Aside
<1> QED
  BY <1>1, <1>2, <1>3, <1>4, <1>5, <1>6, <1>7

------------------------------------------------------------------------------
(* The work goes on *)

\* A step of the work leaves everything else alone; what it must keep of the work is said of each.
LEMMA HelperKeeps ==
    ASSUME WindowInv, UNCHANGED <<start, screen, beats, timers, wire, main>>,
           work'.what = work.what, work'.keep = work.keep,
           WorkTyped', WorkGoes', ReadGoes', Achieved => Achieved', Failing => Failing',
           main.forgot => work'.read = work'.said /\ ~Failing'
    PROVE  WindowInv'
<1>1. ScreenStays /\ MainStays
  BY DEF ScreenStays, MainStays, WindowInv, WindowTyped, MainTyped
<1>2. WireStays
  BY SameWire
<1> QED
  BY <1>1, <1>2, GoesOn DEF MainStays

LEMMA HelperWorks ==
    ASSUME WindowInv, W!Helper
    PROVE  WindowInv'
<1> USE DEF WindowInv, WindowTyped, WorkTyped, WorkGoes, ReadGoes, ForgotLast
<1>1. UNCHANGED <<start, screen, beats, timers, wire, main>> /\ work'.what = work.what /\ work'.keep = work.keep
      /\ work'.read = work.read
  BY DEF W!Helper, W!Prompt, W!NoAgent, W!Reports, W!HelperFails, W!HelperEnds, W!HandsOver, W!FallsSilent, W!Ends
<1>2. W!Lines' = W!Lines /\ Len(W!Lines) \in {6, 7}
  BY <1>1, LinesStay, LinesAre
<1>3. CASE W!Prompt \/ W!NoAgent
  <2>1. /\ work.what # "none" /\ work.at = "prompt"
        /\ \/ work' = [work EXCEPT !.at = "works"]
           \/ work' = [work EXCEPT !.at = "ended", !.code = "cancelled"]
           \/ work' = [work EXCEPT !.at = "ended", !.code = "failed"]
           \/ work.what # "remove" /\ work' = [work EXCEPT !.at = "terminal"]
    BY <1>3 DEF W!Prompt, W!NoAgent, W!Ends
  <2>2. WorkTyped'
    BY <2>1, <1>2
  <2>3. work.said = 0 /\ ~work.failed /\ ~main.answer /\ work'.said = 0 /\ ~work'.failed /\ main.running
        /\ ~W!Finished /\ ~W!Finished' /\ ~main.forgot /\ work.code = "ok"
    <3>1. work.said = 0 /\ ~work.failed /\ main.running /\ ~main.answer /\ work.code = "ok"
      BY <2>1
    <3>2. work'.said = 0 /\ ~work'.failed
      BY <2>1, <3>1
    <3>3. ~W!Finished
      BY <3>1, SomeLines DEF W!Finished
    <3>4. ~W!Finished'
      BY <3>2, <1>2, SomeLines DEF W!Finished
    <3>5. ~main.forgot
      BY <3>3 DEF Achieved
    <3> QED
      BY <3>1, <3>2, <3>3, <3>4, <3>5
  <2>4. WorkGoes'
    BY <2>1, <2>3, <1>1 DEF Achieved
  <2>5. ReadGoes'
    BY <2>3, <1>1, <1>2
  <2> QED
    BY <1>1, <2>1, <2>2, <2>3, <2>4, <2>5, HelperKeeps DEF Achieved, Failing
<1>4. CASE W!Reports
  <2>1. work' = [work EXCEPT !.said = @ + 1] /\ ~W!Finished /\ work.at \in {"works", "handed"} /\ ~work.failed
    BY <1>4 DEF W!Reports, W!AtWork
  <2>2. WorkTyped'
    BY <2>1, <1>2 DEF W!Finished
  <2>3. ~Achieved /\ ~main.forgot /\ work.code = "ok"
    BY <2>1 DEF Achieved
  <2>4. WorkGoes'
    BY <2>1, <2>3, <1>1
  <2>5. ReadGoes'
    BY <2>1, <1>1, <1>2
  <2> QED
    BY <1>1, <2>1, <2>2, <2>3, <2>4, <2>5, HelperKeeps DEF Failing
<1>5. CASE W!HelperFails
  <2>1. /\ work' = [work EXCEPT !.failed = TRUE, !.at = IF @ = "handed" THEN @ ELSE "ended", !.code = "failed"]
        /\ ~W!Finished /\ work.at \in {"works", "handed"} /\ ~work.failed
    BY <1>5 DEF W!HelperFails, W!AtWork
  <2>2. WorkTyped'
    BY <2>1, <1>2
  <2>3. ~Achieved /\ ~main.forgot /\ ~W!Finished'
    BY <2>1, <1>2 DEF Achieved, W!Finished
  <2>4. WorkGoes'
    BY <2>1, <2>3, <1>1
  <2>5. ReadGoes'
    BY <2>1, <1>1, <1>2
  <2> QED
    BY <1>1, <2>1, <2>2, <2>3, <2>4, <2>5, HelperKeeps DEF Failing
<1>6. CASE W!HelperEnds
  <2>1. work' = [work EXCEPT !.at = "ended", !.code = "ok"] /\ W!Finished /\ work.at = "works"
    BY <1>6 DEF W!HelperEnds, W!Ends
  <2>2. WorkTyped' /\ W!Finished' /\ ~work.failed /\ Achieved /\ Achieved'
    BY <2>1, <1>2 DEF W!Finished, Achieved
  <2>3. WorkGoes'
    BY <2>1, <2>2, <1>1
  <2>4. ReadGoes'
    BY <2>1, <1>1, <1>2
  <2>5. Failing' = Failing
    BY <2>1, <1>1 DEF Failing
  <2> QED
    BY <1>1, <2>1, <2>2, <2>3, <2>4, <2>5, HelperKeeps
<1>7. CASE W!HandsOver \/ W!FallsSilent
  <2>1. /\ ~work.failed /\ ~W!Finished /\ work.what = "remove" /\ work.at \in {"works", "handed"}
        /\ \/ work' = [work EXCEPT !.at = "handed"]
           \/ work' = [work EXCEPT !.at = "stuck"]
    <3>1. CASE W!HandsOver
      <4>1. work.at = "works" /\ work.what = "remove" /\ work.said = 0 /\ work' = [work EXCEPT !.at = "handed"]
        BY <3>1 DEF W!HandsOver
      <4>2. ~W!Finished /\ ~work.failed
        BY <4>1, SomeLines DEF W!Finished
      <4> QED
        BY <4>1, <4>2
    <3>2. CASE W!FallsSilent
      BY <3>2 DEF W!FallsSilent
    <3> QED
      BY <3>1, <3>2, <1>7
  <2>2. WorkTyped' /\ ~W!Finished' /\ ~Achieved /\ ~main.forgot /\ work.code = "ok"
    BY <2>1, <1>2 DEF W!Finished, Achieved
  <2>3. WorkGoes'
    BY <2>1, <2>2, <1>1
  <2>4. ReadGoes'
    BY <2>1, <1>1, <1>2
  <2> QED
    BY <1>1, <2>1, <2>2, <2>3, <2>4, HelperKeeps DEF Failing
<1> QED
  BY <1>3, <1>4, <1>5, <1>6, <1>7 DEF W!Helper

LEMMA PasswordAnswered ==
    ASSUME WindowInv, W!AnswerPassword
    PROVE  WindowInv'
<1> USE DEF WindowInv, WindowTyped, WorkTyped, WorkGoes, ReadGoes, ForgotLast
<1>1. ScreenStays /\ MainStays /\ ~main'.answer /\ wire' = wire /\ beats' = beats /\ start' = start
  BY DEF W!AnswerPassword, ScreenStays, MainStays, ScreenTyped, MainTyped
<1>2. WireStays
  BY <1>1, SameWire
<1>3. CASE work' = work
  BY <1>1, <1>2, <1>3, Aside
<1>4. CASE work' # work
  <2>1. /\ main.answer
        /\ \/ work' = [work EXCEPT !.at = "works"]
           \/ work' = [work EXCEPT !.at = "ended", !.code = "cancelled"]
    BY <1>4 DEF W!AnswerPassword, W!Ends
  <2>2. W!Lines' = W!Lines /\ Len(W!Lines) \in {6, 7}
    BY <1>1, <2>1, LinesStay, LinesAre
  <2>3. WorkTyped'
    BY <2>1, <2>2
  <2>4. work.said = 0 /\ ~work.failed /\ work'.said = 0 /\ ~work'.failed /\ main.running /\ work.code = "ok"
        /\ ~W!Finished /\ ~W!Finished' /\ ~main.forgot /\ work.at = "terminal" /\ work'.read = work.read
        /\ work'.what = work.what /\ work'.keep = work.keep
    <3>1. work.at = "terminal" /\ work.said = 0 /\ ~work.failed /\ main.running /\ work.code = "ok"
      BY <2>1
    <3>2. work'.said = 0 /\ ~work'.failed /\ work'.read = work.read /\ work'.what = work.what /\ work'.keep = work.keep
      BY <2>1, <3>1
    <3>3. ~W!Finished
      BY <3>1, SomeLines DEF W!Finished
    <3>4. ~W!Finished'
      BY <3>2, <2>2, SomeLines DEF W!Finished
    <3>5. ~main.forgot
      BY <3>3 DEF Achieved
    <3> QED
      BY <3>1, <3>2, <3>3, <3>4, <3>5
  <2>5. WorkGoes'
    BY <2>1, <2>4, <1>1 DEF Achieved, MainStays
  <2>6. ReadGoes'
    BY <2>1, <2>2, <2>4, <1>1 DEF MainStays
  <2> QED
    BY <1>1, <1>2, <2>1, <2>3, <2>4, <2>5, <2>6, GoesOn DEF Achieved, Failing, MainStays
<1> QED
  BY <1>3, <1>4

------------------------------------------------------------------------------
(* A work begins *)

\* At the choice nothing is left of the work before.
LEMMA ChoiceIsStill ==
    ASSUME WindowInv, screen.phase = "intro"
    PROVE  /\ ~main.running /\ ~Says(wire, Tellings) /\ ~Says(wire, Claims) /\ ~Says(wire, Sorries)
           /\ ~Says(wire, Replies) /\ beats = <<>> /\ timers = {} /\ ~main.forgot /\ ~main.answer
<1>1. Still /\ QueuesTyped /\ ForgotLast /\ WorkGoes
  BY DEF WindowInv, WindowTyped, ScreenSays
<1>2. ~main.running /\ ~Says(wire, Tellings) /\ beats = <<>> /\ timers = {} /\ ~main.forgot
  BY <1>1 DEF Still, Quiet, ForgotLast
<1>3. ~main.answer
  BY <1>1, <1>2 DEF WorkGoes
<1>4. ~Says(wire, Sorries) /\ ~Says(wire, Replies)
  BY <1>2, Kinds DEF Says, Tellings
<1>5. ~Says(wire, Claims)
  BY <1>1, <1>2, Kinds DEF Says, QueuesTyped
<1> QED
  BY <1>2, <1>3, <1>4, <1>5

LEMMA WorkBegins ==
    ASSUME WindowInv, screen.phase = "intro", start' = start, beats' = beats, timers' = timers, wire' = wire,
           NEW task \in {"install", "remove"}, NEW keep \in BOOLEAN,
           work' = W!Begun(task, keep),
           MainTyped', main'.running, ~main'.reported, main'.forgot = main.forgot, main'.answer = main.answer,
           ScreenTyped', screen'.phase = "work", screen'.task = task, screen'.steps[3] # "done" \/ task = "install"
    PROVE  WindowInv'
<1>1. /\ work'.what = task /\ work'.keep = keep /\ work'.at = "prompt" /\ work'.code = "ok" /\ work'.said = 0
      /\ work'.failed = FALSE /\ work'.read = 0 /\ DOMAIN work' = {"what", "keep", "at", "code", "said", "failed", "read"}
      /\ work' \in [what : {"none", "install", "remove"}, keep : BOOLEAN,
                    at : {"prompt", "terminal", "works", "handed", "stuck", "ended"},
                    code : {"ok", "failed", "cancelled"}, said : Nat, failed : BOOLEAN, read : Nat]
  BY DEF W!Begun, W!NoWork
<1>2. (Len(W!Lines) # 0)'
  BY SomeLines, PTL
<1>3. ~main.forgot /\ ~main.answer /\ beats = <<>> /\ timers = {} /\ ~Says(wire, Claims) /\ ~Says(wire, Sorries)
      /\ ~Says(wire, Replies)
  BY ChoiceIsStill
<1>4. WindowTyped'
  <2>1. WorkTyped'
    <3>1. (Len(W!Lines) \in Nat)'
      BY LinesCounted, PTL
    <3> QED
      BY <1>1, <3>1 DEF WorkTyped
  <2>2. QueuesTyped'
    BY DEF WindowInv, WindowTyped, QueuesTyped
  <2> QED
    BY <2>1, <2>2 DEF WindowTyped
<1>5. WorkGoes'
  BY <1>1, <1>3 DEF WorkGoes
<1>6. ReadGoes'
  BY <1>1, <1>2 DEF ReadGoes
<1>7. ForgotLast'
  BY <1>3 DEF ForgotLast
<1>8. SaidTruly'
  <2>1. ~Says(<<>>, Claims) /\ ~Says(<<>>, Sorries)
    BY DEF Says
  <2> QED
    BY <2>1, <1>3 DEF WindowInv, SaidTruly, Truly
<1>9. ScreenSays'
  BY <1>1 DEF ScreenSays
<1>10. InAppOnly'
  BY <1>3 DEF InAppOnly
<1> QED
  BY <1>4, <1>5, <1>6, <1>7, <1>8, <1>9, <1>10 DEF WindowInv

LEMMA Begins ==
    ASSUME WindowInv,
           W!Express \/ W!Reinstall \/ W!InstallHere \/ \E keep \in BOOLEAN : W!BeginRemove(keep)
    PROVE  WindowInv'
<1>1. screen.phase = "intro"
  BY DEF W!Express, W!Reinstall, W!InstallHere, W!BeginRemove, W!AtChoice
<1>2. ~main.running /\ ScreenTyped /\ MainTyped
  BY <1>1, ChoiceIsStill DEF WindowInv, WindowTyped
<1>3. CASE W!Express \/ W!Reinstall \/ W!InstallHere
  <2>1. PICK choice \in {"intro", "path"} : W!Begin(choice)
    BY <1>3 DEF W!Express, W!Reinstall, W!InstallHere
  <2>2. start' = start /\ beats' = beats /\ timers' = timers /\ wire' = wire /\ work' = W!Begun("install", TRUE)
    BY <2>1, <1>2 DEF W!Begin
  <2>3. main' = [main EXCEPT !.running = TRUE, !.reported = FALSE, !.passwords = 0]
    BY <2>1, <1>2 DEF W!Begin
  <2>4. MainTyped' /\ main'.running /\ ~main'.reported /\ main'.forgot = main.forgot /\ main'.answer = main.answer
    BY <2>3, <1>2 DEF MainTyped
  <2>5. ScreenTyped' /\ screen'.phase = "work" /\ screen'.task = "install"
    BY <2>1, <1>2 DEF W!Begin, W!Working, ScreenTyped
  <2> QED
    BY <1>1, <2>2, <2>4, <2>5, WorkBegins
<1>4. CASE \E keep \in BOOLEAN : W!BeginRemove(keep)
  <2>1. PICK keep \in BOOLEAN : W!BeginRemove(keep)
    BY <1>4
  <2>2. start' = start /\ beats' = beats /\ timers' = timers /\ wire' = wire /\ work' = W!Begun("remove", keep)
    BY <2>1, <1>2 DEF W!BeginRemove
  <2>3. main' = [main EXCEPT !.running = TRUE, !.reported = FALSE, !.paused = TRUE]
    BY <2>1, <1>2 DEF W!BeginRemove
  <2>4. MainTyped' /\ main'.running /\ ~main'.reported /\ main'.forgot = main.forgot /\ main'.answer = main.answer
    BY <2>3, <1>2 DEF MainTyped
  <2>5. ScreenTyped' /\ screen'.phase = "work" /\ screen'.task = "remove" /\ screen'.steps[3] = "pending"
    BY <2>1, <1>2 DEF W!BeginRemove, W!Working, W!Pending, ScreenTyped
  <2> QED
    BY <1>1, <2>2, <2>4, <2>5, WorkBegins
<1> QED
  BY <1>3, <1>4

------------------------------------------------------------------------------
(* The main process follows the work *)

\* While it does, the screen is not at the choice and shows this work, and no reply is on its way.
LEMMA Following ==
    ASSUME WindowInv, main.running
    PROVE  /\ screen.phase # "intro" /\ work.what = screen.task /\ ~Says(wire, Replies)
           /\ W!InApp => timers = {}
BY DEF WindowInv, ScreenSays, Still, Quiet, SaidTruly, InAppOnly

LEMMA Follows ==
    ASSUME WindowInv, W!Follow
    PROVE  WindowInv'
<1> USE DEF WindowInv, WindowTyped
<1>1. PICK refused \in BOOLEAN :
        /\ refused => W!Erases(W!Unread)
        /\ wire' = wire \o W!Forwarded(W!Unread, refused)
        /\ main' = W!Heard(main, W!Unread, refused)
  BY DEF W!Follow
<1>2. /\ main.running /\ W!Unread # <<>> /\ ~main.reported /\ work' = [work EXCEPT !.read = Len(W!File)]
      /\ UNCHANGED <<start, screen, beats, timers>>
  BY DEF W!Follow
<1> DEFINE lines == W!Unread
           sent == W!Forwarded(lines, refused)
<1>3. /\ sent \in Seq(Event) /\ ~Says(sent, Replies) /\ ~Says(sent, {End})
      /\ Says(sent, Claims) => Achieved /\ ~refused /\ W!Contains(lines, <<"done", 3>>)
      /\ Says(sent, Sorries) => refused \/ W!Names(lines, "failed")
  BY <1>1, ForwardedIs
<1>4. /\ \A k \in 1 .. Len(lines) : lines[k] = <<"done", 3>> => Achieved /\ k = Len(lines)
      /\ Achieved /\ work.read < Len(W!Lines) => lines # <<>> /\ lines[Len(lines)] = <<"done", 3>>
      /\ W!Names(lines, "failed") <=> work.failed /\ work.read <= work.said
      /\ lines \in Seq(Told) /\ Len(lines) = Len(W!File) - work.read
  BY DoneUnread
<1>5. W!Lines' = W!Lines /\ work'.what = work.what /\ work'.keep = work.keep /\ work'.at = work.at
      /\ work'.code = work.code /\ work'.said = work.said /\ work'.failed = work.failed /\ work'.read = Len(W!File)
  BY <1>2, LinesStay DEF WorkTyped
<1>6. Len(W!File) = work.said + (IF work.failed THEN 1 ELSE 0) /\ Len(W!Lines) \in {6, 7}
  BY FileIs, LinesAre
<1>7. /\ MainTyped' /\ main'.running = main.running /\ main'.answer = main.answer
      /\ main'.reported = (main.reported \/ refused \/ W!Names(lines, "failed"))
      /\ main'.forgot = (main.forgot \/ (W!Erases(lines) /\ ~refused /\ ~work.keep))
  <2> DEFINE known == IF W!Names(lines, "staged") THEN W!Staged(main) ELSE main
  <2>1. DOMAIN known = DOMAIN main /\ known.running = main.running /\ known.answer = main.answer
        /\ known.reported = main.reported /\ known.forgot = main.forgot
    BY DEF W!Staged, MainTyped
  <2>2. main' = [known EXCEPT !.reported = @ \/ refused \/ W!Names(lines, "failed"),
                              !.forgot = @ \/ (W!Erases(lines) /\ ~refused /\ ~work.keep)]
    BY <1>1 DEF W!Heard
  <2> HIDE DEF known, lines
  <2> QED
    BY <2>1, <2>2 DEF MainTyped
<1> HIDE DEF lines, sent
<1>8. /\ Achieved' = Achieved /\ W!Finished' = W!Finished /\ (Failing => Failing') /\ (Erased => Erased')
      /\ W!InApp' = W!InApp
  BY <1>2, <1>5, <1>7 DEF Achieved, W!Finished, Failing, Erased, W!InApp
<1>9. W!Contains(lines, <<"done", 3>>) => Achieved
  BY <1>4 DEF W!Contains
<1>10. ~main.forgot /\ work.read < Len(W!File)
  <2>1. work.read # Len(W!File)
    <3>1. Len(lines) # 0
      BY <1>2, <1>4 DEF lines
    <3> QED
      BY <3>1, <1>4, <1>6 DEF WorkTyped
  <2> QED
    BY <2>1, <1>6 DEF WorkTyped, ReadGoes, ForgotLast, Achieved
<1>11. WorkTyped'
  BY <1>2, <1>5, <1>6 DEF WorkTyped
<1>12. WorkGoes'
  BY <1>5, <1>7, <1>8 DEF WorkGoes
<1>13. ReadGoes'
  <2>1. work'.read <= work'.said + (IF work'.failed THEN 1 ELSE 0)
    BY <1>5, <1>6 DEF WorkTyped
  <2>2. work'.read = work'.said + 1 => main'.reported
    BY <1>4, <1>5, <1>6, <1>7, <1>10 DEF WorkTyped
  <2>3. ASSUME work'.what = "remove", ~work'.keep, ~main'.reported, work'.read = Len(W!Lines)'
        PROVE  main'.forgot
    <3>1. ~work.failed /\ ~refused
      BY <2>3, <1>4, <1>6, <1>7, <1>10 DEF WorkTyped
    <3>2. Achieved /\ work.read < Len(W!Lines)
      BY <2>3, <3>1, <1>5, <1>6, <1>10 DEF WorkTyped, Achieved, W!Finished
    <3>3. W!Contains(lines, <<"done", 3>>)
      BY <3>2, <1>4 DEF W!Contains
    <3> QED
      BY <2>3, <3>1, <3>3, <1>5, <1>7 DEF W!Erases
  <2> QED
    BY <2>1, <2>2, <2>3 DEF ReadGoes
<1>14. ForgotLast'
  <2> SUFFICES ASSUME main'.forgot
               PROVE  /\ work'.what = "remove" /\ Achieved' /\ work'.read = work'.said /\ ~Failing'
                      /\ screen'.phase # "intro"
    BY DEF ForgotLast
  <2>1. W!Erases(lines) /\ ~refused
    BY <1>7, <1>10
  <2>2. Achieved /\ work.what = "remove"
    BY <2>1, <1>9 DEF W!Erases
  <2>3. ~work.failed /\ work.said = Len(W!Lines)
    BY <2>2 DEF Achieved, W!Finished
  <2>4. work.code = "ok" /\ work.at # "stuck"
    <3>1. work.said # 0
      BY <2>3, SomeLines
    <3> QED
      BY <2>2, <2>3, <3>1 DEF WorkGoes, Achieved, WorkTyped
  <2>5. ~main'.reported
    BY <2>1, <2>3, <1>2, <1>4, <1>7
  <2> QED
    BY <1>2, <1>5, <1>6, <1>8, <2>2, <2>3, <2>4, <2>5, Following DEF Failing, WorkTyped
<1>15. QueuesTyped' /\ \A K : Says(wire', K) <=> Says(wire, K) \/ Says(sent, K)
  <2>1. wire \in Seq(Event) /\ wire' = wire \o sent
    BY <1>1 DEF QueuesTyped, sent, lines
  <2>2. wire' \in Seq(Event) /\ \A K : Says(wire', K) <=> Says(wire, K) \/ Says(sent, K)
    BY <2>1, <1>3, SaysAppended
  <2> QED
    BY <2>2, <1>2, <1>3 DEF QueuesTyped
<1>16. SaidTruly'
  <2>1. Says(sent, Claims) => Achieved' /\ Erased'
    BY <1>3, <1>5, <1>7, <1>8 DEF Erased, W!Erases
  <2>2. Says(sent, Sorries) => Failing'
    BY <1>3, <1>7 DEF Failing
  <2>3. Truly(wire)'
    BY <2>1, <2>2, <1>8, <1>15 DEF SaidTruly, Truly
  <2>4. Truly(beats)'
    BY <1>2, <1>8 DEF SaidTruly, Truly
  <2>5. ReplyLast(wire') /\ ~Says(wire', Replies)
    <3>1. ~Says(wire, Replies)
      BY <1>2, Following
    <3>2. ~Says(wire', Replies)
      BY <3>1, <1>3, <1>15
    <3> QED
      BY <3>2 DEF ReplyLast, Says
  <2> QED
    BY <2>3, <2>4, <2>5, <1>2, <1>8 DEF SaidTruly
<1>17. ScreenSays' /\ InAppOnly'
  BY <1>2, <1>5, <1>8, Following DEF ScreenSays, InAppOnly
<1> QED
  BY <1>2, <1>7, <1>11, <1>12, <1>13, <1>14, <1>15, <1>16, <1>17 DEF ScreenTyped

\* How the main process ends: with the step that failed, if it has not been named, and the reply.
Closing(out, t) ==
    \/ t = <<<<"reply", out>>>>
    \/ out = "failed" /\ t = <<<<"failed", W!Current>>, <<"reply", "failed">>>>

LEMMA ClosingIs ==
    ASSUME WorkTyped, NEW out \in {"ok", "failed", "cancelled"}, NEW t, Closing(out, t)
    PROVE  /\ t \in Seq(Event) /\ ReplyLast(t) /\ ~Says(t, {End})
           /\ Says(t, Claims) => out = "ok"
           /\ Says(t, Sorries) => out # "ok"
<1> DEFINE r == <<"reply", out>>
           l == <<"failed", W!Current>>
<1>1. l \in Losses /\ l \in Event /\ l # End /\ l \notin Claims /\ l \notin Replies
  BY CurrentIs, Kinds, Tags DEF Event, End
<1>2. r \in Replies /\ r \in Event /\ r # End /\ (r \in Claims => out = "ok") /\ (r \in Sorries => out # "ok")
  <2>1. r \in Replies /\ r \in Event
    BY DEF Replies, Event
  <2>2. r # End /\ r \notin Losses
    BY <2>1, Tags DEF End
  <2>3. r # <<"step", <<"done", 3>>>>
    OBVIOUS
  <2>4. r \in Claims => r = <<"reply", "ok">>
    BY <2>2, <2>3 DEF Claims
  <2>5. r \in Sorries => r = <<"reply", "failed">> \/ r = <<"reply", "cancelled">>
    BY <2>2 DEF Sorries
  <2> QED
    BY <2>1, <2>2, <2>4, <2>5
<1> HIDE DEF r, l
<1>3. CASE t = <<r>>
  <2>1. t \in Seq(Event) /\ Len(t) = 1 /\ t[1] = r
    BY <1>2, <1>3
  <2> QED
    BY <1>2, <2>1 DEF Says, ReplyLast
<1>4. CASE t = <<l, r>> /\ out = "failed"
  <2>1. t \in Seq(Event) /\ Len(t) = 2 /\ t[1] = l /\ t[2] = r
    BY <1>1, <1>2, <1>4
  <2>2. \A i \in 1 .. Len(t) : i = 1 \/ i = 2
    BY <2>1
  <2>3. ReplyLast(t)
    BY <1>1, <2>1, <2>2 DEF ReplyLast
  <2> QED
    BY <1>1, <1>2, <1>4, <2>1, <2>2, <2>3 DEF Says
<1> QED
  BY <1>3, <1>4 DEF Closing, r, l

LEMMA Joined ==
    ASSUME NEW w \in Seq(Event), NEW a \in Event, NEW b \in Event
    PROVE  (w \o <<a>>) \o <<b>> = w \o <<a, b>> /\ (w \o <<>>) \o <<b>> = w \o <<b>>
<1>1. <<a>> \in Seq(Event) /\ <<b>> \in Seq(Event)
  OBVIOUS
<1>2. (w \o <<a>>) \o <<b>> = w \o (<<a>> \o <<b>>)
  BY <1>1, ConcatAssociative
<1>3. <<a>> \o <<b>> = <<a, b>>
  <2>1. <<a>> \o <<b>> = [i \in 1 .. Len(<<a>>) + Len(<<b>>) |-> IF i <= Len(<<a>>) THEN <<a>>[i] ELSE <<b>>[i - Len(<<a>>)]]
    OBVIOUS
  <2>2. Len(<<a>>) = 1 /\ Len(<<b>>) = 1 /\ <<a>>[1] = a /\ <<b>>[1] = b
    OBVIOUS
  <2>3. <<a, b>> = [i \in 1 .. 2 |-> IF i <= 1 THEN a ELSE b]
    OBVIOUS
  <2>4. <<a>> \o <<b>> = [i \in 1 .. 2 |-> IF i <= 1 THEN <<a>>[i] ELSE <<b>>[i - 1]]
    BY <2>1, <2>2
  <2>5. [i \in 1 .. 2 |-> IF i <= 1 THEN <<a>>[i] ELSE <<b>>[i - 1]] = [i \in 1 .. 2 |-> IF i <= 1 THEN a ELSE b]
    BY <2>2
  <2> QED
    BY <2>3, <2>4, <2>5
<1>4. w \o <<>> = w
  BY ConcatEmptySeq
<1> QED
  BY <1>2, <1>3, <1>4

\* What Settle and RemovalSettles send.
LEMMA SorryCloses ==
    ASSUME WorkTyped, wire \in Seq(Event), NEW out \in {"ok", "failed", "cancelled"}
    PROVE  \E t : Closing(out, t) /\ wire \o W!Sorry(out) \o <<<<"reply", out>>>> = wire \o t
<1>1. <<"reply", out>> \in Event /\ <<"failed", W!Current>> \in Event
  BY CurrentIs DEF Event, Replies
<1>2. CASE out = "failed" /\ ~main.reported
  <2>1. W!Sorry(out) = <<<<"failed", W!Current>>>>
    BY <1>2 DEF W!Sorry
  <2> QED
    <3>1. Closing(out, <<<<"failed", W!Current>>, <<"reply", "failed">>>>)
      BY <1>2 DEF Closing
    <3>2. wire \o W!Sorry(out) \o <<<<"reply", out>>>> = wire \o <<<<"failed", W!Current>>, <<"reply", "failed">>>>
      <4> DEFINE l == <<"failed", W!Current>>
                 r == <<"reply", "failed">>
      <4>1. l \in Event /\ r \in Event
        BY <1>1, <1>2
      <4>2. W!Sorry(out) = <<l>> /\ <<"reply", out>> = r
        BY <1>2, <2>1
      <4> HIDE DEF l, r
      <4>3. (wire \o <<l>>) \o <<r>> = wire \o <<l, r>>
        BY <4>1, Joined
      <4>4. wire \o W!Sorry(out) \o <<<<"reply", out>>>> = wire \o <<l, r>>
        BY <4>2, <4>3
      <4> QED
        BY <4>4 DEF l, r
    <3> QED
      BY <3>1, <3>2
<1>3. CASE ~(out = "failed" /\ ~main.reported)
  <2>1. W!Sorry(out) = <<>>
    BY <1>3 DEF W!Sorry
  <2> QED
    BY <1>1, <2>1, Joined DEF Closing
<1> QED
  BY <1>2, <1>3

LEMMA Closes ==
    ASSUME WindowInv, main.running, NEW out \in {"ok", "failed", "cancelled"}, NEW t, Closing(out, t),
           wire' = wire \o t, UNCHANGED <<start, screen, beats, timers, work>>,
           out # "ok" => Failing, out = "ok" => Achieved /\ Erased,
           work.at \notin {"prompt", "terminal"},
           MainTyped', ~main'.running, main'.reported = main.reported, main'.forgot = main.forgot,
           main'.answer = main.answer
    PROVE  WindowInv'
<1> USE DEF WindowInv, WindowTyped
<1>1. /\ t \in Seq(Event) /\ ReplyLast(t) /\ ~Says(t, {End})
      /\ Says(t, Claims) => out = "ok"
      /\ Says(t, Sorries) => out # "ok"
  BY ClosingIs
<1>2. wire \in Seq(Event) /\ ReplyLast(wire) /\ ~Says(wire, Replies)
  BY Following DEF QueuesTyped, SaidTruly
<1>3. wire' \in Seq(Event) /\ \A K : Says(wire', K) <=> Says(wire, K) \/ Says(t, K)
  BY <1>1, <1>2, SaysAppended
<1>4. ReplyLast(wire')
  BY <1>1, <1>2, ReplyJoins
<1>5. W!Lines' = W!Lines
  BY LinesStay
<1>6. Achieved' = Achieved /\ Erased' = Erased /\ Failing' = Failing /\ W!Finished' = W!Finished /\ W!InApp' = W!InApp
  BY <1>5 DEF Achieved, Erased, Failing, W!Finished, W!InApp
<1>7. WindowTyped'
  BY <1>1, <1>3, <1>5 DEF ScreenTyped, QueuesTyped, WorkTyped
<1>8. WorkGoes' /\ ReadGoes' /\ ForgotLast'
  BY <1>5, <1>6 DEF WorkGoes, ReadGoes, ForgotLast
<1>9. SaidTruly'
  BY <1>1, <1>3, <1>4, <1>6 DEF SaidTruly, Truly
<1>10. ScreenSays' /\ InAppOnly'
  BY <1>6, Following DEF ScreenSays, InAppOnly
<1> QED
  BY <1>7, <1>8, <1>9, <1>10

LEMMA Settles ==
    ASSUME WindowInv, W!Settle
    PROVE  WindowInv'
<1> USE DEF WindowInv, WindowTyped
<1> DEFINE late == W!Seamless /\ ~main.staged
           out == W!Outcome
           m == IF late /\ work.code = "ok" THEN W!Staged(main)
                ELSE IF late THEN [main EXCEPT !.told = @ \cup {"aborted"}] ELSE main
<1>1. /\ main.running /\ work.what = "install" /\ work.at = "ended"
      /\ main' = [m EXCEPT !.running = FALSE, !.prepared = IF work.code = "ok" THEN "building" ELSE @]
      /\ IF late /\ work.code # "ok"
         THEN screen' = [screen EXCEPT !.phase = "gone"] /\ wire' = wire
         ELSE screen' = screen /\ wire' = wire \o W!Sorry(out) \o <<<<"reply", out>>>>
      /\ UNCHANGED <<start, beats, timers, work>>
  BY DEF W!Settle
<1>2. m.reported = main.reported /\ m.forgot = main.forgot /\ m.answer = main.answer /\ DOMAIN m = DOMAIN main
  BY DEF W!Staged, MainTyped
<1> HIDE DEF m
<1>3. MainTyped' /\ ~main'.running /\ main'.reported = main.reported /\ main'.forgot = main.forgot
      /\ main'.answer = main.answer
  BY <1>1, <1>2 DEF MainTyped
<1>4. CASE late /\ work.code # "ok"
  <2>1. screen' = [screen EXCEPT !.phase = "gone"] /\ wire' = wire
    BY <1>1, <1>4
  <2>2. W!Lines' = W!Lines
    BY <1>1, LinesStay
  <2>3. Achieved' = Achieved /\ Erased' = Erased /\ Failing' = Failing /\ W!Finished' = W!Finished /\ W!InApp' = W!InApp
    BY <1>1, <1>3, <2>2 DEF Achieved, Erased, Failing, W!Finished, W!InApp
  <2>4. WindowTyped' /\ screen'.phase = "gone" /\ screen'.task = screen.task /\ screen'.steps = screen.steps
    BY <1>1, <1>3, <2>1, <2>2 DEF ScreenTyped, QueuesTyped, WorkTyped
  <2>5. WorkGoes' /\ ReadGoes' /\ ForgotLast'
    BY <1>1, <1>3, <2>2, <2>3, <2>4 DEF WorkGoes, ReadGoes, ForgotLast
  <2>6. SaidTruly'
    BY <1>1, <1>3, <2>1, <2>3 DEF SaidTruly, Truly
  <2>7. ScreenSays' /\ InAppOnly'
    BY <1>1, <2>3, <2>4, Following DEF ScreenSays, InAppOnly
  <2> QED
    BY <2>4, <2>5, <2>6, <2>7
<1>5. CASE ~(late /\ work.code # "ok")
  <2>1. screen' = screen /\ wire' = wire \o W!Sorry(out) \o <<<<"reply", out>>>>
    BY <1>1, <1>5
  <2>2. out \in {"ok", "failed", "cancelled"} /\ (out # "ok" => Failing) /\ (out = "ok" => Achieved /\ Erased)
    BY <1>1 DEF W!Outcome, WorkTyped, WorkGoes, Failing, Erased
  <2> HIDE DEF out
  <2>3. PICK t : Closing(out, t) /\ wire' = wire \o t
    BY <2>1, <2>2, SorryCloses DEF QueuesTyped
  <2> QED
    BY <1>1, <1>3, <2>1, <2>2, <2>3, Closes
<1> QED
  BY <1>4, <1>5

LEMMA RemovalCloses ==
    ASSUME WindowInv, W!RemovalSettles \/ W!RemovalIdles
    PROVE  WindowInv'
<1> USE DEF WindowInv, WindowTyped
<1>1. CASE W!RemovalSettles
  <2> DEFINE out == W!Outcome
  <2>1. /\ main.running /\ work.what = "remove" /\ (W!Unread = <<>> \/ main.reported)
        /\ work.at = "ended" \/ (work.at = "handed" /\ (W!Finished \/ work.failed))
        /\ wire' = wire \o W!Sorry(out) \o <<<<"reply", out>>>>
        /\ UNCHANGED <<start, screen, beats, timers, work>>
    BY <1>1 DEF W!RemovalSettles
  <2>2. MainTyped' /\ ~main'.running /\ main'.reported = main.reported /\ main'.forgot = main.forgot
        /\ main'.answer = main.answer
    BY <1>1 DEF W!RemovalSettles, MainTyped
  <2>3. W!Unread = <<>> => work.read = work.said + (IF work.failed THEN 1 ELSE 0)
    <3>1. Len(W!Unread) = Len(W!File) - work.read /\ Len(W!File) = work.said + (IF work.failed THEN 1 ELSE 0)
      BY DoneUnread, FileIs
    <3>2. W!Unread = <<>> => Len(W!Unread) = 0
      OBVIOUS
    <3> QED
      BY <3>1, <3>2 DEF WorkTyped
  <2>4. out \in {"ok", "failed", "cancelled"}
    BY DEF W!Outcome, WorkTyped
  <2>5. ASSUME out # "ok" PROVE Failing
    <3>1. work.code # "ok" \/ main.reported
      BY <2>5 DEF W!Outcome
    <3>2. CASE work.code # "ok" /\ ~main.reported /\ work.at = "handed"
      <4>1. work.failed
        BY <3>2 DEF WorkGoes, WorkTyped
      <4>2. work.read = work.said + 1
        BY <2>1, <2>3, <3>2, <4>1
      <4> QED
        BY <4>2, <3>2 DEF ReadGoes
    <3> QED
      BY <3>1, <3>2, <2>1 DEF Failing
  <2>6. ASSUME out = "ok" PROVE Achieved /\ Erased
    <3>1. work.code = "ok" /\ ~main.reported
      BY <2>6 DEF W!Outcome, WorkTyped
    <3>2. Achieved
      BY <2>1, <3>1 DEF WorkGoes, Achieved
    <3>3. work.read = Len(W!Lines)
      BY <2>1, <2>3, <3>1, <3>2 DEF Achieved, W!Finished, WorkTyped
    <3> QED
      BY <2>1, <3>1, <3>2, <3>3 DEF ReadGoes, Erased
  <2> HIDE DEF out
  <2>7. PICK t : Closing(out, t) /\ wire' = wire \o t
    BY <2>1, <2>4, SorryCloses DEF QueuesTyped
  <2> QED
    BY <2>1, <2>2, <2>4, <2>5, <2>6, <2>7, Closes
<1>2. CASE W!RemovalIdles
  <2>1. /\ main.running /\ work.at = "stuck"
        /\ wire' = wire \o <<<<"failed", W!Current>>, <<"reply", "failed">>>>
        /\ UNCHANGED <<start, screen, beats, timers, work>>
    BY <1>2 DEF W!RemovalIdles
  <2>2. MainTyped' /\ ~main'.running /\ main'.reported = main.reported /\ main'.forgot = main.forgot
        /\ main'.answer = main.answer
    BY <1>2 DEF W!RemovalIdles, MainTyped
  <2>3. Failing
    BY <2>1 DEF Failing
  <2>4. PICK t : Closing("failed", t) /\ wire' = wire \o t
    BY <2>1 DEF Closing
  <2> QED
    BY <2>1, <2>2, <2>3, <2>4, Closes
<1> QED
  BY <1>1, <1>2

------------------------------------------------------------------------------
(* The screen *)

\* The screen moves, the work stands.
LEMMA Shown ==
    ASSUME WindowInv, work' = work, start' = start, MainStays, main'.answer = main.answer,
           ScreenTyped', QueuesTyped', main.forgot => screen'.phase # "intro",
           SaidTruly', ScreenSays', InAppOnly'
    PROVE  WindowInv'
<1>1. WorkTyped' /\ WorkGoes' /\ ReadGoes' /\ Achieved' = Achieved /\ Failing' = Failing
  BY WorkStands
<1>2. ForgotLast'
  BY <1>1 DEF WindowInv, ForgotLast, MainStays
<1> QED
  BY <1>1, <1>2 DEF WindowInv, WindowTyped, MainStays

\* What the work is, after a step of the screen.
LEMMA SameWork ==
    ASSUME WindowInv, work' = work, start' = start, main' = main
    PROVE  /\ MainStays /\ main'.answer = main.answer
           /\ Achieved' = Achieved /\ Failing' = Failing /\ Erased' = Erased /\ W!InApp' = W!InApp
<1>1. MainStays /\ main'.answer = main.answer
  BY DEF MainStays, WindowInv, WindowTyped, MainTyped
<1> QED
  BY <1>1, WorkStands DEF W!InApp

\* Where something said of the work is on its way, the screen is not at the choice.
LEMMA NotStill ==
    ASSUME WindowInv, ~Still
    PROVE  screen.phase # "intro" /\ work.what = screen.task
BY DEF WindowInv, ScreenSays

LEMMA EventReceived ==
    ASSUME WindowInv, W!ReceivesEvent
    PROVE  WindowInv'
<1> USE DEF WindowInv, WindowTyped
<1> DEFINE e == Head(wire)
<1>1. wire # <<>> /\ e[1] \in {"step", "failed"} /\ wire' = Tail(wire)
      /\ UNCHANGED <<start, timers, main, work, other, works>>
      /\ IF W!InApp THEN screen' = W!InAppPlays(screen, e) /\ beats' = beats
                    ELSE beats' = Append(beats, e) /\ screen' = screen
  BY DEF W!ReceivesEvent
<1>2. /\ e \in Event /\ wire' \in Seq(Event) /\ \A K : Says(wire, K) <=> Says(wire', K) \/ e \in K
      /\ ReplyLast(wire')
  BY <1>1, SaysRest, ReplyEnds DEF QueuesTyped, SaidTruly
<1>3. MainStays /\ main'.answer = main.answer
      /\ Achieved' = Achieved /\ Failing' = Failing /\ Erased' = Erased /\ W!InApp' = W!InApp
  BY <1>1, SameWork
<1> HIDE DEF e
<1>4. e \in Ticks \/ e \in Losses
  BY <1>1, <1>2, Tags
<1>5. e \in Tellings /\ e \notin Replies /\ e \notin Asks /\ e # End
  BY <1>1, <1>2, <1>4, Tags DEF Tellings
<1>6. ~Quiet /\ ~Still
  BY <1>2, <1>5 DEF Quiet, Still
<1>7. screen.phase # "intro" /\ work.what = screen.task
  BY <1>6, NotStill
<1>8. Truly(wire)'
  BY <1>2, <1>3 DEF SaidTruly, Truly
<1>9. CASE W!InApp
  <2>1. screen' = W!InAppPlays(screen, e) /\ beats' = beats
    BY <1>1, <1>9 DEF e
  <2>2. timers = {} /\ timers' = {} /\ beats = <<>>
    BY <1>1, <1>6, <1>9 DEF InAppOnly
  <2>3. ScreenTyped' /\ screen'.phase = screen.phase /\ screen'.task = screen.task
        /\ (screen'.steps[3] = "done" => screen.steps[3] = "done" \/ e = <<"step", <<"done", 3>>>>)
    <3>1. CASE e \in Ticks
      <4>1. PICK kind \in {"active", "done", "staged", "failed"}, i \in 1 .. 3 : e = <<"step", <<kind, i>>>>
        BY <3>1 DEF Ticks, Told
      <4>2. screen' = [screen EXCEPT !.steps = [j \in 1 .. 3 |-> IF j = i THEN kind
                                                                ELSE IF j < i THEN "done" ELSE @[j]]]
        BY <2>1, <4>1 DEF W!InAppPlays
      <4>3. screen'.steps[3] = IF 3 = i THEN kind ELSE screen.steps[3]
        BY <4>2 DEF ScreenTyped
      <4>4. ScreenTyped' /\ screen'.phase = screen.phase /\ screen'.task = screen.task
        BY <4>2 DEF ScreenTyped
      <4> QED
        BY <4>1, <4>3, <4>4
    <3>2. CASE e \in Losses
      <4>1. e[1] = "failed" /\ e[2] \in 1 .. 3
        BY <3>2 DEF Losses
      <4>2. screen' = [screen EXCEPT !.steps[e[2]] = "failed"]
        BY <2>1, <4>1 DEF W!InAppPlays
      <4> QED
        BY <4>1, <4>2 DEF ScreenTyped
    <3> QED
      BY <3>1, <3>2, <1>4
  <2>4. e = <<"step", <<"done", 3>>>> => Erased
    BY <1>2 DEF Claims, SaidTruly, Truly
  <2>5. QueuesTyped'
    BY <1>2, <2>1 DEF QueuesTyped
  <2>6. SaidTruly'
    BY <1>1, <1>2, <1>3, <1>8, <2>1 DEF SaidTruly, Truly
  <2>7. ScreenSays'
    BY <1>1, <1>3, <1>7, <2>3, <2>4 DEF ScreenSays
  <2>8. InAppOnly'
    BY <2>1, <2>2 DEF InAppOnly
  <2> QED
    BY <1>1, <1>3, <1>7, <2>3, <2>5, <2>6, <2>7, <2>8, Shown
<1>10. CASE ~W!InApp
  <2>1. screen' = screen /\ beats' = Append(beats, e)
    BY <1>1, <1>10 DEF e
  <2>2. beats' \in Seq(Event) /\ \A K : Says(beats', K) <=> Says(beats, K) \/ e \in K
    BY <1>2, <2>1, SaysOne DEF QueuesTyped
  <2>3. QueuesTyped'
    BY <1>2, <1>5, <2>2 DEF QueuesTyped
  <2>4. Truly(beats)'
    BY <1>2, <1>3, <2>2 DEF SaidTruly, Truly
  <2>5. SaidTruly'
    BY <1>1, <1>2, <1>3, <1>8, <2>4 DEF SaidTruly
  <2>6. ScreenSays'
    BY <1>1, <1>3, <1>7, <2>1 DEF ScreenSays
  <2>7. InAppOnly'
    BY <1>3, <1>10 DEF InAppOnly
  <2> QED
    BY <1>1, <1>3, <1>7, <2>1, <2>3, <2>5, <2>6, <2>7, Shown DEF ScreenTyped
<1> QED
  BY <1>9, <1>10

LEMMA ReplyReceived ==
    ASSUME WindowInv, W!ReceivesReply
    PROVE  WindowInv'
<1> USE DEF WindowInv, WindowTyped
<1> DEFINE e == Head(wire)
           out == Head(wire)[2]
<1>1. wire # <<>> /\ e[1] = "reply" /\ wire' = Tail(wire) /\ UNCHANGED <<start, main, work, other, works>>
  BY DEF W!ReceivesReply
<1>2. /\ e \in Event /\ wire' \in Seq(Event) /\ \A K : Says(wire, K) <=> Says(wire', K) \/ e \in K
      /\ ReplyLast(wire') /\ (e \in Replies => ~Says(wire', Tellings))
  BY <1>1, SaysRest, ReplyEnds DEF QueuesTyped, SaidTruly
<1>3. MainStays /\ main'.answer = main.answer
      /\ Achieved' = Achieved /\ Failing' = Failing /\ Erased' = Erased /\ W!InApp' = W!InApp
  BY <1>1, SameWork
<1>4. e \in Replies /\ e = <<"reply", out>> /\ out \in {"ok", "failed", "cancelled"}
  <2>1. e \in Replies
    BY <1>1, <1>2, Tags
  <2> QED
    BY <2>1 DEF Replies
<1>5. \/ /\ out = "cancelled" /\ screen' = W!BackToChoice(screen) /\ beats' = <<>> /\ timers' = {}
      \/ /\ out = "ok" /\ screen.task = "remove" /\ W!InApp
         /\ screen' = [screen EXCEPT !.phase = "done"] /\ timers' = {"removed"} /\ beats' = beats
      \/ /\ out = "ok" /\ screen.task = "remove" /\ ~W!InApp
         /\ beats' = Append(beats, End) /\ screen' = screen /\ timers' = timers
      \/ /\ out = "failed" /\ W!InApp /\ screen' = [screen EXCEPT !.phase = "failed"]
         /\ beats' = beats /\ timers' = timers
      \/ screen' = screen /\ beats' = beats /\ timers' = timers
  BY <1>4 DEF W!ReceivesReply, End
<1> HIDE DEF e, out
<1>6. ~main.running /\ main'.running = FALSE /\ ~Quiet /\ ~Still /\ ~Says(wire', Tellings)
  BY <1>1, <1>2, <1>4 DEF Quiet, Still, SaidTruly, Tellings
<1>7. screen.phase # "intro" /\ work.what = screen.task
  BY <1>6, NotStill
<1>8. Quiet'
  BY <1>6 DEF Quiet
<1>9. (out = "ok" => Achieved /\ Erased) /\ (out # "ok" => Failing)
  <2>1. out = "ok" => e \in Claims
    BY <1>4 DEF Claims
  <2>2. out # "ok" => e \in Sorries
    BY <1>4 DEF Sorries
  <2> QED
    BY <2>1, <2>2, <1>2 DEF SaidTruly, Truly
<1>10. Truly(wire)' /\ (wire \in Seq(Event))' /\ (~Says(wire, {End}))' /\ ReplyLast(wire)'
       /\ (Says(wire, Replies) => ~main.running)'
  BY <1>2, <1>3, <1>6 DEF SaidTruly, Truly, QueuesTyped
<1>11. ~Says(<<>>, Claims) /\ ~Says(<<>>, Sorries) /\ ~Says(<<>>, Replies \cup Asks) /\ <<>> \in Seq(Event)
  BY DEF Says
<1>12. CASE out = "cancelled" /\ screen' = W!BackToChoice(screen) /\ beats' = <<>> /\ timers' = {}
  <2>1. ScreenTyped' /\ screen'.phase = "intro" /\ screen'.task = "install"
    BY <1>12 DEF W!BackToChoice, ScreenTyped
  <2>2. QueuesTyped' /\ SaidTruly'
    BY <1>10, <1>11, <1>12 DEF QueuesTyped, SaidTruly, Truly
  <2>3. Still'
    BY <1>8, <1>12 DEF Still
  <2>4. ~main.forgot
    BY <1>9, <1>12 DEF ForgotLast
  <2>5. ScreenSays' /\ InAppOnly'
    BY <1>12, <2>1, <2>3 DEF ScreenSays, InAppOnly
  <2> QED
    BY <1>1, <1>3, <2>1, <2>2, <2>4, <2>5, Shown
<1>13. CASE /\ out = "ok" /\ screen.task = "remove" /\ W!InApp
            /\ screen' = [screen EXCEPT !.phase = "done"] /\ timers' = {"removed"} /\ beats' = beats
  <2>1. ScreenTyped' /\ screen'.phase = "done" /\ screen'.task = screen.task /\ screen'.steps = screen.steps
    BY <1>13 DEF ScreenTyped
  <2>2. QueuesTyped' /\ SaidTruly'
    BY <1>3, <1>9, <1>10, <1>13 DEF QueuesTyped, SaidTruly, Truly
  <2>3. ScreenSays' /\ InAppOnly'
    BY <1>1, <1>3, <1>7, <1>8, <1>9, <1>13, <2>1 DEF ScreenSays, InAppOnly
  <2> QED
    BY <1>1, <1>3, <2>1, <2>2, <2>3, Shown
<1>14. CASE /\ out = "ok" /\ screen.task = "remove" /\ ~W!InApp
            /\ beats' = Append(beats, End) /\ screen' = screen /\ timers' = timers
  <2>1. End \in Event /\ End \notin Replies /\ End \notin Asks /\ End \notin Sorries
    <3>1. End \in Event /\ End \in Notes
      BY DEF Event, Notes
    <3> QED
      BY <3>1, Kinds, AsksAre
  <2>2. beats' \in Seq(Event) /\ \A K : Says(beats', K) <=> Says(beats, K) \/ End \in K
    BY <1>14, <2>1, SaysOne DEF QueuesTyped
  <2>3. QueuesTyped' /\ SaidTruly'
    BY <1>3, <1>9, <1>10, <1>14, <2>1, <2>2 DEF QueuesTyped, SaidTruly, Truly
  <2>4. ScreenSays' /\ InAppOnly'
    BY <1>1, <1>3, <1>7, <1>14 DEF ScreenSays, InAppOnly
  <2> QED
    BY <1>1, <1>3, <1>7, <1>14, <2>3, <2>4, Shown DEF ScreenTyped
<1>15. CASE /\ out = "failed" /\ W!InApp /\ screen' = [screen EXCEPT !.phase = "failed"]
            /\ beats' = beats /\ timers' = timers
  <2>1. ScreenTyped' /\ screen'.phase = "failed" /\ screen'.task = screen.task /\ screen'.steps = screen.steps
    BY <1>15 DEF ScreenTyped
  <2>2. QueuesTyped' /\ SaidTruly'
    BY <1>3, <1>10, <1>15 DEF QueuesTyped, SaidTruly, Truly
  <2>3. ScreenSays' /\ InAppOnly'
    BY <1>1, <1>3, <1>6, <1>7, <1>9, <1>15, <2>1 DEF ScreenSays, InAppOnly
  <2> QED
    BY <1>1, <1>3, <2>1, <2>2, <2>3, Shown
<1>16. CASE screen' = screen /\ beats' = beats /\ timers' = timers
  <2>1. QueuesTyped' /\ SaidTruly'
    BY <1>3, <1>10, <1>16 DEF QueuesTyped, SaidTruly, Truly
  <2>2. ScreenSays' /\ InAppOnly'
    BY <1>1, <1>3, <1>6, <1>7, <1>16 DEF ScreenSays, InAppOnly
  <2> QED
    BY <1>1, <1>3, <1>7, <1>16, <2>1, <2>2, Shown DEF ScreenTyped
<1> QED
  BY <1>5, <1>12, <1>13, <1>14, <1>15, <1>16

LEMMA Beats ==
    ASSUME WindowInv, W!Beat
    PROVE  WindowInv'
<1> USE DEF WindowInv, WindowTyped
<1> DEFINE e == Head(beats)
<1>1. beats # <<>> /\ screen.phase # "gone" /\ UNCHANGED <<start, wire, main, work, other, works>>
      /\ \/ e[1] = "failed" /\ screen' = W!Plays(screen, e) /\ beats' = <<>> /\ timers' = {}
         \/ /\ e[1] = "removed" /\ screen' = [screen EXCEPT !.steps = [i \in 1 .. 3 |-> "done"]]
            /\ beats' = Tail(beats) /\ timers' = timers \cup {"removed"}
         \/ /\ e[1] # "failed" /\ e[1] # "removed"
            /\ screen' = W!Plays(screen, e) /\ beats' = Tail(beats)
            /\ timers' = IF screen.task = "install" /\ W!IsLast(e) THEN timers \cup {"finish"} ELSE timers
  BY DEF W!Beat
<1>2. e \in Event /\ Tail(beats) \in Seq(Event) /\ \A K : Says(beats, K) <=> Says(Tail(beats), K) \/ e \in K
  BY <1>1, SaysRest DEF QueuesTyped
<1>3. MainStays /\ main'.answer = main.answer
      /\ Achieved' = Achieved /\ Failing' = Failing /\ Erased' = Erased /\ W!InApp' = W!InApp
  BY <1>1, SameWork
<1> HIDE DEF e
<1>4. ~Still /\ ~W!InApp /\ ~W!InApp'
  BY <1>1, <1>3 DEF Still, InAppOnly
<1>5. screen.phase # "intro" /\ work.what = screen.task
  BY <1>4, NotStill
<1>6. e \in Ticks \/ e \in Losses \/ e = End
  BY <1>2 DEF QueuesTyped, Event, Notes
<1>7. (e \in Claims => Achieved /\ Erased) /\ (e \in Sorries => Failing)
  BY <1>2 DEF SaidTruly, Truly
<1>8. InAppOnly'
  BY <1>4 DEF InAppOnly
<1>9. CASE e \in Losses
  <2>1. e[1] = "failed" /\ e[2] \in 1 .. 3 /\ e \in Sorries
    BY <1>9, Kinds DEF Losses
  <2>2. screen' = [screen EXCEPT !.phase = "failed", !.steps[e[2]] = "failed"] /\ beats' = <<>> /\ timers' = {}
    BY <1>1, <2>1 DEF W!Plays
  <2>3. ScreenTyped' /\ screen'.phase = "failed" /\ screen'.task = screen.task
        /\ (screen'.steps[3] = "done" => screen.steps[3] = "done")
    BY <2>1, <2>2 DEF ScreenTyped
  <2>4. ~Says(<<>>, Claims) /\ ~Says(<<>>, Sorries) /\ ~Says(<<>>, Replies \cup Asks) /\ <<>> \in Seq(Event)
    BY DEF Says
  <2>5. QueuesTyped' /\ SaidTruly'
    BY <1>1, <1>3, <2>2, <2>4 DEF QueuesTyped, SaidTruly, Truly
  <2>6. ScreenSays'
    BY <1>1, <1>3, <1>5, <1>7, <2>1, <2>3 DEF ScreenSays
  <2> QED
    BY <1>1, <1>3, <1>8, <2>3, <2>5, <2>6, Shown
<1>10. CASE e = End
  <2>1. e[1] = "removed" /\ e \in Claims
    BY <1>10 DEF End, Claims
  <2>2. screen' = [screen EXCEPT !.steps = [i \in 1 .. 3 |-> "done"]]
        /\ beats' = Tail(beats) /\ timers' = timers \cup {"removed"}
    BY <1>1, <2>1
  <2>3. ScreenTyped' /\ screen'.phase = screen.phase /\ screen'.task = screen.task
    BY <2>2 DEF ScreenTyped
  <2>4. QueuesTyped' /\ SaidTruly'
    BY <1>1, <1>2, <1>3, <1>7, <2>1, <2>2 DEF QueuesTyped, SaidTruly, Truly
  <2>5. ScreenSays'
    BY <1>1, <1>3, <1>5, <1>7, <2>1, <2>3 DEF ScreenSays
  <2> QED
    BY <1>1, <1>3, <1>5, <1>8, <2>3, <2>4, <2>5, Shown
<1>11. CASE e \in Ticks
  <2>1. PICK kind \in {"active", "done", "staged", "failed"}, i \in 1 .. 3 : e = <<"step", <<kind, i>>>>
    BY <1>11 DEF Ticks, Told
  <2>2. screen' = [screen EXCEPT !.steps[i] = kind] /\ beats' = Tail(beats)
        /\ (timers' = timers \/ (timers' = timers \cup {"finish"} /\ e = <<"step", <<"done", 3>>>>))
    BY <1>1, <2>1 DEF W!Plays, W!IsLast
  <2>3. ScreenTyped' /\ screen'.phase = screen.phase /\ screen'.task = screen.task
        /\ (screen'.steps[3] = "done" => screen.steps[3] = "done" \/ e = <<"step", <<"done", 3>>>>)
    BY <2>1, <2>2 DEF ScreenTyped
  <2>4. e = <<"step", <<"done", 3>>>> => Achieved /\ Erased
    BY <1>7 DEF Claims
  <2>5. QueuesTyped' /\ SaidTruly'
    BY <1>1, <1>2, <1>3, <2>2, <2>4 DEF QueuesTyped, SaidTruly, Truly
  <2>6. ScreenSays'
    BY <1>1, <1>3, <1>5, <2>3, <2>4 DEF ScreenSays
  <2> QED
    BY <1>1, <1>3, <1>5, <1>8, <2>3, <2>5, <2>6, Shown
<1> QED
  BY <1>6, <1>9, <1>10, <1>11

LEMMA TimersGo ==
    ASSUME WindowInv, W!Finish \/ W!Handoff \/ W!RemovalDone \/ W!Entered
    PROVE  WindowInv'
<1> USE DEF WindowInv, WindowTyped
<1>1. timers # {} /\ UNCHANGED <<start, beats, wire, work, other, works>>
  BY DEF W!Finish, W!Handoff, W!RemovalDone, W!Entered, W!Timer
<1>2. ~Still
  BY <1>1 DEF Still
<1>3. screen.phase # "intro" /\ work.what = screen.task
  BY <1>2, NotStill
<1>4. QueuesTyped'
  BY <1>1 DEF QueuesTyped
<1>5. MainStays /\ main'.answer = main.answer
  BY DEF W!Finish, W!Handoff, W!RemovalDone, W!Entered, W!Timer, MainStays, MainTyped
<1>6. Achieved' = Achieved /\ Failing' = Failing /\ Erased' = Erased /\ W!InApp' = W!InApp
  BY <1>1, <1>5, WorkStands DEF W!InApp
<1>7. Quiet' = Quiet
  BY <1>1, <1>5 DEF Quiet, MainStays, MainTyped
<1>8. /\ ScreenTyped' /\ screen'.task = screen.task /\ screen'.steps = screen.steps
      /\ \/ screen'.phase = screen.phase
         \/ screen'.phase = "done" /\ Achieved
         \/ screen'.phase = "removed" /\ Achieved
  BY DEF W!Finish, W!Handoff, W!RemovalDone, W!Entered, W!Timer, ScreenTyped, SaidTruly
<1>9. ("finish" \in timers' => "finish" \in timers) /\ ("removed" \in timers' => "removed" \in timers)
  BY DEF W!Finish, W!Handoff, W!RemovalDone, W!Entered, W!Timer
<1>10. SaidTruly'
  BY <1>1, <1>5, <1>6, <1>9 DEF SaidTruly, Truly, MainStays
<1>11. ScreenSays'
  BY <1>1, <1>3, <1>6, <1>8 DEF ScreenSays
<1>12. InAppOnly'
  BY <1>1, <1>6, <1>7, <1>8 DEF InAppOnly
<1> QED
  BY <1>1, <1>3, <1>4, <1>5, <1>8, <1>10, <1>11, <1>12, Shown

LEMMA Returns ==
    ASSUME WindowInv, W!ReturnsToApp
    PROVE  WindowInv'
<1> USE DEF WindowInv, WindowTyped
<1>1. /\ W!InApp /\ screen.phase = "failed" /\ ~main.running /\ wire = <<>>
      /\ screen' = [W!BackToChoice(screen) EXCEPT !.steps = W!Pending]
      /\ UNCHANGED <<start, beats, timers, wire, main, work, other, works>>
  BY DEF W!ReturnsToApp
<1>2. MainStays /\ main'.answer = main.answer
      /\ Achieved' = Achieved /\ Failing' = Failing /\ Erased' = Erased /\ W!InApp' = W!InApp
  BY <1>1, SameWork
<1>3. beats = <<>> /\ timers = {}
  BY <1>1 DEF InAppOnly
<1>4. ScreenTyped' /\ screen'.phase = "intro" /\ screen'.task = "install"
  BY <1>1 DEF W!BackToChoice, W!Pending, ScreenTyped
<1>5. Still'
  BY <1>1, <1>3 DEF Still, Quiet, Says
<1>6. ~main.forgot
  BY <1>1 DEF ForgotLast, ScreenSays
<1>7. QueuesTyped' /\ SaidTruly'
  BY <1>1, <1>2 DEF QueuesTyped, SaidTruly, Truly
<1>8. ScreenSays' /\ InAppOnly'
  BY <1>1, <1>3, <1>4, <1>5 DEF ScreenSays, InAppOnly
<1> QED
  BY <1>1, <1>2, <1>4, <1>6, <1>7, <1>8, Shown

------------------------------------------------------------------------------
(* Installing and removing, on the screen *)

LEMMA WindowStarts ==
    ASSUME W!Init
    PROVE  WindowInv
<1>1. \/ work = W!NoWork /\ screen = W!Reset /\ ~main.running
      \/ work = W!Begun("install", TRUE) /\ screen = W!Working(W!Reset, "install") /\ main.running
         /\ start.kind \in {"auto", "seamless"}
  BY DEF W!Init
<1>2. /\ beats = <<>> /\ timers = {} /\ wire = <<>>
      /\ MainTyped /\ ~main.answer /\ ~main.reported /\ ~main.forgot
  BY DEF W!Init, MainTyped
<1>3. WorkTyped /\ work.said = 0 /\ work.read = 0 /\ work.failed = FALSE /\ work.code = "ok"
      /\ \/ work.what = "none" /\ work.at = "ended" /\ ~main.running /\ screen = W!Reset
         \/ work.what = "install" /\ work.at = "prompt" /\ main.running
            /\ screen = W!Working(W!Reset, "install")
  <2>1. CASE work = W!NoWork /\ screen = W!Reset /\ ~main.running
    <3>1. work = [what |-> "none", keep |-> TRUE, at |-> "ended", code |-> "ok", said |-> 0, failed |-> FALSE, read |-> 0]
      BY <2>1 DEF W!NoWork
    <3> QED
      BY <2>1, <3>1, LinesCounted DEF WorkTyped
  <2>2. CASE work = W!Begun("install", TRUE) /\ screen = W!Working(W!Reset, "install") /\ main.running
    <3>1. work = [what |-> "install", keep |-> TRUE, at |-> "prompt", code |-> "ok", said |-> 0, failed |-> FALSE, read |-> 0]
      BY <2>2 DEF W!NoWork, W!Begun
    <3>2. WorkTyped
      BY <3>1, LinesCounted DEF WorkTyped
    <3>3. work.said = 0 /\ work.read = 0 /\ work.failed = FALSE /\ work.code = "ok" /\ work.what = "install"
          /\ work.at = "prompt"
      BY <3>1
    <3> QED
      BY <2>2, <3>2, <3>3
  <2> QED
    BY <1>1, <2>1, <2>2
<1>4. \/ work.what = "none" /\ work.at = "ended" /\ ~main.running
      \/ work.what = "install" /\ work.at = "prompt" /\ main.running
  BY <1>3
<1>5. ScreenTyped /\ screen.task = "install"
      /\ \/ screen.phase = "intro" /\ ~main.running
         \/ screen.phase = "work" /\ work.what = "install"
  <2>1. CASE screen = W!Reset /\ ~main.running
    BY <2>1 DEF W!Reset, W!Pending, ScreenTyped
  <2>2. CASE screen = W!Working(W!Reset, "install") /\ work.what = "install"
    BY <2>2 DEF W!Reset, W!Pending, W!Working, ScreenTyped
  <2> QED
    BY <1>3, <2>1, <2>2
<1>6. (\A K : ~Says(<<>>, K)) /\ <<>> \in Seq(Event) /\ ReplyLast(<<>>)
  BY DEF Says, ReplyLast
<1>7. WindowTyped
  BY <1>2, <1>3, <1>5, <1>6 DEF WindowTyped, QueuesTyped
<1>8. WorkGoes /\ ReadGoes /\ ForgotLast
  BY <1>2, <1>3, <1>4, SomeLines DEF WorkGoes, ReadGoes, ForgotLast
<1>9. SaidTruly
  BY <1>2, <1>6 DEF SaidTruly, Truly
<1>10. ScreenSays /\ InAppOnly
  <2>1. ~main.running => Still
    BY <1>2, <1>6 DEF Still, Quiet
  <2> QED
    BY <2>1, <1>2, <1>4, <1>5 DEF ScreenSays, InAppOnly
<1> QED
  BY <1>7, <1>8, <1>9, <1>10 DEF WindowInv

LEMMA WindowMoves ==
    ASSUME WindowInv, W!Next
    PROVE  WindowInv'
<1>1. CASE W!User
  BY <1>1, MovesAside, Begins, PasswordAnswered, Returns DEF W!User
<1>2. CASE W!Helper
  BY <1>2, HelperWorks
<1>3. CASE W!Process
  BY <1>3, MovesAside, Follows, Settles, RemovalCloses DEF W!Process
<1>4. CASE W!Page
  BY <1>4, MovesAside, EventReceived, ReplyReceived, Beats, TimersGo DEF W!Page
<1>5. CASE W!OldQuits
  BY <1>5, MovesAside
<1> QED
  BY <1>1, <1>2, <1>3, <1>4, <1>5 DEF W!Next

LEMMA WindowStays ==
    ASSUME WindowInv, UNCHANGED window
    PROVE  WindowInv'
<1>1. UNCHANGED <<start, screen, beats, timers, wire, main, work>>
  BY DEF window
<1>2. MainStays /\ ScreenStays /\ WireStays
  BY <1>1, SameWire DEF MainStays, ScreenStays, WindowInv, WindowTyped, MainTyped
<1> QED
  BY <1>1, <1>2, Aside

\* What the screen, the main process and the helper know of the work agrees, whatever is on its way
\* between them (renderer/installer/installer.js, main/setup, main/uninstall).
THEOREM WindowInvariance == InstallsSpec => []WindowInv
<1>1. InstallsInit => WindowInv
  BY WindowStarts DEF InstallsInit
<1>2. WindowInv /\ [InstallsNext]_<<vars, window, part>> => WindowInv'
  <2> SUFFICES ASSUME WindowInv, [InstallsNext]_<<vars, window, part>> PROVE WindowInv'
    OBVIOUS
  <2>1. W!Next \/ UNCHANGED window
    BY DEF InstallsNext
  <2> QED
    BY <2>1, WindowMoves, WindowStays
<1> QED
  BY <1>1, <1>2, PTL DEF InstallsSpec

\* The page says «Готово» or «SenAWG удалён» only of a work that has done all its steps and reported no
\* failure, whatever was declined, begun anew or has fallen silent before (renderer/installer/installer.js).
THEOREM DoneWhenDone == InstallsSpec => []DoneIsDone
<1>1. WindowInv => DoneIsDone
  BY DEF WindowInv, ScreenSays, Achieved, DoneIsDone, W!DoneIsDone
<1> QED
  BY <1>1, WindowInvariance, PTL

\* A removal that erases ticks its last step only when the servers and keys are gone, and they go only
\* after the helper has taken the program off (main/uninstall/index.ts).
THEOREM TickedWhenGone == InstallsSpec => []TickedIsGone
<1>1. WindowInv => TickedIsGone
  BY DEF WindowInv, ScreenSays, ForgotLast, Achieved, Erased, TickedIsGone, W!TickedIsGone
<1> QED
  BY <1>1, WindowInvariance, PTL

==============================================================================
