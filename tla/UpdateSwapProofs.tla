-------------------------- MODULE UpdateSwapProofs --------------------------
(***************************************************************************)
(* What UpdateSwap keeps, for every build, every set of entries and every   *)
(* interleaving of app, helper and player.  The type invariant holds        *)
(* unconditionally; the rest is proved for the circumstances the code is    *)
(* written for, Orderly: at most one of the helper's moves fails, and       *)
(* nobody starts Yu'lon by hand while the helper is at work or a recovery   *)
(* is half done.  TLC shows each restriction to be needed.                  *)
(***************************************************************************)
EXTENDS UpdateSwap, TLAPS

Orderly == MaxFaults \in {0, 1} /\ ~HandStart /\ ~HalfRecovery

Moving == helper \in {"moveOut", "moveIn", "takeOut", "putBack"}

\* The three situations an entry can be in until the new build has opened.
AtHome(e)   == target[e] = Original[e] /\ backup[e] = Absent
Aside(e)    == target[e] = Absent /\ backup[e] = Original[e]
Replaced(e) == target[e] = "new" /\ backup[e] = Original[e]

Placed ==
    /\ ~opened => \A e \in Entries : AtHome(e) \/ Aside(e) \/ Replaced(e)
    /\ \A e \in Entries : staged[e] \in {Absent, "new"}

\* The executable is the first out and the last in.
ExeTells ==
    (~opened /\ player = "idle") =>
        /\ AtHome(Exe)   => \A e \in Entries : AtHome(e)
        /\ Replaced(Exe) => \A e \in Entries : Replaced(e)

AfterOpening ==
    opened => /\ target = Updated /\ player = "idle" /\ ~HelperAlive
              /\ app \in {"closed", "starting", "tidyNew", "tidyOld",
                          "finishOld", "finishNew", "open"}

BackupMarked ==
    (~opened /\ (backup # Nothing \/ player # "idle")) => oldDir = "marked"

\* An app past its start, like a helper that waits for it, has a whole old build.
AppAtWork ==
    /\ (~opened /\ app \notin {"closed", "starting"}) => \A e \in Entries : AtHome(e)
    /\ (~opened /\ app = "starting") => running = target[Exe] /\ target[Exe] # Absent
    /\ helper = "waiting" => \A e \in Entries : AtHome(e)

HelperAtWork ==
    /\ HelperAlive => ~opened /\ player = "idle" /\ app \in {"closing", "refused", "closed"}
    /\ HelperAlive /\ helper # "waiting" => app = "closed"
    /\ Moving => oldDir = "marked" /\ newDir = "marked"

PlayerAtWork ==
    /\ player # "idle" => app = "closed" /\ ~HelperAlive /\ ~opened
    /\ player = "deleting" => target[Exe] = Absent
    /\ player = "restoring" => \A e \in Shipped : ~Replaced(e)

\* The helper's loops: what it has dealt with, and what it has not.
LoopOut ==
    helper = "moveOut" =>
        /\ \A e \in Entries : staged[e] = "new"
        /\ \A e \in Entries : IF e \in moved THEN Aside(e) ELSE AtHome(e)
        /\ moved # {} => Exe \in moved

LoopIn ==
    helper = "moveIn" =>
        /\ \A e \in Entries : IF e \in moved THEN Replaced(e) /\ staged[e] = Absent
                                             ELSE Aside(e) /\ staged[e] = "new"
        /\ Exe \in moved => \A e \in Entries : e \in moved

LoopTakeOut ==
    helper = "takeOut" =>
        /\ faults = MaxFaults
        /\ \A e \in Entries : IF staged[e] = Absent THEN Replaced(e) /\ e \notin moved
                                                    ELSE AtHome(e) \/ Aside(e)
        /\ staged[Exe] # Absent

LoopPutBack ==
    helper = "putBack" =>
        /\ faults = MaxFaults
        /\ \A e \in Entries : IF e \in moved THEN AtHome(e) ELSE AtHome(e) \/ Aside(e)
        /\ Exe \in moved => \A e \in Entries : e \in moved

Loops == LoopOut /\ LoopIn /\ LoopTakeOut /\ LoopPutBack

IInv ==
    /\ Placed /\ ExeTells /\ AfterOpening /\ BackupMarked
    /\ AppAtWork /\ HelperAtWork /\ PlayerAtWork /\ Loops

-----------------------------------------------------------------------------
(* The shapes of things. *)

\* Builds, an empty folder and the two whole installs are told apart.
LEMMA ContentFacts ==
    /\ {"old", "new", "mixed", Absent} \subseteq Content
    /\ Absent # "old" /\ Absent # "new" /\ Absent # "mixed"
    /\ Nothing \in [Entries -> Content]
    /\ Original \in [Entries -> Content]
    /\ Updated \in [Entries -> Content]
BY UpdateSwapAssumption DEF Content, Builds, Nothing, Original, Updated

\* A delete, whole, refused or stopped part-way, only ever takes things away.
LEMMA DiscardTakesAway ==
    ASSUME NEW dir \in DirStates, NEW held \in [Entries -> Content],
           NEW dir2, NEW held2, NEW ok, Discard(dir, held, dir2, held2, ok)
    PROVE  /\ dir2 \in DirStates /\ held2 \in [Entries -> Content]
           /\ \A e \in Entries : held2[e] \in {held[e], Absent}
           /\ held = Nothing => held2 = Nothing
BY ContentFacts DEF Discard, DirStates, Content, Nothing

\* A move puts something of the right shape somewhere.
LEMMA LandedShape ==
    ASSUME NEW e \in Entries, NEW there, NEW arriving \in Content
    PROVE  Landed(e, there, arriving) \in Content
BY ContentFacts DEF Landed

\* The first state has the right shape.
LEMMA InitTyped == Init => TypeOK
<1> SUFFICES ASSUME Init PROVE TypeOK
    OBVIOUS
<1>1. faults \in 0..MaxFaults
    BY UpdateSwapAssumption DEF Init
<1>2. target \in [Entries -> Content] /\ backup \in [Entries -> Content]
          /\ staged \in [Entries -> Content]
    BY ContentFacts DEF Init
<1>3. oldDir \in DirStates /\ newDir \in DirStates /\ app \in AppSteps
          /\ running \in Builds /\ helper \in HelperSteps
          /\ moved \in SUBSET Entries
          /\ player \in {"idle", "deleting", "restoring"} /\ opened \in BOOLEAN
    BY DEF Init, DirStates, AppSteps, Builds, HelperSteps
<1> QED BY <1>1, <1>2, <1>3 DEF TypeOK

\* A move that fails is counted, up to the bound.
LEMMA FaultCounted == TypeOK /\ Fault => faults' \in 0..MaxFaults
BY UpdateSwapAssumption DEF Fault, TypeOK

\* Every step of app, helper and player keeps the shapes.
LEMMA NextTyped == TypeOK /\ [Next]_vars => TypeOK'
<1> SUFFICES ASSUME TypeOK, [Next]_vars PROVE TypeOK'
    OBVIOUS
<1> USE ContentFacts DEF TypeOK, AppSteps, HelperSteps, places, dirs, theHelper, theApp
<1>1. CASE PressUpdate
    BY <1>1 DEF PressUpdate
<1>2. CASE PrepareNew
    BY <1>2, DiscardTakesAway DEF PrepareNew
<1>3. CASE PrepareOld
    BY <1>3, DiscardTakesAway DEF PrepareOld, DirStates
<1>4. CASE MarkNew
    BY <1>4 DEF MarkNew, DirStates
<1>5. CASE Stage
    BY <1>5 DEF Stage
<1>6. CASE StageFails
    BY <1>6 DEF StageFails
<1>7. CASE Plan
    BY <1>7 DEF Plan, DirStates
<1>8. CASE MarkOld
    BY <1>8 DEF MarkOld, DirStates
<1>9. CASE Restart
    BY <1>9 DEF Restart
<1>10. CASE DiscardStaged
    BY <1>10 DEF DiscardStaged
<1>11. CASE Close \/ CloseRefused
    BY <1>11 DEF Close, CloseRefused
<1>12. CASE AppDies
    BY <1>12 DEF AppDies
<1>13. CASE StartByHand
    <2>1. running' \in Builds /\ app' = "starting" /\ player' = "idle"
        BY <1>13, UpdateSwapAssumption DEF StartByHand, Content
    <2> QED BY <1>13, <2>1 DEF StartByHand
<1>14. CASE Finish
    <2>1. app' \in {"open", "tidyNew", "finishOld"}
        BY <1>14 DEF Finish
    <2>2. opened' \in BOOLEAN
        BY <1>14 DEF Finish
    <2> QED BY <1>14, <2>1, <2>2 DEF Finish
<1>15. CASE FinishOld
    BY <1>15, DiscardTakesAway DEF FinishOld
<1>16. CASE FinishNew
    BY <1>16, DiscardTakesAway DEF FinishNew
<1>17. CASE TidyNew
    BY <1>17, DiscardTakesAway DEF TidyNew
<1>18. CASE TidyOld
    BY <1>18, DiscardTakesAway DEF TidyOld
<1>19. CASE HelperChecks
    BY <1>19 DEF HelperChecks
<1>20. CASE LoopDone
    BY <1>20 DEF LoopDone, AfterLoop
<1>21. CASE Relaunch
    BY <1>21, UpdateSwapAssumption DEF Relaunch, Content
<1>22. CASE HelperGivesUp
    BY <1>22 DEF HelperGivesUp
<1>23. CASE HelperKilled
    BY <1>23 DEF HelperKilled
<1>24. CASE PlayerBegins
    BY <1>24 DEF PlayerBegins
<1>25. CASE PlayerFinishes
    BY <1>25 DEF PlayerFinishes, DirStates
<1>26. CASE \E e \in Entries : MoveOut(e)
    BY <1>26, LandedShape, FaultCounted DEF MoveOut, Handled
<1>27. CASE \E e \in Entries : MoveIn(e)
    BY <1>27, LandedShape, FaultCounted DEF MoveIn, Handled
<1>28. CASE \E e \in Entries : MoveFails(e)
    BY <1>28, LandedShape, FaultCounted DEF MoveFails, Handled
<1>29. CASE \E e \in Entries : TakeOut(e)
    BY <1>29, LandedShape, FaultCounted DEF TakeOut, Handled
<1>30. CASE \E e \in Entries : PutBack(e)
    BY <1>30, LandedShape, FaultCounted DEF PutBack, Handled
<1>31. CASE \E e \in Entries : UndoFails(e)
    BY <1>31, LandedShape, FaultCounted DEF UndoFails, Handled
<1>32. CASE \E e \in Entries : PlayerDeletes(e)
    BY <1>32, LandedShape, FaultCounted DEF PlayerDeletes, Handled
<1>33. CASE \E e \in Entries : PlayerMoves(e)
    BY <1>33, LandedShape, FaultCounted DEF PlayerMoves, Handled
<1>34. CASE UNCHANGED vars
    BY <1>34 DEF vars
<1> QED
    BY <1>1, <1>2, <1>3, <1>4, <1>5, <1>6, <1>7, <1>8, <1>9, <1>10, <1>11, <1>12,
       <1>13, <1>14, <1>15, <1>16, <1>17, <1>18, <1>19, <1>20, <1>21, <1>22, <1>23,
       <1>24, <1>25, <1>26, <1>27, <1>28, <1>29, <1>30, <1>31, <1>32, <1>33, <1>34
       DEF Next, AppNext, HelperWorks, PlayerNext

\* Every variable keeps its shape, whatever fails and whoever starts what.
THEOREM UpdateSwapTyped == Spec => []TypeOK
BY InitTyped, NextTyped, PTL DEF Spec
-----------------------------------------------------------------------------
(* The orderly update. *)

\* The installed build is at home before anything is pressed.
LEMMA InitInv == Init => IInv
BY UpdateSwapAssumption, ContentFacts
   DEF Init, IInv, Placed, ExeTells, AfterOpening, BackupMarked, AppAtWork, HelperAtWork,
       PlayerAtWork, Loops, LoopOut, LoopIn, LoopTakeOut, LoopPutBack, AtHome, Aside,
       Replaced, Original, Nothing, HelperAlive, Moving

\* With at most one failing move, the first failure uses them up.
LEMMA OneFault ==
    ASSUME Orderly, TypeOK, Fault
    PROVE  faults < MaxFaults /\ faults' = MaxFaults
BY DEF Orderly, TypeOK, Fault

\* Every step of an orderly update keeps the invariant.
LEMMA NextInv == Orderly /\ TypeOK /\ IInv /\ [Next]_vars => IInv'
<1> SUFFICES ASSUME Orderly, TypeOK, IInv, [Next]_vars PROVE IInv'
    OBVIOUS
<1> USE ContentFacts, UpdateSwapAssumption
    DEF TypeOK, places, dirs, theHelper, theApp, HelperAlive, Moving, Nothing, Original,
        AtHome, Aside, Replaced, IInv, Placed, ExeTells, AfterOpening, BackupMarked,
        AppAtWork, HelperAtWork, PlayerAtWork, Loops, LoopOut, LoopIn, LoopTakeOut,
        LoopPutBack
<1>1. CASE PressUpdate
    BY <1>1 DEF PressUpdate
<1>2. CASE PrepareNew
    BY <1>2, DiscardTakesAway DEF PrepareNew
<1>3. CASE PrepareOld
    BY <1>3, DiscardTakesAway DEF PrepareOld
<1>4. CASE MarkNew
    BY <1>4 DEF MarkNew
<1>5. CASE Stage
    BY <1>5 DEF Stage, Updated
<1>6. CASE StageFails
    BY <1>6 DEF StageFails
<1>7. CASE Plan
    BY <1>7 DEF Plan
<1>8. CASE MarkOld
    BY <1>8 DEF MarkOld
<1>9. CASE Restart
    BY <1>9 DEF Restart, Intact
<1>10. CASE DiscardStaged
    BY <1>10 DEF DiscardStaged
<1>11. CASE Close \/ CloseRefused
    BY <1>11 DEF Close, CloseRefused
<1>12. CASE AppDies
    BY <1>12 DEF AppDies
<1>13. CASE StartByHand
    BY <1>13 DEF StartByHand, Orderly
<1>14. CASE Finish
    <2>1. CASE opened
        BY <1>14, <2>1 DEF Finish
    <2>2. CASE ~opened /\ backup = Nothing
        BY <1>14, <2>2 DEF Finish
    <2>3. CASE ~opened /\ backup # Nothing
        <3>1. \A e \in Entries : Replaced(e)
            BY <1>14, <2>3 DEF Finish
        <3>2. app' = "finishOld"
            <4>1. oldDir = "marked" /\ running = "new"
                BY <1>14, <2>3, <3>1 DEF Finish
            <4>2. Missing = {}
                BY <3>1 DEF Missing
            <4> QED BY <1>14, <2>3, <4>1, <4>2 DEF Finish
        <3>4. opened'
            BY <1>14, <3>2 DEF Finish
        <3>3. target = Updated
            BY <3>1 DEF Updated
        <3> QED BY <1>14, <2>3, <3>2, <3>3, <3>4 DEF Finish
    <2> QED BY <2>1, <2>2, <2>3
<1>15. CASE FinishOld
    BY <1>15, DiscardTakesAway DEF FinishOld
<1>16. CASE FinishNew
    BY <1>16, DiscardTakesAway DEF FinishNew
<1>17. CASE TidyNew
    BY <1>17, DiscardTakesAway DEF TidyNew
<1>18. CASE TidyOld
    BY <1>18, DiscardTakesAway DEF TidyOld
<1>19. CASE HelperChecks
    BY <1>19 DEF HelperChecks, Intact
<1>20. CASE LoopDone
    BY <1>20 DEF LoopDone, AfterLoop
<1>21. CASE Relaunch
    BY <1>21 DEF Relaunch
<1>22. CASE HelperGivesUp
    BY <1>22 DEF HelperGivesUp
<1>23. CASE HelperKilled
    BY <1>23 DEF HelperKilled
<1>24. CASE PlayerBegins
    BY <1>24 DEF PlayerBegins, Updated
<1>25. CASE PlayerFinishes
    BY <1>25 DEF PlayerFinishes
<1>26. CASE \E e \in Entries : MoveOut(e)
    BY <1>26, OneFault DEF MoveOut, Handled, First, Last, Landed
<1>27. CASE \E e \in Entries : MoveIn(e)
    BY <1>27, OneFault DEF MoveIn, Handled, First, Last, Landed
<1>28. CASE \E e \in Entries : MoveFails(e)
    BY <1>28, OneFault DEF MoveFails, Handled, First, Last, Landed
<1>29. CASE \E e \in Entries : TakeOut(e)
    BY <1>29, OneFault DEF TakeOut, Handled, First, Last, Landed
<1>30. CASE \E e \in Entries : PutBack(e)
    BY <1>30, OneFault DEF PutBack, Handled, First, Last, Landed
<1>31. CASE \E e \in Entries : UndoFails(e)
    BY <1>31, OneFault DEF UndoFails, Handled, First, Last, Landed
<1>32. CASE \E e \in Entries : PlayerDeletes(e)
    BY <1>32, OneFault DEF PlayerDeletes, Handled, First, Last, Landed
<1>33. CASE \E e \in Entries : PlayerMoves(e)
    BY <1>33, OneFault DEF PlayerMoves, Handled, First, Last, Landed
<1>34. CASE UNCHANGED vars
    BY <1>34 DEF vars
<1> QED
    BY <1>1, <1>2, <1>3, <1>4, <1>5, <1>6, <1>7, <1>8, <1>9, <1>10, <1>11, <1>12,
       <1>13, <1>14, <1>15, <1>16, <1>17, <1>18, <1>19, <1>20, <1>21, <1>22, <1>23,
       <1>24, <1>25, <1>26, <1>27, <1>28, <1>29, <1>30, <1>31, <1>32, <1>33, <1>34
       DEF Next, AppNext, HelperWorks, PlayerNext

(***************************************************************************)
(* In an orderly update an install that can start is one whole build, the   *)
(* old or the new, wherever the helper is killed (cleanup.py: "With an      *)
(* executable present the only states are untouched, swap complete, and     *)
(* rollback complete").                                                     *)
(***************************************************************************)
THEOREM OrderlyInstallIsWhole ==
    ASSUME Orderly
    PROVE  Spec => []ExecutableMeansWhole
<1>1. TypeOK /\ IInv => ExecutableMeansWhole
    BY UpdateSwapAssumption, ContentFacts
       DEF TypeOK, IInv, Placed, ExeTells, AfterOpening, AtHome, Aside, Replaced,
           ExecutableMeansWhole, Original, Updated
<1>2. TypeOK /\ IInv /\ [Next]_vars => IInv'
    BY NextInv
<1> QED BY InitTyped, NextTyped, InitInv, <1>1, <1>2, PTL DEF Spec

(***************************************************************************)
(* In an orderly update every entry of the old build is in the install      *)
(* folder or in the backup until the new build has opened (cleanup.py).     *)
(***************************************************************************)
THEOREM OrderlyKeepsOldBuild ==
    ASSUME Orderly
    PROVE  Spec => []OldBuildKept
<1>1. IInv => OldBuildKept
    BY UpdateSwapAssumption
       DEF IInv, Placed, AtHome, Aside, Replaced, OldBuildKept, Original
<1>2. TypeOK /\ IInv /\ [Next]_vars => IInv'
    BY NextInv
<1> QED BY InitTyped, NextTyped, InitInv, <1>1, <1>2, PTL DEF Spec

(***************************************************************************)
(* In an orderly update the recovery steps put the old build back from      *)
(* every state that needs them.                                             *)
(***************************************************************************)
THEOREM OrderlyRecovery ==
    ASSUME Orderly
    PROVE  Spec => []RecoveryRestores
<1>1. TypeOK /\ IInv => RecoveryRestores
    <2> SUFFICES ASSUME TypeOK, IInv, ~HelperAlive,
                        target[Exe] = Absent \/ player # "idle"
                 PROVE  oldDir = "marked" /\ Recovered = Original
        BY DEF RecoveryRestores
    <2>1. ~opened
        BY UpdateSwapAssumption, ContentFacts DEF IInv, AfterOpening, Updated
    <2>2. \A e \in Entries : AtHome(e) \/ Aside(e) \/ Replaced(e)
        BY <2>1 DEF IInv, Placed
    <2>3. Exe \in Entries /\ (player = "idle" => backup[Exe] # Absent)
        BY <2>2, UpdateSwapAssumption, ContentFacts
           DEF AtHome, Aside, Replaced, Original
    <2>4. oldDir = "marked"
        BY <2>1, <2>3 DEF IInv, BackupMarked, Nothing
    <2>5. \A e \in Entries :
             (IF backup[e] # Absent THEN backup[e]
              ELSE IF e \in Shipped THEN target[e] ELSE Absent) = Original[e]
        BY <2>2, UpdateSwapAssumption, ContentFacts
           DEF AtHome, Aside, Replaced, Original
    <2> QED BY <2>4, <2>5 DEF Recovered, Original
<1>2. TypeOK /\ IInv /\ [Next]_vars => IInv'
    BY NextInv
<1> QED BY InitTyped, NextTyped, InitInv, <1>1, <1>2, PTL DEF Spec

-----------------------------------------------------------------------------
(* The orderly update implements AtomicInstall. *)

\* The executable and the player's progress say what the whole install is.
LEMMA InstallShown ==
    ASSUME TypeOK, IInv
    PROVE  Install = IF target[Exe] = Absent \/ player # "idle" THEN "none"
                     ELSE target[Exe]
BY UpdateSwapAssumption, ContentFacts
   DEF TypeOK, IInv, Placed, ExeTells, AfterOpening, AtHome, Aside, Replaced,
       Install, Original, Updated

\* The same of the next state.
LEMMA InstallShownNext ==
    ASSUME TypeOK', IInv'
    PROVE  Install' = IF target'[Exe] = Absent \/ player' # "idle" THEN "none"
                      ELSE target'[Exe]
BY UpdateSwapAssumption, ContentFacts
   DEF TypeOK, IInv, Placed, ExeTells, AfterOpening, AtHome, Aside, Replaced,
       Install, Original, Updated

\* An install that can start stays as it is, or the old build is taken down.
LEMMA OnlyTheOldComesDown ==
    ASSUME Orderly, TypeOK, IInv, [Next]_vars,
           target[Exe] # Absent, player = "idle"
    PROVE  \/ target'[Exe] = target[Exe] /\ player' = "idle"
           \/ target[Exe] = "old" /\ target'[Exe] = Absent
<1> USE ContentFacts, UpdateSwapAssumption DEF places, theApp, theHelper
<1>1. CASE \E e \in Entries : MoveOut(e)
    BY <1>1 DEF MoveOut, IInv, Loops, LoopOut, AtHome, Aside, Original, TypeOK
<1>2. CASE \E e \in Entries : MoveIn(e)
    BY <1>2 DEF MoveIn, Last, IInv, Loops, LoopIn, Aside, Replaced, TypeOK
<1>3. CASE \E e \in Entries : TakeOut(e)
    BY <1>3 DEF TakeOut, IInv, Loops, LoopTakeOut, TypeOK
<1>4. CASE \E e \in Entries : PutBack(e)
    BY <1>4 DEF PutBack, IInv, Loops, LoopPutBack, AtHome, Aside, TypeOK
<1>5. CASE \E e \in Entries : MoveFails(e) \/ UndoFails(e)
    BY <1>5 DEF MoveFails, UndoFails
<1>6. CASE \E e \in Entries : PlayerDeletes(e) \/ PlayerMoves(e)
    BY <1>6 DEF PlayerDeletes, PlayerMoves
<1>7. CASE PlayerNext /\ ~\E e \in Entries : PlayerDeletes(e) \/ PlayerMoves(e)
    BY <1>7 DEF PlayerNext, PlayerBegins, PlayerFinishes
<1>8. CASE AppNext
    BY <1>8
       DEF AppNext, PressUpdate, PrepareNew, PrepareOld, MarkNew, Stage, StageFails,
           Plan, MarkOld, Restart, DiscardStaged, Close, CloseRefused, AppDies, StartByHand,
           Finish, FinishOld, FinishNew, TidyNew, TidyOld
<1>9. CASE HelperChecks \/ LoopDone \/ Relaunch \/ HelperGivesUp \/ HelperKilled
    BY <1>9 DEF HelperChecks, LoopDone, Relaunch, HelperGivesUp, HelperKilled
<1>10. CASE UNCHANGED vars
    BY <1>10 DEF vars
<1> QED
    BY <1>1, <1>2, <1>3, <1>4, <1>5, <1>6, <1>7, <1>8, <1>9, <1>10
       DEF Next, HelperWorks, PlayerNext

\* What can be in the executable's place.
LEMMA ExeIsOneOf ==
    ASSUME TypeOK, IInv
    PROVE  target[Exe] \in {"old", "new", Absent}
BY UpdateSwapAssumption, ContentFacts
   DEF IInv, Placed, AfterOpening, AtHome, Aside, Replaced, Original, Updated

\* The same of the next state.
LEMMA ExeIsOneOfNext ==
    ASSUME TypeOK', IInv'
    PROVE  target'[Exe] \in {"old", "new", Absent}
BY UpdateSwapAssumption, ContentFacts
   DEF IInv, Placed, AfterOpening, AtHome, Aside, Replaced, Original, Updated

(***************************************************************************)
(* The orderly update, with its helper, its deaths and its recovery, is one *)
(* build taken down and one put up.                                         *)
(***************************************************************************)
THEOREM OrderlySwapIsAtomic ==
    ASSUME Orderly
    PROVE  Spec => SwapIsAtomic
<1>1. Init => Promise!Init
    BY UpdateSwapAssumption, ContentFacts DEF Init, Promise!Init, Install, Original
<1>2. TypeOK /\ TypeOK' /\ IInv /\ IInv' /\ [Next]_vars => [Promise!Next]_Install
    <2> SUFFICES ASSUME TypeOK, TypeOK', IInv, IInv', [Next]_vars
                 PROVE  [Promise!Next]_Install
        OBVIOUS
    <2> USE UpdateSwapAssumption, InstallShown, InstallShownNext, ExeIsOneOf,
            ExeIsOneOfNext DEF Promise!Next, Promise!TakeDown, Promise!PutUp
    <2>1. CASE target[Exe] # Absent /\ player = "idle"
        BY <2>1, OnlyTheOldComesDown
    <2>2. CASE target[Exe] = Absent \/ player # "idle"
        BY <2>2
    <2> QED BY <2>1, <2>2
<1>3. TypeOK /\ IInv /\ [Next]_vars => IInv'
    BY NextInv
<1> QED
    BY InitTyped, NextTyped, InitInv, <1>1, <1>2, <1>3, PTL
       DEF Spec, SwapIsAtomic, Promise!Spec

-----------------------------------------------------------------------------
(* What holds of a rough update too, in which anything may fail or be started. *)

\* The app prepares and stages while no helper runs; the player recovers while
\* nothing does.
OneAtWork ==
    /\ app \in {"prepareNew", "prepareOld", "markNew", "staging", "planning", "markOld", "ready"}
         => ~HelperAlive
    /\ player # "idle" => app = "closed" /\ ~HelperAlive

\* A helper begins with a full staging folder and an empty backup, of which a copy
\* of Yu'lon started by hand may take away.
BeginsClean ==
    /\ app \in {"planning", "markOld", "ready"} => staged = Updated
    /\ app \in {"markOld", "ready"} => backup = Nothing
    /\ helper = "waiting" => backup = Nothing
    /\ helper \in {"waiting", "moveOut", "moveIn"} =>
         \A e \in Entries : staged[e] \in {Absent, "new"}

\* So there is room for what it moves, but for a new entry that an undo could not
\* take out.
RoomForMoves ==
    /\ helper = "moveOut" =>
         \A e \in Entries : IF e \in moved THEN target[e] = Absent ELSE backup[e] = Absent
    /\ helper = "moveIn" =>
         \A e \in Entries : target[e] = IF e \in moved THEN "new" ELSE Absent
    /\ helper \in {"takeOut", "putBack"} =>
         \A e \in Entries : target[e] = Absent \/ backup[e] = Absent \/ target[e] = "new"

RoughInv == TypeOK /\ OneAtWork /\ BeginsClean /\ RoomForMoves

\* At first the app is open and no helper was started.
LEMMA RoughStarts == Init => RoughInv
BY InitTyped DEF Init, RoughInv, OneAtWork, BeginsClean, RoomForMoves, HelperAlive

\* Every step keeps it, whatever fails and whoever starts what.
LEMMA RoughHolds == RoughInv /\ [Next]_vars => RoughInv'
<1> SUFFICES ASSUME RoughInv, [Next]_vars
             PROVE  OneAtWork' /\ BeginsClean' /\ RoomForMoves'
    BY NextTyped DEF RoughInv
<1> USE ContentFacts, UpdateSwapAssumption
    DEF RoughInv, TypeOK, OneAtWork, BeginsClean, RoomForMoves, HelperAlive, Nothing, Updated,
        places, dirs, theHelper, theApp
<1>1. CASE PressUpdate
    BY <1>1 DEF PressUpdate
<1>2. CASE PrepareNew
    BY <1>2, DiscardTakesAway DEF PrepareNew
<1>3. CASE PrepareOld
    BY <1>3, DiscardTakesAway DEF PrepareOld
<1>4. CASE MarkNew
    BY <1>4 DEF MarkNew
<1>5. CASE Stage
    BY <1>5 DEF Stage
<1>6. CASE StageFails
    BY <1>6 DEF StageFails
<1>7. CASE Plan
    BY <1>7 DEF Plan
<1>8. CASE MarkOld
    BY <1>8 DEF MarkOld
<1>9. CASE Restart
    BY <1>9 DEF Restart
<1>10. CASE DiscardStaged
    BY <1>10 DEF DiscardStaged
<1>11. CASE Close \/ CloseRefused
    BY <1>11 DEF Close, CloseRefused
<1>12. CASE AppDies
    BY <1>12 DEF AppDies
<1>13. CASE StartByHand
    BY <1>13 DEF StartByHand
<1>14. CASE Finish
    BY <1>14 DEF Finish
<1>15. CASE FinishOld
    BY <1>15, DiscardTakesAway DEF FinishOld
<1>16. CASE FinishNew
    BY <1>16, DiscardTakesAway DEF FinishNew
<1>17. CASE TidyNew
    BY <1>17, DiscardTakesAway DEF TidyNew
<1>18. CASE TidyOld
    BY <1>18, DiscardTakesAway DEF TidyOld
<1>19. CASE HelperChecks
    BY <1>19 DEF HelperChecks
<1>20. CASE LoopDone
    BY <1>20 DEF LoopDone, AfterLoop
<1>21. CASE Relaunch
    BY <1>21 DEF Relaunch
<1>22. CASE HelperGivesUp
    BY <1>22 DEF HelperGivesUp
<1>23. CASE HelperKilled
    BY <1>23 DEF HelperKilled
<1>24. CASE PlayerBegins
    BY <1>24 DEF PlayerBegins
<1>25. CASE PlayerFinishes
    BY <1>25 DEF PlayerFinishes
<1>26. CASE \E e \in Entries : MoveOut(e)
    BY <1>26 DEF MoveOut, Handled, Landed
<1>27. CASE \E e \in Entries : MoveIn(e)
    BY <1>27 DEF MoveIn, Handled, Landed, Last
<1>28. CASE \E e \in Entries : MoveFails(e)
    BY <1>28 DEF MoveFails, Handled
<1>29. CASE \E e \in Entries : TakeOut(e)
    BY <1>29 DEF TakeOut, Handled
<1>30. CASE \E e \in Entries : PutBack(e)
    BY <1>30 DEF PutBack, Handled, Landed
<1>31. CASE \E e \in Entries : UndoFails(e)
    BY <1>31 DEF UndoFails, Handled
<1>32. CASE \E e \in Entries : PlayerDeletes(e)
    BY <1>32 DEF PlayerDeletes, Handled
<1>33. CASE \E e \in Entries : PlayerMoves(e)
    BY <1>33 DEF PlayerMoves, Handled
<1>34. CASE UNCHANGED vars
    BY <1>34 DEF vars
<1> QED
    BY <1>1, <1>2, <1>3, <1>4, <1>5, <1>6, <1>7, <1>8, <1>9, <1>10, <1>11, <1>12,
       <1>13, <1>14, <1>15, <1>16, <1>17, <1>18, <1>19, <1>20, <1>21, <1>22, <1>23,
       <1>24, <1>25, <1>26, <1>27, <1>28, <1>29, <1>30, <1>31, <1>32, <1>33, <1>34
       DEF Next, AppNext, HelperWorks, PlayerNext

(***************************************************************************)
(* A step of the helper never destroys the last copy of an old entry:       *)
(* however many moves fail, though copies of Yu'lon are started while it    *)
(* works and though deletes stop part-way (swap.py).                        *)
(***************************************************************************)
THEOREM HelpersLoseNothing == Spec => HelperOnlyMoves
<1> DEFINE Keeps == HelperAlive /\ app' = app /\ player' = player
                      => \A e \in Shipped : OnDisk(e) => OnDisk(e)'
<1>1. RoughInv /\ [Next]_vars => [Keeps]_vars
    <2> SUFFICES ASSUME RoughInv, Next, HelperAlive, app' = app, player' = player,
                        NEW e \in Shipped, OnDisk(e)
                 PROVE  OnDisk(e)'
        OBVIOUS
    <2> USE ContentFacts, UpdateSwapAssumption DEF places, theHelper, theApp
    <2>1. ~AppNext
        BY DEF AppNext, PressUpdate, PrepareNew, PrepareOld, MarkNew, Stage, StageFails, Plan,
               MarkOld, Restart, DiscardStaged, Close, CloseRefused, AppDies, StartByHand,
               Finish, FinishOld, FinishNew, TidyNew, TidyOld
    <2>2. ~PlayerNext
        BY DEF PlayerNext, PlayerBegins, PlayerFinishes, PlayerDeletes, PlayerMoves, RoughInv,
               OneAtWork
    <2>3. CASE \E f \in Entries : MoveOut(f)
        BY <2>3 DEF MoveOut, First, Landed, OnDisk, RoughInv, TypeOK, RoomForMoves
    <2>4. CASE \E f \in Entries : MoveIn(f)
        BY <2>4 DEF MoveIn, Last, Landed, OnDisk, RoughInv, TypeOK, RoomForMoves
    <2>5. CASE \E f \in Entries : TakeOut(f)
        BY <2>5 DEF TakeOut, OnDisk, RoughInv, TypeOK
    <2>6. CASE \E f \in Entries : PutBack(f)
        BY <2>6 DEF PutBack, Landed, OnDisk, RoughInv, TypeOK, RoomForMoves
    <2>7. CASE \E f \in Entries : MoveFails(f) \/ UndoFails(f)
        BY <2>7 DEF MoveFails, UndoFails, OnDisk
    <2>8. CASE HelperChecks \/ LoopDone \/ Relaunch \/ HelperGivesUp \/ HelperKilled
        BY <2>8 DEF HelperChecks, LoopDone, Relaunch, HelperGivesUp, HelperKilled, OnDisk
    <2> QED
        BY <2>1, <2>2, <2>3, <2>4, <2>5, <2>6, <2>7, <2>8 DEF Next, HelperWorks
<1> QED BY RoughStarts, RoughHolds, <1>1, PTL DEF Spec, HelperOnlyMoves

-----------------------------------------------------------------------------
(* What is in a working folder that lost its marker. *)

\* Nothing is staged where a folder is being made, and only a marked one is filled.
FilledIsMarked ==
    /\ app = "prepareOld" => staged = Nothing
    /\ app = "staging" => newDir = "marked"

\* A staging folder whose delete stopped half-way has no helper moving out of it.
SpentAtRest ==
    newDir = "unmarked" /\ staged # Nothing =>
        ~HelperAlive /\ player = "idle" /\ target \in {Original, Updated}

FolderInv == TypeOK /\ IInv /\ FilledIsMarked /\ SpentAtRest

\* There is no working folder at first.
LEMMA FoldersStart == Init => FolderInv
BY InitTyped, InitInv DEF Init, FolderInv, FilledIsMarked, SpentAtRest

\* While the app is past its start, nobody else works and the install is one build.
LEMMA AppAlone ==
    ASSUME TypeOK, IInv, app \notin {"closed", "starting", "closing", "refused"}
    PROVE  ~HelperAlive /\ player = "idle" /\ target \in {Original, Updated}
<1>1. CASE opened
    BY <1>1 DEF IInv, AfterOpening
<1>2. CASE ~opened
    <2>1. \A e \in Entries : target[e] = Original[e]
        BY <1>2 DEF IInv, AppAtWork, AtHome
    <2>2. target = Original
        BY <2>1 DEF TypeOK, Original
    <2> QED BY <2>2 DEF IInv, HelperAtWork, PlayerAtWork
<1> QED BY <1>1, <1>2

\* Every step of an orderly update keeps it, wherever a delete stops.
LEMMA FoldersHold == Orderly /\ FolderInv /\ [Next]_vars => FolderInv'
<1> SUFFICES ASSUME Orderly, FolderInv, [Next]_vars PROVE FilledIsMarked' /\ SpentAtRest'
    BY NextTyped, NextInv DEF FolderInv
<1> USE ContentFacts DEF places, dirs, theHelper, theApp
<1>1. CASE PrepareNew
    <2>1. ~HelperAlive /\ player = "idle" /\ target \in {Original, Updated}
        BY <1>1, AppAlone DEF FolderInv, PrepareNew
    <2>2. ~HelperAlive' /\ player' = "idle" /\ target' \in {Original, Updated}
        BY <1>1, <2>1 DEF PrepareNew, HelperAlive, Original, Updated
    <2>3. app' = "prepareOld" => staged' = Nothing
        BY <1>1 DEF PrepareNew, Discard
    <2> QED BY <1>1, <2>2, <2>3 DEF FilledIsMarked, SpentAtRest, PrepareNew
<1>2. CASE FinishNew \/ TidyNew
    <2>1. ~HelperAlive /\ player = "idle" /\ target \in {Original, Updated}
        BY <1>2, AppAlone DEF FolderInv, FinishNew, TidyNew
    <2>2. ~HelperAlive' /\ player' = "idle" /\ target' \in {Original, Updated}
        BY <1>2, <2>1 DEF FinishNew, TidyNew, HelperAlive, Original, Updated
    <2> QED BY <1>2, <2>2 DEF FilledIsMarked, SpentAtRest, FinishNew, TidyNew
<1>3. CASE PrepareOld
    <2>1. staged' = Nothing
        BY <1>3 DEF FolderInv, FilledIsMarked, PrepareOld, Nothing
    <2> QED BY <1>3, <2>1 DEF FilledIsMarked, SpentAtRest, PrepareOld, Nothing
<1>4. CASE MarkNew
    BY <1>4 DEF MarkNew, FilledIsMarked, SpentAtRest
<1>5. CASE Stage
    BY <1>5 DEF Stage, FolderInv, FilledIsMarked, SpentAtRest
<1>6. CASE Restart
    BY <1>6 DEF Restart, Intact, FilledIsMarked, SpentAtRest
<1>7. CASE PlayerFinishes
    BY <1>7 DEF PlayerFinishes, FolderInv, FilledIsMarked, SpentAtRest, IInv, PlayerAtWork,
                Nothing
<1>8. CASE PlayerBegins
    <2>1. target \notin {Original, Updated}
        BY <1>8, UpdateSwapAssumption DEF PlayerBegins, Original, Updated
    <2> QED BY <1>8, <2>1 DEF PlayerBegins, FolderInv, FilledIsMarked, SpentAtRest
<1>9. CASE \E e \in Entries : PlayerDeletes(e) \/ PlayerMoves(e)
    BY <1>9 DEF PlayerDeletes, PlayerMoves, FolderInv, FilledIsMarked, SpentAtRest
<1>10. CASE \E e \in Entries : \/ MoveOut(e) \/ MoveIn(e) \/ MoveFails(e)
                               \/ TakeOut(e) \/ PutBack(e) \/ UndoFails(e)
    <2>1. newDir' = "marked" /\ app' = "closed"
        BY <1>10 DEF MoveOut, MoveIn, MoveFails, TakeOut, PutBack, UndoFails, FolderInv, IInv,
                     HelperAtWork, Moving, HelperAlive
    <2> QED BY <2>1 DEF FilledIsMarked, SpentAtRest
<1>11. CASE HelperChecks \/ LoopDone \/ Relaunch \/ HelperGivesUp \/ HelperKilled
    BY <1>11 DEF HelperChecks, LoopDone, AfterLoop, Relaunch, HelperGivesUp, HelperKilled, Intact,
                 FolderInv, FilledIsMarked, SpentAtRest, HelperAlive
<1>12. CASE PressUpdate \/ StageFails \/ Plan \/ MarkOld \/ DiscardStaged \/ Close
            \/ CloseRefused \/ AppDies
    BY <1>12 DEF PressUpdate, StageFails, Plan, MarkOld, DiscardStaged, Close, CloseRefused,
                 AppDies, FolderInv, FilledIsMarked, SpentAtRest, HelperAlive
<1>13. CASE StartByHand \/ Finish \/ FinishOld \/ TidyOld
    BY <1>13 DEF StartByHand, Finish, FinishOld, TidyOld, FolderInv, FilledIsMarked,
                 SpentAtRest, HelperAlive
<1>14. CASE UNCHANGED vars
    BY <1>14 DEF vars, FolderInv, FilledIsMarked, SpentAtRest, HelperAlive
<1> QED
    BY <1>1, <1>2, <1>3, <1>4, <1>5, <1>6, <1>7, <1>8, <1>9, <1>10, <1>11, <1>12, <1>13, <1>14
       DEF Next, AppNext, HelperWorks, PlayerNext

(***************************************************************************)
(* In an orderly update whose deletes may stop anywhere, a working folder   *)
(* that lost its marker, and that no later start or press will touch, holds *)
(* nothing that is still wanted (layout.discard_ours).                      *)
(***************************************************************************)
THEOREM OrderlyLeavesOnlyWaste ==
    ASSUME Orderly
    PROVE  Spec => []UnprovenIsUnwanted
<1>1. FolderInv /\ [Next]_vars => FolderInv'
    BY FoldersHold
<1>2. FolderInv => UnprovenIsUnwanted
    BY DEF FolderInv, SpentAtRest, UnprovenIsUnwanted, IInv, AfterOpening, BackupMarked
<1> QED BY FoldersStart, <1>1, <1>2, PTL DEF Spec
=============================================================================
