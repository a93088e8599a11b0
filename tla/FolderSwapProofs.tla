-------------------------- MODULE FolderSwapProofs --------------------------
(***************************************************************************)
(* What FolderSwap keeps, for every set of versions, every number of        *)
(* refusals and whichever presses leftovers resist deletion at.             *)
(***************************************************************************)
EXTENDS FolderSwap, TLAPS

\* What each step of a press may rely on from the steps before it.
StepInv ==
    /\ step \in {"resettle", "resettleAside", "prepare", "copying", "moveAside", "moveIn"}
         => job \in Versions
    /\ step = "copying" => partial = [version |-> job, whole |-> FALSE]
    /\ step \in {"moveAside", "moveIn"} => partial = [version |-> job, whole |-> TRUE]
    /\ step = "moveIn" => dest = Absent
    /\ step = "dropAside" => dest # Absent

IInv == TypeOK /\ StepInv /\ OwnedCopyKept

\* A copy is never Absent, and damaging one leaves a copy.
LEMMA CopyFacts ==
    /\ \A c \in Copy : c # Absent /\ Damaged(c) \in Copy
    /\ \A v \in Versions, w \in BOOLEAN :
         [version |-> v, whole |-> w] \in Copy /\ v # Absent
BY FolderSwapAssumption DEF Copy, Damaged

\* Nothing is installed, and nothing is on disk, before the first press.
LEMMA InitInv == Init => IInv
<1> SUFFICES ASSUME Init PROVE IInv
    OBVIOUS
<1>1. TypeOK
    <2>1. refusals \in 0..MaxRefusals
        BY FolderSwapAssumption DEF Init
    <2>2. hadOne \in BOOLEAN /\ step \in Steps
        BY DEF Init, Steps
    <2>3. /\ dest \in Place /\ aside \in Place /\ partial \in Place
          /\ job \in Versions \cup {Absent} /\ owned \in Versions \cup {Absent}
        BY DEF Init, Place
    <2> QED BY <2>1, <2>2, <2>3 DEF TypeOK
<1>2. StepInv /\ OwnedCopyKept
    BY DEF Init, StepInv, OwnedCopyKept
<1> QED BY <1>1, <1>2 DEF IInv

\* A refusal is counted, up to the bound.
LEMMA RefusalCounted == TypeOK /\ Refuse => refusals' \in 0..MaxRefusals
BY FolderSwapAssumption DEF Refuse, TypeOK

\* A quiet delete leaves a place of the right shape.
LEMMA QuietDelete ==
    ASSUME TypeOK, NEW place \in Place, NEW left, RemoveQuietly(place, left)
    PROVE  left \in Place /\ refusals' \in 0..MaxRefusals
BY CopyFacts, FolderSwapAssumption
   DEF RemoveQuietly, Refuse, TypeOK, Place

\* Every step of every press keeps the invariant.
LEMMA NextInv == IInv /\ [Next]_vars => IInv'
<1> SUFFICES ASSUME IInv, [Next]_vars PROVE IInv'
    OBVIOUS
<1> USE FolderSwapAssumption, CopyFacts
<1>0. TypeOK /\ StepInv /\ OwnedCopyKept
    BY DEF IInv
<1>1. CASE Press
    BY <1>0, <1>1 DEF Press, disk, IInv, TypeOK, StepInv, OwnedCopyKept, InForce, Steps
<1>2. CASE SettlePartial
    <2>1. partial' \in Place /\ refusals' \in 0..MaxRefusals
        BY <1>0, <1>2, QuietDelete DEF SettlePartial, TypeOK
    <2> QED
        BY <1>0, <1>2, <2>1
           DEF SettlePartial, IInv, TypeOK, StepInv, OwnedCopyKept, InForce, Steps
<1>3. CASE SettleAside
    <2>1. CASE aside = Absent /\ UNCHANGED <<dest, aside, refusals>>
        BY <1>0, <1>3, <2>1
           DEF SettleAside, Settled, IInv, TypeOK, StepInv, OwnedCopyKept, InForce, Steps
    <2>2. CASE /\ aside # Absent /\ dest # Absent
               /\ RemoveQuietly(aside, aside') /\ UNCHANGED dest
        <3>1. aside' \in Place /\ refusals' \in 0..MaxRefusals
            BY <1>0, <2>2, QuietDelete DEF TypeOK
        <3> QED
            BY <1>0, <1>3, <2>2, <3>1
               DEF SettleAside, Settled, IInv, TypeOK, StepInv, OwnedCopyKept, InForce, Steps
    <2>3. CASE /\ aside # Absent /\ dest = Absent
               /\ dest' = aside /\ aside' = Absent /\ UNCHANGED refusals
        BY <1>0, <1>3, <2>3
           DEF SettleAside, Settled, IInv, TypeOK, StepInv, OwnedCopyKept, InForce, Steps, Place
    <2> QED BY <1>3, <2>1, <2>2, <2>3 DEF SettleAside
<1>4. CASE SettleRefused
    BY <1>0, <1>4
       DEF SettleRefused, Refuse, disk, IInv, TypeOK, StepInv, OwnedCopyKept, InForce, Steps
<1>5. CASE StartCopy
    <2>1. job \in Versions
        BY <1>0, <1>5 DEF StartCopy, StepInv
    <2>2. [version |-> job, whole |-> FALSE] \in Place
        BY <2>1 DEF Place
    <2>3. TypeOK'
        BY <1>0, <1>5, <2>2, RefusalCounted DEF StartCopy, TypeOK, Steps
    <2>4. StepInv'
        BY <1>0, <1>5, <2>1 DEF StartCopy, StepInv
    <2>5. OwnedCopyKept'
        BY <1>0, <1>5 DEF StartCopy, OwnedCopyKept, InForce
    <2> QED BY <2>3, <2>4, <2>5 DEF IInv
<1>6. CASE FinishCopy
    <2>1. job \in Versions
        BY <1>0, <1>6 DEF FinishCopy, StepInv
    <2>2. [version |-> job, whole |-> TRUE] \in Place
        BY <2>1 DEF Place
    <2>3. TypeOK'
        BY <1>0, <1>6, <2>2, RefusalCounted DEF FinishCopy, TypeOK, Steps
    <2>4. StepInv'
        BY <1>0, <1>6, <2>1 DEF FinishCopy, StepInv
    <2>5. OwnedCopyKept'
        BY <1>0, <1>6 DEF FinishCopy, OwnedCopyKept, InForce
    <2> QED BY <2>3, <2>4, <2>5 DEF IInv
<1>7. CASE MoveAside
    BY <1>0, <1>7
       DEF MoveAside, RenameRefused, Refuse, IInv, TypeOK, StepInv, OwnedCopyKept,
           InForce, Steps, Place
<1>8. CASE MoveIn
    <2>1. /\ job \in Versions /\ job # Absent
          /\ partial = [version |-> job, whole |-> TRUE] /\ partial # Absent
        BY <1>0, <1>8 DEF MoveIn, StepInv
    <2>2. TypeOK'
        BY <1>0, <1>8, <2>1, RefusalCounted
           DEF MoveIn, RenameRefused, TypeOK, Steps, Place
    <2>3. StepInv'
        BY <1>0, <1>8, <2>1 DEF MoveIn, StepInv
    <2>4. OwnedCopyKept'
        BY <1>0, <1>8, <2>1 DEF MoveIn, OwnedCopyKept, InForce
    <2> QED BY <2>2, <2>3, <2>4 DEF IInv
<1>9. CASE PutBack
    BY <1>0, <1>9
       DEF PutBack, Refuse, IInv, TypeOK, StepInv, OwnedCopyKept, InForce, Steps, Place
<1>10. CASE DropPartial
    <2>1. partial' \in Place /\ refusals' \in 0..MaxRefusals
        BY <1>0, <1>10, QuietDelete DEF DropPartial, TypeOK
    <2> QED
        BY <1>0, <1>10, <2>1
           DEF DropPartial, IInv, TypeOK, StepInv, OwnedCopyKept, InForce, Steps
<1>11. CASE DropAside
    <2>1. aside' \in Place /\ refusals' \in 0..MaxRefusals
        BY <1>0, <1>11, QuietDelete DEF DropAside, TypeOK
    <2> QED
        BY <1>0, <1>11, <2>1
           DEF DropAside, IInv, TypeOK, StepInv, OwnedCopyKept, InForce, Steps
<1>12. CASE Delete
    BY <1>0, <1>12
       DEF Delete, Refuse, IInv, TypeOK, StepInv, OwnedCopyKept, InForce, Steps, Place
<1>13. CASE Crash
    BY <1>0, <1>13 DEF Crash, disk, IInv, TypeOK, StepInv, OwnedCopyKept, InForce, Steps
<1>14. CASE UNCHANGED vars
    BY <1>0, <1>14
       DEF vars, IInv, TypeOK, StepInv, OwnedCopyKept, InForce
<1> QED
    BY <1>1, <1>2, <1>3, <1>4, <1>5, <1>6, <1>7, <1>8, <1>9, <1>10, <1>11, <1>12,
       <1>13, <1>14 DEF Next

\* Every variable keeps its shape through any sequence of presses and crashes.
THEOREM FolderSwapTyped == Spec => []TypeOK
<1>1. IInv => TypeOK BY DEF IInv
<1> QED BY InitInv, NextInv, <1>1, PTL DEF Spec

\* folder_swap.py's promise, whatever the file system refuses and wherever the
\* process ends: the version the player has is whole and is what settle leaves.
THEOREM OwnedCopySafe == Spec => []OwnedCopyKept
<1>1. IInv => OwnedCopyKept BY DEF IInv
<1> QED BY InitInv, NextInv, <1>1, PTL DEF Spec

-----------------------------------------------------------------------------
(* A removal that goes through: no leftover outlives it. *)

\* Nothing that settling deletes resists while a removal is pressed.
RemovalsGoThrough == "remove" \notin Resisting

Ruined(place) == place = Absent \/ ~place.whole

\* A module that was removed has no whole copy at a place settling puts back from.
RemovedIsRuined ==
    /\ owned = Absent => Ruined(dest) /\ Ruined(aside)
    /\ step = "delete" => aside = Absent /\ job = Absent

CleanInv == IInv /\ RemovedIsRuined

\* What a stopped delete leaves is not whole.
LEMMA DamagedIsRuined == \A c \in Copy : Ruined(Damaged(c))
BY DEF Copy, Damaged, Ruined

\* No copy has been removed at the start.
LEMMA CleanStarts == Init => CleanInv
BY InitInv DEF Init, CleanInv, RemovedIsRuined, Ruined

\* Only Delete forgets what the player owns, and it finds nothing aside.
LEMMA CleanHolds ==
    ASSUME RemovalsGoThrough PROVE CleanInv /\ [Next]_vars => CleanInv'
<1> SUFFICES ASSUME CleanInv, [Next]_vars PROVE RemovedIsRuined'
    BY NextInv DEF CleanInv
<1> USE FolderSwapAssumption, CopyFacts, DamagedIsRuined
    DEF CleanInv, IInv, TypeOK, RemovedIsRuined, disk, Place
<1>1. CASE Press
    BY <1>1 DEF Press
<1>2. CASE SettlePartial
    BY <1>2 DEF SettlePartial
<1>3. CASE SettleAside
    BY <1>3 DEF SettleAside, Settled, RemoveQuietly, Pressed, RemovalsGoThrough, Ruined
<1>4. CASE SettleRefused
    BY <1>4 DEF SettleRefused
<1>5. CASE StartCopy
    BY <1>5 DEF StartCopy
<1>6. CASE FinishCopy
    BY <1>6 DEF FinishCopy
<1>7. CASE MoveAside
    BY <1>7 DEF MoveAside, Ruined
<1>8. CASE MoveIn
    BY <1>8 DEF MoveIn, StepInv
<1>9. CASE PutBack
    BY <1>9 DEF PutBack
<1>10. CASE DropPartial
    BY <1>10 DEF DropPartial
<1>11. CASE DropAside
    BY <1>11 DEF DropAside, RemoveQuietly, Ruined
<1>12. CASE Delete
    BY <1>12 DEF Delete, Ruined
<1>13. CASE Crash
    BY <1>13 DEF Crash
<1>14. CASE UNCHANGED vars
    BY <1>14 DEF vars
<1> QED
    BY <1>1, <1>2, <1>3, <1>4, <1>5, <1>6, <1>7, <1>8, <1>9, <1>10, <1>11, <1>12,
       <1>13, <1>14 DEF Next

(***************************************************************************)
(* If leftovers do not resist a removal, what settling puts back is the     *)
(* whole copy the player owns or the ruins of a removed one, whatever else  *)
(* is refused and wherever the process ends.                                *)
(***************************************************************************)
THEOREM RemovedStaysRemoved ==
    ASSUME RemovalsGoThrough
    PROVE  Spec => OnlyTheOwnedCopyIsPutBack
<1> DEFINE PutsBack == step \in {"settleAside", "resettleAside"} /\ dest = Absent /\ dest' # Absent
           OwnedOrRuins == IF owned = Absent THEN ~dest'.whole
                           ELSE dest' = [version |-> owned, whole |-> TRUE]
<1>1. CleanInv /\ [Next]_vars => CleanInv'
    BY CleanHolds
<1>2. CleanInv /\ [Next]_vars => [PutsBack => OwnedOrRuins]_vars
    <2> SUFFICES ASSUME CleanInv, Next, PutsBack
                 PROVE  OwnedOrRuins
        OBVIOUS
    <2>1. dest' = aside /\ aside # Absent
        BY DEF Next, Press, SettlePartial, SettleAside, SettleRefused, StartCopy, FinishCopy,
               MoveAside, MoveIn, PutBack, DropPartial, DropAside, Delete, Crash, disk
    <2> QED
        BY <2>1
           DEF CleanInv, IInv, OwnedCopyKept, InForce, RemovedIsRuined, Ruined
<1> QED BY CleanStarts, <1>1, <1>2, PTL DEF Spec, OnlyTheOwnedCopyIsPutBack

-----------------------------------------------------------------------------
(* The refinement: a swap is one change of the module's folder, or none. *)

\* Before the first press there is no module.
LEMMA PromiseStarts == Init => Promise!Init
BY DEF Init, Promise!Init, folderNow, InForce

\* MoveIn is the install, Delete removes files, and all else leaves the folder.
LEMMA PromiseKept ==
    ASSUME CleanInv, [Next]_vars
    PROVE  [Promise!Next]_(Promise!vars)
<1> USE FolderSwapAssumption, CopyFacts
    DEF CleanInv, IInv, disk, folderNow, InForce, Promise!Next, Promise!vars, Promise!Install,
        Promise!StartRemoving, Promise!RemoveFiles, Promise!StopRemoving
<1>1. CASE Press
    BY <1>1 DEF Press
<1>2. CASE SettlePartial
    BY <1>2 DEF SettlePartial
<1>3. CASE SettleAside
    BY <1>3 DEF SettleAside, Settled
<1>4. CASE SettleRefused
    BY <1>4 DEF SettleRefused
<1>5. CASE StartCopy
    BY <1>5 DEF StartCopy
<1>6. CASE FinishCopy
    BY <1>6 DEF FinishCopy
<1>7. CASE MoveAside
    BY <1>7 DEF MoveAside
<1>8. CASE MoveIn
    BY <1>8 DEF MoveIn, StepInv
<1>9. CASE PutBack
    BY <1>9 DEF PutBack
<1>10. CASE DropPartial
    BY <1>10 DEF DropPartial
<1>11. CASE DropAside
    BY <1>11 DEF DropAside, StepInv
<1>12. CASE Delete
    <2>1. aside = Absent
        BY <1>12 DEF Delete, RemovedIsRuined
    <2>2. CASE dest' = Absent /\ step' = "idle"
        BY <1>12, <2>1, <2>2 DEF Delete
    <2>3. CASE dest # Absent /\ dest' = Damaged(dest)
        <3>1. dest \in Copy
            BY <2>3 DEF TypeOK, Place
        <3>2. dest' # Absent /\ ~dest'.whole
            BY <2>3, <3>1, DamagedIsRuined DEF Ruined
        <3>3. dest.version # Absent
            BY <3>1 DEF Copy
        <3> QED
            BY <1>12, <2>1, <2>3, <3>2, <3>3 DEF Delete
    <2> QED BY <1>12, <2>2, <2>3 DEF Delete
<1>13. CASE Crash
    BY <1>13 DEF Crash
<1>14. CASE UNCHANGED vars
    BY <1>14 DEF vars
<1> QED
    BY <1>1, <1>2, <1>3, <1>4, <1>5, <1>6, <1>7, <1>8, <1>9, <1>10, <1>11, <1>12,
       <1>13, <1>14 DEF Next

(***************************************************************************)
(* The detailed swap, with its two renames, its quiet deletes, its settling *)
(* and its crashes, implements ModuleFolder, under the same assumption.     *)
(***************************************************************************)
THEOREM SwapsAreAtomic ==
    ASSUME RemovalsGoThrough
    PROVE  Spec => SwapIsAtomic
<1>1. CleanInv /\ [Next]_vars => CleanInv'
    BY CleanHolds
<1>2. CleanInv /\ [Next]_vars => [Promise!Next]_(Promise!vars)
    BY PromiseKept
<1> QED
    BY CleanStarts, <1>1, <1>2, PromiseStarts, PTL DEF Spec, SwapIsAtomic, Promise!Spec
=============================================================================
