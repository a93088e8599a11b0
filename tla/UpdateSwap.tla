----------------------------- MODULE UpdateSwap -----------------------------
(***************************************************************************)
(* Yu'lon's self-update, from "Update now" to the next start:               *)
(*   selfupdate/stage.py, apply.py   the app makes .yulon-new and fills it; *)
(*   selfupdate/swap.py              the app makes .yulon-old and starts a  *)
(*                                   helper, which waits for the app to end,*)
(*                                   moves the shipped entries aside, moves *)
(*                                   the staged ones in, undoes a failure   *)
(*                                   and starts Yu'lon again;               *)
(*   selfupdate/cleanup.py           the next start tidies up, or reports;  *)
(*   pylauncher/README.md            what a player does by hand otherwise.  *)
(*                                                                         *)
(* The lock, stamp and stand-down files by which helpers and app agree on   *)
(* WHO moves are the subject of HelperLock; here there is one helper.       *)
(*                                                                         *)
(* An entry is a top-level name of the build.  The code moves the entries   *)
(* in a fixed order with the executable first (or last); here the others    *)
(* come in any order.                                                       *)
(***************************************************************************)
EXTENDS Naturals

CONSTANTS
    Entries,        \* the entries the staged build ships
    Exe,            \* the executable among them
    Shipped,        \* the entries of those the installed build ships too
    Folders,        \* the entries that are folders
    Absent,         \* nothing at a path
    MaxFaults,      \* how many of the helper's moves may fail
    HandStart,      \* may the player start Yu'lon while a helper is at work
    HalfRecovery,   \* may the player start Yu'lon part-way through a recovery
    TidyMayStop     \* may a folder delete stop part-way

ASSUME UpdateSwapAssumption ==
    /\ Exe \in Shipped /\ Shipped \subseteq Entries
    /\ Folders \subseteq Entries \ {Exe}
    /\ Absent \notin {"old", "new", "mixed"}
    /\ MaxFaults \in Nat
    /\ HandStart \in BOOLEAN /\ HalfRecovery \in BOOLEAN /\ TidyMayStop \in BOOLEAN

\* What is at a path: an entry of the installed build, of the staged build, or
\* a folder that had another of the same name moved into it.
Builds  == {"old", "new", "mixed"}
Content == Builds \cup {Absent}

\* A working folder, with its marker or without.
DirStates == {"absent", "marked", "unmarked"}

AppSteps == {"closed", "starting", "tidyNew", "tidyOld", "finishOld", "finishNew",
             "open", "prepareNew", "prepareOld", "markNew", "staging", "planning",
             "markOld", "ready", "closing", "refused"}

HelperSteps == {"none", "waiting", "moveOut", "moveIn", "takeOut", "putBack",
                "relaunch", "gone", "killed"}

VARIABLES
    target,     \* the install folder: what is at each entry
    backup,     \* .yulon-old
    staged,     \* .yulon-new
    oldDir,     \* the folder .yulon-old itself
    newDir,     \* the folder .yulon-new itself
    app,        \* what the one running copy of Yu'lon is doing
    running,    \* the build that copy is: what the executable was
    helper,     \* what the helper is doing
    moved,      \* the entries the helper's current loop has dealt with
    faults,     \* moves that failed so far
    player,     \* where the player is in the README's recovery steps
    opened      \* whether the new build, complete, has been started

places    == <<target, backup, staged>>
dirs      == <<oldDir, newDir>>
theApp    == <<app, running>>
theHelper == <<helper, moved, faults>>
vars      == <<places, dirs, theApp, theHelper, player, opened>>

Nothing  == [e \in Entries |-> Absent]
Original == [e \in Entries |-> IF e \in Shipped THEN "old" ELSE Absent]
Updated  == [e \in Entries |-> "new"]

Init ==
    /\ target = Original /\ backup = Nothing /\ staged = Nothing
    /\ oldDir = "absent" /\ newDir = "absent"
    /\ app = "open" /\ running = "old"
    /\ helper = "none" /\ moved = {} /\ faults = 0
    /\ player = "idle" /\ opened = FALSE

-----------------------------------------------------------------------------
(* Working folders. *)

\* layout.is_ours: marked, or holding nothing but bookkeeping.
Ours(dir, held) == dir = "marked" \/ (dir = "unmarked" /\ held = Nothing)

\* layout.discard_ours.  ok is its answer.  A delete that stops has removed an
\* unknown part of the folder, its marker perhaps among it.
Discard(dir, held, dir2, held2, ok) ==
    \/ ok /\ (dir = "absent" \/ Ours(dir, held)) /\ dir2 = "absent" /\ held2 = Nothing
    \/ ~ok /\ dir = "unmarked" /\ held # Nothing /\ dir2 = dir /\ held2 = held
    \/ /\ ~ok /\ TidyMayStop /\ dir # "absent" /\ Ours(dir, held)
       /\ dir2 \in {"marked", "unmarked"}
       /\ \E left \in SUBSET Entries :
            held2 = [e \in Entries |-> IF e \in left THEN held[e] ELSE Absent]

\* swap.staging_is_intact, and the helper's still_ours.
Intact ==
    /\ oldDir = "marked" /\ newDir = "marked"
    /\ \A e \in Entries : staged[e] # Absent

\* The name of an entry somewhere; a folder moved onto a folder lands inside it.
Landed(e, there, arriving) ==
    IF there # Absent /\ e \in Folders THEN "mixed" ELSE arriving

HelperAlive == helper \notin {"none", "gone", "killed"}

-----------------------------------------------------------------------------
(* The app: preparing, staging and handing over. *)

\* stage.prepare begins by making way: a helper that has not moved anything is
\* stood down, and one that is moving refuses the press.
PressUpdate ==
    /\ app \in {"open", "refused"} /\ ~opened
    /\ helper \in {"none", "gone", "killed", "waiting"}
    /\ helper' = IF helper = "waiting" THEN "gone" ELSE helper
    /\ app' = "prepareNew"
    /\ UNCHANGED <<places, dirs, running, moved, faults, player, opened>>

PrepareNew ==
    /\ app = "prepareNew"
    /\ \E ok \in BOOLEAN :
         /\ Discard(newDir, staged, newDir', staged', ok)
         /\ app' = IF ok THEN "prepareOld" ELSE "open"
    /\ UNCHANGED <<target, backup, oldDir, running, theHelper, player, opened>>

\* The last discard, then a fresh .yulon-new, which has no marker yet.
PrepareOld ==
    /\ app = "prepareOld"
    /\ \E ok \in BOOLEAN :
         /\ Discard(oldDir, backup, oldDir', backup', ok)
         /\ app' = IF ok THEN "markNew" ELSE "open"
         /\ newDir' = IF ok THEN "unmarked" ELSE newDir
    /\ UNCHANGED <<target, staged, running, theHelper, player, opened>>

MarkNew ==
    /\ app = "markNew"
    /\ \/ newDir' = "marked" /\ app' = "staging"
       \/ newDir' = "absent" /\ app' = "open"
    /\ UNCHANGED <<places, oldDir, running, theHelper, player, opened>>

Stage ==
    /\ app = "staging"
    /\ staged' = Updated
    /\ app' = "planning"
    /\ UNCHANGED <<target, backup, dirs, running, theHelper, player, opened>>

\* A failed download, digest, unpack or smoke test, a trespass, a Cancel.
StageFails ==
    /\ app \in {"staging", "planning", "markOld"}
    /\ app' = "tidyNew"
    /\ UNCHANGED <<places, dirs, running, theHelper, player, opened>>

Plan ==
    /\ app = "planning"
    /\ oldDir = "absent" \/ Ours(oldDir, backup)
    /\ oldDir' = "unmarked" /\ backup' = Nothing
    /\ app' = "markOld"
    /\ UNCHANGED <<target, staged, newDir, running, theHelper, player, opened>>

MarkOld ==
    /\ app = "markOld"
    /\ oldDir' = "marked" /\ app' = "ready"
    /\ UNCHANGED <<places, newDir, running, theHelper, player, opened>>

\* restart_into: the helper is started and Yu'lon closes for it.
Restart ==
    /\ app = "ready" /\ Intact
    /\ helper' = "waiting" /\ moved' = {}
    /\ app' = "closing"
    /\ UNCHANGED <<places, dirs, running, faults, player, opened>>

\* Cancel, or a staging that is no longer intact.
DiscardStaged ==
    /\ app = "ready"
    /\ app' = "tidyNew"
    /\ UNCHANGED <<places, dirs, running, theHelper, player, opened>>

Close ==
    /\ app = "closing"
    /\ app' = "closed"
    /\ UNCHANGED <<places, dirs, running, theHelper, player, opened>>

\* A job that began meanwhile refuses the close; the helper waits on.
CloseRefused ==
    /\ app = "closing"
    /\ app' = "refused"
    /\ UNCHANGED <<places, dirs, running, theHelper, player, opened>>

AppDies ==
    /\ app \notin {"closed", "closing"}
    /\ app' = "closed"
    /\ UNCHANGED <<places, dirs, running, theHelper, player, opened>>

-----------------------------------------------------------------------------
(* The helper. *)

\* kill -0 says the app is gone; everything is looked at once more.
HelperChecks ==
    /\ helper = "waiting" /\ app \notin {"closing", "refused"}
    /\ helper' = IF Intact THEN "moveOut" ELSE "gone"
    /\ moved' = {}
    /\ UNCHANGED <<places, dirs, theApp, faults, player, opened>>

HelperGivesUp ==
    /\ helper = "waiting" /\ app \in {"closing", "refused"}
    /\ helper' = "gone"
    /\ UNCHANGED <<places, dirs, theApp, moved, faults, player, opened>>

\* The executable is the first of a forward loop and the last of a backward.
FirstComeFirstOut(e) == e \notin moved
First(e) == e \notin moved /\ (e = Exe \/ Exe \in moved)
LastInAnyOrder(e) == e \notin moved
Last(e)  == e \notin moved /\ (e = Exe => moved = Entries \ {Exe})

Handled(e) == moved' = moved \cup {e} /\ UNCHANGED <<helper, faults>>

MoveOut(e) ==
    /\ helper = "moveOut" /\ First(e)
    /\ \/ target[e] = Absent /\ UNCHANGED <<target, backup>>
       \/ /\ target[e] # Absent /\ oldDir # "absent"
          /\ backup' = [backup EXCEPT ![e] = Landed(e, backup[e], target[e])]
          /\ target' = [target EXCEPT ![e] = Absent]
    /\ Handled(e)
    /\ UNCHANGED <<staged, dirs, theApp, player, opened>>

MoveIn(e) ==
    /\ helper = "moveIn" /\ Last(e)
    /\ staged[e] # Absent
    /\ target' = [target EXCEPT ![e] = Landed(e, target[e], staged[e])]
    /\ staged' = [staged EXCEPT ![e] = Absent]
    /\ Handled(e)
    /\ UNCHANGED <<backup, dirs, theApp, player, opened>>

\* mv refused, or its source or destination folder gone.
Fault == faults < MaxFaults /\ faults' = faults + 1

MoveFailsIsPassedOver(e) ==
    /\ helper = "moveOut" /\ First(e) /\ target[e] # Absent
    /\ Fault
    /\ moved' = moved \cup {e}
    /\ UNCHANGED <<places, dirs, theApp, helper, player, opened>>

MoveFails(e) ==
    /\ \/ /\ helper = "moveOut" /\ First(e) /\ target[e] # Absent
          /\ Fault \/ (oldDir = "absent" /\ UNCHANGED faults)
       \/ /\ helper = "moveIn" /\ Last(e)
          /\ Fault \/ (staged[e] = Absent /\ UNCHANGED faults)
    /\ helper' = "takeOut" /\ moved' = {}
    /\ UNCHANGED <<places, dirs, theApp, player, opened>>

\* Undo, forwards: what is no longer staged has been placed.
TakeOut(e) ==
    /\ helper = "takeOut" /\ First(e)
    /\ IF staged[e] = Absent /\ target[e] # Absent /\ newDir # "absent"
       THEN /\ staged' = [staged EXCEPT ![e] = target[e]]
            /\ target' = [target EXCEPT ![e] = Absent]
       ELSE UNCHANGED <<target, staged>>
    /\ Handled(e)
    /\ UNCHANGED <<backup, dirs, theApp, player, opened>>

\* Undo, backwards: what is in the backup goes back.
PutBack(e) ==
    /\ helper = "putBack" /\ Last(e)
    /\ IF backup[e] # Absent
       THEN /\ target' = [target EXCEPT ![e] = Landed(e, target[e], backup[e])]
            /\ backup' = [backup EXCEPT ![e] = Absent]
       ELSE UNCHANGED <<target, backup>>
    /\ Handled(e)
    /\ UNCHANGED <<staged, dirs, theApp, player, opened>>

\* A move of the undo that fails is passed over.
UndoFails(e) ==
    /\ \/ helper = "takeOut" /\ First(e) /\ staged[e] = Absent /\ target[e] # Absent
       \/ helper = "putBack" /\ Last(e) /\ backup[e] # Absent
    /\ Fault
    /\ moved' = moved \cup {e}
    /\ UNCHANGED <<places, dirs, theApp, helper, player, opened>>

AfterLoopQuitsWhenUndone ==
    [moveOut |-> "moveIn", moveIn |-> "relaunch",
     takeOut |-> "putBack", putBack |-> "gone"]

AfterLoop == [moveOut |-> "moveIn", moveIn |-> "relaunch",
              takeOut |-> "putBack", putBack |-> "relaunch"]

LoopDone ==
    /\ helper \in DOMAIN AfterLoop /\ moved = Entries
    /\ helper' = AfterLoop[helper] /\ moved' = {}
    /\ UNCHANGED <<places, dirs, theApp, faults, player, opened>>

RelaunchWhatever ==
    /\ helper = "relaunch"
    /\ helper' = "gone"
    /\ IF app = "closed"
       THEN app' = "starting" /\ running' = target[Exe]
       ELSE UNCHANGED theApp
    /\ UNCHANGED <<places, dirs, moved, faults, player, opened>>

\* exec of the executable; a copy that is open already keeps the window.
Relaunch ==
    /\ helper = "relaunch"
    /\ helper' = "gone"
    /\ IF app = "closed" /\ target[Exe] # Absent
       THEN app' = "starting" /\ running' = target[Exe]
       ELSE UNCHANGED theApp
    /\ UNCHANGED <<places, dirs, moved, faults, player, opened>>

HelperKilled ==
    /\ HelperAlive
    /\ helper' = "killed"
    /\ UNCHANGED <<places, dirs, theApp, moved, faults, player, opened>>

-----------------------------------------------------------------------------
(* The next start: cleanup.finish_previous_update. *)

StartByHand ==
    /\ app = "closed" /\ target[Exe] # Absent
    /\ HandStart \/ ~HelperAlive
    /\ HalfRecovery \/ player = "idle"
    /\ app' = "starting" /\ running' = target[Exe] /\ player' = "idle"
    /\ UNCHANGED <<places, dirs, theHelper, opened>>

Missing == {e \in Entries : target[e] = Absent}

Finish ==
    /\ app = "starting"
    /\ app' = IF oldDir # "marked" THEN "open"
              ELSE IF backup = Nothing THEN "tidyNew"
              ELSE IF Missing # {} \/ running # "new" THEN "open"
              ELSE "finishOld"
    /\ opened' = (opened \/ app' = "finishOld")
    /\ UNCHANGED <<places, dirs, running, theHelper, player>>

FinishOld ==
    /\ app = "finishOld"
    /\ \E ok \in BOOLEAN :
         /\ Discard(oldDir, backup, oldDir', backup', ok)
         /\ app' = IF ok THEN "finishNew" ELSE "open"
    /\ UNCHANGED <<target, staged, newDir, running, theHelper, player, opened>>

FinishNew ==
    /\ app = "finishNew"
    /\ \E ok \in BOOLEAN : Discard(newDir, staged, newDir', staged', ok)
    /\ app' = "open"
    /\ UNCHANGED <<target, backup, oldDir, running, theHelper, player, opened>>

\* _rolled_back, and the same deletes after a failed or cancelled update.
TidyNew ==
    /\ app = "tidyNew"
    /\ \E ok \in BOOLEAN : Discard(newDir, staged, newDir', staged', ok)
    /\ app' = "tidyOld"
    /\ UNCHANGED <<target, backup, oldDir, running, theHelper, player, opened>>

TidyOld ==
    /\ app = "tidyOld"
    /\ \E ok \in BOOLEAN : Discard(oldDir, backup, oldDir', backup', ok)
    /\ app' = "open"
    /\ UNCHANGED <<target, staged, newDir, running, theHelper, player, opened>>

-----------------------------------------------------------------------------
(* The player puts the previous version back: cleanup.recovery_steps. *)

PlayerBegins ==
    /\ player = "idle" /\ app = "closed" /\ ~HelperAlive
    /\ target[Exe] = Absent /\ oldDir = "marked" /\ backup # Nothing
    /\ player' = "deleting"
    /\ UNCHANGED <<places, dirs, theApp, theHelper, opened>>

PlayerDeletesAnything(e) ==
    /\ player = "deleting" /\ app = "closed"
    /\ target[e] # Absent
    /\ target' = [target EXCEPT ![e] = Absent]
    /\ UNCHANGED <<backup, staged, dirs, theApp, theHelper, player, opened>>

PlayerDeletes(e) ==
    /\ player = "deleting" /\ app = "closed"
    /\ target[e] # Absent /\ backup[e] # Absent
    /\ target' = [target EXCEPT ![e] = Absent]
    /\ UNCHANGED <<backup, staged, dirs, theApp, theHelper, player, opened>>

PlayerMoves(e) ==
    /\ player \in {"deleting", "restoring"} /\ app = "closed"
    /\ \A f \in Entries : player = "deleting" => (target[f] = Absent \/ backup[f] = Absent)
    /\ backup[e] # Absent
    /\ target' = [target EXCEPT ![e] = Landed(e, target[e], backup[e])]
    /\ backup' = [backup EXCEPT ![e] = Absent]
    /\ player' = "restoring"
    /\ UNCHANGED <<staged, dirs, theApp, theHelper, opened>>

PlayerLeavesTheNewFiles ==
    /\ player = "restoring" /\ app = "closed" /\ backup = Nothing
    /\ staged' = Nothing /\ oldDir' = "absent" /\ newDir' = "absent"
    /\ player' = "idle"
    /\ UNCHANGED <<target, backup, theApp, theHelper, opened>>

\* Delete both folders, and what only the new version ships.
PlayerFinishes ==
    /\ player = "restoring" /\ app = "closed" /\ backup = Nothing
    /\ target' = [e \in Entries |-> IF e \in Shipped THEN target[e] ELSE Absent]
    /\ staged' = Nothing /\ oldDir' = "absent" /\ newDir' = "absent"
    /\ player' = "idle"
    /\ UNCHANGED <<backup, theApp, theHelper, opened>>

-----------------------------------------------------------------------------

AppNext ==
    \/ PressUpdate \/ PrepareNew \/ PrepareOld \/ MarkNew \/ Stage \/ StageFails
    \/ Plan \/ MarkOld \/ Restart \/ DiscardStaged \/ Close \/ CloseRefused \/ AppDies
    \/ StartByHand \/ Finish \/ FinishOld \/ FinishNew \/ TidyNew \/ TidyOld

HelperWorks ==
    \/ HelperChecks \/ LoopDone \/ Relaunch
    \/ \E e \in Entries : \/ MoveOut(e) \/ MoveIn(e) \/ MoveFails(e)
                          \/ TakeOut(e) \/ PutBack(e) \/ UndoFails(e)

PlayerNext ==
    \/ PlayerBegins \/ PlayerFinishes
    \/ \E e \in Entries : PlayerDeletes(e) \/ PlayerMoves(e)

Next == AppNext \/ HelperWorks \/ HelperGivesUp \/ HelperKilled \/ PlayerNext

Spec == Init /\ [][Next]_vars

\* A helper that is not killed keeps taking steps: it is a script that only
\* waits for a process to end.
FairSpec == Spec /\ WF_vars(HelperWorks)

-----------------------------------------------------------------------------

\* Every variable keeps its shape.
TypeOK ==
    /\ target \in [Entries -> Content]
    /\ backup \in [Entries -> Content]
    /\ staged \in [Entries -> Content]
    /\ oldDir \in DirStates /\ newDir \in DirStates
    /\ app \in AppSteps /\ running \in Builds
    /\ helper \in HelperSteps /\ moved \in SUBSET Entries
    /\ faults \in 0..MaxFaults
    /\ player \in {"idle", "deleting", "restoring"}
    /\ opened \in BOOLEAN

(***************************************************************************)
(* "With an executable present the only states are untouched, swap          *)
(* complete, and rollback complete": an install that can start is one       *)
(* build, the old or the new, and never a mixture, wherever the helper was  *)
(* stopped (cleanup.py, swap.py: executable first out, last in).            *)
(***************************************************************************)
ExecutableMeansWhole ==
    (target[Exe] # Absent /\ player = "idle") => target \in {Original, Updated}

(***************************************************************************)
(* The backup "has to survive until the new build has actually opened":     *)
(* every entry of the old build is somewhere until the new one has started, *)
(* complete.                                                                *)
(***************************************************************************)
OldBuildKept ==
    opened \/ \A e \in Shipped : "old" \in {target[e], backup[e]}

\* Some copy of the old entry is on the disk.
OnDisk(e) == \E c \in {"old", "mixed"} : c \in {target[e], backup[e], staged[e]}

(***************************************************************************)
(* However many moves fail, and whatever is started or deleted meanwhile,   *)
(* a step of the helper never destroys the last copy of an old entry: it    *)
(* moves, and a folder that lands in another is still on the disk.          *)
(***************************************************************************)
HelperOnlyMoves ==
    [][HelperAlive /\ app' = app /\ player' = player
         => \A e \in Shipped : OnDisk(e) => OnDisk(e)']_vars

\* What the README's steps make of the install folder.
Recovered ==
    [e \in Entries |-> IF backup[e] # Absent THEN backup[e]
                       ELSE IF e \in Shipped THEN target[e] ELSE Absent]

(***************************************************************************)
(* Whenever an update leaves an install that cannot start, Yu'lon's one     *)
(* instruction puts the old build back exactly: at every point a helper can *)
(* be killed, and at every step of a player following it.                   *)
(***************************************************************************)
RecoveryRestores ==
    (~HelperAlive /\ (target[Exe] = Absent \/ player # "idle"))
        => oldDir = "marked" /\ Recovered = Original

(***************************************************************************)
(* "All three are removed the next time the new version starts" (README of  *)
(* the package): a folder the app made stays one it can prove it made, or   *)
(* no later start removes it and the next prepare refuses.  This needs      *)
(* deletes that happen or do not: one that stops part-way may have taken    *)
(* the marker first.                                                        *)
(***************************************************************************)
LeftoversStayOurs ==
    /\ oldDir = "unmarked" => backup = Nothing
    /\ newDir = "unmarked" => staged = Nothing

(***************************************************************************)
(* A delete of a working folder that stops part-way may take its marker     *)
(* first, and no later start or press touches a folder that holds things    *)
(* and has no marker (layout.discard_ours).  So nothing that is still       *)
(* wanted may be in one: a backup is only begun to be deleted once the new  *)
(* build has opened, and a staging folder while the install is one build    *)
(* and no helper moves out of it.                                           *)
(***************************************************************************)
UnprovenIsUnwanted ==
    /\ oldDir = "unmarked" /\ backup # Nothing => opened /\ target = Updated
    /\ newDir = "unmarked" /\ staged # Nothing =>
         ~HelperAlive /\ player = "idle" /\ target \in {Original, Updated}

(***************************************************************************)
(* A player who closed Yu'lon for an update gets it back: a helper that     *)
(* outlives the app starts Yu'lon, the new build or the old one, unless it  *)
(* is killed.                                                               *)
(***************************************************************************)
AppComesBack ==
    (helper = "waiting" /\ app = "closed") ~> (app = "starting" \/ helper = "killed")

\* The install as a player sees it.
Install ==
    IF target[Exe] = Absent \/ player # "idle" THEN "none"
    ELSE IF target = Original THEN "old"
    ELSE IF target = Updated THEN "new" ELSE "mixed"

Promise == INSTANCE AtomicInstall WITH install <- Install

\* The swap is one build taken down and one put up.
SwapIsAtomic == Promise!Spec
=============================================================================
