----------------------------- MODULE FolderSwap -----------------------------
(***************************************************************************)
(* yulon/folder_swap.py, with the two callers in apply.py that reach it:    *)
(* "Install from folder" makes a whole copy in a staging folder and swaps   *)
(* it in by two renames, a removal deletes the folder, and both settle what *)
(* a stopped swap left before they read anything.                           *)
(*                                                                         *)
(* A folder on disk is Absent or a copy: the version it was made from and   *)
(* whether all of its files are there.  Renames are atomic, deletes and     *)
(* copies are not, and the process may die between any two steps.           *)
(***************************************************************************)
EXTENDS Naturals

CONSTANTS
    Versions,         \* versions of the module the player may install
    Absent,           \* no folder at a path
    MaxRefusals,      \* how many calls the file system may refuse
    Resisting         \* the presses during which a leftover may resist deletion

Copy == [version : Versions, whole : BOOLEAN]

ASSUME FolderSwapAssumption ==
    /\ Absent \notin Copy
    /\ Absent \notin Versions
    /\ MaxRefusals \in Nat
    /\ Resisting \subseteq {"install", "remove"}

Place == Copy \cup {Absent}

Steps == {"idle", "settle", "settleAside", "resettle", "resettleAside",
          "prepare", "copying", "moveAside", "moveIn", "putBack",
          "dropAside", "dropPartial", "delete"}

VARIABLES
    dest,      \* modules/<id>
    aside,     \* .yulon-module-staging/<id>.old
    partial,   \* .yulon-module-staging/<id>.partial
    step,      \* what the running press does next; "idle" between presses
    job,       \* what was pressed: a version to install, or Absent for Remove
    hadOne,    \* _swap's had_one
    owned,     \* the version the last press that changed the module left
    refusals   \* file-system refusals so far

disk == <<dest, aside, partial>>
vars == <<dest, aside, partial, step, job, hadOne, owned, refusals>>

Init ==
    /\ dest = Absent /\ aside = Absent /\ partial = Absent
    /\ step = "idle" /\ job = Absent /\ hadOne = FALSE
    /\ owned = Absent /\ refusals = 0

-----------------------------------------------------------------------------
(* The file system. *)

Refuse == refusals < MaxRefusals /\ refusals' = refusals + 1

\* A delete that stopped has already removed an unknown part of the tree.
Damaged(place) == [place EXCEPT !.whole = FALSE]

Pressed == IF job = Absent THEN "remove" ELSE "install"

\* remove_quietly: gone, or still there in whole or in part, and logged.
RemoveQuietly(place, left) ==
    \/ left = Absent /\ UNCHANGED refusals
    \/ /\ Pressed \in Resisting /\ place # Absent /\ Refuse
       /\ left \in {place, Damaged(place)}

\* A rename onto a folder that is there is refused by every platform.
RenameRefused(to) ==
    \/ to # Absent /\ UNCHANGED refusals
    \/ Refuse

-----------------------------------------------------------------------------
(* Settling: the first thing Applier.install and Applier.remove do, and     *)
(* again what copy_folder does before it copies.                            *)

Press ==
    /\ step = "idle"
    /\ \/ job' \in Versions
       \/ owned # Absent /\ job' = Absent
    /\ step' = "settle"
    /\ UNCHANGED <<disk, hadOne, owned, refusals>>

SettlePartial ==
    /\ step \in {"settle", "resettle"}
    /\ RemoveQuietly(partial, partial')
    /\ step' = IF step = "settle" THEN "settleAside" ELSE "resettleAside"
    /\ UNCHANGED <<dest, aside, job, hadOne, owned>>

Settled ==
    step' = IF step = "resettleAside" THEN "prepare"
            ELSE IF job = Absent THEN "delete" ELSE "resettle"

\* Mutant: settle takes any copy that is aside for a leftover and deletes it.
SettleAlwaysDrops ==
    /\ step \in {"settleAside", "resettleAside"}
    /\ RemoveQuietly(aside, aside')
    /\ Settled
    /\ UNCHANGED <<dest, partial, job, hadOne, owned>>

SettleAside ==
    /\ step \in {"settleAside", "resettleAside"}
    /\ \/ aside = Absent /\ UNCHANGED <<dest, aside, refusals>>
       \/ /\ aside # Absent /\ dest # Absent
          /\ RemoveQuietly(aside, aside') /\ UNCHANGED dest
       \/ /\ aside # Absent /\ dest = Absent
          /\ dest' = aside /\ aside' = Absent /\ UNCHANGED refusals
    /\ Settled
    /\ UNCHANGED <<partial, job, hadOne, owned>>

\* The old copy could not be put back: the press is refused, nothing changed.
SettleRefused ==
    /\ step \in {"settleAside", "resettleAside"}
    /\ aside # Absent /\ dest = Absent
    /\ Refuse
    /\ step' = "idle"
    /\ UNCHANGED <<disk, job, hadOne, owned>>

-----------------------------------------------------------------------------
(* Install from folder: module_source.copy_folder. *)

\* prepare refuses when staging is on another drive; copytree when a partial
\* copy is still in its way.
StartCopy ==
    /\ step = "prepare"
    /\ \/ /\ partial = Absent
          /\ partial' = [version |-> job, whole |-> FALSE]
          /\ step' = "copying" /\ UNCHANGED refusals
       \/ /\ partial # Absent
          /\ step' = "dropPartial" /\ UNCHANGED <<partial, refusals>>
       \/ Refuse /\ step' = "idle" /\ UNCHANGED partial
    /\ UNCHANGED <<dest, aside, job, hadOne, owned>>

FinishCopy ==
    /\ step = "copying"
    /\ \/ /\ partial' = [version |-> job, whole |-> TRUE]
          /\ step' = "moveAside" /\ UNCHANGED refusals
       \/ Refuse /\ step' = "dropPartial" /\ UNCHANGED partial
    /\ UNCHANGED <<dest, aside, job, hadOne, owned>>

\* Mutant: a leftover in the way counts as the copy already set aside, and the
\* folder is removed for the new one.
MoveAsideOverLeftover ==
    /\ step = "moveAside"
    /\ hadOne' = (dest # Absent)
    /\ aside' = IF aside = Absent THEN dest ELSE aside
    /\ dest' = Absent
    /\ step' = "moveIn"
    /\ UNCHANGED <<partial, job, owned, refusals>>

\* Mutant: the old folder is deleted before the new one is renamed in.
MoveAsideByDeleting ==
    /\ step = "moveAside"
    /\ hadOne' = (dest # Absent)
    /\ dest' = Absent
    /\ step' = "moveIn"
    /\ UNCHANGED <<aside, partial, job, owned, refusals>>

\* Mutant: had_one keeps the folder itself, not whether there was one.
MoveAsideKeepsFolder ==
    /\ step = "moveAside"
    /\ hadOne' = dest
    /\ aside' = dest /\ dest' = Absent
    /\ step' = "moveIn"
    /\ UNCHANGED <<partial, job, owned, refusals>>

MoveAside ==
    /\ step = "moveAside"
    /\ hadOne' = (dest # Absent)
    /\ \/ /\ dest = Absent
          /\ step' = "moveIn" /\ UNCHANGED <<dest, aside, refusals>>
       \/ /\ dest # Absent /\ aside = Absent
          /\ aside' = dest /\ dest' = Absent
          /\ step' = "moveIn" /\ UNCHANGED refusals
       \/ /\ dest # Absent /\ RenameRefused(aside)
          /\ step' = "putBack" /\ UNCHANGED <<dest, aside>>
    /\ UNCHANGED <<partial, job, owned>>

MoveIn ==
    /\ step = "moveIn"
    /\ \/ /\ dest = Absent
          /\ dest' = partial /\ partial' = Absent /\ owned' = job
          /\ step' = IF hadOne THEN "dropAside" ELSE "idle"
          /\ UNCHANGED refusals
       \/ /\ RenameRefused(dest)
          /\ step' = "putBack" /\ UNCHANGED <<dest, partial, owned>>
    /\ UNCHANGED <<aside, job, hadOne>>

\* _swap's except clause: only a dest that went aside is put back.
PutBack ==
    /\ step = "putBack"
    /\ \/ /\ hadOne /\ dest = Absent /\ aside # Absent
          /\ \/ dest' = aside /\ aside' = Absent /\ UNCHANGED refusals
             \/ Refuse /\ UNCHANGED <<dest, aside>>
       \/ /\ ~(hadOne /\ dest = Absent /\ aside # Absent)
          /\ UNCHANGED <<dest, aside, refusals>>
    /\ step' = "dropPartial"
    /\ UNCHANGED <<partial, job, hadOne, owned>>

DropPartial ==
    /\ step = "dropPartial"
    /\ RemoveQuietly(partial, partial')
    /\ step' = "idle"
    /\ UNCHANGED <<dest, aside, job, hadOne, owned>>

DropAside ==
    /\ step = "dropAside"
    /\ RemoveQuietly(aside, aside')
    /\ step' = "idle"
    /\ UNCHANGED <<dest, partial, job, hadOne, owned>>

-----------------------------------------------------------------------------
(* Applier._remove's rmtree of the module, which may stop half way. *)

Delete ==
    /\ step = "delete"
    /\ owned' = Absent
    /\ \/ dest' = Absent /\ step' = "idle" /\ UNCHANGED refusals
       \/ /\ dest # Absent /\ dest' = Damaged(dest)
          /\ \/ step' = "delete" /\ UNCHANGED refusals
             \/ step' = "idle" /\ Refuse
    /\ UNCHANGED <<aside, partial, job, hadOne>>

\* The process ends at any step; what is on disk stays.
Crash ==
    /\ step # "idle"
    /\ step' = "idle"
    /\ UNCHANGED <<disk, job, hadOne, owned, refusals>>

Next ==
    \/ Press \/ SettlePartial \/ SettleAside \/ SettleRefused
    \/ StartCopy \/ FinishCopy \/ MoveAside \/ MoveIn \/ PutBack
    \/ DropPartial \/ DropAside \/ Delete \/ Crash

Spec == Init /\ [][Next]_vars

-----------------------------------------------------------------------------

\* Every variable keeps its shape.
TypeOK ==
    /\ dest \in Place /\ aside \in Place /\ partial \in Place
    /\ step \in Steps /\ job \in Versions \cup {Absent}
    /\ hadOne \in BOOLEAN /\ owned \in Versions \cup {Absent}
    /\ refusals \in 0..MaxRefusals

\* The copy the next settle leaves at modules/<id>.
InForce == IF dest # Absent THEN dest ELSE aside

(***************************************************************************)
(* folder_swap.py's first promise: "replace a module folder with a whole    *)
(* new copy, or leave the old one as it was".  Wherever a press stopped,    *)
(* the version the player has is on disk, whole, and is the one the next    *)
(* settle puts (or leaves) at modules/<id>.                                 *)
(***************************************************************************)
OwnedCopyKept ==
    owned # Absent => InForce = [version |-> owned, whole |-> TRUE]

(***************************************************************************)
(* What settle puts back is the copy the player owns, whole, or what a      *)
(* removal that stopped left; a module that was removed never comes back    *)
(* whole.  remove_quietly says a leftover "costs disk space and nothing     *)
(* else".                                                                   *)
(***************************************************************************)
OnlyTheOwnedCopyIsPutBack ==
    [][ (step \in {"settleAside", "resettleAside"} /\ dest = Absent /\ dest' # Absent)
        => IF owned = Absent THEN ~dest'.whole
           ELSE dest' = [version |-> owned, whole |-> TRUE] ]_vars

\* What ModuleFolder sees: the copy in force, its version or "broken".
folderNow ==
    IF InForce = Absent THEN Absent
    ELSE IF InForce.whole THEN InForce.version ELSE "broken"

Promise == INSTANCE ModuleFolder
             WITH folder <- folderNow, removing <- (step = "delete"),
                  Nothing <- Absent, Broken <- "broken"

\* Every step of a swap, settled or stopped, is one atomic change of the
\* module's folder or none at all.
SwapIsAtomic == Promise!Spec
=============================================================================
