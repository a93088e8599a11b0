------------------------------ MODULE StartOver ------------------------------
(***************************************************************************)
(* start_over.py: "Start over with a plain install", for a folder in which *)
(* a bring-in (move_server.py) did not finish.                             *)
(*                                                                         *)
(* The reset copies the databases, removes the server, sets the bring-in's *)
(* record aside and hands over to the plain install, and keeps a record of *)
(* its own (RESET_FILE) from before its first change until the install has *)
(* an ownership record: any press may end anywhere, and the next carries   *)
(* on from the files.  A bring-in and a reset of two Yu'lons keep out of   *)
(* each other's way by those two records: each writes its own and then     *)
(* looks for the other's.  A Yu'lon runs one Catalog job at a time.        *)
(***************************************************************************)
EXTENDS Naturals

CONSTANTS
    Yulons,        \* the Yu'lons that work on the folder
    Bringers,      \* those of them in which Bring-in is pressed
    Sees,          \* whose processes each can tell to be running: those of its own user
    Nobody, NoFile,
    MaxBringIns,   \* how often Bring-in is pressed
    MaxFaults,     \* presses that fail, processes that die, copies that are damaged
    MayDwell       \* a press may be held up or end, for any time, between its two looks

STEPS == <<"project", "stopped", "copy", "removed", "verified", "set-aside">>
StepNames == {STEPS[i] : i \in 1 .. 6}

\* MOVE_IN_FILE: whether the server is built and its data is going in, and whose press runs.
MoveIns == [built : BOOLEAN, pressing : Yulons \cup {Nobody}]
\* RESET_FILE: the steps done, if a dump is recorded, if an archive and a staging folder are named.
Resets == [done : SUBSET StepNames, removing : BOOLEAN, copied : BOOLEAN,
           aside : BOOLEAN, staging : BOOLEAN]

ASSUME StartOverAssumption ==
    /\ Bringers \subseteq Yulons /\ Nobody \notin Yulons
    /\ Sees \in [Yulons -> SUBSET Yulons] /\ \A y \in Yulons : y \in Sees[y]
    /\ NoFile \notin MoveIns /\ NoFile \notin Resets
    /\ MaxBringIns \in Nat /\ MaxFaults \in Nat /\ MayDwell \in BOOLEAN

Waiting   == {"idle", "asked", "resuming"}
ResetWork == {"lookAgain", "revalidate", "steps", "copying", "volumes", "files", "owner",
              "archive"}
PlainWork == {"clone", "marking", "staged", "cloned", "moving", "inPlace", "stage",
              "unmark", "build"}
BringWork == {"looked", "named", "bringing", "wiped", "installed", "loading"}

VARIABLES
    moveIn,    \* the bring-in's record in the server folder, or NoFile
    reset,     \* the start over's record beside it, or NoFile
    owner,     \* the install record: "none", of a bring-in, a claim, or of a stage recorded
    tree,      \* everything else in the folder: "git" is a checkout that is not all there
    db,        \* the server's containers and volumes
    loading,   \* a bring-in's load writes into the database
    up,        \* the server runs, or its database alone
    dump,      \* the copy of the databases
    archive,   \* the bring-in's record at the name the reset recorded for it
    staging,   \* the folder at the recorded staging path; "bare" has no marker
    pc,        \* what each Yu'lon's job is about to do
    claim,     \* who has the server's reservation (docker.server_claim)
    read,      \* what each job has read of the bring-in's record
    faults, bringIns

folder == <<moveIn, reset, owner, tree>>
docker == <<db, loading, up>>
beside == <<dump, archive, staging>>
vars   == <<folder, docker, beside, pc, claim, read, faults, bringIns>>

TypeOK ==
    /\ moveIn \in MoveIns \cup {NoFile} /\ reset \in Resets \cup {NoFile}
    /\ owner \in {"none", "bringin", "claim", "stage"}
    /\ tree \in {"none", "half", "bringin", "git", "plain"}
    /\ db \in {"none", "brought", "plain"} /\ loading \in BOOLEAN /\ up \in BOOLEAN
    /\ dump \in {"none", "whole", "damaged"} /\ archive \in {"none", "cut", "whole"}
    /\ staging \in {"none", "bare", "marked", "cloned"}
    /\ pc \in [Yulons -> Waiting \cup {"begun", "guard"}
                            \cup ResetWork \cup PlainWork \cup BringWork]
    /\ claim \in Yulons \cup {Nobody} /\ read \in [Yulons -> BOOLEAN]
    /\ faults \in 0 .. MaxFaults /\ bringIns \in 0 .. MaxBringIns

Init ==
    /\ moveIn = NoFile /\ reset = NoFile /\ owner = "none" /\ tree = "none"
    /\ db = "none" /\ loading = FALSE /\ up = FALSE
    /\ dump = "none" /\ archive = "none" /\ staging = "none"
    /\ pc = [y \in Yulons |-> "idle"] /\ claim = Nobody /\ read = [y \in Yulons |-> FALSE]
    /\ faults = 0 /\ bringIns = 0

MoveInThere == moveIn # NoFile
UnderWay    == reset # NoFile          \* start_over_under_way
BuiltIn     == MoveInThere /\ moveIn.built
\* press_running: a name of a process that is gone is the same as no name, and a process of
\* another user counts as gone (_load_process_alive).
BeingPressed(y) == MoveInThere /\ moveIn.pressing \in Sees[y]

Goes(y, to) == pc' = [pc EXCEPT ![y] = to]
Ends(y)     == Goes(y, "idle") /\ claim' = IF claim = y THEN Nobody ELSE claim
Fault       == faults < MaxFaults /\ faults' = faults + 1
Unpressed   == IF MoveInThere THEN [moveIn EXCEPT !.pressing = Nobody] ELSE NoFile

-----------------------------------------------------------------------------
(* Install on the folder. *)

\* The tile asks its question over the record it has read, if there is one, and gets a yes.
Ask(y) ==
    /\ pc[y] = "idle" /\ (MoveInThere \/ UnderWay)
    /\ read' = [read EXCEPT ![y] = BuiltIn]
    /\ Goes(y, IF MoveInThere THEN "asked" ELSE "resuming")
    /\ UNCHANGED <<folder, docker, beside, claim, faults, bringIns>>

\* Without either record it is the plain install, or the rest of it, at once.
PressInstall(y) ==
    /\ pc[y] = "idle" /\ ~MoveInThere /\ ~UnderWay
    /\ owner \in {"claim", "stage"} /\ db # "plain"
    /\ claim = Nobody /\ claim' = y
    /\ Goes(y, "guard")
    /\ UNCHANGED <<folder, docker, beside, read, faults, bringIns>>

\* _begin, over the record of an earlier press or for a new one; a press that still names
\* itself in the bring-in's record refuses both.
MayCarryOn(y) ==
    /\ UnderWay /\ ~BeingPressed(y)
    /\ MoveInThere \/ "set-aside" \in reset.done \/ archive = "whole"
MayBegin(y) ==
    /\ ~UnderWay /\ MoveInThere /\ ~BeingPressed(y)
    /\ pc[y] = "resuming" \/ moveIn.built = read[y]

\* _finish_set_aside: the bring-in's record is gone and its archive is whole.
CarryOn(y) ==
    /\ reset' = IF MoveInThere THEN reset
                ELSE [reset EXCEPT !.done = @ \cup {"set-aside"}]
    /\ Goes(y, "revalidate")

Begin(y) ==
    /\ pc[y] \in {"asked", "resuming"}
    /\ \/ /\ claim = Nobody /\ claim' = y
          /\ \/ MayCarryOn(y) /\ CarryOn(y)
             \/ MayBegin(y) /\ Goes(y, "begun") /\ UNCHANGED reset
       \/ /\ claim # Nobody \/ (~MayCarryOn(y) /\ ~MayBegin(y))
          /\ Ends(y) /\ UNCHANGED reset
    /\ UNCHANGED <<moveIn, owner, tree, docker, beside, read, faults, bringIns>>

WriteReset(y) ==
    /\ pc[y] = "begun" /\ Goes(y, "lookAgain")
    /\ reset' = [done |-> {}, removing |-> FALSE, copied |-> FALSE,
                 aside |-> FALSE, staging |-> FALSE]
    /\ UNCHANGED <<moveIn, owner, tree, docker, beside, claim, read, faults, bringIns>>

\* The bring-in's record once more, now that the reset's own is there for it to see.
LookAgain(y) ==
    /\ pc[y] = "lookAgain"
    /\ IF MoveInThere /\ ~BeingPressed(y)
       THEN Goes(y, "steps") /\ UNCHANGED <<reset, claim>>
       ELSE Ends(y) /\ reset' = NoFile
    /\ UNCHANGED <<moveIn, owner, tree, docker, beside, read, faults, bringIns>>

\* Mutant: a dump that is there is a good one.
CopyIsMissing ==
    /\ "copy" \in reset.done /\ "removed" \notin reset.done
    /\ db # "none" /\ reset.copied /\ dump = "none"

\* _revalidate: a copy that is not what was written is made again by the next press.
CopyIsSpoilt ==
    /\ "copy" \in reset.done /\ "removed" \notin reset.done
    /\ db # "none" /\ reset.copied /\ dump # "whole"

Revalidate(y) ==
    /\ pc[y] = "revalidate"
    /\ IF CopyIsSpoilt
       THEN /\ reset' = [reset EXCEPT !.done = @ \ {"copy"}, !.copied = FALSE]
            /\ Ends(y)
       ELSE Goes(y, "steps") /\ UNCHANGED <<reset, claim>>
    /\ UNCHANGED <<moveIn, owner, tree, docker, beside, read, faults, bringIns>>

-----------------------------------------------------------------------------
(* _steps. *)

Due(step) ==
    /\ UnderWay
    /\ \E i \in 1 .. 6 : /\ STEPS[i] = step /\ step \notin reset.done
                         /\ \A j \in 1 .. i - 1 : STEPS[j] \in reset.done
Finished(step) == reset' = [reset EXCEPT !.done = @ \cup {step}]

\* Mutant: a step that fails gives the folder back, whatever is gone by then.
StepFailsAlike(y) == Ends(y) /\ reset' = NoFile

\* _reset's handler: before the removal the folder goes back to the bring-in as it was.
StepFails(y) == Ends(y) /\ reset' = IF reset.removing THEN reset ELSE NoFile

FindProject(y) ==
    /\ pc[y] = "steps" /\ Due("project") /\ Finished("project")
    /\ UNCHANGED <<moveIn, owner, tree, docker, beside, pc, claim, read, faults, bringIns>>

StopServer(y) ==
    /\ pc[y] = "steps" /\ Due("stopped")
    /\ IF loading THEN StepFails(y) /\ UNCHANGED up
                  ELSE Finished("stopped") /\ up' = FALSE /\ UNCHANGED <<pc, claim>>
    /\ UNCHANGED <<moveIn, owner, tree, db, loading, beside, read, faults, bringIns>>

\* _copy: nothing in Docker is nothing to copy.
Copied ==
    /\ reset' = [reset EXCEPT !.done = @ \cup {"copy"}, !.copied = (db # "none")]
    /\ dump' = IF db = "none" THEN dump ELSE IF loading THEN "damaged" ELSE "whole"

\* _database_session: the database is started on its own for it, unless it is up already.
Copy(y) ==
    /\ pc[y] = "steps" /\ Due("copy")
    /\ IF db = "none" \/ up
       THEN Copied /\ UNCHANGED <<up, pc>>
       ELSE up' = TRUE /\ Goes(y, "copying") /\ UNCHANGED <<reset, dump>>
    /\ UNCHANGED <<moveIn, owner, tree, db, loading, archive, staging, claim, read,
                   faults, bringIns>>

\* It stops again what it started, before the step is recorded.
CopyEnds(y) ==
    /\ pc[y] = "copying" /\ Copied /\ up' = FALSE /\ Goes(y, "steps")
    /\ UNCHANGED <<moveIn, owner, tree, db, loading, archive, staging, claim, read,
                   faults, bringIns>>

\* _refuse_removal: nothing of a folder without an install record, nothing that runs, the
\* database alone included.  Then the mark that from here on a failure keeps both records.
StartRemoval(y) ==
    /\ pc[y] = "steps" /\ Due("removed")
    /\ IF (owner = "none" /\ db # "none") \/ (owner # "none" /\ (loading \/ up))
       THEN StepFails(y)
       ELSE /\ reset' = [reset EXCEPT !.removing = TRUE]
            /\ Goes(y, IF owner = "none" THEN "files" ELSE "volumes") /\ UNCHANGED claim
    /\ UNCHANGED <<moveIn, owner, tree, docker, beside, read, faults, bringIns>>

\* Uninstaller._remove_the_rest, and the folder's emptying with the install record last.
RemoveVolumes(y) ==
    /\ pc[y] = "volumes" /\ db' = "none" /\ Goes(y, "files")
    /\ UNCHANGED <<folder, loading, up, beside, claim, read, faults, bringIns>>

EmptyFolder(y) ==
    /\ pc[y] = "files" /\ tree' = "none" /\ Goes(y, "owner")
    /\ UNCHANGED <<moveIn, reset, owner, docker, beside, claim, read, faults, bringIns>>

RemoveOwner(y) ==
    /\ pc[y] = "owner"
    /\ IF owner # "none" THEN owner' = "none" /\ UNCHANGED <<reset, pc>>
       ELSE Finished("removed") /\ Goes(y, "steps") /\ UNCHANGED owner
    /\ UNCHANGED <<moveIn, tree, docker, beside, claim, read, faults, bringIns>>

\* _baseline.
Verify(y) ==
    /\ pc[y] = "steps" /\ Due("verified")
    /\ IF db = "none" /\ owner = "none" /\ tree = "none" /\ MoveInThere
       THEN Finished("verified") /\ UNCHANGED <<pc, claim>>
       ELSE StepFails(y)
    /\ UNCHANGED <<moveIn, owner, tree, docker, beside, read, faults, bringIns>>

\* _set_aside: the name first, then the archive whole, then the source, then the step.
NameArchive(y) ==
    /\ pc[y] = "steps" /\ Due("set-aside") /\ ~reset.aside
    /\ reset' = [reset EXCEPT !.aside = TRUE]
    /\ UNCHANGED <<moveIn, owner, tree, docker, beside, pc, claim, read, faults, bringIns>>

WriteArchive(y) ==
    /\ pc[y] \in {"steps", "archive"} /\ Due("set-aside") /\ reset.aside
    /\ MoveInThere /\ archive # "whole"
    /\ IF pc[y] = "steps" THEN archive' = "cut" /\ Goes(y, "archive")
       ELSE archive' = "whole" /\ Goes(y, "steps")
    /\ UNCHANGED <<folder, docker, dump, staging, claim, read, faults, bringIns>>

\* Mutant: whatever is at the recorded name is the archive.
RemoveSourceSoon(y) ==
    /\ pc[y] = "steps" /\ Due("set-aside") /\ reset.aside
    /\ MoveInThere /\ archive # "none"
    /\ MayDwell \/ \A z \in Yulons : pc[z] \notin {"looked", "named"}
    /\ moveIn' = NoFile
    /\ UNCHANGED <<reset, owner, tree, docker, beside, pc, claim, read, faults, bringIns>>

RemoveSource(y) ==
    /\ pc[y] = "steps" /\ Due("set-aside") /\ reset.aside
    /\ MoveInThere /\ archive = "whole"
    /\ MayDwell \/ \A z \in Yulons : pc[z] \notin {"looked", "named"}
    /\ moveIn' = NoFile
    /\ UNCHANGED <<reset, owner, tree, docker, beside, pc, claim, read, faults, bringIns>>

\* Mutant: the reset's record goes with its last step, before the install has one.
SetAsideAndForget(y) ==
    /\ pc[y] = "steps" /\ Due("set-aside") /\ reset.aside /\ ~MoveInThere
    /\ reset' = NoFile /\ Goes(y, "guard")
    /\ UNCHANGED <<moveIn, owner, tree, docker, beside, claim, read, faults, bringIns>>

SetAside(y) ==
    /\ pc[y] = "steps" /\ Due("set-aside") /\ reset.aside /\ ~MoveInThere
    /\ Finished("set-aside")
    /\ UNCHANGED <<moveIn, owner, tree, docker, beside, pc, claim, read, faults, bringIns>>

\* Mutant: the plain install follows the check of the removal.
ReadyWhenVerified(y) ==
    /\ pc[y] = "steps" /\ UnderWay /\ \A i \in 1 .. 5 : STEPS[i] \in reset.done
    /\ Goes(y, "guard")
    /\ UNCHANGED <<folder, docker, beside, claim, read, faults, bringIns>>

Ready(y) ==
    /\ pc[y] = "steps" /\ UnderWay /\ \A i \in 1 .. 6 : STEPS[i] \in reset.done
    /\ Goes(y, "guard")
    /\ UNCHANGED <<folder, docker, beside, claim, read, faults, bringIns>>

-----------------------------------------------------------------------------
(* The plain install (catalog/native.py, families/azerothcore.py). *)

\* _guard and _claim_before_writing; a checkout nobody owns is refused by the clone stage.
Guard(y) ==
    /\ pc[y] = "guard"
    /\ IF owner = "none" /\ tree # "none" THEN Ends(y) /\ UNCHANGED owner
       ELSE /\ owner' = IF owner = "none" THEN "claim" ELSE owner
            /\ Goes(y, "clone") /\ UNCHANGED claim
    /\ UNCHANGED <<moveIn, reset, tree, docker, beside, read, faults, bringIns>>

HasGit == tree \in {"git", "bringin", "plain"}

\* A checkout that is there is brought up to date where it is.
CloneUpdates(y) ==
    /\ pc[y] = "clone" /\ HasGit
    /\ tree' = "plain" /\ Goes(y, "stage")
    /\ UNCHANGED <<moveIn, reset, owner, docker, beside, claim, read, faults, bringIns>>

\* prepare_staging: a folder at the recorded path is emptied only if its marker is this reset's.
PrepareStaging(y) ==
    /\ CASE ~reset.staging ->
              /\ reset' = [reset EXCEPT !.staging = TRUE]
              /\ staging' = "marked" /\ Goes(y, "staged") /\ UNCHANGED claim
         [] reset.staging /\ staging = "none" ->
              staging' = "bare" /\ Goes(y, "marking") /\ UNCHANGED <<reset, claim>>
         [] reset.staging /\ staging = "bare" -> Ends(y) /\ UNCHANGED <<reset, staging>>
         [] OTHER -> staging' = "marked" /\ Goes(y, "staged") /\ UNCHANGED <<reset, claim>>
    /\ UNCHANGED <<moveIn, owner, tree>>

\* Without the reset's record the clone seam empties the server folder, and clones into it.
CloneInPlace(y) ==
    /\ moveIn' = NoFile /\ owner' = "none" /\ tree' = "half"
    /\ Goes(y, "inPlace") /\ UNCHANGED <<reset, claim, staging>>

Clone(y) ==
    /\ pc[y] = "clone" /\ ~HasGit
    /\ IF UnderWay THEN PrepareStaging(y) ELSE CloneInPlace(y)
    /\ UNCHANGED <<docker, dump, archive, read, faults, bringIns>>

MarkStaging(y) ==
    /\ pc[y] = "marking" /\ staging' = "marked" /\ Goes(y, "staged")
    /\ UNCHANGED <<folder, docker, dump, archive, claim, read, faults, bringIns>>

Cloned(y) ==
    /\ pc[y] \in {"staged", "inPlace"}
    /\ IF pc[y] = "staged" THEN staging' = "cloned" /\ Goes(y, "cloned") /\ UNCHANGED tree
       ELSE tree' = "plain" /\ Goes(y, "stage") /\ UNCHANGED staging
    /\ UNCHANGED <<moveIn, reset, owner, docker, dump, archive, claim, read, faults, bringIns>>

\* _move_clone_into: .git first, and the staging folder goes at the end.
MoveGit(y) ==
    /\ pc[y] = "cloned" /\ tree' = "git" /\ Goes(y, "moving")
    /\ UNCHANGED <<moveIn, reset, owner, docker, beside, claim, read, faults, bringIns>>

MoveRest(y) ==
    /\ pc[y] = "moving" /\ tree' = "plain" /\ staging' = "none" /\ Goes(y, "stage")
    /\ UNCHANGED <<moveIn, reset, owner, docker, dump, archive, claim, read, faults, bringIns>>

\* Its finally after a move that failed; a removal that is cut off takes the marker with it.
MoveFails(y) ==
    /\ pc[y] \in {"cloned", "moving"} /\ Fault /\ Ends(y)
    /\ staging' \in {"none", "bare"}
    /\ UNCHANGED <<folder, docker, dump, archive, read, bringIns>>

\* write_state, with the first stage recorded: the reset's record has done its work.
RecordStage(y) ==
    /\ pc[y] = "stage" /\ owner' = "stage" /\ Goes(y, "unmark")
    /\ UNCHANGED <<moveIn, reset, tree, docker, beside, claim, read, faults, bringIns>>

Unmark(y) ==
    /\ pc[y] = "unmark" /\ reset' = NoFile /\ Goes(y, "build")
    /\ UNCHANGED <<moveIn, owner, tree, docker, beside, claim, read, faults, bringIns>>

Build(y) ==
    /\ pc[y] = "build" /\ db' = "plain" /\ up' = TRUE /\ Ends(y) /\ reset' = NoFile
    /\ UNCHANGED <<moveIn, owner, tree, loading, beside, read, faults, bringIns>>

\* The player does what the refusal of a folder without a marker asks for.
MoveStagingAway ==
    /\ staging = "bare" /\ \A y \in Yulons : pc[y] # "marking"
    /\ staging' = "none"
    /\ UNCHANGED <<folder, docker, dump, archive, pc, claim, read, faults, bringIns>>

-----------------------------------------------------------------------------
(* Bring-in (MovedInInstall.run). *)

\* folder_refusal and move_held_reason; what the record says is read in the same breath.
PressBringIn(y) ==
    /\ y \in Bringers /\ pc[y] = "idle"
    /\ bringIns < MaxBringIns /\ bringIns' = bringIns + 1
    /\ ~UnderWay /\ ~loading
    /\ MoveInThere \/ (owner = "none" /\ tree = "none")
    /\ read' = [read EXCEPT ![y] = BuiltIn]
    /\ Goes(y, "looked")
    /\ UNCHANGED <<folder, docker, beside, claim, faults>>

\* The press writes its name, over whatever is there by now.
NameIt(y) ==
    /\ pc[y] = "looked" /\ Goes(y, "named")
    /\ moveIn' = [built |-> read[y], pressing |-> y]
    /\ UNCHANGED <<reset, owner, tree, docker, beside, claim, read, faults, bringIns>>

\* Mutant: the press looks for a reset once, before it writes its name.
LookForResetOnce(y) ==
    /\ pc[y] = "named" /\ Goes(y, "bringing")
    /\ UNCHANGED <<folder, docker, beside, claim, read, faults, bringIns>>

LookForReset(y) ==
    /\ pc[y] = "named"
    /\ IF UnderWay THEN Ends(y) /\ moveIn' = Unpressed
       ELSE Goes(y, "bringing") /\ UNCHANGED <<moveIn, claim>>
    /\ UNCHANGED <<reset, owner, tree, docker, beside, read, faults, bringIns>>

\* The install's clone empties the folder, of both records too.
BringClone(y) ==
    /\ pc[y] = "bringing" /\ claim = Nobody /\ tree = "none"
    /\ claim' = y /\ Goes(y, "wiped")
    /\ moveIn' = NoFile /\ reset' = NoFile /\ owner' = "none" /\ tree' = "half"
    /\ UNCHANGED <<docker, beside, read, faults, bringIns>>

\* The install's first record takes a reset's away, as any does (write_state); a load that was
\* cut off is gone on with, without the install (load_cut_off), which ends with the server up.
BringInstall(y) ==
    /\ \/ pc[y] = "wiped" /\ UNCHANGED claim
       \/ pc[y] = "bringing" /\ claim = Nobody /\ tree # "none" /\ owner # "none" /\ claim' = y
    /\ moveIn' = [built |-> read[y], pressing |-> y]
    /\ owner' = "bringin" /\ tree' = "bringin" /\ db' = "brought"
    /\ reset' = IF read[y] THEN reset ELSE NoFile
    /\ up' = (up \/ ~read[y])
    /\ Goes(y, "installed")
    /\ UNCHANGED <<loading, beside, read, faults, bringIns>>

\* The last step but one is recorded, and the load of the data begins.
BringLoad(y) ==
    /\ pc[y] = "installed" /\ Goes(y, "loading")
    /\ moveIn' = [built |-> TRUE, pressing |-> y] /\ loading' = TRUE /\ up' = TRUE
    /\ UNCHANGED <<reset, owner, tree, db, beside, claim, read, faults, bringIns>>

BroughtIn(y) ==
    /\ pc[y] = "loading" /\ loading /\ loading' = FALSE /\ up' = FALSE
    /\ moveIn' = NoFile /\ Ends(y)
    /\ UNCHANGED <<reset, owner, tree, db, beside, read, faults, bringIns>>

\* A stop, a failure or a refusal: keep(), in the install, puts a record back that is gone.
BringEnds(y) ==
    /\ \/ pc[y] \in BringWork \ {"looked"} /\ Fault
       \/ /\ pc[y] = "bringing" /\ UNCHANGED faults
          /\ claim # Nobody \/ (owner = "none" /\ tree # "none")
    /\ moveIn' = IF pc[y] \in {"bringing", "wiped"} /\ ~MoveInThere
                 THEN [built |-> read[y], pressing |-> Nobody] ELSE Unpressed
    /\ loading' = (loading /\ pc[y] # "loading")
    /\ up' \in IF pc[y] = "loading" THEN {FALSE, up} ELSE {up}
    /\ Ends(y)
    /\ UNCHANGED <<reset, owner, tree, db, beside, read, bringIns>>

-----------------------------------------------------------------------------
(* What goes wrong. *)

\* Stop, a Docker error, a full disk, a reservation seen to be lost between two steps.  A copy
\* that fails stops the database, if that does not fail too.
ResetFails(y) ==
    /\ pc[y] \in ResetWork \ {"lookAgain", "revalidate"} /\ Fault
    /\ StepFails(y)
    /\ archive' = IF pc[y] = "archive" THEN "none" ELSE archive
    /\ up' \in IF pc[y] = "copying" THEN {FALSE, up} ELSE {up}
    /\ UNCHANGED <<moveIn, owner, tree, db, loading, dump, staging, read, bringIns>>

PlainFails(y) ==
    /\ pc[y] \in PlainWork \cup {"guard"} /\ Fault /\ Ends(y)
    /\ UNCHANGED <<folder, docker, beside, read, bringIns>>

\* Yu'lon ends.  Its reservation goes with it, its name names nobody; a load goes on, and a
\* database it started stays up.
Die(y) ==
    /\ pc[y] \notin Waiting /\ Fault /\ Ends(y)
    /\ MayDwell \/ pc[y] # "lookAgain" \/ \A z \in Yulons : pc[z] # "bringing"
    /\ moveIn' = IF MoveInThere /\ moveIn.pressing = y THEN Unpressed ELSE moveIn
    /\ UNCHANGED <<reset, owner, tree, docker, beside, read, bringIns>>

OrphanEnds ==
    /\ loading /\ \A y \in Yulons : pc[y] # "loading"
    /\ loading' = FALSE
    /\ UNCHANGED <<folder, db, up, beside, pc, claim, read, faults, bringIns>>

\* A dump is lost or changed while no start over is at work.
DamageDump ==
    /\ dump = "whole" /\ \A y \in Yulons : pc[y] \notin ResetWork
    /\ Fault /\ dump' = "damaged"
    /\ UNCHANGED <<folder, docker, archive, staging, pc, claim, read, bringIns>>

-----------------------------------------------------------------------------
ResetStep(y) ==
    \/ Begin(y) \/ WriteReset(y) \/ LookAgain(y) \/ Revalidate(y)
    \/ FindProject(y) \/ StopServer(y) \/ Copy(y) \/ CopyEnds(y)
    \/ StartRemoval(y) \/ RemoveVolumes(y) \/ EmptyFolder(y) \/ RemoveOwner(y)
    \/ Verify(y) \/ NameArchive(y) \/ WriteArchive(y) \/ RemoveSource(y) \/ SetAside(y)
    \/ Ready(y)

PlainStep(y) ==
    \/ Guard(y) \/ CloneUpdates(y) \/ Clone(y) \/ MarkStaging(y) \/ Cloned(y)
    \/ MoveGit(y) \/ MoveRest(y) \/ RecordStage(y) \/ Unmark(y) \/ Build(y)

BringStep(y) ==
    \/ NameIt(y) \/ LookForReset(y) \/ BringClone(y) \/ BringInstall(y) \/ BringLoad(y)
    \/ BroughtIn(y)

JobStep(y) == ResetStep(y) \/ PlainStep(y) \/ BringStep(y) \/ BringEnds(y)

Next ==
    \/ \E y \in Yulons :
         \/ Ask(y) \/ PressInstall(y) \/ PressBringIn(y) \/ JobStep(y)
         \/ ResetFails(y) \/ PlainFails(y) \/ MoveFails(y) \/ Die(y)
    \/ MoveStagingAway \/ OrphanEnds \/ DamageDump

\* A job that can go on does; the player presses Install again, as each refusal tells them.
Fairness ==
    /\ \A y \in Yulons : WF_vars(JobStep(y)) /\ WF_vars(Ask(y)) /\ WF_vars(PressInstall(y))
    /\ WF_vars(MoveStagingAway) /\ WF_vars(OrphanEnds)

Spec     == Init /\ [][Next]_vars
FairSpec == Spec /\ Fairness

-----------------------------------------------------------------------------
\* What a bring-in loaded is removed only when a copy of it is there, made after the load had
\* ended and not changed since, however often the reset was stopped in between.
CopiedBeforeRemoved == [][db = "brought" /\ db' = "none" => dump = "whole" /\ ~loading]_vars

\* From the first change of a reset until its end, the bring-in's record is in the folder or
\* its archive is whole.
TheRecordIsKept == UnderWay => MoveInThere \/ archive = "whole"

\* A record that a bring-in may carry on from tells the truth: what it calls built is there.
ARecordTellsTheTruth ==
    BuiltIn /\ ~UnderWay => tree = "bringin" /\ owner = "bringin" /\ db = "brought"

\* The plain install works only where nothing of the bring-in is left, its record included.
PlainOnCleanGround ==
    \A y \in Yulons : pc[y] \in PlainWork => db # "brought" /\ owner # "bringin" /\ ~MoveInThere

\* A reset that has had its second look and a bring-in that has had its own never both work.
OneOfTheTwo ==
    \A y, z \in Yulons :
        ~ /\ pc[y] \in (ResetWork \ {"lookAgain"}) \cup PlainWork
          /\ pc[z] \in BringWork \ {"looked", "named"}

\* The database is left up after the removal has begun, by a copy that was made again.
LeftUp == reset # NoFile /\ reset.removing /\ up /\ \A y \in Yulons : pc[y] # "copying"

\* A start over that has begun ends in a server, or in the bring-in as it was, and never in a
\* folder that no press accepts; only a database left up after the removal has begun holds it up.
StartOverEnds ==
    UnderWay ~> \/ owner = "stage" /\ db = "plain"
                \/ ~UnderWay /\ MoveInThere
                \/ LeftUp

\* start_over.KEPT_RECORD: "press Install on this tile again to finish starting over".
InstallFinishesIt ==
    UnderWay ~> (owner = "stage" /\ db = "plain") \/ (~UnderWay /\ MoveInThere)

\* move_server.press_running: "A record names its press while it runs".
ARecordNamesItsPress ==
    \A y \in Yulons : pc[y] \in {"bringing", "installed", "loading"} =>
        MoveInThere /\ moveIn.pressing = y
=============================================================================
