------------------------------ MODULE Rebuild ------------------------------
(***************************************************************************)
(* The Rebuild press of yulon/catalog/native.py: the compile, the names it *)
(* gives Docker's images around it, and the records it leaves on disk.     *)
(*                                                                         *)
(* Before the compile every image gets a second name, <ref>-rollback.  The *)
(* compile moves the live names as it ends.  A press that then fails moves *)
(* them back, by way of <ref>-failed, and keeps a finished build that was  *)
(* never started as <ref>-parked, which a later press may use instead of   *)
(* compiling.  A compile that was stopped goes on in Docker and may move   *)
(* the live names long after its press has ended.  Between two presses     *)
(* only the records say whether a Start may run what the live names name.  *)
(***************************************************************************)
EXTENDS Naturals, FiniteSets

CONSTANTS
    NRefs,        \* images of this server (built_image_refs), in the order they are tagged
    NFolders,     \* contents the server folder may have, as its fingerprint tells them apart
    MaxBuilds,    \* builds there may be, the first one is the server's at the start
    MaxUpsets,    \* how many of the upsets happen, each of them once
    Upsets        \* what may go wrong, beyond a compile and a server that fail

(* Docker refuses a tag (keep, use, settle, restore, undo), does not answer (silent; unread  *)
(* when a landed build is looked for), or cannot stop the servers; the reader of the press's *)
(* output goes away, or Yu'lon is killed; a stopped compile lands at a bad moment (race) or  *)
(* image by image (partial); another is stopped before the first has been dealt with, or     *)
(* lands under one that fails; the folder takes an earlier content again.                    *)
Causes == {"keep", "use", "settle", "restore", "undo", "silent", "stop", "walkout",
           "lateWalkout", "kill", "race", "partial", "second", "landed", "editBack", "unread"}

ASSUME RebuildAssumption ==
    /\ NRefs \in Nat \ {0} /\ NFolders \in Nat \ {0} /\ MaxBuilds \in Nat \ {0}
    /\ MaxUpsets \in Nat /\ Upsets \subseteq Causes

None    == 0
Refs    == 1 .. NRefs
Folders == 1 .. NFolders
Builds  == 1 .. MaxBuilds
Images  == [Refs -> 0 .. MaxBuilds]

Steps == {"idle", "settle", "putBack", "keep", "prepare", "use", "compile", "replace", "start",
          "ready", "failed", "stopNew", "wait", "name", "back", "keepNew", "forget",
          "nameKept", "recordKept", "drop", "restart"}

VARIABLES
    live, rollback, failed, parked,   \* what <ref> and its three other names name
    keptRec,    \* PARKED_BUILD_FILE: fingerprint (None: no file) and images
    stopRec,    \* STOPPED_BUILD_FILE: its fingerprint (None: no file)
    owed,       \* START_REFUSED_FILE
    folder,     \* the server folder's content
    made,       \* the folder content a build was made from (None: not read yet)
    last,       \* builds begun so far
    left,       \* how many images of a build Docker still has to export
    up,         \* the servers run
    started,    \* history: builds some server of this install has been started on
    gaveUp,     \* history: a press had the old servers stopped and put no build back
    pc, at,     \* what the press does next, and to which image
    built, touched, hold, stillKept, tagging, buildExit, f0, after, seen,
    happened    \* history: the upsets so far

names   == <<live, rollback, failed, parked>>
records == <<keptRec, stopRec, owed>>
docker  == <<made, last, left>>
servers == <<up, started, gaveUp>>
memory  == <<built, touched, hold, stillKept, tagging, buildExit, f0, after, seen>>
vars    == <<names, records, folder, docker, servers, pc, at, memory, happened>>

NoImages == [r \in Refs |-> None]
NoRecord == [print |-> None, images |-> NoImages]

TypeOK ==
    /\ live \in Images /\ rollback \in Images /\ failed \in Images /\ parked \in Images
    /\ keptRec \in [print : 0 .. NFolders, images : Images]
    /\ stopRec \in 0 .. NFolders /\ owed \in {"no", "untested", "mixed"}
    /\ folder \in Folders
    /\ made \in [Builds -> 0 .. NFolders] /\ last \in Builds /\ left \in [Builds -> 0 .. NRefs]
    /\ up \in BOOLEAN /\ started \subseteq Builds /\ gaveUp \in BOOLEAN
    /\ pc \in Steps /\ at \in Refs
    /\ built \in BOOLEAN /\ touched \in BOOLEAN /\ hold \in BOOLEAN
    /\ stillKept \in BOOLEAN /\ tagging \in BOOLEAN
    /\ buildExit \in {"none", "ok", "failed", "cancelled"}
    /\ f0 \in 0 .. NFolders /\ after \in 0 .. NFolders /\ seen \in Images
    /\ happened \subseteq Upsets

Init ==
    /\ live = [r \in Refs |-> 1] /\ rollback = NoImages /\ failed = NoImages /\ parked = NoImages
    /\ keptRec = NoRecord /\ stopRec = None /\ owed = "no"
    /\ folder = 1
    /\ made = [b \in Builds |-> IF b = 1 THEN 1 ELSE None] /\ last = 1
    /\ left = [b \in Builds |-> 0]
    /\ up \in BOOLEAN /\ started = {1} /\ gaveUp = FALSE
    /\ pc = "idle" /\ at = 1
    /\ built = FALSE /\ touched = FALSE /\ hold = FALSE /\ stillKept = FALSE /\ tagging = FALSE
    /\ buildExit = "none" /\ f0 = None /\ after = None /\ seen = NoImages
    /\ happened = {}

Upset(cause) ==
    /\ cause \in Upsets \ happened /\ Cardinality(happened) < MaxUpsets
    /\ happened' = happened \cup {cause}
Fine == UNCHANGED happened

Range(f) == {f[r] : r \in Refs}

(***************************************************************************)
(* What a Start asks of the folder (folder_start_refusal).                 *)
(***************************************************************************)
\* Mutant: only a build that landed whole refuses.
WholeBuildRefuses == stopRec # None /\ \A r \in Refs : live[r] # rollback[r]

StoppedBuildRefuses == stopRec # None /\ live # rollback
StartAllowed        == owed = "no" /\ ~StoppedBuildRefuses

(***************************************************************************)
(* A press is over: what it kept in memory is gone.                        *)
(***************************************************************************)
Fresh ==
    /\ built' = FALSE /\ touched' = FALSE /\ hold' = FALSE /\ stillKept' = FALSE
    /\ tagging' = FALSE /\ buildExit' = "none" /\ f0' = None /\ after' = None
    /\ seen' = NoImages /\ at' = 1
End == pc' = "idle" /\ Fresh

To(step)   == pc' = step /\ at' = 1

NextRef(step) == IF at < NRefs THEN at' = at + 1 /\ UNCHANGED pc ELSE To(step)

(***************************************************************************)
(* The player, and the folder.                                             *)
(***************************************************************************)
Start ==
    /\ pc = "idle" /\ ~up /\ StartAllowed
    /\ up' = TRUE /\ started' = started \cup Range(live)
    /\ UNCHANGED <<names, records, folder, docker, gaveUp, pc, at, memory, happened>>

Stop ==
    /\ pc = "idle" /\ up
    /\ up' = FALSE
    /\ UNCHANGED <<names, records, folder, docker, started, gaveUp, pc, at, memory, happened>>

Edit ==
    /\ \/ folder < NFolders /\ folder' = folder + 1 /\ Fine
       \/ Upset("editBack") /\ \E f \in 1 .. folder - 1 : folder' = f
    /\ UNCHANGED <<names, records, docker, servers, pc, at, memory>>

(***************************************************************************)
(* Docker's side of a compile: it reads the folder, then exports one image *)
(* after the other, each of which takes its live name.  It does so whether *)
(* or not the press that began it still waits, one build after the other.  *)
(* That an image arrives just while a later press settles, keeps or uses   *)
(* the names is an upset.                                                  *)
(***************************************************************************)
Settling == {"forget", "nameKept", "recordKept", "putBack", "keep", "use"}

ReadContext(b) ==
    /\ left[b] > 0 /\ made[b] = None
    /\ made' = [made EXCEPT ![b] = folder]
    /\ UNCHANGED <<names, records, folder, last, left, servers, pc, at, memory, happened>>

Export(b) ==
    /\ left[b] > 0 /\ made[b] # None /\ \A c \in Builds : c < b => left[c] = 0
    /\ IF pc \in Settling THEN Upset("race") ELSE Fine
    /\ live' = [live EXCEPT ![NRefs - left[b] + 1] = b]
    /\ left' = [left EXCEPT ![b] = @ - 1]
    /\ UNCHANGED <<rollback, failed, parked, records, folder, made, last, servers, pc, at,
                   memory>>

Dies(b) ==
    /\ left[b] > 0 /\ ~(b = last /\ pc = "compile")
    /\ left' = [left EXCEPT ![b] = 0]
    /\ UNCHANGED <<names, records, folder, made, last, servers, pc, at, memory, happened>>

(***************************************************************************)
(* The press, up to the compile: a build that landed since is settled      *)
(* (_settle_stopped_build), and the rollback is kept (_keep_rollback).     *)
(***************************************************************************)
Press ==
    /\ pc = "idle" /\ last < MaxBuilds
    /\ To("settle")
    /\ UNCHANGED <<names, records, folder, docker, servers, memory, happened>>

Landed == {r \in Refs : rollback[r] # None /\ live[r] # rollback[r]}

LandedOnServers == stopRec # None /\ Landed # {}

NothingLanded ==
    /\ pc = "settle" /\ ~LandedOnServers /\ Fine
    /\ hold' = (stopRec # None) /\ To("keep")
    /\ UNCHANGED <<names, records, folder, docker, servers, built, touched, stillKept, tagging,
                   buildExit, f0, after, seen>>

\* Mutant: the press waits for a Stop instead of refusing.
SettleWaits == pc = "settle" /\ LandedOnServers /\ up /\ UNCHANGED vars

SettleRefuses ==
    /\ pc = "settle" /\ LandedOnServers /\ up /\ Fine
    /\ End
    /\ UNCHANGED <<names, records, folder, docker, servers>>

Settle ==
    /\ pc = "settle" /\ LandedOnServers /\ ~up /\ Fine
    /\ seen' = [r \in Refs |-> IF r \in Landed THEN live[r] ELSE None]
    /\ To(IF Landed = Refs THEN "forget" ELSE "putBack")
    /\ UNCHANGED <<names, records, folder, docker, servers, built, touched, hold, stillKept,
                   tagging, buildExit, f0, after>>

(* The id of a name that Docker does not give counts as not moved, and the press goes on. *)
SettleUnread ==
    /\ pc = "settle" /\ stopRec # None /\ Upset("unread")
    /\ \E heard \in SUBSET Landed \ {Landed} :
          \/ /\ heard = {} /\ hold' = TRUE /\ To("keep")
             /\ UNCHANGED <<built, touched, stillKept, tagging, buildExit, f0, after, seen>>
          \/ heard # {} /\ up /\ End
          \/ /\ heard # {} /\ ~up /\ To("putBack")
             /\ seen' = [r \in Refs |-> IF r \in heard THEN live[r] ELSE None]
             /\ UNCHANGED <<built, touched, hold, stillKept, tagging, buildExit, f0, after>>
    /\ UNCHANGED <<names, records, folder, docker, servers>>

PutBack ==
    /\ pc = "putBack"
    /\ \/ /\ Fine
          /\ live' = [live EXCEPT ![at] = IF seen[at] # None THEN rollback[at] ELSE @]
          /\ IF at < NRefs THEN at' = at + 1 /\ UNCHANGED <<pc, hold>>
                           ELSE To("keep") /\ hold' = TRUE
          /\ UNCHANGED <<built, touched, stillKept, tagging, buildExit, f0, after, seen>>
       \/ /\ Upset("settle") /\ seen[at] # None
          /\ End /\ UNCHANGED live
    /\ UNCHANGED <<rollback, failed, parked, records, folder, docker, servers>>

Keep ==
    /\ pc = "keep"
    /\ \/ /\ Fine
          /\ rollback' = [rollback EXCEPT ![at] = live[at]]
          /\ NextRef("prepare") /\ UNCHANGED memory
       \/ /\ Upset("keep")
          /\ rollback' = [r \in Refs |-> IF r < at THEN None ELSE rollback[r]]
          /\ End
    /\ UNCHANGED <<live, failed, parked, records, folder, docker, servers>>

(***************************************************************************)
(* The build stage: the kept build on an exact match, else a compile.      *)
(***************************************************************************)
\* Mutant: the kept build is used whatever the folder holds.
UsableByName == keptRec.print # None /\ parked = keptRec.images

Usable ==
    /\ keptRec.print # None
    /\ keptRec.print = folder
    /\ parked = keptRec.images

Prepare ==
    /\ pc = "prepare" /\ Fine
    /\ f0' = folder
    /\ IF Usable
       THEN /\ stillKept' = TRUE /\ tagging' = TRUE /\ To("use")
            /\ UNCHANGED <<parked, keptRec, buildExit, last, left>>
       ELSE /\ parked' = NoImages /\ keptRec' = NoRecord
            /\ last' = last + 1 /\ left' = [left EXCEPT ![last + 1] = NRefs]
            /\ buildExit' = "cancelled" /\ To("compile")
            /\ UNCHANGED <<stillKept, tagging>>
    /\ UNCHANGED <<live, rollback, failed, stopRec, owed, folder, made, servers, built,
                   touched, hold, after, seen>>

StopBeforeTheBuild ==
    /\ pc = "prepare" /\ To("failed")
    /\ UNCHANGED <<names, records, folder, docker, servers, memory, happened>>

(* No build left behind by an earlier Stop is still at work once a kept build is used. *)
Alone == left' = [b \in Builds |-> 0]

Use ==
    /\ pc = "use"
    /\ \/ /\ Fine
          /\ live' = [live EXCEPT ![at] = parked[at]]
          /\ IF at < NRefs
             THEN /\ at' = at + 1
                  /\ UNCHANGED <<pc, parked, keptRec, stillKept, built, after, left>>
             ELSE /\ To("replace") /\ Alone
                  /\ keptRec' = NoRecord /\ parked' = NoImages
                  /\ stillKept' = FALSE /\ built' = TRUE /\ after' = f0
       \/ /\ Upset("use") /\ To("failed")
          /\ UNCHANGED <<live, parked, keptRec, stillKept, built, after, left>>
    /\ UNCHANGED <<rollback, failed, stopRec, owed, folder, made, last, servers, touched,
                   hold, tagging, buildExit, f0, seen>>

Moved == live # rollback

(* A Stop read after the build's end fails the stage all the same. *)
Compiled ==
    /\ pc = "compile" /\ left[last] = 0 /\ Fine
    /\ buildExit' = "ok" /\ after' = folder
    /\ \/ built' = TRUE /\ To("replace")
       \/ built' = FALSE /\ To("failed")
    /\ UNCHANGED <<names, records, folder, docker, servers, touched, hold, stillKept,
                   tagging, f0, seen>>

(* The folder is read again when Docker says that a name has moved; a stopped compile     *)
(* counts as having moved one when Docker does not say.  That one moved under a compile   *)
(* that fails is an upset: it was another compile, stopped earlier.                       *)
CompileFails ==
    /\ pc = "compile" /\ left[last] = NRefs
    /\ IF Moved THEN Upset("landed") /\ after' \in {None, folder} ELSE Fine /\ UNCHANGED after
    /\ left' = [left EXCEPT ![last] = 0]
    /\ buildExit' = "failed" /\ To("failed")
    /\ UNCHANGED <<names, records, folder, made, last, servers, built, touched, hold,
                   stillKept, tagging, f0, seen>>

(* That a second compile is stopped while the first one's record stands is an upset. *)
StopTheCompile ==
    /\ pc = "compile"
    /\ IF hold THEN Upset("second") ELSE Fine
    /\ after' \in IF Moved THEN {folder} ELSE {None, folder}
    /\ To("failed")
    /\ UNCHANGED <<names, records, folder, docker, servers, built, touched, hold,
                   stillKept, tagging, buildExit, f0, seen>>

(***************************************************************************)
(* The servers (stage_recreate, stage_ready).  A press has touched them    *)
(* from the moment before their stop is sent.                              *)
(***************************************************************************)
Replace ==
    /\ pc = "replace"
    /\ \/ /\ touched' = TRUE /\ up' = FALSE /\ To("start") /\ Fine
       \/ /\ UNCHANGED <<touched, up>> /\ To("failed") /\ Fine
       \/ /\ Upset("stop") /\ touched' = TRUE /\ UNCHANGED up /\ To("failed")
    /\ UNCHANGED <<names, records, folder, docker, started, gaveUp, built, hold,
                   stillKept, tagging, buildExit, f0, after, seen>>

StartNew ==
    /\ pc = "start" /\ Fine
    /\ \/ up' = TRUE /\ started' = started \cup Range(live) /\ pc' = "ready"
       \/ UNCHANGED <<up, started>> /\ pc' = "failed"
    /\ UNCHANGED <<names, records, folder, docker, gaveUp, at, memory>>

(* Ready, and then perhaps stopped again: either way the build is kept. *)
Ready ==
    /\ pc = "ready" /\ Fine
    /\ up' \in BOOLEAN
    /\ rollback' = NoImages /\ stopRec' = None /\ owed' = "no" /\ gaveUp' = FALSE /\ End
    /\ UNCHANGED <<live, failed, parked, keptRec, folder, docker, started>>

NotReady ==
    /\ pc = "ready" /\ To("failed")
    /\ UNCHANGED <<names, records, folder, docker, servers, memory, happened>>

(***************************************************************************)
(* A stage failed (rebuild's two handlers).  Whether the live names moved  *)
(* is read off Docker (_compose_tagged); what it does not answer counts as *)
(* moved when this press ran something that moves them.                    *)
(***************************************************************************)
MayHaveTagged == tagging \/ buildExit \in {"ok", "cancelled"}

Tagged(answered) == built \/ IF answered THEN Moved ELSE MayHaveTagged

AsksDocker == \/ ~built /\ Upset("silent")
              \/ Fine

NothingMoved ==
    IF buildExit = "cancelled" THEN stopRec' = f0 /\ UNCHANGED rollback
    ELSE /\ UNCHANGED stopRec
         /\ rollback' = IF hold THEN rollback ELSE NoImages

(* A stopped build some of whose images have their names already exports no more of them, *)
(* unless that is the upset.                                                              *)
PartOnly == left' = IF buildExit = "cancelled" THEN [left EXCEPT ![last] = 0] ELSE left

Failed ==
    /\ pc = "failed"
    /\ \/ AsksDocker /\ IF Tagged(happened' = happened) THEN PartOnly ELSE UNCHANGED left
       \/ Upset("partial") /\ buildExit = "cancelled" /\ Moved /\ UNCHANGED left
    /\ IF Tagged(happened' = happened)
       THEN /\ To(IF touched THEN "stopNew" ELSE "wait")
            /\ built' = TRUE
            /\ UNCHANGED <<rollback, stopRec, touched, hold, stillKept, tagging, buildExit, f0,
                           after, seen>>
       ELSE NothingMoved /\ End
    /\ UNCHANGED <<live, failed, parked, keptRec, owed, folder, made, last, servers>>

(* The reader of the press's output is gone: nothing more can be said or put back. *)
WalkOut ==
    /\ pc \in {"prepare", "use", "compile", "replace", "start", "ready"}
    /\ Upset("walkout") /\ ~(pc = "compile" /\ hold)
    /\ IF Tagged(TRUE)
       THEN /\ owed' = "untested"
            /\ stopRec' = IF touched /\ hold THEN None ELSE stopRec
            /\ PartOnly
            /\ UNCHANGED rollback
       ELSE NothingMoved /\ UNCHANGED <<owed, left>>
    /\ End
    /\ UNCHANGED <<live, failed, parked, keptRec, folder, made, last, servers>>

Killed ==
    /\ pc # "idle" /\ Upset("kill")
    /\ End
    /\ UNCHANGED <<names, records, folder, docker, servers>>

(***************************************************************************)
(* The restore (_restore_rollback).                                        *)
(***************************************************************************)
StopNew ==
    /\ pc = "stopNew"
    /\ \/ up' = FALSE /\ To("name") /\ Fine /\ UNCHANGED <<gaveUp, memory>>
       \/ Upset("stop") /\ gaveUp' = TRUE /\ UNCHANGED up /\ End
    /\ UNCHANGED <<names, records, folder, docker, started>>

WaitForDocker ==
    /\ pc = "wait"
    /\ \/ To("name") /\ Fine /\ UNCHANGED <<owed, memory>>
       \/ Upset("silent") /\ owed' = "untested" /\ End
       \/ Upset("lateWalkout") /\ UNCHANGED owed /\ End
    /\ UNCHANGED <<names, keptRec, stopRec, folder, docker, servers>>

\* Mutant: Docker's refusal of a tag owes the next Start nothing.
NothingOwed == UNCHANGED owed /\ gaveUp' = touched

(* What names the new build, and may not be undone, was never started: so says only a press *)
(* that had not sent the old servers their stop.                                            *)
NotPutBack == /\ owed' = IF touched THEN owed ELSE "untested"
              /\ gaveUp' = touched

NameNew ==
    /\ pc = "name"
    /\ \/ /\ Fine /\ failed' = [failed EXCEPT ![at] = live[at]]
          /\ NextRef("back") /\ UNCHANGED <<owed, gaveUp, memory>>
       \/ /\ Upset("restore") /\ failed' = NoImages /\ NotPutBack /\ End
    /\ UNCHANGED <<live, rollback, parked, keptRec, stopRec, folder, docker, up, started>>

MoveBack ==
    /\ pc = "back"
    /\ \/ /\ Fine /\ live' = [live EXCEPT ![at] = rollback[at]]
          /\ NextRef("keepNew") /\ UNCHANGED <<failed, owed, gaveUp, memory>>
       \/ /\ failed' = NoImages /\ End
          /\ \/ /\ Upset("restore")
                /\ live' = [r \in Refs |-> IF r < at THEN failed[r] ELSE live[r]]
                /\ NotPutBack
             \/ /\ Upset("undo")
                /\ \E stuck \in SUBSET (1 .. at - 1) \ {{}} :
                      live' = [r \in Refs |-> IF r < at /\ r \notin stuck THEN failed[r]
                                                                         ELSE live[r]]
                /\ owed' = "mixed" /\ UNCHANGED gaveUp
    /\ UNCHANGED <<rollback, parked, keptRec, stopRec, folder, docker, up, started>>

(* A finished build that no container was made from is worth keeping when it is whole and the *)
(* folder did not change under its compile (_park).                                           *)
WorthKeeping == \A r \in Refs : failed[r] # rollback[r]

KeepNew ==
    /\ pc = "keepNew" /\ Fine
    /\ IF ~touched /\ ~stillKept /\ f0 # None /\ WorthKeeping /\ after = f0
       THEN seen' = failed /\ To("forget")
       ELSE UNCHANGED seen /\ To("drop")
    /\ UNCHANGED <<names, records, folder, docker, servers, built, touched, hold,
                   stillKept, tagging, buildExit, f0, after>>

(* The old record goes before the names it would mistake, and the new one comes after them. *)
ForgetKept ==
    /\ pc = "forget" /\ Fine
    /\ keptRec' = NoRecord /\ To("nameKept")
    /\ UNCHANGED <<names, stopRec, owed, folder, docker, servers, memory>>

NameKept ==
    /\ pc = "nameKept" /\ Fine
    /\ parked' = IF built THEN failed ELSE live
    /\ To("recordKept")
    /\ UNCHANGED <<live, rollback, failed, records, folder, docker, servers, memory>>

RecordKept ==
    /\ pc = "recordKept" /\ Fine
    /\ IF parked = seen
       THEN /\ keptRec' = [print |-> IF built THEN f0 ELSE stopRec, images |-> seen]
            /\ UNCHANGED parked
       ELSE parked' = NoImages /\ UNCHANGED keptRec
    /\ To(IF built THEN "drop" ELSE "putBack")
    /\ UNCHANGED <<live, rollback, failed, stopRec, owed, folder, docker, servers, memory>>

LetGo == rollback' = IF hold /\ ~touched THEN rollback ELSE NoImages

Drop ==
    /\ pc = "drop" /\ Fine
    /\ failed' = NoImages
    /\ IF touched /\ StartAllowed
       THEN To("restart") /\ UNCHANGED <<rollback, stopRec, memory>>
       ELSE LetGo /\ stopRec' = (IF touched /\ hold THEN None ELSE stopRec) /\ End
    /\ UNCHANGED <<live, parked, keptRec, owed, folder, docker, servers>>

(* The old build is started again, comes up or does not, or Docker never hears of it. *)
Restart ==
    /\ pc = "restart" /\ Fine
    /\ \/ up' = TRUE /\ started' = started \cup Range(live)
       \/ UNCHANGED <<up, started>>
    /\ LetGo /\ stopRec' = (IF hold THEN None ELSE stopRec) /\ End
    /\ UNCHANGED <<live, failed, parked, keptRec, owed, folder, docker, gaveUp>>

-----------------------------------------------------------------------------
PressSteps ==
    \/ NothingLanded \/ SettleRefuses \/ Settle \/ PutBack \/ Keep \/ Prepare \/ Use \/ Compiled
    \/ Replace \/ StartNew \/ Ready \/ Failed \/ StopNew \/ WaitForDocker \/ NameNew \/ MoveBack
    \/ KeepNew \/ ForgetKept \/ NameKept \/ RecordKept \/ Drop \/ Restart

Docker == \E b \in Builds : ReadContext(b) \/ Export(b) \/ Dies(b)

Next ==
    \/ Start \/ Stop \/ Edit \/ Press \/ PressSteps \/ Docker
    \/ SettleUnread \/ StopBeforeTheBuild \/ CompileFails \/ StopTheCompile \/ NotReady
    \/ WalkOut \/ Killed

(* What leaves no record of what the live names name: five ends of a press, and a press that *)
(* did not hear that a stopped build had landed, and took it for the old one.                *)
Unrecorded == {"keep", "lateWalkout", "kill", "race", "partial", "second", "unread"}

Spec == Init /\ [][Next]_vars

FairSpec == Spec /\ WF_vars(PressSteps) /\ WF_vars(\E b \in Builds : ReadContext(b) \/ Export(b))

-----------------------------------------------------------------------------
(* What a Start would run is one build, never some images of one and some of another: the   *)
(* records refuse it.  Upsets that no record covers are the exception.                        *)
OneBuild == \A r, s \in Refs : live[r] = live[s]

AStartRunsOneBuild ==
    pc = "idle" /\ StartAllowed /\ happened \cap Unrecorded = {} => OneBuild

(* Nor does it run a build no server was ever started on, unless a press had stopped the old *)
(* servers and could then not put their build back.                                          *)
Tested == Range(live) \subseteq started

AStartRunsATestedBuild ==
    pc = "idle" /\ StartAllowed /\ happened \cap Unrecorded = {} /\ ~gaveUp => Tested

(* A kept build that was put on the live names was made, all of it, from the folder as it is: *)
(* the fingerprint a record holds is the build's own, unless a stopped one had no record, or  *)
(* landed under a press that failed, or the folder changed and changed back meanwhile.        *)
FromTheFolder == \A r \in Refs : live[r] # None /\ made[live[r]] = f0

UsingTheKept == tagging /\ built /\ pc \in {"replace", "start"}

AKeptBuildIsExact ==
    UsingTheKept /\ happened \cap (Unrecorded \cup {"landed", "editBack"}) = {} => FromTheFolder

(* Every press ends: a Docker that is silent, a compile and a server that fail end it too. *)
PressEnds == pc # "idle" ~> pc = "idle"

(* What the sources say of every Start and of every kept build, with no exception. *)
NoStartRunsAMix           == pc = "idle" /\ StartAllowed => OneBuild
NoStartRunsAnUntestedBuild == pc = "idle" /\ StartAllowed => Tested
OnlyAnExactBuildIsUsed    == UsingTheKept => FromTheFolder
=============================================================================
