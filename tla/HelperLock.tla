----------------------------- MODULE HelperLock -----------------------------
(***************************************************************************)
(* How Yu'lon and its update helpers agree on who may move an install's     *)
(* files (selfupdate/swap.py, layout.py, stage.py, cleanup.py, main.py).    *)
(* All of it happens in the files of .yulon-old: a lock folder with an      *)
(* owner and a pid file, a stamp that says "I am running", and a stand-down *)
(* file that says "you are not wanted".  What a mover then does to the      *)
(* install is UpdateSwap's subject.                                         *)
(*                                                                         *)
(* Time is in one assumption.  The app's long steps (its timeouts, the      *)
(* thirty seconds after which a lock naming nobody is rubbish, a staging, a *)
(* start by the player) outlast every short step of a running helper,       *)
(* except the steps in Frozen, in which a helper may be held up for as long *)
(* as it likes.                                                             *)
(***************************************************************************)
EXTENDS Naturals

CONSTANTS
    Attempts,     \* the attempts to restart, named by their nonces
    Nobody,       \* no attempt
    MaxSessions,  \* how many times Yu'lon is started
    MaxPlans,     \* how many times an update is staged
    AtomicMkdir,  \* is mkdir one step (GNU), or a look and a step (uutils)
    Outlives,     \* may a helper survive being terminated and killed
    Frozen        \* the steps in which a helper may be held up

HelperSteps == {"none", "start", "claim", "looked", "own", "pid", "stamp",
                "waiting", "lastLook", "lastCheck", "moving",
                "leaving", "dropPid", "dropOwner", "dropDir", "gone", "killed"}

ASSUME HelperLockAssumption ==
    /\ Nobody \notin Attempts
    /\ MaxSessions \in Nat \ {0} /\ MaxPlans \in Nat
    /\ AtomicMkdir \in BOOLEAN /\ Outlives \in BOOLEAN
    /\ Frozen \subseteq HelperSteps

AppSteps == {"closed", "tidy", "idle", "makeWay", "told", "clearFiles", "clearDir",
             "discard", "staging", "plan", "planned", "await", "ending",
             "releaseFiles", "releaseDir", "clearStamp", "closing"}

VARIABLES
    folder,     \* whether .yulon-new and .yulon-old are there, marked and filled
    lockDir,    \* whether the lock folder is there
    owner,      \* the nonce in its owner file
    ownerPid,   \* the attempt whose process its pid file names
    stamp,      \* the nonce in the stamp
    standDown,  \* the nonce in the stand-down file
    helper,     \* what each attempt's helper is doing
    waitsFor,   \* the session whose end each helper waits for
    app,        \* what Yu'lon is doing
    session,    \* how many times it has been started
    ready,      \* whether a staged update is at hand (_ready)
    after,      \* what making way is for
    att,        \* the attempt the app is about
    kept,       \* a helper that would not stop (_helper)
    plans,      \* how many updates were planned
    givenUp,    \* the attempts the player was told had changed nothing
    told        \* the attempts whose own Yu'lon asked them to make way

lock  == <<lockDir, owner, ownerPid>>
notes == <<stamp, standDown>>
files == <<folder, lock, notes>>
theApp == <<app, session, ready, after, att, kept, plans, givenUp, told>>
vars  == <<files, helper, waitsFor, theApp>>

Nonce == Attempts \cup {Nobody}

Init ==
    /\ folder = FALSE /\ lockDir = FALSE
    /\ owner = Nobody /\ ownerPid = Nobody /\ stamp = Nobody /\ standDown = Nobody
    /\ helper = [a \in Attempts |-> "none"] /\ waitsFor = [a \in Attempts |-> 0]
    /\ app = "idle" /\ session = 1 /\ ready = FALSE /\ after = "idle"
    /\ att = Nobody /\ kept = Nobody /\ plans = 0 /\ givenUp = {} /\ told = {}

Alive(a) == helper[a] \notin {"none", "gone", "killed"}

Running(s) == session = s /\ app # "closed"

\* No helper is in a short step, but for those that are held up.
Long ==
    \A a \in Attempts :
        \/ ~Alive(a) \/ helper[a] \in Frozen
        \/ helper[a] = "waiting" /\ Running(waitsFor[a])

Wiped ==
    /\ folder' = FALSE /\ lockDir' = FALSE
    /\ owner' = Nobody /\ ownerPid' = Nobody
    /\ stamp' = Nobody /\ standDown' = Nobody

-----------------------------------------------------------------------------
(* A helper. *)

To(a, from, to) == helper[a] = from /\ helper' = [helper EXCEPT ![a] = to]

Stays == UNCHANGED <<waitsFor, theApp>>

Validate(a) ==
    /\ To(a, "start", IF folder THEN "claim" ELSE "gone")
    /\ UNCHANGED files /\ Stays

\* mkdir of the lock folder, which uutils tells two racers they both did.
Claim(a) ==
    /\ helper[a] = "claim"
    /\ IF lockDir \/ ~folder THEN To(a, "claim", "gone") /\ UNCHANGED lockDir
       ELSE IF AtomicMkdir   THEN To(a, "claim", "own") /\ lockDir' = TRUE
                             ELSE To(a, "claim", "looked") /\ UNCHANGED lockDir
    /\ UNCHANGED <<folder, owner, ownerPid, notes>> /\ Stays

MakeDir(a) ==
    /\ To(a, "looked", IF folder THEN "own" ELSE "gone")
    /\ lockDir' = folder
    /\ UNCHANGED <<folder, owner, ownerPid, notes>> /\ Stays

\* The exclusive create of the owner file.  Who fails it removes nothing.
Own(a) ==
    /\ \/ lockDir /\ owner = Nobody /\ To(a, "own", "pid") /\ owner' = a
       \/ (~lockDir \/ owner # Nobody) /\ To(a, "own", "gone") /\ UNCHANGED owner
    /\ UNCHANGED <<folder, lockDir, ownerPid, notes>> /\ Stays

WritePid(a) ==
    /\ To(a, "pid", IF lockDir THEN "stamp" ELSE "leaving")
    /\ ownerPid' = IF lockDir THEN a ELSE ownerPid
    /\ UNCHANGED <<folder, lockDir, owner, notes>> /\ Stays

StampThePid(a) ==
    /\ To(a, "stamp", IF folder THEN "waiting" ELSE "leaving")
    /\ stamp' = IF folder THEN waitsFor[a] ELSE stamp
    /\ UNCHANGED <<folder, lock, standDown>> /\ Stays

WriteStamp(a) ==
    /\ To(a, "stamp", IF folder THEN "waiting" ELSE "leaving")
    /\ stamp' = IF folder THEN a ELSE stamp
    /\ UNCHANGED <<folder, lock, standDown>> /\ Stays

\* The loop of kill -0: told to stop, or the app is gone.
Wait(a) ==
    /\ \/ Running(waitsFor[a]) /\ standDown = a /\ To(a, "waiting", "leaving")
       \/ ~Running(waitsFor[a]) /\ To(a, "waiting", "lastLook")
    /\ UNCHANGED files /\ Stays

GiveUpWhenToldTo(a) ==
    /\ Running(waitsFor[a]) /\ standDown = a /\ To(a, "waiting", "leaving")
    /\ UNCHANGED files /\ Stays

\* Out of ticks; a close that is under way takes less than six minutes.
GiveUp(a) ==
    /\ Running(waitsFor[a]) /\ app # "closing" /\ To(a, "waiting", "leaving")
    /\ UNCHANGED files /\ Stays

LookNoMore(a) ==
    /\ To(a, "lastLook", "lastCheck")
    /\ UNCHANGED files /\ Stays

LastLook(a) ==
    /\ To(a, "lastLook", IF standDown = a THEN "leaving" ELSE "lastCheck")
    /\ UNCHANGED files /\ Stays

CheckTheFolders(a) ==
    /\ To(a, "lastCheck", IF folder THEN "moving" ELSE "leaving")
    /\ UNCHANGED files /\ Stays

\* still_ours
LastCheck(a) ==
    /\ To(a, "lastCheck",
          IF folder /\ owner = a /\ stamp = a THEN "moving" ELSE "leaving")
    /\ UNCHANGED files /\ Stays

Moved(a) ==
    /\ To(a, "moving", "leaving")
    /\ UNCHANGED files /\ Stays

LeaveAnyway(a) ==
    /\ To(a, "leaving", "dropPid")
    /\ UNCHANGED files /\ Stays

\* The EXIT trap: only a lock whose owner is still us.
Leave(a) ==
    /\ To(a, "leaving", IF owner = a THEN "dropPid" ELSE "gone")
    /\ UNCHANGED files /\ Stays

DropPid(a) ==
    /\ To(a, "dropPid", "dropOwner") /\ ownerPid' = Nobody
    /\ UNCHANGED <<folder, lockDir, owner, notes>> /\ Stays

DropOwner(a) ==
    /\ To(a, "dropOwner", "dropDir") /\ owner' = Nobody
    /\ UNCHANGED <<folder, lockDir, ownerPid, notes>> /\ Stays

DropDir(a) ==
    /\ To(a, "dropDir", "gone")
    /\ lockDir' = (lockDir /\ (owner # Nobody \/ ownerPid # Nobody))
    /\ UNCHANGED <<folder, owner, ownerPid, notes>> /\ Stays

HelperStep(a) ==
    \/ Validate(a) \/ Claim(a) \/ MakeDir(a) \/ Own(a) \/ WritePid(a) \/ WriteStamp(a)
    \/ Wait(a) \/ LastLook(a) \/ LastCheck(a) \/ Moved(a)
    \/ Leave(a) \/ DropPid(a) \/ DropOwner(a) \/ DropDir(a)

\* SIGKILL, TerminateProcess, a power cut.  One in mid-move is UpdateSwap's.
Killed(a) ==
    /\ Alive(a) /\ helper[a] # "moving"
    /\ helper' = [helper EXCEPT ![a] = "killed"]
    /\ UNCHANGED files /\ Stays

-----------------------------------------------------------------------------
(* The app: staging an update. *)

\* start_update: there is nothing staged to reuse, or a newer version is
\* offered.  prepare makes way first.
Press ==
    /\ app = "idle" /\ plans < MaxPlans
    /\ app' = "makeWay" /\ after' = "discard"
    /\ UNCHANGED <<files, helper, waitsFor, session, ready, att, kept, plans, givenUp, told>>

\* lock_holder(...).alive(): the pid counts only with an owner beside it.
HolderPid == IF owner = Nobody THEN Nobody ELSE ownerPid
HolderAlive == HolderPid # Nobody /\ Alive(HolderPid)

\* clear_stale_lock finds none, or rubbish, or a lock to leave alone.
WayIsFree ==
    /\ app \in {"makeWay", "told"} /\ ~lockDir
    /\ app' = after
    /\ UNCHANGED <<files, helper, waitsFor, session, ready, after, att, kept, plans, givenUp,
                   told>>

LockIsInTheWay ==
    /\ app \in {"makeWay", "told"} /\ lockDir
    /\ app' = "clearFiles"
    /\ UNCHANGED <<files, helper, waitsFor, session, ready, after, att, kept, plans, givenUp,
                   told>>

LockIsStale ==
    /\ app \in {"makeWay", "told"} /\ lockDir
    /\ ~HolderAlive /\ (HolderPid = Nobody => Long)
    /\ app' = "clearFiles"
    /\ UNCHANGED <<files, helper, waitsFor, session, ready, after, att, kept, plans, givenUp,
                   told>>

ClearFiles ==
    /\ app = "clearFiles"
    /\ owner' = Nobody /\ ownerPid' = Nobody
    /\ app' = "clearDir"
    /\ UNCHANGED <<folder, lockDir, notes, helper, waitsFor, session, ready, after, att,
                   kept, plans, givenUp, told>>

ClearDir ==
    /\ app = "clearDir"
    /\ lockDir' = (owner # Nobody \/ ownerPid # Nobody)
    /\ app' \in IF lockDir' THEN {"makeWay", "told"} ELSE {after}
    /\ UNCHANGED <<folder, owner, ownerPid, notes, helper, waitsFor, session, ready, after,
                   att, kept, plans, givenUp, told>>

TellToStop ==
    /\ app = "makeWay" /\ lockDir
    /\ HolderAlive \/ HolderPid = Nobody
    /\ standDown' = IF owner # Nobody THEN owner ELSE standDown
    /\ told' = told \cup {a \in Attempts : owner = a /\ waitsFor[a] = session}
    /\ app' = "told"
    /\ UNCHANGED <<folder, lock, stamp, helper, waitsFor, session, ready, after, att, kept,
                   plans, givenUp>>

\* Ten seconds, and the lock is still held.  A refused plan clears up.
WayIsBarred ==
    /\ app = "told" /\ lockDir /\ Long
    /\ HolderAlive \/ HolderPid = Nobody
    /\ app' = "idle" /\ after' = "idle" /\ ready' = (ready /\ after = "idle")
    /\ IF after = "plan" THEN Wiped ELSE UNCHANGED files
    /\ UNCHANGED <<helper, waitsFor, session, att, kept, plans, givenUp, told>>

Discard ==
    /\ app = "discard"
    /\ Wiped
    /\ app' = "staging"
    /\ UNCHANGED <<helper, waitsFor, session, ready, after, att, kept, plans, givenUp, told>>

Staged ==
    /\ app = "staging" /\ Long
    /\ app' = "makeWay" /\ after' = "plan"
    /\ UNCHANGED <<files, helper, waitsFor, session, ready, att, kept, plans, givenUp, told>>

StageFails ==
    /\ app = "staging"
    /\ Wiped
    /\ app' = "idle" /\ after' = "idle" /\ ready' = FALSE
    /\ UNCHANGED <<helper, waitsFor, session, att, kept, plans, givenUp, told>>

\* _make_the_backup_dir: the last discard, then a fresh marked folder.
Plan ==
    /\ app = "plan"
    /\ folder' = TRUE /\ lockDir' = FALSE /\ owner' = Nobody /\ ownerPid' = Nobody
    /\ stamp' = Nobody /\ standDown' = Nobody
    /\ ready' = FALSE /\ app' = "planned" /\ after' = "idle" /\ plans' = plans + 1
    /\ UNCHANGED <<helper, waitsFor, session, att, kept, givenUp, told>>

\* install_done after a Cancel.
DiscardStaged ==
    /\ app = "planned"
    /\ Wiped
    /\ ready' = FALSE /\ app' = "idle"
    /\ UNCHANGED <<helper, waitsFor, session, after, att, kept, plans, givenUp, told>>

-----------------------------------------------------------------------------
(* The app: one attempt to restart (_try_to_restart). *)

\* Something is refusing a close, or an earlier helper would not stop.
NotNow ==
    /\ app = "planned"
    /\ ready' = TRUE /\ app' = "idle"
    /\ UNCHANGED <<files, helper, waitsFor, session, after, att, kept, plans, givenUp, told>>

Restart(a) ==
    /\ app = "planned" \/ (app = "idle" /\ ready)
    /\ folder
    /\ kept # Nobody => ~Alive(kept)
    /\ To(a, "none", "start")
    /\ waitsFor' = [waitsFor EXCEPT ![a] = session]
    /\ att' = a /\ app' = "await" /\ ready' = TRUE
    /\ UNCHANGED <<files, session, after, kept, plans, givenUp, told>>

AnyHelperReports ==
    /\ app = "await" /\ stamp # Nobody
    /\ app' = "closing" /\ ready' = FALSE
    /\ UNCHANGED <<files, helper, waitsFor, session, after, att, kept, plans, givenUp, told>>

HelperReports ==
    /\ app = "await" /\ stamp = att
    /\ app' = "closing" /\ ready' = FALSE
    /\ UNCHANGED <<files, helper, waitsFor, session, after, att, kept, plans, givenUp, told>>

AwaitsForEver == FALSE

\* stand_down, and then end_helper.
NoReport ==
    /\ app = "await" /\ stamp # att /\ Long
    /\ standDown' = IF folder THEN att ELSE standDown
    /\ app' = "ending" /\ givenUp' = givenUp \cup {att}
    /\ UNCHANGED <<folder, lock, stamp, helper, waitsFor, session, ready, after, att, kept,
                   plans, told>>

\* SIGTERM runs the EXIT trap; have_lock says whether there is anything to do.
Terminate ==
    /\ app = "ending" /\ Alive(att)
    /\ helper[att] \notin {"leaving", "dropPid", "dropOwner", "dropDir"}
    /\ \E exit \in IF helper[att] \in {"start", "claim", "looked", "own"} THEN {"gone"}
                   ELSE IF helper[att] = "pid" THEN {"gone", "leaving"} ELSE {"leaving"} :
         helper' = [helper EXCEPT ![att] = exit]
    /\ UNCHANGED <<files, waitsFor, theApp>>

Kill ==
    /\ app = "ending" /\ Alive(att)
    /\ helper' = [helper EXCEPT ![att] = "killed"]
    /\ UNCHANGED <<files, waitsFor, theApp>>

EndedUnproved ==
    /\ app = "ending"
    /\ app' = "releaseFiles"
    /\ UNCHANGED <<files, helper, waitsFor, session, ready, after, att, kept, plans, givenUp,
                   told>>

Ended ==
    /\ app = "ending" /\ ~Alive(att)
    /\ app' = "releaseFiles"
    /\ UNCHANGED <<files, helper, waitsFor, session, ready, after, att, kept, plans, givenUp,
                   told>>

WouldNotStop ==
    /\ app = "ending" /\ Alive(att) /\ Outlives
    /\ app' = "idle" /\ kept' = att
    /\ UNCHANGED <<files, helper, waitsFor, session, ready, after, att, plans, givenUp, told>>

\* release_after: the lock, if it is this attempt's, then the two notes.
ReleaseFiles ==
    /\ app = "releaseFiles"
    /\ IF owner = att
       THEN owner' = Nobody /\ ownerPid' = Nobody /\ app' = "releaseDir"
       ELSE UNCHANGED <<owner, ownerPid>> /\ app' = "clearStamp"
    /\ UNCHANGED <<folder, lockDir, notes, helper, waitsFor, session, ready, after, att,
                   kept, plans, givenUp, told>>

ReleaseDir ==
    /\ app = "releaseDir"
    /\ lockDir' = (owner # Nobody \/ ownerPid # Nobody)
    /\ app' = "clearStamp"
    /\ UNCHANGED <<folder, owner, ownerPid, notes, helper, waitsFor, session, ready, after,
                   att, kept, plans, givenUp, told>>

ClearStamp ==
    /\ app = "clearStamp"
    /\ stamp' = Nobody /\ standDown' = Nobody
    /\ kept' = Nobody /\ app' = "makeWay" /\ after' = "idle"
    /\ UNCHANGED <<folder, lock, helper, waitsFor, session, ready, att, plans, givenUp, told>>

-----------------------------------------------------------------------------
(* The app comes and goes. *)

Close ==
    /\ app = "closing"
    /\ app' = "closed" /\ kept' = Nobody
    /\ UNCHANGED <<files, helper, waitsFor, session, ready, after, att, plans, givenUp, told>>

\* Something began in the wait for the stamp and refuses the close.
CloseRefused ==
    /\ app = "closing"
    /\ app' = "idle"
    /\ UNCHANGED <<files, helper, waitsFor, session, ready, after, att, kept, plans, givenUp,
                   told>>

\* The player closes Yu'lon, or it dies.
Die ==
    /\ app \notin {"closed", "closing"}
    /\ app' = "closed" /\ ready' = FALSE /\ after' = "idle"
    /\ att' = Nobody /\ kept' = Nobody
    /\ UNCHANGED <<files, helper, waitsFor, session, plans, givenUp, told>>

Start ==
    /\ app = "closed" /\ session < MaxSessions /\ Long
    /\ session' = session + 1 /\ app' = "tidy" /\ att' = Nobody
    /\ UNCHANGED <<files, helper, waitsFor, ready, after, kept, plans, givenUp, told>>

\* finish_previous_update: the marker's process is gone, so the folders go.
Tidy ==
    /\ app = "tidy"
    /\ Wiped
    /\ app' = "idle"
    /\ UNCHANGED <<helper, waitsFor, session, ready, after, att, kept, plans, givenUp, told>>

AppStep ==
    \/ WayIsFree \/ LockIsStale \/ ClearFiles \/ ClearDir \/ TellToStop \/ WayIsBarred
    \/ Discard \/ Staged \/ StageFails \/ Plan
    \/ HelperReports \/ NoReport \/ Terminate \/ Kill \/ Ended \/ WouldNotStop
    \/ ReleaseFiles \/ ReleaseDir \/ ClearStamp \/ Close \/ Tidy

PlayerStep ==
    \/ Press \/ NotNow \/ DiscardStaged \/ CloseRefused \/ Die \/ Start
    \/ \E a \in Attempts : Restart(a)

Next ==
    \/ AppStep \/ PlayerStep
    \/ \E a \in Attempts : HelperStep(a) \/ GiveUp(a) \/ Killed(a)

Spec == Init /\ [][Next]_vars

\* A process keeps running, and the app keeps on with what it began.
FairSpec ==
    /\ Spec /\ WF_vars(AppStep)
    /\ \A a \in Attempts : WF_vars(HelperStep(a)) /\ WF_vars(GiveUp(a))

-----------------------------------------------------------------------------

\* Every variable keeps its shape.
TypeOK ==
    /\ folder \in BOOLEAN /\ lockDir \in BOOLEAN
    /\ owner \in Nonce /\ ownerPid \in Nonce /\ stamp \in Nonce /\ standDown \in Nonce
    /\ helper \in [Attempts -> HelperSteps] /\ waitsFor \in [Attempts -> 0..MaxSessions]
    /\ app \in AppSteps /\ session \in 1..MaxSessions /\ ready \in BOOLEAN
    /\ after \in {"idle", "discard", "plan"}
    /\ att \in Nonce /\ kept \in Nonce /\ plans \in 0..MaxPlans
    /\ givenUp \subseteq Attempts /\ told \subseteq Attempts

(***************************************************************************)
(* Two helpers never move an install's files at once ("two helpers on one   *)
(* install produced a mixed-version install with no backup at all"), though *)
(* uutils' mkdir answers two racers, helpers of earlier sessions linger and *)
(* the app clears locks away.                                               *)
(***************************************************************************)
OneMover ==
    \A a, b \in Attempts : helper[a] = "moving" /\ helper[b] = "moving" => a = b

(***************************************************************************)
(* Nothing is moved while any Yu'lon is open.  Within one session the       *)
(* helper's wait sees to it.  A helper held up before its lock since an     *)
(* earlier session finds the folder of the next Yu'lon's update under the   *)
(* same name, and its own Yu'lon gone: MCHelperLockEarlierSession.cfg.      *)
(***************************************************************************)
NeverUnderTheApp ==
    \A a \in Attempts : helper[a] = "moving" => app = "closed"

(***************************************************************************)
(* A helper that did not report in, of which the player was told that       *)
(* nothing was changed, changes nothing afterwards (layout.STAND_DOWN).     *)
(***************************************************************************)
GivenUpNeverMoves ==
    \A a \in givenUp : helper[a] # "moving"

(***************************************************************************)
(* A helper whose Yu'lon would not close after all, and told it to make way *)
(* for another update, changes nothing afterwards: not when that Yu'lon     *)
(* then ends before the helper has looked, nor when the next one has        *)
(* cleared the note away with the folder (stage.prepare, STAND_DOWN).       *)
(***************************************************************************)
ToldNeverMoves ==
    \A a \in told : helper[a] # "moving"

BeforeItsMoves(a) ==
    helper[a] \in {"start", "claim", "looked", "own", "pid", "stamp",
                   "waiting", "lastLook", "lastCheck"}

(***************************************************************************)
(* "Never close on faith": the app closes only for a helper that has        *)
(* reported in, and nothing that app, other helpers or leftovers of theirs  *)
(* do makes that helper's last look turn it away.                           *)
(***************************************************************************)
HandshakeKept ==
    (app = "closed" /\ att # Nobody /\ BeforeItsMoves(att))
        => folder /\ owner = att /\ stamp = att /\ standDown # att

(***************************************************************************)
(* A helper gives back no lock but its own: an owner that disappears was    *)
(* removed by the app or by the helper it names (swap.py, cleanup).         *)
(***************************************************************************)
OnlyItsOwnLock ==
    [][\A a \in Attempts :
          (owner = a /\ owner' # a /\ app' = app) => helper'[a] # helper[a]]_vars

(***************************************************************************)
(* Every helper ends, whatever the app does: its waits are bounded.         *)
(***************************************************************************)
EveryHelperEnds == \A a \in Attempts : helper[a] = "start" ~> ~Alive(a)

(***************************************************************************)
(* Every press and every attempt comes to an end, whatever the helper does. *)
(***************************************************************************)
EveryPressEnds ==
    app \notin {"idle", "planned", "closed"} ~> app \in {"idle", "planned", "closed"}
=============================================================================
