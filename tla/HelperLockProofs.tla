-------------------------- MODULE HelperLockProofs --------------------------
(***************************************************************************)
(* That the lock does its work for any number of attempts and sessions.     *)
(*                                                                         *)
(* The mutual exclusion rests on the owner file: a helper that has created  *)
(* it is named by it until that helper takes it back, or the app removes    *)
(* the files of a helper that is gone.  The invariant says so step by step, *)
(* with the one escape there is: the app may wipe the whole folder under a  *)
(* helper, and may only make a new one once every helper that believed in   *)
(* the old one has moved on.  The handshake, and what becomes of an attempt *)
(* that was given up, are then proved on top of it.                         *)
(***************************************************************************)
EXTENDS HelperLock, TLAPS

\* A helper is not held up while it takes, gives back or uses the lock.
Prompt == Frozen \subseteq {"start", "claim", "stamp", "waiting", "lastLook", "lastCheck"}

\* It has created the owner file and not yet removed it.
Holding == {"pid", "moving", "dropPid", "dropOwner"}

-----------------------------------------------------------------------------
(* Types. *)

Preparing == after # "idle" \/ app \in {"discard", "staging", "plan"}

TypeInv ==
    /\ TypeOK
    /\ Preparing => plans < MaxPlans
    /\ app \in {"await", "ending", "releaseFiles"} => att \in Attempts

-----------------------------------------------------------------------------
(* The lock. *)

\* The owner file is in the lock folder, which is in .yulon-old.
Nested ==
    /\ ~folder => ~lockDir /\ owner = Nobody /\ ownerPid = Nobody
    /\ owner # Nobody => lockDir
    /\ ownerPid \in {Nobody, owner}

HoldersAreNamed ==
    \A a \in Attempts :
        /\ folder /\ helper[a] \in Holding => owner = a
        /\ folder /\ helper[a] = "dropOwner" => ownerPid = Nobody

TheNamedHold ==
    \A a \in Attempts : owner = a =>
        /\ helper[a] \notin {"none", "start", "claim", "looked", "own", "dropDir"}
        /\ helper[a] \in {"stamp", "waiting", "lastLook", "lastCheck", "moving"}
             => ownerPid = a

\* Before a new folder is made, nobody is left who holds the old one's lock.
FreshFolder ==
    /\ app \in {"staging", "plan"} \/ after = "plan" => ~folder
    /\ after = "plan" => \A a \in Attempts : helper[a] \notin Holding
    /\ app = "plan" => after = "plan"

\* What the app removes belongs to nobody who could still use it.
ClearsRubbish ==
    /\ app = "clearFiles" =>
         \/ owner # Nobody /\ ~Alive(owner)
         \/ /\ owner = Nobody /\ lockDir
            /\ \A a \in Attempts :
                 helper[a] \notin {"looked", "own", "pid", "dropPid", "dropOwner", "dropDir"}
    /\ app = "releaseFiles" => ~Alive(att)

LockInv ==
    /\ TypeInv /\ Nested /\ HoldersAreNamed /\ TheNamedHold /\ FreshFolder
    /\ ClearsRubbish /\ OneMover

-----------------------------------------------------------------------------
(***************************************************************************)
(* Types are kept by every step, with no assumption on time.                *)
(***************************************************************************)
LEMMA TypesHold == TypeInv /\ [Next]_vars => TypeInv'
<1> SUFFICES ASSUME TypeInv, [Next]_vars
             PROVE  TypeInv'
    OBVIOUS
<1> USE HelperLockAssumption
    DEF TypeInv, TypeOK, Preparing, Nonce, AppSteps, files, lock, notes, theApp, Stays
<1>1. ASSUME NEW a \in Attempts, HelperStep(a) \/ GiveUp(a) \/ Killed(a)
      PROVE  TypeInv'
    <2> USE <1>1
        DEF HelperStep, Validate, Claim, MakeDir, Own, WritePid, WriteStamp, Wait, GiveUp,
            LastLook, LastCheck, Moved, Leave, DropPid, DropOwner, DropDir, Killed, To
    <2>1. UNCHANGED <<waitsFor, theApp>>
        OBVIOUS
    <2>2. helper' \in [Attempts -> HelperSteps]
        BY DEF HelperSteps
    <2>3. folder' \in BOOLEAN /\ lockDir' \in BOOLEAN
        OBVIOUS
    <2>4. owner' \in Nonce /\ ownerPid' \in Nonce /\ stamp' \in Nonce /\ standDown' \in Nonce
        OBVIOUS
    <2> HIDE <1>1 DEF Stays, files, To, HelperStep, GiveUp, Killed
    <2> QED BY <2>1, <2>2, <2>3, <2>4
<1>2. CASE WayIsFree \/ LockIsStale \/ ClearFiles \/ ClearDir
    BY <1>2 DEF WayIsFree, LockIsStale, ClearFiles, ClearDir
<1>11. CASE TellToStop \/ WayIsBarred
    BY <1>11 DEF TellToStop, WayIsBarred, Wiped
<1>3. CASE Discard \/ Staged \/ StageFails \/ Press
    BY <1>3 DEF Discard, Staged, StageFails, Press, Wiped
<1>4. CASE Plan
    <2>1. plans' \in 0..MaxPlans
        BY <1>4 DEF Plan
    <2> QED BY <1>4, <2>1 DEF Plan
<1>5. CASE HelperReports \/ NoReport \/ Terminate \/ Kill \/ Ended \/ WouldNotStop
    <2>1. helper' \in [Attempts -> HelperSteps]
        BY <1>5
           DEF HelperReports, NoReport, Terminate, Kill, Ended, WouldNotStop, HelperSteps
    <2>2. /\ UNCHANGED <<folder, lockDir, owner, ownerPid, stamp, waitsFor>>
             /\ UNCHANGED <<session, after, att, plans, told>>
        BY <1>5 DEF HelperReports, NoReport, Terminate, Kill, Ended, WouldNotStop
    <2>3. /\ standDown' \in Nonce /\ ready' \in BOOLEAN /\ kept' \in Nonce
          /\ givenUp' \subseteq Attempts /\ app' \in {app, "closing", "ending", "releaseFiles", "idle"}
        BY <1>5 DEF HelperReports, NoReport, Terminate, Kill, Ended, WouldNotStop
    <2>4. app = "await" \/ app = "ending"
        BY <1>5 DEF HelperReports, NoReport, Terminate, Kill, Ended, WouldNotStop
    <2> QED
        BY <2>1, <2>2, <2>3, <2>4
<1>6. CASE ReleaseFiles \/ ReleaseDir \/ ClearStamp \/ Close \/ Tidy
    BY <1>6 DEF ReleaseFiles, ReleaseDir, ClearStamp, Close, Tidy, Wiped
<1>7. CASE NotNow \/ DiscardStaged \/ CloseRefused \/ Die
    BY <1>7 DEF NotNow, DiscardStaged, CloseRefused, Die, Wiped
<1>8. CASE Start
    <2>1. session' \in 1..MaxSessions
        BY <1>8 DEF Start
    <2> QED BY <1>8, <2>1 DEF Start
<1>9. ASSUME NEW a \in Attempts, Restart(a)
      PROVE  TypeInv'
    <2>1. helper' \in [Attempts -> HelperSteps]
        BY <1>9 DEF Restart, To, HelperSteps
    <2>2. waitsFor' \in [Attempts -> 0..MaxSessions]
        BY <1>9 DEF Restart
    <2> QED BY <1>9, <2>1, <2>2 DEF Restart
<1>10. CASE UNCHANGED vars
    BY <1>10 DEF vars
<1> QED
    BY <1>1, <1>2, <1>3, <1>4, <1>5, <1>6, <1>7, <1>8, <1>9, <1>10, <1>11
    DEF Next, AppStep, PlayerStep

\* The first state has the right shape.
LEMMA TypesStart == Init => TypeInv
<1>1. Init => helper \in [Attempts -> HelperSteps]
    BY DEF Init, HelperSteps
<1>2. Init => /\ waitsFor \in [Attempts -> 0..MaxSessions]
              /\ session \in 1..MaxSessions /\ plans \in 0..MaxPlans
    BY HelperLockAssumption DEF Init
<1> QED
    BY <1>1, <1>2, HelperLockAssumption
       DEF Init, TypeInv, TypeOK, Preparing, Nonce, AppSteps

(***************************************************************************)
(* Every variable keeps its shape, whatever may be held up for how long.    *)
(***************************************************************************)
THEOREM HelperLockTyped == Spec => []TypeOK
<1>1. TypeInv => TypeOK
    BY DEF TypeInv
<1> QED BY <1>1, TypesStart, TypesHold, PTL DEF Spec

-----------------------------------------------------------------------------
(* The lock: one lemma for what the helpers do, one for what the app does. *)

\* No step of a helper, and no death of one, disturbs the lock's invariant.
LEMMA HelpersKeepTheLock ==
    ASSUME LockInv, TypeInv', NEW a \in Attempts,
           HelperStep(a) \/ GiveUp(a) \/ Killed(a)
    PROVE  LockInv'
<1> USE HelperLockAssumption
    DEF LockInv, TypeInv, TypeOK, Nested, HoldersAreNamed, TheNamedHold, FreshFolder,
        ClearsRubbish, OneMover, Holding, Alive, Nonce, files, lock, notes, theApp, Stays, To
<1>1. CASE Validate(a)
    BY <1>1 DEF Validate
<1>2. CASE Claim(a)
    BY <1>2 DEF Claim
<1>3. CASE MakeDir(a)
    BY <1>3 DEF MakeDir
<1>4. CASE Own(a)
    BY <1>4 DEF Own
<1>5. CASE WritePid(a)
    BY <1>5 DEF WritePid
<1>6. CASE WriteStamp(a)
    BY <1>6 DEF WriteStamp
<1>7. CASE Wait(a)
    BY <1>7 DEF Wait
<1>8. CASE GiveUp(a)
    BY <1>8 DEF GiveUp
<1>9. CASE LastLook(a)
    BY <1>9 DEF LastLook
<1>10. CASE LastCheck(a)
    BY <1>10 DEF LastCheck
<1>11. CASE Moved(a)
    BY <1>11 DEF Moved
<1>12. CASE Leave(a)
    BY <1>12 DEF Leave
<1>13. CASE DropPid(a)
    BY <1>13 DEF DropPid
<1>14. CASE DropOwner(a)
    BY <1>14 DEF DropOwner
<1>15. CASE DropDir(a)
    BY <1>15 DEF DropDir
<1>16. CASE Killed(a)
    BY <1>16 DEF Killed
<1> QED
    BY <1>1, <1>2, <1>3, <1>4, <1>5, <1>6, <1>7, <1>8, <1>9, <1>10, <1>11, <1>12, <1>13,
       <1>14, <1>15, <1>16
    DEF HelperStep

\* No step of the app or of the player disturbs it, if helpers are prompt.
LEMMA AppKeepsTheLock ==
    ASSUME Prompt, LockInv, TypeInv',
           AppStep \/ PlayerStep
    PROVE  LockInv'
<1> USE HelperLockAssumption
    DEF LockInv, TypeInv, TypeOK, Nested, HoldersAreNamed, TheNamedHold, FreshFolder,
        ClearsRubbish, OneMover, Holding, Alive, Nonce, files, lock, notes, theApp,
        Wiped, Preparing
<1>1. CASE WayIsFree
    BY <1>1 DEF WayIsFree
<1>2. CASE LockIsStale
    BY <1>2 DEF LockIsStale, Long, Prompt, HolderAlive, HolderPid
<1>3. CASE ClearFiles
    BY <1>3 DEF ClearFiles
<1>4. CASE ClearDir
    BY <1>4 DEF ClearDir
<1>5. CASE TellToStop
    BY <1>5 DEF TellToStop
<1>6. CASE WayIsBarred
    BY <1>6 DEF WayIsBarred
<1>7. CASE Discard
    BY <1>7 DEF Discard
<1>8. CASE Staged
    BY <1>8 DEF Staged, Long, Prompt, HolderAlive, HolderPid
<1>9. CASE StageFails
    BY <1>9 DEF StageFails
<1>10. CASE Plan
    BY <1>10 DEF Plan
<1>11. CASE HelperReports
    BY <1>11 DEF HelperReports
<1>12. CASE NoReport
    BY <1>12 DEF NoReport
<1>13. CASE Terminate
    BY <1>13 DEF Terminate
<1>14. CASE Kill
    BY <1>14 DEF Kill
<1>15. CASE Ended
    BY <1>15 DEF Ended
<1>16. CASE WouldNotStop
    BY <1>16 DEF WouldNotStop
<1>17. CASE ReleaseFiles
    BY <1>17 DEF ReleaseFiles
<1>18. CASE ReleaseDir
    BY <1>18 DEF ReleaseDir
<1>19. CASE ClearStamp
    BY <1>19 DEF ClearStamp
<1>20. CASE Close \/ CloseRefused
    BY <1>20 DEF Close, CloseRefused
<1>21. CASE Tidy
    BY <1>21 DEF Tidy
<1>22. CASE Press
    BY <1>22 DEF Press
<1>23. CASE NotNow
    BY <1>23 DEF NotNow
<1>24. CASE DiscardStaged
    BY <1>24 DEF DiscardStaged
<1>25. CASE Die
    BY <1>25 DEF Die
<1>26. CASE Start
    BY <1>26 DEF Start
<1>27. ASSUME NEW a \in Attempts, Restart(a) PROVE LockInv'
    BY <1>27 DEF Restart, To
<1> QED
    BY <1>1, <1>2, <1>3, <1>4, <1>5, <1>6, <1>7, <1>8, <1>9, <1>10, <1>11, <1>12, <1>13,
       <1>14, <1>15, <1>16, <1>17, <1>18, <1>19, <1>20, <1>21, <1>22, <1>23, <1>24,
       <1>25, <1>26, <1>27
    DEF AppStep, PlayerStep

\* Nobody holds anything before the first press.
LEMMA LockInvStarts == Init => LockInv
BY TypesStart, HelperLockAssumption
   DEF Init, LockInv, Nested, HoldersAreNamed, TheNamedHold, FreshFolder, ClearsRubbish,
       OneMover, Holding, Alive

\* So it is kept by every step.
LEMMA LockInvHolds == ASSUME Prompt PROVE LockInv /\ [Next]_vars => LockInv'
<1> SUFFICES ASSUME LockInv, [Next]_vars
             PROVE  LockInv'
    OBVIOUS
<1>1. TypeInv'
    BY TypesHold DEF LockInv
<1>2. CASE UNCHANGED vars
    BY <1>1, <1>2
       DEF LockInv, Nested, HoldersAreNamed, TheNamedHold, FreshFolder, ClearsRubbish,
           OneMover, Alive, vars, files, lock, notes, theApp
<1> QED
    BY <1>1, <1>2, HelpersKeepTheLock, AppKeepsTheLock DEF Next

(***************************************************************************)
(* If no helper is held up while it takes, gives back or uses the lock,     *)
(* then however many attempts and sessions there are, and however long a    *)
(* helper is held up elsewhere, no two ever move the install's files at     *)
(* once (swap.py, layout.py).                                               *)
(***************************************************************************)
THEOREM PromptHelpersMoveAlone ==
    ASSUME Prompt
    PROVE  Spec => []OneMover
<1>1. LockInv /\ [Next]_vars => LockInv'
    BY LockInvHolds
<1>2. LockInv => OneMover
    BY DEF LockInv
<1> QED BY LockInvStarts, <1>1, <1>2, PTL DEF Spec

(***************************************************************************)
(* Under the same assumption a lock is only ever given back by the helper   *)
(* that took it, or cleared by the app.                                     *)
(***************************************************************************)
THEOREM PromptHelpersKeepToTheirLock ==
    ASSUME Prompt
    PROVE  Spec => OnlyItsOwnLock
<1> DEFINE Kept == \A a \in Attempts :
                     (owner = a /\ owner' # a /\ app' = app) => helper'[a] # helper[a]
<1>1. LockInv /\ [Next]_vars => LockInv'
    BY LockInvHolds
<1>2. LockInv /\ [Next]_vars => [Kept]_vars
    <2> SUFFICES ASSUME LockInv, Next, NEW b \in Attempts,
                        owner = b, owner' # b, app' = app
                 PROVE  helper'[b] # helper[b]
        OBVIOUS
    <2> USE HelperLockAssumption DEF files, lock, notes, theApp, Stays, Wiped
    <2>1. ASSUME NEW a \in Attempts, HelperStep(a) \/ GiveUp(a) \/ Killed(a)
          PROVE  helper'[b] # helper[b]
        BY <2>1
           DEF LockInv, TypeInv, TypeOK, Nested, HoldersAreNamed, Holding, HelperStep,
               Validate, Claim, MakeDir, Own, WritePid, WriteStamp, Wait, GiveUp, LastLook,
               LastCheck, Moved, Leave, DropPid, DropOwner, DropDir, Killed, To
    <2>2. CASE AppStep
        BY <2>2
           DEF AppStep, WayIsFree, LockIsStale, ClearFiles, ClearDir, TellToStop,
               WayIsBarred, Discard, Staged, StageFails, Plan, HelperReports, NoReport,
               Terminate, Kill, Ended, WouldNotStop, ReleaseFiles, ReleaseDir, ClearStamp,
               Close, Tidy
    <2>3. CASE PlayerStep
        BY <2>3 DEF PlayerStep, Press, NotNow, DiscardStaged, CloseRefused, Die, Start, Restart, To
    <2> QED BY <2>1, <2>2, <2>3 DEF Next
<1> QED BY LockInvStarts, <1>1, <1>2, PTL DEF Spec, OnlyItsOwnLock

-----------------------------------------------------------------------------
(* The handshake: the app closes only for a helper that will go on. *)

\* Nor is a helper held up as it writes the stamp.
Punctual == Prompt /\ "stamp" \notin Frozen

\* A helper that is about to write the stamp is named by the owner file too.
StampersAreNamed ==
    \A a \in Attempts : helper[a] = "stamp" => (folder => owner = a) /\ after # "plan"

\* The notes name an attempt only once its helper has come so far.
NotesComeLater ==
    \A a \in Attempts :
        /\ stamp = a
             => helper[a] \notin {"none", "start", "claim", "looked", "own", "pid", "stamp"}
        /\ standDown = a => helper[a] # "none"

\* While the app awaits a report, nothing is in the way of the helper it is about.
AwaitedIsFree ==
    app = "await" =>
        /\ folder /\ standDown # att /\ helper[att] # "none"
        /\ helper[att] \in {"stamp", "waiting", "lastLook", "lastCheck"} => owner = att

\* And so it stays while the app closes, and after.
ReportedIsFree ==
    (app \in {"closing", "closed"} /\ att # Nobody /\ BeforeItsMoves(att))
        => folder /\ owner = att /\ stamp = att /\ standDown # att

HandshakeInv ==
    /\ LockInv /\ StampersAreNamed /\ NotesComeLater /\ AwaitedIsFree /\ ReportedIsFree
    /\ app = "tidy" => att = Nobody
    /\ app = "closing" => att # Nobody

\* No step of a helper disturbs the handshake of another.
LEMMA HelpersKeepTheHandshake ==
    ASSUME HandshakeInv, LockInv', NEW a \in Attempts,
           HelperStep(a) \/ GiveUp(a) \/ Killed(a)
    PROVE  HandshakeInv'
<1> USE HelperLockAssumption
    DEF HandshakeInv, StampersAreNamed, NotesComeLater, AwaitedIsFree, ReportedIsFree,
        BeforeItsMoves, LockInv, TypeInv, TypeOK, Nested, HoldersAreNamed, TheNamedHold, FreshFolder,
        Holding, Alive, Nonce, files, lock, notes, theApp, Stays, To
<1>1. CASE Validate(a)
    BY <1>1 DEF Validate
<1>2. CASE Claim(a)
    BY <1>2 DEF Claim
<1>3. CASE MakeDir(a)
    BY <1>3 DEF MakeDir
<1>4. CASE Own(a)
    BY <1>4 DEF Own
<1>5. CASE WritePid(a)
    BY <1>5 DEF WritePid
<1>6. CASE WriteStamp(a)
    BY <1>6 DEF WriteStamp
<1>7. CASE Wait(a)
    BY <1>7 DEF Wait
<1>8. CASE GiveUp(a)
    BY <1>8 DEF GiveUp
<1>9. CASE LastLook(a)
    BY <1>9 DEF LastLook
<1>10. CASE LastCheck(a)
    BY <1>10 DEF LastCheck
<1>11. CASE Moved(a)
    BY <1>11 DEF Moved
<1>12. CASE Leave(a)
    BY <1>12 DEF Leave
<1>13. CASE DropPid(a)
    BY <1>13 DEF DropPid
<1>14. CASE DropOwner(a)
    BY <1>14 DEF DropOwner
<1>15. CASE DropDir(a)
    BY <1>15 DEF DropDir
<1>16. CASE Killed(a)
    BY <1>16 DEF Killed
<1> QED
    BY <1>1, <1>2, <1>3, <1>4, <1>5, <1>6, <1>7, <1>8, <1>9, <1>10, <1>11, <1>12, <1>13,
       <1>14, <1>15, <1>16
    DEF HelperStep

\* The app and the player do not disturb it either, if helpers are punctual.
LEMMA AppKeepsTheHandshake ==
    ASSUME Punctual, HandshakeInv, LockInv', AppStep \/ PlayerStep
    PROVE  HandshakeInv'
<1> USE HelperLockAssumption
    DEF HandshakeInv, StampersAreNamed, NotesComeLater, AwaitedIsFree, ReportedIsFree,
        BeforeItsMoves, LockInv, TypeInv, TypeOK, Nested, HoldersAreNamed, TheNamedHold, FreshFolder,
        Holding, Alive, Nonce, files, lock, notes, theApp, Wiped, Preparing
<1>1. CASE WayIsFree
    BY <1>1 DEF WayIsFree
<1>2. CASE LockIsStale
    BY <1>2 DEF LockIsStale
<1>3. CASE ClearFiles
    BY <1>3 DEF ClearFiles, ClearsRubbish
<1>4. CASE ClearDir
    BY <1>4 DEF ClearDir
<1>5. CASE TellToStop
    BY <1>5 DEF TellToStop
<1>6. CASE WayIsBarred
    BY <1>6 DEF WayIsBarred
<1>7. CASE Discard
    BY <1>7 DEF Discard
<1>8. CASE Staged
    BY <1>8 DEF Staged, Long, Punctual, Prompt
<1>9. CASE StageFails
    BY <1>9 DEF StageFails
<1>10. CASE Plan
    BY <1>10 DEF Plan
<1>11. CASE HelperReports
    BY <1>11 DEF HelperReports
<1>12. CASE NoReport
    BY <1>12 DEF NoReport, Long
<1>13. CASE Terminate
    BY <1>13 DEF Terminate
<1>14. CASE Kill
    BY <1>14 DEF Kill
<1>15. CASE Ended
    BY <1>15 DEF Ended
<1>16. CASE WouldNotStop
    BY <1>16 DEF WouldNotStop
<1>17. CASE ReleaseFiles
    BY <1>17 DEF ReleaseFiles, ClearsRubbish
<1>18. CASE ReleaseDir
    BY <1>18 DEF ReleaseDir
<1>19. CASE ClearStamp
    BY <1>19 DEF ClearStamp
<1>20. CASE Close
    BY <1>20 DEF Close
<1>21. CASE Tidy
    BY <1>21 DEF Tidy
<1>22. CASE Press
    BY <1>22 DEF Press
<1>23. CASE NotNow
    BY <1>23 DEF NotNow
<1>24. CASE DiscardStaged
    BY <1>24 DEF DiscardStaged
<1>25. CASE CloseRefused
    BY <1>25 DEF CloseRefused
<1>26. CASE Die
    BY <1>26 DEF Die
<1>27. CASE Start
    BY <1>27 DEF Start
<1>28. ASSUME NEW a \in Attempts, Restart(a) PROVE HandshakeInv'
    BY <1>28 DEF Restart, To
<1> QED
    BY <1>1, <1>2, <1>3, <1>4, <1>5, <1>6, <1>7, <1>8, <1>9, <1>10, <1>11, <1>12, <1>13,
       <1>14, <1>15, <1>16, <1>17, <1>18, <1>19, <1>20, <1>21, <1>22, <1>23, <1>24, <1>25,
       <1>26, <1>27, <1>28
    DEF AppStep, PlayerStep

\* No attempt has been made at the start, and so nothing stands in its way.
LEMMA HandshakeStarts == Init => HandshakeInv
BY LockInvStarts, HelperLockAssumption
   DEF Init, HandshakeInv, StampersAreNamed, NotesComeLater, AwaitedIsFree, ReportedIsFree

\* Every step keeps the handshake, when no helper outlives its wait or its stamp.
LEMMA HandshakeHolds ==
    ASSUME Punctual PROVE HandshakeInv /\ [Next]_vars => HandshakeInv'
<1> SUFFICES ASSUME HandshakeInv, [Next]_vars
             PROVE  HandshakeInv'
    OBVIOUS
<1>1. LockInv'
    BY LockInvHolds DEF HandshakeInv, Punctual
<1>2. CASE UNCHANGED vars
    BY <1>1, <1>2
       DEF HandshakeInv, StampersAreNamed, NotesComeLater, AwaitedIsFree, ReportedIsFree,
           BeforeItsMoves, vars, files, lock, notes, theApp
<1> QED
    BY <1>1, <1>2, HelpersKeepTheHandshake, AppKeepsTheHandshake DEF Next

(***************************************************************************)
(* However many attempts and sessions came before it, a helper that has     *)
(* reported in finds nothing in its way once Yu'lon has closed for it, if   *)
(* no helper is held up as it takes the lock, stamps, moves or leaves.      *)
(***************************************************************************)
THEOREM PunctualHandshakeIsKept ==
    ASSUME Punctual
    PROVE  Spec => []HandshakeKept
<1>1. HandshakeInv /\ [Next]_vars => HandshakeInv'
    BY HandshakeHolds
<1>2. HandshakeInv => HandshakeKept
    BY DEF HandshakeInv, ReportedIsFree, HandshakeKept
<1> QED BY HandshakeStarts, <1>1, <1>2, PTL DEF Spec

-----------------------------------------------------------------------------
(* One session's helper, which moves only once that session is over. *)

\* A helper is held up only where no later session can meet it.
Contemporary == Frozen = {} \/ MaxSessions = 1

\* Whatever runs was begun in this session, and looks its last after its end.
OfThisSession ==
    \A a \in Attempts : Alive(a) =>
        /\ waitsFor[a] = session
        /\ helper[a] \in {"lastLook", "lastCheck", "moving"} => app = "closed"

SessionInv == TypeInv /\ OfThisSession

\* A helper goes past its wait only when its session has ended.
LEMMA HelpersKeepTheSession ==
    ASSUME SessionInv, TypeInv', NEW a \in Attempts,
           HelperStep(a) \/ GiveUp(a) \/ Killed(a)
    PROVE  SessionInv'
<1> USE HelperLockAssumption
    DEF SessionInv, OfThisSession, TypeInv, TypeOK, Running,
        Holding, Alive, Nonce, files, lock, notes, theApp, Stays, To
<1>1. CASE Validate(a)
    BY <1>1 DEF Validate
<1>2. CASE Claim(a)
    BY <1>2 DEF Claim
<1>3. CASE MakeDir(a)
    BY <1>3 DEF MakeDir
<1>4. CASE Own(a)
    BY <1>4 DEF Own
<1>5. CASE WritePid(a)
    BY <1>5 DEF WritePid
<1>6. CASE WriteStamp(a)
    BY <1>6 DEF WriteStamp
<1>7. CASE Wait(a)
    BY <1>7 DEF Wait
<1>8. CASE GiveUp(a)
    BY <1>8 DEF GiveUp
<1>9. CASE LastLook(a)
    BY <1>9 DEF LastLook
<1>10. CASE LastCheck(a)
    BY <1>10 DEF LastCheck
<1>11. CASE Moved(a)
    BY <1>11 DEF Moved
<1>12. CASE Leave(a)
    BY <1>12 DEF Leave
<1>13. CASE DropPid(a)
    BY <1>13 DEF DropPid
<1>14. CASE DropOwner(a)
    BY <1>14 DEF DropOwner
<1>15. CASE DropDir(a)
    BY <1>15 DEF DropDir
<1>16. CASE Killed(a)
    BY <1>16 DEF Killed
<1> QED
    BY <1>1, <1>2, <1>3, <1>4, <1>5, <1>6, <1>7, <1>8, <1>9, <1>10, <1>11, <1>12, <1>13,
       <1>14, <1>15, <1>16
    DEF HelperStep

\* A session begins only when no helper of the one before is left.
LEMMA AppKeepsTheSession ==
    ASSUME Contemporary, SessionInv, TypeInv', AppStep \/ PlayerStep
    PROVE  SessionInv'
<1> USE HelperLockAssumption
    DEF SessionInv, OfThisSession, TypeInv, TypeOK, Running,
        Holding, Alive, Nonce, files, lock, notes, theApp, Wiped, Preparing
<1>1. CASE WayIsFree
    BY <1>1 DEF WayIsFree
<1>2. CASE LockIsStale
    BY <1>2 DEF LockIsStale
<1>3. CASE ClearFiles
    BY <1>3 DEF ClearFiles
<1>4. CASE ClearDir
    BY <1>4 DEF ClearDir
<1>5. CASE TellToStop
    BY <1>5 DEF TellToStop
<1>6. CASE WayIsBarred
    BY <1>6 DEF WayIsBarred
<1>7. CASE Discard
    BY <1>7 DEF Discard
<1>8. CASE Staged
    BY <1>8 DEF Staged
<1>9. CASE StageFails
    BY <1>9 DEF StageFails
<1>10. CASE Plan
    BY <1>10 DEF Plan
<1>11. CASE HelperReports
    BY <1>11 DEF HelperReports
<1>12. CASE NoReport
    BY <1>12 DEF NoReport
<1>13. CASE Terminate
    BY <1>13 DEF Terminate
<1>14. CASE Kill
    BY <1>14 DEF Kill
<1>15. CASE Ended
    BY <1>15 DEF Ended
<1>16. CASE WouldNotStop
    BY <1>16 DEF WouldNotStop
<1>17. CASE ReleaseFiles
    BY <1>17 DEF ReleaseFiles
<1>18. CASE ReleaseDir
    BY <1>18 DEF ReleaseDir
<1>19. CASE ClearStamp
    BY <1>19 DEF ClearStamp
<1>20. CASE Close
    BY <1>20 DEF Close
<1>21. CASE Tidy
    BY <1>21 DEF Tidy
<1>22. CASE Press
    BY <1>22 DEF Press
<1>23. CASE NotNow
    BY <1>23 DEF NotNow
<1>24. CASE DiscardStaged
    BY <1>24 DEF DiscardStaged
<1>25. CASE CloseRefused
    BY <1>25 DEF CloseRefused
<1>26. CASE Die
    BY <1>26 DEF Die
<1>27. CASE Start
    BY <1>27 DEF Start, Long, Contemporary
<1>28. ASSUME NEW a \in Attempts, Restart(a) PROVE SessionInv'
    BY <1>28 DEF Restart, To
<1> QED
    BY <1>1, <1>2, <1>3, <1>4, <1>5, <1>6, <1>7, <1>8, <1>9, <1>10, <1>11, <1>12, <1>13,
       <1>14, <1>15, <1>16, <1>17, <1>18, <1>19, <1>20, <1>21, <1>22, <1>23, <1>24, <1>25,
       <1>26, <1>27, <1>28
    DEF AppStep, PlayerStep

\* No helper is at work at the start.
LEMMA SessionsStart == Init => SessionInv
BY TypesStart DEF Init, SessionInv, OfThisSession, Alive

\* Every step leaves the helpers that move to the session that started them.
LEMMA SessionsHold ==
    ASSUME Contemporary PROVE SessionInv /\ [Next]_vars => SessionInv'
<1> SUFFICES ASSUME SessionInv, [Next]_vars
             PROVE  SessionInv'
    OBVIOUS
<1>1. TypeInv'
    BY TypesHold DEF SessionInv
<1>2. CASE UNCHANGED vars
    BY <1>1, <1>2 DEF SessionInv, OfThisSession, Alive, vars, files, theApp
<1> QED
    BY <1>1, <1>2, HelpersKeepTheSession, AppKeepsTheSession DEF Next

-----------------------------------------------------------------------------
(* An attempt that was given up. *)

\* It was begun, and in a folder that is there while its report is awaited.
AttemptsAreMade ==
    /\ \A a \in givenUp : helper[a] # "none"
    /\ app = "await" => folder /\ helper[att] # "none"

\* If no helper survives being killed, one that still runs after it was given up
\* has its note, and nobody is left to remove that.
GoneOrTold ==
    \A a \in givenUp : Alive(a) =>
        /\ standDown = a /\ helper[a] \notin {"lastCheck", "moving"}
        /\ app = "closed" \/ (app = "ending" /\ att = a)

\* If one may survive, but none is held up, it keeps its lock, and so its note.
KeptAndTold ==
    \A a \in givenUp : Alive(a) =>
        /\ helper[a] \in {"waiting", "lastLook", "leaving", "dropPid", "dropOwner", "dropDir"}
        /\ helper[a] \in {"waiting", "lastLook"} =>
             /\ standDown = a /\ owner = a
             /\ \/ app = "ending" /\ att = a
                \/ app \in {"idle", "makeWay", "told"} /\ kept = a
                \/ app = "closed"

GoneInv == SessionInv /\ AttemptsAreMade /\ GoneOrTold

\* Case 1.  A helper that was told stands down at its next look.
LEMMA HelpersGoOrAreTold ==
    ASSUME GoneInv, SessionInv', NEW a \in Attempts,
           HelperStep(a) \/ GiveUp(a) \/ Killed(a)
    PROVE  GoneInv'
<1> USE HelperLockAssumption
    DEF GoneInv, GoneOrTold, AttemptsAreMade, SessionInv, OfThisSession, TypeInv, TypeOK, Running,
        Holding, Alive, Nonce, files, lock, notes, theApp, Stays, To
<1>1. CASE Validate(a)
    BY <1>1 DEF Validate
<1>2. CASE Claim(a)
    BY <1>2 DEF Claim
<1>3. CASE MakeDir(a)
    BY <1>3 DEF MakeDir
<1>4. CASE Own(a)
    BY <1>4 DEF Own
<1>5. CASE WritePid(a)
    BY <1>5 DEF WritePid
<1>6. CASE WriteStamp(a)
    BY <1>6 DEF WriteStamp
<1>7. CASE Wait(a)
    BY <1>7 DEF Wait
<1>8. CASE GiveUp(a)
    BY <1>8 DEF GiveUp
<1>9. CASE LastLook(a)
    BY <1>9 DEF LastLook
<1>10. CASE LastCheck(a)
    BY <1>10 DEF LastCheck
<1>11. CASE Moved(a)
    BY <1>11 DEF Moved
<1>12. CASE Leave(a)
    BY <1>12 DEF Leave
<1>13. CASE DropPid(a)
    BY <1>13 DEF DropPid
<1>14. CASE DropOwner(a)
    BY <1>14 DEF DropOwner
<1>15. CASE DropDir(a)
    BY <1>15 DEF DropDir
<1>16. CASE Killed(a)
    BY <1>16 DEF Killed
<1> QED
    BY <1>1, <1>2, <1>3, <1>4, <1>5, <1>6, <1>7, <1>8, <1>9, <1>10, <1>11, <1>12, <1>13,
       <1>14, <1>15, <1>16
    DEF HelperStep

\* Once the helper is gone the app may do what it likes.
LEMMA AppAwaitsTheirEnd ==
    ASSUME MaxSessions = 1, ~Outlives, GoneInv, SessionInv', AppStep \/ PlayerStep
    PROVE  GoneInv'
<1> USE HelperLockAssumption
    DEF GoneInv, GoneOrTold, AttemptsAreMade, SessionInv, OfThisSession, TypeInv, TypeOK, Running,
        Holding, Alive, Nonce, files, lock, notes, theApp, Wiped, Preparing
<1>1. CASE WayIsFree
    BY <1>1 DEF WayIsFree
<1>2. CASE LockIsStale
    BY <1>2 DEF LockIsStale
<1>3. CASE ClearFiles
    BY <1>3 DEF ClearFiles
<1>4. CASE ClearDir
    BY <1>4 DEF ClearDir
<1>5. CASE TellToStop
    BY <1>5 DEF TellToStop
<1>6. CASE WayIsBarred
    BY <1>6 DEF WayIsBarred
<1>7. CASE Discard
    BY <1>7 DEF Discard
<1>8. CASE Staged
    BY <1>8 DEF Staged
<1>9. CASE StageFails
    BY <1>9 DEF StageFails
<1>10. CASE Plan
    BY <1>10 DEF Plan
<1>11. CASE HelperReports
    BY <1>11 DEF HelperReports
<1>12. CASE NoReport
    BY <1>12 DEF NoReport
<1>13. CASE Terminate
    BY <1>13 DEF Terminate
<1>14. CASE Kill
    BY <1>14 DEF Kill
<1>15. CASE Ended
    BY <1>15 DEF Ended
<1>16. CASE WouldNotStop
    BY <1>16 DEF WouldNotStop
<1>17. CASE ReleaseFiles
    BY <1>17 DEF ReleaseFiles
<1>18. CASE ReleaseDir
    BY <1>18 DEF ReleaseDir
<1>19. CASE ClearStamp
    BY <1>19 DEF ClearStamp
<1>20. CASE Close
    BY <1>20 DEF Close
<1>21. CASE Tidy
    BY <1>21 DEF Tidy
<1>22. CASE Press
    BY <1>22 DEF Press
<1>23. CASE NotNow
    BY <1>23 DEF NotNow
<1>24. CASE DiscardStaged
    BY <1>24 DEF DiscardStaged
<1>25. CASE CloseRefused
    BY <1>25 DEF CloseRefused
<1>26. CASE Die
    BY <1>26 DEF Die
<1>27. CASE Start
    BY <1>27 DEF Start
<1>28. ASSUME NEW a \in Attempts, Restart(a) PROVE GoneInv'
    BY <1>28 DEF Restart, To
<1> QED
    BY <1>1, <1>2, <1>3, <1>4, <1>5, <1>6, <1>7, <1>8, <1>9, <1>10, <1>11, <1>12, <1>13,
       <1>14, <1>15, <1>16, <1>17, <1>18, <1>19, <1>20, <1>21, <1>22, <1>23, <1>24, <1>25,
       <1>26, <1>27, <1>28
    DEF AppStep, PlayerStep

KeptInv == SessionInv /\ HandshakeInv /\ AttemptsAreMade /\ KeptAndTold

\* Case 2.  Nobody takes the lock of a helper that was told and still runs.
LEMMA HelpersAreKeptAndTold ==
    ASSUME KeptInv, SessionInv', HandshakeInv', NEW a \in Attempts,
           HelperStep(a) \/ GiveUp(a) \/ Killed(a)
    PROVE  KeptInv'
<1> USE HelperLockAssumption
    DEF KeptInv, KeptAndTold, AttemptsAreMade, SessionInv, OfThisSession, TypeInv, TypeOK, Running,
        HandshakeInv, LockInv, Nested, TheNamedHold, FreshFolder, ClearsRubbish, AwaitedIsFree,
        Holding, Alive, Nonce, files, lock, notes, theApp, Stays, To
<1>1. CASE Validate(a)
    BY <1>1 DEF Validate
<1>2. CASE Claim(a)
    BY <1>2 DEF Claim
<1>3. CASE MakeDir(a)
    BY <1>3 DEF MakeDir
<1>4. CASE Own(a)
    BY <1>4 DEF Own
<1>5. CASE WritePid(a)
    BY <1>5 DEF WritePid
<1>6. CASE WriteStamp(a)
    BY <1>6 DEF WriteStamp
<1>7. CASE Wait(a)
    BY <1>7 DEF Wait
<1>8. CASE GiveUp(a)
    BY <1>8 DEF GiveUp
<1>9. CASE LastLook(a)
    BY <1>9 DEF LastLook
<1>10. CASE LastCheck(a)
    BY <1>10 DEF LastCheck
<1>11. CASE Moved(a)
    BY <1>11 DEF Moved
<1>12. CASE Leave(a)
    BY <1>12 DEF Leave
<1>13. CASE DropPid(a)
    BY <1>13 DEF DropPid
<1>14. CASE DropOwner(a)
    BY <1>14 DEF DropOwner
<1>15. CASE DropDir(a)
    BY <1>15 DEF DropDir
<1>16. CASE Killed(a)
    BY <1>16 DEF Killed
<1> QED
    BY <1>1, <1>2, <1>3, <1>4, <1>5, <1>6, <1>7, <1>8, <1>9, <1>10, <1>11, <1>12, <1>13,
       <1>14, <1>15, <1>16
    DEF HelperStep

\* The app makes way for nothing while such a helper has the lock.
LEMMA AppLeavesThemTheirNote ==
    ASSUME Frozen = {}, KeptInv, SessionInv', HandshakeInv', AppStep \/ PlayerStep
    PROVE  KeptInv'
<1> USE HelperLockAssumption
    DEF KeptInv, KeptAndTold, AttemptsAreMade, SessionInv, OfThisSession, TypeInv, TypeOK, Running,
        HandshakeInv, LockInv, Nested, TheNamedHold, FreshFolder, ClearsRubbish, AwaitedIsFree,
        Holding, Alive, Nonce, files, lock, notes, theApp, Wiped, Preparing
<1>1. CASE WayIsFree
    BY <1>1 DEF WayIsFree
<1>2. CASE LockIsStale
    BY <1>2 DEF LockIsStale, HolderPid, HolderAlive
<1>3. CASE ClearFiles
    BY <1>3 DEF ClearFiles
<1>4. CASE ClearDir
    BY <1>4 DEF ClearDir
<1>5. CASE TellToStop
    BY <1>5 DEF TellToStop
<1>6. CASE WayIsBarred
    <2>1. /\ app = "told" /\ app' = "idle" /\ UNCHANGED <<helper, waitsFor, session, att, kept>>
          /\ UNCHANGED <<plans, givenUp>>
        BY <1>6 DEF WayIsBarred
    <2>2. \A a \in givenUp : Alive(a) /\ helper[a] \in {"waiting", "lastLook"} =>
              standDown = a /\ owner = a /\ kept = a
        BY <2>1
    <2>3. after = "plan" => \A a \in givenUp : ~(Alive(a) /\ helper[a] \in {"waiting", "lastLook"})
        BY <2>1, <2>2
    <2>4. (\E a \in givenUp : Alive(a) /\ helper[a] \in {"waiting", "lastLook"}) => UNCHANGED files
        BY <1>6, <2>3 DEF WayIsBarred
    <2> QED
        BY <2>1, <2>2, <2>4
<1>7. CASE Discard
    BY <1>7 DEF Discard
<1>8. CASE Staged
    BY <1>8 DEF Staged
<1>9. CASE StageFails
    BY <1>9 DEF StageFails
<1>10. CASE Plan
    BY <1>10 DEF Plan
<1>11. CASE HelperReports
    BY <1>11 DEF HelperReports
<1>12. CASE NoReport
    BY <1>12 DEF NoReport, Long
<1>13. CASE Terminate
    BY <1>13 DEF Terminate
<1>14. CASE Kill
    BY <1>14 DEF Kill
<1>15. CASE Ended
    BY <1>15 DEF Ended
<1>16. CASE WouldNotStop
    BY <1>16 DEF WouldNotStop
<1>17. CASE ReleaseFiles
    BY <1>17 DEF ReleaseFiles
<1>18. CASE ReleaseDir
    BY <1>18 DEF ReleaseDir
<1>19. CASE ClearStamp
    BY <1>19 DEF ClearStamp
<1>20. CASE Close
    BY <1>20 DEF Close
<1>21. CASE Tidy
    BY <1>21 DEF Tidy
<1>22. CASE Press
    BY <1>22 DEF Press
<1>23. CASE NotNow
    BY <1>23 DEF NotNow
<1>24. CASE DiscardStaged
    BY <1>24 DEF DiscardStaged
<1>25. CASE CloseRefused
    BY <1>25 DEF CloseRefused
<1>26. CASE Die
    BY <1>26 DEF Die
<1>27. CASE Start
    BY <1>27 DEF Start, Long
<1>28. ASSUME NEW a \in Attempts, Restart(a) PROVE KeptInv'
    BY <1>28 DEF Restart, To
<1> QED
    BY <1>1, <1>2, <1>3, <1>4, <1>5, <1>6, <1>7, <1>8, <1>9, <1>10, <1>11, <1>12, <1>13,
       <1>14, <1>15, <1>16, <1>17, <1>18, <1>19, <1>20, <1>21, <1>22, <1>23, <1>24, <1>25,
       <1>26, <1>27, <1>28
    DEF AppStep, PlayerStep

(***************************************************************************)
(* An attempt of which the player was told that nothing was changed changes *)
(* nothing afterwards, in either case: no helper is held up, however many   *)
(* sessions follow and though it survives being killed; or it is held up    *)
(* anywhere, but ends when it is killed and meets no later session.         *)
(***************************************************************************)
THEOREM GivenUpAttemptsNeverMove ==
    ASSUME Frozen = {} \/ (MaxSessions = 1 /\ ~Outlives)
    PROVE  Spec => []GivenUpNeverMoves
<1>1. CASE MaxSessions = 1 /\ ~Outlives
    <2>1. Init => GoneInv
        BY SessionsStart DEF Init, GoneInv, AttemptsAreMade, GoneOrTold
    <2>2. GoneInv /\ [Next]_vars => GoneInv'
        <3> SUFFICES ASSUME GoneInv, [Next]_vars PROVE GoneInv'
            OBVIOUS
        <3>1. SessionInv'
            BY <1>1, SessionsHold DEF GoneInv, Contemporary
        <3>2. CASE UNCHANGED vars
            BY <3>1, <3>2 DEF GoneInv, AttemptsAreMade, GoneOrTold, Alive, vars, files, notes, theApp
        <3> QED
            BY <1>1, <3>1, <3>2, HelpersGoOrAreTold, AppAwaitsTheirEnd DEF Next
    <2>3. GoneInv => GivenUpNeverMoves
        BY DEF GoneInv, GoneOrTold, GivenUpNeverMoves, Alive
    <2> QED BY <2>1, <2>2, <2>3, PTL DEF Spec
<1>2. CASE Frozen = {}
    <2>1. Init => KeptInv
        BY SessionsStart, HandshakeStarts DEF Init, KeptInv, AttemptsAreMade, KeptAndTold
    <2>2. KeptInv /\ [Next]_vars => KeptInv'
        <3> SUFFICES ASSUME KeptInv, [Next]_vars PROVE KeptInv'
            OBVIOUS
        <3>1. SessionInv' /\ HandshakeInv'
            BY <1>2, SessionsHold, HandshakeHolds DEF KeptInv, Contemporary, Punctual, Prompt
        <3>2. CASE UNCHANGED vars
            BY <3>1, <3>2
               DEF KeptInv, AttemptsAreMade, KeptAndTold, Alive, vars, files, lock, notes, theApp
        <3> QED
            BY <1>2, <3>1, <3>2, HelpersAreKeptAndTold, AppLeavesThemTheirNote DEF Next
    <2>3. KeptInv => GivenUpNeverMoves
        BY DEF KeptInv, KeptAndTold, GivenUpNeverMoves, Alive
    <2> QED BY <2>1, <2>2, <2>3, PTL DEF Spec
<1> QED BY <1>1, <1>2

-----------------------------------------------------------------------------
(* An attempt that was told to make way. *)

\* A session a helper waits for has begun, and is over when it stops waiting.
WaitsAreSound ==
    /\ \A a \in Attempts : waitsFor[a] <= session
    /\ \A a \in Attempts :
        helper[a] \in {"lastLook", "lastCheck", "moving"} => ~Running(waitsFor[a])

\* It has the lock, or has yet to ask for it.
MayHoldIt(a) ==
    \/ helper[a] \in {"start", "claim", "looked", "own"}
    \/ owner = a /\ helper[a] \in {"pid", "stamp", "waiting"}

\* A helper of the Yu'lon that runs is awaited, would not stop, or was refused the close;
\* none of these lets that Yu'lon begin another attempt.
OwnHelpers ==
    \A a \in Attempts : MayHoldIt(a) /\ Running(waitsFor[a]) =>
        \/ att = a /\ app \in {"await", "ending", "closing"}
        \/ kept = a
        \/ owner = a /\ ~ready /\ app \in {"idle", "makeWay", "told"}

KeptIsOver ==
    /\ app \in {"await", "ending", "closing", "releaseFiles", "releaseDir", "clearStamp"} =>
         kept = Nobody \/ ~Alive(kept)
    /\ kept # Nobody => helper[kept] # "none"
    /\ app = "await" => helper[att] # "none"
    /\ app = "closing" => ~ready

\* One that was told still has its note, or no longer its lock.
NotedOrRobbed ==
    \A a \in told :
        /\ helper[a] \notin {"none", "start", "claim", "looked", "own", "moving"}
        /\ helper[a] = "lastCheck" => owner # a
        /\ owner = a /\ helper[a] \in {"pid", "stamp", "waiting", "lastLook"} =>
             /\ standDown = a
             /\ app \in {"idle", "makeWay", "told", "closed", "tidy"}
             /\ app \in {"idle", "makeWay", "told"} => Running(waitsFor[a])

ToldInv == HandshakeInv /\ WaitsAreSound /\ OwnHelpers /\ KeptIsOver /\ NotedOrRobbed

\* A helper that was told stands down at its last look, or at its last check.
LEMMA HelpersHeedTheirNote ==
    ASSUME ToldInv, HandshakeInv', NEW a \in Attempts,
           HelperStep(a) \/ GiveUp(a) \/ Killed(a)
    PROVE  ToldInv'
<1> USE HelperLockAssumption
    DEF ToldInv, WaitsAreSound, OwnHelpers, KeptIsOver, NotedOrRobbed, MayHoldIt, HandshakeInv,
        LockInv, TypeInv, TypeOK, Nested, TheNamedHold, Running, Alive, Nonce, files, lock, notes,
        theApp, Stays, To
<1>1. CASE Validate(a)
    BY <1>1 DEF Validate
<1>2. CASE Claim(a)
    BY <1>2 DEF Claim
<1>3. CASE MakeDir(a)
    BY <1>3 DEF MakeDir
<1>4. CASE Own(a)
    BY <1>4 DEF Own
<1>5. CASE WritePid(a)
    BY <1>5 DEF WritePid
<1>6. CASE WriteStamp(a)
    BY <1>6 DEF WriteStamp
<1>7. CASE Wait(a)
    BY <1>7 DEF Wait
<1>8. CASE GiveUp(a)
    BY <1>8 DEF GiveUp
<1>9. CASE LastLook(a)
    BY <1>9 DEF LastLook
<1>10. CASE LastCheck(a)
    BY <1>10 DEF LastCheck
<1>11. CASE Moved(a)
    BY <1>11 DEF Moved
<1>12. CASE Leave(a)
    BY <1>12 DEF Leave
<1>13. CASE DropPid(a)
    BY <1>13 DEF DropPid
<1>14. CASE DropOwner(a)
    BY <1>14 DEF DropOwner
<1>15. CASE DropDir(a)
    BY <1>15 DEF DropDir
<1>16. CASE Killed(a)
    BY <1>16 DEF Killed
<1> QED
    BY <1>1, <1>2, <1>3, <1>4, <1>5, <1>6, <1>7, <1>8, <1>9, <1>10, <1>11, <1>12, <1>13,
       <1>14, <1>15, <1>16
    DEF HelperStep

\* The app writes no other note while it stands, and clears it only with the lock.
LEMMA AppLeavesTheNote ==
    ASSUME Punctual, ToldInv, HandshakeInv', AppStep \/ PlayerStep
    PROVE  ToldInv'
<1> USE HelperLockAssumption
    DEF ToldInv, WaitsAreSound, OwnHelpers, KeptIsOver, NotedOrRobbed, MayHoldIt, HandshakeInv,
        LockInv, TypeInv, TypeOK, Nested, TheNamedHold, FreshFolder, ClearsRubbish, ReportedIsFree,
        NotesComeLater, BeforeItsMoves, Running, Alive, Nonce, files, lock, notes, theApp, Wiped,
        Punctual, Prompt
<1>1. CASE WayIsFree
    BY <1>1 DEF WayIsFree
<1>2. CASE LockIsStale
    BY <1>2 DEF LockIsStale, HolderPid, HolderAlive, Long
<1>3. CASE ClearFiles
    BY <1>3 DEF ClearFiles
<1>4. CASE ClearDir
    BY <1>4 DEF ClearDir
<1>5. CASE TellToStop
    BY <1>5 DEF TellToStop, HolderPid, HolderAlive
<1>6. CASE WayIsBarred
    <2>1. after # "plan"
        BY <1>6 DEF WayIsBarred
    <2>2. UNCHANGED <<files, helper, waitsFor, session, att, kept, plans, givenUp, told>>
        BY <1>6, <2>1 DEF WayIsBarred
    <2>3. app = "told" /\ app' = "idle" /\ ready' = (ready /\ after = "idle")
        BY <1>6 DEF WayIsBarred
    <2> QED BY <2>2, <2>3
<1>7. CASE Discard
    BY <1>7 DEF Discard
<1>8. CASE Staged
    BY <1>8 DEF Staged
<1>9. CASE StageFails
    BY <1>9 DEF StageFails
<1>10. CASE Plan
    BY <1>10 DEF Plan
<1>11. CASE HelperReports
    BY <1>11 DEF HelperReports
<1>12. CASE NoReport
    BY <1>12 DEF NoReport
<1>13. CASE Terminate
    BY <1>13 DEF Terminate
<1>14. CASE Kill
    BY <1>14 DEF Kill
<1>15. CASE Ended
    BY <1>15 DEF Ended
<1>16. CASE WouldNotStop
    BY <1>16 DEF WouldNotStop
<1>17. CASE ReleaseFiles
    BY <1>17 DEF ReleaseFiles
<1>18. CASE ReleaseDir
    BY <1>18 DEF ReleaseDir
<1>19. CASE ClearStamp
    BY <1>19 DEF ClearStamp
<1>20. CASE Close
    BY <1>20 DEF Close
<1>21. CASE Tidy
    BY <1>21 DEF Tidy
<1>22. CASE Press
    BY <1>22 DEF Press
<1>23. CASE NotNow
    BY <1>23 DEF NotNow
<1>24. CASE DiscardStaged
    BY <1>24 DEF DiscardStaged
<1>25. CASE CloseRefused
    BY <1>25 DEF CloseRefused
<1>26. CASE Die
    BY <1>26 DEF Die
<1>27. CASE Start
    BY <1>27 DEF Start
<1>28. ASSUME NEW a \in Attempts, Restart(a) PROVE ToldInv'
    BY <1>28 DEF Restart, To
<1> QED
    BY <1>1, <1>2, <1>3, <1>4, <1>5, <1>6, <1>7, <1>8, <1>9, <1>10, <1>11, <1>12, <1>13,
       <1>14, <1>15, <1>16, <1>17, <1>18, <1>19, <1>20, <1>21, <1>22, <1>23, <1>24, <1>25,
       <1>26, <1>27, <1>28
    DEF AppStep, PlayerStep

(***************************************************************************)
(* Over any number of sessions, a helper that the Yu'lon it waits for told  *)
(* to make way changes nothing: it sees the note, or finds that its lock    *)
(* went with the note.  It may be held up as it starts, asks for the lock,  *)
(* waits, looks or checks.                                                  *)
(***************************************************************************)
THEOREM ToldHelpersNeverMove ==
    ASSUME Punctual
    PROVE  Spec => []ToldNeverMoves
<1>1. Init => ToldInv
    BY HandshakeStarts, HelperLockAssumption
       DEF Init, ToldInv, WaitsAreSound, OwnHelpers, KeptIsOver, NotedOrRobbed, MayHoldIt, Running
<1>2. ToldInv /\ [Next]_vars => ToldInv'
    <2> SUFFICES ASSUME ToldInv, [Next]_vars PROVE ToldInv'
        OBVIOUS
    <2>1. HandshakeInv'
        BY HandshakeHolds DEF ToldInv
    <2>2. CASE UNCHANGED vars
        BY <2>1, <2>2
           DEF ToldInv, WaitsAreSound, OwnHelpers, KeptIsOver, NotedOrRobbed, MayHoldIt, Running,
               Alive, vars, files, lock, notes, theApp
    <2> QED
        BY <2>1, <2>2, HelpersHeedTheirNote, AppLeavesTheNote DEF Next
<1>3. ToldInv => ToldNeverMoves
    BY DEF ToldInv, NotedOrRobbed, ToldNeverMoves
<1> QED BY <1>1, <1>2, <1>3, PTL DEF Spec
=============================================================================
