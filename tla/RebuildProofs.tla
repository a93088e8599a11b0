--------------------------- MODULE RebuildProofs ---------------------------
(* Theorems about Rebuild, for any number of images, builds and upsets: what a Start may run  *)
(* is one build, and one that a server was started on, and a kept build that is used was made *)
(* from the folder as it is.                                                                  *)
EXTENDS Rebuild, TLAPS

\* No press ended without a record of what the live names name, and no content came back.
Orderly  == happened \cap Unrecorded = {}
NoReturn == happened \cap (Unrecorded \cup {"landed", "editBack"}) = {}

-----------------------------------------------------------------------------
(* What each part of the state may be. *)

NamesOK   == live \in Images /\ rollback \in Images /\ failed \in Images /\ parked \in Images
RecordsOK == /\ keptRec \in [print : 0 .. NFolders, images : Images]
             /\ stopRec \in 0 .. NFolders /\ owed \in {"no", "untested", "mixed"}
DockerOK  == /\ made \in [Builds -> 0 .. NFolders] /\ last \in Builds
             /\ left \in [Builds -> 0 .. NRefs]
ServersOK == up \in BOOLEAN /\ started \subseteq Builds /\ gaveUp \in BOOLEAN
PressOK   == /\ pc \in Steps /\ at \in Refs
             /\ built \in BOOLEAN /\ touched \in BOOLEAN /\ hold \in BOOLEAN
             /\ stillKept \in BOOLEAN /\ tagging \in BOOLEAN
             /\ buildExit \in {"none", "ok", "failed", "cancelled"}
ReadOK    == f0 \in 0 .. NFolders /\ after \in 0 .. NFolders /\ seen \in Images
RestOK    == folder \in Folders /\ happened \subseteq Upsets

Typed == NamesOK /\ RecordsOK /\ DockerOK /\ ServersOK /\ PressOK /\ ReadOK /\ RestOK

-----------------------------------------------------------------------------
(* A press settles and keeps the names first; then it has a build to look after. *)

KeepsIt == pc \in {"forget", "nameKept", "recordKept"}
Late    == pc \notin {"idle", "settle", "putBack", "keep"} /\ (KeepsIt => built)

\* A press that has not begun its compile has one left to begin, and one that puts names back
\* has a build it puts them back for.
Course ==
    /\ pc \in {"settle", "putBack", "keep", "prepare"} \/ (KeepsIt /\ ~built) => last < MaxBuilds
    /\ pc \in {"idle", "settle", "putBack", "keep"} => ~built
    /\ pc \in {"stopNew", "wait", "name", "back", "keepNew"} => built

Full(f)    == \A r \in Refs : f[r] # None
Uniform(f) == \A r, s \in Refs : f[r] = f[s]

\* No live name is ever without an image, and what takes a live name names one.
Whole ==
    /\ Full(live)
    /\ Late => Full(rollback)
    /\ pc = "keep" => \A r \in Refs : r < at => rollback[r] # None
    /\ pc = "putBack" \/ (KeepsIt /\ ~built) =>
           \A r \in Refs : seen[r] # None => rollback[r] # None
    /\ keptRec.print # None => Full(keptRec.images)
    /\ pc = "use" => Full(parked) /\ keptRec.print # None /\ parked = keptRec.images
    /\ KeepsIt => Full(seen)
    /\ pc = "name" => \A r \in Refs : r < at => failed[r] # None
    /\ pc \in {"back", "keepNew"} => Full(failed)

Shape == Typed /\ Course /\ Whole

-----------------------------------------------------------------------------
(* The parts of the invariant, while every press leaves its records. *)

\* How far a press has come is what it remembers.
Remembers ==
    /\ ~Late => /\ ~built /\ ~touched /\ ~stillKept /\ ~tagging /\ buildExit = "none"
                /\ f0 = None /\ after = None
    /\ pc = "keep" \/ Late => hold = (stopRec # None)
    /\ ~Late /\ pc # "keep" => ~hold
    /\ pc = "putBack" \/ (KeepsIt /\ ~built) => stopRec # None
    /\ pc = "prepare" => ~built /\ ~touched /\ ~tagging /\ buildExit = "none" /\ after = None
    /\ pc = "use"     => ~built /\ ~touched /\ tagging /\ buildExit = "none" /\ after = None
    /\ pc = "compile" => ~built /\ ~touched /\ ~tagging /\ buildExit = "cancelled" /\ after = None
    /\ pc = "replace" => built /\ ~touched
    /\ pc \in {"start", "ready", "stopNew", "restart"} => built /\ touched
    /\ pc = "wait" => built /\ ~touched
    /\ pc \in {"name", "back", "keepNew", "drop"} => built
    /\ KeepsIt => ~touched
    /\ touched => built
    /\ buildExit # "none" \/ tagging => f0 # None
    /\ tagging => buildExit = "none"
    /\ pc \in {"replace", "start", "ready"} => buildExit # "cancelled"
    /\ pc # "compile" /\ buildExit = "cancelled" => ~hold

Quiet == \A b \in Builds : left[b] = 0

\* At most one build that was stopped is still at work, and only under its record.
AtWork ==
    /\ \A b \in Builds : b > last => left[b] = 0 /\ made[b] = None
    /\ ~Late /\ stopRec = None => Quiet
    /\ Late /\ ~hold => \A b \in Builds :
           left[b] > 0 => b = last /\ buildExit = "cancelled" /\ pc \in {"compile", "failed"}
    /\ touched \/ keptRec.print # None \/ tagging \/ buildExit = "ok" \/ KeepsIt => Quiet
    /\ pc = "replace" \/ (pc = "failed" /\ built) => Quiet
    /\ \A b, c \in Builds : left[b] > 0 /\ left[c] > 0 =>
           b = c \/ (pc = "compile" /\ last \in {b, c})

\* What an image names other than its rollback is a guest: there is one, and a build that is
\* still at work is the one.
Guest(f, r) == f[r] # rollback[r]
NoGuest(f)  == \A r \in Refs : f[r] = rollback[r]
OneGuest    == \A r, s \in Refs : Guest(live, r) /\ Guest(live, s) => live[r] = live[s]

Guests ==
    /\ stopRec # None => Full(rollback)
    /\ stopRec # None \/ Late => pc = "compile" \/ OneGuest
    /\ stopRec # None \/ Late => \A b \in Builds :
           left[b] > 0 /\ ~(pc = "compile" /\ b = last) =>
               \A r \in Refs : Guest(live, r) => live[r] = b /\ r <= NRefs - left[b]

\* The compile moves the names of the images one after the other, after all earlier builds.
Compiling ==
    pc = "compile" =>
        /\ \A r \in Refs : r <= NRefs - left[last] => live[r] = last
        /\ \A r \in Refs : Guest(live, r) /\ ~hold => r <= NRefs - left[last]
        /\ left[last] < NRefs => \A b \in Builds : b < last => left[b] = 0
        /\ left[last] = NRefs => OneGuest

\* Where the names of the images are on their way.
Moving ==
    /\ pc = "putBack" => \A r \in Refs : r < at \/ seen[r] = None => live[r] = rollback[r]
    /\ KeepsIt /\ ~built => \A r \in Refs : seen[r] = live[r] /\ Guest(live, r)
    /\ pc = "keep" => /\ \A r \in Refs : r < at => rollback[r] = live[r]
                      /\ stopRec # None => NoGuest(live)
    /\ pc = "prepare" /\ (~hold \/ keptRec.print # None) => NoGuest(live)
    /\ pc = "use" => \A r \in Refs : live[r] = IF r < at THEN parked[r] ELSE rollback[r]
    /\ pc \in {"replace", "start", "ready", "stopNew"} => Uniform(live)
    /\ pc = "failed" /\ built => Uniform(live)
    /\ pc = "failed" /\ ~hold /\ ~built /\ ~tagging /\ buildExit \in {"none", "failed"} =>
           NoGuest(live)

\* What a press copied off the live names, to keep it or to go back to it.
Copied(r) == \/ pc = "name" /\ r < at
             \/ pc \in {"back", "keepNew"}
             \/ KeepsIt /\ built

Copies ==
    /\ \A r, s \in Refs : Copied(r) /\ Guest(failed, r) =>
           /\ Copied(s) /\ Guest(failed, s) => failed[r] = failed[s]
           /\ Guest(live, s) => failed[r] = live[s]
    /\ \A r \in Refs, b \in Builds : Copied(r) /\ Guest(failed, r) /\ left[b] > 0 =>
           failed[r] = b /\ r <= NRefs - left[b]
    /\ pc = "name" /\ touched => Uniform(live) /\ \A r \in Refs : r < at => failed[r] = live[r]
    /\ pc = "back" /\ touched => Uniform(failed) /\ \A r \in Refs : r >= at => live[r] = failed[r]
    /\ pc = "back" /\ (touched \/ ~hold) => \A r \in Refs : r < at => live[r] = rollback[r]
    /\ (pc \in {"keepNew", "drop", "restart"} \/ (KeepsIt /\ built)) /\ (touched \/ ~hold) =>
           NoGuest(live)
    /\ KeepsIt /\ built => /\ seen = failed /\ Uniform(failed) /\ \A r \in Refs : Guest(failed, r)
                           /\ after = f0 /\ f0 # None

\* A kept build is one build, and a compile begins without one.
Kept == /\ keptRec.print # None => Uniform(keptRec.images)
        /\ pc \in {"compile", "failed"} /\ buildExit = "cancelled" => keptRec.print = None

\* While nothing is owed to the next Start, the names to go back to are a build to start.
Sound(f) == Uniform(f) /\ (Range(f) \subseteq started \/ gaveUp)

Safe ==
    /\ owed = "no" =>
           /\ Late \/ (stopRec # None /\ pc # "keep") => Sound(rollback)
           /\ pc = "keep" \/ (pc \in {"idle", "settle"} /\ stopRec = None) => Sound(live)
    /\ pc = "ready" => Range(live) \subseteq started
    /\ pc = "restart" => owed = "no"

Inv == Remembers /\ AtWork /\ Guests /\ Compiling /\ Moving /\ Copies /\ Kept /\ Safe

\* Nor did the folder's content ever come back: contents are numbered as they come.  A build is
\* no older than the record it is kept or recognised by.
Since(b, p) == made[b] = None \/ made[b] >= p

Dated == /\ \A b \in Builds : made[b] <= folder
         /\ f0 <= folder /\ stopRec <= folder
         /\ Late /\ f0 # None => stopRec <= f0

KeptDate == keptRec.print # None => \A r \in Refs :
                made[keptRec.images[r]] >= keptRec.print /\ made[keptRec.images[r]] >= stopRec

StoppedDate ==
    /\ stopRec # None => /\ \A r \in Refs : Guest(live, r) => made[live[r]] >= stopRec
                         /\ \A b \in Builds : left[b] > 0 => Since(b, stopRec)
    /\ \A r \in Refs : Copied(r) /\ Guest(failed, r) => made[failed[r]] >= stopRec

CompileDate ==
    /\ pc = "compile" \/ (pc = "failed" /\ buildExit = "cancelled") => Since(last, f0)
    /\ pc = "compile" /\ left[last] < NRefs => made[last] # None

DoneDate ==
    /\ Late /\ after # None => \A r \in Refs : Guest(live, r) => made[live[r]] >= f0
    /\ after # None => \A r \in Refs : Copied(r) /\ Guest(failed, r) => made[failed[r]] >= f0
    /\ tagging => \A r \in Refs : Guest(live, r) => made[live[r]] >= f0
    /\ after # None /\ hold => Quiet

UsedDate == /\ pc = "use" => \A r \in Refs : made[parked[r]] = f0
            /\ UsingTheKept => FromTheFolder

Exact == Dated /\ KeptDate /\ StoppedDate /\ CompileDate /\ DoneDate /\ UsedDate

-----------------------------------------------------------------------------
(* Types. *)

(* What every definition below is about: the sets the constants span. *)
LEMMA Constants ==
    /\ NRefs \in Nat /\ NRefs >= 1 /\ NFolders \in Nat /\ NFolders >= 1
    /\ MaxBuilds \in Nat /\ MaxBuilds >= 1 /\ 1 \in Refs /\ 1 \in Builds /\ 1 \in Folders
    /\ NoImages \in Images /\ (\A r \in Refs : NoImages[r] = None)
    BY RebuildAssumption DEF Refs, Folders, Builds, Images, NoImages, None

(* The state the program begins in is of these types, and its names are whole. *)
LEMMA ShapeStart == Init => Shape
<1> SUFFICES ASSUME Init PROVE Shape
    OBVIOUS
<1> USE Constants DEF Init
<1>1. NamesOK
    BY DEF NamesOK, Images
<1>2. RecordsOK
    BY DEF RecordsOK, NoRecord, None
<1>3. DockerOK
  <2>1. made \in [Builds -> 0 .. NFolders] /\ left \in [Builds -> 0 .. NRefs]
      BY DEF None
  <2> QED
      BY <2>1 DEF DockerOK
<1>3a. ServersOK
    BY DEF ServersOK
<1>4. PressOK
    BY DEF PressOK, Steps
<1>5. ReadOK /\ RestOK
    BY DEF ReadOK, RestOK, None
<1>6. Course /\ Whole
    BY DEF Course, Whole, Full, KeepsIt, Late, NoRecord, None
<1> QED
    BY <1>1, <1>2, <1>3, <1>3a, <1>4, <1>5, <1>6 DEF Shape, Typed


(* A server is started on builds, for no image is without one. *)
LEMMA RangeOK == \A f \in Images : Full(f) => Range(f) \subseteq Builds
    BY Constants DEF Images, Full, Range, Builds, None

(* The next image is an image. *)
LEMMA NextIsRef == \A r \in Refs : r < NRefs => r + 1 \in Refs
    BY Constants DEF Refs

(* Every step keeps the names' types. *)
LEMMA NamesTyped == Shape /\ [Next]_vars => NamesOK'
<1> SUFFICES ASSUME Shape, [Next]_vars PROVE NamesOK'
    OBVIOUS
<1>0. Shape
    OBVIOUS
<1> USE DEF Shape, Typed, names, records, docker, servers, memory
<1>1. CASE PutBack
    BY <1>0, Constants, <1>1
       DEF PutBack, Fine, To, Upset, End, Fresh, NamesOK, Images, NoImages, None
<1>2. CASE Keep
    BY <1>0, Constants, <1>2
       DEF Keep, Fine, NextRef, To, Upset, End, Fresh, NamesOK, Images, NoImages, None
<1>3. CASE Prepare
    BY <1>0, Constants, <1>3 DEF Prepare, Usable, Fine, To, NamesOK, Images, NoImages, None
<1>4. CASE Use
    BY <1>0, Constants, <1>4 DEF Use, Fine, To, Alone, Upset, NamesOK, Images, NoImages, None
<1>5. CASE Ready
    BY <1>0, Constants, <1>5 DEF Ready, Fine, End, Fresh, NamesOK, Images, NoImages, None
<1>6. CASE Failed
    BY <1>0, Constants, <1>6
       DEF Failed, AsksDocker, Tagged, MayHaveTagged, NothingMoved, PartOnly, Upset, Fine, To,
           End, Fresh, NamesOK, Images, NoImages, None
<1>7. CASE NameNew
    BY <1>0, Constants, <1>7
       DEF NameNew, NotPutBack, NextRef, Fine, To, Upset, End, Fresh, NamesOK, Images, NoImages,
           None
<1>8. CASE MoveBack
    BY <1>0, Constants, <1>8
       DEF MoveBack, NotPutBack, NextRef, Fine, To, Upset, End, Fresh, NamesOK, Images, NoImages,
           None
<1>9. CASE NameKept
    BY <1>0, Constants, <1>9 DEF NameKept, Fine, To, NamesOK, Images, NoImages, None
<1>10. CASE RecordKept
    BY <1>0, Constants, <1>10 DEF RecordKept, Fine, To, NamesOK, Images, NoImages, None
<1>11. CASE Drop
    BY <1>0, Constants, <1>11
       DEF Drop, LetGo, Fine, To, StartAllowed, StoppedBuildRefuses, End, Fresh, NamesOK, Images,
           NoImages, None
<1>12. CASE Restart
    BY <1>0, Constants, <1>12
       DEF Restart, LetGo, Range, Fine, End, Fresh, NamesOK, Images, NoImages, None
<1>13. CASE WalkOut
    BY <1>0, Constants, <1>13
       DEF WalkOut, Tagged, MayHaveTagged, NothingMoved, PartOnly, Upset, End, Fresh, NamesOK,
           Images, NoImages, None
<1>14. CASE \E b \in Builds : Export(b)
  <2>1. PICK b \in Builds : Export(b)
      BY <1>14
  <2>2. b \in 0 .. MaxBuilds
      BY Constants DEF Builds
  <2> DEFINE r == NRefs - left[b] + 1
  <2>3. live' = [live EXCEPT ![r] = b] /\ UNCHANGED <<rollback, failed, parked>>
      BY <2>1 DEF Export
  <2> HIDE DEF r
  <2> QED
      BY <1>0, <2>2, <2>3 DEF NamesOK, Images
<1>15. CASE UNCHANGED <<live, rollback, failed, parked>>
    BY <1>0, <1>15 DEF NamesOK
<1> QED
    BY <1>1, <1>2, <1>3, <1>4, <1>5, <1>6, <1>7, <1>8, <1>9, <1>10, <1>11, <1>12, <1>13, <1>14,
       <1>15
       DEF Next, PressSteps, Docker, Start, Stop, Edit, Press, NothingLanded, SettleRefuses,
           Settle, Compiled, Replace, StartNew, StopNew, WaitForDocker, KeepNew, ForgetKept,
           SettleUnread, StopBeforeTheBuild, CompileFails, StopTheCompile, NotReady, Killed,
           ReadContext, Dies, vars, End, Fine, Fresh, To

(* Every step keeps the records' types. *)
LEMMA RecordsTyped == Shape /\ [Next]_vars => RecordsOK'
<1> SUFFICES ASSUME Shape, [Next]_vars PROVE RecordsOK'
    OBVIOUS
<1>0. Shape
    OBVIOUS
<1> USE DEF Shape, Typed, names, records, docker, servers, memory
<1>1. CASE Prepare
    BY <1>0, Constants, <1>1
       DEF Prepare, Usable, Fine, To, RecordsOK, Images, NoImages, NoRecord, None
<1>2. CASE Use
    BY <1>0, Constants, <1>2
       DEF Use, Fine, To, Alone, Upset, RecordsOK, Images, NoImages, NoRecord, None
<1>3. CASE Ready
    BY <1>0, Constants, <1>3
       DEF Ready, Fine, End, Fresh, RecordsOK, Images, NoImages, NoRecord, None
<1>4. CASE Failed
  <2>1. stopRec' \in 0 .. NFolders
      BY <1>0, <1>4
         DEF Failed, AsksDocker, Tagged, MayHaveTagged, NothingMoved, PartOnly, Upset, Fine, To,
             End, Fresh, RecordsOK, ReadOK
  <2> QED
      BY <1>0, <2>1, <1>4
         DEF Failed, AsksDocker, Tagged, MayHaveTagged, NothingMoved, PartOnly, Upset, Fine, To,
             End, Fresh, RecordsOK
<1>5. CASE WaitForDocker
    BY <1>0, Constants, <1>5
       DEF WaitForDocker, Fine, To, Upset, End, Fresh, RecordsOK, Images, NoImages, NoRecord,
           None
<1>6. CASE NameNew
    BY <1>0, Constants, <1>6
       DEF NameNew, NotPutBack, NextRef, Fine, To, Upset, End, Fresh, RecordsOK, Images,
           NoImages, NoRecord, None
<1>7. CASE MoveBack
    BY <1>0, Constants, <1>7
       DEF MoveBack, NotPutBack, NextRef, Fine, To, Upset, End, Fresh, RecordsOK, Images,
           NoImages, NoRecord, None
<1>8. CASE ForgetKept
    BY <1>0, Constants, <1>8 DEF ForgetKept, Fine, To, RecordsOK, Images, NoImages, NoRecord, None
<1>9. CASE RecordKept
    BY <1>0, <1>9 DEF RecordKept, Fine, RecordsOK, ReadOK, None, NoRecord
<1>10. CASE Drop
    BY <1>0, Constants, <1>10
       DEF Drop, LetGo, Fine, To, StartAllowed, StoppedBuildRefuses, End, Fresh, RecordsOK,
           Images, NoImages, NoRecord, None
<1>11. CASE Restart
    BY <1>0, Constants, <1>11
       DEF Restart, LetGo, Range, Fine, End, Fresh, RecordsOK, Images, NoImages, NoRecord, None
<1>12. CASE WalkOut
  <2>1. stopRec' \in {stopRec, f0, None} /\ owed' \in {owed, "untested"} /\ UNCHANGED keptRec
      BY <1>12 DEF WalkOut, NothingMoved
  <2> QED
      BY <1>0, Constants, <2>1 DEF RecordsOK, ReadOK, None
<1>13. CASE UNCHANGED <<records>>
    BY <1>0, <1>13 DEF RecordsOK
<1> QED
    BY <1>1, <1>2, <1>3, <1>4, <1>5, <1>6, <1>7, <1>8, <1>9, <1>10, <1>11, <1>12, <1>13
       DEF Next, PressSteps, Docker, Start, Stop, Edit, Press, NothingLanded, SettleRefuses,
           Settle, PutBack, Keep, Compiled, Replace, StartNew, StopNew, KeepNew, NameKept,
           SettleUnread, StopBeforeTheBuild, CompileFails, StopTheCompile, NotReady, Killed,
           ReadContext, Export, Dies, vars, End, Fine, Fresh, NextRef, To

(* Every step keeps the types of what Docker holds; a press begins no build there is no room for. *)
LEMMA DockerTyped == Shape /\ [Next]_vars => DockerOK'
<1> SUFFICES ASSUME Shape, [Next]_vars PROVE DockerOK'
    OBVIOUS
<1>0. Shape
    OBVIOUS
<1> USE DEF Shape, Typed, names, records, docker, servers, memory
<1>1. CASE Prepare
  <2>1. last < MaxBuilds
      BY <1>0, <1>1 DEF Prepare, Course
  <2>2. \/ UNCHANGED <<last, left>>
        \/ last' = last + 1 /\ left' = [left EXCEPT ![last + 1] = NRefs]
      BY <1>1 DEF Prepare
  <2>3. last + 1 \in Builds /\ NRefs \in 0 .. NRefs
      BY <1>0, Constants, <2>1 DEF DockerOK, Builds
  <2>4. UNCHANGED made
      BY <1>1 DEF Prepare
  <2> QED
      BY <1>0, <2>2, <2>3, <2>4 DEF DockerOK
<1>2. CASE Use
  <2>1. left' \in {left, [b \in Builds |-> 0]} /\ UNCHANGED <<made, last>>
      BY <1>2 DEF Use, Alone
  <2>2. [b \in Builds |-> 0] \in [Builds -> 0 .. NRefs]
      BY Constants
  <2>3. left' \in [Builds -> 0 .. NRefs]
      BY <1>0, <2>1, <2>2 DEF DockerOK
  <2> QED
      BY <1>0, <2>1, <2>3 DEF DockerOK
<1>3. CASE Failed
  <2>1. left' \in [Builds -> 0 .. NRefs] /\ UNCHANGED <<made, last>>
      BY <1>0, Constants, <1>3 DEF Failed, AsksDocker, PartOnly, DockerOK
  <2> QED
      BY <1>0, <2>1 DEF DockerOK
<1>4. CASE CompileFails
    BY <1>0, Constants, <1>4
       DEF CompileFails, Upset, Fine, To, DockerOK, RestOK, Folders, Builds, None, Course
<1>5. CASE WalkOut
  <2>1. left' = left \/ left' = [left EXCEPT ![last] = 0]
      BY <1>5 DEF WalkOut, PartOnly
  <2>2. UNCHANGED <<made, last>>
      BY <1>5 DEF WalkOut
  <2> QED
      BY <1>0, Constants, <2>1, <2>2 DEF DockerOK
<1>6. CASE \E b \in Builds : ReadContext(b)
    BY <1>0, Constants, <1>6 DEF ReadContext, DockerOK, RestOK, Folders, Builds, None, Course
<1>7. CASE \E b \in Builds : Export(b)
  <2>1. PICK b \in Builds : Export(b)
      BY <1>7
  <2>2. /\ left[b] > 0 /\ left' = [left EXCEPT ![b] = left[b] - 1]
        /\ UNCHANGED <<made, last>>
      BY <2>1 DEF Export
  <2>3. left[b] - 1 \in 0 .. NRefs
      BY <1>0, Constants, <2>2 DEF DockerOK
  <2>4. left' \in [Builds -> 0 .. NRefs]
      BY <1>0, <2>2, <2>3 DEF DockerOK
  <2> QED
      BY <1>0, <2>2, <2>4 DEF DockerOK
<1>8. CASE \E b \in Builds : Dies(b)
    BY <1>0, Constants, <1>8 DEF Dies, DockerOK, RestOK, Folders, Builds, None, Course
<1>9. CASE UNCHANGED <<docker>>
    BY <1>0, <1>9 DEF DockerOK
<1> QED
    BY <1>1, <1>2, <1>3, <1>4, <1>5, <1>6, <1>7, <1>8, <1>9
       DEF Next, PressSteps, Docker, Start, Stop, Edit, Press, NothingLanded, SettleRefuses,
           Settle, PutBack, Keep, Compiled, Replace, StartNew, Ready, StopNew, WaitForDocker,
           NameNew, MoveBack, KeepNew, ForgetKept, NameKept, RecordKept, Drop, Restart,
           SettleUnread, StopBeforeTheBuild, StopTheCompile, NotReady, Killed, vars, End, Fine,
           Fresh, NextRef, To

(* No server is started on a name without an image. *)
LEMMA ServersTyped == Shape /\ [Next]_vars => ServersOK'
<1> SUFFICES ASSUME Shape, [Next]_vars PROVE ServersOK'
    OBVIOUS
<1>0. Shape
    OBVIOUS
<1> USE DEF Shape, Typed, names, records, docker, servers, memory
<1>1. CASE Start
  <2>1. Range(live) \subseteq Builds
      BY <1>0, RangeOK DEF NamesOK, Whole
  <2> QED
      BY <1>0, <2>1, <1>1 DEF Start, ServersOK
<1>2. CASE Stop
    BY <1>0, Constants, <1>2 DEF Stop, ServersOK, NamesOK, Images, Builds, None, Whole, Full
<1>3. CASE Replace
    BY <1>0, Constants, <1>3
       DEF Replace, Fine, To, Upset, ServersOK, NamesOK, Images, Builds, None, Whole, Full
<1>4. CASE StartNew
  <2>1. Range(live) \subseteq Builds
      BY <1>0, RangeOK DEF NamesOK, Whole
  <2> QED
      BY <1>0, <2>1, <1>4 DEF StartNew, Fine, ServersOK
<1>5. CASE Ready
    BY <1>0, Constants, <1>5
       DEF Ready, Fine, End, Fresh, ServersOK, NamesOK, Images, Builds, None, Whole, Full
<1>6. CASE StopNew
    BY <1>0, Constants, <1>6
       DEF StopNew, Fine, To, Upset, End, Fresh, ServersOK, NamesOK, Images, Builds, None, Whole,
           Full
<1>7. CASE NameNew
    BY <1>0, <1>7 DEF NameNew, NotPutBack, Fine, ServersOK, PressOK
<1>8. CASE MoveBack
    BY <1>0, <1>8 DEF MoveBack, NotPutBack, Fine, ServersOK, PressOK
<1>9. CASE Restart
  <2>1. Range(live) \subseteq Builds
      BY <1>0, RangeOK DEF NamesOK, Whole
  <2> QED
      BY <1>0, <2>1, <1>9 DEF Restart, Fine, ServersOK
<1>10. CASE UNCHANGED <<servers>>
    BY <1>0, <1>10 DEF ServersOK
<1> QED
    BY <1>1, <1>2, <1>3, <1>4, <1>5, <1>6, <1>7, <1>8, <1>9, <1>10
       DEF Next, PressSteps, Docker, Edit, Press, NothingLanded, SettleRefuses, Settle, PutBack,
           Keep, Prepare, Use, Compiled, Failed, WaitForDocker, KeepNew, ForgetKept, NameKept,
           RecordKept, Drop, SettleUnread, StopBeforeTheBuild, CompileFails, StopTheCompile,
           NotReady, WalkOut, Killed, ReadContext, Export, Dies, vars, End, Fine, Fresh, NextRef,
           To

(* Every step keeps the types of a press's place and of its flags. *)
LEMMA PressTyped == Shape /\ [Next]_vars => PressOK'
<1> SUFFICES ASSUME Shape, [Next]_vars PROVE PressOK'
    OBVIOUS
<1>0. Shape
    OBVIOUS
<1> USE DEF Shape, Typed, names, records, docker, servers, memory
<1>1. CASE Press
    BY <1>0, Constants, <1>1 DEF Press, To, PressOK, Steps, Refs
<1>2. CASE NothingLanded
    BY <1>0, Constants, <1>2
       DEF NothingLanded, LandedOnServers, Landed, Fine, To, PressOK, Steps, Refs
<1>3. CASE SettleRefuses
    BY <1>0, Constants, <1>3
       DEF SettleRefuses, LandedOnServers, Landed, Fine, End, Fresh, PressOK, Steps, Refs
<1>4. CASE Settle
    BY <1>0, Constants, <1>4 DEF Settle, LandedOnServers, Landed, Fine, To, PressOK, Steps, Refs
<1>5. CASE PutBack
  <2>1. at' \in Refs
      BY <1>0, Constants, NextIsRef, <1>5 DEF PutBack, Fine, To, Upset, End, Fresh, PressOK
  <2> QED
      BY <1>0, <2>1, <1>5 DEF PutBack, Fine, To, Upset, End, Fresh, PressOK, Steps
<1>6. CASE Keep
  <2>1. at' \in Refs
      BY <1>0, Constants, NextIsRef, <1>6 DEF Keep, Fine, NextRef, To, Upset, End, Fresh, PressOK
  <2> QED
      BY <1>0, <2>1, <1>6 DEF Keep, Fine, NextRef, To, Upset, End, Fresh, PressOK, Steps
<1>7. CASE Prepare
    BY <1>0, Constants, <1>7 DEF Prepare, Usable, Fine, To, PressOK, Steps, Refs
<1>8. CASE Use
  <2>1. at' \in Refs
      BY <1>0, Constants, NextIsRef, <1>8 DEF Use, Fine, To, Alone, Upset, PressOK
  <2> QED
      BY <1>0, <2>1, <1>8 DEF Use, Fine, To, Alone, Upset, PressOK, Steps
<1>9. CASE Compiled
    BY <1>0, Constants, <1>9 DEF Compiled, Fine, To, PressOK, Steps, Refs
<1>10. CASE Replace
    BY <1>0, Constants, <1>10 DEF Replace, Fine, To, Upset, PressOK, Steps, Refs
<1>11. CASE StartNew
    BY <1>0, Constants, <1>11 DEF StartNew, Fine, Range, PressOK, Steps, Refs
<1>12. CASE Ready
    BY <1>0, Constants, <1>12 DEF Ready, Fine, End, Fresh, PressOK, Steps, Refs
<1>13. CASE Failed
    BY <1>0, Constants, <1>13
       DEF Failed, AsksDocker, Tagged, MayHaveTagged, NothingMoved, PartOnly, Upset, Fine, To,
           End, Fresh, PressOK, Steps, Refs
<1>14. CASE StopNew
    BY <1>0, Constants, <1>14 DEF StopNew, Fine, To, Upset, End, Fresh, PressOK, Steps, Refs
<1>15. CASE WaitForDocker
    BY <1>0, Constants, <1>15 DEF WaitForDocker, Fine, To, Upset, End, Fresh, PressOK, Steps, Refs
<1>16. CASE NameNew
  <2>1. at' \in Refs
      BY <1>0, Constants, NextIsRef, <1>16
         DEF NameNew, NotPutBack, NextRef, Fine, To, Upset, End, Fresh, PressOK
  <2> QED
      BY <1>0, <2>1, <1>16
         DEF NameNew, NotPutBack, NextRef, Fine, To, Upset, End, Fresh, PressOK, Steps
<1>17. CASE MoveBack
  <2>1. at' \in Refs
      BY <1>0, Constants, NextIsRef, <1>17
         DEF MoveBack, NotPutBack, NextRef, Fine, To, Upset, End, Fresh, PressOK
  <2> QED
      BY <1>0, <2>1, <1>17
         DEF MoveBack, NotPutBack, NextRef, Fine, To, Upset, End, Fresh, PressOK, Steps
<1>18. CASE KeepNew
    BY <1>0, Constants, <1>18 DEF KeepNew, WorthKeeping, Fine, To, PressOK, Steps, Refs
<1>19. CASE ForgetKept
    BY <1>0, Constants, <1>19 DEF ForgetKept, Fine, To, PressOK, Steps, Refs
<1>20. CASE NameKept
    BY <1>0, Constants, <1>20 DEF NameKept, Fine, To, PressOK, Steps, Refs
<1>21. CASE RecordKept
    BY <1>0, Constants, <1>21 DEF RecordKept, Fine, To, PressOK, Steps, Refs
<1>22. CASE Drop
    BY <1>0, Constants, <1>22
       DEF Drop, LetGo, Fine, To, StartAllowed, StoppedBuildRefuses, End, Fresh, PressOK, Steps,
           Refs
<1>23. CASE Restart
    BY <1>0, Constants, <1>23 DEF Restart, LetGo, Range, Fine, End, Fresh, PressOK, Steps, Refs
<1>24. CASE StopBeforeTheBuild
    BY <1>0, Constants, <1>24 DEF StopBeforeTheBuild, To, PressOK, Steps, Refs
<1>25. CASE CompileFails
    BY <1>0, Constants, <1>25 DEF CompileFails, Upset, Fine, To, PressOK, Steps, Refs
<1>26. CASE StopTheCompile
    BY <1>0, Constants, <1>26 DEF StopTheCompile, Upset, Fine, To, PressOK, Steps, Refs
<1>27. CASE NotReady
    BY <1>0, Constants, <1>27 DEF NotReady, To, PressOK, Steps, Refs
<1>28. CASE WalkOut
    BY <1>0, Constants, <1>28
       DEF WalkOut, Tagged, MayHaveTagged, NothingMoved, PartOnly, Upset, End, Fresh, PressOK,
           Steps, Refs
<1>29. CASE Killed
    BY <1>0, Constants, <1>29 DEF Killed, Upset, End, Fresh, PressOK, Steps, Refs
<1>30. CASE UNCHANGED <<pc, at, built, touched, hold, stillKept, tagging, buildExit>>
    BY <1>0, <1>30 DEF PressOK
<1>31. CASE SettleUnread
    BY <1>0, Constants, <1>31
       DEF SettleUnread, Upset, End, Fresh, To, PressOK, Steps, Refs
<1> QED
    BY <1>1, <1>2, <1>3, <1>4, <1>5, <1>6, <1>7, <1>8, <1>9, <1>10, <1>11, <1>12, <1>13, <1>14,
       <1>15, <1>16, <1>17, <1>18, <1>19, <1>20, <1>21, <1>22, <1>23, <1>24, <1>25, <1>26, <1>27,
       <1>28, <1>29, <1>30, <1>31
       DEF Next, PressSteps, Docker, Start, Stop, Edit, ReadContext, Export, Dies, vars, Fine

(* Every step keeps the types of what a press has read. *)
LEMMA ReadTyped == Shape /\ [Next]_vars => ReadOK'
<1> SUFFICES ASSUME Shape, [Next]_vars PROVE ReadOK'
    OBVIOUS
<1>0. Shape
    OBVIOUS
<1> USE DEF Shape, Typed, names, records, docker, servers, memory
<1>1. CASE SettleRefuses
    BY <1>0, Constants, <1>1
       DEF SettleRefuses, LandedOnServers, Landed, Fine, End, Fresh, ReadOK, NamesOK, RestOK,
           Folders, Images, NoImages, None
<1>2. CASE Settle
    BY <1>0, Constants, <1>2
       DEF Settle, LandedOnServers, Landed, Fine, To, ReadOK, NamesOK, RestOK, Folders, Images,
           NoImages, None
<1>3. CASE PutBack
    BY <1>0, Constants, <1>3
       DEF PutBack, Fine, To, Upset, End, Fresh, ReadOK, NamesOK, RestOK, Folders, Images,
           NoImages, None
<1>4. CASE Keep
    BY <1>0, Constants, <1>4
       DEF Keep, Fine, NextRef, To, Upset, End, Fresh, ReadOK, NamesOK, RestOK, Folders, Images,
           NoImages, None
<1>5. CASE Prepare
    BY <1>0, Constants, <1>5
       DEF Prepare, Usable, Fine, To, ReadOK, NamesOK, RestOK, Folders, Images, NoImages, None
<1>6. CASE Use
    BY <1>0, Constants, <1>6
       DEF Use, Fine, To, Alone, Upset, ReadOK, NamesOK, RestOK, Folders, Images, NoImages, None
<1>7. CASE Compiled
    BY <1>0, Constants, <1>7
       DEF Compiled, Fine, To, ReadOK, NamesOK, RestOK, Folders, Images, NoImages, None
<1>8. CASE Ready
    BY <1>0, Constants, <1>8
       DEF Ready, Fine, End, Fresh, ReadOK, NamesOK, RestOK, Folders, Images, NoImages, None
<1>9. CASE Failed
    BY <1>0, Constants, <1>9
       DEF Failed, AsksDocker, Tagged, MayHaveTagged, NothingMoved, PartOnly, Upset, Fine, To,
           End, Fresh, ReadOK, NamesOK, RestOK, Folders, Images, NoImages, None
<1>10. CASE StopNew
    BY <1>0, Constants, <1>10
       DEF StopNew, Fine, To, Upset, End, Fresh, ReadOK, NamesOK, RestOK, Folders, Images,
           NoImages, None
<1>11. CASE WaitForDocker
    BY <1>0, Constants, <1>11
       DEF WaitForDocker, Fine, To, Upset, End, Fresh, ReadOK, NamesOK, RestOK, Folders, Images,
           NoImages, None
<1>12. CASE NameNew
    BY <1>0, Constants, <1>12
       DEF NameNew, NotPutBack, NextRef, Fine, To, Upset, End, Fresh, ReadOK, NamesOK, RestOK,
           Folders, Images, NoImages, None
<1>13. CASE MoveBack
    BY <1>0, Constants, <1>13
       DEF MoveBack, NotPutBack, NextRef, Fine, To, Upset, End, Fresh, ReadOK, NamesOK, RestOK,
           Folders, Images, NoImages, None
<1>14. CASE KeepNew
    BY <1>0, Constants, <1>14
       DEF KeepNew, WorthKeeping, Fine, To, ReadOK, NamesOK, RestOK, Folders, Images, NoImages,
           None
<1>15. CASE Drop
    BY <1>0, Constants, <1>15
       DEF Drop, LetGo, Fine, To, StartAllowed, StoppedBuildRefuses, End, Fresh, ReadOK, NamesOK,
           RestOK, Folders, Images, NoImages, None
<1>16. CASE Restart
    BY <1>0, Constants, <1>16
       DEF Restart, LetGo, Range, Fine, End, Fresh, ReadOK, NamesOK, RestOK, Folders, Images,
           NoImages, None
<1>17. CASE CompileFails
    BY <1>0, Constants, <1>17
       DEF CompileFails, Upset, Fine, To, ReadOK, NamesOK, RestOK, Folders, Images, NoImages,
           None
<1>18. CASE StopTheCompile
    BY <1>0, Constants, <1>18
       DEF StopTheCompile, Upset, Fine, To, ReadOK, NamesOK, RestOK, Folders, Images, NoImages,
           None
<1>19. CASE WalkOut
    BY <1>0, Constants, <1>19
       DEF WalkOut, Tagged, MayHaveTagged, NothingMoved, PartOnly, Upset, End, Fresh, ReadOK,
           NamesOK, RestOK, Folders, Images, NoImages, None
<1>20. CASE Killed
    BY <1>0, Constants, <1>20
       DEF Killed, Upset, End, Fresh, ReadOK, NamesOK, RestOK, Folders, Images, NoImages, None
<1>21. CASE UNCHANGED <<f0, after, seen>>
    BY <1>0, <1>21 DEF ReadOK
<1>22. CASE SettleUnread
    BY <1>0, Constants, <1>22
       DEF SettleUnread, Upset, End, Fresh, To, ReadOK, NamesOK, RestOK, Folders, Images,
           NoImages, None
<1> QED
    BY <1>1, <1>2, <1>3, <1>4, <1>5, <1>6, <1>7, <1>8, <1>9, <1>10, <1>11, <1>12, <1>13, <1>14,
       <1>15, <1>16, <1>17, <1>18, <1>19, <1>20, <1>21, <1>22
       DEF Next, PressSteps, Docker, Start, Stop, Edit, Press, NothingLanded, Replace, StartNew,
           ForgetKept, NameKept, RecordKept, StopBeforeTheBuild, NotReady, ReadContext, Export,
           Dies, vars, Fine, To

(* Every step keeps the types of the folder and of the upsets. *)
LEMMA RestTyped == Shape /\ [Next]_vars => RestOK'
<1> SUFFICES ASSUME Shape, [Next]_vars PROVE RestOK'
    OBVIOUS
<1>0. Shape
    OBVIOUS
<1> USE DEF Shape, Typed, names, records, docker, servers, memory
<1>1. CASE Edit
    BY <1>0, Constants, <1>1 DEF Edit, Upset, Fine, RestOK, Folders
<1>2. CASE NothingLanded
    BY <1>0, Constants, <1>2 DEF NothingLanded, LandedOnServers, Landed, Fine, To, RestOK, Folders
<1>3. CASE SettleRefuses
    BY <1>0, Constants, <1>3
       DEF SettleRefuses, LandedOnServers, Landed, Fine, End, Fresh, RestOK, Folders
<1>4. CASE Settle
    BY <1>0, Constants, <1>4 DEF Settle, LandedOnServers, Landed, Fine, To, RestOK, Folders
<1>5. CASE PutBack
    BY <1>0, Constants, <1>5 DEF PutBack, Fine, To, Upset, End, Fresh, RestOK, Folders
<1>6. CASE Keep
    BY <1>0, Constants, <1>6 DEF Keep, Fine, NextRef, To, Upset, End, Fresh, RestOK, Folders
<1>7. CASE Prepare
    BY <1>0, Constants, <1>7 DEF Prepare, Usable, Fine, To, RestOK, Folders
<1>8. CASE Use
    BY <1>0, Constants, <1>8 DEF Use, Fine, To, Alone, Upset, RestOK, Folders
<1>9. CASE Compiled
    BY <1>0, Constants, <1>9 DEF Compiled, Fine, To, RestOK, Folders
<1>10. CASE Replace
    BY <1>0, Constants, <1>10 DEF Replace, Fine, To, Upset, RestOK, Folders
<1>11. CASE StartNew
    BY <1>0, Constants, <1>11 DEF StartNew, Fine, Range, RestOK, Folders
<1>12. CASE Ready
    BY <1>0, Constants, <1>12 DEF Ready, Fine, End, Fresh, RestOK, Folders
<1>13. CASE Failed
    BY <1>0, Constants, <1>13
       DEF Failed, AsksDocker, Tagged, MayHaveTagged, NothingMoved, PartOnly, Upset, Fine, To,
           End, Fresh, RestOK, Folders
<1>14. CASE StopNew
    BY <1>0, Constants, <1>14 DEF StopNew, Fine, To, Upset, End, Fresh, RestOK, Folders
<1>15. CASE WaitForDocker
    BY <1>0, Constants, <1>15 DEF WaitForDocker, Fine, To, Upset, End, Fresh, RestOK, Folders
<1>16. CASE NameNew
    BY <1>0, Constants, <1>16
       DEF NameNew, NotPutBack, NextRef, Fine, To, Upset, End, Fresh, RestOK, Folders
<1>17. CASE MoveBack
    BY <1>0, Constants, <1>17
       DEF MoveBack, NotPutBack, NextRef, Fine, To, Upset, End, Fresh, RestOK, Folders
<1>18. CASE KeepNew
    BY <1>0, Constants, <1>18 DEF KeepNew, WorthKeeping, Fine, To, RestOK, Folders
<1>19. CASE ForgetKept
    BY <1>0, Constants, <1>19 DEF ForgetKept, Fine, To, RestOK, Folders
<1>20. CASE NameKept
    BY <1>0, Constants, <1>20 DEF NameKept, Fine, To, RestOK, Folders
<1>21. CASE RecordKept
    BY <1>0, Constants, <1>21 DEF RecordKept, Fine, To, RestOK, Folders
<1>22. CASE Drop
    BY <1>0, Constants, <1>22
       DEF Drop, LetGo, Fine, To, StartAllowed, StoppedBuildRefuses, End, Fresh, RestOK, Folders
<1>23. CASE Restart
    BY <1>0, Constants, <1>23 DEF Restart, LetGo, Range, Fine, End, Fresh, RestOK, Folders
<1>24. CASE CompileFails
    BY <1>0, Constants, <1>24 DEF CompileFails, Upset, Fine, To, RestOK, Folders
<1>25. CASE StopTheCompile
    BY <1>0, Constants, <1>25 DEF StopTheCompile, Upset, Fine, To, RestOK, Folders
<1>26. CASE WalkOut
    BY <1>0, Constants, <1>26
       DEF WalkOut, Tagged, MayHaveTagged, NothingMoved, PartOnly, Upset, End, Fresh, RestOK,
           Folders
<1>27. CASE Killed
    BY <1>0, Constants, <1>27 DEF Killed, Upset, End, Fresh, RestOK, Folders
<1>28. CASE \E b \in Builds : Export(b)
    BY <1>0, Constants, <1>28 DEF Export, Upset, Fine, RestOK, Folders
<1>29. CASE UNCHANGED <<folder, happened>>
    BY <1>0, <1>29 DEF RestOK
<1>30. CASE SettleUnread
    BY <1>0, Constants, <1>30 DEF SettleUnread, Upset, End, Fresh, To, RestOK, Folders
<1> QED
    BY <1>1, <1>2, <1>3, <1>4, <1>5, <1>6, <1>7, <1>8, <1>9, <1>10, <1>11, <1>12, <1>13, <1>14,
       <1>15, <1>16, <1>17, <1>18, <1>19, <1>20, <1>21, <1>22, <1>23, <1>24, <1>25, <1>26, <1>27,
       <1>28, <1>29, <1>30
       DEF Next, PressSteps, Docker, Start, Stop, Press, StopBeforeTheBuild, NotReady,
           ReadContext, Dies, vars, To

(* Every step keeps a press on its course. *)
LEMMA CourseStep == Shape /\ [Next]_vars => Course'
<1> SUFFICES ASSUME Shape, [Next]_vars PROVE Course'
    OBVIOUS
<1>0. Shape
    OBVIOUS
<1> USE DEF Shape, Typed, names, records, docker, servers, memory
<1>1. CASE Start
    BY <1>0, <1>1 DEF Start, StartAllowed, StoppedBuildRefuses, Range, Course, KeepsIt, DockerOK
<1>2. CASE Stop
    BY <1>0, <1>2 DEF Stop, Course, KeepsIt, DockerOK
<1>3. CASE Edit
    BY <1>0, <1>3 DEF Edit, Upset, Fine, Course, KeepsIt, DockerOK
<1>4. CASE Press
    BY <1>0, <1>4 DEF Press, To, Course, KeepsIt, DockerOK
<1>5. CASE NothingLanded
    BY <1>0, <1>5 DEF NothingLanded, LandedOnServers, Landed, Fine, To, Course, KeepsIt, DockerOK
<1>6. CASE SettleRefuses
    BY <1>0, <1>6
       DEF SettleRefuses, LandedOnServers, Landed, Fine, End, Fresh, Course, KeepsIt, DockerOK
<1>7. CASE Settle
    BY <1>0, <1>7 DEF Settle, LandedOnServers, Landed, Fine, To, Course, KeepsIt, DockerOK
<1>8. CASE PutBack
    BY <1>0, <1>8 DEF PutBack, Fine, To, Upset, End, Fresh, Course, KeepsIt, DockerOK
<1>9. CASE Keep
    BY <1>0, <1>9 DEF Keep, Fine, NextRef, To, Upset, End, Fresh, Course, KeepsIt, DockerOK
<1>10. CASE Prepare
    BY <1>0, <1>10 DEF Prepare, Usable, Fine, To, Course, KeepsIt, DockerOK
<1>11. CASE Use
    BY <1>0, <1>11 DEF Use, Fine, To, Alone, Upset, Course, KeepsIt, DockerOK
<1>12. CASE Compiled
    BY <1>0, <1>12 DEF Compiled, Fine, To, Course, KeepsIt, DockerOK
<1>13. CASE Replace
    BY <1>0, <1>13 DEF Replace, Fine, To, Upset, Course, KeepsIt, DockerOK
<1>14. CASE StartNew
    BY <1>0, <1>14 DEF StartNew, Fine, Range, Course, KeepsIt, DockerOK
<1>15. CASE Ready
    BY <1>0, <1>15 DEF Ready, Fine, End, Fresh, Course, KeepsIt, DockerOK
<1>16. CASE Failed
    BY <1>0, <1>16
       DEF Failed, AsksDocker, Tagged, MayHaveTagged, NothingMoved, PartOnly, Upset, Fine, To,
           End, Fresh, Course, KeepsIt, DockerOK
<1>17. CASE StopNew
    BY <1>0, <1>17 DEF StopNew, Fine, To, Upset, End, Fresh, Course, KeepsIt, DockerOK
<1>18. CASE WaitForDocker
    BY <1>0, <1>18 DEF WaitForDocker, Fine, To, Upset, End, Fresh, Course, KeepsIt, DockerOK
<1>19. CASE NameNew
    BY <1>0, <1>19
       DEF NameNew, NotPutBack, NextRef, Fine, To, Upset, End, Fresh, Course, KeepsIt, DockerOK
<1>20. CASE MoveBack
    BY <1>0, <1>20
       DEF MoveBack, NotPutBack, NextRef, Fine, To, Upset, End, Fresh, Course, KeepsIt, DockerOK
<1>21. CASE KeepNew
    BY <1>0, <1>21 DEF KeepNew, WorthKeeping, Fine, To, Course, KeepsIt, DockerOK
<1>22. CASE ForgetKept
    BY <1>0, <1>22 DEF ForgetKept, Fine, To, Course, KeepsIt, DockerOK
<1>23. CASE NameKept
    BY <1>0, <1>23 DEF NameKept, Fine, To, Course, KeepsIt, DockerOK
<1>24. CASE RecordKept
    BY <1>0, <1>24 DEF RecordKept, Fine, To, Course, KeepsIt, DockerOK
<1>25. CASE Drop
    BY <1>0, <1>25
       DEF Drop, LetGo, Fine, To, StartAllowed, StoppedBuildRefuses, End, Fresh, Course, KeepsIt,
           DockerOK
<1>26. CASE Restart
    BY <1>0, <1>26 DEF Restart, LetGo, Range, Fine, End, Fresh, Course, KeepsIt, DockerOK
<1>27. CASE StopBeforeTheBuild
    BY <1>0, <1>27 DEF StopBeforeTheBuild, To, Course, KeepsIt, DockerOK
<1>28. CASE CompileFails
    BY <1>0, <1>28 DEF CompileFails, Upset, Fine, To, Course, KeepsIt, DockerOK
<1>29. CASE StopTheCompile
    BY <1>0, <1>29 DEF StopTheCompile, Upset, Fine, To, Course, KeepsIt, DockerOK
<1>30. CASE NotReady
    BY <1>0, <1>30 DEF NotReady, To, Course, KeepsIt, DockerOK
<1>31. CASE WalkOut
    BY <1>0, <1>31
       DEF WalkOut, Tagged, MayHaveTagged, NothingMoved, PartOnly, Upset, End, Fresh, Course,
           KeepsIt, DockerOK
<1>32. CASE Killed
    BY <1>0, <1>32 DEF Killed, Upset, End, Fresh, Course, KeepsIt, DockerOK
<1>33. CASE \E b \in Builds : ReadContext(b)
    BY <1>0, <1>33 DEF ReadContext, Course, KeepsIt, DockerOK
<1>34. CASE \E b \in Builds : Export(b)
    BY <1>0, <1>34 DEF Export, Upset, Fine, Course, KeepsIt, DockerOK
<1>35. CASE \E b \in Builds : Dies(b)
    BY <1>0, <1>35 DEF Dies, Course, KeepsIt, DockerOK
<1>36. CASE UNCHANGED vars
    BY <1>0, <1>36 DEF vars, Course, KeepsIt, DockerOK
<1>37. CASE SettleUnread
    BY <1>0, <1>37 DEF SettleUnread, Upset, End, Fresh, To, Course, KeepsIt, DockerOK
<1> QED
    BY <1>1, <1>2, <1>3, <1>4, <1>5, <1>6, <1>7, <1>8, <1>9, <1>10, <1>11, <1>12, <1>13, <1>14,
       <1>15, <1>16, <1>17, <1>18, <1>19, <1>20, <1>21, <1>22, <1>23, <1>24, <1>25, <1>26, <1>27,
       <1>28, <1>29, <1>30, <1>31, <1>32, <1>33, <1>34, <1>35, <1>36, <1>37
       DEF Next, PressSteps, Docker

(* No step takes the image from a name. *)
LEMMA WholeStep == Shape /\ [Next]_vars => Whole'
<1> SUFFICES ASSUME Shape, [Next]_vars PROVE Whole'
    OBVIOUS
<1>0. Shape
    OBVIOUS
<1> USE DEF Shape, Typed, names, records, docker, servers, memory
<1>1. CASE Start
    BY <1>0, Constants, <1>1
       DEF Start, StartAllowed, StoppedBuildRefuses, Range, Course, Whole, Full, KeepsIt, Late,
           NamesOK, RecordsOK, Images, NoImages, NoRecord, None, PressOK, Refs, ReadOK
<1>2. CASE Stop
    BY <1>0, Constants, <1>2
       DEF Stop, Course, Whole, Full, KeepsIt, Late, NamesOK, RecordsOK, Images, NoImages,
           NoRecord, None, PressOK, Refs, ReadOK
<1>3. CASE Edit
    BY <1>0, Constants, <1>3
       DEF Edit, Upset, Fine, Course, Whole, Full, KeepsIt, Late, NamesOK, RecordsOK, Images,
           NoImages, NoRecord, None, PressOK, Refs, ReadOK
<1>4. CASE Press
    BY <1>0, Constants, <1>4
       DEF Press, To, Course, Whole, Full, KeepsIt, Late, NamesOK, RecordsOK, Images, NoImages,
           NoRecord, None, PressOK, Refs, ReadOK
<1>5. CASE NothingLanded
    BY <1>0, Constants, <1>5
       DEF NothingLanded, LandedOnServers, Landed, Fine, To, Course, Whole, Full, KeepsIt, Late,
           NamesOK, RecordsOK, Images, NoImages, NoRecord, None, PressOK, Refs, ReadOK
<1>6. CASE SettleRefuses
    BY <1>0, Constants, <1>6
       DEF SettleRefuses, LandedOnServers, Landed, Fine, End, Fresh, Course, Whole, Full,
           KeepsIt, Late, NamesOK, RecordsOK, Images, NoImages, NoRecord, None, PressOK, Refs,
           ReadOK
<1>7. CASE Settle
    BY <1>0, Constants, <1>7
       DEF Settle, LandedOnServers, Landed, Fine, To, Course, Whole, Full, KeepsIt, Late,
           NamesOK, RecordsOK, Images, NoImages, NoRecord, None, PressOK, Refs, ReadOK
<1>8. CASE PutBack
  <2>1. Full(live)'
      BY <1>0, Constants, <1>8
         DEF PutBack, Fine, To, Upset, End, Fresh, Whole, Full, NamesOK, Images, PressOK, Refs,
             None, Course, KeepsIt, Late
  <2> QED
      BY <1>0, Constants, <2>1, <1>8
         DEF PutBack, Fine, To, Upset, End, Fresh, Course, Whole, KeepsIt, Late, NoRecord, None, Refs
<1>9. CASE Keep
  <2>1. UNCHANGED <<live, keptRec>> /\ Full(live)
      BY <1>0, <1>9 DEF Keep, Whole
  <2>2. CASE End
      BY <1>0, <2>1, <2>2 DEF End, Whole, KeepsIt, Late
  <2>3. CASE ~End
    <3>1. rollback' = [rollback EXCEPT ![at] = live[at]] /\ NextRef("prepare") /\ UNCHANGED memory
        BY <1>9, <2>3 DEF Keep
    <3>2. live[at] # None /\ \A r \in Refs : r < at => rollback[r] # None
        BY <1>0, <1>9, <2>1 DEF Keep, Whole, Full, PressOK
    <3>3. \A r \in Refs : r <= at => rollback'[r] # None
        BY <1>0, <3>1, <3>2 DEF NamesOK, Images, PressOK, Refs
    <3>4. CASE at < NRefs
        BY <1>0, <1>9, <2>1, <3>1, <3>3, <3>4
           DEF Keep, NextRef, Whole, KeepsIt, Late, PressOK, Refs
    <3>5. CASE ~(at < NRefs)
      <4>1. pc' = "prepare" /\ Full(rollback)'
          BY <1>0, Constants, <3>1, <3>3, <3>5 DEF NextRef, To, Full, Refs, PressOK
      <4> QED
          BY <1>0, <2>1, <4>1 DEF Whole, KeepsIt, Late
    <3> QED
        BY <3>4, <3>5
  <2> QED
      BY <2>2, <2>3
<1>10. CASE Prepare
  <2>1. UNCHANGED <<live, rollback>> /\ Full(live) /\ Full(rollback)
      BY <1>0, <1>10 DEF Prepare, Whole, Late, KeepsIt
  <2>2. CASE Usable
    <3>1. pc' = "use" /\ UNCHANGED <<keptRec, parked>> /\ keptRec.print # None /\ parked = keptRec.images
        BY <1>10, <2>2 DEF Prepare, Usable, To
    <3> QED
        BY <1>0, <2>1, <3>1 DEF Whole, KeepsIt, Late
  <2>3. CASE ~Usable
    <3>1. pc' = "compile" /\ keptRec'.print = None
        BY <1>10, <2>3 DEF Prepare, To, NoRecord, None
    <3> QED
        BY <2>1, <3>1 DEF Whole, KeepsIt, Late
  <2> QED
      BY <2>2, <2>3
<1>11. CASE Use
  <2>1. /\ pc = "use" /\ Full(live) /\ Full(parked)
      BY <1>0, <1>11 DEF Use, Whole
  <2>2. live' = live \/ live' = [live EXCEPT ![at] = parked[at]]
      BY <1>11 DEF Use
  <2>3. \A r \in Refs : live'[r] \in {live[r], parked[r]}
      BY <1>0, <2>2 DEF NamesOK, Images, PressOK
  <2>4. Full(live)'
      BY <2>1, <2>3 DEF Full
  <2> QED
      BY <1>0, Constants, <2>4, <1>11
         DEF Use, Fine, To, Alone, Upset, Course, Whole, KeepsIt, Late, NoRecord, None
<1>12. CASE Compiled
    BY <1>0, Constants, <1>12
       DEF Compiled, Fine, To, Course, Whole, Full, KeepsIt, Late, NamesOK, RecordsOK, Images,
           NoImages, NoRecord, None, PressOK, Refs, ReadOK
<1>13. CASE Replace
    BY <1>0, Constants, <1>13
       DEF Replace, Fine, To, Upset, Course, Whole, Full, KeepsIt, Late, NamesOK, RecordsOK,
           Images, NoImages, NoRecord, None, PressOK, Refs, ReadOK
<1>14. CASE StartNew
    BY <1>0, Constants, <1>14
       DEF StartNew, Fine, Range, Course, Whole, Full, KeepsIt, Late, NamesOK, RecordsOK, Images,
           NoImages, NoRecord, None, PressOK, Refs, ReadOK
<1>15. CASE Ready
    BY <1>0, Constants, <1>15
       DEF Ready, Fine, End, Fresh, Course, Whole, Full, KeepsIt, Late, NamesOK, RecordsOK,
           Images, NoImages, NoRecord, None, PressOK, Refs, ReadOK
<1>16. CASE Failed
    BY <1>0, Constants, <1>16
       DEF Failed, AsksDocker, Tagged, MayHaveTagged, NothingMoved, PartOnly, Upset, Fine, To,
           End, Fresh, Course, Whole, Full, KeepsIt, Late, NamesOK, RecordsOK, Images, NoImages,
           NoRecord, None, PressOK, Refs, ReadOK
<1>17. CASE StopNew
  <2>1. UNCHANGED <<live, keptRec, rollback>> /\ Full(live) /\ Full(rollback)
      BY <1>0, <1>17 DEF StopNew, Whole, Late, KeepsIt
  <2>2. pc' = "idle" \/ (pc' = "name" /\ at' = 1)
      BY <1>17 DEF StopNew, To, End
  <2>3. \A r \in Refs : ~(r < 1)
      BY Constants DEF Refs
  <2> QED
      BY <1>0, <2>1, <2>2, <2>3 DEF Whole, KeepsIt, Late
<1>18. CASE WaitForDocker
  <2>1. UNCHANGED <<live, keptRec, rollback>> /\ Full(live) /\ Full(rollback)
      BY <1>0, <1>18 DEF WaitForDocker, Whole, Late, KeepsIt
  <2>2. pc' = "idle" \/ (pc' = "name" /\ at' = 1)
      BY <1>18 DEF WaitForDocker, To, End
  <2>3. \A r \in Refs : ~(r < 1)
      BY Constants DEF Refs
  <2> QED
      BY <1>0, <2>1, <2>2, <2>3 DEF Whole, KeepsIt, Late
<1>19. CASE NameNew
  <2>1. UNCHANGED <<live, keptRec, rollback>> /\ Full(live) /\ Full(rollback) /\ pc = "name" /\ built
      BY <1>0, <1>19 DEF NameNew, Whole, Late, KeepsIt, Course
  <2>2. CASE End
      BY <1>0, <2>1, <2>2 DEF End, Whole, KeepsIt, Late
  <2>3. CASE ~End
    <3>1. failed' = [failed EXCEPT ![at] = live[at]] /\ NextRef("back")
        BY <1>19, <2>3 DEF NameNew
    <3>2. \A r \in Refs : r <= at => failed'[r] # None
        BY <1>0, <2>1, <3>1 DEF Whole, Full, NamesOK, Images, PressOK, Refs
    <3>3. CASE at < NRefs
        BY <1>0, <2>1, <3>1, <3>2, <3>3 DEF NextRef, Whole, KeepsIt, Late, PressOK, Refs
    <3>4. CASE ~(at < NRefs)
      <4>1. pc' = "back" /\ Full(failed)'
          BY <1>0, Constants, <3>1, <3>2, <3>4 DEF NextRef, To, Full, Refs, PressOK
      <4> QED
          BY <1>0, <2>1, <4>1 DEF Whole, KeepsIt, Late
    <3> QED
        BY <3>3, <3>4
  <2> QED
      BY <2>2, <2>3
<1>20. CASE MoveBack
  <2>1. UNCHANGED <<keptRec, rollback>> /\ Full(live) /\ Full(rollback) /\ Full(failed) /\ pc = "back"
      BY <1>0, <1>20 DEF MoveBack, Whole, Late, KeepsIt
  <2>2. \A r \in Refs : live'[r] \in {live[r], rollback[r], failed[r]}
      BY <1>0, <1>20 DEF MoveBack, NamesOK, Images, PressOK
  <2>3. Full(live)'
      BY <2>1, <2>2 DEF Full
  <2>4. CASE End
      BY <1>0, <2>1, <2>3, <2>4 DEF End, Whole, KeepsIt, Late
  <2>5. CASE ~End
    <3>1. pc' \in {"back", "keepNew"} /\ UNCHANGED failed
        BY <1>20, <2>1, <2>5 DEF MoveBack, NextRef, To
    <3> QED
        BY <1>0, <2>1, <2>3, <3>1 DEF Whole, KeepsIt, Late
  <2> QED
      BY <2>4, <2>5
<1>21. CASE KeepNew
    BY <1>0, Constants, <1>21
       DEF KeepNew, WorthKeeping, Fine, To, Course, Whole, Full, KeepsIt, Late, NamesOK,
           RecordsOK, Images, NoImages, NoRecord, None, PressOK, Refs, ReadOK
<1>22. CASE ForgetKept
    BY <1>0, Constants, <1>22
       DEF ForgetKept, Fine, To, Course, Whole, Full, KeepsIt, Late, NamesOK, RecordsOK, Images,
           NoImages, NoRecord, None, PressOK, Refs, ReadOK
<1>23. CASE NameKept
    BY <1>0, Constants, <1>23
       DEF NameKept, Fine, To, Course, Whole, Full, KeepsIt, Late, NamesOK, RecordsOK, Images,
           NoImages, NoRecord, None, PressOK, Refs, ReadOK
<1>24. CASE RecordKept
  <2>1. UNCHANGED <<live, rollback, seen, built>> /\ Full(live) /\ Full(seen) /\ pc = "recordKept"
      BY <1>0, <1>24 DEF RecordKept, Whole, KeepsIt
  <2>2. keptRec' = keptRec \/ keptRec'.images = seen
      BY <1>24 DEF RecordKept
  <2>3. keptRec'.print # None => Full(keptRec'.images)
      BY <1>0, <2>1, <2>2 DEF Whole
  <2>4. pc' = IF built THEN "drop" ELSE "putBack"
      BY <1>24 DEF RecordKept, To
  <2> QED
      BY <1>0, <2>1, <2>3, <2>4 DEF Whole, KeepsIt, Late
<1>25. CASE Drop
    BY <1>0, Constants, <1>25
       DEF Drop, LetGo, Fine, To, StartAllowed, StoppedBuildRefuses, End, Fresh, Course, Whole,
           Full, KeepsIt, Late, NamesOK, RecordsOK, Images, NoImages, NoRecord, None, PressOK,
           Refs, ReadOK
<1>26. CASE Restart
    BY <1>0, Constants, <1>26
       DEF Restart, LetGo, Range, Fine, End, Fresh, Course, Whole, Full, KeepsIt, Late, NamesOK,
           RecordsOK, Images, NoImages, NoRecord, None, PressOK, Refs, ReadOK
<1>27. CASE StopBeforeTheBuild
    BY <1>0, Constants, <1>27
       DEF StopBeforeTheBuild, To, Course, Whole, Full, KeepsIt, Late, NamesOK, RecordsOK,
           Images, NoImages, NoRecord, None, PressOK, Refs, ReadOK
<1>28. CASE CompileFails
    BY <1>0, Constants, <1>28
       DEF CompileFails, Upset, Fine, To, Course, Whole, Full, KeepsIt, Late, NamesOK, RecordsOK,
           Images, NoImages, NoRecord, None, PressOK, Refs, ReadOK
<1>29. CASE StopTheCompile
    BY <1>0, Constants, <1>29
       DEF StopTheCompile, Upset, Fine, To, Course, Whole, Full, KeepsIt, Late, NamesOK,
           RecordsOK, Images, NoImages, NoRecord, None, PressOK, Refs, ReadOK
<1>30. CASE NotReady
    BY <1>0, Constants, <1>30
       DEF NotReady, To, Course, Whole, Full, KeepsIt, Late, NamesOK, RecordsOK, Images,
           NoImages, NoRecord, None, PressOK, Refs, ReadOK
<1>31. CASE WalkOut
    BY <1>0, Constants, <1>31
       DEF WalkOut, Tagged, MayHaveTagged, NothingMoved, PartOnly, Upset, End, Fresh, Course,
           Whole, Full, KeepsIt, Late, NamesOK, RecordsOK, Images, NoImages, NoRecord, None,
           PressOK, Refs, ReadOK
<1>32. CASE Killed
    BY <1>0, Constants, <1>32
       DEF Killed, Upset, End, Fresh, Course, Whole, Full, KeepsIt, Late, NamesOK, RecordsOK,
           Images, NoImages, NoRecord, None, PressOK, Refs, ReadOK
<1>33. CASE \E b \in Builds : ReadContext(b)
    BY <1>0, Constants, <1>33
       DEF ReadContext, Course, Whole, Full, KeepsIt, Late, NamesOK, RecordsOK, Images, NoImages,
           NoRecord, None, PressOK, Refs, ReadOK
<1>34. CASE \E b \in Builds : Export(b)
  <2>1. PICK b \in Builds : Export(b)
      BY <1>34
  <2>2. Full(live)'
      BY <1>0, Constants, <2>1 DEF Export, Whole, Full, NamesOK, Images, Builds, None
  <2> QED
      BY <1>0, <2>1, <2>2 DEF Export, Course, Whole, KeepsIt, Late
<1>35. CASE \E b \in Builds : Dies(b)
    BY <1>0, Constants, <1>35
       DEF Dies, Course, Whole, Full, KeepsIt, Late, NamesOK, RecordsOK, Images, NoImages,
           NoRecord, None, PressOK, Refs, ReadOK
<1>36. CASE UNCHANGED vars
    BY <1>0, Constants, <1>36
       DEF vars, Course, Whole, Full, KeepsIt, Late, NamesOK, RecordsOK, Images, NoImages,
           NoRecord, None, PressOK, Refs, ReadOK
<1>37. CASE SettleUnread
  <2>1. pc = "settle" /\ UNCHANGED <<names, records, folder, docker, servers>>
      BY <1>37 DEF SettleUnread
  <2>2. PICK heard \in SUBSET Landed :
          \/ heard = {} /\ To("keep") /\ UNCHANGED <<built, seen>>
          \/ End
          \/ /\ To("putBack") /\ UNCHANGED built
             /\ seen' = [r \in Refs |-> IF r \in heard THEN live[r] ELSE None]
      BY <1>37 DEF SettleUnread
  <2>3. CASE To("keep") /\ UNCHANGED <<built, seen>>
    <3>1. pc' = "keep" /\ at' = 1
        BY <2>3 DEF To
    <3> QED
        BY <1>0, Constants, <2>1, <2>3, <3>1
           DEF Course, Whole, Full, KeepsIt, Late, NamesOK, RecordsOK, PressOK, Refs
  <2>4. CASE End
    <3>1. pc' = "idle" /\ built' = FALSE
        BY <2>4 DEF End, Fresh
    <3> QED
        BY <1>0, <2>1, <3>1 DEF Course, Whole, Full, KeepsIt, Late, NamesOK, RecordsOK
  <2>5. CASE /\ To("putBack") /\ UNCHANGED built
             /\ seen' = [r \in Refs |-> IF r \in heard THEN live[r] ELSE None]
    <3>1. pc' = "putBack"
        BY <2>5 DEF To
    <3>2. \A r \in Refs : seen'[r] # None => rollback'[r] # None
        BY <2>1, <2>2, <2>5 DEF Landed
    <3> QED
        BY <1>0, <2>1, <2>5, <3>1, <3>2 DEF Course, Whole, Full, KeepsIt, Late
  <2> QED
      BY <2>2, <2>3, <2>4, <2>5
<1> QED
    BY <1>1, <1>2, <1>3, <1>4, <1>5, <1>6, <1>7, <1>8, <1>9, <1>10, <1>11, <1>12, <1>13, <1>14,
       <1>15, <1>16, <1>17, <1>18, <1>19, <1>20, <1>21, <1>22, <1>23, <1>24, <1>25, <1>26, <1>27,
       <1>28, <1>29, <1>30, <1>31, <1>32, <1>33, <1>34, <1>35, <1>36, <1>37
       DEF Next, PressSteps, Docker

(* The types, the course and the whole names hold at every moment of every behaviour. *)
LEMMA ShapeAlways == Spec => []Shape
<1>1. Shape /\ [Next]_vars => Shape'
  <2> SUFFICES ASSUME Shape, [Next]_vars PROVE Shape'
      OBVIOUS
  <2>1. NamesOK' /\ RecordsOK' /\ DockerOK' /\ ServersOK'
      BY NamesTyped, RecordsTyped, DockerTyped, ServersTyped
  <2>2. PressOK' /\ ReadOK' /\ RestOK'
      BY PressTyped, ReadTyped, RestTyped
  <2> QED
      BY <2>1, <2>2, CourseStep, WholeStep DEF Shape, Typed
<1> QED
    BY <1>1, ShapeStart, PTL DEF Spec

(* Every variable keeps its type, whatever goes wrong (TypeOK). *)
THEOREM TypesHold == Spec => []TypeOK
<1>1. Shape => TypeOK
    BY DEF Shape, Typed, NamesOK, RecordsOK, DockerOK, ServersOK, PressOK, ReadOK, RestOK, TypeOK
<1> QED
    BY <1>1, ShapeAlways, PTL

-----------------------------------------------------------------------------
(* While every press leaves its records. *)

(* What went wrong stays on the list. *)
LEMMA HappenedGrows == [Next]_vars => happened \subseteq happened'
<1> SUFFICES ASSUME [Next]_vars PROVE happened \subseteq happened'
    OBVIOUS
<1>1. ASSUME NEW c, Upset(c) PROVE happened \subseteq happened'
    BY <1>1 DEF Upset
<1>2. Fine => happened \subseteq happened'
    BY DEF Fine
<1>3. UNCHANGED happened => happened \subseteq happened'
    OBVIOUS
<1> QED
    BY <1>1, <1>2, <1>3
       DEF Next, PressSteps, Docker, Start, Stop, Edit, Press, NothingLanded, SettleRefuses,
           Settle, PutBack, Keep, Prepare, Use, Compiled, Replace, StartNew, Ready, Failed,
           StopNew, WaitForDocker, NameNew, MoveBack, KeepNew, ForgetKept, NameKept, RecordKept,
           Drop, Restart, SettleUnread, StopBeforeTheBuild, CompileFails, StopTheCompile,
           NotReady, WalkOut, Killed, ReadContext, Export, Dies, vars, AsksDocker

(* An orderly past had no upset that leaves no record, and its last step was none. *)
LEMMA OrderlyStep ==
    [Next]_vars /\ Orderly' => Orderly /\ \A c \in Unrecorded : ~Upset(c)
<1> SUFFICES ASSUME [Next]_vars, Orderly' PROVE Orderly /\ \A c \in Unrecorded : ~Upset(c)
    OBVIOUS
<1>1. Orderly
    BY HappenedGrows DEF Orderly
<1>2. \A c \in Unrecorded : ~Upset(c)
    BY DEF Orderly, Upset
<1> QED
    BY <1>1, <1>2

(* A press that is over remembers nothing. *)
LEMMA OverRemembers == End => Remembers'
    BY DEF End, Fresh, Remembers, KeepsIt, Late, None

(* Every step keeps what a press remembers true. *)
LEMMA RememberedStep == Shape /\ Inv /\ [Next]_vars /\ Orderly' => Remembers'
<1> SUFFICES ASSUME Shape, Inv, [Next]_vars, Orderly' PROVE Remembers'
    OBVIOUS
<1>0. Shape /\ Inv
    OBVIOUS
<1>u. /\ ~Upset("keep") /\ ~Upset("lateWalkout") /\ ~Upset("kill")
      /\ ~Upset("race") /\ ~Upset("partial") /\ ~Upset("second") /\ ~Upset("unread")
    BY OrderlyStep DEF Unrecorded
<1> USE DEF Shape, Typed, Inv, names, records, docker, servers, memory
<1>1. CASE Start
    BY <1>0, <1>u, <1>1
       DEF Start, StartAllowed, StoppedBuildRefuses, Range, Remembers, KeepsIt, Late, None
<1>2. CASE Stop
    BY <1>0, <1>u, <1>2 DEF Stop, Remembers, KeepsIt, Late, None
<1>3. CASE Edit
    BY <1>0, <1>u, <1>3 DEF Edit, Remembers, KeepsIt, Late, None
<1>4. CASE Press
    BY <1>0, <1>u, <1>4 DEF Press, To, Remembers, KeepsIt, Late, None
<1>5. CASE NothingLanded
    BY <1>0, <1>u, <1>5
       DEF NothingLanded, LandedOnServers, Landed, To, Remembers, KeepsIt, Late, None
<1>6. CASE SettleRefuses
    BY <1>0, <1>u, <1>6
       DEF SettleRefuses, LandedOnServers, Landed, End, Fresh, Remembers, KeepsIt, Late, None
<1>7. CASE Settle
    BY <1>0, <1>u, <1>7 DEF Settle, LandedOnServers, Landed, To, Remembers, KeepsIt, Late, None
<1>8. CASE PutBack
  <2>1. CASE End
      BY <2>1, OverRemembers
  <2>2. CASE ~End
    <3>1. /\ pc = "putBack"
          /\ UNCHANGED <<stopRec, built, touched, stillKept, tagging, buildExit, f0, after>>
        BY <1>8, <2>2 DEF PutBack
    <3>2. CASE pc' = "putBack" /\ UNCHANGED hold
        BY <1>0, <3>1, <3>2 DEF Remembers, KeepsIt, Late
    <3>3. CASE pc' = "keep" /\ hold'
      <4>1. hold' = (stopRec' # None)
          BY <1>0, <3>1, <3>3 DEF Remembers, PressOK
      <4> QED
          BY <1>0, <3>1, <3>3, <4>1 DEF Remembers, KeepsIt, Late
    <3> QED
        BY <1>8, <2>2, <3>2, <3>3 DEF PutBack, To
  <2> QED
      BY <2>1, <2>2
<1>9. CASE Keep
    BY <1>0, <1>u, <1>9 DEF Keep, NextRef, To, End, Fresh, Remembers, KeepsIt, Late, None
<1>10. CASE Prepare
  <2>1. /\ pc = "prepare" /\ f0' # None
        /\ \/ pc' = "use" /\ tagging' = TRUE /\ UNCHANGED buildExit
           \/ pc' = "compile" /\ buildExit' = "cancelled" /\ UNCHANGED tagging
        /\ UNCHANGED <<stopRec, built, touched, hold, after>>
      BY <1>0, <1>10 DEF Prepare, To, RestOK, Folders, None
  <2> QED
      BY <1>0, <2>1 DEF Remembers, KeepsIt, Late
<1>11. CASE Use
    BY <1>0, <1>u, <1>11 DEF Use, To, Alone, Remembers, KeepsIt, Late, None
<1>12. CASE Compiled
    BY <1>0, <1>u, <1>12 DEF Compiled, To, Remembers, KeepsIt, Late, None
<1>13. CASE Replace
    BY <1>0, <1>u, <1>13 DEF Replace, To, Remembers, KeepsIt, Late, None
<1>14. CASE StartNew
    BY <1>0, <1>u, <1>14 DEF StartNew, Range, Remembers, KeepsIt, Late, None
<1>15. CASE Ready
    BY <1>0, <1>u, <1>15 DEF Ready, End, Fresh, Remembers, KeepsIt, Late, None
<1>16. CASE Failed
    BY <1>0, <1>u, <1>16
       DEF Failed, AsksDocker, Tagged, MayHaveTagged, NothingMoved, PartOnly, To, End, Fresh,
           Remembers, KeepsIt, Late, None
<1>17. CASE StopNew
  <2>1. CASE End
      BY <2>1, OverRemembers
  <2>2. CASE ~End
    <3>1. pc = "stopNew" /\ pc' = "name" /\ UNCHANGED <<memory, stopRec>>
        BY <1>17, <2>2 DEF StopNew, To
    <3> QED
        BY <1>0, <3>1 DEF Remembers, KeepsIt, Late
  <2> QED
      BY <2>1, <2>2
<1>18. CASE WaitForDocker
  <2>1. CASE End
      BY <2>1, OverRemembers
  <2>2. CASE ~End
    <3>1. pc = "wait" /\ pc' = "name" /\ UNCHANGED <<memory, stopRec>>
        BY <1>18, <2>2 DEF WaitForDocker, To
    <3> QED
        BY <1>0, <3>1 DEF Remembers, KeepsIt, Late
  <2> QED
      BY <2>1, <2>2
<1>19. CASE NameNew
  <2>1. CASE End
      BY <2>1, OverRemembers
  <2>2. CASE ~End
    <3>1. pc = "name" /\ pc' \in {"name", "back"} /\ UNCHANGED <<memory, stopRec>>
        BY <1>19, <2>2 DEF NameNew, NextRef, To
    <3> QED
        BY <1>0, <3>1 DEF Remembers, KeepsIt, Late
  <2> QED
      BY <2>1, <2>2
<1>20. CASE MoveBack
  <2>1. CASE End
      BY <2>1, OverRemembers
  <2>2. CASE ~End
    <3>1. pc = "back" /\ pc' \in {"back", "keepNew"} /\ UNCHANGED <<memory, stopRec>>
        BY <1>20, <2>2 DEF MoveBack, NextRef, To
    <3> QED
        BY <1>0, <3>1 DEF Remembers, KeepsIt, Late
  <2> QED
      BY <2>1, <2>2
<1>21. CASE KeepNew
    BY <1>0, <1>u, <1>21 DEF KeepNew, WorthKeeping, To, Remembers, KeepsIt, Late, None
<1>22. CASE ForgetKept
    BY <1>0, <1>u, <1>22 DEF ForgetKept, To, Remembers, KeepsIt, Late, None
<1>23. CASE NameKept
    BY <1>0, <1>u, <1>23 DEF NameKept, To, Remembers, KeepsIt, Late, None
<1>24. CASE RecordKept
    BY <1>0, <1>u, <1>24 DEF RecordKept, To, Remembers, KeepsIt, Late, None
<1>25. CASE Drop
    BY <1>0, <1>u, <1>25
       DEF Drop, LetGo, To, StartAllowed, StoppedBuildRefuses, End, Fresh, Remembers, KeepsIt,
           Late, None
<1>26. CASE Restart
    BY <1>0, <1>u, <1>26 DEF Restart, LetGo, Range, End, Fresh, Remembers, KeepsIt, Late, None
<1>27. CASE StopBeforeTheBuild
    BY <1>0, <1>u, <1>27 DEF StopBeforeTheBuild, To, Remembers, KeepsIt, Late, None
<1>28. CASE CompileFails
    BY <1>0, <1>u, <1>28 DEF CompileFails, To, Remembers, KeepsIt, Late, None
<1>29. CASE StopTheCompile
    BY <1>0, <1>u, <1>29 DEF StopTheCompile, To, Remembers, KeepsIt, Late, None
<1>30. CASE NotReady
    BY <1>0, <1>u, <1>30 DEF NotReady, To, Remembers, KeepsIt, Late, None
<1>31. CASE WalkOut
    BY <1>0, <1>u, <1>31
       DEF WalkOut, Tagged, MayHaveTagged, NothingMoved, PartOnly, End, Fresh, Remembers,
           KeepsIt, Late, None
<1>32. CASE Killed
    BY <1>0, <1>u, <1>32 DEF Killed, End, Fresh, Remembers, KeepsIt, Late, None
<1>33. CASE \E b \in Builds : ReadContext(b)
    BY <1>0, <1>u, <1>33 DEF ReadContext, Remembers, KeepsIt, Late, None
<1>34. CASE \E b \in Builds : Export(b)
    BY <1>0, <1>u, <1>34 DEF Export, Remembers, KeepsIt, Late, None
<1>35. CASE \E b \in Builds : Dies(b)
    BY <1>0, <1>u, <1>35 DEF Dies, Remembers, KeepsIt, Late, None
<1>36. CASE UNCHANGED vars
    BY <1>0, <1>u, <1>36 DEF vars, Remembers, KeepsIt, Late, None
<1>37. CASE SettleUnread
    BY <1>u, <1>37 DEF SettleUnread
<1> QED
    BY <1>1, <1>2, <1>3, <1>4, <1>5, <1>6, <1>7, <1>8, <1>9, <1>10, <1>11, <1>12, <1>13, <1>14,
       <1>15, <1>16, <1>17, <1>18, <1>19, <1>20, <1>21, <1>22, <1>23, <1>24, <1>25, <1>26, <1>27,
       <1>28, <1>29, <1>30, <1>31, <1>32, <1>33, <1>34, <1>35, <1>36, <1>37
       DEF Next, PressSteps, Docker

(* A compile Docker is done with has moved every name, after every earlier build. *)
LEMMA CompiledIsDone ==
    ASSUME Shape, Inv, pc = "compile", left[last] = 0
    PROVE  Quiet /\ \A r \in Refs : live[r] = last
<1>1. NRefs > 0 /\ last \in Nat /\ Builds \subseteq Nat /\ \A r \in Refs : r <= NRefs - left[last]
    BY Constants DEF Shape, Typed, DockerOK, Builds, Refs
<1>2. \A b \in Builds : b < last => left[b] = 0
    BY <1>1 DEF Inv, Compiling
<1>3. \A b \in Builds : b > last => left[b] = 0
    BY DEF Inv, AtWork
<1>4. \A r \in Refs : live[r] = last
    BY <1>1 DEF Inv, Compiling
<1> QED
    BY <1>1, <1>2, <1>3, <1>4 DEF Quiet

(* One image more has its live name, one fewer is left to export. *)
LEMMA Exported ==
    ASSUME Shape, NEW b \in Builds, Export(b)
    PROVE  LET i == NRefs - left[b] + 1 IN
           /\ i \in Refs /\ live'[i] = b /\ \A r \in Refs : r # i => live'[r] = live[r]
           /\ left'[b] = left[b] - 1 /\ left'[b] \in 0 .. NRefs
           /\ \A c \in Builds : c # b => left'[c] = left[c]
           /\ left[b] > 0 /\ left[b] \in 0 .. NRefs /\ \A c \in Builds : c < b => left[c] = 0
           /\ UNCHANGED <<rollback, failed, parked, records, folder, made, last, servers, pc, at,
                          memory>>
<1> DEFINE i == NRefs - left[b] + 1
<1>1. left[b] > 0 /\ left[b] \in 0 .. NRefs
    BY DEF Shape, Typed, DockerOK, Export
<1>2. i \in Refs
    BY <1>1, Constants DEF Refs
<1>3. live' = [live EXCEPT ![i] = b]
    BY DEF Export
<1>4. left' = [left EXCEPT ![b] = left[b] - 1]
    BY DEF Export
<1>5. live'[i] = b /\ \A r \in Refs : r # i => live'[r] = live[r]
    BY <1>2, <1>3 DEF Shape, Typed, NamesOK, Images
<1>6. left'[b] = left[b] - 1 /\ \A c \in Builds : c # b => left'[c] = left[c]
    BY <1>4 DEF Shape, Typed, DockerOK
<1>7. left'[b] \in 0 .. NRefs
    BY <1>1, <1>6, Constants
<1>8. /\ \A c \in Builds : c < b => left[c] = 0
      /\ UNCHANGED <<rollback, failed, parked, records, folder, made, last, servers, pc, at,
                     memory>>
    BY DEF Export
<1> QED
    BY <1>1, <1>2, <1>5, <1>6, <1>7, <1>8

(* Two images that are another than before have landed. *)
LEMMA LandedAreGuests ==
    ASSUME Shape, Full(rollback)
    PROVE  \A r \in Refs : r \in Landed <=> Guest(live, r)
    BY DEF Full, Landed, Guest

(* When every image is another than before, the build they are of has none left to export. *)
LEMMA LandedIsDone ==
    ASSUME Shape, Inv, pc # "compile", stopRec # None \/ Late, \A r \in Refs : Guest(live, r)
    PROVE  Quiet
<1>1. NRefs \in Refs /\ \A b \in Builds : left[b] \in 0 .. NRefs
    BY Constants DEF Shape, Typed, DockerOK, Refs
<1>2. \A b \in Builds : left[b] > 0 => NRefs <= NRefs - left[b]
    BY <1>1 DEF Inv, Guests
<1> QED
    BY <1>1, <1>2, Constants DEF Quiet

(* So has the build a press has named every image of, before it moved them back. *)
LEMMA NamedIsDone ==
    ASSUME Shape, Inv, pc = "keepNew", WorthKeeping
    PROVE  Quiet
<1>1. NRefs \in Refs /\ \A b \in Builds : left[b] \in 0 .. NRefs
    BY Constants DEF Shape, Typed, DockerOK, Refs
<1>2. \A b \in Builds : left[b] > 0 => NRefs <= NRefs - left[b]
    BY <1>1 DEF Inv, Copies, Copied, WorthKeeping, Guest
<1> QED
    BY <1>1, <1>2, Constants DEF Quiet

(* A press that is over leaves no build at work but under a record. *)
LEMMA OverAtWork ==
    ASSUME Shape, Inv, End, UNCHANGED <<made, last, keptRec>>,
           \A b \in Builds : left'[b] = left[b] \/ left'[b] = 0,
           stopRec' = None => Quiet', pc # "compile" \/ ~hold
    PROVE  AtWork'
<1>1. ~Late' /\ ~KeepsIt' /\ pc' = "idle" /\ ~touched' /\ ~tagging' /\ buildExit' = "none"
    BY DEF End, Fresh, Late, KeepsIt
<1>2. \A b \in Builds : left'[b] > 0 => left[b] > 0
    OBVIOUS
<1>3. keptRec.print # None => Quiet'
    BY DEF Inv, AtWork, Quiet
<1>4. \A b, c \in Builds : left[b] > 0 /\ left[c] > 0 => b = c
  <2>1. CASE pc # "compile"
      BY <2>1 DEF Inv, AtWork
  <2>2. CASE pc = "compile" /\ ~hold
      BY <2>2 DEF Inv, AtWork, Late, KeepsIt
  <2> QED
      BY <2>1, <2>2
<1>5. \A b \in Builds : b > last => left[b] = 0 /\ made[b] = None
    BY DEF Inv, AtWork
<1> QED
    BY <1>1, <1>2, <1>3, <1>4, <1>5 DEF AtWork

(* A press that has its restore before it and no record has none at work. *)
LEMMA QuietUnlessHeld ==
    ASSUME Shape, Inv, Late, stopRec = None
    PROVE  /\ \A b \in Builds : left[b] > 0 => b = last /\ buildExit = "cancelled"
           /\ pc \notin {"compile", "failed"} => Quiet
<1>1. ~hold
    BY DEF Inv, Remembers
<1>2. \A b \in Builds : left[b] \in 0 .. NRefs
    BY DEF Shape, Typed, DockerOK
<1> QED
    BY <1>1, <1>2, Constants DEF Inv, AtWork, Quiet

(* Every step keeps the builds at work to the one that was stopped. *)
LEMMA AtWorkStep == Shape /\ Inv /\ [Next]_vars /\ Orderly' => AtWork'
<1> SUFFICES ASSUME Shape, Inv, [Next]_vars, Orderly' PROVE AtWork'
    OBVIOUS
<1>0. Shape /\ Inv
    OBVIOUS
<1>u. /\ ~Upset("keep") /\ ~Upset("lateWalkout") /\ ~Upset("kill")
      /\ ~Upset("race") /\ ~Upset("partial") /\ ~Upset("second") /\ ~Upset("unread")
    BY OrderlyStep DEF Unrecorded
<1> USE DEF Shape, Typed, Inv, names, records, docker, servers, memory
<1>1. CASE Start
    BY <1>0, <1>u, <1>1
       DEF Start, StartAllowed, StoppedBuildRefuses, Range, AtWork, Quiet, Remembers, KeepsIt,
           Late, None
<1>2. CASE Stop
    BY <1>0, <1>u, <1>2 DEF Stop, AtWork, Quiet, Remembers, KeepsIt, Late, None
<1>3. CASE Edit
    BY <1>0, <1>u, <1>3 DEF Edit, AtWork, Quiet, Remembers, KeepsIt, Late, None
<1>4. CASE Press
    BY <1>0, <1>u, <1>4 DEF Press, To, AtWork, Quiet, Remembers, KeepsIt, Late, None
<1>5. CASE NothingLanded
    BY <1>0, <1>u, <1>5
       DEF NothingLanded, LandedOnServers, Landed, To, AtWork, Quiet, Remembers, KeepsIt, Late,
           None
<1>6. CASE SettleRefuses
    BY <1>0, <1>u, <1>6
       DEF SettleRefuses, LandedOnServers, Landed, End, Fresh, AtWork, Quiet, Remembers, KeepsIt,
           Late, None
<1>7. CASE Settle
  <2>1. Landed = Refs => Quiet
      BY <1>0, <1>7, LandedIsDone DEF Settle, LandedOnServers, Landed, Guest
  <2>2. /\ pc = "settle" /\ pc' = (IF Landed = Refs THEN "forget" ELSE "putBack") /\ stopRec # None
        /\ UNCHANGED <<docker, records, built, touched, hold, tagging, buildExit>>
      BY <1>7 DEF Settle, LandedOnServers, To
  <2>3. ~built
      BY <1>0, <2>2 DEF Course
  <2> QED
      BY <1>0, <2>1, <2>2, <2>3 DEF AtWork, Quiet, KeepsIt, Late
<1>8. CASE PutBack
    BY <1>0, <1>u, <1>8 DEF PutBack, To, End, Fresh, AtWork, Quiet, Remembers, KeepsIt, Late, None
<1>9. CASE Keep
  <2>1. /\ pc = "keep" /\ pc' \in {"keep", "prepare"}
        /\ UNCHANGED <<docker, records, built, touched, hold, tagging, buildExit>>
      BY <1>u, <1>9 DEF Keep, NextRef, To
  <2>2. ~hold => Quiet
      BY <1>0, <2>1 DEF Remembers, AtWork, Late
  <2> QED
      BY <1>0, <2>1, <2>2 DEF AtWork, Quiet, KeepsIt, Late
<1>10. CASE Prepare
  <2>1. CASE Usable
    <3>1. Quiet
        BY <1>0, <2>1 DEF Usable, AtWork
    <3>2. UNCHANGED docker /\ pc' = "use"
        BY <1>10, <2>1 DEF Prepare, To
    <3>3. Quiet'
        BY <3>1, <3>2 DEF Quiet
    <3> QED
        BY <1>0, <3>2, <3>3 DEF AtWork, Quiet
  <2>2. CASE ~Usable
    <3>1. /\ pc = "prepare" /\ pc' = "compile" /\ buildExit' = "cancelled" /\ keptRec' = NoRecord
          /\ last' = last + 1 /\ left' = [left EXCEPT ![last + 1] = NRefs]
          /\ UNCHANGED <<stopRec, made, built, touched, hold, tagging>>
        BY <1>10, <2>2 DEF Prepare, To
    <3>2. \A b \in Builds : b # last' => left'[b] = left[b]
        BY <1>0, <3>1 DEF DockerOK
    <3>3. \A b \in Builds : b > last' => left'[b] = 0 /\ made'[b] = None
        BY <1>0, <3>1, <3>2 DEF AtWork, DockerOK, Builds
    <3>4. ~hold => \A b \in Builds : left'[b] > 0 => b = last'
        BY <1>0, <3>1, <3>2 DEF AtWork, Late, KeepsIt
    <3>5. \A b, c \in Builds : left'[b] > 0 /\ left'[c] > 0 => b = c \/ last' \in {b, c}
        BY <1>0, <3>1, <3>2 DEF AtWork
    <3>6. ~touched' /\ ~tagging' /\ keptRec'.print = None
        BY <1>0, <3>1 DEF Remembers, NoRecord
    <3> QED
        BY <3>1, <3>3, <3>4, <3>5, <3>6 DEF AtWork, Late, KeepsIt
  <2> QED
      BY <2>1, <2>2
<1>11. CASE Use
    BY <1>0, <1>u, <1>11 DEF Use, To, Alone, AtWork, Quiet, Remembers, KeepsIt, Late, None
<1>12. CASE Compiled
  <2>1. Quiet
      BY <1>0, <1>12, CompiledIsDone DEF Compiled
  <2>2. UNCHANGED docker /\ pc' \in {"replace", "failed"}
      BY <1>12 DEF Compiled, To
  <2>3. Quiet'
      BY <2>1, <2>2 DEF Quiet
  <2> QED
      BY <1>0, <2>2, <2>3 DEF AtWork, Quiet
<1>13. CASE Replace
    BY <1>0, <1>u, <1>13 DEF Replace, To, AtWork, Quiet, Remembers, KeepsIt, Late, None
<1>14. CASE StartNew
    BY <1>0, <1>u, <1>14 DEF StartNew, Range, AtWork, Quiet, Remembers, KeepsIt, Late, None
<1>15. CASE Ready
    BY <1>0, <1>u, <1>15 DEF Ready, End, Fresh, AtWork, Quiet, Remembers, KeepsIt, Late, None
<1>16. CASE Failed
  <2>1. pc = "failed" /\ Late /\ UNCHANGED <<made, last, keptRec>>
      BY <1>16 DEF Failed, Late, KeepsIt
  <2>2. CASE Tagged(happened' = happened)
    <3>1. /\ pc' \in {"stopNew", "wait"} /\ PartOnly
          /\ UNCHANGED <<stopRec, touched, hold, tagging, buildExit>>
        BY <1>u, <1>16, <2>2 DEF Failed, To
    <3>2. \A b \in Builds : left'[b] = left[b] \/ left'[b] = 0
        BY <1>0, <3>1 DEF PartOnly, DockerOK
    <3>3. buildExit = "cancelled" => left'[last] = 0
        BY <1>0, <3>1 DEF PartOnly, DockerOK
    <3>4. ~hold => Quiet'
        BY <1>0, <2>1, <3>2, <3>3, Constants DEF AtWork, Quiet, DockerOK
    <3>5. touched \/ tagging \/ keptRec.print # None \/ buildExit = "ok" => Quiet'
        BY <1>0, <3>2 DEF AtWork, Quiet
    <3>6. \A b, c \in Builds : left'[b] > 0 /\ left'[c] > 0 => b = c
        BY <1>0, <2>1, <3>2 DEF AtWork
    <3>7. \A b \in Builds : b > last' => left'[b] = 0 /\ made'[b] = None
        BY <1>0, <2>1, <3>2 DEF AtWork
    <3> QED
        BY <2>1, <3>1, <3>4, <3>5, <3>6, <3>7 DEF AtWork, Quiet, Late, KeepsIt
  <2>3. CASE ~Tagged(happened' = happened)
    <3>1. End /\ NothingMoved /\ UNCHANGED left
        BY <1>16, <2>3 DEF Failed
    <3>2. stopRec' = None => buildExit # "cancelled" /\ stopRec = None
        BY <1>0, <3>1 DEF NothingMoved, Remembers
    <3>3. stopRec' = None => Quiet
        BY <1>0, <2>1, <3>2, QuietUnlessHeld, Constants DEF Quiet, DockerOK
    <3> QED
        BY <1>0, <2>1, <3>1, <3>3, OverAtWork DEF Quiet
  <2> QED
      BY <2>2, <2>3
<1>17. CASE StopNew
    BY <1>0, <1>u, <1>17
       DEF StopNew, To, End, Fresh, AtWork, Quiet, Remembers, KeepsIt, Late, None
<1>18. CASE WaitForDocker
  <2>1. pc = "wait" /\ Late /\ UNCHANGED <<docker, keptRec>>
      BY <1>18 DEF WaitForDocker, Late, KeepsIt
  <2>2. CASE End
    <3>1. UNCHANGED stopRec
        BY <1>18 DEF WaitForDocker
    <3> QED
        BY <1>0, <2>1, <2>2, <3>1, OverAtWork, QuietUnlessHeld DEF Quiet
  <2>3. CASE ~End
    <3>1. pc' \in {"name"} /\ UNCHANGED <<stopRec, built, touched, hold, tagging, buildExit>>
        BY <1>18, <2>1, <2>3 DEF WaitForDocker, To
    <3> QED
        BY <1>0, <2>1, <3>1 DEF AtWork, Quiet, Late, KeepsIt
  <2> QED
      BY <2>2, <2>3
<1>19. CASE NameNew
  <2>1. pc = "name" /\ Late /\ UNCHANGED <<docker, keptRec>>
      BY <1>19 DEF NameNew, Late, KeepsIt
  <2>2. CASE End
    <3>1. UNCHANGED stopRec
        BY <1>19 DEF NameNew
    <3> QED
        BY <1>0, <2>1, <2>2, <3>1, OverAtWork, QuietUnlessHeld DEF Quiet
  <2>3. CASE ~End
    <3>1. pc' \in {"name", "back"} /\ UNCHANGED <<stopRec, built, touched, hold, tagging, buildExit>>
        BY <1>19, <2>1, <2>3 DEF NameNew, NextRef, To
    <3> QED
        BY <1>0, <2>1, <3>1 DEF AtWork, Quiet, Late, KeepsIt
  <2> QED
      BY <2>2, <2>3
<1>20. CASE MoveBack
  <2>1. pc = "back" /\ Late /\ UNCHANGED <<docker, keptRec>>
      BY <1>20 DEF MoveBack, Late, KeepsIt
  <2>2. CASE End
    <3>1. UNCHANGED stopRec
        BY <1>20 DEF MoveBack
    <3> QED
        BY <1>0, <2>1, <2>2, <3>1, OverAtWork, QuietUnlessHeld DEF Quiet
  <2>3. CASE ~End
    <3>1. pc' \in {"back", "keepNew"} /\ UNCHANGED <<stopRec, built, touched, hold, tagging, buildExit>>
        BY <1>20, <2>1, <2>3 DEF MoveBack, NextRef, To
    <3> QED
        BY <1>0, <2>1, <3>1 DEF AtWork, Quiet, Late, KeepsIt
  <2> QED
      BY <2>2, <2>3
<1>21. CASE KeepNew
  <2>1. pc = "keepNew" /\ UNCHANGED <<docker, records, built, touched, hold, tagging, buildExit>>
      BY <1>21 DEF KeepNew
  <2>2. CASE pc' = "forget"
    <3>1. Quiet'
        BY <1>0, <1>21, <2>1, <2>2, NamedIsDone DEF KeepNew, To, Quiet
    <3> QED
        BY <1>0, <2>1, <2>2, <3>1 DEF AtWork, Quiet
  <2>3. CASE pc' = "drop"
      BY <1>0, <2>1, <2>3 DEF AtWork, Quiet, Late, KeepsIt
  <2> QED
      BY <1>21, <2>2, <2>3 DEF KeepNew, To
<1>22. CASE ForgetKept
    BY <1>0, <1>u, <1>22 DEF ForgetKept, To, AtWork, Quiet, Remembers, KeepsIt, Late, None
<1>23. CASE NameKept
    BY <1>0, <1>u, <1>23 DEF NameKept, To, AtWork, Quiet, Remembers, KeepsIt, Late, None
<1>24. CASE RecordKept
    BY <1>0, <1>u, <1>24 DEF RecordKept, To, AtWork, Quiet, Remembers, KeepsIt, Late, None
<1>25. CASE Drop
  <2>1. pc = "drop" /\ Late /\ UNCHANGED <<docker, keptRec>>
      BY <1>25 DEF Drop, Late, KeepsIt
  <2>2. CASE End
    <3>1. stopRec' = IF touched /\ hold THEN None ELSE stopRec
        BY <1>25, <2>2, <2>1 DEF Drop, To, End
    <3>2. stopRec' = None => Quiet
        BY <1>0, <2>1, <3>1, QuietUnlessHeld DEF AtWork
    <3> QED
        BY <1>0, <2>1, <2>2, <3>2, OverAtWork DEF Quiet
  <2>3. CASE ~End
    <3>1. pc' = "restart" /\ UNCHANGED <<stopRec, built, touched, hold, tagging, buildExit>>
        BY <1>25, <2>3 DEF Drop, To
    <3> QED
        BY <1>0, <2>1, <3>1 DEF AtWork, Quiet, Late, KeepsIt
  <2> QED
      BY <2>2, <2>3
<1>26. CASE Restart
    BY <1>0, <1>u, <1>26
       DEF Restart, LetGo, Range, End, Fresh, AtWork, Quiet, Remembers, KeepsIt, Late, None
<1>27. CASE StopBeforeTheBuild
    BY <1>0, <1>u, <1>27 DEF StopBeforeTheBuild, To, AtWork, Quiet, Remembers, KeepsIt, Late, None
<1>28. CASE CompileFails
  <2>1. /\ pc = "compile" /\ pc' = "failed" /\ buildExit' = "failed"
        /\ left' = [left EXCEPT ![last] = 0]
        /\ UNCHANGED <<made, last, records, built, touched, hold, tagging>>
      BY <1>28 DEF CompileFails, To
  <2>2. (\A b \in Builds : b # last => left'[b] = left[b]) /\ left'[last] = 0
      BY <1>0, <2>1 DEF DockerOK
  <2>3. ~hold => Quiet'
      BY <1>0, <2>1, <2>2, Constants DEF AtWork, Quiet, DockerOK, Late, KeepsIt
  <2>4. \A b, c \in Builds : left'[b] > 0 /\ left'[c] > 0 => b = c
      BY <1>0, <2>1, <2>2 DEF AtWork
  <2>5. \A b \in Builds : b > last' => left'[b] = 0 /\ made'[b] = None
      BY <1>0, <2>1, <2>2 DEF AtWork
  <2>6. ~built /\ ~touched /\ ~tagging /\ (keptRec.print # None => Quiet')
      BY <1>0, <2>1, <2>2 DEF Remembers, AtWork, Quiet
  <2> QED
      BY <2>1, <2>3, <2>4, <2>5, <2>6 DEF AtWork, Quiet, Late, KeepsIt
<1>29. CASE StopTheCompile
    BY <1>0, <1>u, <1>29 DEF StopTheCompile, To, AtWork, Quiet, Remembers, KeepsIt, Late, None
<1>30. CASE NotReady
    BY <1>0, <1>u, <1>30 DEF NotReady, To, AtWork, Quiet, Remembers, KeepsIt, Late, None
<1>31. CASE WalkOut
  <2>1. End /\ UNCHANGED <<made, last, keptRec>> /\ (pc # "compile" \/ ~hold)
      BY <1>31 DEF WalkOut
  <2>2. Late
      BY <1>31 DEF WalkOut, Late, KeepsIt
  <2>3. CASE Tagged(TRUE)
    <3>1. PartOnly /\ stopRec' = IF touched /\ hold THEN None ELSE stopRec
        BY <1>31, <2>3 DEF WalkOut
    <3>2. /\ \A b \in Builds : left'[b] = left[b] \/ left'[b] = 0
          /\ buildExit = "cancelled" => left'[last] = 0
        BY <1>0, <3>1 DEF PartOnly, DockerOK
    <3>3. stopRec' = None => Quiet'
      <4>1. CASE touched
          BY <1>0, <3>2, <4>1 DEF AtWork, Quiet
      <4>2. CASE ~touched
          BY <1>0, <2>2, <3>1, <3>2, <4>2, QuietUnlessHeld, Constants DEF Quiet, DockerOK
      <4> QED
          BY <4>1, <4>2
    <3> QED
        BY <1>0, <2>1, <3>2, <3>3, OverAtWork
  <2>4. CASE ~Tagged(TRUE)
    <3>1. NothingMoved /\ UNCHANGED left
        BY <1>31, <2>4 DEF WalkOut
    <3>2. stopRec' = None => buildExit # "cancelled" /\ stopRec = None
        BY <1>0, <3>1 DEF NothingMoved, Remembers
    <3>3. stopRec' = None => Quiet
        BY <1>0, <2>2, <3>2, QuietUnlessHeld, Constants DEF Quiet, DockerOK
    <3> QED
        BY <1>0, <2>1, <3>1, <3>3, OverAtWork DEF Quiet
  <2> QED
      BY <2>3, <2>4
<1>32. CASE Killed
    BY <1>0, <1>u, <1>32 DEF Killed, End, Fresh, AtWork, Quiet, Remembers, KeepsIt, Late, None
<1>33. CASE \E b \in Builds : ReadContext(b)
    BY <1>0, <1>u, <1>33 DEF ReadContext, AtWork, Quiet, Remembers, KeepsIt, Late, None
<1>34. CASE \E b \in Builds : Export(b)
    BY <1>0, <1>u, <1>34 DEF Export, AtWork, Quiet, Remembers, KeepsIt, Late, None
<1>35. CASE \E b \in Builds : Dies(b)
    BY <1>0, <1>u, <1>35 DEF Dies, AtWork, Quiet, Remembers, KeepsIt, Late, None
<1>36. CASE UNCHANGED vars
    BY <1>0, <1>u, <1>36 DEF vars, AtWork, Quiet, Remembers, KeepsIt, Late, None
<1>37. CASE SettleUnread
    BY <1>u, <1>37 DEF SettleUnread
<1> QED
    BY <1>1, <1>2, <1>3, <1>4, <1>5, <1>6, <1>7, <1>8, <1>9, <1>10, <1>11, <1>12, <1>13, <1>14,
       <1>15, <1>16, <1>17, <1>18, <1>19, <1>20, <1>21, <1>22, <1>23, <1>24, <1>25, <1>26, <1>27,
       <1>28, <1>29, <1>30, <1>31, <1>32, <1>33, <1>34, <1>35, <1>36, <1>37
       DEF Next, PressSteps, Docker

(* While a press puts a kept build on the live names, they name it up to where the press is. *)
LEMMA Using ==
    ASSUME Shape, Inv, Use, pc' # "failed"
    PROVE  /\ pc = "use" /\ Quiet /\ Uniform(parked) /\ UNCHANGED <<rollback, stopRec, hold>>
           /\ \A r \in Refs : live'[r] = IF r <= at THEN parked[r] ELSE rollback[r]
           /\ IF at < NRefs
              THEN pc' = "use" /\ at' = at + 1 /\ UNCHANGED <<parked, keptRec, left>>
              ELSE pc' = "replace" /\ Alone /\ \A r \in Refs : live'[r] = parked[r]
<1> USE DEF Shape, Typed, Inv
<1>1. pc = "use" /\ live' = [live EXCEPT ![at] = parked[at]] /\ UNCHANGED <<rollback, stopRec, hold>>
    BY DEF Use, To
<1>2. Quiet /\ Uniform(parked)
    BY <1>1 DEF Whole, AtWork, Kept
<1>3. \A r \in Refs : live'[r] = IF r <= at THEN parked[r] ELSE rollback[r]
    BY <1>1 DEF Moving, NamesOK, Images, PressOK, Refs
<1>4. IF at < NRefs
      THEN pc' = "use" /\ at' = at + 1 /\ UNCHANGED <<parked, keptRec, left>>
      ELSE pc' = "replace" /\ Alone
    BY DEF Use, To
<1>5. ~(at < NRefs) => \A r \in Refs : live'[r] = parked[r]
    BY <1>3, Constants DEF PressOK, Refs
<1> QED
    BY <1>1, <1>2, <1>3, <1>4, <1>5

(* A compile that was stopped has moved names of its own only, unless a record is held. *)
LEMMA StoppedIsTheGuest ==
    ASSUME Shape, Inv, pc = "compile", ~hold
    PROVE  \A r \in Refs : Guest(live, r) => live[r] = last /\ r <= NRefs - left[last]
    BY DEF Inv, Compiling

(* While a press keeps the names, the rollback is what the live names name, up to it. *)
LEMMA Keeping ==
    ASSUME Shape, Inv, Keep, ~Upset("keep")
    PROVE  /\ pc = "keep" /\ UNCHANGED <<live, failed, parked, records, docker, servers, memory>>
           /\ \A r \in Refs : r <= at => rollback'[r] = live[r]
           /\ stopRec # None => \A r \in Refs : rollback'[r] = live[r]
           /\ IF at < NRefs THEN pc' = "keep" /\ at' = at + 1
              ELSE pc' = "prepare" /\ \A r \in Refs : rollback'[r] = live[r]
<1> USE DEF Shape, Typed, Inv
<1>1. /\ pc = "keep" /\ UNCHANGED <<live, failed, parked, records, docker, servers, memory>>
      /\ rollback' = [rollback EXCEPT ![at] = live[at]]
    BY DEF Keep
<1>2. \A r \in Refs : r <= at => rollback'[r] = live[r]
    BY <1>1 DEF Moving, NamesOK, Images, PressOK, Refs
<1>3. stopRec # None => \A r \in Refs : rollback'[r] = live[r]
    BY <1>1 DEF Moving, NoGuest, NamesOK, Images, PressOK
<1>4. IF at < NRefs THEN pc' = "keep" /\ at' = at + 1 ELSE pc' = "prepare"
    BY <1>1 DEF Keep, NextRef, To
<1>5. ~(at < NRefs) => \A r \in Refs : r <= at
    BY Constants DEF PressOK, Refs
<1> QED
    BY <1>1, <1>2, <1>3, <1>4, <1>5

(* Every step keeps the guests to one build. *)
LEMMA GuestsStep == Shape /\ Inv /\ [Next]_vars /\ Orderly' => Guests'
<1> SUFFICES ASSUME Shape, Inv, [Next]_vars, Orderly' PROVE Guests'
    OBVIOUS
<1>0. Shape /\ Inv
    OBVIOUS
<1>u. /\ ~Upset("keep") /\ ~Upset("lateWalkout") /\ ~Upset("kill")
      /\ ~Upset("race") /\ ~Upset("partial") /\ ~Upset("second") /\ ~Upset("unread")
    BY OrderlyStep DEF Unrecorded
<1> USE DEF Shape, Typed, Inv, names, records, docker, servers, memory
<1>1. CASE Start
    BY <1>0, <1>u, <1>1
       DEF Start, StartAllowed, StoppedBuildRefuses, Range, Guests, OneGuest, Guest, Remembers,
           KeepsIt, Late, None
<1>2. CASE Stop
    BY <1>0, <1>u, <1>2 DEF Stop, Guests, OneGuest, Guest, Remembers, KeepsIt, Late, None
<1>3. CASE Edit
    BY <1>0, <1>u, <1>3 DEF Edit, Guests, OneGuest, Guest, Remembers, KeepsIt, Late, None
<1>4. CASE Press
    BY <1>0, <1>u, <1>4 DEF Press, To, Guests, OneGuest, Guest, Remembers, KeepsIt, Late, None
<1>5. CASE NothingLanded
    BY <1>0, <1>u, <1>5
       DEF NothingLanded, LandedOnServers, Landed, To, Guests, OneGuest, Guest, Remembers,
           KeepsIt, Late, None
<1>6. CASE SettleRefuses
    BY <1>0, <1>u, <1>6
       DEF SettleRefuses, LandedOnServers, Landed, End, Fresh, Guests, OneGuest, Guest,
           Remembers, KeepsIt, Late, None
<1>7. CASE Settle
    BY <1>0, <1>u, <1>7
       DEF Settle, LandedOnServers, Landed, To, Guests, OneGuest, Guest, Remembers, KeepsIt,
           Late, None
<1>8. CASE PutBack
  <2>1. pc = "putBack" /\ pc' # "compile" /\ stopRec # None /\ UNCHANGED <<rollback, records, docker>>
      BY <1>0, <1>8 DEF PutBack, To, End, Remembers
  <2>2. \A r \in Refs : live'[r] \in {live[r], rollback[r]}
      BY <1>0, <1>8 DEF PutBack, NamesOK, Images, PressOK
  <2>3. \A r \in Refs : Guest(live', r) => Guest(live, r) /\ live'[r] = live[r]
      BY <2>2 DEF Guest
  <2>4. \A r \in Refs : Guest(live, r)' => Guest(live, r) /\ live'[r] = live[r]
      BY <2>1, <2>3 DEF Guest
  <2> QED
      BY <1>0, <2>1, <2>4 DEF Guests, OneGuest
<1>9. CASE Keep
  <2>1. pc' # "compile" /\ UNCHANGED <<live, records, docker>>
      BY <1>0, <1>u, <1>9, Keeping
  <2>2. stopRec' # None \/ Late' => \A r \in Refs : live'[r] = rollback'[r]
      BY <1>0, <1>u, <1>9, Keeping DEF Late
  <2>3. stopRec' # None => Full(rollback)'
      BY <1>0, <2>1, <2>2 DEF Whole, Full
  <2> QED
      BY <2>2, <2>3 DEF Guests, OneGuest, Guest
<1>10. CASE Prepare
  <2>1. pc = "prepare" /\ UNCHANGED <<live, rollback, stopRec>>
      BY <1>10 DEF Prepare
  <2>2. CASE Usable
    <3>1. UNCHANGED docker /\ pc' = "use"
        BY <1>10, <2>2 DEF Prepare, To
    <3> QED
        BY <1>0, <2>1, <3>1 DEF Guests, OneGuest, Guest, Late, KeepsIt
  <2>3. CASE ~Usable
    <3>1. /\ pc' = "compile" /\ last' = last + 1 /\ left' = [left EXCEPT ![last + 1] = NRefs]
        BY <1>10, <2>3 DEF Prepare, To
    <3>2. \A b \in Builds : b # last' => left'[b] = left[b]
        BY <1>0, <3>1 DEF DockerOK
    <3> QED
        BY <1>0, <2>1, <3>1, <3>2 DEF Guests, Guest, Late, KeepsIt
  <2> QED
      BY <2>2, <2>3
<1>11. CASE Use
  <2>1. pc = "use" /\ pc' # "compile" /\ UNCHANGED <<rollback, stopRec>>
      BY <1>11 DEF Use, To
  <2>2. \A b \in Builds : left'[b] = 0
      BY <1>0, <1>11 DEF Use, Alone, Whole, AtWork, Quiet
  <2>3. OneGuest'
    <3>1. CASE pc' = "failed"
        BY <1>0, <2>1, <1>11, <3>1 DEF Use, To, Guests, OneGuest, Guest, Late, KeepsIt
    <3>2. CASE pc' # "failed"
        BY <1>0, <2>1, <1>11, <3>2, Using DEF OneGuest, Guest, Uniform
    <3> QED
        BY <3>1, <3>2
  <2> QED
      BY <1>0, <2>1, <2>2, <2>3, Constants DEF Guests, Late, KeepsIt
<1>12. CASE Compiled
  <2>1. /\ pc = "compile" /\ Quiet /\ \A r \in Refs : live[r] = last
      BY <1>0, <1>12, CompiledIsDone DEF Compiled
  <2>2. UNCHANGED <<live, rollback, stopRec, left>> /\ pc' \in {"replace", "failed"}
      BY <1>12 DEF Compiled, To
  <2>3. OneGuest' /\ \A b \in Builds : left'[b] = 0
      BY <2>1, <2>2 DEF OneGuest, Guest, Quiet
  <2> QED
      BY <1>0, <2>1, <2>2, <2>3, Constants DEF Guests, Late, KeepsIt
<1>13. CASE Replace
    BY <1>0, <1>u, <1>13 DEF Replace, To, Guests, OneGuest, Guest, Remembers, KeepsIt, Late, None
<1>14. CASE StartNew
    BY <1>0, <1>u, <1>14
       DEF StartNew, Range, Guests, OneGuest, Guest, Remembers, KeepsIt, Late, None
<1>15. CASE Ready
    BY <1>0, <1>u, <1>15
       DEF Ready, End, Fresh, Guests, OneGuest, Guest, Remembers, KeepsIt, Late, None
<1>16. CASE Failed
  <2>1. /\ pc = "failed" /\ pc' # "compile" /\ UNCHANGED live
        /\ OneGuest /\ Full(rollback)
      BY <1>0, <1>16 DEF Failed, To, End, Guests, Whole, Late, KeepsIt
  <2>2. \A b \in Builds : left'[b] = left[b] \/ left'[b] = 0
      BY <1>0, <1>16 DEF Failed, PartOnly, DockerOK
  <2>3. stopRec' # None \/ Late' => UNCHANGED rollback
    <3>1. CASE Tagged(happened' = happened)
        BY <1>16, <3>1 DEF Failed
    <3>2. CASE ~Tagged(happened' = happened)
        BY <1>0, <2>1, <1>16, <3>2 DEF Failed, NothingMoved, End, Remembers, Late, KeepsIt
    <3> QED
        BY <3>1, <3>2
  <2>4. \A b \in Builds : left[b] > 0 =>
            \A r \in Refs : Guest(live, r) => live[r] = b /\ r <= NRefs - left[b]
      BY <1>0, <2>1 DEF Guests, Late, KeepsIt
  <2> QED
      BY <2>1, <2>2, <2>3, <2>4, Constants DEF Guests, OneGuest, Guest
<1>17. CASE StopNew
    BY <1>0, <1>u, <1>17
       DEF StopNew, To, End, Fresh, Guests, OneGuest, Guest, Remembers, KeepsIt, Late, None
<1>18. CASE WaitForDocker
    BY <1>0, <1>u, <1>18
       DEF WaitForDocker, To, End, Fresh, Guests, OneGuest, Guest, Remembers, KeepsIt, Late, None
<1>19. CASE NameNew
    BY <1>0, <1>u, <1>19
       DEF NameNew, NotPutBack, NextRef, To, End, Fresh, Guests, OneGuest, Guest, Remembers,
           KeepsIt, Late, None
<1>20. CASE MoveBack
  <2>1. /\ pc = "back" /\ pc' # "compile" /\ UNCHANGED <<rollback, stopRec, docker>>
        /\ Full(rollback) /\ OneGuest
      BY <1>0, <1>20 DEF MoveBack, NextRef, To, End, Guests, Whole, Late, KeepsIt
  <2>2. \A r \in Refs : live'[r] \in {live[r], rollback[r], failed[r]}
      BY <1>0, <1>20 DEF MoveBack, NamesOK, Images, PressOK
  <2>3. \A r \in Refs : Guest(live, r)' =>
            \/ Guest(live, r) /\ live'[r] = live[r]
            \/ Guest(failed, r) /\ live'[r] = failed[r]
      BY <2>1, <2>2 DEF Guest
  <2>4. \A r, s \in Refs : Guest(failed, r) =>
            /\ Guest(failed, s) => failed[r] = failed[s]
            /\ Guest(live, s) => failed[r] = live[s]
      BY <1>0, <2>1 DEF Copies, Copied
  <2>5. OneGuest'
      BY <2>1, <2>3, <2>4 DEF OneGuest
  <2>6. \A b \in Builds : left[b] > 0 => \A r \in Refs :
            /\ Guest(live, r) => live[r] = b /\ r <= NRefs - left[b]
            /\ Guest(failed, r) => failed[r] = b /\ r <= NRefs - left[b]
      BY <1>0, <2>1 DEF Guests, Copies, Copied, Late, KeepsIt
  <2> QED
      BY <2>1, <2>3, <2>5, <2>6 DEF Guests
<1>21. CASE KeepNew
    BY <1>0, <1>u, <1>21
       DEF KeepNew, WorthKeeping, To, Guests, OneGuest, Guest, Remembers, KeepsIt, Late, None
<1>22. CASE ForgetKept
    BY <1>0, <1>u, <1>22
       DEF ForgetKept, To, Guests, OneGuest, Guest, Remembers, KeepsIt, Late, None
<1>23. CASE NameKept
    BY <1>0, <1>u, <1>23 DEF NameKept, To, Guests, OneGuest, Guest, Remembers, KeepsIt, Late, None
<1>24. CASE RecordKept
    BY <1>0, <1>u, <1>24
       DEF RecordKept, To, Guests, OneGuest, Guest, Remembers, KeepsIt, Late, None
<1>25. CASE Drop
    BY <1>0, <1>u, <1>25
       DEF Drop, LetGo, To, StartAllowed, StoppedBuildRefuses, End, Fresh, Guests, OneGuest,
           Guest, Remembers, KeepsIt, Late, None
<1>26. CASE Restart
    BY <1>0, <1>u, <1>26
       DEF Restart, LetGo, Range, End, Fresh, Guests, OneGuest, Guest, Remembers, KeepsIt, Late,
           None
<1>27. CASE StopBeforeTheBuild
    BY <1>0, <1>u, <1>27
       DEF StopBeforeTheBuild, To, Guests, OneGuest, Guest, Remembers, KeepsIt, Late, None
<1>28. CASE CompileFails
  <2>1. /\ pc = "compile" /\ left[last] = NRefs /\ pc' = "failed"
        /\ left' = [left EXCEPT ![last] = 0] /\ UNCHANGED <<live, rollback, stopRec, last>>
      BY <1>28 DEF CompileFails, To
  <2>2. (\A b \in Builds : b # last => left'[b] = left[b]) /\ left'[last] = 0
      BY <1>0, <2>1 DEF DockerOK
  <2>3. OneGuest
      BY <1>0, <2>1 DEF Compiling
  <2> QED
      BY <1>0, <2>1, <2>2, <2>3, Constants DEF Guests, OneGuest, Guest, Late, KeepsIt
<1>29. CASE StopTheCompile
  <2>1. /\ pc = "compile" /\ ~hold /\ pc' = "failed" /\ UNCHANGED <<live, rollback, stopRec, docker>>
      BY <1>u, <1>29 DEF StopTheCompile, To
  <2>2. \A r \in Refs : Guest(live, r) => live[r] = last /\ r <= NRefs - left[last]
      BY <1>0, <2>1, StoppedIsTheGuest
  <2>3. \A b \in Builds : left[b] > 0 => b = last
      BY <1>0, <2>1 DEF AtWork, Late, KeepsIt
  <2> QED
      BY <1>0, <2>1, <2>2, <2>3 DEF Guests, OneGuest, Guest, Late, KeepsIt
<1>30. CASE NotReady
    BY <1>0, <1>u, <1>30 DEF NotReady, To, Guests, OneGuest, Guest, Remembers, KeepsIt, Late, None
<1>31. CASE WalkOut
  <2>1. /\ ~Late' /\ pc' # "compile" /\ Late /\ UNCHANGED live /\ (pc # "compile" \/ ~hold)
      BY <1>31 DEF WalkOut, End, Late, KeepsIt
  <2>2. Full(rollback)
      BY <1>0, <2>1 DEF Whole
  <2>3. CASE Tagged(TRUE)
    <3>1. UNCHANGED rollback /\ stopRec' = (IF touched /\ hold THEN None ELSE stopRec) /\ PartOnly
        BY <1>31, <2>3 DEF WalkOut
    <3>2. \A b \in Builds : left'[b] = left[b] \/ left'[b] = 0
        BY <1>0, <3>1 DEF PartOnly, DockerOK
    <3>3. stopRec' # None => stopRec # None /\ pc # "compile"
        BY <1>0, <2>1, <3>1 DEF Remembers
    <3> QED
        BY <1>0, <2>1, <2>2, <3>1, <3>2, <3>3, Constants DEF Guests, OneGuest, Guest
  <2>4. CASE ~Tagged(TRUE)
    <3>1. NothingMoved /\ live = rollback
        BY <1>31, <2>4 DEF WalkOut, Tagged, Moved
    <3>2. stopRec' # None => UNCHANGED rollback
        BY <1>0, <2>1, <3>1 DEF NothingMoved, Remembers
    <3> QED
        BY <2>1, <2>2, <3>1, <3>2 DEF Guests, OneGuest, Guest
  <2> QED
      BY <2>3, <2>4
<1>32. CASE Killed
    BY <1>0, <1>u, <1>32
       DEF Killed, End, Fresh, Guests, OneGuest, Guest, Remembers, KeepsIt, Late, None
<1>33. CASE \E b \in Builds : ReadContext(b)
    BY <1>0, <1>u, <1>33 DEF ReadContext, Guests, OneGuest, Guest, Remembers, KeepsIt, Late, None
<1>34. CASE \E b \in Builds : Export(b)
  <2> SUFFICES ASSUME NEW b \in Builds, Export(b) PROVE Guests'
      BY <1>34
  <2> DEFINE i == NRefs - left[b] + 1
  <2>1. /\ i \in Refs /\ live'[i] = b /\ \A r \in Refs : r # i => live'[r] = live[r]
        /\ left'[b] = left[b] - 1 /\ \A c \in Builds : c # b => left'[c] = left[c]
        /\ left[b] > 0 /\ left[b] \in 0 .. NRefs /\ \A c \in Builds : c < b => left[c] = 0
        /\ UNCHANGED <<rollback, stopRec, last, pc, built>>
      BY <1>0, Exported
  <2> HIDE DEF i
  <2>2. Late' = Late
      BY <2>1 DEF Late, KeepsIt
  <2>3. \A c \in Builds : left'[c] > 0 /\ ~(pc = "compile" /\ c = last) => c = b
    <3>1. \A c \in Builds : left'[c] > 0 => left[c] > 0
        BY <2>1
    <3>2. CASE pc = "compile" /\ b = last
      <4>1. \A c \in Builds : c > last => left[c] = 0
          BY <1>0 DEF AtWork
      <4>2. \A c \in Builds : c < last \/ c = last \/ c > last
          BY <1>0 DEF DockerOK, Builds
      <4> QED
          BY <2>1, <3>1, <3>2, <4>1, <4>2, Constants
    <3>3. CASE ~(pc = "compile" /\ b = last)
        BY <1>0, <2>1, <3>1, <3>3 DEF AtWork
    <3> QED
        BY <3>2, <3>3
  <2>4. CASE ~(pc = "compile" /\ b = last) /\ (stopRec # None \/ Late)
    <3>1. \A r \in Refs : Guest(live, r) => live[r] = b /\ r <= NRefs - left[b]
        BY <1>0, <2>1, <2>4 DEF Guests
    <3>2. \A r \in Refs : Guest(live, r)' => live'[r] = b /\ r <= NRefs - left'[b]
      <4>1. NRefs - left'[b] = i
          BY <2>1, Constants DEF i
      <4>2. \A r \in Refs : r <= NRefs - left[b] => r <= i
          BY <2>1, Constants DEF i, Refs
      <4>3. i <= i
          BY <2>1 DEF Refs
      <4> QED
          BY <2>1, <3>1, <4>1, <4>2, <4>3 DEF Guest
    <3> QED
        BY <1>0, <2>1, <2>2, <2>3, <3>2 DEF Guests, OneGuest
  <2>5. CASE pc = "compile" /\ b = last
      BY <1>0, <2>1, <2>2, <2>3, <2>5 DEF Guests
  <2>6. CASE ~(stopRec # None \/ Late)
      BY <1>0, <2>1, <2>2, <2>6 DEF Guests
  <2> QED
      BY <2>4, <2>5, <2>6
<1>35. CASE \E b \in Builds : Dies(b)
    BY <1>0, <1>u, <1>35 DEF Dies, Guests, OneGuest, Guest, Remembers, KeepsIt, Late, None
<1>36. CASE UNCHANGED vars
    BY <1>0, <1>u, <1>36 DEF vars, Guests, OneGuest, Guest, Remembers, KeepsIt, Late, None
<1>37. CASE SettleUnread
    BY <1>u, <1>37 DEF SettleUnread
<1> QED
    BY <1>1, <1>2, <1>3, <1>4, <1>5, <1>6, <1>7, <1>8, <1>9, <1>10, <1>11, <1>12, <1>13, <1>14,
       <1>15, <1>16, <1>17, <1>18, <1>19, <1>20, <1>21, <1>22, <1>23, <1>24, <1>25, <1>26, <1>27,
       <1>28, <1>29, <1>30, <1>31, <1>32, <1>33, <1>34, <1>35, <1>36, <1>37
       DEF Next, PressSteps, Docker

(* Every step keeps the order in which a compile moves the names. *)
LEMMA CompilingStep == Shape /\ Inv /\ [Next]_vars /\ Orderly' => Compiling'
<1> SUFFICES ASSUME Shape, Inv, [Next]_vars, Orderly' PROVE Compiling'
    OBVIOUS
<1>0. Shape /\ Inv
    OBVIOUS
<1>u. /\ ~Upset("keep") /\ ~Upset("lateWalkout") /\ ~Upset("kill")
      /\ ~Upset("race") /\ ~Upset("partial") /\ ~Upset("second") /\ ~Upset("unread")
    BY OrderlyStep DEF Unrecorded
<1> USE DEF Shape, Typed, Inv, names, records, docker, servers, memory
<1>1. CASE Start
    BY <1>0, <1>u, <1>1
       DEF Start, StartAllowed, StoppedBuildRefuses, Range, Compiling, Guests, OneGuest, Guest,
           AtWork, Remembers, KeepsIt, Late, None
<1>2. CASE Stop
    BY <1>0, <1>u, <1>2
       DEF Stop, Compiling, Guests, OneGuest, Guest, AtWork, Remembers, KeepsIt, Late, None
<1>3. CASE Edit
    BY <1>0, <1>u, <1>3
       DEF Edit, Compiling, Guests, OneGuest, Guest, AtWork, Remembers, KeepsIt, Late, None
<1>4. CASE Press
    BY <1>0, <1>u, <1>4
       DEF Press, To, Compiling, Guests, OneGuest, Guest, AtWork, Remembers, KeepsIt, Late, None
<1>5. CASE NothingLanded
    BY <1>0, <1>u, <1>5
       DEF NothingLanded, LandedOnServers, Landed, To, Compiling, Guests, OneGuest, Guest,
           AtWork, Remembers, KeepsIt, Late, None
<1>6. CASE SettleRefuses
    BY <1>0, <1>u, <1>6
       DEF SettleRefuses, LandedOnServers, Landed, End, Fresh, Compiling, Guests, OneGuest,
           Guest, AtWork, Remembers, KeepsIt, Late, None
<1>7. CASE Settle
    BY <1>0, <1>u, <1>7
       DEF Settle, LandedOnServers, Landed, To, Compiling, Guests, OneGuest, Guest, AtWork,
           Remembers, KeepsIt, Late, None
<1>8. CASE PutBack
    BY <1>0, <1>u, <1>8
       DEF PutBack, To, End, Fresh, Compiling, Guests, OneGuest, Guest, AtWork, Remembers,
           KeepsIt, Late, None
<1>9. CASE Keep
    BY <1>0, <1>u, <1>9
       DEF Keep, NextRef, To, End, Fresh, Compiling, Guests, OneGuest, Guest, AtWork, Remembers,
           KeepsIt, Late, None
<1>10. CASE Prepare
  <2>1. CASE Usable
      BY <1>10, <2>1 DEF Prepare, To, Compiling
  <2>2. CASE ~Usable
    <3>1. /\ pc = "prepare" /\ last' = last + 1 /\ left' = [left EXCEPT ![last + 1] = NRefs]
          /\ UNCHANGED <<live, rollback, hold>>
        BY <1>10, <2>2 DEF Prepare
    <3>2. left'[last'] = NRefs
      <4>1. last + 1 \in Builds
          BY <1>0, <3>1, Constants DEF Course, DockerOK, Builds
      <4> QED
          BY <1>0, <3>1, <4>1 DEF DockerOK
    <3>3. OneGuest'
        BY <1>0, <3>1 DEF Guests, OneGuest, Guest, Late, KeepsIt
    <3>4. ~hold => \A r \in Refs : ~Guest(live, r)'
        BY <1>0, <3>1 DEF Moving, NoGuest, Guest
    <3>5. \A r \in Refs : ~(r <= NRefs - NRefs)
        BY Constants DEF Refs
    <3> QED
        BY <3>1, <3>2, <3>3, <3>4, <3>5, Constants DEF Compiling
  <2> QED
      BY <2>1, <2>2
<1>11. CASE Use
    BY <1>0, <1>u, <1>11
       DEF Use, To, Alone, Compiling, Guests, OneGuest, Guest, AtWork, Remembers, KeepsIt, Late,
           None
<1>12. CASE Compiled
    BY <1>0, <1>u, <1>12
       DEF Compiled, To, Compiling, Guests, OneGuest, Guest, AtWork, Remembers, KeepsIt, Late,
           None
<1>13. CASE Replace
    BY <1>0, <1>u, <1>13
       DEF Replace, To, Compiling, Guests, OneGuest, Guest, AtWork, Remembers, KeepsIt, Late,
           None
<1>14. CASE StartNew
    BY <1>0, <1>u, <1>14
       DEF StartNew, Range, Compiling, Guests, OneGuest, Guest, AtWork, Remembers, KeepsIt, Late,
           None
<1>15. CASE Ready
    BY <1>0, <1>u, <1>15
       DEF Ready, End, Fresh, Compiling, Guests, OneGuest, Guest, AtWork, Remembers, KeepsIt,
           Late, None
<1>16. CASE Failed
    BY <1>0, <1>u, <1>16
       DEF Failed, AsksDocker, Tagged, MayHaveTagged, NothingMoved, PartOnly, To, End, Fresh,
           Compiling, Guests, OneGuest, Guest, AtWork, Remembers, KeepsIt, Late, None
<1>17. CASE StopNew
    BY <1>0, <1>u, <1>17
       DEF StopNew, To, End, Fresh, Compiling, Guests, OneGuest, Guest, AtWork, Remembers,
           KeepsIt, Late, None
<1>18. CASE WaitForDocker
    BY <1>0, <1>u, <1>18
       DEF WaitForDocker, To, End, Fresh, Compiling, Guests, OneGuest, Guest, AtWork, Remembers,
           KeepsIt, Late, None
<1>19. CASE NameNew
    BY <1>0, <1>u, <1>19
       DEF NameNew, NotPutBack, NextRef, To, End, Fresh, Compiling, Guests, OneGuest, Guest,
           AtWork, Remembers, KeepsIt, Late, None
<1>20. CASE MoveBack
    BY <1>0, <1>u, <1>20
       DEF MoveBack, NotPutBack, NextRef, To, End, Fresh, Compiling, Guests, OneGuest, Guest,
           AtWork, Remembers, KeepsIt, Late, None
<1>21. CASE KeepNew
    BY <1>0, <1>u, <1>21
       DEF KeepNew, WorthKeeping, To, Compiling, Guests, OneGuest, Guest, AtWork, Remembers,
           KeepsIt, Late, None
<1>22. CASE ForgetKept
    BY <1>0, <1>u, <1>22
       DEF ForgetKept, To, Compiling, Guests, OneGuest, Guest, AtWork, Remembers, KeepsIt, Late,
           None
<1>23. CASE NameKept
    BY <1>0, <1>u, <1>23
       DEF NameKept, To, Compiling, Guests, OneGuest, Guest, AtWork, Remembers, KeepsIt, Late,
           None
<1>24. CASE RecordKept
    BY <1>0, <1>u, <1>24
       DEF RecordKept, To, Compiling, Guests, OneGuest, Guest, AtWork, Remembers, KeepsIt, Late,
           None
<1>25. CASE Drop
    BY <1>0, <1>u, <1>25
       DEF Drop, LetGo, To, StartAllowed, StoppedBuildRefuses, End, Fresh, Compiling, Guests,
           OneGuest, Guest, AtWork, Remembers, KeepsIt, Late, None
<1>26. CASE Restart
    BY <1>0, <1>u, <1>26
       DEF Restart, LetGo, Range, End, Fresh, Compiling, Guests, OneGuest, Guest, AtWork,
           Remembers, KeepsIt, Late, None
<1>27. CASE StopBeforeTheBuild
    BY <1>0, <1>u, <1>27
       DEF StopBeforeTheBuild, To, Compiling, Guests, OneGuest, Guest, AtWork, Remembers,
           KeepsIt, Late, None
<1>28. CASE CompileFails
    BY <1>0, <1>u, <1>28
       DEF CompileFails, To, Compiling, Guests, OneGuest, Guest, AtWork, Remembers, KeepsIt,
           Late, None
<1>29. CASE StopTheCompile
    BY <1>0, <1>u, <1>29
       DEF StopTheCompile, To, Compiling, Guests, OneGuest, Guest, AtWork, Remembers, KeepsIt,
           Late, None
<1>30. CASE NotReady
    BY <1>0, <1>u, <1>30
       DEF NotReady, To, Compiling, Guests, OneGuest, Guest, AtWork, Remembers, KeepsIt, Late,
           None
<1>31. CASE WalkOut
    BY <1>0, <1>u, <1>31
       DEF WalkOut, Tagged, MayHaveTagged, NothingMoved, PartOnly, End, Fresh, Compiling, Guests,
           OneGuest, Guest, AtWork, Remembers, KeepsIt, Late, None
<1>32. CASE Killed
    BY <1>0, <1>u, <1>32
       DEF Killed, End, Fresh, Compiling, Guests, OneGuest, Guest, AtWork, Remembers, KeepsIt,
           Late, None
<1>33. CASE \E b \in Builds : ReadContext(b)
    BY <1>0, <1>u, <1>33
       DEF ReadContext, Compiling, Guests, OneGuest, Guest, AtWork, Remembers, KeepsIt, Late,
           None
<1>34. CASE \E b \in Builds : Export(b)
  <2> SUFFICES ASSUME NEW b \in Builds, Export(b), pc = "compile" PROVE Compiling'
    <3>1. ASSUME NEW b \in Builds, Export(b) PROVE UNCHANGED pc
        BY <3>1 DEF Export
    <3> QED
        BY <1>34, <3>1 DEF Compiling
  <2> DEFINE i == NRefs - left[b] + 1
  <2>1. /\ i \in Refs /\ live'[i] = b /\ \A r \in Refs : r # i => live'[r] = live[r]
        /\ left'[b] = left[b] - 1 /\ \A c \in Builds : c # b => left'[c] = left[c]
        /\ left[b] > 0 /\ left[b] \in 0 .. NRefs /\ \A c \in Builds : c < b => left[c] = 0
        /\ UNCHANGED <<rollback, last, pc, hold>>
      BY <1>0, Exported
  <2>2. \A r \in Refs : r <= i <=> r = i \/ r <= NRefs - left[b]
      BY <2>1, Constants DEF Refs
  <2>3. NRefs - left'[b] = i /\ left'[b] < NRefs
      BY <2>1, Constants
  <2> HIDE DEF i
  <2>4. CASE b = last
    <3>1. \A r \in Refs : r <= i => live'[r] = last
        BY <1>0, <2>1, <2>2, <2>4 DEF Compiling
    <3>2. \A r \in Refs : Guest(live, r)' /\ ~hold => r <= i
        BY <1>0, <2>1, <2>2, <2>4 DEF Compiling, Guest
    <3>3. \A c \in Builds : c < last => left'[c] = 0
        BY <2>1, <2>4, <1>0, Constants DEF DockerOK, Builds
    <3> QED
        BY <2>1, <2>3, <2>4, <3>1, <3>2, <3>3 DEF Compiling
  <2>5. CASE b # last
    <3>1. b < last
        BY <1>0, <2>1, <2>5, Constants DEF AtWork, DockerOK, Builds
    <3>2. left[last] \in 0 .. NRefs /\ ~(left[last] < NRefs)
        BY <1>0, <2>1, <3>1, Constants DEF Compiling, DockerOK
    <3>3. left'[last'] = NRefs /\ left[last] = NRefs
        BY <2>1, <2>5, <3>2, Constants, <1>0 DEF DockerOK
    <3>4. hold
        BY <1>0, <2>1, <2>5 DEF AtWork, Late, KeepsIt
    <3>5. \A r \in Refs : Guest(live, r) => live[r] = b
        BY <1>0, <2>1, <2>5, <3>4 DEF Guests, Late, KeepsIt
    <3>6. OneGuest'
        BY <2>1, <3>5 DEF OneGuest, Guest
    <3>7. \A r \in Refs : ~(r <= NRefs - NRefs)
        BY Constants DEF Refs
    <3> QED
        BY <2>1, <3>3, <3>4, <3>6, <3>7, Constants DEF Compiling
  <2> QED
      BY <2>4, <2>5
<1>35. CASE \E b \in Builds : Dies(b)
    BY <1>0, <1>u, <1>35
       DEF Dies, Compiling, Guests, OneGuest, Guest, AtWork, Remembers, KeepsIt, Late, None
<1>36. CASE UNCHANGED vars
    BY <1>0, <1>u, <1>36
       DEF vars, Compiling, Guests, OneGuest, Guest, AtWork, Remembers, KeepsIt, Late, None
<1>37. CASE SettleUnread
    BY <1>u, <1>37 DEF SettleUnread
<1> QED
    BY <1>1, <1>2, <1>3, <1>4, <1>5, <1>6, <1>7, <1>8, <1>9, <1>10, <1>11, <1>12, <1>13, <1>14,
       <1>15, <1>16, <1>17, <1>18, <1>19, <1>20, <1>21, <1>22, <1>23, <1>24, <1>25, <1>26, <1>27,
       <1>28, <1>29, <1>30, <1>31, <1>32, <1>33, <1>34, <1>35, <1>36, <1>37
       DEF Next, PressSteps, Docker

(* While a press moves the names back, they name the rollback up to where the press is. *)
LEMMA MovingBack ==
    ASSUME Shape, Inv, MoveBack, ~End
    PROVE  /\ pc = "back" /\ UNCHANGED <<rollback, failed, parked, records, docker, servers, memory>>
           /\ live'[at] = rollback[at] /\ \A r \in Refs : r # at => live'[r] = live[r]
           /\ \/ at < NRefs /\ pc' = "back" /\ at' = at + 1
              \/ ~(at < NRefs) /\ pc' = "keepNew" /\ \A r \in Refs : r <= at
           /\ touched \/ ~hold => \A r \in Refs : r <= at => live'[r] = rollback[r]
<1> USE DEF Shape, Typed, Inv
<1>1. /\ pc = "back" /\ UNCHANGED <<rollback, failed, parked, records, docker, servers, memory>>
      /\ live' = [live EXCEPT ![at] = rollback[at]]
    BY DEF MoveBack, records, servers
<1>2. live'[at] = rollback[at] /\ \A r \in Refs : r # at => live'[r] = live[r]
    BY <1>1 DEF NamesOK, Images, PressOK
<1>3. \/ at < NRefs /\ pc' = "back" /\ at' = at + 1
      \/ ~(at < NRefs) /\ pc' = "keepNew"
    BY DEF MoveBack, NextRef, To
<1>4. ~(at < NRefs) => \A r \in Refs : r <= at
    BY Constants DEF PressOK, Refs
<1>5. touched \/ ~hold => \A r \in Refs : r < at => live[r] = rollback[r]
    BY <1>1 DEF Copies
<1>6. \A r \in Refs : r <= at => r = at \/ (r # at /\ r < at)
    BY DEF PressOK, Refs
<1> QED
    BY <1>1, <1>2, <1>3, <1>4, <1>5, <1>6

(* Every step moves the names from one build to another. *)
LEMMA MovingStep == Shape /\ Inv /\ [Next]_vars /\ Orderly' => Moving'
<1> SUFFICES ASSUME Shape, Inv, [Next]_vars, Orderly' PROVE Moving'
    OBVIOUS
<1>0. Shape /\ Inv
    OBVIOUS
<1>u. /\ ~Upset("keep") /\ ~Upset("lateWalkout") /\ ~Upset("kill")
      /\ ~Upset("race") /\ ~Upset("partial") /\ ~Upset("second") /\ ~Upset("unread")
    BY OrderlyStep DEF Unrecorded
<1> USE DEF Shape, Typed, Inv, names, records, docker, servers, memory
<1>1. CASE Start
    BY <1>0, <1>u, <1>1
       DEF Start, StartAllowed, StoppedBuildRefuses, Range, Moving, Compiling, Guests, OneGuest,
           NoGuest, Guest, Uniform, AtWork, Remembers, KeepsIt, Late, None
<1>2. CASE Stop
    BY <1>0, <1>u, <1>2
       DEF Stop, Moving, Compiling, Guests, OneGuest, NoGuest, Guest, Uniform, AtWork, Remembers,
           KeepsIt, Late, None
<1>3. CASE Edit
    BY <1>0, <1>u, <1>3
       DEF Edit, Moving, Compiling, Guests, OneGuest, NoGuest, Guest, Uniform, AtWork, Remembers,
           KeepsIt, Late, None
<1>4. CASE Press
    BY <1>0, <1>u, <1>4
       DEF Press, To, Moving, Compiling, Guests, OneGuest, NoGuest, Guest, Uniform, AtWork,
           Remembers, KeepsIt, Late, None
<1>5. CASE NothingLanded
  <2>1. /\ pc' = "keep" /\ at' = 1 /\ UNCHANGED <<live, rollback, stopRec>>
        /\ stopRec # None => Landed = {}
      BY <1>5 DEF NothingLanded, LandedOnServers, To
  <2>2. stopRec # None => \A r \in Refs : ~Guest(live, r)
      BY <1>0, <2>1, LandedAreGuests DEF Guests
  <2>3. \A r \in Refs : ~(r < 1)
      BY Constants DEF Refs
  <2> QED
      BY <2>1, <2>2, <2>3 DEF Moving, NoGuest, Guest, KeepsIt
<1>6. CASE SettleRefuses
    BY <1>0, <1>u, <1>6
       DEF SettleRefuses, LandedOnServers, Landed, End, Fresh, Moving, Compiling, Guests,
           OneGuest, NoGuest, Guest, Uniform, AtWork, Remembers, KeepsIt, Late, None
<1>7. CASE Settle
  <2>1. /\ stopRec # None /\ at' = 1 /\ pc' = (IF Landed = Refs THEN "forget" ELSE "putBack")
        /\ seen' = [r \in Refs |-> IF r \in Landed THEN live[r] ELSE None]
        /\ UNCHANGED <<live, rollback>>
      BY <1>7 DEF Settle, LandedOnServers, To
  <2>2. \A r \in Refs : r \in Landed <=> Guest(live, r)
      BY <1>0, <2>1, LandedAreGuests DEF Guests
  <2>3. \A r \in Refs : seen'[r] = (IF Guest(live, r) THEN live[r] ELSE None) /\ live[r] # None
      BY <1>0, <2>1, <2>2 DEF Whole, Full
  <2>4. \A r \in Refs : ~(r < 1)
      BY Constants DEF Refs
  <2>5. Landed = Refs => \A r \in Refs : Guest(live, r)
      BY <2>2
  <2> QED
      BY <2>1, <2>3, <2>4, <2>5 DEF Moving, Guest, KeepsIt
<1>8. CASE PutBack
  <2>1. CASE End
      BY <2>1 DEF End, Moving, KeepsIt
  <2>2. CASE ~End
    <3>0. /\ pc = "putBack" /\ UNCHANGED <<rollback, seen, stopRec>>
          /\ live' = [live EXCEPT ![at] = IF seen[at] # None THEN rollback[at] ELSE live[at]]
        BY <1>8, <2>2 DEF PutBack
    <3>1. /\ at < NRefs => at' = at + 1 /\ pc' = "putBack"
          /\ ~(at < NRefs) => at' = 1 /\ pc' = "keep"
        BY <1>8, <2>2 DEF PutBack, To
    <3>2. \A r \in Refs : r <= at \/ seen[r] = None => live'[r] = rollback[r]
      <4>1. seen[at] = None => live[at] = rollback[at]
          BY <1>0, <3>0 DEF Moving, PressOK
      <4>2. live'[at] = rollback[at] /\ \A r \in Refs : r # at => live'[r] = live[r]
          BY <1>0, <3>0, <4>1 DEF NamesOK, Images, PressOK
      <4>3. \A r \in Refs : r <= at => r = at \/ r < at
          BY <1>0 DEF PressOK, Refs
      <4> QED
          BY <1>0, <3>0, <4>2, <4>3 DEF Moving
    <3>3. CASE at < NRefs
        BY <1>0, <3>0, <3>1, <3>2, <3>3, Constants DEF Moving, KeepsIt, PressOK, Refs
    <3>4. CASE ~(at < NRefs)
      <4>1. \A r \in Refs : r <= at /\ ~(r < 1)
          BY <1>0, <3>4, Constants DEF PressOK, Refs
      <4> QED
          BY <3>0, <3>1, <3>2, <3>4, <4>1 DEF Moving, NoGuest, KeepsIt
    <3> QED
        BY <3>3, <3>4
  <2> QED
      BY <2>1, <2>2
<1>9. CASE Keep
  <2>1. UNCHANGED <<live, stopRec>> /\ pc' \in {"keep", "prepare"}
      BY <1>0, <1>u, <1>9, Keeping
  <2>2. pc' = "prepare" \/ stopRec # None => NoGuest(live)'
      BY <1>0, <1>u, <1>9, Keeping DEF NoGuest
  <2>3. pc' = "keep" => \A r \in Refs : r < at' => r <= at
      BY <1>0, <1>u, <1>9, Keeping DEF PressOK, Refs
  <2> QED
      BY <1>0, <1>u, <1>9, Keeping, <2>1, <2>2, <2>3 DEF Moving, KeepsIt
<1>10. CASE Prepare
  <2>1. pc = "prepare" /\ UNCHANGED <<live, rollback>>
      BY <1>10 DEF Prepare
  <2>2. CASE Usable
    <3>1. pc' = "use" /\ at' = 1 /\ UNCHANGED parked /\ keptRec.print # None
        BY <1>10, <2>2 DEF Prepare, To, Usable
    <3>2. \A r \in Refs : ~(r < 1) /\ live[r] = rollback[r]
        BY <1>0, <2>1, <3>1, Constants DEF Moving, NoGuest, Refs
    <3> QED
        BY <2>1, <3>1, <3>2 DEF Moving, KeepsIt
  <2>3. CASE ~Usable
      BY <1>10, <2>3 DEF Prepare, To, Moving, KeepsIt
  <2> QED
      BY <2>2, <2>3
<1>11. CASE Use
  <2>1. CASE pc' = "failed"
    <3>1. ~built' /\ tagging'
        BY <1>0, <1>11, <2>1 DEF Use, To, Remembers
    <3> QED
        BY <2>1, <3>1 DEF Moving, KeepsIt
  <2>2. CASE pc' = "use"
    <3>1. \A r \in Refs : r < at' <=> r <= at
        BY <1>0, <1>11, <2>2, Using DEF PressOK, Refs
    <3> QED
        BY <1>0, <1>11, <2>2, <3>1, Using DEF Moving, KeepsIt
  <2>3. CASE pc' = "replace"
    <3>1. Uniform(live)'
        BY <1>0, <1>11, <2>3, Using DEF Uniform
    <3> QED
        BY <2>3, <3>1 DEF Moving, KeepsIt
  <2> QED
      BY <1>11, <2>1, <2>2, <2>3 DEF Use, To
<1>12. CASE Compiled
  <2>1. /\ pc' \in {"replace", "failed"} /\ buildExit' = "ok" /\ UNCHANGED live
      BY <1>12 DEF Compiled, To
  <2>2. Uniform(live)'
      BY <1>0, <2>1, <1>12, CompiledIsDone DEF Compiled, Uniform
  <2> QED
      BY <2>1, <2>2 DEF Moving, KeepsIt
<1>13. CASE Replace
    BY <1>0, <1>u, <1>13
       DEF Replace, To, Moving, Compiling, Guests, OneGuest, NoGuest, Guest, Uniform, AtWork,
           Remembers, KeepsIt, Late, None
<1>14. CASE StartNew
    BY <1>0, <1>u, <1>14
       DEF StartNew, Range, Moving, Compiling, Guests, OneGuest, NoGuest, Guest, Uniform, AtWork,
           Remembers, KeepsIt, Late, None
<1>15. CASE Ready
    BY <1>0, <1>u, <1>15
       DEF Ready, End, Fresh, Moving, Compiling, Guests, OneGuest, NoGuest, Guest, Uniform,
           AtWork, Remembers, KeepsIt, Late, None
<1>16. CASE Failed
    BY <1>0, <1>u, <1>16
       DEF Failed, AsksDocker, Tagged, MayHaveTagged, NothingMoved, PartOnly, To, End, Fresh,
           Moving, Compiling, Guests, OneGuest, NoGuest, Guest, Uniform, AtWork, Remembers,
           KeepsIt, Late, None
<1>17. CASE StopNew
    BY <1>0, <1>u, <1>17
       DEF StopNew, To, End, Fresh, Moving, Compiling, Guests, OneGuest, NoGuest, Guest, Uniform,
           AtWork, Remembers, KeepsIt, Late, None
<1>18. CASE WaitForDocker
    BY <1>0, <1>u, <1>18
       DEF WaitForDocker, To, End, Fresh, Moving, Compiling, Guests, OneGuest, NoGuest, Guest,
           Uniform, AtWork, Remembers, KeepsIt, Late, None
<1>19. CASE NameNew
    BY <1>0, <1>u, <1>19
       DEF NameNew, NotPutBack, NextRef, To, End, Fresh, Moving, Compiling, Guests, OneGuest,
           NoGuest, Guest, Uniform, AtWork, Remembers, KeepsIt, Late, None
<1>20. CASE MoveBack
    BY <1>0, <1>u, <1>20
       DEF MoveBack, NotPutBack, NextRef, To, End, Fresh, Moving, Compiling, Guests, OneGuest,
           NoGuest, Guest, Uniform, AtWork, Remembers, KeepsIt, Late, None
<1>21. CASE KeepNew
    BY <1>0, <1>u, <1>21
       DEF KeepNew, WorthKeeping, To, Moving, Compiling, Guests, OneGuest, NoGuest, Guest,
           Uniform, AtWork, Remembers, KeepsIt, Late, None
<1>22. CASE ForgetKept
    BY <1>0, <1>u, <1>22
       DEF ForgetKept, To, Moving, Compiling, Guests, OneGuest, NoGuest, Guest, Uniform, AtWork,
           Remembers, KeepsIt, Late, None
<1>23. CASE NameKept
    BY <1>0, <1>u, <1>23
       DEF NameKept, To, Moving, Compiling, Guests, OneGuest, NoGuest, Guest, Uniform, AtWork,
           Remembers, KeepsIt, Late, None
<1>24. CASE RecordKept
  <2>1. pc = "recordKept" /\ UNCHANGED <<live, seen, built>> /\ pc' = (IF built THEN "drop" ELSE "putBack") /\ at' = 1
      BY <1>24 DEF RecordKept, To
  <2>2. \A r \in Refs : ~(r < 1)
      BY Constants DEF Refs
  <2>3. \A r \in Refs : seen[r] # None
      BY <1>0, <2>1 DEF Whole, Full, KeepsIt
  <2> QED
      BY <2>1, <2>2, <2>3 DEF Moving, KeepsIt
<1>25. CASE Drop
    BY <1>0, <1>u, <1>25
       DEF Drop, LetGo, To, StartAllowed, StoppedBuildRefuses, End, Fresh, Moving, Compiling,
           Guests, OneGuest, NoGuest, Guest, Uniform, AtWork, Remembers, KeepsIt, Late, None
<1>26. CASE Restart
    BY <1>0, <1>u, <1>26
       DEF Restart, LetGo, Range, End, Fresh, Moving, Compiling, Guests, OneGuest, NoGuest,
           Guest, Uniform, AtWork, Remembers, KeepsIt, Late, None
<1>27. CASE StopBeforeTheBuild
    BY <1>0, <1>u, <1>27
       DEF StopBeforeTheBuild, To, Moving, Compiling, Guests, OneGuest, NoGuest, Guest, Uniform,
           AtWork, Remembers, KeepsIt, Late, None
<1>28. CASE CompileFails
  <2>1. /\ pc = "compile" /\ left[last] = NRefs /\ pc' = "failed"
        /\ UNCHANGED <<live, rollback, hold, built, tagging>>
      BY <1>28 DEF CompileFails, To
  <2>2. ~built
      BY <1>0, <2>1 DEF Remembers
  <2>3. \A r \in Refs : ~(r <= NRefs - NRefs)
      BY Constants DEF Refs
  <2>4. ~hold => \A r \in Refs : live[r] = rollback[r]
      BY <1>0, <2>1, <2>3 DEF Compiling, Guest
  <2> QED
      BY <2>1, <2>2, <2>4 DEF Moving, NoGuest, KeepsIt
<1>29. CASE StopTheCompile
    BY <1>0, <1>u, <1>29
       DEF StopTheCompile, To, Moving, Compiling, Guests, OneGuest, NoGuest, Guest, Uniform,
           AtWork, Remembers, KeepsIt, Late, None
<1>30. CASE NotReady
    BY <1>0, <1>u, <1>30
       DEF NotReady, To, Moving, Compiling, Guests, OneGuest, NoGuest, Guest, Uniform, AtWork,
           Remembers, KeepsIt, Late, None
<1>31. CASE WalkOut
    BY <1>0, <1>u, <1>31
       DEF WalkOut, Tagged, MayHaveTagged, NothingMoved, PartOnly, End, Fresh, Moving, Compiling,
           Guests, OneGuest, NoGuest, Guest, Uniform, AtWork, Remembers, KeepsIt, Late, None
<1>32. CASE Killed
    BY <1>0, <1>u, <1>32
       DEF Killed, End, Fresh, Moving, Compiling, Guests, OneGuest, NoGuest, Guest, Uniform,
           AtWork, Remembers, KeepsIt, Late, None
<1>33. CASE \E b \in Builds : ReadContext(b)
    BY <1>0, <1>u, <1>33
       DEF ReadContext, Moving, Compiling, Guests, OneGuest, NoGuest, Guest, Uniform, AtWork,
           Remembers, KeepsIt, Late, None
<1>34. CASE \E b \in Builds : Export(b)
  <2> SUFFICES ASSUME NEW b \in Builds, Export(b) PROVE Moving'
      BY <1>34
  <2>1. /\ left[b] > 0 /\ pc \notin Settling
        /\ UNCHANGED <<rollback, pc, at, built, hold, seen, stopRec, keptRec, parked, tagging, buildExit>>
      BY <1>0, <1>u DEF Export
  <2>2. ~Quiet
      BY <1>0, <2>1, Constants DEF Quiet, DockerOK
  <2>3. pc \notin {"start", "ready", "stopNew", "replace"} /\ ~(pc = "failed" /\ built)
      BY <1>0, <2>2 DEF AtWork, Remembers
  <2>4. pc = "prepare" => hold /\ keptRec.print = None
      BY <1>0, <2>1, <2>2 DEF AtWork, Late, KeepsIt
  <2>5. pc = "failed" /\ ~hold => buildExit = "cancelled"
      BY <1>0, <2>1 DEF AtWork, Late, KeepsIt
  <2> QED
      BY <2>1, <2>3, <2>4, <2>5 DEF Moving, Settling, KeepsIt
<1>35. CASE \E b \in Builds : Dies(b)
    BY <1>0, <1>u, <1>35
       DEF Dies, Moving, Compiling, Guests, OneGuest, NoGuest, Guest, Uniform, AtWork, Remembers,
           KeepsIt, Late, None
<1>36. CASE UNCHANGED vars
    BY <1>0, <1>u, <1>36
       DEF vars, Moving, Compiling, Guests, OneGuest, NoGuest, Guest, Uniform, AtWork, Remembers,
           KeepsIt, Late, None
<1>37. CASE SettleUnread
    BY <1>u, <1>37 DEF SettleUnread
<1> QED
    BY <1>1, <1>2, <1>3, <1>4, <1>5, <1>6, <1>7, <1>8, <1>9, <1>10, <1>11, <1>12, <1>13, <1>14,
       <1>15, <1>16, <1>17, <1>18, <1>19, <1>20, <1>21, <1>22, <1>23, <1>24, <1>25, <1>26, <1>27,
       <1>28, <1>29, <1>30, <1>31, <1>32, <1>33, <1>34, <1>35, <1>36, <1>37
       DEF Next, PressSteps, Docker

(* Every step keeps the copies a press made true. *)
LEMMA CopiesStep == Shape /\ Inv /\ [Next]_vars /\ Orderly' => Copies'
<1> SUFFICES ASSUME Shape, Inv, [Next]_vars, Orderly' PROVE Copies'
    OBVIOUS
<1>0. Shape /\ Inv
    OBVIOUS
<1>u. /\ ~Upset("keep") /\ ~Upset("lateWalkout") /\ ~Upset("kill")
      /\ ~Upset("race") /\ ~Upset("partial") /\ ~Upset("second") /\ ~Upset("unread")
    BY OrderlyStep DEF Unrecorded
<1> USE DEF Shape, Typed, Inv, names, records, docker, servers, memory
<1>1. CASE Start
    BY <1>0, <1>u, <1>1
       DEF Start, StartAllowed, StoppedBuildRefuses, Range, Copies, Copied, Moving, Guests,
           OneGuest, NoGuest, Guest, Uniform, AtWork, Remembers, KeepsIt, Late, None
<1>2. CASE Stop
    BY <1>0, <1>u, <1>2
       DEF Stop, Copies, Copied, Moving, Guests, OneGuest, NoGuest, Guest, Uniform, AtWork,
           Remembers, KeepsIt, Late, None
<1>3. CASE Edit
    BY <1>0, <1>u, <1>3
       DEF Edit, Copies, Copied, Moving, Guests, OneGuest, NoGuest, Guest, Uniform, AtWork,
           Remembers, KeepsIt, Late, None
<1>4. CASE Press
    BY <1>0, <1>u, <1>4
       DEF Press, To, Copies, Copied, Moving, Guests, OneGuest, NoGuest, Guest, Uniform, AtWork,
           Remembers, KeepsIt, Late, None
<1>5. CASE NothingLanded
    BY <1>0, <1>u, <1>5
       DEF NothingLanded, LandedOnServers, Landed, To, Copies, Copied, Moving, Guests, OneGuest,
           NoGuest, Guest, Uniform, AtWork, Remembers, KeepsIt, Late, None
<1>6. CASE SettleRefuses
    BY <1>0, <1>u, <1>6
       DEF SettleRefuses, LandedOnServers, Landed, End, Fresh, Copies, Copied, Moving, Guests,
           OneGuest, NoGuest, Guest, Uniform, AtWork, Remembers, KeepsIt, Late, None
<1>7. CASE Settle
    BY <1>0, <1>u, <1>7
       DEF Settle, LandedOnServers, Landed, To, Copies, Copied, Moving, Guests, OneGuest,
           NoGuest, Guest, Uniform, AtWork, Remembers, KeepsIt, Late, None
<1>8. CASE PutBack
    BY <1>0, <1>u, <1>8
       DEF PutBack, To, End, Fresh, Copies, Copied, Moving, Guests, OneGuest, NoGuest, Guest,
           Uniform, AtWork, Remembers, KeepsIt, Late, None
<1>9. CASE Keep
    BY <1>0, <1>u, <1>9
       DEF Keep, NextRef, To, End, Fresh, Copies, Copied, Moving, Guests, OneGuest, NoGuest,
           Guest, Uniform, AtWork, Remembers, KeepsIt, Late, None
<1>10. CASE Prepare
    BY <1>0, <1>u, <1>10
       DEF Prepare, Usable, To, Copies, Copied, Moving, Guests, OneGuest, NoGuest, Guest,
           Uniform, AtWork, Remembers, KeepsIt, Late, None
<1>11. CASE Use
    BY <1>0, <1>u, <1>11
       DEF Use, To, Alone, Copies, Copied, Moving, Guests, OneGuest, NoGuest, Guest, Uniform,
           AtWork, Remembers, KeepsIt, Late, None
<1>12. CASE Compiled
    BY <1>0, <1>u, <1>12
       DEF Compiled, To, Copies, Copied, Moving, Guests, OneGuest, NoGuest, Guest, Uniform,
           AtWork, Remembers, KeepsIt, Late, None
<1>13. CASE Replace
    BY <1>0, <1>u, <1>13
       DEF Replace, To, Copies, Copied, Moving, Guests, OneGuest, NoGuest, Guest, Uniform,
           AtWork, Remembers, KeepsIt, Late, None
<1>14. CASE StartNew
    BY <1>0, <1>u, <1>14
       DEF StartNew, Range, Copies, Copied, Moving, Guests, OneGuest, NoGuest, Guest, Uniform,
           AtWork, Remembers, KeepsIt, Late, None
<1>15. CASE Ready
    BY <1>0, <1>u, <1>15
       DEF Ready, End, Fresh, Copies, Copied, Moving, Guests, OneGuest, NoGuest, Guest, Uniform,
           AtWork, Remembers, KeepsIt, Late, None
<1>16. CASE Failed
    BY <1>0, <1>u, <1>16
       DEF Failed, AsksDocker, Tagged, MayHaveTagged, NothingMoved, PartOnly, To, End, Fresh,
           Copies, Copied, Moving, Guests, OneGuest, NoGuest, Guest, Uniform, AtWork, Remembers,
           KeepsIt, Late, None
<1>17. CASE StopNew
  <2>1. CASE End
      BY <2>1 DEF End, Copies, Copied, KeepsIt
  <2>2. CASE ~End
    <3>1. pc = "stopNew" /\ pc' = "name" /\ at' = 1 /\ UNCHANGED live
        BY <1>17, <2>2 DEF StopNew, To
    <3>2. \A r \in Refs : ~(r < 1)
        BY Constants DEF Refs
    <3> QED
        BY <1>0, <3>1, <3>2 DEF Copies, Copied, KeepsIt, Moving, Uniform
  <2> QED
      BY <2>1, <2>2
<1>18. CASE WaitForDocker
  <2>1. CASE End
      BY <2>1 DEF End, Copies, Copied, KeepsIt
  <2>2. CASE ~End
    <3>1. pc = "wait" /\ pc' = "name" /\ at' = 1 /\ UNCHANGED <<live, touched>>
        BY <1>18, <2>2 DEF WaitForDocker, To
    <3>2. (\A r \in Refs : ~(r < 1)) /\ ~touched
        BY <1>0, <3>1, Constants DEF Refs, Remembers
    <3> QED
        BY <3>1, <3>2 DEF Copies, Copied, KeepsIt
  <2> QED
      BY <2>1, <2>2
<1>19. CASE NameNew
  <2>1. CASE End
      BY <2>1 DEF End, Copies, Copied, KeepsIt
  <2>2. CASE ~End
    <3>1. /\ pc = "name" /\ failed' = [failed EXCEPT ![at] = live[at]]
          /\ UNCHANGED <<live, rollback, docker, memory>>
        BY <1>19, <2>2 DEF NameNew
    <3>2. \/ at < NRefs /\ pc' = "name" /\ at' = at + 1
          \/ ~(at < NRefs) /\ pc' = "back" /\ at' = 1
        BY <1>19, <2>2 DEF NameNew, NextRef, To
    <3>3. \A r \in Refs : Copied(r)' <=> r <= at
        BY <1>0, <3>1, <3>2, Constants DEF Copied, KeepsIt, PressOK, Refs
    <3>4. failed'[at] = live[at] /\ \A r \in Refs : r # at => failed'[r] = failed[r]
        BY <1>0, <3>1 DEF NamesOK, Images, PressOK
    <3>5. \A r \in Refs : r <= at => r = at \/ (r # at /\ Copied(r))
        BY <1>0, <3>1 DEF Copied, PressOK, Refs
    <3>6. OneGuest /\ \A b \in Builds : left[b] > 0 =>
              \A r \in Refs : Guest(live, r) => live[r] = b /\ r <= NRefs - left[b]
        BY <1>0, <3>1 DEF Guests, Late, KeepsIt
    <3>7. \A r, s \in Refs : Copied(r)' /\ Guest(failed, r)' =>
              /\ Copied(s)' /\ Guest(failed, s)' => failed'[r] = failed'[s]
              /\ Guest(live, s)' => failed'[r] = live'[s]
        BY <1>0, <3>1, <3>3, <3>4, <3>5, <3>6 DEF Copies, OneGuest, Guest
    <3>8. \A r \in Refs, b \in Builds : Copied(r)' /\ Guest(failed, r)' /\ left'[b] > 0 =>
              failed'[r] = b /\ r <= NRefs - left'[b]
        BY <1>0, <3>1, <3>3, <3>4, <3>5, <3>6 DEF Copies, Guest
    <3>9. touched => Uniform(live) /\ \A r \in Refs : r <= at => failed'[r] = live[r]
        BY <1>0, <3>1, <3>4, <3>5 DEF Copies, PressOK, Refs
    <3>10. CASE at < NRefs /\ pc' = "name" /\ at' = at + 1
      <4>1. \A r \in Refs : r < at' => r <= at
          BY <1>0, <3>10 DEF PressOK, Refs
      <4> QED
          BY <3>1, <3>7, <3>8, <3>9, <3>10, <4>1 DEF Copies, KeepsIt
    <3>11. CASE ~(at < NRefs) /\ pc' = "back" /\ at' = 1
      <4>1. \A r \in Refs : r <= at /\ ~(r < 1)
          BY <1>0, <3>11, Constants DEF PressOK, Refs
      <4>2. touched => Uniform(failed)' /\ \A r \in Refs : live'[r] = failed'[r]
          BY <3>1, <3>9, <4>1 DEF Uniform
      <4> QED
          BY <3>1, <3>7, <3>8, <3>11, <4>1, <4>2 DEF Copies, KeepsIt
    <3> QED
        BY <3>2, <3>10, <3>11
  <2> QED
      BY <2>1, <2>2
<1>20. CASE MoveBack
  <2>1. CASE End
      BY <2>1 DEF End, Copies, Copied, KeepsIt
  <2>2. CASE ~End
    <3>1. /\ pc = "back" /\ UNCHANGED <<rollback, failed, docker, memory>>
          /\ live'[at] = rollback[at] /\ \A r \in Refs : r # at => live'[r] = live[r]
          /\ touched \/ ~hold => \A r \in Refs : r <= at => live'[r] = rollback[r]
        BY <1>0, <1>20, <2>2, MovingBack
    <3>2. \A r \in Refs : Copied(r) /\ (Guest(live, r)' => Guest(live, r) /\ live'[r] = live[r])
        BY <3>1 DEF Copied, Guest
    <3>3. \A r, s \in Refs : Guest(failed, r)' =>
              /\ Guest(failed, s)' => failed'[r] = failed'[s]
              /\ Guest(live, s)' => failed'[r] = live'[s]
        BY <1>0, <3>1, <3>2 DEF Copies, Guest
    <3>4. \A r \in Refs, b \in Builds : Guest(failed, r)' /\ left'[b] > 0 =>
              failed'[r] = b /\ r <= NRefs - left'[b]
        BY <1>0, <3>1, <3>2 DEF Copies, Guest
    <3>5. CASE at < NRefs /\ pc' = "back" /\ at' = at + 1
      <4>1. \A r \in Refs : (r < at' => r <= at) /\ (r >= at' => r # at /\ r >= at)
          BY <1>0, <3>5 DEF PressOK, Refs
      <4>2. touched => Uniform(failed)' /\ \A r \in Refs : r >= at' => live'[r] = failed'[r]
          BY <1>0, <3>1, <4>1 DEF Copies, Uniform
      <4> QED
          BY <3>1, <3>3, <3>4, <3>5, <4>1, <4>2 DEF Copies, KeepsIt
    <3>6. CASE pc' = "keepNew" /\ \A r \in Refs : r <= at
        BY <3>1, <3>3, <3>4, <3>6 DEF Copies, KeepsIt, NoGuest
    <3> QED
        BY <1>0, <1>20, <2>2, <3>5, <3>6, MovingBack
  <2> QED
      BY <2>1, <2>2
<1>21. CASE KeepNew
    BY <1>0, <1>u, <1>21
       DEF KeepNew, WorthKeeping, To, Copies, Copied, Moving, Guests, OneGuest, NoGuest, Guest,
           Uniform, AtWork, Remembers, KeepsIt, Late, None
<1>22. CASE ForgetKept
    BY <1>0, <1>u, <1>22
       DEF ForgetKept, To, Copies, Copied, Moving, Guests, OneGuest, NoGuest, Guest, Uniform,
           AtWork, Remembers, KeepsIt, Late, None
<1>23. CASE NameKept
    BY <1>0, <1>u, <1>23
       DEF NameKept, To, Copies, Copied, Moving, Guests, OneGuest, NoGuest, Guest, Uniform,
           AtWork, Remembers, KeepsIt, Late, None
<1>24. CASE RecordKept
    BY <1>0, <1>u, <1>24
       DEF RecordKept, To, Copies, Copied, Moving, Guests, OneGuest, NoGuest, Guest, Uniform,
           AtWork, Remembers, KeepsIt, Late, None
<1>25. CASE Drop
    BY <1>0, <1>u, <1>25
       DEF Drop, LetGo, To, StartAllowed, StoppedBuildRefuses, End, Fresh, Copies, Copied,
           Moving, Guests, OneGuest, NoGuest, Guest, Uniform, AtWork, Remembers, KeepsIt, Late,
           None
<1>26. CASE Restart
    BY <1>0, <1>u, <1>26
       DEF Restart, LetGo, Range, End, Fresh, Copies, Copied, Moving, Guests, OneGuest, NoGuest,
           Guest, Uniform, AtWork, Remembers, KeepsIt, Late, None
<1>27. CASE StopBeforeTheBuild
    BY <1>0, <1>u, <1>27
       DEF StopBeforeTheBuild, To, Copies, Copied, Moving, Guests, OneGuest, NoGuest, Guest,
           Uniform, AtWork, Remembers, KeepsIt, Late, None
<1>28. CASE CompileFails
    BY <1>0, <1>u, <1>28
       DEF CompileFails, To, Copies, Copied, Moving, Guests, OneGuest, NoGuest, Guest, Uniform,
           AtWork, Remembers, KeepsIt, Late, None
<1>29. CASE StopTheCompile
    BY <1>0, <1>u, <1>29
       DEF StopTheCompile, To, Copies, Copied, Moving, Guests, OneGuest, NoGuest, Guest, Uniform,
           AtWork, Remembers, KeepsIt, Late, None
<1>30. CASE NotReady
    BY <1>0, <1>u, <1>30
       DEF NotReady, To, Copies, Copied, Moving, Guests, OneGuest, NoGuest, Guest, Uniform,
           AtWork, Remembers, KeepsIt, Late, None
<1>31. CASE WalkOut
    BY <1>0, <1>u, <1>31
       DEF WalkOut, Tagged, MayHaveTagged, NothingMoved, PartOnly, End, Fresh, Copies, Copied,
           Moving, Guests, OneGuest, NoGuest, Guest, Uniform, AtWork, Remembers, KeepsIt, Late,
           None
<1>32. CASE Killed
    BY <1>0, <1>u, <1>32
       DEF Killed, End, Fresh, Copies, Copied, Moving, Guests, OneGuest, NoGuest, Guest, Uniform,
           AtWork, Remembers, KeepsIt, Late, None
<1>33. CASE \E b \in Builds : ReadContext(b)
    BY <1>0, <1>u, <1>33
       DEF ReadContext, Copies, Copied, Moving, Guests, OneGuest, NoGuest, Guest, Uniform,
           AtWork, Remembers, KeepsIt, Late, None
<1>34. CASE \E b \in Builds : Export(b)
  <2> SUFFICES ASSUME NEW b \in Builds, Export(b) PROVE Copies'
      BY <1>34
  <2> DEFINE i == NRefs - left[b] + 1
  <2>1. /\ i \in Refs /\ live'[i] = b /\ \A r \in Refs : r # i => live'[r] = live[r]
        /\ left'[b] = left[b] - 1 /\ \A c \in Builds : c # b => left'[c] = left[c]
        /\ left[b] > 0 /\ left[b] \in 0 .. NRefs
        /\ UNCHANGED <<rollback, failed, pc, at, built, touched, hold, seen, after, f0>>
      BY <1>0, Exported
  <2> HIDE DEF i
  <2>2. pc \notin Settling
      BY <1>u DEF Export
  <2>3. ~Quiet
      BY <2>1, Constants DEF Quiet
  <2>4. pc \in {"name", "back", "keepNew", "drop", "restart"} => ~touched /\ hold
      BY <1>0, <2>1, <2>3 DEF AtWork, Late, KeepsIt
  <2>5. ~KeepsIt /\ UNCHANGED KeepsIt /\ \A r \in Refs : Copied(r)' = Copied(r)
      BY <2>1, <2>2 DEF Settling, KeepsIt, Copied
  <2>6. \A r \in Refs : Copied(r) /\ Guest(failed, r) =>
            /\ failed[r] = b /\ r <= NRefs - left[b] /\ r <= NRefs - left'[b]
    <3>1. \A r \in Refs : r <= NRefs - left[b] => r <= NRefs - left'[b]
        BY <2>1, Constants DEF Refs
    <3> QED
        BY <1>0, <2>1, <3>1 DEF Copies
  <2>7. \A c \in Builds, r \in Refs : left'[c] > 0 /\ Copied(r) => c = b
    <3>1. \A c \in Builds : left'[c] > 0 => left[c] > 0
        BY <2>1
    <3>2. \A r \in Refs : Copied(r) => pc # "compile"
        BY DEF Copied, KeepsIt
    <3> QED
        BY <1>0, <2>1, <3>1, <3>2 DEF AtWork
  <2>8. \A r, s \in Refs : Copied(r)' /\ Guest(failed, r)' =>
              /\ Copied(s)' /\ Guest(failed, s)' => failed'[r] = failed'[s]
              /\ Guest(live, s)' => failed'[r] = live'[s]
      BY <1>0, <2>1, <2>5, <2>6 DEF Copies, Guest
  <2>9. \A r \in Refs, c \in Builds : Copied(r)' /\ Guest(failed, r)' /\ left'[c] > 0 =>
              failed'[r] = c /\ r <= NRefs - left'[c]
      BY <2>1, <2>5, <2>6, <2>7 DEF Guest
  <2> QED
      BY <2>1, <2>4, <2>5, <2>8, <2>9 DEF Copies
<1>35. CASE \E b \in Builds : Dies(b)
    BY <1>0, <1>u, <1>35
       DEF Dies, Copies, Copied, Moving, Guests, OneGuest, NoGuest, Guest, Uniform, AtWork,
           Remembers, KeepsIt, Late, None
<1>36. CASE UNCHANGED vars
    BY <1>0, <1>u, <1>36
       DEF vars, Copies, Copied, Moving, Guests, OneGuest, NoGuest, Guest, Uniform, AtWork,
           Remembers, KeepsIt, Late, None
<1>37. CASE SettleUnread
    BY <1>u, <1>37 DEF SettleUnread
<1> QED
    BY <1>1, <1>2, <1>3, <1>4, <1>5, <1>6, <1>7, <1>8, <1>9, <1>10, <1>11, <1>12, <1>13, <1>14,
       <1>15, <1>16, <1>17, <1>18, <1>19, <1>20, <1>21, <1>22, <1>23, <1>24, <1>25, <1>26, <1>27,
       <1>28, <1>29, <1>30, <1>31, <1>32, <1>33, <1>34, <1>35, <1>36, <1>37
       DEF Next, PressSteps, Docker

(* Every step keeps a kept build one build. *)
LEMMA KeptStep == Shape /\ Inv /\ [Next]_vars /\ Orderly' => Kept'
<1> SUFFICES ASSUME Shape, Inv, [Next]_vars, Orderly' PROVE Kept'
    OBVIOUS
<1>0. Shape /\ Inv
    OBVIOUS
<1>u. /\ ~Upset("keep") /\ ~Upset("lateWalkout") /\ ~Upset("kill")
      /\ ~Upset("race") /\ ~Upset("partial") /\ ~Upset("second") /\ ~Upset("unread")
    BY OrderlyStep DEF Unrecorded
<1> USE DEF Shape, Typed, Inv, names, records, docker, servers, memory
<1>1. CASE Start
    BY <1>0, <1>u, <1>1
       DEF Start, StartAllowed, StoppedBuildRefuses, Range, Kept, Moving, Copies, Guests,
           Uniform, Guest, KeepsIt, Late, None
<1>2. CASE Stop
    BY <1>0, <1>u, <1>2
       DEF Stop, Kept, Moving, Copies, Guests, Uniform, Guest, KeepsIt, Late, None
<1>3. CASE Edit
    BY <1>0, <1>u, <1>3
       DEF Edit, Kept, Moving, Copies, Guests, Uniform, Guest, KeepsIt, Late, None
<1>4. CASE Press
    BY <1>0, <1>u, <1>4
       DEF Press, To, Kept, Moving, Copies, Guests, Uniform, Guest, KeepsIt, Late, None
<1>5. CASE NothingLanded
    BY <1>0, <1>u, <1>5
       DEF NothingLanded, LandedOnServers, Landed, To, Kept, Moving, Copies, Guests, Uniform,
           Guest, KeepsIt, Late, None
<1>6. CASE SettleRefuses
    BY <1>0, <1>u, <1>6
       DEF SettleRefuses, LandedOnServers, Landed, End, Fresh, Kept, Moving, Copies, Guests,
           Uniform, Guest, KeepsIt, Late, None
<1>7. CASE Settle
    BY <1>0, <1>u, <1>7
       DEF Settle, LandedOnServers, Landed, To, Kept, Moving, Copies, Guests, Uniform, Guest,
           KeepsIt, Late, None
<1>8. CASE PutBack
    BY <1>0, <1>u, <1>8
       DEF PutBack, To, End, Fresh, Kept, Moving, Copies, Guests, Uniform, Guest, KeepsIt, Late,
           None
<1>9. CASE Keep
    BY <1>0, <1>u, <1>9
       DEF Keep, NextRef, To, End, Fresh, Kept, Moving, Copies, Guests, Uniform, Guest, KeepsIt,
           Late, None
<1>10. CASE Prepare
    BY <1>0, <1>10 DEF Prepare, To, Kept, NoRecord, None
<1>11. CASE Use
  <2>1. (keptRec' = keptRec \/ keptRec' = NoRecord) /\ buildExit' = "none"
      BY <1>0, <1>11 DEF Use, Remembers
  <2> QED
      BY <1>0, <2>1 DEF Kept, NoRecord, None
<1>12. CASE Compiled
    BY <1>0, <1>u, <1>12
       DEF Compiled, To, Kept, Moving, Copies, Guests, Uniform, Guest, KeepsIt, Late, None
<1>13. CASE Replace
  <2>1. UNCHANGED <<keptRec, buildExit>> /\ buildExit # "cancelled"
      BY <1>0, <1>13 DEF Replace, Remembers
  <2> QED
      BY <1>0, <2>1 DEF Kept
<1>14. CASE StartNew
  <2>1. UNCHANGED <<keptRec, buildExit>> /\ buildExit # "cancelled"
      BY <1>0, <1>14 DEF StartNew, Remembers
  <2> QED
      BY <1>0, <2>1 DEF Kept
<1>15. CASE Ready
    BY <1>0, <1>u, <1>15
       DEF Ready, End, Fresh, Kept, Moving, Copies, Guests, Uniform, Guest, KeepsIt, Late, None
<1>16. CASE Failed
    BY <1>0, <1>u, <1>16
       DEF Failed, AsksDocker, Tagged, MayHaveTagged, NothingMoved, PartOnly, To, End, Fresh,
           Kept, Moving, Copies, Guests, Uniform, Guest, KeepsIt, Late, None
<1>17. CASE StopNew
    BY <1>0, <1>u, <1>17
       DEF StopNew, To, End, Fresh, Kept, Moving, Copies, Guests, Uniform, Guest, KeepsIt, Late,
           None
<1>18. CASE WaitForDocker
    BY <1>0, <1>u, <1>18
       DEF WaitForDocker, To, End, Fresh, Kept, Moving, Copies, Guests, Uniform, Guest, KeepsIt,
           Late, None
<1>19. CASE NameNew
    BY <1>0, <1>u, <1>19
       DEF NameNew, NotPutBack, NextRef, To, End, Fresh, Kept, Moving, Copies, Guests, Uniform,
           Guest, KeepsIt, Late, None
<1>20. CASE MoveBack
    BY <1>0, <1>u, <1>20
       DEF MoveBack, NotPutBack, NextRef, To, End, Fresh, Kept, Moving, Copies, Guests, Uniform,
           Guest, KeepsIt, Late, None
<1>21. CASE KeepNew
    BY <1>0, <1>u, <1>21
       DEF KeepNew, WorthKeeping, To, Kept, Moving, Copies, Guests, Uniform, Guest, KeepsIt,
           Late, None
<1>22. CASE ForgetKept
    BY <1>0, <1>22 DEF ForgetKept, To, Kept, NoRecord, None
<1>23. CASE NameKept
    BY <1>0, <1>u, <1>23
       DEF NameKept, To, Kept, Moving, Copies, Guests, Uniform, Guest, KeepsIt, Late, None
<1>24. CASE RecordKept
  <2>1. (keptRec' = keptRec \/ keptRec'.images = seen) /\ pc' \in {"drop", "putBack"}
      BY <1>24 DEF RecordKept, To
  <2>2. Uniform(seen)
    <3>1. pc = "recordKept" /\ KeepsIt
        BY <1>24 DEF RecordKept, KeepsIt
    <3>2. CASE built
        BY <1>0, <3>1, <3>2 DEF Copies
    <3>3. CASE ~built
      <4>1. stopRec # None /\ \A r \in Refs : seen[r] = live[r] /\ Guest(live, r)
          BY <1>0, <3>1, <3>3 DEF Moving, Remembers
      <4>2. OneGuest
          BY <1>0, <3>1, <4>1 DEF Guests
      <4> QED
          BY <4>1, <4>2 DEF OneGuest, Uniform
    <3> QED
        BY <3>2, <3>3
  <2> QED
      BY <1>0, <2>1, <2>2 DEF Kept
<1>25. CASE Drop
    BY <1>0, <1>u, <1>25
       DEF Drop, LetGo, To, StartAllowed, StoppedBuildRefuses, End, Fresh, Kept, Moving, Copies,
           Guests, Uniform, Guest, KeepsIt, Late, None
<1>26. CASE Restart
    BY <1>0, <1>u, <1>26
       DEF Restart, LetGo, Range, End, Fresh, Kept, Moving, Copies, Guests, Uniform, Guest,
           KeepsIt, Late, None
<1>27. CASE StopBeforeTheBuild
  <2>1. UNCHANGED <<keptRec, buildExit>> /\ buildExit # "cancelled"
      BY <1>0, <1>27 DEF StopBeforeTheBuild, Remembers
  <2> QED
      BY <1>0, <2>1 DEF Kept
<1>28. CASE CompileFails
    BY <1>0, <1>u, <1>28
       DEF CompileFails, To, Kept, Moving, Copies, Guests, Uniform, Guest, KeepsIt, Late, None
<1>29. CASE StopTheCompile
    BY <1>0, <1>u, <1>29
       DEF StopTheCompile, To, Kept, Moving, Copies, Guests, Uniform, Guest, KeepsIt, Late, None
<1>30. CASE NotReady
  <2>1. UNCHANGED <<keptRec, buildExit>> /\ buildExit # "cancelled"
      BY <1>0, <1>30 DEF NotReady, Remembers
  <2> QED
      BY <1>0, <2>1 DEF Kept
<1>31. CASE WalkOut
    BY <1>0, <1>u, <1>31
       DEF WalkOut, Tagged, MayHaveTagged, NothingMoved, PartOnly, End, Fresh, Kept, Moving,
           Copies, Guests, Uniform, Guest, KeepsIt, Late, None
<1>32. CASE Killed
    BY <1>0, <1>u, <1>32
       DEF Killed, End, Fresh, Kept, Moving, Copies, Guests, Uniform, Guest, KeepsIt, Late, None
<1>33. CASE \E b \in Builds : ReadContext(b)
    BY <1>0, <1>u, <1>33
       DEF ReadContext, Kept, Moving, Copies, Guests, Uniform, Guest, KeepsIt, Late, None
<1>34. CASE \E b \in Builds : Export(b)
    BY <1>0, <1>u, <1>34
       DEF Export, Kept, Moving, Copies, Guests, Uniform, Guest, KeepsIt, Late, None
<1>35. CASE \E b \in Builds : Dies(b)
    BY <1>0, <1>u, <1>35
       DEF Dies, Kept, Moving, Copies, Guests, Uniform, Guest, KeepsIt, Late, None
<1>36. CASE UNCHANGED vars
    BY <1>0, <1>u, <1>36
       DEF vars, Kept, Moving, Copies, Guests, Uniform, Guest, KeepsIt, Late, None
<1>37. CASE SettleUnread
    BY <1>u, <1>37 DEF SettleUnread
<1> QED
    BY <1>1, <1>2, <1>3, <1>4, <1>5, <1>6, <1>7, <1>8, <1>9, <1>10, <1>11, <1>12, <1>13, <1>14,
       <1>15, <1>16, <1>17, <1>18, <1>19, <1>20, <1>21, <1>22, <1>23, <1>24, <1>25, <1>26, <1>27,
       <1>28, <1>29, <1>30, <1>31, <1>32, <1>33, <1>34, <1>35, <1>36, <1>37
       DEF Next, PressSteps, Docker

(* Two names of the same build are as fit to be started. *)
LEMMA SoundAlike ==
    ASSUME NEW f, NEW g, \A r \in Refs : f[r] = g[r]
    PROVE  Sound(f) <=> Sound(g)
    BY DEF Sound, Uniform, Range

(* More builds started, or the restore given up, make no build less fit. *)
LEMMA SoundStays ==
    ASSUME NEW f, Sound(f), started \subseteq started', gaveUp => gaveUp'
    PROVE  Uniform(f) /\ (Range(f) \subseteq started' \/ gaveUp')
    BY DEF Sound

(* Every step keeps what may be started fit to be. *)
LEMMA SafeStep == Shape /\ Inv /\ [Next]_vars /\ Orderly' => Safe'
<1> SUFFICES ASSUME Shape, Inv, [Next]_vars, Orderly' PROVE Safe'
    OBVIOUS
<1>0. Shape /\ Inv
    OBVIOUS
<1>u. /\ ~Upset("keep") /\ ~Upset("lateWalkout") /\ ~Upset("kill")
      /\ ~Upset("race") /\ ~Upset("partial") /\ ~Upset("second") /\ ~Upset("unread")
    BY OrderlyStep DEF Unrecorded
<1> USE DEF Shape, Typed, Inv, names, records, docker, servers, memory
<1>1. CASE Start
    BY <1>0, <1>u, <1>1
       DEF Start, StartAllowed, StoppedBuildRefuses, Range, Safe, Sound, Moving, Copies, Guests,
           NoGuest, Remembers, KeepsIt, Late, None
<1>2. CASE Stop
    BY <1>0, <1>u, <1>2
       DEF Stop, Safe, Sound, Moving, Copies, Guests, NoGuest, Remembers, KeepsIt, Late, None
<1>3. CASE Edit
    BY <1>0, <1>u, <1>3
       DEF Edit, Safe, Sound, Moving, Copies, Guests, NoGuest, Remembers, KeepsIt, Late, None
<1>4. CASE Press
    BY <1>0, <1>u, <1>4
       DEF Press, To, Safe, Sound, Moving, Copies, Guests, NoGuest, Remembers, KeepsIt, Late,
           None
<1>5. CASE NothingLanded
  <2>1. /\ pc = "settle" /\ pc' = "keep" /\ UNCHANGED <<live, rollback, records, servers>>
        /\ stopRec # None => Landed = {}
      BY <1>5 DEF NothingLanded, LandedOnServers, To
  <2>2. stopRec # None => \A r \in Refs : live[r] = rollback[r]
      BY <1>0, <2>1, LandedAreGuests DEF Guests, Guest
  <2>3. owed = "no" => Sound(live)
      BY <1>0, <2>1, <2>2, SoundAlike DEF Safe
  <2> QED
      BY <2>1, <2>3 DEF Safe, Sound, Late
<1>6. CASE SettleRefuses
    BY <1>0, <1>u, <1>6
       DEF SettleRefuses, LandedOnServers, Landed, End, Fresh, Safe, Sound, Moving, Copies,
           Guests, NoGuest, Remembers, KeepsIt, Late, None
<1>7. CASE Settle
    BY <1>0, <1>u, <1>7
       DEF Settle, LandedOnServers, Landed, To, Safe, Sound, Moving, Copies, Guests, NoGuest,
           Remembers, KeepsIt, Late, None
<1>8. CASE PutBack
  <2>1. /\ pc = "putBack" /\ UNCHANGED <<rollback, records, servers>>
        /\ pc' \in {"putBack", "keep", "idle"}
      BY <1>8 DEF PutBack, To, End
  <2>2. stopRec # None /\ (owed = "no" => Sound(rollback))
      BY <1>0, <2>1 DEF Remembers, Safe
  <2>3. pc' = "keep" => \A r \in Refs : live'[r] = rollback[r]
    <3>1. Moving'
        BY MovingStep
    <3> QED
        BY <2>1, <2>2, <3>1 DEF Moving, NoGuest
  <2>4. pc' = "keep" => (Sound(live') <=> Sound(rollback))
      BY <2>3, SoundAlike
  <2> QED
      BY <2>1, <2>2, <2>4 DEF Safe, Sound, Late, KeepsIt
<1>9. CASE Keep
  <2>1. pc = "keep" /\ UNCHANGED <<live, records, servers>> /\ pc' \in {"keep", "prepare"}
      BY <1>0, <1>u, <1>9, Keeping
  <2>2. owed = "no" => Sound(live)
      BY <1>0, <2>1 DEF Safe
  <2>3. pc' = "prepare" => \A r \in Refs : rollback'[r] = live[r]
      BY <1>0, <1>u, <1>9, Keeping
  <2>4. pc' = "prepare" => (Sound(rollback') <=> Sound(live))
      BY <2>3, SoundAlike
  <2> QED
      BY <2>1, <2>2, <2>4 DEF Safe, Sound, Late, KeepsIt
<1>10. CASE Prepare
    BY <1>0, <1>u, <1>10
       DEF Prepare, Usable, To, Safe, Sound, Moving, Copies, Guests, NoGuest, Remembers, KeepsIt,
           Late, None
<1>11. CASE Use
    BY <1>0, <1>u, <1>11
       DEF Use, To, Alone, Safe, Sound, Moving, Copies, Guests, NoGuest, Remembers, KeepsIt,
           Late, None
<1>12. CASE Compiled
    BY <1>0, <1>u, <1>12
       DEF Compiled, To, Safe, Sound, Moving, Copies, Guests, NoGuest, Remembers, KeepsIt, Late,
           None
<1>13. CASE Replace
    BY <1>0, <1>u, <1>13
       DEF Replace, To, Safe, Sound, Moving, Copies, Guests, NoGuest, Remembers, KeepsIt, Late,
           None
<1>14. CASE StartNew
    BY <1>0, <1>u, <1>14
       DEF StartNew, Range, Safe, Sound, Moving, Copies, Guests, NoGuest, Remembers, KeepsIt,
           Late, None
<1>15. CASE Ready
    BY <1>0, <1>u, <1>15
       DEF Ready, End, Fresh, Safe, Sound, Moving, Copies, Guests, NoGuest, Remembers, KeepsIt,
           Late, None
<1>16. CASE Failed
  <2>1. pc = "failed" /\ Late /\ UNCHANGED <<live, owed, servers>>
      BY <1>16 DEF Failed, Late, KeepsIt
  <2>2. owed = "no" => Sound(rollback)
      BY <1>0, <2>1 DEF Safe
  <2>3. CASE Tagged(happened' = happened)
    <3>1. UNCHANGED rollback /\ pc' \in {"stopNew", "wait"}
        BY <1>16, <2>3 DEF Failed, To
    <3> QED
        BY <2>1, <2>2, <3>1 DEF Safe, Sound
  <2>4. CASE ~Tagged(happened' = happened)
    <3>1. NothingMoved /\ pc' = "idle" /\ ~built
        BY <1>16, <2>4 DEF Failed, End, Tagged
    <3>2. stopRec' # None => UNCHANGED rollback
        BY <1>0, <2>1, <3>1 DEF NothingMoved, Remembers
    <3>3. stopRec' = None => ~hold /\ buildExit # "cancelled"
        BY <1>0, <2>1, <3>1 DEF NothingMoved, Remembers
    <3>4. stopRec' = None => \A r \in Refs : live[r] = rollback[r]
        BY <1>0, <2>1, <2>4, <3>1, <3>3 DEF Tagged, Moved, MayHaveTagged, Moving, NoGuest, PressOK
    <3>5. stopRec' = None => (Sound(live) <=> Sound(rollback))
        BY <3>4, SoundAlike
    <3> QED
        BY <2>1, <2>2, <3>1, <3>2, <3>5 DEF Safe, Sound, Late, KeepsIt
  <2> QED
      BY <2>3, <2>4
<1>17. CASE StopNew
    BY <1>0, <1>u, <1>17
       DEF StopNew, To, End, Fresh, Safe, Sound, Moving, Copies, Guests, NoGuest, Remembers,
           KeepsIt, Late, None
<1>18. CASE WaitForDocker
    BY <1>0, <1>u, <1>18
       DEF WaitForDocker, To, End, Fresh, Safe, Sound, Moving, Copies, Guests, NoGuest,
           Remembers, KeepsIt, Late, None
<1>19. CASE NameNew
    BY <1>0, <1>u, <1>19
       DEF NameNew, NotPutBack, NextRef, To, End, Fresh, Safe, Sound, Moving, Copies, Guests,
           NoGuest, Remembers, KeepsIt, Late, None
<1>20. CASE MoveBack
  <2>1. /\ pc = "back" /\ Late /\ UNCHANGED <<rollback, stopRec, started>>
        /\ pc' \in {"back", "keepNew", "idle"}
      BY <1>20 DEF MoveBack, NextRef, To, End, Late, KeepsIt
  <2>2. owed = "no" => Sound(rollback)
      BY <1>0, <2>1 DEF Safe
  <2>3. CASE ~End
    <3>1. UNCHANGED <<owed, gaveUp>> /\ pc' \in {"back", "keepNew"}
        BY <1>20, <2>3 DEF MoveBack, NextRef, To
    <3> QED
        BY <2>1, <2>2, <3>1 DEF Safe, Sound
  <2>4. CASE End /\ owed' = "no"
    <3>1. /\ NotPutBack /\ live' = [r \in Refs |-> IF r < at THEN failed[r] ELSE live[r]]
          /\ pc' = "idle"
        BY <1>20, <2>4 DEF MoveBack, NextRef, To, End
    <3>2. touched /\ gaveUp' /\ owed = "no"
        BY <2>4, <3>1 DEF NotPutBack
    <3>3. Uniform(failed) /\ \A r \in Refs : r >= at => live[r] = failed[r]
        BY <1>0, <2>1, <3>2 DEF Copies
    <3>4. \A r \in Refs : r < at \/ r >= at
        BY <1>0 DEF PressOK, Refs
    <3>5. Uniform(live') /\ Uniform(rollback')
        BY <2>1, <2>2, <3>1, <3>2, <3>3, <3>4 DEF Uniform, Sound
    <3> QED
        BY <3>1, <3>2, <3>5 DEF Safe, Sound
  <2>5. CASE End /\ owed' # "no"
      BY <2>5 DEF Safe, End
  <2> QED
      BY <2>3, <2>4, <2>5
<1>21. CASE KeepNew
    BY <1>0, <1>u, <1>21
       DEF KeepNew, WorthKeeping, To, Safe, Sound, Moving, Copies, Guests, NoGuest, Remembers,
           KeepsIt, Late, None
<1>22. CASE ForgetKept
    BY <1>0, <1>u, <1>22
       DEF ForgetKept, To, Safe, Sound, Moving, Copies, Guests, NoGuest, Remembers, KeepsIt,
           Late, None
<1>23. CASE NameKept
    BY <1>0, <1>u, <1>23
       DEF NameKept, To, Safe, Sound, Moving, Copies, Guests, NoGuest, Remembers, KeepsIt, Late,
           None
<1>24. CASE RecordKept
    BY <1>0, <1>u, <1>24
       DEF RecordKept, To, Safe, Sound, Moving, Copies, Guests, NoGuest, Remembers, KeepsIt,
           Late, None
<1>25. CASE Drop
  <2>1. pc = "drop" /\ Late /\ UNCHANGED <<live, owed, servers>>
      BY <1>25 DEF Drop, Late, KeepsIt
  <2>2. owed = "no" => Sound(rollback)
      BY <1>0, <2>1 DEF Safe
  <2>3. CASE pc' = "restart"
    <3>1. UNCHANGED rollback /\ owed = "no"
        BY <1>25, <2>3 DEF Drop, StartAllowed, End
    <3> QED
        BY <2>1, <2>2, <2>3, <3>1 DEF Safe, Sound
  <2>4. CASE pc' # "restart"
    <3>1. LetGo /\ stopRec' = (IF touched /\ hold THEN None ELSE stopRec) /\ pc' = "idle"
        BY <1>25, <2>4 DEF Drop, To, End
    <3>2. stopRec' # None => UNCHANGED rollback
        BY <1>0, <2>1, <3>1 DEF LetGo, Remembers
    <3>3. stopRec' = None => touched \/ ~hold
        BY <1>0, <2>1, <3>1 DEF Remembers
    <3>4. stopRec' = None => \A r \in Refs : live[r] = rollback[r]
        BY <1>0, <2>1, <3>3 DEF Copies, NoGuest
    <3>5. stopRec' = None => (Sound(live) <=> Sound(rollback))
        BY <3>4, SoundAlike
    <3> QED
        BY <2>1, <2>2, <3>1, <3>2, <3>5 DEF Safe, Sound, Late, KeepsIt
  <2> QED
      BY <2>3, <2>4
<1>26. CASE Restart
  <2>1. /\ pc = "restart" /\ Late /\ pc' = "idle" /\ UNCHANGED <<live, owed, gaveUp>>
        /\ started \subseteq started' /\ stopRec' = (IF hold THEN None ELSE stopRec)
      BY <1>26 DEF Restart, Late, KeepsIt, End
  <2>2. owed = "no" => Sound(rollback)
      BY <1>0, <2>1 DEF Safe
  <2>3. stopRec' = None /\ \A r \in Refs : live[r] = rollback[r]
      BY <1>0, <2>1 DEF Remembers, Copies, NoGuest
  <2>4. Sound(live) <=> Sound(rollback)
      BY <2>3, SoundAlike
  <2>5. owed' = "no" => Sound(live)'
      BY <2>1, <2>2, <2>4 DEF Sound
  <2> QED
      BY <2>1, <2>3, <2>5 DEF Safe, Late, KeepsIt
<1>27. CASE StopBeforeTheBuild
    BY <1>0, <1>u, <1>27
       DEF StopBeforeTheBuild, To, Safe, Sound, Moving, Copies, Guests, NoGuest, Remembers,
           KeepsIt, Late, None
<1>28. CASE CompileFails
    BY <1>0, <1>u, <1>28
       DEF CompileFails, To, Safe, Sound, Moving, Copies, Guests, NoGuest, Remembers, KeepsIt,
           Late, None
<1>29. CASE StopTheCompile
    BY <1>0, <1>u, <1>29
       DEF StopTheCompile, To, Safe, Sound, Moving, Copies, Guests, NoGuest, Remembers, KeepsIt,
           Late, None
<1>30. CASE NotReady
    BY <1>0, <1>u, <1>30
       DEF NotReady, To, Safe, Sound, Moving, Copies, Guests, NoGuest, Remembers, KeepsIt, Late,
           None
<1>31. CASE WalkOut
  <2>1. pc' = "idle" /\ Late /\ UNCHANGED <<live, servers>>
      BY <1>31 DEF WalkOut, End, Late, KeepsIt
  <2>2. CASE Tagged(TRUE)
      BY <1>31, <2>1, <2>2 DEF WalkOut, Safe
  <2>3. CASE ~Tagged(TRUE)
    <3>1. NothingMoved /\ UNCHANGED owed /\ live = rollback
        BY <1>31, <2>3 DEF WalkOut, Tagged, Moved
    <3>2. owed = "no" => Sound(rollback)
        BY <1>0, <2>1 DEF Safe
    <3>3. stopRec' # None => UNCHANGED rollback
        BY <1>0, <2>1, <3>1 DEF NothingMoved, Remembers
    <3> QED
        BY <2>1, <3>1, <3>2, <3>3 DEF Safe, Sound, Late, KeepsIt
  <2> QED
      BY <2>2, <2>3
<1>32. CASE Killed
    BY <1>0, <1>u, <1>32
       DEF Killed, End, Fresh, Safe, Sound, Moving, Copies, Guests, NoGuest, Remembers, KeepsIt,
           Late, None
<1>33. CASE \E b \in Builds : ReadContext(b)
    BY <1>0, <1>u, <1>33
       DEF ReadContext, Safe, Sound, Moving, Copies, Guests, NoGuest, Remembers, KeepsIt, Late,
           None
<1>34. CASE \E b \in Builds : Export(b)
  <2> SUFFICES ASSUME NEW b \in Builds, Export(b) PROVE Safe'
      BY <1>34
  <2>1. /\ left[b] > 0 /\ pc \notin Settling
        /\ UNCHANGED <<rollback, pc, built, records, servers>>
      BY <1>u DEF Export
  <2>2. ~Quiet
      BY <1>0, <2>1, Constants DEF Quiet, DockerOK
  <2>3. pc # "ready" /\ pc # "keep" /\ ~(pc \in {"idle", "settle"} /\ stopRec = None)
      BY <1>0, <2>1, <2>2 DEF AtWork, Remembers, Late, KeepsIt, Settling
  <2> QED
      BY <1>0, <2>1, <2>3 DEF Safe, Sound, Late, KeepsIt
<1>35. CASE \E b \in Builds : Dies(b)
    BY <1>0, <1>u, <1>35
       DEF Dies, Safe, Sound, Moving, Copies, Guests, NoGuest, Remembers, KeepsIt, Late, None
<1>36. CASE UNCHANGED vars
    BY <1>0, <1>u, <1>36
       DEF vars, Safe, Sound, Moving, Copies, Guests, NoGuest, Remembers, KeepsIt, Late, None
<1>37. CASE SettleUnread
    BY <1>u, <1>37 DEF SettleUnread
<1> QED
    BY <1>1, <1>2, <1>3, <1>4, <1>5, <1>6, <1>7, <1>8, <1>9, <1>10, <1>11, <1>12, <1>13, <1>14,
       <1>15, <1>16, <1>17, <1>18, <1>19, <1>20, <1>21, <1>22, <1>23, <1>24, <1>25, <1>26, <1>27,
       <1>28, <1>29, <1>30, <1>31, <1>32, <1>33, <1>34, <1>35, <1>36, <1>37
       DEF Next, PressSteps, Docker

-----------------------------------------------------------------------------
(* While, besides, no content comes back. *)

(* Such a past is an orderly one, and its last step took no earlier content. *)
LEMMA NoReturnStep ==
    /\ NoReturn => Orderly
    /\ [Next]_vars /\ NoReturn' =>
           /\ NoReturn /\ Orderly'
           /\ \A c \in Unrecorded \cup {"landed", "editBack"} : ~Upset(c)
<1>1. NoReturn => Orderly
    BY DEF NoReturn, Orderly
<1>2. ASSUME [Next]_vars, NoReturn'
      PROVE  /\ NoReturn /\ Orderly'
             /\ \A c \in Unrecorded \cup {"landed", "editBack"} : ~Upset(c)
  <2>1. NoReturn
      BY <1>2, HappenedGrows DEF NoReturn
  <2>2. Orderly'
      BY <1>2 DEF NoReturn, Orderly
  <2>3. \A c \in Unrecorded \cup {"landed", "editBack"} : ~Upset(c)
      BY <1>2 DEF NoReturn, Upset
  <2> QED
      BY <2>1, <2>2, <2>3
<1> QED
    BY <1>1, <1>2

(* A step that reads no folder keeps the records no newer than it. *)
LEMMA DatedStays ==
    ASSUME Shape, Exact, UNCHANGED <<made, folder>>, f0' \in {f0, None}, stopRec' \in {stopRec, None},
           Late' => Late
    PROVE  Dated'
<1>1. folder \in Nat /\ folder >= 0 /\ f0 \in Nat /\ stopRec \in Nat
    BY Constants DEF Shape, Typed, RestOK, Folders, ReadOK, RecordsOK
<1>2. f0' <= folder /\ stopRec' <= folder /\ \A b \in Builds : made[b] <= folder
    BY <1>1 DEF Exact, Dated, None
<1>3. Late' /\ f0' # None => stopRec' <= f0'
    BY <1>1 DEF Exact, Dated, None
<1> QED
    BY <1>2, <1>3 DEF Dated

(* No record is newer than the folder. *)
LEMMA DatedStep == Shape /\ Inv /\ Exact /\ [Next]_vars /\ NoReturn' => Dated'
<1> SUFFICES ASSUME Shape, Inv, Exact, [Next]_vars, NoReturn' PROVE Dated'
    OBVIOUS
<1>0. Shape /\ Inv /\ Exact
    OBVIOUS
<1>u. /\ ~Upset("keep") /\ ~Upset("lateWalkout") /\ ~Upset("kill") /\ ~Upset("race")
      /\ ~Upset("partial") /\ ~Upset("second") /\ ~Upset("unread")
      /\ ~Upset("landed") /\ ~Upset("editBack")
    BY NoReturnStep DEF Unrecorded
<1> USE DEF Shape, Typed, Inv, Exact, names, records, docker, servers, memory
<1>1. CASE Start
    BY <1>0, <1>u, <1>1
       DEF Start, StartAllowed, StoppedBuildRefuses, Range, Dated, DockerOK, RestOK, ReadOK,
           RecordsOK, Folders, Remembers, KeepsIt, Late, None
<1>2. CASE Stop
    BY <1>0, <1>u, <1>2
       DEF Stop, Dated, DockerOK, RestOK, ReadOK, RecordsOK, Folders, Remembers, KeepsIt, Late,
           None
<1>3. CASE Edit
    BY <1>0, <1>u, <1>3
       DEF Edit, Dated, DockerOK, RestOK, ReadOK, RecordsOK, Folders, Remembers, KeepsIt, Late,
           None
<1>4. CASE Press
    BY <1>0, <1>u, <1>4
       DEF Press, To, Dated, DockerOK, RestOK, ReadOK, RecordsOK, Folders, Remembers, KeepsIt,
           Late, None
<1>5. CASE NothingLanded
    BY <1>0, <1>u, <1>5
       DEF NothingLanded, LandedOnServers, Landed, To, Dated, DockerOK, RestOK, ReadOK,
           RecordsOK, Folders, Remembers, KeepsIt, Late, None
<1>6. CASE SettleRefuses
    BY <1>0, <1>u, <1>6
       DEF SettleRefuses, LandedOnServers, Landed, End, Fresh, Dated, DockerOK, RestOK, ReadOK,
           RecordsOK, Folders, Remembers, KeepsIt, Late, None
<1>7. CASE Settle
    BY <1>0, <1>u, <1>7
       DEF Settle, LandedOnServers, Landed, To, Dated, DockerOK, RestOK, ReadOK, RecordsOK,
           Folders, Remembers, KeepsIt, Late, None
<1>8. CASE PutBack
    BY <1>0, <1>u, <1>8
       DEF PutBack, To, End, Fresh, Dated, DockerOK, RestOK, ReadOK, RecordsOK, Folders,
           Remembers, KeepsIt, Late, None
<1>9. CASE Keep
    BY <1>0, <1>u, <1>9
       DEF Keep, NextRef, To, End, Fresh, Dated, DockerOK, RestOK, ReadOK, RecordsOK, Folders,
           Remembers, KeepsIt, Late, None
<1>10. CASE Prepare
    BY <1>0, <1>u, <1>10
       DEF Prepare, Usable, To, Dated, DockerOK, RestOK, ReadOK, RecordsOK, Folders, Remembers,
           KeepsIt, Late, None
<1>11. CASE Use
    BY <1>0, <1>u, <1>11
       DEF Use, To, Alone, Dated, DockerOK, RestOK, ReadOK, RecordsOK, Folders, Remembers,
           KeepsIt, Late, None
<1>12. CASE Compiled
    BY <1>0, <1>u, <1>12
       DEF Compiled, To, Dated, DockerOK, RestOK, ReadOK, RecordsOK, Folders, Remembers, KeepsIt,
           Late, None
<1>13. CASE Replace
    BY <1>0, <1>u, <1>13
       DEF Replace, To, Dated, DockerOK, RestOK, ReadOK, RecordsOK, Folders, Remembers, KeepsIt,
           Late, None
<1>14. CASE StartNew
    BY <1>0, <1>u, <1>14
       DEF StartNew, Range, Dated, DockerOK, RestOK, ReadOK, RecordsOK, Folders, Remembers,
           KeepsIt, Late, None
<1>15. CASE Ready
    BY <1>0, <1>u, <1>15
       DEF Ready, End, Fresh, Dated, DockerOK, RestOK, ReadOK, RecordsOK, Folders, Remembers,
           KeepsIt, Late, None
<1>16. CASE Failed
    BY <1>0, <1>u, <1>16
       DEF Failed, AsksDocker, Tagged, MayHaveTagged, NothingMoved, PartOnly, To, End, Fresh,
           Dated, DockerOK, RestOK, ReadOK, RecordsOK, Folders, Remembers, KeepsIt, Late, None
<1>17. CASE StopNew
  <2>1. pc \notin {"idle", "settle", "putBack", "keep"} /\ ~KeepsIt
      BY <1>17 DEF StopNew, KeepsIt
  <2>2. UNCHANGED <<made, folder, stopRec>> /\ f0' \in {f0, None}
      BY <1>17 DEF StopNew, End, Fresh
  <2> QED
      BY <1>0, <2>1, <2>2, DatedStays DEF Late
<1>18. CASE WaitForDocker
  <2>1. pc \notin {"idle", "settle", "putBack", "keep"} /\ ~KeepsIt
      BY <1>18 DEF WaitForDocker, KeepsIt
  <2>2. UNCHANGED <<made, folder, stopRec>> /\ f0' \in {f0, None}
      BY <1>18 DEF WaitForDocker, End, Fresh
  <2> QED
      BY <1>0, <2>1, <2>2, DatedStays DEF Late
<1>19. CASE NameNew
  <2>1. pc \notin {"idle", "settle", "putBack", "keep"} /\ ~KeepsIt
      BY <1>19 DEF NameNew, KeepsIt
  <2>2. UNCHANGED <<made, folder, stopRec>> /\ f0' \in {f0, None}
      BY <1>19 DEF NameNew, End, Fresh
  <2> QED
      BY <1>0, <2>1, <2>2, DatedStays DEF Late
<1>20. CASE MoveBack
  <2>1. pc \notin {"idle", "settle", "putBack", "keep"} /\ ~KeepsIt
      BY <1>20 DEF MoveBack, KeepsIt
  <2>2. UNCHANGED <<made, folder, stopRec>> /\ f0' \in {f0, None}
      BY <1>20 DEF MoveBack, End, Fresh
  <2> QED
      BY <1>0, <2>1, <2>2, DatedStays DEF Late
<1>21. CASE KeepNew
    BY <1>0, <1>u, <1>21
       DEF KeepNew, WorthKeeping, To, Dated, DockerOK, RestOK, ReadOK, RecordsOK, Folders,
           Remembers, KeepsIt, Late, None
<1>22. CASE ForgetKept
    BY <1>0, <1>u, <1>22
       DEF ForgetKept, To, Dated, DockerOK, RestOK, ReadOK, RecordsOK, Folders, Remembers,
           KeepsIt, Late, None
<1>23. CASE NameKept
    BY <1>0, <1>u, <1>23
       DEF NameKept, To, Dated, DockerOK, RestOK, ReadOK, RecordsOK, Folders, Remembers, KeepsIt,
           Late, None
<1>24. CASE RecordKept
    BY <1>0, <1>u, <1>24
       DEF RecordKept, To, Dated, DockerOK, RestOK, ReadOK, RecordsOK, Folders, Remembers,
           KeepsIt, Late, None
<1>25. CASE Drop
  <2>1. UNCHANGED <<made, folder>> /\ stopRec' \in {stopRec, None} /\ Late
      BY <1>25 DEF Drop, Late, KeepsIt
  <2>2. f0' \in {f0, None}
      BY <1>25 DEF Drop, End, Fresh
  <2> QED
      BY <1>0, <2>1, <2>2, DatedStays
<1>26. CASE Restart
    BY <1>0, <1>u, <1>26
       DEF Restart, LetGo, Range, End, Fresh, Dated, DockerOK, RestOK, ReadOK, RecordsOK,
           Folders, Remembers, KeepsIt, Late, None
<1>27. CASE StopBeforeTheBuild
    BY <1>0, <1>u, <1>27
       DEF StopBeforeTheBuild, To, Dated, DockerOK, RestOK, ReadOK, RecordsOK, Folders,
           Remembers, KeepsIt, Late, None
<1>28. CASE CompileFails
    BY <1>0, <1>u, <1>28
       DEF CompileFails, To, Dated, DockerOK, RestOK, ReadOK, RecordsOK, Folders, Remembers,
           KeepsIt, Late, None
<1>29. CASE StopTheCompile
    BY <1>0, <1>u, <1>29
       DEF StopTheCompile, To, Dated, DockerOK, RestOK, ReadOK, RecordsOK, Folders, Remembers,
           KeepsIt, Late, None
<1>30. CASE NotReady
    BY <1>0, <1>u, <1>30
       DEF NotReady, To, Dated, DockerOK, RestOK, ReadOK, RecordsOK, Folders, Remembers, KeepsIt,
           Late, None
<1>31. CASE WalkOut
    BY <1>0, <1>u, <1>31
       DEF WalkOut, Tagged, MayHaveTagged, NothingMoved, PartOnly, End, Fresh, Dated, DockerOK,
           RestOK, ReadOK, RecordsOK, Folders, Remembers, KeepsIt, Late, None
<1>32. CASE Killed
    BY <1>0, <1>u, <1>32
       DEF Killed, End, Fresh, Dated, DockerOK, RestOK, ReadOK, RecordsOK, Folders, Remembers,
           KeepsIt, Late, None
<1>33. CASE \E b \in Builds : ReadContext(b)
    BY <1>0, <1>u, <1>33
       DEF ReadContext, Dated, DockerOK, RestOK, ReadOK, RecordsOK, Folders, Remembers, KeepsIt,
           Late, None
<1>34. CASE \E b \in Builds : Export(b)
    BY <1>0, <1>u, <1>34
       DEF Export, Dated, DockerOK, RestOK, ReadOK, RecordsOK, Folders, Remembers, KeepsIt, Late,
           None
<1>35. CASE \E b \in Builds : Dies(b)
    BY <1>0, <1>u, <1>35
       DEF Dies, Dated, DockerOK, RestOK, ReadOK, RecordsOK, Folders, Remembers, KeepsIt, Late,
           None
<1>36. CASE UNCHANGED vars
    BY <1>0, <1>u, <1>36
       DEF vars, Dated, DockerOK, RestOK, ReadOK, RecordsOK, Folders, Remembers, KeepsIt, Late,
           None
<1>37. CASE SettleUnread
    BY <1>u, <1>37 DEF SettleUnread
<1> QED
    BY <1>1, <1>2, <1>3, <1>4, <1>5, <1>6, <1>7, <1>8, <1>9, <1>10, <1>11, <1>12, <1>13, <1>14,
       <1>15, <1>16, <1>17, <1>18, <1>19, <1>20, <1>21, <1>22, <1>23, <1>24, <1>25, <1>26, <1>27,
       <1>28, <1>29, <1>30, <1>31, <1>32, <1>33, <1>34, <1>35, <1>36, <1>37
       DEF Next, PressSteps, Docker

(* What takes part in names names builds, and those were made from some content or none. *)
LEMMA BuildsAreMade ==
    ASSUME Shape, NEW f \in Images, NEW r \in Refs, f[r] # None
    PROVE  f[r] \in Builds /\ made[f[r]] \in Nat
<1>1. f[r] \in Builds
    BY Constants DEF Images, Builds, None
<1> QED
    BY <1>1 DEF Shape, Typed, DockerOK

(* A kept build stays as old as its record says, also when the stopped build's record goes. *)
LEMMA KeptDateStays ==
    ASSUME Shape, Exact, UNCHANGED <<made, keptRec>>,
           stopRec' \in {stopRec, None} \/ keptRec.print = None
    PROVE  KeptDate'
<1> SUFFICES ASSUME keptRec.print # None, NEW r \in Refs
             PROVE  made[keptRec.images[r]] >= keptRec.print /\ made[keptRec.images[r]] >= stopRec'
    BY DEF KeptDate
<1>1. keptRec.images \in Images /\ keptRec.images[r] # None /\ stopRec' \in {stopRec, None}
    BY DEF Shape, Typed, RecordsOK, Whole, Full
<1>2. made[keptRec.images[r]] \in Nat
    BY <1>1, BuildsAreMade
<1> QED
    BY <1>1, <1>2 DEF Exact, KeptDate, None

(* The folder a build is made from is read once. *)
LEMMA ReadOnce ==
    ASSUME Shape, Exact, NEW b \in Builds, ReadContext(b)
    PROVE  /\ made[b] = None /\ made'[b] = folder /\ folder \in Nat /\ folder # None
           /\ \A c \in Builds : c # b => made'[c] = made[c]
           /\ \A c \in Builds : made[c] \in Nat /\ made'[c] \in Nat /\ made'[c] >= made[c]
           /\ UNCHANGED <<names, records, folder, last, left, servers, pc, at, memory>>
<1> USE DEF Shape, Typed
<1>1. made[b] = None /\ made' = [made EXCEPT ![b] = folder]
    BY DEF ReadContext
<1>2. folder \in Nat /\ folder # None /\ \A c \in Builds : made[c] \in Nat
    BY Constants DEF RestOK, Folders, DockerOK, None
<1>3. made'[b] = folder /\ \A c \in Builds : c # b => made'[c] = made[c]
    BY <1>1 DEF DockerOK
<1>4. \A c \in Builds : made'[c] \in Nat /\ made'[c] >= made[c]
    BY <1>1, <1>2, <1>3 DEF None
<1>5. UNCHANGED <<names, records, folder, last, left, servers, pc, at, memory>>
    BY DEF ReadContext
<1> QED
    BY <1>1, <1>2, <1>3, <1>4, <1>5

(* A kept build is no older than its record says. *)
LEMMA KeptDateStep == Shape /\ Inv /\ Exact /\ [Next]_vars /\ NoReturn' => KeptDate'
<1> SUFFICES ASSUME Shape, Inv, Exact, [Next]_vars, NoReturn' PROVE KeptDate'
    OBVIOUS
<1>0. Shape /\ Inv /\ Exact
    OBVIOUS
<1>u. /\ ~Upset("keep") /\ ~Upset("lateWalkout") /\ ~Upset("kill") /\ ~Upset("race")
      /\ ~Upset("partial") /\ ~Upset("second") /\ ~Upset("unread")
      /\ ~Upset("landed") /\ ~Upset("editBack")
    BY NoReturnStep DEF Unrecorded
<1> USE DEF Shape, Typed, Inv, Exact, names, records, docker, servers, memory
<1>1. CASE Start
    BY <1>0, <1>u, <1>1
       DEF Start, StartAllowed, StoppedBuildRefuses, Range, KeptDate, KeepsIt, Late, NoRecord,
           None
<1>2. CASE Stop
    BY <1>0, <1>u, <1>2 DEF Stop, KeptDate, KeepsIt, Late, NoRecord, None
<1>3. CASE Edit
    BY <1>0, <1>u, <1>3 DEF Edit, KeptDate, KeepsIt, Late, NoRecord, None
<1>4. CASE Press
    BY <1>0, <1>u, <1>4 DEF Press, To, KeptDate, KeepsIt, Late, NoRecord, None
<1>5. CASE NothingLanded
    BY <1>0, <1>u, <1>5
       DEF NothingLanded, LandedOnServers, Landed, To, KeptDate, KeepsIt, Late, NoRecord, None
<1>6. CASE SettleRefuses
    BY <1>0, <1>u, <1>6
       DEF SettleRefuses, LandedOnServers, Landed, End, Fresh, KeptDate, KeepsIt, Late, NoRecord,
           None
<1>7. CASE Settle
    BY <1>0, <1>u, <1>7
       DEF Settle, LandedOnServers, Landed, To, KeptDate, KeepsIt, Late, NoRecord, None
<1>8. CASE PutBack
    BY <1>0, <1>u, <1>8 DEF PutBack, To, End, Fresh, KeptDate, KeepsIt, Late, NoRecord, None
<1>9. CASE Keep
    BY <1>0, <1>u, <1>9 DEF Keep, NextRef, To, End, Fresh, KeptDate, KeepsIt, Late, NoRecord, None
<1>10. CASE Prepare
    BY <1>0, <1>u, <1>10 DEF Prepare, Usable, To, KeptDate, KeepsIt, Late, NoRecord, None
<1>11. CASE Use
    BY <1>0, <1>u, <1>11 DEF Use, To, Alone, KeptDate, KeepsIt, Late, NoRecord, None
<1>12. CASE Compiled
    BY <1>0, <1>u, <1>12 DEF Compiled, To, KeptDate, KeepsIt, Late, NoRecord, None
<1>13. CASE Replace
    BY <1>0, <1>u, <1>13 DEF Replace, To, KeptDate, KeepsIt, Late, NoRecord, None
<1>14. CASE StartNew
    BY <1>0, <1>u, <1>14 DEF StartNew, Range, KeptDate, KeepsIt, Late, NoRecord, None
<1>15. CASE Ready
  <2>1. UNCHANGED <<made, keptRec>> /\ stopRec' \in {stopRec, None}
      BY <1>15 DEF Ready, End
  <2> QED
      BY <1>0, <2>1, KeptDateStays
<1>16. CASE Failed
  <2>1. UNCHANGED <<made, keptRec>> /\ (stopRec' = stopRec \/ buildExit = "cancelled") /\ pc = "failed"
      BY <1>16 DEF Failed, NothingMoved
  <2>2. buildExit = "cancelled" => keptRec.print = None
      BY <1>0, <2>1 DEF Kept
  <2> QED
      BY <1>0, <2>1, <2>2, KeptDateStays
<1>17. CASE StopNew
    BY <1>0, <1>u, <1>17 DEF StopNew, To, End, Fresh, KeptDate, KeepsIt, Late, NoRecord, None
<1>18. CASE WaitForDocker
    BY <1>0, <1>u, <1>18
       DEF WaitForDocker, To, End, Fresh, KeptDate, KeepsIt, Late, NoRecord, None
<1>19. CASE NameNew
    BY <1>0, <1>u, <1>19
       DEF NameNew, NotPutBack, NextRef, To, End, Fresh, KeptDate, KeepsIt, Late, NoRecord, None
<1>20. CASE MoveBack
    BY <1>0, <1>u, <1>20
       DEF MoveBack, NotPutBack, NextRef, To, End, Fresh, KeptDate, KeepsIt, Late, NoRecord, None
<1>21. CASE KeepNew
    BY <1>0, <1>u, <1>21 DEF KeepNew, WorthKeeping, To, KeptDate, KeepsIt, Late, NoRecord, None
<1>22. CASE ForgetKept
    BY <1>0, <1>u, <1>22 DEF ForgetKept, To, KeptDate, KeepsIt, Late, NoRecord, None
<1>23. CASE NameKept
    BY <1>0, <1>u, <1>23 DEF NameKept, To, KeptDate, KeepsIt, Late, NoRecord, None
<1>24. CASE RecordKept
  <2>1. pc = "recordKept" /\ UNCHANGED <<made, stopRec>> /\ KeepsIt
      BY <1>24 DEF RecordKept, KeepsIt
  <2>2. CASE parked # seen
      BY <1>0, <1>24, <2>1, <2>2, KeptDateStays DEF RecordKept
  <2>3. CASE parked = seen
    <3>1. keptRec' = [print |-> IF built THEN f0 ELSE stopRec, images |-> seen]
        BY <1>24, <2>3 DEF RecordKept
    <3>2. CASE built
      <4>1. seen = failed /\ after = f0 /\ f0 # None /\ \A r \in Refs : Guest(failed, r) /\ Copied(r)
          BY <1>0, <2>1, <3>2 DEF Copies, Copied
      <4>2. \A r \in Refs : made[seen[r]] >= f0 /\ made[seen[r]] >= stopRec
          BY <1>0, <4>1 DEF DoneDate, StoppedDate
      <4> QED
          BY <2>1, <3>1, <3>2, <4>2 DEF KeptDate
    <3>3. CASE ~built
      <4>1. stopRec # None /\ \A r \in Refs : seen[r] = live[r] /\ Guest(live, r)
          BY <1>0, <2>1, <3>3 DEF Moving, Remembers
      <4>2. \A r \in Refs : made[seen[r]] >= stopRec
          BY <1>0, <4>1 DEF StoppedDate
      <4> QED
          BY <2>1, <3>1, <3>3, <4>2 DEF KeptDate
    <3> QED
        BY <3>2, <3>3
  <2> QED
      BY <2>2, <2>3
<1>25. CASE Drop
  <2>1. UNCHANGED <<made, keptRec>> /\ stopRec' \in {stopRec, None}
      BY <1>25 DEF Drop, End
  <2> QED
      BY <1>0, <2>1, KeptDateStays
<1>26. CASE Restart
  <2>1. UNCHANGED <<made, keptRec>> /\ stopRec' \in {stopRec, None}
      BY <1>26 DEF Restart, End
  <2> QED
      BY <1>0, <2>1, KeptDateStays
<1>27. CASE StopBeforeTheBuild
    BY <1>0, <1>u, <1>27 DEF StopBeforeTheBuild, To, KeptDate, KeepsIt, Late, NoRecord, None
<1>28. CASE CompileFails
    BY <1>0, <1>u, <1>28 DEF CompileFails, To, KeptDate, KeepsIt, Late, NoRecord, None
<1>29. CASE StopTheCompile
    BY <1>0, <1>u, <1>29 DEF StopTheCompile, To, KeptDate, KeepsIt, Late, NoRecord, None
<1>30. CASE NotReady
    BY <1>0, <1>u, <1>30 DEF NotReady, To, KeptDate, KeepsIt, Late, NoRecord, None
<1>31. CASE WalkOut
  <2>1. /\ UNCHANGED <<made, keptRec>> /\ (stopRec' \in {stopRec, None} \/ buildExit = "cancelled")
        /\ pc \in {"prepare", "use", "compile", "replace", "start", "ready"}
      BY <1>31 DEF WalkOut, NothingMoved
  <2>2. buildExit = "cancelled" => pc = "compile"
      BY <1>0, <2>1 DEF Remembers
  <2>3. buildExit = "cancelled" => keptRec.print = None
      BY <1>0, <2>2 DEF Kept
  <2> QED
      BY <1>0, <2>1, <2>3, KeptDateStays
<1>32. CASE Killed
    BY <1>0, <1>u, <1>32 DEF Killed, End, Fresh, KeptDate, KeepsIt, Late, NoRecord, None
<1>33. CASE \E b \in Builds : ReadContext(b)
  <2> SUFFICES ASSUME NEW b \in Builds, ReadContext(b) PROVE KeptDate'
      BY <1>33
  <2> SUFFICES ASSUME keptRec.print # None, NEW r \in Refs
               PROVE  /\ made'[keptRec.images[r]] >= keptRec.print
                      /\ made'[keptRec.images[r]] >= stopRec
      BY <1>0, ReadOnce DEF KeptDate
  <2>1. keptRec.images \in Images /\ keptRec.images[r] # None
      BY <1>0 DEF RecordsOK, Whole, Full
  <2>2. keptRec.images[r] \in Builds /\ keptRec.print \in Nat /\ stopRec \in Nat
      BY <1>0, <2>1, BuildsAreMade DEF RecordsOK
  <2> QED
      BY <1>0, <2>2, ReadOnce DEF KeptDate
<1>34. CASE \E b \in Builds : Export(b)
    BY <1>0, <1>u, <1>34 DEF Export, KeptDate, KeepsIt, Late, NoRecord, None
<1>35. CASE \E b \in Builds : Dies(b)
    BY <1>0, <1>u, <1>35 DEF Dies, KeptDate, KeepsIt, Late, NoRecord, None
<1>36. CASE UNCHANGED vars
    BY <1>0, <1>u, <1>36 DEF vars, KeptDate, KeepsIt, Late, NoRecord, None
<1>37. CASE SettleUnread
    BY <1>u, <1>37 DEF SettleUnread
<1> QED
    BY <1>1, <1>2, <1>3, <1>4, <1>5, <1>6, <1>7, <1>8, <1>9, <1>10, <1>11, <1>12, <1>13, <1>14,
       <1>15, <1>16, <1>17, <1>18, <1>19, <1>20, <1>21, <1>22, <1>23, <1>24, <1>25, <1>26, <1>27,
       <1>28, <1>29, <1>30, <1>31, <1>32, <1>33, <1>34, <1>35, <1>36, <1>37
       DEF Next, PressSteps, Docker

(* A step that shows no other build keeps a stopped build as old as its record says. *)
LEMMA StoppedStays ==
    ASSUME Shape, Inv, Exact, UNCHANGED made, stopRec' \in {stopRec, None},
           \A b \in Builds : left'[b] > 0 => left[b] > 0,
           stopRec' # None => \A r \in Refs :
               live'[r] = rollback'[r] \/ (Guest(live, r) /\ live'[r] = live[r]),
           \A r \in Refs : Copied(r)' /\ Guest(failed, r)' =>
               Copied(r) /\ Guest(failed, r) /\ failed'[r] = failed[r]
    PROVE  StoppedDate'
<1>1. \A r \in Refs : Copied(r) => failed[r] # None
    BY DEF Shape, Whole, Full, Inv, Copies, Copied, KeepsIt
<1>2. \A r \in Refs : Copied(r) => made[failed[r]] \in Nat
    BY <1>1, BuildsAreMade DEF Shape, Typed, NamesOK
<1>3. \A r \in Refs : Copied(r)' /\ Guest(failed, r)' => made[failed'[r]] >= stopRec'
    BY <1>2 DEF Exact, StoppedDate, None
<1>4. stopRec' # None => /\ \A r \in Refs : Guest(live, r)' => made[live'[r]] >= stopRec'
                         /\ \A b \in Builds : left'[b] > 0 => Since(b, stopRec)'
    BY DEF Exact, StoppedDate, Since, Guest, None
<1> QED
    BY <1>3, <1>4 DEF StoppedDate

(* While a press names the new build, what it has named is what the live names name. *)
LEMMA Naming ==
    ASSUME Shape, Inv, NameNew, ~End
    PROVE  /\ pc = "name" /\ UNCHANGED <<live, rollback, records, docker, memory>>
           /\ \A r \in Refs : Copied(r)' => \/ r = at /\ failed'[r] = live[r]
                                            \/ Copied(r) /\ failed'[r] = failed[r]
<1> USE DEF Shape, Typed
<1>1. /\ pc = "name" /\ failed' = [failed EXCEPT ![at] = live[at]]
      /\ UNCHANGED <<live, rollback, records, docker, memory>>
    BY DEF NameNew, records
<1>2. failed'[at] = live[at] /\ \A r \in Refs : r # at => failed'[r] = failed[r]
    BY <1>1 DEF NamesOK, Images, PressOK
<1>3. \/ pc' = "name" /\ at' = at + 1
      \/ pc' = "back" /\ ~(at < NRefs)
    BY DEF NameNew, NextRef, To
<1>4. \A r \in Refs : Copied(r)' => r <= at
    BY <1>3, Constants DEF Copied, KeepsIt, PressOK, Refs
<1>5. \A r \in Refs : r <= at => r = at \/ (r # at /\ Copied(r))
    BY <1>1 DEF Copied, PressOK, Refs
<1> QED
    BY <1>1, <1>2, <1>4, <1>5

(* A stopped build is no older than its record says. *)
LEMMA StoppedDateStep == Shape /\ Inv /\ Exact /\ [Next]_vars /\ NoReturn' => StoppedDate'
<1> SUFFICES ASSUME Shape, Inv, Exact, [Next]_vars, NoReturn' PROVE StoppedDate'
    OBVIOUS
<1>0. Shape /\ Inv /\ Exact
    OBVIOUS
<1>u. /\ ~Upset("keep") /\ ~Upset("lateWalkout") /\ ~Upset("kill") /\ ~Upset("race")
      /\ ~Upset("partial") /\ ~Upset("second") /\ ~Upset("unread")
      /\ ~Upset("landed") /\ ~Upset("editBack")
    BY NoReturnStep DEF Unrecorded
<1> USE DEF Shape, Typed, Inv, Exact, names, records, docker, servers, memory
<1>1. CASE Start
    BY <1>0, <1>u, <1>1
       DEF Start, StartAllowed, StoppedBuildRefuses, Range, StoppedDate, Since, Guest, Copied,
           KeepsIt, Late, None
<1>2. CASE Stop
    BY <1>0, <1>u, <1>2 DEF Stop, StoppedDate, Since, Guest, Copied, KeepsIt, Late, None
<1>3. CASE Edit
    BY <1>0, <1>u, <1>3 DEF Edit, StoppedDate, Since, Guest, Copied, KeepsIt, Late, None
<1>4. CASE Press
    BY <1>0, <1>u, <1>4 DEF Press, To, StoppedDate, Since, Guest, Copied, KeepsIt, Late, None
<1>5. CASE NothingLanded
    BY <1>0, <1>u, <1>5
       DEF NothingLanded, LandedOnServers, Landed, To, StoppedDate, Since, Guest, Copied,
           KeepsIt, Late, None
<1>6. CASE SettleRefuses
    BY <1>0, <1>u, <1>6
       DEF SettleRefuses, LandedOnServers, Landed, End, Fresh, StoppedDate, Since, Guest, Copied,
           KeepsIt, Late, None
<1>7. CASE Settle
  <2>1. UNCHANGED <<made, stopRec, left, live, rollback, failed>> /\ pc = "settle"
      BY <1>7 DEF Settle
  <2>2. ~built /\ UNCHANGED built /\ pc' \in {"forget", "putBack"}
      BY <1>0, <2>1, <1>7 DEF Settle, To, Course
  <2>3. \A r \in Refs : ~Copied(r)'
      BY <2>2 DEF Copied, KeepsIt
  <2> QED
      BY <1>0, <2>1, <2>3, StoppedStays DEF Guest
<1>8. CASE PutBack
  <2>1. UNCHANGED <<made, stopRec, left, rollback, failed>> /\ pc' \in {"putBack", "keep", "idle"}
      BY <1>8 DEF PutBack, To, End
  <2>2. \A r \in Refs : live'[r] \in {live[r], rollback[r]}
      BY <1>0, <1>8 DEF PutBack, NamesOK, Images, PressOK
  <2>3. \A r \in Refs : ~Copied(r)'
      BY <2>1 DEF Copied, KeepsIt
  <2> QED
      BY <1>0, <2>1, <2>2, <2>3, StoppedStays DEF Guest
<1>9. CASE Keep
  <2>1. /\ UNCHANGED <<made, stopRec, left, live, failed>> /\ pc' \in {"keep", "prepare"}
        /\ stopRec # None => \A r \in Refs : rollback'[r] = live[r]
      BY <1>0, <1>u, <1>9, Keeping
  <2>2. \A r \in Refs : ~Copied(r)'
      BY <2>1 DEF Copied, KeepsIt
  <2> QED
      BY <1>0, <2>1, <2>2, StoppedStays
<1>10. CASE Prepare
  <2>1. pc' \in {"use", "compile"} /\ UNCHANGED <<made, stopRec, live, rollback, failed>>
      BY <1>10 DEF Prepare, To
  <2>2. \A r \in Refs : ~Copied(r)'
      BY <2>1 DEF Copied, KeepsIt
  <2>3. CASE Usable
    <3>1. UNCHANGED left
        BY <1>10, <2>3 DEF Prepare
    <3> QED
        BY <1>0, <2>1, <2>2, <3>1, StoppedStays DEF Guest
  <2>4. CASE ~Usable
    <3>1. left' = [left EXCEPT ![last + 1] = NRefs]
        BY <1>10, <2>4 DEF Prepare
    <3>2. \A b \in Builds : left'[b] > 0 => left[b] > 0 \/ b = last + 1
        BY <1>0, <3>1 DEF DockerOK
    <3>3. \A b \in Builds : b = last + 1 => made[b] = None
        BY <1>0 DEF AtWork, DockerOK, Builds
    <3>4. stopRec' # None => /\ \A r \in Refs : Guest(live, r)' => made'[live'[r]] >= stopRec'
                             /\ \A b \in Builds : left'[b] > 0 => Since(b, stopRec)'
        BY <1>0, <2>1, <3>2, <3>3 DEF StoppedDate, Since, Guest
    <3> QED
        BY <2>2, <3>4 DEF StoppedDate
  <2> QED
      BY <2>3, <2>4
<1>11. CASE Use
  <2>1. /\ pc = "use" /\ pc' \in {"use", "replace", "failed"}
        /\ UNCHANGED <<made, stopRec, rollback, failed>>
      BY <1>11 DEF Use, To
  <2>2. \A r \in Refs : ~Copied(r)'
      BY <2>1 DEF Copied, KeepsIt
  <2>3. \A b \in Builds : left'[b] = 0
      BY <1>0, <2>1, <1>11 DEF Use, Alone, Whole, AtWork, Quiet
  <2>4. \A r \in Refs : live'[r] \in {live[r], parked[r]}
      BY <1>0, <1>11 DEF Use, NamesOK, Images, PressOK
  <2>5. stopRec # None => \A r \in Refs : made[parked[r]] >= stopRec
      BY <1>0, <2>1 DEF Whole, KeptDate
  <2>6. stopRec' # None => \A r \in Refs : Guest(live, r)' => made'[live'[r]] >= stopRec'
      BY <1>0, <2>1, <2>4, <2>5 DEF StoppedDate, Guest
  <2> QED
      BY <2>2, <2>3, <2>6, Constants DEF StoppedDate
<1>12. CASE Compiled
    BY <1>0, <1>u, <1>12 DEF Compiled, To, StoppedDate, Since, Guest, Copied, KeepsIt, Late, None
<1>13. CASE Replace
    BY <1>0, <1>u, <1>13 DEF Replace, To, StoppedDate, Since, Guest, Copied, KeepsIt, Late, None
<1>14. CASE StartNew
    BY <1>0, <1>u, <1>14
       DEF StartNew, Range, StoppedDate, Since, Guest, Copied, KeepsIt, Late, None
<1>15. CASE Ready
    BY <1>0, <1>u, <1>15
       DEF Ready, End, Fresh, StoppedDate, Since, Guest, Copied, KeepsIt, Late, None
<1>16. CASE Failed
  <2>1. pc = "failed" /\ Late /\ (pc = "compile" => ~hold)
      BY <1>16 DEF Failed, Late, KeepsIt
  <2>2. CASE Tagged(happened' = happened)
    <3>1. UNCHANGED <<made, stopRec, live, rollback, failed>> /\ pc' \in {"stopNew", "wait"}
        BY <1>16, <2>2 DEF Failed, To
    <3>2. \A r \in Refs : ~Copied(r)'
        BY <3>1 DEF Copied, KeepsIt
    <3>3. \A b \in Builds : left'[b] > 0 => left[b] > 0
        BY <1>0, <1>16 DEF Failed, PartOnly, DockerOK
    <3> QED
        BY <1>0, <3>1, <3>2, <3>3, StoppedStays DEF Guest
  <2>3. CASE ~Tagged(happened' = happened) /\ live = rollback
    <3>1. NothingMoved /\ live = rollback /\ UNCHANGED <<made, left, live, failed>> /\ pc' = "idle"
        BY <1>16, <2>3 DEF Failed, End
    <3>2. \A r \in Refs : ~Copied(r)'
        BY <3>1 DEF Copied, KeepsIt
    <3>3. stopRec' # None => UNCHANGED rollback
        BY <1>0, <2>1, <3>1 DEF NothingMoved, Remembers
    <3>4. stopRec' # None => \A r \in Refs : live'[r] = rollback'[r]
        BY <3>1, <3>3
    <3>5. CASE stopRec' = stopRec
        BY <1>0, <3>1, <3>2, <3>4, <3>5, StoppedStays
    <3>6. CASE stopRec' # stopRec
      <4>1. stopRec' = f0 /\ buildExit = "cancelled"
          BY <3>1, <3>6 DEF NothingMoved
      <4>2. ~hold
          BY <1>0, <2>1, <4>1 DEF Remembers
      <4>3. \A b \in Builds : left[b] > 0 => b = last
          BY <1>0, <2>1, <4>2 DEF AtWork
      <4>4. pc \in {"failed", "compile"}
          BY <1>0, <2>1, <4>1 DEF Remembers
      <4>5. Since(last, f0)
          BY <1>0, <4>1, <4>4 DEF CompileDate
      <4> QED
          BY <3>1, <3>2, <3>4, <4>1, <4>3, <4>5 DEF StoppedDate, Since, Guest
    <3> QED
        BY <3>5, <3>6
  <2>4. CASE ~Tagged(happened' = happened) /\ live # rollback
    <3>1. NothingMoved /\ UNCHANGED <<made, left, live, failed>> /\ pc' = "idle" /\ ~built
        BY <1>16, <2>4 DEF Failed, End, Tagged
    <3>2. \A r \in Refs : ~Copied(r)'
        BY <3>1 DEF Copied, KeepsIt
    <3>3. buildExit # "cancelled"
        BY <2>4 DEF Tagged, Moved, MayHaveTagged
    <3>4. UNCHANGED stopRec /\ (stopRec # None => UNCHANGED rollback)
        BY <1>0, <2>1, <3>1, <3>3 DEF NothingMoved, Remembers
    <3> QED
        BY <1>0, <3>1, <3>2, <3>4, StoppedStays DEF Guest
  <2> QED
      BY <2>2, <2>3, <2>4
<1>17. CASE StopNew
  <2>1. /\ UNCHANGED <<made, stopRec, left, live, rollback, failed>>
        /\ pc' = "idle" \/ (pc' = "name" /\ at' = 1)
      BY <1>17 DEF StopNew, To, End
  <2>2. \A r \in Refs : ~Copied(r)'
      BY <2>1, Constants DEF Copied, KeepsIt, Refs
  <2> QED
      BY <1>0, <2>1, <2>2, StoppedStays DEF Guest
<1>18. CASE WaitForDocker
  <2>1. /\ UNCHANGED <<made, stopRec, left, live, rollback, failed>>
        /\ pc' = "idle" \/ (pc' = "name" /\ at' = 1)
      BY <1>18 DEF WaitForDocker, To, End
  <2>2. \A r \in Refs : ~Copied(r)'
      BY <2>1, Constants DEF Copied, KeepsIt, Refs
  <2> QED
      BY <1>0, <2>1, <2>2, StoppedStays DEF Guest
<1>19. CASE NameNew
  <2>1. CASE End
    <3>1. UNCHANGED <<made, stopRec, left, live, rollback>>
        BY <1>19 DEF NameNew
    <3>2. \A r \in Refs : ~Copied(r)'
        BY <2>1 DEF End, Copied, KeepsIt
    <3> QED
        BY <1>0, <3>1, <3>2, StoppedStays DEF Guest
  <2>2. CASE ~End
    <3>1. /\ UNCHANGED <<made, stopRec, left, live, rollback>>
          /\ \A r \in Refs : Copied(r)' => \/ r = at /\ failed'[r] = live[r]
                                           \/ Copied(r) /\ failed'[r] = failed[r]
        BY <1>0, <1>19, <2>2, Naming
    <3>2. \A r \in Refs : Guest(live, r) => made[live[r]] >= stopRec
      <4>1. \A r \in Refs : made[live[r]] \in Nat
          BY <1>0, BuildsAreMade DEF Whole, Full, NamesOK
      <4> QED
          BY <1>0, <4>1 DEF StoppedDate, None
    <3>3. \A r \in Refs : Copied(r)' /\ Guest(failed, r)' => made'[failed'[r]] >= stopRec'
        BY <1>0, <3>1, <3>2 DEF StoppedDate, Guest
    <3>4. stopRec' # None => /\ \A r \in Refs : Guest(live, r)' => made'[live'[r]] >= stopRec'
                             /\ \A b \in Builds : left'[b] > 0 => Since(b, stopRec)'
        BY <1>0, <3>1 DEF StoppedDate, Since, Guest
    <3> QED
        BY <3>3, <3>4 DEF StoppedDate
  <2> QED
      BY <2>1, <2>2
<1>20. CASE MoveBack
  <2>1. /\ pc = "back" /\ UNCHANGED <<made, stopRec, left, rollback>>
        /\ pc' = "idle" \/ UNCHANGED failed
      BY <1>20 DEF MoveBack, End
  <2>2. \A r \in Refs : live'[r] \in {live[r], rollback[r], failed[r]} /\ Copied(r)
      BY <1>0, <2>1, <1>20 DEF MoveBack, NamesOK, Images, PressOK, Copied
  <2>3. \A r \in Refs : Copied(r)' /\ Guest(failed, r)' => made'[failed'[r]] >= stopRec'
      BY <1>0, <2>1, <2>2 DEF StoppedDate, Guest, Copied, KeepsIt
  <2>4. stopRec' # None => /\ \A r \in Refs : Guest(live, r)' => made'[live'[r]] >= stopRec'
                           /\ \A b \in Builds : left'[b] > 0 => Since(b, stopRec)'
      BY <1>0, <2>1, <2>2 DEF StoppedDate, Since, Guest
  <2> QED
      BY <2>3, <2>4 DEF StoppedDate
<1>21. CASE KeepNew
    BY <1>0, <1>u, <1>21
       DEF KeepNew, WorthKeeping, To, StoppedDate, Since, Guest, Copied, KeepsIt, Late, None
<1>22. CASE ForgetKept
    BY <1>0, <1>u, <1>22
       DEF ForgetKept, To, StoppedDate, Since, Guest, Copied, KeepsIt, Late, None
<1>23. CASE NameKept
    BY <1>0, <1>u, <1>23 DEF NameKept, To, StoppedDate, Since, Guest, Copied, KeepsIt, Late, None
<1>24. CASE RecordKept
    BY <1>0, <1>u, <1>24
       DEF RecordKept, To, StoppedDate, Since, Guest, Copied, KeepsIt, Late, None
<1>25. CASE Drop
  <2>1. /\ pc = "drop" /\ pc' \in {"restart", "idle"} /\ UNCHANGED <<made, left, live>> /\ Late
        /\ stopRec' \in {stopRec, None}
      BY <1>25 DEF Drop, To, End, Late, KeepsIt
  <2>2. \A r \in Refs : ~Copied(r)'
      BY <2>1 DEF Copied, KeepsIt
  <2>3. stopRec' # None => UNCHANGED rollback
      BY <1>0, <2>1, <1>25 DEF Drop, LetGo, Remembers
  <2> QED
      BY <1>0, <2>1, <2>2, <2>3, StoppedStays DEF Guest
<1>26. CASE Restart
  <2>1. pc = "restart" /\ pc' = "idle" /\ UNCHANGED <<made, left, live>> /\ stopRec' = None
      BY <1>0, <1>26 DEF Restart, End, Remembers, Late, KeepsIt
  <2>2. \A r \in Refs : ~Copied(r)'
      BY <2>1 DEF Copied, KeepsIt
  <2> QED
      BY <1>0, <2>1, <2>2, StoppedStays
<1>27. CASE StopBeforeTheBuild
    BY <1>0, <1>u, <1>27
       DEF StopBeforeTheBuild, To, StoppedDate, Since, Guest, Copied, KeepsIt, Late, None
<1>28. CASE CompileFails
    BY <1>0, <1>u, <1>28
       DEF CompileFails, To, StoppedDate, Since, Guest, Copied, KeepsIt, Late, None
<1>29. CASE StopTheCompile
    BY <1>0, <1>u, <1>29
       DEF StopTheCompile, To, StoppedDate, Since, Guest, Copied, KeepsIt, Late, None
<1>30. CASE NotReady
    BY <1>0, <1>u, <1>30 DEF NotReady, To, StoppedDate, Since, Guest, Copied, KeepsIt, Late, None
<1>31. CASE WalkOut
  <2>1. Late /\ (pc = "compile" => ~hold) /\ pc \in {"prepare", "use", "compile", "replace", "start", "ready"}
      BY <1>31 DEF WalkOut, Late, KeepsIt
  <2>2. CASE Tagged(TRUE)
    <3>1. /\ UNCHANGED <<made, live, rollback, failed>> /\ pc' = "idle"
          /\ stopRec' \in {stopRec, None}
        BY <1>31, <2>2 DEF WalkOut, End
    <3>2. \A r \in Refs : ~Copied(r)'
        BY <3>1 DEF Copied, KeepsIt
    <3>3. \A b \in Builds : left'[b] > 0 => left[b] > 0
        BY <1>0, <1>31, <2>2 DEF WalkOut, PartOnly, DockerOK
    <3> QED
        BY <1>0, <3>1, <3>2, <3>3, StoppedStays DEF Guest
  <2>3. CASE ~Tagged(TRUE)
    <3>1. NothingMoved /\ live = rollback /\ UNCHANGED <<made, left, live, failed>> /\ pc' = "idle"
        BY <1>31, <2>3 DEF WalkOut, Tagged, Moved, End
    <3>2. \A r \in Refs : ~Copied(r)'
        BY <3>1 DEF Copied, KeepsIt
    <3>3. stopRec' # None => UNCHANGED rollback
        BY <1>0, <2>1, <3>1 DEF NothingMoved, Remembers
    <3>4. stopRec' # None => \A r \in Refs : live'[r] = rollback'[r]
        BY <3>1, <3>3
    <3>5. CASE stopRec' = stopRec
        BY <1>0, <3>1, <3>2, <3>4, <3>5, StoppedStays
    <3>6. CASE stopRec' # stopRec
      <4>1. stopRec' = f0 /\ buildExit = "cancelled"
          BY <3>1, <3>6 DEF NothingMoved
      <4>2. ~hold
          BY <1>0, <2>1, <4>1 DEF Remembers
      <4>3. \A b \in Builds : left[b] > 0 => b = last
          BY <1>0, <2>1, <4>2 DEF AtWork
      <4>4. pc \in {"failed", "compile"}
          BY <1>0, <2>1, <4>1 DEF Remembers
      <4>5. Since(last, f0)
          BY <1>0, <4>1, <4>4 DEF CompileDate
      <4> QED
          BY <3>1, <3>2, <3>4, <4>1, <4>3, <4>5 DEF StoppedDate, Since, Guest
    <3> QED
        BY <3>5, <3>6
  <2> QED
      BY <2>2, <2>3
<1>32. CASE Killed
    BY <1>0, <1>u, <1>32
       DEF Killed, End, Fresh, StoppedDate, Since, Guest, Copied, KeepsIt, Late, None
<1>33. CASE \E b \in Builds : ReadContext(b)
  <2> SUFFICES ASSUME NEW b \in Builds, ReadContext(b) PROVE StoppedDate'
      BY <1>33
  <2>1. /\ made'[b] = folder /\ folder \in Nat /\ \A c \in Builds : c # b => made'[c] = made[c]
        /\ \A c \in Builds : made[c] \in Nat /\ made'[c] \in Nat /\ made'[c] >= made[c]
        /\ UNCHANGED <<live, rollback, failed, stopRec, left, pc, at, built, seen>>
      BY <1>0, ReadOnce
  <2>2. \A r \in Refs : Copied(r) => failed[r] # None
      BY <1>0 DEF Whole, Full, Copies, Copied, KeepsIt
  <2>3. \A r \in Refs : live[r] \in Builds /\ (Copied(r) => failed[r] \in Builds)
      BY <1>0, <2>2, BuildsAreMade DEF Whole, Full, NamesOK
  <2>4. stopRec \in Nat /\ stopRec <= folder /\ \A r \in Refs : Copied(r)' = Copied(r)
      BY <1>0, <2>1 DEF Dated, RecordsOK, Copied, KeepsIt
  <2>5. \A r \in Refs : Copied(r)' /\ Guest(failed, r)' => made'[failed'[r]] >= stopRec'
      BY <1>0, <2>1, <2>3, <2>4 DEF StoppedDate, Guest
  <2>6. stopRec' # None => /\ \A r \in Refs : Guest(live, r)' => made'[live'[r]] >= stopRec'
                           /\ \A c \in Builds : left'[c] > 0 => Since(c, stopRec)'
      BY <1>0, <2>1, <2>3, <2>4 DEF StoppedDate, Since, Guest
  <2> QED
      BY <2>5, <2>6 DEF StoppedDate
<1>34. CASE \E b \in Builds : Export(b)
    BY <1>0, <1>u, <1>34 DEF Export, StoppedDate, Since, Guest, Copied, KeepsIt, Late, None
<1>35. CASE \E b \in Builds : Dies(b)
    BY <1>0, <1>u, <1>35 DEF Dies, StoppedDate, Since, Guest, Copied, KeepsIt, Late, None
<1>36. CASE UNCHANGED vars
    BY <1>0, <1>u, <1>36 DEF vars, StoppedDate, Since, Guest, Copied, KeepsIt, Late, None
<1>37. CASE SettleUnread
    BY <1>u, <1>37 DEF SettleUnread
<1> QED
    BY <1>1, <1>2, <1>3, <1>4, <1>5, <1>6, <1>7, <1>8, <1>9, <1>10, <1>11, <1>12, <1>13, <1>14,
       <1>15, <1>16, <1>17, <1>18, <1>19, <1>20, <1>21, <1>22, <1>23, <1>24, <1>25, <1>26, <1>27,
       <1>28, <1>29, <1>30, <1>31, <1>32, <1>33, <1>34, <1>35, <1>36, <1>37
       DEF Next, PressSteps, Docker

(* A compile reads the folder after the press did. *)
LEMMA CompileDateStep == Shape /\ Inv /\ Exact /\ [Next]_vars /\ NoReturn' => CompileDate'
<1> SUFFICES ASSUME Shape, Inv, Exact, [Next]_vars, NoReturn' PROVE CompileDate'
    OBVIOUS
<1>0. Shape /\ Inv /\ Exact
    OBVIOUS
<1>u. /\ ~Upset("keep") /\ ~Upset("lateWalkout") /\ ~Upset("kill") /\ ~Upset("race")
      /\ ~Upset("partial") /\ ~Upset("second") /\ ~Upset("unread")
      /\ ~Upset("landed") /\ ~Upset("editBack")
    BY NoReturnStep DEF Unrecorded
<1> USE DEF Shape, Typed, Inv, Exact, names, records, docker, servers, memory
<1>1. CASE Start
    BY <1>0, <1>u, <1>1
       DEF Start, StartAllowed, StoppedBuildRefuses, Range, CompileDate, Since, Dated, Remembers,
           KeepsIt, Late, None
<1>2. CASE Stop
    BY <1>0, <1>u, <1>2 DEF Stop, CompileDate, Since, Dated, Remembers, KeepsIt, Late, None
<1>3. CASE Edit
    BY <1>0, <1>u, <1>3 DEF Edit, CompileDate, Since, Dated, Remembers, KeepsIt, Late, None
<1>4. CASE Press
    BY <1>0, <1>u, <1>4 DEF Press, To, CompileDate, Since, Dated, Remembers, KeepsIt, Late, None
<1>5. CASE NothingLanded
    BY <1>0, <1>u, <1>5
       DEF NothingLanded, LandedOnServers, Landed, To, CompileDate, Since, Dated, Remembers,
           KeepsIt, Late, None
<1>6. CASE SettleRefuses
    BY <1>0, <1>u, <1>6
       DEF SettleRefuses, LandedOnServers, Landed, End, Fresh, CompileDate, Since, Dated,
           Remembers, KeepsIt, Late, None
<1>7. CASE Settle
    BY <1>0, <1>u, <1>7
       DEF Settle, LandedOnServers, Landed, To, CompileDate, Since, Dated, Remembers, KeepsIt,
           Late, None
<1>8. CASE PutBack
    BY <1>0, <1>u, <1>8
       DEF PutBack, To, End, Fresh, CompileDate, Since, Dated, Remembers, KeepsIt, Late, None
<1>9. CASE Keep
    BY <1>0, <1>u, <1>9
       DEF Keep, NextRef, To, End, Fresh, CompileDate, Since, Dated, Remembers, KeepsIt, Late,
           None
<1>10. CASE Prepare
  <2>1. CASE Usable
    <3>1. pc' = "use"
        BY <1>10, <2>1 DEF Prepare, To
    <3> QED
        BY <3>1 DEF CompileDate
  <2>2. CASE ~Usable
    <3>1. last' = last + 1 /\ left' = [left EXCEPT ![last + 1] = NRefs] /\ UNCHANGED made
        BY <1>10, <2>2 DEF Prepare
    <3>2. last + 1 \in Builds
        BY <1>0, <1>10, Constants DEF Prepare, Course, DockerOK, Builds
    <3>3. made'[last'] = None /\ left'[last'] = NRefs
        BY <1>0, <3>1, <3>2 DEF AtWork, DockerOK, Builds
    <3> QED
        BY <3>3, Constants DEF CompileDate, Since
  <2> QED
      BY <2>1, <2>2
<1>11. CASE Use
    BY <1>0, <1>u, <1>11
       DEF Use, To, Alone, CompileDate, Since, Dated, Remembers, KeepsIt, Late, None
<1>12. CASE Compiled
    BY <1>0, <1>u, <1>12
       DEF Compiled, To, CompileDate, Since, Dated, Remembers, KeepsIt, Late, None
<1>13. CASE Replace
  <2>1. pc' # "compile" /\ UNCHANGED buildExit /\ buildExit # "cancelled"
      BY <1>0, <1>13 DEF Replace, To, Remembers
  <2> QED
      BY <2>1 DEF CompileDate
<1>14. CASE StartNew
  <2>1. pc' # "compile" /\ UNCHANGED buildExit /\ buildExit # "cancelled"
      BY <1>0, <1>14 DEF StartNew, To, Remembers
  <2> QED
      BY <2>1 DEF CompileDate
<1>15. CASE Ready
    BY <1>0, <1>u, <1>15
       DEF Ready, End, Fresh, CompileDate, Since, Dated, Remembers, KeepsIt, Late, None
<1>16. CASE Failed
    BY <1>0, <1>u, <1>16
       DEF Failed, AsksDocker, Tagged, MayHaveTagged, NothingMoved, PartOnly, To, End, Fresh,
           CompileDate, Since, Dated, Remembers, KeepsIt, Late, None
<1>17. CASE StopNew
    BY <1>0, <1>u, <1>17
       DEF StopNew, To, End, Fresh, CompileDate, Since, Dated, Remembers, KeepsIt, Late, None
<1>18. CASE WaitForDocker
    BY <1>0, <1>u, <1>18
       DEF WaitForDocker, To, End, Fresh, CompileDate, Since, Dated, Remembers, KeepsIt, Late,
           None
<1>19. CASE NameNew
    BY <1>0, <1>u, <1>19
       DEF NameNew, NotPutBack, NextRef, To, End, Fresh, CompileDate, Since, Dated, Remembers,
           KeepsIt, Late, None
<1>20. CASE MoveBack
    BY <1>0, <1>u, <1>20
       DEF MoveBack, NotPutBack, NextRef, To, End, Fresh, CompileDate, Since, Dated, Remembers,
           KeepsIt, Late, None
<1>21. CASE KeepNew
    BY <1>0, <1>u, <1>21
       DEF KeepNew, WorthKeeping, To, CompileDate, Since, Dated, Remembers, KeepsIt, Late, None
<1>22. CASE ForgetKept
    BY <1>0, <1>u, <1>22
       DEF ForgetKept, To, CompileDate, Since, Dated, Remembers, KeepsIt, Late, None
<1>23. CASE NameKept
    BY <1>0, <1>u, <1>23
       DEF NameKept, To, CompileDate, Since, Dated, Remembers, KeepsIt, Late, None
<1>24. CASE RecordKept
    BY <1>0, <1>u, <1>24
       DEF RecordKept, To, CompileDate, Since, Dated, Remembers, KeepsIt, Late, None
<1>25. CASE Drop
    BY <1>0, <1>u, <1>25
       DEF Drop, LetGo, To, StartAllowed, StoppedBuildRefuses, End, Fresh, CompileDate, Since,
           Dated, Remembers, KeepsIt, Late, None
<1>26. CASE Restart
    BY <1>0, <1>u, <1>26
       DEF Restart, LetGo, Range, End, Fresh, CompileDate, Since, Dated, Remembers, KeepsIt,
           Late, None
<1>27. CASE StopBeforeTheBuild
    BY <1>0, <1>u, <1>27
       DEF StopBeforeTheBuild, To, CompileDate, Since, Dated, Remembers, KeepsIt, Late, None
<1>28. CASE CompileFails
    BY <1>0, <1>u, <1>28
       DEF CompileFails, To, CompileDate, Since, Dated, Remembers, KeepsIt, Late, None
<1>29. CASE StopTheCompile
    BY <1>0, <1>u, <1>29
       DEF StopTheCompile, To, CompileDate, Since, Dated, Remembers, KeepsIt, Late, None
<1>30. CASE NotReady
  <2>1. pc' # "compile" /\ UNCHANGED buildExit /\ buildExit # "cancelled"
      BY <1>0, <1>30 DEF NotReady, To, Remembers
  <2> QED
      BY <2>1 DEF CompileDate
<1>31. CASE WalkOut
    BY <1>0, <1>u, <1>31
       DEF WalkOut, Tagged, MayHaveTagged, NothingMoved, PartOnly, End, Fresh, CompileDate,
           Since, Dated, Remembers, KeepsIt, Late, None
<1>32. CASE Killed
    BY <1>0, <1>u, <1>32
       DEF Killed, End, Fresh, CompileDate, Since, Dated, Remembers, KeepsIt, Late, None
<1>33. CASE \E b \in Builds : ReadContext(b)
    BY <1>0, <1>u, <1>33
       DEF ReadContext, CompileDate, Since, Dated, Remembers, KeepsIt, Late, None
<1>34. CASE \E b \in Builds : Export(b)
    BY <1>0, <1>u, <1>34 DEF Export, CompileDate, Since, Dated, Remembers, KeepsIt, Late, None
<1>35. CASE \E b \in Builds : Dies(b)
    BY <1>0, <1>u, <1>35 DEF Dies, CompileDate, Since, Dated, Remembers, KeepsIt, Late, None
<1>36. CASE UNCHANGED vars
    BY <1>0, <1>u, <1>36 DEF vars, CompileDate, Since, Dated, Remembers, KeepsIt, Late, None
<1>37. CASE SettleUnread
    BY <1>u, <1>37 DEF SettleUnread
<1> QED
    BY <1>1, <1>2, <1>3, <1>4, <1>5, <1>6, <1>7, <1>8, <1>9, <1>10, <1>11, <1>12, <1>13, <1>14,
       <1>15, <1>16, <1>17, <1>18, <1>19, <1>20, <1>21, <1>22, <1>23, <1>24, <1>25, <1>26, <1>27,
       <1>28, <1>29, <1>30, <1>31, <1>32, <1>33, <1>34, <1>35, <1>36, <1>37
       DEF Next, PressSteps, Docker

(* An image a compile has named was made from the folder as the press read it, or later. *)
LEMMA CompiledIsRecent ==
    ASSUME Shape, Exact, pc = "compile", left[last] < NRefs
    PROVE  made[last] >= f0
    BY DEF Exact, CompileDate, Since

(* A build that is done is no older than what the press read. *)
LEMMA DoneDateStep == Shape /\ Inv /\ Exact /\ [Next]_vars /\ NoReturn' => DoneDate'
<1> SUFFICES ASSUME Shape, Inv, Exact, [Next]_vars, NoReturn' PROVE DoneDate'
    OBVIOUS
<1>0. Shape /\ Inv /\ Exact
    OBVIOUS
<1>u. /\ ~Upset("keep") /\ ~Upset("lateWalkout") /\ ~Upset("kill") /\ ~Upset("race")
      /\ ~Upset("partial") /\ ~Upset("second") /\ ~Upset("unread")
      /\ ~Upset("landed") /\ ~Upset("editBack")
    BY NoReturnStep DEF Unrecorded
<1> USE DEF Shape, Typed, Inv, Exact, names, records, docker, servers, memory
<1>1. CASE Start
    BY <1>0, <1>u, <1>1
       DEF Start, StartAllowed, StoppedBuildRefuses, Range, DoneDate, Quiet, Guest, Copied,
           Remembers, KeepsIt, Late, None
<1>2. CASE Stop
    BY <1>0, <1>u, <1>2 DEF Stop, DoneDate, Quiet, Guest, Copied, Remembers, KeepsIt, Late, None
<1>3. CASE Edit
    BY <1>0, <1>u, <1>3 DEF Edit, DoneDate, Quiet, Guest, Copied, Remembers, KeepsIt, Late, None
<1>4. CASE Press
    BY <1>0, <1>u, <1>4
       DEF Press, To, DoneDate, Quiet, Guest, Copied, Remembers, KeepsIt, Late, None
<1>5. CASE NothingLanded
    BY <1>0, <1>u, <1>5
       DEF NothingLanded, LandedOnServers, Landed, To, DoneDate, Quiet, Guest, Copied, Remembers,
           KeepsIt, Late, None
<1>6. CASE SettleRefuses
    BY <1>0, <1>u, <1>6
       DEF SettleRefuses, LandedOnServers, Landed, End, Fresh, DoneDate, Quiet, Guest, Copied,
           Remembers, KeepsIt, Late, None
<1>7. CASE Settle
    BY <1>0, <1>u, <1>7
       DEF Settle, LandedOnServers, Landed, To, DoneDate, Quiet, Guest, Copied, Remembers,
           KeepsIt, Late, None
<1>8. CASE PutBack
    BY <1>0, <1>u, <1>8
       DEF PutBack, To, End, Fresh, DoneDate, Quiet, Guest, Copied, Remembers, KeepsIt, Late,
           None
<1>9. CASE Keep
    BY <1>0, <1>u, <1>9
       DEF Keep, NextRef, To, End, Fresh, DoneDate, Quiet, Guest, Copied, Remembers, KeepsIt,
           Late, None
<1>10. CASE Prepare
  <2>1. pc = "prepare" /\ pc' \in {"use", "compile"} /\ after' = None /\ ~tagging
      BY <1>0, <1>10 DEF Prepare, To, Remembers
  <2>2. tagging' => \A r \in Refs : ~Guest(live, r)'
      BY <1>0, <2>1, <1>10 DEF Prepare, Usable, Moving, NoGuest, Guest
  <2> QED
      BY <2>1, <2>2 DEF DoneDate
<1>11. CASE Use
  <2>1. /\ pc = "use" /\ pc' \in {"use", "replace", "failed"} /\ UNCHANGED <<rollback, made, f0>>
      BY <1>11 DEF Use, To
  <2>2. \A r \in Refs : ~Copied(r)'
      BY <2>1 DEF Copied, KeepsIt
  <2>3. \A b \in Builds : left'[b] = 0
      BY <1>0, <2>1, <1>11 DEF Use, Alone, Whole, AtWork, Quiet
  <2>4. \A r \in Refs : live'[r] \in {live[r], parked[r]}
      BY <1>0, <1>11 DEF Use, NamesOK, Images, PressOK
  <2>5. \A r \in Refs : made[parked[r]] = f0 /\ f0 \in Nat
      BY <1>0, <2>1 DEF UsedDate, ReadOK
  <2>6. tagging
      BY <1>0, <2>1 DEF Remembers
  <2>7. \A r \in Refs : Guest(live, r)' => made'[live'[r]] >= f0'
      BY <1>0, <2>1, <2>4, <2>5, <2>6 DEF DoneDate, Guest
  <2> QED
      BY <2>2, <2>3, <2>7 DEF DoneDate, Quiet
<1>12. CASE Compiled
  <2>1. /\ pc = "compile" /\ left[last] = 0 /\ pc' \in {"replace", "failed"}
        /\ UNCHANGED <<live, rollback, made, left, f0, tagging>>
      BY <1>12 DEF Compiled, To
  <2>2. \A r \in Refs : live[r] = last
      BY <1>0, <2>1, CompiledIsDone
  <2>3. made[last] >= f0 /\ Quiet
      BY <1>0, <2>1, Constants, CompiledIsRecent, CompiledIsDone
  <2>4. \A r \in Refs : ~Copied(r)'
      BY <2>1 DEF Copied, KeepsIt
  <2> QED
      BY <2>1, <2>2, <2>3, <2>4 DEF DoneDate, Quiet
<1>13. CASE Replace
    BY <1>0, <1>u, <1>13
       DEF Replace, To, DoneDate, Quiet, Guest, Copied, Remembers, KeepsIt, Late, None
<1>14. CASE StartNew
    BY <1>0, <1>u, <1>14
       DEF StartNew, Range, DoneDate, Quiet, Guest, Copied, Remembers, KeepsIt, Late, None
<1>15. CASE Ready
    BY <1>0, <1>u, <1>15
       DEF Ready, End, Fresh, DoneDate, Quiet, Guest, Copied, Remembers, KeepsIt, Late, None
<1>16. CASE Failed
    BY <1>0, <1>u, <1>16
       DEF Failed, AsksDocker, Tagged, MayHaveTagged, NothingMoved, PartOnly, To, End, Fresh,
           DoneDate, Quiet, Guest, Copied, Remembers, KeepsIt, Late, None
<1>17. CASE StopNew
  <2>1. CASE End
      BY <2>1 DEF End, Fresh, DoneDate
  <2>2. CASE ~End
    <3>1. /\ pc = "stopNew" /\ pc' = "name" /\ at' = 1
          /\ UNCHANGED <<live, rollback, made, left, memory>>
        BY <1>17, <2>2 DEF StopNew, To
    <3>2. \A r \in Refs : ~Copied(r)'
        BY <3>1, Constants DEF Copied, KeepsIt, Refs
    <3> QED
        BY <1>0, <3>1, <3>2 DEF DoneDate, Guest, Late, KeepsIt, Quiet
  <2> QED
      BY <2>1, <2>2
<1>18. CASE WaitForDocker
  <2>1. CASE End
      BY <2>1 DEF End, Fresh, DoneDate
  <2>2. CASE ~End
    <3>1. /\ pc = "wait" /\ pc' = "name" /\ at' = 1
          /\ UNCHANGED <<live, rollback, made, left, memory>>
        BY <1>18, <2>2 DEF WaitForDocker, To
    <3>2. \A r \in Refs : ~Copied(r)'
        BY <3>1, Constants DEF Copied, KeepsIt, Refs
    <3> QED
        BY <1>0, <3>1, <3>2 DEF DoneDate, Guest, Late, KeepsIt, Quiet
  <2> QED
      BY <2>1, <2>2
<1>19. CASE NameNew
  <2>1. CASE End
      BY <2>1 DEF End, Fresh, DoneDate
  <2>2. CASE ~End
    <3>1. /\ pc = "name" /\ UNCHANGED <<live, rollback, made, left, memory>>
          /\ \A r \in Refs : Copied(r)' => \/ r = at /\ failed'[r] = live[r]
                                           \/ Copied(r) /\ failed'[r] = failed[r]
        BY <1>0, <1>19, <2>2, Naming
    <3>2. after # None => \A r \in Refs : Guest(live, r) => made[live[r]] >= f0
        BY <1>0, <3>1 DEF DoneDate, Late, KeepsIt
    <3>3. after' # None => \A r \in Refs : Copied(r)' /\ Guest(failed, r)' => made'[failed'[r]] >= f0'
        BY <1>0, <3>1, <3>2 DEF DoneDate, Guest
    <3> QED
        BY <1>0, <3>1, <3>2, <3>3 DEF DoneDate, Guest, Quiet
  <2> QED
      BY <2>1, <2>2
<1>20. CASE MoveBack
  <2>1. CASE End
      BY <2>1 DEF End, Fresh, DoneDate
  <2>2. CASE ~End
    <3>1. /\ pc = "back" /\ UNCHANGED <<rollback, failed, made, left, memory>>
          /\ live'[at] = rollback[at] /\ \A r \in Refs : r # at => live'[r] = live[r]
        BY <1>0, <1>20, <2>2, MovingBack
    <3>2. \A r \in Refs : Copied(r) /\ (Guest(live, r)' => Guest(live, r) /\ live'[r] = live[r])
        BY <3>1 DEF Copied, Guest
    <3> QED
        BY <1>0, <3>1, <3>2 DEF DoneDate, Guest, Late, KeepsIt, Quiet
  <2> QED
      BY <2>1, <2>2
<1>21. CASE KeepNew
    BY <1>0, <1>u, <1>21
       DEF KeepNew, WorthKeeping, To, DoneDate, Quiet, Guest, Copied, Remembers, KeepsIt, Late,
           None
<1>22. CASE ForgetKept
    BY <1>0, <1>u, <1>22
       DEF ForgetKept, To, DoneDate, Quiet, Guest, Copied, Remembers, KeepsIt, Late, None
<1>23. CASE NameKept
    BY <1>0, <1>u, <1>23
       DEF NameKept, To, DoneDate, Quiet, Guest, Copied, Remembers, KeepsIt, Late, None
<1>24. CASE RecordKept
    BY <1>0, <1>u, <1>24
       DEF RecordKept, To, DoneDate, Quiet, Guest, Copied, Remembers, KeepsIt, Late, None
<1>25. CASE Drop
    BY <1>0, <1>u, <1>25
       DEF Drop, LetGo, To, StartAllowed, StoppedBuildRefuses, End, Fresh, DoneDate, Quiet,
           Guest, Copied, Remembers, KeepsIt, Late, None
<1>26. CASE Restart
    BY <1>0, <1>u, <1>26
       DEF Restart, LetGo, Range, End, Fresh, DoneDate, Quiet, Guest, Copied, Remembers, KeepsIt,
           Late, None
<1>27. CASE StopBeforeTheBuild
    BY <1>0, <1>u, <1>27
       DEF StopBeforeTheBuild, To, DoneDate, Quiet, Guest, Copied, Remembers, KeepsIt, Late, None
<1>28. CASE CompileFails
    BY <1>0, <1>u, <1>28
       DEF CompileFails, To, DoneDate, Quiet, Guest, Copied, Remembers, KeepsIt, Late, None
<1>29. CASE StopTheCompile
  <2>1. /\ pc = "compile" /\ ~hold /\ pc' = "failed" /\ UNCHANGED <<live, rollback, made, f0, hold, tagging>>
      BY <1>u, <1>29 DEF StopTheCompile, To
  <2>2. \A r \in Refs : Guest(live, r) => live[r] = last /\ left[last] < NRefs
    <3>1. \A r \in Refs : Guest(live, r) => live[r] = last /\ r <= NRefs - left[last]
        BY <1>0, <2>1, StoppedIsTheGuest
    <3>2. left[last] \in 0 .. NRefs /\ \A r \in Refs : r >= 1
        BY <1>0 DEF DockerOK, Refs
    <3> QED
        BY <3>1, <3>2, Constants DEF Refs
  <2>3. \A r \in Refs : Guest(live, r)' => made'[live'[r]] >= f0'
      BY <1>0, <2>1, <2>2, CompiledIsRecent DEF Guest
  <2>4. \A r \in Refs : ~Copied(r)'
      BY <2>1 DEF Copied, KeepsIt
  <2> QED
      BY <2>1, <2>3, <2>4 DEF DoneDate
<1>30. CASE NotReady
    BY <1>0, <1>u, <1>30
       DEF NotReady, To, DoneDate, Quiet, Guest, Copied, Remembers, KeepsIt, Late, None
<1>31. CASE WalkOut
    BY <1>0, <1>u, <1>31
       DEF WalkOut, Tagged, MayHaveTagged, NothingMoved, PartOnly, End, Fresh, DoneDate, Quiet,
           Guest, Copied, Remembers, KeepsIt, Late, None
<1>32. CASE Killed
    BY <1>0, <1>u, <1>32
       DEF Killed, End, Fresh, DoneDate, Quiet, Guest, Copied, Remembers, KeepsIt, Late, None
<1>33. CASE \E b \in Builds : ReadContext(b)
  <2> SUFFICES ASSUME NEW b \in Builds, ReadContext(b) PROVE DoneDate'
      BY <1>33
  <2>1. /\ \A c \in Builds : made[c] \in Nat /\ made'[c] \in Nat /\ made'[c] >= made[c]
        /\ UNCHANGED <<live, rollback, failed, left, pc, at, memory>>
      BY <1>0, ReadOnce
  <2>2. \A r \in Refs : Copied(r) => failed[r] # None
      BY <1>0 DEF Whole, Full, Copies, Copied, KeepsIt
  <2>3. \A r \in Refs : live[r] \in Builds /\ (Copied(r) => failed[r] \in Builds)
      BY <1>0, <2>2, BuildsAreMade DEF Whole, Full, NamesOK
  <2>4. f0 \in Nat /\ (Late' = Late) /\ \A r \in Refs : Copied(r)' = Copied(r)
      BY <1>0, <2>1 DEF ReadOK, Copied, KeepsIt, Late
  <2>5. \A r \in Refs : made[live[r]] >= f0 => made'[live[r]] >= f0
      BY <2>1, <2>3, <2>4
  <2>6. \A r \in Refs : Copied(r) /\ made[failed[r]] >= f0 => made'[failed[r]] >= f0
      BY <2>1, <2>3, <2>4
  <2> QED
      BY <1>0, <2>1, <2>4, <2>5, <2>6 DEF DoneDate, Guest, Quiet
<1>34. CASE \E b \in Builds : Export(b)
  <2> SUFFICES ASSUME NEW b \in Builds, Export(b) PROVE DoneDate'
      BY <1>34
  <2> DEFINE i == NRefs - left[b] + 1
  <2>1. /\ i \in Refs /\ live'[i] = b /\ \A r \in Refs : r # i => live'[r] = live[r]
        /\ left[b] > 0 /\ left[b] \in 0 .. NRefs
        /\ UNCHANGED <<rollback, failed, made, pc, at, memory>>
      BY <1>0, Exported
  <2> HIDE DEF i
  <2>2. ~Quiet /\ made[b] # None
      BY <2>1, Constants DEF Quiet, Export
  <2>3. ~tagging /\ ~(after # None /\ hold)
      BY <1>0, <2>2 DEF AtWork, DoneDate
  <2>4. Late /\ after # None => made[b] >= f0
    <3>1. SUFFICES ASSUME Late, after # None PROVE made[b] >= f0
        OBVIOUS
    <3>2. b = last /\ buildExit = "cancelled" /\ pc \in {"compile", "failed"}
        BY <1>0, <2>1, <2>3, <3>1 DEF AtWork
    <3> QED
        BY <1>0, <2>2, <3>2 DEF CompileDate, Since
  <2>5. Late' = Late /\ \A r \in Refs : Copied(r)' = Copied(r)
      BY <2>1 DEF Late, Copied, KeepsIt
  <2>6. Late /\ after # None => \A r \in Refs : Guest(live, r)' => made[live'[r]] >= f0
      BY <1>0, <2>1, <2>4 DEF DoneDate, Guest
  <2> QED
      BY <1>0, <2>1, <2>3, <2>5, <2>6 DEF DoneDate, Guest
<1>35. CASE \E b \in Builds : Dies(b)
    BY <1>0, <1>u, <1>35 DEF Dies, DoneDate, Quiet, Guest, Copied, Remembers, KeepsIt, Late, None
<1>36. CASE UNCHANGED vars
    BY <1>0, <1>u, <1>36 DEF vars, DoneDate, Quiet, Guest, Copied, Remembers, KeepsIt, Late, None
<1>37. CASE SettleUnread
    BY <1>u, <1>37 DEF SettleUnread
<1> QED
    BY <1>1, <1>2, <1>3, <1>4, <1>5, <1>6, <1>7, <1>8, <1>9, <1>10, <1>11, <1>12, <1>13, <1>14,
       <1>15, <1>16, <1>17, <1>18, <1>19, <1>20, <1>21, <1>22, <1>23, <1>24, <1>25, <1>26, <1>27,
       <1>28, <1>29, <1>30, <1>31, <1>32, <1>33, <1>34, <1>35, <1>36, <1>37
       DEF Next, PressSteps, Docker

(* A kept build that is used was made from what the press read. *)
LEMMA UsedDateStep == Shape /\ Inv /\ Exact /\ [Next]_vars /\ NoReturn' => UsedDate'
<1> SUFFICES ASSUME Shape, Inv, Exact, [Next]_vars, NoReturn' PROVE UsedDate'
    OBVIOUS
<1>0. Shape /\ Inv /\ Exact
    OBVIOUS
<1>u. /\ ~Upset("keep") /\ ~Upset("lateWalkout") /\ ~Upset("kill") /\ ~Upset("race")
      /\ ~Upset("partial") /\ ~Upset("second") /\ ~Upset("unread")
      /\ ~Upset("landed") /\ ~Upset("editBack")
    BY NoReturnStep DEF Unrecorded
<1> USE DEF Shape, Typed, Inv, Exact, names, records, docker, servers, memory
<1>1. CASE Start
    BY <1>0, <1>u, <1>1
       DEF Start, StartAllowed, StoppedBuildRefuses, Range, UsedDate, UsingTheKept,
           FromTheFolder, KeptDate, Remembers, KeepsIt, Late, None
<1>2. CASE Stop
    BY <1>0, <1>u, <1>2
       DEF Stop, UsedDate, UsingTheKept, FromTheFolder, KeptDate, Remembers, KeepsIt, Late, None
<1>3. CASE Edit
    BY <1>0, <1>u, <1>3
       DEF Edit, UsedDate, UsingTheKept, FromTheFolder, KeptDate, Remembers, KeepsIt, Late, None
<1>4. CASE Press
    BY <1>0, <1>u, <1>4
       DEF Press, To, UsedDate, UsingTheKept, FromTheFolder, KeptDate, Remembers, KeepsIt, Late,
           None
<1>5. CASE NothingLanded
    BY <1>0, <1>u, <1>5
       DEF NothingLanded, LandedOnServers, Landed, To, UsedDate, UsingTheKept, FromTheFolder,
           KeptDate, Remembers, KeepsIt, Late, None
<1>6. CASE SettleRefuses
    BY <1>0, <1>u, <1>6
       DEF SettleRefuses, LandedOnServers, Landed, End, Fresh, UsedDate, UsingTheKept,
           FromTheFolder, KeptDate, Remembers, KeepsIt, Late, None
<1>7. CASE Settle
    BY <1>0, <1>u, <1>7
       DEF Settle, LandedOnServers, Landed, To, UsedDate, UsingTheKept, FromTheFolder, KeptDate,
           Remembers, KeepsIt, Late, None
<1>8. CASE PutBack
    BY <1>0, <1>u, <1>8
       DEF PutBack, To, End, Fresh, UsedDate, UsingTheKept, FromTheFolder, KeptDate, Remembers,
           KeepsIt, Late, None
<1>9. CASE Keep
    BY <1>0, <1>u, <1>9
       DEF Keep, NextRef, To, End, Fresh, UsedDate, UsingTheKept, FromTheFolder, KeptDate,
           Remembers, KeepsIt, Late, None
<1>10. CASE Prepare
  <2>1. pc' \in {"use", "compile"} /\ f0' = folder /\ UNCHANGED made
      BY <1>10 DEF Prepare, To
  <2>2. CASE Usable
    <3>1. UNCHANGED parked /\ keptRec.print = folder /\ keptRec.print # None /\ parked = keptRec.images
        BY <1>10, <2>2 DEF Prepare, Usable
    <3>2. \A r \in Refs : parked[r] \in Builds /\ made[parked[r]] \in Nat
        BY <1>0, <3>1, BuildsAreMade DEF Whole, Full, NamesOK
    <3>3. \A r \in Refs : made[parked[r]] >= folder /\ made[parked[r]] <= folder
        BY <1>0, <3>1, <3>2 DEF KeptDate, Dated
    <3>4. \A r \in Refs : made[parked[r]] = folder
        BY <1>0, <3>2, <3>3 DEF RestOK, Folders
    <3> QED
        BY <2>1, <3>1, <3>4 DEF UsedDate, UsingTheKept
  <2>3. CASE ~Usable
    <3>1. pc' = "compile"
        BY <1>10, <2>3 DEF Prepare, To
    <3> QED
        BY <3>1 DEF UsedDate, UsingTheKept
  <2> QED
      BY <2>2, <2>3
<1>11. CASE Use
  <2>1. /\ pc = "use" /\ pc' \in {"use", "replace", "failed"} /\ UNCHANGED <<made, f0>>
        /\ \A r \in Refs : made[parked[r]] = f0
      BY <1>0, <1>11 DEF Use, To, UsedDate
  <2>2. CASE pc' = "failed"
      BY <2>2 DEF UsedDate, UsingTheKept
  <2>3. CASE pc' = "use"
    <3>1. UNCHANGED parked
        BY <1>0, <1>11, <2>3, Using
    <3> QED
        BY <2>1, <2>3, <3>1 DEF UsedDate, UsingTheKept
  <2>4. CASE pc' = "replace"
    <3>1. \A r \in Refs : live'[r] = parked[r] /\ parked[r] # None
        BY <1>0, <2>1, <1>11, <2>4, Using DEF Whole, Full
    <3> QED
        BY <2>1, <2>4, <3>1 DEF UsedDate, FromTheFolder
  <2> QED
      BY <2>1, <2>2, <2>3, <2>4
<1>12. CASE Compiled
    BY <1>0, <1>u, <1>12
       DEF Compiled, To, UsedDate, UsingTheKept, FromTheFolder, KeptDate, Remembers, KeepsIt,
           Late, None
<1>13. CASE Replace
    BY <1>0, <1>u, <1>13
       DEF Replace, To, UsedDate, UsingTheKept, FromTheFolder, KeptDate, Remembers, KeepsIt,
           Late, None
<1>14. CASE StartNew
    BY <1>0, <1>u, <1>14
       DEF StartNew, Range, UsedDate, UsingTheKept, FromTheFolder, KeptDate, Remembers, KeepsIt,
           Late, None
<1>15. CASE Ready
    BY <1>0, <1>u, <1>15
       DEF Ready, End, Fresh, UsedDate, UsingTheKept, FromTheFolder, KeptDate, Remembers,
           KeepsIt, Late, None
<1>16. CASE Failed
    BY <1>0, <1>u, <1>16
       DEF Failed, AsksDocker, Tagged, MayHaveTagged, NothingMoved, PartOnly, To, End, Fresh,
           UsedDate, UsingTheKept, FromTheFolder, KeptDate, Remembers, KeepsIt, Late, None
<1>17. CASE StopNew
    BY <1>0, <1>u, <1>17
       DEF StopNew, To, End, Fresh, UsedDate, UsingTheKept, FromTheFolder, KeptDate, Remembers,
           KeepsIt, Late, None
<1>18. CASE WaitForDocker
    BY <1>0, <1>u, <1>18
       DEF WaitForDocker, To, End, Fresh, UsedDate, UsingTheKept, FromTheFolder, KeptDate,
           Remembers, KeepsIt, Late, None
<1>19. CASE NameNew
    BY <1>0, <1>u, <1>19
       DEF NameNew, NotPutBack, NextRef, To, End, Fresh, UsedDate, UsingTheKept, FromTheFolder,
           KeptDate, Remembers, KeepsIt, Late, None
<1>20. CASE MoveBack
    BY <1>0, <1>u, <1>20
       DEF MoveBack, NotPutBack, NextRef, To, End, Fresh, UsedDate, UsingTheKept, FromTheFolder,
           KeptDate, Remembers, KeepsIt, Late, None
<1>21. CASE KeepNew
    BY <1>0, <1>u, <1>21
       DEF KeepNew, WorthKeeping, To, UsedDate, UsingTheKept, FromTheFolder, KeptDate, Remembers,
           KeepsIt, Late, None
<1>22. CASE ForgetKept
    BY <1>0, <1>u, <1>22
       DEF ForgetKept, To, UsedDate, UsingTheKept, FromTheFolder, KeptDate, Remembers, KeepsIt,
           Late, None
<1>23. CASE NameKept
    BY <1>0, <1>u, <1>23
       DEF NameKept, To, UsedDate, UsingTheKept, FromTheFolder, KeptDate, Remembers, KeepsIt,
           Late, None
<1>24. CASE RecordKept
    BY <1>0, <1>u, <1>24
       DEF RecordKept, To, UsedDate, UsingTheKept, FromTheFolder, KeptDate, Remembers, KeepsIt,
           Late, None
<1>25. CASE Drop
    BY <1>0, <1>u, <1>25
       DEF Drop, LetGo, To, StartAllowed, StoppedBuildRefuses, End, Fresh, UsedDate,
           UsingTheKept, FromTheFolder, KeptDate, Remembers, KeepsIt, Late, None
<1>26. CASE Restart
    BY <1>0, <1>u, <1>26
       DEF Restart, LetGo, Range, End, Fresh, UsedDate, UsingTheKept, FromTheFolder, KeptDate,
           Remembers, KeepsIt, Late, None
<1>27. CASE StopBeforeTheBuild
    BY <1>0, <1>u, <1>27
       DEF StopBeforeTheBuild, To, UsedDate, UsingTheKept, FromTheFolder, KeptDate, Remembers,
           KeepsIt, Late, None
<1>28. CASE CompileFails
    BY <1>0, <1>u, <1>28
       DEF CompileFails, To, UsedDate, UsingTheKept, FromTheFolder, KeptDate, Remembers, KeepsIt,
           Late, None
<1>29. CASE StopTheCompile
    BY <1>0, <1>u, <1>29
       DEF StopTheCompile, To, UsedDate, UsingTheKept, FromTheFolder, KeptDate, Remembers,
           KeepsIt, Late, None
<1>30. CASE NotReady
    BY <1>0, <1>u, <1>30
       DEF NotReady, To, UsedDate, UsingTheKept, FromTheFolder, KeptDate, Remembers, KeepsIt,
           Late, None
<1>31. CASE WalkOut
    BY <1>0, <1>u, <1>31
       DEF WalkOut, Tagged, MayHaveTagged, NothingMoved, PartOnly, End, Fresh, UsedDate,
           UsingTheKept, FromTheFolder, KeptDate, Remembers, KeepsIt, Late, None
<1>32. CASE Killed
    BY <1>0, <1>u, <1>32
       DEF Killed, End, Fresh, UsedDate, UsingTheKept, FromTheFolder, KeptDate, Remembers,
           KeepsIt, Late, None
<1>33. CASE \E b \in Builds : ReadContext(b)
    BY <1>0, <1>u, <1>33
       DEF ReadContext, UsedDate, UsingTheKept, FromTheFolder, KeptDate, Remembers, KeepsIt,
           Late, None
<1>34. CASE \E b \in Builds : Export(b)
  <2> SUFFICES ASSUME NEW b \in Builds, Export(b) PROVE UsedDate'
      BY <1>34
  <2>1. left[b] > 0 /\ pc \notin Settling /\ UNCHANGED <<pc, tagging, built>>
      BY <1>u DEF Export
  <2>2. ~Quiet
      BY <1>0, <2>1, Constants DEF Quiet, DockerOK
  <2>3. pc # "use" /\ ~UsingTheKept
      BY <1>0, <2>1, <2>2 DEF AtWork, UsingTheKept, Settling
  <2> QED
      BY <2>1, <2>3 DEF UsedDate, UsingTheKept
<1>35. CASE \E b \in Builds : Dies(b)
    BY <1>0, <1>u, <1>35
       DEF Dies, UsedDate, UsingTheKept, FromTheFolder, KeptDate, Remembers, KeepsIt, Late, None
<1>36. CASE UNCHANGED vars
    BY <1>0, <1>u, <1>36
       DEF vars, UsedDate, UsingTheKept, FromTheFolder, KeptDate, Remembers, KeepsIt, Late, None
<1>37. CASE SettleUnread
    BY <1>u, <1>37 DEF SettleUnread
<1> QED
    BY <1>1, <1>2, <1>3, <1>4, <1>5, <1>6, <1>7, <1>8, <1>9, <1>10, <1>11, <1>12, <1>13, <1>14,
       <1>15, <1>16, <1>17, <1>18, <1>19, <1>20, <1>21, <1>22, <1>23, <1>24, <1>25, <1>26, <1>27,
       <1>28, <1>29, <1>30, <1>31, <1>32, <1>33, <1>34, <1>35, <1>36, <1>37
       DEF Next, PressSteps, Docker


-----------------------------------------------------------------------------
(* The invariants hold, and what the press promises follows. *)

(* The server begins with one build, which has run, and no press at work. *)
LEMMA InvStart == Init => Inv /\ Exact
<1> SUFFICES ASSUME Init PROVE Inv /\ Exact
    OBVIOUS
<1> USE Constants DEF Init
<1>1. /\ \A r \in Refs : live[r] = 1 /\ rollback[r] = None /\ failed[r] = None
      /\ \A b \in Builds : left[b] = 0 /\ made[b] = IF b = 1 THEN 1 ELSE None
      /\ ~Late /\ ~KeepsIt /\ pc = "idle" /\ stopRec = None /\ keptRec.print = None
      /\ f0 = None /\ after = None /\ ~tagging /\ ~hold /\ ~touched /\ buildExit = "none"
    BY DEF Late, KeepsIt, NoRecord, None
<1>2. Remembers
    BY <1>1 DEF Remembers
<1>3. Quiet /\ AtWork
    BY <1>1 DEF AtWork, Quiet, Builds, None
<1>4. Guests /\ Compiling
    BY <1>1 DEF Guests, Compiling
<1>5. Moving /\ \A r \in Refs : ~Copied(r)
    BY <1>1 DEF Moving, Copied, KeepsIt
<1>6. Copies /\ Kept
    BY <1>1, <1>5 DEF Copies, Kept
<1>7. Sound(live)
    BY <1>1 DEF Sound, Uniform, Range
<1>8. Safe
    BY <1>1, <1>7 DEF Safe
<1>9. Dated
    BY <1>1 DEF Dated, None
<1>10. KeptDate /\ StoppedDate /\ CompileDate
    BY <1>1, <1>5 DEF KeptDate, StoppedDate, CompileDate
<1>11. DoneDate /\ UsedDate
    BY <1>1, <1>5 DEF DoneDate, UsedDate, UsingTheKept
<1> QED
    BY <1>2, <1>3, <1>4, <1>5, <1>6, <1>8, <1>9, <1>10, <1>11 DEF Inv, Exact

(* One step keeps the whole of the first invariant. *)
LEMMA InvStep == Shape /\ Inv /\ [Next]_vars /\ Orderly' => Inv'
<1> SUFFICES ASSUME Shape, Inv, [Next]_vars, Orderly' PROVE Inv'
    OBVIOUS
<1>1. Remembers' /\ AtWork' /\ Guests' /\ Compiling'
    BY RememberedStep, AtWorkStep, GuestsStep, CompilingStep
<1>2. Moving' /\ Copies' /\ Kept' /\ Safe'
    BY MovingStep, CopiesStep, KeptStep, SafeStep
<1> QED
    BY <1>1, <1>2 DEF Inv

(* And of the second. *)
LEMMA ExactStep == Shape /\ Inv /\ Exact /\ [Next]_vars /\ NoReturn' => Exact'
<1> SUFFICES ASSUME Shape, Inv, Exact, [Next]_vars, NoReturn' PROVE Exact'
    OBVIOUS
<1>1. Dated' /\ KeptDate' /\ StoppedDate'
    BY DatedStep, KeptDateStep, StoppedDateStep
<1>2. CompileDate' /\ DoneDate' /\ UsedDate'
    BY CompileDateStep, DoneDateStep, UsedDateStep
<1> QED
    BY <1>1, <1>2 DEF Exact

(* While every press has left its records, the first invariant holds. *)
LEMMA InvAlways == Spec => [](Orderly => Inv)
<1>1. Init => (Orderly => Inv)
    BY InvStart
<1>2. Shape /\ (Orderly => Inv) /\ [Next]_vars => (Orderly => Inv)'
    BY OrderlyStep, InvStep
<1> QED
    BY <1>1, <1>2, ShapeAlways, PTL DEF Spec

(* While no content has come back besides, so does the second. *)
LEMMA ExactAlways == Spec => [](NoReturn => Exact)
<1>1. Init => (NoReturn => Exact)
    BY InvStart
<1>2. Shape /\ (Orderly => Inv) /\ (NoReturn => Exact) /\ [Next]_vars => (NoReturn => Exact)'
    BY NoReturnStep, ExactStep
<1> QED
    BY <1>1, <1>2, ShapeAlways, InvAlways, PTL DEF Spec

(* What the records let a Start run is one build, and one that has run, or the old servers   *)
(* were stopped and no build could be put back.                                              *)
LEMMA WhatAStartRuns == Inv /\ pc = "idle" /\ StartAllowed => Sound(live)
<1> SUFFICES ASSUME Inv, pc = "idle", StartAllowed PROVE Sound(live)
    OBVIOUS
<1>1. owed = "no" /\ (stopRec # None => live = rollback)
    BY DEF StartAllowed, StoppedBuildRefuses
<1>2. CASE stopRec = None
    BY <1>1, <1>2 DEF Inv, Safe
<1>3. CASE stopRec # None
  <2>1. Sound(rollback) /\ live = rollback
      BY <1>1, <1>3 DEF Inv, Safe
  <2> QED
      BY <2>1 DEF Sound, Uniform
<1> QED
    BY <1>2, <1>3

(* Between two presses a Start that the records allow never runs some images of one build and *)
(* some of another (StartAllowed, folder_start_refusal), whatever Docker refused and wherever *)
(* a press was stopped, as long as each press left its records.                               *)
THEOREM StartsRunOneBuild == Spec => []AStartRunsOneBuild
<1>1. (Orderly => Inv) => AStartRunsOneBuild
    BY WhatAStartRuns DEF AStartRunsOneBuild, OneBuild, Orderly, Sound, Uniform
<1> QED
    BY <1>1, InvAlways, PTL

(* Nor one no server of this install was ever started on (rebuild.build, restore_after).      *)
THEOREM StartsRunATestedBuild == Spec => []AStartRunsATestedBuild
<1>1. (Orderly => Inv) => AStartRunsATestedBuild
    BY WhatAStartRuns DEF AStartRunsATestedBuild, Tested, Orderly, Sound
<1> QED
    BY <1>1, InvAlways, PTL

(* A kept build that a press puts on the live names instead of compiling (_use_parked) was    *)
(* made, every image of it, from the content the press found in the folder.                   *)
THEOREM KeptBuildsAreExact == Spec => []AKeptBuildIsExact
<1>1. (NoReturn => Exact) => AKeptBuildIsExact
    BY DEF AKeptBuildIsExact, NoReturn, Exact, UsedDate
<1> QED
    BY <1>1, ExactAlways, PTL

=============================================================================
