--------------------------- MODULE StartOverProofs ---------------------------
(***************************************************************************)
(* Proofs about StartOver, for any number of Yu'lons, presses and faults.  *)
(*                                                                         *)
(* Two threads of argument meet.  Within one folder the reservation lets   *)
(* one job work (Held), and what a reset may do next is in its record, not *)
(* in its process.  Between a reset and a bring-in, which looks before it  *)
(* has the reservation, the two records decide (TwoLooks): a bring-in past *)
(* its second look still has its name in the folder, where the reset's own *)
(* second look must find it.                                               *)
(***************************************************************************)
EXTENDS StartOver, TLAPS

\* The assumption of all but the first theorem: Bring-in is pressed in one Yu'lon, whose process
\* the others see, and neither side is held up or ended between its two looks.
Apart ==
    /\ ~MayDwell /\ \A y, z \in Bringers : y = z
    /\ \A y \in Yulons : Bringers \subseteq Sees[y]

\* A job that works on the folder or its server has the server's reservation.
Working == ResetWork \cup PlainWork \cup {"begun", "guard", "wiped", "installed", "loading"}
Held == \A y \in Yulons : pc[y] \in Working => claim = y

\* A reset that works has its record.
InReset == \A y \in Yulons : pc[y] \in ResetWork => UnderWay

\* Bring-in runs only where it is pressed.
Pressed == \A z \in Yulons : pc[z] \in BringWork => z \in Bringers

\* Between its naming and its end a bring-in's name is in its record, but for the install's clone.
Named ==
    \A z \in Yulons : pc[z] \in {"named", "bringing", "installed", "loading"} =>
        MoveInThere /\ moveIn.pressing = z

\* While a bring-in is past its look, a reset's record can only be one that is still to look again.
TwoLooks ==
    UnderWay => \A z \in Yulons : pc[z] \in BringWork \ {"looked", "named"} =>
        \E y \in Yulons : pc[y] = "lookAgain"

\* What a bring-in saw at its first look holds until it writes its name.
OnlyLooked ==
    \A z \in Yulons : pc[z] = "looked" =>
        MoveInThere \/ (~UnderWay /\ owner = "none" /\ tree = "none")

\* The bring-in's record is there until its archive is, and is not there once the step is done.
SourceThere == \A y \in Yulons : pc[y] \in {"begun", "lookAgain", "archive"} => MoveInThere

SourceGone == UnderWay /\ "set-aside" \in reset.done => ~MoveInThere

\* The plain install has the folder to itself, and nothing of the bring-in is left in it.
PlainAlone ==
    \A y \in Yulons : pc[y] \in PlainWork \cup {"guard"} =>
        /\ ~MoveInThere /\ \A z \in Yulons : pc[z] \notin BringWork
        /\ UnderWay \/ owner # "none" \/ tree # "none"
        /\ UnderWay => "removed" \in reset.done
        /\ db # "brought" /\ owner # "bringin"
        /\ pc[y] = "unmark" => owner = "stage"

\* Neither after the check of the removal nor under a later owner.
Cleared ==
    /\ UnderWay /\ "verified" \in reset.done => db # "brought" /\ owner # "bringin"
    /\ owner \in {"claim", "stage"} => db # "brought"

\* What a step has made true stays true while the reset goes on.
Stopped == UnderWay /\ "stopped" \in reset.done => ~loading

CopyMade ==
    UnderWay /\ "copy" \in reset.done /\ "removed" \notin reset.done /\ db # "none"
        => reset.copied

CopyTrusted ==
    \A y \in Yulons : pc[y] \in ResetWork \ {"revalidate"} =>
        /\ "copy" \in reset.done /\ "removed" \notin reset.done /\ db # "none" => dump = "whole"
        /\ pc[y] = "lookAgain" => reset.done = {}
        /\ pc[y] = "copying" => "stopped" \in reset.done /\ "copy" \notin reset.done
        /\ pc[y] \in {"volumes", "files", "owner"} =>
              {"stopped", "copy"} \subseteq reset.done /\ "removed" \notin reset.done

\* A record that a bring-in may carry on from, and what each job still makes of it.
Whole == tree = "bringin" /\ owner = "bringin" /\ db = "brought"

Truthful ==
    /\ BuiltIn /\ (UnderWay => ~reset.removing) => Whole
    /\ \A y \in Yulons :
         /\ pc[y] \in {"looked", "named", "bringing"} /\ read[y] => BuiltIn
         /\ pc[y] = "wiped" => ~read[y]
         /\ pc[y] \in {"installed", "loading"} => Whole
         /\ pc[y] \in {"volumes", "files", "owner"} => reset.removing
         /\ pc[y] = "begun" => ~UnderWay
         /\ pc[y] = "lookAgain" => ~reset.removing

Reserved   == TypeOK /\ Held /\ InReset
TwoRecords ==
    /\ Pressed /\ Named /\ TwoLooks /\ OnlyLooked /\ SourceThere /\ SourceGone /\ PlainAlone
    /\ TheRecordIsKept
SafeCopy   == Cleared /\ Stopped /\ CopyMade /\ CopyTrusted
Inv        == Reserved /\ TwoRecords /\ SafeCopy /\ Truthful

-----------------------------------------------------------------------------
(* The records. *)

\* The steps by name.
LEMMA TheSteps ==
    StepNames = {"project", "stopped", "copy", "removed", "verified", "set-aside"}
BY DEF StepNames, STEPS

\* A step is due when those before it are done.
LEMMA DueSteps ==
    ASSUME NEW step, Due(step)
    PROVE  /\ UnderWay /\ step \notin reset.done
           /\ step = "copy" => "stopped" \in reset.done
           /\ step = "removed" => {"stopped", "copy"} \subseteq reset.done
           /\ step = "verified" => "removed" \in reset.done
           /\ step = "set-aside" => {"verified", "removed"} \subseteq reset.done
BY DEF Due, STEPS

\* A record with a new value in a field is a record.
LEMMA Rewritten ==
    ASSUME NEW r \in Resets, NEW d \in SUBSET StepNames, NEW b \in BOOLEAN
    PROVE  /\ [r EXCEPT !.done = d, !.copied = b] \in Resets
           /\ [r EXCEPT !.done = d, !.copied = b].done = d
           /\ [r EXCEPT !.done = d, !.copied = b].copied = b
           /\ [r EXCEPT !.done = d, !.copied = b].removing = r.removing
           /\ [r EXCEPT !.removing = b] \in Resets
           /\ [r EXCEPT !.aside = b] \in Resets
           /\ [r EXCEPT !.staging = b] \in Resets
BY DEF Resets

\* What the steps that write two fields, or a constant, make of the reset's record.
LEMMA RecordWritten ==
    ASSUME Reserved, NEW y \in Yulons
    PROVE  /\ WriteReset(y) => reset' \in Resets /\ ~reset'.removing
           /\ Copy(y) \/ CopyEnds(y) => reset' \in Resets /\ reset'.removing = reset.removing
           /\ Revalidate(y) => /\ reset' \in Resets /\ reset'.removing = reset.removing
                               /\ reset' = reset \/ /\ reset'.done = reset.done \ {"copy"}
                                                    /\ ~reset'.copied
           /\ StartRemoval(y) => /\ reset' \in Resets \cup {NoFile}
                                 /\ reset' \in Resets \/ pc'[y] = "idle"
           /\ NameArchive(y) => reset' \in Resets
           /\ Clone(y) => /\ reset' \in Resets \cup {NoFile}
                          /\ UnderWay => /\ UnderWay' /\ reset'.done = reset.done
                                         /\ reset'.removing = reset.removing
           /\ BringLoad(y) => moveIn' # NoFile /\ moveIn'.pressing = y
<1>1. ASSUME WriteReset(y) PROVE reset' \in Resets /\ ~reset'.removing
  BY <1>1 DEF WriteReset, Resets
<1>2. ASSUME Copy(y) \/ CopyEnds(y)
      PROVE  reset' \in Resets /\ reset'.removing = reset.removing
  <2>1. reset \in Resets
    BY <1>2, DueSteps DEF Copy, CopyEnds, UnderWay, Reserved, TypeOK, InReset, ResetWork
  <2>2. reset.done \cup {"copy"} \in SUBSET StepNames /\ (db # "none") \in BOOLEAN
    BY <2>1, TheSteps DEF Resets
  <2>3. \/ reset' = reset
        \/ reset' = [reset EXCEPT !.done = reset.done \cup {"copy"}, !.copied = (db # "none")]
    BY <1>2 DEF Copy, CopyEnds, Copied
  <2>4. \A d \in SUBSET StepNames, b \in BOOLEAN :
          /\ [reset EXCEPT !.done = d, !.copied = b] \in Resets
          /\ [reset EXCEPT !.done = d, !.copied = b].removing = reset.removing
    BY ONLY <2>1 DEF Resets
  <2>5. CASE reset' = reset
    BY ONLY <2>1, <2>5
  <2>6. CASE reset' = [reset EXCEPT !.done = reset.done \cup {"copy"}, !.copied = (db # "none")]
    <3>1. reset' \in Resets
      BY ONLY <2>2, <2>4, <2>6, Zenon
    <3>2. reset'.removing = reset.removing
      BY ONLY <2>2, <2>4, <2>6, Zenon
    <3> QED BY ONLY <3>1, <3>2
  <2> QED BY ONLY <2>3, <2>5, <2>6
<1>3. ASSUME Revalidate(y)
      PROVE  /\ reset' \in Resets /\ reset'.removing = reset.removing
             /\ reset' = reset \/ /\ reset'.done = reset.done \ {"copy"}
                                  /\ ~reset'.copied
  <2>1. reset \in Resets
    BY <1>3 DEF Revalidate, UnderWay, Reserved, TypeOK, InReset, ResetWork
  <2>2. CASE CopyIsSpoilt
    <3>1. reset' = [reset EXCEPT !.done = reset.done \ {"copy"}, !.copied = FALSE]
      BY <1>3, <2>2 DEF Revalidate
    <3>2. reset.done \ {"copy"} \in SUBSET StepNames /\ FALSE \in BOOLEAN
      BY <2>1 DEF Resets
    <3> QED BY <2>1, <3>1, <3>2, Rewritten, Zenon
  <2>3. CASE ~CopyIsSpoilt
    BY <1>3, <2>1, <2>3 DEF Revalidate
  <2> QED BY <2>2, <2>3
<1>4. ASSUME StartRemoval(y)
      PROVE  reset' \in Resets \cup {NoFile} /\ (reset' \in Resets \/ pc'[y] = "idle")
  <2>1. reset \in Resets
    BY <1>4, DueSteps DEF StartRemoval, UnderWay, Reserved, TypeOK
  <2>2. [reset EXCEPT !.removing = TRUE] \in Resets
    BY <2>1, Rewritten
  <2> QED BY <1>4, <2>1, <2>2 DEF StartRemoval, StepFails, Ends, Goes, Reserved, TypeOK
<1>5. ASSUME NameArchive(y) PROVE reset' \in Resets
  <2>1. reset \in Resets
    BY <1>5, DueSteps DEF NameArchive, UnderWay, Reserved, TypeOK
  <2> QED BY <1>5, <2>1, Rewritten DEF NameArchive
<1>6. ASSUME Clone(y)
      PROVE  /\ reset' \in Resets \cup {NoFile}
             /\ UnderWay => /\ UnderWay' /\ reset'.done = reset.done
                            /\ reset'.removing = reset.removing
  <2>1. CASE UnderWay
    <3>1. reset \in Resets
      BY <2>1 DEF UnderWay, Reserved, TypeOK
    <3>2. /\ [reset EXCEPT !.staging = TRUE] \in Resets
          /\ [reset EXCEPT !.staging = TRUE].done = reset.done
          /\ [reset EXCEPT !.staging = TRUE].removing = reset.removing
      BY <3>1 DEF Resets
    <3>3. reset' = reset \/ reset' = [reset EXCEPT !.staging = TRUE]
      BY <1>6, <2>1 DEF Clone, PrepareStaging
    <3> QED BY <3>1, <3>2, <3>3, StartOverAssumption DEF UnderWay
  <2>2. CASE ~UnderWay
    BY <1>6, <2>2 DEF Clone, CloneInPlace, UnderWay
  <2> QED BY <2>1, <2>2
<1>7. ASSUME BringLoad(y) PROVE moveIn' # NoFile /\ moveIn'.pressing = y
  <2>1. moveIn' \in MoveIns /\ moveIn'.pressing = y
    BY <1>7 DEF BringLoad, MoveIns
  <2> QED BY <2>1, StartOverAssumption
<1> QED BY <1>1, <1>2, <1>3, <1>4, <1>5, <1>6, <1>7

-----------------------------------------------------------------------------
(* Types, and the reservation. *)

\* A job that works has the reservation, and a reset that works has its record.
LEMMA ReservedStep == Reserved /\ [Next]_vars => Reserved'
<1> SUFFICES ASSUME Reserved, [Next]_vars PROVE Reserved'
  OBVIOUS
<1> USE StartOverAssumption, TheSteps
    DEF Reserved, TypeOK, Held, InReset, Working, Waiting, ResetWork, PlainWork, BringWork,
        MoveIns, Resets, Goes, Ends, Fault, Unpressed, UnderWay, MoveInThere, BuiltIn,
        folder, docker, beside
<1>1. ASSUME NEW y \in Yulons, Ask(y) PROVE Reserved'
  BY <1>1 DEF Ask
<1>2. ASSUME NEW y \in Yulons, PressInstall(y) PROVE Reserved'
  BY <1>2 DEF PressInstall
<1>3. ASSUME NEW y \in Yulons, PressBringIn(y) PROVE Reserved'
  BY <1>3 DEF PressBringIn, UnderWay, BuiltIn
<1>4. ASSUME NEW y \in Yulons, Begin(y) PROVE Reserved'
  BY <1>4 DEF Begin, MayCarryOn, MayBegin, CarryOn
<1>5. ASSUME NEW y \in Yulons, WriteReset(y) PROVE Reserved'
  <2>1. reset' \in Resets
    BY <1>5, RecordWritten
  <2>2. TypeOK'
    BY <1>5, <2>1 DEF WriteReset
  <2>3. Held'
    BY <1>5 DEF WriteReset
  <2>4. InReset'
    BY <1>5, <2>1 DEF WriteReset
  <2> QED BY <2>2, <2>3, <2>4
<1>6. ASSUME NEW y \in Yulons, LookAgain(y) PROVE Reserved'
  BY <1>6 DEF LookAgain
<1>7. ASSUME NEW y \in Yulons, Revalidate(y) PROVE Reserved'
  <2>1. reset' \in Resets
    BY <1>7, RecordWritten
  <2>2. TypeOK'
    BY <1>7, <2>1 DEF Revalidate, CopyIsSpoilt
  <2>3. Held'
    BY <1>7 DEF Revalidate, CopyIsSpoilt
  <2>4. InReset'
    BY <1>7, <2>1 DEF Revalidate, CopyIsSpoilt
  <2> QED BY <2>2, <2>3, <2>4
<1>8. ASSUME NEW y \in Yulons, FindProject(y) PROVE Reserved'
  BY <1>8 DEF FindProject, Finished, Due
<1>9. ASSUME NEW y \in Yulons, StopServer(y) PROVE Reserved'
  <2>1. up' \in BOOLEAN
    BY <1>9 DEF StopServer
  <2>2. TypeOK'
    BY <1>9, <2>1 DEF StopServer, Finished, Due, StepFails
  <2>3. Held' /\ InReset'
    BY <1>9 DEF StopServer, Finished, Due, StepFails
  <2> QED BY <2>2, <2>3
<1>10. ASSUME NEW y \in Yulons, Copy(y) PROVE Reserved'
  <2>1. reset' \in Resets
    BY <1>10, RecordWritten
  <2>2. up' \in BOOLEAN /\ dump' \in {"none", "whole", "damaged"}
    BY <1>10 DEF Copy, Copied
  <2>3. pc' = pc \/ pc' = [pc EXCEPT ![y] = "copying"]
    BY <1>10 DEF Copy
  <2>4. TypeOK'
    BY <1>10, <2>1, <2>2, <2>3 DEF Copy
  <2>5. Held'
    BY <1>10, <2>3 DEF Copy
  <2>6. InReset'
    BY <1>10, <2>1, <2>3 DEF Copy, Due
  <2> QED BY <2>4, <2>5, <2>6
<1>46. ASSUME NEW y \in Yulons, CopyEnds(y) PROVE Reserved'
  <2>1. reset' \in Resets
    BY <1>46, RecordWritten
  <2>2. up' \in BOOLEAN /\ dump' \in {"none", "whole", "damaged"}
    BY <1>46 DEF CopyEnds, Copied
  <2>3. TypeOK'
    BY <1>46, <2>1, <2>2 DEF CopyEnds
  <2>4. Held'
    BY <1>46 DEF CopyEnds
  <2>5. InReset'
    BY <1>46, <2>1 DEF CopyEnds
  <2> QED BY <2>3, <2>4, <2>5
<1>11. ASSUME NEW y \in Yulons, StartRemoval(y) PROVE Reserved'
  <2>1. reset' \in Resets \cup {NoFile} /\ (reset' \in Resets \/ pc'[y] = "idle")
    BY <1>11, RecordWritten
  <2>2. TypeOK'
    BY <1>11, <2>1 DEF StartRemoval, Due, StepFails
  <2>3. Held'
    BY <1>11 DEF StartRemoval, Due, StepFails
  <2>4. InReset'
    BY <1>11, <2>1 DEF StartRemoval, Due, StepFails
  <2> QED BY <2>2, <2>3, <2>4
<1>12. ASSUME NEW y \in Yulons, RemoveVolumes(y) PROVE Reserved'
  BY <1>12 DEF RemoveVolumes
<1>13. ASSUME NEW y \in Yulons, EmptyFolder(y) PROVE Reserved'
  BY <1>13 DEF EmptyFolder
<1>14. ASSUME NEW y \in Yulons, RemoveOwner(y) PROVE Reserved'
  BY <1>14 DEF RemoveOwner, Finished
<1>15. ASSUME NEW y \in Yulons, Verify(y) PROVE Reserved'
  BY <1>15 DEF Verify, Due, Finished, StepFails
<1>16. ASSUME NEW y \in Yulons, NameArchive(y) PROVE Reserved'
  <2>1. reset' \in Resets
    BY <1>16, RecordWritten
  <2>2. TypeOK'
    BY <1>16, <2>1 DEF NameArchive, Due
  <2>3. Held'
    BY <1>16 DEF NameArchive, Due
  <2>4. InReset'
    BY <1>16, <2>1 DEF NameArchive, Due
  <2> QED BY <2>2, <2>3, <2>4
<1>17. ASSUME NEW y \in Yulons, WriteArchive(y) PROVE Reserved'
  BY <1>17 DEF WriteArchive, Due
<1>18. ASSUME NEW y \in Yulons, RemoveSource(y) PROVE Reserved'
  BY <1>18 DEF RemoveSource, Due
<1>19. ASSUME NEW y \in Yulons, SetAside(y) PROVE Reserved'
  BY <1>19 DEF SetAside, Due, Finished
<1>20. ASSUME NEW y \in Yulons, Ready(y) PROVE Reserved'
  BY <1>20 DEF Ready
<1>21. ASSUME NEW y \in Yulons, Guard(y) PROVE Reserved'
  BY <1>21 DEF Guard
<1>22. ASSUME NEW y \in Yulons, CloneUpdates(y) PROVE Reserved'
  BY <1>22 DEF CloneUpdates, HasGit
<1>23. ASSUME NEW y \in Yulons, Clone(y) PROVE Reserved'
  <2>1. reset' \in Resets \cup {NoFile}
    BY <1>23, RecordWritten
  <2>2. TypeOK'
    BY <1>23, <2>1 DEF Clone, PrepareStaging, CloneInPlace, HasGit
  <2>3. Held'
    BY <1>23 DEF Clone, PrepareStaging, CloneInPlace, HasGit
  <2>4. InReset'
    BY <1>23, <2>1 DEF Clone, PrepareStaging, CloneInPlace, HasGit
  <2> QED BY <2>2, <2>3, <2>4
<1>24. ASSUME NEW y \in Yulons, MarkStaging(y) PROVE Reserved'
  BY <1>24 DEF MarkStaging
<1>25. ASSUME NEW y \in Yulons, Cloned(y) PROVE Reserved'
  BY <1>25 DEF Cloned
<1>26. ASSUME NEW y \in Yulons, MoveGit(y) PROVE Reserved'
  BY <1>26 DEF MoveGit
<1>27. ASSUME NEW y \in Yulons, MoveRest(y) PROVE Reserved'
  BY <1>27 DEF MoveRest
<1>28. ASSUME NEW y \in Yulons, RecordStage(y) PROVE Reserved'
  BY <1>28 DEF RecordStage
<1>29. ASSUME NEW y \in Yulons, Unmark(y) PROVE Reserved'
  BY <1>29 DEF Unmark
<1>30. ASSUME NEW y \in Yulons, Build(y) PROVE Reserved'
  BY <1>30 DEF Build
<1>31. ASSUME NEW y \in Yulons, NameIt(y) PROVE Reserved'
  BY <1>31 DEF NameIt
<1>32. ASSUME NEW y \in Yulons, LookForReset(y) PROVE Reserved'
  BY <1>32 DEF LookForReset
<1>33. ASSUME NEW y \in Yulons, BringClone(y) PROVE Reserved'
  BY <1>33 DEF BringClone
<1>34. ASSUME NEW y \in Yulons, BringInstall(y) PROVE Reserved'
  BY <1>34 DEF BringInstall
<1>35. ASSUME NEW y \in Yulons, BringLoad(y) PROVE Reserved'
  BY <1>35 DEF BringLoad
<1>36. ASSUME NEW y \in Yulons, BroughtIn(y) PROVE Reserved'
  <2>1. loading' \in BOOLEAN /\ up' \in BOOLEAN
    BY <1>36 DEF BroughtIn
  <2> QED BY <1>36, <2>1 DEF BroughtIn
<1>37. ASSUME NEW y \in Yulons, BringEnds(y) PROVE Reserved'
  <2>1. loading' \in BOOLEAN /\ up' \in BOOLEAN
    BY <1>37 DEF BringEnds
  <2>2. moveIn' \in MoveIns \cup {NoFile}
    BY <1>37 DEF BringEnds
  <2>3. TypeOK'
    BY <1>37, <2>1, <2>2 DEF BringEnds
  <2>4. Held' /\ InReset'
    BY <1>37 DEF BringEnds
  <2> QED BY <2>3, <2>4
<1>38. ASSUME NEW y \in Yulons, ResetFails(y) PROVE Reserved'
  <2>1. up' \in BOOLEAN
    BY <1>38 DEF ResetFails
  <2>2. TypeOK'
    BY <1>38, <2>1 DEF ResetFails, StepFails
  <2>3. Held' /\ InReset'
    BY <1>38 DEF ResetFails, StepFails
  <2> QED BY <2>2, <2>3
<1>39. ASSUME NEW y \in Yulons, PlainFails(y) PROVE Reserved'
  BY <1>39 DEF PlainFails
<1>40. ASSUME NEW y \in Yulons, MoveFails(y) PROVE Reserved'
  BY <1>40 DEF MoveFails
<1>41. ASSUME NEW y \in Yulons, Die(y) PROVE Reserved'
  BY <1>41 DEF Die
<1>42. ASSUME MoveStagingAway PROVE Reserved'
  BY <1>42 DEF MoveStagingAway
<1>43. ASSUME OrphanEnds PROVE Reserved'
  <2>1. loading' \in BOOLEAN
    BY <1>43 DEF OrphanEnds
  <2> QED BY <1>43, <2>1 DEF OrphanEnds
<1>44. ASSUME DamageDump PROVE Reserved'
  BY <1>44 DEF DamageDump
<1>45. CASE UNCHANGED vars
  BY <1>45 DEF vars
<1> QED BY <1>1, <1>2, <1>3, <1>4, <1>5, <1>6, <1>7, <1>8, <1>9, <1>10, <1>11, <1>12, <1>13,
         <1>14, <1>15, <1>16, <1>17, <1>18, <1>19, <1>20, <1>21, <1>22, <1>23, <1>24, <1>25,
         <1>26, <1>27, <1>28, <1>29, <1>30, <1>31, <1>32, <1>33, <1>34, <1>35, <1>36, <1>37,
         <1>38, <1>39, <1>40, <1>41, <1>42, <1>43, <1>44, <1>45, <1>46
     DEF Next, JobStep, ResetStep, PlainStep, BringStep

\* At first nothing is there and nobody works.
LEMMA InitReserved == Init => Reserved
<1> SUFFICES ASSUME Init PROVE Reserved
  OBVIOUS
<1>1. Held /\ InReset
  BY DEF Init, Held, InReset, Working, Waiting, ResetWork, PlainWork
<1>2. loading \in BOOLEAN /\ up \in BOOLEAN /\ read \in [Yulons -> BOOLEAN]
  BY DEF Init
<1>3. TypeOK
  BY <1>2, StartOverAssumption DEF Init, TypeOK, Waiting
<1> QED BY <1>1, <1>3 DEF Reserved

\* The reservation orders the jobs of all Yu'lons, and every value is of its type.
LEMMA ReservedAlways == Spec => []Reserved
<1>1. Init => Reserved
  BY InitReserved
<1> QED BY <1>1, ReservedStep, PTL DEF Spec

\* Every record, and every step of every job, is one of those the code has.
THEOREM StartOverTyped == Spec => []TypeOK
<1>1. Reserved => TypeOK
  BY DEF Reserved
<1> QED BY <1>1, ReservedAlways, PTL

-----------------------------------------------------------------------------
(* A reset and a bring-in. *)

\* Every step keeps what a reset, a bring-in and a plain install rely on.
LEMMA InvStep == Apart /\ Inv /\ [Next]_vars => Inv'
<1> SUFFICES ASSUME Apart, Inv, [Next]_vars PROVE Inv'
  OBVIOUS
<1>0. Reserved'
  BY ReservedStep DEF Inv
<1>a. ASSUME NEW y \in Yulons
      PROVE  /\ Revalidate(y) => \/ reset' = reset
                                 \/ reset'.done = reset.done \ {"copy"} /\ ~reset'.copied
             /\ Revalidate(y) \/ Copy(y) \/ CopyEnds(y) =>
                                        reset'.removing = reset.removing
             /\ Clone(y) /\ UnderWay => /\ UnderWay' /\ reset'.done = reset.done
                                        /\ reset'.removing = reset.removing
             /\ WriteReset(y) => UnderWay' /\ ~reset'.removing
             /\ Revalidate(y) => UnderWay'
             /\ BringLoad(y) => moveIn' # NoFile /\ moveIn'.pressing = y
  <2>1. WriteReset(y) => UnderWay' /\ ~reset'.removing
    BY RecordWritten, StartOverAssumption DEF Inv, WriteReset, UnderWay
  <2>2. Revalidate(y) => UnderWay'
    BY RecordWritten, StartOverAssumption DEF Inv, UnderWay
  <2> QED BY <2>1, <2>2, RecordWritten, Zenon DEF Inv
<1> USE <1>0, StartOverAssumption, TheSteps, DueSteps
    DEF Apart, Inv, Reserved, TypeOK, Held, InReset, Working, Waiting, ResetWork, PlainWork,
        BringWork, MoveIns, Resets, Goes, Ends, Fault, Unpressed, UnderWay, MoveInThere, BuiltIn,
        BeingPressed, folder, docker, beside, TwoRecords, Pressed, Named, TwoLooks, OnlyLooked,
        SourceThere, SourceGone, PlainAlone, TheRecordIsKept, SafeCopy, Cleared, Stopped,
        CopyMade, CopyTrusted, Truthful, Whole
<1>1. ASSUME NEW y \in Yulons, Ask(y) PROVE TwoRecords' /\ SafeCopy' /\ Truthful'
  BY <1>1 DEF Ask
<1>2. ASSUME NEW y \in Yulons, PressInstall(y) PROVE TwoRecords' /\ SafeCopy' /\ Truthful'
  BY <1>2 DEF PressInstall
<1>3. ASSUME NEW y \in Yulons, PressBringIn(y) PROVE TwoRecords' /\ SafeCopy' /\ Truthful'
  BY <1>3 DEF PressBringIn, UnderWay, BuiltIn
<1>4. ASSUME NEW y \in Yulons, Begin(y) PROVE TwoRecords' /\ SafeCopy' /\ Truthful'
  <2>1. TwoRecords'
    BY <1>4 DEF Begin, MayCarryOn, MayBegin, CarryOn
  <2>2. SafeCopy'
    BY <1>4 DEF Begin, MayCarryOn, MayBegin, CarryOn
  <2>3. Truthful'
    BY <1>4 DEF Begin, MayCarryOn, MayBegin, CarryOn
  <2> QED BY ONLY <2>1, <2>2, <2>3
<1>5. ASSUME NEW y \in Yulons, WriteReset(y) PROVE TwoRecords' /\ SafeCopy' /\ Truthful'
  <2>1. UnderWay' /\ ~reset'.removing
    BY <1>5, <1>a
  <2>2. TwoRecords'
    BY <1>5, <2>1 DEF WriteReset
  <2>3. SafeCopy'
    BY <1>5, <2>1 DEF WriteReset
  <2>4. Truthful'
    BY <1>5, <2>1 DEF WriteReset
  <2> QED BY ONLY <2>2, <2>3, <2>4
<1>6. ASSUME NEW y \in Yulons, LookAgain(y) PROVE TwoRecords' /\ SafeCopy' /\ Truthful'
  BY <1>6 DEF LookAgain
<1>7. ASSUME NEW y \in Yulons, Revalidate(y) PROVE TwoRecords' /\ SafeCopy' /\ Truthful'
  <2>1. /\ reset' = reset \/ (reset'.done = reset.done \ {"copy"} /\ ~reset'.copied)
        /\ reset'.removing = reset.removing /\ UnderWay'
    BY <1>7, <1>a
  <2>2. TwoRecords'
    BY <1>7, <2>1 DEF Revalidate, CopyIsSpoilt
  <2>3. Cleared' /\ Stopped'
    BY <1>7, <2>1 DEF Revalidate, CopyIsSpoilt
  <2>4. CopyMade'
    BY <1>7, <2>1 DEF Revalidate, CopyIsSpoilt
  <2>5. CopyTrusted'
    BY <1>7, <2>1 DEF Revalidate, CopyIsSpoilt
  <2>6. Truthful'
    BY <1>7, <2>1 DEF Revalidate, CopyIsSpoilt
  <2> QED BY ONLY <2>2, <2>3, <2>4, <2>5, <2>6
<1>8. ASSUME NEW y \in Yulons, FindProject(y) PROVE TwoRecords' /\ SafeCopy' /\ Truthful'
  BY <1>8 DEF FindProject, Finished
<1>9. ASSUME NEW y \in Yulons, StopServer(y) PROVE TwoRecords' /\ SafeCopy' /\ Truthful'
  BY <1>9 DEF StopServer, Finished, StepFails
<1>10. ASSUME NEW y \in Yulons, Copy(y) PROVE TwoRecords' /\ SafeCopy' /\ Truthful'
  <2>1. /\ reset'.removing = reset.removing /\ UnderWay
        /\ "stopped" \in reset.done /\ "copy" \notin reset.done
    BY <1>10, <1>a DEF Copy
  <2>2. CASE db = "none" \/ up
    <3>1. Copied /\ UNCHANGED <<moveIn, owner, tree, db, loading, archive, pc, read>>
      BY <1>10, <2>2 DEF Copy
    <3>2. pc[y] = "steps"
      BY <1>10 DEF Copy
    <3>3. TwoRecords'
      BY <2>1, <3>1, <3>2 DEF Copied
    <3>4. Cleared' /\ Stopped' /\ CopyMade'
      BY <2>1, <3>1, <3>2 DEF Copied
    <3>5. CopyTrusted'
      BY <2>1, <3>1, <3>2 DEF Copied
    <3>6. Truthful'
      BY <2>1, <3>1, <3>2 DEF Copied
    <3> QED BY ONLY <3>3, <3>4, <3>5, <3>6 DEF SafeCopy
  <2>3. CASE ~(db = "none" \/ up)
    <3>1. /\ UNCHANGED <<moveIn, reset, owner, tree, db, loading, dump, archive, read>>
          /\ pc[y] = "steps" /\ pc' = [pc EXCEPT ![y] = "copying"]
      BY <1>10, <2>3 DEF Copy
    <3>2. TwoRecords'
      BY <2>1, <3>1
    <3>3. SafeCopy'
      BY <2>1, <3>1
    <3>4. Truthful'
      BY <2>1, <3>1
    <3> QED BY ONLY <3>2, <3>3, <3>4
  <2> QED BY ONLY <2>2, <2>3
<1>50. ASSUME NEW y \in Yulons, CopyEnds(y) PROVE TwoRecords' /\ SafeCopy' /\ Truthful'
  <2>1. reset'.removing = reset.removing
    BY <1>50, <1>a
  <2>2. TwoRecords'
    BY <1>50, <2>1 DEF CopyEnds, Copied
  <2>3. Cleared' /\ Stopped'
    BY <1>50, <2>1 DEF CopyEnds, Copied
  <2>4. CopyMade'
    BY <1>50, <2>1 DEF CopyEnds, Copied
  <2>5. CopyTrusted'
    BY <1>50, <2>1 DEF CopyEnds, Copied
  <2>6. Truthful'
    BY <1>50, <2>1 DEF CopyEnds, Copied
  <2> QED BY ONLY <2>2, <2>3, <2>4, <2>5, <2>6
<1>11. ASSUME NEW y \in Yulons, StartRemoval(y) PROVE TwoRecords' /\ SafeCopy' /\ Truthful'
  BY <1>11 DEF StartRemoval, StepFails
<1>12. ASSUME NEW y \in Yulons, RemoveVolumes(y) PROVE TwoRecords' /\ SafeCopy' /\ Truthful'
  BY <1>12 DEF RemoveVolumes
<1>13. ASSUME NEW y \in Yulons, EmptyFolder(y) PROVE TwoRecords' /\ SafeCopy' /\ Truthful'
  BY <1>13 DEF EmptyFolder
<1>14. ASSUME NEW y \in Yulons, RemoveOwner(y) PROVE TwoRecords' /\ SafeCopy' /\ Truthful'
  BY <1>14 DEF RemoveOwner, Finished
<1>15. ASSUME NEW y \in Yulons, Verify(y) PROVE TwoRecords' /\ SafeCopy' /\ Truthful'
  BY <1>15 DEF Verify, Finished, StepFails
<1>16. ASSUME NEW y \in Yulons, NameArchive(y) PROVE TwoRecords' /\ SafeCopy' /\ Truthful'
  BY <1>16 DEF NameArchive
<1>17. ASSUME NEW y \in Yulons, WriteArchive(y) PROVE TwoRecords' /\ SafeCopy' /\ Truthful'
  BY <1>17 DEF WriteArchive
<1>18. ASSUME NEW y \in Yulons, RemoveSource(y) PROVE TwoRecords' /\ SafeCopy' /\ Truthful'
  BY <1>18 DEF RemoveSource
<1>19. ASSUME NEW y \in Yulons, SetAside(y) PROVE TwoRecords' /\ SafeCopy' /\ Truthful'
  BY <1>19 DEF SetAside, Finished
<1>20. ASSUME NEW y \in Yulons, Ready(y) PROVE TwoRecords' /\ SafeCopy' /\ Truthful'
  BY <1>20 DEF Ready, STEPS
<1>21. ASSUME NEW y \in Yulons, Guard(y) PROVE TwoRecords' /\ SafeCopy' /\ Truthful'
  BY <1>21 DEF Guard
<1>22. ASSUME NEW y \in Yulons, CloneUpdates(y) PROVE TwoRecords' /\ SafeCopy' /\ Truthful'
  BY <1>22 DEF CloneUpdates, HasGit
<1>23. ASSUME NEW y \in Yulons, Clone(y) PROVE TwoRecords' /\ SafeCopy' /\ Truthful'
  <2>1. UnderWay => /\ UnderWay' /\ reset'.done = reset.done
                    /\ reset'.removing = reset.removing
    BY <1>23, <1>a
  <2>2. PlainAlone'
    BY <1>23, <2>1 DEF Clone, PrepareStaging, CloneInPlace, HasGit
  <2>3. Named' /\ Pressed' /\ TwoLooks' /\ OnlyLooked' /\ SourceThere' /\ SourceGone'
        /\ TheRecordIsKept'
    BY <1>23, <2>1 DEF Clone, PrepareStaging, CloneInPlace, HasGit
  <2>4. SafeCopy'
    BY <1>23, <2>1 DEF Clone, PrepareStaging, CloneInPlace, HasGit
  <2>5. Truthful'
    BY <1>23, <2>1 DEF Clone, PrepareStaging, CloneInPlace, HasGit
  <2> QED BY ONLY <2>2, <2>3, <2>4, <2>5
<1>24. ASSUME NEW y \in Yulons, MarkStaging(y) PROVE TwoRecords' /\ SafeCopy' /\ Truthful'
  BY <1>24 DEF MarkStaging
<1>25. ASSUME NEW y \in Yulons, Cloned(y) PROVE TwoRecords' /\ SafeCopy' /\ Truthful'
  BY <1>25 DEF Cloned
<1>26. ASSUME NEW y \in Yulons, MoveGit(y) PROVE TwoRecords' /\ SafeCopy' /\ Truthful'
  BY <1>26 DEF MoveGit
<1>27. ASSUME NEW y \in Yulons, MoveRest(y) PROVE TwoRecords' /\ SafeCopy' /\ Truthful'
  BY <1>27 DEF MoveRest
<1>28. ASSUME NEW y \in Yulons, RecordStage(y) PROVE TwoRecords' /\ SafeCopy' /\ Truthful'
  BY <1>28 DEF RecordStage
<1>29. ASSUME NEW y \in Yulons, Unmark(y) PROVE TwoRecords' /\ SafeCopy' /\ Truthful'
  BY <1>29 DEF Unmark
<1>30. ASSUME NEW y \in Yulons, Build(y) PROVE TwoRecords' /\ SafeCopy' /\ Truthful'
  BY <1>30 DEF Build
<1>31. ASSUME NEW y \in Yulons, NameIt(y) PROVE TwoRecords' /\ SafeCopy' /\ Truthful'
  BY <1>31 DEF NameIt
<1>32. ASSUME NEW y \in Yulons, LookForReset(y) PROVE TwoRecords' /\ SafeCopy' /\ Truthful'
  BY <1>32 DEF LookForReset
<1>33. ASSUME NEW y \in Yulons, BringClone(y) PROVE TwoRecords' /\ SafeCopy' /\ Truthful'
  BY <1>33 DEF BringClone
<1>34. ASSUME NEW y \in Yulons, BringInstall(y) PROVE TwoRecords' /\ SafeCopy' /\ Truthful'
  BY <1>34 DEF BringInstall
<1>35. ASSUME NEW y \in Yulons, BringLoad(y) PROVE TwoRecords' /\ SafeCopy' /\ Truthful'
  <2>1. moveIn' # NoFile /\ moveIn'.pressing = y
    BY <1>35, <1>a
  <2>2. Named'
    BY <1>35, <2>1 DEF BringLoad
  <2>3. Pressed' /\ TwoLooks' /\ OnlyLooked' /\ SourceThere' /\ SourceGone'
        /\ TheRecordIsKept' /\ PlainAlone'
    BY <1>35, <2>1 DEF BringLoad
  <2>4. SafeCopy'
    BY <1>35, <2>1 DEF BringLoad
  <2>5. Truthful'
    BY <1>35, <2>1 DEF BringLoad
  <2> QED BY ONLY <2>2, <2>3, <2>4, <2>5
<1>36. ASSUME NEW y \in Yulons, BroughtIn(y) PROVE TwoRecords' /\ SafeCopy' /\ Truthful'
  BY <1>36 DEF BroughtIn
<1>37. ASSUME NEW y \in Yulons, BringEnds(y) PROVE TwoRecords' /\ SafeCopy' /\ Truthful'
  BY <1>37 DEF BringEnds
<1>38. ASSUME NEW y \in Yulons, ResetFails(y) PROVE TwoRecords' /\ SafeCopy' /\ Truthful'
  BY <1>38 DEF ResetFails, StepFails
<1>39. ASSUME NEW y \in Yulons, PlainFails(y) PROVE TwoRecords' /\ SafeCopy' /\ Truthful'
  BY <1>39 DEF PlainFails
<1>40. ASSUME NEW y \in Yulons, MoveFails(y) PROVE TwoRecords' /\ SafeCopy' /\ Truthful'
  BY <1>40 DEF MoveFails
<1>41. ASSUME NEW y \in Yulons, Die(y) PROVE TwoRecords' /\ SafeCopy' /\ Truthful'
  BY <1>41 DEF Die
<1>42. ASSUME MoveStagingAway PROVE TwoRecords' /\ SafeCopy' /\ Truthful'
  BY <1>42 DEF MoveStagingAway
<1>43. ASSUME OrphanEnds PROVE TwoRecords' /\ SafeCopy' /\ Truthful'
  BY <1>43 DEF OrphanEnds
<1>44. ASSUME DamageDump PROVE TwoRecords' /\ SafeCopy' /\ Truthful'
  BY <1>44 DEF DamageDump
<1>45. CASE UNCHANGED vars
  BY <1>45 DEF vars
<1>46. ASSUME NEW y \in Yulons, ResetStep(y) PROVE TwoRecords' /\ SafeCopy' /\ Truthful'
  BY <1>46,
     <1>4, <1>5, <1>6, <1>7, <1>8, <1>9, <1>10, <1>11, <1>12, <1>13, <1>14, <1>15, <1>16,
     <1>17, <1>18, <1>19, <1>20, <1>50
     DEF ResetStep
<1>47. ASSUME NEW y \in Yulons, PlainStep(y) PROVE TwoRecords' /\ SafeCopy' /\ Truthful'
  BY <1>47,
     <1>21, <1>22, <1>23, <1>24, <1>25, <1>26, <1>27, <1>28, <1>29, <1>30
     DEF PlainStep
<1>48. ASSUME NEW y \in Yulons, BringStep(y) PROVE TwoRecords' /\ SafeCopy' /\ Truthful'
  BY <1>48, <1>31, <1>32, <1>33, <1>34, <1>35, <1>36 DEF BringStep
<1>49. ASSUME NEW y \in Yulons, JobStep(y) PROVE TwoRecords' /\ SafeCopy' /\ Truthful'
  BY <1>37, <1>46, <1>47, <1>48, <1>49 DEF JobStep
<1> QED
  BY <1>1, <1>2, <1>3, <1>38, <1>39, <1>40, <1>41, <1>42, <1>43, <1>44, <1>45, <1>49
     DEF Next

\* It holds from the empty folder on.
LEMMA InvAlways == Apart /\ Spec => []Inv
<1>1. Init => Inv
  BY InitReserved
     DEF Init, Inv, Working, Waiting, ResetWork, PlainWork, BringWork, TwoRecords, Pressed, Named,
         TwoLooks, OnlyLooked, SourceThere, SourceGone, PlainAlone,
         TheRecordIsKept, SafeCopy, Cleared, Stopped, CopyMade, CopyTrusted, Truthful,
         UnderWay, MoveInThere, BuiltIn
<1> SUFFICES ASSUME Apart PROVE Spec => []Inv
  OBVIOUS
<1>2. Inv /\ [Next]_vars => Inv'
  BY InvStep
<1> QED BY <1>1, <1>2, PTL DEF Spec

\* A reset that has had its second look and a bring-in that has had its own never both work
\* (start_over.py _begin, move_server.py _pressed).
THEOREM OnlyOneWorks == Apart /\ Spec => []OneOfTheTwo
<1>1. Inv => OneOfTheTwo
  BY StartOverAssumption
     DEF Inv, Reserved, Held, InReset, Working, ResetWork, PlainWork, BringWork, TwoRecords,
         Named, TwoLooks, PlainAlone, OneOfTheTwo
<1> QED BY <1>1, InvAlways, PTL

\* The plain install works only where nothing of the bring-in is left (_baseline, _set_aside).
THEOREM InstallsOnCleanGround == Apart /\ Spec => []PlainOnCleanGround
<1>1. Inv => PlainOnCleanGround
  BY DEF Inv, TwoRecords, PlainAlone, PlainOnCleanGround
<1> QED BY <1>1, InvAlways, PTL

\* From the first change of a reset until its end, the bring-in's record is in the folder or its
\* archive is whole (_set_aside, _finish_set_aside).
THEOREM RecordKept == Apart /\ Spec => []TheRecordIsKept
<1>1. Inv => TheRecordIsKept
  BY DEF Inv, TwoRecords
<1> QED BY <1>1, InvAlways, PTL

\* What a record that a bring-in may carry on from calls built is there (_reset, load_cut_off).
THEOREM RecordsAreTrue == Apart /\ Spec => []ARecordTellsTheTruth
<1>1. Inv => ARecordTellsTheTruth
  BY DEF Inv, Truthful, Whole, ARecordTellsTheTruth
<1> QED BY <1>1, InvAlways, PTL

\* What a bring-in loaded is removed only over a whole copy of it (_copy, _revalidate, _remove).
THEOREM CopiedFirst == Apart /\ Spec => CopiedBeforeRemoved
<1>1. ASSUME Apart, Inv, [Next]_vars, db = "brought", db' = "none"
      PROVE  dump = "whole" /\ ~loading
  <2>1. PICK y \in Yulons : RemoveVolumes(y)
    <3> USE <1>1
    <3>1. ASSUME NEW y \in Yulons, ResetStep(y) PROVE RemoveVolumes(y)
      BY <3>1
         DEF ResetStep, docker, Begin, WriteReset, LookAgain, Revalidate, FindProject, StopServer,
             Copy, CopyEnds, StartRemoval, EmptyFolder, RemoveOwner, Verify, NameArchive,
             WriteArchive, RemoveSource, SetAside, Ready
    <3>2. ASSUME NEW y \in Yulons, PlainStep(y) PROVE FALSE
      BY <3>2
         DEF PlainStep, docker, Guard, CloneUpdates, Clone, MarkStaging, Cloned, MoveGit, MoveRest,
             RecordStage, Unmark, Build
    <3>3. ASSUME NEW y \in Yulons, BringStep(y) \/ BringEnds(y) PROVE FALSE
      BY <3>3
         DEF BringStep, docker, NameIt, LookForReset, BringClone, BringInstall, BringLoad,
             BroughtIn, BringEnds
    <3>4. ASSUME NEW y \in Yulons,
                 \/ Ask(y) \/ PressInstall(y) \/ PressBringIn(y)
                 \/ ResetFails(y) \/ PlainFails(y) \/ MoveFails(y) \/ Die(y)
          PROVE FALSE
      BY <3>4
         DEF docker, Ask, PressInstall, PressBringIn, ResetFails, PlainFails, MoveFails, Die
    <3>5. MoveStagingAway \/ OrphanEnds \/ DamageDump => FALSE
      BY DEF docker, MoveStagingAway, OrphanEnds, DamageDump
    <3>6. ~UNCHANGED vars
      BY DEF vars, docker
    <3> QED BY <3>1, <3>2, <3>3, <3>4, <3>5, <3>6 DEF Next, JobStep
  <2>2. pc[y] = "volumes"
    BY <2>1 DEF RemoveVolumes
  <2>3. UnderWay
    BY <1>1, <2>2 DEF Inv, Reserved, InReset, ResetWork
  <2> QED BY <1>1, <2>2, <2>3 DEF Inv, SafeCopy, CopyTrusted, Stopped, ResetWork
<1>2. SUFFICES ASSUME Apart PROVE Spec => CopiedBeforeRemoved
  OBVIOUS
<1>3. Inv /\ [Next]_vars => [db = "brought" /\ db' = "none" => dump = "whole" /\ ~loading]_vars
  BY <1>1, <1>2
<1>4. Spec => []Inv
  BY <1>2, InvAlways
<1> QED BY <1>3, <1>4, PTL DEF Spec, CopiedBeforeRemoved
=============================================================================
