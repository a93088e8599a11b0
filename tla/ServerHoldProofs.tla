-------------------------- MODULE ServerHoldProofs --------------------------
(* Theorems about ServerHold, for any Yu'lons, jobs, crashes and late        *)
(* answers, and any that find no reservation to be had: its types; that the  *)
(* reservation keeps two Yu'lons apart where both have one; that a database  *)
(* is not taken from under a world; and, when the restores of a              *)
(* server are one user's and a load is noted down before its Yu'lon can end, *)
(* that nothing else of the user works while a load writes, and the world is *)
(* down.                                                                     *)
EXTENDS ServerHold, TLAPS

-----------------------------------------------------------------------------
(* Types.                                                                   *)

\* A job inside a reservation is inside its own Yu'lon's.
Claimed == \A j \in users : claim[Home[j]] # Nobody

\* Every step keeps the shape of the variables.
LEMMA TypeStep == TypeOK /\ Claimed /\ [Next]_vars => TypeOK'
<1> SUFFICES ASSUME TypeOK, Claimed, [Next]_vars PROVE TypeOK'
  OBVIOUS
<1> USE HoldAssumption DEF TypeOK, tables, docker, said, server, restores
<1>1. ASSUME NEW j \in Jobs, Press(j) PROVE TypeOK'
  BY <1>1 DEF Press, RefusedOver, To, MarksOf, EntryMarks, Marks, Steps, Kinds
<1>41. ASSUME NEW j \in Jobs, Look(j) \/ OrphanRefuses(j) PROVE TypeOK'
  BY <1>41 DEF Look, OrphanRefuses, RefusedOver, To, MarksOf, Steps
<1>42. ASSUME NEW j \in Jobs, Count(j) PROVE TypeOK'
  BY <1>42 DEF Count, RefusedOver, To, MarksOf, EntryMarks, Marks, Steps, Kinds
<1>43. ASSUME NEW j \in Jobs, GoesOnMoot(j) PROVE TypeOK'
  BY <1>43 DEF GoesOnMoot, Unreserved, Inside, Unlock, MarksOf, Kinds, Steps
<1>2. ASSUME NEW j \in Jobs, Join(j) PROVE TypeOK'
  BY <1>2 DEF Join, To, Steps, Inside, Kinds, UsersOf, JobsOf
<1>3. ASSUME NEW j \in Jobs, TakeTheLock(j) PROVE TypeOK'
  BY <1>3 DEF TakeTheLock, To, Steps
<1>4. ASSUME NEW j \in Jobs, TakeTimesOut(j) PROVE TypeOK'
  BY <1>4 DEF TakeTimesOut, GoesWithout, Unreserved, Inside, MarksOf, Steps
<1>5. ASSUME NEW j \in Jobs, Made(j) PROVE TypeOK'
  BY <1>5 DEF Made, To, Unlock, Box, Inside, Kinds, Steps
<1>6. ASSUME NEW j \in Jobs, Silent(j) PROVE TypeOK'
  BY <1>6 DEF Silent, GoesWithout, Unreserved, RefusedOver, To, Inside, Unlock, MarksOf, Steps
<1>7. ASSUME NEW j \in Jobs, ClearLeftover(j) PROVE TypeOK'
  BY <1>7 DEF ClearLeftover
<1>8. ASSUME NEW j \in Jobs, Taken(j) PROVE TypeOK'
  BY <1>8 DEF Taken, Unlock, NoBox, MarksOf, Marks, Steps
<1>9. ASSUME NEW j \in Jobs, StopAnyway(j) PROVE TypeOK'
  BY <1>9 DEF StopAnyway, To, Lose, UsersOf, JobsOf, Steps
<1>10. ASSUME NEW j \in Jobs, StopAnywayFails(j) PROVE TypeOK'
  BY <1>10 DEF StopAnywayFails, To, Steps
<1>11. ASSUME NEW j \in Jobs, StopRegardless(j) PROVE TypeOK'
  BY <1>11 DEF StopRegardless, To, MarksOf, Marks, Steps
<1>12. ASSUME NEW j \in Jobs, LetGo(j) PROVE TypeOK'
  <2>1. users' \subseteq Jobs /\ claim' \in [Apps -> Jobs \cup {Nobody}]
        /\ (box' = NoBox \/ box' \in [by : Jobs, status : {"created", "running", "dying"}])
    BY <1>12 DEF LetGo, Release, Removed, Claimed, NoBox
  <2>2. pc' \in [Jobs -> Steps] /\ marks' \in [Jobs -> SUBSET Marks]
        /\ lock' \in [Apps -> Jobs \cup {Nobody}]
    BY <1>12 DEF LetGo, Out, Unheld, To, MarksOf, Steps
  <2> QED
    BY <1>12, <2>1, <2>2 DEF LetGo
<1>13. ASSUME NEW j \in Jobs, RefuseStart(j) PROVE TypeOK'
  <2>1. CASE record = "none"
    BY <1>13, <2>1 DEF RefuseStart, Compose, JobStays, To, Steps
  <2>2. CASE record # "none"
    BY <1>13, <2>2 DEF RefuseStart, Compose, JobStays, To, Steps
  <2> QED
    BY <2>1, <2>2
<1>14. ASSUME NEW j \in Jobs, StartServers(j) PROVE TypeOK'
  <2>1. pc' \in [Jobs -> Steps] /\ db' \in BOOLEAN
    <3>1. \E to \in {"letGo", "world"} : To(j, "servers", to)
      BY <1>14 DEF StartServers
    <3>2. db' = db \/ db' = TRUE
      BY <1>14 DEF StartServers
    <3>3. pc' \in [Jobs -> Steps]
      BY <3>1 DEF To, Steps
    <3> QED
      BY <3>2, <3>3
  <2> QED
    BY <1>14, <2>1 DEF StartServers, JobStays
<1>15. ASSUME NEW j \in Jobs, StartWorld(j) PROVE TypeOK'
  BY <1>15 DEF StartWorld, JobStays, WorldUp, To, Steps
<1>16. ASSUME NEW j \in Jobs, StopWorld(j) PROVE TypeOK'
  BY <1>16 DEF StopWorld, JobStays, To, Steps
<1>17. ASSUME NEW j \in Jobs, StopDb(j) PROVE TypeOK'
  BY <1>17 DEF StopDb, DbDown, JobStays, To, Steps
<1>18. ASSUME NEW j \in Jobs, Fails(j) PROVE TypeOK'
  BY <1>18 DEF Fails, JobStays, Steps
<1>19. ASSUME NEW j \in Jobs, WriteSql(j) PROVE TypeOK'
  BY <1>19 DEF WriteSql, JobStays, To, Steps
<1>20. ASSUME NEW j \in Jobs, Hold(j) PROVE TypeOK'
  BY <1>20 DEF Hold, HoldMarks, JobStays, To, MarksOf, Marks, Steps
<1>21. ASSUME NEW j \in Jobs, BringUp(j) PROVE TypeOK'
  BY <1>21 DEF BringUp, IntoTheJob, IsHot, Unheld, JobStays, To, MarksOf, Marks, Steps
<1>22. ASSUME NEW j \in Jobs, BringUpFails(j) PROVE TypeOK'
  BY <1>22 DEF BringUpFails, JobStays, To, Steps
<1>23. ASSUME NEW j \in Jobs, AskRecord(j) PROVE TypeOK'
  BY <1>23 DEF AskRecord, PutBack, JobStays, To, Steps
<1>24. ASSUME NEW j \in Jobs, Dump(j) PROVE TypeOK'
  BY <1>24 DEF Dump, PutBack, JobStays, To, Steps
<1>25. ASSUME NEW j \in Jobs, PlanAgain(j) PROVE TypeOK'
  BY <1>25 DEF PlanAgain, PutBack, JobStays, To, Steps
<1>26. ASSUME NEW j \in Jobs, SafetyCopy(j) PROVE TypeOK'
  BY <1>26 DEF SafetyCopy, PutBack, JobStays, To, Steps
<1>27. ASSUME NEW j \in Jobs, StartLoad(j) PROVE TypeOK'
  BY <1>27 DEF StartLoad, PutBack, JobStays, To, Steps
<1>28. ASSUME NEW j \in Jobs, NoteTheLoad(j) PROVE TypeOK'
  BY <1>28 DEF NoteTheLoad, JobStays, To, Steps
<1>29. ASSUME NEW j \in Jobs, LoadEnds(j) PROVE TypeOK'
  BY <1>29 DEF LoadEnds, PutBack, JobStays, To, Steps
<1>30. ASSUME NEW j \in Jobs, TakeDown(j) PROVE TypeOK'
  BY <1>30 DEF TakeDown, DbDown, JobStays, To, Steps
<1>31. ASSUME NEW j \in Jobs, Unhold(j) PROVE TypeOK'
  BY <1>31 DEF Unhold, Unheld, JobStays, To, MarksOf, Marks, Steps
<1>32. ASSUME NEW j \in Jobs, DockerIsLate(j) PROVE TypeOK'
  BY <1>32 DEF DockerIsLate, Box, NoBox
<1>33. ASSUME NEW j \in Jobs, Sweep(j) PROVE TypeOK'
  BY <1>33 DEF Sweep
<1>34. ASSUME NEW j \in Jobs, OrphanEnds(j) PROVE TypeOK'
  BY <1>34 DEF OrphanEnds
<1>35. ASSUME NEW a \in Apps, Crash(a) PROVE TypeOK'
  BY <1>35 DEF Crash, JobsOf, Going, Steps, NoBox
<1>36. ASSUME NEW a \in Apps, ForgetRecord(a) PROVE TypeOK'
  BY <1>36 DEF ForgetRecord
<1>37. ASSUME DockerRemoves PROVE TypeOK'
  BY <1>37 DEF DockerRemoves
<1>38. ASSUME DockerRestarts PROVE TypeOK'
  BY <1>38 DEF DockerRestarts, CutShort, PutBack, DbDown, Steps
<1>39. CASE UNCHANGED vars
  BY <1>39 DEF vars
<1>40. ASSUME NEW j \in Jobs, WaitGone(j) PROVE TypeOK'
  BY <1>40 DEF WaitGone, Out, Unheld, Unlock, To, MarksOf, Steps
<1> QED
  BY <1>1, <1>2, <1>3, <1>4, <1>5, <1>6, <1>7, <1>8, <1>9, <1>10, <1>11, <1>12, <1>13, <1>14,
     <1>15, <1>16, <1>17, <1>18, <1>19, <1>20, <1>21, <1>22, <1>23, <1>24, <1>25, <1>26, <1>27,
     <1>28, <1>29, <1>30, <1>31, <1>32, <1>33, <1>34, <1>35, <1>36, <1>37, <1>38, <1>39, <1>40,
     <1>41, <1>42, <1>43 DEF Next, Step

-----------------------------------------------------------------------------
(* The reservation.  Every job that is past the taking of it is one of its   *)
(* Yu'lon's users, or found none to be had; the job that made it is of that  *)
(* Yu'lon, and as long as the container does not run, all of these users     *)
(* count as lost: they were ended from elsewhere, or they joined a           *)
(* reservation that had been.                                                *)

\* Where a job is that was let in.
InReservation ==
    {"refuse", "servers", "world", "write", "hold", "bringUp", "askRecord", "dump",
     "plan", "safety", "load", "note", "loading", "takeDown", "unhold"}

JobsAreUsers == \A j \in Jobs :
    /\ pc[j] \in InReservation => j \in users \cup moot
    /\ pc[j] \in {"giveBack", "waitBack"} => j \in moot

Locked ==
    /\ \A a \in Apps : lock[a] # Nobody =>
          pc[lock[a]] \in {"run", "waitGone", "waitBack"} /\ Home[lock[a]] = a
    /\ \A j \in Jobs : pc[j] \in {"run", "waitGone", "waitBack"} =>
          lock[Home[j]] = j /\ claim[Home[j]] = Nobody

ClaimsAreOwn ==
    \A a \in Apps : claim[a] # Nobody =>
        /\ Home[claim[a]] = a
        /\ UsersOf(a) # {}
        /\ box = Box(claim[a], "running") \/ UsersOf(a) \subseteq lost

RunningIsClaimed == box.status = "running" => claim[Home[box.by]] = box.by

ReservationInv == Claimed /\ JobsAreUsers /\ Locked /\ ClaimsAreOwn /\ RunningIsClaimed

\* A job that only goes on inside its reservation, or out of it, disturbs nothing.
LEMMA QuietStep ==
  ASSUME TypeOK, ReservationInv, NEW j \in Jobs, NEW to, pc' = [pc EXCEPT ![j] = to],
         pc[j] \notin {"run", "waitGone", "waitBack"}, to \notin {"run", "waitGone", "waitBack"},
         to \in InReservation => pc[j] \in InReservation, to = "giveBack" => j \in moot,
         UNCHANGED <<lock, claim, users, lost, box, moot>>
  PROVE  ReservationInv'
<1> USE HoldAssumption DEF TypeOK, ReservationInv
<1>1. Claimed' /\ RunningIsClaimed' /\ ClaimsAreOwn'
  BY DEF Claimed, RunningIsClaimed, ClaimsAreOwn, UsersOf, JobsOf
<1>2. JobsAreUsers'
  BY DEF JobsAreUsers
<1>3. Locked'
  BY DEF Locked
<1> QED
  BY <1>1, <1>2, <1>3

\* What a job does at the server changes no reservation.
LEMMA ServerStep ==
  ASSUME TypeOK, ReservationInv, NEW j \in Jobs,
         \/ Look(j) \/ OrphanRefuses(j) \/ Count(j) \/ Press(j)
         \/ TakeTimesOut(j) \/ StopAnywayFails(j) \/ StopRegardless(j) \/ RefuseStart(j)
         \/ StartServers(j) \/ StartWorld(j) \/ StopWorld(j) \/ StopDb(j) \/ Fails(j)
         \/ WriteSql(j) \/ Hold(j) \/ BringUp(j) \/ BringUpFails(j) \/ AskRecord(j)
         \/ Dump(j) \/ PlanAgain(j) \/ SafetyCopy(j) \/ StartLoad(j) \/ NoteTheLoad(j)
         \/ LoadEnds(j) \/ TakeDown(j) \/ Unhold(j)
  PROVE  ReservationInv'
<1> USE QuietStep DEF JobStays, tables, docker, said, server, restores, InReservation
<1>1. CASE Press(j) \/ Count(j)
  BY <1>1 DEF Press, Count, RefusedOver, To
<1>24. CASE Look(j) \/ OrphanRefuses(j)
  BY <1>24 DEF Look, OrphanRefuses, Looks, RefusedOver, To
<1>2. CASE TakeTimesOut(j)
  BY <1>2 DEF TakeTimesOut, GoesWithout, Unreserved, Inside
<1>3. CASE StopAnywayFails(j)
  BY <1>3 DEF StopAnywayFails, To
<1>4. CASE StopRegardless(j)
  BY <1>4 DEF StopRegardless, To
<1>5. CASE RefuseStart(j)
  BY <1>5 DEF RefuseStart, Compose, To
<1>6. CASE StartServers(j)
  BY <1>6 DEF StartServers, To
<1>7. CASE StartWorld(j)
  BY <1>7 DEF StartWorld, To
<1>8. CASE StopWorld(j)
  BY <1>8 DEF StopWorld, To
<1>9. CASE StopDb(j)
  BY <1>9 DEF StopDb, To
<1>10. CASE Fails(j)
  BY <1>10 DEF Fails
<1>11. CASE WriteSql(j)
  BY <1>11 DEF WriteSql, To
<1>12. CASE Hold(j)
  BY <1>12 DEF Hold, To
<1>13. CASE BringUp(j)
  BY <1>13 DEF BringUp, IntoTheJob, To
<1>14. CASE BringUpFails(j)
  BY <1>14 DEF BringUpFails, To
<1>15. CASE AskRecord(j)
  BY <1>15 DEF AskRecord, PutBack, To
<1>16. CASE Dump(j)
  BY <1>16 DEF Dump, PutBack, To
<1>17. CASE PlanAgain(j)
  BY <1>17 DEF PlanAgain, PutBack, To
<1>18. CASE SafetyCopy(j)
  BY <1>18 DEF SafetyCopy, PutBack, To
<1>19. CASE StartLoad(j)
  BY <1>19 DEF StartLoad, PutBack, To
<1>20. CASE NoteTheLoad(j)
  BY <1>20 DEF NoteTheLoad, To
<1>21. CASE LoadEnds(j)
  BY <1>21 DEF LoadEnds, PutBack, To
<1>22. CASE TakeDown(j)
  BY <1>22 DEF TakeDown, To
<1>23. CASE Unhold(j)
  BY <1>23 DEF Unhold, To
<1> QED
  BY <1>1, <1>2, <1>3, <1>4, <1>5, <1>6, <1>7, <1>8, <1>9, <1>10, <1>11, <1>12, <1>13, <1>14,
     <1>15, <1>16, <1>17, <1>18, <1>19, <1>20, <1>21, <1>22, <1>23, <1>24

\* The take: joining, making, and being turned away.
LEMMA TakeStep ==
  ASSUME TypeOK, ReservationInv, NEW j \in Jobs,
         \/ Join(j) \/ TakeTheLock(j) \/ Made(j) \/ Silent(j) \/ GoesOnMoot(j)
         \/ ClearLeftover(j) \/ Taken(j)
  PROVE  ReservationInv'
<1> USE HoldAssumption
    DEF TypeOK, ReservationInv, InReservation, To, Inside, Unlock, UsersOf, JobsOf, Box, NoBox,
        docker, said, server, restores, tables
<1>1. CASE Join(j)
  <2>1. Claimed' /\ RunningIsClaimed'
    BY <1>1 DEF Join, Claimed, RunningIsClaimed
  <2>2. JobsAreUsers'
    BY <1>1 DEF Join, JobsAreUsers
  <2>3. Locked'
    BY <1>1 DEF Join, Locked, Kinds
  <2>4. ClaimsAreOwn'
    BY <1>1 DEF Join, ClaimsAreOwn
  <2> QED
    BY <2>1, <2>2, <2>3, <2>4
<1>2. CASE TakeTheLock(j)
  BY <1>2 DEF TakeTheLock, Claimed, RunningIsClaimed, JobsAreUsers, Locked, ClaimsAreOwn
<1>3. CASE Made(j)
  <2>1. UsersOf(Home[j]) = {} /\ claim[Home[j]] = Nobody
    BY <1>3 DEF Made, Locked, Claimed
  <2>2. Claimed' /\ RunningIsClaimed'
    BY <1>3, <2>1 DEF Made, Claimed, RunningIsClaimed
  <2>3. JobsAreUsers'
    BY <1>3 DEF Made, JobsAreUsers
  <2>4. Locked'
    BY <1>3 DEF Made, Locked, Kinds
  <2>5. ClaimsAreOwn'
    BY <1>3, <2>1 DEF Made, ClaimsAreOwn
  <2> QED
    BY <2>2, <2>3, <2>4, <2>5
<1>4. CASE Silent(j)
  BY <1>4 DEF Silent, GoesWithout, Unreserved, RefusedOver, Claimed, RunningIsClaimed,
     JobsAreUsers,
     Locked, ClaimsAreOwn
<1>7. CASE GoesOnMoot(j)
  <2>1. Claimed' /\ RunningIsClaimed' /\ ClaimsAreOwn'
    BY <1>7 DEF GoesOnMoot, Claimed, RunningIsClaimed, ClaimsAreOwn
  <2>2. JobsAreUsers'
    BY <1>7 DEF GoesOnMoot, Unreserved, JobsAreUsers
  <2>3. Locked'
    BY <1>7 DEF GoesOnMoot, Unreserved, Locked
  <2> QED
    BY <2>1, <2>2, <2>3
<1>5. CASE ClearLeftover(j)
  BY <1>5 DEF ClearLeftover, Claimed, RunningIsClaimed, JobsAreUsers, Locked, ClaimsAreOwn
<1>6. CASE Taken(j)
  BY <1>6 DEF Taken, Claimed, RunningIsClaimed, JobsAreUsers, Locked, ClaimsAreOwn
<1> QED
  BY <1>1, <1>2, <1>3, <1>4, <1>5, <1>6, <1>7

\* Giving it back, and taking it from its owner.
LEMMA ReleaseStep ==
  ASSUME TypeOK, ReservationInv, NEW j \in Jobs, LetGo(j) \/ WaitGone(j) \/ StopAnyway(j)
  PROVE  ReservationInv'
<1> USE HoldAssumption
    DEF TypeOK, ReservationInv, InReservation, To, UsersOf, JobsOf, Box, NoBox, docker, said,
        server, restores, tables
<1>1. CASE LetGo(j) /\ ~LastOut(j)
  <2>0. \E to \in {"over", "askRecord"} :
          pc' = [pc EXCEPT ![j] = to] /\ (to = "askRecord" => j \in moot)
    BY <1>1 DEF LetGo, Out, JobsAreUsers
  <2>1. CASE j \notin users
    BY <1>1, <2>0, <2>1 DEF LetGo, Claimed, RunningIsClaimed, JobsAreUsers, Locked, ClaimsAreOwn
  <2>2. CASE j \in users
    <3>1. Claimed' /\ RunningIsClaimed' /\ ClaimsAreOwn'
      BY <1>1, <2>2 DEF LetGo, Release, LastOut, Claimed, RunningIsClaimed, ClaimsAreOwn
    <3>2. JobsAreUsers' /\ Locked'
      BY <1>1, <2>0, <2>2 DEF LetGo, Release, JobsAreUsers, Locked
    <3> QED
      BY <3>1, <3>2
  <2> QED
    BY <2>1, <2>2
<1>3. CASE LetGo(j) /\ LastOut(j)
  <2>1. /\ users' = users \ {j} /\ box' = Removed(j) /\ lock[Home[j]] = Nobody
        /\ claim' = [claim EXCEPT ![Home[j]] = Nobody]
        /\ lock' = [lock EXCEPT ![Home[j]] = j] /\ moot' = moot
        /\ \E to \in {"waitGone", "waitBack"} :
              pc' = [pc EXCEPT ![j] = to] /\ (to = "waitBack" => j \in moot)
    BY <1>3 DEF LetGo, Release, LastOut, JobsAreUsers
  <2>2. UsersOf(Home[j])' = {}
    BY <1>3, <2>1 DEF LastOut
  <2>3. Claimed'
    BY <2>1, <2>2 DEF Claimed
  <2>4. JobsAreUsers' /\ Locked'
    BY <2>1 DEF JobsAreUsers, Locked
  <2>5. ClaimsAreOwn'
    BY <1>3, <2>1 DEF LetGo, Removed, ClaimsAreOwn
  <2>6. RunningIsClaimed'
    BY <1>3, <2>1 DEF Removed, RunningIsClaimed, Claimed, LastOut
  <2> QED
    BY <2>3, <2>4, <2>5, <2>6
<1>4. CASE WaitGone(j)
  <2>1. lock[Home[j]] = j /\ claim[Home[j]] = Nobody
    BY <1>4 DEF WaitGone, Locked
  <2>2. JobsAreUsers' /\ Locked'
    <3>1. \E to \in {"over", "askRecord"} :
            pc' = [pc EXCEPT ![j] = to] /\ (to = "askRecord" => j \in moot)
      BY <1>4 DEF WaitGone, Out, JobsAreUsers
    <3> QED
      BY <1>4, <2>1, <3>1 DEF WaitGone, Unlock, JobsAreUsers, Locked
  <2>3. Claimed' /\ ClaimsAreOwn' /\ RunningIsClaimed'
    BY <1>4 DEF WaitGone, Claimed, ClaimsAreOwn, RunningIsClaimed
  <2> QED
    BY <2>2, <2>3
<1>2. CASE StopAnyway(j)
  <2>1. Claimed' /\ RunningIsClaimed' /\ JobsAreUsers' /\ Locked'
    BY <1>2 DEF StopAnyway, Claimed, RunningIsClaimed, JobsAreUsers, Locked
  <2>2. ClaimsAreOwn'
    BY <1>2 DEF StopAnyway, Lose, ClaimsAreOwn
  <2> QED
    BY <2>1, <2>2
<1> QED
  BY <1>1, <1>2, <1>3, <1>4

\* Docker, and the deaths of a Yu'lon.
LEMMA OutsideStep ==
  ASSUME TypeOK, ReservationInv,
         \/ \E j \in Jobs : DockerIsLate(j) \/ Sweep(j) \/ OrphanEnds(j)
         \/ \E a \in Apps : Crash(a) \/ ForgetRecord(a)
         \/ DockerRemoves \/ DockerRestarts
  PROVE  ReservationInv'
<1> USE HoldAssumption
    DEF TypeOK, ReservationInv, UsersOf, JobsOf, Box, NoBox, docker, said, server, restores, tables
<1>1. ASSUME NEW j \in Jobs, DockerIsLate(j) \/ Sweep(j) \/ OrphanEnds(j) PROVE ReservationInv'
  BY <1>1 DEF DockerIsLate, Sweep, OrphanEnds, Claimed, RunningIsClaimed, JobsAreUsers, Locked,
     ClaimsAreOwn
<1>2. ASSUME NEW a \in Apps, Crash(a) PROVE ReservationInv'
  <2>1. JobsAreUsers'
    BY <1>2 DEF Crash, Going, JobsAreUsers, InReservation
  <2>2. Claimed' /\ ClaimsAreOwn'
    BY <1>2 DEF Crash, Claimed, ClaimsAreOwn
  <2>3. RunningIsClaimed'
    BY <1>2 DEF Crash, RunningIsClaimed
  <2>4. Locked'
    BY <1>2 DEF Crash, Going, Locked
  <2> QED
    BY <2>1, <2>2, <2>3, <2>4
<1>3. ASSUME NEW a \in Apps, ForgetRecord(a) PROVE ReservationInv'
  BY <1>3 DEF ForgetRecord, Claimed, RunningIsClaimed, JobsAreUsers, Locked, ClaimsAreOwn
<1>4. CASE DockerRemoves
  BY <1>4 DEF DockerRemoves, Claimed, RunningIsClaimed, JobsAreUsers, Locked, ClaimsAreOwn
<1>5. CASE DockerRestarts
  <2>1. JobsAreUsers' /\ Locked'
    BY <1>5 DEF DockerRestarts, CutShort, PutBack, JobsAreUsers, Locked, InReservation
  <2>2. Claimed' /\ ClaimsAreOwn' /\ RunningIsClaimed'
    BY <1>5 DEF DockerRestarts, Claimed, ClaimsAreOwn, RunningIsClaimed
  <2> QED
    BY <2>1, <2>2
<1> QED
  BY <1>1, <1>2, <1>3, <1>4, <1>5

\* Every step, of a press or of the world around it, keeps the reservation.
LEMMA ReservationStep == TypeOK /\ ReservationInv /\ [Next]_vars => ReservationInv'
<1> SUFFICES ASSUME TypeOK, ReservationInv, [Next]_vars PROVE ReservationInv'
  OBVIOUS
<1>1. CASE UNCHANGED vars
  BY <1>1 DEF vars, tables, docker, said, ReservationInv, Claimed, RunningIsClaimed, JobsAreUsers,
     Locked, ClaimsAreOwn, UsersOf
<1>2. ASSUME NEW j \in Jobs, Look(j) \/ OrphanRefuses(j) \/ Step(j) \/ StopAnyway(j)
                             \/ StopAnywayFails(j)
      PROVE  ReservationInv'
  BY <1>2, ServerStep, TakeStep, ReleaseStep, Zenon DEF Step
<1> QED
  BY <1>1, <1>2, OutsideStep, Zenon DEF Next

\* So the types and the reservation hold in every state.
LEMMA Invariants == Spec => [](TypeOK /\ ReservationInv)
<1>0. Init => TypeOK
  BY HoldAssumption DEF Init, TypeOK, Steps, NoBox
<1>1. Init => ReservationInv
  BY HoldAssumption DEF Init, NoBox, ReservationInv, Claimed, RunningIsClaimed,
     JobsAreUsers, InReservation, Locked, ClaimsAreOwn
<1>2. TypeOK /\ ReservationInv /\ [Next]_vars => TypeOK' /\ ReservationInv'
  BY TypeStep, ReservationStep DEF ReservationInv
<1> QED
  BY <1>0, <1>1, <1>2, PTL DEF Spec

-----------------------------------------------------------------------------
\* Every variable keeps the shape its declaration says, for any Yu'lons and any
\* jobs, however they are cut short.
THEOREM ServerHoldTyped == Spec => []TypeOK
BY Invariants, PTL

\* Docker has one container of a name, and a job works only inside a reservation
\* whose container runs or that was ended from elsewhere, or found none to be had:
\* so of two Yu'lons' jobs that are at work together, one has no reservation, and
\* no order of joins, last exits, deaths and late answers brings it about for two
\* that have (_server_claim, _let_go).
THEOREM OneYulonAtATime == Spec => []OneYulonWorks
<1>1. TypeOK /\ ReservationInv => OneYulonWorks
  <2> SUFFICES ASSUME TypeOK, ReservationInv, NEW j \in Jobs, NEW k \in Jobs,
                      Working(j), Working(k), Home[j] # Home[k],
                      j \notin Exposed, k \notin Exposed
               PROVE  FALSE
    BY DEF OneYulonWorks
  <2>1. j \in users /\ k \in users
    BY DEF ReservationInv, JobsAreUsers, InReservation, Working, Exposed
  <2>2. /\ box = Box(claim[Home[j]], "running") /\ Home[claim[Home[j]]] = Home[j]
        /\ box = Box(claim[Home[k]], "running") /\ Home[claim[Home[k]]] = Home[k]
    BY <2>1, HoldAssumption DEF ReservationInv, Claimed, ClaimsAreOwn, UsersOf, JobsOf, Exposed
  <2> QED
    BY <2>2 DEF Box
<1> QED
  BY <1>1, Invariants, PTL

\* No container outlives the press it stands for in a Yu'lon that lives on, and
\* no press goes on in a Yu'lon that has forgotten its reservation (_let_go).
THEOREM ReservationsArePresses == Spec => []AReservationIsAPress
<1>1. TypeOK /\ ReservationInv => AReservationIsAPress
  BY HoldAssumption DEF TypeOK, ReservationInv, AReservationIsAPress, RunningIsClaimed, Claimed,
     ClaimsAreOwn, Locked, UsersOf, JobsOf
<1> QED
  BY <1>1, Invariants, PTL

-----------------------------------------------------------------------------
\* Past the taking of a reservation, or at it.
AtIt == {"take", "run", "giveBack", "waitBack"} \cup InReservation

\* A restore, from its hold to the end of it.
InRestore == {"bringUp", "plan", "safety", "load", "note", "loading", "takeDown", "unhold"}

KindsFit == \A j \in Jobs :
    /\ kind[j] \in MayBe[j]
    /\ pc[j] \in {"plan", "safety", "load", "note", "loading"} => kind[j] = "restore"
    /\ pc[j] \in {"askRecord", "dump", "giveBack", "waitBack"} => kind[j] = "backup"
    /\ pc[j] \in {"hold", "bringUp", "takeDown", "unhold"} => kind[j] \in {"backup", "restore"}
    /\ pc[j] = "write" => kind[j] = "write"
    /\ pc[j] \in {"refuse", "servers", "world"} => kind[j] = "start"
    /\ pc[j] = "again" => kind[j] \in {"start", "stop"}
    /\ pc[j] \in {"idle", "count", "counted", "press"} /\ j \in moot
         => kind[j] \in {"start", "stop"}
    /\ pc[j] \in {"ask", "regardless", "stopWorld", "stopDb"} => kind[j] = "stop"

\* A job that had no reservation takes one inside its hold.
HoldsAtTake(j) ==
    j \in moot /\ kind[j] \in {"backup", "restore"} /\ pc[j] \in {"take", "run"}

MarksFit == \A j \in Jobs :
    /\ pc[j] \in {"idle", "over", "gone", "ask", "regardless"} => marks[j] = {}
    /\ pc[j] \in {"counted", "press"} \cup AtIt => EntryMarks(j) \ {"pressing"} \subseteq marks[j]
    /\ pc[j] \in AtIt => "pressing" \in marks[j] \/ (kind[j] = "start" /\ j \in moot)
    /\ pc[j] = "bringUp" \/ HoldsAtTake(j) => "held" \in marks[j]
    /\ kind[j] = "restore" /\ (pc[j] \in InRestore \/ HoldsAtTake(j))
         => {"held", "alone"} \subseteq marks[j]
    /\ "alone" \in marks[j] => kind[j] = "restore" /\ "leased" \in marks[j]
    /\ "leased" \in marks[j] => kind[j] \in {"backup", "restore"}
    /\ "pressing" \in marks[j] /\ kind[j] \in {"backup", "restore"} => "leased" \in marks[j]
    /\ kind[j] \in {"start", "stop"} => marks[j] \subseteq {"pressing", "inFlight"}

OneLease == \A j, k \in Jobs :
    "leased" \in marks[j] /\ "leased" \in marks[k] /\ Home[j] = Home[k] => j = k

AloneIsAlone == \A j, k \in Jobs :
    "alone" \in marks[j] /\ "pressing" \in marks[k] /\ Home[j] = Home[k] => j = k

LoadsAreRestores == \A j \in load :
    /\ kind[j] = "restore" /\ pc[j] \in {"note", "loading", "gone"}
    /\ pc[j] \in {"loading", "gone"} => record = j

OrphanIsAlone == \A j \in load, k \in Jobs :
    pc[j] = "gone" /\ Home[j] = Home[k] /\ kind[k] # "stop" => pc[k] \in {"idle", "over", "gone"}

Writes(j) == j \in load \/ pc[j] \in {"safety", "load", "note", "loading"}

WorldIsDown ==
    /\ \A j \in Jobs : Writes(j) /\ WorldUp => j \in Exposed \/ world \in Exposed
    /\ \A j \in load, k \in Jobs :
          pc[j] = "gone" /\ pc[k] \in {"servers", "world"} => j \in Exposed \/ k \in Exposed

-----------------------------------------------------------------------------
\* A job is at no step that its kind has not.
LEMMA KindsStep == TypeOK /\ KindsFit /\ [Next]_vars => KindsFit'
<1> SUFFICES ASSUME TypeOK, KindsFit, [Next]_vars PROVE KindsFit'
  OBVIOUS
<1> USE DEF TypeOK, KindsFit, Kinds, tables, docker, said, server, restores
<1>50. ASSUME NEW j \in Jobs, Look(j) \/ OrphanRefuses(j) \/ Count(j) \/ Press(j)
      PROVE  KindsFit'
  BY <1>50 DEF Look, OrphanRefuses, Looks, RefusedOver, Count, Press, To, MarksOf, EntryMarks
<1>51. ASSUME NEW j \in Jobs, GoesOnMoot(j) PROVE KindsFit'
  BY <1>51 DEF GoesOnMoot, Unreserved, Inside, MarksOf, Unlock
<1>1. ASSUME NEW j \in Jobs, Join(j) \/ TakeTheLock(j) \/ TakeTimesOut(j) \/ Made(j)
             \/ Silent(j) \/ ClearLeftover(j) \/ Taken(j)
      PROVE  KindsFit'
  BY <1>1 DEF To, MarksOf, JobsOf, Join, Inside, TakeTheLock, TakeTimesOut, GoesWithout,
     RefusedOver, Unreserved, Made, Unlock, Silent, ClearLeftover, Taken
<1>2. ASSUME NEW j \in Jobs, StopRegardless(j) \/ StopAnyway(j) \/ StopAnywayFails(j) \/ LetGo(j)
             \/ WaitGone(j)
      PROVE  KindsFit'
  BY <1>2 DEF StopRegardless, To, MarksOf, StopAnyway, StopAnywayFails, LetGo, Out, Unheld,
     Release,
     WaitGone, Unlock
<1>3. ASSUME NEW j \in Jobs, RefuseStart(j) \/ StartServers(j) \/ StartWorld(j) \/ StopWorld(j) \/
             StopDb(j) \/ Fails(j) \/ WriteSql(j)
      PROVE  KindsFit'
  BY <1>3 DEF RefuseStart, Compose, To, JobStays, StartServers, StartWorld, StopWorld, StopDb,
     DbDown,
     Fails, WriteSql
<1>4. ASSUME NEW j \in Jobs, Hold(j) \/ BringUp(j) \/ BringUpFails(j) \/ Unhold(j) \/ AskRecord(j)
             \/ Dump(j)
      PROVE  KindsFit'
  BY <1>4 DEF Hold, To, MarksOf, HoldMarks, CanHold, JobStays, BringUp, IntoTheJob, IsHot,
     Unheld, BringUpFails,
     Unhold, AskRecord, PutBack, Dump
<1>5. ASSUME NEW j \in Jobs, PlanAgain(j) \/ SafetyCopy(j) \/ StartLoad(j) \/ NoteTheLoad(j) \/
             LoadEnds(j) \/ TakeDown(j)
      PROVE  KindsFit'
  BY <1>5 DEF PlanAgain, To, PutBack, JobStays, SafetyCopy, StartLoad, NoteTheLoad, LoadEnds,
     TakeDown, DbDown
<1>6. ASSUME NEW j \in Jobs, DockerIsLate(j) \/ Sweep(j) \/ OrphanEnds(j)
      PROVE  KindsFit'
  BY <1>6 DEF DockerIsLate, Sweep, OrphanEnds
<1>7. ASSUME NEW b \in Apps, Crash(b) PROVE KindsFit'
  BY <1>7 DEF Crash, JobsOf, Going
<1>8. ASSUME NEW b \in Apps, ForgetRecord(b) PROVE KindsFit'
  BY <1>8 DEF ForgetRecord
<1>9. CASE DockerRemoves \/ DockerRestarts
  BY <1>9 DEF DockerRemoves, DockerRestarts, CutShort, PutBack, DbDown
<1>10. CASE UNCHANGED vars
  BY <1>10 DEF vars
<1> QED
  BY <1>1, <1>2, <1>3, <1>4, <1>5, <1>6, <1>7, <1>8, <1>9, <1>10,
     <1>50, <1>51 DEF Next, Step

\* A job that is let in is marked as what it is, and one that is out is not marked.
LEMMA MarksStep == TypeOK /\ KindsFit /\ MarksFit /\ [Next]_vars => MarksFit'
<1> SUFFICES ASSUME TypeOK, KindsFit, MarksFit, [Next]_vars PROVE MarksFit'
  OBVIOUS
<1> USE DEF TypeOK, KindsFit, MarksFit, HoldsAtTake, Kinds, EntryMarks, AtIt, InReservation,
        InRestore, tables, docker, said, server, restores
<1>50. ASSUME NEW j \in Jobs, Look(j) \/ OrphanRefuses(j) \/ Count(j) \/ Press(j)
      PROVE  MarksFit'
  <2>1. CASE Look(j)
    BY <2>1 DEF Look, Looks, To
  <2>2. CASE OrphanRefuses(j)
    BY <2>2 DEF OrphanRefuses, RefusedOver, To, MarksOf
  <2>3. CASE Count(j)
    BY <2>3 DEF Count, RefusedOver, To, MarksOf
  <2>4. CASE Press(j)
    <3>1. UNCHANGED <<kind, moot>>
      BY <2>4 DEF Press
    <3>2. CASE To(j, "press", "take") /\ MarksOf(j, EntryMarks(j))
      BY <3>1, <3>2 DEF To, MarksOf
    <3>3. CASE RefusedOver(j)
      BY <3>1, <3>3 DEF RefusedOver, To, MarksOf
    <3> QED
      BY <2>4, <3>2, <3>3 DEF Press
  <2> QED
    BY <1>50, <2>1, <2>2, <2>3, <2>4
<1>51. ASSUME NEW j \in Jobs, GoesOnMoot(j) PROVE MarksFit'
  BY <1>51 DEF GoesOnMoot, Unreserved, Inside, MarksOf, Unlock
<1>1. ASSUME NEW j \in Jobs, Join(j) \/ TakeTheLock(j) \/ TakeTimesOut(j) \/ Made(j)
             \/ Silent(j) \/ ClearLeftover(j) \/ Taken(j)
      PROVE  MarksFit'
  BY <1>1 DEF To, MarksOf, JobsOf, Join, Inside, TakeTheLock, TakeTimesOut, GoesWithout,
     RefusedOver, Unreserved, Made, Unlock, Silent, ClearLeftover, Taken
<1>2. ASSUME NEW j \in Jobs, StopRegardless(j) \/ StopAnyway(j) \/ StopAnywayFails(j) \/ LetGo(j)
             \/ WaitGone(j)
      PROVE  MarksFit'
  <2>1. CASE StopRegardless(j) \/ StopAnyway(j) \/ StopAnywayFails(j)
    BY <2>1 DEF StopRegardless, To, MarksOf, StopAnyway, StopAnywayFails
  <2>2. CASE LetGo(j) /\ LastOut(j)
    BY <2>2 DEF LetGo, To
  <2>3. CASE LetGo(j) /\ ~LastOut(j)
    <3>1. Out(j, pc[j]) /\ UNCHANGED <<kind, moot>>
      BY <2>3 DEF LetGo
    <3> QED
      BY <3>1 DEF Out, Unheld, To, MarksOf
  <2>4. CASE WaitGone(j)
    <3>1. Out(j, pc[j]) /\ UNCHANGED <<kind, moot>>
      BY <2>4 DEF WaitGone
    <3> QED
      BY <3>1 DEF Out, Unheld, To, MarksOf
  <2> QED
    BY <1>2, <2>1, <2>2, <2>3, <2>4
<1>3. ASSUME NEW j \in Jobs, RefuseStart(j) \/ StartServers(j) \/ StartWorld(j) \/ StopWorld(j) \/
             StopDb(j) \/ Fails(j) \/ WriteSql(j)
      PROVE  MarksFit'
  BY <1>3 DEF RefuseStart, Compose, To, JobStays, StartServers, StartWorld, StopWorld, StopDb,
     DbDown,
     Fails, WriteSql
<1>4. ASSUME NEW j \in Jobs, Hold(j) \/ BringUp(j) \/ BringUpFails(j) \/ Unhold(j) \/ AskRecord(j)
             \/ Dump(j)
      PROVE  MarksFit'
  BY <1>4 DEF Hold, To, MarksOf, HoldMarks, CanHold, JobStays, BringUp, IntoTheJob, IsHot,
     Unheld, BringUpFails,
     Unhold, AskRecord, PutBack, Dump
<1>5. ASSUME NEW j \in Jobs, PlanAgain(j) \/ SafetyCopy(j) \/ StartLoad(j) \/ NoteTheLoad(j) \/
             LoadEnds(j) \/ TakeDown(j)
      PROVE  MarksFit'
  BY <1>5 DEF PlanAgain, To, PutBack, JobStays, SafetyCopy, StartLoad, NoteTheLoad, LoadEnds,
     TakeDown, DbDown
<1>6. ASSUME NEW j \in Jobs, DockerIsLate(j) \/ Sweep(j) \/ OrphanEnds(j)
      PROVE  MarksFit'
  BY <1>6 DEF DockerIsLate, Sweep, OrphanEnds
<1>7. ASSUME NEW b \in Apps, Crash(b) PROVE MarksFit'
  BY <1>7 DEF Crash, JobsOf, Going
<1>8. ASSUME NEW b \in Apps, ForgetRecord(b) PROVE MarksFit'
  BY <1>8 DEF ForgetRecord
<1>9. CASE DockerRemoves \/ DockerRestarts
  BY <1>9 DEF DockerRemoves, DockerRestarts, CutShort, PutBack, DbDown
<1>10. CASE UNCHANGED vars
  BY <1>10 DEF vars
<1> HIDE DEF TypeOK, KindsFit, MarksFit
<1> QED
  BY <1>1, <1>2, <1>3, <1>4, <1>5, <1>6, <1>7, <1>8, <1>9, <1>10,
     <1>50, <1>51 DEF Next, Step

\* The two entries of a press, when they are not refused.
Counted(k) ==
    Count(k) /\ CanCount(k) /\ marks' = [marks EXCEPT ![k] = EntryMarks(k) \ {"pressing"}]

LetIn(k) ==
    /\ Press(k) /\ marks' = [marks EXCEPT ![k] = EntryMarks(k)]
    /\ \A i \in Marked(k, "alone") : kind[i] = kind[k]

\* Only a press that is let in and a hold add marks that keep others out.
LEMMA MarksChange ==
  ASSUME TypeOK, KindsFit, [Next]_vars, NEW k \in Jobs
  PROVE  \/ Counted(k)
         \/ LetIn(k)
         \/ Hold(k) /\ CanHold(k) /\ marks' = [marks EXCEPT ![k] = HoldMarks(k)]
         \/ marks'[k] \subseteq marks[k] 
         \/ (kind[k] = "stop" /\ marks'[k] \subseteq {"inFlight"})
<1> DEFINE Goal == \/ Counted(k)
                   \/ LetIn(k)
                   \/ Hold(k) /\ CanHold(k) /\ marks' = [marks EXCEPT ![k] = HoldMarks(k)]
                   \/ marks'[k] \subseteq marks[k]
                   \/ (kind[k] = "stop" /\ marks'[k] \subseteq {"inFlight"})
<1> USE DEF TypeOK, KindsFit, Kinds, tables, docker, said, server, restores
<1>50. ASSUME NEW j \in Jobs, Look(j) \/ OrphanRefuses(j) \/ Count(j) \/ Press(j)
      PROVE  Goal
  BY <1>50 DEF Counted, LetIn, Look, OrphanRefuses, Looks, RefusedOver, Count, Press, To,
     MarksOf, EntryMarks
<1>51. ASSUME NEW j \in Jobs, GoesOnMoot(j) PROVE Goal
  BY <1>51 DEF GoesOnMoot, Unreserved, Inside, MarksOf, Unlock
<1>1. ASSUME NEW j \in Jobs, Join(j) \/ TakeTheLock(j) \/ TakeTimesOut(j) \/ Made(j)
             \/ Silent(j) \/ ClearLeftover(j) \/ Taken(j)
      PROVE  Goal
  BY <1>1 DEF To, MarksOf, JobsOf, Join, Inside, TakeTheLock, TakeTimesOut, GoesWithout,
     RefusedOver, Unreserved, Made, Unlock, Silent, ClearLeftover, Taken
<1>2. ASSUME NEW j \in Jobs, StopRegardless(j) \/ StopAnyway(j) \/ StopAnywayFails(j) \/ LetGo(j)
             \/ WaitGone(j)
      PROVE  Goal
  BY <1>2 DEF StopRegardless, To, MarksOf, StopAnyway, StopAnywayFails, LetGo, Out, Unheld,
     Release,
     WaitGone, Unlock
<1>3. ASSUME NEW j \in Jobs, RefuseStart(j) \/ StartServers(j) \/ StartWorld(j) \/ StopWorld(j) \/
             StopDb(j) \/ Fails(j) \/ WriteSql(j)
      PROVE  Goal
  BY <1>3 DEF RefuseStart, Compose, To, JobStays, StartServers, StartWorld, StopWorld, StopDb,
     DbDown,
     Fails, WriteSql
<1>4. ASSUME NEW j \in Jobs, Hold(j) \/ BringUp(j) \/ BringUpFails(j) \/ Unhold(j) \/ AskRecord(j)
             \/ Dump(j)
      PROVE  Goal
  BY <1>4 DEF Hold, To, MarksOf, HoldMarks, CanHold, JobStays, BringUp, IntoTheJob, IsHot,
     Unheld, BringUpFails,
     Unhold, AskRecord, PutBack, Dump
<1>5. ASSUME NEW j \in Jobs, PlanAgain(j) \/ SafetyCopy(j) \/ StartLoad(j) \/ NoteTheLoad(j) \/
             LoadEnds(j) \/ TakeDown(j)
      PROVE  Goal
  BY <1>5 DEF PlanAgain, To, PutBack, JobStays, SafetyCopy, StartLoad, NoteTheLoad, LoadEnds,
     TakeDown, DbDown
<1>6. ASSUME NEW j \in Jobs, DockerIsLate(j) \/ Sweep(j) \/ OrphanEnds(j)
      PROVE  Goal
  BY <1>6 DEF DockerIsLate, Sweep, OrphanEnds
<1>7. ASSUME NEW b \in Apps, Crash(b) PROVE Goal
  BY <1>7 DEF Crash, JobsOf, Going
<1>8. ASSUME NEW b \in Apps, ForgetRecord(b) PROVE Goal
  BY <1>8 DEF ForgetRecord
<1>9. CASE DockerRemoves \/ DockerRestarts
  BY <1>9 DEF DockerRemoves, DockerRestarts, CutShort, PutBack, DbDown
<1>10. CASE UNCHANGED vars
  BY <1>10 DEF vars
<1> QED
  BY <1>1, <1>2, <1>3, <1>4, <1>5, <1>6, <1>7, <1>8, <1>9, <1>10,
     <1>50, <1>51 DEF Next, Step

\* What a job is never changes.
LEMMA KindStays == [Next]_vars => kind' = kind
<1> SUFFICES ASSUME [Next]_vars PROVE kind' = kind
  OBVIOUS
<1> USE DEF said
<1>50. ASSUME NEW j \in Jobs, Look(j) \/ OrphanRefuses(j) \/ Count(j) \/ Press(j)
      PROVE  kind' = kind
  BY <1>50 DEF Look, OrphanRefuses, Looks, RefusedOver, Count, Press, To, MarksOf, EntryMarks
<1>51. ASSUME NEW j \in Jobs, GoesOnMoot(j) PROVE kind' = kind
  BY <1>51 DEF GoesOnMoot, Unreserved, Inside, MarksOf, Unlock
<1>1. ASSUME NEW j \in Jobs, Join(j) \/ TakeTheLock(j) \/ TakeTimesOut(j) \/ Made(j)
             \/ Silent(j) \/ ClearLeftover(j) \/ Taken(j)
      PROVE  kind' = kind
  BY <1>1 DEF To, MarksOf, JobsOf, Join, Inside, TakeTheLock, TakeTimesOut, GoesWithout,
     RefusedOver, Unreserved, Made, Unlock, Silent, ClearLeftover, Taken
<1>2. ASSUME NEW j \in Jobs, StopRegardless(j) \/ StopAnyway(j) \/ StopAnywayFails(j) \/ LetGo(j)
             \/ WaitGone(j)
      PROVE  kind' = kind
  BY <1>2 DEF StopRegardless, To, MarksOf, StopAnyway, StopAnywayFails, LetGo, Out, Unheld,
     Release,
     WaitGone, Unlock
<1>3. ASSUME NEW j \in Jobs, RefuseStart(j) \/ StartServers(j) \/ StartWorld(j) \/ StopWorld(j) \/
             StopDb(j) \/ Fails(j) \/ WriteSql(j)
      PROVE  kind' = kind
  BY <1>3 DEF RefuseStart, Compose, To, JobStays, StartServers, StartWorld, StopWorld, StopDb,
     DbDown,
     Fails, WriteSql
<1>4. ASSUME NEW j \in Jobs, Hold(j) \/ BringUp(j) \/ BringUpFails(j) \/ Unhold(j) \/ AskRecord(j)
             \/ Dump(j)
      PROVE  kind' = kind
  BY <1>4 DEF Hold, To, MarksOf, HoldMarks, CanHold, JobStays, BringUp, IntoTheJob, IsHot,
     Unheld, BringUpFails,
     Unhold, AskRecord, PutBack, Dump
<1>5. ASSUME NEW j \in Jobs, PlanAgain(j) \/ SafetyCopy(j) \/ StartLoad(j) \/ NoteTheLoad(j) \/
             LoadEnds(j) \/ TakeDown(j)
      PROVE  kind' = kind
  BY <1>5 DEF PlanAgain, To, PutBack, JobStays, SafetyCopy, StartLoad, NoteTheLoad, LoadEnds,
     TakeDown, DbDown
<1>6. ASSUME NEW j \in Jobs, DockerIsLate(j) \/ Sweep(j) \/ OrphanEnds(j)
      PROVE  kind' = kind
  BY <1>6 DEF DockerIsLate, Sweep, OrphanEnds
<1>7. ASSUME NEW b \in Apps, Crash(b) PROVE kind' = kind
  BY <1>7 DEF Crash, JobsOf, Going
<1>8. ASSUME NEW b \in Apps, ForgetRecord(b) PROVE kind' = kind
  BY <1>8 DEF ForgetRecord
<1>9. CASE DockerRemoves \/ DockerRestarts
  BY <1>9 DEF DockerRemoves, DockerRestarts, CutShort, PutBack, DbDown
<1>10. CASE UNCHANGED vars
  BY <1>10 DEF vars
<1> QED
  BY <1>1, <1>2, <1>3, <1>4, <1>5, <1>6, <1>7, <1>8, <1>9, <1>10,
     <1>50, <1>51 DEF Next, Step

-----------------------------------------------------------------------------
(* A hold and a start do not go together, and so no world comes up over a    *)
(* database that somebody brought up for a backup or a restore alone.        *)

\* Where a job is that holds the server, and may put the database down again.
WithDb == {"askRecord", "dump", "plan", "safety", "load", "note", "loading", "takeDown"}

\* Who brought the database up holds the server until it is put down again.
WhoStartedHolds ==
    /\ world # Nobody => db
    /\ \A j \in Jobs :
         /\ j \in started => pc[j] \in WithDb \cup {"unhold", "letGo", "waitGone", "over", "gone"}
         /\ pc[j] = "takeDown" => j \in started
         /\ j \in started /\ pc[j] \in WithDb => "held" \in marks[j]

NoStartInAHold == \A j, k \in Jobs :
    kind[k] = "start" /\ "inFlight" \in marks[k] /\ Home[j] = Home[k] => "held" \notin marks[j]

StartedIsSpared == \A j \in started :
    pc[j] \in WithDb /\ WorldUp => j \in Exposed \/ world \in Exposed

\* A world needs a database, and a database that was up is not this job's.
LEMMA StartedStep ==
  ASSUME TypeOK, KindsFit, MarksFit, WhoStartedHolds, [Next]_vars
  PROVE  WhoStartedHolds'
<1> USE HoldAssumption DEF TypeOK, WhoStartedHolds, WithDb, tables, docker, said, server, restores
<1>50. ASSUME NEW j \in Jobs, Look(j) \/ OrphanRefuses(j) \/ Count(j) \/ Press(j)
      PROVE  WhoStartedHolds'
  BY <1>50 DEF Look, OrphanRefuses, Looks, RefusedOver, Count, Press, To, MarksOf, EntryMarks
<1>51. ASSUME NEW j \in Jobs, GoesOnMoot(j) PROVE WhoStartedHolds'
  BY <1>51 DEF GoesOnMoot, Unreserved, Inside, MarksOf, Unlock
<1>1. ASSUME NEW j \in Jobs, Join(j) \/ TakeTheLock(j) \/ TakeTimesOut(j) \/ Made(j)
             \/ Silent(j) \/ ClearLeftover(j) \/ Taken(j)
      PROVE  WhoStartedHolds'
  BY <1>1 DEF To, MarksOf, JobsOf, Join, Inside, TakeTheLock, TakeTimesOut, GoesWithout,
     RefusedOver, Unreserved, Made, Unlock, Silent, ClearLeftover, Taken
<1>2. ASSUME NEW j \in Jobs, StopRegardless(j) \/ StopAnyway(j) \/ StopAnywayFails(j) \/ LetGo(j)
             \/ WaitGone(j)
      PROVE  WhoStartedHolds'
  BY <1>2 DEF StopRegardless, To, MarksOf, StopAnyway, StopAnywayFails, LetGo, Out, Unheld,
     Release,
     WaitGone, Unlock
<1>3. ASSUME NEW j \in Jobs, RefuseStart(j) \/ StartServers(j) \/ StartWorld(j) \/ StopWorld(j) \/
             StopDb(j) \/ Fails(j) \/ WriteSql(j)
      PROVE  WhoStartedHolds'
  BY <1>3 DEF RefuseStart, Compose, To, JobStays, StartServers, StartWorld, StopWorld, StopDb,
     DbDown,
     Fails, WriteSql
<1>4. ASSUME NEW j \in Jobs, Hold(j) \/ BringUp(j) \/ BringUpFails(j) \/ Unhold(j) \/ AskRecord(j)
             \/ Dump(j)
      PROVE  WhoStartedHolds'
  <2>1. CASE BringUp(j)
    <3>1. CASE IsHot(j)
      BY <2>1, <3>1 DEF BringUp, IntoTheJob, IsHot, Unheld, To, MarksOf, JobStays
    <3>2. CASE ~IsHot(j)
      BY <2>1, <3>2 DEF BringUp, IntoTheJob, To, MarksOf, JobStays, MarksFit
    <3> QED
      BY <3>1, <3>2
  <2>2. CASE ~BringUp(j)
    BY <1>4, <2>2 DEF Hold, To, MarksOf, HoldMarks, JobStays, BringUpFails, Unhold, Unheld,
       AskRecord, PutBack, Dump
  <2> QED
    BY <2>1, <2>2
<1>5. ASSUME NEW j \in Jobs, PlanAgain(j) \/ SafetyCopy(j) \/ StartLoad(j) \/ NoteTheLoad(j) \/
             LoadEnds(j) \/ TakeDown(j)
      PROVE  WhoStartedHolds'
  BY <1>5 DEF PlanAgain, To, PutBack, JobStays, SafetyCopy, StartLoad, NoteTheLoad, LoadEnds,
     TakeDown, DbDown
<1>6. ASSUME NEW j \in Jobs, DockerIsLate(j) \/ Sweep(j) \/ OrphanEnds(j)
      PROVE  WhoStartedHolds'
  BY <1>6 DEF DockerIsLate, Sweep, OrphanEnds
<1>7. ASSUME NEW b \in Apps, Crash(b) PROVE WhoStartedHolds'
  BY <1>7 DEF Crash, JobsOf, Going
<1>8. ASSUME NEW b \in Apps, ForgetRecord(b) PROVE WhoStartedHolds'
  BY <1>8 DEF ForgetRecord
<1>9. CASE DockerRemoves \/ DockerRestarts
  BY <1>9 DEF DockerRemoves, DockerRestarts, CutShort, PutBack, DbDown
<1>10. CASE UNCHANGED vars
  BY <1>10 DEF vars
<1> QED
  BY <1>1, <1>2, <1>3, <1>4, <1>5, <1>6, <1>7, <1>8, <1>9, <1>10,
     <1>50, <1>51 DEF Next, Step


\* A hold is not given beside a start, nor a start let in beside a hold.
LEMMA NoStartStep ==
  ASSUME TypeOK, KindsFit, MarksFit, NoStartInAHold, [Next]_vars
  PROVE  NoStartInAHold'
<1> SUFFICES ASSUME NEW j \in Jobs, NEW k \in Jobs, kind'[k] = "start", "inFlight" \in marks'[k],
                    Home[j] = Home[k], "held" \in marks'[j]
             PROVE  FALSE
  BY DEF NoStartInAHold
<1>0. kind[k] = "start"
  BY KindStays
<1>1. "inFlight" \in marks[k] \/ Counted(k)
  <2>1. "inFlight" \in marks[k] \/ Counted(k) \/ LetIn(k)
    BY <1>0, MarksChange DEF TypeOK, HoldMarks
  <2>2. LetIn(k) => "inFlight" \in marks[k]
    BY <1>0 DEF LetIn, Press, MarksFit, EntryMarks
  <2> QED
    BY <2>1, <2>2
<1>2. \/ "held" \in marks[j]
      \/ CanHold(j) /\ marks' = [marks EXCEPT ![j] = HoldMarks(j)]
  BY MarksChange DEF TypeOK, Counted, LetIn, EntryMarks, Kinds
<1>3. ASSUME Counted(k) PROVE FALSE
  <2>1. "inFlight" \in EntryMarks(k) /\ "held" \notin EntryMarks(k)
    BY <1>0 DEF EntryMarks
  <2>2. j # k /\ "held" \in marks[j]
    BY <1>3, <2>1 DEF TypeOK, Counted
  <2> QED
    BY <1>3, <2>1, <2>2 DEF Counted, CanCount, Marked, JobsOf
<1>4. ASSUME CanHold(j), marks' = [marks EXCEPT ![j] = HoldMarks(j)] PROVE FALSE
  <2>1. "inFlight" \in marks[k]
    BY <1>4 DEF TypeOK, HoldMarks
  <2> QED
    BY <1>4, <2>1 DEF CanHold, Marked, JobsOf
<1> QED
  BY <1>0, <1>1, <1>2, <1>3, <1>4 DEF NoStartInAHold

\* Two jobs of two Yu'lons, inside a reservation or without: one has none now.
LEMMA UsersApart ==
  ASSUME TypeOK, ReservationInv, NEW j \in users \cup moot, NEW k \in users \cup moot,
         Home[j] # Home[k]
  PROVE  j \in Exposed \/ k \in Exposed
<1>1. CASE j \notin Exposed /\ k \notin Exposed
  <2>1. /\ box = Box(claim[Home[j]], "running") /\ Home[claim[Home[j]]] = Home[j]
        /\ box = Box(claim[Home[k]], "running") /\ Home[claim[Home[k]]] = Home[k]
    BY <1>1, HoldAssumption
       DEF TypeOK, ReservationInv, Claimed, ClaimsAreOwn, UsersOf, JobsOf, Exposed
  <2> QED
    BY <2>1 DEF Box
<1> QED
  BY <1>1

\* A start that makes a world and a job that brought the database up are of two
\* Yu'lons, and so one of them has no reservation.
LEMMA StarterApart ==
  ASSUME TypeOK, ReservationInv, KindsFit, MarksFit, WhoStartedHolds, NoStartInAHold,
         NEW j \in started, pc[j] \in WithDb, NEW k \in Jobs, pc[k] = "world"
  PROVE  j \in Exposed \/ k \in Exposed
<1>1. "held" \in marks[j] /\ kind[k] = "start" /\ "inFlight" \in marks[k]
  BY DEF TypeOK, WhoStartedHolds, KindsFit, MarksFit, AtIt, InReservation, EntryMarks
<1>2. Home[j] # Home[k] /\ j \in users \cup moot /\ k \in users \cup moot
  BY <1>1 DEF TypeOK, NoStartInAHold, ReservationInv, JobsAreUsers, InReservation, WithDb
<1> QED
  BY <1>2, UsersApart

\* What is lost stays lost, and only a start makes a world.
LEMMA SparedStep ==
  ASSUME TypeOK, ReservationInv, KindsFit, MarksFit, WhoStartedHolds, NoStartInAHold,
         StartedIsSpared, [Next]_vars
  PROVE  StartedIsSpared'
<1>0. \A i \in started, k \in Jobs :
        pc[i] \in WithDb /\ pc[k] = "world" => i \in Exposed \/ k \in Exposed
  BY StarterApart
<1> USE HoldAssumption DEF TypeOK, WhoStartedHolds, StartedIsSpared, WithDb, WorldUp, Exposed,
        tables, docker, said, server, restores
<1>50. ASSUME NEW j \in Jobs, Look(j) \/ OrphanRefuses(j) \/ Count(j) \/ Press(j)
      PROVE  StartedIsSpared'
  BY <1>50 DEF Look, OrphanRefuses, Looks, RefusedOver, Count, Press, To, MarksOf, EntryMarks
<1>51. ASSUME NEW j \in Jobs, GoesOnMoot(j) PROVE StartedIsSpared'
  BY <1>51 DEF GoesOnMoot, Unreserved, Inside, MarksOf, Unlock
<1>1. ASSUME NEW j \in Jobs, Join(j) \/ TakeTheLock(j) \/ TakeTimesOut(j) \/ Made(j)
             \/ Silent(j) \/ ClearLeftover(j) \/ Taken(j)
      PROVE  StartedIsSpared'
  BY <1>1 DEF To, MarksOf, JobsOf, Join, Inside, TakeTheLock, TakeTimesOut, GoesWithout,
     RefusedOver, Unreserved, Made, Unlock, Silent, ClearLeftover, Taken
<1>2. ASSUME NEW j \in Jobs, StopRegardless(j) \/ StopAnywayFails(j) \/ LetGo(j) \/ WaitGone(j)
      PROVE  StartedIsSpared'
  BY <1>2 DEF StopRegardless, To, MarksOf, StopAnywayFails, LetGo, Out, Unheld, Release,
     WaitGone, Unlock
<1>11. ASSUME NEW j \in Jobs, StopAnyway(j) PROVE StartedIsSpared'
  <2>1. /\ lost \subseteq lost' /\ UNCHANGED <<moot, world, started>>
        /\ pc' = [pc EXCEPT ![j] = "again"]
    BY <1>11 DEF StopAnyway, To, Lose
  <2> QED
    BY <2>1
<1>3. ASSUME NEW j \in Jobs, RefuseStart(j) \/ StartServers(j) \/ StopWorld(j) \/ StopDb(j) \/
             Fails(j) \/ WriteSql(j)
      PROVE  StartedIsSpared'
  BY <1>3 DEF RefuseStart, Compose, To, JobStays, StartServers, StopWorld, StopDb, DbDown,
     Fails, WriteSql
<1>12. ASSUME NEW j \in Jobs, StartWorld(j) PROVE StartedIsSpared'
  BY <1>0, <1>12 DEF StartWorld, To, JobStays
<1>4. ASSUME NEW j \in Jobs, Hold(j) \/ BringUp(j) \/ BringUpFails(j) \/ Unhold(j) \/ AskRecord(j)
             \/ Dump(j)
      PROVE  StartedIsSpared'
  BY <1>4 DEF Hold, To, MarksOf, HoldMarks, CanHold, JobStays, BringUp, IntoTheJob, IsHot,
     Unheld, BringUpFails,
     Unhold, AskRecord, PutBack, Dump
<1>5. ASSUME NEW j \in Jobs, PlanAgain(j) \/ SafetyCopy(j) \/ StartLoad(j) \/ NoteTheLoad(j) \/
             LoadEnds(j) \/ TakeDown(j)
      PROVE  StartedIsSpared'
  BY <1>5 DEF PlanAgain, To, PutBack, JobStays, SafetyCopy, StartLoad, NoteTheLoad, LoadEnds,
     TakeDown, DbDown
<1>6. ASSUME NEW j \in Jobs, DockerIsLate(j) \/ Sweep(j) \/ OrphanEnds(j)
      PROVE  StartedIsSpared'
  BY <1>6 DEF DockerIsLate, Sweep, OrphanEnds
<1>7. ASSUME NEW b \in Apps, Crash(b) PROVE StartedIsSpared'
  BY <1>7 DEF Crash, JobsOf, Going
<1>8. ASSUME NEW b \in Apps, ForgetRecord(b) PROVE StartedIsSpared'
  BY <1>8 DEF ForgetRecord
<1>9. CASE DockerRemoves \/ DockerRestarts
  BY <1>9 DEF DockerRemoves, DockerRestarts, CutShort, PutBack, DbDown
<1>10. CASE UNCHANGED vars
  BY <1>10 DEF vars
<1> QED
  BY <1>1, <1>2, <1>3, <1>4, <1>5, <1>6, <1>7, <1>8, <1>9, <1>10, <1>11, <1>12,
     <1>50, <1>51 DEF Next, Step


SpareInv == KindsFit /\ MarksFit /\ WhoStartedHolds /\ NoStartInAHold /\ StartedIsSpared

(***************************************************************************)
(* A backup or restore that puts the database down does not take it from    *)
(* under a world somebody started meanwhile, whoever is quit and whatever   *)
(* Docker is late with, unless a reservation was ended from elsewhere, or   *)
(* was not to be had (controller_view.py _database_alone).                  *)
(***************************************************************************)
THEOREM CleanupNeverTakesAWorld == Spec => CleanupSparesTheWorld
<1>1. Init => SpareInv
  BY HoldAssumption DEF Init, SpareInv, KindsFit, MarksFit, WhoStartedHolds, NoStartInAHold,
     HoldsAtTake, StartedIsSpared, AtIt, InReservation, InRestore
<1>2. TypeOK /\ ReservationInv /\ SpareInv /\ [Next]_vars => SpareInv'
  BY KindsStep, MarksStep, StartedStep, NoStartStep, SparedStep DEF SpareInv
<1>3. SpareInv => \A j \in Jobs : pc[j] = "takeDown" /\ WorldUp => {j, world} \cap Exposed # {}
  BY DEF SpareInv, WhoStartedHolds, StartedIsSpared, WithDb
<1>4. SpareInv => (\A j \in Jobs : pc[j] = "takeDown" /\ pc'[j] = "unhold" /\ ~db' /\ WorldUp
                                   => {j, world} \cap Exposed # {})
  BY <1>3
<1> QED
  BY <1>1, <1>2, <1>4, Invariants, PTL DEF Spec, CleanupSparesTheWorld

-----------------------------------------------------------------------------
(* Restores. *)

\* What Yu'lon relies on: the user whose Yu'lon restores is the one that may put
\* a record down, and a load's process is in the record as soon as it runs.
OneUserRestores(a) ==
    /\ ~NoteMissed /\ Forgetters \subseteq {a}
    /\ \A j \in Jobs : "restore" \in MayBe[j] => Home[j] = a

\* Every step leaves at most one lease among the jobs of a home.
LEMMA LeaseStep ==
  ASSUME TypeOK, KindsFit, MarksFit, OneLease, [Next]_vars
  PROVE  OneLease'
<1> SUFFICES ASSUME NEW j \in Jobs, NEW k \in Jobs, "leased" \in marks'[j], "leased" \in marks'[k],
                    Home[j] = Home[k], j # k
             PROVE  FALSE
  BY DEF OneLease
<1>1. ASSUME NEW i \in Jobs, NEW l \in Jobs, "leased" \in marks'[i], "leased" \in marks'[l],
             Home[i] = Home[l], i # l
      PROVE  "leased" \in marks[i]
  <2>1. \/ Counted(i) /\ "leased" \in EntryMarks(i)
        \/ "leased" \in marks[i]
        \/ LetIn(i) /\ "leased" \in EntryMarks(i)
    BY <1>1, MarksChange DEF TypeOK, HoldMarks, Counted, LetIn
  <2>2. ~(Counted(i) /\ "leased" \in EntryMarks(i))
    BY <1>1 DEF TypeOK, Counted, CanCount, Marked, JobsOf
  <2>3. LetIn(i) /\ "leased" \in EntryMarks(i) => "leased" \in marks[i]
    BY DEF LetIn, Press, MarksFit
  <2> QED
    BY <2>1, <2>2, <2>3
<1> QED
  BY <1>1 DEF OneLease

\* Every step leaves a job that found its home quiet the only one that presses there.
LEMMA AloneStep ==
  ASSUME TypeOK, KindsFit, MarksFit, OneLease, AloneIsAlone, [Next]_vars
  PROVE  AloneIsAlone'
<1> SUFFICES ASSUME NEW j \in Jobs, NEW k \in Jobs, "alone" \in marks'[j], "pressing" \in marks'[k],
                    Home[j] = Home[k], j # k
             PROVE  FALSE
  BY DEF AloneIsAlone
<1>1. \/ "alone" \in marks[j]
      \/ /\ Hold(j) /\ CanHold(j) /\ kind[j] = "restore"
         /\ marks' = [marks EXCEPT ![j] = HoldMarks(j)]
  BY MarksChange DEF TypeOK, HoldMarks, Counted, LetIn, EntryMarks, Kinds
<1>2. "pressing" \in marks[k] \/ LetIn(k)
  BY MarksChange DEF TypeOK, HoldMarks, Counted
<1>3. ASSUME Hold(j), CanHold(j), kind[j] = "restore", marks' = [marks EXCEPT ![j] = HoldMarks(j)]
      PROVE  FALSE
  <2>1. "pressing" \in marks[k] /\ kind[k] = "restore"
    BY <1>3 DEF TypeOK, CanHold, Others, Marked, JobsOf
  <2>2. "leased" \in marks[k] /\ "leased" \in marks[j]
    BY <1>3, <2>1 DEF MarksFit, Hold, To, EntryMarks, AtIt, InReservation
  <2> QED
    BY <2>2 DEF OneLease
<1>4. ASSUME "alone" \in marks[j], LetIn(k) PROVE FALSE
  <2>1. kind[j] = "restore" /\ "leased" \in marks[j]
    BY <1>4 DEF MarksFit
  <2>2. kind[k] = "restore"
    BY <1>4, <2>1 DEF LetIn, Marked, JobsOf
  <2>3. "leased" \in marks[k]
    BY <1>4, <2>2 DEF LetIn, Press, MarksFit, EntryMarks
  <2> QED
    BY <2>1, <2>3 DEF OneLease
<1> QED
  BY <1>1, <1>2, <1>3, <1>4 DEF AloneIsAlone

\* While one load writes, there is no other restore of this server on its way.
LEMMA OneRestore ==
  ASSUME TypeOK, KindsFit, MarksFit, AloneIsAlone, LoadsAreRestores, OrphanIsAlone,
         NEW a \in Apps, OneUserRestores(a),
         NEW j \in load, NEW k \in Jobs, kind[k] = "restore", pc[k] \in InRestore
  PROVE  j = k
<1>1. j \in Jobs /\ kind[j] = "restore" /\ Home[j] = Home[k]
  BY DEF TypeOK, KindsFit, LoadsAreRestores, OneUserRestores
<1>2. "alone" \in marks[k] /\ "pressing" \in marks[k]
  BY DEF MarksFit, InRestore, AtIt, InReservation, EntryMarks
<1>3. CASE pc[j] = "gone"
  BY <1>1, <1>3 DEF OrphanIsAlone, InRestore
<1>4. CASE pc[j] # "gone"
  BY <1>1, <1>2, <1>4 DEF LoadsAreRestores, AloneIsAlone, MarksFit, InRestore
<1> QED
  BY <1>3, <1>4

\* Every load is the one restore's, and the record names it once it runs.
LEMMA LoadsStep ==
  ASSUME TypeOK, KindsFit, MarksFit, AloneIsAlone, LoadsAreRestores, OrphanIsAlone, [Next]_vars,
         NEW a \in Apps, OneUserRestores(a)
  PROVE  LoadsAreRestores'
<1>0. \A k \in Jobs : kind[k] = "restore" /\ pc[k] \in InRestore => \A i \in load : i = k
  BY OneRestore
<1> USE DEF TypeOK, LoadsAreRestores, Kinds, tables, docker, said, server, restores
<1>50. ASSUME NEW j \in Jobs, Look(j) \/ OrphanRefuses(j) \/ Count(j) \/ Press(j)
      PROVE  LoadsAreRestores'
  BY <1>50 DEF Look, OrphanRefuses, Looks, RefusedOver, Count, Press, To, MarksOf, EntryMarks
<1>51. ASSUME NEW j \in Jobs, GoesOnMoot(j) PROVE LoadsAreRestores'
  BY <1>51 DEF GoesOnMoot, Unreserved, Inside, MarksOf, Unlock
<1>1. ASSUME NEW j \in Jobs, Join(j) \/ TakeTheLock(j) \/ TakeTimesOut(j) \/ Made(j)
             \/ Silent(j) \/ ClearLeftover(j) \/ Taken(j)
      PROVE  LoadsAreRestores'
  BY <1>1 DEF To, MarksOf, JobsOf, Join, Inside, TakeTheLock, TakeTimesOut, GoesWithout,
     RefusedOver, Unreserved, Made, Unlock, Silent, ClearLeftover, Taken
<1>2. ASSUME NEW j \in Jobs, StopRegardless(j) \/ StopAnyway(j) \/ StopAnywayFails(j) \/ LetGo(j)
             \/ WaitGone(j)
      PROVE  LoadsAreRestores'
  BY <1>2 DEF StopRegardless, To, MarksOf, StopAnyway, StopAnywayFails, LetGo, Out, Unheld,
     Release,
     WaitGone, Unlock
<1>3. ASSUME NEW j \in Jobs, RefuseStart(j) \/ StartServers(j) \/ StartWorld(j) \/ StopWorld(j) \/
             StopDb(j) \/ Fails(j) \/ WriteSql(j)
      PROVE  LoadsAreRestores'
  BY <1>3 DEF RefuseStart, Compose, To, JobStays, StartServers, StartWorld, StopWorld, StopDb,
     DbDown,
     Fails, WriteSql
<1>4. ASSUME NEW j \in Jobs, Hold(j) \/ BringUp(j) \/ BringUpFails(j) \/ Unhold(j) \/ AskRecord(j)
             \/ Dump(j)
      PROVE  LoadsAreRestores'
  BY <1>4 DEF Hold, To, MarksOf, HoldMarks, CanHold, JobStays, BringUp, IntoTheJob, IsHot,
     Unheld, BringUpFails,
     Unhold, AskRecord, PutBack, Dump
<1>5. ASSUME NEW j \in Jobs, PlanAgain(j) \/ TakeDown(j)
      PROVE  LoadsAreRestores'
  BY <1>5 DEF PlanAgain, To, PutBack, JobStays, TakeDown, DbDown
<1>6. ASSUME NEW j \in Jobs, SafetyCopy(j) PROVE LoadsAreRestores'
  BY <1>0, <1>6 DEF SafetyCopy, To, PutBack, JobStays, KindsFit, InRestore
<1>7. ASSUME NEW j \in Jobs, StartLoad(j) PROVE LoadsAreRestores'
  BY <1>0, <1>7 DEF StartLoad, To, PutBack, JobStays, KindsFit, InRestore
<1>8. ASSUME NEW j \in Jobs, NoteTheLoad(j) PROVE LoadsAreRestores'
  BY <1>0, <1>8 DEF NoteTheLoad, To, JobStays, KindsFit, InRestore, OneUserRestores
<1>9. ASSUME NEW j \in Jobs, LoadEnds(j) PROVE LoadsAreRestores'
  BY <1>0, <1>9 DEF LoadEnds, To, PutBack, JobStays, KindsFit, InRestore
<1>10. ASSUME NEW j \in Jobs, DockerIsLate(j) \/ Sweep(j) \/ OrphanEnds(j)
      PROVE  LoadsAreRestores'
  BY <1>10 DEF DockerIsLate, Sweep, OrphanEnds
<1>11. ASSUME NEW b \in Apps, Crash(b) PROVE LoadsAreRestores'
  BY <1>11 DEF Crash, JobsOf, Going, OneUserRestores
<1>12. ASSUME NEW b \in Apps, ForgetRecord(b) PROVE LoadsAreRestores'
  BY <1>12 DEF ForgetRecord, LoadRunning, OneUserRestores, KindsFit
<1>13. CASE DockerRemoves \/ DockerRestarts
  BY <1>13 DEF DockerRemoves, DockerRestarts, CutShort, PutBack, DbDown
<1>14. CASE UNCHANGED vars
  BY <1>14 DEF vars
<1> QED
  BY <1>1, <1>2, <1>3, <1>4, <1>5, <1>6, <1>7, <1>8, <1>9, <1>10, <1>11, <1>12, <1>13, <1>14,
     <1>50, <1>51 DEF Next, Step

\* A Yu'lon that is quit leaves none of its jobs at work; no job goes otherwise.
LEMMA GoneChange ==
  ASSUME TypeOK, KindsFit, [Next]_vars, NEW i \in Jobs, pc'[i] = "gone", pc[i] # "gone"
  PROVE  \A k \in Jobs : Home[k] = Home[i] => pc'[k] \in {"idle", "over", "gone"}
<1> DEFINE Goal == \A k \in Jobs : Home[k] = Home[i] => pc'[k] \in {"idle", "over", "gone"}
<1> USE DEF TypeOK, KindsFit, Kinds, tables, docker, said, server, restores
<1>50. ASSUME NEW j \in Jobs, Look(j) \/ OrphanRefuses(j) \/ Count(j) \/ Press(j)
      PROVE  Goal
  BY <1>50 DEF Look, OrphanRefuses, Looks, RefusedOver, Count, Press, To, MarksOf, EntryMarks
<1>51. ASSUME NEW j \in Jobs, GoesOnMoot(j) PROVE Goal
  BY <1>51 DEF GoesOnMoot, Unreserved, Inside, MarksOf, Unlock
<1>1. ASSUME NEW j \in Jobs, Join(j) \/ TakeTheLock(j) \/ TakeTimesOut(j) \/ Made(j)
             \/ Silent(j) \/ ClearLeftover(j) \/ Taken(j)
      PROVE  Goal
  BY <1>1 DEF To, MarksOf, JobsOf, Join, Inside, TakeTheLock, TakeTimesOut, GoesWithout,
     RefusedOver, Unreserved, Made, Unlock, Silent, ClearLeftover, Taken
<1>2. ASSUME NEW j \in Jobs, StopRegardless(j) \/ StopAnyway(j) \/ StopAnywayFails(j) \/ LetGo(j)
             \/ WaitGone(j)
      PROVE  Goal
  BY <1>2 DEF StopRegardless, To, MarksOf, StopAnyway, StopAnywayFails, LetGo, Out, Unheld,
     Release,
     WaitGone, Unlock
<1>3. ASSUME NEW j \in Jobs, RefuseStart(j) \/ StartServers(j) \/ StartWorld(j) \/ StopWorld(j) \/
             StopDb(j) \/ Fails(j) \/ WriteSql(j)
      PROVE  Goal
  BY <1>3 DEF RefuseStart, Compose, To, JobStays, StartServers, StartWorld, StopWorld, StopDb,
     DbDown,
     Fails, WriteSql
<1>4. ASSUME NEW j \in Jobs, Hold(j) \/ BringUp(j) \/ BringUpFails(j) \/ Unhold(j) \/ AskRecord(j)
             \/ Dump(j)
      PROVE  Goal
  BY <1>4 DEF Hold, To, MarksOf, HoldMarks, CanHold, JobStays, BringUp, IntoTheJob, IsHot,
     Unheld, BringUpFails,
     Unhold, AskRecord, PutBack, Dump
<1>5. ASSUME NEW j \in Jobs, PlanAgain(j) \/ SafetyCopy(j) \/ StartLoad(j) \/ NoteTheLoad(j) \/
             LoadEnds(j) \/ TakeDown(j)
      PROVE  Goal
  BY <1>5 DEF PlanAgain, To, PutBack, JobStays, SafetyCopy, StartLoad, NoteTheLoad, LoadEnds,
     TakeDown, DbDown
<1>6. ASSUME NEW j \in Jobs, DockerIsLate(j) \/ Sweep(j) \/ OrphanEnds(j)
      PROVE  Goal
  BY <1>6 DEF DockerIsLate, Sweep, OrphanEnds
<1>7. ASSUME NEW b \in Apps, Crash(b) PROVE Goal
  BY <1>7 DEF Crash, JobsOf, Going
<1>8. ASSUME NEW b \in Apps, ForgetRecord(b) PROVE Goal
  BY <1>8 DEF ForgetRecord
<1>9. CASE DockerRemoves \/ DockerRestarts
  BY <1>9 DEF DockerRemoves, DockerRestarts, CutShort, PutBack, DbDown
<1>10. CASE UNCHANGED vars
  BY <1>10 DEF vars
<1> QED
  BY <1>1, <1>2, <1>3, <1>4, <1>5, <1>6, <1>7, <1>8, <1>9, <1>10,
     <1>50, <1>51 DEF Next, Step

\* A job that is not at work begins by the look for a load that was left behind.
LEMMA QuietChange ==
  ASSUME TypeOK, KindsFit, [Next]_vars, NEW k \in Jobs, pc[k] \in {"idle", "over", "gone"}
  PROVE  pc'[k] \in {"idle", "over", "gone"} \/ Look(k)
<1> DEFINE Goal == pc'[k] \in {"idle", "over", "gone"} \/ Look(k)
<1> USE DEF TypeOK, KindsFit, Kinds, tables, docker, said, server, restores
<1>50. ASSUME NEW j \in Jobs, Look(j) \/ OrphanRefuses(j) \/ Count(j) \/ Press(j)
      PROVE  Goal
  <2>1. CASE j = k
    BY <1>50, <2>1 DEF OrphanRefuses, RefusedOver, Count, Press, To
  <2>2. CASE j # k
    BY <1>50, <2>2 DEF Look, OrphanRefuses, RefusedOver, Count, Press, To
  <2> QED
    BY <2>1, <2>2
<1>51. ASSUME NEW j \in Jobs, GoesOnMoot(j) PROVE Goal
  BY <1>51 DEF GoesOnMoot, Unreserved, Inside, MarksOf, Unlock
<1>1. ASSUME NEW j \in Jobs, Join(j) \/ TakeTheLock(j) \/ TakeTimesOut(j) \/ Made(j)
             \/ Silent(j) \/ ClearLeftover(j) \/ Taken(j)
      PROVE  Goal
  BY <1>1 DEF To, MarksOf, JobsOf, Join, Inside, TakeTheLock, TakeTimesOut, GoesWithout,
     RefusedOver, Unreserved, Made, Unlock, Silent, ClearLeftover, Taken
<1>2. ASSUME NEW j \in Jobs, StopRegardless(j) \/ StopAnyway(j) \/ StopAnywayFails(j) \/ LetGo(j)
             \/ WaitGone(j)
      PROVE  Goal
  BY <1>2 DEF StopRegardless, To, MarksOf, StopAnyway, StopAnywayFails, LetGo, Out, Unheld,
     Release,
     WaitGone, Unlock
<1>3. ASSUME NEW j \in Jobs, RefuseStart(j) \/ StartServers(j) \/ StartWorld(j) \/ StopWorld(j) \/
             StopDb(j) \/ Fails(j) \/ WriteSql(j)
      PROVE  Goal
  BY <1>3 DEF RefuseStart, Compose, To, JobStays, StartServers, StartWorld, StopWorld, StopDb,
     DbDown,
     Fails, WriteSql
<1>4. ASSUME NEW j \in Jobs, Hold(j) \/ BringUp(j) \/ BringUpFails(j) \/ Unhold(j) \/ AskRecord(j)
             \/ Dump(j)
      PROVE  Goal
  BY <1>4 DEF Hold, To, MarksOf, HoldMarks, CanHold, JobStays, BringUp, IntoTheJob, IsHot,
     Unheld, BringUpFails,
     Unhold, AskRecord, PutBack, Dump
<1>5. ASSUME NEW j \in Jobs, PlanAgain(j) \/ SafetyCopy(j) \/ StartLoad(j) \/ NoteTheLoad(j) \/
             LoadEnds(j) \/ TakeDown(j)
      PROVE  Goal
  BY <1>5 DEF PlanAgain, To, PutBack, JobStays, SafetyCopy, StartLoad, NoteTheLoad, LoadEnds,
     TakeDown, DbDown
<1>6. ASSUME NEW j \in Jobs, DockerIsLate(j) \/ Sweep(j) \/ OrphanEnds(j)
      PROVE  Goal
  BY <1>6 DEF DockerIsLate, Sweep, OrphanEnds
<1>7. ASSUME NEW b \in Apps, Crash(b) PROVE Goal
  BY <1>7 DEF Crash, JobsOf, Going
<1>8. ASSUME NEW b \in Apps, ForgetRecord(b) PROVE Goal
  BY <1>8 DEF ForgetRecord
<1>9. CASE DockerRemoves \/ DockerRestarts
  BY <1>9 DEF DockerRemoves, DockerRestarts, CutShort, PutBack, DbDown
<1>10. CASE UNCHANGED vars
  BY <1>10 DEF vars
<1> QED
  BY <1>1, <1>2, <1>3, <1>4, <1>5, <1>6, <1>7, <1>8, <1>9, <1>10,
     <1>50, <1>51 DEF Next, Step

\* A load begins in the restore that writes it.
LEMMA LoadChange ==
  ASSUME TypeOK, [Next]_vars, NEW i \in load'
  PROVE  i \in load \/ (StartLoad(i) /\ pc'[i] = "note")
<1> DEFINE Goal == i \in load \/ (StartLoad(i) /\ pc'[i] = "note")
<1> USE DEF TypeOK, tables, docker, said, server, restores
<1>50. ASSUME NEW j \in Jobs, Look(j) \/ OrphanRefuses(j) \/ Count(j) \/ Press(j)
      PROVE  Goal
  BY <1>50 DEF Look, OrphanRefuses, Looks, RefusedOver, Count, Press, To, MarksOf, EntryMarks
<1>51. ASSUME NEW j \in Jobs, GoesOnMoot(j) PROVE Goal
  BY <1>51 DEF GoesOnMoot, Unreserved, Inside, MarksOf, Unlock
<1>1. ASSUME NEW j \in Jobs, Join(j) \/ TakeTheLock(j) \/ TakeTimesOut(j) \/ Made(j)
             \/ Silent(j) \/ ClearLeftover(j) \/ Taken(j)
      PROVE  Goal
  BY <1>1 DEF To, MarksOf, JobsOf, Join, Inside, TakeTheLock, TakeTimesOut, GoesWithout,
     RefusedOver, Unreserved, Made, Unlock, Silent, ClearLeftover, Taken
<1>2. ASSUME NEW j \in Jobs, StopRegardless(j) \/ StopAnyway(j) \/ StopAnywayFails(j) \/ LetGo(j)
             \/ WaitGone(j)
      PROVE  Goal
  BY <1>2 DEF StopRegardless, To, MarksOf, StopAnyway, StopAnywayFails, LetGo, Out, Unheld,
     Release,
     WaitGone, Unlock
<1>3. ASSUME NEW j \in Jobs, RefuseStart(j) \/ StartServers(j) \/ StartWorld(j) \/ StopWorld(j) \/
             StopDb(j) \/ Fails(j) \/ WriteSql(j)
      PROVE  Goal
  BY <1>3 DEF RefuseStart, Compose, To, JobStays, StartServers, StartWorld, StopWorld, StopDb,
     DbDown,
     Fails, WriteSql
<1>4. ASSUME NEW j \in Jobs, Hold(j) \/ BringUp(j) \/ BringUpFails(j) \/ Unhold(j) \/ AskRecord(j)
             \/ Dump(j)
      PROVE  Goal
  BY <1>4 DEF Hold, To, MarksOf, HoldMarks, CanHold, JobStays, BringUp, IntoTheJob, IsHot,
     Unheld, BringUpFails,
     Unhold, AskRecord, PutBack, Dump
<1>5. ASSUME NEW j \in Jobs, PlanAgain(j) \/ SafetyCopy(j) \/ StartLoad(j) \/ NoteTheLoad(j) \/
             LoadEnds(j) \/ TakeDown(j)
      PROVE  Goal
  BY <1>5 DEF PlanAgain, To, PutBack, JobStays, SafetyCopy, StartLoad, NoteTheLoad, LoadEnds,
     TakeDown, DbDown
<1>6. ASSUME NEW j \in Jobs, DockerIsLate(j) \/ Sweep(j) \/ OrphanEnds(j)
      PROVE  Goal
  BY <1>6 DEF DockerIsLate, Sweep, OrphanEnds
<1>7. ASSUME NEW b \in Apps, Crash(b) PROVE Goal
  BY <1>7 DEF Crash, JobsOf, Going
<1>8. ASSUME NEW b \in Apps, ForgetRecord(b) PROVE Goal
  BY <1>8 DEF ForgetRecord
<1>9. CASE DockerRemoves \/ DockerRestarts
  BY <1>9 DEF DockerRemoves, DockerRestarts, CutShort, PutBack, DbDown
<1>10. CASE UNCHANGED vars
  BY <1>10 DEF vars
<1> QED
  BY <1>1, <1>2, <1>3, <1>4, <1>5, <1>6, <1>7, <1>8, <1>9, <1>10,
     <1>50, <1>51 DEF Next, Step

\* Beside a load whose job is gone, nothing of its home but a Stop is begun.
LEMMA OrphanStep ==
  ASSUME TypeOK, KindsFit, MarksFit, LoadsAreRestores, OrphanIsAlone, [Next]_vars, TypeOK',
         KindsFit'
  PROVE  OrphanIsAlone'
<1> SUFFICES ASSUME NEW j \in load', NEW k \in Jobs, pc'[j] = "gone", Home[j] = Home[k],
                    kind'[k] # "stop"
             PROVE  pc'[k] \in {"idle", "over", "gone"}
  BY DEF OrphanIsAlone
<1>1. j \in load /\ j \in Jobs
  BY LoadChange DEF TypeOK
<1>2. CASE pc[j] # "gone"
  BY <1>1, <1>2, GoneChange
<1>3. CASE pc[j] = "gone"
  <2>1. kind[k] # "stop"
    BY KindStays
  <2>2. pc[k] \in {"idle", "over", "gone"} /\ record = j
    BY <1>1, <1>3, <2>1 DEF OrphanIsAlone, LoadsAreRestores
  <2>3. Orphan(k)
    <3>1. ASSUME NEW l \in Jobs, Home[l] = Home[k]
          PROVE  marks[l] \cap {"held", "leased", "alone"} = {}
      BY <1>1, <1>3, <3>1 DEF OrphanIsAlone, MarksFit
    <3> QED
      BY <1>1, <2>2, <3>1 DEF Orphan, LoadRunning, Marked, JobsOf
  <2>4. ~Look(k)
    BY <2>1, <2>3 DEF Look
  <2> QED
    BY <2>2, <2>4, QuietChange
<1> QED
  BY <1>2, <1>3

-----------------------------------------------------------------------------
\* Nothing else of this user works while a load writes.
LEMMA AloneMeansAlone ==
  ASSUME TypeOK, KindsFit, MarksFit, AloneIsAlone, NoStartInAHold, LoadsAreRestores, OrphanIsAlone
  PROVE  LoadAlone
<1> SUFFICES ASSUME NEW j \in load, NEW k \in Jobs, Working(k), Home[j] = Home[k], j # k
             PROVE  FALSE
  BY DEF LoadAlone
<1>1. kind[k] # "stop" /\ j \in Jobs
  BY DEF Working, KindsFit, TypeOK
<1>2. CASE pc[j] = "gone"
  BY <1>1, <1>2 DEF OrphanIsAlone, Working
<1>3. CASE pc[j] # "gone"
  <2>1. {"held", "alone"} \subseteq marks[j]
    BY <1>1, <1>3 DEF LoadsAreRestores, MarksFit, InRestore
  <2>2. "pressing" \in marks[k] \/ (kind[k] = "start" /\ "inFlight" \in marks[k])
    BY DEF Working, MarksFit, AtIt, InReservation, EntryMarks
  <2> QED
    BY <1>1, <2>1, <2>2 DEF AloneIsAlone, NoStartInAHold
<1> QED
  BY <1>2, <1>3

\* The same of a restore that is about to load, and of a start.
LEMMA StartsApart ==
  ASSUME TypeOK, KindsFit, MarksFit, NoStartInAHold, OneYulonWorks,
         NEW j \in Jobs, pc[j] \in {"safety", "load", "note", "loading"},
         NEW k \in Jobs, pc[k] \in {"refuse", "servers", "world"}
  PROVE  j \in Exposed \/ k \in Exposed
<1>1. "held" \in marks[j] /\ "inFlight" \in marks[k] /\ kind[k] = "start"
  BY DEF KindsFit, MarksFit, InRestore, AtIt, InReservation, EntryMarks
<1>2. Home[j] # Home[k]
  BY <1>1 DEF NoStartInAHold
<1> QED
  BY <1>2 DEF OneYulonWorks, Working

\* No step puts a world up under a load, or a load under a world.
LEMMA WorldStep ==
  ASSUME TypeOK, KindsFit, MarksFit, NoStartInAHold, LoadsAreRestores, OneYulonWorks, WorldIsDown,
         [Next]_vars
  PROVE  WorldIsDown'
<1>0. \A i, k \in Jobs : pc[i] \in {"safety", "load", "note", "loading"}
                        /\ pc[k] \in {"refuse", "servers", "world"}
                          => i \in Exposed \/ k \in Exposed
  BY StartsApart
<1> USE HoldAssumption DEF TypeOK, KindsFit, LoadsAreRestores, WorldIsDown, Writes, WorldUp,
         Exposed,
        tables, docker, said, server, restores
<1>50. ASSUME NEW j \in Jobs, Look(j) \/ OrphanRefuses(j) \/ Count(j) \/ Press(j)
      PROVE  WorldIsDown'
  BY <1>50 DEF Look, OrphanRefuses, Looks, RefusedOver, Count, Press, To, MarksOf, EntryMarks
<1>51. ASSUME NEW j \in Jobs, GoesOnMoot(j) PROVE WorldIsDown'
  BY <1>51 DEF GoesOnMoot, Unreserved, Inside, MarksOf, Unlock
<1>1. ASSUME NEW j \in Jobs, Join(j) \/ TakeTheLock(j) \/ TakeTimesOut(j) \/ Made(j)
             \/ Silent(j) \/ ClearLeftover(j) \/ Taken(j)
      PROVE  WorldIsDown'
  BY <1>1 DEF To, MarksOf, JobsOf, Join, Inside, TakeTheLock, TakeTimesOut, GoesWithout,
     RefusedOver, Unreserved, Made, Unlock, Silent, ClearLeftover, Taken
<1>2. ASSUME NEW j \in Jobs, StopRegardless(j) \/ StopAnywayFails(j) \/ LetGo(j) \/ WaitGone(j)
      PROVE  WorldIsDown'
  BY <1>2 DEF StopRegardless, To, MarksOf, StopAnywayFails, LetGo, Out, Unheld, Release,
     WaitGone, Unlock
<1>3. ASSUME NEW j \in Jobs, StopAnyway(j) PROVE WorldIsDown'
  <2>1. /\ lost \subseteq lost' /\ UNCHANGED <<moot, world, load>>
        /\ pc' = [pc EXCEPT ![j] = "again"]
    BY <1>3 DEF StopAnyway, To, Lose
  <2> QED
    BY <2>1
<1>4. ASSUME NEW j \in Jobs, RefuseStart(j) \/ StartServers(j) \/ StopWorld(j) \/ StopDb(j) \/
             Fails(j) \/ WriteSql(j)
      PROVE  WorldIsDown'
  BY <1>4 DEF RefuseStart, Compose, To, JobStays, StartServers, StopWorld, StopDb, DbDown,
     Fails, WriteSql
<1>5. ASSUME NEW j \in Jobs, StartWorld(j) PROVE WorldIsDown'
  BY <1>0, <1>5 DEF StartWorld, To, JobStays
<1>6. ASSUME NEW j \in Jobs, Hold(j) \/ BringUp(j) \/ BringUpFails(j) \/ Unhold(j) \/ AskRecord(j)
             \/ Dump(j)
      PROVE  WorldIsDown'
  BY <1>6 DEF Hold, To, MarksOf, HoldMarks, CanHold, JobStays, BringUp, IntoTheJob, IsHot,
     Unheld, BringUpFails,
     Unhold, AskRecord, PutBack, Dump
<1>7. ASSUME NEW j \in Jobs, PlanAgain(j) \/ SafetyCopy(j) \/ StartLoad(j) \/ NoteTheLoad(j) \/
             LoadEnds(j) \/ TakeDown(j)
      PROVE  WorldIsDown'
  BY <1>7 DEF PlanAgain, To, PutBack, JobStays, SafetyCopy, StartLoad, NoteTheLoad, LoadEnds,
     TakeDown, DbDown
<1>8. ASSUME NEW j \in Jobs, DockerIsLate(j) \/ Sweep(j) \/ OrphanEnds(j)
      PROVE  WorldIsDown'
  BY <1>8 DEF DockerIsLate, Sweep, OrphanEnds
<1>9. ASSUME NEW b \in Apps, Crash(b) PROVE WorldIsDown'
  <2>1. /\ \A i \in Jobs : pc'[i] = pc[i] \/ pc'[i] = "gone"
        /\ UNCHANGED <<world, load, lost, moot>>
    BY <1>9 DEF Crash
  <2>2. \A i \in Jobs : Writes(i)' => Writes(i)
    BY <2>1
  <2>3. ASSUME NEW i \in load, NEW k \in Jobs, pc'[k] \in {"servers", "world"}
        PROVE  i \in Exposed \/ k \in Exposed
    BY <1>0, <2>1, <2>3
  <2> QED
    BY <2>1, <2>2, <2>3
<1>10. ASSUME NEW b \in Apps, ForgetRecord(b) PROVE WorldIsDown'
  BY <1>10 DEF ForgetRecord
<1>11. CASE DockerRemoves \/ DockerRestarts
  BY <1>11 DEF DockerRemoves, DockerRestarts, CutShort, PutBack, DbDown
<1>12. CASE UNCHANGED vars
  BY <1>12 DEF vars
<1> QED
  BY <1>1, <1>2, <1>3, <1>4, <1>5, <1>6, <1>7, <1>8, <1>9, <1>10, <1>11, <1>12,
     <1>50, <1>51 DEF Next, Step

-----------------------------------------------------------------------------
LoadInv ==
    /\ KindsFit /\ MarksFit /\ OneLease /\ AloneIsAlone /\ NoStartInAHold
    /\ LoadsAreRestores /\ OrphanIsAlone /\ WorldIsDown

\* So, while one user restores, all these parts hold in every state.
LEMMA LoadInvariant ==
  ASSUME NEW a \in Apps, OneUserRestores(a)
  PROVE  Spec => []LoadInv
<1>1. Init => LoadInv
  BY HoldAssumption DEF Init, LoadInv, KindsFit, MarksFit, HoldsAtTake, OneLease, AloneIsAlone,
     NoStartInAHold, LoadsAreRestores, OrphanIsAlone, WorldIsDown, Writes, WorldUp, AtIt,
     InReservation, InRestore
<1>2. TypeOK /\ TypeOK' /\ OneYulonWorks /\ LoadInv /\ [Next]_vars => LoadInv'
  <2> SUFFICES ASSUME TypeOK, TypeOK', OneYulonWorks, LoadInv, [Next]_vars PROVE LoadInv'
    OBVIOUS
  <2> USE DEF LoadInv
  <2>1. KindsFit' /\ MarksFit'
    BY KindsStep, MarksStep
  <2>2. OneLease' /\ AloneIsAlone' /\ NoStartInAHold'
    BY LeaseStep, AloneStep, NoStartStep
  <2>3. LoadsAreRestores' /\ OrphanIsAlone'
    BY <2>1, LoadsStep, OrphanStep
  <2>4. WorldIsDown'
    BY WorldStep
  <2> QED
    BY <2>1, <2>2, <2>3, <2>4
<1> QED
  BY <1>1, <1>2, ServerHoldTyped, OneYulonAtATime, PTL DEF Spec

\* While a restore's load writes, no other job of the same user works on the
\* server, in the Yu'lon that restores or, once that was quit, in its next run,
\* with a reservation or without (docker.py _press_on, orphaned_restore_reason).
THEOREM LoadsAreAlone ==
  ASSUME NEW a \in Apps, OneUserRestores(a)
  PROVE  Spec => []LoadAlone
<1>1. TypeOK /\ LoadInv => LoadAlone
  BY AloneMeansAlone DEF LoadInv
<1> QED
  BY <1>1, LoadInvariant, ServerHoldTyped, PTL

\* The world is never up over databases that a load writes, unless somebody ended
\* the reservation of the restore or of the start from elsewhere, or there was none
\* to be had, whoever presses Start and however often Yu'lon is quit (docker.py
\* hold_the_server).
THEOREM WorldStaysDown ==
  ASSUME NEW a \in Apps, OneUserRestores(a)
  PROVE  Spec => []WorldDownUnderLoad
<1>1. TypeOK /\ LoadInv => WorldDownUnderLoad
  BY DEF TypeOK, LoadInv, WorldIsDown, Writes, WorldDownUnderLoad
<1> QED
  BY <1>1, LoadInvariant, ServerHoldTyped, PTL
=============================================================================
