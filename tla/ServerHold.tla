----------------------------- MODULE ServerHold -----------------------------
(* Who may work on one game server: the marks a Yu'lon keeps in its own      *)
(* memory (docker.py: presses, lifecycle commands, lease, hold, the lone     *)
(* writer), the reservation container that keeps other Yu'lons away, and the *)
(* record that outlives a Yu'lon quit in the middle of a restore.            *)
(* A job is one press of a button, on a thread of its own; it runs once.     *)
EXTENDS Naturals

CONSTANTS
    Apps,         \* the Yu'lons of one Docker daemon: one per user of the computer
    Jobs,
    Home,         \* the Yu'lon a job is pressed in
    MayBe,        \* what kinds of job it may be
    Nobody,
    Unanswered,   \* the jobs Docker may be too slow for
    Mootable,     \* the jobs that may find no Docker at all, or a folder they cannot write
    Quits,        \* the Yu'lons that may be quit in the middle of a job
    Forgetters,   \* the Yu'lons whose player puts down the restore record
    NoteMissed    \* a load's pid may stay unwritten: Yu'lon ends first, or the write fails

Kinds == {"start", "stop", "write", "backup", "restore"}

ASSUME HoldAssumption ==
    /\ Home \in [Jobs -> Apps] /\ MayBe \in [Jobs -> SUBSET Kinds]
    /\ Nobody \notin Jobs /\ {"none", "marker"} \cap Jobs = {}
    /\ Unanswered \subseteq Jobs /\ Mootable \subseteq Jobs
    /\ Quits \subseteq Apps /\ Forgetters \subseteq Apps /\ NoteMissed \in BOOLEAN

VARIABLES
    kind,      \* what each job is; it never changes
    pc,
    marks,     \* what a job has entered in the tables of its process
    lock,      \* _RESERVE_LOCKS: the job making its Yu'lon's reservation
    claim,     \* _RESERVATIONS: the job that made it
    users,     \* its count: the jobs inside a reservation
    lost,      \* the jobs whose reservation was ended from elsewhere
    box,       \* the container yulon-busy-<id>
    late,      \* requests for it that Docker may still carry out
    seen,      \* the holder a refused Stop asked its player about
    moot,      \* the jobs that went on without a reservation, there being none to be had
    world,     \* the job that started the world server that is up, or Nobody
    db,        \* the database is up
    started,   \* the jobs that started the database themselves
    load,      \* the jobs whose mysql client is writing a restore
    record     \* the restore record: none, a bare marker, or the load it names

tables   == <<marks, lock, claim, users, lost>>
docker   == <<box, late>>
server   == <<world, db, started>>
restores == <<load, record>>
said     == <<kind, seen, moot>>
vars     == <<pc, tables, docker, said, server, restores>>

Marks    == {"pressing", "inFlight", "leased", "held", "alone"}
NoBox    == [by |-> Nobody, status |-> "none"]
Box(j, s) == [by |-> j, status |-> s]

JobsOf(a)    == {j \in Jobs : Home[j] = a}
Marked(j, m) == {k \in JobsOf(Home[j]) : m \in marks[k]}
UsersOf(a)   == users \cap JobsOf(a)

WorldUp == world # Nobody

Init ==
    /\ kind \in [Jobs -> Kinds] /\ \A j \in Jobs : kind[j] \in MayBe[j]
    /\ pc = [j \in Jobs |-> "idle"] /\ marks = [j \in Jobs |-> {}]
    /\ lock = [a \in Apps |-> Nobody] /\ claim = [a \in Apps |-> Nobody]
    /\ users = {} /\ lost = {} /\ box = NoBox /\ late = {}
    /\ seen = [j \in Jobs |-> Nobody] /\ moot = {}
    /\ world = Nobody /\ db = FALSE /\ started = {}
    /\ load = {} /\ record = "none"

To(j, from, to) == pc[j] = from /\ pc' = [pc EXCEPT ![j] = to]
MarksOf(j, m)   == marks' = [marks EXCEPT ![j] = m]

-----------------------------------------------------------------------------
(* The tables of one process.                                               *)

\* The recorded load as Yu'lon a can tell: another user's process is not alive
\* to it.
LoadRunning(a) == record \in load /\ Home[record] = a

Orphan(j) ==
    /\ LoadRunning(Home[j])
    /\ \A m \in {"held", "leased", "alone"} : Marked(j, m) = {}

EntryMarks(j) ==
    CASE kind[j] \in {"start", "stop"}     -> {"pressing", "inFlight"}
      [] kind[j] = "write"                 -> {"pressing"}
      [] kind[j] \in {"backup", "restore"} -> {"pressing", "leased"}

\* A press, the Stop its player confirmed, or once more the compose command of a
\* start that has no reservation: first, and before it enters its press, it looks
\* for a load that was left behind, outside _HOLD_LOCK.
RefusedOver(j) == To(j, pc[j], "over") /\ MarksOf(j, {})

Looks(j) == pc[j] \in {"idle", "again", "counted"}

Look(j) ==
    /\ Looks(j) /\ (kind[j] # "stop" => ~Orphan(j))
    /\ To(j, pc[j], IF pc[j] = "counted" \/ kind[j] = "write" THEN "press" ELSE "count")
    /\ UNCHANGED <<tables, docker, said, server, restores>>

OrphanRefuses(j) ==
    /\ Looks(j) /\ kind[j] # "stop" /\ Orphan(j) /\ RefusedOver(j)
    /\ UNCHANGED <<lock, claim, users, lost, docker, said, server, restores>>

\* Under the lock: a hold refuses what is in motion, a lease a second one.
CanCount(j) ==
    /\ "inFlight" \in EntryMarks(j) => Marked(j, "held") = {}
    /\ "leased" \in EntryMarks(j) => Marked(j, "leased") = {}

Count(j) ==
    /\ pc[j] = "count"
    /\ \/ CanCount(j) /\ To(j, "count", "counted") /\ MarksOf(j, EntryMarks(j) \ {"pressing"})
       \/ ~CanCount(j) /\ RefusedOver(j)
    /\ UNCHANGED <<lock, claim, users, lost, docker, said, server, restores>>

PressBeside(j) ==
    /\ To(j, "press", "take") /\ MarksOf(j, EntryMarks(j))
    /\ UNCHANGED <<lock, claim, users, lost, docker, said, server, restores>>

\* Under the lock again: a lone writer refuses the other presses.
Press(j) ==
    /\ pc[j] = "press"
    /\ \/ /\ \A k \in Marked(j, "alone") : kind[k] = kind[j]
          /\ To(j, "press", "take") /\ MarksOf(j, EntryMarks(j))
       \/ (\E k \in Marked(j, "alone") : kind[k] # kind[j]) /\ RefusedOver(j)
    /\ UNCHANGED <<lock, claim, users, lost, docker, said, server, restores>>

-----------------------------------------------------------------------------
(* The reservation across processes.                                        *)

\* Where the block begins; a job that had no reservation asks for one again with
\* its compose command or its hold, and goes on there.
Inside(j) ==
    CASE kind[j] = "start" -> IF j \in moot THEN "servers" ELSE "refuse"
      [] kind[j] = "stop"  -> "stopWorld"
      [] kind[j] = "write" -> "write"
      [] OTHER             -> IF j \in moot THEN "bringUp" ELSE "hold"

\* The reservation of its own Yu'lon is joined, a lost one too.
Join(j) ==
    /\ pc[j] = "take" /\ lock[Home[j]] = Nobody /\ claim[Home[j]] # Nobody
    /\ users' = users \cup {j}
    /\ LET gone == UsersOf(Home[j]) \subseteq lost IN
         /\ lost' = IF gone THEN lost \cup {j} ELSE lost
         /\ To(j, "take", IF gone /\ kind[j] = "start" THEN "letGo" ELSE Inside(j))
    /\ UNCHANGED <<marks, lock, claim, docker, said, server, restores>>

TakeTheLock(j) ==
    /\ To(j, "take", "run")
    /\ lock[Home[j]] = Nobody /\ claim[Home[j]] = Nobody
    /\ lock' = [lock EXCEPT ![Home[j]] = j]
    /\ UNCHANGED <<marks, claim, users, lost, docker, said, server, restores>>

\* Mutant: the lock is given back by a job that got its reservation, and only then.
UnlockWhenMade(j) == lock' = IF pc'[j] = "over" THEN lock ELSE [lock EXCEPT ![Home[j]] = Nobody]

Unlock(j) == lock' = [lock EXCEPT ![Home[j]] = Nobody]

\* A lifecycle command without a reservation is counted, but not as a press.
Unreserved(j) ==
    /\ pc' = [pc EXCEPT ![j] = Inside(j)]
    /\ MarksOf(j, IF kind[j] \in {"start", "stop"} THEN marks[j] \ {"pressing"} ELSE marks[j])

\* Docker cannot be asked in time: a Stop goes on, every other job is refused.
GoesWithout(j) ==
    IF kind[j] = "stop" THEN Unreserved(j) ELSE RefusedOver(j)

\* No Docker there, or a folder that takes no id: every job goes on without.
GoesOnMoot(j) ==
    /\ j \in Mootable /\ pc[j] \in {"take", "run"} /\ Unreserved(j)
    /\ moot' = moot \cup {j}
    /\ IF pc[j] = "run" THEN Unlock(j) ELSE UNCHANGED lock
    /\ UNCHANGED <<claim, users, lost, docker, kind, seen, server, restores>>

\* A Stop waits five seconds for its own Yu'lon's lock.
TakeTimesOut(j) ==
    /\ pc[j] = "take" /\ kind[j] = "stop" /\ lock[Home[j]] # Nobody
    /\ GoesWithout(j)
    /\ UNCHANGED <<lock, claim, users, lost, docker, said, server, restores>>

Made(j) ==
    /\ To(j, "run", Inside(j)) /\ Unlock(j)
    /\ box = NoBox /\ box' = Box(j, "running")
    /\ claim' = [claim EXCEPT ![Home[j]] = j] /\ users' = users \cup {j}
    /\ UNCHANGED <<marks, lost, late, said, server, restores>>

\* Docker has not answered in time; it may make the container after all.
Silent(j) ==
    /\ j \in Unanswered /\ pc[j] = "run" /\ GoesWithout(j) /\ Unlock(j)
    /\ late' = late \cup {j}
    /\ UNCHANGED <<claim, users, lost, box, said, server, restores>>

\* A container this user's Yu'lon asked for and never started is cleared away.
ClearLeftover(j) ==
    /\ pc[j] = "run" /\ box.status = "created" /\ Home[box.by] = Home[j]
    /\ box' = NoBox
    /\ UNCHANGED <<pc, tables, late, said, server, restores>>

\* The name is taken: refused, and a Stop asks its player, once.
Taken(j) ==
    /\ pc[j] = "run" /\ box # NoBox
    /\ ~(box.status = "created" /\ Home[box.by] = Home[j])
    /\ pc' = [pc EXCEPT ![j] = IF kind[j] # "stop" THEN "over"
                               ELSE IF seen[j] # Nobody THEN "regardless" ELSE "ask"]
    /\ seen' = IF kind[j] = "stop" /\ seen[j] = Nobody
               THEN [seen EXCEPT ![j] = box.by] ELSE seen
    /\ MarksOf(j, {}) /\ Unlock(j)
    /\ UNCHANGED <<kind, moot, claim, users, lost, docker, server, restores>>

Lose(a) == lost' = lost \cup UsersOf(a)

\* "Stop anyway": the container that was asked about goes, by its id.
StopAnyway(j) ==
    /\ To(j, "ask", "again")
    /\ IF box.by = seen[j]
       THEN /\ box' = NoBox
            /\ IF claim[Home[box.by]] = box.by THEN Lose(Home[box.by]) ELSE UNCHANGED lost
       ELSE UNCHANGED <<box, lost>>
    /\ UNCHANGED <<marks, lock, claim, users, late, said, server, restores>>

\* It would not go, or the player said no.
StopAnywayFails(j) ==
    /\ \/ To(j, "ask", "regardless") \/ To(j, "ask", "over")
    /\ UNCHANGED <<tables, docker, said, server, restores>>

\* The confirmed Stop runs without a reservation of its own.
StopRegardless(j) ==
    /\ \/ /\ To(j, "regardless", "stopWorld")
          /\ Marked(j, "held") = {} /\ MarksOf(j, {"inFlight"})
       \/ /\ To(j, "regardless", "over")
          /\ Marked(j, "held") # {} /\ UNCHANGED marks
    /\ UNCHANGED <<lock, claim, users, lost, docker, said, server, restores>>

-----------------------------------------------------------------------------
(* Giving it back.  A container is removed by its id, never by its name.    *)

LastOut(j) == UsersOf(Home[j]) = {j}

RemovedByName(j) == IF box # NoBox THEN [box EXCEPT !.status = "dying"] ELSE box
Removed(j) == IF box.by = claim[Home[j]] THEN [box EXCEPT !.status = "dying"] ELSE box

Release(j) ==
    /\ users' = users \ {j}
    /\ IF LastOut(j) THEN box' = Removed(j) /\ claim' = [claim EXCEPT ![Home[j]] = Nobody]
                     ELSE UNCHANGED <<box, claim>>

Unheld(j) == marks[j] \ {"held", "alone"}

\* Out of the press; or, when a backup gives back a hold that had a reservation of
\* its own, on to the copy.
Out(j, from) ==
    \/ from \in {"letGo", "waitGone"} /\ To(j, from, "over") /\ MarksOf(j, {})
    \/ from \in {"giveBack", "waitBack"} /\ To(j, from, "askRecord") /\ MarksOf(j, Unheld(j))

\* The last one out keeps the lock, and its marks, while it waits for the container to go.
LetGo(j) ==
    /\ pc[j] \in {"letGo", "giveBack"}
    /\ IF j \in users THEN lock[Home[j]] = Nobody /\ Release(j)
                      ELSE UNCHANGED <<users, claim, box>>
    /\ IF LastOut(j) THEN /\ To(j, pc[j], IF pc[j] = "letGo" THEN "waitGone" ELSE "waitBack")
                          /\ lock' = [lock EXCEPT ![Home[j]] = j] /\ UNCHANGED marks
                     ELSE Out(j, pc[j]) /\ UNCHANGED lock
    /\ UNCHANGED <<lost, late, said, server, restores>>

OwnDying(j) == box.status = "dying" /\ Home[box.by] = Home[j]

\* Gone, or still there when the time is up.
WaitGone(j) ==
    /\ pc[j] \in {"waitGone", "waitBack"}
    /\ ~OwnDying(j) \/ j \in Unanswered
    /\ Out(j, pc[j]) /\ Unlock(j)
    /\ UNCHANGED <<claim, users, lost, docker, said, server, restores>>

-----------------------------------------------------------------------------
(* Start and Stop.                                                          *)

JobStays == UNCHANGED <<lock, claim, users, lost, docker, said>>

\* The compose command shares the reservation, or asks for one of its own.
Compose(j) == IF j \in moot THEN "again" ELSE "servers"

RefuseStartUnlessLoading(j) ==
    /\ IF LoadRunning(Home[j]) THEN To(j, "refuse", "letGo") /\ UNCHANGED db
                               ELSE To(j, "refuse", Compose(j)) /\ db' = TRUE
    /\ UNCHANGED <<marks, world, started, restores>> /\ JobStays

\* A restore that did not finish refuses every start; then the database is
\* brought up to ask it what else there is to refuse for.
RefuseStart(j) ==
    /\ IF record # "none" THEN To(j, "refuse", "letGo") /\ UNCHANGED db
                          ELSE To(j, "refuse", Compose(j)) /\ db' = TRUE
    /\ UNCHANGED <<marks, world, started, restores>> /\ JobStays

\* A command that shares the reservation asks once more whether it is lost.
StartServers(j) ==
    /\ IF j \in lost \ moot THEN To(j, "servers", "letGo") /\ UNCHANGED db
                     ELSE To(j, "servers", "world") /\ db' = TRUE
    /\ UNCHANGED <<marks, world, started, restores>> /\ JobStays

StartWorld(j) ==
    /\ To(j, "world", "letGo")
    /\ world' = IF ~WorldUp /\ db THEN j ELSE world
    /\ UNCHANGED <<marks, db, started, restores>> /\ JobStays

StopWorld(j) ==
    /\ To(j, "stopWorld", "stopDb")
    /\ world' = Nobody
    /\ UNCHANGED <<marks, db, started, restores>> /\ JobStays

\* Whatever a client was writing through the database ends with it.
DbDown == db' = FALSE /\ load' = {}

StopDb(j) ==
    /\ To(j, "stopDb", "letGo")
    /\ world' = Nobody /\ DbDown
    /\ UNCHANGED <<marks, started, record>> /\ JobStays

\* A Docker command fails, or a start is refused for another reason.
Fails(j) ==
    /\ pc[j] \in {"refuse", "servers", "world", "stopWorld", "stopDb", "takeDown"}
    /\ pc' = [pc EXCEPT ![j] = IF pc[j] = "takeDown" THEN "unhold" ELSE "letGo"]
    /\ UNCHANGED <<marks, server, restores>> /\ JobStays

WriteSql(j) ==
    /\ To(j, "write", "letGo")
    /\ UNCHANGED <<marks, server, restores>> /\ JobStays

-----------------------------------------------------------------------------
(* Backup and Restore, under their lease.                                   *)

\* Every other press inside a reservation of this Yu'lon.
Others(j) == {k \in Marked(j, "pressing") : kind[k] # kind[j]}

HoldMarks(j) == marks[j] \cup IF kind[j] = "restore" THEN {"held", "alone"} ELSE {"held"}

CanHold(j) ==
    /\ Marked(j, "inFlight") = {}
    /\ kind[j] = "restore" => Others(j) = {}

Hold(j) ==
    /\ \/ /\ To(j, "hold", IF j \in moot THEN "take" ELSE "bringUp")
          /\ CanHold(j) /\ MarksOf(j, HoldMarks(j))
       \/ To(j, "hold", "letGo") /\ ~CanHold(j) /\ UNCHANGED marks
    /\ UNCHANGED <<server, restores>> /\ JobStays

IsHot(j) == db /\ kind[j] = "backup"

\* A database that was up is not put down afterwards, so a backup of it gives
\* the hold back at once, and with it a reservation the hold made.
IntoTheJob(j) ==
    IF IsHot(j) /\ j \in moot
    THEN To(j, "bringUp", "giveBack") /\ UNCHANGED marks
    ELSE /\ To(j, "bringUp", IF kind[j] = "restore" THEN "plan" ELSE "askRecord")
         /\ MarksOf(j, IF IsHot(j) THEN Unheld(j) ELSE marks[j])

BringUpAsIfDown(j) ==
    /\ IntoTheJob(j) /\ db' = TRUE /\ started' = started \cup {j}
    /\ UNCHANGED <<world, restores>> /\ JobStays

BringUp(j) ==
    /\ IntoTheJob(j) /\ db' = TRUE
    /\ started' = IF db THEN started ELSE started \cup {j}
    /\ UNCHANGED <<world, restores>> /\ JobStays

BringUpFails(j) ==
    /\ ~db /\ To(j, "bringUp", "unhold")
    /\ UNCHANGED <<marks, server, restores>> /\ JobStays

PutBack(j) == IF j \in started THEN "takeDown" ELSE "unhold"

AskRecord(j) ==
    /\ To(j, "askRecord", IF record # "none" \/ ~db THEN PutBack(j) ELSE "dump")
    /\ UNCHANGED <<marks, server, restores>> /\ JobStays

Dump(j) ==
    /\ To(j, "dump", PutBack(j))
    /\ UNCHANGED <<marks, server, restores>> /\ JobStays

\* The plan is made again under the hold.
PlanAgain(j) ==
    /\ To(j, "plan", IF LoadRunning(Home[j]) \/ WorldUp \/ ~db THEN PutBack(j) ELSE "safety")
    /\ UNCHANGED <<marks, server, restores>> /\ JobStays

\* The safety copy, and then the marker; a copy that fails ends the restore.
SafetyCopy(j) ==
    /\ \/ To(j, "safety", "load") /\ db /\ record' = "marker"
       \/ To(j, "safety", PutBack(j)) /\ UNCHANGED record
    /\ UNCHANGED <<marks, server, load>> /\ JobStays

StartLoad(j) ==
    /\ \/ To(j, "load", "note") /\ db /\ load' = load \cup {j}
       \/ To(j, "load", PutBack(j)) /\ ~db /\ UNCHANGED load
    /\ UNCHANGED <<marks, server, record>> /\ JobStays

NoteTheLoad(j) ==
    /\ To(j, "note", "loading")
    /\ record' \in IF NoteMissed THEN {j, "marker"} ELSE {j}
    /\ UNCHANGED <<marks, server, load>> /\ JobStays

\* A finished load puts the record down; a failed one leaves a bare marker.
LoadEnds(j) ==
    /\ To(j, "loading", PutBack(j))
    /\ \/ j \in load /\ record' = "none"
       \/ record' = "marker"
    /\ load' = load \ {j}
    /\ UNCHANGED <<marks, server>> /\ JobStays

\* Only the database this job started itself is stopped again.  A world that
\* loses its database ends.
TakeDown(j) ==
    /\ To(j, "takeDown", "unhold")
    /\ world' = Nobody /\ DbDown
    /\ UNCHANGED <<marks, started, record>> /\ JobStays

\* A hold that made the reservation lets go of it first.
Unhold(j) ==
    /\ To(j, "unhold", "letGo") /\ MarksOf(j, IF j \in moot THEN marks[j] ELSE Unheld(j))
    /\ UNCHANGED <<server, restores>> /\ JobStays

-----------------------------------------------------------------------------
(* Around the jobs.                                                         *)

DockerRemoves ==
    /\ box.status = "dying" /\ box' = NoBox
    /\ UNCHANGED <<pc, tables, late, said, server, restores>>

\* A request whose command was ended is made and never started, or refused.
DockerIsLate(j) ==
    /\ j \in late /\ late' = late \ {j}
    /\ box' = IF box = NoBox THEN Box(j, "created") ELSE box
    /\ UNCHANGED <<pc, tables, said, server, restores>>

Sweep(j) ==
    /\ box = Box(j, "created") /\ pc[j] # "gone"
    /\ box' = NoBox
    /\ UNCHANGED <<pc, tables, late, said, server, restores>>

Going(a) == {j \in JobsOf(a) : pc[j] \notin {"idle", "over", "gone"}}

\* Quit anyway, or a crash: the marks go with the process, its container ends a
\* moment later, and a load that has begun carries on in Docker.
Crash(a) ==
    /\ a \in Quits
    /\ NoteMissed \/ \A j \in JobsOf(a) : pc[j] # "note"
    /\ Going(a) # {}
    /\ pc' = [j \in Jobs |-> IF j \in Going(a) THEN "gone" ELSE pc[j]]
    /\ marks' = [j \in Jobs |-> IF Home[j] = a THEN {} ELSE marks[j]]
    /\ lock' = [lock EXCEPT ![a] = Nobody] /\ claim' = [claim EXCEPT ![a] = Nobody]
    /\ users' = users \ JobsOf(a)
    /\ late' = late \cup {j \in JobsOf(a) : pc[j] = "run"}
    /\ box' = IF box.status = "running" /\ Home[box.by] = a THEN [box EXCEPT !.status = "dying"]
                                                             ELSE box
    /\ UNCHANGED <<lost, said, server, restores>>

\* Docker restarts: nothing it ran is running, and the commands that wait for
\* it end, a compose up and a dump with them.
CutShort(j) == CASE pc[j] = "world" -> "letGo"
                 [] pc[j] = "dump"  -> PutBack(j)
                 [] OTHER           -> pc[j]

DockerRestarts ==
    /\ users # {} /\ lost = {}
    /\ pc' = [j \in Jobs |-> CutShort(j)]
    /\ box' = NoBox /\ lost' = lost \cup users
    /\ world' = Nobody /\ DbDown
    /\ UNCHANGED <<marks, lock, claim, users, late, said, started, record>>

\* A load its Yu'lon no longer waits for ends; a clean end is read off its
\* output by whoever reads the record next, and puts the record down.
OrphanEnds(j) ==
    /\ j \in load /\ pc[j] = "gone"
    /\ load' = load \ {j}
    /\ \/ record = j /\ record' = "none"
       \/ UNCHANGED record
    /\ UNCHANGED <<pc, tables, docker, said, server>>

ForgetRecord(a) ==
    /\ a \in Forgetters /\ record # "none" /\ ~LoadRunning(a)
    /\ record' = "none"
    /\ UNCHANGED <<pc, tables, docker, said, server, load>>

Step(j) ==
    \/ Count(j) \/ Press(j)
    \/ Join(j) \/ TakeTheLock(j) \/ TakeTimesOut(j) \/ Made(j) \/ Silent(j) \/ GoesOnMoot(j)
    \/ ClearLeftover(j) \/ Taken(j) \/ StopRegardless(j)
    \/ LetGo(j) \/ WaitGone(j)
    \/ RefuseStart(j) \/ StartServers(j) \/ StartWorld(j) \/ StopWorld(j) \/ StopDb(j)
    \/ Fails(j) \/ WriteSql(j) \/ Hold(j) \/ BringUp(j) \/ BringUpFails(j)
    \/ AskRecord(j) \/ Dump(j) \/ PlanAgain(j) \/ SafetyCopy(j) \/ StartLoad(j)
    \/ NoteTheLoad(j) \/ LoadEnds(j) \/ TakeDown(j) \/ Unhold(j)

Next ==
    \/ \E j \in Jobs : \/ Look(j) \/ OrphanRefuses(j) \/ Step(j)
                       \/ StopAnyway(j) \/ StopAnywayFails(j)
                       \/ DockerIsLate(j) \/ Sweep(j) \/ OrphanEnds(j)
    \/ \E a \in Apps : Crash(a) \/ ForgetRecord(a)
    \/ DockerRemoves \/ DockerRestarts

Spec == Init /\ [][Next]_vars

\* A job goes on, a Stop's player answers, and Docker removes what was let go.
FairSpec ==
    /\ Spec
    /\ \A j \in Jobs : WF_vars(Step(j)) /\ WF_vars(StopAnyway(j) \/ StopAnywayFails(j))
                      /\ WF_vars(pc[j] # "idle" /\ (Look(j) \/ OrphanRefuses(j)))
    /\ WF_vars(DockerRemoves)

-----------------------------------------------------------------------------
Steps == {"idle", "over", "gone", "count", "counted", "press", "take", "run", "ask",
          "again", "regardless", "letGo", "giveBack", "waitGone", "waitBack",
          "refuse", "servers", "world", "stopWorld", "stopDb", "write", "hold", "bringUp",
          "askRecord", "dump", "plan", "safety", "load", "note", "loading", "takeDown", "unhold"}

\* Every variable has the shape its declaration says.
TypeOK ==
    /\ kind \in [Jobs -> Kinds] /\ pc \in [Jobs -> Steps] /\ marks \in [Jobs -> SUBSET Marks]
    /\ lock \in [Apps -> Jobs \cup {Nobody}] /\ claim \in [Apps -> Jobs \cup {Nobody}]
    /\ users \subseteq Jobs /\ lost \subseteq Jobs /\ late \subseteq Jobs
    /\ \/ box = NoBox
       \/ box \in [by : Jobs, status : {"created", "running", "dying"}]
    /\ seen \in [Jobs -> Jobs \cup {Nobody}] /\ moot \subseteq Jobs
    /\ world \in Jobs \cup {Nobody} /\ db \in BOOLEAN
    /\ started \subseteq Jobs /\ load \subseteq Jobs
    /\ record \in {"none", "marker"} \cup Jobs

\* At work on the server, past everything that could still refuse the job.
Working(j) ==
    pc[j] \in {"refuse", "servers", "world", "write", "dump", "safety", "load", "note", "loading"}

\* The jobs with no reservation to rely on: it was ended from elsewhere, or there
\* was none to be had.
Exposed == lost \cup moot

\* The jobs of two Yu'lons are never at work on one server together, unless the
\* reservation of one of them was ended from elsewhere or it found none to be had:
\* what the container (docker.py _server_claim) is for, through joins, last exits,
\* late answers and Yu'lons that die.  A Stop is let through.
OneYulonWorks ==
    \A j, k \in Jobs :
        Working(j) /\ Working(k) /\ Home[j] # Home[k] => {j, k} \cap Exposed # {}

\* The same of jobs that found no Docker, or could not write the server's folder:
\* "nothing can race on a daemon that is not answering" (docker.py
\* ServerReservationUnavailable).
NothingRacesUnreserved ==
    \A j, k \in Jobs :
        Working(j) /\ Working(k) /\ Home[j] # Home[k] => {j, k} \cap lost # {}

\* While a restore's load writes, nothing else of the same user's Yu'lon works
\* on the server, also when that Yu'lon is the next run and the load was left
\* behind by "Quit anyway" (docker.py _press_on, orphaned_restore_reason).
LoadAlone ==
    \A j \in load, k \in Jobs : Working(k) /\ Home[j] = Home[k] => j = k

\* The world is not up over databases a restore is writing, unless somebody
\* ended the reservation of that restore, or of the start, from elsewhere, or it
\* had none (docker.py hold_the_server, native.py folder_start_refusal).
WorldDownUnderLoad == \A j \in load : WorldUp => {j, world} \cap Exposed # {}

\* Two loads never write one server's databases, unless the reservation of one
\* was ended from elsewhere, or there was none.
OneLoad == \A j, k \in load : j = k \/ {j, k} \cap Exposed # {}

\* A backup or restore that puts the database down again does not take it from
\* under a world somebody started meanwhile (controller_view.py _database_alone).
CleanupSparesTheWorld ==
    [][\A j \in Jobs : pc[j] = "takeDown" /\ pc'[j] = "unhold" /\ ~db' /\ WorldUp
                       => {j, world} \cap Exposed # {}]_vars

\* A running reservation is one its Yu'lon still has, with a job inside; and a
\* Yu'lon remembers a reservation exactly while a job is inside it, and locks
\* it against its other jobs only while it makes it or waits for it to be gone
\* (docker.py _let_go).
AReservationIsAPress ==
    /\ box.status = "running" => claim[Home[box.by]] = box.by
    /\ \A a \in Apps :
         /\ claim[a] = Nobody <=> UsersOf(a) = {}
         /\ lock[a] # Nobody =>
              pc[lock[a]] \in {"run", "waitGone", "waitBack"} /\ Home[lock[a]] = a

\* Every press ends, whoever holds the server, and whatever Docker does not
\* answer (docker.py _let_go, _server_claim), as long as its player answers the
\* question of a Stop and the commands it runs come back.
EveryPressEnds == \A j \in Jobs : pc[j] = "take" ~> pc[j] \in {"over", "gone"}
=============================================================================
