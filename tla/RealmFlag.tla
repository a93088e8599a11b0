----------------------------- MODULE RealmFlag -----------------------------
(***************************************************************************)
(* yulon/realm_flag.py and its callers: the offline bit of a realm's row.  *)
(*                                                                         *)
(* The game only ever clears the bit, when its world starts to listen.     *)
(* Yu'lon sets it: a Start before the world loads, a Stop and a rebuild    *)
(* before the world goes, each of which takes the bit off again when it is *)
(* given up, and a Keeper, fed by the dashboard's tick, when the world has *)
(* crashed or was stopped from outside.  The Keeper also takes off a bit   *)
(* that stayed behind.  Every look and every statement is one call of      *)
(* Docker, and anything may happen between two of them.                    *)
(***************************************************************************)
EXTENDS Naturals

CONSTANTS
    MaxRuns,      \* how often the world may start
    MaxFaults     \* how many calls of Docker may fail, or Yu'lons end

ASSUME RealmFlagAssumption == MaxRuns \in Nat \ {0} /\ MaxFaults \in Nat

None   == 0
Runs   == 1 .. MaxRuns
Phases == {"stopped", "restarting", "loading", "overdue", "broken", "said", "up"}
Kinds  == {"start", "stop", "replace"}

JobSteps  == {"idle", "look", "mark", "work", "rest", "renew", "waitWorld", "auth",
              "waitAuth", "openLook", "open", "backLook", "back", "leave"}
TickSteps == {"idle", "read", "markLook", "mark", "heard", "flags", "confirm",
              "gate", "clear", "again", "remarkLook", "remark"}

VARIABLES
    ordered,    \* does this game start its login server only after its world (T812)?
    world,      \* the world's container: loading, overdue (loading for ten minutes or more),
                \* broken (an update of its database failed), said its ready line, up (listens)
    run,        \* its StartedAt
    db,         \* the database's container is up
    auth,       \* the login server, of a game started in order
    bit,        \* REALM_FLAG_OFFLINE in the realm's row
    hold,       \* _holds: a Stop or a rebuild keeps the realm offline on purpose
    kind, job,  \* the press that is running and what it does next
    tick,       \* what the Keeper does next
    seen,       \* status and run as this tick read them
    moved,      \* _epochs moved since this tick began
    marked,     \* Keeper._marked: the status and run last marked
    readyRun,   \* Keeper._ready_run
    faults,     \* calls of Docker that failed and Yu'lons that ended so far
    meant,      \* history: the press that is running has marked, and the game has not cleared
    early       \* history: a press of Yu'lon took the bit off this run before it listened

server == <<world, run, db, auth>>
press  == <<kind, job, hold>>
keeper == <<tick, seen, moved, marked, readyRun>>
vars   == <<ordered, server, bit, press, keeper, faults, meant, early>>

Statuses == {"stopped", "restarting", "running"}
Readings == [status : Statuses, run : 0 .. MaxRuns]
Spells   == Statuses \X (0 .. MaxRuns)

NoRead == [status |-> "stopped", run |-> None]
NoMark == <<"stopped", None>>

Loading == world \in {"loading", "overdue"}
Running == Loading \/ world \in {"broken", "said", "up"}
Said    == world \in {"said", "up"}
Status  == IF Running THEN "running" ELSE world

Init ==
    /\ ordered \in BOOLEAN
    /\ world = "stopped" /\ run = None /\ db = FALSE /\ auth = "down" /\ bit = FALSE
    /\ hold = FALSE /\ kind = "start" /\ job = "idle"
    /\ tick = "idle" /\ seen = NoRead /\ moved = FALSE
    /\ marked = NoMark /\ readyRun = None
    /\ faults = 0 /\ meant = FALSE /\ early = FALSE

-----------------------------------------------------------------------------
(* The containers, which nobody asks. *)

\* A world that starts: a new StartedAt, of which nothing is known yet.
Starts ==
    /\ run < MaxRuns
    /\ world' = "loading" /\ run' = run + 1 /\ early' = FALSE

\* Docker's restart policy revives a crashed world.
Revive ==
    /\ world = "restarting"
    /\ Starts
    /\ UNCHANGED <<ordered, db, auth, bit, press, keeper, faults, meant>>

\* Ten minutes pass, in which nothing else need happen: a tick that hangs, a closed lid.
GrowsOld ==
    /\ world = "loading"
    /\ world' = "overdue"
    /\ UNCHANGED <<ordered, run, db, auth, bit, press, keeper, faults, meant, early>>

\* An update of the database that failed is in this run's log, and the run never says ready.
UpdateFails ==
    /\ Loading
    /\ world' = "broken"
    /\ UNCHANGED <<ordered, run, db, auth, bit, press, keeper, faults, meant, early>>

\* The ready line comes first, the bit is cleared a few statements later.
SaysReady ==
    /\ Loading
    /\ world' = "said"
    /\ UNCHANGED <<ordered, run, db, auth, bit, press, keeper, faults, meant, early>>

Listens ==
    /\ world = "said"
    /\ world' = "up" /\ bit' = FALSE /\ meant' = FALSE
    /\ UNCHANGED <<ordered, run, db, auth, press, keeper, faults, early>>

\* A crash, or a stop from outside Yu'lon.
WorldEnds(to) ==
    /\ Running
    /\ to \in {"restarting", "stopped"}
    /\ world' = to
    /\ UNCHANGED <<ordered, run, db, auth, bit, press, keeper, faults, meant, early>>

AuthSaysReady ==
    /\ auth = "loading"
    /\ auth' = "up"
    /\ UNCHANGED <<ordered, world, run, db, bit, press, keeper, faults, meant, early>>

-----------------------------------------------------------------------------
(* One press at a time: Start, Stop, or the replace at a rebuild's end. *)

\* A hold that begins or ends is an epoch; only a tick that is under way compares it.
HoldMoves(to) == hold' = to /\ moved' = (tick # "idle")

KeepHold == UNCHANGED <<hold, moved>>

\* The presses that run inside deliberately_offline: not a Start, and not the Stop of a
\* game started in order, which says nothing of its realm.
Holds(k) == k = "replace" \/ (k = "stop" /\ ~ordered)

Press(k) ==
    /\ job = "idle"
    /\ k = "stop" => db
    /\ kind' = k /\ meant' = FALSE
    /\ job' = IF k = "stop" /\ ordered THEN "work" ELSE "look"
    /\ IF Holds(k) THEN HoldMoves(TRUE) ELSE KeepHold
    /\ UNCHANGED <<ordered, server, bit, tick, seen, marked, readyRun, faults, early>>

\* mark_offline's looks: a Start leaves a running world's row alone, a Stop starts no database.
LookToMark ==
    /\ job = "look"
    /\ IF kind = "start" /\ Running
       THEN job' = "work" /\ UNCHANGED db
       ELSE /\ db' = (db \/ kind # "stop")
            /\ job' = IF db' THEN "mark" ELSE "work"
    /\ UNCHANGED <<ordered, world, run, auth, bit, kind, hold, keeper, faults, meant, early>>

Mark ==
    /\ job = "mark"
    /\ bit' = TRUE /\ meant' = TRUE /\ job' = "work"
    /\ UNCHANGED <<ordered, server, kind, hold, keeper, faults, early>>

\* A statement of a press that fails is logged, and the press goes on.
PressCallFails ==
    /\ faults < MaxFaults
    /\ job \in {"look", "mark", "openLook", "open", "backLook", "back"}
    /\ faults' = faults + 1
    /\ job' = CASE job \in {"look", "mark"} -> "work"
                [] job \in {"openLook", "open"} /\ kind = "start" -> "idle"
                [] OTHER -> "leave"
    /\ UNCHANGED <<ordered, server, bit, kind, hold, keeper, meant, early>>

\* The old world goes: for good, or to be replaced.
WorldDown ==
    /\ job = "work" /\ kind # "start"
    /\ world' = "stopped"
    /\ job' = IF kind = "stop" THEN "rest" ELSE "renew"
    /\ UNCHANGED <<ordered, run, db, auth, bit, kind, hold, keeper, faults, meant, early>>

RestDown ==
    /\ job = "rest"
    /\ db' = FALSE /\ auth' = "down" /\ job' = "leave"
    /\ UNCHANGED <<ordered, world, run, bit, kind, hold, keeper, faults, meant, early>>

\* compose up, or the second half of recreate: what runs already is left as it is.
ServersUp ==
    /\ job = "renew" \/ (job = "work" /\ kind = "start")
    /\ db' = TRUE
    /\ IF world = "stopped" THEN Starts ELSE UNCHANGED <<world, run, early>>
    /\ job' = IF ordered THEN "waitWorld" ELSE IF kind = "start" THEN "idle" ELSE "leave"
    /\ UNCHANGED <<ordered, auth, bit, kind, hold, keeper, faults, meant>>

\* The ordered start: the world's ready line, the login server, its ready line, the row.
WorldHeard ==
    /\ job = "waitWorld" /\ Said
    /\ job' = "auth"
    /\ UNCHANGED <<ordered, server, bit, kind, hold, keeper, faults, meant, early>>

StartAuth ==
    /\ job = "auth"
    /\ auth' = IF auth = "down" \/ kind = "replace" THEN "loading" ELSE auth
    /\ job' = "waitAuth"
    /\ UNCHANGED <<ordered, world, run, db, bit, kind, hold, keeper, faults, meant, early>>

\* The full wait reads both logs, and so sees a world that has died since.
AuthHeard ==
    /\ job = "waitAuth" /\ auth = "up" /\ Said
    /\ job' = "openLook"
    /\ UNCHANGED <<ordered, server, bit, kind, hold, keeper, faults, meant, early>>

LookToOpen ==
    /\ job = "openLook"
    /\ job' = IF db /\ Running THEN "open" ELSE IF kind = "start" THEN "idle" ELSE "leave"
    /\ UNCHANGED <<ordered, server, bit, kind, hold, keeper, faults, meant, early>>

\* The statement of open_realm and of clear_offline_if_world_up.
TakeOff ==
    /\ bit' = FALSE /\ meant' = FALSE
    /\ early' = (early \/ ~Said)

Open ==
    /\ job = "open"
    /\ TakeOff
    /\ job' = IF kind = "start" THEN "idle" ELSE "leave"
    /\ UNCHANGED <<ordered, server, kind, hold, keeper, faults>>

\* A wait that is cancelled or runs out, a Stop or a replace that is given up or refused.
GiveUp ==
    /\ job \in {"work", "rest", "renew", "waitWorld", "auth", "waitAuth"}
    /\ job' = IF Holds(kind) THEN "backLook" ELSE "idle"
    /\ UNCHANGED <<ordered, server, bit, kind, hold, keeper, faults, meant, early>>

LookToPutBack ==
    /\ job = "backLook"
    /\ job' = IF db /\ Running THEN "back" ELSE "leave"
    /\ UNCHANGED <<ordered, server, bit, kind, hold, keeper, faults, meant, early>>

PutBack ==
    /\ job = "back"
    /\ TakeOff
    /\ job' = "leave"
    /\ UNCHANGED <<ordered, server, kind, hold, keeper, faults>>

\* Mutant: the hold of a press is only given back by a Stop.
LeaveHolding ==
    /\ job = "leave"
    /\ job' = "idle" /\ meant' = FALSE
    /\ IF kind = "stop" THEN HoldMoves(FALSE) ELSE KeepHold
    /\ UNCHANGED <<ordered, server, bit, kind, tick, seen, marked, readyRun, faults, early>>

Leave ==
    /\ job = "leave"
    /\ job' = "idle" /\ meant' = FALSE
    /\ IF hold THEN HoldMoves(FALSE) ELSE KeepHold
    /\ UNCHANGED <<ordered, server, bit, kind, tick, seen, marked, readyRun, faults, early>>

-----------------------------------------------------------------------------
(* The Keeper: one tick at a time, on a thread of its own. *)

EndTick == tick' = "idle" /\ seen' = NoRead /\ moved' = FALSE

Go(to) == tick' = to /\ UNCHANGED <<seen, moved>>

Reads(to) ==
    tick' = to /\ seen' = [status |-> Status, run |-> run] /\ UNCHANGED moved

\* begin(): the epoch is taken before the container is read.
BeginTick ==
    /\ tick = "idle"
    /\ Go("read")
    /\ UNCHANGED <<ordered, server, bit, press, marked, readyRun, faults, meant, early>>

\* A run of ten minutes counts as ready whatever else its log says or does not say, marked
\* or not, but for a failed update.
ReadReady == Said \/ world = "overdue"

\* What a log that was not read leaves undecided is decided by the run's age alone.
ReadUnheard(ready) ==
    CASE world \in {"broken", "said", "up"} -> ready \in BOOLEAN
      [] OTHER -> ready = ReadReady

\* Mutant: a run that was marked once is not marked again, whatever becomes of it.
MarkedOnce == marked[2] = run

\* Each status of a run is a spell of its own.
MarkedAlready == marked = <<Status, run>>

\* _after_tick, with what _make_offline and _unstick decide before their first call.
AfterTick(ready) ==
    /\ IF ready
       THEN /\ readyRun' = run
            /\ IF readyRun = run THEN Reads("flags") ELSE EndTick
       ELSE /\ readyRun' = None
            /\ IF MarkedAlready \/ run = None THEN EndTick ELSE Reads("markLook")
    /\ UNCHANGED <<ordered, server, bit, press, marked, meant, early>>

ReadContainer ==
    /\ tick = "read"
    /\ AfterTick(ReadReady)
    /\ UNCHANGED faults

\* The container answers and its log does not.
ReadNoLog(ready) ==
    /\ tick = "read"
    /\ faults < MaxFaults /\ faults' = faults + 1
    /\ ReadUnheard(ready)
    /\ AfterTick(ready)

LookToMarkAgain(from, to) ==
    /\ tick = from
    /\ IF db THEN Go(to) ELSE EndTick
    /\ UNCHANGED <<ordered, server, bit, press, marked, readyRun, faults, meant, early>>

\* The mark of a running world is followed by a second look at its log.
KeeperMarks ==
    /\ tick = "mark"
    /\ bit' = TRUE
    /\ IF seen.status = "running"
       THEN Go("heard") /\ UNCHANGED marked
       ELSE EndTick /\ marked' = <<seen.status, seen.run>>
    /\ UNCHANGED <<ordered, server, press, readyRun, faults, meant, early>>

\* Mutant: the marker is looked for in the newest lines only.
SaidJustNow(r) == run = r /\ world = "said"

\* _world_said_ready: still this run, and the marker is in its log.
SaidIn(r) == run = r /\ Said

Heard ==
    /\ tick = "heard"
    /\ marked' = <<seen.status, seen.run>>
    /\ IF SaidIn(seen.run) THEN Go("gate") ELSE EndTick
    /\ UNCHANGED <<ordered, server, bit, press, readyRun, faults, meant, early>>

ReadFlags ==
    /\ tick = "flags"
    /\ IF db /\ bit THEN Go("confirm") ELSE EndTick
    /\ UNCHANGED <<ordered, server, bit, press, marked, readyRun, faults, meant, early>>

Confirm ==
    /\ tick = "confirm"
    /\ IF SaidIn(seen.run) THEN Go("gate") ELSE EndTick
    /\ UNCHANGED <<ordered, server, bit, press, marked, readyRun, faults, meant, early>>

HeldOrMoved == hold \/ moved

\* _clear_unless_held, and the look of the clear it calls.
Gate ==
    /\ tick = "gate"
    /\ IF HeldOrMoved THEN EndTick
       ELSE IF db /\ Running THEN Go("clear") ELSE Go("again")
    /\ UNCHANGED <<ordered, server, bit, press, marked, readyRun, faults, meant, early>>

KeeperClears ==
    /\ tick = "clear"
    /\ bit' = FALSE
    /\ Go("again")
    /\ UNCHANGED <<ordered, server, press, marked, readyRun, faults, meant, early>>

\* No lock is held over a call of Docker, so the hold is looked at once more.
\* Mutant: the hold is looked at before the clear and not after it.
LookOnce ==
    /\ tick = "again"
    /\ EndTick
    /\ UNCHANGED <<ordered, server, bit, press, marked, readyRun, faults, meant, early>>

LookAgain ==
    /\ tick = "again"
    /\ IF HeldOrMoved THEN Go("remarkLook") ELSE EndTick
    /\ UNCHANGED <<ordered, server, bit, press, marked, readyRun, faults, meant, early>>

KeeperRemarks ==
    /\ tick = "remark"
    /\ bit' = TRUE
    /\ EndTick
    /\ UNCHANGED <<ordered, server, press, marked, readyRun, faults, meant, early>>

KeeperCallFails ==
    /\ faults < MaxFaults
    /\ tick \in {"read", "markLook", "mark", "heard", "flags", "confirm", "clear",
                 "remarkLook", "remark"}
    /\ faults' = faults + 1
    /\ marked' = IF tick = "heard" THEN <<seen.status, seen.run>> ELSE marked
    /\ IF tick = "clear" THEN Go("again") ELSE EndTick
    /\ UNCHANGED <<ordered, server, bit, press, readyRun, meant, early>>

\* Yu'lon ends, in the middle of whatever it did, and is opened again.
AppDies ==
    /\ faults < MaxFaults
    /\ faults' = faults + 1
    /\ job' = "idle" /\ hold' = FALSE /\ meant' = FALSE
    /\ EndTick /\ marked' = NoMark /\ readyRun' = None
    /\ UNCHANGED <<ordered, server, bit, kind, early>>

-----------------------------------------------------------------------------
KeeperStep ==
    \/ BeginTick
    \/ ReadContainer
    \/ LookToMarkAgain("markLook", "mark")
    \/ KeeperMarks \/ Heard \/ ReadFlags \/ Confirm \/ Gate \/ KeeperClears \/ LookAgain
    \/ LookToMarkAgain("remarkLook", "remark")
    \/ KeeperRemarks

JobStep ==
    \/ LookToMark \/ Mark \/ WorldDown \/ RestDown \/ ServersUp
    \/ WorldHeard \/ StartAuth \/ AuthHeard \/ LookToOpen \/ Open
    \/ LookToPutBack \/ PutBack \/ Leave

Next ==
    \/ Revive \/ GrowsOld \/ UpdateFails \/ SaysReady \/ Listens \/ AuthSaysReady
    \/ \E to \in {"restarting", "stopped"} : WorldEnds(to)
    \/ \E k \in Kinds : Press(k)
    \/ JobStep \/ PressCallFails \/ GiveUp
    \/ KeeperStep \/ KeeperCallFails \/ AppDies
    \/ \E ready \in BOOLEAN : ReadNoLog(ready)

Spec == Init /\ [][Next]_vars

\* The tick comes every five seconds and each of its calls returns.
FairSpec == Spec /\ WF_vars(KeeperStep)

-----------------------------------------------------------------------------
TypeOK ==
    /\ ordered \in BOOLEAN
    /\ world \in Phases /\ run \in 0 .. MaxRuns /\ db \in BOOLEAN
    /\ auth \in {"down", "loading", "up"} /\ bit \in BOOLEAN
    /\ hold \in BOOLEAN /\ kind \in Kinds /\ job \in JobSteps
    /\ tick \in TickSteps /\ moved \in BOOLEAN
    /\ seen \in Readings /\ marked \in Spells
    /\ readyRun \in 0 .. MaxRuns
    /\ faults \in 0 .. MaxFaults /\ meant \in BOOLEAN /\ early \in BOOLEAN
    /\ hold <=> job # "idle" /\ Holds(kind)

\* A realm that a Stop or a rebuild marked stays offline for as long as it is held, over a
\* world that may take minutes to save: a tick that was about to take the bit off when the
\* hold began puts it back before it ends (_clear_unless_held).
AHoldOutlastsTheTick ==
    hold /\ meant /\ db /\ faults = 0 => bit \/ tick \in {"again", "remarkLook", "remark"}

NotListening == ~Said /\ db /\ run # None

\* A world that crashed, was stopped from outside, is loading or died of a failed update is
\* listed offline sooner or later, however long it stays so and however old its run is,
\* unless a press itself took the bit off this run early, or its load is ten minutes old.
ADeadWorldIsListedOffline ==
    NotListening /\ ~bit ~> bit \/ early \/ world = "overdue" \/ ~NotListening

\* A bit that is left on a listening world comes off: put there by a tick that came too late,
\* by a Stop that was given up, or by a Yu'lon that ended half-way.
AListeningWorldIsListedOnline ==
    world = "up" /\ db /\ bit ~> ~bit \/ world # "up" \/ hold

\* The same of the Keeper alone and of every load: "the tab's own "ready" also counts ten
\* minutes of uptime, which is no proof that a world listens" (realm_flag.py:400), and yet a
\* load that was not marked in its first ten minutes is never marked.
AnOldLoadIsListedOffline ==
    NotListening /\ ~bit ~> bit \/ early \/ ~NotListening

\* What the Keeper says when it marks, "its realm is listed Offline until the world server
\* says it is up" (realm_flag.py:460), of every press, and of every world but an old load.
OfflineUntilItSaysUp ==
    NotListening /\ ~bit ~> bit \/ world = "overdue" \/ ~NotListening
=============================================================================
