------------------------------ MODULE PoolReset ------------------------------
(***************************************************************************)
(* controller_wow_tortoise/poolreset.py: "Rebuild random bots".            *)
(*                                                                         *)
(* The press writes a request with a fresh token into aiplayerbot.conf,    *)
(* restarts the server and reads in the world's log what the bots module   *)
(* makes of it.  A world reads the request once, late in its start, and    *)
(* then deletes the pool unless the token is the one its database has      *)
(* recorded last.  So the file, the running world, its log, the database   *)
(* and the backups of file and database all say something about whether    *)
(* the bots are deleted at the next start, and each may be older than the  *)
(* others.                                                                 *)
(***************************************************************************)
EXTENDS Naturals, FiniteSets

CONSTANTS
    MaxTokens,    \* how often the rebuild is pressed
    MaxRuns,      \* how often the world starts
    MaxUpsets,    \* how many of the upsets happen, each of them once
    Upsets        \* what may go wrong, or be done by a player, out of the ordinary

(* Docker does not answer (blind); the file cannot be written (deny); Yu'lon ends (die); the  *)
(* restart is refused, or its stop or start fails; a restore fails, or Yu'lon ends in it.      *)
(* The rebuild is pressed over a request that is pending (again); a world that was *)
(* booting at the press reads its request before it is stopped (boot); a world refuses to     *)
(* go on with a pool that is half deleted, under a press (balk); the player puts a file       *)
(* without a request over a pending one (revert), or restores a backup of half a pool.        *)
Causes == {"blind", "deny", "die", "refused", "stopFails", "startFails", "restoreFails",
           "dieLoading", "again", "boot", "balk", "revert", "halfDump"}

ASSUME PoolResetAssumption ==
    /\ MaxTokens \in Nat \ {0} /\ MaxRuns \in Nat \ {0} /\ MaxUpsets \in Nat
    /\ Upsets \subseteq Causes

Off    == 0
Tokens == 1 .. MaxTokens
Runs   == 1 .. MaxRuns
Worlds == {"down", "restarting", "booting", "planned"}
Pools  == [record : 0 .. MaxTokens, half : BOOLEAN]
Logs   == [plan : {"none", "off", "already", "refused", "scheduled"}, token : 0 .. MaxTokens,
           end : {"none", "applied", "failed", "aborted"}]

Steps == {"idle", "enrol", "write", "written", "restart", "start", "startFailed",
          "stopFailed", "stopRead", "watch", "takeBack", "load"}

VARIABLES
    conf,       \* AiPlayerbot.RandomBotPoolReset: Off, or the token of a request
    copies,     \* what the Tuning backups of the file say
    pool,       \* the characters database: the generation it records, and if half is deleted
    dump,       \* the backup of that database that a restore would load
    world, run, \* the world's container and its StartedAt
    doing,      \* the token whose reset the world is carrying out (Off: none)
    log,        \* what the newest run has logged
    named,      \* tokens that some run's log names
    pc, token,  \* the press (or a restore), and the token it wrote last
    before,     \* started_before: the run before the write (0: not readable)
    seenUp, seenRun, \* what a press has read off Docker
    booting,    \* the watched run had not planned when the request was written
    spent,      \* a take-back of an applied request
    taken,      \* a restore: the request it took back
    calledOff,  \* history: tokens the player was told are called off
    saidDone,   \* history: tokens the player was told are done
    begun,      \* history: tokens whose reset has deleted a bot
    done,       \* history: tokens whose reset was completed
    staleTo,    \* history: the last token written before the newest restore
    happened    \* history: the upsets so far

file     == <<conf, copies>>
database == <<pool, dump>>
server   == <<world, run, doing, log, named>>
readings == <<before, seenUp, seenRun, booting, spent, taken>>
told     == <<calledOff, saidDone>>
deeds    == <<begun, done>>
vars     == <<file, database, server, pc, token, readings, told, deeds, staleTo, happened>>

NoLog == [plan |-> "none", token |-> Off, end |-> "none"]
Whole(t) == [record |-> t, half |-> FALSE]

TypeOK ==
    /\ conf \in 0 .. MaxTokens /\ copies \subseteq 0 .. MaxTokens
    /\ pool \in Pools /\ dump \in Pools
    /\ world \in Worlds /\ run \in 0 .. MaxRuns /\ doing \in 0 .. MaxTokens
    /\ log \in Logs /\ named \subseteq Tokens
    /\ pc \in Steps /\ token \in 0 .. MaxTokens
    /\ before \in 0 .. MaxRuns /\ seenUp \in {"up", "down", "unknown"}
    /\ seenRun \in 0 .. MaxRuns
    /\ booting \in BOOLEAN /\ spent \in BOOLEAN
    /\ taken \in 0 .. MaxTokens
    /\ calledOff \subseteq Tokens /\ saidDone \subseteq Tokens
    /\ begun \subseteq Tokens /\ done \subseteq Tokens
    /\ staleTo \in 0 .. MaxTokens /\ happened \subseteq Upsets

Init ==
    /\ conf = Off /\ copies = {Off} /\ pool = Whole(Off) /\ dump = Whole(Off)
    /\ world = "down" /\ run = 0 /\ doing = Off /\ log = NoLog /\ named = {}
    /\ pc = "idle" /\ token = Off
    /\ before = 0 /\ seenUp = "unknown" /\ seenRun = 0 /\ booting = FALSE /\ spent = FALSE
    /\ taken = Off
    /\ calledOff = {} /\ saidDone = {} /\ begun = {} /\ done = {} /\ staleTo = Off
    /\ happened = {}

Upset(cause) ==
    /\ cause \in Upsets \ happened /\ Cardinality(happened) < MaxUpsets
    /\ happened' = happened \cup {cause}
Fine == UNCHANGED happened

Fresh ==
    /\ before' = 0 /\ seenUp' = "unknown" /\ seenRun' = 0 /\ booting' = FALSE
    /\ spent' = FALSE /\ taken' = Off
End == pc' = "idle" /\ Fresh
Go(step) == pc' = step /\ UNCHANGED readings

-----------------------------------------------------------------------------
(* The world and its bots module, which nobody asks. *)

Up == world # "down"

NewRun ==
    /\ run < MaxRuns
    /\ world' = "booting" /\ run' = run + 1 /\ doing' = Off /\ log' = NoLog
    /\ UNCHANGED named

Ends(to) == world' = to /\ doing' = Off /\ UNCHANGED <<run, log, named>>

\* A crash, or a stop from outside; and Docker's restart policy.
Crash(to) ==
    /\ world \in {"booting", "planned"} /\ to \in {"down", "restarting"}
    /\ Ends(to)
    /\ UNCHANGED <<file, database, pc, token, readings, told, deeds, staleTo, happened>>

Revive ==
    /\ world = "restarting"
    /\ NewRun
    /\ UNCHANGED <<file, database, pc, token, readings, told, deeds, staleTo, happened>>

\* A world needs more than a minute to come to its plan, and a press that has seen a start
\* fail, or has decided to take its request back, does so at once.
StillBooting == pc \in {"startFailed", "takeBack"}

Plans(what, t, resets) ==
    /\ log' = [plan |-> what, token |-> t, end |-> "none"]
    /\ named' = named \cup ({t} \ {Off})
    /\ doing' = resets

\* The reset of half a pool is refused, under a press that may read it so.
Balks == pool.half /\ pc # "idle"

PlanNothing ==
    /\ world = "booting" /\ ~StillBooting
    /\ world' = "planned"
    /\ \/ conf = Off /\ Plans("off", Off, Off)
       \/ conf # Off /\ conf = pool.record /\ Plans("already", conf, Off)
    /\ Fine
    /\ UNCHANGED <<file, database, run, pc, token, readings, told, deeds, staleTo>>

Asked == world = "booting" /\ ~StillBooting /\ conf # Off /\ conf # pool.record

PlanReset ==
    /\ Asked
    /\ world' = "planned" /\ Plans("scheduled", conf, conf)
    /\ UNCHANGED <<file, database, run, pc, token, readings, told, deeds, staleTo, happened>>

\* Only some of the refusals name the token.
PlanRefused ==
    /\ Asked
    /\ world' = "planned" /\ \E t \in {Off, conf} : Plans("refused", t, Off)
    /\ IF Balks THEN Upset("balk") ELSE Fine
    /\ UNCHANGED <<file, database, run, pc, token, readings, told, deeds, staleTo>>

Resetting == world = "planned" /\ doing # Off

Logged(end) == log' = [log EXCEPT !.end = end] /\ doing' = Off

Delete ==
    /\ Resetting /\ doing \notin begun
    /\ pool' = [pool EXCEPT !.half = TRUE] /\ begun' = begun \cup {doing}
    /\ UNCHANGED <<file, dump, server, pc, token, readings, told, done, staleTo, happened>>

Applied ==
    /\ Resetting /\ doing \in begun
    /\ pool' = Whole(doing) /\ done' = done \cup {doing}
    /\ Logged("applied")
    /\ UNCHANGED <<file, dump, world, run, named, pc, token, readings, told, begun, staleTo,
                   happened>>

Fails ==
    /\ Resetting
    /\ \/ Logged("failed") /\ Fine
       \/ Logged("aborted") /\ (IF Balks THEN Upset("balk") ELSE Fine)
    /\ UNCHANGED <<file, database, world, run, named, pc, token, readings, told, deeds, staleTo>>

-----------------------------------------------------------------------------
(* The player. *)

Start ==
    /\ pc = "idle" /\ world = "down"
    /\ NewRun
    /\ UNCHANGED <<file, database, pc, token, readings, told, deeds, staleTo, happened>>

Stop ==
    /\ pc = "idle" /\ world # "down"
    /\ Ends("down")
    /\ UNCHANGED <<file, database, pc, token, readings, told, deeds, staleTo, happened>>

Dumped == dump' = pool

BackUp ==
    /\ pc = "idle"
    /\ Dumped
    /\ UNCHANGED <<file, pool, server, pc, token, readings, told, deeds, staleTo, happened>>

\* Any save of the Tuning tab keeps the file as it was beside it.
SaveConf ==
    /\ copies' = copies \cup {conf}
    /\ UNCHANGED <<conf, database, server, pc, token, readings, told, deeds, staleTo, happened>>

\* The messages that leave a request say when the player may set it to off.
SetOff ==
    /\ pc = "idle" /\ ~pool.half /\ doing = Off
    /\ conf' = Off
    /\ UNCHANGED <<copies, database, server, pc, token, readings, told, deeds, staleTo, happened>>

\* Mutant: a copy goes back whole.
PutBackWhole(copy) == conf' = copy /\ Fine

\* A copy that asks for a rebuild goes back with the key as the file has it.
PutBackFile(copy) ==
    /\ conf' = IF copy = Off THEN Off ELSE conf
    /\ IF conf' = conf THEN Fine ELSE Upset("revert")

Revert ==
    /\ \E copy \in copies : PutBackFile(copy)
    /\ UNCHANGED <<copies, database, server, pc, token, readings, told, deeds, staleTo>>

-----------------------------------------------------------------------------
(* The press (PoolRebuild.rebuild). *)

Press ==
    /\ pc = "idle" /\ token < MaxTokens
    /\ Go("enrol")
    /\ IF conf = Off THEN Fine ELSE Upset("again")
    /\ UNCHANGED <<file, database, server, token, told, deeds, staleTo>>

\* The backup, if asked for; the enrolment changes nothing here.  Either may end the press.
Enrol ==
    /\ pc = "enrol"
    /\ \/ Dumped /\ Go("write")
       \/ UNCHANGED dump /\ Go("write")
       \/ UNCHANGED dump /\ End
    /\ UNCHANGED <<file, pool, server, token, told, deeds, staleTo, happened>>

WriteKey ==
    /\ pc = "write"
    /\ token' = token + 1
    /\ \/ /\ Fine /\ before' = run
          /\ conf' = token' /\ copies' = copies \cup {conf} /\ pc' = "written"
       \/ /\ Upset("blind") /\ before' = 0
          /\ conf' = token' /\ copies' = copies \cup {conf} /\ pc' = "written"
       \/ Upset("deny") /\ pc' = "idle" /\ UNCHANGED <<file, before>>
    /\ UNCHANGED <<database, server, seenUp, seenRun, booting, spent, taken, told,
                   deeds, staleTo>>

\* That the world which is up has read the request already is the upset.
CalledOffHere(cause) ==
    /\ Go("takeBack")
    /\ IF token \in named THEN Upset("boot") ELSE IF cause = "none" THEN Fine ELSE Upset(cause)

CancelOrRestart ==
    /\ pc = "written"
    /\ CalledOffHere("none") \/ (Go("restart") /\ Fine)
    /\ UNCHANGED <<file, database, server, token, told, deeds, staleTo>>

\* restart_world: refused, or its stop was done, or raised.
StopTheWorld ==
    /\ pc = "restart"
    /\ \/ Fine /\ Go("start") /\ Ends("down")
       \/ CalledOffHere("refused") /\ UNCHANGED server
       \/ Upset("stopFails") /\ Go("stopFailed") /\ (UNCHANGED server \/ Ends("down"))
    /\ UNCHANGED <<file, database, token, told, deeds, staleTo>>

StartTheWorld ==
    /\ pc = "start"
    /\ \/ Fine /\ Go("watch") /\ NewRun
       \/ Upset("startFails") /\ Go("startFailed") /\ (UNCHANGED server \/ NewRun)
    /\ UNCHANGED <<file, database, token, told, deeds, staleTo>>

\* _after_a_failed_restart: up is watched, down is taken back, unknown is kept.
StartFailed ==
    /\ pc = "startFailed"
    /\ \/ Up /\ Go("watch") /\ Fine
       \/ ~Up /\ CalledOffHere("none")
       \/ Upset("blind") /\ End
    /\ UNCHANGED <<file, database, server, token, told, deeds, staleTo>>

\* world_running: a world between two runs counts as up.
ReadUp == IF Up THEN "up" ELSE "down"

\* _after_a_failed_stop, its first two questions.
StopFailed ==
    /\ pc = "stopFailed"
    /\ \/ Fine /\ seenUp' = ReadUp /\ seenRun' = run
       \/ Upset("blind") /\ seenUp' = "unknown" /\ seenRun' \in {0, run}
       \/ Upset("blind") /\ seenUp' = ReadUp /\ seenRun' = 0
    /\ pc' = IF seenUp' = "up" /\ seenRun' \notin {0, before} THEN "watch" ELSE "stopRead"
    /\ UNCHANGED <<file, database, server, token, before, booting, spent, taken, told,
                   deeds, staleTo>>

\* _planned, over this run's log, and over all the logs there are.
Planned ==
    CASE log.token = token                            -> "ours"
      [] log.plan = "scheduled" /\ log.token # token  -> "earlier"
      [] log.plan = "none"                            -> "nothing"
      [] OTHER                                        -> "other"

PlannedInAll == IF token \in named THEN "ours" ELSE "unscoped"

\* Mutant: a run that has planned nothing yet is taken for one that planned without the request.
CalledOffUnread(seen) == seen \in {"other", "nothing"} /\ seenRun # 0 /\ seenRun = before

\* The run that is up, or was up last, planned without the request, and will not read it again.
CalledOff(seen) == seen = "other" /\ seenRun # 0 /\ seenRun = before

StopRead ==
    /\ pc = "stopRead"
    /\ \E seen \in {Planned, PlannedInAll, "unread"} :
         /\ IF seen = Planned THEN Fine ELSE Upset("blind")
         /\ LET same == seenRun # 0 /\ seenRun = before IN
            \/ /\ seen = "ours" /\ seenUp = "up" /\ same
               /\ Go("watch")
            \/ /\ CalledOff(seen)
               /\ Go("takeBack")
            \/ /\ seen = "nothing" /\ seenUp = "up" /\ same /\ ~CalledOff(seen)
               /\ pc' = "watch" /\ booting' = TRUE
               /\ UNCHANGED <<before, seenUp, seenRun, spent, taken>>
            \/ /\ ~CalledOff(seen) /\ ~(seen \in {"ours", "nothing"} /\ seenUp = "up" /\ same)
               /\ End
    /\ UNCHANGED <<file, database, server, token, told, deeds, staleTo>>

\* Mutant: a reset that stopped part-way is taken back like one that was refused.
FinalTakesBack ==
    CASE log.plan = "already" /\ log.token = token                -> "applied"
      [] log.plan = "scheduled" /\ log.end = "applied"            ->
             IF log.token = token THEN "applied" ELSE "nothing"
      [] \/ log.plan \in {"off", "refused"} \/ log.end \in {"aborted", "failed"}
         \/ log.plan = "already" /\ log.token # token             -> "refused"
      [] OTHER                                                    -> "nothing"

\* read_log: the first line that ends the reset.  A line that names another token is skipped.
Final ==
    CASE log.plan = "already" /\ log.token = token                -> "applied"
      [] log.plan = "scheduled" /\ log.end = "applied"            ->
             IF log.token = token THEN "applied" ELSE "nothing"
      [] log.plan = "scheduled" /\ log.end = "failed"             -> "part-way"
      [] \/ log.plan \in {"off", "refused"} \/ log.end = "aborted"
         \/ log.plan = "already" /\ log.token # token             -> "refused"
      [] OTHER                                                    -> "nothing"

\* Mutant: in a log of all runs, the line of another token is read as this one's.
FinalInAllOfAny == IF done # {} THEN "applied" ELSE "nothing"

\* A log of all runs: only the lines that name the token are read.
FinalInAll ==
    IF token \in done THEN "applied"
    ELSE IF log.plan = "refused" /\ log.token = token THEN "refused" ELSE "nothing"

TakeBackAs(applied) ==
    /\ pc' = "takeBack" /\ spent' = applied
    /\ UNCHANGED <<before, seenUp, seenRun, booting, taken>>

\* One look of _watch at the log: a booting run first shows whether it read the request.
Watch ==
    /\ pc = "watch"
    /\ \/ /\ Fine
          /\ \/ booting /\ Planned = "earlier" /\ End
             \/ booting /\ Planned = "other" /\ TakeBackAs(FALSE)
             \/ /\ booting /\ Planned = "ours" /\ Final = "nothing"
                /\ booting' = FALSE
                /\ UNCHANGED <<pc, before, seenUp, seenRun, spent, taken>>
             \/ /\ ~booting \/ Planned = "ours"
                /\ \/ Final = "applied" /\ TakeBackAs(TRUE)
                   \/ Final = "refused" /\ TakeBackAs(FALSE)
                   \/ Final = "part-way" /\ End
       \/ /\ Upset("blind") /\ FinalInAll # "nothing"
          /\ TakeBackAs(FinalInAll = "applied")
    /\ UNCHANGED <<file, database, server, token, told, deeds, staleTo>>

\* The player stops the watch, or its time is over: the request stays.
WatchEnds ==
    /\ pc = "watch"
    /\ End
    /\ UNCHANGED <<file, database, server, token, told, deeds, staleTo, happened>>

TakeBack ==
    /\ pc = "takeBack"
    /\ \/ Fine /\ conf' = Off
       \/ Upset("deny") /\ UNCHANGED conf
    /\ saidDone' = IF spent THEN saidDone \cup {token} ELSE saidDone
    /\ calledOff' = IF ~spent /\ conf' = Off THEN calledOff \cup {token} ELSE calledOff
    /\ End
    /\ UNCHANGED <<copies, database, server, token, deeds, staleTo>>

Die ==
    /\ pc \notin {"idle", "load"} /\ Upset("die")
    /\ End
    /\ UNCHANGED <<file, database, server, token, told, deeds, staleTo>>

-----------------------------------------------------------------------------
(* A restore (_restore_with_the_bot_request): it replaces the pool and its record, and so   *)
(* takes a request back first.                                                              *)

BeforeRestore == taken' = conf /\ conf' = Off

Restore ==
    /\ pc = "idle" /\ world = "down"
    /\ BeforeRestore
    /\ IF dump.half THEN Upset("halfDump") ELSE Fine
    /\ pc' = "load"
    /\ UNCHANGED <<copies, database, server, token, before, seenUp, seenRun, booting, spent, told,
                   deeds, staleTo>>

\* Whether the load began is read off its marker: it is not there, it is, or cannot be read.
\* Mutant: what cannot be told counts as nothing loaded.
NothingLoadedUnlessNew(marker) == marker # "new"

NothingLoaded(marker) == marker = "none"

Loaded == pool' = dump /\ staleTo' = token

LoadedOrNot == pool' \in {pool, dump} /\ staleTo' = token

\* after_a_failed_restore: the request comes back, if it can be written, when nothing was loaded.
RestoreFails ==
    \E marker \in {"none", "new", "unread"} :
        /\ IF marker = "none" THEN UNCHANGED <<pool, staleTo>> ELSE LoadedOrNot
        /\ IF NothingLoaded(marker) THEN conf' \in {taken, conf} ELSE UNCHANGED conf

Load ==
    /\ pc = "load"
    /\ \/ Fine /\ Loaded /\ UNCHANGED conf
       \/ Upset("restoreFails") /\ RestoreFails
    /\ End
    /\ UNCHANGED <<copies, dump, server, token, told, deeds>>

DieLoading ==
    /\ pc = "load" /\ Upset("dieLoading")
    /\ LoadedOrNot \/ UNCHANGED <<pool, staleTo>>
    /\ End
    /\ UNCHANGED <<file, dump, server, token, told, deeds>>

-----------------------------------------------------------------------------
WorldStep ==
    \/ \E to \in {"down", "restarting"} : Crash(to)
    \/ Revive \/ PlanNothing \/ PlanReset \/ PlanRefused \/ Delete \/ Applied \/ Fails

PlayerStep == Start \/ Stop \/ BackUp \/ SaveConf \/ SetOff \/ Revert

PressStep ==
    \/ Press \/ Enrol \/ WriteKey \/ CancelOrRestart \/ StopTheWorld \/ StartTheWorld
    \/ StartFailed \/ StopFailed \/ StopRead \/ Watch \/ WatchEnds \/ TakeBack \/ Die

Next == WorldStep \/ PlayerStep \/ PressStep \/ Restore \/ Load \/ DieLoading

Spec == Init /\ [][Next]_vars

-----------------------------------------------------------------------------
\* A press that says that its request is back to off, "and nothing will happen at a later
\* restart", is right about the past as well: no bot was deleted for it, and none will be.
CalledOffNeverRuns ==
    happened \cap {"boot", "balk", "revert"} = {} => calledOff \cap begun = {}

\* Half a pool is only made whole at a start that finds the request: it stays until then.
HalfPoolKeepsItsRequest ==
    /\ pool.half /\ pc # "load"
    /\ happened \cap {"again", "boot", "balk", "revert", "halfDump", "restoreFails", "dieLoading"} = {}
    => conf # Off /\ conf # pool.record

\* What a restore brought back is not deleted for a request that is older than the restore,
\* for the database it loaded may not know that the request was carried out.
RestoredBotsStay == doing # Off => doing > staleTo

\* No request is carried out twice, wherever its token turns up again: in the file, in a copy
\* of it, or in a database that has forgotten it.
NoTokenRunsTwice == doing \notin done

\* "Done: every old random bot is gone" is said of this press's own reset, never of another's.
SaidDoneIsDone == saidDone \subseteq done

\* The docstring of the module: where a reset stopped part-way, "the request stays".
HalfPoolAlwaysKeepsItsRequest == pool.half /\ pc = "idle" => conf # Off
=============================================================================
