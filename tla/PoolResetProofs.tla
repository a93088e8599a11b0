---------------------------- MODULE PoolResetProofs ---------------------------
(* Theorems about PoolReset, for any number of presses, starts and upsets: no request runs   *)
(* twice or over the bots of a newer restore, "done" is said of the press's own reset, what   *)
(* was called off does not happen, and half a pool keeps its request.                         *)
EXTENDS PoolReset, TLAPS

\* A request that is in the file, or was taken out of it by a restore, is newer than the last
\* restore and than every reset that was completed, unless the database knows it as its last.
Newest(t) ==
    t # Off => /\ t > staleTo
               /\ \A d \in done : d <= t
               /\ t \in done => pool.record = t

\* Tokens grow, and the world only ever works on one that is newest.
TokenInv ==
    /\ conf <= token /\ taken <= token /\ doing <= token /\ staleTo <= token
    /\ \A d \in done : d <= token
    /\ Newest(conf)
    /\ pc = "load" => conf = Off /\ world = "down" /\ Newest(taken)
    /\ doing # Off => /\ world = "planned" /\ doing > staleTo
                      /\ \A d \in done : d < doing
                      /\ conf # Off => doing <= conf

\* A database, a log and a press say "applied" only of a reset that was completed.
TruthInv ==
    /\ pool.record \in done \cup {Off} /\ dump.record \in done \cup {Off}
    /\ log.plan = "already" \/ log.end = "applied" => log.token \in done
    /\ doing # Off => log.token = doing
    /\ spent => pc = "takeBack" /\ token \in done
    /\ saidDone \subseteq done

-----------------------------------------------------------------------------
(* What each part of the state may be, and how the steps that many actions share keep it. *)

FileOK     == conf \in 0 .. MaxTokens /\ copies \subseteq 0 .. MaxTokens
DatabaseOK == pool \in Pools /\ dump \in Pools
ServerOK   == /\ world \in Worlds /\ run \in 0 .. MaxRuns /\ doing \in 0 .. MaxTokens
              /\ log \in Logs /\ named \subseteq Tokens
\* Between the press and the write there is a token left; after the write there is one.
PressOK    == /\ pc \in Steps /\ token \in 0 .. MaxTokens
              /\ pc \in {"enrol", "write"} => token < MaxTokens
              /\ pc \notin {"idle", "enrol", "write", "load"} => token # Off
ReadingsOK == /\ before \in 0 .. MaxRuns /\ seenUp \in {"up", "down", "unknown"}
              /\ seenRun \in 0 .. MaxRuns /\ booting \in BOOLEAN /\ spent \in BOOLEAN
              /\ taken \in 0 .. MaxTokens
HistoryOK  == /\ calledOff \subseteq Tokens /\ saidDone \subseteq Tokens
              /\ begun \subseteq Tokens /\ done \subseteq Tokens
              /\ staleTo \in 0 .. MaxTokens

Typed == /\ FileOK /\ DatabaseOK /\ ServerOK /\ PressOK /\ ReadingsOK /\ HistoryOK
         /\ happened \subseteq Upsets

\* The parts are all of the type invariant.
LEMMA TypedIsTypeOK == Typed => TypeOK
BY DEF Typed, TypeOK, FileOK, DatabaseOK, ServerOK, PressOK, ReadingsOK, HistoryOK

Inv == Typed /\ TokenInv /\ TruthInv

\* An upset that happens is one of those that may.
LEMMA HappenedStays ==
    ASSUME happened \subseteq Upsets, NEW c, Upset(c) \/ Fine
    PROVE  happened' \subseteq Upsets
BY DEF Upset, Fine

\* An end of the press forgets what was read, and most steps read nothing.
LEMMA ReadingsStay ==
    ASSUME ReadingsOK, Fresh \/ UNCHANGED readings
    PROVE  ReadingsOK'
<1>1. /\ before' \in 0 .. MaxRuns /\ seenUp' \in {"up", "down", "unknown"}
      /\ seenRun' \in 0 .. MaxRuns /\ taken' \in 0 .. MaxTokens
    BY PoolResetAssumption DEF ReadingsOK, Fresh, readings, Off
<1>2. booting' \in BOOLEAN /\ spent' \in BOOLEAN
    BY DEF ReadingsOK, Fresh, readings
<1> QED
    BY <1>1, <1>2 DEF ReadingsOK

\* A start, a stop and a crash of the world.
LEMMA ServerStays ==
    ASSUME ServerOK, NewRun \/ Ends("down") \/ Ends("restarting") \/ UNCHANGED server
    PROVE  ServerOK'
<1>1. CASE NewRun
    BY <1>1, PoolResetAssumption
       DEF ServerOK, NewRun, Worlds, Logs, NoLog, Off
<1>2. CASE Ends("down") \/ Ends("restarting")
    BY <1>2, PoolResetAssumption DEF ServerOK, Ends, Worlds, Off
<1>3. CASE UNCHANGED server
    BY <1>3 DEF ServerOK, server
<1> QED
    BY <1>1, <1>2, <1>3

\* What a world plans is logged under the token of the file, or under none.
LEMMA PlansTypes ==
    ASSUME ServerOK, FileOK, NEW t \in {Off, conf}, NEW r \in {Off, conf},
           NEW what \in {"off", "already", "refused", "scheduled"}, Plans(what, t, r)
    PROVE  log' \in Logs /\ named' \subseteq Tokens /\ doing' \in 0 .. MaxTokens
BY PoolResetAssumption DEF ServerOK, FileOK, Plans, Logs, Tokens, Off

\* The end of a reset is logged.
LEMMA LoggedTypes ==
    ASSUME ServerOK, NEW end \in {"applied", "failed", "aborted"}, Logged(end)
    PROVE  log' \in Logs /\ doing' \in 0 .. MaxTokens
BY PoolResetAssumption DEF ServerOK, Logged, Logs, Off

\* Nothing was asked for yet.
LEMMA InitInv == Init => Inv
<1> SUFFICES ASSUME Init PROVE Inv
    OBVIOUS
<1> USE PoolResetAssumption DEF Init, Off
<1>1. Typed
    <2>1. FileOK
        BY DEF FileOK
    <2>2. DatabaseOK
        BY DEF DatabaseOK, Pools, Whole
    <2>3. ServerOK
        BY DEF ServerOK, Worlds, Logs, NoLog, Tokens
    <2>4. PressOK
        BY DEF PressOK, Steps
    <2>5. ReadingsOK
        <3>1. booting \in BOOLEAN /\ spent \in BOOLEAN
            OBVIOUS
        <3> QED
            BY <3>1 DEF ReadingsOK
    <2>6. HistoryOK
        BY DEF HistoryOK, Tokens
    <2> QED
        BY <2>1, <2>2, <2>3, <2>4, <2>5, <2>6 DEF Typed
<1>2. TokenInv
    BY DEF TokenInv, Newest
<1>3. TruthInv
    BY DEF TruthInv, Whole, NoLog
<1> QED
    BY <1>1, <1>2, <1>3 DEF Inv

-----------------------------------------------------------------------------
\* Every step keeps the types.
LEMMA NextTypes == Typed /\ [Next]_vars => Typed'
<1> SUFFICES ASSUME Typed, [Next]_vars PROVE Typed'
    OBVIOUS
<1>0. /\ FileOK /\ DatabaseOK /\ ServerOK /\ PressOK /\ ReadingsOK /\ HistoryOK
      /\ happened \subseteq Upsets
    BY DEF Typed
<1> USE PoolResetAssumption
<1>1. CASE \E to \in {"down", "restarting"} : Crash(to)
    <2>1. PressOK'
        BY <1>0, <1>1 DEF Crash, Ends, PressOK, Steps, Off
    <2>2. FileOK'
        BY <1>0, <1>1 DEF Crash, Ends, FileOK, PressOK, ReadingsOK, file, Off
    <2>3. DatabaseOK'
        BY <1>0, <1>1 DEF Crash, Ends, DatabaseOK, database, Pools
    <2>4. ServerOK'
        BY <1>0, <1>1, ServerStays DEF Crash
    <2>5. ReadingsOK'
        BY <1>0, <1>1, ReadingsStay DEF Crash, Ends
    <2>6. HistoryOK'
        BY <1>0, <1>1 DEF Crash, Ends, HistoryOK, told, deeds, Tokens, PressOK, ServerOK
    <2>7. happened' \subseteq Upsets
        BY <1>0, <1>1, HappenedStays DEF Crash, Ends
    <2> QED
        BY <2>1, <2>2, <2>3, <2>4, <2>5, <2>6, <2>7 DEF Typed
<1>2. CASE Revive
    <2>1. PressOK'
        BY <1>0, <1>2 DEF Revive, NewRun, PressOK, Steps, Off
    <2>2. FileOK'
        BY <1>0, <1>2 DEF Revive, NewRun, FileOK, PressOK, ReadingsOK, file, Off
    <2>3. DatabaseOK'
        BY <1>0, <1>2 DEF Revive, NewRun, DatabaseOK, database, Pools
    <2>4. ServerOK'
        BY <1>0, <1>2, ServerStays DEF Revive
    <2>5. ReadingsOK'
        BY <1>0, <1>2, ReadingsStay DEF Revive, NewRun
    <2>6. HistoryOK'
        BY <1>0, <1>2 DEF Revive, NewRun, HistoryOK, told, deeds, Tokens, PressOK, ServerOK
    <2>7. happened' \subseteq Upsets
        BY <1>0, <1>2, HappenedStays DEF Revive, NewRun
    <2> QED
        BY <2>1, <2>2, <2>3, <2>4, <2>5, <2>6, <2>7 DEF Typed
<1>3. CASE PlanNothing
    <2>1. PressOK'
        BY <1>0, <1>3 DEF PlanNothing, Plans, Fine, PressOK, Steps, Off
    <2>2. FileOK'
        BY <1>0, <1>3 DEF PlanNothing, Plans, Fine, FileOK, PressOK, ReadingsOK, file, Off
    <2>3. DatabaseOK'
        BY <1>0, <1>3 DEF PlanNothing, Plans, Fine, DatabaseOK, database, Pools
    <2>4. ServerOK'
        <3>1. PICK what \in {"off", "already"}, t \in {Off, conf} : Plans(what, t, Off)
            BY <1>3 DEF PlanNothing
        <3>2. log' \in Logs /\ named' \subseteq Tokens /\ doing' \in 0 .. MaxTokens
            BY <1>0, <3>1, PlansTypes
        <3> QED
            BY <1>0, <1>3, <3>2 DEF PlanNothing, ServerOK, Worlds
    <2>5. ReadingsOK'
        BY <1>0, <1>3, ReadingsStay DEF PlanNothing, Plans, Fine
    <2>6. HistoryOK'
        BY <1>0, <1>3
           DEF PlanNothing, Plans, Fine, HistoryOK, told, deeds, Tokens, PressOK, ServerOK
    <2>7. happened' \subseteq Upsets
        BY <1>0, <1>3, HappenedStays DEF PlanNothing, Plans, Fine
    <2> QED
        BY <2>1, <2>2, <2>3, <2>4, <2>5, <2>6, <2>7 DEF Typed
<1>4. CASE PlanReset
    <2>1. PressOK'
        BY <1>0, <1>4 DEF PlanReset, Asked, Plans, PressOK, Steps, Off
    <2>2. FileOK'
        BY <1>0, <1>4 DEF PlanReset, Asked, Plans, FileOK, PressOK, ReadingsOK, file, Off
    <2>3. DatabaseOK'
        BY <1>0, <1>4 DEF PlanReset, Asked, Plans, DatabaseOK, database, Pools
    <2>4. ServerOK'
        <3>1. log' \in Logs /\ named' \subseteq Tokens /\ doing' \in 0 .. MaxTokens
            BY <1>0, <1>4, PlansTypes DEF PlanReset
        <3> QED
            BY <1>0, <1>4, <3>1 DEF PlanReset, ServerOK, Worlds
    <2>5. ReadingsOK'
        BY <1>0, <1>4, ReadingsStay DEF PlanReset, Asked, Plans
    <2>6. HistoryOK'
        BY <1>0, <1>4
           DEF PlanReset, Asked, Plans, HistoryOK, told, deeds, Tokens, PressOK, ServerOK
    <2>7. happened' \subseteq Upsets
        BY <1>0, <1>4, HappenedStays DEF PlanReset, Asked, Plans
    <2> QED
        BY <2>1, <2>2, <2>3, <2>4, <2>5, <2>6, <2>7 DEF Typed
<1>5. CASE PlanRefused
    <2>1. PressOK'
        BY <1>0, <1>5 DEF PlanRefused, Asked, Plans, Fine, Balks, PressOK, Steps, Off
    <2>2. FileOK'
        BY <1>0, <1>5
           DEF PlanRefused, Asked, Plans, Fine, Balks, FileOK, PressOK, ReadingsOK, file, Off
    <2>3. DatabaseOK'
        BY <1>0, <1>5 DEF PlanRefused, Asked, Plans, Fine, Balks, DatabaseOK, database, Pools
    <2>4. ServerOK'
        <3>1. log' \in Logs /\ named' \subseteq Tokens /\ doing' \in 0 .. MaxTokens
            BY <1>0, <1>5, PlansTypes DEF PlanRefused
        <3> QED
            BY <1>0, <1>5, <3>1 DEF PlanRefused, ServerOK, Worlds
    <2>5. ReadingsOK'
        BY <1>0, <1>5, ReadingsStay DEF PlanRefused, Asked, Plans, Fine, Balks
    <2>6. HistoryOK'
        BY <1>0, <1>5
           DEF PlanRefused, Asked, Plans, Fine, Balks, HistoryOK, told, deeds, Tokens, PressOK,
               ServerOK
    <2>7. happened' \subseteq Upsets
        BY <1>0, <1>5, HappenedStays DEF PlanRefused, Asked, Plans, Fine, Balks
    <2> QED
        BY <2>1, <2>2, <2>3, <2>4, <2>5, <2>6, <2>7 DEF Typed
<1>6. CASE Delete
    <2>1. PressOK'
        BY <1>0, <1>6 DEF Delete, Resetting, PressOK, Steps, Off
    <2>2. FileOK'
        BY <1>0, <1>6 DEF Delete, Resetting, FileOK, PressOK, ReadingsOK, file, Off
    <2>3. DatabaseOK'
        BY <1>0, <1>6 DEF Delete, Resetting, DatabaseOK, database, Pools
    <2>4. ServerOK'
        BY <1>0, <1>6, ServerStays DEF Delete, Resetting
    <2>5. ReadingsOK'
        BY <1>0, <1>6, ReadingsStay DEF Delete, Resetting
    <2>6. HistoryOK'
        BY <1>0, <1>6
           DEF Delete, Resetting, HistoryOK, told, deeds, Tokens, Off, PressOK, ServerOK
    <2>7. happened' \subseteq Upsets
        BY <1>0, <1>6, HappenedStays DEF Delete, Resetting
    <2> QED
        BY <2>1, <2>2, <2>3, <2>4, <2>5, <2>6, <2>7 DEF Typed
<1>7. CASE Applied
    <2>1. PressOK'
        BY <1>0, <1>7 DEF Applied, Resetting, Logged, Whole, PressOK, Steps, Off
    <2>2. FileOK'
        BY <1>0, <1>7
           DEF Applied, Resetting, Logged, Whole, FileOK, PressOK, ReadingsOK, file, Off
    <2>3. DatabaseOK'
        BY <1>0, <1>7
           DEF Applied, Resetting, Logged, Whole, DatabaseOK, database, Pools, Whole, ServerOK,
               deeds
    <2>4. ServerOK'
        <3>1. log' \in Logs /\ doing' \in 0 .. MaxTokens
            BY <1>0, <1>7, LoggedTypes DEF Applied
        <3> QED
            BY <1>0, <1>7, <3>1 DEF Applied, ServerOK
    <2>5. ReadingsOK'
        BY <1>0, <1>7, ReadingsStay DEF Applied, Resetting, Logged, Whole
    <2>6. HistoryOK'
        BY <1>0, <1>7
           DEF Applied, Resetting, Logged, Whole, HistoryOK, told, deeds, Tokens, PressOK,
               ServerOK
    <2>7. happened' \subseteq Upsets
        BY <1>0, <1>7, HappenedStays DEF Applied, Resetting, Logged, Whole
    <2> QED
        BY <2>1, <2>2, <2>3, <2>4, <2>5, <2>6, <2>7 DEF Typed
<1>8. CASE Fails
    <2>1. PressOK'
        BY <1>0, <1>8 DEF Fails, Resetting, Logged, Fine, Balks, PressOK, Steps, Off
    <2>2. FileOK'
        BY <1>0, <1>8
           DEF Fails, Resetting, Logged, Fine, Balks, FileOK, PressOK, ReadingsOK, file, Off
    <2>3. DatabaseOK'
        BY <1>0, <1>8 DEF Fails, Resetting, Logged, Fine, Balks, DatabaseOK, database, Pools
    <2>4. ServerOK'
        <3>1. log' \in Logs /\ doing' \in 0 .. MaxTokens
            BY <1>0, <1>8, LoggedTypes DEF Fails
        <3> QED
            BY <1>0, <1>8, <3>1 DEF Fails, ServerOK
    <2>5. ReadingsOK'
        BY <1>0, <1>8, ReadingsStay DEF Fails, Resetting, Logged, Fine, Balks
    <2>6. HistoryOK'
        BY <1>0, <1>8
           DEF Fails, Resetting, Logged, Fine, Balks, HistoryOK, told, deeds, Tokens, PressOK,
               ServerOK
    <2>7. happened' \subseteq Upsets
        BY <1>0, <1>8, HappenedStays DEF Fails, Resetting, Logged, Fine, Balks
    <2> QED
        BY <2>1, <2>2, <2>3, <2>4, <2>5, <2>6, <2>7 DEF Typed
<1>9. CASE Start
    <2>1. PressOK'
        BY <1>0, <1>9 DEF Start, NewRun, PressOK, Steps, Off
    <2>2. FileOK'
        BY <1>0, <1>9 DEF Start, NewRun, FileOK, PressOK, ReadingsOK, file, Off
    <2>3. DatabaseOK'
        BY <1>0, <1>9 DEF Start, NewRun, DatabaseOK, database, Pools
    <2>4. ServerOK'
        BY <1>0, <1>9, ServerStays DEF Start
    <2>5. ReadingsOK'
        BY <1>0, <1>9, ReadingsStay DEF Start, NewRun
    <2>6. HistoryOK'
        BY <1>0, <1>9 DEF Start, NewRun, HistoryOK, told, deeds, Tokens, PressOK, ServerOK
    <2>7. happened' \subseteq Upsets
        BY <1>0, <1>9, HappenedStays DEF Start, NewRun
    <2> QED
        BY <2>1, <2>2, <2>3, <2>4, <2>5, <2>6, <2>7 DEF Typed
<1>10. CASE Stop
    <2>1. PressOK'
        BY <1>0, <1>10 DEF Stop, Ends, PressOK, Steps, Off
    <2>2. FileOK'
        BY <1>0, <1>10 DEF Stop, Ends, FileOK, PressOK, ReadingsOK, file, Off
    <2>3. DatabaseOK'
        BY <1>0, <1>10 DEF Stop, Ends, DatabaseOK, database, Pools
    <2>4. ServerOK'
        BY <1>0, <1>10, ServerStays DEF Stop
    <2>5. ReadingsOK'
        BY <1>0, <1>10, ReadingsStay DEF Stop, Ends
    <2>6. HistoryOK'
        BY <1>0, <1>10 DEF Stop, Ends, HistoryOK, told, deeds, Tokens, PressOK, ServerOK
    <2>7. happened' \subseteq Upsets
        BY <1>0, <1>10, HappenedStays DEF Stop, Ends
    <2> QED
        BY <2>1, <2>2, <2>3, <2>4, <2>5, <2>6, <2>7 DEF Typed
<1>11. CASE BackUp
    <2>1. PressOK'
        BY <1>0, <1>11 DEF BackUp, Dumped, PressOK, Steps, Off
    <2>2. FileOK'
        BY <1>0, <1>11 DEF BackUp, Dumped, FileOK, PressOK, ReadingsOK, file, Off
    <2>3. DatabaseOK'
        BY <1>0, <1>11 DEF BackUp, Dumped, DatabaseOK, database, Pools
    <2>4. ServerOK'
        BY <1>0, <1>11, ServerStays DEF BackUp, Dumped
    <2>5. ReadingsOK'
        BY <1>0, <1>11, ReadingsStay DEF BackUp, Dumped
    <2>6. HistoryOK'
        BY <1>0, <1>11 DEF BackUp, Dumped, HistoryOK, told, deeds, Tokens, PressOK, ServerOK
    <2>7. happened' \subseteq Upsets
        BY <1>0, <1>11, HappenedStays DEF BackUp, Dumped
    <2> QED
        BY <2>1, <2>2, <2>3, <2>4, <2>5, <2>6, <2>7 DEF Typed
<1>12. CASE SaveConf
    <2>1. PressOK'
        BY <1>0, <1>12 DEF SaveConf, PressOK, Steps, Off
    <2>2. FileOK'
        BY <1>0, <1>12 DEF SaveConf, FileOK, PressOK, ReadingsOK, file, Off
    <2>3. DatabaseOK'
        BY <1>0, <1>12 DEF SaveConf, DatabaseOK, database, Pools
    <2>4. ServerOK'
        BY <1>0, <1>12, ServerStays DEF SaveConf
    <2>5. ReadingsOK'
        BY <1>0, <1>12, ReadingsStay DEF SaveConf
    <2>6. HistoryOK'
        BY <1>0, <1>12 DEF SaveConf, HistoryOK, told, deeds, Tokens, PressOK, ServerOK
    <2>7. happened' \subseteq Upsets
        BY <1>0, <1>12, HappenedStays DEF SaveConf
    <2> QED
        BY <2>1, <2>2, <2>3, <2>4, <2>5, <2>6, <2>7 DEF Typed
<1>13. CASE SetOff
    <2>1. PressOK'
        BY <1>0, <1>13 DEF SetOff, PressOK, Steps, Off
    <2>2. FileOK'
        BY <1>0, <1>13 DEF SetOff, FileOK, PressOK, ReadingsOK, file, Off
    <2>3. DatabaseOK'
        BY <1>0, <1>13 DEF SetOff, DatabaseOK, database, Pools
    <2>4. ServerOK'
        BY <1>0, <1>13, ServerStays DEF SetOff
    <2>5. ReadingsOK'
        BY <1>0, <1>13, ReadingsStay DEF SetOff
    <2>6. HistoryOK'
        BY <1>0, <1>13 DEF SetOff, HistoryOK, told, deeds, Tokens, PressOK, ServerOK
    <2>7. happened' \subseteq Upsets
        BY <1>0, <1>13, HappenedStays DEF SetOff
    <2> QED
        BY <2>1, <2>2, <2>3, <2>4, <2>5, <2>6, <2>7 DEF Typed
<1>14. CASE Revert
    <2>1. PressOK'
        BY <1>0, <1>14 DEF Revert, PutBackFile, Fine, PressOK, Steps, Off
    <2>2. FileOK'
        BY <1>0, <1>14 DEF Revert, PutBackFile, Fine, FileOK, PressOK, ReadingsOK, file, Off
    <2>3. DatabaseOK'
        BY <1>0, <1>14 DEF Revert, PutBackFile, Fine, DatabaseOK, database, Pools
    <2>4. ServerOK'
        BY <1>0, <1>14, ServerStays DEF Revert, PutBackFile, Fine
    <2>5. ReadingsOK'
        BY <1>0, <1>14, ReadingsStay DEF Revert, PutBackFile, Fine
    <2>6. HistoryOK'
        BY <1>0, <1>14
           DEF Revert, PutBackFile, Fine, HistoryOK, told, deeds, Tokens, PressOK, ServerOK
    <2>7. happened' \subseteq Upsets
        BY <1>0, <1>14, HappenedStays DEF Revert, PutBackFile, Fine
    <2> QED
        BY <2>1, <2>2, <2>3, <2>4, <2>5, <2>6, <2>7 DEF Typed
<1>15. CASE Press
    <2>1. PressOK'
        BY <1>0, <1>15 DEF Press, Go, Fine, PressOK, Steps, Off
    <2>2. FileOK'
        BY <1>0, <1>15 DEF Press, Go, Fine, FileOK, PressOK, ReadingsOK, file, Off
    <2>3. DatabaseOK'
        BY <1>0, <1>15 DEF Press, Go, Fine, DatabaseOK, database, Pools
    <2>4. ServerOK'
        BY <1>0, <1>15, ServerStays DEF Press, Go, Fine
    <2>5. ReadingsOK'
        BY <1>0, <1>15, ReadingsStay DEF Press, Go, Fine
    <2>6. HistoryOK'
        BY <1>0, <1>15 DEF Press, Go, Fine, HistoryOK, told, deeds, Tokens, PressOK, ServerOK
    <2>7. happened' \subseteq Upsets
        BY <1>0, <1>15, HappenedStays DEF Press, Go, Fine
    <2> QED
        BY <2>1, <2>2, <2>3, <2>4, <2>5, <2>6, <2>7 DEF Typed
<1>16. CASE Enrol
    <2>1. PressOK'
        BY <1>0, <1>16 DEF Enrol, Dumped, Go, End, Fresh, PressOK, Steps, Off
    <2>2. FileOK'
        BY <1>0, <1>16 DEF Enrol, Dumped, Go, End, Fresh, FileOK, PressOK, ReadingsOK, file, Off
    <2>3. DatabaseOK'
        BY <1>0, <1>16 DEF Enrol, Dumped, Go, End, Fresh, DatabaseOK, database, Pools
    <2>4. ServerOK'
        BY <1>0, <1>16, ServerStays DEF Enrol, Dumped, Go, End, Fresh
    <2>5. ReadingsOK'
        BY <1>0, <1>16, ReadingsStay DEF Enrol, Dumped, Go, End
    <2>6. HistoryOK'
        BY <1>0, <1>16
           DEF Enrol, Dumped, Go, End, Fresh, HistoryOK, told, deeds, Tokens, PressOK, ServerOK
    <2>7. happened' \subseteq Upsets
        BY <1>0, <1>16, HappenedStays DEF Enrol, Dumped, Go, End, Fresh
    <2> QED
        BY <2>1, <2>2, <2>3, <2>4, <2>5, <2>6, <2>7 DEF Typed
<1>17. CASE WriteKey
    <2>1. PressOK'
        <3>1. pc' \in {"written", "idle"} /\ token' = token + 1
            BY <1>17 DEF WriteKey
        <3>2. token < MaxTokens
            BY <1>0, <1>17 DEF WriteKey, PressOK
        <3> QED
            BY <1>0, <3>1, <3>2 DEF PressOK, Steps, Off
    <2>2. FileOK'
        <3>1. conf' \in {conf, token'} /\ copies' \in {copies, copies \cup {conf}}
            BY <1>17 DEF WriteKey, file
        <3> QED
            BY <1>0, <2>1, <3>1 DEF FileOK, PressOK
    <2>3. DatabaseOK'
        BY <1>0, <1>17 DEF WriteKey, Fine, DatabaseOK, database, Pools
    <2>4. ServerOK'
        BY <1>0, <1>17, ServerStays DEF WriteKey, Fine
    <2>5. ReadingsOK'
        <3>1. before' \in {run, 0, before}
            BY <1>17 DEF WriteKey
        <3>2. UNCHANGED <<seenUp, seenRun, booting, spent, taken>>
            BY <1>17 DEF WriteKey
        <3> QED
            BY <1>0, <3>1, <3>2 DEF ReadingsOK, ServerOK
    <2>6. HistoryOK'
        BY <1>0, <1>17 DEF WriteKey, Fine, HistoryOK, told, deeds, Tokens, PressOK, ServerOK
    <2>7. happened' \subseteq Upsets
        BY <1>0, <1>17, HappenedStays DEF WriteKey, Fine
    <2> QED
        BY <2>1, <2>2, <2>3, <2>4, <2>5, <2>6, <2>7 DEF Typed
<1>18. CASE CancelOrRestart
    <2>1. PressOK'
        BY <1>0, <1>18 DEF CancelOrRestart, CalledOffHere, Go, Fine, PressOK, Steps, Off
    <2>2. FileOK'
        BY <1>0, <1>18
           DEF CancelOrRestart, CalledOffHere, Go, Fine, FileOK, PressOK, ReadingsOK, file, Off
    <2>3. DatabaseOK'
        BY <1>0, <1>18 DEF CancelOrRestart, CalledOffHere, Go, Fine, DatabaseOK, database, Pools
    <2>4. ServerOK'
        BY <1>0, <1>18, ServerStays DEF CancelOrRestart, CalledOffHere, Go, Fine
    <2>5. ReadingsOK'
        BY <1>0, <1>18, ReadingsStay DEF CancelOrRestart, CalledOffHere, Go, Fine
    <2>6. HistoryOK'
        BY <1>0, <1>18
           DEF CancelOrRestart, CalledOffHere, Go, Fine, HistoryOK, told, deeds, Tokens, PressOK,
               ServerOK
    <2>7. happened' \subseteq Upsets
        BY <1>0, <1>18, HappenedStays DEF CancelOrRestart, CalledOffHere, Go, Fine
    <2> QED
        BY <2>1, <2>2, <2>3, <2>4, <2>5, <2>6, <2>7 DEF Typed
<1>19. CASE StopTheWorld
    <2>1. PressOK'
        BY <1>0, <1>19 DEF StopTheWorld, CalledOffHere, Go, Fine, Ends, PressOK, Steps, Off
    <2>2. FileOK'
        BY <1>0, <1>19
           DEF StopTheWorld, CalledOffHere, Go, Fine, Ends, FileOK, PressOK, ReadingsOK, file, Off
    <2>3. DatabaseOK'
        BY <1>0, <1>19
           DEF StopTheWorld, CalledOffHere, Go, Fine, Ends, DatabaseOK, database, Pools
    <2>4. ServerOK'
        BY <1>0, <1>19, ServerStays DEF StopTheWorld, CalledOffHere, Go, Fine
    <2>5. ReadingsOK'
        BY <1>0, <1>19, ReadingsStay DEF StopTheWorld, CalledOffHere, Go, Fine, Ends
    <2>6. HistoryOK'
        BY <1>0, <1>19
           DEF StopTheWorld, CalledOffHere, Go, Fine, Ends, HistoryOK, told, deeds, Tokens,
               PressOK, ServerOK
    <2>7. happened' \subseteq Upsets
        BY <1>0, <1>19, HappenedStays DEF StopTheWorld, CalledOffHere, Go, Fine, Ends
    <2> QED
        BY <2>1, <2>2, <2>3, <2>4, <2>5, <2>6, <2>7 DEF Typed
<1>20. CASE StartTheWorld
    <2>1. PressOK'
        BY <1>0, <1>20 DEF StartTheWorld, Go, Fine, NewRun, PressOK, Steps, Off
    <2>2. FileOK'
        BY <1>0, <1>20 DEF StartTheWorld, Go, Fine, NewRun, FileOK, PressOK, ReadingsOK, file, Off
    <2>3. DatabaseOK'
        BY <1>0, <1>20 DEF StartTheWorld, Go, Fine, NewRun, DatabaseOK, database, Pools
    <2>4. ServerOK'
        BY <1>0, <1>20, ServerStays DEF StartTheWorld, Go, Fine
    <2>5. ReadingsOK'
        BY <1>0, <1>20, ReadingsStay DEF StartTheWorld, Go, Fine, NewRun
    <2>6. HistoryOK'
        BY <1>0, <1>20
           DEF StartTheWorld, Go, Fine, NewRun, HistoryOK, told, deeds, Tokens, PressOK, ServerOK
    <2>7. happened' \subseteq Upsets
        BY <1>0, <1>20, HappenedStays DEF StartTheWorld, Go, Fine, NewRun
    <2> QED
        BY <2>1, <2>2, <2>3, <2>4, <2>5, <2>6, <2>7 DEF Typed
<1>21. CASE StartFailed
    <2>1. PressOK'
        BY <1>0, <1>21
           DEF StartFailed, CalledOffHere, Go, Fine, Up, End, Fresh, PressOK, Steps, Off
    <2>2. FileOK'
        BY <1>0, <1>21
           DEF StartFailed, CalledOffHere, Go, Fine, Up, End, Fresh, FileOK, PressOK, ReadingsOK,
               file, Off
    <2>3. DatabaseOK'
        BY <1>0, <1>21
           DEF StartFailed, CalledOffHere, Go, Fine, Up, End, Fresh, DatabaseOK, database, Pools
    <2>4. ServerOK'
        BY <1>0, <1>21, ServerStays DEF StartFailed, CalledOffHere, Go, Fine, Up, End, Fresh
    <2>5. ReadingsOK'
        BY <1>0, <1>21, ReadingsStay DEF StartFailed, CalledOffHere, Go, Fine, Up, End
    <2>6. HistoryOK'
        BY <1>0, <1>21
           DEF StartFailed, CalledOffHere, Go, Fine, Up, End, Fresh, HistoryOK, told, deeds,
               Tokens, PressOK, ServerOK
    <2>7. happened' \subseteq Upsets
        BY <1>0, <1>21, HappenedStays DEF StartFailed, CalledOffHere, Go, Fine, Up, End, Fresh
    <2> QED
        BY <2>1, <2>2, <2>3, <2>4, <2>5, <2>6, <2>7 DEF Typed
<1>22. CASE StopFailed
    <2>1. PressOK'
        BY <1>0, <1>22 DEF StopFailed, Fine, ReadUp, Up, PressOK, Steps, Off
    <2>2. FileOK'
        BY <1>0, <1>22 DEF StopFailed, Fine, ReadUp, Up, FileOK, PressOK, ReadingsOK, file, Off
    <2>3. DatabaseOK'
        BY <1>0, <1>22 DEF StopFailed, Fine, ReadUp, Up, DatabaseOK, database, Pools
    <2>4. ServerOK'
        BY <1>0, <1>22, ServerStays DEF StopFailed, Fine, ReadUp, Up
    <2>5. ReadingsOK'
        <3>1. seenUp' \in {"up", "down", "unknown"} /\ seenRun' \in {0, run}
            BY <1>22 DEF StopFailed, ReadUp
        <3>2. UNCHANGED <<before, booting, spent, taken>>
            BY <1>22 DEF StopFailed
        <3> QED
            BY <1>0, <3>1, <3>2 DEF ReadingsOK, ServerOK
    <2>6. HistoryOK'
        BY <1>0, <1>22
           DEF StopFailed, Fine, ReadUp, Up, HistoryOK, told, deeds, Tokens, PressOK, ServerOK
    <2>7. happened' \subseteq Upsets
        BY <1>0, <1>22, HappenedStays DEF StopFailed, Fine, ReadUp, Up
    <2> QED
        BY <2>1, <2>2, <2>3, <2>4, <2>5, <2>6, <2>7 DEF Typed
<1>23. CASE StopRead
    <2>1. PressOK'
        BY <1>0, <1>23 DEF StopRead, Fine, Go, End, Fresh, PressOK, Steps, Off
    <2>2. FileOK'
        BY <1>0, <1>23 DEF StopRead, Fine, Go, End, Fresh, FileOK, PressOK, ReadingsOK, file, Off
    <2>3. DatabaseOK'
        BY <1>0, <1>23 DEF StopRead, Fine, Go, End, Fresh, DatabaseOK, database, Pools
    <2>4. ServerOK'
        BY <1>0, <1>23, ServerStays DEF StopRead, Fine, Go, End, Fresh
    <2>5. ReadingsOK'
        <3>1. CASE Fresh \/ UNCHANGED readings
            BY <1>0, <3>1, ReadingsStay
        <3>2. CASE booting' = TRUE /\ UNCHANGED <<before, seenUp, seenRun, spent, taken>>
            <4>1. booting' \in BOOLEAN
                BY <3>2
            <4> QED
                BY <1>0, <3>2, <4>1 DEF ReadingsOK
        <3> QED
            BY <1>23, <3>1, <3>2 DEF StopRead, Go, End
    <2>6. HistoryOK'
        BY <1>0, <1>23
           DEF StopRead, Fine, Go, End, Fresh, HistoryOK, told, deeds, Tokens, PressOK, ServerOK
    <2>7. happened' \subseteq Upsets
        BY <1>0, <1>23, HappenedStays DEF StopRead, Fine, Go, End, Fresh
    <2> QED
        BY <2>1, <2>2, <2>3, <2>4, <2>5, <2>6, <2>7 DEF Typed
<1>24. CASE Watch
    <2>1. PressOK'
        BY <1>0, <1>24 DEF Watch, Fine, TakeBackAs, End, Fresh, PressOK, Steps, Off
    <2>2. FileOK'
        BY <1>0, <1>24
           DEF Watch, Fine, TakeBackAs, End, Fresh, FileOK, PressOK, ReadingsOK, file, Off
    <2>3. DatabaseOK'
        BY <1>0, <1>24 DEF Watch, Fine, TakeBackAs, End, Fresh, DatabaseOK, database, Pools
    <2>4. ServerOK'
        BY <1>0, <1>24, ServerStays DEF Watch, Fine, TakeBackAs, End, Fresh
    <2>5. ReadingsOK'
        <3>1. CASE Fresh
            BY <1>0, <3>1, ReadingsStay
        <3>2. CASE booting' = FALSE /\ UNCHANGED <<before, seenUp, seenRun, spent, taken>>
            <4>1. booting' \in BOOLEAN
                BY <3>2
            <4> QED
                BY <1>0, <3>2, <4>1 DEF ReadingsOK
        <3>3. ASSUME NEW applied \in BOOLEAN, TakeBackAs(applied) PROVE ReadingsOK'
            BY <1>0, <3>3 DEF TakeBackAs, ReadingsOK
        <3>4. (FinalInAll = "applied") \in BOOLEAN
            OBVIOUS
        <3> QED
            BY <1>24, <3>1, <3>2, <3>3, <3>4 DEF Watch, End
    <2>6. HistoryOK'
        BY <1>0, <1>24
           DEF Watch, Fine, TakeBackAs, End, Fresh, HistoryOK, told, deeds, Tokens, PressOK,
               ServerOK
    <2>7. happened' \subseteq Upsets
        BY <1>0, <1>24, HappenedStays DEF Watch, Fine, TakeBackAs, End, Fresh
    <2> QED
        BY <2>1, <2>2, <2>3, <2>4, <2>5, <2>6, <2>7 DEF Typed
<1>25. CASE WatchEnds
    <2>1. PressOK'
        BY <1>0, <1>25 DEF WatchEnds, End, Fresh, PressOK, Steps, Off
    <2>2. FileOK'
        BY <1>0, <1>25 DEF WatchEnds, End, Fresh, FileOK, PressOK, ReadingsOK, file, Off
    <2>3. DatabaseOK'
        BY <1>0, <1>25 DEF WatchEnds, End, Fresh, DatabaseOK, database, Pools
    <2>4. ServerOK'
        BY <1>0, <1>25, ServerStays DEF WatchEnds, End, Fresh
    <2>5. ReadingsOK'
        BY <1>0, <1>25, ReadingsStay DEF WatchEnds, End
    <2>6. HistoryOK'
        BY <1>0, <1>25
           DEF WatchEnds, End, Fresh, HistoryOK, told, deeds, Tokens, PressOK, ServerOK
    <2>7. happened' \subseteq Upsets
        BY <1>0, <1>25, HappenedStays DEF WatchEnds, End, Fresh
    <2> QED
        BY <2>1, <2>2, <2>3, <2>4, <2>5, <2>6, <2>7 DEF Typed
<1>26. CASE TakeBack
    <2>1. PressOK'
        BY <1>0, <1>26 DEF TakeBack, Fine, End, Fresh, PressOK, Steps, Off
    <2>2. FileOK'
        BY <1>0, <1>26 DEF TakeBack, Fine, End, Fresh, FileOK, PressOK, ReadingsOK, file, Off
    <2>3. DatabaseOK'
        BY <1>0, <1>26 DEF TakeBack, Fine, End, Fresh, DatabaseOK, database, Pools
    <2>4. ServerOK'
        BY <1>0, <1>26, ServerStays DEF TakeBack, Fine, End, Fresh
    <2>5. ReadingsOK'
        BY <1>0, <1>26, ReadingsStay DEF TakeBack, Fine, End
    <2>6. HistoryOK'
        <3>1. /\ saidDone' \in {saidDone, saidDone \cup {token}}
              /\ calledOff' \in {calledOff, calledOff \cup {token}}
              /\ UNCHANGED <<begun, done, staleTo>>
            BY <1>26 DEF TakeBack, deeds
        <3>2. token \in Tokens
            BY <1>0, <1>26 DEF TakeBack, PressOK, Tokens, Off
        <3> QED
            BY <1>0, <3>1, <3>2 DEF HistoryOK
    <2>7. happened' \subseteq Upsets
        BY <1>0, <1>26, HappenedStays DEF TakeBack, Fine, End, Fresh
    <2> QED
        BY <2>1, <2>2, <2>3, <2>4, <2>5, <2>6, <2>7 DEF Typed
<1>27. CASE Die
    <2>1. PressOK'
        BY <1>0, <1>27 DEF Die, End, Fresh, PressOK, Steps, Off
    <2>2. FileOK'
        BY <1>0, <1>27 DEF Die, End, Fresh, FileOK, PressOK, ReadingsOK, file, Off
    <2>3. DatabaseOK'
        BY <1>0, <1>27 DEF Die, End, Fresh, DatabaseOK, database, Pools
    <2>4. ServerOK'
        BY <1>0, <1>27, ServerStays DEF Die, End, Fresh
    <2>5. ReadingsOK'
        BY <1>0, <1>27, ReadingsStay DEF Die, End
    <2>6. HistoryOK'
        BY <1>0, <1>27 DEF Die, End, Fresh, HistoryOK, told, deeds, Tokens, PressOK, ServerOK
    <2>7. happened' \subseteq Upsets
        BY <1>0, <1>27, HappenedStays DEF Die, End, Fresh
    <2> QED
        BY <2>1, <2>2, <2>3, <2>4, <2>5, <2>6, <2>7 DEF Typed
<1>28. CASE Restore
    <2>1. PressOK'
        BY <1>0, <1>28 DEF Restore, BeforeRestore, Fine, PressOK, Steps, Off
    <2>2. FileOK'
        <3>1. conf' = Off /\ copies' = copies
            BY <1>28 DEF Restore, BeforeRestore
        <3> QED
            BY <1>0, <3>1 DEF FileOK, Off
    <2>3. DatabaseOK'
        BY <1>0, <1>28 DEF Restore, BeforeRestore, Fine, DatabaseOK, database, Pools
    <2>4. ServerOK'
        BY <1>0, <1>28, ServerStays DEF Restore, BeforeRestore, Fine
    <2>5. ReadingsOK'
        <3>1. taken' = conf /\ UNCHANGED <<before, seenUp, seenRun, booting, spent>>
            BY <1>28 DEF Restore, BeforeRestore
        <3> QED
            BY <1>0, <3>1 DEF ReadingsOK, FileOK
    <2>6. HistoryOK'
        BY <1>0, <1>28
           DEF Restore, BeforeRestore, Fine, HistoryOK, told, deeds, Tokens, PressOK, ServerOK
    <2>7. happened' \subseteq Upsets
        BY <1>0, <1>28, HappenedStays DEF Restore, BeforeRestore, Fine
    <2> QED
        BY <2>1, <2>2, <2>3, <2>4, <2>5, <2>6, <2>7 DEF Typed
<1>29. CASE Load
    <2>1. PressOK'
        BY <1>0, <1>29
           DEF Load, Fine, Loaded, RestoreFails, LoadedOrNot, NothingLoaded, End, Fresh, PressOK,
               Steps, Off
    <2>2. FileOK'
        BY <1>0, <1>29
           DEF Load, Fine, Loaded, RestoreFails, LoadedOrNot, NothingLoaded, End, Fresh, FileOK,
               PressOK, ReadingsOK, file, Off
    <2>3. DatabaseOK'
        BY <1>0, <1>29
           DEF Load, Fine, Loaded, RestoreFails, LoadedOrNot, NothingLoaded, End, Fresh,
               DatabaseOK, database, Pools
    <2>4. ServerOK'
        BY <1>0, <1>29, ServerStays
           DEF Load, Fine, Loaded, RestoreFails, LoadedOrNot, NothingLoaded, End, Fresh
    <2>5. ReadingsOK'
        BY <1>0, <1>29, ReadingsStay
           DEF Load, Fine, Loaded, RestoreFails, LoadedOrNot, NothingLoaded, End
    <2>6. HistoryOK'
        BY <1>0, <1>29
           DEF Load, Fine, Loaded, RestoreFails, LoadedOrNot, NothingLoaded, End, Fresh,
               HistoryOK, told, deeds, Tokens, PressOK, ServerOK
    <2>7. happened' \subseteq Upsets
        BY <1>0, <1>29, HappenedStays
           DEF Load, Fine, Loaded, RestoreFails, LoadedOrNot, NothingLoaded, End, Fresh
    <2> QED
        BY <2>1, <2>2, <2>3, <2>4, <2>5, <2>6, <2>7 DEF Typed
<1>30. CASE DieLoading
    <2>1. PressOK'
        BY <1>0, <1>30 DEF DieLoading, LoadedOrNot, End, Fresh, PressOK, Steps, Off
    <2>2. FileOK'
        BY <1>0, <1>30
           DEF DieLoading, LoadedOrNot, End, Fresh, FileOK, PressOK, ReadingsOK, file, Off
    <2>3. DatabaseOK'
        BY <1>0, <1>30 DEF DieLoading, LoadedOrNot, End, Fresh, DatabaseOK, database, Pools
    <2>4. ServerOK'
        BY <1>0, <1>30, ServerStays DEF DieLoading, LoadedOrNot, End, Fresh
    <2>5. ReadingsOK'
        BY <1>0, <1>30, ReadingsStay DEF DieLoading, LoadedOrNot, End
    <2>6. HistoryOK'
        BY <1>0, <1>30
           DEF DieLoading, LoadedOrNot, End, Fresh, HistoryOK, told, deeds, Tokens, PressOK,
               ServerOK
    <2>7. happened' \subseteq Upsets
        BY <1>0, <1>30, HappenedStays DEF DieLoading, LoadedOrNot, End, Fresh
    <2> QED
        BY <2>1, <2>2, <2>3, <2>4, <2>5, <2>6, <2>7 DEF Typed
<1>31. CASE UNCHANGED vars
    BY <1>0, <1>31
       DEF vars, Typed, FileOK, DatabaseOK, ServerOK, PressOK, ReadingsOK, HistoryOK, file,
           database, server, readings, told, deeds
<1> QED
    BY <1>1, <1>2, <1>3, <1>4, <1>5, <1>6, <1>7, <1>8, <1>9, <1>10, <1>11, <1>12, <1>13, <1>14,
       <1>15, <1>16, <1>17, <1>18, <1>19, <1>20, <1>21, <1>22, <1>23, <1>24, <1>25, <1>26, <1>27,
       <1>28, <1>29, <1>30, <1>31
       DEF Next, WorldStep, PlayerStep, PressStep

-----------------------------------------------------------------------------
\* Tokens stay in order.
LEMMA NextTokens == Inv /\ [Next]_vars => TokenInv'
<1> SUFFICES ASSUME Inv, [Next]_vars PROVE TokenInv'
    OBVIOUS
<1>0. /\ conf \in Nat /\ token \in Nat /\ doing \in Nat /\ staleTo \in Nat /\ taken \in Nat
      /\ done \subseteq Nat /\ pool \in Pools /\ log \in Logs /\ PressOK
    BY PoolResetAssumption
       DEF Inv, Typed, FileOK, DatabaseOK, ServerOK, ReadingsOK, PressOK, HistoryOK, Tokens
<1>a. TokenInv /\ TruthInv
    BY DEF Inv
<1> USE DEF Off, NoLog, Pools, Logs, file, database, server, readings, told, deeds
<1>1. CASE \E to \in {"down", "restarting"} : Crash(to)
    BY <1>0, <1>a, <1>1
       DEF Crash, Ends, TokenInv, Newest
<1>2. CASE Revive
    BY <1>0, <1>a, <1>2
       DEF Revive, NewRun, TokenInv, Newest
<1>3. CASE PlanNothing
    BY <1>0, <1>a, <1>3
       DEF PlanNothing, Plans, Fine, TokenInv, Newest
<1>4. CASE PlanReset
    BY <1>0, <1>a, <1>4
       DEF PlanReset, Asked, Plans, TokenInv, Newest
<1>5. CASE PlanRefused
    BY <1>0, <1>a, <1>5
       DEF PlanRefused, Asked, Plans, Fine, Balks, TokenInv, Newest
<1>6. CASE Delete
    BY <1>0, <1>a, <1>6
       DEF Delete, Resetting, TokenInv, Newest
<1>7. CASE Applied
    BY <1>0, <1>a, <1>7
       DEF Applied, Resetting, Logged, Whole, TokenInv, Newest
<1>8. CASE Fails
    BY <1>0, <1>a, <1>8
       DEF Fails, Resetting, Logged, Fine, Balks, TokenInv, Newest
<1>9. CASE Start
    BY <1>0, <1>a, <1>9
       DEF Start, NewRun, TokenInv, Newest
<1>10. CASE Stop
    BY <1>0, <1>a, <1>10
       DEF Stop, Ends, TokenInv, Newest
<1>11. CASE BackUp
    BY <1>0, <1>a, <1>11
       DEF BackUp, Dumped, TokenInv, Newest
<1>12. CASE SaveConf
    BY <1>0, <1>a, <1>12
       DEF SaveConf, TokenInv, Newest
<1>13. CASE SetOff
    BY <1>0, <1>a, <1>13
       DEF SetOff, TokenInv, Newest
<1>14. CASE Revert
    BY <1>0, <1>a, <1>14
       DEF Revert, PutBackFile, Fine, TokenInv, Newest
<1>15. CASE Press
    BY <1>0, <1>a, <1>15
       DEF Press, Go, Fine, TokenInv, Newest
<1>16. CASE Enrol
    BY <1>0, <1>a, <1>16
       DEF Enrol, Dumped, Go, End, Fresh, TokenInv, Newest
<1>17. CASE WriteKey
    BY <1>0, <1>a, <1>17
       DEF WriteKey, Fine, TokenInv, Newest
<1>18. CASE CancelOrRestart
    BY <1>0, <1>a, <1>18
       DEF CancelOrRestart, CalledOffHere, Go, Fine, TokenInv, Newest
<1>19. CASE StopTheWorld
    <2>1. pc' # "load" /\ UNCHANGED <<conf, pool, token, taken, done, staleTo>>
        BY <1>19 DEF StopTheWorld, CalledOffHere, Go
    <2>2. doing' = Off \/ UNCHANGED <<world, doing>>
        BY <1>19 DEF StopTheWorld, CalledOffHere, Go, Ends, NewRun
    <2>3. conf' <= token' /\ taken' <= token' /\ staleTo' <= token' /\ doing' <= token'
        BY <1>0, <1>a, <2>1, <2>2 DEF TokenInv
    <2>4. (\A d \in done' : d <= token') /\ Newest(conf)'
        BY <1>a, <2>1 DEF TokenInv, Newest
    <2> QED
        BY <1>0, <1>a, <2>1, <2>2, <2>3, <2>4 DEF TokenInv
<1>20. CASE StartTheWorld
    <2>1. pc' # "load" /\ UNCHANGED <<conf, pool, token, taken, done, staleTo>>
        BY <1>20 DEF StartTheWorld, Go
    <2>2. doing' = Off \/ UNCHANGED <<world, doing>>
        BY <1>20 DEF StartTheWorld, Go, Ends, NewRun
    <2>3. conf' <= token' /\ taken' <= token' /\ staleTo' <= token' /\ doing' <= token'
        BY <1>0, <1>a, <2>1, <2>2 DEF TokenInv
    <2>4. (\A d \in done' : d <= token') /\ Newest(conf)'
        BY <1>a, <2>1 DEF TokenInv, Newest
    <2> QED
        BY <1>0, <1>a, <2>1, <2>2, <2>3, <2>4 DEF TokenInv
<1>21. CASE StartFailed
    BY <1>0, <1>a, <1>21
       DEF StartFailed, CalledOffHere, Go, Fine, Up, End, Fresh, TokenInv, Newest
<1>22. CASE StopFailed
    BY <1>0, <1>a, <1>22
       DEF StopFailed, Fine, ReadUp, Up, TokenInv, Newest
<1>23. CASE StopRead
    BY <1>0, <1>a, <1>23
       DEF StopRead, Fine, Go, CalledOff, End, Fresh, Planned, PlannedInAll, TokenInv, Newest
<1>24. CASE Watch
    BY <1>0, <1>a, <1>24
       DEF Watch, Fine, TakeBackAs, Final, FinalInAll, Planned, End, Fresh, TokenInv, Newest
<1>25. CASE WatchEnds
    BY <1>0, <1>a, <1>25
       DEF WatchEnds, End, Fresh, TokenInv, Newest
<1>26. CASE TakeBack
    BY <1>0, <1>a, <1>26
       DEF TakeBack, Fine, End, Fresh, TokenInv, Newest
<1>27. CASE Die
    BY <1>0, <1>a, <1>27
       DEF Die, End, Fresh, TokenInv, Newest
<1>28. CASE Restore
    BY <1>0, <1>a, <1>28
       DEF Restore, BeforeRestore, Fine, TokenInv, Newest
<1>29. CASE Load
    <2>1. doing = Off /\ pc = "load" /\ pc' = "idle" /\ UNCHANGED <<server, token, done>>
        BY <1>0, <1>a, <1>29
           DEF TokenInv, Load, Loaded, RestoreFails, LoadedOrNot, NothingLoaded, End, Fresh
    <2>2. staleTo' \in {staleTo, token}
        BY <1>29 DEF Load, Loaded, RestoreFails, LoadedOrNot, NothingLoaded, End, Fresh
    <2>3. conf' # Off => conf' = taken /\ UNCHANGED <<pool, staleTo>>
        BY <1>a, <1>29
           DEF TokenInv, Load, Loaded, RestoreFails, LoadedOrNot, NothingLoaded, End, Fresh
    <2>4. taken' = Off
        BY <1>29 DEF Load, Loaded, RestoreFails, LoadedOrNot, NothingLoaded, End, Fresh
    <2> QED
        BY <1>0, <1>a, <2>1, <2>2, <2>3, <2>4 DEF TokenInv, Newest
<1>30. CASE DieLoading
    <2>1. doing = Off /\ pc = "load" /\ pc' = "idle" /\ UNCHANGED <<server, token, done>>
        BY <1>0, <1>a, <1>30 DEF TokenInv, DieLoading, LoadedOrNot, End, Fresh
    <2>2. staleTo' \in {staleTo, token}
        BY <1>30 DEF DieLoading, LoadedOrNot, End, Fresh
    <2>3. conf' # Off => conf' = taken /\ UNCHANGED <<pool, staleTo>>
        BY <1>a, <1>30 DEF TokenInv, DieLoading, LoadedOrNot, End, Fresh
    <2>4. taken' = Off
        BY <1>30 DEF DieLoading, LoadedOrNot, End, Fresh
    <2> QED
        BY <1>0, <1>a, <2>1, <2>2, <2>3, <2>4 DEF TokenInv, Newest
<1>31. CASE UNCHANGED vars
    BY <1>a, <1>31
       DEF vars, TokenInv, Newest
<1> QED
    BY <1>1, <1>2, <1>3, <1>4, <1>5, <1>6, <1>7, <1>8, <1>9, <1>10, <1>11, <1>12, <1>13, <1>14,
       <1>15, <1>16, <1>17, <1>18, <1>19, <1>20, <1>21, <1>22, <1>23, <1>24, <1>25, <1>26, <1>27,
       <1>28, <1>29, <1>30, <1>31
       DEF Next, WorldStep, PlayerStep, PressStep

\* Nothing says that a reset was completed which was not.
LEMMA NextTruth == Inv /\ [Next]_vars => TruthInv'
<1> SUFFICES ASSUME Inv, [Next]_vars PROVE TruthInv'
    OBVIOUS
<1>0. /\ conf \in Nat /\ token \in Nat /\ doing \in Nat /\ staleTo \in Nat /\ taken \in Nat
      /\ done \subseteq Nat /\ pool \in Pools /\ log \in Logs /\ PressOK
    BY PoolResetAssumption
       DEF Inv, Typed, FileOK, DatabaseOK, ServerOK, ReadingsOK, PressOK, HistoryOK, Tokens
<1>a. TokenInv /\ TruthInv
    BY DEF Inv
<1> USE DEF Off, NoLog, Pools, Logs, file, database, server, readings, told, deeds
<1>1. CASE \E to \in {"down", "restarting"} : Crash(to)
    BY <1>0, <1>a, <1>1
       DEF Crash, Ends, TruthInv
<1>2. CASE Revive
    BY <1>0, <1>a, <1>2
       DEF Revive, NewRun, TruthInv
<1>3. CASE PlanNothing
    BY <1>0, <1>a, <1>3
       DEF PlanNothing, Plans, Fine, TruthInv
<1>4. CASE PlanReset
    BY <1>0, <1>a, <1>4
       DEF PlanReset, Asked, Plans, TruthInv
<1>5. CASE PlanRefused
    BY <1>0, <1>a, <1>5
       DEF PlanRefused, Asked, Plans, Fine, Balks, TruthInv
<1>6. CASE Delete
    BY <1>0, <1>a, <1>6
       DEF Delete, Resetting, TruthInv
<1>7. CASE Applied
    BY <1>0, <1>a, <1>7
       DEF Applied, Resetting, Logged, Whole, TruthInv
<1>8. CASE Fails
    BY <1>0, <1>a, <1>8
       DEF Fails, Resetting, Logged, Fine, Balks, TruthInv
<1>9. CASE Start
    BY <1>0, <1>a, <1>9
       DEF Start, NewRun, TruthInv
<1>10. CASE Stop
    BY <1>0, <1>a, <1>10
       DEF Stop, Ends, TruthInv
<1>11. CASE BackUp
    BY <1>0, <1>a, <1>11
       DEF BackUp, Dumped, TruthInv
<1>12. CASE SaveConf
    BY <1>0, <1>a, <1>12
       DEF SaveConf, TruthInv
<1>13. CASE SetOff
    BY <1>0, <1>a, <1>13
       DEF SetOff, TruthInv
<1>14. CASE Revert
    BY <1>0, <1>a, <1>14
       DEF Revert, PutBackFile, Fine, TruthInv
<1>15. CASE Press
    BY <1>0, <1>a, <1>15
       DEF Press, Go, Fine, TruthInv
<1>16. CASE Enrol
    BY <1>0, <1>a, <1>16
       DEF Enrol, Dumped, Go, End, Fresh, TruthInv
<1>17. CASE WriteKey
    BY <1>0, <1>a, <1>17
       DEF WriteKey, Fine, TruthInv
<1>18. CASE CancelOrRestart
    BY <1>0, <1>a, <1>18
       DEF CancelOrRestart, CalledOffHere, Go, Fine, TruthInv
<1>19. CASE StopTheWorld
    <2>1. /\ pc # "takeBack"
          /\ UNCHANGED <<database, token, readings, told, deeds>>
        BY <1>19 DEF StopTheWorld, CalledOffHere, Go
    <2>2. \/ doing' = Off /\ log' \in {log, NoLog}
          \/ UNCHANGED <<doing, log>>
        BY <1>19 DEF StopTheWorld, CalledOffHere, Go, Ends, NewRun
    <2> QED
        BY <1>a, <2>1, <2>2 DEF TruthInv
<1>20. CASE StartTheWorld
    <2>1. /\ pc # "takeBack"
          /\ UNCHANGED <<database, token, readings, told, deeds>>
        BY <1>20 DEF StartTheWorld, Go
    <2>2. \/ doing' = Off /\ log' \in {log, NoLog}
          \/ UNCHANGED <<doing, log>>
        BY <1>20 DEF StartTheWorld, Go, Ends, NewRun
    <2> QED
        BY <1>a, <2>1, <2>2 DEF TruthInv
<1>21. CASE StartFailed
    BY <1>0, <1>a, <1>21
       DEF StartFailed, CalledOffHere, Go, Fine, Up, End, Fresh, TruthInv
<1>22. CASE StopFailed
    BY <1>0, <1>a, <1>22
       DEF StopFailed, Fine, ReadUp, Up, TruthInv
<1>23. CASE StopRead
    BY <1>0, <1>a, <1>23
       DEF StopRead, Fine, Go, CalledOff, End, Fresh, Planned, PlannedInAll, TruthInv
<1>24. CASE Watch
    <2>1. /\ pc = "watch" /\ UNCHANGED <<pool, dump, doing, log, done, token, saidDone>>
        BY <1>24 DEF Watch
    <2>2. spent' => (pc' = "takeBack" /\ (Final = "applied" \/ FinalInAll = "applied")) \/ spent
        BY <1>24 DEF Watch, TakeBackAs, End, Fresh
    <2>3. ~spent
        BY <1>a, <2>1 DEF TruthInv
    <2>4. Final = "applied" => token \in done
        BY <1>a DEF Final, TruthInv
    <2>5. FinalInAll = "applied" => token \in done
        BY DEF FinalInAll
    <2> QED
        BY <1>a, <2>1, <2>2, <2>3, <2>4, <2>5 DEF TruthInv
<1>25. CASE WatchEnds
    BY <1>0, <1>a, <1>25
       DEF WatchEnds, End, Fresh, TruthInv
<1>26. CASE TakeBack
    BY <1>0, <1>a, <1>26
       DEF TakeBack, Fine, End, Fresh, TruthInv
<1>27. CASE Die
    BY <1>0, <1>a, <1>27
       DEF Die, End, Fresh, TruthInv
<1>28. CASE Restore
    BY <1>0, <1>a, <1>28
       DEF Restore, BeforeRestore, Fine, TruthInv
<1>29. CASE Load
    BY <1>0, <1>a, <1>29
       DEF Load, Fine, Loaded, RestoreFails, LoadedOrNot, NothingLoaded, End, Fresh, TruthInv
<1>30. CASE DieLoading
    BY <1>0, <1>a, <1>30
       DEF DieLoading, LoadedOrNot, End, Fresh, TruthInv
<1>31. CASE UNCHANGED vars
    BY <1>a, <1>31
       DEF vars, TruthInv
<1> QED
    BY <1>1, <1>2, <1>3, <1>4, <1>5, <1>6, <1>7, <1>8, <1>9, <1>10, <1>11, <1>12, <1>13, <1>14,
       <1>15, <1>16, <1>17, <1>18, <1>19, <1>20, <1>21, <1>22, <1>23, <1>24, <1>25, <1>26, <1>27,
       <1>28, <1>29, <1>30, <1>31
       DEF Next, WorldStep, PlayerStep, PressStep

\* The parts together.
LEMMA Invariance == Spec => []Inv
<1>1. Inv /\ [Next]_vars => Inv'
    BY NextTypes, NextTokens, NextTruth DEF Inv
<1> QED
    BY <1>1, InitInv, PTL DEF Spec

\* The variables of a run of any length have their types.
THEOREM PoolResetTyped == Spec => []TypeOK
<1>1. Inv => TypeOK
    BY TypedIsTypeOK DEF Inv
<1> QED
    BY <1>1, Invariance, PTL

\* The world never carries out a request that is older than the newest restore, so the bots
\* that a restore brought back stay: a restore takes the pending request out of the file,
\* and puts it back only where nothing was loaded.
THEOREM RestoredBotsStaySafe == Spec => []RestoredBotsStay
<1>1. Inv => RestoredBotsStay
    BY DEF Inv, TokenInv, RestoredBotsStay
<1> QED
    BY <1>1, Invariance, PTL

\* A token that was carried out is not carried out again, whatever file or database comes back.
THEOREM NoTokenTwice == Spec => []NoTokenRunsTwice
<1>1. Inv => NoTokenRunsTwice
    <2> SUFFICES ASSUME Inv, doing \in done PROVE FALSE
        BY DEF NoTokenRunsTwice
    <2>1. doing # Off
        BY DEF Inv, Typed, HistoryOK, Tokens, Off
    <2>2. doing < doing
        BY <2>1 DEF Inv, TokenInv
    <2>3. doing \in Nat
        BY DEF Inv, Typed, ServerOK
    <2> QED
        BY <2>2, <2>3
<1> QED
    BY <1>1, Invariance, PTL

\* The player is told "done" only of a token whose own reset was completed.
THEOREM DoneIsDone == Spec => []SaidDoneIsDone
<1>1. Inv => SaidDoneIsDone
    BY DEF Inv, TruthInv, SaidDoneIsDone
<1> QED
    BY <1>1, Invariance, PTL

-----------------------------------------------------------------------------
(* What was called off, and what is half done. *)

\* None of the upsets happened that let a world read a request, or the file change, behind a
\* press; nor one of those, a second press or a restore that went wrong.
Unread  == happened \cap {"boot", "balk", "revert"} = {}
Orderly == happened \cap {"again", "boot", "balk", "revert", "halfDump", "restoreFails",
                          "dieLoading"} = {}

\* From the write on to the end of its watch a press finds its own token in the file.
Pressed == pc \in {"written", "restart", "start", "startFailed", "stopFailed", "stopRead", "watch"}

\* A reset is named in a log before it begins, and is the one its run's log speaks of.
NamedInv ==
    /\ begun \subseteq named
    /\ \A t \in named \cup calledOff : t <= token
    /\ doing # Off => doing \in named /\ log.plan = "scheduled" /\ log.end = "none"

\* What was called off is nowhere to be found: not in the file, not in a restore's hand, not
\* in the world.
AllGone == \A t \in calledOff : /\ t \notin begun /\ t # conf /\ t # doing
                                /\ pc = "load" => t # taken

GoneInv == Unread => AllGone

\* A reset of this press that has begun is visible: the pool is half deleted or done, and a
\* run that has planned since says so under the token.
BegunShows ==
    token \in begun => /\ token \in done \/ pool.half
                       /\ log.plan = "none" \/ (log.token = token
                                                /\ log.plan \in {"scheduled", "already"})
                       /\ log.end # "aborted"

PressKnows == /\ Pressed => conf = token /\ BegunShows
              /\ pc = "takeBack" /\ ~spent => token \notin begun /\ doing # token

SeenInv == Unread => PressKnows

CallInv == NamedInv /\ GoneInv /\ SeenInv

\* The one token that may be in the file is the newest, and the world works on no other.
NewestAlone ==
    /\ conf \in {Off, token}
    /\ pc \in {"enrol", "write"} => conf = Off
    /\ doing # Off => doing = conf
    /\ pc = "takeBack" => doing = Off /\ ~pool.half
    /\ pc = "load" => ~dump.half

\* Half a pool stands under its request, and no press has a run of the world that refused it.
HalfHasRequest ==
    pool.half /\ pc # "load" =>
        /\ conf = token /\ conf # Off /\ conf # pool.record /\ token \in named
        /\ pc # "idle" => log.plan \in {"none", "scheduled"} /\ log.end \in {"none", "failed"}

KeepInv == NamedInv /\ (Orderly => NewestAlone /\ HalfHasRequest)

\* Upsets are remembered.
LEMMA HappenedGrows == [Next]_vars => happened \subseteq happened'
<1> SUFFICES ASSUME [Next]_vars PROVE happened \subseteq happened'
    OBVIOUS
<1> USE DEF Upset, Fine
<1>1. CASE \E to \in {"down", "restarting"} : Crash(to)
    BY <1>1 DEF Crash, Ends
<1>2. CASE Revive
    BY <1>2 DEF Revive, NewRun
<1>3. CASE PlanNothing
    BY <1>3 DEF PlanNothing, Plans, Fine
<1>4. CASE PlanReset
    BY <1>4 DEF PlanReset, Asked, Plans
<1>5. CASE PlanRefused
    BY <1>5 DEF PlanRefused, Asked, Plans, Fine, Balks
<1>6. CASE Delete
    BY <1>6 DEF Delete, Resetting
<1>7. CASE Applied
    BY <1>7 DEF Applied, Resetting, Logged, Whole
<1>8. CASE Fails
    BY <1>8 DEF Fails, Resetting, Logged, Fine, Balks
<1>9. CASE Start
    BY <1>9 DEF Start, NewRun
<1>10. CASE Stop
    BY <1>10 DEF Stop, Ends
<1>11. CASE BackUp
    BY <1>11 DEF BackUp, Dumped
<1>12. CASE SaveConf
    BY <1>12 DEF SaveConf
<1>13. CASE SetOff
    BY <1>13 DEF SetOff
<1>14. CASE Revert
    BY <1>14 DEF Revert, PutBackFile, Fine
<1>15. CASE Press
    BY <1>15 DEF Press, Go, Fine
<1>16. CASE Enrol
    BY <1>16 DEF Enrol, Dumped, Go, End, Fresh
<1>17. CASE WriteKey
    BY <1>17 DEF WriteKey, Fine
<1>18. CASE CancelOrRestart
    BY <1>18 DEF CancelOrRestart, CalledOffHere, Go, Fine
<1>19. CASE StopTheWorld
    BY <1>19 DEF StopTheWorld, CalledOffHere, Go, Ends, Fine
<1>20. CASE StartTheWorld
    BY <1>20 DEF StartTheWorld, Go, NewRun, Fine
<1>21. CASE StartFailed
    BY <1>21 DEF StartFailed, CalledOffHere, Go, Fine, Up, End, Fresh
<1>22. CASE StopFailed
    BY <1>22 DEF StopFailed, Fine, ReadUp, Up
<1>23. CASE StopRead
    BY <1>23 DEF StopRead, Fine, Go, CalledOff, End, Fresh, Planned, PlannedInAll
<1>24. CASE Watch
    BY <1>24 DEF Watch, Fine, TakeBackAs, Final, FinalInAll, Planned, End, Fresh
<1>25. CASE WatchEnds
    BY <1>25 DEF WatchEnds, End, Fresh
<1>26. CASE TakeBack
    BY <1>26 DEF TakeBack, Fine, End, Fresh
<1>27. CASE Die
    BY <1>27 DEF Die, End, Fresh
<1>28. CASE Restore
    BY <1>28 DEF Restore, BeforeRestore, Fine
<1>29. CASE Load
    BY <1>29 DEF Load, Fine, Loaded, RestoreFails, LoadedOrNot, NothingLoaded, End, Fresh
<1>30. CASE DieLoading
    BY <1>30 DEF DieLoading, LoadedOrNot, End, Fresh
<1>31. CASE UNCHANGED vars
    BY <1>31 DEF vars
<1> QED
    BY <1>1, <1>2, <1>3, <1>4, <1>5, <1>6, <1>7, <1>8, <1>9, <1>10, <1>11, <1>12, <1>13, <1>14,
       <1>15, <1>16, <1>17, <1>18, <1>19, <1>20, <1>21, <1>22, <1>23, <1>24, <1>25, <1>26, <1>27,
       <1>28, <1>29, <1>30, <1>31
       DEF Next, WorldStep, PlayerStep, PressStep

\* Resets are named before they begin, and tokens only grow.
LEMMA NamedStep == Inv /\ NamedInv /\ [Next]_vars => NamedInv'
<1> SUFFICES ASSUME Inv, NamedInv, [Next]_vars PROVE NamedInv'
    OBVIOUS
<1>0. /\ conf \in Nat /\ token \in Nat /\ doing \in Nat /\ conf <= token
      /\ named \subseteq Nat /\ calledOff \subseteq Nat /\ log \in Logs
    BY PoolResetAssumption
       DEF Inv, Typed, FileOK, ServerOK, PressOK, HistoryOK, TokenInv, Tokens
<1>a. NamedInv
    OBVIOUS
<1> USE DEF Off, NoLog, Logs, file, database, server, readings, told, deeds
<1>1. CASE \E to \in {"down", "restarting"} : Crash(to)
    BY <1>0, <1>a, <1>1 DEF Crash, Ends, NamedInv
<1>2. CASE Revive
    BY <1>0, <1>a, <1>2 DEF Revive, NewRun, NamedInv
<1>3. CASE PlanNothing
    BY <1>0, <1>a, <1>3 DEF PlanNothing, Plans, Fine, NamedInv
<1>4. CASE PlanReset
    BY <1>0, <1>a, <1>4 DEF PlanReset, Asked, Plans, NamedInv
<1>5. CASE PlanRefused
    BY <1>0, <1>a, <1>5 DEF PlanRefused, Asked, Plans, Fine, Balks, NamedInv
<1>6. CASE Delete
    BY <1>0, <1>a, <1>6 DEF Delete, Resetting, NamedInv
<1>7. CASE Applied
    BY <1>0, <1>a, <1>7 DEF Applied, Resetting, Logged, Whole, NamedInv
<1>8. CASE Fails
    BY <1>0, <1>a, <1>8 DEF Fails, Resetting, Logged, Fine, Balks, NamedInv
<1>9. CASE Start
    BY <1>0, <1>a, <1>9 DEF Start, NewRun, NamedInv
<1>10. CASE Stop
    BY <1>0, <1>a, <1>10 DEF Stop, Ends, NamedInv
<1>11. CASE BackUp
    BY <1>0, <1>a, <1>11 DEF BackUp, Dumped, NamedInv
<1>12. CASE SaveConf
    BY <1>0, <1>a, <1>12 DEF SaveConf, NamedInv
<1>13. CASE SetOff
    BY <1>0, <1>a, <1>13 DEF SetOff, NamedInv
<1>14. CASE Revert
    BY <1>0, <1>a, <1>14 DEF Revert, PutBackFile, Fine, NamedInv
<1>15. CASE Press
    BY <1>0, <1>a, <1>15 DEF Press, Go, Fine, NamedInv
<1>16. CASE Enrol
    BY <1>0, <1>a, <1>16 DEF Enrol, Dumped, Go, End, Fresh, NamedInv
<1>17. CASE WriteKey
    BY <1>0, <1>a, <1>17 DEF WriteKey, Fine, NamedInv
<1>18. CASE CancelOrRestart
    BY <1>0, <1>a, <1>18 DEF CancelOrRestart, CalledOffHere, Go, Fine, NamedInv
<1>19. CASE StopTheWorld
    BY <1>0, <1>a, <1>19 DEF StopTheWorld, CalledOffHere, Go, Ends, Fine, NamedInv
<1>20. CASE StartTheWorld
    BY <1>0, <1>a, <1>20 DEF StartTheWorld, Go, NewRun, Fine, NamedInv
<1>21. CASE StartFailed
    BY <1>0, <1>a, <1>21 DEF StartFailed, CalledOffHere, Go, Fine, Up, End, Fresh, NamedInv
<1>22. CASE StopFailed
    BY <1>0, <1>a, <1>22 DEF StopFailed, Fine, ReadUp, Up, NamedInv
<1>23. CASE StopRead
    BY <1>0, <1>a, <1>23
       DEF StopRead, Fine, Go, CalledOff, End, Fresh, Planned, PlannedInAll, NamedInv
<1>24. CASE Watch
    BY <1>0, <1>a, <1>24
       DEF Watch, Fine, TakeBackAs, Final, FinalInAll, Planned, End, Fresh, NamedInv
<1>25. CASE WatchEnds
    BY <1>0, <1>a, <1>25 DEF WatchEnds, End, Fresh, NamedInv
<1>26. CASE TakeBack
    BY <1>0, <1>a, <1>26 DEF TakeBack, Fine, End, Fresh, NamedInv
<1>27. CASE Die
    BY <1>0, <1>a, <1>27 DEF Die, End, Fresh, NamedInv
<1>28. CASE Restore
    BY <1>0, <1>a, <1>28 DEF Restore, BeforeRestore, Fine, NamedInv
<1>29. CASE Load
    BY <1>0, <1>a, <1>29
       DEF Load, Fine, Loaded, RestoreFails, LoadedOrNot, NothingLoaded, End, Fresh, NamedInv
<1>30. CASE DieLoading
    BY <1>0, <1>a, <1>30 DEF DieLoading, LoadedOrNot, End, Fresh, NamedInv
<1>31. CASE UNCHANGED vars
    BY <1>0, <1>a, <1>31 DEF vars, NamedInv
<1> QED
    BY <1>1, <1>2, <1>3, <1>4, <1>5, <1>6, <1>7, <1>8, <1>9, <1>10, <1>11, <1>12, <1>13, <1>14,
       <1>15, <1>16, <1>17, <1>18, <1>19, <1>20, <1>21, <1>22, <1>23, <1>24, <1>25, <1>26, <1>27,
       <1>28, <1>29, <1>30, <1>31
       DEF Next, WorldStep, PlayerStep, PressStep

\* What was called off stays out of the file and out of the world.
LEMMA GoneStep == Inv /\ CallInv /\ [Next]_vars => GoneInv'
<1> SUFFICES ASSUME Inv, CallInv, [Next]_vars, Unread' PROVE AllGone'
    BY DEF GoneInv
<1>0. /\ conf \in Nat /\ token \in Nat /\ doing \in Nat /\ taken \in Nat
      /\ \A t \in calledOff : t \in Nat /\ t # Off
      /\ pc = "load" => conf = Off
      /\ pc = "takeBack" => token # Off
    BY PoolResetAssumption
       DEF Inv, Typed, FileOK, ServerOK, PressOK, ReadingsOK, HistoryOK, TokenInv, Tokens, Off
<1>a. Unread
    BY HappenedGrows DEF Unread
<1>b. AllGone
    BY <1>a DEF CallInv, GoneInv
<1>c. \A t \in calledOff : t <= token
    BY DEF CallInv, NamedInv
<1>d. pc = "takeBack" /\ ~spent => token \notin begun /\ doing # token
    BY <1>a DEF CallInv, SeenInv, PressKnows
<1> USE DEF Off, file, database, server, readings, told, deeds
<1>1. CASE \E to \in {"down", "restarting"} : Crash(to)
    BY <1>0, <1>b, <1>1 DEF Crash, Ends, AllGone
<1>2. CASE Revive
    BY <1>0, <1>b, <1>2 DEF Revive, NewRun, AllGone
<1>3. CASE PlanNothing
    BY <1>0, <1>b, <1>3 DEF PlanNothing, Plans, Fine, AllGone
<1>4. CASE PlanReset
    BY <1>0, <1>b, <1>4 DEF PlanReset, Asked, Plans, AllGone
<1>5. CASE PlanRefused
    <2>1. doing' = Off /\ UNCHANGED <<pc, conf, taken, calledOff, begun>>
        BY <1>5 DEF PlanRefused, Plans
    <2> QED
        BY <1>0, <1>b, <2>1 DEF AllGone
<1>6. CASE Delete
    BY <1>0, <1>b, <1>6 DEF Delete, Resetting, AllGone
<1>7. CASE Applied
    BY <1>0, <1>b, <1>7 DEF Applied, Resetting, Logged, Whole, AllGone
<1>8. CASE Fails
    BY <1>0, <1>b, <1>8 DEF Fails, Resetting, Logged, Fine, Balks, AllGone
<1>9. CASE Start
    BY <1>0, <1>b, <1>9 DEF Start, NewRun, AllGone
<1>10. CASE Stop
    BY <1>0, <1>b, <1>10 DEF Stop, Ends, AllGone
<1>11. CASE BackUp
    BY <1>0, <1>b, <1>11 DEF BackUp, Dumped, AllGone
<1>12. CASE SaveConf
    BY <1>0, <1>b, <1>12 DEF SaveConf, AllGone
<1>13. CASE SetOff
    BY <1>0, <1>b, <1>13 DEF SetOff, AllGone
<1>14. CASE Revert
    <2>1. conf' \in {Off, conf}
        BY <1>14 DEF Revert, PutBackFile, Upset, Unread
    <2> QED
        BY <1>0, <1>b, <2>1, <1>14 DEF Revert, AllGone
<1>15. CASE Press
    BY <1>0, <1>b, <1>15 DEF Press, Go, Fine, AllGone
<1>16. CASE Enrol
    BY <1>0, <1>b, <1>16 DEF Enrol, Dumped, Go, End, Fresh, AllGone
<1>17. CASE WriteKey
    BY <1>0, <1>b, <1>c, <1>d, <1>17 DEF WriteKey, Fine, AllGone
<1>18. CASE CancelOrRestart
    BY <1>0, <1>b, <1>18 DEF CancelOrRestart, CalledOffHere, Go, Fine, AllGone
<1>19. CASE StopTheWorld
    BY <1>0, <1>b, <1>19 DEF StopTheWorld, CalledOffHere, Go, Ends, Fine, AllGone
<1>20. CASE StartTheWorld
    BY <1>0, <1>b, <1>20 DEF StartTheWorld, Go, NewRun, Fine, AllGone
<1>21. CASE StartFailed
    BY <1>0, <1>b, <1>21 DEF StartFailed, CalledOffHere, Go, Fine, Up, End, Fresh, AllGone
<1>22. CASE StopFailed
    BY <1>0, <1>b, <1>22 DEF StopFailed, Fine, ReadUp, Up, AllGone
<1>23. CASE StopRead
    BY <1>0, <1>b, <1>23
       DEF StopRead, Fine, Go, CalledOff, End, Fresh, Planned, PlannedInAll, AllGone
<1>24. CASE Watch
    BY <1>0, <1>b, <1>24
       DEF Watch, Fine, TakeBackAs, Final, FinalInAll, Planned, End, Fresh, AllGone
<1>25. CASE WatchEnds
    BY <1>0, <1>b, <1>25 DEF WatchEnds, End, Fresh, AllGone
<1>26. CASE TakeBack
    <2>1. conf' \in {Off, conf} /\ UNCHANGED <<begun, doing>> /\ pc' = "idle"
        BY <1>26 DEF TakeBack, End
    <2>2. CASE ~spent /\ conf' = Off
        <3>1. calledOff' = calledOff \cup {token}
            BY <2>2, <1>26 DEF TakeBack
        <3>2. token \notin begun /\ doing # token /\ token # Off
            BY <1>0, <1>d, <2>2, <1>26 DEF TakeBack
        <3> QED
            BY <1>0, <1>b, <2>1, <2>2, <3>1, <3>2 DEF AllGone
    <2>3. CASE ~(~spent /\ conf' = Off)
        <3>1. calledOff' = calledOff
            BY <2>3, <1>26 DEF TakeBack
        <3> QED
            BY <1>0, <1>b, <2>1, <3>1 DEF AllGone
    <2> QED
        BY <2>2, <2>3
<1>27. CASE Die
    BY <1>0, <1>b, <1>27 DEF Die, End, Fresh, AllGone
<1>28. CASE Restore
    BY <1>0, <1>b, <1>28 DEF Restore, BeforeRestore, Fine, AllGone
<1>29. CASE Load
    BY <1>0, <1>b, <1>29
       DEF Load, Fine, Loaded, RestoreFails, LoadedOrNot, NothingLoaded, End, Fresh, AllGone
<1>30. CASE DieLoading
    BY <1>0, <1>b, <1>30 DEF DieLoading, LoadedOrNot, End, Fresh, AllGone
<1>31. CASE UNCHANGED vars
    BY <1>0, <1>b, <1>31 DEF vars, AllGone
<1> QED
    BY <1>1, <1>2, <1>3, <1>4, <1>5, <1>6, <1>7, <1>8, <1>9, <1>10, <1>11, <1>12, <1>13, <1>14,
       <1>15, <1>16, <1>17, <1>18, <1>19, <1>20, <1>21, <1>22, <1>23, <1>24, <1>25, <1>26, <1>27,
       <1>28, <1>29, <1>30, <1>31
       DEF Next, WorldStep, PlayerStep, PressStep

\* A stop, a crash and a start of the world leave what has begun as visible as it was.
LEMMA BegunShowsStays ==
    ASSUME BegunShows, NewRun \/ Ends("down") \/ Ends("restarting") \/ UNCHANGED server,
           UNCHANGED <<token, pool, begun, done>>
    PROVE  BegunShows'
BY DEF BegunShows, NewRun, NoLog, Ends, server

\* A press knows what became of its own request.
LEMMA SeenStep == Inv /\ CallInv /\ [Next]_vars => SeenInv'
<1> SUFFICES ASSUME Inv, CallInv, [Next]_vars, Unread' PROVE PressKnows'
    BY DEF SeenInv
<1>0. /\ conf \in Nat /\ token \in Nat /\ doing \in Nat /\ log \in Logs /\ pool \in Pools
      /\ named \subseteq Nat
      /\ Pressed \/ pc = "takeBack" => token # Off
    BY PoolResetAssumption
       DEF Inv, Typed, FileOK, DatabaseOK, ServerOK, PressOK, Tokens, Pressed
<1>a. Unread
    BY HappenedGrows DEF Unread
<1>b. PressKnows
    BY <1>a DEF CallInv, SeenInv
<1>c. NamedInv
    BY DEF CallInv
<1>d. /\ doing # Off => doing \notin done /\ log.token = doing
      /\ conf # Off /\ conf \in done => pool.record = conf
    BY <1>0 DEF Inv, TokenInv, TruthInv, Newest
<1>e. token \notin named /\ (Pressed \/ pc = "takeBack") => token \notin begun /\ doing # token
    BY <1>0, <1>c DEF NamedInv
\* A log that refuses, or that speaks of another request, is read as it is meant.
<1>f. ASSUME Pressed,
             \/ log.plan \in {"off", "refused"} \/ log.end = "aborted"
             \/ log.plan \notin {"none", "scheduled"} /\ log.token # token
      PROVE  token \notin begun /\ doing # token
    BY <1>f, <1>0, <1>b, <1>c DEF PressKnows, BegunShows, NamedInv
<1>g. ASSUME Pressed, token \in begun, doing # Off
      PROVE  doing = token /\ token \notin done /\ pool.half
    BY <1>g, <1>b, <1>c, <1>d DEF PressKnows, BegunShows, NamedInv
<1> USE DEF Pools, file, database, server, readings, told, deeds
<1>1. CASE \E to \in {"down", "restarting"} : Crash(to)
    <2>1. UNCHANGED <<pc, conf, token, spent, pool, begun, done>>
        BY <1>1 DEF Crash
    <2>2. BegunShows => BegunShows'
        BY <2>1, BegunShowsStays, <1>1 DEF Crash
    <2>3. doing' = Off
        BY <1>1 DEF Crash, Ends
    <2> QED
        BY <1>0, <1>b, <2>1, <2>2, <2>3 DEF PressKnows, Pressed
<1>2. CASE Revive
    <2>1. UNCHANGED <<pc, conf, token, spent, pool, begun, done>>
        BY <1>2 DEF Revive
    <2>2. BegunShows => BegunShows'
        BY <2>1, BegunShowsStays, <1>2 DEF Revive
    <2>3. doing' = Off
        BY <1>2 DEF Revive, NewRun
    <2> QED
        BY <1>0, <1>b, <2>1, <2>2, <2>3 DEF PressKnows, Pressed
<1>3. CASE PlanNothing
    <2>1. UNCHANGED <<pc, conf, token, spent, pool, begun, done>> /\ pc # "takeBack"
        BY <1>3 DEF PlanNothing, StillBooting
    <2>2. conf # Off => log' = [plan |-> "already", token |-> conf, end |-> "none"]
        BY <1>3 DEF PlanNothing, Plans
    <2> QED
        BY <1>0, <1>b, <2>1, <2>2 DEF PressKnows, Pressed, BegunShows
<1>4. CASE PlanReset
    <2>1. UNCHANGED <<pc, conf, token, spent, pool, begun, done>> /\ pc # "takeBack"
        BY <1>4 DEF PlanReset, Asked, StillBooting
    <2>2. log' = [plan |-> "scheduled", token |-> conf, end |-> "none"]
        BY <1>4 DEF PlanReset, Plans
    <2> QED
        BY <1>0, <1>b, <2>1, <2>2 DEF PressKnows, Pressed, BegunShows
<1>5. CASE PlanRefused
    <2>1. UNCHANGED <<pc, conf, token, spent, pool, begun, done>> /\ pc # "takeBack"
        BY <1>5 DEF PlanRefused, Asked, StillBooting
    <2>2. ~Balks
        BY <1>5 DEF PlanRefused, Upset, Unread
    <2>3. Pressed => token \notin begun
        BY <1>0, <1>b, <1>d, <2>2, <1>5
           DEF PlanRefused, Asked, Balks, PressKnows, Pressed, BegunShows
    <2> QED
        BY <1>b, <2>1, <2>3 DEF PressKnows, Pressed, BegunShows
<1>6. CASE Delete
    <2>1. UNCHANGED <<pc, conf, token, spent, doing, log, done>>
        BY <1>6 DEF Delete
    <2>2. begun' = begun \cup {doing} /\ pool'.half /\ doing # Off
        BY <1>0, <1>6 DEF Delete, Resetting
    <2>3. Pressed => BegunShows'
        BY <1>b, <1>c, <1>d, <2>1, <2>2 DEF PressKnows, BegunShows, NamedInv
    <2> QED
        BY <1>b, <2>1, <2>2, <2>3 DEF PressKnows, Pressed
<1>7. CASE Applied
    <2>1. UNCHANGED <<pc, conf, token, spent, begun>> /\ done' = done \cup {doing}
        BY <1>7 DEF Applied
    <2>2. log' = [log EXCEPT !.end = "applied"] /\ doing' = Off /\ doing # Off
        BY <1>7 DEF Applied, Logged, Resetting
    <2>3. Pressed => BegunShows'
        BY <1>0, <1>b, <1>g, <2>1, <2>2 DEF PressKnows, BegunShows, Logs
    <2> QED
        BY <1>0, <1>b, <2>1, <2>2, <2>3 DEF PressKnows, Pressed
<1>8. CASE Fails
    <2>1. UNCHANGED <<pc, conf, token, spent, pool, begun, done>>
        BY <1>8 DEF Fails
    <2>2. doing' = Off /\ doing # Off
        BY <1>8 DEF Fails, Logged, Resetting
    <2>3. CASE log' = [log EXCEPT !.end = "failed"]
        <3>1. Pressed => BegunShows'
            BY <1>0, <1>b, <2>1, <2>3 DEF PressKnows, BegunShows, Logs
        <3> QED
            BY <1>0, <1>b, <2>1, <2>2, <3>1 DEF PressKnows, Pressed
    <2>4. CASE ~Balks
        <3>1. Pressed => token \notin begun
            BY <1>g, <2>2, <2>4 DEF Balks, Pressed
        <3> QED
            BY <1>0, <1>b, <2>1, <2>2, <3>1 DEF PressKnows, Pressed, BegunShows
    <2> QED
        BY <2>3, <2>4, <1>8 DEF Fails, Logged, Upset, Unread
<1>9. CASE Start
    BY <1>9 DEF Start, PressKnows, Pressed
<1>10. CASE Stop
    BY <1>10 DEF Stop, PressKnows, Pressed
<1>11. CASE BackUp
    BY <1>11 DEF BackUp, PressKnows, Pressed
<1>12. CASE SaveConf
    BY <1>b, <1>12 DEF SaveConf, PressKnows, Pressed, BegunShows
<1>13. CASE SetOff
    BY <1>13 DEF SetOff, PressKnows, Pressed
<1>14. CASE Revert
    <2>1. conf' = conf
        BY <1>14 DEF Revert, PutBackFile, Upset, Unread
    <2> QED
        BY <1>b, <2>1, <1>14 DEF Revert, PressKnows, Pressed, BegunShows
<1>15. CASE Press
    BY <1>15 DEF Press, Go, PressKnows, Pressed
<1>16. CASE Enrol
    BY <1>16 DEF Enrol, Go, End, PressKnows, Pressed
<1>17. CASE WriteKey
    <2>1. pc' = "idle" \/ (pc' = "written" /\ conf' = token')
        BY <1>17 DEF WriteKey
    <2>2. token' = token + 1 /\ UNCHANGED begun
        BY <1>17 DEF WriteKey
    <2>3. token' \notin begun'
        BY <1>0, <1>c, <2>2 DEF NamedInv
    <2> QED
        BY <2>1, <2>3 DEF PressKnows, Pressed, BegunShows
<1>18. CASE CancelOrRestart
    <2>1. UNCHANGED <<conf, token, pool, begun, done>> /\ Pressed
        BY <1>18 DEF CancelOrRestart, Pressed
    <2>2. pc' = "takeBack" => token \notin named /\ UNCHANGED doing
        BY <1>18 DEF CancelOrRestart, CalledOffHere, Go, Upset, Unread
    <2>3. BegunShows'
        BY <1>b, <2>1, BegunShowsStays, <1>18 DEF CancelOrRestart, PressKnows
    <2> QED
        BY <1>b, <1>e, <2>1, <2>2, <2>3 DEF PressKnows
<1>19. CASE StopTheWorld
    <2>1. UNCHANGED <<conf, token, pool, begun, done>> /\ Pressed
        BY <1>19 DEF StopTheWorld, Pressed
    <2>2. pc' = "takeBack" => token \notin named /\ UNCHANGED doing
        BY <1>19 DEF StopTheWorld, CalledOffHere, Go, Upset, Unread
    <2>3. BegunShows'
        BY <1>b, <2>1, BegunShowsStays, <1>19 DEF StopTheWorld, PressKnows
    <2> QED
        BY <1>b, <1>e, <2>1, <2>2, <2>3 DEF PressKnows
<1>20. CASE StartTheWorld
    <2>1. UNCHANGED <<conf, token, pool, begun, done>> /\ Pressed
        BY <1>20 DEF StartTheWorld, Pressed
    <2>2. pc' = "takeBack" => token \notin named /\ UNCHANGED doing
        BY <1>20 DEF StartTheWorld, CalledOffHere, Go, Upset, Unread
    <2>3. BegunShows'
        BY <1>b, <2>1, BegunShowsStays, <1>20 DEF StartTheWorld, PressKnows
    <2> QED
        BY <1>b, <1>e, <2>1, <2>2, <2>3 DEF PressKnows
<1>21. CASE StartFailed
    <2>1. UNCHANGED <<conf, token, pool, begun, done>> /\ Pressed
        BY <1>21 DEF StartFailed, Pressed
    <2>2. pc' = "takeBack" => token \notin named /\ UNCHANGED doing
        BY <1>21 DEF StartFailed, CalledOffHere, Go, Upset, Unread, End
    <2>3. BegunShows'
        BY <1>b, <2>1, BegunShowsStays, <1>21 DEF StartFailed, PressKnows, End
    <2> QED
        BY <1>b, <1>e, <2>1, <2>2, <2>3 DEF PressKnows
<1>22. CASE StopFailed
    <2>1. UNCHANGED <<conf, token, pool, begun, done, log>> /\ Pressed
        BY <1>22 DEF StopFailed, Pressed
    <2>2. pc' # "takeBack"
        BY <1>22 DEF StopFailed
    <2> QED
        BY <1>b, <2>1, <2>2 DEF PressKnows, BegunShows
<1>23. CASE StopRead
    <2>1. UNCHANGED <<conf, token, pool, begun, done, log, doing>> /\ Pressed
        BY <1>23 DEF StopRead, Pressed
    <2>2. pc' = "takeBack" => Planned = "other"
        BY <1>23 DEF StopRead, CalledOff, PlannedInAll, Go, End
    <2>3. Planned = "other" => log.plan \notin {"none", "scheduled"} /\ log.token # token
        BY <1>0 DEF Planned, Logs
    <2> QED
        BY <1>b, <1>f, <2>1, <2>2, <2>3 DEF PressKnows, BegunShows
<1>24. CASE Watch
    <2>1. UNCHANGED <<conf, token, pool, begun, done, log, doing>> /\ Pressed
        BY <1>24 DEF Watch, Pressed
    <2>2. pc' = "takeBack" /\ ~spent' =>
              Planned = "other" \/ Final = "refused" \/ FinalInAll = "refused"
        <3>1. FinalInAll \in {"applied", "refused", "nothing"}
            BY DEF FinalInAll
        <3> QED
            BY <3>1, <1>24 DEF Watch, TakeBackAs, End
    <2>3. Planned = "other" => log.plan \notin {"none", "scheduled"} /\ log.token # token
        BY <1>0 DEF Planned, Logs
    <2>4. Final = "refused" =>
              \/ log.plan \in {"off", "refused"} \/ log.end = "aborted"
              \/ log.plan \notin {"none", "scheduled"} /\ log.token # token
        BY DEF Final
    <2>5. FinalInAll = "refused" => log.plan = "refused"
        BY DEF FinalInAll
    <2> QED
        BY <1>b, <1>f, <2>1, <2>2, <2>3, <2>4, <2>5 DEF PressKnows, BegunShows
<1>25. CASE WatchEnds
    BY <1>25 DEF WatchEnds, End, PressKnows, Pressed
<1>26. CASE TakeBack
    BY <1>26 DEF TakeBack, End, PressKnows, Pressed
<1>27. CASE Die
    BY <1>27 DEF Die, End, PressKnows, Pressed
<1>28. CASE Restore
    BY <1>28 DEF Restore, PressKnows, Pressed
<1>29. CASE Load
    BY <1>29 DEF Load, End, PressKnows, Pressed
<1>30. CASE DieLoading
    BY <1>30 DEF DieLoading, End, PressKnows, Pressed
<1>31. CASE UNCHANGED vars
    BY <1>b, <1>31 DEF vars, PressKnows, Pressed, BegunShows
<1> QED
    BY <1>1, <1>2, <1>3, <1>4, <1>5, <1>6, <1>7, <1>8, <1>9, <1>10, <1>11, <1>12, <1>13, <1>14,
       <1>15, <1>16, <1>17, <1>18, <1>19, <1>20, <1>21, <1>22, <1>23, <1>24, <1>25, <1>26, <1>27,
       <1>28, <1>29, <1>30, <1>31
       DEF Next, WorldStep, PlayerStep, PressStep

\* In order, there is one request at a time.
LEMMA AloneStep == Inv /\ KeepInv /\ [Next]_vars /\ Orderly' => NewestAlone'
<1> SUFFICES ASSUME Inv, KeepInv, [Next]_vars, Orderly' PROVE NewestAlone'
    OBVIOUS
<1>0. /\ conf \in Nat /\ token \in Nat /\ doing \in Nat /\ log \in Logs /\ pool \in Pools
      /\ dump \in Pools /\ (pc \notin {"idle", "enrol", "write", "load"} => token # Off)
    BY PoolResetAssumption
       DEF Inv, Typed, FileOK, DatabaseOK, ServerOK, PressOK, Tokens
<1>a. Orderly
    BY HappenedGrows DEF Orderly
<1>b. NewestAlone /\ HalfHasRequest
    BY <1>a DEF KeepInv
<1>c. NamedInv
    BY DEF KeepInv
<1>d. /\ doing # Off => doing \notin done /\ world = "planned" /\ doing # pool.record
      /\ conf # Off /\ conf \in done => pool.record = conf
      /\ pc = "load" => conf = Off /\ world = "down"
    BY <1>0 DEF Inv, TokenInv, TruthInv, Newest
\* What is not named did not begin, and neither did what a run refused or has completed.
<1>e. token \notin named /\ pc \notin {"idle", "load"} => doing = Off /\ ~pool.half
    BY <1>0, <1>b, <1>c DEF NewestAlone, HalfHasRequest, NamedInv
<1>f. ASSUME pc \notin {"idle", "load"},
             \/ log.plan \notin {"none", "scheduled"} \/ log.end \notin {"none", "failed"}
             \/ token \in done
      PROVE  doing = Off /\ ~pool.half
    BY <1>f, <1>0, <1>b, <1>c, <1>d DEF NewestAlone, HalfHasRequest, NamedInv
<1> USE DEF file, database, server, readings, told, deeds
<1>1. CASE \E to \in {"down", "restarting"} : Crash(to)
    <2>1. UNCHANGED <<pc, conf, token, dump>> /\ doing' = Off
        BY <1>1 DEF Crash, Ends
    <2>2. ~pool'.half \/ pool' = pool
        BY <1>1 DEF Crash, Ends
    <2> QED
        BY <1>b, <2>1, <2>2 DEF NewestAlone
<1>2. CASE Revive
    <2>1. UNCHANGED <<pc, conf, token, dump>> /\ doing' = Off
        BY <1>2 DEF Revive, NewRun
    <2>2. ~pool'.half \/ pool' = pool
        BY <1>2 DEF Revive, NewRun
    <2> QED
        BY <1>b, <2>1, <2>2 DEF NewestAlone
<1>3. CASE PlanNothing
    <2>1. UNCHANGED <<pc, conf, token, dump>> /\ doing' = Off
        BY <1>3 DEF PlanNothing, Plans
    <2>2. ~pool'.half \/ pool' = pool
        BY <1>3 DEF PlanNothing, Plans
    <2> QED
        BY <1>b, <2>1, <2>2 DEF NewestAlone
<1>4. CASE PlanReset
    BY <1>b, <1>4 DEF PlanReset, Plans, Asked, StillBooting, NewestAlone
<1>5. CASE PlanRefused
    <2>1. UNCHANGED <<pc, conf, token, dump>> /\ doing' = Off
        BY <1>5 DEF PlanRefused, Plans
    <2>2. ~pool'.half \/ pool' = pool
        BY <1>5 DEF PlanRefused, Plans
    <2> QED
        BY <1>b, <2>1, <2>2 DEF NewestAlone
<1>6. CASE Delete
    BY <1>b, <1>6 DEF Delete, Resetting, NewestAlone
<1>7. CASE Applied
    <2>1. UNCHANGED <<pc, conf, token, dump>> /\ doing' = Off
        BY <1>7 DEF Applied, Logged, Resetting, Whole
    <2>2. ~pool'.half \/ pool' = pool
        BY <1>7 DEF Applied, Logged, Resetting, Whole
    <2> QED
        BY <1>b, <2>1, <2>2 DEF NewestAlone
<1>8. CASE Fails
    <2>1. UNCHANGED <<pc, conf, token, dump>> /\ doing' = Off
        BY <1>8 DEF Fails, Logged, Resetting
    <2>2. ~pool'.half \/ pool' = pool
        BY <1>8 DEF Fails, Logged, Resetting
    <2> QED
        BY <1>b, <2>1, <2>2 DEF NewestAlone
<1>9. CASE Start
    BY <1>b, <1>9 DEF Start, NewRun, NewestAlone
<1>10. CASE Stop
    BY <1>b, <1>10 DEF Stop, Ends, NewestAlone
<1>11. CASE BackUp
    BY <1>b, <1>11 DEF BackUp, NewestAlone
<1>12. CASE SaveConf
    BY <1>b, <1>12 DEF SaveConf, NewestAlone
<1>13. CASE SetOff
    BY <1>b, <1>13 DEF SetOff, NewestAlone
<1>14. CASE Revert
    <2>1. conf' = conf
        BY <1>14 DEF Revert, PutBackFile, Upset, Orderly
    <2> QED
        BY <1>b, <2>1, <1>14 DEF Revert, NewestAlone
<1>15. CASE Press
    <2>1. conf = Off
        BY <1>15 DEF Press, Upset, Orderly
    <2> QED
        BY <1>b, <2>1, <1>15 DEF Press, Go, NewestAlone
<1>16. CASE Enrol
    <2>1. pc = "enrol" /\ pc' \in {"write", "idle"} /\ UNCHANGED <<conf, doing, token>>
        BY <1>16 DEF Enrol, Go, End
    <2> QED
        BY <1>b, <2>1 DEF NewestAlone
<1>17. CASE WriteKey
    <2>1. pc = "write" /\ pc' \in {"written", "idle"} /\ conf' \in {conf, token'}
        BY <1>17 DEF WriteKey
    <2>2. doing' = Off
        BY <1>b, <1>17 DEF WriteKey, NewestAlone
    <2> QED
        BY <1>b, <2>1, <2>2 DEF NewestAlone
<1>18. CASE CancelOrRestart
    <2>1. UNCHANGED <<conf, token, pool>> /\ doing' \in {Off, doing} /\ pc \notin {"idle", "load"}
        BY <1>18 DEF CancelOrRestart
    <2>2. pc' \notin {"enrol", "write", "load"}
        BY <1>18 DEF CancelOrRestart, CalledOffHere, Go
    <2>3. pc' = "takeBack" => token \notin named
        BY <1>18 DEF CancelOrRestart, CalledOffHere, Go, Upset, Orderly
    <2> QED
        BY <1>b, <1>e, <2>1, <2>2, <2>3 DEF NewestAlone
<1>19. CASE StopTheWorld
    <2>1. UNCHANGED <<conf, token, pool>> /\ doing' \in {Off, doing} /\ pc \notin {"idle", "load"}
        BY <1>19 DEF StopTheWorld, Ends
    <2>2. pc' \notin {"enrol", "write", "load"}
        BY <1>19 DEF StopTheWorld, CalledOffHere, Go, Ends
    <2>3. pc' = "takeBack" => token \notin named
        BY <1>19 DEF StopTheWorld, CalledOffHere, Go, Upset, Orderly, Ends
    <2> QED
        BY <1>b, <1>e, <2>1, <2>2, <2>3 DEF NewestAlone
<1>20. CASE StartTheWorld
    <2>1. UNCHANGED <<conf, token, pool>> /\ doing' \in {Off, doing} /\ pc \notin {"idle", "load"}
        BY <1>20 DEF StartTheWorld, NewRun
    <2>2. pc' \notin {"enrol", "write", "load"}
        BY <1>20 DEF StartTheWorld, CalledOffHere, Go, NewRun
    <2>3. pc' = "takeBack" => token \notin named
        BY <1>20 DEF StartTheWorld, CalledOffHere, Go, Upset, Orderly, NewRun
    <2> QED
        BY <1>b, <1>e, <2>1, <2>2, <2>3 DEF NewestAlone
<1>21. CASE StartFailed
    <2>1. UNCHANGED <<conf, token, pool>> /\ doing' \in {Off, doing} /\ pc \notin {"idle", "load"}
        BY <1>21 DEF StartFailed, End
    <2>2. pc' \notin {"enrol", "write", "load"}
        BY <1>21 DEF StartFailed, CalledOffHere, Go, End
    <2>3. pc' = "takeBack" => token \notin named
        BY <1>21 DEF StartFailed, CalledOffHere, Go, Upset, Orderly, End
    <2> QED
        BY <1>b, <1>e, <2>1, <2>2, <2>3 DEF NewestAlone
<1>22. CASE StopFailed
    BY <1>b, <1>22 DEF StopFailed, NewestAlone
<1>23. CASE StopRead
    <2>1. UNCHANGED <<conf, token, pool, doing>> /\ pc = "stopRead"
        BY <1>23 DEF StopRead
    <2>2. pc' \notin {"enrol", "write", "load"} /\ (pc' = "takeBack" => Planned = "other")
        BY <1>23 DEF StopRead, CalledOff, PlannedInAll, Go, End
    <2>3. Planned = "other" => log.plan \notin {"none", "scheduled"}
        BY <1>0 DEF Planned, Logs
    <2> QED
        BY <1>b, <1>f, <2>1, <2>2, <2>3 DEF NewestAlone
<1>24. CASE Watch
    <2>1. UNCHANGED <<conf, token, pool, doing>> /\ pc = "watch"
        BY <1>24 DEF Watch
    <2>2. pc' \notin {"enrol", "write", "load"}
        BY <2>1, <1>24 DEF Watch, TakeBackAs, End
    <2>3. pc' = "takeBack" => \/ Planned = "other" \/ Final \in {"applied", "refused"}
                              \/ FinalInAll # "nothing"
        BY <2>1, <1>24 DEF Watch, TakeBackAs, End
    <2>4. Planned = "other" => log.plan \notin {"none", "scheduled"}
        BY <1>0 DEF Planned, Logs
    <2>5. Final = "applied" => log.plan = "already" \/ log.end = "applied"
        BY DEF Final
    <2>6. Final = "refused" => log.plan \in {"off", "refused", "already"} \/ log.end = "aborted"
        BY DEF Final
    <2>7. FinalInAll # "nothing" => log.plan = "refused" \/ token \in done
        BY DEF FinalInAll
    <2> QED
        BY <1>b, <1>f, <2>1, <2>2, <2>3, <2>4, <2>5, <2>6, <2>7 DEF NewestAlone
<1>25. CASE WatchEnds
    BY <1>b, <1>25 DEF WatchEnds, End, NewestAlone
<1>26. CASE TakeBack
    <2>1. pc = "takeBack" /\ pc' = "idle" /\ conf' \in {Off, conf} /\ UNCHANGED <<token, doing>>
        BY <1>26 DEF TakeBack, End
    <2> QED
        BY <1>b, <2>1 DEF NewestAlone
<1>27. CASE Die
    BY <1>b, <1>27 DEF Die, End, NewestAlone
<1>28. CASE Restore
    <2>1. ~dump.half
        BY <1>28 DEF Restore, Upset, Orderly
    <2>2. doing = Off
        BY <1>d, <1>28 DEF Restore
    <2> QED
        BY <1>b, <2>1, <2>2, <1>28 DEF Restore, BeforeRestore, NewestAlone
<1>29. CASE Load
    <2>1. Fine /\ UNCHANGED <<conf, token, doing>> /\ pc' = "idle"
        BY <1>29 DEF Load, End, Upset, Orderly
    <2> QED
        BY <1>b, <2>1 DEF NewestAlone
<1>30. CASE DieLoading
    BY <1>30 DEF DieLoading, Upset, Orderly
<1>31. CASE UNCHANGED vars
    BY <1>b, <1>31 DEF vars, NewestAlone
<1> QED
    BY <1>1, <1>2, <1>3, <1>4, <1>5, <1>6, <1>7, <1>8, <1>9, <1>10, <1>11, <1>12, <1>13, <1>14,
       <1>15, <1>16, <1>17, <1>18, <1>19, <1>20, <1>21, <1>22, <1>23, <1>24, <1>25, <1>26, <1>27,
       <1>28, <1>29, <1>30, <1>31
       DEF Next, WorldStep, PlayerStep, PressStep

\* In order, half a pool keeps its request.
LEMMA HalfStep == Inv /\ KeepInv /\ [Next]_vars /\ Orderly' => HalfHasRequest'
<1> SUFFICES ASSUME Inv, KeepInv, [Next]_vars, Orderly' PROVE HalfHasRequest'
    OBVIOUS
<1>0. /\ conf \in Nat /\ token \in Nat /\ doing \in Nat /\ log \in Logs /\ pool \in Pools
      /\ dump \in Pools /\ (pc \notin {"idle", "enrol", "write", "load"} => token # Off)
    BY PoolResetAssumption
       DEF Inv, Typed, FileOK, DatabaseOK, ServerOK, PressOK, Tokens
<1>a. Orderly
    BY HappenedGrows DEF Orderly
<1>b. NewestAlone /\ HalfHasRequest
    BY <1>a DEF KeepInv
<1>c. NamedInv
    BY DEF KeepInv
<1>d. /\ doing # Off => doing \notin done /\ world = "planned" /\ doing # pool.record
      /\ conf # Off /\ conf \in done => pool.record = conf
      /\ pc = "load" => conf = Off /\ world = "down"
    BY <1>0 DEF Inv, TokenInv, TruthInv, Newest
<1> USE DEF file, database, server, readings, told, deeds
<1>1. CASE \E to \in {"down", "restarting"} : Crash(to)
    BY <1>b, <1>1 DEF Crash, Ends, HalfHasRequest
<1>2. CASE Revive
    BY <1>b, <1>2 DEF Revive, NewRun, NoLog, HalfHasRequest
<1>3. CASE PlanNothing
    <2>1. UNCHANGED <<pc, conf, token, pool>> /\ world = "booting" /\ named \subseteq named'
        BY <1>3 DEF PlanNothing, Plans
    <2>2. conf = Off \/ conf = pool.record
        BY <1>3 DEF PlanNothing
    <2> QED
        BY <1>b, <1>d, <2>1, <2>2 DEF HalfHasRequest
<1>4. CASE PlanReset
    BY <1>b, <1>4 DEF PlanReset, Plans, HalfHasRequest
<1>5. CASE PlanRefused
    <2>1. UNCHANGED <<pc, conf, token, pool>> /\ named \subseteq named'
        BY <1>5 DEF PlanRefused, Plans
    <2>2. ~Balks
        BY <1>5 DEF PlanRefused, Upset, Orderly
    <2> QED
        BY <1>b, <2>1, <2>2 DEF HalfHasRequest, Balks
<1>6. CASE Delete
    <2>1. UNCHANGED <<pc, conf, token, log, named>> /\ pool' = [pool EXCEPT !.half = TRUE]
        BY <1>6 DEF Delete
    <2>2. doing # Off /\ conf = doing /\ conf = token
        BY <1>b, <1>6 DEF Delete, Resetting, NewestAlone
    <2>3. pool'.record = pool.record
        BY <1>0, <2>1 DEF Pools
    <2> QED
        BY <1>c, <1>d, <2>1, <2>2, <2>3 DEF HalfHasRequest, NamedInv
<1>7. CASE Applied
    BY <1>7 DEF Applied, Whole, HalfHasRequest
<1>8. CASE Fails
    <2>1. UNCHANGED <<pc, conf, token, pool, named>> /\ doing # Off
        BY <1>8 DEF Fails, Resetting
    <2>2. CASE log' = [log EXCEPT !.end = "failed"]
        BY <1>0, <1>b, <2>1, <2>2 DEF HalfHasRequest, Logs
    <2>3. CASE ~Balks
        BY <1>b, <2>1, <2>3 DEF HalfHasRequest, Balks
    <2> QED
        BY <2>2, <2>3, <1>8 DEF Fails, Logged, Upset, Orderly
<1>9. CASE Start
    BY <1>b, <1>9 DEF Start, NewRun, HalfHasRequest
<1>10. CASE Stop
    BY <1>b, <1>10 DEF Stop, Ends, HalfHasRequest
<1>11. CASE BackUp
    BY <1>b, <1>11 DEF BackUp, HalfHasRequest
<1>12. CASE SaveConf
    BY <1>b, <1>12 DEF SaveConf, HalfHasRequest
<1>13. CASE SetOff
    BY <1>b, <1>13 DEF SetOff, HalfHasRequest
<1>14. CASE Revert
    <2>1. conf' = conf
        BY <1>14 DEF Revert, PutBackFile, Upset, Orderly
    <2> QED
        BY <1>b, <2>1, <1>14 DEF Revert, HalfHasRequest
<1>15. CASE Press
    <2>1. conf = Off
        BY <1>15 DEF Press, Upset, Orderly
    <2> QED
        BY <1>b, <2>1, <1>15 DEF Press, HalfHasRequest
<1>16. CASE Enrol
    BY <1>b, <1>16 DEF Enrol, NewestAlone, HalfHasRequest
<1>17. CASE WriteKey
    BY <1>b, <1>17 DEF WriteKey, NewestAlone, HalfHasRequest
<1>18. CASE CancelOrRestart
    <2>1. UNCHANGED <<conf, token, pool, named>> /\ pc \notin {"idle", "load"}
        BY <1>18 DEF CancelOrRestart, NewRun, Ends
    <2>2. log' \in {log, NoLog}
        BY <1>18 DEF CancelOrRestart, NewRun, Ends
    <2> QED
        BY <1>b, <2>1, <2>2 DEF HalfHasRequest, NoLog
<1>19. CASE StopTheWorld
    <2>1. UNCHANGED <<conf, token, pool, named>> /\ pc \notin {"idle", "load"}
        BY <1>19 DEF StopTheWorld, NewRun, Ends
    <2>2. log' \in {log, NoLog}
        BY <1>19 DEF StopTheWorld, NewRun, Ends
    <2> QED
        BY <1>b, <2>1, <2>2 DEF HalfHasRequest, NoLog
<1>20. CASE StartTheWorld
    <2>1. UNCHANGED <<conf, token, pool, named>> /\ pc \notin {"idle", "load"}
        BY <1>20 DEF StartTheWorld, NewRun, Ends
    <2>2. log' \in {log, NoLog}
        BY <1>20 DEF StartTheWorld, NewRun, Ends
    <2> QED
        BY <1>b, <2>1, <2>2 DEF HalfHasRequest, NoLog
<1>21. CASE StartFailed
    <2>1. UNCHANGED <<conf, token, pool, named>> /\ pc \notin {"idle", "load"}
        BY <1>21 DEF StartFailed, NewRun, Ends
    <2>2. log' \in {log, NoLog}
        BY <1>21 DEF StartFailed, NewRun, Ends
    <2> QED
        BY <1>b, <2>1, <2>2 DEF HalfHasRequest, NoLog
<1>22. CASE StopFailed
    BY <1>b, <1>22 DEF StopFailed, HalfHasRequest
<1>23. CASE StopRead
    <2>1. UNCHANGED <<conf, token, pool, named>> /\ pc \notin {"idle", "load"}
        BY <1>23 DEF StopRead, NewRun, Ends
    <2>2. log' \in {log, NoLog}
        BY <1>23 DEF StopRead, NewRun, Ends
    <2> QED
        BY <1>b, <2>1, <2>2 DEF HalfHasRequest, NoLog
<1>24. CASE Watch
    <2>1. UNCHANGED <<conf, token, pool, named>> /\ pc \notin {"idle", "load"}
        BY <1>24 DEF Watch, NewRun, Ends
    <2>2. log' \in {log, NoLog}
        BY <1>24 DEF Watch, NewRun, Ends
    <2> QED
        BY <1>b, <2>1, <2>2 DEF HalfHasRequest, NoLog
<1>25. CASE WatchEnds
    BY <1>b, <1>25 DEF WatchEnds, End, HalfHasRequest
<1>26. CASE TakeBack
    BY <1>b, <1>26 DEF TakeBack, NewestAlone, HalfHasRequest
<1>27. CASE Die
    BY <1>b, <1>27 DEF Die, End, HalfHasRequest
<1>28. CASE Restore
    BY <1>b, <1>28 DEF Restore, HalfHasRequest
<1>29. CASE Load
    <2>1. pool' = dump /\ pc = "load"
        BY <1>29 DEF Load, Loaded, Upset, Orderly
    <2> QED
        BY <1>b, <2>1 DEF NewestAlone, HalfHasRequest
<1>30. CASE DieLoading
    BY <1>30 DEF DieLoading, Upset, Orderly
<1>31. CASE UNCHANGED vars
    BY <1>b, <1>31 DEF vars, HalfHasRequest
<1> QED
    BY <1>1, <1>2, <1>3, <1>4, <1>5, <1>6, <1>7, <1>8, <1>9, <1>10, <1>11, <1>12, <1>13, <1>14,
       <1>15, <1>16, <1>17, <1>18, <1>19, <1>20, <1>21, <1>22, <1>23, <1>24, <1>25, <1>26, <1>27,
       <1>28, <1>29, <1>30, <1>31
       DEF Next, WorldStep, PlayerStep, PressStep

\* What the player was told is called off does not happen, at this start of the world or a
\* later one, however often the rebuild is pressed and whatever else fails, but for the upsets
\* that the property names: a press only says so of a token that no run has begun, and leaves
\* the file without it.
THEOREM CalledOffStaysOff == Spec => []CalledOffNeverRuns
<1>1. Init => CallInv
    <2> SUFFICES ASSUME Init PROVE CallInv
        OBVIOUS
    <2>1. NamedInv
        BY DEF Init, NamedInv, Off
    <2>2. AllGone
        BY DEF Init, AllGone
    <2>3. PressKnows
        BY DEF Init, PressKnows, Pressed
    <2> QED
        BY <2>1, <2>2, <2>3 DEF CallInv, GoneInv, SeenInv
<1>2. Inv /\ CallInv /\ [Next]_vars => CallInv'
    <2> SUFFICES ASSUME Inv, CallInv, [Next]_vars PROVE CallInv'
        OBVIOUS
    <2>1. NamedInv'
        BY NamedStep DEF CallInv
    <2> QED
        BY <2>1, GoneStep, SeenStep DEF CallInv
<1>3. CallInv => CalledOffNeverRuns
    BY DEF CallInv, GoneInv, AllGone, Unread, CalledOffNeverRuns
<1> QED
    BY <1>1, <1>2, <1>3, Invariance, PTL DEF Spec

\* Where the deletion of the bots stopped part-way, the file still asks for it, and for a token
\* that the database does not have: the next start goes on with it, after any number of
\* crashes, failed presses and refused writes.
THEOREM HalfPoolIsAskedFor == Spec => []HalfPoolKeepsItsRequest
<1>1. Init => KeepInv
    <2> SUFFICES ASSUME Init PROVE KeepInv
        OBVIOUS
    <2>1. NamedInv
        BY DEF Init, NamedInv, Off
    <2>2. NewestAlone
        BY DEF Init, NewestAlone, Off
    <2>3. HalfHasRequest
        BY DEF Init, HalfHasRequest, Whole
    <2> QED
        BY <2>1, <2>2, <2>3 DEF KeepInv
<1>2. Inv /\ KeepInv /\ [Next]_vars => KeepInv'
    <2> SUFFICES ASSUME Inv, KeepInv, [Next]_vars PROVE KeepInv'
        OBVIOUS
    <2>1. NamedInv'
        BY NamedStep DEF KeepInv
    <2> QED
        BY <2>1, AloneStep, HalfStep DEF KeepInv
<1>3. KeepInv => HalfPoolKeepsItsRequest
    BY DEF KeepInv, HalfHasRequest, Orderly, HalfPoolKeepsItsRequest
<1> QED
    BY <1>1, <1>2, <1>3, Invariance, PTL DEF Spec

=============================================================================
