--------------------------- MODULE RealmFlagProofs ---------------------------
(* Theorems about RealmFlag: its types, and that the Keeper of the dashboard  *)
(* leaves a realm offline that a press holds offline, for any number of runs  *)
(* of the world, any failing calls, and any order of the calls of both.       *)
EXTENDS RealmFlag, TLAPS

\* What a press that holds the realm may rely on: nothing is marked before its own mark,
\* its mark is written to a database that is up, and the database stays up to its end.
MarkInv ==
    /\ job = "look" => ~meant
    /\ job = "mark" => db
    /\ hold /\ meant => db \/ job = "leave"

Inv == TypeOK /\ MarkInv /\ AHoldOutlastsTheTick

\* What a tick reads and remembers, kept by name in the steps below.
LEMMA ReadingsAndSpells ==
    ASSUME TypeOK
    PROVE  /\ NoRead \in Readings /\ NoMark \in Spells
           /\ [status |-> Status, run |-> run] \in Readings
           /\ <<seen.status, seen.run>> \in Spells
BY RealmFlagAssumption
   DEF TypeOK, NoRead, NoMark, None, Readings, Spells, Statuses, Status, Running, Loading, Phases

\* The invariant holds at the start.
LEMMA InitInv == Init => Inv
<1> SUFFICES ASSUME Init PROVE Inv
    OBVIOUS
<1>1. NoRead \in Readings /\ NoMark \in Spells
    BY RealmFlagAssumption DEF NoRead, NoMark, None, Readings, Spells, Statuses
<1>2. TypeOK
    <2>1. hold <=> job # "idle" /\ Holds(kind)
        BY DEF Init
    <2>2. /\ hold \in BOOLEAN /\ kind \in Kinds /\ job \in JobSteps /\ tick \in TickSteps
          /\ seen \in Readings /\ marked \in Spells
        BY <1>1 DEF Init, Kinds, JobSteps, TickSteps
    <2>3. run \in 0 .. MaxRuns /\ readyRun \in 0 .. MaxRuns /\ faults \in 0 .. MaxFaults
        BY RealmFlagAssumption DEF Init, None
    <2> QED
        BY <2>1, <2>2, <2>3 DEF Init, TypeOK, Phases
<1> QED
    BY <1>2 DEF Init, Inv, MarkInv, AHoldOutlastsTheTick

\* Every step of the containers, of a press and of a tick keeps the invariant.
LEMMA NextInv == Inv /\ [Next]_vars => Inv'
<1> SUFFICES ASSUME Inv, [Next]_vars PROVE Inv'
    OBVIOUS
<1>0. /\ NoRead \in Readings /\ NoMark \in Spells
      /\ [status |-> Status, run |-> run] \in Readings
      /\ <<seen.status, seen.run>> \in Spells /\ None \in 0 .. MaxRuns
    BY ReadingsAndSpells, RealmFlagAssumption DEF Inv, None
<1> USE RealmFlagAssumption
    DEF Inv, TypeOK, MarkInv, AHoldOutlastsTheTick, Phases, Status, Running, Loading, Said,
        Holds, server, press, keeper
<1>1. CASE Revive
    <2>1. TypeOK'
        <3>1. /\ ordered' \in BOOLEAN /\ world' \in Phases /\ run' \in 0 .. MaxRuns
              /\ db' \in BOOLEAN /\ auth' \in {"down", "loading", "up"} /\ bit' \in BOOLEAN
            BY <1>1 DEF Revive, Starts, Holds
        <3>2. /\ hold' \in BOOLEAN /\ kind' \in Kinds /\ job' \in JobSteps
              /\ hold' <=> job' # "idle" /\ Holds(kind)'
            BY <1>1 DEF Revive, Starts, Holds
        <3>3. tick' \in TickSteps /\ moved' \in BOOLEAN
            BY <1>1 DEF Revive, Starts, Holds
        <3>4. seen' \in Readings /\ marked' \in Spells /\ readyRun' \in 0 .. MaxRuns
            BY <1>0, <1>1 DEF Revive, Starts, Holds
        <3>5. faults' \in 0 .. MaxFaults
            BY <1>1 DEF Revive
        <3>6. meant' \in BOOLEAN /\ early' \in BOOLEAN
            BY <1>1 DEF Revive, Starts, Holds
        <3> QED BY <3>1, <3>2, <3>3, <3>4, <3>5, <3>6
    <2>2. MarkInv'
        BY <1>0, <1>1 DEF Revive, Starts, Holds
    <2>3. AHoldOutlastsTheTick'
        BY <1>0, <1>1 DEF Revive, Starts, Holds
    <2> QED BY <2>1, <2>2, <2>3
<1>2. CASE SaysReady
    BY <1>0, <1>2 DEF SaysReady
<1>3. CASE Listens
    BY <1>0, <1>3 DEF Listens
<1>4. CASE AuthSaysReady
    BY <1>0, <1>4 DEF AuthSaysReady
<1>5. ASSUME NEW to \in {"restarting", "stopped"}, WorldEnds(to) PROVE Inv'
    BY <1>0, <1>5 DEF WorldEnds
<1>6. ASSUME NEW k \in Kinds, Press(k) PROVE Inv'
    <2>1. TypeOK'
        <3>1. kind' \in Kinds /\ job' \in JobSteps /\ meant' \in BOOLEAN
            BY <1>6 DEF Press, JobSteps
        <3>2. hold' \in BOOLEAN /\ moved' \in BOOLEAN
            BY <1>6 DEF Press, HoldMoves, KeepHold
        <3>3. hold' <=> job' # "idle" /\ Holds(kind)'
            BY <1>6 DEF Press, HoldMoves, KeepHold
        <3> QED BY <1>0, <1>6, <3>1, <3>2, <3>3 DEF Press
    <2>2. MarkInv'
        BY <1>6 DEF Press
    <2>3. AHoldOutlastsTheTick'
        BY <1>6 DEF Press
    <2> QED BY <2>1, <2>2, <2>3
<1>7. CASE LookToMark
    <2>1. db' \in BOOLEAN /\ job' \in {"work", "mark"}
        BY <1>7 DEF LookToMark
    <2>2. TypeOK'
        BY <1>0, <1>7, <2>1 DEF LookToMark, JobSteps
    <2>3. MarkInv'
        BY <1>7 DEF LookToMark, JobSteps
    <2>4. AHoldOutlastsTheTick'
        BY <1>7 DEF LookToMark, JobSteps
    <2> QED BY <2>2, <2>3, <2>4
<1>8. CASE Mark
    BY <1>0, <1>8 DEF Mark, JobSteps
<1>9. CASE WorldDown
    BY <1>0, <1>9 DEF WorldDown, JobSteps
<1>10. CASE RestDown
    <2>1. TypeOK'
      <3>1. job' = "leave" /\ job' \in JobSteps /\ UNCHANGED <<hold, kind, ordered>>
            /\ job # "idle"
          BY <1>10 DEF RestDown, JobSteps
      <3>2. hold' <=> job' # "idle" /\ Holds(kind)'
          BY <3>1
      <3> QED BY <1>0, <1>10, <3>1, <3>2 DEF RestDown
    <2>2. MarkInv'
        BY <1>0, <1>10 DEF RestDown, JobSteps
    <2>3. AHoldOutlastsTheTick'
        BY <1>0, <1>10 DEF RestDown, JobSteps
    <2> QED BY <2>1, <2>2, <2>3
<1>11. CASE ServersUp
    <2>1. TypeOK'
        <3>1. /\ ordered' \in BOOLEAN /\ world' \in Phases /\ run' \in 0 .. MaxRuns
              /\ db' \in BOOLEAN /\ auth' \in {"down", "loading", "up"} /\ bit' \in BOOLEAN
            BY <1>11 DEF ServersUp, Starts, JobSteps
        <3>2. /\ hold' \in BOOLEAN /\ kind' \in Kinds /\ job' \in JobSteps
              /\ hold' <=> job' # "idle" /\ Holds(kind)'
            BY <1>11 DEF ServersUp, Starts, JobSteps
        <3>3. tick' \in TickSteps /\ moved' \in BOOLEAN
            BY <1>11 DEF ServersUp, Starts, JobSteps
        <3>4. seen' \in Readings /\ marked' \in Spells /\ readyRun' \in 0 .. MaxRuns
            BY <1>0, <1>11 DEF ServersUp, Starts, JobSteps
        <3>5. faults' \in 0 .. MaxFaults
            BY <1>11 DEF ServersUp
        <3>6. meant' \in BOOLEAN /\ early' \in BOOLEAN
            BY <1>11 DEF ServersUp, Starts, JobSteps
        <3> QED BY <3>1, <3>2, <3>3, <3>4, <3>5, <3>6
    <2>2. MarkInv'
        BY <1>0, <1>11 DEF ServersUp, Starts, JobSteps
    <2>3. AHoldOutlastsTheTick'
        BY <1>0, <1>11 DEF ServersUp, Starts, JobSteps
    <2> QED BY <2>1, <2>2, <2>3
<1>12. CASE WorldHeard
    BY <1>0, <1>12 DEF WorldHeard, JobSteps
<1>13. CASE StartAuth
    BY <1>0, <1>13 DEF StartAuth, JobSteps
<1>14. CASE AuthHeard
    BY <1>0, <1>14 DEF AuthHeard, JobSteps
<1>15. CASE LookToOpen
    BY <1>0, <1>15 DEF LookToOpen, JobSteps
<1>16. CASE Open
    <2>1. TypeOK'
      <3>1. /\ bit' = FALSE /\ meant' = FALSE /\ early' \in BOOLEAN
            /\ job' = (IF kind = "start" THEN "idle" ELSE "leave")
            /\ UNCHANGED <<ordered, server, kind, hold, keeper, faults>> /\ job = "open"
          BY <1>0, <1>16 DEF Open, TakeOff
      <3>2. job' \in JobSteps /\ (hold' <=> job' # "idle" /\ Holds(kind)')
          BY <1>0, <3>1 DEF JobSteps, Holds
      <3> QED
          BY <1>0, <3>1, <3>2
    <2>2. MarkInv'
        BY <1>0, <1>16 DEF Open, TakeOff, JobSteps
    <2>3. AHoldOutlastsTheTick'
        BY <1>0, <1>16 DEF Open, TakeOff, JobSteps
    <2> QED
        BY <2>1, <2>2, <2>3
<1>17. CASE LookToPutBack
    BY <1>0, <1>17 DEF LookToPutBack, JobSteps
<1>18. CASE PutBack
    <2>1. TypeOK'
      <3>1. job' = "leave" /\ job' \in JobSteps /\ UNCHANGED <<hold, kind, ordered>>
            /\ job # "idle"
          BY <1>18 DEF PutBack, TakeOff, JobSteps
      <3>2. hold' <=> job' # "idle" /\ Holds(kind)'
          BY <3>1
      <3> QED BY <1>0, <1>18, <3>1, <3>2 DEF PutBack, TakeOff
    <2>2. MarkInv'
        BY <1>0, <1>18 DEF PutBack, TakeOff, JobSteps
    <2>3. AHoldOutlastsTheTick'
        BY <1>0, <1>18 DEF PutBack, TakeOff, JobSteps
    <2> QED BY <2>1, <2>2, <2>3
<1>19. CASE Leave
    <2>1. TypeOK'
      <3>1. /\ job' = "idle" /\ hold' \in BOOLEAN /\ moved' \in BOOLEAN /\ meant' = FALSE
            /\ UNCHANGED <<ordered, server, bit, kind, tick, seen, marked, readyRun, faults, early>>
          BY <1>19 DEF Leave, HoldMoves, KeepHold
      <3>2. hold' = FALSE
          BY <1>19 DEF Leave, HoldMoves, KeepHold
      <3> QED
          BY <1>0, <3>1, <3>2 DEF JobSteps
    <2>2. MarkInv'
        BY <1>0, <1>19 DEF Leave, HoldMoves, KeepHold
    <2>3. AHoldOutlastsTheTick'
        BY <1>0, <1>19 DEF Leave, HoldMoves, KeepHold
    <2> QED
        BY <2>1, <2>2, <2>3
<1>20. CASE PressCallFails
    BY <1>0, <1>20 DEF PressCallFails, JobSteps
<1>21. CASE GiveUp
    BY <1>0, <1>21 DEF GiveUp, JobSteps
<1>22. CASE BeginTick
    <2>1. TypeOK'
        BY <1>0, <1>22 DEF BeginTick, Go, TickSteps
    <2>2. MarkInv'
        BY <1>0, <1>22 DEF BeginTick, Go, TickSteps
    <2>3. AHoldOutlastsTheTick'
        BY <1>0, <1>22 DEF BeginTick, Go, TickSteps
    <2> QED BY <2>1, <2>2, <2>3
<1>23. CASE ReadContainer
    <2>1. TypeOK'
        <3>1. /\ ordered' \in BOOLEAN /\ world' \in Phases /\ run' \in 0 .. MaxRuns
              /\ db' \in BOOLEAN /\ auth' \in {"down", "loading", "up"} /\ bit' \in BOOLEAN
            BY <1>23 DEF ReadContainer, AfterTick, Reads, EndTick, TickSteps
        <3>2. /\ hold' \in BOOLEAN /\ kind' \in Kinds /\ job' \in JobSteps
              /\ hold' <=> job' # "idle" /\ Holds(kind)'
            BY <1>23 DEF ReadContainer, AfterTick, Reads, EndTick, TickSteps
        <3>3. tick' \in TickSteps /\ moved' \in BOOLEAN
            BY <1>23 DEF ReadContainer, AfterTick, Reads, EndTick, TickSteps
        <3>4. seen' \in Readings /\ marked' \in Spells /\ readyRun' \in 0 .. MaxRuns
            BY <1>0, <1>23 DEF ReadContainer, AfterTick, Reads, EndTick, TickSteps
        <3>5. faults' \in 0 .. MaxFaults
            BY <1>23 DEF ReadContainer
        <3>6. meant' \in BOOLEAN /\ early' \in BOOLEAN
            BY <1>23 DEF ReadContainer, AfterTick, Reads, EndTick, TickSteps
        <3> QED BY <3>1, <3>2, <3>3, <3>4, <3>5, <3>6
    <2>2. MarkInv'
        BY <1>0, <1>23 DEF ReadContainer, AfterTick, Reads, EndTick, TickSteps
    <2>3. AHoldOutlastsTheTick'
        BY <1>0, <1>23 DEF ReadContainer, AfterTick, Reads, EndTick, TickSteps
    <2> QED BY <2>1, <2>2, <2>3
<1>24. CASE LookToMarkAgain("markLook", "mark")
    <2>1. TypeOK'
        <3>1. /\ ordered' \in BOOLEAN /\ world' \in Phases /\ run' \in 0 .. MaxRuns
              /\ db' \in BOOLEAN /\ auth' \in {"down", "loading", "up"} /\ bit' \in BOOLEAN
            BY <1>24 DEF LookToMarkAgain, Go, EndTick, TickSteps
        <3>2. /\ hold' \in BOOLEAN /\ kind' \in Kinds /\ job' \in JobSteps
              /\ hold' <=> job' # "idle" /\ Holds(kind)'
            BY <1>24 DEF LookToMarkAgain, Go, EndTick, TickSteps
        <3>3. tick' \in TickSteps /\ moved' \in BOOLEAN
            BY <1>24 DEF LookToMarkAgain, Go, EndTick, TickSteps
        <3>4. seen' \in Readings /\ marked' \in Spells /\ readyRun' \in 0 .. MaxRuns
            BY <1>0, <1>24 DEF LookToMarkAgain, Go, EndTick, TickSteps
        <3>5. faults' \in 0 .. MaxFaults
            BY <1>24 DEF LookToMarkAgain
        <3>6. meant' \in BOOLEAN /\ early' \in BOOLEAN
            BY <1>24 DEF LookToMarkAgain, Go, EndTick, TickSteps
        <3> QED BY <3>1, <3>2, <3>3, <3>4, <3>5, <3>6
    <2>2. MarkInv'
        BY <1>0, <1>24 DEF LookToMarkAgain, Go, EndTick, TickSteps
    <2>3. AHoldOutlastsTheTick'
        BY <1>0, <1>24 DEF LookToMarkAgain, Go, EndTick, TickSteps
    <2> QED BY <2>1, <2>2, <2>3
<1>25. CASE KeeperMarks
    <2>1. TypeOK'
        <3>1. /\ ordered' \in BOOLEAN /\ world' \in Phases /\ run' \in 0 .. MaxRuns
              /\ db' \in BOOLEAN /\ auth' \in {"down", "loading", "up"} /\ bit' \in BOOLEAN
            BY <1>25 DEF KeeperMarks, Go, EndTick, TickSteps
        <3>2. /\ hold' \in BOOLEAN /\ kind' \in Kinds /\ job' \in JobSteps
              /\ hold' <=> job' # "idle" /\ Holds(kind)'
            BY <1>25 DEF KeeperMarks, Go, EndTick, TickSteps
        <3>3. tick' \in TickSteps /\ moved' \in BOOLEAN
            BY <1>25 DEF KeeperMarks, Go, EndTick, TickSteps
        <3>4. seen' \in Readings /\ marked' \in Spells /\ readyRun' \in 0 .. MaxRuns
            BY <1>0, <1>25 DEF KeeperMarks, Go, EndTick, TickSteps
        <3>5. faults' \in 0 .. MaxFaults
            BY <1>25 DEF KeeperMarks
        <3>6. meant' \in BOOLEAN /\ early' \in BOOLEAN
            BY <1>25 DEF KeeperMarks, Go, EndTick, TickSteps
        <3> QED BY <3>1, <3>2, <3>3, <3>4, <3>5, <3>6
    <2>2. MarkInv'
        BY <1>0, <1>25 DEF KeeperMarks, Go, EndTick, TickSteps
    <2>3. AHoldOutlastsTheTick'
        BY <1>0, <1>25 DEF KeeperMarks, Go, EndTick, TickSteps
    <2> QED BY <2>1, <2>2, <2>3
<1>26. CASE Heard
    <2>1. TypeOK'
        <3>1. /\ ordered' \in BOOLEAN /\ world' \in Phases /\ run' \in 0 .. MaxRuns
              /\ db' \in BOOLEAN /\ auth' \in {"down", "loading", "up"} /\ bit' \in BOOLEAN
            BY <1>26 DEF Heard, Go, EndTick, TickSteps
        <3>2. /\ hold' \in BOOLEAN /\ kind' \in Kinds /\ job' \in JobSteps
              /\ hold' <=> job' # "idle" /\ Holds(kind)'
            BY <1>26 DEF Heard, Go, EndTick, TickSteps
        <3>3. tick' \in TickSteps /\ moved' \in BOOLEAN
            BY <1>26 DEF Heard, Go, EndTick, TickSteps
        <3>4. seen' \in Readings /\ marked' \in Spells /\ readyRun' \in 0 .. MaxRuns
            BY <1>0, <1>26 DEF Heard, Go, EndTick, TickSteps
        <3>5. faults' \in 0 .. MaxFaults
            BY <1>26 DEF Heard
        <3>6. meant' \in BOOLEAN /\ early' \in BOOLEAN
            BY <1>26 DEF Heard, Go, EndTick, TickSteps
        <3> QED BY <3>1, <3>2, <3>3, <3>4, <3>5, <3>6
    <2>2. MarkInv'
        BY <1>0, <1>26 DEF Heard, Go, EndTick, TickSteps
    <2>3. AHoldOutlastsTheTick'
        BY <1>0, <1>26 DEF Heard, Go, EndTick, TickSteps
    <2> QED BY <2>1, <2>2, <2>3
<1>27. CASE ReadFlags
    <2>1. TypeOK'
        <3>1. /\ ordered' \in BOOLEAN /\ world' \in Phases /\ run' \in 0 .. MaxRuns
              /\ db' \in BOOLEAN /\ auth' \in {"down", "loading", "up"} /\ bit' \in BOOLEAN
            BY <1>27 DEF ReadFlags, Go, EndTick, TickSteps
        <3>2. /\ hold' \in BOOLEAN /\ kind' \in Kinds /\ job' \in JobSteps
              /\ hold' <=> job' # "idle" /\ Holds(kind)'
            BY <1>27 DEF ReadFlags, Go, EndTick, TickSteps
        <3>3. tick' \in TickSteps /\ moved' \in BOOLEAN
            BY <1>27 DEF ReadFlags, Go, EndTick, TickSteps
        <3>4. seen' \in Readings /\ marked' \in Spells /\ readyRun' \in 0 .. MaxRuns
            BY <1>0, <1>27 DEF ReadFlags, Go, EndTick, TickSteps
        <3>5. faults' \in 0 .. MaxFaults
            BY <1>27 DEF ReadFlags
        <3>6. meant' \in BOOLEAN /\ early' \in BOOLEAN
            BY <1>27 DEF ReadFlags, Go, EndTick, TickSteps
        <3> QED BY <3>1, <3>2, <3>3, <3>4, <3>5, <3>6
    <2>2. MarkInv'
        BY <1>0, <1>27 DEF ReadFlags, Go, EndTick, TickSteps
    <2>3. AHoldOutlastsTheTick'
        BY <1>0, <1>27 DEF ReadFlags, Go, EndTick, TickSteps
    <2> QED BY <2>1, <2>2, <2>3
<1>28. CASE Confirm
    <2>1. TypeOK'
        <3>1. /\ ordered' \in BOOLEAN /\ world' \in Phases /\ run' \in 0 .. MaxRuns
              /\ db' \in BOOLEAN /\ auth' \in {"down", "loading", "up"} /\ bit' \in BOOLEAN
            BY <1>28 DEF Confirm, Go, EndTick, TickSteps
        <3>2. /\ hold' \in BOOLEAN /\ kind' \in Kinds /\ job' \in JobSteps
              /\ hold' <=> job' # "idle" /\ Holds(kind)'
            BY <1>28 DEF Confirm, Go, EndTick, TickSteps
        <3>3. tick' \in TickSteps /\ moved' \in BOOLEAN
            BY <1>28 DEF Confirm, Go, EndTick, TickSteps
        <3>4. seen' \in Readings /\ marked' \in Spells /\ readyRun' \in 0 .. MaxRuns
            BY <1>0, <1>28 DEF Confirm, Go, EndTick, TickSteps
        <3>5. faults' \in 0 .. MaxFaults
            BY <1>28 DEF Confirm
        <3>6. meant' \in BOOLEAN /\ early' \in BOOLEAN
            BY <1>28 DEF Confirm, Go, EndTick, TickSteps
        <3> QED BY <3>1, <3>2, <3>3, <3>4, <3>5, <3>6
    <2>2. MarkInv'
        BY <1>0, <1>28 DEF Confirm, Go, EndTick, TickSteps
    <2>3. AHoldOutlastsTheTick'
        BY <1>0, <1>28 DEF Confirm, Go, EndTick, TickSteps
    <2> QED BY <2>1, <2>2, <2>3
<1>29. CASE Gate
    <2>1. TypeOK'
        <3>1. /\ ordered' \in BOOLEAN /\ world' \in Phases /\ run' \in 0 .. MaxRuns
              /\ db' \in BOOLEAN /\ auth' \in {"down", "loading", "up"} /\ bit' \in BOOLEAN
            BY <1>29 DEF Gate, Go, EndTick, TickSteps
        <3>2. /\ hold' \in BOOLEAN /\ kind' \in Kinds /\ job' \in JobSteps
              /\ hold' <=> job' # "idle" /\ Holds(kind)'
            BY <1>29 DEF Gate, Go, EndTick, TickSteps
        <3>3. tick' \in TickSteps /\ moved' \in BOOLEAN
            BY <1>29 DEF Gate, Go, EndTick, TickSteps
        <3>4. seen' \in Readings /\ marked' \in Spells /\ readyRun' \in 0 .. MaxRuns
            BY <1>0, <1>29 DEF Gate, Go, EndTick, TickSteps
        <3>5. faults' \in 0 .. MaxFaults
            BY <1>29 DEF Gate
        <3>6. meant' \in BOOLEAN /\ early' \in BOOLEAN
            BY <1>29 DEF Gate, Go, EndTick, TickSteps
        <3> QED BY <3>1, <3>2, <3>3, <3>4, <3>5, <3>6
    <2>2. MarkInv'
        BY <1>0, <1>29 DEF Gate, Go, EndTick, TickSteps
    <2>3. AHoldOutlastsTheTick'
        <3>1. tick = "gate" /\ UNCHANGED <<hold, meant, db, faults, bit>>
            BY <1>29 DEF Gate
        <3> HIDE DEF TypeOK, MarkInv, Phases, Said, Holds
        <3> QED BY <3>1
    <2> QED BY <2>1, <2>2, <2>3
<1>30. CASE KeeperClears
    <2>1. TypeOK'
        <3>1. tick' \in TickSteps /\ bit' = FALSE
            BY <1>30 DEF KeeperClears, Go, TickSteps
        <3>2. UNCHANGED <<ordered, world, run, db, auth, hold, kind, job, seen, moved, marked,
                          readyRun, faults, meant, early>>
            BY <1>30 DEF KeeperClears, Go
        <3>3. /\ hold' \in BOOLEAN /\ kind' \in Kinds /\ job' \in JobSteps
              /\ hold' <=> job' # "idle" /\ Holds(kind)'
            BY <3>2
        <3>4. /\ ordered' \in BOOLEAN /\ world' \in Phases /\ run' \in 0 .. MaxRuns
              /\ db' \in BOOLEAN /\ auth' \in {"down", "loading", "up"} /\ bit' \in BOOLEAN
            BY <3>1, <3>2
        <3>5. /\ tick' \in TickSteps /\ moved' \in BOOLEAN /\ meant' \in BOOLEAN
              /\ seen' \in Readings /\ marked' \in Spells /\ readyRun' \in 0 .. MaxRuns
              /\ faults' \in 0 .. MaxFaults /\ early' \in BOOLEAN
            BY <1>30, <3>1, <3>2 DEF KeeperClears
        <3> QED BY <3>3, <3>4, <3>5
    <2>2. MarkInv'
        BY <1>0, <1>30 DEF KeeperClears, Go, TickSteps
    <2>3. AHoldOutlastsTheTick'
        BY <1>0, <1>30 DEF KeeperClears, Go, TickSteps
    <2> QED BY <2>1, <2>2, <2>3
<1>31. CASE LookAgain
    <2>1. TypeOK'
        <3>1. /\ ordered' \in BOOLEAN /\ world' \in Phases /\ run' \in 0 .. MaxRuns
              /\ db' \in BOOLEAN /\ auth' \in {"down", "loading", "up"} /\ bit' \in BOOLEAN
            BY <1>31 DEF LookAgain, HeldOrMoved, Go, EndTick, TickSteps
        <3>2. /\ hold' \in BOOLEAN /\ kind' \in Kinds /\ job' \in JobSteps
              /\ hold' <=> job' # "idle" /\ Holds(kind)'
            BY <1>31 DEF LookAgain, HeldOrMoved, Go, EndTick, TickSteps
        <3>3. tick' \in TickSteps /\ moved' \in BOOLEAN
            BY <1>31 DEF LookAgain, HeldOrMoved, Go, EndTick, TickSteps
        <3>4. seen' \in Readings /\ marked' \in Spells /\ readyRun' \in 0 .. MaxRuns
            BY <1>0, <1>31 DEF LookAgain, HeldOrMoved, Go, EndTick, TickSteps
        <3>5. faults' \in 0 .. MaxFaults
            BY <1>31 DEF LookAgain
        <3>6. meant' \in BOOLEAN /\ early' \in BOOLEAN
            BY <1>31 DEF LookAgain, HeldOrMoved, Go, EndTick, TickSteps
        <3> QED BY <3>1, <3>2, <3>3, <3>4, <3>5, <3>6
    <2>2. MarkInv'
        BY <1>0, <1>31 DEF LookAgain, HeldOrMoved, Go, EndTick, TickSteps
    <2>3. AHoldOutlastsTheTick'
        BY <1>0, <1>31 DEF LookAgain, HeldOrMoved, Go, EndTick, TickSteps
    <2> QED BY <2>1, <2>2, <2>3
<1>32. CASE LookToMarkAgain("remarkLook", "remark")
    <2>1. TypeOK'
        <3>1. /\ ordered' \in BOOLEAN /\ world' \in Phases /\ run' \in 0 .. MaxRuns
              /\ db' \in BOOLEAN /\ auth' \in {"down", "loading", "up"} /\ bit' \in BOOLEAN
            BY <1>32 DEF LookToMarkAgain, Go, EndTick, TickSteps
        <3>2. /\ hold' \in BOOLEAN /\ kind' \in Kinds /\ job' \in JobSteps
              /\ hold' <=> job' # "idle" /\ Holds(kind)'
            BY <1>32 DEF LookToMarkAgain, Go, EndTick, TickSteps
        <3>3. tick' \in TickSteps /\ moved' \in BOOLEAN
            BY <1>32 DEF LookToMarkAgain, Go, EndTick, TickSteps
        <3>4. seen' \in Readings /\ marked' \in Spells /\ readyRun' \in 0 .. MaxRuns
            BY <1>0, <1>32 DEF LookToMarkAgain, Go, EndTick, TickSteps
        <3>5. faults' \in 0 .. MaxFaults
            BY <1>32 DEF LookToMarkAgain
        <3>6. meant' \in BOOLEAN /\ early' \in BOOLEAN
            BY <1>32 DEF LookToMarkAgain, Go, EndTick, TickSteps
        <3> QED BY <3>1, <3>2, <3>3, <3>4, <3>5, <3>6
    <2>2. MarkInv'
        BY <1>0, <1>32 DEF LookToMarkAgain, Go, EndTick, TickSteps
    <2>3. AHoldOutlastsTheTick'
        BY <1>0, <1>32 DEF LookToMarkAgain, Go, EndTick, TickSteps
    <2> QED BY <2>1, <2>2, <2>3
<1>33. CASE KeeperRemarks
    <2>1. TypeOK'
      <3>1. /\ bit' \in BOOLEAN /\ tick' \in TickSteps /\ seen' = NoRead /\ moved' \in BOOLEAN
            /\ UNCHANGED <<ordered, server, press, marked, readyRun, faults, meant, early>>
          BY <1>33 DEF KeeperRemarks, EndTick, TickSteps
      <3> QED
          BY <1>0, <3>1
    <2>2. MarkInv'
        BY <1>0, <1>33 DEF KeeperRemarks, EndTick, TickSteps
    <2>3. AHoldOutlastsTheTick'
        BY <1>0, <1>33 DEF KeeperRemarks, EndTick, TickSteps
    <2> QED BY <2>1, <2>2, <2>3
<1>34. CASE KeeperCallFails
    <2>1. TypeOK'
        <3>1. /\ ordered' \in BOOLEAN /\ world' \in Phases /\ run' \in 0 .. MaxRuns
              /\ db' \in BOOLEAN /\ auth' \in {"down", "loading", "up"} /\ bit' \in BOOLEAN
            BY <1>34 DEF KeeperCallFails, Go, EndTick, TickSteps
        <3>2. /\ hold' \in BOOLEAN /\ kind' \in Kinds /\ job' \in JobSteps
              /\ hold' <=> job' # "idle" /\ Holds(kind)'
            BY <1>34 DEF KeeperCallFails, Go, EndTick, TickSteps
        <3>3. tick' \in TickSteps /\ moved' \in BOOLEAN
            BY <1>34 DEF KeeperCallFails, Go, EndTick, TickSteps
        <3>4. seen' \in Readings /\ marked' \in Spells /\ readyRun' \in 0 .. MaxRuns
            BY <1>0, <1>34 DEF KeeperCallFails, Go, EndTick, TickSteps
        <3>5. faults' \in 0 .. MaxFaults
            BY <1>34 DEF KeeperCallFails
        <3>6. meant' \in BOOLEAN /\ early' \in BOOLEAN
            BY <1>34 DEF KeeperCallFails, Go, EndTick, TickSteps
        <3> QED BY <3>1, <3>2, <3>3, <3>4, <3>5, <3>6
    <2>2. MarkInv'
        BY <1>0, <1>34 DEF KeeperCallFails, Go, EndTick, TickSteps
    <2>3. AHoldOutlastsTheTick'
        BY <1>0, <1>34 DEF KeeperCallFails, Go, EndTick, TickSteps
    <2> QED BY <2>1, <2>2, <2>3
<1>35. CASE AppDies
    <2>1. TypeOK'
        <3>1. /\ ordered' \in BOOLEAN /\ world' \in Phases /\ run' \in 0 .. MaxRuns
              /\ db' \in BOOLEAN /\ auth' \in {"down", "loading", "up"} /\ bit' \in BOOLEAN
            BY <1>35 DEF AppDies, EndTick, TickSteps, JobSteps
        <3>2. /\ hold' \in BOOLEAN /\ kind' \in Kinds /\ job' \in JobSteps
              /\ hold' <=> job' # "idle" /\ Holds(kind)'
            BY <1>35 DEF AppDies, EndTick, TickSteps, JobSteps
        <3>3. tick' \in TickSteps /\ moved' \in BOOLEAN
            BY <1>35 DEF AppDies, EndTick, TickSteps, JobSteps
        <3>4. seen' \in Readings /\ marked' \in Spells /\ readyRun' \in 0 .. MaxRuns
            BY <1>0, <1>35 DEF AppDies, EndTick, TickSteps, JobSteps
        <3>5. faults' \in 0 .. MaxFaults
            BY <1>35 DEF AppDies
        <3>6. meant' \in BOOLEAN /\ early' \in BOOLEAN
            BY <1>35 DEF AppDies, EndTick, TickSteps, JobSteps
        <3> QED BY <3>1, <3>2, <3>3, <3>4, <3>5, <3>6
    <2>2. MarkInv'
        BY <1>0, <1>35 DEF AppDies, EndTick, TickSteps, JobSteps
    <2>3. AHoldOutlastsTheTick'
        BY <1>0, <1>35 DEF AppDies, EndTick, TickSteps, JobSteps
    <2> QED BY <2>1, <2>2, <2>3
<1>36. CASE UNCHANGED vars
    BY <1>36 DEF vars
<1>37. ASSUME NEW ready \in BOOLEAN, ReadNoLog(ready) PROVE Inv'
    <2>1. TypeOK'
        <3>1. /\ ordered' \in BOOLEAN /\ world' \in Phases /\ run' \in 0 .. MaxRuns
              /\ db' \in BOOLEAN /\ auth' \in {"down", "loading", "up"} /\ bit' \in BOOLEAN
            BY <1>37 DEF ReadNoLog, AfterTick, Reads, EndTick, TickSteps
        <3>2. /\ hold' \in BOOLEAN /\ kind' \in Kinds /\ job' \in JobSteps
              /\ hold' <=> job' # "idle" /\ Holds(kind)'
            BY <1>37 DEF ReadNoLog, AfterTick, Reads, EndTick, TickSteps
        <3>3. tick' \in TickSteps /\ moved' \in BOOLEAN
            BY <1>37 DEF ReadNoLog, AfterTick, Reads, EndTick, TickSteps
        <3>4. seen' \in Readings /\ marked' \in Spells /\ readyRun' \in 0 .. MaxRuns
            BY <1>0, <1>37 DEF ReadNoLog, AfterTick, Reads, EndTick, TickSteps
        <3>5. faults' \in 0 .. MaxFaults
            BY <1>37 DEF ReadNoLog
        <3>6. meant' \in BOOLEAN /\ early' \in BOOLEAN
            BY <1>37 DEF ReadNoLog, AfterTick, Reads, EndTick, TickSteps
        <3> QED BY <3>1, <3>2, <3>3, <3>4, <3>5, <3>6
    <2>2. MarkInv'
        BY <1>0, <1>37 DEF ReadNoLog, AfterTick, Reads, EndTick, TickSteps
    <2>3. AHoldOutlastsTheTick'
        BY <1>0, <1>37 DEF ReadNoLog, AfterTick, Reads, EndTick, TickSteps
    <2> QED BY <2>1, <2>2, <2>3
<1>38. CASE GrowsOld
    BY <1>0, <1>38 DEF GrowsOld
<1>39. CASE UpdateFails
    BY <1>0, <1>39 DEF UpdateFails
<1> QED
    BY <1>1, <1>2, <1>3, <1>4, <1>5, <1>6, <1>7, <1>8, <1>9, <1>10, <1>11, <1>12, <1>13,
       <1>14, <1>15, <1>16, <1>17, <1>18, <1>19, <1>20, <1>21, <1>22, <1>23, <1>24, <1>25,
       <1>26, <1>27, <1>28, <1>29, <1>30, <1>31, <1>32, <1>33, <1>34, <1>35, <1>36,
       <1>37, <1>38, <1>39
       DEF Next, JobStep, KeeperStep

\* And in every state: the inductive invariant that the theorems below take their facts from.
THEOREM Invariance == Spec => []Inv
BY InitInv, NextInv, PTL DEF Spec

\* The variables keep their shape, and a hold is in force exactly while a press that takes
\* one is running: no way out of a Stop or of a replace leaves the realm held.
THEOREM RealmFlagTyped == Spec => []TypeOK
<1>1. Inv => TypeOK
    BY DEF Inv
<1> QED BY Invariance, <1>1, PTL

\* A tick that runs into a Stop or a rebuild never leaves the realm listed online: what the
\* press has marked stays marked, whatever the Keeper had looked at before.
THEOREM RealmStaysHeld == Spec => []AHoldOutlastsTheTick
<1>1. Inv => AHoldOutlastsTheTick
    BY DEF Inv
<1> QED BY Invariance, <1>1, PTL
=============================================================================
