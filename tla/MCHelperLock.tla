---------------------------- MODULE MCHelperLock ----------------------------
(* Small instances of HelperLock.                                           *)
EXTENDS HelperLock, TLC

\* Attempts are interchangeable.
AnyAttempt == Permutations(Attempts)

\* A helper is slow to get going: a virus scanner, a cold disk.
SlowToReport == {"start", "claim", "looked", "own", "pid", "stamp"}

\* A helper is held up anywhere but in the middle of taking the lock, of giving
\* it back and of moving.
BetweenTimes == {"start", "claim", "waiting", "lastLook", "lastCheck"}
=============================================================================
