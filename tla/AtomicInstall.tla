--------------------------- MODULE AtomicInstall ----------------------------
(***************************************************************************)
(* What an update promises of the install folder: it holds the old build or *)
(* the new one, or cannot be started at all.  A build is taken down before  *)
(* another is put up, and a new build, once up, stays.  UpdateSwap is shown *)
(* to implement this.                                                       *)
(***************************************************************************)
VARIABLE install

Init == install = "old"

TakeDown == install = "old" /\ install' = "none"

PutUp == install = "none" /\ install' \in {"old", "new"}

Next == TakeDown \/ PutUp

Spec == Init /\ [][Next]_install
=============================================================================
