---------------------------- MODULE MCServerHold ----------------------------
(* Small instances of ServerHold: two Yu'lons; a restore r and another job x *)
(* in one of them, and a job y or a second restore q in the other.           *)
EXTENDS ServerHold

CONSTANTS A, B, r, x, y, q

HomeOfEach == [j \in {r, x, y} |-> IF j \in {r, x} THEN A ELSE B]
EachMayBe  == [j \in {r, x, y} |-> CASE j = r -> {"restore"}
                                         [] j = x -> {"write", "backup", "start", "stop"}
                                         [] j = y -> {"start", "stop", "write", "backup"}]

\* A Yu'lon that is quit in the middle of a restore, and a press of its next run.
HomeOfFew == [j \in {r, x, y} |-> IF j \in {r, x} THEN A ELSE B]
FewMayBe  == [j \in {r, x, y} |-> CASE j = r -> {"restore"}
                                        [] j = x -> {"start"}
                                        [] j = y -> {"stop"}]

HomeOfRestores == [j \in {r, q} |-> IF j = r THEN A ELSE B]
Restores       == [j \in {r, q} |-> {"restore"}]
=============================================================================
