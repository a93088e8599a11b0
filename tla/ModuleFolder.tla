---------------------------- MODULE ModuleFolder ----------------------------
(***************************************************************************)
(* What replacing a module folder promises: a module is at any moment       *)
(* nothing, one version whole, or what a removal left half way; an install  *)
(* changes which version in one step, and only a removal loses files.       *)
(* Nothing here is translated from code: FolderSwap is shown to implement   *)
(* it.                                                                      *)
(***************************************************************************)
CONSTANTS Versions,   \* the versions of the module a player may install
          Nothing,    \* no copy of the module
          Broken      \* a copy some of whose files are gone

VARIABLES folder,     \* the copy of the module the server has
          removing    \* whether a removal is deleting it

vars == <<folder, removing>>

Init == folder = Nothing /\ removing = FALSE

Install == ~removing /\ folder' \in Versions /\ UNCHANGED removing

StartRemoving == ~removing /\ removing' = TRUE /\ UNCHANGED folder

RemoveFiles ==
    /\ removing
    /\ folder' = Nothing \/ (folder # Nothing /\ folder' = Broken)
    /\ removing' \in BOOLEAN

StopRemoving == removing /\ removing' = FALSE /\ UNCHANGED folder

Next == Install \/ StartRemoving \/ RemoveFiles \/ StopRemoving

Spec == Init /\ [][Next]_vars
=============================================================================
