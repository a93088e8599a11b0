----------------------------- MODULE MCRebuild -----------------------------
(* A small instance of Rebuild: two images, a few builds, one edit, two upsets. *)
EXTENDS Rebuild
=============================================================================
