---------------------------- MODULE MCFolderSwap ----------------------------
(* A small instance of FolderSwap: three versions, so that two can be on    *)
(* disk while a third is copied.                                            *)
EXTENDS FolderSwap

MCVersions == {"v1", "v2", "v3"}
=============================================================================
