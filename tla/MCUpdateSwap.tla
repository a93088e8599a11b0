---------------------------- MODULE MCUpdateSwap ----------------------------
(* Small instances of UpdateSwap.                                           *)
EXTENDS UpdateSwap

\* The executable, a folder and a file the old build ships, and a folder only
\* the new one brings.
MCEntries == {"yulon", "internal", "licence", "extra"}
MCShipped == {"yulon", "internal", "licence"}
MCFolders == {"internal", "extra"}

\* The executable and a folder, for the run in which everything may go wrong.
MCFewEntries == {"yulon", "internal"}
MCFewFolders == {"internal"}
=============================================================================
