---------------------------- MODULE MCStartOver ----------------------------
(* A small instance of StartOver: two Yu'lons, one of which brings in.       *)
EXTENDS StartOver

\* The Yu'lons of one user, and of two.
OneUser  == [y \in Yulons |-> Yulons]
TwoUsers == [y \in Yulons |-> {y}]
=============================================================================
