---------------------------- MODULE MCPackages -----------------------------
(* Instances of Packages for TLC: the names are interchangeable but for    *)
(* the one config.yaml lists.                                              *)
EXTENDS Packages

CONSTANTS p1, p2
=============================================================================
