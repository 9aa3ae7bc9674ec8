------------------------------- MODULE MCApi -------------------------------
(* Instances of Api for TLC: the package that config.yaml begins with.     *)
EXTENDS Api

CONSTANT p1
=============================================================================
