----------------------------- MODULE MCWatcher -----------------------------
(***************************************************************************)
(* Instances of Watcher for TLC.                                           *)
(***************************************************************************)
EXTENDS WatcherClaims, TLC

CONSTANTS e1, e2, p1, p2, base, split1, split2

(* e1 installs a single APK at code 1 and splits from code 2 on; e2, with  *)
(* another ABI, always installs splits.  base is shared.                   *)
TwoLayouts ==
    (e1 :> [c \in 1..MaxCode |-> IF c = 1 THEN {base} ELSE {base, split1}]) @@
    (e2 :> [c \in 1..MaxCode |-> {base, split2}])

TwoClients == <<e1, e2>>
OnePackage == <<p1>>
TwoPackages == <<p1, p2>>

OneLayout == e1 :> [c \in 1..MaxCode |-> IF c = 1 THEN {base} ELSE {base, split1}]
OneClient == <<e1>>
=============================================================================
