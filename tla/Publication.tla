---------------------------- MODULE Publication ----------------------------
(***************************************************************************)
(* What the service promises to a reader of the output directory, to the   *)
(* sink and to its own next run, whatever the emulators do: versions       *)
(* appear, are announced, are recorded in this order; an old one goes      *)
(* only when a newer one stays; a restart falls back on what was saved.    *)
(* Watcher implements it.                                                  *)
(***************************************************************************)
EXTENDS Naturals

CONSTANTS Pkg, Code

VARIABLES
    stored,     \* stored[p]: the versions of p in the output directory
    told,       \* told[p]: the versions the sink has been called with
    known,      \* known[p]: the version recorded by the running service
    saved       \* saved[p]: the version a restart will know

pubVars == <<stored, told, known, saved>>

Init ==
    /\ stored = [p \in Pkg |-> {}]
    /\ told = [p \in Pkg |-> {}]
    /\ known = [p \in Pkg |-> 0]
    /\ saved = [p \in Pkg |-> 0]

Has(p, c) == \E d \in stored[p] : d >= c

(* A version newer than the recorded one is written. *)
Publish(p, c) ==
    /\ c > known[p]
    /\ stored' = [stored EXCEPT ![p] = @ \cup {c}]
    /\ UNCHANGED <<told, known, saved>>

(* A version is pruned; a newer one stays. *)
Withdraw(p, c) ==
    /\ \E d \in stored[p] : d > c
    /\ stored' = [stored EXCEPT ![p] = @ \ {c}]
    /\ UNCHANGED <<told, known, saved>>

(* The sink is called for a version that is there and not yet recorded. *)
Tell(p, c) ==
    /\ c > known[p]
    /\ Has(p, c)
    /\ told' = [told EXCEPT ![p] = @ \cup {c}]
    /\ UNCHANGED <<stored, known, saved>>

(* A version that is there and was announced is recorded; saving it may    *)
(* fail, and a later one saves it too.                                     *)
Record(p, c) ==
    /\ c > known[p]
    /\ Has(p, c)
    /\ c \in told[p]
    /\ known' = [known EXCEPT ![p] = c]
    /\ saved' \in {saved, known'}
    /\ UNCHANGED <<stored, told>>

Restart ==
    /\ known' = saved
    /\ UNCHANGED <<stored, told, saved>>

Next ==
    \/ \E p \in Pkg, c \in Code :
        Publish(p, c) \/ Withdraw(p, c) \/ Tell(p, c) \/ Record(p, c)
    \/ Restart

Spec == Init /\ [][Next]_pubVars
=============================================================================
