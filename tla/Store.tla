------------------------------- MODULE Store -------------------------------
(***************************************************************************)
(* store.Store (src/store/store.go): the last successfully extracted       *)
(* version of every package, in memory and in state/store.json.  0 stands  *)
(* for "never seen".  The file is replaced by a rename, so what is visible *)
(* on disk is one whole map or the next.                                   *)
(***************************************************************************)
EXTENDS Emulators

VARIABLES
    storeData,  \* Store.data, lost with the process
    storeFile   \* state/store.json

storeVars == <<storeData, storeFile>>

StoreTypeOK ==
    /\ storeData \in [Pkg -> Codes0]
    /\ storeFile \in [Pkg -> Codes0]

StoreInit ==
    /\ storeData = [p \in Pkg |-> 0]
    /\ storeFile = [p \in Pkg |-> 0]

(* Open reads the file; a missing file is an empty store. *)
Open ==
    /\ storeData' = storeFile
    /\ UNCHANGED storeFile

GetLastKnown(p) == storeData[p]

(* SetLastKnown changes the map, then flushes the whole map to the file. *)
SetLastKnown(p, c) ==
    /\ storeData' = [storeData EXCEPT ![p] = c]
    /\ storeFile' = storeData'

(* Mutant: a failed flush takes the change of the map back. *)
SetLastKnownRollsBack(p, c) == UNCHANGED storeVars

(* A flush that fails keeps the change in memory: nothing is rolled back. *)
SetLastKnownFails(p, c) ==
    /\ storeData' = [storeData EXCEPT ![p] = c]
    /\ UNCHANGED storeFile
=============================================================================
