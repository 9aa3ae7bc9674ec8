--------------------------- MODULE WatcherClaims ---------------------------
(***************************************************************************)
(* What the repository's documents and comments say of a running service,  *)
(* beyond what Watcher promises: properties of single-emulator deployments *)
(* that a second emulator breaks, statements the code does not keep, and   *)
(* the liveness of the poll loop.                                          *)
(***************************************************************************)
EXTENDS Watcher

(***************************************************************************)
(* latest.json holds "metadata for the most recent version"                *)
(* (README.md:342): it never goes back to an older one.                    *)
(***************************************************************************)
LatestNeverRegresses ==
    [][\A p \in Pkg : latest'[p].code >= latest[p].code]_vars

(***************************************************************************)
(* The file latest.json names exists, at every moment: through the prune,  *)
(* a failed extraction, a crash and the retry that follows.                *)
(***************************************************************************)
LatestNamesAFile ==
    \A p \in Pkg : latest[p].code # 0 =>
        \E f \in files : /\ f.pkg = p
                         /\ f.code = latest[p].code
                         /\ f.kind = latest[p].kind

-----------------------------------------------------------------------------
(* Why they hold with one emulator: the inductive invariant. *)

OneEmulator == \A d, e \in Emu : d = e

(* Version c of p is at least as new as everything on disk. *)
Newest(p, c) ==
    /\ latest[p].code <= c
    /\ \A f \in files : f.pkg = p => f.code <= c

(***************************************************************************)
(* Nothing on disk is ahead of the emulator, so neither is it ahead of an  *)
(* answer, nor of the version extracted because of that answer.            *)
(***************************************************************************)
NeverAhead ==
    /\ \A e \in Emu, p \in Pkg : Newest(p, installed[e][p])
    /\ pc = "query" =>
         \A e \in Emu : answers[e] # 0 => Newest(cur, answers[e])
    /\ pc \in ExtractorPc => voters # {} /\ Newest(cur, agreed)

(***************************************************************************)
(* latest.json names the artifact just renamed, which is the newest of the *)
(* package; with Keep >= 2 the prune reaches neither 7.apk nor 7.xapk.     *)
(***************************************************************************)
LatestSpared ==
    /\ pc \in {"sum", "sumwrite", "latest", "latestrename"} =>
         \E f \in files : Names(f, OutPath)
    /\ pc \in {"prune", "remove"} => latest[cur].code = agreed
    /\ pc = "remove" => \A v \in victims : v.pkg = cur /\ ~IsLatest(v)

LatestInv ==
    /\ NeverAhead
    /\ LatestSpared
    /\ LatestNamesAFile

-----------------------------------------------------------------------------
(***************************************************************************)
(* The agreement "prevents producing a mismatched XAPK where the base APK  *)
(* is from a different version than the ABI splits" (README.md:516).       *)
(***************************************************************************)
OneVersionPerArtifact ==
    \A f \in files : \A s, t \in f.splits : s.ver = t.ver

(***************************************************************************)
(* Installers "receive the right splits for each device automatically"     *)
(* (README.md:323): an XAPK holds every file of every ABI its manifest     *)
(* lists.                                                                  *)
(***************************************************************************)
ArchitecturesCovered ==
    \A f \in files : \A e \in f.abis :
        Layout[e][f.code] \subseteq SplitNames(f.splits)

-----------------------------------------------------------------------------
(* The versions of p in the output directory, as a reader sees them. *)
Stored == [p \in Pkg |-> {c \in Code : \E f \in files : f.pkg = p /\ f.code = c}]

Published == INSTANCE Publication
    WITH stored <- Stored, told <- offered, known <- storeData, saved <- storeFile

(***************************************************************************)
(* The service implements Publication: extraction, prune, sink and store,  *)
(* with their failures, crashes and retries, look from outside like        *)
(* versions that appear, are announced, are recorded and make room.        *)
(***************************************************************************)
Publishes == Published!Spec

-----------------------------------------------------------------------------
(***************************************************************************)
(* The goroutine of Run is scheduled and its ticker fires; the service is  *)
(* restarted when it exits (README.md:570); emulators that went down are   *)
(* booted again, and the Play Store of each keeps updating.                *)
(***************************************************************************)
Fairness ==
    /\ WF_vars(Start)
    /\ WF_vars(CheckSteps)
    /\ WF_vars(ExtractSteps)
    /\ \A e \in Emu :
        /\ WF_vars(Boot(e) /\ UNCHANGED <<storeVars, extVars, watchVars>>)
        /\ \A p \in Pkg :
            WF_vars(/\ PlayUpdate(e, p)
                    /\ UNCHANGED <<storeVars, extVars, watchVars>>)

FairSpec == Spec /\ Fairness

(***************************************************************************)
(* After finitely many faults the newest version of every tracked package  *)
(* is on disk, named by latest.json and known to the store, for good: no   *)
(* failure leaves a package stuck at an older version ("will retry next    *)
(* poll", watcher.go:179).                                                 *)
(***************************************************************************)
UpToDate(p) ==
    /\ storeData[p] = MaxCode
    /\ latest[p].code = MaxCode
    /\ \E f \in files : f.pkg = p /\ f.code = MaxCode

CatchesUp == <>[](\A p \in Pkg : UpToDate(p))
=============================================================================
