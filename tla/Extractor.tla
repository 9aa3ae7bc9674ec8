----------------------------- MODULE Extractor -----------------------------
(***************************************************************************)
(* extractor.Extract (src/extractor/extractor.go), one step per call that  *)
(* another actor can interleave with or a crash can separate: visiting an  *)
(* emulator, pulling one file, opening a temporary file, renaming it,      *)
(* opening and filling the checksum sidecar, latest.json, the prune of old *)
(* versions, the sink.  pc names the step the running goroutine takes      *)
(* next; Extract runs between "visit" and "sink" and is entered and left   *)
(* by Watcher.                                                             *)
(*                                                                         *)
(* An APK file is the name it was collected under, the code that was       *)
(* installed when it was pulled, and whether the emulator it came from was *)
(* one of those that agreed on the version being extracted.                *)
(***************************************************************************)
EXTENDS Store, Sequences, FiniteSets

CONSTANTS
    Clients,    \* the clients in config order, a sequence of emulators
    Keep        \* how many versioned files survive a prune (3, extractor.go:101)

ASSUME ExtractorAssumption ==
    /\ Clients \in Seq(Emu)
    /\ Keep \in Nat \ {0}

Split    == [name : Name, ver : Code, voted : BOOLEAN]
Kind     == {"apk", "xapk"}
Artifact == [pkg : Pkg, code : Code, kind : Kind, splits : SUBSET Split,
             abis : SUBSET Emu]
Sidecar  == [pkg : Pkg, code : Code, kind : Kind, of : SUBSET Split]
TmpFile  == [pkg : Pkg, code : Codes0, kind : Kind \cup {"latest"}]
Latest   == [code : Codes0, kind : Kind]
NoLatest == [code |-> 0, kind |-> "apk"]

VARIABLES
    pc,         \* where the watcher goroutine is
    cur,        \* the package being checked or extracted
    agreed,     \* the versionCode argument of Extract; 0 outside
    voters,     \* the emulators whose answers agreed on it
    pos,        \* index in Clients of the client pulled from
    paths,      \* device paths still to pull from that client
    listed,     \* the code installed when these paths were listed
    collected,  \* the collected map: what has been pulled
    isSplit,    \* whether some client listed more than one path
    victims,    \* artifacts the prune still has to remove
    files,      \* the .apk and .xapk files in the package directories
    sums,       \* their .sha256 sidecars; of = {} is a truncated one
    latest,     \* latest.json of every package
    tmpFiles,   \* *.tmp files left or in use in the package directories
    tmpDir,     \* whether an extract-* directory exists under .tmp
    offered,    \* history: the versions ever passed to the sink
    session     \* history: those passed to it by the running process

localVars == <<voters, pos, paths, listed, collected, isSplit, victims>>
diskVars  == <<files, sums, latest, tmpFiles, tmpDir>>
sinkVars  == <<offered, session>>
extVars   == <<pc, cur, agreed, localVars, diskVars, sinkVars>>

ExtractorPc ==
    {"visit", "pull", "write", "rename", "sum", "sumwrite", "latest",
     "latestrename", "prune", "remove", "sink"}

ExtractorTypeOK ==
    /\ cur \in Pkg
    /\ agreed \in Codes0
    /\ voters \subseteq Emu
    /\ pos \in 1..(Len(Clients) + 1)
    /\ paths \subseteq Name
    /\ listed \in Codes0
    /\ collected \subseteq Split
    /\ isSplit \in BOOLEAN
    /\ victims \subseteq Artifact
    /\ files \subseteq Artifact
    /\ sums \subseteq Sidecar
    /\ latest \in [Pkg -> Latest]
    /\ tmpFiles \subseteq TmpFile
    /\ tmpDir \in BOOLEAN
    /\ offered \in [Pkg -> SUBSET Code]
    /\ session \in [Pkg -> SUBSET Code]

ExtractorInit ==
    /\ agreed = 0
    /\ voters = {}
    /\ pos = 1
    /\ paths = {}
    /\ listed = 0
    /\ collected = {}
    /\ isSplit = FALSE
    /\ victims = {}
    /\ files = {}
    /\ sums = {}
    /\ latest = [p \in Pkg |-> NoLatest]
    /\ tmpFiles = {}
    /\ tmpDir = FALSE
    /\ offered = [p \in Pkg |-> {}]
    /\ session = [p \in Pkg |-> {}]

-----------------------------------------------------------------------------

ClientSet == {Clients[i] : i \in 1..Len(Clients)}

kind == IF isSplit THEN "xapk" ELSE "apk"

OutPath == [pkg |-> cur, code |-> agreed, kind |-> kind]   \* 7.apk, 7.xapk
LatestTmp == [pkg |-> cur, code |-> 0, kind |-> "latest"]  \* latest.json.tmp

(* Whether a directory entry is the one the path k names. *)
Names(f, k) == f.pkg = k.pkg /\ f.code = k.code /\ f.kind = k.kind

SplitNames(S) == {s.name : s \in S}

(* The locals of Extract go out of scope. *)
DropLocals ==
    /\ agreed' = 0
    /\ voters' = {}
    /\ pos' = 1
    /\ paths' = {}
    /\ listed' = 0
    /\ collected' = {}
    /\ isSplit' = FALSE
    /\ victims' = {}

(* Mutant: no deferred RemoveAll. *)
ExtractLeavesTemp ==
    /\ pc' = "next"
    /\ DropLocals
    /\ UNCHANGED <<cur, tmpDir, sinkVars>>

(***************************************************************************)
(* Extract returns an error: the deferred RemoveAll deletes the temporary  *)
(* directory and the watcher goes on with the next package.                *)
(***************************************************************************)
ExtractFails ==
    /\ pc' = "next"
    /\ DropLocals
    /\ tmpDir' = FALSE
    /\ UNCHANGED <<cur, sinkVars>>

(* Extract is called with the agreed code; the directories are created. *)
ExtractBegins(c, agreeing) ==
    /\ agreed' = c
    /\ voters' = agreeing
    /\ pos' = 1
    /\ tmpDir' = TRUE
    /\ pc' = "visit"
    /\ UNCHANGED <<cur, paths, listed, collected, isSplit, victims, files,
                   sums, latest, tmpFiles, sinkVars>>

-----------------------------------------------------------------------------
(* pullFromClient and pullOneAPK *)

(* An offline client, or one whose paths cannot be listed, is skipped. *)
SkipClient ==
    /\ pc = "visit"
    /\ pos <= Len(Clients)
    /\ \/ /\ ~IsConnected(Clients[pos]) \/ PullAPKPaths(Clients[pos], cur) = {}
          /\ UNCHANGED faults
       \/ Fault
    /\ pos' = pos + 1
    /\ UNCHANGED <<pc, cur, agreed, voters, paths, listed, collected, isSplit,
                   victims, diskVars, sinkVars, emuVars, storeVars>>

(* The first client to list a name provides the file: names already       *)
(* collected are not pulled again.                                         *)
ListPaths ==
    /\ pc = "visit"
    /\ pos <= Len(Clients)
    /\ IsConnected(Clients[pos])
    /\ LET devicePaths == PullAPKPaths(Clients[pos], cur) IN
       /\ devicePaths # {}
       /\ isSplit' = (isSplit \/ \E a, b \in devicePaths : a # b)
       /\ paths' = devicePaths \ SplitNames(collected)
    /\ listed' = GetInstalledVersion(Clients[pos], cur)
    /\ pc' = "pull"
    /\ UNCHANGED <<cur, agreed, voters, pos, collected, victims, diskVars,
                   sinkVars, emuVars, storeVars, faults>>

PullOneAPK ==
    /\ pc = "pull"
    /\ PullFile(Clients[pos], cur, listed)
    /\ \E n \in paths :
        /\ paths' = paths \ {n}
        /\ collected' = collected \cup
             {[name |-> n, ver |-> listed, voted |-> Clients[pos] \in voters]}
    /\ UNCHANGED <<pc, cur, agreed, voters, pos, listed, isSplit, victims,
                   diskVars, sinkVars, emuVars, storeVars, faults>>

ClientDone ==
    /\ pc = "pull"
    /\ paths = {}
    /\ pos' = pos + 1
    /\ listed' = 0
    /\ pc' = "visit"
    /\ UNCHANGED <<cur, agreed, voters, paths, collected, isSplit, victims,
                   diskVars, sinkVars, emuVars, storeVars, faults>>

(***************************************************************************)
(* One file that cannot be pulled fails the whole extraction: the paths    *)
(* are stale or the emulator is gone, or (a fault) the file has an unsafe  *)
(* name, is over the size limit or does not carry the pinned certificate.  *)
(* Making the emulator's directory, before its first file, may fail too:   *)
(* then no file need be left to pull.                                      *)
(***************************************************************************)
PullFails ==
    /\ pc = "pull"
    /\ \/ paths # {} /\ ~PullFile(Clients[pos], cur, listed) /\ UNCHANGED faults
       \/ Fault
    /\ ExtractFails
    /\ UNCHANGED <<files, sums, latest, tmpFiles, emuVars, storeVars>>

-----------------------------------------------------------------------------
(* writeSingleAPK (through atomicCopy) and writeXAPK *)

NothingCollected ==
    /\ pc = "visit"
    /\ pos > Len(Clients)
    /\ collected = {}
    /\ ExtractFails
    /\ UNCHANGED <<files, sums, latest, tmpFiles, emuVars, storeVars, faults>>

AllCollected ==
    /\ pc = "visit"
    /\ pos > Len(Clients)
    /\ collected # {}
    /\ pc' = "write"
    /\ UNCHANGED <<cur, agreed, localVars, diskVars, sinkVars, emuVars,
                   storeVars, faults>>

(* The temporary file next to the output file is opened and filled. *)
WriteTmp ==
    /\ pc = "write"
    /\ tmpFiles' = tmpFiles \cup {OutPath}
    /\ pc' = "rename"
    /\ UNCHANGED <<cur, agreed, localVars, files, sums, latest, tmpDir,
                   sinkVars, emuVars, storeVars, faults>>

(* A failed open leaves what was there; later failures remove the file. *)
WriteFails ==
    /\ pc \in {"write", "rename"}
    /\ Fault
    /\ tmpFiles' = IF pc = "rename" THEN tmpFiles \ {OutPath} ELSE tmpFiles
    /\ ExtractFails
    /\ UNCHANGED <<files, sums, latest, emuVars, storeVars>>

(***************************************************************************)
(* An XAPK holds everything collected and a manifest that names the ABI of *)
(* every client; a single APK is a copy of an arbitrary collected file.    *)
(***************************************************************************)
Contents ==
    IF isSplit THEN {[splits |-> collected, abis |-> ClientSet]}
               ELSE {[splits |-> {s}, abis |-> {}] : s \in collected}

Rename ==
    /\ pc = "rename"
    /\ \E body \in Contents :
        files' = {f \in files : ~Names(f, OutPath)} \cup
                 {[pkg |-> cur, code |-> agreed, kind |-> kind,
                   splits |-> body.splits, abis |-> body.abis]}
    /\ tmpFiles' = tmpFiles \ {OutPath}
    /\ pc' = "sum"
    /\ UNCHANGED <<cur, agreed, localVars, sums, latest, tmpDir, sinkVars,
                   emuVars, storeVars, faults>>

-----------------------------------------------------------------------------
(* writeChecksum: os.WriteFile truncates the sidecar and then writes it *)

SetSum(content) ==
    sums' = {s \in sums : ~Names(s, OutPath)} \cup
            {[pkg |-> cur, code |-> agreed, kind |-> kind, of |-> content]}

TruncateSum ==
    /\ pc = "sum"
    /\ SetSum({})
    /\ pc' = "sumwrite"
    /\ UNCHANGED <<cur, agreed, localVars, files, latest, tmpFiles, tmpDir,
                   sinkVars, emuVars, storeVars, faults>>

WriteSum ==
    /\ pc = "sumwrite"
    /\ \E f \in files : Names(f, OutPath) /\ SetSum(f.splits)
    /\ pc' = "latest"
    /\ UNCHANGED <<cur, agreed, localVars, files, latest, tmpFiles, tmpDir,
                   sinkVars, emuVars, storeVars, faults>>

(* Mutant: a checksum that cannot be written is only logged. *)
ChecksumLogged ==
    /\ pc \in {"sum", "sumwrite"}
    /\ Fault
    /\ pc' = "latest"
    /\ UNCHANGED <<cur, agreed, localVars, diskVars, sinkVars, emuVars,
                   storeVars>>

(* Reading the artifact, opening the sidecar or writing it fails. *)
ChecksumFails ==
    /\ pc \in {"sum", "sumwrite"}
    /\ Fault
    /\ ExtractFails
    /\ UNCHANGED <<files, sums, latest, tmpFiles, emuVars, storeVars>>

-----------------------------------------------------------------------------
(* writeLatestJSON *)

(* Mutant: latest.json itself is truncated and written. *)
WriteLatestInPlace ==
    /\ pc = "latest"
    /\ latest' = [latest EXCEPT ![cur] = NoLatest]
    /\ pc' = "latestrename"
    /\ UNCHANGED <<cur, agreed, localVars, files, sums, tmpFiles, tmpDir,
                   sinkVars, emuVars, storeVars, faults>>

WriteLatestTmp ==
    /\ pc = "latest"
    /\ tmpFiles' = tmpFiles \cup {LatestTmp}
    /\ pc' = "latestrename"
    /\ UNCHANGED <<cur, agreed, localVars, files, sums, latest, tmpDir,
                   sinkVars, emuVars, storeVars, faults>>

RenameLatest ==
    /\ pc = "latestrename"
    /\ latest' = [latest EXCEPT ![cur] = [code |-> agreed, kind |-> kind]]
    /\ tmpFiles' = tmpFiles \ {LatestTmp}
    /\ pc' = "prune"
    /\ UNCHANGED <<cur, agreed, localVars, files, sums, tmpDir, sinkVars,
                   emuVars, storeVars, faults>>

(* A failed write may leave latest.json.tmp; a failed rename removes it. *)
LatestFails ==
    /\ pc \in {"latest", "latestrename"}
    /\ Fault
    /\ tmpFiles' \in IF pc = "latest"
                     THEN {tmpFiles, tmpFiles \cup {LatestTmp}}
                     ELSE {tmpFiles \ {LatestTmp}}
    /\ ExtractFails
    /\ UNCHANGED <<files, sums, latest, emuVars, storeVars>>

-----------------------------------------------------------------------------
(* pruneOldVersions *)

Versions(p) == {f \in files : f.pkg = p}

(* Mutants: the sort is ascending; one file too many is removed. *)
PrunableNewest(fs) ==
    IF Cardinality(fs) <= Keep THEN {{}}
    ELSE {vs \in SUBSET fs :
            /\ Cardinality(vs) = Cardinality(fs) - Keep
            /\ \A v \in vs, k \in fs \ vs : v.code >= k.code}

PrunableOneMore(fs) ==
    IF Cardinality(fs) <= Keep THEN {{}}
    ELSE {vs \in SUBSET fs :
            /\ Cardinality(vs) = Cardinality(fs) - Keep + 1
            /\ \A v \in vs, k \in fs \ vs : v.code <= k.code}

(***************************************************************************)
(* The files to remove: all but Keep of them, sorted by code only.  Which  *)
(* of two files with equal codes goes (7.apk and 7.xapk) is left to an     *)
(* unstable sort.                                                          *)
(***************************************************************************)
Prunable(fs) ==
    IF Cardinality(fs) <= Keep THEN {{}}
    ELSE {vs \in SUBSET fs :
            /\ Cardinality(vs) = Cardinality(fs) - Keep
            /\ \A v \in vs, k \in fs \ vs : v.code <= k.code}

ScanVersions ==
    /\ pc = "prune"
    /\ victims' \in Prunable(Versions(cur))
    /\ pc' = "remove"
    /\ UNCHANGED <<cur, agreed, voters, pos, paths, listed, collected, isSplit,
                   diskVars, sinkVars, emuVars, storeVars, faults>>

(* Mutant: Extract returns early, without calling the sink. *)
ScanEndsExtract ==
    /\ pc = "prune"
    /\ Fault
    /\ pc' = "store"
    /\ UNCHANGED <<cur, agreed, localVars, diskVars, sinkVars, emuVars,
                   storeVars>>

(* The directory cannot be read: logged, and the extraction goes on. *)
ScanFails ==
    /\ pc = "prune"
    /\ Fault
    /\ pc' = "sink"
    /\ UNCHANGED <<cur, agreed, localVars, diskVars, sinkVars, emuVars,
                   storeVars>>

(***************************************************************************)
(* The loop removes the newest victim first, the artifact and then its     *)
(* sidecar; the result of either os.Remove is ignored.                     *)
(***************************************************************************)
RemoveVictim ==
    /\ pc = "remove"
    /\ \E v \in victims :
        /\ \A w \in victims : w.code <= v.code
        /\ victims' = victims \ {v}
        /\ LET rest == {s \in sums : ~Names(s, v)} IN
           \/ files' = files \ {v} /\ sums' = rest /\ UNCHANGED faults
           \/ files' \in {files, files \ {v}} /\ sums' \in {sums, rest} /\ Fault
    /\ UNCHANGED <<pc, cur, agreed, voters, pos, paths, listed, collected,
                   isSplit, latest, tmpFiles, tmpDir, sinkVars, emuVars,
                   storeVars>>

PruneDone ==
    /\ pc = "remove"
    /\ victims = {}
    /\ pc' = "sink"
    /\ UNCHANGED <<cur, agreed, localVars, diskVars, sinkVars, emuVars,
                   storeVars, faults>>

-----------------------------------------------------------------------------
(***************************************************************************)
(* The sink is called; its error is logged and dropped, so for the service *)
(* every outcome of the call is the same.  Extract returns the path.       *)
(***************************************************************************)
OnArtifact ==
    /\ pc = "sink"
    /\ offered' = [offered EXCEPT ![cur] = @ \cup {agreed}]
    /\ session' = [session EXCEPT ![cur] = @ \cup {agreed}]
    /\ tmpDir' = FALSE
    /\ pc' = "store"
    /\ voters' = {}
    /\ pos' = 1
    /\ collected' = {}
    /\ isSplit' = FALSE
    /\ UNCHANGED <<cur, agreed, paths, listed, victims, files, sums, latest,
                   tmpFiles, emuVars, storeVars, faults>>

ExtractorNext ==
    \/ SkipClient \/ ListPaths \/ PullOneAPK \/ ClientDone \/ PullFails
    \/ NothingCollected \/ AllCollected
    \/ WriteTmp \/ WriteFails \/ Rename
    \/ TruncateSum \/ WriteSum \/ ChecksumFails
    \/ WriteLatestTmp \/ RenameLatest \/ LatestFails
    \/ ScanVersions \/ ScanFails \/ RemoveVictim \/ PruneDone
    \/ OnArtifact
=============================================================================
