------------------------------ MODULE Watcher ------------------------------
(***************************************************************************)
(* watcher.Watcher (src/watcher/watcher.go) and the life of the process    *)
(* around it (src/main.go): poll cycles over the tracked packages, the     *)
(* parallel version query, the agreement between the emulators that        *)
(* answered, the comparison with the store, the extraction and the record  *)
(* of its result; stop, crash and restart at any point.                    *)
(***************************************************************************)
EXTENDS Extractor

CONSTANT Packages   \* effectivePackages: what a cycle polls, in order

ASSUME WatcherAssumption ==
    /\ Packages \in Seq(Pkg)
    /\ Packages # << >>

VARIABLES
    todo,       \* packages left in this poll cycle
    pending,    \* emulators whose query goroutine is still running
    answers     \* answers[e]: the code e reported, 0 for an error

watchVars == <<todo, pending, answers>>
vars == <<emuVars, faults, storeVars, extVars, watchVars>>

WatcherPc == {"down", "idle", "next", "query", "store"}

NoAnswers == [e \in Emu |-> 0]

TypeOK ==
    /\ EmuTypeOK
    /\ StoreTypeOK
    /\ ExtractorTypeOK
    /\ pc \in WatcherPc \cup ExtractorPc
    /\ todo \in Seq(Pkg)
    /\ pending \subseteq Emu
    /\ answers \in [Emu -> Codes0]

Init ==
    /\ EmuInit
    /\ StoreInit
    /\ ExtractorInit
    /\ pc = "down"
    /\ cur = Packages[1]
    /\ todo = << >>
    /\ pending = {}
    /\ answers = NoAnswers

-----------------------------------------------------------------------------
(* The process *)

(* main: clear .tmp of directories, open the store, connect, run. *)
Start ==
    /\ pc = "down"
    /\ tmpDir' = FALSE
    /\ Open
    /\ ConnectAll
    /\ pc' = "idle"
    /\ UNCHANGED <<installed, up, faults, cur, agreed, localVars, files, sums,
                   latest, tmpFiles, sinkVars, watchVars>>

(* What the process holds in memory is gone; what is on disk stays. *)
ProcessEnds ==
    /\ pc' = "down"
    /\ cur' = Packages[1]
    /\ DropLocals
    /\ session' = [p \in Pkg |-> {}]
    /\ todo' = << >>
    /\ pending' = {}
    /\ answers' = NoAnswers
    /\ UNCHANGED <<emuVars, storeVars, diskVars, offered>>

(* SIGTERM is noticed by Run between cycles and by poll between packages. *)
Stop ==
    /\ pc \in {"idle", "next"}
    /\ ProcessEnds
    /\ Fault

Crash ==
    /\ pc # "down"
    /\ ProcessEnds
    /\ Fault

-----------------------------------------------------------------------------
(* Run, poll and checkPackage *)

PollStart ==
    /\ pc = "idle"
    /\ todo' = Packages
    /\ pc' = "next"
    /\ UNCHANGED <<emuVars, faults, storeVars, cur, agreed, localVars,
                   diskVars, sinkVars, pending, answers>>

PollDone ==
    /\ pc = "next"
    /\ todo = << >>
    /\ pc' = "idle"
    /\ UNCHANGED <<emuVars, faults, storeVars, cur, agreed, localVars,
                   diskVars, sinkVars, watchVars>>

(* One goroutine per client is started. *)
CheckPackage ==
    /\ pc = "next"
    /\ todo # << >>
    /\ cur' = Head(todo)
    /\ todo' = Tail(todo)
    /\ pending' = ClientSet
    /\ pc' = "query"
    /\ UNCHANGED <<emuVars, faults, storeVars, agreed, localVars, diskVars,
                   sinkVars, answers>>

(* A goroutine gets its answer; a package not installed is an error. *)
AnswerVersion(e) ==
    /\ pc = "query"
    /\ e \in pending
    /\ ConnectIfNeeded(e)
    /\ answers' = [answers EXCEPT ![e] = GetInstalledVersion(e, cur)]
    /\ pending' = pending \ {e}
    /\ UNCHANGED <<installed, up, faults, storeVars, extVars, todo>>

(* It cannot reconnect, or the query fails, before or after reconnecting. *)
AnswerError(e) ==
    /\ pc = "query"
    /\ e \in pending
    /\ \/ ~IsConnected(e) /\ ~Reconnect(e) /\ UNCHANGED <<attached, faults>>
       \/ UNCHANGED attached /\ Fault
       \/ ConnectIfNeeded(e) /\ Fault
    /\ pending' = pending \ {e}
    /\ UNCHANGED <<installed, up, storeVars, extVars, todo, answers>>

connected == {e \in Emu : answers[e] # 0}

(* Mutant: the newest version reported wins. *)
NewestReported(c) ==
    /\ \E e \in connected : answers[e] = c
    /\ \A e \in connected : answers[e] <= c

(* All the emulators that answered report code c. *)
AgreedOn(c) ==
    /\ connected # {}
    /\ \A e \in connected : answers[e] = c

(* Mutants of the comparison with the store: any other version, the same   *)
(* one again, the first one only.                                          *)
AnyOtherVersion(c) == GetLastKnown(cur) # c
SameVersionToo(c) == GetLastKnown(cur) <= c
FirstVersionOnly(c) == GetLastKnown(cur) = 0

(* Nothing to do when the store knows this version or a later one. *)
UpdateAvailable(c) == GetLastKnown(cur) < c

(* No emulator answered, they disagree, or there is no update. *)
NothingToExtract ==
    /\ pc = "query"
    /\ pending = {}
    /\ ~\E c \in Code : AgreedOn(c) /\ UpdateAvailable(c)
    /\ answers' = NoAnswers
    /\ pc' = "next"
    /\ UNCHANGED <<emuVars, faults, storeVars, cur, agreed, localVars,
                   diskVars, sinkVars, todo, pending>>

BeginExtract ==
    /\ pc = "query"
    /\ pending = {}
    /\ \E c \in Code :
        /\ AgreedOn(c)
        /\ UpdateAvailable(c)
        /\ ExtractBegins(c, connected)
    /\ answers' = NoAnswers
    /\ UNCHANGED <<emuVars, faults, storeVars, todo, pending>>

(* Creating the package directory or the temporary directory fails. *)
BeginFails ==
    /\ pc = "query"
    /\ pending = {}
    /\ \E c \in Code : AgreedOn(c) /\ UpdateAvailable(c)
    /\ Fault
    /\ answers' = NoAnswers
    /\ pc' = "next"
    /\ UNCHANGED <<emuVars, storeVars, cur, agreed, localVars, diskVars,
                   sinkVars, todo, pending>>

(* The store records the version; a flush that fails is only logged. *)
Record ==
    /\ pc = "store"
    /\ \/ SetLastKnown(cur, agreed) /\ UNCHANGED faults
       \/ SetLastKnownFails(cur, agreed) /\ Fault
    /\ agreed' = 0
    /\ pc' = "next"
    /\ UNCHANGED <<emuVars, cur, localVars, diskVars, sinkVars, watchVars>>

-----------------------------------------------------------------------------

CheckSteps ==
    \/ PollStart \/ PollDone \/ CheckPackage
    \/ \E e \in Emu : AnswerVersion(e) \/ AnswerError(e)
    \/ NothingToExtract \/ BeginExtract \/ BeginFails \/ Record

ExtractSteps == ExtractorNext /\ UNCHANGED watchVars

EmulatorSteps ==
    EmuNext /\ UNCHANGED <<storeVars, extVars, watchVars>>

Next ==
    \/ Start \/ Stop \/ Crash
    \/ CheckSteps
    \/ ExtractSteps
    \/ EmulatorSteps

Spec == Init /\ [][Next]_vars

-----------------------------------------------------------------------------
(* What the service promises. *)

(* A version of p at least as new as c is in the output directory. *)
HasVersion(p, c) == \E f \in files : f.pkg = p /\ f.code >= c

(***************************************************************************)
(* A version the store knows is never missing from the output directory:   *)
(* an artifact with that code or a later one is there, whatever was        *)
(* extracted, pruned, lost in a crash or not flushed in between.  The      *)
(* store is why checkPackage skips an extraction (watcher.go:159).         *)
(***************************************************************************)
RecordedBacked ==
    \A p \in Pkg : storeData[p] # 0 => HasVersion(p, storeData[p])

(***************************************************************************)
(* No step moves store.json back to an older version, although emulators   *)
(* that lag behind may be the only ones to answer a poll.                  *)
(***************************************************************************)
StoreMonotone == [][\A p \in Pkg : storeFile'[p] >= storeFile[p]]_vars

(***************************************************************************)
(* An artifact is only ever written for a version newer than the one       *)
(* store.json holds, across restarts: "survives restarts without           *)
(* re-extracting unchanged packages" (README.md:131).                      *)
(***************************************************************************)
NeverReextracts == [][\A f \in files' \ files : f.code > storeFile[f.pkg]]_vars

(***************************************************************************)
(* The sink hears of a version before the store records it: a crash        *)
(* between Extract and SetLastKnown may repeat the call, never lose it.    *)
(***************************************************************************)
OfferedBeforeRecorded ==
    \A p \in Pkg : storeData[p] # 0 => storeData[p] \in offered[p]

(***************************************************************************)
(* One process never calls the sink twice for the same version, even when  *)
(* store.json could not be written after the first call.                   *)
(***************************************************************************)
SinkOncePerProcess == pc = "sink" => agreed \notin session[cur]

(***************************************************************************)
(* A file pulled from an emulator that took part in the agreement is never *)
(* older than the version its artifact is named after: updates between the *)
(* query and the pull can only make it newer.                              *)
(***************************************************************************)
VoterSplitsNotOlder ==
    \A f \in files : \A s \in f.splits : s.voted => s.ver >= f.code

(***************************************************************************)
(* Once a version is recorded, a sidecar next to the file latest.json      *)
(* names is whole and is the checksum of that very file, although crashes  *)
(* and retries overwrite the artifact before its sidecar.                  *)
(***************************************************************************)
RecordedSidecarMatches ==
    \A f \in files, s \in sums :
        /\ Names(s, f)
        /\ latest[f.pkg] = [code |-> f.code, kind |-> f.kind]
        /\ f.code <= storeData[f.pkg]
        => s.of = f.splits

(***************************************************************************)
(* No extract-* directory outlives the extraction that made it while the   *)
(* service runs: failures and crashes included (README.md:510, 543).       *)
(***************************************************************************)
TempDirOwned == pc \in WatcherPc \ {"down"} => ~tmpDir

(***************************************************************************)
(* A file disappears only when another takes its name or when Keep files   *)
(* of its package that are at least as new remain (README.md:355).         *)
(***************************************************************************)
PruneKeepsNewest ==
    [][\A f \in files \ files' :
         \/ \E g \in files' : Names(g, f)
         \/ Cardinality({g \in files' : g.pkg = f.pkg /\ g.code >= f.code})
               >= Keep]_vars

-----------------------------------------------------------------------------
(* Why it keeps them: the inductive invariant. *)

InExtraction == pc \in ExtractorPc \cup {"store"}

(* Control and data agree inside Extract. *)
ControlOK ==
    /\ InExtraction => agreed \in Code
    /\ pc = "pull" => pos \in 1..Len(Clients) /\ listed \in Code

(* The file never runs ahead of the memory of the process. *)
StoreBehind == \A p \in Pkg : storeFile[p] <= storeData[p]

(* The comparison made in checkPackage still holds while Extract runs. *)
ExtractsNewer == InExtraction => storeData[cur] < agreed

(* From the rename on, the version being extracted is in the directory. *)
Renamed ==
    pc \in {"sum", "sumwrite", "latest", "latestrename", "prune", "remove",
            "sink", "store"}

Written == Renamed => HasVersion(cur, agreed)

(* The files of the package no newer victim is left to remove: they stay. *)
Spared == {k \in Versions(cur) \ victims : \A v \in victims : v.code <= k.code}

(* Whatever the prune still removes, Keep files as new as that stay. *)
PruneSpares ==
    pc = "remove" /\ victims # {} =>
        /\ \A v \in victims : v.pkg = cur
        /\ Cardinality(Spared) >= Keep

(* A directory holds at most one file of a name. *)
NamesUnique == \A f, g \in files : Names(f, g) => f = g

(* Every sidecar of that name is whole and is the checksum of the file. *)
SumsMatch(f) == \A s \in sums : Names(s, f) => s.of = f.splits

IsLatest(f) == latest[f.pkg] = [code |-> f.code, kind |-> f.kind]

(***************************************************************************)
(* From the sidecar to the record: the artifact just written matches its   *)
(* sidecar until latest.json names it, the one latest.json names does      *)
(* until the store records it.                                             *)
(***************************************************************************)
SidecarsOK ==
    /\ pc \in {"latest", "latestrename"} =>
         \A f \in files : Names(f, OutPath) => SumsMatch(f)
    /\ pc \in {"prune", "remove", "sink", "store"} =>
         \A f \in files : f.pkg = cur /\ IsLatest(f) => SumsMatch(f)

(* What this process told the sink is recorded, or is about to be. *)
SinkThenStore ==
    /\ pc = "store" => agreed \in offered[cur]
    /\ \A p \in Pkg : storeFile[p] # 0 => storeFile[p] \in offered[p]
    /\ pc = "down" => \A p \in Pkg : session[p] = {}
    /\ pc # "down" => \A p \in Pkg : \A c \in session[p] :
         c <= storeData[p] \/ (pc = "store" /\ p = cur /\ c = agreed)

(***************************************************************************)
(* From the answer to the artifact: what an emulator reported it still     *)
(* has, or something newer; what agreed on a version has at least that     *)
(* version; so does what was listed at, and pulled from, such an emulator. *)
(***************************************************************************)
VotersOK ==
    /\ pc # "query" => answers = NoAnswers
    /\ \A e \in Emu : answers[e] <= installed[e][cur]
    /\ pc \notin ExtractorPc => voters = {} /\ collected = {}
    /\ \A e \in voters : installed[e][cur] >= agreed
    /\ pc = "pull" /\ Clients[pos] \in voters => listed >= agreed
    /\ \A s \in collected : s.voted => s.ver >= agreed

(***************************************************************************)
(* The inductive invariant: type correctness, the promises among its       *)
(* conjuncts (RecordedSidecarMatches, RecordedBacked, VoterSplitsNotOlder  *)
(* and OfferedBeforeRecorded), and what ties the steps of one extraction   *)
(* together.                                                               *)
(***************************************************************************)
Inv ==
    /\ TypeOK
    /\ IsFiniteSet(files)
    /\ ControlOK
    /\ StoreBehind
    /\ ExtractsNewer
    /\ Written
    /\ PruneSpares
    /\ NamesUnique
    /\ SidecarsOK
    /\ RecordedSidecarMatches
    /\ RecordedBacked
    /\ OfferedBeforeRecorded
    /\ SinkThenStore
    /\ VotersOK
    /\ VoterSplitsNotOlder
=============================================================================
