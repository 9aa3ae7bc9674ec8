--------------------------- MODULE WatcherProofs ---------------------------
(***************************************************************************)
(* Proofs about Watcher, for every set of emulators, packages and file     *)
(* names, every layout, every list of clients and of packages, every Keep  *)
(* of at least 1 and every bound on codes and faults.                      *)
(***************************************************************************)
EXTENDS Watcher, FiniteSetTheorems, TLAPS

(* The names of the steps. *)
LEMMA PcNames ==
    /\ "down" \in WatcherPc \cup ExtractorPc
    /\ "idle" \in WatcherPc \cup ExtractorPc
    /\ "next" \in WatcherPc \cup ExtractorPc
    /\ "query" \in WatcherPc \cup ExtractorPc
    /\ "store" \in WatcherPc \cup ExtractorPc
    /\ "visit" \in WatcherPc \cup ExtractorPc
    /\ "pull" \in WatcherPc \cup ExtractorPc
    /\ "write" \in WatcherPc \cup ExtractorPc
    /\ "rename" \in WatcherPc \cup ExtractorPc
    /\ "sum" \in WatcherPc \cup ExtractorPc
    /\ "sumwrite" \in WatcherPc \cup ExtractorPc
    /\ "latest" \in WatcherPc \cup ExtractorPc
    /\ "latestrename" \in WatcherPc \cup ExtractorPc
    /\ "prune" \in WatcherPc \cup ExtractorPc
    /\ "remove" \in WatcherPc \cup ExtractorPc
    /\ "sink" \in WatcherPc \cup ExtractorPc
BY DEF WatcherPc, ExtractorPc

(* A fault never exceeds the budget. *)
LEMMA FaultType == TypeOK /\ Fault => faults' \in 0..MaxFaults
BY EmulatorsAssumption DEF TypeOK, EmuTypeOK, Fault

(* Codes and 0: what is a version code and what stands for none. *)
LEMMA CodeTypes ==
    /\ 0 \in Codes0
    /\ \A c \in Code : c \in Codes0 /\ c # 0
    /\ \A c \in Codes0 : c # 0 => c \in Code
BY EmulatorsAssumption DEF Code, Codes0

(* The index of the next client stays in range. *)
LEMMA PosTypes ==
    /\ 1 \in 1..(Len(Clients) + 1)
    /\ \A i \in 1..(Len(Clients) + 1) : i <= Len(Clients) =>
         i \in 1..Len(Clients) /\ i + 1 \in 1..(Len(Clients) + 1)
    /\ \A i \in 1..Len(Clients) :
         Clients[i] \in Emu /\ i + 1 \in 1..(Len(Clients) + 1)
BY ExtractorAssumption

(* What DropLocals leaves behind has the right types. *)
LEMMA DropLocalsType ==
    DropLocals => /\ agreed' \in Codes0
                  /\ voters' \subseteq Emu
                  /\ pos' \in 1..(Len(Clients) + 1)
                  /\ paths' \subseteq Name
                  /\ listed' \in Codes0
                  /\ collected' \subseteq Split
                  /\ isSplit' \in BOOLEAN
                  /\ victims' \subseteq Artifact
BY CodeTypes, PosTypes DEF DropLocals

(* An empty round of answers is a round of answers. *)
LEMMA NoAnswersType == NoAnswers \in [Emu -> Codes0]
BY CodeTypes DEF NoAnswers

(***************************************************************************)
(* Every step keeps the types, given that control and data agree inside    *)
(* Extract; one step of the proof per action of the model.                 *)
(***************************************************************************)
LEMMA TypeStep == TypeOK /\ ControlOK /\ [Next]_vars => TypeOK'
<1> SUFFICES ASSUME TypeOK, ControlOK, [Next]_vars
             PROVE  TypeOK'
    OBVIOUS
<1> USE DEF TypeOK, EmuTypeOK, StoreTypeOK, ExtractorTypeOK,
            emuVars, storeVars, localVars, diskVars, sinkVars, extVars, watchVars
<1>1. CASE Start
  BY <1>1, PcNames DEF Start, Open, ConnectAll
<1>2. CASE Stop \/ Crash
  <2>1. Packages[1] \in Pkg
    BY WatcherAssumption
  <2>2. [p \in Pkg |-> {}] \in [Pkg -> SUBSET Code]
    OBVIOUS
  <2>3. ProcessEnds /\ Fault
    BY <1>2 DEF Stop, Crash
  <2>4. ExtractorTypeOK'
    BY <2>1, <2>2, <2>3, DropLocalsType DEF ProcessEnds
  <2>5. EmuTypeOK' /\ StoreTypeOK'
    BY <2>3, FaultType DEF ProcessEnds
  <2> QED
    BY <2>3, <2>4, <2>5, NoAnswersType, PcNames DEF ProcessEnds
<1>3. CASE PollStart \/ PollDone
  BY <1>3, PcNames, WatcherAssumption DEF PollStart, PollDone
<1>4. CASE CheckPackage
  BY <1>4, PcNames, ExtractorAssumption DEF CheckPackage, ClientSet
<1>5. ASSUME NEW e \in Emu, AnswerVersion(e) \/ AnswerError(e)
      PROVE  TypeOK'
  BY <1>5, FaultType DEF AnswerVersion, AnswerError, ConnectIfNeeded,
     IsConnected, Reconnect, GetInstalledVersion
<1>6. CASE NothingToExtract \/ BeginFails
  BY <1>6, FaultType, NoAnswersType, PcNames DEF NothingToExtract, BeginFails
<1>7. CASE BeginExtract
  BY <1>7, NoAnswersType, PcNames, CodeTypes, PosTypes
     DEF BeginExtract, ExtractBegins, connected
<1>8. CASE Record
  BY <1>8, FaultType, PcNames, CodeTypes DEF Record, SetLastKnown, SetLastKnownFails
<1>9. CASE ExtractSteps
  <2> USE <1>9 DEF ExtractSteps
  <2>1. CASE SkipClient
    BY <2>1, FaultType, PosTypes DEF SkipClient
  <2>2. CASE ListPaths
    <3>1. Clients[pos] \in Emu
      BY <2>2, PosTypes DEF ListPaths
    <3>2. PullAPKPaths(Clients[pos], cur) \subseteq Name
      BY <3>1, EmulatorsAssumption, CodeTypes DEF PullAPKPaths
    <3>3. GetInstalledVersion(Clients[pos], cur) \in Codes0
      BY <3>1 DEF GetInstalledVersion
    <3> QED
      BY <2>2, <3>2, <3>3, PcNames DEF ListPaths
  <2>3. CASE PullOneAPK
    <3>1. ASSUME NEW n \in paths
          PROVE  [name |-> n, ver |-> listed, voted |-> Clients[pos] \in voters]
                   \in Split
      BY <2>3 DEF PullOneAPK, ControlOK, Split
    <3> QED
      BY <2>3, <3>1 DEF PullOneAPK
  <2>4. CASE ClientDone
    BY <2>4, PcNames, CodeTypes, PosTypes DEF ClientDone, ControlOK
  <2>5. CASE PullFails \/ NothingCollected
    BY <2>5, FaultType, DropLocalsType, PcNames
       DEF PullFails, NothingCollected, ExtractFails
  <2>6. CASE AllCollected
    BY <2>6, PcNames DEF AllCollected
  <2>7. CASE WriteTmp
    BY <2>7, PcNames DEF WriteTmp, OutPath, TmpFile, Kind, kind
  <2>8. CASE WriteFails \/ ChecksumFails
    BY <2>8, FaultType, DropLocalsType, PcNames
       DEF WriteFails, ChecksumFails, ExtractFails
  <2>9. CASE Rename
    BY <2>9, PcNames, ExtractorAssumption
       DEF Rename, Contents, Artifact, Kind, kind, ClientSet, ControlOK,
           InExtraction, ExtractorPc
  <2>10. CASE TruncateSum
    BY <2>10, PcNames DEF TruncateSum, SetSum, Sidecar, Kind, kind, ControlOK,
                          InExtraction, ExtractorPc
  <2>11. CASE WriteSum
    BY <2>11, PcNames DEF WriteSum, SetSum, Sidecar, Artifact, Kind, kind,
                          ControlOK, InExtraction, ExtractorPc
  <2>12. CASE WriteLatestTmp
    BY <2>12, PcNames, CodeTypes DEF WriteLatestTmp, LatestTmp, TmpFile, Kind
  <2>13. CASE RenameLatest
    BY <2>13, PcNames DEF RenameLatest, Latest, Kind, kind
  <2>14. CASE LatestFails
    <3>1. LatestTmp \in TmpFile
      BY CodeTypes DEF LatestTmp, TmpFile
    <3>2. tmpFiles' \subseteq TmpFile
      BY <2>14, <3>1 DEF LatestFails
    <3> QED
      BY <2>14, <3>2, FaultType, DropLocalsType, PcNames
         DEF LatestFails, ExtractFails
  <2>15. CASE ScanVersions
    BY <2>15, PcNames DEF ScanVersions, Prunable, Versions
  <2>16. CASE ScanFails \/ PruneDone
    BY <2>16, FaultType, PcNames DEF ScanFails, PruneDone
  <2>17. CASE RemoveVictim
    BY <2>17, FaultType DEF RemoveVictim
  <2>18. CASE OnArtifact
    <3>1. agreed \in Code
      BY <2>18 DEF OnArtifact, ControlOK, InExtraction, ExtractorPc
    <3> QED
      BY <2>18, <3>1, PcNames, PosTypes DEF OnArtifact
  <2> QED
    BY <2>1, <2>2, <2>3, <2>4, <2>5, <2>6, <2>7, <2>8, <2>9, <2>10, <2>11,
       <2>12, <2>13, <2>14, <2>15, <2>16, <2>17, <2>18
       DEF ExtractorNext
<1>10. CASE CheckSteps
  BY <1>10, <1>3, <1>4, <1>5, <1>6, <1>7, <1>8 DEF CheckSteps
<1>11. CASE EmulatorSteps
  <2> PICK e \in Emu : \/ \E p \in Pkg : PlayUpdate(e, p)
                        \/ Detach(e)
                        \/ Halt(e)
                        \/ Boot(e)
    BY <1>11 DEF EmulatorSteps, EmuNext
  <2>1. EmuTypeOK'
    <3>1. ASSUME NEW p \in Pkg, PlayUpdate(e, p)
          PROVE  EmuTypeOK'
      BY <3>1, CodeTypes DEF PlayUpdate
    <3>2. CASE Detach(e) \/ Halt(e) \/ Boot(e)
      BY <3>2, FaultType DEF Detach, Halt, Boot
    <3> QED
      BY <3>1, <3>2
  <2> QED
    BY <1>11, <2>1 DEF EmulatorSteps
<1>12. CASE UNCHANGED vars
  BY <1>12 DEF vars
<1> QED
  BY <1>1, <1>2, <1>9, <1>10, <1>11, <1>12 DEF Next

-----------------------------------------------------------------------------
(***************************************************************************)
(* Which actions write the files, the store and the history of the sink,   *)
(* and how an extraction is entered and continued.                         *)
(***************************************************************************)
Frames ==
    /\ files' = files \/ Rename \/ RemoveVictim
    /\ UNCHANGED storeVars \/ Start \/ Record
    /\ UNCHANGED sinkVars \/ OnArtifact \/ ProcessEnds
    /\ \/ ~InExtraction'
       \/ BeginExtract
       \/ InExtraction /\ UNCHANGED <<cur, agreed, storeVars>>
    /\ pc' = "pull" => \/ ListPaths
                       \/ pc = "pull" /\ UNCHANGED <<pos, listed>>
    /\ pc' = "remove" =>
         \/ ScanVersions
         \/ RemoveVictim
         \/ pc = "remove" /\ UNCHANGED <<victims, files, cur>>
    /\ Renamed' => Rename \/ Renamed
    /\ pc' = "store" => OnArtifact \/ pc = "store"
    /\ pc = "store" => pc' = "store" \/ Record \/ ProcessEnds
    /\ pc = "down" => pc' = "down" \/ Start
    /\ pc' = "down" => pc = "down" \/ ProcessEnds
    /\ pc' \in WatcherPc \ {"down"} =>
         \/ ~tmpDir'
         \/ pc \in WatcherPc \ {"down"} /\ UNCHANGED tmpDir

LEMMA FrameStep == [Next]_vars => Frames
<1> SUFFICES ASSUME [Next]_vars
             PROVE  Frames
    OBVIOUS
<1> USE DEF Frames, Renamed, InExtraction, ExtractorPc, WatcherPc,
            storeVars, localVars, diskVars, sinkVars, extVars, watchVars
<1>1. CASE Start
  BY <1>1 DEF Start, Open
<1>2. CASE Stop \/ Crash
  BY <1>2 DEF Stop, Crash, ProcessEnds
<1>3. CASE PollStart \/ PollDone
  BY <1>3 DEF PollStart, PollDone
<1>4. CASE CheckPackage
  BY <1>4 DEF CheckPackage
<1>5. ASSUME NEW e \in Emu, AnswerVersion(e) \/ AnswerError(e)
      PROVE  Frames
  BY <1>5 DEF AnswerVersion, AnswerError
<1>6. CASE NothingToExtract \/ BeginFails
  BY <1>6 DEF NothingToExtract, BeginFails
<1>7. CASE BeginExtract
  BY <1>7 DEF BeginExtract, ExtractBegins
<1>8. CASE Record
  BY <1>8 DEF Record
<1>9. CASE SkipClient \/ ListPaths \/ PullOneAPK \/ ClientDone
  <2>1. CASE SkipClient \/ ClientDone
    BY <2>1 DEF SkipClient, ClientDone
  <2>2. CASE ListPaths
    BY <2>2 DEF ListPaths
  <2>3. CASE PullOneAPK
    BY <2>3 DEF PullOneAPK
  <2> QED
    BY <1>9, <2>1, <2>2, <2>3
<1>10. CASE \/ PullFails \/ NothingCollected \/ WriteFails \/ ChecksumFails
            \/ LatestFails
  BY <1>10 DEF PullFails, NothingCollected, WriteFails, ChecksumFails,
               LatestFails, ExtractFails
<1>11. CASE AllCollected \/ WriteTmp \/ Rename
  BY <1>11 DEF AllCollected, WriteTmp, Rename
<1>12. CASE TruncateSum \/ WriteSum \/ WriteLatestTmp \/ RenameLatest
  BY <1>12 DEF TruncateSum, WriteSum, WriteLatestTmp, RenameLatest
<1>13. CASE ScanVersions \/ ScanFails \/ RemoveVictim \/ PruneDone
  BY <1>13 DEF ScanVersions, ScanFails, RemoveVictim, PruneDone
<1>14. CASE OnArtifact
  BY <1>14 DEF OnArtifact
<1>15. CASE EmulatorSteps \/ UNCHANGED vars
  BY <1>15 DEF EmulatorSteps, vars
<1> QED
  BY <1>1, <1>2, <1>3, <1>4, <1>5, <1>6, <1>7, <1>8, <1>9, <1>10, <1>11,
     <1>12, <1>13, <1>14, <1>15
     DEF Next, CheckSteps, ExtractSteps, ExtractorNext

-----------------------------------------------------------------------------
(* The parts of the inductive invariant, one lemma each. *)

(* The version being extracted and the client pulled from are real ones. *)
LEMMA ControlStep == Inv /\ [Next]_vars => ControlOK'
<1> SUFFICES ASSUME Inv, [Next]_vars
             PROVE  ControlOK'
    OBVIOUS
<1> Frames
  BY FrameStep
<1>1. InExtraction' => agreed' \in Code
  <2>1. CASE BeginExtract
    BY <2>1 DEF BeginExtract, ExtractBegins
  <2> QED
    BY <2>1 DEF Frames, Inv, ControlOK
<1>2. ASSUME pc' = "pull"
      PROVE  pos' \in 1..Len(Clients) /\ listed' \in Code
  <2>1. CASE ListPaths
    <3>1. pos \in 1..Len(Clients) /\ Clients[pos] \in Emu
      BY <2>1, PosTypes DEF ListPaths, Inv, TypeOK, ExtractorTypeOK
    <3>2. installed[Clients[pos]][cur] \in Codes0 \ {0}
      BY <2>1, <3>1 DEF ListPaths, PullAPKPaths, Inv, TypeOK, EmuTypeOK,
                        ExtractorTypeOK
    <3> QED
      BY <2>1, <3>1, <3>2, CodeTypes DEF ListPaths, GetInstalledVersion
  <2> QED
    BY <1>2, <2>1 DEF Frames, Inv, ControlOK
<1> QED
  BY <1>1, <1>2 DEF ControlOK

(* The store only moves while a version newer than it is recorded. *)
LEMMA StoreStep ==
    Inv /\ [Next]_vars => /\ StoreBehind'
                          /\ \A p \in Pkg : storeFile'[p] >= storeFile[p]
<1> SUFFICES ASSUME Inv, [Next]_vars, NEW p \in Pkg
             PROVE  storeFile'[p] <= storeData'[p] /\ storeFile'[p] >= storeFile[p]
    BY DEF StoreBehind
<1>1. /\ storeFile \in [Pkg -> Nat] /\ storeData \in [Pkg -> Nat]
      /\ storeFile[p] <= storeData[p]
  BY EmulatorsAssumption DEF Inv, TypeOK, StoreTypeOK, StoreBehind, Codes0
<1>2. CASE UNCHANGED storeVars
  BY <1>1, <1>2 DEF storeVars
<1>3. CASE Start
  BY <1>1, <1>3 DEF Start, Open
<1>4. CASE Record
  <2>1. storeData[cur] < agreed /\ agreed \in Nat
    BY <1>4, EmulatorsAssumption
       DEF Record, Inv, TypeOK, ExtractorTypeOK, ExtractsNewer, InExtraction, Codes0
  <2>2. storeData'[p] = IF p = cur THEN agreed ELSE storeData[p]
    BY <1>1, <1>4 DEF Record, SetLastKnown, SetLastKnownFails
  <2>3. storeFile' = storeData' \/ storeFile' = storeFile
    BY <1>4 DEF Record, SetLastKnown, SetLastKnownFails
  <2> QED
    BY <1>1, <2>1, <2>2, <2>3
<1> QED
  BY <1>2, <1>3, <1>4, FrameStep DEF Frames

(* Nothing but Record moves the store while an extraction runs. *)
LEMMA ExtractsNewerStep == Inv /\ [Next]_vars => ExtractsNewer'
<1> SUFFICES ASSUME Inv, [Next]_vars, InExtraction'
             PROVE  storeData'[cur'] < agreed'
    BY DEF ExtractsNewer
<1>1. CASE BeginExtract
  BY <1>1 DEF BeginExtract, ExtractBegins, UpdateAvailable, GetLastKnown, storeVars
<1> QED
  BY <1>1, FrameStep DEF Frames, storeVars, Inv, ExtractsNewer

(* As Keep >= 1, one file as new as all the victims is spared. *)
LEMMA SparedNewest ==
    ASSUME Inv, pc = "remove", NEW v \in victims
    PROVE  /\ v.pkg = cur
           /\ \E k \in files \ victims :
                k.pkg = cur /\ \A w \in victims : w.code <= k.code
<1>1. v.pkg = cur /\ Cardinality(Spared) >= Keep
  BY DEF Inv, PruneSpares
<1>2. ASSUME Spared = {}
      PROVE  FALSE
  <2>1. Cardinality(Spared) = 0
    BY <1>2, FS_EmptySet
  <2> QED
    BY <1>1, <2>1, ExtractorAssumption
<1> QED
  BY <1>1, <1>2 DEF Spared, Versions

(***************************************************************************)
(* No step loses the newest version of a package: a rename replaces a file *)
(* by one of the same code, and a prune spares one as new as its victims.  *)
(***************************************************************************)
LEMMA VersionsSurvive ==
    Inv /\ [Next]_vars =>
        \A p \in Pkg, c \in Codes0 : HasVersion(p, c) => HasVersion(p, c)'
<1> SUFFICES ASSUME Inv, [Next]_vars, NEW p \in Pkg, NEW c \in Codes0,
                    NEW f \in files, f.pkg = p, f.code >= c
             PROVE  \E g \in files' : g.pkg = p /\ g.code >= c
    BY DEF HasVersion
<1>1. CASE files' = files
  BY <1>1
<1>2. CASE Rename
  <2>1. CASE Names(f, OutPath)
    <3>1. PICK body \in Contents :
            files' = {g \in files : ~Names(g, OutPath)} \cup
                     {[pkg |-> cur, code |-> agreed, kind |-> kind,
                       splits |-> body.splits, abis |-> body.abis]}
      BY <1>2 DEF Rename
    <3> DEFINE g == [pkg |-> cur, code |-> agreed, kind |-> kind,
                     splits |-> body.splits, abis |-> body.abis]
    <3>2. g \in files' /\ g.pkg = cur /\ g.code = agreed
      BY <3>1
    <3>3. f.pkg = cur /\ f.code = agreed
      BY <2>1 DEF Names, OutPath
    <3> HIDE DEF g
    <3> QED
      BY <3>2, <3>3
  <2>2. CASE ~Names(f, OutPath)
    BY <1>2, <2>2 DEF Rename
  <2> QED
    BY <2>1, <2>2
<1>3. CASE RemoveVictim
  <2>1. PICK v \in victims : files' = files \/ files' = files \ {v}
    BY <1>3 DEF RemoveVictim
  <2>2. PICK k \in files \ victims :
          k.pkg = cur /\ v.pkg = cur /\ v.code <= k.code
    BY <1>3, <2>1, SparedNewest DEF RemoveVictim
  <2>3. v.code \in Nat /\ k.code \in Nat /\ c \in Nat
    BY EmulatorsAssumption
       DEF Inv, TypeOK, ExtractorTypeOK, Artifact, Code, Codes0
  <2>4. CASE f = v
    BY <2>1, <2>2, <2>3, <2>4
  <2> QED
    BY <2>1, <2>4
<1> QED
  BY <1>1, <1>2, <1>3, FrameStep DEF Frames

(* From its rename on, the version extracted is in the directory. *)
LEMMA WrittenStep == Inv /\ [Next]_vars => Written'
<1> SUFFICES ASSUME Inv, [Next]_vars, Renamed'
             PROVE  HasVersion(cur, agreed)'
    BY DEF Written
<1>1. CASE Rename
  <2>1. PICK body \in Contents :
          [pkg |-> cur, code |-> agreed, kind |-> kind,
           splits |-> body.splits, abis |-> body.abis] \in files'
    BY <1>1 DEF Rename
  <2>2. agreed \in Nat /\ UNCHANGED <<cur, agreed>>
    BY <1>1, EmulatorsAssumption
       DEF Rename, Inv, TypeOK, ExtractorTypeOK, Codes0
  <2> QED
    BY <2>1, <2>2 DEF HasVersion
<1>2. CASE Renamed /\ UNCHANGED <<cur, agreed>>
  <2>1. HasVersion(cur, agreed) /\ cur \in Pkg /\ agreed \in Codes0
    BY <1>2 DEF Inv, Written, TypeOK, ExtractorTypeOK
  <2> QED
    BY <1>2, <2>1, VersionsSurvive DEF HasVersion
<1>3. CASE BeginExtract
  BY <1>3 DEF BeginExtract, ExtractBegins, Renamed
<1>4. InExtraction'
  BY DEF InExtraction, ExtractorPc, Renamed
<1> QED
  BY <1>1, <1>2, <1>3, <1>4, FrameStep DEF Frames

(* A version is recorded only when it is written, and then survives. *)
LEMMA RecordedBackedStep == Inv /\ [Next]_vars => RecordedBacked'
<1> SUFFICES ASSUME Inv, [Next]_vars, NEW p \in Pkg, storeData'[p] # 0
             PROVE  HasVersion(p, storeData[p])'
    BY DEF RecordedBacked
<1>1. storeData[p] \in Codes0 /\ storeFile[p] \in Codes0
  BY DEF Inv, TypeOK, StoreTypeOK
<1>2. CASE UNCHANGED storeVars
  <2>1. HasVersion(p, storeData[p])
    BY <1>2 DEF storeVars, Inv, RecordedBacked
  <2> QED
    BY <1>1, <1>2, <2>1, VersionsSurvive DEF storeVars, HasVersion
<1>3. CASE Start
  <2>1. storeData' = storeFile /\ files' = files
    BY <1>3 DEF Start, Open
  <2>2. storeFile[p] <= storeData[p] /\ storeData[p] # 0
    BY <1>1, <2>1, EmulatorsAssumption DEF Inv, StoreBehind, Codes0
  <2>3. PICK f \in files : f.pkg = p /\ f.code >= storeData[p]
    BY <2>2 DEF Inv, RecordedBacked, HasVersion
  <2>4. f.code \in Nat
    BY EmulatorsAssumption DEF Inv, TypeOK, ExtractorTypeOK, Artifact, Code
  <2>5. f.code >= storeFile[p]
    BY <1>1, <2>2, <2>3, <2>4, EmulatorsAssumption DEF Codes0
  <2> QED
    BY <2>1, <2>3, <2>5 DEF HasVersion
<1>4. CASE Record
  <2>1. storeData' = [storeData EXCEPT ![cur] = agreed] /\ files' = files
    BY <1>4 DEF Record, SetLastKnown, SetLastKnownFails, diskVars
  <2>2. CASE p = cur
    <3>1. HasVersion(cur, agreed)
      BY <1>4 DEF Record, Inv, Written, Renamed
    <3> QED
      BY <2>1, <2>2, <3>1 DEF HasVersion, Inv, TypeOK, StoreTypeOK
  <2>3. CASE p # cur
    <3>1. storeData'[p] = storeData[p]
      BY <2>1, <2>3 DEF Inv, TypeOK, StoreTypeOK
    <3>2. HasVersion(p, storeData[p])
      BY <3>1 DEF Inv, RecordedBacked
    <3> QED
      BY <2>1, <3>1, <3>2 DEF HasVersion
  <2> QED
    BY <2>2, <2>3
<1> QED
  BY <1>2, <1>3, <1>4, FrameStep DEF Frames

(* The output directory holds finitely many files. *)
LEMMA FilesFinite == Inv /\ [Next]_vars => IsFiniteSet(files)'
<1> SUFFICES ASSUME Inv, [Next]_vars
             PROVE  IsFiniteSet(files')
    OBVIOUS
<1>0. IsFiniteSet(files)
  BY DEF Inv
<1>1. CASE Rename
  <2> DEFINE others == {f \in files : ~Names(f, OutPath)}
  <2>1. PICK f : files' = others \cup {f}
    BY <1>1 DEF Rename
  <2>2. IsFiniteSet(others)
    BY <1>0, FS_Subset
  <2> QED
    BY <2>1, <2>2, FS_AddElement
<1>2. CASE RemoveVictim
  <2>1. files' \subseteq files
    BY <1>2 DEF RemoveVictim
  <2> QED
    BY <1>0, <2>1, FS_Subset
<1> QED
  BY <1>0, <1>1, <1>2, FrameStep DEF Frames

(***************************************************************************)
(* A prune that removes something keeps exactly Keep files, and every file *)
(* it keeps is at least as new as every file it removes.                   *)
(***************************************************************************)
LEMMA PrunableSpares ==
    ASSUME NEW fs, IsFiniteSet(fs), NEW vs \in Prunable(fs), vs # {}
    PROVE  /\ vs \subseteq fs
           /\ Cardinality(fs \ vs) = Keep
           /\ \A v \in vs, k \in fs \ vs : v.code <= k.code
<1>1. /\ vs \subseteq fs
      /\ Cardinality(vs) = Cardinality(fs) - Keep
      /\ \A v \in vs, k \in fs \ vs : v.code <= k.code
  BY DEF Prunable
<1>2. Cardinality(fs) \in Nat
  BY FS_CardinalityType
<1>3. Cardinality(fs \ vs) = Cardinality(fs) - Cardinality(fs \cap vs)
  BY FS_Difference
<1>4. Cardinality(fs \cap vs) = Cardinality(vs)
  <2>1. fs \cap vs = vs
    BY <1>1
  <2> QED
    BY <2>1
<1>5. Cardinality(fs \ vs) = Cardinality(fs) - (Cardinality(fs) - Keep)
  BY <1>1, <1>3, <1>4
<1>6. Cardinality(fs) - (Cardinality(fs) - Keep) = Keep
  BY <1>2, ExtractorAssumption
<1> QED
  BY <1>1, <1>5, <1>6

(* Keep files as new as the victims stay, whichever victim goes next. *)
LEMMA PruneSparesStep == Inv /\ [Next]_vars => PruneSpares'
<1> SUFFICES ASSUME Inv, [Next]_vars, pc' = "remove", victims' # {}
             PROVE  /\ \A v \in victims' : v.pkg = cur'
                    /\ Cardinality(Spared') >= Keep
    BY DEF PruneSpares
<1>1. CASE ScanVersions
  <2>1. /\ victims' \in Prunable(Versions(cur))
        /\ UNCHANGED <<files, cur>>
    BY <1>1 DEF ScanVersions, diskVars
  <2>2. IsFiniteSet(Versions(cur))
    BY FS_Subset DEF Versions, Inv
  <2>3. /\ victims' \subseteq Versions(cur)
        /\ Cardinality(Versions(cur) \ victims') = Keep
        /\ \A v \in victims', k \in Versions(cur) \ victims' : v.code <= k.code
    BY <2>1, <2>2, PrunableSpares
  <2>4. Spared' = Versions(cur) \ victims'
    BY <2>1, <2>3 DEF Spared, Versions
  <2> QED
    BY <2>1, <2>3, <2>4, ExtractorAssumption DEF Versions
<1>2. CASE RemoveVictim
  <2>1. PICK v \in victims : /\ victims' = victims \ {v}
                             /\ files' = files \/ files' = files \ {v}
                             /\ cur' = cur
    BY <1>2 DEF RemoveVictim
  <2>2. /\ \A w \in victims : w.pkg = cur
        /\ Cardinality(Spared) >= Keep
    BY <1>2, <2>1 DEF RemoveVictim, Inv, PruneSpares
  <2>3. Spared \subseteq Spared'
    BY <2>1 DEF Spared, Versions
  <2>4. Cardinality(Spared) \in Nat /\ Cardinality(Spared') \in Nat
        /\ Cardinality(Spared) <= Cardinality(Spared')
    <3>1. IsFiniteSet(files) /\ files' \subseteq files
      BY <2>1 DEF Inv
    <3>2. Spared \subseteq files /\ Spared' \subseteq files
      BY <3>1 DEF Spared, Versions
    <3>3. IsFiniteSet(Spared) /\ IsFiniteSet(Spared')
      BY <3>1, <3>2, FS_Subset
    <3>4. Cardinality(Spared) \in Nat /\ Cardinality(Spared') \in Nat
      BY <3>3, FS_CardinalityType
    <3> QED
      BY <2>3, <3>3, <3>4, FS_Subset
  <2> QED
    BY <2>1, <2>2, <2>4, ExtractorAssumption
<1>3. CASE pc = "remove" /\ UNCHANGED <<victims, files, cur>>
  BY <1>3 DEF Inv, PruneSpares, Spared, Versions
<1> QED
  BY <1>1, <1>2, <1>3, FrameStep DEF Frames

-----------------------------------------------------------------------------
(***************************************************************************)
(* Which actions write the sidecars and latest.json, and what is kept from *)
(* the sidecar to latest.json, and from latest.json to the record.         *)
(***************************************************************************)
SidecarFrames ==
    /\ UNCHANGED sums \/ TruncateSum \/ WriteSum \/ RemoveVictim
    /\ UNCHANGED latest \/ RenameLatest
    /\ pc' \in {"latest", "latestrename"} =>
         \/ WriteSum
         \/ /\ pc \in {"latest", "latestrename"}
            /\ UNCHANGED <<cur, agreed, isSplit, files, sums>>
    /\ pc' \in {"prune", "remove", "sink", "store"} =>
         \/ RenameLatest
         \/ /\ pc \in {"prune", "remove", "sink", "store"}
            /\ UNCHANGED <<cur, latest>>
            /\ files' \subseteq files /\ sums' \subseteq sums

(* Every action of the model is within SidecarFrames. *)
LEMMA SidecarFrameStep == [Next]_vars => SidecarFrames
<1> SUFFICES ASSUME [Next]_vars
             PROVE  SidecarFrames
    OBVIOUS
<1> USE DEF SidecarFrames, localVars, diskVars, sinkVars, extVars, watchVars
<1>1. CASE Start
  BY <1>1 DEF Start
<1>2. CASE Stop \/ Crash
  BY <1>2 DEF Stop, Crash, ProcessEnds
<1>3. CASE PollStart \/ PollDone
  BY <1>3 DEF PollStart, PollDone
<1>4. CASE CheckPackage
  BY <1>4 DEF CheckPackage
<1>5. ASSUME NEW e \in Emu, AnswerVersion(e) \/ AnswerError(e)
      PROVE  SidecarFrames
  BY <1>5 DEF AnswerVersion, AnswerError
<1>6. CASE NothingToExtract \/ BeginFails
  BY <1>6 DEF NothingToExtract, BeginFails
<1>7. CASE BeginExtract
  BY <1>7 DEF BeginExtract, ExtractBegins
<1>8. CASE Record
  BY <1>8 DEF Record
<1>9. CASE SkipClient \/ ListPaths \/ PullOneAPK \/ ClientDone
  <2>1. CASE SkipClient \/ ClientDone
    BY <2>1 DEF SkipClient, ClientDone
  <2>2. CASE ListPaths
    BY <2>2 DEF ListPaths
  <2>3. CASE PullOneAPK
    BY <2>3 DEF PullOneAPK
  <2> QED
    BY <1>9, <2>1, <2>2, <2>3
<1>10. CASE \/ PullFails \/ NothingCollected \/ WriteFails \/ ChecksumFails
            \/ LatestFails
  BY <1>10 DEF PullFails, NothingCollected, WriteFails, ChecksumFails,
               LatestFails, ExtractFails
<1>11. CASE AllCollected \/ WriteTmp \/ Rename
  BY <1>11 DEF AllCollected, WriteTmp, Rename
<1>12. CASE TruncateSum \/ WriteSum \/ WriteLatestTmp \/ RenameLatest
  BY <1>12 DEF TruncateSum, WriteSum, WriteLatestTmp, RenameLatest
<1>13. CASE ScanVersions \/ ScanFails \/ PruneDone
  BY <1>13 DEF ScanVersions, ScanFails, PruneDone
<1>14. CASE RemoveVictim
  BY <1>14 DEF RemoveVictim
<1>15. CASE OnArtifact
  BY <1>15 DEF OnArtifact
<1>16. CASE EmulatorSteps \/ UNCHANGED vars
  BY <1>16 DEF EmulatorSteps, vars
<1> QED
  BY <1>1, <1>2, <1>3, <1>4, <1>5, <1>6, <1>7, <1>8, <1>9, <1>10, <1>11,
     <1>12, <1>13, <1>14, <1>15, <1>16
     DEF Next, CheckSteps, ExtractSteps, ExtractorNext

(* A rename replaces the file whose name it takes. *)
LEMMA NamesUniqueStep == Inv /\ [Next]_vars => NamesUnique'
<1> SUFFICES ASSUME Inv, [Next]_vars, NEW f \in files', NEW g \in files',
                    Names(f, g)
             PROVE  f = g
    BY DEF NamesUnique, Names
<1>1. CASE f \in files /\ g \in files
  BY <1>1 DEF Inv, NamesUnique
<1>2. CASE Rename
  <2>1. PICK new :
          /\ files' = {h \in files : ~Names(h, OutPath)} \cup {new}
          /\ Names(new, OutPath)
    <3>1. PICK body \in Contents :
            files' = {h \in files : ~Names(h, OutPath)} \cup
                     {[pkg |-> cur, code |-> agreed, kind |-> kind,
                       splits |-> body.splits, abis |-> body.abis]}
      BY <1>2 DEF Rename
    <3> QED
      BY <3>1 DEF Names, OutPath
  <2>2. \A h \in files' : (h \in files /\ ~Names(h, OutPath)) \/ h = new
    BY <2>1
  <2> QED
    BY <1>1, <2>1, <2>2 DEF Names
<1>3. CASE files' \subseteq files
  BY <1>1, <1>3
<1> QED
  BY <1>2, <1>3, FrameStep DEF Frames, RemoveVictim

(***************************************************************************)
(* The sidecar is written for the one file of its name, which latest.json  *)
(* then names; until the record only the prune touches either, and it only *)
(* removes.                                                                *)
(***************************************************************************)
LEMMA SidecarsStep == Inv /\ [Next]_vars => SidecarsOK'
<1> SUFFICES ASSUME Inv, [Next]_vars
             PROVE  SidecarsOK'
    OBVIOUS
<1>1. SidecarFrames /\ SidecarsOK /\ NamesUnique
  BY SidecarFrameStep DEF Inv
<1>2. ASSUME pc' \in {"latest", "latestrename"}, NEW f \in files',
             Names(f, OutPath)', NEW s \in sums', Names(s, f)
      PROVE  s.of = f.splits
  <2>1. CASE WriteSum
    <3>1. files' = files /\ UNCHANGED <<cur, agreed, isSplit>>
      BY <2>1 DEF WriteSum, localVars
    <3>2. PICK g \in files :
            /\ Names(g, OutPath)
            /\ sums' = {t \in sums : ~Names(t, OutPath)} \cup
                       {[pkg |-> cur, code |-> agreed, kind |-> kind,
                         of |-> g.splits]}
      BY <2>1 DEF WriteSum, SetSum
    <3>3. Names(f, OutPath) /\ f \in files
      BY <1>2, <3>1 DEF Names, OutPath, kind
    <3>4. f = g
      BY <1>1, <3>2, <3>3 DEF NamesUnique, Names
    <3>5. Names(s, OutPath)
      BY <1>2, <3>3 DEF Names
    <3> QED
      BY <3>2, <3>4, <3>5
  <2>2. CASE /\ pc \in {"latest", "latestrename"}
             /\ UNCHANGED <<cur, agreed, isSplit, files, sums>>
    <3>1. Names(f, OutPath)
      BY <1>2, <2>2 DEF Names, OutPath, kind
    <3> QED
      BY <1>1, <1>2, <2>2, <3>1 DEF SidecarsOK, SumsMatch
  <2> QED
    BY <1>1, <1>2, <2>1, <2>2 DEF SidecarFrames
<1>3. ASSUME pc' \in {"prune", "remove", "sink", "store"}, NEW f \in files',
             f.pkg = cur', IsLatest(f)', NEW s \in sums', Names(s, f)
      PROVE  s.of = f.splits
  <2>1. CASE RenameLatest
    <3>1. /\ UNCHANGED <<files, sums, cur>> /\ pc = "latestrename"
          /\ latest' = [latest EXCEPT ![cur] = [code |-> agreed, kind |-> kind]]
      BY <2>1 DEF RenameLatest
    <3>2. latest'[cur] = [code |-> agreed, kind |-> kind]
      BY <3>1 DEF Inv, TypeOK, ExtractorTypeOK
    <3>3. f.pkg = cur /\ [code |-> f.code, kind |-> f.kind]
                           = [code |-> agreed, kind |-> kind]
      BY <1>3, <3>1, <3>2 DEF IsLatest
    <3>4. f.code = agreed /\ f.kind = kind
      BY <3>3
    <3>5. Names(f, OutPath)
      BY <3>3, <3>4 DEF Names, OutPath
    <3> QED
      BY <1>1, <1>3, <3>1, <3>5 DEF SidecarsOK, SumsMatch
  <2>2. CASE /\ pc \in {"prune", "remove", "sink", "store"}
             /\ UNCHANGED <<cur, latest>>
             /\ files' \subseteq files /\ sums' \subseteq sums
    <3>1. f \in files /\ f.pkg = cur /\ IsLatest(f) /\ s \in sums
      BY <1>3, <2>2 DEF IsLatest
    <3> QED
      BY <1>1, <1>3, <2>2, <3>1 DEF SidecarsOK, SumsMatch
  <2> QED
    BY <1>1, <1>3, <2>1, <2>2 DEF SidecarFrames
<1> QED
  BY <1>2, <1>3 DEF SidecarsOK, SumsMatch, Names

(* A version is recorded only once its sidecar matches, and what is written *)
(* later has a newer version.                                              *)
LEMMA RecordedSidecarStep == Inv /\ [Next]_vars => RecordedSidecarMatches'
<1> SUFFICES ASSUME Inv, [Next]_vars, NEW f \in files', NEW s \in sums',
                    Names(s, f),
                    latest'[f.pkg] = [code |-> f.code, kind |-> f.kind],
                    f.code <= storeData'[f.pkg]
             PROVE  s.of = f.splits
    BY DEF RecordedSidecarMatches, Names
<1>1. /\ RecordedSidecarMatches /\ SidecarsOK /\ StoreBehind
      /\ TypeOK' /\ SidecarFrames /\ Frames
  BY SidecarFrameStep, FrameStep, TypeStep DEF Inv
<1>2. /\ storeData \in [Pkg -> Nat] /\ storeFile \in [Pkg -> Nat]
      /\ agreed \in Nat /\ cur \in Pkg /\ f.pkg \in Pkg /\ f.code \in Nat
  <2>1. Code \subseteq Nat /\ Codes0 \subseteq Nat
    BY EmulatorsAssumption DEF Code, Codes0
  <2>2. f.pkg \in Pkg /\ f.code \in Code
    BY <1>1 DEF TypeOK, ExtractorTypeOK, Artifact
  <2>3. /\ storeData \in [Pkg -> Codes0] /\ storeFile \in [Pkg -> Codes0]
        /\ agreed \in Codes0 /\ cur \in Pkg
    BY DEF Inv, TypeOK, StoreTypeOK, ExtractorTypeOK
  <2> QED
    BY <2>1, <2>2, <2>3
<1>3. ASSUME InExtraction, UNCHANGED <<cur, agreed, storeVars>>
      PROVE  ~(f.pkg = cur /\ f.code = agreed)
  BY <1>2, <1>3 DEF Inv, ExtractsNewer, storeVars
<1>4. CASE Record
  <2>1. /\ storeData' = [storeData EXCEPT ![cur] = agreed]
        /\ UNCHANGED <<files, sums, latest>> /\ pc = "store"
    BY <1>4 DEF Record, SetLastKnown, SetLastKnownFails, diskVars
  <2>2. CASE f.pkg = cur
    BY <1>1, <2>1, <2>2 DEF SidecarsOK, SumsMatch, IsLatest
  <2>3. CASE f.pkg # cur
    BY <1>1, <1>2, <2>1, <2>3 DEF RecordedSidecarMatches
  <2> QED
    BY <2>2, <2>3
<1>5. CASE Start
  <2>1. /\ storeData' = storeFile /\ UNCHANGED <<files, sums, latest>>
    BY <1>5 DEF Start, Open
  <2>2. f.code <= storeData[f.pkg]
    BY <1>1, <1>2, <2>1 DEF StoreBehind
  <2> QED
    BY <1>1, <2>1, <2>2 DEF RecordedSidecarMatches
<1>6. CASE Rename
  <2>1. /\ UNCHANGED <<sums, latest, storeVars, cur, agreed>> /\ InExtraction
        /\ f \in files \/ (f.pkg = cur /\ f.code = agreed)
    BY <1>6 DEF Rename, InExtraction, ExtractorPc
  <2> QED
    BY <1>1, <1>3, <2>1 DEF RecordedSidecarMatches, storeVars
<1>7. CASE TruncateSum \/ WriteSum
  <2>1. /\ UNCHANGED <<files, latest, storeVars, cur, agreed>> /\ InExtraction
        /\ s \in sums \/ (s.pkg = cur /\ s.code = agreed)
    BY <1>7 DEF TruncateSum, WriteSum, SetSum, InExtraction, ExtractorPc
  <2> QED
    BY <1>1, <1>3, <2>1 DEF RecordedSidecarMatches, storeVars, Names
<1>8. CASE RenameLatest
  <2>1. /\ UNCHANGED <<files, sums, storeVars, cur, agreed>> /\ InExtraction
        /\ latest' = [latest EXCEPT ![cur] = [code |-> agreed, kind |-> kind]]
    BY <1>8 DEF RenameLatest, InExtraction, ExtractorPc
  <2>2. CASE f.pkg = cur
    <3>1. [code |-> f.code, kind |-> f.kind] = [code |-> agreed, kind |-> kind]
      BY <1>2, <2>1, <2>2 DEF Inv, TypeOK, ExtractorTypeOK
    <3>2. f.code = agreed
      BY <3>1
    <3> QED
      BY <1>3, <2>1, <2>2, <3>2
  <2>3. CASE f.pkg # cur
    <3>1. latest'[f.pkg] = latest[f.pkg]
      BY <1>2, <2>1, <2>3 DEF Inv, TypeOK, ExtractorTypeOK
    <3> QED
      BY <1>1, <2>1, <3>1 DEF RecordedSidecarMatches, storeVars
  <2> QED
    BY <2>2, <2>3
<1>9. CASE RemoveVictim
  <2>1. /\ files' \subseteq files /\ sums' \subseteq sums
        /\ UNCHANGED <<latest, storeVars>>
    BY <1>9 DEF RemoveVictim
  <2> QED
    BY <1>1, <2>1 DEF RecordedSidecarMatches, storeVars
<1>10. CASE UNCHANGED <<files, sums, latest, storeVars>>
  BY <1>1, <1>10 DEF RecordedSidecarMatches, storeVars
<1> QED
  BY <1>1, <1>4, <1>5, <1>6, <1>7, <1>8, <1>9, <1>10 DEF Frames, SidecarFrames

(* The sink is told before the store, and the store remembers for it. *)
LEMMA SinkStep == Inv /\ [Next]_vars => OfferedBeforeRecorded' /\ SinkThenStore'
<1> SUFFICES ASSUME Inv, [Next]_vars
             PROVE  OfferedBeforeRecorded' /\ SinkThenStore'
    OBVIOUS
<1>1. /\ storeData \in [Pkg -> Codes0] /\ storeFile \in [Pkg -> Codes0]
      /\ offered \in [Pkg -> SUBSET Code] /\ session \in [Pkg -> SUBSET Code]
      /\ cur \in Pkg /\ agreed \in Codes0
  BY DEF Inv, TypeOK, StoreTypeOK, ExtractorTypeOK
<1>2. OfferedBeforeRecorded /\ SinkThenStore
  BY DEF Inv
<1>3. CASE Start
  BY <1>1, <1>2, <1>3
     DEF Start, Open, sinkVars, OfferedBeforeRecorded, SinkThenStore
<1>4. CASE Record
  <2>1. /\ storeData' = [storeData EXCEPT ![cur] = agreed]
        /\ storeFile' = storeData' \/ storeFile' = storeFile
        /\ pc = "store" /\ pc' = "next"
        /\ UNCHANGED <<offered, session>>
    BY <1>4 DEF Record, SetLastKnown, SetLastKnownFails, sinkVars
  <2>2. storeData[cur] < agreed
    BY <2>1 DEF Inv, ExtractsNewer, InExtraction
  <2>3. ASSUME NEW p \in Pkg, storeData'[p] # 0
        PROVE  storeData'[p] \in offered'[p]
    BY <1>1, <1>2, <2>1, <2>3 DEF OfferedBeforeRecorded, SinkThenStore
  <2>4. ASSUME NEW p \in Pkg, storeFile'[p] # 0
        PROVE  storeFile'[p] \in offered'[p]
    BY <1>2, <2>1, <2>3, <2>4 DEF SinkThenStore
  <2>5. ASSUME NEW p \in Pkg, NEW c \in session'[p]
        PROVE  c <= storeData'[p]
    <3>1. c \in Nat /\ storeData[p] \in Nat /\ agreed \in Nat
      BY <1>1, <2>1, <2>5, EmulatorsAssumption DEF Code, Codes0
    <3>2. c <= storeData[p] \/ (p = cur /\ c = agreed)
      BY <1>2, <2>1, <2>5 DEF SinkThenStore
    <3> QED
      BY <1>1, <2>1, <2>2, <3>1, <3>2
  <2> QED
    BY <2>1, <2>3, <2>4, <2>5 DEF OfferedBeforeRecorded, SinkThenStore
<1>5. CASE OnArtifact
  <2>1. /\ offered' = [offered EXCEPT ![cur] = @ \cup {agreed}]
        /\ session' = [session EXCEPT ![cur] = @ \cup {agreed}]
        /\ pc = "sink" /\ pc' = "store"
        /\ UNCHANGED <<cur, agreed, storeData, storeFile>>
    BY <1>5 DEF OnArtifact, storeVars
  <2> QED
    BY <1>1, <1>2, <2>1 DEF OfferedBeforeRecorded, SinkThenStore
<1>6. CASE ProcessEnds
  <2>1. /\ session' = [p \in Pkg |-> {}]
        /\ pc' = "down"
        /\ UNCHANGED <<offered, storeData, storeFile>>
    BY <1>6 DEF ProcessEnds, storeVars
  <2> QED
    BY <1>2, <2>1 DEF OfferedBeforeRecorded, SinkThenStore
<1>7. CASE UNCHANGED <<storeVars, sinkVars>> /\ ~ProcessEnds /\ ~OnArtifact
  <2>1. UNCHANGED <<offered, session, storeData, storeFile>>
    BY <1>7 DEF storeVars, sinkVars
  <2>2. pc' = "store" => pc = "store" /\ UNCHANGED <<cur, agreed>>
    BY <1>7, FrameStep DEF Frames, InExtraction, BeginExtract, ExtractBegins
  <2>3. pc' = "down" => pc = "down"
    BY <1>7, FrameStep DEF Frames
  <2>4. pc = "down" => pc' = "down" \/ Start
    BY FrameStep DEF Frames
  <2>5. pc = "store" => pc' = "store" \/ Record
    BY <1>7, FrameStep DEF Frames
  <2> QED
    BY <1>2, <1>3, <1>4, <2>1, <2>2, <2>3, <2>4, <2>5
       DEF OfferedBeforeRecorded, SinkThenStore
<1> QED
  BY <1>3, <1>4, <1>5, <1>6, <1>7, FrameStep DEF Frames

-----------------------------------------------------------------------------
(***************************************************************************)
(* What the steps do to the answers, the voters and what was pulled: each  *)
(* is kept, dropped, or written by one action.                             *)
(***************************************************************************)
VoterFrames ==
    /\ UNCHANGED installed \/ EmulatorSteps
    /\ \/ UNCHANGED <<answers, cur>>
       \/ answers' = NoAnswers
       \/ CheckPackage
       \/ \E e \in Emu : AnswerVersion(e)
    /\ pc' # "query" =>
         answers' = NoAnswers \/ (pc # "query" /\ UNCHANGED answers)
    /\ \/ voters' = {} /\ collected' = {}
       \/ UNCHANGED <<voters, collected, agreed, cur>>
       \/ pc \notin ExtractorPc /\ UNCHANGED <<voters, collected>>
       \/ BeginExtract
       \/ PullOneAPK
    /\ pc' \notin ExtractorPc =>
         \/ voters' = {} /\ collected' = {}
         \/ pc \notin ExtractorPc /\ UNCHANGED <<voters, collected>>
    /\ pc' = "pull" =>
         \/ ListPaths
         \/ pc = "pull" /\ UNCHANGED <<pos, listed, voters, agreed>>
    /\ files' \subseteq files \/ Rename

(* Every action of the model is within VoterFrames. *)
LEMMA VoterFrameStep == [Next]_vars => VoterFrames
<1> SUFFICES ASSUME [Next]_vars
             PROVE  VoterFrames
    OBVIOUS
<1> USE DEF VoterFrames, ExtractorPc, emuVars, localVars, diskVars, sinkVars,
            extVars, watchVars
<1>1. CASE Start
  BY <1>1 DEF Start
<1>2. CASE Stop \/ Crash
  BY <1>2 DEF Stop, Crash, ProcessEnds, DropLocals
<1>3. CASE PollStart \/ PollDone
  BY <1>3 DEF PollStart, PollDone
<1>4. CASE CheckPackage
  BY <1>4 DEF CheckPackage
<1>5. ASSUME NEW e \in Emu, AnswerVersion(e) \/ AnswerError(e)
      PROVE  VoterFrames
  BY <1>5 DEF AnswerVersion, AnswerError
<1>6. CASE NothingToExtract \/ BeginFails
  BY <1>6 DEF NothingToExtract, BeginFails
<1>7. CASE BeginExtract
  BY <1>7 DEF BeginExtract, ExtractBegins
<1>8. CASE Record
  BY <1>8 DEF Record
<1>9. CASE ExtractSteps
  <2> UNCHANGED <<todo, pending, answers>>
    BY <1>9 DEF ExtractSteps
  <2>1. CASE SkipClient \/ ClientDone
    BY <2>1 DEF SkipClient, ClientDone
  <2>2. CASE ListPaths
    BY <2>2 DEF ListPaths
  <2>3. CASE PullOneAPK
    BY <2>3 DEF PullOneAPK
  <2>4. CASE PullFails \/ NothingCollected
    BY <2>4 DEF PullFails, NothingCollected, ExtractFails, DropLocals
  <2>5. CASE WriteFails \/ ChecksumFails \/ LatestFails
    BY <2>5 DEF WriteFails, ChecksumFails, LatestFails, ExtractFails, DropLocals
  <2>6. CASE AllCollected \/ WriteTmp \/ Rename
    BY <2>6 DEF AllCollected, WriteTmp, Rename
  <2>7. CASE TruncateSum \/ WriteSum \/ WriteLatestTmp \/ RenameLatest
    BY <2>7 DEF TruncateSum, WriteSum, WriteLatestTmp, RenameLatest
  <2>8. CASE ScanVersions \/ ScanFails \/ RemoveVictim \/ PruneDone
    BY <2>8 DEF ScanVersions, ScanFails, RemoveVictim, PruneDone
  <2>9. CASE OnArtifact
    BY <2>9 DEF OnArtifact
  <2> QED
    BY <1>9, <2>1, <2>2, <2>3, <2>4, <2>5, <2>6, <2>7, <2>8, <2>9
       DEF ExtractSteps, ExtractorNext
<1>10. CASE EmulatorSteps \/ UNCHANGED vars
  BY <1>10 DEF EmulatorSteps, vars
<1> QED
  BY <1>1, <1>2, <1>3, <1>4, <1>5, <1>6, <1>7, <1>8, <1>9, <1>10
     DEF Next, CheckSteps

(* The Play Store never installs an older version than the one it has. *)
LEMMA InstalledGrows ==
    ASSUME TypeOK, EmulatorSteps \/ UNCHANGED installed, NEW e \in Emu,
           NEW p \in Pkg
    PROVE  /\ installed[e][p] \in Nat /\ installed'[e][p] \in Nat
           /\ installed'[e][p] >= installed[e][p]
<1>1. installed \in [Emu -> [Pkg -> Nat]]
  BY EmulatorsAssumption DEF TypeOK, EmuTypeOK, Codes0
<1>2. ASSUME NEW d \in Emu, NEW q \in Pkg, PlayUpdate(d, q)
      PROVE  /\ installed'[e][p] \in Nat
             /\ installed'[e][p] >= installed[e][p]
  BY <1>1, <1>2, EmulatorsAssumption DEF PlayUpdate, Code
<1>3. ASSUME UNCHANGED installed
      PROVE  /\ installed'[e][p] \in Nat
             /\ installed'[e][p] >= installed[e][p]
  BY <1>1, <1>3
<1> QED
  BY <1>1, <1>2, <1>3 DEF EmulatorSteps, EmuNext, Detach, Halt, Boot

(* An answer is never ahead of its emulator, nor is a voter behind. *)
LEMMA VotersStep == Inv /\ [Next]_vars => VotersOK'
<1> SUFFICES ASSUME Inv, [Next]_vars
             PROVE  VotersOK'
    OBVIOUS
<1>1. VoterFrames /\ VotersOK /\ TypeOK
  BY VoterFrameStep DEF Inv
<1>2. /\ answers \in [Emu -> Nat] /\ agreed \in Nat /\ cur \in Pkg
      /\ installed \in [Emu -> [Pkg -> Nat]] /\ listed \in Nat
      /\ voters \subseteq Emu /\ cur' \in Pkg /\ agreed' \in Nat
  <2>1. TypeOK'
    BY TypeStep DEF Inv
  <2> QED
    BY <1>1, <2>1, EmulatorsAssumption
       DEF TypeOK, EmuTypeOK, ExtractorTypeOK, Codes0
<1>3. \A e \in Emu, p \in Pkg : /\ installed'[e][p] \in Nat
                               /\ installed'[e][p] >= installed[e][p]
  BY <1>1, InstalledGrows DEF VoterFrames
<1>4. (pc # "query" => answers = NoAnswers)'
  BY <1>1 DEF VoterFrames, VotersOK, NoAnswers
<1>5. ASSUME NEW e \in Emu
      PROVE  answers'[e] <= installed'[e][cur']
  <2>1. CASE answers' = NoAnswers
    BY <1>2, <1>3, <2>1 DEF NoAnswers
  <2>2. CASE UNCHANGED <<answers, cur>>
    <3>1. answers[e] <= installed[e][cur]
      BY <1>1 DEF VotersOK
    <3> QED
      BY <1>2, <1>3, <2>2, <3>1
  <2>3. CASE CheckPackage
    <3>1. answers' = NoAnswers
      BY <1>1, <2>3 DEF CheckPackage, VotersOK
    <3> QED
      BY <2>1, <3>1
  <2>4. ASSUME NEW d \in Emu, AnswerVersion(d)
        PROVE  answers'[e] <= installed'[e][cur']
    <3>1. /\ answers' = [answers EXCEPT ![d] = installed[d][cur]]
          /\ installed' = installed /\ cur' = cur
      BY <2>4 DEF AnswerVersion, GetInstalledVersion, extVars
    <3>2. answers[e] <= installed[e][cur]
      BY <1>1 DEF VotersOK
    <3> QED
      BY <1>2, <3>1, <3>2
  <2> QED
    BY <1>1, <2>1, <2>2, <2>3, <2>4 DEF VoterFrames
<1>6. (pc \notin ExtractorPc => voters = {} /\ collected = {})'
  BY <1>1 DEF VoterFrames, VotersOK, ExtractorPc
<1>7. ASSUME NEW e \in voters'
      PROVE  installed'[e][cur'] >= agreed'
  <2>1. CASE UNCHANGED <<voters, agreed, cur>>
    <3>1. e \in Emu /\ installed[e][cur] >= agreed
      BY <1>1, <1>2, <1>7, <2>1 DEF VotersOK
    <3> QED
      BY <1>2, <1>3, <2>1, <3>1
  <2>2. CASE BeginExtract
    <3>1. /\ e \in connected /\ answers[e] = agreed'
          /\ installed' = installed /\ cur' = cur
      BY <1>7, <2>2 DEF BeginExtract, ExtractBegins, AgreedOn, emuVars
    <3>2. e \in Emu /\ answers[e] <= installed[e][cur]
      BY <1>1, <3>1 DEF connected, VotersOK
    <3> QED
      BY <1>2, <3>1, <3>2
  <2>3. CASE pc \notin ExtractorPc /\ UNCHANGED <<voters, collected>>
    BY <1>1, <1>7, <2>3 DEF VotersOK
  <2>4. CASE PullOneAPK
    BY <2>1, <2>4 DEF PullOneAPK
  <2> QED
    BY <1>1, <1>7, <2>1, <2>2, <2>3, <2>4 DEF VoterFrames
<1>8. ASSUME pc' = "pull", Clients[pos'] \in voters'
      PROVE  listed' >= agreed'
  <2>1. CASE ListPaths
    <3>1. /\ listed' = installed[Clients[pos]][cur]
          /\ Clients[pos] \in voters /\ agreed' = agreed
      BY <1>8, <2>1 DEF ListPaths, GetInstalledVersion
    <3> QED
      BY <1>1, <3>1 DEF VotersOK
  <2>2. CASE pc = "pull" /\ UNCHANGED <<pos, listed, voters, agreed>>
    BY <1>1, <1>8, <2>2 DEF VotersOK
  <2> QED
    BY <1>1, <1>8, <2>1, <2>2 DEF VoterFrames
<1>9. ASSUME NEW s \in collected', s.voted
      PROVE  s.ver >= agreed'
  <2>1. CASE UNCHANGED <<collected, agreed>>
    BY <1>1, <1>9, <2>1 DEF VotersOK
  <2>2. CASE BeginExtract
    BY <1>1, <1>9, <2>2 DEF BeginExtract, ExtractBegins, VotersOK, ExtractorPc
  <2>3. CASE pc \notin ExtractorPc /\ UNCHANGED <<voters, collected>>
    BY <1>1, <1>9, <2>3 DEF VotersOK
  <2>4. CASE PullOneAPK
    <3>1. agreed' = agreed /\ pc = "pull"
      BY <2>4 DEF PullOneAPK
    <3>2. CASE s \in collected
      BY <1>1, <1>9, <3>1, <3>2 DEF VotersOK
    <3>3. CASE s \notin collected
      <4>1. s \in {[name |-> n, ver |-> listed, voted |-> Clients[pos] \in voters] :
                     n \in paths}
        BY <1>9, <2>4, <3>3 DEF PullOneAPK
      <4>2. s.ver = listed /\ s.voted = (Clients[pos] \in voters)
        BY <4>1
      <4> QED
        BY <1>1, <1>9, <3>1, <4>2 DEF VotersOK
    <3> QED
      BY <3>2, <3>3
  <2> QED
    BY <1>1, <1>9, <2>1, <2>2, <2>3, <2>4 DEF VoterFrames
<1> QED
  BY <1>4, <1>5, <1>6, <1>7, <1>8, <1>9 DEF VotersOK

(* An artifact gets its files from what was collected. *)
LEMMA VoterSplitsStep == Inv /\ [Next]_vars => VoterSplitsNotOlder'
<1> SUFFICES ASSUME Inv, [Next]_vars, NEW f \in files', NEW s \in f.splits,
                    s.voted
             PROVE  s.ver >= f.code
    BY DEF VoterSplitsNotOlder
<1>1. CASE f \in files
  BY <1>1 DEF Inv, VoterSplitsNotOlder
<1>2. CASE f \notin files
  <2>1. Rename
    BY <1>2, VoterFrameStep DEF VoterFrames
  <2>2. PICK body \in Contents :
          f = [pkg |-> cur, code |-> agreed, kind |-> kind,
               splits |-> body.splits, abis |-> body.abis]
    BY <1>2, <2>1 DEF Rename
  <2>3. f.code = agreed /\ s \in collected
    BY <2>2 DEF Contents
  <2> QED
    BY <2>3 DEF Inv, VotersOK
<1> QED
  BY <1>1, <1>2

-----------------------------------------------------------------------------

(* Nobody has answered, voted or been pulled from when the model starts. *)
LEMMA InitVoters == Init => VotersOK /\ VoterSplitsNotOlder
<1> SUFFICES ASSUME Init
             PROVE  VotersOK /\ VoterSplitsNotOlder
    OBVIOUS
<1>1. installed \in [Emu -> [Pkg -> {0, 1}]] /\ cur \in Pkg
  BY WatcherAssumption DEF Init, EmuInit
<1>2. answers = [e \in Emu |-> 0]
  BY DEF Init, NoAnswers
<1>3. ASSUME NEW e \in Emu
      PROVE  answers[e] <= installed[e][cur]
  <2>1. answers[e] = 0 /\ installed[e][cur] \in {0, 1}
    BY <1>1, <1>2
  <2> QED
    BY <2>1
<1>4. pc = "down" /\ voters = {} /\ collected = {} /\ files = {}
  BY DEF Init, ExtractorInit
<1>5. pc # "pull" /\ answers = NoAnswers
  BY <1>2, <1>4 DEF NoAnswers
<1> QED
  BY <1>3, <1>4, <1>5 DEF VotersOK, VoterSplitsNotOlder

(* The invariant holds when the model starts. *)
LEMMA InitInv == Init => Inv
<1> SUFFICES ASSUME Init
             PROVE  Inv
    OBVIOUS
<1> USE DEF Init, EmuInit, StoreInit, ExtractorInit
<1>1. EmuTypeOK /\ StoreTypeOK
  BY EmulatorsAssumption DEF EmuTypeOK, StoreTypeOK, Codes0
<1>2. latest \in [Pkg -> Latest]
  BY CodeTypes DEF NoLatest, Latest, Kind
<1>3. cur \in Pkg
  BY WatcherAssumption
<1>4. ExtractorTypeOK
  BY <1>2, <1>3, CodeTypes, PosTypes DEF ExtractorTypeOK
<1>5. TypeOK
  BY <1>1, <1>4, NoAnswersType, PcNames DEF TypeOK
<1>6. IsFiniteSet(files)
  BY FS_EmptySet
<1>7. ControlOK /\ ExtractsNewer /\ Written /\ PruneSpares
  BY DEF ControlOK, ExtractsNewer, Written, PruneSpares, Renamed, InExtraction,
         ExtractorPc
<1>8. StoreBehind /\ RecordedBacked /\ OfferedBeforeRecorded /\ SinkThenStore
  BY DEF StoreBehind, RecordedBacked, OfferedBeforeRecorded, SinkThenStore
<1>9. VotersOK /\ VoterSplitsNotOlder
  BY InitVoters
<1>10. NamesUnique /\ SidecarsOK /\ RecordedSidecarMatches
  BY DEF NamesUnique, SidecarsOK, RecordedSidecarMatches
<1> QED
  BY <1>5, <1>6, <1>7, <1>8, <1>9, <1>10 DEF Inv

(* Every step keeps the inductive invariant. *)
LEMMA InvStep == Inv /\ [Next]_vars => Inv'
BY TypeStep, FilesFinite, ControlStep, StoreStep, ExtractsNewerStep, WrittenStep,
   PruneSparesStep, NamesUniqueStep, SidecarsStep, RecordedSidecarStep,
   RecordedBackedStep, SinkStep, VotersStep, VoterSplitsStep
   DEF Inv

(* The inductive invariant holds in every reachable state. *)
THEOREM Invariance == Spec => []Inv
BY InitInv, InvStep, PTL DEF Spec

(***************************************************************************)
(* Every variable keeps its type through every operation, fault and crash. *)
(***************************************************************************)
THEOREM TypeCorrect == Spec => []TypeOK
<1>1. Inv => TypeOK
  BY DEF Inv
<1> QED
  BY <1>1, Invariance, PTL

(***************************************************************************)
(* What the store has recorded is in the output directory, so skipping an  *)
(* extraction because the store knows the version is always justified.     *)
(***************************************************************************)
THEOREM RecordedIsBacked == Spec => []RecordedBacked
<1>1. Inv => RecordedBacked
  BY DEF Inv
<1> QED
  BY <1>1, Invariance, PTL

(***************************************************************************)
(* No version is recorded that the sink was not offered: a crash at any    *)
(* point costs at most a second call for the same version.                 *)
(***************************************************************************)
THEOREM RecordedWasOffered == Spec => []OfferedBeforeRecorded
<1>1. Inv => OfferedBeforeRecorded
  BY DEF Inv
<1> QED
  BY <1>1, Invariance, PTL

(***************************************************************************)
(* A process calls the sink at most once per version, whether or not the   *)
(* store could be flushed.                                                 *)
(***************************************************************************)
THEOREM SinkAtMostOnce == Spec => []SinkOncePerProcess
<1>1. Inv => SinkOncePerProcess
  <2> SUFFICES ASSUME Inv, pc = "sink", agreed \in session[cur]
               PROVE  FALSE
    BY DEF SinkOncePerProcess
  <2>1. storeData[cur] \in Nat /\ agreed \in Nat /\ cur \in Pkg
    BY EmulatorsAssumption
       DEF Inv, TypeOK, StoreTypeOK, ExtractorTypeOK, Codes0
  <2>2. storeData[cur] < agreed
    BY DEF Inv, ExtractsNewer, InExtraction, ExtractorPc
  <2>3. agreed <= storeData[cur]
    BY <2>1 DEF Inv, SinkThenStore
  <2> QED
    BY <2>1, <2>2, <2>3
<1> QED
  BY <1>1, Invariance, PTL

(***************************************************************************)
(* store.json never goes back to an older version of a package.            *)
(***************************************************************************)
THEOREM StoreNeverRegresses == Spec => StoreMonotone
<1>1. Inv /\ [Next]_vars => [\A p \in Pkg : storeFile'[p] >= storeFile[p]]_vars
  BY StoreStep
<1> QED
  BY <1>1, Invariance, PTL DEF Spec, StoreMonotone

(***************************************************************************)
(* A new artifact is always of a version newer than the recorded one:      *)
(* a restart does not re-extract what store.json holds.                    *)
(***************************************************************************)
THEOREM NothingReextracted == Spec => NeverReextracts
<1>1. Inv /\ [Next]_vars => [\A f \in files' \ files : f.code > storeFile[f.pkg]]_vars
  <2> SUFFICES ASSUME Inv, [Next]_vars, NEW f \in files' \ files
               PROVE  f.code > storeFile[f.pkg]
    OBVIOUS
  <2>1. Rename
    BY FrameStep DEF Frames, RemoveVictim
  <2>2. f.pkg = cur /\ f.code = agreed
    BY <2>1 DEF Rename
  <2>3. storeData[cur] < agreed /\ storeFile[cur] <= storeData[cur]
    BY <2>1 DEF Rename, Inv, ExtractsNewer, StoreBehind, InExtraction, ExtractorPc,
                TypeOK, ExtractorTypeOK
  <2>4. /\ storeData[cur] \in Nat /\ storeFile[cur] \in Nat
        /\ agreed \in Nat
    BY EmulatorsAssumption
       DEF Inv, TypeOK, StoreTypeOK, ExtractorTypeOK, Codes0
  <2> QED
    BY <2>2, <2>3, <2>4
<1> QED
  BY <1>1, Invariance, PTL DEF Spec, NeverReextracts

(***************************************************************************)
(* A file pulled from an emulator that agreed on the version is at least   *)
(* as new as the artifact says, whatever the Play Stores do between the    *)
(* answers and the pull.                                                   *)
(***************************************************************************)
THEOREM VotersNeverBehind == Spec => []VoterSplitsNotOlder
<1>1. Inv => VoterSplitsNotOlder
  BY DEF Inv
<1> QED
  BY <1>1, Invariance, PTL

(***************************************************************************)
(* The file a reader finds through latest.json has, once recorded, a whole *)
(* sidecar that is its own checksum: no crash between the rename of the    *)
(* artifact and the end of writeChecksum shows after the record.           *)
(***************************************************************************)
THEOREM SidecarMatches == Spec => []RecordedSidecarMatches
<1>1. Inv => RecordedSidecarMatches
  BY DEF Inv
<1> QED
  BY <1>1, Invariance, PTL

(***************************************************************************)
(* Whatever happens between the scan and the removals, a file disappears   *)
(* only for one of the same name or while Keep files at least as new stay. *)
(***************************************************************************)
THEOREM PruneKeeps == Spec => PruneKeepsNewest
<1>1. Inv /\ [Next]_vars =>
        [\A f \in files \ files' :
           \/ \E g \in files' : Names(g, f)
           \/ Cardinality({g \in files' : g.pkg = f.pkg /\ g.code >= f.code})
                 >= Keep]_vars
  <2> DEFINE left(f) == {g \in files' : g.pkg = f.pkg /\ g.code >= f.code}
  <2> SUFFICES ASSUME Inv, [Next]_vars, NEW f \in files \ files'
               PROVE  (\E g \in files' : Names(g, f)) \/ Cardinality(left(f)) >= Keep
    OBVIOUS
  <2>1. CASE Rename
    <3>1. PICK body \in Contents :
            files' = {g \in files : ~Names(g, OutPath)} \cup
                     {[pkg |-> cur, code |-> agreed, kind |-> kind,
                       splits |-> body.splits, abis |-> body.abis]}
      BY <2>1 DEF Rename
    <3> DEFINE new == [pkg |-> cur, code |-> agreed, kind |-> kind,
                       splits |-> body.splits, abis |-> body.abis]
    <3>2. Names(f, OutPath) /\ new \in files' /\ Names(new, OutPath)
      BY <3>1 DEF Names, OutPath
    <3> HIDE DEF new
    <3>3. Names(new, f)
      BY <3>2 DEF Names
    <3> QED
      BY <3>2, <3>3
  <2>2. CASE RemoveVictim
    <3>1. PICK v \in victims : files' = files \/ files' = files \ {v}
      BY <2>2 DEF RemoveVictim
    <3>2. f = v /\ files' \subseteq files
      BY <3>1
    <3>3. f.pkg = cur /\ Cardinality(Spared) >= Keep
      BY <2>2, <3>2 DEF RemoveVictim, Inv, PruneSpares
    <3>4. \A g \in files : g.code \in Nat
      BY EmulatorsAssumption
         DEF Inv, TypeOK, ExtractorTypeOK, Artifact, Code
    <3>5. Spared \subseteq left(f)
      BY <3>1, <3>2, <3>3, <3>4 DEF Spared, Versions
    <3>6. IsFiniteSet(left(f))
      BY <3>2, FS_Subset DEF Inv
    <3> HIDE DEF left
    <3>7. IsFiniteSet(Spared) /\ Cardinality(Spared) <= Cardinality(left(f))
      BY <3>5, <3>6, FS_Subset
    <3>8. Cardinality(Spared) \in Nat /\ Cardinality(left(f)) \in Nat
      BY <3>6, <3>7, FS_CardinalityType
    <3>9. Cardinality(left(f)) >= Keep
      BY <3>3, <3>7, <3>8, ExtractorAssumption
    <3> QED
      BY <3>9
  <2> QED
    BY <2>1, <2>2, FrameStep DEF Frames
<1> QED
  BY <1>1, Invariance, PTL DEF Spec, PruneKeepsNewest

(***************************************************************************)
(* Between extractions a running service has no extract-* directory: every *)
(* way out of Extract removes it, and a start removes what a crash left.   *)
(***************************************************************************)
THEOREM TempDirNeverLeft == Spec => []TempDirOwned
<1>1. Init => TempDirOwned
  BY DEF Init, TempDirOwned
<1>2. TempDirOwned /\ [Next]_vars => TempDirOwned'
  BY FrameStep DEF Frames, TempDirOwned
<1> QED
  BY <1>1, <1>2, PTL DEF Spec
=============================================================================
