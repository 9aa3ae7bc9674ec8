---------------------------- MODULE LatestProofs ----------------------------
(***************************************************************************)
(* What latest.json promises in a deployment with one emulator, for every  *)
(* emulator, every set of packages and file names, every layout and every  *)
(* bound on codes and faults.  A second emulator breaks it (WatcherClaims),*)
(* and so does Keep = 1: the prune may then take 7.apk for 7.xapk.         *)
(***************************************************************************)
EXTENDS WatcherClaims, WatcherProofs

(***************************************************************************)
(* How a query and an extraction go on, and what is kept from the rename   *)
(* of the artifact to that of latest.json, and from there to the sink.     *)
(***************************************************************************)
LatestFrames ==
    /\ pc' = "query" =>
         \/ CheckPackage
         \/ \E e \in Emu : AnswerVersion(e)
         \/ pc = "query" /\ UNCHANGED <<cur, answers, files, latest>>
    /\ pc' \in ExtractorPc =>
         \/ BeginExtract
         \/ pc \in ExtractorPc /\ UNCHANGED <<voters, agreed, cur>>
    /\ pc' \in {"sum", "sumwrite", "latest", "latestrename"} =>
         \/ Rename
         \/ /\ pc \in {"sum", "sumwrite", "latest", "latestrename"}
            /\ UNCHANGED <<cur, agreed, isSplit, files>>
    /\ pc' \in {"prune", "remove"} =>
         \/ RenameLatest
         \/ pc \in {"prune", "remove"} /\ UNCHANGED <<cur, agreed, latest>>

(* Every action of the model is within LatestFrames. *)
LEMMA LatestFrameStep == [Next]_vars => LatestFrames
<1> SUFFICES ASSUME [Next]_vars
             PROVE  LatestFrames
    OBVIOUS
<1> USE DEF LatestFrames, ExtractorPc, localVars, diskVars, sinkVars, extVars,
            watchVars
<1>1. CASE Start
  BY <1>1 DEF Start
<1>2. CASE Stop \/ Crash
  BY <1>2 DEF Stop, Crash, ProcessEnds
<1>3. CASE PollStart \/ PollDone
  BY <1>3 DEF PollStart, PollDone
<1>4. CASE CheckPackage
  BY <1>4 DEF CheckPackage
<1>5. ASSUME NEW e \in Emu, AnswerVersion(e) \/ AnswerError(e)
      PROVE  LatestFrames
  BY <1>5 DEF AnswerVersion, AnswerError
<1>6. CASE NothingToExtract \/ BeginFails
  BY <1>6 DEF NothingToExtract, BeginFails
<1>7. CASE BeginExtract
  BY <1>7 DEF BeginExtract, ExtractBegins
<1>8. CASE Record
  BY <1>8 DEF Record
<1>9. CASE SkipClient \/ ListPaths \/ PullOneAPK \/ ClientDone
  <2>1. CASE SkipClient \/ ClientDone
    BY <2>1 DEF SkipClient, ClientDone
  <2>2. CASE ListPaths
    BY <2>2 DEF ListPaths
  <2>3. CASE PullOneAPK
    BY <2>3 DEF PullOneAPK
  <2> QED
    BY <1>9, <2>1, <2>2, <2>3
<1>10. CASE \/ PullFails \/ NothingCollected \/ WriteFails \/ ChecksumFails
            \/ LatestFails
  BY <1>10 DEF PullFails, NothingCollected, WriteFails, ChecksumFails,
               LatestFails, ExtractFails
<1>11. CASE AllCollected \/ WriteTmp \/ Rename
  BY <1>11 DEF AllCollected, WriteTmp, Rename
<1>12. CASE TruncateSum \/ WriteSum \/ WriteLatestTmp \/ RenameLatest
  BY <1>12 DEF TruncateSum, WriteSum, WriteLatestTmp, RenameLatest
<1>13. CASE ScanVersions \/ ScanFails \/ RemoveVictim \/ PruneDone
  BY <1>13 DEF ScanVersions, ScanFails, RemoveVictim, PruneDone
<1>14. CASE OnArtifact
  BY <1>14 DEF OnArtifact
<1>15. CASE EmulatorSteps
  <2>1. UNCHANGED <<storeVars, extVars, watchVars>>
    BY <1>15 DEF EmulatorSteps
  <2> QED
    BY <2>1
<1>16. CASE UNCHANGED vars
  BY <1>16 DEF vars
<1> QED
  BY <1>1, <1>2, <1>3, <1>4, <1>5, <1>6, <1>7, <1>8, <1>9, <1>10, <1>11,
     <1>12, <1>13, <1>14, <1>15, <1>16
     DEF Next, CheckSteps, ExtractSteps, ExtractorNext

(* Every code in the state of the service is a natural number. *)
NaturalCodes ==
    /\ cur \in Pkg /\ agreed \in Nat
    /\ installed \in [Emu -> [Pkg -> Nat]]
    /\ answers \in [Emu -> Nat]
    /\ \A f \in files : f.pkg \in Pkg /\ f.code \in Nat /\ f.kind \in Kind
    /\ \A p \in Pkg : latest[p].code \in Nat

(* As TypeOK says. *)
LEMMA CodesAreNatural == TypeOK => NaturalCodes
<1> SUFFICES ASSUME TypeOK
             PROVE  NaturalCodes
    OBVIOUS
<1>1. Code \subseteq Nat /\ Codes0 \subseteq Nat
  BY EmulatorsAssumption DEF Code, Codes0
<1>2. EmuTypeOK /\ ExtractorTypeOK /\ answers \in [Emu -> Codes0]
  BY DEF TypeOK
<1>3. installed \in [Emu -> [Pkg -> Codes0]]
  BY <1>2 DEF EmuTypeOK
<1>4. \A f \in files : f.pkg \in Pkg /\ f.code \in Code /\ f.kind \in Kind
  BY <1>2 DEF ExtractorTypeOK, Artifact
<1>5. \A p \in Pkg : latest[p].code \in Codes0
  BY <1>2 DEF ExtractorTypeOK, Latest
<1> QED
  BY <1>1, <1>2, <1>3, <1>4, <1>5 DEF ExtractorTypeOK, NaturalCodes

-----------------------------------------------------------------------------
(* What is on disk is replaced only by the version being extracted. *)
LEMMA NewestKept ==
    ASSUME Inv, [Next]_vars, NEW p \in Pkg, NEW c \in Nat, Newest(p, c),
           pc \in ExtractorPc /\ p = cur => agreed <= c
    PROVE  Newest(p, c)'
<1>1. Frames /\ SidecarFrames
  BY FrameStep, SidecarFrameStep
<1>2. latest'[p].code <= c
  <2>1. CASE RenameLatest
    <3>1. /\ latest' = [latest EXCEPT ![cur] = [code |-> agreed, kind |-> kind]]
          /\ pc \in ExtractorPc
      BY <2>1 DEF RenameLatest, ExtractorPc
    <3>2. latest'[p] = IF p = cur THEN [code |-> agreed, kind |-> kind] ELSE latest[p]
      BY <3>1 DEF Inv, TypeOK, ExtractorTypeOK
    <3> QED
      BY <3>1, <3>2 DEF Newest
  <2>2. CASE UNCHANGED latest
    BY <2>2 DEF Newest
  <2> QED
    BY <1>1, <2>1, <2>2 DEF SidecarFrames
<1>3. ASSUME NEW f \in files', f.pkg = p
      PROVE  f.code <= c
  <2>1. CASE f \in files
    BY <1>3, <2>1 DEF Newest
  <2>2. CASE f \notin files
    <3>1. Rename
      BY <1>1, <1>3, <2>2 DEF Frames, RemoveVictim
    <3>2. f.pkg = cur /\ f.code = agreed /\ pc \in ExtractorPc
      BY <1>3, <2>2, <3>1 DEF Rename, ExtractorPc
    <3> QED
      BY <1>3, <3>2
  <2> QED
    BY <2>1, <2>2
<1> QED
  BY <1>2, <1>3 DEF Newest

(***************************************************************************)
(* The only emulator is the one that voted, and what it has grows: what is *)
(* written is not ahead of it.                                             *)
(***************************************************************************)
LEMMA NotAheadOfEmulator ==
    ASSUME OneEmulator, Inv, NeverAhead, [Next]_vars, NEW e \in Emu, NEW p \in Pkg
    PROVE  Newest(p, installed[e][p])'
<1>1. /\ TypeOK /\ VoterFrames /\ cur \in Pkg /\ agreed \in Nat
      /\ installed \in [Emu -> [Pkg -> Nat]]
  BY VoterFrameStep, CodesAreNatural DEF Inv, NaturalCodes
<1>2. PICK c : c = installed[e][p]
  OBVIOUS
<1>3. PICK d : d = installed'[e][p]
  OBVIOUS
<1>4. c \in Nat /\ d \in Nat /\ c <= d
  BY <1>1, <1>2, <1>3, InstalledGrows DEF VoterFrames
<1>5. ASSUME pc \in ExtractorPc, p = cur
      PROVE  agreed <= c
  <2>1. PICK v \in voters : TRUE
    BY <1>5 DEF NeverAhead
  <2>2. v = e /\ installed[v][cur] >= agreed
    BY <2>1 DEF OneEmulator, Inv, TypeOK, ExtractorTypeOK, VotersOK
  <2> QED
    BY <1>1, <1>2, <1>5, <2>2
<1>6. Newest(p, c)
  BY <1>2 DEF NeverAhead
<1>7. Newest(p, c)'
  BY <1>4, <1>5, <1>6, NewestKept
<1>8. TypeOK'
  BY TypeStep DEF Inv
<1>9. NaturalCodes'
  BY <1>8, CodesAreNatural, PTL
<1> QED
  BY <1>3, <1>4, <1>7, <1>9 DEF Newest, NaturalCodes

(* Nothing on disk is ever ahead of the emulator, its answer, its version. *)
LEMMA NeverAheadStep ==
    OneEmulator /\ Inv /\ NeverAhead /\ [Next]_vars => NeverAhead'
<1> SUFFICES ASSUME OneEmulator, Inv, NeverAhead, [Next]_vars
             PROVE  NeverAhead'
    OBVIOUS
<1>1. /\ TypeOK /\ VoterFrames /\ LatestFrames /\ cur \in Pkg /\ agreed \in Nat
      /\ installed \in [Emu -> [Pkg -> Nat]] /\ answers \in [Emu -> Nat]
  BY VoterFrameStep, LatestFrameStep, CodesAreNatural DEF Inv, NaturalCodes
<1>2. ASSUME pc' = "query", NEW e \in Emu, answers'[e] # 0
      PROVE  Newest(cur, answers[e])'
  <2>1. CASE CheckPackage
    <3>1. answers' = NoAnswers
      BY <2>1 DEF CheckPackage, Inv, VotersOK
    <3> QED
      BY <1>2, <3>1 DEF NoAnswers
  <2>2. ASSUME NEW d \in Emu, AnswerVersion(d)
        PROVE  Newest(cur, answers[e])'
    <3>1. /\ answers' = [answers EXCEPT ![d] = installed[d][cur]]
          /\ UNCHANGED <<cur, files, latest>> /\ pc = "query"
      BY <2>2 DEF AnswerVersion, GetInstalledVersion, extVars, diskVars
    <3>2. d = e /\ answers'[e] = installed[e][cur]
      BY <1>1, <3>1 DEF OneEmulator
    <3>3. Newest(cur, installed[e][cur])
      BY <1>1 DEF NeverAhead
    <3> QED
      BY <3>1, <3>2, <3>3 DEF Newest
  <2>3. CASE pc = "query" /\ UNCHANGED <<cur, answers, files, latest>>
    BY <1>2, <2>3 DEF NeverAhead, Newest
  <2> QED
    BY <1>1, <1>2, <2>1, <2>2, <2>3 DEF LatestFrames
<1>3. ASSUME pc' \in ExtractorPc
      PROVE  voters' # {} /\ Newest(cur, agreed)'
  <2>1. CASE BeginExtract
    <3>1. /\ voters' = connected /\ connected # {} /\ pc = "query"
          /\ \A e \in connected : answers[e] = agreed'
          /\ UNCHANGED <<cur, files, latest>>
      BY <2>1 DEF BeginExtract, ExtractBegins, AgreedOn
    <3>2. PICK e \in connected : e \in Emu /\ answers[e] # 0 /\ answers[e] = agreed'
      BY <3>1 DEF connected
    <3>3. Newest(cur, answers[e])
      BY <3>1, <3>2 DEF NeverAhead
    <3> QED
      BY <3>1, <3>2, <3>3 DEF Newest
  <2>2. CASE pc \in ExtractorPc /\ UNCHANGED <<voters, agreed, cur>>
    <3>1. voters # {} /\ Newest(cur, agreed)
      BY <2>2 DEF NeverAhead
    <3>2. PICK p \in Pkg, c \in Nat : p = cur /\ c = agreed
      BY <1>1
    <3>3. Newest(p, c)'
      BY <3>1, <3>2, NewestKept
    <3> QED
      BY <2>2, <3>1, <3>2, <3>3 DEF Newest
  <2> QED
    BY <1>1, <1>3, <2>1, <2>2 DEF LatestFrames
<1>4. \A e \in Emu, p \in Pkg : Newest(p, installed[e][p])'
  BY NotAheadOfEmulator
<1> QED
  BY <1>2, <1>3, <1>4 DEF NeverAhead

(* A version replaces what latest.json names only if it is as new. *)
LEMMA LatestGrows ==
    Inv /\ NeverAhead /\ [Next]_vars =>
        \A p \in Pkg : latest'[p].code >= latest[p].code
<1> SUFFICES ASSUME Inv, NeverAhead, [Next]_vars, NEW p \in Pkg
             PROVE  latest'[p].code >= latest[p].code
    OBVIOUS
<1>1. cur \in Pkg /\ agreed \in Nat /\ \A q \in Pkg : latest[q].code \in Nat
  BY CodesAreNatural DEF Inv, NaturalCodes
<1>2. CASE RenameLatest
  <2>1. /\ latest' = [latest EXCEPT ![cur] = [code |-> agreed, kind |-> kind]]
        /\ latest[cur].code <= agreed
    BY <1>2 DEF RenameLatest, NeverAhead, Newest, ExtractorPc
  <2>2. latest'[p] = IF p = cur THEN [code |-> agreed, kind |-> kind] ELSE latest[p]
    BY <2>1 DEF Inv, TypeOK, ExtractorTypeOK
  <2> QED
    BY <1>1, <2>1, <2>2
<1>3. CASE UNCHANGED latest
  BY <1>1, <1>3
<1> QED
  BY <1>2, <1>3, SidecarFrameStep DEF SidecarFrames

(***************************************************************************)
(* At most two files of a package have one version, 7.apk and 7.xapk: of   *)
(* a version that is the newest, a prune that keeps two takes neither.     *)
(***************************************************************************)
LEMMA PruneSparesNewest ==
    ASSUME NEW fs, IsFiniteSet(fs), NEW vs \in Prunable(fs), NEW v \in vs,
           NEW p, Keep >= 2,
           \A f \in fs : f.pkg = p /\ f.code \in Nat /\ f.kind \in Kind,
           \A f \in fs, g \in fs : Names(f, g) => f = g
    PROVE  \E f \in fs : f.code > v.code
<1> SUFFICES ASSUME \A f \in fs : ~(f.code > v.code)
             PROVE  FALSE
    OBVIOUS
<1> DEFINE kept == fs \ vs
<1>1. /\ vs \subseteq fs
      /\ Cardinality(kept) = Keep
      /\ \A k \in kept : v.code <= k.code
  BY PrunableSpares
<1>2. IsFiniteSet(kept)
  BY FS_Subset
<1>3. \A k \in kept : k \in fs /\ k.code = v.code /\ k.kind # v.kind
  <2> SUFFICES ASSUME NEW k \in kept
               PROVE  k \in fs /\ k.code = v.code /\ k.kind # v.kind
      OBVIOUS
  <2>1. k \in fs /\ v \in fs /\ k # v
    BY <1>1
  <2>2. k.code = v.code
    BY <1>1, <2>1
  <2> QED
    BY <2>1, <2>2 DEF Names
<1>4. \A k \in kept, l \in kept : k = l
  <2> SUFFICES ASSUME NEW k \in kept, NEW l \in kept
               PROVE  k = l
      OBVIOUS
  <2>1. k.kind = l.kind
    BY <1>1, <1>3 DEF Kind
  <2> QED
    BY <1>3, <2>1 DEF Names
<1> HIDE DEF kept
<1>5. Cardinality(kept) \in {0, 1}
  <2>1. CASE kept = {}
    BY <2>1, FS_EmptySet
  <2>2. CASE kept # {}
    <3>1. PICK k : k \in kept
      BY <2>2
    <3>2. kept = {k}
      BY <1>4, <3>1
    <3>3. Cardinality({k}) = 1
      BY FS_Singleton
    <3> QED
      BY <3>2, <3>3
  <2> QED
    BY <2>1, <2>2
<1> QED
  BY <1>1, <1>5, ExtractorAssumption

(* The file latest.json names is renamed before it and pruned never. *)
LEMMA LatestSparedStep ==
    Inv /\ LatestInv /\ Keep >= 2 /\ [Next]_vars => LatestSpared'
<1> SUFFICES ASSUME Inv, LatestInv, Keep >= 2, [Next]_vars
             PROVE  LatestSpared'
    OBVIOUS
<1>1. /\ TypeOK /\ Frames /\ LatestFrames /\ LatestSpared /\ NaturalCodes
  BY FrameStep, LatestFrameStep, CodesAreNatural DEF Inv, LatestInv
<1>2. ASSUME pc' \in {"sum", "sumwrite", "latest", "latestrename"}
      PROVE  \E f \in files' : Names(f, OutPath)'
  <2>1. CASE Rename
    <3>1. PICK body \in Contents :
            [pkg |-> cur, code |-> agreed, kind |-> kind,
             splits |-> body.splits, abis |-> body.abis] \in files'
      BY <2>1 DEF Rename
    <3>2. UNCHANGED <<cur, agreed, kind>>
      BY <2>1 DEF Rename, localVars, kind
    <3> QED
      BY <3>1, <3>2 DEF Names, OutPath
  <2>2. CASE /\ pc \in {"sum", "sumwrite", "latest", "latestrename"}
             /\ UNCHANGED <<cur, agreed, isSplit, files>>
    BY <1>1, <2>2 DEF LatestSpared, Names, OutPath, kind
  <2> QED
    BY <1>1, <1>2, <2>1, <2>2 DEF LatestFrames
<1>3. ASSUME pc' \in {"prune", "remove"}
      PROVE  latest'[cur'].code = agreed'
  <2>1. CASE RenameLatest
    BY <1>1, <2>1 DEF RenameLatest, localVars, TypeOK, ExtractorTypeOK
  <2>2. CASE pc \in {"prune", "remove"} /\ UNCHANGED <<cur, agreed, latest>>
    BY <1>1, <2>2 DEF LatestSpared
  <2> QED
    BY <1>1, <1>3, <2>1, <2>2 DEF LatestFrames
<1>4. ASSUME pc' = "remove", NEW v \in victims'
      PROVE  v.pkg = cur' /\ ~IsLatest(v)'
  <2>1. CASE ScanVersions
    <3>1. /\ victims' \in Prunable(Versions(cur)) /\ pc = "prune"
          /\ UNCHANGED <<cur, latest>>
      BY <2>1 DEF ScanVersions, diskVars
    <3>2. latest[cur].code = agreed /\ Newest(cur, agreed)
      BY <1>1, <3>1 DEF LatestSpared, LatestInv, NeverAhead, ExtractorPc
    <3>3. IsFiniteSet(Versions(cur))
      BY FS_Subset DEF Versions, Inv
    <3>4. PICK vs \in Prunable(Versions(cur)) : vs = victims'
      BY <3>1
    <3>5. v \in Versions(cur)
      BY <1>4, <3>3, <3>4, PrunableSpares
    <3>6. /\ \A f \in Versions(cur) :
               f.pkg = cur /\ f.code \in Nat /\ f.kind \in Kind /\ f \in files
          /\ \A f \in Versions(cur), g \in Versions(cur) : Names(f, g) => f = g
      BY <1>1 DEF Versions, NaturalCodes, Inv, NamesUnique
    <3>7. PICK f \in Versions(cur) : f.code > v.code
      BY <1>4, <3>3, <3>4, <3>6, PruneSparesNewest
    <3>8. v.code # agreed
      BY <1>1, <3>2, <3>5, <3>6, <3>7 DEF Newest, NaturalCodes
    <3>9. latest[v.pkg] # [code |-> v.code, kind |-> v.kind]
      BY <3>2, <3>5, <3>6, <3>8
    <3> QED
      BY <3>1, <3>5, <3>6, <3>9 DEF IsLatest
  <2>2. CASE RemoveVictim
    <3>1. /\ victims' \subseteq victims /\ pc = "remove"
          /\ UNCHANGED <<cur, latest>>
      BY <2>2 DEF RemoveVictim
    <3> QED
      BY <1>1, <1>4, <3>1 DEF LatestSpared, IsLatest
  <2>3. CASE pc = "remove" /\ UNCHANGED <<victims, files, cur>>
    <3>1. CASE RenameLatest
      BY <2>3, <3>1 DEF RenameLatest
    <3>2. CASE UNCHANGED latest
      BY <1>1, <1>4, <2>3, <3>2 DEF LatestSpared, IsLatest
    <3> QED
      BY <3>1, <3>2, SidecarFrameStep DEF SidecarFrames
  <2> QED
    BY <1>1, <1>4, <2>1, <2>2, <2>3 DEF Frames
<1> QED
  BY <1>2, <1>3, <1>4 DEF LatestSpared

(* A file of that name is there from the rename of latest.json on. *)
LEMMA LatestNamedStep ==
    Inv /\ LatestInv /\ [Next]_vars => LatestNamesAFile'
<1> SUFFICES ASSUME Inv, LatestInv, [Next]_vars, NEW p \in Pkg,
                    latest'[p].code # 0
             PROVE  \E f \in files' : /\ f.pkg = p
                                      /\ f.code = latest'[p].code
                                      /\ f.kind = latest'[p].kind
    BY DEF LatestNamesAFile
<1>1. TypeOK /\ Frames /\ SidecarFrames /\ LatestSpared
  BY FrameStep, SidecarFrameStep DEF Inv, LatestInv
<1>2. CASE RenameLatest
  <2>1. /\ latest' = [latest EXCEPT ![cur] = [code |-> agreed, kind |-> kind]]
        /\ files' = files /\ pc = "latestrename"
    BY <1>2 DEF RenameLatest
  <2>2. PICK f \in files : Names(f, OutPath)
    BY <1>1, <2>1 DEF LatestSpared
  <2>3. f.pkg = cur /\ f.code = agreed /\ f.kind = kind
    BY <2>2 DEF Names, OutPath
  <2>4. latest'[p] = IF p = cur THEN [code |-> agreed, kind |-> kind] ELSE latest[p]
    BY <1>1, <2>1 DEF TypeOK, ExtractorTypeOK
  <2>5. CASE p = cur
    BY <2>1, <2>3, <2>4, <2>5
  <2>6. CASE p # cur
    BY <2>1, <2>4, <2>6 DEF LatestInv, LatestNamesAFile
  <2> QED
    BY <2>5, <2>6
<1>3. CASE UNCHANGED latest
  <2>1. PICK f \in files : /\ f.pkg = p
                           /\ f.code = latest[p].code
                           /\ f.kind = latest[p].kind
    BY <1>3 DEF LatestInv, LatestNamesAFile
  <2>2. CASE files' = files
    BY <1>3, <2>1, <2>2
  <2>3. CASE Rename
    <3>1. PICK new \in files' :
            /\ Names(new, OutPath)
            /\ \A g \in files : Names(g, OutPath) \/ g \in files'
      <4>1. PICK body \in Contents :
              files' = {h \in files : ~Names(h, OutPath)} \cup
                       {[pkg |-> cur, code |-> agreed, kind |-> kind,
                         splits |-> body.splits, abis |-> body.abis]}
        BY <2>3 DEF Rename
      <4> DEFINE new == [pkg |-> cur, code |-> agreed, kind |-> kind,
                         splits |-> body.splits, abis |-> body.abis]
      <4>2. new \in files' /\ Names(new, OutPath)
        BY <4>1 DEF Names, OutPath
      <4> HIDE DEF new
      <4> QED
        BY <4>1, <4>2
    <3> QED
      BY <1>3, <2>1, <3>1 DEF Names
  <2>4. CASE RemoveVictim
    <3>1. PICK v \in victims : files' = files \/ files' = files \ {v}
      BY <2>4 DEF RemoveVictim
    <3>2. v.pkg = cur /\ ~IsLatest(v)
      BY <1>1, <2>4, <3>1 DEF RemoveVictim, LatestSpared
    <3>3. latest[p] \in Latest
      BY <1>1 DEF TypeOK, ExtractorTypeOK
    <3>4. latest[p] = [code |-> latest[p].code, kind |-> latest[p].kind]
      BY <3>3 DEF Latest
    <3>5. f # v
      BY <2>1, <3>2, <3>4 DEF IsLatest
    <3> QED
      BY <1>3, <2>1, <3>1, <3>5
  <2> QED
    BY <1>1, <2>2, <2>3, <2>4 DEF Frames
<1> QED
  BY <1>1, <1>2, <1>3 DEF SidecarFrames

-----------------------------------------------------------------------------
(* Nothing is on disk, and nothing is named, when the model starts. *)
LEMMA InitLatest == Init => LatestInv
<1> SUFFICES ASSUME Init
             PROVE  LatestInv
    OBVIOUS
<1>1. /\ files = {} /\ \A p \in Pkg : latest[p].code = 0
      /\ pc = "down"
  BY DEF Init, ExtractorInit, NoLatest
<1>2. installed \in [Emu -> [Pkg -> Nat]]
  BY DEF Init, EmuInit
<1>3. NeverAhead
  BY <1>1, <1>2 DEF NeverAhead, Newest, ExtractorPc
<1>4. LatestSpared /\ LatestNamesAFile
  BY <1>1 DEF LatestSpared, LatestNamesAFile
<1> QED
  BY <1>3, <1>4 DEF LatestInv

(***************************************************************************)
(* With one emulator latest.json never goes back to an older version:      *)
(* a newer one was installed when the older was agreed on, never after.    *)
(***************************************************************************)
THEOREM LatestMonotone == OneEmulator => (Spec => LatestNeverRegresses)
<1> SUFFICES ASSUME OneEmulator
             PROVE  Spec => LatestNeverRegresses
    OBVIOUS
<1>1. Init => NeverAhead
  BY InitLatest DEF LatestInv
<1>2. Inv /\ NeverAhead /\ [Next]_vars => NeverAhead'
  BY NeverAheadStep
<1>3. Inv /\ NeverAhead /\ [Next]_vars =>
        [\A p \in Pkg : latest'[p].code >= latest[p].code]_vars
  BY LatestGrows
<1> QED
  BY <1>1, <1>2, <1>3, Invariance, PTL DEF Spec, LatestNeverRegresses

(***************************************************************************)
(* The inductive invariant of latest.json: nothing on disk is ahead of the *)
(* emulator, and the file latest.json names outlives the prune.            *)
(***************************************************************************)
THEOREM LatestInvariance == OneEmulator /\ Keep >= 2 => (Spec => []LatestInv)
<1> SUFFICES ASSUME OneEmulator, Keep >= 2
             PROVE  Spec => []LatestInv
    OBVIOUS
<1>1. Inv /\ LatestInv /\ [Next]_vars => LatestInv'
  BY NeverAheadStep, LatestSparedStep, LatestNamedStep DEF LatestInv
<1> QED
  BY <1>1, InitLatest, Invariance, PTL DEF Spec

(***************************************************************************)
(* With one emulator and Keep >= 2 (3 in the code) a reader of latest.json *)
(* always finds the file it names, through crashes, retries and prunes.    *)
(***************************************************************************)
THEOREM LatestFileExists ==
    OneEmulator /\ Keep >= 2 => (Spec => []LatestNamesAFile)
<1> SUFFICES ASSUME OneEmulator, Keep >= 2
             PROVE  Spec => []LatestNamesAFile
    OBVIOUS
<1>1. LatestInv => LatestNamesAFile
  BY DEF LatestInv
<1>2. Spec => []LatestInv
  BY LatestInvariance
<1> QED
  BY <1>1, <1>2, PTL
=============================================================================
