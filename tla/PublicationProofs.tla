------------------------- MODULE PublicationProofs -------------------------
(***************************************************************************)
(* Watcher implements Publication, for every value of the constants: each  *)
(* of its steps is, seen through Stored, offered, storeData and storeFile, *)
(* one step of Publication or none.                                        *)
(***************************************************************************)
EXTENDS WatcherClaims, WatcherProofs

LEMMA InitPublishes == Init => Published!Init
<1> SUFFICES ASSUME Init
             PROVE  Published!Init
    OBVIOUS
<1>1. files = {} /\ offered = [p \in Pkg |-> {}]
  BY DEF Init, ExtractorInit
<1>2. storeData = [p \in Pkg |-> 0] /\ storeFile = [p \in Pkg |-> 0]
  BY DEF Init, StoreInit
<1>3. Stored = [p \in Pkg |-> {}]
  BY <1>1 DEF Stored
<1> QED
  BY <1>1, <1>2, <1>3 DEF Published!Init

(* What Inv says of the variables Publication sees. *)
LEMMA SeenTypes ==
    Inv => /\ cur \in Pkg
           /\ storeData \in [Pkg -> Nat] /\ storeFile \in [Pkg -> Nat]
           /\ offered \in [Pkg -> SUBSET Code]
           /\ \A f \in files : f.pkg \in Pkg /\ f.code \in Code
           /\ Code \subseteq Nat
<1> SUFFICES ASSUME Inv
             PROVE  /\ cur \in Pkg
                    /\ storeData \in [Pkg -> Nat] /\ storeFile \in [Pkg -> Nat]
                    /\ offered \in [Pkg -> SUBSET Code]
                    /\ \A f \in files : f.pkg \in Pkg /\ f.code \in Code
                    /\ Code \subseteq Nat
    OBVIOUS
<1>1. Code \subseteq Nat /\ Codes0 \subseteq Nat
  BY EmulatorsAssumption DEF Code, Codes0
<1>2. storeData \in [Pkg -> Codes0] /\ storeFile \in [Pkg -> Codes0]
  BY DEF Inv, TypeOK, StoreTypeOK
<1> QED
  BY <1>1, <1>2 DEF Inv, TypeOK, ExtractorTypeOK, Artifact

(* The rename publishes the agreed version and hides no other. *)
LEMMA RenameStores ==
    Inv /\ Rename => Stored' = [Stored EXCEPT ![cur] = @ \cup {agreed}]
<1> SUFFICES ASSUME Inv, Rename
             PROVE  Stored' = [Stored EXCEPT ![cur] = @ \cup {agreed}]
    OBVIOUS
<1>1. agreed \in Code
  BY DEF Rename, Inv, ControlOK, InExtraction, ExtractorPc
<1>2. PICK body \in Contents :
        files' = {g \in files : ~Names(g, OutPath)} \cup
                 {[pkg |-> cur, code |-> agreed, kind |-> kind,
                   splits |-> body.splits, abis |-> body.abis]}
  BY DEF Rename
<1> DEFINE new == [pkg |-> cur, code |-> agreed, kind |-> kind,
                   splits |-> body.splits, abis |-> body.abis]
<1>3. /\ new \in files' /\ new.pkg = cur /\ new.code = agreed
      /\ \A f \in files' : f \in files \/ f = new
      /\ \A f \in files : f \in files' \/ (f.pkg = cur /\ f.code = agreed)
  BY <1>2 DEF Names, OutPath
<1> HIDE DEF new
<1>4. ASSUME NEW p \in Pkg, NEW c \in Code
      PROVE  (\E f \in files' : f.pkg = p /\ f.code = c)
               <=> (\E f \in files : f.pkg = p /\ f.code = c)
                   \/ (p = cur /\ c = agreed)
  BY <1>3
<1>5. ASSUME NEW p \in Pkg
      PROVE  Stored'[p] = IF p = cur THEN Stored[p] \cup {agreed} ELSE Stored[p]
  BY <1>1, <1>4 DEF Stored
<1> QED
  BY <1>5 DEF Stored

(* A removal of the prune hides a version only if a newer one is left. *)
LEMMA RemoveStores ==
    Inv /\ RemoveVictim =>
        \/ Stored' = Stored
        \/ \E c \in Code : /\ \E d \in Stored[cur] : d > c
                           /\ Stored' = [Stored EXCEPT ![cur] = @ \ {c}]
<1> SUFFICES ASSUME Inv, RemoveVictim, Stored' # Stored
             PROVE  \E c \in Code : /\ \E d \in Stored[cur] : d > c
                                    /\ Stored' = [Stored EXCEPT ![cur] = @ \ {c}]
    OBVIOUS
<1>1. PICK v \in victims : files' = files \/ files' = files \ {v}
  BY DEF RemoveVictim
<1>2. files' = files \ {v}
  BY <1>1 DEF Stored
<1>3. PICK k \in files \ victims :
        k.pkg = cur /\ v.pkg = cur /\ v.code <= k.code
  BY <1>1, SparedNewest DEF RemoveVictim
<1>4. v \in files
  <2>1. CASE v \notin files
    BY <1>2, <2>1 DEF Stored
  <2> QED
    BY <2>1
<1>5. /\ cur \in Pkg /\ v.code \in Code /\ k.code \in Code
      /\ v.code \in Nat /\ k.code \in Nat
  BY <1>3, <1>4, SeenTypes
<1>6. ASSUME NEW g \in files, g # v, g.pkg = cur, g.code = v.code
      PROVE  FALSE
  <2>1. \A p \in Pkg, c \in Code :
          (\E f \in files' : f.pkg = p /\ f.code = c)
            <=> (\E f \in files : f.pkg = p /\ f.code = c)
    BY <1>2, <1>3, <1>6
  <2> QED
    BY <2>1 DEF Stored
<1>7. k.code > v.code /\ k.code \in Stored[cur]
  BY <1>3, <1>5, <1>6 DEF Stored
<1>8. ASSUME NEW p \in Pkg, NEW c \in Code
      PROVE  (\E f \in files' : f.pkg = p /\ f.code = c)
               <=> (\E f \in files : f.pkg = p /\ f.code = c)
                   /\ ~(p = cur /\ c = v.code)
  BY <1>2, <1>3, <1>6
<1>9. ASSUME NEW p \in Pkg
      PROVE  Stored'[p] = IF p = cur THEN Stored[p] \ {v.code} ELSE Stored[p]
  BY <1>5, <1>8 DEF Stored
<1>10. Stored' = [Stored EXCEPT ![cur] = @ \ {v.code}]
  BY <1>9 DEF Stored
<1> QED
  BY <1>5, <1>7, <1>10

(* A version the directory holds, or a newer one, in terms of Stored. *)
LEMMA StoredHas ==
    ASSUME Inv, NEW p \in Pkg, NEW c \in Nat, HasVersion(p, c)
    PROVE  Published!Has(p, c)
<1>1. PICK f \in files : f.pkg = p /\ f.code >= c
  BY DEF HasVersion
<1>2. f.code \in Stored[p]
  BY <1>1, SeenTypes DEF Stored
<1> QED
  BY <1>1, <1>2 DEF Published!Has

(***************************************************************************)
(* One step of the service is one of Publication, or changes nothing it    *)
(* sees.                                                                   *)
(***************************************************************************)
LEMMA StepPublishes ==
    Inv /\ [Next]_vars => [Published!Next]_(Published!pubVars)
<1> SUFFICES ASSUME Inv, [Next]_vars
             PROVE  Published!Next \/ UNCHANGED Published!pubVars
    OBVIOUS
<1>0. /\ cur \in Pkg
      /\ InExtraction => agreed \in Code /\ agreed \in Nat /\ agreed > storeData[cur]
  <2>1. cur \in Pkg /\ storeData[cur] \in Nat /\ Code \subseteq Nat
    BY SeenTypes
  <2> QED
    BY <2>1 DEF Inv, ControlOK, ExtractsNewer
<1>1. CASE Rename
  <2>1. agreed \in Code /\ agreed > storeData[cur]
    BY <1>0, <1>1 DEF Rename, InExtraction, ExtractorPc
  <2>2. Stored' = [Stored EXCEPT ![cur] = @ \cup {agreed}]
    BY <1>1, RenameStores
  <2>3. UNCHANGED <<offered, storeData, storeFile>>
    BY <1>1 DEF Rename, sinkVars, storeVars
  <2>4. Published!Publish(cur, agreed)
    BY <2>1, <2>2, <2>3 DEF Published!Publish
  <2> QED
    BY <1>0, <2>1, <2>4 DEF Published!Next
<1>2. CASE RemoveVictim
  <2>1. UNCHANGED <<offered, storeData, storeFile>>
    BY <1>2 DEF RemoveVictim, sinkVars, storeVars
  <2>2. CASE Stored' = Stored
    BY <2>1, <2>2 DEF Published!pubVars
  <2>3. ASSUME NEW c \in Code, \E d \in Stored[cur] : d > c,
               Stored' = [Stored EXCEPT ![cur] = @ \ {c}]
        PROVE  Published!Next
    <3>1. Published!Withdraw(cur, c)
      BY <2>1, <2>3 DEF Published!Withdraw
    <3> QED
      BY <1>0, <3>1 DEF Published!Next
  <2> QED
    BY <1>2, <2>2, <2>3, RemoveStores
<1>3. CASE OnArtifact
  <2>1. /\ UNCHANGED <<files, storeData, storeFile>>
        /\ offered' = [offered EXCEPT ![cur] = @ \cup {agreed}]
        /\ InExtraction /\ Renamed
    BY <1>3 DEF OnArtifact, storeVars, InExtraction, ExtractorPc, Renamed
  <2>2. Published!Has(cur, agreed)
    BY <1>0, <2>1, StoredHas DEF Inv, Written
  <2>3. UNCHANGED Stored
    BY <2>1 DEF Stored
  <2>4. Published!Tell(cur, agreed)
    BY <1>0, <2>1, <2>2, <2>3 DEF Published!Tell
  <2> QED
    BY <1>0, <2>1, <2>4 DEF Published!Next
<1>4. CASE Record
  <2>1. /\ UNCHANGED <<files, offered>>
        /\ storeData' = [storeData EXCEPT ![cur] = agreed]
        /\ storeFile' = storeData' \/ storeFile' = storeFile
        /\ InExtraction /\ Renamed /\ pc = "store"
    BY <1>4 DEF Record, SetLastKnown, SetLastKnownFails, sinkVars, diskVars,
                InExtraction, Renamed
  <2>2. Published!Has(cur, agreed) /\ agreed \in offered[cur]
    BY <1>0, <2>1, StoredHas DEF Inv, Written, SinkThenStore
  <2>3. UNCHANGED Stored
    BY <2>1 DEF Stored
  <2>4. Published!Record(cur, agreed)
    BY <1>0, <2>1, <2>2, <2>3 DEF Published!Record
  <2> QED
    BY <1>0, <2>1, <2>4 DEF Published!Next
<1>5. CASE Start
  <2>1. /\ UNCHANGED <<files, offered, storeFile>>
        /\ storeData' = storeFile
    BY <1>5 DEF Start, Open, sinkVars
  <2>2. Published!Restart
    BY <2>1 DEF Published!Restart, Stored
  <2> QED
    BY <2>2 DEF Published!Next
<1>6. CASE ~Rename /\ ~RemoveVictim /\ ~OnArtifact /\ ~Record /\ ~Start
  <2>1. files' = files /\ UNCHANGED storeVars
    BY <1>6, FrameStep DEF Frames
  <2>2. offered' = offered
    BY <1>6, FrameStep DEF Frames, sinkVars, ProcessEnds
  <2> QED
    BY <2>1, <2>2 DEF Published!pubVars, Stored, storeVars
<1> QED
  BY <1>1, <1>2, <1>3, <1>4, <1>5, <1>6

(***************************************************************************)
(* The service keeps the promises of Publication: what readers, the sink   *)
(* and the next run see is a behaviour of that specification, whatever     *)
(* fails, crashes or is retried.                                           *)
(***************************************************************************)
THEOREM Refinement == Spec => Publishes
BY InitPublishes, StepPublishes, Invariance, PTL
   DEF Spec, Publishes, Published!Spec
=============================================================================
