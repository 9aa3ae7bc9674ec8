-------------------------- MODULE PackagesProofs ---------------------------
(***************************************************************************)
(* Proofs about Packages, for every set of names, every list in            *)
(* config.yaml and every bound on writes and faults.                       *)
(***************************************************************************)
EXTENDS Packages, TLAPS

(* What the code writes is a File. *)
LEMMA ListIsFile ==
    ASSUME NEW names \in SUBSET Pkg
    PROVE  Listing(names) \in File /\ Invalid \in File /\ Absent \in File
BY DEF File, Absent, Invalid, Listing

(* The bounds on writes and faults are kept. *)
LEMMA BoundedStep ==
    TypeOK => /\ Write => writes' \in 0..MaxWrites
              /\ Fault => faults' \in 0..MaxFaults
BY PackagesAssumption DEF TypeOK, Write, Fault

(* Small facts about the counters. *)
LEMMA Bounds ==
    /\ 0 \in 0..MaxWrites /\ 0 \in 0..MaxFaults
    /\ \A n \in Nat : n + 1 \in Nat /\ (n > 0 => n - 1 \in Nat)
BY PackagesAssumption

(* The invariant holds when the model starts. *)
LEMMA InitInv == Init => Inv
<1> SUFFICES ASSUME Init
             PROVE  Inv
    OBVIOUS
<1> USE DEF Init
<1>1. TypeOK
  BY ListIsFile, Bounds DEF TypeOK
<1>2. file = Absent /\ Absent.state # "valid"
  BY DEF Absent
<1> QED
  BY <1>1, <1>2 DEF Inv, InSync, Quiet, Watching

(***************************************************************************)
(* The steps of the manager whatever main seeds it with, and those that    *)
(* only use up a bound it shares: what a composition (Api) does to it.     *)
(***************************************************************************)
Spent ==
    /\ Write \/ UNCHANGED writes
    /\ Fault \/ UNCHANGED faults
    /\ UNCHANGED <<pc, set, file, events, loader, buf, missed, acked, wanted>>

AnyNext == Next \/ Spent \/ \E names \in SUBSET Pkg : SeedFrom(names)

(* Every step keeps the types. *)
LEMMA TypeStep == Inv /\ [AnyNext]_vars => TypeOK'
<1> SUFFICES ASSUME TypeOK, [AnyNext]_vars
             PROVE  TypeOK'
    BY DEF Inv
<1> USE DEF TypeOK
<1>0. file.names \in SUBSET Pkg /\ buf.names \in SUBSET Pkg
  BY DEF File
<1>1. CASE New \/ Watch
  BY <1>0, <1>1 DEF New, Watch
<1>2. ASSUME NEW names \in SUBSET Pkg, SeedFrom(names)
      PROVE  TypeOK'
  <2>1. set' \in SUBSET Pkg
    BY <1>2 DEF SeedFrom
  <2>2. wanted' \subseteq SUBSET Pkg
    BY <1>2 DEF SeedFrom
  <2> QED
    BY <1>2, <2>1, <2>2, ListIsFile, Bounds DEF SeedFrom, Flush
<1>3. ASSUME NEW p \in Pkg, Add(p) \/ Remove(p) \/ FlushFails(p)
      PROVE  TypeOK'
  <2>1. set' \in SUBSET Pkg
    BY <1>3 DEF Add, Remove, FlushFails
  <2>2. CASE Add(p) \/ Remove(p)
    <3>1. writes' \in 0..MaxWrites
      BY <2>2, BoundedStep DEF Add, Remove
    <3>2. wanted' \subseteq SUBSET Pkg /\ acked' \subseteq Pkg
      BY <2>2 DEF Add, Remove
    <3>3. file' \in File /\ events' \in Nat /\ missed' = FALSE
      BY <2>1, <2>2, ListIsFile, Bounds DEF Add, Remove, Flush
    <3> QED
      BY <2>1, <2>2, <3>1, <3>2, <3>3 DEF Add, Remove
  <2>3. CASE FlushFails(p)
    BY <2>1, <2>3, BoundedStep DEF FlushFails
  <2> QED
    BY <1>3, <2>2, <2>3
<1>4. CASE TakeEvent \/ LoseEvent
  BY <1>4, BoundedStep, Bounds DEF TakeEvent, LoseEvent
<1>5. CASE ReadFile \/ ReadFails
  BY <1>5, BoundedStep DEF ReadFile, ReadFails
<1>6. CASE Apply
  BY <1>0, <1>6, ListIsFile DEF Apply
<1>7. CASE ExternalEdit
  <2>1. file' \in File
    BY <1>7, ListIsFile DEF ExternalEdit
  <2>2. writes' \in 0..MaxWrites
    BY <1>7, BoundedStep DEF ExternalEdit
  <2>3. events' \in Nat /\ missed' \in BOOLEAN
    BY <1>7, Bounds DEF ExternalEdit, Notified
  <2> QED
    BY <1>7, <2>1, <2>2, <2>3 DEF ExternalEdit
<1>8. CASE ExternalDelete
  BY <1>8, ListIsFile, BoundedStep DEF ExternalDelete
<1>9. CASE Crash
  BY <1>9, ListIsFile, BoundedStep DEF Crash
<1>10. CASE UNCHANGED vars
  BY <1>10 DEF vars
<1>11. CASE Spent
  BY <1>11, BoundedStep DEF Spent
<1> QED
  BY <1>1, <1>2, <1>3, <1>4, <1>5, <1>6, <1>7, <1>8, <1>9, <1>10, <1>11,
     PackagesAssumption DEF AnyNext, Next, Startup, Reload, Seed

(***************************************************************************)
(* Every change of the file by somebody else than the loader leaves a      *)
(* notification behind, or is recorded as missed, or leaves no valid file. *)
(***************************************************************************)
LEMMA SyncStep ==
    Inv /\ [AnyNext]_vars =>
        /\ InSync'
        /\ (~Watching => events = 0 /\ loader = "idle")'
        /\ (pc = "loaded" /\ ~missed /\ file.state = "valid" => set = file.names)'
        /\ (loader = "apply" /\ events = 0 /\ ~missed /\ file.state = "valid"
              => buf = file)'
<1> DEFINE Rest ==
      /\ InSync
      /\ ~Watching => events = 0 /\ loader = "idle"
      /\ pc = "loaded" /\ ~missed /\ file.state = "valid" => set = file.names
      /\ loader = "apply" /\ events = 0 /\ ~missed /\ file.state = "valid"
           => buf = file
<1> SUFFICES ASSUME TypeOK, Rest, [AnyNext]_vars
             PROVE  Rest'
    BY DEF Inv
<1> USE DEF InSync, Quiet, Watching
<1>0. events \in Nat /\ events + 1 # 0
  BY DEF TypeOK
<1>1. CASE New
  BY <1>1 DEF New
<1>2. CASE Watch
  BY <1>2 DEF Watch
<1>3. ASSUME NEW names \in SUBSET Pkg, SeedFrom(names)
      PROVE  Rest'
  BY <1>0, <1>3 DEF SeedFrom, Flush
<1>4. ASSUME NEW p \in Pkg, Add(p) \/ Remove(p)
      PROVE  Rest'
  BY <1>0, <1>4 DEF Add, Remove, Flush
<1>5. ASSUME NEW p \in Pkg, FlushFails(p)
      PROVE  Rest'
  <2>1. set' = set
    BY <1>5 DEF FlushFails
  <2> QED
    BY <1>5, <2>1 DEF FlushFails
<1>6. CASE TakeEvent
  BY <1>6 DEF TakeEvent
<1>7. CASE ReadFile
  BY <1>7 DEF ReadFile
<1>8. CASE ReadFails
  BY <1>8 DEF ReadFails
<1>9. CASE Apply
  BY <1>9 DEF Apply
<1>10. CASE ExternalEdit
  BY <1>0, <1>10 DEF ExternalEdit, Notified
<1>11. CASE ExternalDelete
  BY <1>11 DEF ExternalDelete, Absent
<1>12. CASE LoseEvent
  BY <1>12 DEF LoseEvent
<1>13. CASE Crash
  BY <1>13 DEF Crash
<1>14. CASE UNCHANGED vars
  BY <1>14 DEF vars
<1>15. CASE Spent
  BY <1>15 DEF Spent
<1> QED
  BY <1>1, <1>2, <1>3, <1>4, <1>5, <1>6, <1>7, <1>8, <1>9, <1>10, <1>11,
     <1>12, <1>13, <1>14, <1>15, PackagesAssumption DEF AnyNext, Next, Startup, Reload, Seed

(* Every step keeps the inductive invariant. *)
LEMMA InvStep == Inv /\ [AnyNext]_vars => Inv'
BY TypeStep, SyncStep DEF Inv

(* The inductive invariant holds in every reachable state. *)
THEOREM Invariance == Spec => []Inv
<1>1. Inv /\ [Next]_vars => Inv'
  BY InvStep DEF AnyNext
<1> QED
  BY <1>1, InitInv, PTL DEF Spec

(***************************************************************************)
(* Memory and packages.json agree whenever nothing is left to load and no  *)
(* change escaped the notifications, however Add, Remove, Seed, outside    *)
(* edits, stale reloads, failures and crashes interleave.                  *)
(***************************************************************************)
THEOREM StaysInSync == Spec => []InSync
<1>1. Inv => InSync
  BY DEF Inv
<1> QED
  BY <1>1, Invariance, PTL

(***************************************************************************)
(* Every variable of the manager keeps its type, the loader included.      *)
(***************************************************************************)
THEOREM TypeCorrect == Spec => []TypeOK
<1>1. Inv => TypeOK
  BY DEF Inv
<1> QED
  BY <1>1, Invariance, PTL
=============================================================================
