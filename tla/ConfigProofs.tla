---------------------------- MODULE ConfigProofs ----------------------------
(***************************************************************************)
(* Proofs about Config, for every set of files and every bound on edits    *)
(* and faults: what a running service polls follows from config.yaml       *)
(* whatever the order of startup, reloads and handlers.                    *)
(***************************************************************************)
EXTENDS Config, TLAPS

(* Small facts about the counters. *)
LEMMA Bounds ==
    /\ 0 \in 0..MaxEdits /\ 0 \in 0..MaxFaults /\ 0 \in Nat
    /\ \A n \in Nat : n + 1 \in Nat /\ n + 1 # 0 /\ (n > 0 => n - 1 \in Nat)
    /\ \A n \in 0..MaxEdits : n < MaxEdits => n + 1 \in 0..MaxEdits
    /\ \A n \in 0..MaxFaults : n < MaxFaults => n + 1 \in 0..MaxFaults
BY ConfigAssumption

(* What validate accepts is a snapshot of its own kind: not the zero one. *)
LEMMA ZeroInvalid == ~Validates(Zero)
BY DEF Validates, Zero

(* The emulators of an accepted snapshot have known ABIs, distinct serials. *)
LEMMA ValidClients ==
    ASSUME NEW s \in Contents, Validates(s)
    PROVE  /\ \A i \in DOMAIN s.emulators : s.emulators[i].abi \in KnownABIs
           /\ \A i, j \in DOMAIN s.emulators :
                i # j => Serial(s, i) # Serial(s, j)
<1>1. s.emulators \in Seq([port : Int, abi : STRING])
  BY ConfigAssumption DEF IsContent
<1>2. \A i \in DOMAIN s.emulators : i \in Nat /\ i >= 1
  BY <1>1
<1>0. \A i \in DOMAIN s.emulators :
        /\ s.emulators[i].abi \in KnownABIs
        /\ \A j \in 1..(i - 1) : s.emulators[j].port # s.emulators[i].port
  BY DEF Validates
<1>3. ASSUME NEW i \in DOMAIN s.emulators, NEW j \in DOMAIN s.emulators, j < i
      PROVE  Serial(s, i) # Serial(s, j)
  <2>1. j \in 1..(i - 1)
    BY <1>2, <1>3
  <2>2. s.emulators[j].port # s.emulators[i].port
    BY <1>0, <2>1
  <2> QED
    BY <2>2 DEF Serial
<1>4. ASSUME NEW i \in DOMAIN s.emulators, NEW j \in DOMAIN s.emulators, i # j
      PROVE  Serial(s, i) # Serial(s, j)
  <2>1. i < j \/ j < i
    BY <1>2, <1>4
  <2> QED
    BY <1>3, <2>1
<1> QED
  BY <1>0, <1>4

(* What the rest of the invariant says of a list of clients. *)
ClientsOK(list, snapshots) ==
    /\ \A i \in DOMAIN list : list[i].abi \in KnownABIs
    /\ \E s \in snapshots : Serials(list) = Serials(ClientsOf(s))
    /\ \A i \in DOMAIN list : \E s \in snapshots :
         \E j \in DOMAIN s.emulators : list[i] = Client(s, j)
    /\ \A i, j \in DOMAIN list : i # j => list[i].serial # list[j].serial

(* connectEmulators takes the emulators of one snapshot. *)
LEMMA ConnectedClients ==
    ASSUME NEW snapshots \in SUBSET Contents, NEW s \in snapshots, Validates(s)
    PROVE  ClientsOK(ClientsOf(s), snapshots)
<1>1. /\ DOMAIN ClientsOf(s) = DOMAIN s.emulators
      /\ \A i \in DOMAIN s.emulators :
           /\ ClientsOf(s)[i] = Client(s, i)
           /\ Client(s, i).serial = Serial(s, i)
           /\ Client(s, i).abi = s.emulators[i].abi
  BY DEF ClientsOf, Client
<1>2. \A i \in DOMAIN ClientsOf(s) : ClientsOf(s)[i].abi \in KnownABIs
  BY <1>1, ValidClients
<1>3. \A i, j \in DOMAIN ClientsOf(s) :
        i # j => ClientsOf(s)[i].serial # ClientsOf(s)[j].serial
  BY <1>1, ValidClients
<1>4. \A i \in DOMAIN ClientsOf(s) : \E t \in snapshots :
         \E j \in DOMAIN t.emulators : ClientsOf(s)[i] = Client(t, j)
  BY <1>1
<1> QED
  BY <1>2, <1>3, <1>4 DEF ClientsOK

(* syncClients: the list has the serials of s, each client a former one or *)
(* one of s.                                                               *)
LEMMA SyncedClient ==
    ASSUME NEW s, NEW i \in DOMAIN s.emulators
    PROVE  /\ SyncClients(s)[i].serial = Serial(s, i)
           /\ \/ \E j \in DOMAIN clients : SyncClients(s)[i] = clients[j]
              \/ SyncClients(s)[i] = Client(s, i)
<1>1. CASE \E j \in DOMAIN clients : clients[j].serial = Serial(s, i)
  <2> DEFINE k == CHOOSE j \in DOMAIN clients : clients[j].serial = Serial(s, i)
  <2>1. k \in DOMAIN clients /\ clients[k].serial = Serial(s, i)
    BY <1>1
  <2>2. SyncClients(s)[i] = clients[k]
    BY <1>1 DEF SyncClients
  <2> QED
    BY <2>1, <2>2
<1>2. CASE ~\E j \in DOMAIN clients : clients[j].serial = Serial(s, i)
  BY <1>2 DEF SyncClients, Client
<1> QED
  BY <1>1, <1>2

(* The handler brings the serials to those of its snapshot. *)
LEMMA SyncedSerials ==
    ASSUME NEW s
    PROVE  /\ DOMAIN SyncClients(s) = DOMAIN s.emulators
           /\ Serials(SyncClients(s)) = Serials(ClientsOf(s))
<1>1. DOMAIN SyncClients(s) = DOMAIN s.emulators
  BY DEF SyncClients
<1>2. DOMAIN ClientsOf(s) = DOMAIN s.emulators
  BY DEF ClientsOf
<1>3. \A i \in DOMAIN s.emulators :
        SyncClients(s)[i].serial = ClientsOf(s)[i].serial
  BY SyncedClient DEF ClientsOf, Client
<1> QED
  BY <1>1, <1>2, <1>3 DEF Serials

(* A handler leaves a list of emulators in force at some time. *)
LEMMA SyncedClients ==
    ASSUME NEW snapshots \in SUBSET Contents, NEW s \in snapshots, Validates(s),
           ClientsOK(clients, snapshots)
    PROVE  ClientsOK(SyncClients(s), snapshots)
<1>1. DOMAIN SyncClients(s) = DOMAIN s.emulators
  BY SyncedSerials
<1>2. ASSUME NEW i \in DOMAIN s.emulators
      PROVE  /\ SyncClients(s)[i].abi \in KnownABIs
             /\ \E t \in snapshots :
                  \E j \in DOMAIN t.emulators : SyncClients(s)[i] = Client(t, j)
  <2>1. CASE \E j \in DOMAIN clients : SyncClients(s)[i] = clients[j]
    BY <2>1 DEF ClientsOK
  <2>2. CASE SyncClients(s)[i] = Client(s, i)
    <3>1. s.emulators[i].abi \in KnownABIs
      BY ValidClients
    <3> QED
      BY <2>2, <3>1 DEF Client
  <2> QED
    BY <2>1, <2>2, SyncedClient
<1>3. \A i, j \in DOMAIN s.emulators :
        i # j => SyncClients(s)[i].serial # SyncClients(s)[j].serial
  BY SyncedClient, ValidClients
<1>4. Serials(SyncClients(s)) = Serials(ClientsOf(s))
  BY SyncedSerials
<1> QED
  BY <1>1, <1>2, <1>3, <1>4 DEF ClientsOK

-----------------------------------------------------------------------------
(* The invariant *)

(* The invariant holds when the model starts. *)
LEMMA InitInv == Init => Inv
<1> SUFFICES ASSUME Init
             PROVE  Inv
    OBVIOUS
<1>1. TypeOK
  <2>1. DOMAIN clients = {}
    BY DEF Init
  <2> QED
    BY <2>1, Bounds DEF TypeOK, Init
<1> QED
  BY <1>1 DEF Inv, ClientsOfOneSnapshot, Init

(* The snapshots and the files are what they should be, at every step. *)
LEMMA FilesStep ==
    Inv /\ [Next]_vars =>
        /\ file' \in Contents
        /\ boot' \in Contents \cup {Zero}
        /\ snap' \in Contents \cup {Zero}
        /\ buf' \in Contents \cup {Zero}
        /\ handlers' \subseteq (Nat \X Contents)
        /\ accepted' \subseteq Contents
<1> SUFFICES ASSUME Inv, [Next]_vars
             PROVE  /\ file' \in Contents
                    /\ boot' \in Contents \cup {Zero}
                    /\ snap' \in Contents \cup {Zero}
                    /\ buf' \in Contents \cup {Zero}
                    /\ handlers' \subseteq (Nat \X Contents)
                    /\ accepted' \subseteq Contents
    OBVIOUS
<1> USE DEF Inv, TypeOK, fileVars, mainVars, loadVars, goVars
<1>1. CASE Startup
  BY <1>1 DEF Startup, Load, Watch, Get, NewWatcher
<1>2. CASE TakeEvent \/ Read \/ ReadFails
  BY <1>2 DEF TakeEvent, Read, ReadFails
<1>3. CASE Assign
  <2>1. buf \in Contents
    BY <1>3, ZeroInvalid DEF Assign
  <2> QED
    BY <1>3, <2>1 DEF Assign
<1>4. CASE Notify
  <2>1. snap \in Contents /\ reloads + 1 \in Nat
    BY <1>4, Bounds DEF Notify
  <2>2. <<reloads + 1, snap>> \in Nat \X Contents
    BY <2>1
  <2>3. handlers' = handlers \cup {<<reloads + 1, snap>>} \/ handlers' = handlers
    BY <1>4 DEF Notify
  <2> QED
    BY <1>4, <2>2, <2>3 DEF Notify
<1>5. CASE Handle
  BY <1>5 DEF Handle, RunHandler
<1>6. CASE \E c \in Contents : Edit(c) \/ Replace(c)
  BY <1>6 DEF Edit, Replace
<1>7. CASE LoseEvent
  BY <1>7 DEF LoseEvent
<1>8. CASE Exit
  BY <1>8 DEF Exit
<1>9. CASE UNCHANGED vars
  BY <1>9 DEF vars
<1> QED
  BY <1>1, <1>2, <1>3, <1>4, <1>5, <1>6, <1>7, <1>8, <1>9 DEF Next, Reload

(* The list of clients at every step, once the watcher exists. *)
LEMMA ClientsStep ==
    Inv /\ [Next]_vars =>
        /\ \A i \in DOMAIN clients' : clients'[i].abi \in KnownABIs
        /\ ClientsOfOneSnapshot'
<1> SUFFICES ASSUME Inv, [Next]_vars
             PROVE  /\ \A i \in DOMAIN clients' : clients'[i].abi \in KnownABIs
                    /\ ClientsOfOneSnapshot'
    OBVIOUS
<1>0. /\ accepted \in SUBSET Contents
      /\ pc = "running" => ClientsOK(clients, accepted)
      /\ \A i \in DOMAIN clients : clients[i].abi \in KnownABIs
  BY DEF Inv, TypeOK, ClientsOfOneSnapshot, ClientsOK
<1>1. /\ ClientsOK(clients', accepted') =>
           /\ \A i \in DOMAIN clients' : clients'[i].abi \in KnownABIs
           /\ ClientsOfOneSnapshot'
  BY DEF ClientsOK, ClientsOfOneSnapshot
<1>2. CASE NewWatcher
  <2>1. ClientsOK(ClientsOf(boot), accepted)
    <3>1. boot \in accepted /\ Validates(boot)
      BY <1>2 DEF Inv, NewWatcher
    <3> QED
      BY <1>0, <3>1, ConnectedClients
  <2> QED
    BY <1>1, <1>2, <2>1 DEF NewWatcher, loadVars
<1>3. CASE Handle
  <2>1. PICK h \in handlers : RunHandler(h)
    BY <1>3 DEF Handle
  <2>2. h[2] \in accepted /\ Validates(h[2]) /\ pc = "running"
    BY <2>1 DEF Inv
  <2>3. ClientsOK(SyncClients(h[2]), accepted)
    BY <1>0, <2>2, SyncedClients
  <2> QED
    BY <1>1, <2>1, <2>3 DEF RunHandler, loadVars
<1>4. CASE Assign
  <2>1. accepted \subseteq accepted' /\ clients' = clients /\ pc' = pc
    BY <1>4 DEF Assign, mainVars
  <2> QED
    BY <1>0, <2>1 DEF ClientsOfOneSnapshot, ClientsOK
<1>5. CASE Exit
  BY <1>5 DEF Exit, ClientsOfOneSnapshot
<1>6. CASE Load \/ Watch \/ Get
  BY <1>0, <1>6 DEF Load, Watch, Get, ClientsOfOneSnapshot
<1>7. CASE \/ TakeEvent \/ Read \/ ReadFails \/ Notify \/ LoseEvent
           \/ \E c \in Contents : Edit(c) \/ Replace(c)
  <2>1. clients' = clients /\ accepted' = accepted /\ pc' = pc
    BY <1>7 DEF TakeEvent, Read, ReadFails, Notify, LoseEvent, Edit, Replace,
                mainVars, loadVars
  <2> QED
    BY <1>0, <2>1 DEF ClientsOfOneSnapshot, ClientsOK
<1>8. CASE UNCHANGED vars
  BY <1>0, <1>8 DEF vars, mainVars, loadVars, ClientsOfOneSnapshot, ClientsOK
<1> QED
  BY <1>2, <1>3, <1>4, <1>5, <1>6, <1>7, <1>8 DEF Next, Startup, Reload

(* Every step keeps the types. *)
LEMMA TypeStep == Inv /\ [Next]_vars => TypeOK'
<1> SUFFICES ASSUME Inv, [Next]_vars
             PROVE  TypeOK'
    OBVIOUS
<1>0. TypeOK
  BY DEF Inv
<1>1. /\ watched' \in BOOLEAN /\ events' \in Nat /\ edits' \in 0..MaxEdits
      /\ pc' \in {"down", "loaded", "watching", "starting", "running"}
      /\ loader' \in {"idle", "read", "assign", "notify"}
      /\ reloads' \in Nat /\ faults' \in 0..MaxFaults
      /\ <<missed, early, crowded>>' \in BOOLEAN \X BOOLEAN \X BOOLEAN
  <2> USE <1>0, Bounds DEF TypeOK, fileVars, mainVars, loadVars, goVars
  <2>1. CASE Startup
    BY <2>1 DEF Startup, Load, Watch, Get, NewWatcher
  <2>2. CASE Reload
    BY <2>2 DEF Reload, TakeEvent, Read, ReadFails, Assign, Notify, Fault
  <2>3. CASE Handle
    BY <2>3 DEF Handle, RunHandler
  <2>4. CASE \E c \in Contents : Edit(c) \/ Replace(c)
    BY <2>4 DEF Edit, Replace
  <2>5. CASE LoseEvent \/ Exit
    BY <2>5 DEF LoseEvent, Exit, Fault
  <2>6. CASE UNCHANGED vars
    BY <2>6 DEF vars
  <2> QED
    BY <2>1, <2>2, <2>3, <2>4, <2>5, <2>6 DEF Next
<1> QED
  BY <1>1, FilesStep, ClientsStep DEF TypeOK

(***************************************************************************)
(* The control part: what main, the reload and the handlers hold is a      *)
(* snapshot in force since the start, and the last one unless a            *)
(* notification, a handler or a missed change explains the difference.     *)
(***************************************************************************)
ControlOK ==
    /\ pc = "down" => accepted = {}
    /\ pc \in {"down", "loaded"} => ~watched /\ events = 0 /\ loader = "idle"
    /\ pc # "running" => handlers = {}
    /\ pc # "down" => snap \in accepted
    /\ pc = "starting" => boot \in accepted
    /\ \A s \in accepted : Validates(s)
    /\ \A h \in handlers : h[2] \in accepted
    /\ loader = "assign" => Validates(buf)

FileOK ==
    /\ loader = "assign" /\ events = 0 /\ ~missed /\ Validates(file) => buf = file
    /\ /\ pc # "down" /\ loader \in {"idle", "notify"} /\ events = 0 /\ ~missed
       /\ Validates(file)
       => snap = file

HandlersOK ==
    /\ ~crowded => /\ \A g, h \in handlers : g = h
                   /\ loader # "notify" => \A h \in handlers : h[2] = snap
    /\ /\ pc = "running" /\ ~crowded /\ ~early
       /\ handlers = {} /\ loader # "notify"
       => Serials(clients) = Serials(ClientsOf(snap))

(* The invariant, by its parts. *)
LEMMA Parts ==
    Inv <=> TypeOK /\ ClientsOfOneSnapshot /\ ControlOK /\ FileOK /\ HandlersOK
BY DEF Inv, ControlOK, FileOK, HandlersOK

(* Every step keeps what is known of the snapshots held. *)
LEMMA ControlStep == TypeOK /\ ControlOK /\ [Next]_vars => ControlOK'
<1> SUFFICES ASSUME TypeOK, ControlOK, [Next]_vars
             PROVE  ControlOK'
    OBVIOUS
<1> USE DEF ControlOK, fileVars, mainVars, loadVars, goVars
<1>1. CASE Load
  BY <1>1 DEF Load
<1>2. CASE Watch \/ Get \/ NewWatcher
  BY <1>2 DEF Watch, Get, NewWatcher
<1>3. CASE TakeEvent \/ Read \/ ReadFails
  BY <1>3 DEF TakeEvent, Read, ReadFails
<1>4. CASE Assign
  BY <1>4 DEF Assign
<1>5. CASE Notify
  <2>1. \A h \in handlers' : h \in handlers \/ h[2] = snap
    BY <1>5 DEF Notify
  <2>2. snap \in accepted
    BY <1>5 DEF Notify
  <2> QED
    BY <1>5, <2>1, <2>2 DEF Notify
<1>6. CASE Handle
  BY <1>6 DEF Handle, RunHandler
<1>7. CASE \E c \in Contents : Edit(c) \/ Replace(c)
  BY <1>7 DEF Edit, Replace
<1>8. CASE LoseEvent
  BY <1>8 DEF LoseEvent
<1>9. CASE Exit
  BY <1>9 DEF Exit
<1>10. CASE UNCHANGED vars
  BY <1>10 DEF vars
<1> QED
  BY <1>1, <1>2, <1>3, <1>4, <1>5, <1>6, <1>7, <1>8, <1>9, <1>10
     DEF Next, Startup, Reload

(* No change of the file is forgotten but the missed ones. *)
LEMMA FileStep == TypeOK /\ ControlOK /\ FileOK /\ [Next]_vars => FileOK'
<1> SUFFICES ASSUME TypeOK, ControlOK, FileOK, [Next]_vars
             PROVE  FileOK'
    OBVIOUS
<1>0. events \in Nat /\ events + 1 # 0
  BY Bounds DEF TypeOK
<1> USE DEF ControlOK, FileOK, fileVars, mainVars, loadVars, goVars
<1>1. CASE Load
  BY <1>1 DEF Load
<1>2. CASE Watch \/ Get \/ NewWatcher
  BY <1>2 DEF Watch, Get, NewWatcher
<1>3. CASE TakeEvent \/ Read \/ ReadFails
  BY <1>3 DEF TakeEvent, Read, ReadFails
<1>4. CASE Assign
  BY <1>4 DEF Assign
<1>5. CASE Notify
  BY <1>5 DEF Notify
<1>6. CASE Handle
  BY <1>6 DEF Handle, RunHandler
<1>7. CASE \E c \in Contents : Edit(c) \/ Replace(c)
  BY <1>0, <1>7 DEF Edit, Replace
<1>8. CASE LoseEvent
  BY <1>8 DEF LoseEvent
<1>9. CASE Exit
  BY <1>9 DEF Exit
<1>10. CASE UNCHANGED vars
  BY <1>10 DEF vars
<1> QED
  BY <1>1, <1>2, <1>3, <1>4, <1>5, <1>6, <1>7, <1>8, <1>9, <1>10
     DEF Next, Startup, Reload

(* Handlers that do not wait for each other bring the clients to snap. *)
LEMMA HandlersStep ==
    TypeOK /\ ControlOK /\ HandlersOK /\ [Next]_vars => HandlersOK'
<1> SUFFICES ASSUME TypeOK, ControlOK, HandlersOK, [Next]_vars
             PROVE  HandlersOK'
    OBVIOUS
<1> USE DEF ControlOK, HandlersOK, fileVars, mainVars, loadVars, goVars
<1>1. CASE Load \/ Watch \/ Get
  BY <1>1 DEF Load, Watch, Get
<1>2. CASE NewWatcher
  BY <1>2 DEF NewWatcher
<1>3. CASE TakeEvent \/ Read \/ ReadFails
  BY <1>3 DEF TakeEvent, Read, ReadFails
<1>4. CASE Assign
  BY <1>4 DEF Assign
<1>5. CASE Notify
  <2>1. CASE pc = "running"
    <3>1. handlers' = handlers \cup {<<reloads', snap>>}
      BY <1>5, <2>1 DEF Notify
    <3>2. ~crowded' => handlers = {}
      BY <1>5, <2>1 DEF Notify
    <3>3. handlers' # {} /\ snap' = snap
      BY <1>5, <3>1 DEF Notify
    <3>4. ~crowded' => /\ \A g, h \in handlers' : g = h
                       /\ \A h \in handlers' : h[2] = snap
      BY <3>1, <3>2
    <3> QED
      BY <3>3, <3>4
  <2>2. CASE pc # "running"
    BY <1>5, <2>2 DEF Notify
  <2> QED
    BY <2>1, <2>2
<1>6. CASE Handle
  <2>1. PICK h \in handlers : RunHandler(h)
    BY <1>6 DEF Handle
  <2>2. Serials(clients') = Serials(ClientsOf(h[2]))
    <3>1. clients' = SyncClients(h[2])
      BY <2>1 DEF RunHandler
    <3>2. Serials(SyncClients(h[2])) = Serials(ClientsOf(h[2]))
      BY SyncedSerials
    <3> QED
      BY <3>1, <3>2
  <2> QED
    BY <2>1, <2>2 DEF RunHandler
<1>7. CASE \E c \in Contents : Edit(c) \/ Replace(c)
  BY <1>7 DEF Edit, Replace
<1>8. CASE LoseEvent
  BY <1>8 DEF LoseEvent
<1>9. CASE Exit
  BY <1>9 DEF Exit
<1>10. CASE UNCHANGED vars
  BY <1>10 DEF vars
<1> QED
  BY <1>1, <1>2, <1>3, <1>4, <1>5, <1>6, <1>7, <1>8, <1>9, <1>10
     DEF Next, Startup, Reload

(* Every step keeps the inductive invariant. *)
LEMMA InvStep == Inv /\ [Next]_vars => Inv'
<1> SUFFICES ASSUME Inv, [Next]_vars
             PROVE  Inv'
    OBVIOUS
<1>1. TypeOK /\ ClientsOfOneSnapshot /\ ControlOK /\ FileOK /\ HandlersOK
  BY Parts
<1>2. TypeOK' /\ ClientsOfOneSnapshot' /\ ControlOK' /\ FileOK' /\ HandlersOK'
  BY <1>1, TypeStep, ClientsStep, ControlStep, FileStep, HandlersStep
<1> QED
  BY <1>2 DEF Inv, ControlOK, FileOK, HandlersOK

(* The inductive invariant holds in every reachable state. *)
THEOREM Invariance == Spec => []Inv
BY InitInv, InvStep, PTL DEF Spec

(***************************************************************************)
(* Every variable keeps its type: the configuration and the emulators are  *)
(* valid ones whatever is written to config.yaml.                          *)
(***************************************************************************)
THEOREM TypeCorrect == Spec => []TypeOK
<1>1. Inv => TypeOK
  BY DEF Inv
<1> QED
  BY <1>1, Invariance, PTL

(***************************************************************************)
(* When all reloads are handled, the snapshot is a valid one, and the file *)
(* unless that is invalid or a change of it was never notified.            *)
(***************************************************************************)
THEOREM SnapshotFollowsFile == Spec => []SnapshotFollows
<1>1. Inv => SnapshotFollows
  BY DEF Inv, SnapshotFollows, Quiet
<1> QED
  BY <1>1, Invariance, PTL

(***************************************************************************)
(* Whatever the order of the handlers, the emulators polled are those of   *)
(* one snapshot that was in force, none of them twice.                     *)
(***************************************************************************)
THEOREM NoMixedClients == Spec => []ClientsOfOneSnapshot
<1>1. Inv => ClientsOfOneSnapshot
  BY DEF Inv
<1> QED
  BY <1>1, Invariance, PTL

(* A client with the serial of an emulator whose ABI nobody edited is that *)
(* emulator, since some snapshot of this process gave it.                  *)
LEMMA SerialsTell ==
    ASSUME ClientsOfOneSnapshot, pc = "running", NEW s,
           Serials(clients) = Serials(ClientsOf(s))
    PROVE  Follow(s)
<1>1. /\ DOMAIN clients = DOMAIN s.emulators
      /\ \A i \in DOMAIN clients : clients[i].serial = Serial(s, i)
  <2>1. /\ DOMAIN Serials(clients) = DOMAIN clients
        /\ \A i \in DOMAIN clients : Serials(clients)[i] = clients[i].serial
    BY DEF Serials
  <2>2. /\ DOMAIN Serials(ClientsOf(s)) = DOMAIN s.emulators
        /\ \A i \in DOMAIN s.emulators : Serials(ClientsOf(s))[i] = Serial(s, i)
    BY DEF Serials, ClientsOf, Client
  <2> QED
    BY <2>1, <2>2
<1>2. ASSUME NEW i \in DOMAIN clients, SteadyABI(s, i)
      PROVE  clients[i] = Client(s, i)
  <2>1. PICK t \in accepted : \E j \in DOMAIN t.emulators : clients[i] = Client(t, j)
    BY DEF ClientsOfOneSnapshot
  <2>2. PICK j \in DOMAIN t.emulators : clients[i] = Client(t, j)
    BY <2>1
  <2>3. Serial(t, j) = Serial(s, i)
    BY <1>1, <2>2 DEF Client
  <2> QED
    BY <1>2, <2>2, <2>3 DEF SteadyABI
<1> QED
  BY <1>2 DEF Follow

(***************************************************************************)
(* Handlers that do not overlap leave the clients of the snapshot in       *)
(* force, serials and ABIs: overlapping handlers, the early start and an   *)
(* ABI that was edited are the only reasons why a client can be stale.     *)
(***************************************************************************)
THEOREM ClientsFollowSnapshot == Spec => []ClientsFollow
<1>1. Inv => ClientsFollow
  <2> SUFFICES ASSUME Inv, Quiet, ~early, ~crowded
               PROVE  Follow(snap)
      BY DEF ClientsFollow
  <2>1. pc = "running" /\ ClientsOfOneSnapshot
    BY DEF Inv, Quiet
  <2>2. Serials(clients) = Serials(ClientsOf(snap))
    BY DEF Inv, Quiet
  <2> QED
    BY <2>1, <2>2, SerialsTell
<1> QED
  BY <1>1, Invariance, PTL
=============================================================================
