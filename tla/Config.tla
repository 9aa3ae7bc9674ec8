------------------------------- MODULE Config -------------------------------
(***************************************************************************)
(* config.Config (src/config/config.go) with what hangs on its snapshots:  *)
(* the startup of main, which takes one snapshot and connects its          *)
(* emulators, and the client list of watcher.Watcher, which follows the    *)
(* reloads through a handler.                                              *)
(*                                                                         *)
(* A reload of config.yaml is several steps of one goroutine (Watch), and  *)
(* every reload starts one more goroutine for the handler, which gets the  *)
(* lock of the watcher when it is its turn: in any order.                  *)
(***************************************************************************)
EXTENDS Integers, Sequences

CONSTANTS
    Contents,   \* what config.yaml may hold, valid or not
    MaxEdits,   \* bound: changes of config.yaml
    MaxFaults   \* bound: exits, failed reads, lost notifications

(***************************************************************************)
(* The fields that decide who is polled; rest tells whether the others,    *)
(* and the YAML itself, pass validation.                                   *)
(***************************************************************************)
IsContent(c) ==
    /\ c.emulators \in Seq([port : Int, abi : STRING])
    /\ c.rest \in BOOLEAN

ASSUME ConfigAssumption ==
    /\ \A c \in Contents : IsContent(c)
    /\ MaxEdits \in Nat
    /\ MaxFaults \in Nat

MaxPort   == 65535
KnownABIs == {"arm64-v8a", "armeabi-v7a", "x86_64", "x86"}

(* Mutant: duplicate ports are let through. *)
ValidatesEach(c) ==
    /\ c.rest
    /\ c.emulators # << >>
    /\ \A i \in DOMAIN c.emulators :
        /\ c.emulators[i].port \in 1..MaxPort
        /\ c.emulators[i].abi \in KnownABIs

(* validate: one emulator at least, ports in range and distinct, ABIs known. *)
Validates(c) ==
    /\ c.rest
    /\ c.emulators # << >>
    /\ \A i \in DOMAIN c.emulators :
        /\ c.emulators[i].port \in 1..MaxPort
        /\ c.emulators[i].abi \in KnownABIs
        /\ \A j \in 1..(i - 1) : c.emulators[j].port # c.emulators[i].port

(* adb.New: a client for emulator i of a snapshot.  Its serial is host and *)
(* port.                                                                   *)
Serial(s, i) == <<s.host, s.emulators[i].port>>
Client(s, i) == [serial |-> Serial(s, i), abi |-> s.emulators[i].abi]

(* connectEmulators; whether Connect succeeds changes nothing here. *)
ClientsOf(s) == [i \in DOMAIN s.emulators |-> Client(s, i)]

Serials(list) == [i \in DOMAIN list |-> list[i].serial]

VARIABLES
    file,       \* config.yaml
    watched,    \* whether the inotify watch still sees that file
    events,     \* Write notifications not yet handled
    edits,      \* changes of the file so far
    pc,         \* main: "down", "loaded", "watching", "starting", "running"
    boot,       \* the snapshot main works with until the watcher exists
    clients,    \* Watcher.clients
    snap,       \* Config.snap
    loader,     \* goroutine of Watch: "idle", "read", "assign" or "notify"
    buf,        \* what it has read
    reloads,    \* how many handlers have been started
    handlers,   \* those that have not run: <<number, snapshot>>
    faults,     \* faults so far
    missed,     \* history: the file has changed unseen since the last read
    accepted,   \* history: the snapshots of this process
    early,      \* history: the watcher began with an older snapshot
    crowded     \* history: a handler was started while another waited

fileVars == <<file, watched, events, edits>>
mainVars == <<pc, boot, clients>>
loadVars == <<snap, loader, buf, accepted>>
goVars   == <<reloads, handlers, crowded>>
vars     == <<fileVars, mainVars, loadVars, goVars, faults, missed, early>>

(* The Snapshot a Config has before its first reload. *)
Zero == [host |-> "", emulators |-> << >>, rest |-> FALSE]

TypeOK ==
    /\ file \in Contents
    /\ watched \in BOOLEAN
    /\ events \in Nat
    /\ edits \in 0..MaxEdits
    /\ pc \in {"down", "loaded", "watching", "starting", "running"}
    /\ boot \in Contents \cup {Zero}
    /\ \A i \in DOMAIN clients : clients[i].abi \in KnownABIs
    /\ snap \in Contents \cup {Zero}
    /\ loader \in {"idle", "read", "assign", "notify"}
    /\ buf \in Contents \cup {Zero}
    /\ reloads \in Nat
    /\ handlers \subseteq (Nat \X Contents)
    /\ faults \in 0..MaxFaults
    /\ accepted \subseteq Contents
    /\ <<missed, early, crowded>> \in BOOLEAN \X BOOLEAN \X BOOLEAN

Init ==
    /\ file \in Contents
    /\ watched = FALSE
    /\ events = 0
    /\ edits = 0
    /\ pc = "down"
    /\ boot = Zero
    /\ clients = << >>
    /\ snap = Zero
    /\ loader = "idle"
    /\ buf = Zero
    /\ reloads = 0
    /\ handlers = {}
    /\ faults = 0
    /\ missed = FALSE
    /\ accepted = {}
    /\ early = FALSE
    /\ crowded = FALSE

Fault == faults < MaxFaults /\ faults' = faults + 1

-----------------------------------------------------------------------------
(* main *)

(* Load: an invalid file ends the process. *)
Load ==
    /\ pc = "down"
    /\ Validates(file)
    /\ snap' = file
    /\ accepted' = {file}
    /\ pc' = "loaded"
    /\ UNCHANGED <<fileVars, boot, clients, loader, buf, goVars, faults,
                   missed, early>>

Watch ==
    /\ pc = "loaded"
    /\ watched' = TRUE
    /\ pc' = "watching"
    /\ UNCHANGED <<file, events, edits, boot, clients, loadVars, goVars, faults,
                   missed, early>>

(* loadConfig returns the snapshot the rest of the startup works with. *)
Get ==
    /\ pc = "watching"
    /\ boot' = snap
    /\ pc' = "starting"
    /\ UNCHANGED <<fileVars, clients, loadVars, goVars, faults, missed, early>>

(* connectEmulators and watcher.New, which registers the handler. *)
NewWatcher ==
    /\ pc = "starting"
    /\ clients' = ClientsOf(boot)
    /\ early' = (snap # boot /\ loader # "notify")
    /\ pc' = "running"
    /\ UNCHANGED <<fileVars, boot, loadVars, goVars, faults, missed>>

(* A signal, a failed step of the startup or a kill. *)
Exit ==
    /\ pc # "down"
    /\ Fault
    /\ watched' = FALSE
    /\ events' = 0
    /\ pc' = "down"
    /\ boot' = Zero
    /\ clients' = << >>
    /\ snap' = Zero
    /\ loader' = "idle"
    /\ buf' = Zero
    /\ accepted' = {}
    /\ reloads' = 0
    /\ handlers' = {}
    /\ missed' = FALSE
    /\ early' = FALSE
    /\ crowded' = FALSE
    /\ UNCHANGED <<file, edits>>

-----------------------------------------------------------------------------
(* The goroutine of Config.Watch, and reload *)

TakeEvent ==
    /\ loader = "idle"
    /\ events > 0
    /\ events' = events - 1
    /\ loader' = "read"
    /\ UNCHANGED <<file, watched, edits, mainVars, snap, buf, accepted, goVars,
                   faults, missed, early>>

(* Mutant: what fails validation is applied. *)
ReadAnything ==
    /\ loader = "read"
    /\ buf' = file
    /\ loader' = "assign"
    /\ missed' = FALSE
    /\ UNCHANGED <<fileVars, mainVars, snap, accepted, goVars, faults, early>>

(* An invalid file leaves the configuration as it is. *)
Read ==
    /\ loader = "read"
    /\ buf' = file
    /\ loader' = IF Validates(file) THEN "assign" ELSE "idle"
    /\ missed' = FALSE
    /\ UNCHANGED <<fileVars, mainVars, snap, accepted, goVars, faults, early>>

(* The file cannot be read: that is logged, and not tried again. *)
ReadFails ==
    /\ loader = "read"
    /\ Fault
    /\ loader' = "idle"
    /\ missed' = TRUE
    /\ UNCHANGED <<fileVars, mainVars, snap, buf, accepted, goVars, early>>

Assign ==
    /\ loader = "assign"
    /\ snap' = buf
    /\ accepted' = accepted \cup {buf}
    /\ loader' = "notify"
    /\ UNCHANGED <<fileVars, mainVars, buf, goVars, faults, missed, early>>

(* Mutant: handlers get the snapshot main started with. *)
NotifyBoot ==
    /\ loader = "notify"
    /\ loader' = "idle"
    /\ IF pc = "running"
       THEN /\ reloads' = reloads + 1
            /\ handlers' = handlers \cup {<<reloads', boot>>}
            /\ crowded' = (crowded \/ handlers # {})
       ELSE UNCHANGED goVars
    /\ UNCHANGED <<fileVars, mainVars, snap, buf, accepted, faults, missed, early>>

(* Get, and a goroutine for the handler, when there is one. *)
Notify ==
    /\ loader = "notify"
    /\ loader' = "idle"
    /\ IF pc = "running"
       THEN /\ reloads' = reloads + 1
            /\ handlers' = handlers \cup {<<reloads', snap>>}
            /\ crowded' = (crowded \/ handlers # {})
       ELSE UNCHANGED goVars
    /\ UNCHANGED <<fileVars, mainVars, snap, buf, accepted, faults, missed, early>>

-----------------------------------------------------------------------------
(* The handler goroutines *)

(* Mutant: clients that are no longer configured are kept. *)
SyncAdds(s) ==
    clients \o SelectSeq(ClientsOf(s), LAMBDA c :
        \A i \in DOMAIN clients : clients[i].serial # c.serial)

(* syncClients: a client whose serial is known is kept as it is. *)
SyncClients(s) ==
    [i \in DOMAIN s.emulators |->
        IF \E j \in DOMAIN clients : clients[j].serial = Serial(s, i)
        THEN clients[CHOOSE j \in DOMAIN clients : clients[j].serial = Serial(s, i)]
        ELSE Client(s, i)]

RunHandler(h) ==
    /\ h \in handlers
    /\ handlers' = handlers \ {h}
    /\ clients' = SyncClients(h[2])
    /\ early' = FALSE
    /\ UNCHANGED <<fileVars, pc, boot, loadVars, reloads, crowded, faults, missed>>

-----------------------------------------------------------------------------
(* The world outside *)

(* The file is written in place: seen from Watch on, unless it was replaced. *)
Edit(c) ==
    /\ edits < MaxEdits
    /\ edits' = edits + 1
    /\ file' = c
    /\ IF watched THEN events' = events + 1 /\ UNCHANGED missed
                  ELSE missed' = (pc # "down") /\ UNCHANGED events
    /\ UNCHANGED <<watched, mainVars, loadVars, goVars, faults, early>>

(* Another file is renamed over it: what was watched is gone. *)
Replace(c) ==
    /\ edits < MaxEdits
    /\ edits' = edits + 1
    /\ file' = c
    /\ watched' = FALSE
    /\ missed' = (pc # "down")
    /\ UNCHANGED <<events, mainVars, loadVars, goVars, faults, early>>

(* fsnotify's queue overflows, which is only logged. *)
LoseEvent ==
    /\ events > 0
    /\ Fault
    /\ events' = events - 1
    /\ missed' = TRUE
    /\ UNCHANGED <<file, watched, edits, mainVars, loadVars, goVars, early>>

-----------------------------------------------------------------------------

Startup == Load \/ Watch \/ Get \/ NewWatcher
Reload  == TakeEvent \/ Read \/ ReadFails \/ Assign \/ Notify
Handle  == \E h \in handlers : RunHandler(h)

Next ==
    \/ Startup
    \/ Reload
    \/ Handle
    \/ \E c \in Contents : Edit(c) \/ Replace(c)
    \/ LoseEvent
    \/ Exit

Spec == Init /\ [][Next]_vars

(* main goes on and is restarted (README.md:570), goroutines are scheduled. *)
FairSpec == Spec /\ WF_vars(Startup) /\ WF_vars(Reload) /\ WF_vars(Handle)

-----------------------------------------------------------------------------
(* Properties *)

(* No notification, no reload, no handler is left. *)
Quiet == pc = "running" /\ events = 0 /\ loader = "idle" /\ handlers = {}

(***************************************************************************)
(* "An invalid config is rejected and the previous values are kept"        *)
(* (README.md:178), and a valid one gets through: when all is handled the  *)
(* snapshot is the file, or the file is invalid, or a change of it was     *)
(* never notified.                                                         *)
(***************************************************************************)
SnapshotFollows ==
    Quiet => /\ Validates(snap)
             /\ ~missed /\ Validates(file) => snap = file

(***************************************************************************)
(* Whatever the order of the handlers, the emulators polled are those of   *)
(* one snapshot that was in force since the start, none twice; an ABI may  *)
(* be out of date, but some snapshot in force since then gave it.          *)
(***************************************************************************)
ClientsOfOneSnapshot ==
    pc = "running" =>
        /\ \E s \in accepted : Serials(clients) = Serials(ClientsOf(s))
        /\ \A i \in DOMAIN clients : \E s \in accepted :
             \E j \in DOMAIN s.emulators : clients[i] = Client(s, j)
        /\ \A i, j \in DOMAIN clients :
             i # j => clients[i].serial # clients[j].serial

(* No snapshot of this process gave the serial of emulator i another ABI. *)
SteadyABI(s, i) ==
    \A t \in accepted : \A j \in DOMAIN t.emulators :
        Serial(t, j) = Serial(s, i) => Client(t, j) = Client(s, i)

(***************************************************************************)
(* The clients have the serials of s, in its order, and each is that of s, *)
(* ABI and all, unless the ABI of its serial has been edited: syncClients  *)
(* keeps a client whose serial it knows, with the ABI it had.              *)
(***************************************************************************)
Follow(s) ==
    /\ Serials(clients) = Serials(ClientsOf(s))
    /\ \A i \in DOMAIN clients : SteadyABI(s, i) => clients[i] = Client(s, i)

(***************************************************************************)
(* Handlers that never waited for each other bring the clients to the      *)
(* snapshot in force, if the watcher did not begin with an older one: all  *)
(* of each client, but for an ABI that was edited while the process ran,   *)
(* which is not hot-reloaded (watcher.go:209).                             *)
(***************************************************************************)
ClientsFollow == Quiet /\ ~early /\ ~crowded => Follow(snap)

(***************************************************************************)
(* The inductive invariant: a notification is behind every change of the   *)
(* file that was not missed, and a handler behind every snapshot that the  *)
(* clients do not follow yet.                                              *)
(***************************************************************************)
Inv ==
    /\ TypeOK
    /\ pc = "down" => accepted = {}
    /\ pc \in {"down", "loaded"} => ~watched /\ events = 0 /\ loader = "idle"
    /\ pc # "running" => handlers = {}
    /\ pc # "down" => snap \in accepted
    /\ pc = "starting" => boot \in accepted
    /\ \A s \in accepted : Validates(s)
    /\ \A h \in handlers : h[2] \in accepted
    /\ loader = "assign" => Validates(buf)
    /\ loader = "assign" /\ events = 0 /\ ~missed /\ Validates(file) => buf = file
    /\ /\ pc # "down" /\ loader \in {"idle", "notify"} /\ events = 0 /\ ~missed
       /\ Validates(file)
       => snap = file
    /\ ClientsOfOneSnapshot
    /\ ~crowded => /\ \A g, h \in handlers : g = h
                   /\ loader # "notify" => \A h \in handlers : h[2] = snap
    /\ /\ pc = "running" /\ ~crowded /\ ~early
       /\ handlers = {} /\ loader # "notify"
       => Serials(clients) = Serials(ClientsOf(snap))

(***************************************************************************)
(* Once edits and exits stop, the service settles on config.yaml: it runs, *)
(* with that snapshot and, but for the cases above, its clients.           *)
(***************************************************************************)
SettlesOnFile ==
    <>[](~missed /\ Validates(file) =>
            /\ Quiet
            /\ snap = file
            /\ ~early /\ ~crowded => Follow(file))

(***************************************************************************)
(* "The service hot-reloads on write - no restart needed" (README.md:178): *)
(* once the reloads are handled, the emulators polled have the serials of  *)
(* the snapshot in force.                                                  *)
(***************************************************************************)
ClientsHotReload ==
    Quiet /\ ~early => Serials(clients) = Serials(ClientsOf(snap))
=============================================================================
