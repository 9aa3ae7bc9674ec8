----------------------------- MODULE Packages ------------------------------
(***************************************************************************)
(* packages.Manager (src/packages/packages.go): the set of tracked package *)
(* names, in memory and in packages.json, changed through Add and Remove   *)
(* (the API), through Seed (main) and by anyone who edits the file; a      *)
(* goroutine reloads the file on fsnotify events.                          *)
(*                                                                         *)
(* Add, Remove and Seed hold the lock from the check to the rename, so     *)
(* each is one step.  A reload is not: load reads the file without the     *)
(* lock and takes it only to assign the set.                               *)
(***************************************************************************)
EXTENDS Naturals

CONSTANTS
    Pkg,        \* package names (valid ones: the others never reach the set)
    Static,     \* the packages config.yaml lists
    MaxWrites,  \* bound: changes of packages.json by the API and from outside
    MaxFaults   \* bound: I/O errors, lost notifications and crashes

ASSUME PackagesAssumption ==
    /\ Static \subseteq Pkg
    /\ MaxWrites \in Nat
    /\ MaxFaults \in Nat

VARIABLES
    pc,         \* main: "down", "loaded" (New), "watching" (Watch), "running"
    set,        \* Manager.set
    file,       \* packages.json
    events,     \* Write and Create notifications not yet handled
    loader,     \* the goroutine of Watch: "idle", "read" or "apply"
    buf,        \* what its ReadFile returned
    writes,     \* changes so far that MaxWrites bounds
    faults,     \* faults so far
    missed,     \* history: a change of the file escaped the notifications
    acked,      \* history: names whose Add succeeded, not removed or edited
    wanted      \* history: the names that the last edit from outside, made while
                \* this process ran, and the requests since then ask for: one
                \* set of names, or no set if there was no such edit

vars == <<pc, set, file, events, loader, buf, writes, faults,
          missed, acked, wanted>>

(* packages.json: absent, holding something load rejects, or a list. *)
File    == [state : {"absent", "invalid", "valid"}, names : SUBSET Pkg]
Absent  == [state |-> "absent", names |-> {}]
Invalid == [state |-> "invalid", names |-> {}]
Listing(names) == [state |-> "valid", names |-> names]

TypeOK ==
    /\ pc \in {"down", "loaded", "watching", "running"}
    /\ set \subseteq Pkg
    /\ file \in File
    /\ events \in Nat
    /\ loader \in {"idle", "read", "apply"}
    /\ buf \in File
    /\ writes \in 0..MaxWrites
    /\ faults \in 0..MaxFaults
    /\ missed \in BOOLEAN
    /\ acked \subseteq Pkg
    /\ wanted \subseteq SUBSET Pkg

Init ==
    /\ pc = "down"
    /\ set = {}
    /\ file = Absent
    /\ events = 0
    /\ loader = "idle"
    /\ buf = Absent
    /\ writes = 0
    /\ faults = 0
    /\ missed = FALSE
    /\ acked = {}
    /\ wanted = {}

Watching == pc \in {"watching", "running"}

Write == writes < MaxWrites /\ writes' = writes + 1

Fault == faults < MaxFaults /\ faults' = faults + 1

-----------------------------------------------------------------------------
(* Startup: main.openPackages *)

(* New loads the file; an invalid one ends the process. *)
New ==
    /\ pc = "down"
    /\ file.state # "invalid"
    /\ set' = file.names
    /\ pc' = "loaded"
    /\ UNCHANGED <<file, events, loader, buf, writes, faults, missed, acked,
                   wanted>>

Watch ==
    /\ pc = "loaded"
    /\ pc' = "watching"
    /\ UNCHANGED <<set, file, events, loader, buf, writes, faults, missed,
                   acked, wanted>>

(* Mutant: the notifications of the service's own renames are dropped. *)
FlushUnheard(names) ==
    /\ file' = Listing(names)
    /\ UNCHANGED events
    /\ missed' = FALSE

(***************************************************************************)
(* flush writes the whole set and renames it over the file; the service    *)
(* hears of its own rename as of anybody else's.                           *)
(***************************************************************************)
Flush(names) ==
    /\ file' = Listing(names)
    /\ events' = events + 1
    /\ missed' = FALSE

(* Seed flushes only when config.yaml adds a name. *)
SeedFrom(names) ==
    /\ pc = "watching"
    /\ set' = set \cup names
    /\ \/ names \subseteq set /\ UNCHANGED <<file, events, missed>>
       \/ ~(names \subseteq set) /\ Flush(set')
    /\ wanted' = {w \cup names : w \in wanted}
    /\ pc' = "running"
    /\ UNCHANGED <<loader, buf, writes, faults, acked>>

Seed == SeedFrom(Static)

(* What the process holds is gone.  A failed Seed also ends the process. *)
Crash ==
    /\ pc # "down"
    /\ Fault
    /\ pc' = "down"
    /\ set' = {}
    /\ events' = 0
    /\ loader' = "idle"
    /\ buf' = Absent
    /\ missed' = FALSE
    /\ wanted' = {}
    /\ UNCHANGED <<file, writes, acked>>

-----------------------------------------------------------------------------
(* The API.  A name already tracked (or not tracked) is refused: no step. *)

Add(p) ==
    /\ pc = "running"
    /\ p \notin set
    /\ Write
    /\ set' = set \cup {p}
    /\ Flush(set')
    /\ acked' = acked \cup {p}
    /\ wanted' = {w \cup {p} : w \in wanted}
    /\ UNCHANGED <<pc, loader, buf, faults>>

Remove(p) ==
    /\ pc = "running"
    /\ p \in set
    /\ Write
    /\ set' = set \ {p}
    /\ Flush(set')
    /\ acked' = acked \ {p}
    /\ wanted' = {w \ {p} : w \in wanted}
    /\ UNCHANGED <<pc, loader, buf, faults>>

(* Mutant: the set is not put back. *)
FlushFailureKept(p) ==
    /\ pc = "running"
    /\ Fault
    /\ set' = IF p \in set THEN set \ {p} ELSE set \cup {p}
    /\ UNCHANGED <<pc, file, events, loader, buf, writes, missed, acked, wanted>>

(* The flush fails before the rename: the set is put back, nothing shows. *)
FlushFails(p) ==
    /\ pc = "running"
    /\ Fault
    /\ set' = IF p \in set THEN (set \ {p}) \cup {p} ELSE (set \cup {p}) \ {p}
    /\ UNCHANGED <<pc, file, events, loader, buf, writes, missed, acked, wanted>>

-----------------------------------------------------------------------------
(* The goroutine of Watch and load *)

TakeEvent ==
    /\ Watching
    /\ loader = "idle"
    /\ events > 0
    /\ events' = events - 1
    /\ loader' = "read"
    /\ UNCHANGED <<pc, set, file, buf, writes, faults, missed, acked, wanted>>

ReadFile ==
    /\ loader = "read"
    /\ buf' = file
    /\ loader' = "apply"
    /\ missed' = FALSE
    /\ UNCHANGED <<pc, set, file, events, writes, faults, acked, wanted>>

(* Three attempts fail: the reload is given up until the next event. *)
ReadFails ==
    /\ loader = "read"
    /\ Fault
    /\ loader' = "idle"
    /\ missed' = TRUE
    /\ UNCHANGED <<pc, set, file, events, buf, writes, acked, wanted>>

(* Mutant: what the file lists is added to the set. *)
ApplyMerges ==
    /\ loader = "apply"
    /\ set' = IF buf.state = "valid" THEN set \cup buf.names ELSE set
    /\ loader' = "idle"
    /\ buf' = Absent
    /\ UNCHANGED <<pc, file, events, writes, faults, missed, acked, wanted>>

(* A file that is gone or invalid leaves the set as it is. *)
Apply ==
    /\ loader = "apply"
    /\ set' = IF buf.state = "valid" THEN buf.names ELSE set
    /\ loader' = "idle"
    /\ buf' = Absent
    /\ UNCHANGED <<pc, file, events, writes, faults, missed, acked, wanted>>

-----------------------------------------------------------------------------
(* The world outside *)

(* A Write or Create notification is queued once the directory is watched. *)
Notified ==
    IF Watching THEN events' = events + 1 /\ UNCHANGED missed
                ELSE missed' = (pc = "loaded") /\ UNCHANGED events

(* It takes the place of whatever was asked for before. *)
ExternalEdit ==
    /\ Write
    /\ \/ \E names \in SUBSET Pkg :
            /\ file' = Listing(names)
            /\ wanted' = IF pc = "running" THEN {names} ELSE {}
       \/ file' = Invalid /\ wanted' = {}
    /\ Notified
    /\ acked' = {}
    /\ UNCHANGED <<pc, set, loader, buf, faults>>

(* A Remove notification is ignored. *)
ExternalDelete ==
    /\ file.state # "absent"
    /\ Write
    /\ file' = Absent
    /\ acked' = {}
    /\ wanted' = {}
    /\ UNCHANGED <<pc, set, events, loader, buf, faults, missed>>

(* The kernel's queue overflows: fsnotify reports an error, only logged. *)
LoseEvent ==
    /\ events > 0
    /\ Fault
    /\ events' = events - 1
    /\ missed' = TRUE
    /\ UNCHANGED <<pc, set, file, loader, buf, writes, acked, wanted>>

-----------------------------------------------------------------------------

Startup == New \/ Watch \/ Seed
Reload  == TakeEvent \/ ReadFile \/ ReadFails \/ Apply

Next ==
    \/ Startup
    \/ \E p \in Pkg : Add(p) \/ Remove(p) \/ FlushFails(p)
    \/ Reload
    \/ ExternalEdit \/ ExternalDelete \/ LoseEvent
    \/ Crash

Spec == Init /\ [][Next]_vars

(* The startup goes on, is repeated after a crash, and the loader runs. *)
FairSpec == Spec /\ WF_vars(Startup) /\ WF_vars(Reload)

-----------------------------------------------------------------------------
(* Properties *)

(* Nothing left to load: no notification, no reload under way. *)
Quiet == Watching /\ events = 0 /\ loader = "idle"

(***************************************************************************)
(* When the notifications are handled, memory and file hold the same set,  *)
(* although reloads apply what they read before the last changes: unless a *)
(* change escaped the notifications, or the file cannot be loaded.         *)
(***************************************************************************)
InSync == Quiet /\ ~missed /\ file.state = "valid" => set = file.names

(***************************************************************************)
(* The inductive invariant behind InSync: a reload that is about to apply  *)
(* something else than the file has a notification behind it.              *)
(***************************************************************************)
Inv ==
    /\ TypeOK
    /\ InSync
    /\ ~Watching => events = 0 /\ loader = "idle"
    /\ pc = "loaded" /\ ~missed /\ file.state = "valid" => set = file.names
    /\ loader = "apply" /\ events = 0 /\ ~missed /\ file.state = "valid" => buf = file

(***************************************************************************)
(* Once writes and faults stop, the service settles on what packages.json  *)
(* holds: the reload goroutine leaves no stale set behind for ever.        *)
(***************************************************************************)
SettlesOnFile ==
    <>[](file.state = "valid" /\ ~missed => pc = "running" /\ set = file.names)

(***************************************************************************)
(* packages "is a thread-safe, file-backed set" (README.md:128): a name    *)
(* whose Add succeeded stays in packages.json until it is removed or the   *)
(* file is edited.                                                         *)
(***************************************************************************)
AcknowledgedKept == acked \subseteq file.names

(***************************************************************************)
(* packages.json "is hot-reloaded - external edits are picked up           *)
(* automatically" (README.md:417): when all notifications are handled, the *)
(* list is what the last edit made it, with what the requests since then   *)
(* have added and taken away.                                              *)
(***************************************************************************)
EditsPickedUp == Quiet /\ ~missed => wanted \subseteq {set}
=============================================================================
