-------------------------------- MODULE Api --------------------------------
(***************************************************************************)
(* The HTTP API (src/api/server.go) together with what its handlers share: *)
(* the package list (Packages), the versions of the store, the packages of *)
(* config.yaml, and the poll loop that reads all three.                    *)
(*                                                                         *)
(* Requests are served concurrently.  A handler takes the lock of the      *)
(* package list once, then the lock of the store once per package of its   *)
(* answer; anything may happen in between.                                 *)
(***************************************************************************)
EXTENDS Packages

CONSTANTS
    Conn,       \* connections: requests served at the same time
    MaxCode     \* bound: the greatest version code

ASSUME ApiAssumption == MaxCode \in Nat

VARIABLES
    static,     \* the packages of the configuration in force (cfg.Get)
    boot,       \* those of the snapshot main starts with
    known,      \* Store.data: 0 for a package never extracted
    saved,      \* state/store.json
    cycle,      \* the poll loop: its phase, its snapshot, packages to check
    req,        \* req[r]: the request being served on connection r
    reply       \* the answer the last step sent, if it sent one

apiVars == <<static, boot, known, saved, cycle, req, reply>>
allVars == <<vars, apiVars>>

Idle    == [status |-> 0, todo |-> {}, info |-> << >>, floor |-> << >>]
NoReply == [status |-> 0, info |-> << >>, floor |-> << >>]
AtRest  == [phase |-> "wait", static |-> {}, todo |-> {}]

Versions == 0..MaxCode

(* The startup works with a list of packages. *)
BootOK == static \in SUBSET Pkg /\ boot \in SUBSET Pkg

(* The poll loop runs between startup and stop; the store is never behind  *)
(* its file.                                                               *)
LoopOK ==
    /\ known \in [Pkg -> Versions] /\ saved \in [Pkg -> Versions]
    /\ cycle \in [phase : {"wait", "list", "poll"}, static : SUBSET Pkg,
                  todo : SUBSET Pkg]
    /\ pc # "running" => cycle = AtRest
    /\ pc # "down" => \A p \in Pkg : saved[p] <= known[p]

RequestTypes ==
    /\ \A r \in Conn : /\ req[r].status \in {0, 200, 201}
                       /\ req[r].todo \subseteq Pkg
                       /\ DOMAIN req[r].info \subseteq Pkg
    /\ reply.status \in {0, 200, 201, 204, 404, 409}

ApiInit ==
    /\ Init
    /\ static = Static
    /\ boot = {}
    /\ known = [p \in Pkg |-> 0]
    /\ saved = [p \in Pkg |-> 0]
    /\ cycle = AtRest
    /\ req = [r \in Conn |-> Idle]
    /\ reply = NoReply

-----------------------------------------------------------------------------
(* Startup: main works with one snapshot, whatever is reloaded meanwhile.  *)

Begin ==
    /\ New
    /\ boot' = static
    /\ known' = saved
    /\ UNCHANGED <<static, saved, cycle, req>>

Prepare ==
    /\ Watch
    /\ UNCHANGED <<static, boot, known, saved, cycle, req>>

(* Seed, and startAPI.  Run begins with a poll. *)
Serve ==
    /\ SeedFrom(boot)
    /\ boot' = {}
    /\ UNCHANGED <<static, known, saved, cycle, req>>

(* Mutant: the store is opened again under the handlers of before. *)
DownServes ==
    /\ Crash
    /\ boot' = {}
    /\ known' = [p \in Pkg |-> 0]
    /\ cycle' = AtRest
    /\ UNCHANGED <<static, saved, req>>

(***************************************************************************)
(* A stop or a kill.  main returns when the poll loop does: it does not    *)
(* wait for the goroutine in which Shutdown waits for the handlers, so     *)
(* requests under way are cut.                                             *)
(***************************************************************************)
Down ==
    /\ Crash
    /\ boot' = {}
    /\ known' = [p \in Pkg |-> 0]
    /\ cycle' = AtRest
    /\ req' = [r \in Conn |-> Idle]
    /\ UNCHANGED <<static, saved>>

(* config.yaml is rewritten and loaded (see Config). *)
ReloadConfig(names) ==
    /\ Write
    /\ names # static
    /\ static' = names
    /\ UNCHANGED <<pc, set, file, events, loader, buf, faults, missed, acked,
                   wanted, boot, known, saved, cycle, req>>

-----------------------------------------------------------------------------
(* The poll loop *)

Tick ==
    /\ pc = "running"
    /\ cycle.phase = "wait"
    /\ cycle' = [AtRest EXCEPT !.phase = "list", !.static = static]
    /\ UNCHANGED <<vars, static, boot, known, saved, req>>

(* Mutant: only the packages of config.yaml are polled. *)
StaticPackages(names) == names

(* effectivePackages: those of the snapshot and those of the manager. *)
EffectivePackages(names) == names \cup set

ListCycle ==
    /\ cycle.phase = "list"
    /\ cycle' = [phase |-> "poll", static |-> {},
                 todo |-> EffectivePackages(cycle.static)]
    /\ UNCHANGED <<vars, static, boot, known, saved, req>>

(* checkPackage finds no update, or gives up (see Watcher). *)
CheckNothing(p) ==
    /\ p \in cycle.todo
    /\ cycle' = [cycle EXCEPT !.todo = @ \ {p}]
    /\ UNCHANGED <<vars, static, boot, known, saved, req>>

(* checkPackage records a version; the flush of the store may fail. *)
CheckRecords(p) ==
    /\ p \in cycle.todo
    /\ cycle' = [cycle EXCEPT !.todo = @ \ {p}]
    /\ \E c \in Versions :
         /\ c > known[p]
         /\ known' = [known EXCEPT ![p] = c]
    /\ \/ saved' = known' /\ UNCHANGED faults
       \/ Fault /\ UNCHANGED saved
    /\ UNCHANGED <<pc, set, file, events, loader, buf, writes, missed, acked,
                   wanted, static, boot, req>>

EndCycle ==
    /\ cycle.phase = "poll"
    /\ cycle.todo = {}
    /\ cycle' = AtRest
    /\ UNCHANGED <<vars, static, boot, known, saved, req>>

-----------------------------------------------------------------------------
(* Requests *)

(***************************************************************************)
(* A request that authMiddleware and the checks of its handler let through *)
(* (the others are answered without a look at anything shared).  It is     *)
(* first seen when its handler has the lock of the package list; floor is  *)
(* history: the versions recorded by then.                                 *)
(***************************************************************************)
Arrives(r) == pc = "running" /\ req[r] = Idle

(* The handler ends here. *)
Done(status) ==
    /\ reply' = [NoReply EXCEPT !.status = status]
    /\ UNCHANGED <<static, boot, known, saved, cycle, req>>

(* The handler goes on to packageInfo for these names. *)
LookUp(r, status, names) ==
    /\ req' = [req EXCEPT ![r] = [Idle EXCEPT !.status = status, !.todo = names,
                                              !.floor = known]]
    /\ reply' = NoReply
    /\ UNCHANGED <<static, boot, known, saved, cycle>>

ListPackages(r) ==
    /\ Arrives(r)
    /\ LookUp(r, 200, set)
    /\ UNCHANGED vars

GetPackage(r, p) ==
    /\ Arrives(r)
    /\ \/ p \in set /\ LookUp(r, 200, {p})
       \/ p \notin set /\ Done(404)
    /\ UNCHANGED vars

(* Any error of Add is a conflict, that of a failed flush too. *)
AddPackage(r, p) ==
    /\ Arrives(r)
    /\ \/ Add(p) /\ LookUp(r, 201, {p})
       \/ p \in set /\ Done(409) /\ UNCHANGED vars
       \/ p \notin set /\ FlushFails(p) /\ Done(409)

(* Any error of Remove is "not found". *)
RemovePackage(r, p) ==
    /\ Arrives(r)
    /\ \/ Remove(p) /\ Done(204)
       \/ p \notin set /\ Done(404) /\ UNCHANGED vars
       \/ p \in set /\ FlushFails(p) /\ Done(404)

(* Mutant: the version of the file is shown. *)
InfoSaved(p) == saved[p]

(* packageInfo: GetLastKnown, nothing for a package never extracted. *)
PackageInfo(p) == known[p]

ReadInfo(r) ==
    /\ \E p \in req[r].todo :
         req' = [req EXCEPT
                   ![r].todo = @ \ {p},
                   ![r].info = [q \in DOMAIN @ \cup {p} |->
                                  IF q = p THEN PackageInfo(p) ELSE @[q]]]
    /\ reply' = NoReply
    /\ UNCHANGED <<vars, static, boot, known, saved, cycle>>

Answer(r) ==
    /\ req[r].status # 0
    /\ req[r].todo = {}
    /\ reply' = [status |-> req[r].status, info |-> req[r].info,
                 floor |-> req[r].floor]
    /\ req' = [req EXCEPT ![r] = Idle]
    /\ UNCHANGED <<vars, static, boot, known, saved, cycle>>

-----------------------------------------------------------------------------

Quietly(A) == A /\ reply' = NoReply

Startups == Quietly(Begin \/ Prepare \/ Serve)
Reloads  == Quietly(Reload /\ UNCHANGED <<static, boot, known, saved, cycle, req>>)
Outside  ==
    \/ Quietly(/\ ExternalEdit \/ ExternalDelete \/ LoseEvent
               /\ UNCHANGED <<static, boot, known, saved, cycle, req>>)
    \/ \E names \in SUBSET Pkg : Quietly(ReloadConfig(names))

Poll ==
    Quietly(Tick \/ ListCycle \/ EndCycle
            \/ \E p \in Pkg : CheckNothing(p) \/ CheckRecords(p))

Request(r) ==
    \/ ListPackages(r)
    \/ \E p \in Pkg : GetPackage(r, p) \/ AddPackage(r, p) \/ RemovePackage(r, p)

Handler(r) == ReadInfo(r) \/ Answer(r)

ApiNext ==
    \/ Startups \/ Quietly(Down)
    \/ Reloads \/ Outside
    \/ Poll
    \/ \E r \in Conn : Request(r) \/ Handler(r)

ApiSpec == ApiInit /\ [][ApiNext]_allVars

(***************************************************************************)
(* The service is started again after a stop (README.md:570), the ticker   *)
(* goes on, the loader is scheduled.  No request need come or be answered. *)
(***************************************************************************)
FairApiSpec ==
    /\ ApiSpec
    /\ WF_allVars(Startups)
    /\ WF_allVars(Reloads)
    /\ WF_allVars(Poll)

-----------------------------------------------------------------------------
(* Properties *)

(***************************************************************************)
(* What a handler has read, and what the last step has sent, lies between  *)
(* the versions recorded when its request came and those recorded now.     *)
(***************************************************************************)
Shows(floor, info) ==
    /\ floor \in [Pkg -> Nat]
    /\ DOMAIN info \subseteq Pkg
    /\ \A p \in Pkg : floor[p] <= known[p]
    /\ \A p \in DOMAIN info : /\ info[p] \in Nat
                              /\ floor[p] <= info[p] /\ info[p] <= known[p]

FreshInv ==
    /\ known \in [Pkg -> Nat] /\ saved \in [Pkg -> Nat]
    /\ DOMAIN req = Conn
    /\ \A r \in Conn : /\ req[r].todo \subseteq Pkg
                       /\ req[r].status # 0 => Shows(req[r].floor, req[r].info)
                       /\ req[r].status = 0 \/ pc # "running" => req[r] = Idle
    /\ \/ DOMAIN reply.info = {}
       \/ Shows(reply.floor, reply.info)

(***************************************************************************)
(* The inductive invariant of the service: the list is in the state its    *)
(* own invariant asks for; no poll and no request outlives the process,    *)
(* hence the store it read; a request under way holds only versions that   *)
(* are between those of its arrival and those of now; what the store's     *)
(* file has, its memory has too.                                           *)
(***************************************************************************)
ApiInv == Inv /\ BootOK /\ LoopOK /\ RequestTypes /\ FreshInv

(***************************************************************************)
(* An answer shows, for every package, a version recorded while the        *)
(* request was served: none older than what was recorded when it came,     *)
(* although the flush of the store may have failed, and none that was      *)
(* never recorded.                                                         *)
(***************************************************************************)
AnswersFresh ==
    \A p \in DOMAIN reply.info :
        reply.floor[p] <= reply.info[p] /\ reply.info[p] <= known[p]

(***************************************************************************)
(* A request answered with an error has changed nothing: neither the list, *)
(* nor packages.json, nor the versions, a flush that failed included.      *)
(***************************************************************************)
RefusedChangesNothing ==
    [][reply'.status >= 400 => UNCHANGED <<set, file, events, known, saved>>]_allVars

(***************************************************************************)
(* "Both sources are always combined for polling" (README.md:417): a       *)
(* package that stays in config.yaml or in the list is checked for ever,   *)
(* one that stays out of both is not checked any more.                     *)
(***************************************************************************)
PolledIffTracked ==
    \A p \in Pkg :
        /\ <>[](pc = "running" /\ p \in static \cup set)
             => []<>(p \in cycle.todo) /\ []<>(p \notin cycle.todo)
        /\ <>[](p \notin static \cup set) => <>[](p \notin cycle.todo)
=============================================================================
