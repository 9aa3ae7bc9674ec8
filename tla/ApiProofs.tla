----------------------------- MODULE ApiProofs -----------------------------
(***************************************************************************)
(* Proofs about Api, for any number of connections, packages and versions: *)
(* the package list stays in sync under the composed service, and answers  *)
(* are fresh.                                                              *)
(***************************************************************************)
EXTENDS Api, PackagesProofs

(* The startup works with a list of packages. *)
LEMMA BootStep == BootOK /\ [ApiNext]_allVars => BootOK'
<1> SUFFICES ASSUME BootOK, [ApiNext]_allVars
             PROVE  BootOK'
    OBVIOUS
<1> USE DEF BootOK, Quietly
<1>1. CASE Startups \/ Quietly(Down) \/ Reloads \/ Outside
  BY <1>1 DEF Startups, Begin, Prepare, Serve, Down, Reloads, Outside,
              ReloadConfig
<1>2. CASE Poll
  BY <1>2 DEF Poll, Tick, ListCycle, EndCycle, CheckNothing, CheckRecords
<1>3. ASSUME NEW r \in Conn, Request(r) \/ Handler(r)
      PROVE  BootOK'
  BY <1>3 DEF Request, Handler, ListPackages, GetPackage, AddPackage,
              RemovePackage, ReadInfo, Answer, LookUp, Done
<1>4. CASE UNCHANGED allVars
  BY <1>4 DEF allVars, apiVars
<1> QED
  BY <1>1, <1>2, <1>3, <1>4 DEF ApiNext

(* What the requests, the poll loop and config.yaml do to the list is what *)
(* the manager can do.                                                     *)
LEMMA ApiStepIsManagerStep ==
    BootOK /\ [ApiNext]_allVars => [AnyNext]_vars
<1> SUFFICES ASSUME BootOK, [ApiNext]_allVars
             PROVE  AnyNext \/ UNCHANGED vars
    OBVIOUS
<1> USE DEF AnyNext, Quietly
<1>1. CASE Startups
  BY <1>1 DEF Startups, Begin, Prepare, Serve, BootOK, Next, Startup
<1>2. CASE Quietly(Down)
  BY <1>2 DEF Down, Next
<1>3. CASE Reloads
  BY <1>3 DEF Reloads, Next
<1>4. CASE Outside
  BY <1>4 DEF Outside, ReloadConfig, Spent, Next
<1>5. CASE Poll
  <2>1. ASSUME NEW p \in Pkg, CheckRecords(p)
        PROVE  Spent
    BY <2>1 DEF CheckRecords, Spent
  <2>2. ASSUME NEW p \in Pkg, CheckNothing(p)
        PROVE  UNCHANGED vars
    BY <2>2 DEF CheckNothing
  <2>3. CASE Tick \/ ListCycle \/ EndCycle
    BY <2>3 DEF Tick, ListCycle, EndCycle
  <2> QED
    BY <1>5, <2>1, <2>2, <2>3 DEF Poll
<1>6. ASSUME NEW r \in Conn, Request(r)
      PROVE  AnyNext \/ UNCHANGED vars
  BY <1>6 DEF Request, ListPackages, GetPackage, AddPackage, RemovePackage, Next
<1>7. ASSUME NEW r \in Conn, Handler(r)
      PROVE  UNCHANGED vars
  BY <1>7 DEF Handler, ReadInfo, Answer
<1>8. CASE UNCHANGED allVars
  BY <1>8 DEF allVars
<1> QED
  BY <1>1, <1>2, <1>3, <1>4, <1>5, <1>6, <1>7, <1>8 DEF ApiNext

(* The invariant of the manager holds in the composition. *)
LEMMA ListInvariance == ApiSpec => [](Inv /\ BootOK)
<1>1. ApiInit => Inv /\ BootOK
  BY InitInv, PackagesAssumption DEF ApiInit, BootOK
<1>2. Inv /\ BootOK /\ [ApiNext]_allVars => Inv' /\ BootOK'
  BY BootStep, ApiStepIsManagerStep, InvStep
<1> QED
  BY <1>1, <1>2, PTL DEF ApiSpec

(***************************************************************************)
(* Memory and packages.json agree in the whole service too, whatever the   *)
(* requests, the reloads of config.yaml and the polls do to them.          *)
(***************************************************************************)
THEOREM ServiceInSync == ApiSpec => []InSync
<1>1. Inv => InSync
  BY DEF Inv
<1> QED
  BY <1>1, ListInvariance, PTL

-----------------------------------------------------------------------------
(* An idle connection and an empty answer show no version. *)
LEMMA EmptyAnswers ==
    /\ Idle.status = 0 /\ Idle.todo = {} /\ DOMAIN Idle.info = {}
    /\ DOMAIN NoReply.info = {}
BY DEF Idle, NoReply

(* A request goes on to look up names of the list, or ends here. *)
LooksUp(r) == \E names \in SUBSET Pkg, status \in {200, 201} : LookUp(r, status, names)
Ends == \E status \in {204, 404, 409} : Done(status)

LEMMA RequestServed ==
    ASSUME set \in SUBSET Pkg, NEW r \in Conn, Request(r)
    PROVE  pc = "running" /\ pc' = pc /\ (LooksUp(r) \/ Ends)
<1>1. CASE ListPackages(r)
  BY <1>1 DEF ListPackages, Arrives, vars, LooksUp
<1>2. ASSUME NEW p \in Pkg, GetPackage(r, p) \/ AddPackage(r, p) \/ RemovePackage(r, p)
      PROVE  pc = "running" /\ pc' = pc /\ (LooksUp(r) \/ Ends)
  <2>1. {p} \in SUBSET Pkg
    OBVIOUS
  <2>2. CASE GetPackage(r, p)
    BY <2>1, <2>2 DEF GetPackage, Arrives, vars, LooksUp, Ends
  <2>3. CASE AddPackage(r, p)
    BY <2>1, <2>3 DEF AddPackage, Arrives, Add, FlushFails, vars, LooksUp, Ends
  <2>4. CASE RemovePackage(r, p)
    BY <2>4 DEF RemovePackage, Arrives, Remove, FlushFails, vars, Ends
  <2> QED
    BY <1>2, <2>2, <2>3, <2>4
<1> QED
  BY <1>1, <1>2 DEF Request

(* The versions recorded only grow while requests are served. *)
LEMMA GrownShows ==
    ASSUME NEW floor, NEW info, Shows(floor, info),
           known \in [Pkg -> Nat], known' \in [Pkg -> Nat],
           \A p \in Pkg : known[p] <= known'[p]
    PROVE  Shows(floor, info)'
<1>1. ASSUME NEW p \in Pkg, NEW n \in Nat, n <= known[p]
      PROVE  n <= known'[p]
  BY <1>1
<1> QED
  BY <1>1 DEF Shows

(* Nothing is said of a step that leaves the versions and answers alone.   *)
LEMMA QuietFresh ==
    ASSUME FreshInv, UNCHANGED <<known, saved, req>>,
           reply' = NoReply \/ UNCHANGED reply, pc' = "running" \/ pc' = pc
    PROVE  FreshInv'
<1>1. \A floor, info : Shows(floor, info) => Shows(floor, info)'
  BY DEF Shows
<1>2. pc' # "running" => pc # "running"
  OBVIOUS
<1>3. ASSUME NEW r \in Conn
      PROVE  /\ req'[r].todo \subseteq Pkg
             /\ req'[r].status # 0 => Shows(req[r].floor, req[r].info)'
             /\ req'[r].status = 0 \/ pc' # "running" => req'[r] = Idle
  BY <1>1, <1>2 DEF FreshInv
<1>4. DOMAIN reply'.info = {} \/ Shows(reply.floor, reply.info)'
  BY <1>1, EmptyAnswers DEF FreshInv
<1> QED
  BY <1>3, <1>4 DEF FreshInv

LEMMA InitFresh == ApiInit => FreshInv
<1> SUFFICES ASSUME ApiInit
             PROVE  FreshInv
    OBVIOUS
<1>1. /\ known = [p \in Pkg |-> 0] /\ saved = [p \in Pkg |-> 0]
      /\ req = [r \in Conn |-> Idle] /\ reply = NoReply
  BY DEF ApiInit
<1> QED
  BY <1>1, EmptyAnswers DEF FreshInv

(* Every step leaves answers fresh. *)
LEMMA FreshStep == Inv /\ FreshInv /\ [ApiNext]_allVars => FreshInv'
<1> SUFFICES ASSUME set \in SUBSET Pkg, FreshInv, [ApiNext]_allVars
             PROVE  FreshInv'
    BY DEF Inv, TypeOK
<1> USE DEF Quietly
<1>0. \A n \in Nat : 0 <= n /\ n <= n
  OBVIOUS
<1>1. CASE Quietly(Begin)
  <2>1. \A r \in Conn : req'[r] = Idle
    BY <1>1 DEF Begin, New, FreshInv
  <2>2. /\ known' = saved /\ saved' = saved /\ reply' = NoReply
        /\ DOMAIN req' = Conn
    BY <1>1 DEF Begin, FreshInv
  <2> QED
    BY <2>1, <2>2, EmptyAnswers DEF FreshInv
<1>2. CASE Quietly(Prepare \/ Serve)
  <2>1. /\ UNCHANGED <<known, saved, req>> /\ reply' = NoReply
        /\ pc' = "running" \/ (pc # "running" /\ pc' # "running")
    BY <1>2 DEF Prepare, Serve, Watch, SeedFrom
  <2>2. \A floor, info : Shows(floor, info) => Shows(floor, info)'
    BY <2>1 DEF Shows
  <2> QED
    BY <2>1, <2>2, EmptyAnswers DEF FreshInv
<1>3. CASE Quietly(Down)
  <2>1. /\ known' = [p \in Pkg |-> 0] /\ saved' = saved /\ reply' = NoReply
        /\ req' = [r \in Conn |-> Idle]
    BY <1>3 DEF Down
  <2> QED
    BY <2>1, EmptyAnswers DEF FreshInv
<1>4. CASE Reloads \/ Outside
  <2>1. UNCHANGED <<known, saved, req>> /\ reply' = NoReply /\ pc' = pc
    BY <1>4 DEF Reloads, Outside, Reload, TakeEvent, ReadFile, ReadFails, Apply,
                ExternalEdit, ExternalDelete, LoseEvent, ReloadConfig
  <2> QED
    BY <2>1, QuietFresh
<1>5. CASE Quietly(Tick \/ ListCycle \/ EndCycle \/ \E p \in Pkg : CheckNothing(p))
  <2>1. UNCHANGED <<known, saved, req>> /\ reply' = NoReply /\ pc' = pc
    BY <1>5 DEF Tick, ListCycle, EndCycle, CheckNothing, vars
  <2> QED
    BY <2>1, QuietFresh
<1>6. ASSUME NEW p \in Pkg, Quietly(CheckRecords(p))
      PROVE  FreshInv'
  <2>1. PICK c \in Versions : c > known[p] /\ known' = [known EXCEPT ![p] = c]
    BY <1>6 DEF CheckRecords
  <2>2. /\ req' = req /\ pc' = pc /\ reply' = NoReply
        /\ saved' = known' \/ saved' = saved
    BY <1>6 DEF CheckRecords
  <2>3. /\ known \in [Pkg -> Nat] /\ known' \in [Pkg -> Nat]
        /\ \A q \in Pkg : known[q] <= known'[q]
    BY <2>1, ApiAssumption DEF Versions, FreshInv
  <2>4. \A floor, info : Shows(floor, info) => Shows(floor, info)'
    BY <2>3, GrownShows
  <2> QED
    BY <2>2, <2>3, <2>4, EmptyAnswers DEF FreshInv
<1>7. ASSUME NEW r \in Conn, Request(r)
      PROVE  FreshInv'
  <2>0. pc = "running" /\ pc' = pc /\ (LooksUp(r) \/ Ends)
    BY <1>7, RequestServed
  <2>1. /\ UNCHANGED <<known, saved>> /\ pc = "running" /\ pc' = pc
        /\ DOMAIN reply'.info = {}
    <3>1. CASE LooksUp(r)
      BY <2>0, <3>1, EmptyAnswers DEF LooksUp, LookUp
    <3>2. CASE Ends
      <4>1. \A status : DOMAIN [NoReply EXCEPT !.status = status].info = {}
        BY DEF NoReply
      <4> QED
        BY <2>0, <3>2, <4>1 DEF Ends, Done
    <3> QED
      BY <2>0, <3>1, <3>2
  <2>2. CASE req' = req
    <3>1. \A floor, info : Shows(floor, info) => Shows(floor, info)'
      BY <2>1 DEF Shows
    <3> QED
      BY <2>1, <2>2, <3>1 DEF FreshInv
  <2>3. ASSUME NEW names \in SUBSET Pkg, NEW status \in {200, 201},
               LookUp(r, status, names)
        PROVE  FreshInv'
    <3>1. PICK new : /\ new.status = status /\ new.todo = names
                     /\ new.floor = known /\ DOMAIN new.info = {}
                     /\ req' = [req EXCEPT ![r] = new]
      <4> DEFINE asked == [Idle EXCEPT !.status = status, !.todo = names,
                                       !.floor = known]
      <4>1. /\ asked.status = status /\ asked.todo = names
            /\ asked.floor = known /\ DOMAIN asked.info = {}
        BY DEF Idle
      <4>2. req' = [req EXCEPT ![r] = asked]
        BY <2>3 DEF LookUp
      <4> HIDE DEF asked
      <4> QED
        BY <4>1, <4>2
    <3>2. req' = [req EXCEPT ![r] = new]
      BY <3>1
    <3>3. \A floor, info : Shows(floor, info) => Shows(floor, info)'
      BY <2>1 DEF Shows
    <3>4. Shows(new.floor, new.info)'
      <4>1. known \in [Pkg -> Nat] /\ known' = known
        BY <2>1 DEF FreshInv
      <4>2. \A p \in Pkg : known[p] <= known[p]
        BY <1>0, <4>1
      <4> QED
        BY <3>1, <4>1, <4>2 DEF Shows
    <3>5. ASSUME NEW s \in Conn
          PROVE  /\ req'[s].todo \subseteq Pkg
                 /\ req'[s].status # 0 => Shows(req[s].floor, req[s].info)'
                 /\ req'[s].status = 0 \/ pc' # "running" => req'[s] = Idle
      BY <2>1, <3>1, <3>2, <3>3, <3>4 DEF FreshInv
    <3>6. DOMAIN req' = Conn
      BY <3>2 DEF FreshInv
    <3> QED
      BY <2>1, <3>5, <3>6 DEF FreshInv
  <2>4. Ends => req' = req
    BY DEF Ends, Done
  <2> QED
    BY <2>0, <2>2, <2>3, <2>4 DEF LooksUp
<1>8. ASSUME NEW r \in Conn, ReadInfo(r)
      PROVE  FreshInv'
  <2>1. PICK p \in req[r].todo :
          req' = [req EXCEPT
                    ![r].todo = @ \ {p},
                    ![r].info = [q \in DOMAIN @ \cup {p} |->
                                   IF q = p THEN PackageInfo(p) ELSE @[q]]]
    BY <1>8 DEF ReadInfo
  <2>2. UNCHANGED <<known, saved>> /\ pc' = pc /\ reply' = NoReply
    BY <1>8 DEF ReadInfo, vars
  <2>3. /\ p \in Pkg /\ req[r].status # 0 /\ Shows(req[r].floor, req[r].info)
        /\ pc = "running"
    BY <2>1, EmptyAnswers DEF FreshInv
  <2>4. PICK info :
          /\ info = [q \in DOMAIN req[r].info \cup {p} |->
                       IF q = p THEN known[p] ELSE req[r].info[q]]
          /\ req' = [req EXCEPT ![r].todo = @ \ {p}, ![r].info = info]
    BY <2>1 DEF PackageInfo
  <2>5. Shows(req[r].floor, info)
    <3>1. known[p] \in Nat /\ known[p] <= known[p]
      BY <1>0, <2>3 DEF FreshInv
    <3> QED
      BY <2>3, <2>4, <3>1 DEF Shows
  <2>6. \A floor, i : Shows(floor, i) => Shows(floor, i)'
    BY <2>2 DEF Shows
  <2>7. PICK floor : floor = req[r].floor
    OBVIOUS
  <2>8. ASSUME NEW s \in Conn
        PROVE  /\ req'[s].todo \subseteq Pkg
               /\ req'[s].status # 0 => Shows(req[s].floor, req[s].info)'
               /\ req'[s].status = 0 \/ pc' # "running" => req'[s] = Idle
    <3>1. CASE s = r
      BY <2>2, <2>3, <2>4, <2>5, <2>6, <2>7, <3>1 DEF FreshInv
    <3>2. CASE s # r
      BY <2>2, <2>4, <2>6, <3>2 DEF FreshInv
    <3> QED
      BY <3>1, <3>2
  <2>9. DOMAIN req' = Conn
    BY <2>4 DEF FreshInv
  <2> QED
    BY <2>2, <2>8, <2>9, EmptyAnswers DEF FreshInv
<1>9. ASSUME NEW r \in Conn, Answer(r)
      PROVE  FreshInv'
  <2>1. /\ UNCHANGED <<known, saved>> /\ pc' = pc
        /\ req' = [req EXCEPT ![r] = Idle]
        /\ reply'.info = req[r].info /\ reply'.floor = req[r].floor
    BY <1>9 DEF Answer, vars
  <2>2. \A floor, i : Shows(floor, i) => Shows(floor, i)'
    BY <2>1 DEF Shows
  <2>3. Shows(req[r].floor, req[r].info)
    BY <1>9 DEF Answer, FreshInv
  <2>4. PICK floor, info :
          /\ floor = req[r].floor /\ info = req[r].info
          /\ Shows(floor, info)'
    BY <2>2, <2>3
  <2>5. Shows(reply.floor, reply.info)'
    BY <2>1, <2>4
  <2>6. ASSUME NEW s \in Conn
        PROVE  /\ req'[s].todo \subseteq Pkg
               /\ req'[s].status # 0 => Shows(req[s].floor, req[s].info)'
               /\ req'[s].status = 0 \/ pc' # "running" => req'[s] = Idle
    BY <2>1, <2>2, EmptyAnswers DEF FreshInv
  <2> QED
    BY <2>1, <2>5, <2>6 DEF FreshInv
<1>10. CASE UNCHANGED allVars
  <2>1. UNCHANGED <<known, saved, req, reply, pc>>
    BY <1>10 DEF allVars, apiVars, vars
  <2> QED
    BY <2>1, QuietFresh
<1> QED
  BY <1>1, <1>2, <1>3, <1>4, <1>5, <1>6, <1>7, <1>8, <1>9, <1>10
     DEF ApiNext, Startups, Poll, Handler

(***************************************************************************)
(* No answer shows a version older than what was recorded when its request *)
(* came, nor one that was never recorded, however requests, polls, failed  *)
(* flushes and restarts interleave.                                        *)
(***************************************************************************)
THEOREM Freshness == ApiSpec => []AnswersFresh
<1>1. FreshInv => AnswersFresh
  BY DEF FreshInv, Shows, AnswersFresh
<1> QED
  BY <1>1, InitFresh, FreshStep, ListInvariance, PTL DEF ApiSpec

-----------------------------------------------------------------------------
(* What the poll loop takes is tracked somewhere, what it records is a     *)
(* code newer than the last, and it does neither without a service.        *)
LEMMA LoopStep ==
    Inv /\ BootOK /\ LoopOK /\ [ApiNext]_allVars => LoopOK'
<1> SUFFICES ASSUME set \in SUBSET Pkg, BootOK, LoopOK, [ApiNext]_allVars
             PROVE  LoopOK'
    BY DEF Inv, TypeOK
<1> USE DEF LoopOK, BootOK, Quietly
<1>0. /\ 0 \in Versions /\ Versions \subseteq Nat
      /\ AtRest \in [phase : {"wait", "list", "poll"},
                     static : SUBSET Pkg, todo : SUBSET Pkg]
      /\ AtRest.phase = "wait" /\ AtRest.todo = {}
  BY ApiAssumption DEF Versions, AtRest
<1>1. CASE Quietly(Begin)
  <2>1. ASSUME NEW p \in Pkg
        PROVE  saved[p] <= saved[p]
    <3>1. saved[p] \in Nat
      BY <1>0
    <3> QED
      BY <3>1
  <2>2. /\ known' = saved /\ saved' = saved /\ cycle' = cycle
        /\ pc = "down" /\ pc' # "running"
    BY <1>1 DEF Begin, New
  <2> QED
    BY <2>1, <2>2
<1>2. CASE Quietly(Prepare \/ Serve)
  BY <1>2 DEF Prepare, Serve, Watch, SeedFrom
<1>3. CASE Quietly(Down)
  BY <1>0, <1>3 DEF Down, Crash
<1>4. CASE Reloads \/ Outside
  BY <1>4 DEF Reloads, Outside, ReloadConfig, Reload, TakeEvent, ReadFile,
              ReadFails, Apply, ExternalEdit, ExternalDelete, LoseEvent
<1>5. CASE Tick
  <2>1. /\ UNCHANGED <<known, saved, pc>> /\ pc = "running"
        /\ cycle' = [AtRest EXCEPT !.phase = "list", !.static = static]
    BY <1>5 DEF Tick, vars
  <2> QED
    BY <2>1 DEF AtRest
<1>6. CASE ListCycle \/ EndCycle
  BY <1>0, <1>6 DEF ListCycle, EndCycle, EffectivePackages, vars
<1>7. ASSUME NEW p \in Pkg, CheckNothing(p)
      PROVE  LoopOK'
  <2>1. pc = "running"
    BY <1>0, <1>7 DEF CheckNothing
  <2> QED
    BY <1>7, <2>1 DEF CheckNothing, vars
<1>8. ASSUME NEW p \in Pkg, CheckRecords(p)
      PROVE  LoopOK'
  <2>1. pc = "running" /\ pc' = pc
    BY <1>0, <1>8 DEF CheckRecords
  <2>2. PICK c \in Versions : c > known[p] /\ known' = [known EXCEPT ![p] = c]
    BY <1>8 DEF CheckRecords
  <2>3. known' \in [Pkg -> Versions] /\ \A q \in Pkg : known[q] <= known'[q]
    <3>1. known' \in [Pkg -> Versions]
      BY <2>2
    <3>2. ASSUME NEW q \in Pkg
          PROVE  known[q] <= known'[q]
      <4>1. known[q] \in Nat /\ c \in Nat
        BY <1>0
      <4>2. known'[q] = IF q = p THEN c ELSE known[q]
        BY <2>2
      <4> QED
        BY <2>2, <4>1, <4>2
    <3> QED
      BY <3>1, <3>2
  <2>4. /\ saved' \in [Pkg -> Versions]
        /\ \A q \in Pkg : saved'[q] <= known'[q]
    <3>1. CASE saved' = known'
      <4>1. \A q \in Pkg : known'[q] \in Nat
        BY <1>0, <2>3
      <4>2. \A q \in Pkg : known'[q] <= known'[q]
        BY <4>1
      <4> QED
        BY <2>3, <3>1, <4>2
    <3>2. CASE saved' = saved
      <4>1. ASSUME NEW q \in Pkg
            PROVE  saved[q] <= known'[q]
        <5>1. saved[q] \in Nat /\ known[q] \in Nat /\ known'[q] \in Nat
          BY <1>0, <2>3
        <5>2. saved[q] <= known[q] /\ known[q] <= known'[q]
          BY <2>1, <2>3
        <5> QED
          BY <5>1, <5>2
      <4> QED
        BY <3>2, <4>1
    <3> QED
      BY <1>8, <3>1, <3>2 DEF CheckRecords
  <2>5. cycle' \in [phase : {"wait", "list", "poll"}, static : SUBSET Pkg,
                    todo : SUBSET Pkg]
    BY <1>8 DEF CheckRecords
  <2> QED
    BY <2>1, <2>3, <2>4, <2>5
<1>9. ASSUME NEW r \in Conn, Request(r) \/ Handler(r)
      PROVE  LoopOK'
  <2>1. UNCHANGED <<known, saved, cycle, pc>>
    BY <1>9 DEF Request, Handler, ListPackages, GetPackage, AddPackage, Add,
                Remove, FlushFails, RemovePackage, ReadInfo, Answer, LookUp,
                Done, vars
  <2> QED
    BY <2>1
<1>10. CASE UNCHANGED allVars
  BY <1>10 DEF allVars, apiVars, vars
<1> QED
  BY <1>1, <1>2, <1>3, <1>4, <1>5, <1>6, <1>7, <1>8, <1>9, <1>10
     DEF ApiNext, Startups, Poll

(* A request is served for packages of the list, and answered as routed. *)
LEMMA RequestTypesStep ==
    Inv /\ FreshInv /\ RequestTypes /\ [ApiNext]_allVars => RequestTypes'
<1> SUFFICES ASSUME set \in SUBSET Pkg, DOMAIN req = Conn, RequestTypes,
                    [ApiNext]_allVars
             PROVE  RequestTypes'
    BY DEF Inv, TypeOK, FreshInv
<1> USE DEF RequestTypes
<1>0. /\ Idle.status = 0 /\ Idle.todo = {} /\ DOMAIN Idle.info = {}
      /\ NoReply.status = 0
  BY DEF Idle, NoReply
<1>1. CASE Startups \/ Reloads \/ Outside \/ Poll
  BY <1>0, <1>1 DEF Startups, Begin, Prepare, Serve, Reloads, Outside, ReloadConfig,
                    Poll, Tick, ListCycle, EndCycle, CheckNothing, CheckRecords,
                    Quietly
<1>2. CASE Quietly(Down)
  BY <1>0, <1>2 DEF Down, Quietly
<1>3. ASSUME NEW r \in Conn, NEW names \in SUBSET Pkg, NEW status \in {200, 201},
             LookUp(r, status, names)
      PROVE  RequestTypes'
  <2> DEFINE asked == [Idle EXCEPT !.status = status, !.todo = names, !.floor = known]
  <2>1. asked.status = status /\ asked.todo = names /\ DOMAIN asked.info = {}
    BY DEF Idle
  <2>2. req' = [req EXCEPT ![r] = asked] /\ reply' = NoReply
    BY <1>3 DEF LookUp
  <2> HIDE DEF asked
  <2> QED
    BY <1>0, <2>1, <2>2
<1>4. ASSUME NEW status \in {204, 404, 409}, Done(status)
      PROVE  RequestTypes'
  BY <1>4 DEF Done, NoReply
<1>5. ASSUME NEW r \in Conn, Request(r)
      PROVE  RequestTypes'
  BY <1>3, <1>4, <1>5, RequestServed DEF LooksUp, Ends
<1>6. ASSUME NEW r \in Conn, ReadInfo(r)
      PROVE  RequestTypes'
  BY <1>0, <1>6 DEF ReadInfo
<1>7. ASSUME NEW r \in Conn, Answer(r)
      PROVE  RequestTypes'
  BY <1>0, <1>7 DEF Answer
<1>8. CASE UNCHANGED allVars
  BY <1>8 DEF allVars, apiVars
<1> QED
  BY <1>1, <1>2, <1>5, <1>6, <1>7, <1>8 DEF ApiNext, Handler

(***************************************************************************)
(* The inductive invariant of the composed service, for any number of      *)
(* connections and packages: no poll and no request outlives the process,  *)
(* what a handler has read is between the versions of its arrival and      *)
(* those of now, the store is never behind its file, and the list keeps    *)
(* its own invariant.                                                      *)
(***************************************************************************)
THEOREM ServiceInvariance == ApiSpec => []ApiInv
<1>1. ApiInit => LoopOK /\ RequestTypes
  <2> SUFFICES ASSUME ApiInit
               PROVE  LoopOK /\ RequestTypes
      OBVIOUS
  <2>1. 0 \in Versions /\ pc = "down"
    BY ApiAssumption DEF Versions, ApiInit, Init
  <2>2. LoopOK
    BY <2>1 DEF ApiInit, LoopOK, AtRest
  <2>3. RequestTypes
    BY DEF ApiInit, RequestTypes, Idle, NoReply
  <2> QED
    BY <2>2, <2>3
<1> QED
  BY <1>1, LoopStep, RequestTypesStep, InitFresh, FreshStep, ListInvariance, PTL
     DEF ApiSpec, ApiInv

-----------------------------------------------------------------------------
(* Only an answer has a status, and only a refusal one from 400 on. *)
LEMMA RefusalStep ==
    [ApiNext]_allVars =>
        (reply'.status >= 400 => UNCHANGED <<set, file, events, known, saved>>)
<1> SUFFICES ASSUME [ApiNext]_allVars, reply'.status >= 400
             PROVE  UNCHANGED <<set, file, events, known, saved>>
    OBVIOUS
<1>1. NoReply.status = 0 /\ reply' # NoReply
  <2>1. NoReply.status = 0 /\ ~(0 >= 400)
    BY DEF NoReply
  <2> QED
    BY <2>1
<1>2. CASE UNCHANGED allVars
  BY <1>2 DEF allVars, apiVars, vars
<1>3. ASSUME NEW r \in Conn, Handler(r)
      PROVE  UNCHANGED <<set, file, events, known, saved>>
  BY <1>1, <1>3 DEF Handler, ReadInfo, Answer, vars
<1>4. ASSUME NEW r \in Conn, NEW p \in Pkg, GetPackage(r, p)
      PROVE  UNCHANGED <<set, file, events, known, saved>>
  BY <1>1, <1>4 DEF GetPackage, LookUp, Done, vars
<1>5. ASSUME NEW r \in Conn, NEW p \in Pkg, AddPackage(r, p)
      PROVE  UNCHANGED <<set, file, events, known, saved>>
  BY <1>1, <1>5 DEF AddPackage, LookUp, Done, FlushFails, vars
<1>6. ASSUME NEW r \in Conn, NEW p \in Pkg, RemovePackage(r, p)
      PROVE  UNCHANGED <<set, file, events, known, saved>>
  <2>1. ~Done(204)
    <3>1. [NoReply EXCEPT !.status = 204].status = 204 /\ ~(204 >= 400)
      BY DEF NoReply
    <3> QED
      BY <3>1 DEF Done
  <2> QED
    BY <1>6, <2>1 DEF RemovePackage, Done, FlushFails, vars
<1>7. ASSUME NEW r \in Conn, ListPackages(r)
      PROVE  FALSE
  BY <1>1, <1>7 DEF ListPackages, LookUp
<1>8. CASE Startups \/ Quietly(Down) \/ Reloads \/ Outside \/ Poll
  BY <1>1, <1>8 DEF Startups, Reloads, Outside, Poll, Quietly
<1> QED
  BY <1>2, <1>3, <1>4, <1>5, <1>6, <1>7, <1>8 DEF ApiNext, Request

(***************************************************************************)
(* An error answer has changed nothing, whatever failed behind it.         *)
(***************************************************************************)
THEOREM RefusalsAreHarmless == ApiSpec => RefusedChangesNothing
BY RefusalStep, PTL DEF ApiSpec, RefusedChangesNothing
=============================================================================
