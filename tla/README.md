# Formal model of play-apk-distributor

play-apk-distributor watches the Android emulators of a host, pulls the APKs of
tracked packages when the Play Store has updated them, and publishes them in an
output directory. This directory holds TLA+ modules that model the service, TLC
configurations that check small instances of it, and TLAPS proofs of its main
safety properties for instances of any size.

Paths such as `extractor.go:101` are files of the repository (`src/`).

## 1. The system

| Component | State it keeps | Operations | What makes it correct |
|---|---|---|---|
| `watcher` | client list, one poll goroutine, one query goroutine per client | `Run`, `poll`, `checkPackage`, `syncClients` | extracts only agreed, newer versions; records after extracting; catches up after failures |
| `extractor` | nothing in memory between calls; artifacts, sidecars, `latest.json`, `*.tmp`, `.tmp/extract-*` on disk | `Extract`: pull, bundle, checksum, `latest.json`, prune, sink | a reader finds whole and consistent files at every moment; the newest versions survive |
| `signing` | – | `verifyAPKSignature` | an APK with another certificate is never published |
| `store` | map package → version, and `state/store.json` | `Open`, `GetLastKnown`, `SetLastKnown` | what it holds has been extracted; survives restarts |
| `packages` | set of names, and `packages.json`; reload goroutine | `New`, `Watch`, `Seed`, `Add`, `Remove`, `List`, `Has` | memory and file agree; edits are picked up; acknowledged changes stay |
| `config` | snapshot of `config.yaml`; reload goroutine, a goroutine per handler and reload | `Load`, `Get`, `OnChange`, `Watch` | the clients and settings in use are those of the file |
| `adb` | the adb server's connections (outside the process) | `Device`: `IsConnected`, `Reconnect`, `GetInstalledVersion`, `PullAPKPaths`, `PullFile` | answers are about the right emulator and package |
| `api` | – | list, add, get, remove packages; health; authentication | answers match what was done |
| `sink` | – | `OnArtifact`; `Noop`, `Fanout` | called once per extraction, before the version is recorded |
| `main` | – | startup in order, shutdown on a signal | each component sees the state the previous one left |

How they interact: `main` reads the configuration, cleans `.tmp`, opens the
store and the packages, connects the emulators and runs the watcher. The watcher
goroutine calls `Device` methods from query goroutines, reads the store, calls
`Extract`, which calls `Device` and the sink, and then writes the store. The API
changes `packages`, which the watcher reads at every poll. `packages` and
`config` have reload goroutines driven by fsnotify; `config` hands snapshots to
handlers, each in a goroutine of its own, and `watcher.syncClients` is one.

What is hard about it:

* the Play Store of each emulator updates packages at any moment, between the
  version query and the pull in particular;
* emulators go offline and come back between any two calls;
* the process may be killed between any two file operations, and every file
  operation may fail;
* the reload goroutines apply what they read after the world has moved on, and
  the handlers they start run in any order;
* requests are served while the poll loop writes the store and reloads change
  the package list.

`PROJECT.json` lists these as hazards, each at its line, with the properties
that are about it.

## 2. The modules

```
Emulators <- Store <- Extractor <- Watcher <- WatcherClaims <- MCWatcher
                                      ^            ^   |
                                      |            |   +-- INSTANCE Publication
                                WatcherProofs <-+- PublicationProofs
                                                +- LatestProofs
Packages <- MCPackages      Config <- MCConfig      Decisions <- MCDecisions
   ^   ^                       ^                        ^
   |   +-- PackagesProofs   ConfigProofs          DecisionsProofs
   |              ^
  Api <- MCApi    |
   ^              |
   +-- ApiProofs -+
```

An arrow points to the module that is extended. The watcher, the extractor, the
store and the emulators share state and run in one goroutine (plus the query
goroutines), so their modules extend each other and `Watcher!Next` is the
composition. `Publication` is what this composition promises to the outside, and
`Watcher` implements it. `Packages` runs concurrently with the poll loop and
shares with it nothing but the list read at each poll; `Api` composes the two,
with the requests, the store and the configuration, and abstracts one check of a
package to what it records. `Config` is the configuration with what hangs on its
snapshots. `Decisions` holds the functions without state.

### Emulators

`installed[e][p]` is the version code the Play Store of `e` has installed (0 for
none), `up` the emulators that run, `attached` those that `adb devices` lists.
The operators have the names of the `Device` methods and give what these answer
in a state. `PlayUpdate`, `Detach`, `Halt` and `Boot` are the emulators' own
steps, which the code does not see. `Layout[e][c]` is the set of base names that
`pm path` lists for version `c` on `e`.

Every failure of the environment or of an I/O call spends one unit of the
counter `faults`, bounded by `MaxFaults` (action `Fault`).

### Store

`storeData` is `Store.data`, `storeFile` is `state/store.json`. The flush writes a
temporary file and renames it: one step, or none of it (`SetLastKnownFails`,
which keeps the new entry in memory, as `store.go:59-64` does).

### Extractor

`pc` names the next step of the watcher goroutine. One call of `Extract` goes
through

| `pc` | code | actions |
|---|---|---|
| `visit` | the loop over clients, `pullFromClient` | `SkipClient`, `ListPaths`, `NothingCollected`, `AllCollected` |
| `pull` | `pullOneAPK` | `PullOneAPK`, `ClientDone`, `PullFails` |
| `write`, `rename` | `writeXAPK`, `writeSingleAPK`, `atomicCopy` | `WriteTmp`, `Rename`, `WriteFails` |
| `sum`, `sumwrite` | `writeChecksum` | `TruncateSum`, `WriteSum`, `ChecksumFails` |
| `latest`, `latestrename` | `writeLatestJSON` | `WriteLatestTmp`, `RenameLatest`, `LatestFails` |
| `prune`, `remove` | `pruneOldVersions` | `ScanVersions`, `RemoveVictim`, `PruneDone`, `ScanFails` |
| `sink` | `OnArtifact` and the return | `OnArtifact` |

Between any two of them an emulator may move, and the process may crash. What is
on disk: `files` (the artifacts, with the files inside and the ABIs of the
manifest), `sums`, `latest`, `tmpFiles`, `tmpDir`. Each file inside an artifact
carries the version it was pulled at and whether its emulator had voted: history
that the code does not keep. `offered` and `session` are the history of the sink.

### Watcher

`Start` is the startup of `main`; `PollStart`, `CheckPackage` and `PollDone` are
`Run` and `poll`; `AnswerVersion(e)` and `AnswerError(e)` are the query
goroutines, in any order; `NothingToExtract`, `BeginExtract` and `BeginFails` are
what `checkPackage` decides when all have answered; `Record` is the call of
`SetLastKnown`. `Stop` is a signal (noticed between packages), `Crash` a kill at
any step; both keep exactly what is on disk.

### Packages

`set` is `Manager.set`, `file` is `packages.json`, `events` the Write and Create
notifications that wait. `Add`, `Remove` and `Seed` hold the lock from the check
to the rename: one step each. The reload is three steps, because `load` reads the
file without the lock (`packages.go:196`) and locks only to assign
(`packages.go:219`). `main` passes through `loaded` and `watching` between `New`,
`Watch` and `Seed`. `missed` tells that a change of the file escaped the
notifications. `acked` and `wanted` are history for the claims: the names whose
`Add` succeeded, and the set that the last edit made while the service runs and the
requests since then ask for.

### Publication

The abstract specification: four variables, five kinds of steps. A version newer
than the recorded one appears (`Publish`), is announced to the sink (`Tell`), is
recorded when it or a newer one is in the directory and it was announced
(`Record`), and goes only when a newer one stays (`Withdraw`); a restart falls
back on what was saved (`Restart`). `WatcherClaims` maps it: `stored` to the
versions among `files`, `told` to `offered`, `known` and `saved` to the two maps
of the store. Everything else of the watcher, its failures included, is a
stutter.

### Config

`file` is `config.yaml`; a file is the host, the list of emulators, and a flag for
the rest of what `validate` looks at. `Load`, `Watch`, `Get` and `NewWatcher` are
the startup of `main`, where the order matters: the watch begins before the
snapshot is taken, the handler is registered after. The reload goroutine reads
and validates (`Read`), assigns (`Assign`) and then takes the snapshot and starts
a goroutine per handler (`Notify`). `handlers` are the goroutines that wait for
the watcher's lock; `RunHandler` lets any of them call `syncClients`. The file is
written in place (`Edit`) or replaced by a rename (`Replace`), which ends an
inotify watch on it; notifications may be lost and reads may fail. `missed`,
`early` and `crowded` are history: a change nobody was told of, a watcher that
began with an older snapshot, a handler started while another waited.

### Api

`static` is the package list of the configuration in force, `known` and `saved`
the store, `cycle` the poll loop, `req[r]` the request on connection `r`. A
request that passed the checks takes the lock of the list once (`ListPackages`,
`GetPackage`, `AddPackage`, `RemovePackage`), then reads the store once per
package (`ReadInfo`) and answers (`Answer`); between any two of these steps
everything else may move. `AddPackage` and `RemovePackage` are the actions of
`Packages` together with the answer, errors of the flush included. The poll loop
takes a snapshot (`Tick`), merges the two sources (`ListCycle`) and checks each
package (`CheckNothing`, `CheckRecords`: what `Watcher` does in detail). `Down`
cuts the requests: `main` does not wait for `Shutdown`. `reply` holds what the
last step answered.

A request is first seen when its handler has the lock of the list. What comes before
(`authMiddleware`, the routes, the checks of a body and a name) is a function of the
request alone and changes nothing; it is left out.

### Decisions

One call of `parseVersionInfo`, `IsConnected`, `normalizeFingerprint` with
`verifyAPKSignature`, `findApksigner` or `Fanout.OnArtifact`: a behaviour chooses the arguments and answers. Lines of
output are records of a kind and a value; only serials, pins and names of
directories are sequences of characters, because their prefixes, normalisation and
order are the point. A directory of build tools also has the numbers in its name, how
many digits each takes, and whether it is a release candidate; the code sees the name
alone. The loops of the code are recursive functions over the
positions of a sequence (`Scan`, `Without`, `CallSinks`).

Lines marked `Mutant` define variants of an action as a plausible bug would leave
it; no specification uses them. They serve to see each property fail.

## 3. What is checked

All runs are in `PROJECT.json`; `tlc -config X.cfg M` repeats one.

### Runs that pass

| Run | Instance | Properties |
|---|---|---|
| `agreement` | 2 emulators, 1 package, 2 versions, 2 faults, `Keep = 1` | inductive invariant (with the types); `RecordedBacked`, `OfferedBeforeRecorded`, `SinkOncePerProcess`, `VoterSplitsNotOlder`, `RecordedSidecarMatches`, `TempDirOwned`, `StoreMonotone`, `NeverReextracts`, `PruneKeepsNewest`; `Publishes` (refinement), `CatchesUp` (liveness) |
| `single` | 1 emulator, 2 packages, 3 versions, 1 fault, `Keep = 2` | inductive invariant for one emulator (`LatestInv`), `LatestNamesAFile`, `LatestNeverRegresses` |
| `reload` | 2 names, one of them in `config.yaml`, 4 writes, 2 faults | inductive invariant (with the types), `InSync`, `SettlesOnFile` |
| `config` | 5 files (2 of them invalid; the valid ones differ in order, host and an ABI), 4 changes, 1 fault | inductive invariant (with the types), `SnapshotFollows`, `ClientsOfOneSnapshot`, `ClientsFollow`, `SettlesOnFile` |
| `api` | 1 package, in `config.yaml` at first, 2 connections, 2 changes, 1 version, 1 fault | inductive invariant (`ApiInv`), `AnswersFresh`, `RefusedChangesNothing`, `PolledIffTracked` |
| `decisions` | all dumps of up to 5 lines, pins of up to 4 characters, sets of 3 serials, directories of up to 5 versions of build tools, chains of up to 3 sinks | `VersionOfPackage`, `ConnectedAsListed`, `AcceptedAsPinned`, `NewestTool`, `FanoutDelivers` |

* `RecordedBacked`: the store never knows a version that is not in the directory
  (itself or a newer one). It is why the early return at `watcher.go:159` is safe.
* `OfferedBeforeRecorded`, `SinkOncePerProcess`: the sink hears of every recorded
  version; a crash or a failed flush may repeat the call in the next process,
  never in the same one.
* `StoreMonotone`, `NeverReextracts`: lagging emulators do not take the store
  back; nothing at or below the version in `store.json` is written again.
* `VoterSplitsNotOlder`: what is pulled from an agreeing emulator may be newer
  than the artifact's name (see `one_version`), never older.
* `RecordedSidecarMatches`: after the record, a sidecar of the file in
  `latest.json` is whole and is of that file, although artifact and sidecar are
  written separately.
* `PruneKeepsNewest`, `LatestNamesAFile`, `TempDirOwned`: what disappears from the
  directory, and what must not.
* `InSync`: reloads apply stale sets, but only with a notification still to come;
  when all are handled, memory is the file.
* `Publishes`: seen from outside, all of this is `Publication`.
* `SnapshotFollows`, `ClientsOfOneSnapshot`, `ClientsFollow`: an invalid file never
  gets in, a valid one is loaded unless its change was not notified; in whatever
  order the handlers run, the emulators polled are those of one snapshot. If no
  handler waited for another they are those of the last one, and so is the rest of
  each client, its ABI: but for a serial whose ABI was edited while the process
  runs, which keeps the old one (below).
* `ApiInv`: no poll and no request outlives the process whose store it read; the
  store in memory is never behind its file; what a request holds lies between the
  versions of its arrival and those of now.
* `AnswersFresh`: an answer is put together from several lock sections, with a
  store that may be ahead of its file, and is still not older than its request.
* `RefusedChangesNothing`: 404 and 409 also stand for a flush that failed; either
  way nothing was done.
* `PolledIffTracked`: the list and the configuration change between polls, on
  their own; a package that stays tracked is polled for ever, one that stays out
  of both is not.
* `VersionOfPackage`, `ConnectedAsListed`, `NewestTool`: each states under which
  condition on the input the answer is right, and TLC finds the answer wrong when
  the condition is dropped: no name in the first section, serials that begin like
  another, numbers with more or fewer digits, release candidates.
* `CatchesUp`, `SettlesOnFile`, `PolledIffTracked`: liveness, below.

### Runs that show a disagreement

| Run | Property | Says | The code |
|---|---|---|---|
| `one_version` | `OneVersionPerArtifact` | README.md:516 | pulls without asking for the version again, from every connected client |
| `architectures` | `ArchitecturesCovered` | README.md:323 | skips offline clients and lists their ABI in the manifest |
| `latest_regress` | `LatestNeverRegresses` | README.md:342 | after a crash before the record, a lagging emulator's version replaces `latest.json` |
| `lost_add` | `AcknowledgedKept` | README.md:128 | applies a reload read before an `Add`; the next flush writes the result |
| `lost_edit` | `EditsPickedUp` | README.md:417 | flushes its set over an edit, made while it runs, that is not loaded yet |
| `stale_clients` | `ClientsHotReload` | README.md:178 | runs the handlers of two reloads in any order: the older snapshot may come last |

More, seen while reading and too plain to be worth a run:

* README.md:109 and 516 ask for the answers of all configured emulators, where
  `checkPackage` leaves out those that answer with an error (`watcher.go:127-134`);
* the comment at `extractor.go:393` has the prune run after the store is updated,
  where it runs before (`extractor.go:101`, `watcher.go:183`);
* README.md:522 has every file written to a temporary file first, where
  `writeChecksum` writes the sidecar in place (`extractor.go:361`), and has the
  `.tmp` files of a crash cleaned up, where `cleanTmpDir` removes only directories
  below `.tmp` (`main.go:187`);
* README.md:377 has `GET /packages` list static and dynamic packages, where
  `listPackages` lists the manager's (`server.go:112`): a package that a hot reload
  adds to `config.yaml` is polled and not listed until the next start;
* README.md:417 has external edits of `packages.json` picked up, where an edit
  between `New` and `Watch` (`main.go:96-101`) gives no notification: it is not seen
  until the next one, and a flush, that of `Seed` included, may write over it first;
* README.md:178 has the service hot-reload `config.yaml`, where `syncClients` keeps
  the client of a serial it knows (`watcher.go:209`): an edited ABI is not
  applied until a restart, or until the emulator has been out of the list
  (`ClientsFollow` fails without its exception);
* `signing.go:101` has the reverse order of names give the newest version first:
  true of releases whose numbers have as many digits (`NewestTool`), not of 9.0.0 and
  34.0.0, of 34.0.9 and 34.0.10, or of 35.0.0-rc4 and 35.0.0, where the older of the
  two is found.

`LatestNeverRegresses` holds with one emulator (`single`) and fails with two
(`latest_regress`): the same property bounds what the finding is about.

### The bounds and why they are enough

* Two emulators with different layouts are the smallest deployment where
  agreement, shared files (`base`), ABI splits and an offline client mean
  something. The first emulator installs a single APK for version 1 and splits
  from 2 on, so that `.apk` and `.xapk` of the same package meet.
* Two versions give one update; `single` has three, so that a prune with
  `Keep = 2` has something to choose. `Keep` is 3 in the code; the proofs hold for
  every `Keep >= 1`.
* Two faults allow a failure followed by a crash in the recovery from it.
  `agreement` also passes with three faults (3.7 million states), and its safety
  properties with three versions (5.9 million).
* `config`: four changes allow a reload to overtake another one and a file to go
  bad and come back; one fault is a lost notification, a failed read or a restart.
* `api`: one package is enough, since the locks are per list and per store, and
  the second connection is the one that changes what the first has read.
  The safety properties are proved for any number.
* `decisions`: five lines hold two sections with a line in each, before and after;
  a digest has two characters of an alphabet of two letters (one in both cases),
  so that a pin of four has room for colons, spaces, a wrong letter and a wrong
  length.
* `single` has two packages so that the state of one check can leak into the next.

Bounded counters: `faults` by `MaxFaults`, codes by `MaxCode`, changes of
`packages.json` (in `Api` also reloads of the configuration) by `MaxWrites`,
changes of `config.yaml` by `MaxEdits`. `CHECK_DEADLOCK` is off where the system
may stop: in the runs of `Packages`, `Config` and `Api` a service whose bounds are
spent, with nothing to load, waits (or stays down on an invalid file); a
behaviour of `Decisions` ends with its answer.

### Fairness

`FairSpec` of `WatcherClaims` assumes weak fairness of `Start` (the service is
restarted by its supervisor, README.md:570), of `CheckSteps` and `ExtractSteps`
(one goroutine that always goes on: its calls return, and the ticker fires), of
`Boot` and of `PlayUpdate` of each emulator (an operator starts it again; the Play
Store updates). Faults are finitely many and have no fairness. Under these
assumptions the newest version is published for good; without the one on
`PlayUpdate` the emulators may disagree for ever, and the service rightly waits.

`FairSpec` of `Packages` assumes weak fairness of the startup and of the reload
goroutine only. `FairSpec` of `Config` adds the handlers: each `go fn(snap)` gets
the lock at last. `FairApiSpec` has the startup, the reload goroutine and the poll
loop (its ticker fires, `checkPackage` returns); it says nothing about requests:
no client need send one, and `PolledIffTracked` does not depend on any.

## 4. What is proved

`tlapm` checks `WatcherProofs`, `PublicationProofs`, `LatestProofs`,
`PackagesProofs`, `ConfigProofs`, `ApiProofs` and `DecisionsProofs` to the last
leaf. Every safety property that a passing run checks is a theorem there, for every
value of the constants; what stays with TLC is liveness.

Assumptions on the constants, all named and evaluated by TLC in each run:
`MaxCode` is a positive natural and `MaxFaults` a natural, each emulator lists at
least one file per version (`EmulatorsAssumption`); clients are a sequence of
emulators and `Keep >= 1` (`ExtractorAssumption`); the packages polled are a
non-empty sequence (`WatcherAssumption`); the names of `config.yaml` are package
names (`PackagesAssumption`); files of `config.yaml` are records of a host, a
sequence of emulators and a flag, the bounds are naturals (`ConfigAssumption`,
`ApiAssumption`); the inputs of `Decisions` are sequences and sets of the right
kind, of any length (`DecisionsAssumption`); a directory of build tools is finite,
no two entries have the same name, and releases whose numbers have as many digits have
their names in the order of these numbers (`RootsAssumption`).

**Watcher.** `Inv` is the inductive invariant. The argument:

1. `ControlOK` and `TypeOK` go together: inside `Extract` the agreed code and the
   client index are real ones.
2. `ExtractsNewer`: the comparison with the store made before `Extract` still
   holds inside, since only `Record` (and a restart) writes the store. With
   `StoreBehind` (the file is never ahead of the memory) this gives
   `StoreMonotone` and `NeverReextracts`.
3. `Written`: from its rename on the version is in the directory. It survives the
   prune by `PruneSpares`: while victims are left, `Keep` files at least as new as
   each stay. That is where `Keep >= 1` and the order of the sort enter, by the
   cardinality of a finite set of files (`PrunableSpares`). So `Record` records a
   version that is there, and `VersionsSurvive` keeps it or a newer one:
   `RecordedBacked`, also across a restart that takes the store back.
4. `SinkThenStore`: what a process told the sink is in its store or is about to
   be; with 2 this gives `OfferedBeforeRecorded` and `SinkOncePerProcess`.
5. `VotersOK`: answers are never ahead of their emulators, since installed
   versions only grow; so a voter's files are at least as new as the agreed code:
   `VoterSplitsNotOlder`.
6. `NamesUnique`: no two artifacts have one name, so a sidecar is of one file.
   `SidecarsOK`: once its checksum is written, the artifact at hand has the sidecar
   it needs, and from the rename of `latest.json` to the record so has the file
   `latest.json` names. A retry after a crash may spoil the sidecar of a version
   again, but by 2 only of one that is not recorded, which
   `RecordedSidecarMatches` does not speak of until `Record`.
7. `PruneKeepsNewest` follows from `PruneSpares`: while victims are left there
   are `Keep` files at least as new as each (`Spared`), and removing a victim takes
   none of these.

None of the promises is inductive alone: `RecordedBacked` needs 1-3, for instance,
because the prune and the record look only at their own variables. `FrameStep`
and `VoterFrameStep` state once which action writes what; the other lemmas use
them instead of going through all the actions.

Theorems: `Invariance`, `TypeCorrect`, `RecordedIsBacked`, `RecordedWasOffered`,
`SinkAtMostOnce`, `StoreNeverRegresses`, `NothingReextracted`,
`VotersNeverBehind`, `TempDirNeverLeft`, `SidecarMatches`, `PruneKeeps`.

**latest.json.** `LatestProofs` is about a deployment with one emulator
(`OneEmulator`), of any layout, with any packages; a second emulator breaks both
claims, as the run `latest_regress` shows. `NeverAhead`: nothing on disk is ahead of
what the emulator has installed, hence of its answer, hence of the version extracted
because of it; so what `RenameLatest` writes is not older than what it replaces:
`LatestMonotone`, for every `Keep`. `LatestFileExists` also asks for `Keep >= 2`
(the code has 3): the file `latest.json` names is the newest of its package, but
`7.apk` and `7.xapk` tie in the sort, and a prune that keeps one file may take
either. There are at most two files of a version (one per kind), so two kept files
at least as new as a victim leave no room for the victim to be that one
(`PruneSparesNewest`). `LatestInvariance` is the inductive invariant behind it.

**Packages.** `StaysInSync` proves `InSync` for any names, configuration and
bounds. Its invariant adds: a reload that is about to apply something else than
the file has a notification behind it (`SyncStep`).

The part of the proof that does not depend on who calls is stated for any spender
of the bound on writes (`Spent`), so that `Api` can use it.

**Publication.** `Refinement` proves `Spec => Publishes`. `Inv` supplies what the
abstract guards ask for: `ExtractsNewer` that a published version is newer than
the recorded one, `PruneSpares` that a newer file stays when one is pruned,
`Written` and `SinkThenStore` that a recorded version is there and was announced.
The proof has one step per action that touches files, sink or store; the others
stutter.

**Config.** The invariant has three parts besides the types. `ControlOK`: what main,
the reload and the handlers hold are valid snapshots that were in force since the
start. `FileOK`: a difference between the file and the snapshot (or what is about
to be one) has a notification behind it or was missed. `HandlersOK`: as long as no
handler waited for another there is at most one, with the last snapshot, and
without one the clients are those of the snapshot. `SyncedClients` is the lemma
about `syncClients`: from any clients of snapshots in force it makes the clients
of one of them, none twice, by the distinct ports that `validate` asks for.
`ClientsFollowSnapshot` needs no more: a client with the serial of an emulator in the
snapshot came from some snapshot in force, and serials tell their port (`SerialsTell`),
so it has the ABI of now if all these snapshots agree on it.
Theorems: `Invariance`, `TypeCorrect`, `SnapshotFollowsFile`, `NoMixedClients`,
`ClientsFollowSnapshot`.

**Api.** Every step of the service is, for `Packages`, one of its own steps or a
stutter, but for `Seed`, which takes its names from the snapshot main holds; so
`ServiceInSync` gets `InSync` from `PackagesProofs`. `Freshness` needs that `known`
only grows between a request and its answer: a restart, which takes it back, cuts
the requests. `RefusalsAreHarmless` follows action by action.
`ServiceInvariance` puts the invariant of the list, that of `Freshness` and the one of
the poll loop and its store (`LoopStep`) together.

**Decisions.** Inputs are of any length, so the loops need induction over data. The
library's rules take an operator as a parameter, which the provers cannot
instantiate; `<` on the naturals is well-founded, though, and that theorem has none.
From it come `Least` (a non-empty set of naturals has a smallest member), `Count` (a
set that has 0 and is closed under successor has every natural) and `Loop` (a
recursive function over the positions of a sequence exists and its values stay in the
set of states), and with these:

* `VersionFound`: before the first header of the package the scan has read nothing
  (`ScanBefore`); inside its section the code and the name are those of the lines
  seen so far, and the scan ends no later than the section (`ScanFinds`).
* `FanoutIsAllOrError`: after i sinks all before the last one called have succeeded
  (`CallSinksResult`).
* `AcceptedIfPinned`: taking out the colons and then trimming, as the code does, is
  taking out colons and spaces whenever what is left is hexadecimal. The proof follows
  a span of the string through both loops (`PieceOfPin`, `TrimPiece`): what is trimmed
  is only spaces, and what stays has none.
* `NewestToolFound`: the order of names is total and transitive, so a finite set of
  tools has a last one (`BeforeTotal`, `LastExists`), and among releases whose numbers
  have as many digits its numbers are the last, the whole version compared.
* `ConnectedIfListed`: by the cases of the code.

Model-checked only: liveness (`CatchesUp`, `SettlesOnFile` of `Packages` and of
`Config`, `PolledIffTracked`), which the prover does not reach.

## 5. What the model leaves out, and assumptions

* Version codes installed by the Play Store only grow, and are at least 1.
* The install directory of a version disappears when the package is updated, so a
  pull of a path listed before the update fails.
* Removing the `extract-*` directory succeeds: `Extract` and `cleanTmpDir` only
  log or ignore an error there.
* A crash between the two removals of one prune victim is covered by a removal
  that fails followed by a crash.
* `flush` of the store and of the packages leaves its own `.tmp` file after a
  crash; it is overwritten by the next flush and read by nobody, so it is not
  modelled. The `.tmp` files of the package directories are.
* Sizes, certificates and unsafe file names are reasons for a pull to fail.
* The paths that one emulator lists for a package have different base names (they are
  files of one directory), so that more than one path is more than one name. Of two
  emulators that list the same name the first one provides the file, as in the code.
* Notifications about `packages.json` carry the name `packages.go:162` compares
  with; fsnotify decides that, and with the default configuration directory `.`
  a backend may name the file `./packages.json`, which would never match.
* Version names and time stamps are never compared by the code and are left out.
* `config.yaml` is judged by its emulators and a flag for the rest; a file that is
  read half written is an invalid one. A failed `Connect` to a new emulator changes
  nothing in the client list.
* A handler that is cut leaves what it has done.
* Not modelled: `authMiddleware`, the routes and the checks of a request before it
  takes a lock (they keep and change no state), the time limits of the HTTP server and of `Reconnect`, logging and
  permission warnings, `parsePMPaths` (a filter of lines; its result is `Layout`),
  the defaults and bounds of the plain values in `config.yaml`, a change of
  `output_dir` while the service runs (the store stays in the old directory), the
  bytes of archives and of JSON files, file permissions.

## 6. Plan

Done: every component has its module or modules; every safety property of the passing runs is
proved, and the refinement of `Publication`.

Next:

1. The step from `Api` to `Watcher`: that a check of `Api` (`CheckNothing`,
   `CheckRecords`) is what an extraction of `Watcher` looks like from the store,
   stated as a refinement and proved.
2. `Watcher` over the lists that `Config` and `Api` let change: an emulator that
   leaves the list between the query and the pull, and `output_dir` reloaded.
3. `GET /packages` against what is polled, as a claim of the documentation.
