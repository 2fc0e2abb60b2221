# A verification project for hmos-openvpn

hmos-openvpn is a VPN client for HarmonyOS: an ArkTS application, a VPN extension
in a process of its own, and a Go core (the mihomo proxy, built as
`libflclash.so`). This directory holds TLA+ models of its concurrent and
persistent parts, the TLC configurations that check them on small instances, and
TLAPS proofs of their safety for every value of the constants. Every definition is
translated from the source; `PROJECT.json` maps each one to its lines.

In paths below, `E/` is `src/app/entry/src/main/ets/`, `P/` is
`src/app/proxy_core/src/main/ets/` and `G/` is `src/app/proxy_core/src/flclash/`.

## 1. The system

Two processes share `filesDir`:

- the **UI process** (ArkTS, one JavaScript thread): pages, `AppService`,
  `SubscriptionUpdater`, `ActivationStore`, `SocketProxyService`;
- the **`:vpn` process**: `ClashVpnAbility` and `FlClashVpnService` (ArkTS, one
  thread of its own) and the Go core, which they call through NAPI and through
  `clash_go.sock`.

They interact through the two calls of `vpnExtension` (start, stop), the socket
`clash_go.sock` (requests of the UI and of the VPN service to the core), the socket
`ClashBox.sock` (requests to the VPN service; nothing in the application sends
them), and files: `active_profile.id`, `selected_map.json`, `<id>/config.yaml`,
`<id>.yaml` and the preferences `app_settings`. Nothing locks any of these files.

### Components

| Component | State | Operations | What makes it correct | Module |
|---|---|---|---|---|
| TUN life cycle (`G/lib_linux.go`, `G/tun/tun.go`) | `tunLock`, `tunListener`, `runTime`, the socket hook, `currentConfig` | `StartTUN`, `StopTun`, each with a goroutine | no TUN that nobody can close, none without its hook, stops end | `TunCore` |
| VPN process (`E/entryability/ClashVpnAbility.ets`, `P/rpc/FlClashVpnService.ts`) | how far `onCreate` is, the interface, TUN options, the saved flag | `onCreate`, `onDestroy`, `startVpn`, `stopVpn`, requests of `ClashBox.sock` | load before start, address before start, destroy releases all | `VpnProcess` |
| Socket hook handshake (`G/lib_linux.go`, `G/ipc.go`, `FlClashVpnService.ts`) | dials in the hook, the shared result, the connection, `fdMap` | ask, assign, send, receive, protect, `setFdMap`, time out | a socket released by its id is protected; dials leave the hook | `SocketProtect` |
| Choices (`P/SelectedMapStore.ts`) | `selected_map.json` | `load`, `record`, `saveMode`, `saveVpnOn`, from both processes | what was saved last is there next time | `SelectedMap` |
| Subscriptions (`E/service/SubscriptionUpdater.ets`, `P/Profile.ets`, `P/ProfileRepo.ets`) | rows, configuration files, `queue`, `updating` | scan, process the queue, update, import, delete | no double update, rows have files, deletions are final, due ones are updated | `SubscriptionUpdater` |
| VPN switch (`E/pages/Home.ets`, `E/service/AppService.ets`, `E/service/BackgroundKeepAliveService.ets`) | `vpnOn`, `vpnAlive`, heartbeat, poll, background task | toggle, ping, `markAlive`, the watcher, start and stop of the task | off is quiet, a dead core is noticed, no task is leaked | `HomeSwitch` |
| Active profile (`P/ActivationStore.ets`, `P/fileUtils.ts`, `E/pages/Profiles.ets`) | Preferences, cache, page, `active_profile.id`, `<id>.yaml` | load, activate, delete, save, both copies, the boot of the VPN process | the copies agree; a boot runs the active profile | `Activation` |
| Configuration of the core (`G/common.go`, `G/hub.go`) | `configParams`, `runLock`, proxies, mode, selections | `handleUpdateConfig`, `applyConfig`, `patchConfig`, `handleChangeProxy` | a request takes effect at one moment, a load alone with its own parameters; every request is answered, but for one that locks itself out | `CoreState`, `CoreApi`, `CoreConfig` |
| Global mode (`P/ConfigReader.ts`, `AppService`, Home, Proxies and Settings pages) | saved mode and choices, what each handler has still to send | `setMode`, `changeNode`, `patchConfig`, `applyGlobalEndpoint`, `resolve` | the online result is the one a restart gives; no detour while the exit changes | `GlobalMode` |
| Core log (`E/logger/CoreLogger.ets`, `E/pages/Logs.ets`, `log.go`, `observable.go`, `G/hub.go`) | listeners and their buffers, `logSubscriber`, connections, descriptor | log, subscribe, end, forward, install, uninstall, open and close the page | an observer misses nothing it can parse, nobody is left without a reader, log calls return, no leak | `LogStream` |
| Requests (`G/ipc.go`, `P/rpc/SocketProxyService.ets`) | connections, timers | send, answer, time out, fail to connect | | in `GlobalMode` and `LogStream`; framing is not modelled |
| TUN rebuild (`AppService.rebuildTun`, `E/pages/Settings.ets`) | `pending_l3_patch` | write, stop, wait 800 ms, start, read once | | not modelled (section 7) |
| Speed test (`E/pages/Proxies.ets`) | generation, batch, delays | start, batch, cancel | | not modelled (section 7) |
| Process resolver, profile table, settings, pages, card, backup, installer, NAPI glue, exit address | little or none | | | not modelled (section 7) |
| mihomo (`G/core`), `gvisor-ohos` | third party | | | not modelled |

### What is hard about it

Locks and goroutines in the core (a hook written outside the lock and removed
inside it; a lock taken again by its holder, three calls further down); groups that
pass over a node that was chosen, or forget it, because it does not answer; `onCreate` cut into pieces by awaits with `onDestroy` in between;
descriptors that are closed and reused while a request about them is on its way;
a file read, changed and written back by two processes; kills between truncating
and writing; parameters that are assigned before the lock is taken; an operation of
three requests that stops after one; a resolver that repeats by other rules what the
pages did; timers that survive a reset; promises nobody awaits; two pings, two
scans, two activations or two subscriptions at once. `PROJECT.json` lists these hazards line by line,
with the properties that cover each.

## 2. The modules

A module `X` has the state and the actions, `MCX` the symmetry and the instances
for TLC, `XProofs` the theorems. The state is named as in the code. An action is
what runs without a wait: in Go, up to the next lock, channel or socket operation
that another goroutine can see; in ArkTS, up to the next `await` that really waits.
Awaits that only pass through the microtask queue are not cuts. A variable that
the code does not have is called *history* where it is declared; it only serves to
state a property.

- **TunCore**: `pc[c]` follows call `c` of `StartTUN` or `StopTun` through its
  caller and its goroutine. `StartTUN` installs the hook (:88) and spawns;
  `LockTun` .. `RemoveHook` are the bodies under `tunLock`. `ApplyConfig` and
  `FallBackToDefault` are the two assignments of `currentConfig` in
  `common.go:353-:356`; `OpenTunPanics` is the nil dereference at :93.
- **VpnProcess** EXTENDS `TunCore` (whose own `TypeOK`, `Init`, `Next` and `Spec` are
  therefore `TunTypeOK`, `TunInit`, `TunNext` and `TunSpec`) and adds the two
  abilities: `onCreate` cut at its awaits (`create`), `onDestroy`, `startVpn` that
  nobody awaits, the address that `setTunOptions` sets through `clash_go.sock`, and
  the remote start and stop (`RemoteControl`).
- **SocketProtect**: `pc[d]` follows a dial through the hook; `result[s]` is the
  variable that all dials of one `StartTUN` share; `conn[s]` is the connection with
  a bounded buffer; `protecting`, `storing` and `fdMap` follow the answer.
  Descriptors (`Fds`) are reused, ids are not. The model includes the split and the
  joined messages of the socket and the hook that is removed between two reads.
- **SelectedMap**: `at[p]` follows the operation of process `p` through
  `loadFile` and `saveFile`, one step per file call; `file` is a whole record, a
  text that does not parse, or empty.
- **SubscriptionUpdater**: scans, jobs and deletions cut where they wait, rows
  as *fresh* or *due*, files as missing, torn, YAML or a JSON error.
- **HomeSwitch**: `phase` follows `toggleVpn`; `ping[i]` and `keeper[k]` the
  overlapping pings and starts of the background task; `core` is what the other
  process does.
- **Activation**: `job[j]` follows the operations of the UI process through
  `getActiveProfileId`, `setActiveProfileId`, `syncGoConfigYaml` and
  `deleteProfile`; `vpn` the part of `loadActiveConfig` that reads the files. The
  UI process is one thread, so its synchronous file calls exclude its other
  operations (`UiFree`), but not the VPN process.

- **CoreState** has the values: what the core runs (`px`, `mode`, `sel`), the
  groups of a profile, and what a load, a patch and a change of a selection make of
  a core. `Now` is the node a group takes, by its kind: a selector its selection or
  its first node (`Selected`); a url-test group what it found last (`health.fast`),
  which `Fastest` bounds: the selection if it answers, or else any node that does,
  since delays are not modelled; a fallback group its selection or, if that does
  not answer, the next node that does (`AliveFrom`). A load balancer takes no
  selection. It has no variables.
- **CoreApi** is the abstract specification of the core: a request is asked, takes
  effect at one moment (`Serve`), and that is all. Loads that are under way together
  may mix `is-patch` and `selected-map` (`met` says which); a load alone may not.
- **CoreConfig** is the core as it is written: `handler[c]` follows the goroutine of
  client `c`; `configParams` is assigned outside `runLock` (`Decorate`) and read
  twice under it (`ApplyConfig`, `PatchSelectGroup`); `handleChangeProxy` takes the
  lock in one goroutine and gives it back in another, or never: where
  `Fallback.Set` tests a node that does not answer, the handler is *stuck* with the
  lock (`ChangeProxyStuck`, section 5). Nodes stop and resume answering
  (`HealthCheck`), a fallback group that is looked at drops a selection that does
  not answer (`DropSelection`), and a url-test group looks anew (`FindFastest`).
  `Api` is the instance of
  `CoreApi` whose `effective` is the core as a holder of `runLock` sees it.
- **GlobalMode** EXTENDS `CoreConfig` with the application: `saved` is
  `selected_map.json`, `plan[u]` what handler `u` of the UI process has still to
  send, `proc` the VPN process, `vpnOn` what the pages believe. `Resolve` is
  `GlobalModeResolver.resolve`, `ApplyEndpoint` is `applyGlobalEndpoint`. The history
  variable `upset` says why the core may differ from what is saved: a failure,
  overlapping operations, a change from elsewhere (`foreign`: an activation, or a
  patch of the settings), or a core the pages do not know of.
- **LogStream**: a connection names its request, its channel and its descriptor.
  `todo` are the channels the observable has still to emit to (it holds the mutex
  meanwhile), `start[k]` follows `handleStartLog`, `reads[k]` is the channel its
  goroutine ranges over, `frozen` is the suspension of the UI process. The
  constants `Below` and `WithEOF` are the entries that the goroutine leaves out for
  their level and those that the client cuts at an "EOF" of their own text: both
  parts fail `JSON.parse`, and the entry is dropped (`Deliver`).

Taken as simpler than the code: the Proxies page shows what it loaded last and is
taken as fresh; groups hold nodes, not groups, and no file has a group GLOBAL of its
own; a group of one name is of one kind in all profiles, and all groups test with
one URL, so that a node answers for all of them or for none; the two readings of
`resolve` (mode, choices) are one step; the goroutine of `handleChangeProxy` changes,
replies and unlocks in one step (nobody can tell: a reply that blocks is in
`LogStream` only); the parse of a file sets the general settings, the mode among
them, and sets them back before it returns (`core/config/config.go:605`), which is
left out, and so is the mode that a connection can meet in that moment; a request
whose parameters are no JSON (`hub.go:90`) is not sent by the application;
`Profiles.saveEdit` writes `<id>.yaml` directly, and is left out of `Activation` as
editing is; the ways in which `save` and the table can fail before a row changes are
one failure (`PutR`); the level of the log stays as it is; a frame of the log is
delivered whole.

How they compose: `VpnProcess` implements `TunCore` (checked, and proved), and
`CoreConfig` implements `CoreApi` (checked inside `GlobalMode`, and proved).
`SocketProtect` refines what `TunCore` calls the hook: it installs and removes it
and looks at the dials inside. `Activation` ends where `VpnProcess` begins to
apply the configuration (`LoadConfig` there is `ApplyConfig` here), and that
application is `LoadActiveConfig` of `GlobalMode`. `SelectedMap` has the file that
`saveVpnOn` of `VpnProcess` and the choices of `GlobalMode` write in one piece;
`vpnOn` of `GlobalMode` follows the process as `HomeSwitch` has it in detail.

## 3. The runs

| Run | Instance | What it shows |
|---|---|---|
| `tun` | 4 calls of `StartTUN`/`StopTun` | bodies exclude each other; a core that says it is stopped has closed its listener; calls that do not overlap leave no TUN nobody can close and none without its hook; every stop ends |
| `vpn_process` | 2 starts and stops, by `onCreate`, `onDestroy` or a client of `ClashBox.sock` | the process is a behaviour of `TunCore`; without a client, the core dies of a missing configuration only if none was loaded; unless `onDestroy` cuts into the start, all is released and the flag is right; the address comes before the route; a destroy of a running process releases the TUN for good |
| `vpn_nil_config` | as `vpn_process` | **violated**: started without a configuration |
| `protect` | 2 dials, 2 descriptors, 2 hooks, one of them with a full connection | a dial released by its id is protected; no request is lost but by a shared result or a dropped message; no dial stays in the hook |
| `store_safety` | 2 processes, 2 fields, 4 operations, kills | nothing is lost in a clean history; a save that runs alone repairs what it finds and changes one field |
| `subs` | a url profile, a file profile, 2 scans, 2 jobs, 1 kill | no double update; rows have files; deletions are final; due subscriptions are updated |
| `home_switch` | 2 pings, 2 starts, threshold 3 | a switch that is off is quiet; the task follows the switch; a process whose death changes `vpnAlive` is noticed |
| `home_false_connection` | 1 ping, 1 start | **violated**: the second false connection is never noticed |
| `activation` | 2 profiles, 2 operations, one saved again, both processes killed | the five copies of the active profile agree after any activation that ran alone; a process started then runs its last saved version |
| `mode` | 2 handlers, 2 profiles that share nodes, a group of every kind, choices that name a lost node, 4 operations, starts, upsets and changes of a node | the pages and a restart come to the same; no detour; the core implements `CoreApi`; requests are answered until one locks itself out (265 058 states) |
| `mode_restart` | the same | **violated**: the mode "direct" comes back as GLOBAL |
| `log` | 2 connections, buffers of 1, 4 entries, one suspension | an observer misses nothing but what is below the level or has "EOF" in its text; no subscription without a reader; no leak; log calls return |

The properties are stated, each with a comment, at the end of the modules.

### Bounds

- `Calls` (TunCore): 4 calls give two starts and two stops, the least with a stop
  that runs after a second start and a second stop after that. `Fds`, `Dials`: a
  descriptor is reused as soon as two dials share it. `Sessions`: one restart.
- `MaxOps` (SelectedMap): one operation overlapped by one of the other process,
  a save before to have something to lose, and one after to repair it.
- `Scans`, `Jobs`, `Pings`, `Starts`: two of each overlap; a third would do nothing
  the second cannot (they meet only in `queue`, `updating`, `fails`, `notificationId`).
  `Threshold` is the 3 of the code. `MaxKills` bounds restarts.
- `MaxOps` (GlobalMode) bounds the operations of the user, the starts of the VPN
  process, the upsets and the nodes that stop or resume answering together: a start,
  a change of the mode, a choice, and one more operation, a failure of one, or a
  node that stops. Two handlers overlap. Profile `p1` has a node in two groups, a
  fallback group and a load balancer; `p2` has a url-test group and a selector.
  `MCFirstSaved` has choices that name a node the profile has lost. Each exception
  that `RestartAgrees`, `NoDetour` and `RequestsAreAnswered` make is needed: without
  it the run finds a counterexample.
- `Conn`, `Buffer`, `SocketRoom`, `MaxEntries` (LogStream): every pair of
  subscriptions (logger and page, page and page, logger twice). One entry fills the
  socket, one the buffer, the third blocks the observable and the fourth its caller.
  Three connections only add a request that meets two others, of which no property
  speaks (`overlap`).
- `Jobs`, `Profiles` (Activation): two operations overlap on two profiles.
  `MaxVersion` is 2: a stale `<id>.yaml` needs one more version than the first.
  The constraint `OverlapsAtFirst` of `MCActivation` stops overlapping operations
  while the VPN process is on and once a configuration has been saved again. The
  VPN process writes none of the variables of
  `CopiesAgree`, and `BootRunsActive` is about a start with no operation in flight;
  what earlier overlaps leave behind is still there when it starts. Both
  are proved without this bound.

Deadlock is checked in every run but `mode`, `mode_restart` and `log`, which stop when
the operations, connections or entries of their bounds are used up. Elsewhere, where a bound makes the model stop (all calls
made, all operations used up), the module has an action `Exhausted` that stutters
in exactly those states, so that any other state without a step is reported.

### Fairness

Stated next to `FairSpec` in each module, and no more than the scheduling gives:

- `TunCore`, `VpnProcess`: a goroutine that holds the lock goes on (weak); one that
  waits for `sync.Mutex` gets it (strong: the mutex of Go hands over to a waiter
  that has starved for 1 ms). Nothing forces a call to be made, `onCreate` to go on or
  `onDestroy` to come.
- `SocketProtect`: a dial goes on (weak); its `conn.Write` succeeds if the buffer
  has room again and again (strong); the service reads (weak); the 500 ms end
  (weak). Nothing forces `protect` to answer.
- `SubscriptionUpdater`: the timers fire and a request, a parse or a table access
  ends, with success or with failure (http has timeouts). Success is not assumed.
- `HomeSwitch`: the timers fire, pings end (they have a timeout), `toggleVpn` and
  the settling delay end. That the core answers is not assumed.

- `GlobalMode`: goroutines go on (weak); who waits for `runLock` gets it (strong, as
  above). Nothing is asked of the pages, the clients or the process.
- `LogStream`: goroutines go on and a process that is awake reads its sockets
  (weak); a suspended process wakes up. Nothing makes anybody subscribe or log.

### Mutants

Every property of every passing run has a mutant of the code it depends on: a
dropped guard, a step in the wrong order, a missing reset (`PROJECT.json`,
`mutants`). The mutated form is defined just before the definition it replaces.

## 4. What is proved

Every theorem holds for every value of the constants that the assumptions allow:
any number of calls, dials, descriptors, profiles, groups, nodes, handlers,
connections and entries. The assumptions are named, in the module that declares
the constants, and say that model values differ and bounds are numbers, and
besides:

- `ConfigAssumption` and `NamesAssumption` (`CoreState`): the configuration without
  a file has no groups; groups and nodes have different names, none of them that of
  a builtin proxy, no two groups of a file the same (`parseProxies` refuses other
  files: `core/config/config.go:876`, `:928`). A file with a group GLOBAL of its own,
  which the core accepts, is left out.
  Every group has a node (`outboundgroup/parser.go` refuses one without), and a
  selectable group is of one kind, selector, url-test or fallback.
- `ClientsAssumption` (`GlobalMode`): the clients of the core are the handlers of the
  UI process and the start of the VPN process; what is saved at first is a mode and
  a choice for every group, names the profile has lost included.
- `LogAssumption` (`LogStream`): there is a connection.

Every safety invariant and every action property that a run checks is stated by
a theorem. The inductive invariants were checked with TLC first; they are these.

**VpnProcessProofs** (`TunCore` and `VpnProcess`, four layers).
`LockInv` ties `tunLock` to the program counter of its holder: `CoreTypeCorrect`,
`MutualExclusion`. `LifeInv` adds how far a stop has come (`StopProgress`) and what,
while no calls have overlapped, a start in flight and a stop in flight have already
done to the hook and the listener (`OrderlyCalls`): `StopClosesTheTun`,
`OrderlySafety`. `ImplementsCore` maps the initial states and every step of the
process to `TunCore`, so all this holds of the process. What the process does by
itself is in `ProcInv`: `CallsFit` (the calls of the core are those of the
service), `OwnCalls` (without a client there is one start, at the end of `onCreate`,
and one stop, in `onDestroy`; stated without counting), `LoadInv` (from
`updateConfig` on the core has a configuration or is between the two assignments
of a failed load: `CrashCause`), `DestroyInv` (an `onDestroy` that does not cut into
the start finds it over, so the calls are orderly and `OrderlyCalls` applies:
`SafeProcess`), and `RouteInv` (`RoutedTun`). `TypeCorrect` is the type invariant.

**SocketProtectProofs**: `TypeCorrect`; `ReleasedDialsAreProtected` (a request that was
protected is about the socket of its dial while the dial lives: ids are used
once, descriptors are held until the dial is closed); `UnsharedRequestsSurvive` (the
places a request can be in).

**SelectedMapProofs**: `TypeCorrect`; `CleanStore` (what the operation in flight has
loaded agrees with the last values); the action property `AloneSave`.

**SubscriptionUpdaterProofs**: `TypeCorrect`, `NoDoubleUpdate` (the three marks of a
profile exclude each other), `FilesAreThere`, `DeletionIsFinal`.

**HomeSwitchProofs**: `TypeCorrect`, `StoppedStaysQuiet`, `TaskFollowsSwitch`.

**ActivationProofs**: `TypeCorrect`; `ActivationRepairs` (`CopiesAgree` alone is not
inductive: `Progress(j)` says, for the one operation in flight of a clean history,
which copies it has moved yet); `BootIsCurrent`. For the last, `ConfInv` says that the
configuration of a profile is the last one saved, torn, or gone with its row, and
`BootProgress` how far a start has come with the profile the copies agree on: once
`<id>.yaml` has been copied it is the last version, which is where a stale copy would
show.

**LogStreamProofs**: `TypeCorrect` (no channel holds more than its buffer);
`LogIsComplete`: for a subscription that is its own only reader, what is in the
socket, in the channel and about to be emitted is later than what it got last, in
order, and every entry it has not got but those below the level and those with
"EOF" in their text, for any two sets of such entries (`Owed`, `Settled`,
`CompletesGrow`, `CompletesWithout`); `OneSubscription`: what `handleStartLog` knows
at each of its steps when it runs alone (`AloneInStart`); `NothingLeaks`: what the
logger and the page hold while an opening is under way (`Owners`, `Held`).

**GlobalModeProofs** (the largest).
The core first: `CoreInv` says who holds `runLock` (`LockHeld`), that a load that is
half applied started from `before` with parameters of a load it met (`HalfApplied`,
`ParamsMet`) and that every pending load has met the others (`Meets`):
`CoreTypeCorrect`, `Refines` (the core implements `CoreApi`), and `ModeUsesCore` (it
does so under the pages and the process, too, whose requests are of the types
that `CoreApi` knows: `TypeCorrect`). Then the application, whose invariant is
`IInv == CoreInv /\ TypeOK /\ UpInv /\ LoadingInv /\ AgreeInv`:

- `UpInv`: while nothing but requests has gone wrong, one handler at a time has
  something to do, and what it has left (`Rest`) fits what it has saved and what its
  earlier requests have done to the core (`Fits`: the third request of an
  endpoint is only sent when the group has the node and GLOBAL has the group). The
  request of a handler that timed out counts as left.
- `LoadingInv`: the load of a start is alone, and it is that of what is saved.
- `AgreeInv`: the core has what is saved but for what is left to do.

From these follow `PagesAgreeWithRestart`: when nothing is left, every group has the
selection that `Restarted` has, and takes the same node if it goes by it
(`SameTaken`), for some choice of what the url-test groups find after a restart
(`FoundAgain`, `TakenAgain`); left out are the groups that `Unsettled` names, a
fallback group that has dropped its selection and a url-test group that has not
looked since a node stopped or resumed. And the action property
`NothingLeavesByAThirdExit`: only a request that takes effect changes the core; a
patch to GLOBAL has both choices behind it (`Arrived`), a choice in GLOBAL arrives,
and the choice of a node in its group moves the exit to that node or, if GLOBAL is
elsewhere, nothing (`OthersTaken`). The exit is the chosen node where it answers and
its group has looked (`TakesSelection`), whatever the kind of the group; where not,
a url-test or fallback group passes it over, which is the third disjunct of
`NoDetour` and no more. `findGroupContaining` and `findAliveProxy` take a least
index, which exists by well-founded induction over a set, not over an operator.

Only model-checked: liveness, which is beyond the prover (`StopsEnd`,
`DestroyWhenUpReleasesTun`, `DialsLeaveControl`, `DueIsUpdated`, `DeadIsNoticed`,
`RequestsAreAnswered`, `LogCallsReturn`), and the three violated properties, whose
counterexamples are found on the instances.

## 5. Disagreements between code and text

The three violated runs quote the line they refute; their counterexamples are
behaviours of the code, under fairness where they are temporal. Others were seen
and are part of the models, without a run of their own:

- Choosing a node that does not answer in a fallback group stops the core.
  `handleChangeProxy` holds `runLock` (`hub.go:118`) when `Fallback.Set` tests the
  node (`fallback.go:139-144`); the test ends in `UrlTestHook` (`adapter.go:167-170`),
  whose `sendMessage` takes `runLock` (`main_cgo.go:289`) before the result is stored.
  No reply comes, and every later load, query and test of a node waits, and so does
  every new connection, which is announced by the same `sendMessage`
  (`hub.go:456`). The selection is set; the page sees a timeout. Only the end of the
  process helps (`ChangeProxyStuck`).
- A node that was chosen and does not answer: a url-test group takes another one
  until it does (`urltest.go:109-154`), a fallback group forgets the choice for good
  (`fallback.go:104-123`), the pages go on showing what they saved, and a restart
  chooses it again. The application takes every group but a load balancer for
  a selector.
- An entry of the log with "EOF" in its text, as many errors of a network have, does
  not reach the application: the client cuts what it reads at every "EOF"
  (`SocketProxyService.ets:356-370`).
- `Profile.ets:111` wants a JSON answer treated as an error ("JSON 数据，直接按错误处理");
  both throws are inside the `try` whose `catch` is empty, and JSON of several lines
  passes `isYAML` and is saved as the configuration.
- `SelectedMapStore.ts:9` says the choice made last is there next time; a `saveVpnOn`
  of the VPN process that loaded the file before a `saveMode` or `record` of the UI
  process undoes it (`CleanStoreKeepsAll` says when nothing is lost).
- `README.md:9` says that traffic is direct only if "direct" is chosen. In the mode
  global with nothing chosen GLOBAL is at its first member, DIRECT.
- `Home.ets:198` says that without a chosen endpoint the core's default applies; with
  the VPN on, `applyGlobalEndpoint('')` is an error and the core stays in its old mode.
- The patch of the Settings page (the port) carries a fresh `ClashConfig`, whose
  mode is GLOBAL, and so takes the core out of the mode rule or direct.
- An endpoint that is a node sets its group in the running core; the choice recorded
  for that group comes back with the next restart (`displaced`).
- Activating a profile does not load it into a running core: `loadActiveProfile` has
  no caller.
- `CoreLogger.ets:39` says the log of the core goes to `core.log`; the Logs page
  takes over the only subscription, and after a visit nothing more is written until
  the VPN is started again.
- Two requests for the log at the same time leave a channel nobody reads; when its
  200 entries are full every log call of the core blocks, and with it the core
  (`NoOrphan` and `LogCallsReturn` say when that does not happen).
- `SubscriptionUpdater.ets:11` speaks of a mutex; updates of different profiles
  overlap, since `processQueue` does not wait.
- A profile deleted during its update is inserted again by `addOrUpdate`
  (`DeletionSticks` says when a deletion is final).
- `saveVpnOn(true)` at `ClashVpnAbility.ets:28` can follow `saveVpnOn(false)` at
  :167 when `onDestroy` comes early.
- `setTunOptions` swallows its failure (:157-:160): the TUN then has no IPv4 default
  route, which the comment at :122 names as the thing to avoid.
- `EntryBackupAbility` saves `filesDir/profiles`; profiles are in
  `filesDir/ClashBox/profiles`.

## 6. Plan

Done, in this order: `TunCore`, `VpnProcess`, `SocketProtect` (what carries
traffic), `SelectedMap`, `SubscriptionUpdater`, `HomeSwitch`, `Activation` (what
persists and what the user sees), `CoreConfig` with its abstract specification,
`GlobalMode`, `LogStream`.

Left, in this order:

1. Two more abstract specifications and the theorems that they are implemented: a
   store of fields with atomic saves, for the clean histories of `SelectedMap`; and
   a bounded queue per subscription, for the undisturbed ones of `LogStream`.
2. `rebuildTun` with `pending_l3_patch`, as an extension of `VpnProcess`, if the
   system's promises about a preferences file of two processes are known.
3. Framing of `clash_go.sock` (one read, "EOF"), and the speed test.

## 7. Not modelled, and why

- **mihomo** and **gvisor-ohos**: third-party code of 92 000 lines used as a
  library. Its dialer, where it calls the hook, and its listener, where own code
  opens and closes it, are modelled as external from their use.
- **Pages, theme, icons, card, abilities of the UI**: display and navigation.
  Closing and reopening the Profiles page is left out of `Activation`: a reopened
  page loads its state again, and an operation of the closed one only sets state
  nobody sees, besides the copies, which are modelled.
- **TUN rebuild**: a stop, 800 ms, a start; the stop and the start are in
  `VpnProcess`. The patch itself is a text in a preferences file written by both
  processes, and whether the cached copy of one sees the other's flush is a matter of
  the system.
- **Speed test**: its batches write delays that only the display reads; an old
  generation stops at its next batch.
- **Framing of the sockets**: a request longer than one Read is answered as another
  request, a reply ends at the first "EOF". Requests and replies are abstract here;
  what "EOF" does to an entry of the log is in `LogStream`.
- **Settings other than the mode, listeners, DNS and rules of the core**: they take
  the way of the mode through `overwriteConfig` and `patchConfig`.
- **Changes of the log level, rotation of `core.log`**; `StopLogObserver`, which
  nothing sends.
- **Settings, profile table, installer, backup, diagnostics**: single statements or
  copies, one after the other.
- **Process names of connections**: a lookup with a cache.
- **NAPI glue**: conversions of arguments.
- **Wording, formatting, notification contents, logs**: no property is about them.
- **Time** is a nondeterministic choice of the order in which timers fire and
  answers come, so that no property depends on 20 ms, 500 ms or 800 ms being long
  enough.
