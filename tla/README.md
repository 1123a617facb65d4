# liteavd: TLA+ models, model checks and proofs

liteavd is a local multi-device workspace for the Android Emulator: a GTK
program in Rust that starts, adopts, watches and stops emulator engines, shows
their frames and drives their input, audio and files. This directory holds TLA+
models of its core, TLC configurations that check them, and TLAPS proofs.
Paths below are relative to the repository; `PROJECT.json` maps every definition
to the lines it models.

## 1. Inventory

| Component | Source | State | Operations | What makes it correct |
|---|---|---|---|---|
| Launch scheduler | `src/core/scheduler.rs` | request queue, allocations, external demands, one mutex and one condition variable | enqueue, cancel, reconcile/remove external, try_acquire, wait, drop of ticket, permit, reservation | first come first served; start slots and budgets hold; nothing leaks; no lost wake-up |
| Port allocator | `src/core/scheduler.rs` | reserved console ports | reserve, drop | two starts never share a port |
| Device phases | `src/core/device_state.rs` | phase, generation, port per AVD | update by generation, force, merge of a scan | a late result never touches a newer device |
| Instance registry | `src/core/instance.rs` | sessions by id, AVD and port; commands handed out | begin/mark/complete/fail start, begin/complete/fail stop, merge of a scan, health reports | three maps agree with each other and with the phases; a session is one process |
| Device runtime | `src/core/instance.rs`, `src/ui/device_list.rs`, `src/ui/main_window.rs` | registry, scheduler, ports, workspace, each under its own lock | start_device, stop_device, two scanning threads | everything handed out has one owner; the engines liteavd started are counted while they live |
| Background runtime | `src/ui/background.rs` | two worker threads | spawn | every task ends |
| Engine launch and stop | `src/core/emulator.rs` | child processes, advertisement files | launch, wait, stop, identity checks | no engine outlives a failed start; only the engine meant is stopped |
| Advertisement monitor | `src/core/advertisement.rs` | inotify thread, stop flag | start, coalesce, drop | every change leads to a scan |
| Workspace | `src/core/workspace.rs`, `src/ui/workspace.rs` | routes, focus, selection, pending restore | reconcile, focus, toggle, restore | focus and selection only name current sessions |
| Operations | `src/core/operation.rs`, `src/ui/operations.rs` | plans, authorisations, staged files | plan, authorise, execute, push, stop | only the sessions frozen in the plan are touched; each is reported once |
| Input | `src/ui/input.rs`, `src/core/input.rs`, `src/ui/viewport.rs` | reliable queue, motion slot, stop flag | send, replace motion, flush, reconnect | order of reliable events; a release is always sent |
| Microphone | `src/core/microphone.rs`, `src/ui/microphone.rs` | endpoint, enable gate, ring buffer | create, recover, run, cancel | one source at a time; off when nobody speaks |
| Audio | `src/core/audio.rs`, `src/ui/audio.rs` | PCM buffer, one output stream, active pump | push, fill, clear, acquire, release, sync_focus | bounded; no sound of the previous device |
| Frames | `src/core/stream.rs` | shared-memory ring, latest-frame slot | read, publish, take | no torn frame |
| gRPC identity | `src/core/grpc_auth.rs`, `src/core/recovery.rs` | key, JWKS, record, lease files | bind, recover, clean up, drop | one owner per key across restarts and crashes |
| Downloads | `src/core/download.rs`, `src/core/package_service.rs` | partial files, cache lock | download, resume, evict | a finished file is the one asked for |
| Installation | `src/core/install.rs` | component directories, backups, a lock per component | install, uninstall, roll back | a whole copy survives every failure and crash |
| AVD files | `src/core/avd.rs`, `src/ui/create_wizard.rs` | directory and ini file of a name, a lock per name | create, roll back, list | an AVD appears whole or not at all |
| Settings | `src/core/settings.rs` | one file | load, save | the old or the new file survives |
| Logs, adb, telemetry | `src/core/process_log.rs`, `src/core/adb.rs`, `src/core/telemetry.rs` | rotating files, children, counters | append, run, sample | bounded; children reaped |

How they interact. A click spawns `start_device` or `stop_device` on the
background runtime. A start asks the registry for a command (a generation), the
scheduler for a ticket, waits for a permit, reserves a port, launches the engine,
waits for the boot and commits: permit and port become part of the session.
Scans (the monitor's on every change of the advertisement directory, the device
list's on every refresh) merge the running instances into the registry, count the
external ones in the scheduler and hand the routes to the workspace. Input, audio,
microphone and operations hold a route (AVD, session, generation) and ask the
registry whether it is still current before each use. Files that outlive a process
(the session's identity, the workspace, downloads, components, AVDs) are written
under advisory locks and published by renames.

What is hard: each of the four structures has a lock of its own and programs take
them one after another; scans read files that are old when they are merged;
results of starts and stops come late; engines die on their own; handles release
in `Drop` on many error paths; waiting blocks a thread of a pool of two.
`PROJECT.json` lists these hazards by line.

## 2. Modules

| Module | Models | Composes |
|---|---|---|
| `FifoAdmission` | what the scheduler promises, without queue, locks or handles | |
| `LaunchScheduler` | `scheduler.rs`: one action per method; waiting is split where the mutex is given up | refines `FifoAdmission` |
| `LaunchSchedulerProofs` | theorems about it and the refinement | |
| `InstanceRegistry` | registry and phase store; callers are the most general ones | |
| `InstanceRegistryProofs` | theorems about it | |
| `BackgroundStarts` | start and stop tasks on the thread pool | extends `LaunchScheduler` |
| `DeviceRuntime` | start_device, stop_device, scans and engines, one step per lock taken | instances of `InstanceRegistry` and `LaunchScheduler` |
| `DeviceRuntimeProofs` | theorems about the composition, from those about its parts | refines `InstanceRegistry` |
| `EngineLaunch` | the processes of a launch: launcher, engine, guards, stop, cleanup thread | |
| `AdvertisementMonitor` | the watching thread and its one-place signal | |
| `Workspace` | focus, selection, intent, late routes, save and restart | |
| `OperationBatch` | an operation over several devices, its adb commands and the guests' files | |
| `InputQueue` | GTK handlers, dispatcher and worker of one viewport | |
| `InputQueueProofs` | theorems about it | |
| `Microphone`, `MicrophoneSources` | sources at the coordinator's gate; the ring and the WAV reader | |
| `AudioOutput` | pumps, the pool of output streams, the shared buffer | |
| `FrameCapture` | the shared-memory reader and the latest-frame slot | |
| `RecoveryLease` | identity, lease and sound endpoint of a session across processes | |
| `PackageStore` | downloads, the cache, installing and removing components | |
| `AvdStore` | creating an AVD under its lock | |
| `ProcessLog` | pipe readers, the rotating writer, the page and the export | |
| `StoreProofs` | theorems about `PackageStore`, `AvdStore` and `RecoveryLease` | |
| `StreamProofs` | theorems about `MicrophoneSources`, `AudioOutput` and `Microphone` | |
| `ServiceProofs` | theorems about `OperationBatch`, `EngineLaunch`, `Workspace` and about `MCServices` as a whole | |
| `ProgressProofs` | theorems about `AdvertisementMonitor`, `ProcessLog`, `FrameCapture`, `BackgroundStarts` and about `MCProgress` as a whole | `BackgroundStarts` implements `LaunchScheduler` |
| `MCLaunchScheduler`, `MCInstanceRegistry`, `MCDeviceRuntime`, `MCBackgroundStarts` | finite constants for TLC | |
| `MCProgress`, `MCServices` | several components side by side (section 3) | |

**LaunchScheduler.** `queue`, `active`, `external`, `next_id` are the fields of
`SchedulerState`. `owner[i]` says which handle of request `i` exists and where its
thread is: a ticket (`held`, `waiting`, `reporting`), a permit, a session's
reservation, or none. `sleeping` is the set of threads parked in the condition
variable; `NotifyAll` empties it. `WaitCheck` is one turn of the loop of
`wait_with_status` under the mutex, `OnStatus` the unlocked callback. A sum over
a map is the size of a disjoint union, so no recursion is needed and the module
can be proved about.

**InstanceRegistry.** One action per method, all under one mutex. A method that
returns an error changes nothing and has no action. `ReconcileRunning` is the
whole merge of a scan: the first pass marks or removes sessions, the second adopts
instances in port order. `starts` and `stops` are the commands handed out and not
yet consumed; any of them may be used next, which is more than the programs do.

**DeviceRuntime.** `start[a]` and `stop[a]` are the program counters and locals of
the two tasks of a device; each action is what happens under one lock or one
awaited effect. `schedule_start` is BeginStart, Enqueue, CheckTicket, MarkQueued;
`reserve_port` is ListPorts and ReservePort; `cancel_queued_start` is
CancelRequest and CancelPhase; `complete_stop` is CompleteStop, Uncount and the
two halves of `sync_workspace`; a scan is ReadAds, Merge, CountExternal,
ApplyRoutes. `engines` are the live processes, `managed` the pids of those liteavd
started. A failed start awaits the end of its engine: in `cleaning` with its permit
and port in hand, in `refused` after the registry has refused the commit and dropped
both; the stop may fail in either (`CleanUp`). `roots` says in which SDK an engine's
executable is. Launches and scans read the SDK setting anew, so each takes any of the
`Sdks`, and a scan sees the engines of its own SDK only (`OfSdk`, which stands for
`verify_emulator_pid`). A start that
lost its generation has no action because it cannot happen: the generation is
current at every program counter up to the last write (`StartsOwnTheirDevices`).

**BackgroundStarts.** A task takes a thread when polled and gives it up at an
`await`; waiting in the scheduler keeps it, because `wait_with_status` blocks.

**EngineLaunch.** What `DeviceRuntime` takes as one step is opened here. `proc` is
the operating system's table of processes, with ids that a stranger may take over
once a process is reaped. `launch` is the attempt under way and which of the two
processes it owns: `PendingLaunch` until the commit, `LaunchedInstance` while it
boots, then the session. Every future may be dropped at every await
(`PollFails`, `DropVerifying`, `DropBooting`); the guards hand what they track to
the cleanup thread of `schedule_managed_cleanup`. `stopping` is `stop_process`:
TERM, wait, KILL, wait, first the engine, then the launcher.

**AdvertisementMonitor.** The directory has incarnations, the watch is on one of
them or on the parent. The callback and `request_rescan` fill the one place of the
channel; the thread probes, binds, scans, receives, settles and drains.

**Workspace.** The registry is reduced to the current session of each AVD. The two
halves of `sync_workspace` are two steps of a syncer, so an older list may be
applied after a newer one. `SaveIntent` is the one-second timer; `EndProcess`
saves or crashes, `Restart` reads names only.

**OperationBatch.** A plan freezes its targets, `Authorize` compares them with the
workspace's list, and each target is checked before it is run. An adb command is a
process that takes effect at some moment while it runs, exits, or is killed when
the operation is canceled or its route is no longer current; since adb addresses a
device by port, `strays` counts the commands that reach a port after the session
is gone. `push_files_to_route` is the sequence of commands `PushProgram`, its
cleanup removes the staged parts.

**InputQueue.** A handler is a list of dispatcher calls; each call and each step of
the worker is an action, since the threads share only atomics, the channel and the
slot's mutex. `guest` is what the engine holds pressed, `ui` what the user does;
`ui.forgot` remembers a right button that was let go while there was no frame, for which
the code sends no release. `lost` are the devices whose RPC failed or whose event was
refused while the session was being stopped.

**Microphone, MicrophoneSources.** Each source is a task at the coordinator's gate
(`JoinGate`, `EnterGate`), which turns the guest's microphone on, verifies, pumps
and turns it off; every await may fail or see its cancellation. The producers are
modelled apart, sample by sample but without values: the ring with its lock held
in two steps, and the resampling loop of `WavPcmReader::next_packet`.

**AudioOutput.** `sync_focus` keeps one active pump; canceled ones may still be
ending. The pool's flag, output, permit and notification are separate accesses and
separate steps. `FillBlock` is the callback with its fades and the prebuffer.

**FrameCapture.** A file is an inode, a frame the header it was copied under. The
engine may write between the two header reads, replace or remove the file.

**RecoveryLease.** One session directory per key with its private key, record and
metadata, the lease (`flock`), and the modules in the sound server. Processes start,
launch, recover, clean up stale directories and end at any step. A call of `pactl` may
fail wherever the code calls it: unloading ignores that and removes the metadata or the
directory all the same, and a recovery goes on without the endpoint. `faults` counts
these failures and `MaxFaults` bounds them.

**PackageStore.** Two tasks of the images page, the cache's quota lock, the
component's lock. An archive is a sequence of blocks, each of one generation of the
server's file, so that a resumed download may mix two. `Blocks` is the size the
repository announces, `Length` that of the server's file by generation; an answer says
how long the file is, or does not. A file of another size than announced is noticed
only when it is the archive. Installing is unpack,
backup, swap, verify and commit or rollback, with a crash anywhere.

**AvdStore.** `create_avd` step by step: lock, staged directory, config.ini, the
temporary ini file, two renames that replace nothing, and `CreationRollback` in
three steps, since `remove_dir_all` is not one. Another tool ignores the lock.

**ProcessLog.** A file is the sequence of its entries, each with the place at which it
ends. The writer rotates in three
steps, a reading is two, the export reads again.

## 3. Runs

| Run | Question | Bounds |
|---|---|---|
| `sched_safety` | the scheduler's invariants, under every interleaving | 3 AVDs, 3 requests, 2 start slots, memory 5, GPU 1, two demands: enough for a head that does not fit, one that would overtake it, and external instances that overcommit |
| `progress` | what must come to an end or be noticed: the scheduler as `FifoAdmission` with all its waiters, tasks on the pool, the last frame, reported changes, log output | scheduler and pool: 2 AVDs, 3 requests, a memory budget, 2 threads; 2 files of 2 sizes and 2 headers; 4 changes of the advertisement directory; 3 chunks, one above the file's limit |
| `registry_safety` | do the maps, phases and commands stay consistent? | 2 AVDs, 2 ports, 2 pids, 4 generations, 2 sessions: a stop, a restart, a port reused by another process, two commands of one device |
| `device_starts` | who owns what when two devices are started, cancelled and stopped at once? | 2 AVDs, 2 ports, 2 engines, 2 requests, no scanner |
| `device_scans` | and when scans and external engines come in between? | 2 AVDs, one port (so that the ports run out and a commit is refused), 2 requests, 1 scanner, 2 SDKs |
| `services` | the components around the phases, each with its rivals and failures | below |
| `pool_three_starts`, `device_cancel`, `device_monitor`, `device_rescan`, `input_detach`, `launch_orphan` | documented claims the code does not keep (section 6) | small, as needed to show it |

`progress` and `services` check components that share no variables. A behaviour is
one of a single component: `component` is chosen in the initial state, its actions
are the only ones enabled, and the others stay as they began. This is the union of
the components' state graphs and not their product, and a property of one component
is checked in all of its behaviours, holding in the others because nothing moves.
The view `ServicesView` lists the moving component's variables, all that can
differ between two states. Fairness in `progress` is each component's own, stated
for its actions in its own behaviours.

The bounds of `services`, and what they let happen:

* input: a channel for 1 counted event, 3 GTK events: overflow, a drag with a
  promoted motion, a release that races a stop.
* microphone: 2 sources on 2 devices, one change of focus, route or revision while
  either is anywhere between gate and end. Ring of 3 frames, packets of 2; WAV of 4
  frames at rates below the guest's.
* audio: 2 managed and 1 adopted route, 2 pumps (one ends while the other waits for
  the sink), 3 changes; buffer of 2 packets.
* workspace: 2 AVDs, 2 syncers (one applies an older list), 3 sessions, 2 gestures,
  one restart.
* operation: 2 targets whose safe names coincide, 1 file, sessions that end at any
  command, a rival that makes the same file.
* launch: 4 process ids, 2 attempts (the cleanup of the first during the second), 1
  reuse of an id.
* recovery: 2 processes, at once or one meeting what the other left, 2 identities (a
  launch under one cleans up the other), 1 failing call of `pactl`; the theorems are
  for any number of each.
* packages: 2 tasks, 2 packages announced with 2 blocks, one of them with a checksum,
  room for 3, one change of the server's file, which has 3 blocks after it, one crash,
  2 clicks, 2 retries.
* AVDs: 1 name (locks are per name), 2 creators, 3 steps of the other tool, 2 crashes.

`Max...` constants only bound how much happens in one behaviour; each is in a
guard, so a behaviour that reaches one simply stops there. This is why deadlock is
not checked. AVD names are interchangeable and are a symmetry set where no
liveness is checked. In the registry and the runtime pids are numbered in order of
creation and not reused; `EngineLaunch` reuses them.

Properties, in short.

* Scheduler: `HandlesOwnAllocations` (no leak, no panic in `expect`),
  `QueueIsOrderly` (request order, one request of an AVD at a time), `StartLimitHolds`,
  `NoLostWakeup` (a parked thread has reported the present status and that status is a
  reason to wait), `AdmissionFitsBudget`, `ImplementsFifo`, `EveryWaiterLeavesQueue`.
* Registry: `RegistryIsConsistent` (the maps describe the same sessions, the phases
  agree with them and carry their generations), `OneCurrentCommand`,
  `ProjectionIsQuiet`, `SessionKeepsIdentity`, `StartOwnsDevice`,
  `FinishedGenerationIsFinal`.
* Runtime: `RuntimeIsSound` (each port and each allocation belongs to exactly one
  start task or managed session), `ManagedEnginesCounted` (an engine liteavd started
  stays charged to its start or session while it lives; the property names the three
  steps that let go of a live one: the refused commit, the failed stop of a failed
  start, a scan under another SDK), `SessionsOutliveEngines` (with the last of these),
  `LaunchesAreCurrent`.
* Pool: `TasksFinish`. Frames: `LastFrameIsShown`. Monitor: `NoReportIsForgotten`.
  Log: `NothingIsShownTwice`, `OutputIsTaken`.
* Input: `GuestFollowsInput` (the counter is exact; when the worker has nothing left
  the engine holds nothing the user does not, except for devices in `lost` and the
  right button let go without a frame; a release is the last event of its gesture).
* Microphone: `MicrophoneIsTurned` (on only in the turn of a source of that device,
  one packet at most after a stop), `SourcesAreExact` (no frame lost uncounted, a
  file plays for its own duration). Audio: `SoundIsHandedOver`.
* Workspace: `ChoicesAreKept` (a session gets into focus or selection by itself only
  where the user left it; an absent AVD stays wanted through saves and restarts).
* Operations: `OperationsAreClean` (staged files, stale routes, screenshots),
  `OthersFilesAreKept`.
* Engines: `TrackedEnginesEnd`. Recovery: `SessionKeepsItsIdentity`,
  `OnlyAnExitLeaks` (modules are lost by an exit, in the very step in which `pactl`
  fails, or with a session whose endpoint could not be recovered, and not otherwise).
  Store: `InstallsWhatWasChecked` (what is unpacked was checked, where
  there is a checksum), `CacheKeepsItsLimit` (at rest, all entries but one leave the room
  that one's announced size needs), `WholeCopyIsKept`. AVDs: `AvdsAreWhole`.

A request that needs no memory (or no GPU slot) is admitted even when external
instances exceed that budget; `AdmissionFitsBudget` says so, because the code
compares the demand with what is left, which saturates at zero.

## 4. Fairness

Scheduler: a waiter has a thread of its own that keeps running (the comment on
`StartTicket::wait` asks its callers for that), and a launch ends, because the
engine start and the boot wait have time limits after which the permit is dropped.
Nothing makes a user cancel, a session end or an external instance exit; hence
`EveryWaiterLeavesQueue` assumes that from some time on no budget blocks the head,
which holds by itself in the default configuration, without budgets. Pool: a free
thread polls a ready task and a running task goes on; an await ends (the same time
limits). Capture: the capture thread's loop goes on, and `LastFrameIsShown` speaks
of an engine that has fallen still. Log: the reader and writer threads go on; the
process and the page do what they like. Every other module states safety only and
assumes no fairness.

## 5. Proofs

The assumptions are those the modules state by name. For `LaunchScheduler`: a finite
set of AVD names, natural demands, a positive number of start slots, budgets that
are natural numbers or absent. For `InstanceRegistry` and `DeviceRuntime`: finite sets
of AVDs and of ports, ports being numbers, a natural demand for every AVD, the
scheduler's own assumptions, and no scanning thread but the two there are. For the
other modules: the values that stand for "none" (`NoPid`, `NoTask`, `NoAvd`,
`NoSource`, `Unfocused` and so on) are not among the things they stand for; the
creators and the other tool of `AvdStore` differ; processes, keys, tasks and targets
are numbers, as in the code, and an operation has finitely many targets; capacities,
rates, packet sizes and the numbers of blocks, files and attempts are at least one;
there is a device for a microphone source and one for a pump, since the initial states
name one; `Prebuffer` fits the audio buffer; every other bound is a natural number. The
theorems hold for all such values.

| Theorem | Statement |
|---|---|
| `TypeCorrect` | `Spec => []TypeOK` |
| `OrderCorrect` | `Spec => []QueueInRequestOrder` |
| `HandlesCorrect` | `Spec => []HandlesOwnAllocations` |
| `StartLimitCorrect` | `Spec => []StartLimitHolds` |
| `OneRequestCorrect` | `Spec => []OneRequestPerKey` |
| `QueueCorrect` | `Spec => []QueueIsOrderly` |
| `NoLostWakeupCorrect` | `Spec => []NoLostWakeup` |
| `BudgetCorrect` | `Spec => AdmissionFitsBudget` |
| `FifoRefinement` | `Spec => ImplementsFifo` |
| `NoReportIsForgottenCorrect` | `MonitorSpec => []NoReportIsForgotten` |
| `AvdsWholeCorrect` | `AvdSpec => []AvdsAreWhole` |
| `TypeCorrect` (registry) | `Spec => []TypeOK` |
| `RegistryIsConsistentCorrect` | `Spec => []RegistryIsConsistent` |
| `OneCurrentCommandCorrect` | `Spec => []OneCurrentCommand` |
| `ProjectionIsQuietCorrect` | `Spec => []ProjectionIsQuiet` |
| `SessionKeepsIdentityCorrect` | `Spec => SessionKeepsIdentity` |
| `StartOwnsDeviceCorrect` | `Spec => StartOwnsDevice` |
| `FinishedGenerationIsFinalCorrect` | `Spec => FinishedGenerationIsFinal` |
| `RuntimeIsSoundCorrect` | `Spec => []RuntimeIsSound` |
| `ManagedEnginesCountedCorrect` | `Spec => ManagedEnginesCounted` |
| `SessionsOutliveEnginesCorrect` | `Spec => SessionsOutliveEngines` |
| `LaunchesAreCurrentCorrect` | `Spec => LaunchesAreCurrent` |
| `ImplementsRegistry` | `Spec => Reg!Spec` |
| `StartsOwnTheirDevices` | `Spec => [](CommandsAreHeld /\ DevicesAreOwned)` |
| `SessionKeepsItsIdentityCorrect` | `RecoverySpec => []SessionKeepsItsIdentity` |
| `OnlyAnExitLeaksCorrect` | `RecoverySpec => OnlyAnExitLeaks` |
| `InstallsWhatWasCheckedCorrect` | `PackageSpec => []InstallsWhatWasChecked` |
| `WholeCopyIsKeptCorrect` | `PackageSpec => WholeCopyIsKept` |
| `CacheKeepsItsLimitCorrect` | `PackageSpec => []CacheKeepsItsLimit` |
| `OperationsAreCleanCorrect` | `OperationSpec => []OperationsAreClean` |
| `OthersFilesAreKeptCorrect` | `OperationSpec => OthersFilesAreKept` |
| `TrackedEnginesEndCorrect` | `EngineSpec => []TrackedEnginesEnd` |
| `ChoicesAreKeptCorrect` | `WorkspaceSpec => ChoicesAreKept` |
| `GuestFollowsInputCorrect` | `InputSpec => []GuestFollowsInput` |
| `SourcesAreExactCorrect` | `SourceSpec => []SourcesAreExact` |
| `SoundIsHandedOverCorrect` | `AudioSpec => []SoundIsHandedOver` |
| `MicrophoneIsTurnedCorrect` | `MicSpec => []MicrophoneIsTurned` |
| `NothingIsShownTwiceCorrect` | `LogSpec => []NothingIsShownTwice` |
| `ServicesTypeCorrect` | `ServicesSpec => []ServicesTypeOK` |
| `ServicesKeepTheirPromises` | `ServicesSpec =>` every invariant and action property above of its components |
| `TasksUseTheScheduler` | `PoolSpec => Spec` (of `LaunchScheduler`) |
| `ProgressTypeCorrect` | `ProgressSpec => []ProgressTypeOK` |
| `ProgressKeepsPromises` | `ProgressSpec => []NoReportIsForgotten /\ []NothingIsShownTwice /\ ImplementsFifo` |

Scheduler. The inductive invariant is `QueueInv`: types, queue order, the ownership
of handles, and `RequestsSoFar`, which says that requests above `next_id` do not
exist yet. Order alone is not inductive, since a new request goes to the end of the
queue and must be above everything in it; ownership alone is not, since admission
removes a request from the queue and must know that it occurs there once.
`NoLostWakeup` needs only the types: whatever changes a status also notifies, so a
thread that stays parked sees the status it reported. The budget theorem rests on
lemmas about sums (`TotalAdd`): adding an entry to a map adds its value. The
refinement maps a request to new, pending, starting, running or done, and shows
that each action touches at most one request (`UntouchedKeeps`, `OneTouched`).

Monitor. `NoReportIsForgotten` speaks only of a thread that sleeps. A stop may come
while it scans, so `MonitorInv` keeps the stop's signal wherever the thread is.

AVDs. `AvdInv` adds what a creation may rely on because it has the lock: until the
second rename, and again after the ini file is undone, no ini file of liteavd's is
at its name (`DirFirst`); whoever is under way has the lock (`HasLock`), so two
creations have different names (`NamesDiffer`) and a step at one name leaves the
other creators' facts alone (`OthersKeep`).

Registry. `RegistryIsConsistent` is not inductive alone: completing a start or a
stop must know that a command that is still current finds the device in the phase
the command left it in, which is `OneCurrentCommand`; that in turn needs
`GenerationsAreIssued` (no state, session or command carries a generation that has
not been handed out), or a fresh generation might make an old command current again.
`StoppedHasNoPort` is needed for `ProjectionIsQuiet`. The merge of a scan is the hard
step. Its definition is first turned into statements about what it leaves, removes
and adds (`MapsAfterScan`, `ScanStates`): the adopted instances have different ports,
so numbering them in port order gives each a session id of its own (`AdoptedIds`).
The three action properties follow from one lemma, `StepDevices`, that says of each
device what any step may do to it.

Runtime. The proof takes the two components with their theorems (`RP`, `SP`) and
shows that every step of the composition is a step of each, or several: hence
`ImplementsRegistry`, and every theorem about the registry under the most general
callers holds of the programs that really call it. `DropLeases` gives back several
reservations at once and is not one step of the scheduler, so for the scheduler its
invariants are carried over and not the specification. `RuntimeInv` adds what joins
them: a task that will report a result holds its command (`CommandsAreHeld`) and its
device still has the generation and the phase the task left it in, unless its request
was cancelled (`DevicesAreOwned`); which handle of the scheduler each program counter
holds, and for whom (`RequestsAreHeld`, `SessionsOwn`); the ports (`PortsAreHeld`);
that pids are new, so that an engine that is gone stays gone (`PidsAreNew`,
`StoppedEnginesAreGone`); and that every engine's SDK is known (`RootsAreKnown`).
`ManagedEnginesCounted` relates steps and follows from it: a launched engine is charged
to its task (`LaunchIsCharged`), whose steps keep the charge or hand it to the session
(`TaskStaysCharged`), and a session's charge ends with the session
(`SessionStaysCharged`), which leaves only when its engine is gone or the scan was
about another SDK. None of these is inductive without the others: the
commit of a start must know that the device has no session, which is a fact about
phases; that its request is not another's, which is a fact about the scheduler; and
that its port is not a session's. Each part has one lemma that says it is kept
(`...Kept`), with one case per step that can disturb it.

Recovery. `RecoveryInv` says for each identity who owns what, at every step of every
process. While one launches under it no other process has touched it (`LaunchOwns`);
while one recovers it, or drives its session, that process has the lease and the
directory still has the record of a live engine (`RecoveryOwns`, `SessionOwns`); the
parts of the directory come in an order, key before record, and modules that metadata
speaks of are loaded together (`KeyInv`); an identity nobody used has left no trace. A
step changes one identity, and what it leaves alone is one lemma (`KeyStays`). For
`OnlyAnExitLeaks` a session must know the endpoint of modules that metadata speaks of
(`ModulesKnown`); this holds until a call of the sound server has failed, and what has
failed stays counted.

Store. `InstallsWhatWasChecked` speaks of what is installed. `PackageInv` follows it
backwards: to the copy a task holds between unpacking and swapping, to the copy it
moved away and may put back, and to the archive, which for a component with a checksum
is absent or the expected one whatever the partial file beside it holds. Two tasks do
not meet because only the holder of the component's lock is past unpacking (`TaskInv`),
and a task between backup and commit knows that the copy it may need is in the backups:
`WholeCopyIsKept` is about every step and follows from the same invariant.
`CacheKeepsItsLimit` is about a cache at rest; `CacheInv` says what its holder did before:
what others keep there leaves room for an archive of the announced size, and the holder's
own entry is an archive or a part of one, never both. What it receives has no other bound
than the server's file, and this is why the limit holds but for one entry: the next holder
makes its room beside an entry of whatever size. That pruning makes this room is the hard step
(`PrunedIsEnough`): of the entries that stay take the oldest in the order; it stayed, so
what is not older than it fits, and everything else that stays is not older. An entry's
size is a number of blocks, and the size of a set of entries the cardinality of the set of
its blocks, about which the library has facts where a sum would need an induction; hence
the assumption that the packages are finitely many.

Operations. `OperationsAreClean` is about devices at rest. `OperationInv` follows a push
through its commands: at each place of `PushProgram` it says which parts may be on the
device, that each is known to the cleanup, and that a part which is gone after its push
has become the published file, so that a cleanup which removes that file removes
liteavd's (`RunInv`, `ItemInv`, `CleanInv`). It must also say that what the operation
has not come to is untouched and that no target comes twice (`StageInv`, `LeftInv`).

Engines. `TrackedEnginesEnd` speaks of an attempt that is over. `EngineInv` says who
answers for its engine until then: an attempt has one launcher, which when it has forked
is no launcher any more, so an engine that was found is the only one its attempt will
ever have (`ProcessInv`, `Settled`, `OnlyEngine`); a stop that is done with the engine
and did not fail has seen it dead (`LaunchInv`); and what a failed stop leaves is the
cleanup thread's (`EndedInv`). A reused process id is a stranger's, never an engine.

Workspace. `ChoicesAreKept` relates steps. `WorkspaceInv` says what a late list may
bring: only sessions that started in this process (`SessionsStarted`); what is pending
was not chosen, and nothing is pending once the user did something (`PendingInv`); until
then what the file wants and has not run is pending, so that a save writes it back
(`FileInv`).

Input. `GuestFollowsInput` speaks of a worker at rest and of the job it holds.
`InputInv` says where, until then, the event is that makes it true. A device that is let
go has its release still among the handler's calls or in the channel behind every press
of it (`HoldInv`, `Covered`). What is pressed in the slot or in the sender's hands is of
a device that is held, or of one whose release is still to be called (`MotionInv`,
`PromotedInv`). The motion a release waits for has reached the engine or is ahead of the
release, and while the handler still has its flush to call it may be in the slot, too
(`MoveInv`, `Brought`, `Carried`). Every release called belongs to a gesture below that
of any contact behind it (`GestureInv`). `HoldInv` and `MoveInv` hold of a device none of
whose events was lost, while the worker lives, and a worker that may see the stop flag
has all the calls there will be (`StopInv`): the release of a device that is not lost is
never refused because of that flag. The count is about a sequence of any length: one entry
more or less at an end changes the set of counted places by one (`CountedAppend`,
`CountedTail`).

Microphone and audio. For the file reader `SourceInv` is an equation: input frames times
the guest's rate are the file's rate times the frames given out, still in the packet or
still to be repeated, plus a phase below the rate; the quotient in `PlaysAtRate` follows
by division. `MicInv` is about the queue at the gate: nobody is in it twice, only its
head is inside, and a microphone that is on has the head, at a step from which every
path leads through turning it off (`GateInv`, `TurnInv`); a packet written late is at a
step that looks at the flags before the next (`LateInv`). In `AudioInv` the samples in
the buffer belong to pumps still playing, and pumps not yet started are idle.

Log. `NothingIsShownTwice` speaks of what a reading has. `LogInv` follows a chunk: it is
at one station only, its pipe, its reader's hands, the channel, the writer's hands, the
current file or what a reading has or may still get of the older one (`StationsApart`).
The last are two, since the older file may be replaced after it was read, and it is by
this that a rotation between the two reads shows nothing twice. For the limit the chunk in
the writer's hands must fit the file as the rotation leaves it (`ChunkFits`); an entry
carries where it ends, so that a file's size is its last entry's end.

Runtime's threads. Every step of a task is one action of a scheduler's handle, or moves
the task alone (`PoolStep`); so the composition with the thread pool implements
`LaunchScheduler`, which is `TasksUseTheScheduler`, and `FifoRefinement` gives
`ImplementsFifo`. A handle's action is one a client may take only for a request that was
made, and `TasksInv` says that a task past its first await has one. It also counts: a
task that moves takes one thread at most, and none if it had one or needs none
(`TaskMoves`), so no more are polled than there are threads.

Compositions. `MCServices` and `MCProgress` put components side by side, one moving at a
time. Each component's own specification is shown to follow from the composed one
(`InputAlone`, `MicAlone` and so on), so that its theorems hold there and the
compositions keep all types and all promises. Most types are part of the invariants
above; four needed more. The times and gestures of an input job come from a clock that no
job passes, and the count of the reliable queue stays within its limit (`InputFits`); of a
capture, what was dropped and what was observed never pass the slot's sequence number,
nor a viewport what was observed (`CaptureInv`); the log's channel takes a chunk only
when it has a place (`LogFits`); the fourth is `TasksInv`.

Only model-checked: `EveryWaiterLeavesQueue`, `TasksFinish`, `LastFrameIsShown` and
`OutputIsTaken`, because liveness under fairness is out of the prover's reach. Every
invariant and every other property of the passing runs is a theorem. The properties of
the six runs that expect a violation are refuted and have no theorem.

## 6. What the code does not keep

* `pool_three_starts`: the comment on `StartTicket::wait` asks callers to use a
  dedicated worker; `start_device` waits on the shared pool of two threads. With one
  engine booting and two starts queued nothing moves any more, and the cancel is a
  task of the same pool.
* `device_cancel`: `schedule_start` is not atomic. A delayed stop of the same
  device that cancels the request before it is marked Queued leaves the device
  Starting for good.
* `device_monitor`: the monitor's scan counts external instances with no demand, so
  that a queued start may exceed the budget that is meant to include them.
* `device_rescan`: a rescan does replace the error of a failed start (and the
  Stopping of an engine that has exited), which the architecture document excludes.
* `input_detach`: a detached viewport does not always send its release: the worker
  that looked into the channel just before may see the stop flag and end.
* `launch_orphan`: a launch that ends before it saw the advertisement kills the
  launcher only; an engine already forked goes on.

Four more disagreements have no run of their own: a property that holds says what the
code does keep and names the case as its exception.

* `ManagedEnginesCounted` and `SessionsOutliveEngines` except a scan made under another
  SDK than the engine's. docs/en/ARCHITECTURE.md:112-113 says "A reservation starts
  before spawn and lives with the session until exact stop or verified process
  disappearance." The probe `verify_emulator_pid(pid, sdk_root)` is false for a live
  engine outside `sdk_root`, and both scanning threads read that setting anew at each
  scan (`src/ui/main_window.rs:321`). After a change of the setting a scan drops the
  session, the port and the allocation of an engine that goes on.
* `GuestFollowsInput` excepts the right button let go while there is no frame.
  docs/en/ARCHITECTURE.md:163 says "Cancel/detach/focus loss always sends a release."
  `connect_released` clears `right_pressed` and, without a transform, sends nothing
  (`src/ui/input.rs:760-775`); `release_mouse` asks `right_pressed` and sends nothing
  either, so the engine keeps the button until it is pressed and let go again.
* `CacheKeepsItsLimit` excepts one entry. `src/core/package_service.rs:265` says the
  shared lease keeps downloads from exceeding the limit together, and
  docs/ARCHITECTURE.md:144 refuses archives without a size so that the limit is not
  exceeded first and mended afterwards. Room is made for the announced size, but the
  download writes what the server sends (`src/core/download.rs:211-219`), and only the
  finished archive's size is compared: a failed download of a longer file leaves its
  part, and a longer archive without a checksum is in place before it is refused, both
  with the locks free.
* `OnlyAnExitLeaks` excepts a session whose endpoint could not be recovered.
  `src/core/microphone.rs:568` says the modules are unloaded at a normal stop and outlive
  only an exit. When `pactl` cannot list the modules, or the FIFO is not one, `recover()`
  fails and the session goes on without its endpoint (`src/core/instance.rs:1271-1283`);
  stopping it removes the metadata and leaves the modules loaded. A failing unload is
  ignored as well (`src/core/microphone.rs:1049-1053`).

Met while modelling and not stated as a property, because no document promises the
contrary:

* Runtime: a commit that the registry refuses has dropped port and allocation before the
  engine is stopped, up to 25 s later; until then another start may take both. When that
  stop, or the one a failed boot awaits, fails, the start ends and its engine lives on
  uncounted; after a failed boot the cleanup thread tries once more. `device_scans`
  reaches both, and `ManagedEnginesCounted` names them.
* Microphone: a guest whose last disabling RPC failed keeps its microphone on; the error
  is reported and nothing tries again. `MicrophoneIsTurned` leaves that guest out.
* Microphone: a canceled source that joined the gate behind its successor keeps the
  host's input open until its turn.
* Advertisements: an event is not reported at all when the directory is made between
  finding the deepest directory and watching it, or removed and made again before the
  watch is bound anew. `NoReportIsForgotten` speaks of reported events.
* Audio: two output streams may exist for a moment, when a pump creates one while
  another is still in use.
* Operations: a file whose `mv -n` had ended when the operation was canceled stays
  published; operation ids start again at 1 in every process, so an old part of the
  same name is refused and not overwritten; screenshots of two AVDs whose safe names
  coincide: the second fails. Killing the adb client may not stop adbd at once; the
  model lets the kill end it.
* Launch: the next attempt may find the orphan's advertisement, fail its checks and
  stop it; the cleanup thread removes the port's shared-memory file by name and may
  take that of a newer launch; a stale advertisement or marker whose pid was reused
  blocks a launch; `stop_process` does not verify again before KILL.
* Recovery: modules stay loaded when a process ends between loading and recording
  them, or right after a stop began to unload them, or when `pactl` fails to unload or,
  for a stale directory, to list them: nothing tries again. A recovery that fails
  after its capture started keeps the identity and unloads the microphone.
* Store: a crash between backup and swap leaves the component missing, its old copy
  whole under `.tmp-backup`, and nothing restores it; so does a failure to make the
  directory around the component, and a rename back that fails. `install` does not
  ask whether the component is in use, as uninstall does. Without a checksum a
  resumed download of a changed file is accepted. The archive may be pruned between
  the lock's release and its unpacking.
* AVDs: the rollback of a creation whose rename was refused, because another tool had
  made that name meanwhile, removes the other tool's directory and ini file, although
  `rename_noreplace` exists so that a race does not overwrite an AVD
  (`src/core/avd.rs:546`). `AvdsAreWhole` is about liteavd's own AVDs. A crash
  between the two renames leaves a directory without an ini file, never listed, that
  blocks its name.
* Log: a reading during a rotation misses the rotated text or fails; the export reads
  the files anew and may differ from what is shown.

## 7. Not modelled, and the plan

Abstracted in the modules above: texts of statuses and errors; saturation of sums
(a saturated sum exceeds every budget, as the sum does); wrap-around of the 64-bit
counters; changing the GPU policy while the application runs; a second start task of
the same device, which a click between a failed start's report and the drop of its
permit would make; values of samples, pixels, coordinates and key codes; parsing of
repositories, archives and adb output; the HTTP and gRPC transports below their
outcomes.

Not modelled: `core/settings.rs` (one file, saved like the workspace's), telemetry
(counters nobody reads back), the snapshot operations and keypress of
`core/operation.rs` (single calls that check their route before and after), `delete_avd`
(no caller), the GTK pages (one thread that calls the services), the repository
parser, generated code.

Next: the snapshot operations, composed with the revision that restarts the streams.

## 8. Running

```
tlc -workers 2 -config LaunchScheduler.cfg MCLaunchScheduler
tlc -workers 2 -config Services.cfg MCServices        # the longest, some two minutes
tlapm LaunchSchedulerProofs.tla
tlapm DeviceRuntimeProofs.tla                         # the longest, some twelve minutes
tlapm InstanceRegistryProofs.tla                      # likewise InputQueueProofs, StoreProofs,
                                                      # StreamProofs, ServiceProofs,
                                                      # ProgressProofs
```
