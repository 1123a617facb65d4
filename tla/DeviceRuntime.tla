----------------------------- MODULE DeviceRuntime -----------------------------
(***************************************************************************)
(* DeviceRuntime (src/src/core/instance.rs) and the programs that run on    *)
(* it: start_device and stop_device (src/src/ui/device_list.rs) and the     *)
(* advertisement scans of the monitor thread and of the device list.        *)
(*                                                                          *)
(* The runtime owns the registry, the launch scheduler, the console port    *)
(* allocator and the workspace, each under a lock of its own.  A program    *)
(* takes one lock at a time, so each step below is what happens under one   *)
(* lock, or one awaited effect on the engines; everything else may happen   *)
(* in between.                                                              *)
(*                                                                          *)
(* Composed of InstanceRegistry and LaunchScheduler through their actions.  *)
(* A start owns its generation until its last write (StartsOwnTheirDevices  *)
(* of DeviceRuntimeProofs), so the branches that handle a stale start       *)
(* command have no action.                                                  *)
(* Waiting in the queue is TryAcquire when the ticket becomes ready, or the *)
(* Canceled result; the threads that wait are in LaunchScheduler and in     *)
(* BackgroundStarts.  The status callback of a waiting start writes Queued  *)
(* again and changes nothing here.  Left out: control health, focus and     *)
(* selection, the recovery of a session's gRPC identity.                    *)
(*                                                                          *)
(* An engine is its process; a scan reads the advertisement of any subset   *)
(* of the live ones, since the files appear late and may be missing.  Pids  *)
(* are not reused.  A device has one start and one stop task at a time; the *)
(* buttons follow the device's phase.                                       *)
(*                                                                          *)
(* The SDK in use is a setting, and sdk_root() reads it anew: every launch  *)
(* and every scan has some SDK, and nothing ties it to an earlier one.      *)
(***************************************************************************)
EXTENDS Integers, Sequences, FiniteSets

CONSTANTS
  Avds, NoAvd,
  Ports, NoPort,   \* the even console ports
  Demand,          \* the ResourceDemand each AVD's configuration declares
  MaxStarts, MemoryBudget, GpuSlots, NoLimit,  \* SchedulerConfig
  Scanners,        \* which of the two threads that scan: "monitor", "list"
  Sdks, NoSdk,     \* the SDK roots the setting may name
  MaxEngines,      \* bound: engine processes started in one behaviour
  MaxRequests, MaxGeneration, MaxSessions      \* bounds of the components

NoDemand == [memory_mb |-> 0, gpu_slots |-> 0]
Pids == 1..MaxEngines

ASSUME RegistryAssumption ==
  /\ IsFiniteSet(Avds)
  /\ IsFiniteSet(Ports) /\ Ports \subseteq Nat /\ NoPort \notin Ports
  /\ MaxGeneration \in Nat /\ MaxSessions \in Nat
ASSUME SchedulerAssumption ==
  /\ NoAvd \notin Avds
  /\ Demand \in [Avds -> [memory_mb : Nat, gpu_slots : Nat]]
  /\ MaxStarts \in Nat \ {0} /\ MaxRequests \in Nat
  /\ MemoryBudget \in Nat \cup {NoLimit} /\ GpuSlots \in Nat \cup {NoLimit}
  /\ NoLimit \notin Nat
ASSUME EngineAssumption == MaxEngines \in Nat
ASSUME ScannerAssumption == Scanners \subseteq {"monitor", "list"}

VARIABLES
  states, next_generation, sessions, by_avd, by_port, next_session_id,
  starts, stops,                                     \* the registry
  next_id, queue, active, external, owner, last_status, sleeping,  \* the scheduler
  reserved,   \* PortAllocatorState::reserved
  leases,     \* per managed session: its ResourceReservation and PortReservation
  workspace,  \* WorkspaceState::routes
  start,      \* the start_device task of each AVD
  stop,       \* the stop_device task of each AVD
  scan,       \* the scan of each scanner
  engines,    \* the live engine processes
  spawned,    \* how many engines were started so far
  managed,    \* which of the live engines liteavd started
  roots       \* by pid: the SDK root that holds the engine's executable

Reg == INSTANCE InstanceRegistry
Sched == INSTANCE LaunchScheduler
           WITH Keys <- Avds, NoKey <- NoAvd,
                Demands <- {Demand[a] : a \in Avds} \cup {NoDemand}

regVars == <<states, next_generation, sessions, by_avd, by_port,
             next_session_id, starts, stops>>
schedVars == <<next_id, queue, active, external, owner, last_status, sleeping>>
engineVars == <<engines, spawned, managed, roots>>
resourceVars == <<reserved, leases>>
runtimeVars == <<regVars, schedVars, engineVars, resourceVars, workspace,
                 start, stop, scan>>

Without(f, S) == [x \in DOMAIN f \ S |-> f[x]]

(***************************************************************************)
(* The pcs of a start: begun, enqueued, checked (the ticket's status was    *)
(* read), waiting, permitted, starting, listed (the occupied ports),        *)
(* reserved (a port), launched, booting, booted, committing (the permit     *)
(* became a reservation); cleaning and refused, where a failed start awaits *)
(* the end of its engine with and without its resources; failing, dropping; *)
(* syncing and applying, the two halves of sync_workspace.                  *)
(***************************************************************************)
StartPcs == {"idle", "begun", "enqueued", "checked", "waiting", "permitted",
             "starting", "listed", "reserved", "launched", "booting", "booted",
             "committing", "cleaning", "refused", "failing", "dropping",
             "syncing", "applying"}
StopPcs == {"idle", "clicked", "canceling", "beginning", "killing", "killed",
            "failed", "uncounting", "syncing", "applying"}
ScanPcs == {"idle", "read", "merged", "counted"}

IdleStart == [pc |-> "idle", generation |-> 0, request |-> 0,
              occupied |-> {}, port |-> NoPort, pid |-> 0, routes |-> {}]
IdleStop == [pc |-> "idle", generation |-> 0, session |-> 0, routes |-> {}]
IdleScan == [pc |-> "idle", sdk |-> NoSdk, observed |-> {}, adopted |-> {}, routes |-> {}]

StartCommand(a) == [avd |-> a, generation |-> start[a].generation]
StopCommand(a) == [avd |-> a, generation |-> stop[a].generation,
                   session |-> stop[a].session]
Engine(a) == [avd |-> a, port |-> start[a].port, pid |-> start[a].pid]

At(a, pc) == start[a].pc = pc
Goto(a, pc) == start' = [start EXCEPT ![a].pc = pc]
StopAt(a, pc) == stop[a].pc = pc
StopGoto(a, pc) == stop' = [stop EXCEPT ![a].pc = pc]

Init ==
  /\ Reg!Init
  /\ Sched!Init
  /\ reserved = {}
  /\ leases = [i \in {} |-> 0]
  /\ workspace = {}
  /\ start = [a \in Avds |-> IdleStart]
  /\ stop = [a \in Avds |-> IdleStop]
  /\ scan = [s \in Scanners |-> IdleScan]
  /\ engines = {}
  /\ spawned = 0
  /\ managed = {}
  /\ roots = <<>>

-----------------------------------------------------------------------------
(* start_device.                                                            *)

StartFrame == UNCHANGED <<stop, scan>>

BeginStart(a) ==
  /\ At(a, "idle")
  /\ Reg!BeginStart(a)
  /\ start' = [start EXCEPT ![a] =
       [IdleStart EXCEPT !.pc = "begun", !.generation = next_generation + 1]]
  /\ UNCHANGED <<schedVars, engineVars, resourceVars, workspace>> /\ StartFrame

Enqueue(a) ==
  /\ At(a, "begun")
  /\ Sched!Enqueue(a, Demand[a])
  /\ start' = [start EXCEPT ![a].pc = "enqueued", ![a].request = next_id + 1]
  /\ UNCHANGED <<regVars, engineVars, resourceVars, workspace>> /\ StartFrame

(* A refused request: fail_start with the scheduler's error.                *)
EnqueueRefused(a) ==
  /\ At(a, "begun")
  /\ ~(Sched!Admissible(Demand[a]) /\ Sched!KeyIsFree(a))
  /\ Reg!FailStart(StartCommand(a))
  /\ start' = [start EXCEPT ![a] = IdleStart]
  /\ UNCHANGED <<schedVars, engineVars, resourceVars, workspace>> /\ StartFrame

(* `ticket.status()?`: fails when the request was cancelled meanwhile.      *)
CheckTicket(a) ==
  /\ At(a, "enqueued")
  /\ start[a].request \in Sched!QueueIds
  /\ Goto(a, "checked")
  /\ UNCHANGED <<regVars, schedVars, engineVars, resourceVars, workspace>> /\ StartFrame

(* The ticket is found cancelled, by `status` or by the wait: the task ends *)
(* and leaves the phase to whoever cancelled.                               *)
Canceled(a) ==
  /\ At(a, "enqueued") \/ At(a, "waiting")
  /\ start[a].request \notin Sched!QueueIds
  /\ Sched!DropTicket(start[a].request)
  /\ Reg!DropStart(StartCommand(a))
  /\ start' = [start EXCEPT ![a] = IdleStart]
  /\ UNCHANGED <<engineVars, resourceVars, workspace>> /\ StartFrame

MarkQueued(a) ==
  /\ At(a, "checked")
  /\ Reg!MarkStart(StartCommand(a), "Queued")
  /\ Goto(a, "waiting")
  /\ UNCHANGED <<schedVars, engineVars, resourceVars, workspace>> /\ StartFrame

Acquire(a) ==
  /\ At(a, "waiting")
  /\ Sched!TryAcquire(start[a].request)
  /\ Goto(a, "permitted")
  /\ UNCHANGED <<regVars, engineVars, resourceVars, workspace>> /\ StartFrame

MarkStarting(a) ==
  /\ At(a, "permitted")
  /\ Reg!MarkStart(StartCommand(a), "Starting")
  /\ Goto(a, "starting")
  /\ UNCHANGED <<schedVars, engineVars, resourceVars, workspace>> /\ StartFrame

(* reserve_port: the running instances and then the registry say which      *)
(* ports are occupied.  The list misses an engine that is not advertised.   *)
ListPorts(a) ==
  /\ At(a, "starting")
  /\ \E visible \in SUBSET engines :
       start' = [start EXCEPT ![a].pc = "listed",
                   ![a].occupied = {o.port : o \in visible} \cup DOMAIN by_port]
  /\ UNCHANGED <<regVars, schedVars, engineVars, resourceVars, workspace>> /\ StartFrame

(* A fault: the allocator does not look at its own reservations.            *)
FreeIgnoringReserved(occupied) == Ports \ occupied
FreePorts(occupied) == Ports \ (occupied \cup reserved)

(* The allocator gives the lowest port that is neither occupied nor         *)
(* reserved; attach_start_port writes what only this task looks at.         *)
ReservePort(a) ==
  /\ At(a, "listed")
  /\ \E port \in FreePorts(start[a].occupied) :
       /\ \A p \in FreePorts(start[a].occupied) : port <= p
       /\ Reg!AttachStartPort(StartCommand(a), port)
       /\ reserved' = reserved \cup {port}
       /\ start' = [start EXCEPT ![a].pc = "reserved", ![a].port = port,
                                 ![a].occupied = {}]
  /\ UNCHANGED <<schedVars, engineVars, leases, workspace>> /\ StartFrame

PortsExhausted(a) ==
  /\ At(a, "listed")
  /\ FreePorts(start[a].occupied) = {}
  /\ start' = [start EXCEPT ![a].pc = "failing", ![a].occupied = {}]
  /\ UNCHANGED <<regVars, schedVars, engineVars, resourceVars, workspace>> /\ StartFrame

(* launch: an AVD or a port in use is refused by validate_launch_slot, or   *)
(* by the engine itself.                                                    *)
Spawn(a, port) ==
  /\ spawned < MaxEngines
  /\ \A o \in engines : o.avd # a /\ o.port # port
  /\ spawned' = spawned + 1
  /\ engines' = engines \cup {[avd |-> a, port |-> port, pid |-> spawned + 1]}
  /\ \E root \in Sdks : roots' = Append(roots, root)

Launch(a) ==
  /\ At(a, "reserved")
  /\ Spawn(a, start[a].port)
  /\ managed' = managed \cup {spawned + 1}
  /\ start' = [start EXCEPT ![a].pc = "launched", ![a].pid = spawned + 1]
  /\ UNCHANGED <<regVars, schedVars, resourceVars, workspace>> /\ StartFrame

LaunchFails(a) ==
  /\ At(a, "reserved")
  /\ Goto(a, "failing")
  /\ UNCHANGED <<regVars, schedVars, engineVars, resourceVars, workspace>> /\ StartFrame

MarkBooting(a) ==
  /\ At(a, "launched")
  /\ Reg!MarkStart(StartCommand(a), "Booting")
  /\ Goto(a, "booting")
  /\ UNCHANGED <<schedVars, engineVars, resourceVars, workspace>> /\ StartFrame

Boots(a) ==
  /\ At(a, "booting")
  /\ Engine(a) \in engines
  /\ Goto(a, "booted")
  /\ UNCHANGED <<regVars, schedVars, engineVars, resourceVars, workspace>> /\ StartFrame

(* A fault: the engine of a failed boot is not stopped.                     *)
BootFailsUnstopped(a) ==
  /\ At(a, "booting")
  /\ Goto(a, "failing")
  /\ UNCHANGED <<regVars, schedVars, engineVars, resourceVars, workspace>> /\ StartFrame

(* wait_for_boot fails: stop_launched is awaited, with everything in hand.  *)
BootFails(a) ==
  /\ At(a, "booting")
  /\ Goto(a, "cleaning")
  /\ UNCHANGED <<regVars, schedVars, engineVars, resourceVars, workspace>> /\ StartFrame

(* The end of stop_launched or stop_instance: the engine exits, within the  *)
(* 25 s of its two signals, or the stop fails and it lives on.  Either way  *)
(* the start goes on and is done with the engine; if that ends later, by    *)
(* the clean-up thread LaunchedInstance's drop leaves behind, it is a Crash.*)
CleanUp(a) ==
  /\ At(a, "cleaning") \/ At(a, "refused")
  /\ \/ /\ engines' = {o \in engines : o.pid # start[a].pid}
        /\ managed' = managed \ {start[a].pid}
     \/ UNCHANGED <<engines, managed>>
  /\ start' = [start EXCEPT ![a].pc = "failing", ![a].pid = 0]
  /\ UNCHANGED <<spawned, roots, regVars, schedVars, resourceVars, workspace>> /\ StartFrame

(* complete_scheduled_start: into_reservation, then the registry's          *)
(* complete_start_with_resources, which may refuse.                         *)
IntoReservation(a) ==
  /\ At(a, "booted")
  /\ Sched!IntoReservation(start[a].request)
  /\ Goto(a, "committing")
  /\ UNCHANGED <<regVars, engineVars, resourceVars, workspace>> /\ StartFrame

(* A fault: the session does not keep the reservations.                     *)
CommitWithoutLease(a) ==
  /\ At(a, "committing")
  /\ Reg!CompleteStart(StartCommand(a), start[a].pid)
  /\ leases' = leases
  /\ Goto(a, "syncing")
  /\ UNCHANGED <<schedVars, engineVars, reserved, workspace>> /\ StartFrame

Commit(a) ==
  /\ At(a, "committing")
  /\ Reg!CompleteStart(StartCommand(a), start[a].pid)
  /\ leases' = [i \in DOMAIN leases \cup {next_session_id + 1} |->
                  IF i = next_session_id + 1
                  THEN [request |-> start[a].request, port |-> start[a].port]
                  ELSE leases[i]]
  /\ Goto(a, "syncing")
  /\ UNCHANGED <<schedVars, engineVars, reserved, workspace>> /\ StartFrame

(* The registry refuses: complete_start_with_resources drops the two        *)
(* reservations on its way out, while the engine is still up; the stop is   *)
(* awaited after that.                                                      *)
CommitRefused(a) ==
  /\ At(a, "committing")
  /\ ~Reg!IndexesFree(StartCommand(a))
  /\ Sched!DropReservation(start[a].request)
  /\ reserved' = reserved \ {start[a].port}
  /\ start' = [start EXCEPT ![a].pc = "refused", ![a].request = 0, ![a].port = NoPort]
  /\ UNCHANGED <<regVars, engineVars, leases, workspace>> /\ StartFrame

(* publish_start_failure, and then the return that drops what is held.      *)
FailStart(a) ==
  /\ At(a, "failing")
  /\ Reg!FailStart(StartCommand(a))
  /\ Goto(a, "dropping")
  /\ UNCHANGED <<schedVars, engineVars, resourceVars, workspace>> /\ StartFrame

DropHeld(a) ==
  /\ At(a, "dropping")
  /\ IF start[a].request = 0 THEN UNCHANGED schedVars
     ELSE Sched!DropPermit(start[a].request)
  /\ reserved' = reserved \ {start[a].port}
  /\ start' = [start EXCEPT ![a] = IdleStart]
  /\ UNCHANGED <<regVars, engineVars, leases, workspace>> /\ StartFrame

(* sync_workspace: the routes are read under the registry's lock and        *)
(* applied under the workspace's.                                           *)
StartSyncs(a) ==
  /\ \/ /\ At(a, "syncing")
        /\ start' = [start EXCEPT ![a].pc = "applying", ![a].routes = Reg!Routes]
        /\ UNCHANGED workspace
     \/ /\ At(a, "applying")
        /\ workspace' = start[a].routes
        /\ start' = [start EXCEPT ![a] = IdleStart]
  /\ UNCHANGED <<regVars, schedVars, engineVars, resourceVars>> /\ StartFrame

StartStep(a) ==
  \/ BeginStart(a) \/ Enqueue(a) \/ EnqueueRefused(a) \/ CheckTicket(a)
  \/ Canceled(a) \/ MarkQueued(a) \/ Acquire(a) \/ MarkStarting(a)
  \/ ListPorts(a) \/ ReservePort(a) \/ PortsExhausted(a) \/ Launch(a) \/ LaunchFails(a)
  \/ MarkBooting(a) \/ Boots(a) \/ BootFails(a) \/ CleanUp(a)
  \/ IntoReservation(a) \/ Commit(a) \/ CommitRefused(a)
  \/ FailStart(a) \/ DropHeld(a) \/ StartSyncs(a)

-----------------------------------------------------------------------------
(* A session leaves the registry: what it owns is dropped with it.          *)
DropLeases(ids) ==
  LET requests == {leases[i].request : i \in ids \cap DOMAIN leases}
  IN /\ active' = Without(active, requests)
     /\ owner' = [r \in DOMAIN owner |-> IF r \in requests THEN "gone" ELSE owner[r]]
     /\ reserved' = reserved \ {leases[i].port : i \in ids \cap DOMAIN leases}
     /\ leases' = Without(leases, ids)
     /\ UNCHANGED <<next_id, queue, external, last_status, sleeping>>

(* stop_device.                                                             *)
StopFrame == UNCHANGED <<start, scan>>

(* can_stop: a queued start, or a session that is running or failed.        *)
CanStop(a) ==
  IF a \in DOMAIN by_avd
  THEN states[a].phase \in {"Running", "Error"} \cup Reg!Recovering
  ELSE states[a].phase = "Queued"

ClickStop(a) ==
  /\ StopAt(a, "idle")
  /\ CanStop(a)
  /\ StopGoto(a, "clicked")
  /\ UNCHANGED <<regVars, schedVars, engineVars, resourceVars, workspace>> /\ StopFrame

(* cancel_queued_start: the scheduler first, then the registry.             *)
CancelRequest(a) ==
  /\ StopAt(a, "clicked")
  /\ Sched!Cancel(a)
  /\ StopGoto(a, "canceling")
  /\ UNCHANGED <<regVars, engineVars, resourceVars, workspace>> /\ StopFrame

NothingQueued(a) ==
  /\ StopAt(a, "clicked")
  /\ a \notin Sched!QueueKeys
  /\ StopGoto(a, "beginning")
  /\ UNCHANGED <<regVars, schedVars, engineVars, resourceVars, workspace>> /\ StopFrame

CancelPhase(a) ==
  /\ StopAt(a, "canceling")
  /\ Reg!CancelQueued(a)
  /\ stop' = [stop EXCEPT ![a] = IdleStop]
  /\ UNCHANGED <<schedVars, engineVars, resourceVars, workspace>> /\ StopFrame

NotQueued(a) ==
  /\ StopAt(a, "canceling")
  /\ states[a].phase # "Queued"
  /\ StopGoto(a, "beginning")
  /\ UNCHANGED <<regVars, schedVars, engineVars, resourceVars, workspace>> /\ StopFrame

BeginStop(a) ==
  /\ StopAt(a, "beginning")
  /\ Reg!BeginStop(a)
  /\ stop' = [stop EXCEPT ![a] =
       [IdleStop EXCEPT !.pc = "killing", !.generation = next_generation + 1,
                        !.session = by_avd[a]]]
  /\ UNCHANGED <<schedVars, engineVars, resourceVars, workspace>> /\ StopFrame

NothingRunning(a) ==
  /\ StopAt(a, "beginning")
  /\ a \notin DOMAIN by_avd
  /\ stop' = [stop EXCEPT ![a] = IdleStop]
  /\ UNCHANGED <<regVars, schedVars, engineVars, resourceVars, workspace>> /\ StopFrame

(* stop_managed or stop_instance, for the engine begin_stop found: it exits,*)
(* or it had exited before; or the stop fails and it lives on.  It fails at *)
(* once for an adopted engine that is not of the row's SDK.                 *)
StopTarget(a) ==
  {o \in engines : stop[a].session \in DOMAIN sessions
                   /\ o = sessions[stop[a].session].instance}

EngineExits(a) ==
  /\ StopAt(a, "killing")
  /\ engines' = engines \ StopTarget(a)
  /\ managed' = managed \ {o.pid : o \in StopTarget(a)}
  /\ StopGoto(a, "killed")
  /\ UNCHANGED <<regVars, schedVars, spawned, roots, resourceVars, workspace>> /\ StopFrame

(* A fault: the result of the stop is not looked at.                        *)
StopFailureIgnored(a) ==
  /\ StopAt(a, "killing")
  /\ StopTarget(a) # {}
  /\ StopGoto(a, "killed")
  /\ UNCHANGED <<regVars, schedVars, engineVars, resourceVars, workspace>> /\ StopFrame

EngineStays(a) ==
  /\ StopAt(a, "killing")
  /\ StopTarget(a) # {}
  /\ StopGoto(a, "failed")
  /\ UNCHANGED <<regVars, schedVars, engineVars, resourceVars, workspace>> /\ StopFrame

CompleteStop(a) ==
  /\ StopAt(a, "killed")
  /\ Reg!CompleteStop(StopCommand(a))
  /\ DropLeases({stop[a].session})
  /\ StopGoto(a, "uncounting")
  /\ UNCHANGED <<engineVars, workspace>> /\ StopFrame

FailStop(a) ==
  /\ StopAt(a, "failed")
  /\ Reg!FailStop(StopCommand(a))
  /\ stop' = [stop EXCEPT ![a] = IdleStop]
  /\ UNCHANGED <<schedVars, engineVars, resourceVars, workspace>> /\ StopFrame

(* complete_stop or fail_stop is told that the command is stale.            *)
StaleStop(a) ==
  /\ StopAt(a, "killed") \/ StopAt(a, "failed")
  /\ Reg!DropStop(StopCommand(a))
  /\ stop' = [stop EXCEPT ![a] = IdleStop]
  /\ UNCHANGED <<schedVars, engineVars, resourceVars, workspace>> /\ StopFrame

(* complete_stop goes on: remove_external, then sync_workspace.             *)
Uncount(a) ==
  /\ StopAt(a, "uncounting")
  /\ IF a \in DOMAIN external THEN Sched!RemoveExternal(a) ELSE UNCHANGED schedVars
  /\ StopGoto(a, "syncing")
  /\ UNCHANGED <<regVars, engineVars, resourceVars, workspace>> /\ StopFrame

StopSyncs(a) ==
  /\ \/ /\ StopAt(a, "syncing")
        /\ stop' = [stop EXCEPT ![a].pc = "applying", ![a].routes = Reg!Routes]
        /\ UNCHANGED workspace
     \/ /\ StopAt(a, "applying")
        /\ workspace' = stop[a].routes
        /\ stop' = [stop EXCEPT ![a] = IdleStop]
  /\ UNCHANGED <<regVars, schedVars, engineVars, resourceVars>> /\ StopFrame

StopStep(a) ==
  \/ ClickStop(a) \/ CancelRequest(a) \/ NothingQueued(a) \/ CancelPhase(a)
  \/ NotQueued(a) \/ BeginStop(a) \/ NothingRunning(a)
  \/ EngineExits(a) \/ EngineStays(a)
  \/ CompleteStop(a) \/ FailStop(a) \/ StaleStop(a) \/ Uncount(a) \/ StopSyncs(a)

-----------------------------------------------------------------------------
(* A scan: read the advertisement files, merge them into the registry,      *)
(* count the external instances, apply the routes.                          *)
ScanFrame == UNCHANGED <<start, stop>>

(* list_running_for_sdk and the probe of the merge are about one SDK: an    *)
(* engine of another is neither seen nor found alive.                       *)
OfSdk(sdk) == {o \in engines : roots[o.pid] = sdk}

ReadAds(s) ==
  /\ scan[s].pc = "idle"
  /\ \E sdk \in Sdks : \E observed \in SUBSET OfSdk(sdk) :
       scan' = [scan EXCEPT ![s] = [IdleScan EXCEPT !.pc = "read", !.sdk = sdk,
                                                   !.observed = observed]]
  /\ UNCHANGED <<regVars, schedVars, engineVars, resourceVars, workspace>> /\ ScanFrame

AdoptedAvds ==
  {sessions[i].instance.avd :
     i \in {j \in DOMAIN sessions : sessions[j].origin # "Managed"}}

(* The probe, verify_emulator_pid, is asked about the sessions that are not *)
(* advertised.                                                              *)
Alive(observed, sdk) ==
  OfSdk(sdk) \cap {sessions[i].instance : i \in Reg!Missing(observed)}

ExitedSessions(observed, sdk) == Reg!Exited(observed, Alive(observed, sdk))

Merge(s) ==
  /\ scan[s].pc = "read"
  /\ Reg!ReconcileRunning(scan[s].observed, Alive(scan[s].observed, scan[s].sdk), {})
  /\ DropLeases(ExitedSessions(scan[s].observed, scan[s].sdk))
  /\ scan' = [scan EXCEPT ![s] =
       [IdleScan EXCEPT !.pc = "merged", !.adopted = AdoptedAvds', !.routes = Reg!Routes']]
  /\ UNCHANGED <<engineVars, workspace>> /\ ScanFrame

(* The device list knows every AVD's configuration; the monitor's callback  *)
(* passes no demands.                                                       *)
ScanDemand(s, a) == IF s = "list" THEN Demand[a] ELSE NoDemand

CountExternal(s) ==
  /\ scan[s].pc = "merged"
  /\ Sched!ReconcileExternal([a \in scan[s].adopted |-> ScanDemand(s, a)])
  /\ scan' = [scan EXCEPT ![s].pc = "counted", ![s].adopted = {}]
  /\ UNCHANGED <<regVars, engineVars, resourceVars, workspace>> /\ ScanFrame

ApplyRoutes(s) ==
  /\ scan[s].pc = "counted"
  /\ workspace' = scan[s].routes
  /\ scan' = [scan EXCEPT ![s] = IdleScan]
  /\ UNCHANGED <<regVars, schedVars, engineVars, resourceVars>> /\ ScanFrame

ScanStep(s) == ReadAds(s) \/ Merge(s) \/ CountExternal(s) \/ ApplyRoutes(s)

-----------------------------------------------------------------------------
(* The engines: somebody else starts one, and any of them may die.          *)
ExternalStart(a) ==
  /\ \E port \in Ports : Spawn(a, port)
  /\ UNCHANGED <<regVars, schedVars, managed, resourceVars, workspace, start, stop, scan>>

Crash(o) ==
  /\ engines' = engines \ {o}
  /\ managed' = managed \ {o.pid}
  /\ UNCHANGED <<regVars, schedVars, spawned, roots, resourceVars, workspace, start, stop, scan>>

Next ==
  \/ \E a \in Avds : StartStep(a) \/ StopStep(a) \/ ExternalStart(a)
  \/ \E s \in Scanners : ScanStep(s)
  \/ \E o \in engines : Crash(o)

Spec == Init /\ [][Next]_runtimeVars

-----------------------------------------------------------------------------
(* The types of what the runtime adds to its components.                    *)
RuntimeTypeOK ==
  /\ Reg!TypeOK /\ Sched!TypeOK
  /\ reserved \subseteq Ports
  /\ DOMAIN leases \subseteq Reg!SessionIds
  /\ \A i \in DOMAIN leases : leases[i] \in [request : Sched!Ids, port : Ports]
  /\ \A a \in Avds : start[a].pc \in StartPcs /\ stop[a].pc \in StopPcs
  /\ \A s \in Scanners : scan[s].pc \in ScanPcs
  /\ engines \subseteq Reg!Instances
  /\ managed \subseteq {o.pid : o \in engines}
  /\ roots \in Seq(Sdks) /\ Len(roots) = spawned

(* Everything the runtime hands out has one owner: a console port and a     *)
(* scheduler allocation belong to exactly one start task or one managed     *)
(* session, the session's own; and a managed session owns both until it     *)
(* leaves the registry, by stop, by a scan or never.                        *)
Holders == {a \in Avds : start[a].pc \in {"permitted", "starting", "listed",
             "reserved", "launched", "booting", "booted", "committing", "cleaning",
             "refused", "failing", "dropping"}}
TaskRequests == {start[a].request : a \in Holders} \ {0}
TaskPorts == {start[a].port : a \in Holders} \ {NoPort}
LeaseRequests == {leases[i].request : i \in DOMAIN leases}
LeasePorts == {leases[i].port : i \in DOMAIN leases}
ResourcesOwned ==
  /\ DOMAIN leases = {i \in DOMAIN sessions : sessions[i].origin = "Managed"}
  /\ \A i \in DOMAIN leases :
       /\ leases[i].request \in DOMAIN active
       /\ active[leases[i].request].key = sessions[i].instance.avd
       /\ leases[i].port = sessions[i].instance.port
  /\ DOMAIN active = TaskRequests \cup LeaseRequests
  /\ reserved = TaskPorts \cup LeasePorts
  /\ TaskRequests \cap LeaseRequests = {} /\ TaskPorts \cap LeasePorts = {}
  /\ \A a, b \in Holders : start[a].port = start[b].port /\ a # b => start[a].port = NoPort

(* Both: what the runtime keeps beside its components is theirs.            *)
RuntimeIsSound == RuntimeTypeOK /\ ResourcesOwned

(* An engine liteavd starts is charged to the task or session it belongs to *)
(* and stays so for as long as it lives, whatever fails, stops or scans,    *)
(* except at three points: the commit that is refused, which stops the      *)
(* engine only afterwards; the failure of the stop that a failed start      *)
(* awaited, which then returns; and a scan under another SDK.  There the    *)
(* code breaks "a reservation ... lives with the session until exact stop   *)
(* or verified process disappearance" (docs/en/ARCHITECTURE.md:112).        *)
ChargedTo(o, r) ==
  \/ \E a \in Holders : start[a].pid = o.pid /\ start[a].request = r
  \/ \E i \in DOMAIN leases : sessions[i].instance = o /\ leases[i].request = r
Charged(o) == \E r \in DOMAIN active : ChargedTo(o, r)
GivenUp(o) ==
  \E a \in Avds :
    /\ start[a].pid = o.pid
    /\ \/ start[a].pc = "committing" /\ start'[a].pc = "refused"
       \/ start[a].pc = "cleaning" /\ start'[a].pc = "failing"
ScannedFromAnotherSdk(o) ==
  \E s \in Scanners :
    /\ scan[s].pc = "read" /\ scan'[s].pc = "merged"
    /\ scan[s].sdk # roots[o.pid]
ManagedEnginesCounted ==
  [][\A o \in engines' :
       /\ o.pid \in managed'
       /\ o \in engines => Charged(o)
       => Charged(o)' \/ GivenUp(o) \/ ScannedFromAnotherSdk(o)]_runtimeVars

(* A session is forgotten only when its engine is gone, or by a scan under  *)
(* another SDK than the engine's: a stop that failed, a late command or an  *)
(* advertisement that is missing does not lose it.                          *)
SessionsOutliveEngines ==
  [][\A i \in DOMAIN sessions \ DOMAIN sessions' :
       LET o == sessions[i].instance
       IN  o \notin engines \/ ScannedFromAnotherSdk(o)]_runtimeVars

(* An engine is launched only for a start that still owns its device: one    *)
(* that was cancelled, or whose device got a session or another command      *)
(* meanwhile, launches nothing.                                              *)
LaunchesAreCurrent ==
  [][\A pid \in managed' \ managed : \A a \in Avds :
       start'[a].pid = pid =>
         /\ states[a].phase = "Starting"
         /\ states[a].generation = start[a].generation
         /\ a \notin DOMAIN by_avd]_runtimeVars

(* A device shown as queued, starting or booting has a start task that will *)
(* take it out of that phase, or a cancel about to do so: schedule_start    *)
(* makes a start Queued in one piece, and cancelling it frees the request.  *)
ClaimedByStart ==
  \A a \in Avds :
    states[a].phase \in Reg!Claimed /\ ~StopAt(a, "canceling") =>
      start[a].pc # "idle" /\ start[a].generation = states[a].generation

(* A rescan merges facts from outside and leaves alone what a command did:  *)
(* a device that is starting, is being stopped or has failed stays so.      *)
RescanKeepsCommandPhases ==
  [][\A s \in Scanners, a \in Avds :
       /\ scan[s].pc = "read" /\ scan'[s].pc = "merged"
       /\ states[a].phase \in {"Starting", "Stopping", "Error"}
       => states'[a].phase = states[a].phase]_runtimeVars

(* When a start that needs memory is admitted, the engines of the external  *)
(* instances the registry holds fit the budget with everything allocated    *)
(* (unless a scan has merged them and is about to count them).              *)
AdoptedMemory ==
  Cardinality(UNION {{a} \X (1..Demand[a].memory_mb) : a \in AdoptedAvds})
AdoptedCounted ==
  [][/\ \E i \in DOMAIN active' : i \notin DOMAIN active /\ active'[i].demand.memory_mb > 0
     /\ \A s \in Scanners : scan[s].pc \in {"idle", "read"}
     => Sched!ActiveMemory' + AdoptedMemory <= MemoryBudget]_runtimeVars

=============================================================================
