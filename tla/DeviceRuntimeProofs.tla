-------------------------- MODULE DeviceRuntimeProofs --------------------------
(***************************************************************************)
(* Proofs about DeviceRuntime, for every set of AVDs, ports and scanners,   *)
(* every configuration of the scheduler and any number of requests,         *)
(* sessions and engines.                                                    *)
(*                                                                          *)
(* The registry and the scheduler are instances of modules with proofs of   *)
(* their own: RP and SP are the same instances, taken with those proofs.    *)
(* What is proved here is what the composition adds: that every command a   *)
(* task carries is one the registry handed out, so that the runtime         *)
(* implements the registry; that a start owns its device until its last     *)
(* write; and that allocations, ports and engines have one owner each.      *)
(***************************************************************************)
EXTENDS DeviceRuntime, TLAPS

RP == INSTANCE InstanceRegistryProofs
SP == INSTANCE LaunchSchedulerProofs
        WITH Keys <- Avds, NoKey <- NoAvd,
             Demands <- {Demand[a] : a \in Avds} \cup {NoDemand}

-----------------------------------------------------------------------------
(* The inductive invariant, in parts.                                       *)

EngineRecords == [avd : Avds, port : Ports, pid : Pids]
RouteRecords == [avd : Avds, session : 1..MaxSessions, generation : 0..MaxGeneration]
Observations ==
  {I \in SUBSET EngineRecords :
     \A o, p \in I : o.port = p.port \/ o.pid = p.pid => o = p}
StartTasks ==
  [pc : StartPcs, generation : 0..MaxGeneration, request : 0..MaxRequests,
   occupied : SUBSET Ports, port : Ports \cup {NoPort}, pid : 0..MaxEngines,
   routes : SUBSET RouteRecords]
StopTasks ==
  [pc : StopPcs, generation : 0..MaxGeneration, session : 0..MaxSessions,
   routes : SUBSET RouteRecords]
ScanTasks ==
  [pc : ScanPcs, sdk : Sdks \cup {NoSdk}, observed : Observations, adopted : SUBSET Avds,
   routes : SUBSET RouteRecords]

TaskTypes ==
  /\ start \in [Avds -> StartTasks]
  /\ stop \in [Avds -> StopTasks]
  /\ scan \in [Scanners -> ScanTasks]
  /\ engines \in Observations
  /\ spawned \in 0..MaxEngines
  /\ managed \subseteq {o.pid : o \in engines}

\* The registry's inductive invariant is RP!Inv; the scheduler's is this.
SchedInv == SP!QueueInv /\ SP!OneRequestPerKey

\* A task that will report a result holds its command.
HoldsCommand ==
  {"begun", "enqueued", "checked", "waiting", "permitted", "starting", "listed",
   "reserved", "launched", "booting", "booted", "committing", "cleaning", "refused",
   "failing"}
HoldsCommands(a) ==
  /\ start[a].pc \in HoldsCommand => StartCommand(a) \in starts
  /\ stop[a].pc \in {"killing", "killed", "failed"} => StopCommand(a) \in stops
CommandsAreHeld == \A a \in Avds : HoldsCommands(a)

\* A start owns its device until its last write, unless its request was
\* cancelled; then it will find that out, and a cancel under way finds the
\* device claimed.
Ticketed == {"enqueued", "checked", "waiting"}
HasPort == {"reserved", "launched", "booting", "booted", "committing"}
PhasesAt(pc) ==
  CASE pc \in {"begun", "enqueued", "checked", "starting", "listed", "reserved", "launched"}
         -> {"Starting"}
    [] pc \in {"waiting", "permitted"} -> {"Queued"}
    [] pc \in {"booting", "booted", "committing", "cleaning", "refused"} -> {"Booting"}
    [] pc = "failing" -> {"Queued", "Starting", "Booting"}
IsQueued(a) == start[a].request \in Sched!QueueIds
OwnsDevice(a) ==
  /\ /\ start[a].pc \in HoldsCommand
     /\ start[a].pc = "waiting" => IsQueued(a)
     => /\ states[a].generation = start[a].generation
        /\ states[a].phase \in PhasesAt(start[a].pc)
  /\ start[a].pc \in HasPort =>
       start[a].port \in Ports /\ states[a].console_port = start[a].port
  /\ stop[a].pc = "canceling" =>
       /\ states[a].phase \in {"Starting", "Queued"}
       /\ \/ start[a].pc = "idle"
          \/ start[a].pc \in Ticketed /\ ~IsQueued(a)
DevicesAreOwned == \A a \in Avds : OwnsDevice(a)

\* Who holds which request of the scheduler.
Permitted == {"permitted", "starting", "listed", "reserved", "launched", "booting", "booted"}
Ending == {"cleaning", "refused", "failing", "dropping"}
HoldsRequest(a) ==
  /\ start[a].request <= next_id
  /\ start[a].pc \in {"idle", "begun", "refused"} => start[a].request = 0
  /\ start[a].pc \in Ticketed \cup Permitted \cup {"committing"} => start[a].request # 0
  /\ start[a].pc \in Ticketed => owner[start[a].request] = "held"
  /\ start[a].pc \in Permitted \cup Ending /\ start[a].request # 0 =>
       owner[start[a].request] = "permit" /\ active[start[a].request].key = a
  /\ start[a].pc = "committing" =>
       owner[start[a].request] = "session" /\ active[start[a].request].key = a
RequestsAreHeld ==
  /\ \A a \in Avds : HoldsRequest(a)
  /\ \A a, b \in Avds : start[a].request = start[b].request /\ a # b => start[a].request = 0
  /\ \A e \in Sched!QueueEntries :
       start[e.key].request = e.id /\ start[e.key].pc \in Ticketed

\* What a managed session owns, and that nothing is owned by nobody.
Managed(i) == i \in DOMAIN sessions /\ sessions[i].origin = "Managed"
SessionsOwn ==
  /\ DOMAIN leases = {i \in DOMAIN sessions : Managed(i)}
  /\ \A i \in DOMAIN leases :
       /\ leases[i] \in [request : Sched!Ids, port : Ports]
       /\ owner[leases[i].request] = "session"
       /\ active[leases[i].request].key = sessions[i].instance.avd
       /\ leases[i].port = sessions[i].instance.port
  /\ \A r \in Sched!Ids :
       owner[r] \in {"permit", "session"} => r \in TaskRequests \cup LeaseRequests

WithoutPort == Ticketed \cup {"idle", "begun", "permitted", "starting", "listed"}
PortsAreHeld ==
  /\ reserved \subseteq Ports
  /\ reserved = TaskPorts \cup LeasePorts
  /\ TaskPorts \cap LeasePorts = {}
  /\ \A a, b \in Holders : start[a].port = start[b].port /\ a # b => start[a].port = NoPort
  /\ \A a \in Avds : start[a].pc \in WithoutPort => start[a].port = NoPort

\* Pids are never used again, so an engine that is gone stays gone.
Launched == {"launched", "booting", "booted", "committing"}
KnowingPid == Launched \cup {"cleaning", "refused", "syncing", "applying"}
KnowsPid(a) ==
  /\ start[a].pid <= spawned
  /\ start[a].pid # 0 => start[a].pc \in KnowingPid
  /\ start[a].pc \in Launched =>
       start[a].pid # 0 /\ \A o \in engines : o.pid = start[a].pid => o = Engine(a)
PidsAreNew ==
  /\ \A o \in engines : o.pid <= spawned
  /\ \A i \in DOMAIN sessions : sessions[i].instance.pid <= spawned
  /\ \A s \in Scanners : \A o \in scan[s].observed : o.pid <= spawned
  /\ \A a \in Avds : KnowsPid(a)
StopIsTrue(a) ==
  /\ stop[a].session <= next_session_id
  /\ stop[a].pc = "killed" /\ stop[a].session \in DOMAIN sessions =>
       sessions[stop[a].session].instance \notin engines
StoppedEnginesAreGone == \A a \in Avds : StopIsTrue(a)
RootsAreKnown == roots \in Seq(Sdks) /\ Len(roots) = spawned

RuntimeInv ==
  /\ RP!Inv /\ SchedInv
  /\ TaskTypes /\ CommandsAreHeld /\ DevicesAreOwned /\ RequestsAreHeld
  /\ SessionsOwn /\ PortsAreHeld
  /\ PidsAreNew /\ StoppedEnginesAreGone /\ RootsAreKnown

-----------------------------------------------------------------------------
(* The two instances of the registry, and of the scheduler, are the same    *)
(* definitions.                                                             *)

LEMMA RegistryInit ==
  ASSUME Reg!Init
  PROVE  RP!Init
BY
  DEF Reg!State, RP!State, Reg!Init, RP!Init

LEMMA RegistryNext ==
  ASSUME Reg!Next
  PROVE  RP!Next
BY
  DEF Reg!commandVars, RP!commandVars, Reg!sessionVars, RP!sessionVars,
      Reg!stateVars, RP!stateVars, Reg!registryVars, RP!registryVars, Reg!Claimed,
      RP!Claimed, Reg!Recovering, RP!Recovering, Reg!Instances, RP!Instances,
      Reg!AllowsStart, RP!AllowsStart, Reg!Without, RP!Without, Reg!With, RP!With,
      Reg!State, RP!State, Reg!Renew, RP!Renew, Reg!ForceStopped, RP!ForceStopped,
      Reg!IsCurrent, RP!IsCurrent, Reg!Updated, RP!Updated, Reg!Update, RP!Update,
      Reg!ReconcileScan, RP!ReconcileScan, Reg!MayStart, RP!MayStart,
      Reg!BeginStart, RP!BeginStart, Reg!MarkStart, RP!MarkStart,
      Reg!AttachStartPort, RP!AttachStartPort, Reg!CancelQueued, RP!CancelQueued,
      Reg!IndexesFree, RP!IndexesFree, Reg!AddSession, RP!AddSession,
      Reg!CompleteStart, RP!CompleteStart, Reg!FailStart, RP!FailStart,
      Reg!DropStart, RP!DropStart, Reg!BeginStop, RP!BeginStop, Reg!StopIsCurrent,
      RP!StopIsCurrent, Reg!RemoveSession, RP!RemoveSession, Reg!CompleteStop,
      RP!CompleteStop, Reg!FailStop, RP!FailStop, Reg!DropStop, RP!DropStop,
      Reg!Rank, RP!Rank, Reg!AvdsOf, RP!AvdsOf, Reg!PortsOf, RP!PortsOf, Reg!AvdsIn,
      RP!AvdsIn, Reg!PortsIn, RP!PortsIn, Reg!Missing, RP!Missing, Reg!Exited,
      RP!Exited, Reg!ExitPhase, RP!ExitPhase, Reg!Claimable, RP!Claimable,
      Reg!MayAdopt, RP!MayAdopt, Reg!Adopted, RP!Adopted, Reg!Seen, RP!Seen,
      Reg!ScanPhase, RP!ScanPhase, Reg!ScannedState, RP!ScannedState, Reg!AdoptedId,
      RP!AdoptedId, Reg!AdoptedSession, RP!AdoptedSession, Reg!KeptSession,
      RP!KeptSession, Reg!ReconcileRunning, RP!ReconcileRunning, Reg!RouteOf,
      RP!RouteOf, Reg!Routes, RP!Routes, Reg!RouteIsCurrent, RP!RouteIsCurrent,
      Reg!BeginStopRoute, RP!BeginStopRoute, Reg!ControlLost, RP!ControlLost,
      Reg!ControlBack, RP!ControlBack, Reg!SessionPort, RP!SessionPort,
      Reg!Projection, RP!Projection, Reg!Scans, RP!Scans, Reg!StartStep,
      RP!StartStep, Reg!StopStep, RP!StopStep, Reg!Scan, RP!Scan, Reg!Next, RP!Next,
      Reg!Cardinality, RP!Cardinality

LEMMA RegistryScan ==
  ASSUME NEW observed, NEW alive, NEW recovered,
         Reg!ReconcileRunning(observed, alive, recovered)
  PROVE  RP!ReconcileRunning(observed, alive, recovered)
BY
  DEF Reg!Claimed, RP!Claimed, Reg!Recovering, RP!Recovering, Reg!State, RP!State,
      Reg!IsCurrent, RP!IsCurrent, Reg!Updated, RP!Updated, Reg!Rank, RP!Rank,
      Reg!AvdsOf, RP!AvdsOf, Reg!PortsOf, RP!PortsOf, Reg!AvdsIn, RP!AvdsIn,
      Reg!PortsIn, RP!PortsIn, Reg!Missing, RP!Missing, Reg!Exited, RP!Exited,
      Reg!ExitPhase, RP!ExitPhase, Reg!Claimable, RP!Claimable, Reg!MayAdopt,
      RP!MayAdopt, Reg!Adopted, RP!Adopted, Reg!Seen, RP!Seen, Reg!ScanPhase,
      RP!ScanPhase, Reg!ScannedState, RP!ScannedState, Reg!AdoptedId, RP!AdoptedId,
      Reg!AdoptedSession, RP!AdoptedSession, Reg!KeptSession, RP!KeptSession,
      Reg!ReconcileRunning, RP!ReconcileRunning, Reg!commandVars, RP!commandVars,
      Reg!Cardinality, RP!Cardinality

LEMMA SchedulerInit ==
  ASSUME Sched!Init
  PROVE  SP!Init
BY DEF Sched!Init, SP!Init, Sched!Ids, SP!Ids, Sched!NoStatus, SP!NoStatus

LEMMA SchedulerNext ==
  ASSUME Sched!Next
  PROVE  SP!Next
BY
  DEF Sched!vars, SP!vars, Sched!Ids, SP!Ids, Sched!NoStatus, SP!NoStatus,
      Sched!QueueIds, SP!QueueIds, Sched!QueueKeys, SP!QueueKeys, Sched!ActiveKeys,
      SP!ActiveKeys, Sched!Starting, SP!Starting, Sched!Units, SP!Units,
      Sched!Total, SP!Total, Sched!ActiveMemory, SP!ActiveMemory, Sched!ActiveGpu,
      SP!ActiveGpu, Sched!AllocatedMemory, SP!AllocatedMemory, Sched!AllocatedGpu,
      SP!AllocatedGpu, Sched!SaturatingSub, SP!SaturatingSub, Sched!MemoryAvailable,
      SP!MemoryAvailable, Sched!GpuAvailable, SP!GpuAvailable, Sched!MemoryBlocks,
      SP!MemoryBlocks, Sched!GpuBlocks, SP!GpuBlocks, Sched!Reason, SP!Reason,
      Sched!StartLimitReached, SP!StartLimitReached, Sched!QueueStatus,
      SP!QueueStatus, Sched!IsReady, SP!IsReady, Sched!NotifyAll, SP!NotifyAll,
      Sched!Without, SP!Without, Sched!Removed, SP!Removed, Sched!Admissible,
      SP!Admissible, Sched!KeyIsFree, SP!KeyIsFree, Sched!Enqueue, SP!Enqueue,
      Sched!Cancel, SP!Cancel, Sched!ReconcileExternal, SP!ReconcileExternal,
      Sched!RemoveExternal, SP!RemoveExternal, Sched!Admit, SP!Admit,
      Sched!TryAcquire, SP!TryAcquire, Sched!BeginWait, SP!BeginWait,
      Sched!WaitCanceled, SP!WaitCanceled, Sched!WaitAdmitted, SP!WaitAdmitted,
      Sched!WaitReports, SP!WaitReports, Sched!WaitParks, SP!WaitParks,
      Sched!WaitCheck, SP!WaitCheck, Sched!OnStatus, SP!OnStatus,
      Sched!SpuriousWake, SP!SpuriousWake, Sched!DropTicket, SP!DropTicket,
      Sched!IntoReservation, SP!IntoReservation, Sched!ReleaseActive,
      SP!ReleaseActive, Sched!DropPermit, SP!DropPermit, Sched!DropReservation,
      SP!DropReservation, Sched!ExternalMaps, SP!ExternalMaps, Sched!Next, SP!Next,
      Sched!Cardinality, SP!Cardinality

\* The assumptions of the two components.
LEMMA ComponentAssumptions ==
  /\ RP!IsFiniteSet(Avds) /\ SP!IsFiniteSet(Avds)
  /\ RP!IsFiniteSet(Ports) /\ Ports \subseteq Nat /\ NoPort \notin Ports
  /\ MaxGeneration \in Nat /\ MaxSessions \in Nat
  /\ MaxStarts \in Nat \ {0} /\ NoAvd \notin Avds
  /\ {Demand[a] : a \in Avds} \cup {NoDemand} \subseteq [memory_mb : Nat, gpu_slots : Nat]
  /\ MemoryBudget \in Nat \cup {NoLimit} /\ GpuSlots \in Nat \cup {NoLimit}
  /\ NoLimit \notin Nat /\ MaxRequests \in Nat
<1>1. ASSUME NEW S, IsFiniteSet(S)
      PROVE  RP!IsFiniteSet(S) /\ SP!IsFiniteSet(S)
  BY <1>1 DEF IsFiniteSet, RP!IsFiniteSet, SP!IsFiniteSet
<1>2. RP!IsFiniteSet(Avds) /\ SP!IsFiniteSet(Avds) /\ RP!IsFiniteSet(Ports)
  BY <1>1, RegistryAssumption
<1>3. {Demand[a] : a \in Avds} \cup {NoDemand} \subseteq [memory_mb : Nat, gpu_slots : Nat]
  BY SchedulerAssumption DEF NoDemand
<1> QED
  BY <1>2, <1>3, RegistryAssumption, SchedulerAssumption

LEMMA RegistryStep ==
  ASSUME RP!Inv, Reg!Next
  PROVE  RP!Inv' /\ RP!SessionsKept /\ RP!DevicesStep
<1>1. RP!Next
  BY RegistryNext
<1>2. RP!Inv'
  BY <1>1, ComponentAssumptions, RP!StepInv
<1>3. RP!SessionsKept
  BY <1>1, ComponentAssumptions, RP!StepKeepsSessions
<1>4. RP!DevicesStep
  BY <1>1, ComponentAssumptions, RP!StepDevices
<1> QED
  BY <1>2, <1>3, <1>4

LEMMA SchedulerStep ==
  ASSUME SchedInv, Sched!Next
  PROVE  SchedInv'
<1>1. SP!Next
  BY SchedulerNext
<1>2. SP!QueueInv'
  <2>1. SP!TypeOK'
    BY <1>1, ComponentAssumptions, SP!NextType DEF SchedInv, SP!QueueInv
  <2>2. SP!RequestsSoFar'
    BY <1>1, ComponentAssumptions, SP!NextRequestsSoFar DEF SchedInv, SP!QueueInv
  <2>3. SP!QueueInRequestOrder'
    BY <1>1, ComponentAssumptions, SP!NextOrder DEF SchedInv, SP!QueueInv
  <2>4. SP!HandlesOwnAllocations'
    BY <1>1, ComponentAssumptions, SP!NextHandles DEF SchedInv
  <2> QED
    BY <2>1, <2>2, <2>3, <2>4 DEF SP!QueueInv
<1>3. SP!OneRequestPerKey'
  BY <1>1, ComponentAssumptions, SP!NextOneRequest DEF SchedInv
<1> QED
  BY <1>2, <1>3 DEF SchedInv

-----------------------------------------------------------------------------
(* What the invariants of the two components say, in the terms of this      *)
(* module.                                                                  *)

RegistryFacts ==
  /\ next_generation \in 0..MaxGeneration /\ next_session_id \in 0..MaxSessions
  /\ states \in [Avds -> [generation : 0..MaxGeneration, phase : RP!Phases,
                          console_port : Ports \cup {NoPort}]]
  /\ DOMAIN sessions \subseteq 1..next_session_id
  /\ \A i \in DOMAIN sessions :
       /\ sessions[i].instance \in EngineRecords
       /\ sessions[i].generation \in 0..MaxGeneration
       /\ by_avd[sessions[i].instance.avd] = i /\ sessions[i].instance.avd \in DOMAIN by_avd
       /\ by_port[sessions[i].instance.port] = i
  /\ \A a \in DOMAIN by_avd : a \in Avds /\ by_avd[a] \in DOMAIN sessions
  /\ DOMAIN by_port \subseteq Ports
  /\ \A a \in Avds : states[a].phase \in {"Queued", "Starting", "Booting", "Stopped"} =>
                       a \notin DOMAIN by_avd
  /\ \A c \in stops : c.avd \in Avds /\ states[c.avd].generation = c.generation =>
                        states[c.avd].phase = "Stopping"

LEMMA RegistrySays == RP!Inv => RegistryFacts
<1> SUFFICES ASSUME RP!Inv PROVE RegistryFacts
  OBVIOUS
<1> USE DEF RP!Inv
<1>1. /\ next_generation \in 0..MaxGeneration /\ next_session_id \in 0..MaxSessions
      /\ states \in [Avds -> [generation : 0..MaxGeneration, phase : RP!Phases,
                              console_port : Ports \cup {NoPort}]]
      /\ DOMAIN sessions \subseteq 1..next_session_id
      /\ DOMAIN by_port \subseteq Ports
  BY DEF RP!TypeOK, RP!Generations, RP!DeviceStates
<1>2. \A i \in DOMAIN sessions :
        /\ sessions[i].instance \in EngineRecords
        /\ sessions[i].generation \in 0..MaxGeneration
  BY DEF RP!TypeOK, RP!Sessions, RP!Instances, RP!Generations, EngineRecords
<1>3. \A i \in DOMAIN sessions :
        /\ by_avd[sessions[i].instance.avd] = i /\ sessions[i].instance.avd \in DOMAIN by_avd
        /\ by_port[sessions[i].instance.port] = i
  BY DEF RP!RegistryIsConsistent, RP!IndexesAgree
<1>4. \A a \in DOMAIN by_avd : a \in Avds /\ by_avd[a] \in DOMAIN sessions
  BY DEF RP!TypeOK, RP!RegistryIsConsistent, RP!IndexesAgree
<1>5. \A a \in Avds : states[a].phase \in {"Queued", "Starting", "Booting", "Stopped"} =>
                        a \notin DOMAIN by_avd
  BY DEF RP!RegistryIsConsistent, RP!PhaseMatchesSession, RP!Claimed
<1>6. ASSUME NEW c \in stops, c.avd \in Avds, states[c.avd].generation = c.generation
      PROVE  states[c.avd].phase = "Stopping"
  <2>1. c \in RP!CurrentStops(c.avd)
    BY <1>6 DEF RP!CurrentStops, RP!IsCurrent
  <2> QED
    BY <1>6, <2>1 DEF RP!OneCurrentCommand
<1> QED
  BY <1>1, <1>2, <1>3, <1>4, <1>5, <1>6 DEF RegistryFacts

LEMMA RegistrySaysNext == RP!Inv' => RegistryFacts'
BY RegistrySays, PTL

SchedulerFacts ==
  /\ next_id \in 0..MaxRequests /\ Sched!Ids = 1..MaxRequests
  /\ owner \in [Sched!Ids -> Sched!OwnerStates]
  /\ \A r \in Sched!Ids : owner[r] = "unborn" <=> r > next_id
  /\ DOMAIN active = {r \in Sched!Ids : owner[r] \in {"permit", "session"}}
  /\ \A r \in DOMAIN active : active[r].key \in Avds
  /\ \A r, q \in DOMAIN active : active[r].key = active[q].key => r = q
  /\ Sched!QueueIds = {e.id : e \in Sched!QueueEntries}
  /\ \A e \in Sched!QueueEntries :
       /\ e.id \in Sched!Ids /\ e.id <= next_id
       /\ e.key \in Avds
  /\ \A e, f \in Sched!QueueEntries : e.id = f.id \/ e.key = f.key => e = f

LEMMA SchedulerSays == SchedInv => SchedulerFacts
<1> SUFFICES ASSUME SchedInv PROVE SchedulerFacts
  OBVIOUS
<1>1. SP!TypeOK /\ SP!RequestsSoFar /\ SP!QueueInRequestOrder /\ SP!HandlesOwnAllocations
      /\ SP!OneRequestPerKey
  BY DEF SchedInv, SP!QueueInv
<1>2. Sched!Ids = 1..MaxRequests /\ SP!Ids = 1..MaxRequests
  BY DEF Sched!Ids, SP!Ids
<1>3. next_id \in 0..MaxRequests /\ owner \in [Sched!Ids -> Sched!OwnerStates]
  BY <1>1, <1>2 DEF SP!TypeOK, Sched!OwnerStates, SP!OwnerStates
<1>4. \A r \in Sched!Ids : owner[r] = "unborn" <=> r > next_id
  BY <1>1, <1>2 DEF SP!RequestsSoFar
<1>5. DOMAIN active = {r \in Sched!Ids : owner[r] \in {"permit", "session"}}
  BY <1>1, <1>2 DEF SP!HandlesOwnAllocations
<1>6. \A r \in DOMAIN active : active[r].key \in Avds
  BY <1>1 DEF SP!TypeOK, SP!Allocations
<1>7. \A r, q \in DOMAIN active : active[r].key = active[q].key => r = q
  BY <1>1 DEF SP!OneRequestPerKey
<1>8. Sched!QueueIds = {e.id : e \in Sched!QueueEntries}
  BY DEF Sched!QueueIds, Sched!QueueEntries
<1>9. queue \in Seq(SP!Entries)
  BY <1>1 DEF SP!TypeOK
<1>10. \A n \in DOMAIN queue : queue[n] \in SP!Entries /\ n \in Int
  BY <1>9
<1>11. ASSUME NEW e \in Sched!QueueEntries
       PROVE  e.id \in Sched!Ids /\ e.id <= next_id /\ e.key \in Avds
  BY <1>1, <1>2, <1>10 DEF Sched!QueueEntries, SP!Entries, SP!QueueInRequestOrder
<1>12. ASSUME NEW e \in Sched!QueueEntries, NEW f \in Sched!QueueEntries,
              e.id = f.id \/ e.key = f.key
       PROVE  e = f
  <2>1. PICK m \in DOMAIN queue, n \in DOMAIN queue : e = queue[m] /\ f = queue[n]
    BY DEF Sched!QueueEntries
  <2>2. CASE e.key = f.key
    BY <1>1, <2>1, <2>2 DEF SP!OneRequestPerKey
  <2>3. CASE e.id = f.id
    <3>1. ~(m < n) /\ ~(n < m)
      <4>1. e.id \in Int
        BY <1>2, <1>11
      <4>2. ~(e.id < f.id) /\ ~(f.id < e.id)
        BY <2>3, <4>1
      <4> QED
        BY <1>1, <2>1, <4>2 DEF SP!QueueInRequestOrder
    <3>2. m \in Int /\ n \in Int
      BY <1>10
    <3> QED
      BY <2>1, <3>1, <3>2
  <2> QED
    BY <1>12, <2>2, <2>3
<1> QED
  BY <1>2, <1>3, <1>4, <1>5, <1>6, <1>7, <1>8, <1>11, <1>12 DEF SchedulerFacts

LEMMA SchedulerSaysNext == SchedInv' => SchedulerFacts'
BY SchedulerSays, PTL

-----------------------------------------------------------------------------
(* What the operations of the scheduler do to the requests.                 *)

\* Only request r changes hands; every other keeps its holder and its key.
OnlyRequest(r, state) ==
  /\ r \in Sched!Ids /\ owner'[r] = state
  /\ \A q \in Sched!Ids \ {r} :
       owner'[q] = owner[q] /\ (q \in DOMAIN active => active'[q].key = active[q].key)
Dequeued(r) ==
  Sched!QueueEntries' \subseteq {e \in Sched!QueueEntries : e.id # r}

LEMMA Enqueues ==
  ASSUME SchedInv, NEW a \in Avds, NEW d, Sched!Enqueue(a, d)
  PROVE  /\ next_id' = next_id + 1 /\ next_id + 1 \in 1..MaxRequests
         /\ OnlyRequest(next_id + 1, "held")
         /\ Sched!QueueEntries' =
              Sched!QueueEntries \cup {[id |-> next_id + 1, key |-> a, demand |-> d]}
<1> DEFINE e == [id |-> next_id + 1, key |-> a, demand |-> d]
<1>1. SchedulerFacts
  BY SchedulerSays
<1>2. /\ next_id < MaxRequests /\ next_id' = next_id + 1 /\ queue' = Append(queue, e)
      /\ owner' = [owner EXCEPT ![next_id + 1] = "held"] /\ active' = active
  BY DEF Sched!Enqueue
<1>3. next_id + 1 \in 1..MaxRequests
  BY <1>1, <1>2, SchedulerAssumption DEF SchedulerFacts
<1>4. OnlyRequest(next_id + 1, "held")
  BY <1>1, <1>2, <1>3 DEF SchedulerFacts, OnlyRequest
<1>5. queue \in Seq(SP!Entries)
  BY DEF SchedInv, SP!QueueInv, SP!TypeOK
<1> HIDE DEF e
<1>6. /\ DOMAIN queue' = DOMAIN queue \cup {Len(queue) + 1}
      /\ \A n \in DOMAIN queue : queue'[n] = queue[n]
      /\ queue'[Len(queue) + 1] = e
  BY <1>2, <1>5
<1>7. Sched!QueueEntries' = Sched!QueueEntries \cup {e}
  BY <1>6 DEF Sched!QueueEntries
<1> QED
  BY <1>2, <1>3, <1>4, <1>7 DEF e

LEMMA Dequeues ==
  ASSUME SchedInv, NEW n \in DOMAIN queue, queue' = Sched!Removed(n)
  PROVE  Dequeued(queue[n].id)
<1>1. SP!TypeOK /\ SP!QueueInRequestOrder
  BY DEF SchedInv, SP!QueueInv
<1>2. queue' = SP!Removed(n)
  BY DEF Sched!Removed, SP!Removed
<1>3. /\ \A m \in DOMAIN queue' : \E p \in DOMAIN queue : p # n /\ queue'[m] = queue[p]
      /\ SP!QueueIds' = SP!QueueIds \ {queue[n].id}
  BY <1>1, <1>2, ComponentAssumptions, SP!RemovedEntries
<1>4. \A m \in DOMAIN queue' : queue'[m].id # queue[n].id
  BY <1>3 DEF SP!QueueIds
<1> QED
  BY <1>3, <1>4 DEF Dequeued, Sched!QueueEntries

LEMMA Cancels ==
  ASSUME SchedInv, NEW a \in Avds, Sched!Cancel(a)
  PROVE  /\ \E e \in Sched!QueueEntries : e.key = a /\ Dequeued(e.id)
         /\ UNCHANGED <<next_id, owner, active>>
<1>1. PICK n \in DOMAIN queue : queue[n].key = a /\ queue' = Sched!Removed(n)
  BY DEF Sched!Cancel
<1>2. Dequeued(queue[n].id)
  BY <1>1, Dequeues
<1>3. queue[n] \in Sched!QueueEntries
  BY DEF Sched!QueueEntries
<1>4. UNCHANGED <<next_id, owner, active>>
  BY DEF Sched!Cancel
<1> QED
  BY <1>1, <1>2, <1>3, <1>4

LEMMA Acquires ==
  ASSUME SchedInv, NEW r, Sched!TryAcquire(r)
  PROVE  /\ OnlyRequest(r, "permit") /\ Dequeued(r) /\ next_id' = next_id
         /\ \E e \in Sched!QueueEntries : e.id = r /\ active'[r].key = e.key
<1>1. SchedulerFacts
  BY SchedulerSays
<1>2. /\ queue # <<>> /\ Head(queue).id = r /\ queue' = Sched!Removed(1)
      /\ active' = [j \in DOMAIN active \cup {r} |->
                      IF j = r THEN [key |-> Head(queue).key, demand |-> Head(queue).demand,
                                     starting |-> TRUE]
                               ELSE active[j]]
      /\ owner' = [owner EXCEPT ![r] = "permit"] /\ next_id' = next_id
  BY DEF Sched!TryAcquire, Sched!Admit
<1>3. queue \in Seq(SP!Entries)
  BY DEF SchedInv, SP!QueueInv, SP!TypeOK
<1>4. 1 \in DOMAIN queue /\ Head(queue) = queue[1]
  BY <1>2, <1>3
<1>5. Dequeued(r)
  BY <1>2, <1>4, Dequeues
<1>6. queue[1] \in Sched!QueueEntries
  BY <1>4 DEF Sched!QueueEntries
<1>7. r \in Sched!Ids
  BY <1>1, <1>2, <1>4, <1>6 DEF SchedulerFacts
<1>8. OnlyRequest(r, "permit")
  BY <1>1, <1>2, <1>7 DEF OnlyRequest, SchedulerFacts
<1>9. active'[r].key = queue[1].key
  BY <1>2, <1>4
<1> QED
  BY <1>2, <1>4, <1>5, <1>6, <1>8, <1>9

LEMMA DropsTicket ==
  ASSUME SchedInv, NEW r, r \in Sched!Ids, Sched!DropTicket(r), r \notin Sched!QueueIds
  PROVE  OnlyRequest(r, "gone") /\ UNCHANGED <<next_id, queue>>
<1>1. SchedulerFacts
  BY SchedulerSays
<1>2. UNCHANGED <<next_id, queue, active>> /\ owner' = [owner EXCEPT ![r] = "gone"]
  BY DEF Sched!DropTicket, Sched!QueueIds
<1> QED
  BY <1>1, <1>2 DEF OnlyRequest, SchedulerFacts

LEMMA IntoSession ==
  ASSUME SchedInv, NEW r \in Sched!Ids, Sched!IntoReservation(r)
  PROVE  /\ OnlyRequest(r, "session") /\ UNCHANGED <<next_id, queue>>
         /\ active'[r].key = active[r].key
<1>1. SchedulerFacts
  BY SchedulerSays
<1>2. /\ owner' = [owner EXCEPT ![r] = "session"] /\ owner[r] = "permit"
      /\ active' = [active EXCEPT ![r].starting = FALSE]
      /\ UNCHANGED <<next_id, queue>>
  BY DEF Sched!IntoReservation
<1>3. SP!TypeOK
  BY DEF SchedInv, SP!QueueInv
<1>4. \A q \in DOMAIN active : active[q] \in SP!Allocations
  BY <1>3 DEF SP!TypeOK
<1>5. \A q \in DOMAIN active : active'[q].key = active[q].key
  BY <1>2, <1>4 DEF SP!Allocations
<1> QED
  BY <1>1, <1>2, <1>5 DEF OnlyRequest, SchedulerFacts

LEMMA Releases ==
  ASSUME SchedInv, NEW r \in Sched!Ids, Sched!ReleaseActive(r)
  PROVE  OnlyRequest(r, "gone") /\ UNCHANGED <<next_id, queue>>
<1>1. SchedulerFacts
  BY SchedulerSays
<1> QED
  BY <1>1 DEF Sched!ReleaseActive, Sched!Without, OnlyRequest, SchedulerFacts

-----------------------------------------------------------------------------
(* The runtime implements the registry: every step is one of its operations *)
(* with a command it handed out, or changes nothing of it.                  *)

RegistryStutters == UNCHANGED Reg!registryVars

LEMMA Stutters ==
  ASSUME UNCHANGED regVars
  PROVE  RegistryStutters
BY DEF RegistryStutters, regVars, Reg!registryVars, Reg!stateVars, Reg!sessionVars, Reg!commandVars

LEMMA StartOperation ==
  ASSUME NEW c \in starts, Reg!StartStep(c)
  PROVE  Reg!Next
BY DEF Reg!Next

LEMMA StopOperation ==
  ASSUME NEW c \in stops, Reg!StopStep(c)
  PROVE  Reg!Next
BY DEF Reg!Next

LEMMA StartOnRegistry ==
  ASSUME RuntimeInv, NEW a \in Avds, StartStep(a)
  PROVE  Reg!Next \/ RegistryStutters
<1> DEFINE c == StartCommand(a)
<1>1. start[a].pc \in HoldsCommand => c \in starts
  BY DEF RuntimeInv, CommandsAreHeld, HoldsCommands
<1>2. start[a].pc = "committing" => start[a].pid \in Pids
  <2>1. start[a].pid \in 0..MaxEngines
    BY DEF RuntimeInv, TaskTypes, StartTasks
  <2>2. start[a].pc = "committing" => start[a].pid # 0
    BY DEF RuntimeInv, PidsAreNew, KnowsPid, Launched
  <2> QED
    BY <2>1, <2>2, EngineAssumption DEF Pids
<1> HIDE DEF c
<1>3. CASE BeginStart(a)
  BY <1>3 DEF BeginStart, Reg!Next
<1>4. CASE \/ EnqueueRefused(a) \/ Canceled(a) \/ MarkQueued(a) \/ MarkStarting(a)
           \/ ReservePort(a) \/ MarkBooting(a) \/ Commit(a) \/ FailStart(a)
  <2>1. CASE EnqueueRefused(a)
    BY <1>1, <2>1, StartOperation DEF EnqueueRefused, At, HoldsCommand, Reg!StartStep, c
  <2>2. CASE Canceled(a)
    BY <1>1, <2>2, StartOperation DEF Canceled, At, HoldsCommand, Reg!StartStep, c
  <2>3. CASE MarkQueued(a)
    BY <1>1, <2>3, StartOperation
       DEF MarkQueued, At, HoldsCommand, Reg!StartStep, Reg!Claimed, c
  <2>4. CASE MarkStarting(a)
    BY <1>1, <2>4, StartOperation
       DEF MarkStarting, At, HoldsCommand, Reg!StartStep, Reg!Claimed, c
  <2>5. CASE ReservePort(a)
    <3>1. start[a].pc = "listed" /\ \E port \in Ports : Reg!AttachStartPort(c, port)
      BY <2>5, Zenon DEF ReservePort, At, FreePorts, c
    <3> QED
      BY <1>1, <3>1, StartOperation DEF HoldsCommand, Reg!StartStep
  <2>6. CASE MarkBooting(a)
    BY <1>1, <2>6, StartOperation
       DEF MarkBooting, At, HoldsCommand, Reg!StartStep, Reg!Claimed, c
  <2>7. CASE Commit(a)
    BY <1>1, <1>2, <2>7, StartOperation DEF Commit, At, HoldsCommand, Reg!StartStep, c
  <2>8. CASE FailStart(a)
    BY <1>1, <2>8, StartOperation DEF FailStart, At, HoldsCommand, Reg!StartStep, c
  <2> QED
    BY <1>4, <2>1, <2>2, <2>3, <2>4, <2>5, <2>6, <2>7, <2>8
<1>5. CASE \/ Enqueue(a) \/ CheckTicket(a) \/ Acquire(a) \/ ListPorts(a) \/ PortsExhausted(a)
           \/ Launch(a) \/ LaunchFails(a) \/ Boots(a) \/ BootFails(a) \/ CleanUp(a)
           \/ IntoReservation(a) \/ CommitRefused(a) \/ DropHeld(a) \/ StartSyncs(a)
  <2>1. UNCHANGED regVars
    BY <1>5 DEF Enqueue, CheckTicket, Acquire, ListPorts, PortsExhausted, Launch, LaunchFails,
                Boots, BootFails, CleanUp, IntoReservation, CommitRefused, DropHeld, StartSyncs
  <2> QED
    BY <2>1, Stutters
<1> QED
  BY <1>3, <1>4, <1>5 DEF StartStep

LEMMA StopOnRegistry ==
  ASSUME RuntimeInv, NEW a \in Avds, StopStep(a)
  PROVE  Reg!Next \/ RegistryStutters
<1> DEFINE c == StopCommand(a)
<1>1. stop[a].pc \in {"killed", "failed"} => c \in stops
  BY DEF RuntimeInv, CommandsAreHeld, HoldsCommands
<1> HIDE DEF c
<1>2. CASE CancelPhase(a) \/ BeginStop(a)
  BY <1>2 DEF CancelPhase, BeginStop, Reg!Next
<1>3. CASE CompleteStop(a) \/ FailStop(a) \/ StaleStop(a)
  <2>1. stop[a].pc \in {"killed", "failed"}
    BY <1>3 DEF CompleteStop, FailStop, StaleStop, StopAt
  <2>2. Reg!StopStep(c)
    BY <1>3 DEF CompleteStop, FailStop, StaleStop, Reg!StopStep, c
  <2> QED
    BY <1>1, <2>1, <2>2, StopOperation
<1>4. CASE \/ ClickStop(a) \/ CancelRequest(a) \/ NothingQueued(a) \/ NotQueued(a)
           \/ NothingRunning(a) \/ EngineExits(a) \/ EngineStays(a) \/ Uncount(a) \/ StopSyncs(a)
  <2>1. UNCHANGED regVars
    BY <1>4 DEF ClickStop, CancelRequest, NothingQueued, NotQueued, NothingRunning,
                EngineExits, EngineStays, Uncount, StopSyncs
  <2> QED
    BY <2>1, Stutters
<1> QED
  BY <1>2, <1>3, <1>4 DEF StopStep

LEMMA ScanOnRegistry ==
  ASSUME RuntimeInv, NEW s \in Scanners, ScanStep(s)
  PROVE  Reg!Next \/ RegistryStutters
<1>1. CASE Merge(s)
  <2> DEFINE observed == scan[s].observed
  <2> DEFINE sdk == scan[s].sdk
  <2>1. observed \in Reg!Scans
    BY DEF RuntimeInv, TaskTypes, ScanTasks, Observations, EngineRecords, Reg!Scans, Reg!Instances
  <2>2. Alive(observed, sdk) \in SUBSET {sessions[i].instance : i \in Reg!Missing(observed)}
    BY DEF Alive
  <2>3. Reg!ReconcileRunning(observed, Alive(observed, sdk), {})
    BY <1>1 DEF Merge
  <2> HIDE DEF observed
  <2>4. Reg!Scan
    BY <2>1, <2>2, <2>3 DEF Reg!Scan
  <2> QED
    BY <2>4 DEF Reg!Next
<1>2. CASE ReadAds(s) \/ CountExternal(s) \/ ApplyRoutes(s)
  <2>1. UNCHANGED regVars
    BY <1>2, Zenon DEF ReadAds, CountExternal, ApplyRoutes
  <2> QED
    BY <2>1, Stutters
<1> QED
  BY <1>1, <1>2 DEF ScanStep

LEMMA EnginesOnRegistry ==
  ASSUME NEW a \in Avds, NEW o, ExternalStart(a) \/ Crash(o)
  PROVE  RegistryStutters
<1>1. UNCHANGED regVars
  BY DEF ExternalStart, Crash
<1> QED
  BY <1>1, Stutters

LEMMA StepOnRegistry ==
  ASSUME RuntimeInv, [Next]_runtimeVars
  PROVE  Reg!Next \/ RegistryStutters
<1>1. CASE UNCHANGED runtimeVars
  <2>1. UNCHANGED regVars
    BY <1>1 DEF runtimeVars
  <2> QED
    BY <2>1, Stutters
<1>2. CASE \E o \in engines : Crash(o)
  <2>1. UNCHANGED regVars
    BY <1>2 DEF Crash
  <2> QED
    BY <2>1, Stutters
<1>3. CASE \E a \in Avds : ExternalStart(a)
  BY <1>3, EnginesOnRegistry
<1> QED
  BY <1>1, <1>2, <1>3, StartOnRegistry, StopOnRegistry, ScanOnRegistry DEF Next

LEMMA StutterKeeps ==
  ASSUME RP!Inv, RegistryStutters
  PROVE  RP!Inv' /\ RP!SessionsKept
<1>1. UNCHANGED RP!registryVars
  BY DEF RegistryStutters, Reg!registryVars, Reg!stateVars, Reg!sessionVars, Reg!commandVars,
         RP!registryVars, RP!stateVars, RP!sessionVars, RP!commandVars
<1>2. RP!Inv'
  BY <1>1, ComponentAssumptions, RP!StepInv
<1>3. RP!SessionsKept
  BY <1>1, ComponentAssumptions, RP!StepKeepsSessions
<1> QED
  BY <1>2, <1>3

\* So the registry keeps its invariant, and its sessions their identity.
LEMMA RegistryKept ==
  ASSUME RuntimeInv, [Next]_runtimeVars
  PROVE  RP!Inv' /\ RP!SessionsKept
<1>1. RP!Inv
  BY DEF RuntimeInv
<1> QED
  BY <1>1, StepOnRegistry, RegistryStep, StutterKeeps

-----------------------------------------------------------------------------
(* Where each step leaves its task.                                         *)

StartsAt(a, pc, generation, request, port, pid) ==
  /\ start' \in [Avds -> StartTasks]
  /\ \A b \in Avds \ {a} : start'[b] = start[b]
  /\ start'[a].pc = pc /\ start'[a].generation = generation
  /\ start'[a].request = request /\ start'[a].port = port /\ start'[a].pid = pid
StopsAt(a, pc, generation, session) ==
  /\ stop' \in [Avds -> StopTasks]
  /\ \A b \in Avds \ {a} : stop'[b] = stop[b]
  /\ stop'[a].pc = pc /\ stop'[a].generation = generation /\ stop'[a].session = session
ScansAt(s, pc, observed) ==
  /\ scan' \in [Scanners -> ScanTasks]
  /\ \A r \in Scanners \ {s} : scan'[r] = scan[r]
  /\ scan'[s].pc = pc /\ scan'[s].observed = observed

LEMMA StartChanges ==
  ASSUME start \in [Avds -> StartTasks], NEW a \in Avds, NEW t \in StartTasks,
         start' = [start EXCEPT ![a] = t]
  PROVE  StartsAt(a, t.pc, t.generation, t.request, t.port, t.pid)
BY DEF StartsAt

LEMMA StartGoes ==
  ASSUME start \in [Avds -> StartTasks], NEW a \in Avds, NEW pc \in StartPcs, Goto(a, pc)
  PROVE  StartsAt(a, pc, start[a].generation, start[a].request, start[a].port, start[a].pid)
<1> DEFINE t == [start[a] EXCEPT !.pc = pc]
<1>1. start' = [start EXCEPT ![a] = t]
  BY Zenon DEF Goto
<1>2. /\ t \in StartTasks /\ t.pc = pc /\ t.generation = start[a].generation
      /\ t.request = start[a].request /\ t.port = start[a].port /\ t.pid = start[a].pid
  BY DEF StartTasks
<1> HIDE DEF t
<1> QED
  BY <1>1, <1>2, StartChanges

LEMMA StartRests ==
  ASSUME start \in [Avds -> StartTasks], NEW a \in Avds, start' = [start EXCEPT ![a] = IdleStart]
  PROVE  StartsAt(a, "idle", 0, 0, NoPort, 0)
<1>1. IdleStart \in StartTasks
  BY RegistryAssumption, SchedulerAssumption, EngineAssumption DEF IdleStart, StartTasks, StartPcs
<1> HIDE DEF StartsAt
<1> QED
  BY <1>1, StartChanges DEF IdleStart

RoutesAreTyped == Reg!Routes \subseteq RouteRecords

LEMMA RoutesType == RP!Inv => RoutesAreTyped
<1> SUFFICES ASSUME RP!Inv PROVE RoutesAreTyped
  OBVIOUS
<1>1. RegistryFacts
  BY RegistrySays
<1>2. ASSUME NEW i \in DOMAIN sessions
      PROVE  Reg!RouteOf(i) \in RouteRecords
  <2>1. i \in 1..MaxSessions
    BY <1>1, RegistryAssumption DEF RegistryFacts
  <2>2. sessions[i].instance.avd \in Avds /\ sessions[i].generation \in 0..MaxGeneration
    BY <1>1 DEF RegistryFacts, EngineRecords
  <2> QED
    BY <2>1, <2>2 DEF Reg!RouteOf, RouteRecords
<1> QED
  BY <1>2 DEF RoutesAreTyped, Reg!Routes

LEMMA RoutesTypeNext == RP!Inv' => RoutesAreTyped'
BY RoutesType, PTL

\* The steps of a start, one by one.
StartSteps(a) ==
  LET g == start[a].generation
      r == start[a].request
      port == start[a].port
      pid == start[a].pid
  IN /\ BeginStart(a) => StartsAt(a, "begun", next_generation + 1, 0, NoPort, 0)
     /\ Enqueue(a) => StartsAt(a, "enqueued", g, next_id + 1, port, pid)
     /\ EnqueueRefused(a) => StartsAt(a, "idle", 0, 0, NoPort, 0)
     /\ CheckTicket(a) => StartsAt(a, "checked", g, r, port, pid)
     /\ Canceled(a) => StartsAt(a, "idle", 0, 0, NoPort, 0)
     /\ MarkQueued(a) => StartsAt(a, "waiting", g, r, port, pid)
     /\ Acquire(a) => StartsAt(a, "permitted", g, r, port, pid)
     /\ MarkStarting(a) => StartsAt(a, "starting", g, r, port, pid)
     /\ ListPorts(a) => StartsAt(a, "listed", g, r, port, pid)
     /\ ReservePort(a) => \E p \in Ports \ reserved :
          /\ StartsAt(a, "reserved", g, r, p, pid) /\ reserved' = reserved \cup {p}
          /\ Reg!AttachStartPort(StartCommand(a), p)
     /\ PortsExhausted(a) => StartsAt(a, "failing", g, r, port, pid)
     /\ Launch(a) => StartsAt(a, "launched", g, r, port, spawned + 1)
     /\ LaunchFails(a) => StartsAt(a, "failing", g, r, port, pid)
     /\ MarkBooting(a) => StartsAt(a, "booting", g, r, port, pid)
     /\ Boots(a) => StartsAt(a, "booted", g, r, port, pid)
     /\ BootFails(a) => StartsAt(a, "cleaning", g, r, port, pid)
     /\ CleanUp(a) => StartsAt(a, "failing", g, r, port, 0)
     /\ IntoReservation(a) => StartsAt(a, "committing", g, r, port, pid)
     /\ Commit(a) => StartsAt(a, "syncing", g, r, port, pid)
     /\ CommitRefused(a) => StartsAt(a, "refused", g, 0, NoPort, pid)
     /\ FailStart(a) => StartsAt(a, "dropping", g, r, port, pid)
     /\ DropHeld(a) => StartsAt(a, "idle", 0, 0, NoPort, 0)
     /\ StartSyncs(a) => \/ /\ At(a, "syncing")
                            /\ StartsAt(a, "applying", g, r, port, pid)
                         \/ StartsAt(a, "idle", 0, 0, NoPort, 0)

LEMMA StartEffects ==
  ASSUME RuntimeInv, NEW a \in Avds
  PROVE  StartSteps(a)
<1> DEFINE s == start[a]
<1>1. start \in [Avds -> StartTasks] /\ s \in StartTasks
  BY DEF RuntimeInv, TaskTypes
<1>2. ASSUME NEW t \in StartTasks, start' = [start EXCEPT ![a] = t]
      PROVE  StartsAt(a, t.pc, t.generation, t.request, t.port, t.pid)
  BY <1>1, <1>2, StartChanges
<1>3. ASSUME NEW pc \in StartPcs, Goto(a, pc)
      PROVE  StartsAt(a, pc, s.generation, s.request, s.port, s.pid)
  BY <1>1, <1>3, StartGoes
<1>4. ASSUME start' = [start EXCEPT ![a] = IdleStart]
      PROVE  StartsAt(a, "idle", 0, 0, NoPort, 0)
  BY <1>1, <1>4, StartRests
<1>5. RegistryFacts /\ SchedulerFacts
  BY RegistrySays, SchedulerSays DEF RuntimeInv
<1> HIDE DEF s
<1>6. ASSUME BeginStart(a)
      PROVE  StartsAt(a, "begun", next_generation + 1, 0, NoPort, 0)
  <2> DEFINE t == [IdleStart EXCEPT !.pc = "begun", !.generation = next_generation + 1]
  <2>1. start' = [start EXCEPT ![a] = t]
    BY <1>6, Zenon DEF BeginStart
  <2>2. next_generation + 1 \in 0..MaxGeneration
    <3>1. next_generation < MaxGeneration
      BY <1>6 DEF BeginStart, Reg!BeginStart, Reg!Renew
    <3> QED
      BY <1>5, <3>1, RegistryAssumption DEF RegistryFacts
  <2>3. /\ IdleStart \in StartTasks /\ IdleStart.request = 0
        /\ IdleStart.port = NoPort /\ IdleStart.pid = 0
    BY RegistryAssumption, SchedulerAssumption, EngineAssumption DEF IdleStart, StartTasks, StartPcs
  <2>4. /\ t \in StartTasks /\ t.pc = "begun" /\ t.generation = next_generation + 1
        /\ t.request = 0 /\ t.port = NoPort /\ t.pid = 0
    BY <2>2, <2>3 DEF StartTasks, StartPcs
  <2> HIDE DEF t
  <2> QED
    BY <1>2, <2>1, <2>4
<1>7. ASSUME Enqueue(a)
      PROVE  StartsAt(a, "enqueued", s.generation, next_id + 1, s.port, s.pid)
  <2> DEFINE t == [s EXCEPT !.pc = "enqueued", !.request = next_id + 1]
  <2>1. start' = [start EXCEPT ![a] = t]
    BY <1>7, Zenon DEF Enqueue, s
  <2>2. next_id + 1 \in 0..MaxRequests
    <3>1. next_id < MaxRequests
      BY <1>7 DEF Enqueue, Sched!Enqueue
    <3> QED
      BY <1>5, <3>1, SchedulerAssumption DEF SchedulerFacts
  <2>3. /\ t \in StartTasks /\ t.pc = "enqueued" /\ t.generation = s.generation
        /\ t.request = next_id + 1 /\ t.port = s.port /\ t.pid = s.pid
    BY <1>1, <2>2 DEF StartTasks, StartPcs
  <2> HIDE DEF t
  <2> QED
    BY <1>2, <2>1, <2>3
<1>8. ASSUME ListPorts(a)
      PROVE  StartsAt(a, "listed", s.generation, s.request, s.port, s.pid)
  <2>1. PICK visible \in SUBSET engines :
          start' = [start EXCEPT ![a].pc = "listed",
                      ![a].occupied = {o.port : o \in visible} \cup DOMAIN by_port]
    BY <1>8, Zenon DEF ListPorts
  <2> DEFINE occupied == {o.port : o \in visible} \cup DOMAIN by_port
             t == [s EXCEPT !.pc = "listed", !.occupied = occupied]
  <2>2. start' = [start EXCEPT ![a] = t]
    BY <2>1, Zenon DEF s
  <2>3. occupied \subseteq Ports
    <3>1. \A o \in engines : o.port \in Ports
      BY DEF RuntimeInv, TaskTypes, Observations, EngineRecords
    <3> QED
      BY <1>5, <3>1 DEF RegistryFacts
  <2> HIDE DEF occupied
  <2>4. /\ t \in StartTasks /\ t.pc = "listed" /\ t.generation = s.generation
        /\ t.request = s.request /\ t.port = s.port /\ t.pid = s.pid
    BY <1>1, <2>3 DEF StartTasks, StartPcs
  <2> HIDE DEF t
  <2> QED
    BY <1>2, <2>2, <2>4
<1>9. ASSUME ReservePort(a)
      PROVE  \E p \in Ports \ reserved :
               /\ StartsAt(a, "reserved", s.generation, s.request, p, s.pid)
               /\ reserved' = reserved \cup {p} /\ Reg!AttachStartPort(StartCommand(a), p)
  <2>1. PICK p \in Ports \ reserved :
          /\ Reg!AttachStartPort(StartCommand(a), p) /\ reserved' = reserved \cup {p}
          /\ start' = [start EXCEPT ![a].pc = "reserved", ![a].port = p, ![a].occupied = {}]
    BY <1>9, Zenon DEF ReservePort, FreePorts
  <2> DEFINE t == [s EXCEPT !.pc = "reserved", !.port = p, !.occupied = {}]
  <2>2. start' = [start EXCEPT ![a] = t]
    BY <2>1, Zenon DEF s
  <2>3. /\ t \in StartTasks /\ t.pc = "reserved" /\ t.generation = s.generation
        /\ t.request = s.request /\ t.port = p /\ t.pid = s.pid
    BY <1>1 DEF StartTasks, StartPcs
  <2> HIDE DEF t
  <2>4. StartsAt(a, "reserved", s.generation, s.request, p, s.pid)
    BY <1>2, <2>2, <2>3
  <2> QED
    BY <2>1, <2>4
<1>10. ASSUME PortsExhausted(a)
       PROVE  StartsAt(a, "failing", s.generation, s.request, s.port, s.pid)
  <2> DEFINE t == [s EXCEPT !.pc = "failing", !.occupied = {}]
  <2>1. start' = [start EXCEPT ![a] = t]
    BY <1>10, Zenon DEF PortsExhausted, s
  <2>2. /\ t \in StartTasks /\ t.pc = "failing" /\ t.generation = s.generation
        /\ t.request = s.request /\ t.port = s.port /\ t.pid = s.pid
    BY <1>1 DEF StartTasks, StartPcs
  <2> HIDE DEF t
  <2> QED
    BY <1>2, <2>1, <2>2
<1>11. ASSUME Launch(a)
       PROVE  StartsAt(a, "launched", s.generation, s.request, s.port, spawned + 1)
  <2> DEFINE t == [s EXCEPT !.pc = "launched", !.pid = spawned + 1]
  <2>1. start' = [start EXCEPT ![a] = t]
    BY <1>11, Zenon DEF Launch, s
  <2>2. spawned + 1 \in 0..MaxEngines
    <3>1. spawned < MaxEngines
      BY <1>11 DEF Launch, Spawn
    <3> QED
      BY <3>1, EngineAssumption DEF RuntimeInv, TaskTypes
  <2>3. /\ t \in StartTasks /\ t.pc = "launched" /\ t.generation = s.generation
        /\ t.request = s.request /\ t.port = s.port /\ t.pid = spawned + 1
    BY <1>1, <2>2 DEF StartTasks, StartPcs
  <2> HIDE DEF t
  <2> QED
    BY <1>2, <2>1, <2>3
<1>12. ASSUME CommitRefused(a)
       PROVE  StartsAt(a, "refused", s.generation, 0, NoPort, s.pid)
  <2> DEFINE t == [s EXCEPT !.pc = "refused", !.request = 0, !.port = NoPort]
  <2>1. start' = [start EXCEPT ![a] = t]
    BY <1>12, Zenon DEF CommitRefused, s
  <2>2. 0 \in 0..MaxRequests
    BY SchedulerAssumption
  <2>3. /\ t \in StartTasks /\ t.pc = "refused" /\ t.generation = s.generation
        /\ t.request = 0 /\ t.port = NoPort /\ t.pid = s.pid
    BY <1>1, <2>2 DEF StartTasks, StartPcs
  <2> HIDE DEF t
  <2> QED
    BY <1>2, <2>1, <2>3
<1>16. ASSUME CleanUp(a)
       PROVE  StartsAt(a, "failing", s.generation, s.request, s.port, 0)
  <2> DEFINE t == [s EXCEPT !.pc = "failing", !.pid = 0]
  <2>1. start' = [start EXCEPT ![a] = t]
    BY <1>16, Zenon DEF CleanUp, s
  <2>2. 0 \in 0..MaxEngines
    BY EngineAssumption
  <2>3. /\ t \in StartTasks /\ t.pc = "failing" /\ t.generation = s.generation
        /\ t.request = s.request /\ t.port = s.port /\ t.pid = 0
    BY <1>1, <2>2 DEF StartTasks, StartPcs
  <2> HIDE DEF t
  <2> QED
    BY <1>2, <2>1, <2>3
<1>13. ASSUME StartSyncs(a)
       PROVE  \/ At(a, "syncing") /\ StartsAt(a, "applying", s.generation, s.request, s.port, s.pid)
              \/ StartsAt(a, "idle", 0, 0, NoPort, 0)
  <2>1. \/ /\ At(a, "syncing")
           /\ start' = [start EXCEPT ![a].pc = "applying", ![a].routes = Reg!Routes]
        \/ start' = [start EXCEPT ![a] = IdleStart]
    BY <1>13, Zenon DEF StartSyncs
  <2> DEFINE t == [s EXCEPT !.pc = "applying", !.routes = Reg!Routes]
  <2>2. ASSUME start' = [start EXCEPT ![a].pc = "applying", ![a].routes = Reg!Routes]
        PROVE  start' = [start EXCEPT ![a] = t]
    BY <2>2, Zenon DEF s
  <2>3. Reg!Routes \subseteq RouteRecords
    BY RoutesType DEF RuntimeInv, RoutesAreTyped
  <2>4. /\ t \in StartTasks /\ t.pc = "applying" /\ t.generation = s.generation
        /\ t.request = s.request /\ t.port = s.port /\ t.pid = s.pid
    BY <1>1, <2>3 DEF StartTasks, StartPcs
  <2> HIDE DEF t
  <2> QED
    BY <1>2, <1>4, <2>1, <2>2, <2>4
<1>14. /\ EnqueueRefused(a) \/ Canceled(a) \/ DropHeld(a) => StartsAt(a, "idle", 0, 0, NoPort, 0)
       /\ CheckTicket(a) => Goto(a, "checked")
       /\ MarkQueued(a) => Goto(a, "waiting")
       /\ Acquire(a) => Goto(a, "permitted")
       /\ MarkStarting(a) => Goto(a, "starting")
       /\ LaunchFails(a) => Goto(a, "failing")
       /\ BootFails(a) => Goto(a, "cleaning")
       /\ MarkBooting(a) => Goto(a, "booting")
       /\ Boots(a) => Goto(a, "booted")
       /\ IntoReservation(a) => Goto(a, "committing")
       /\ Commit(a) => Goto(a, "syncing")
       /\ FailStart(a) => Goto(a, "dropping")
  BY <1>4, Zenon
     DEF EnqueueRefused, Canceled, DropHeld, CheckTicket, MarkQueued, Acquire, MarkStarting,
         LaunchFails, BootFails, MarkBooting, Boots, IntoReservation, Commit, FailStart
<1>15. {"checked", "waiting", "permitted", "starting", "failing", "booting", "booted",
        "cleaning", "committing", "syncing", "dropping"} \subseteq StartPcs
  BY DEF StartPcs
<1> QED
  BY <1>3, <1>6, <1>7, <1>8, <1>9, <1>10, <1>11, <1>12, <1>13, <1>14, <1>15, <1>16 DEF StartSteps, s

LEMMA StopChanges ==
  ASSUME stop \in [Avds -> StopTasks], NEW a \in Avds, NEW t \in StopTasks,
         stop' = [stop EXCEPT ![a] = t]
  PROVE  StopsAt(a, t.pc, t.generation, t.session)
BY DEF StopsAt

LEMMA StopGoes ==
  ASSUME stop \in [Avds -> StopTasks], NEW a \in Avds, NEW pc \in StopPcs, StopGoto(a, pc)
  PROVE  StopsAt(a, pc, stop[a].generation, stop[a].session)
<1> DEFINE t == [stop[a] EXCEPT !.pc = pc]
<1>1. stop' = [stop EXCEPT ![a] = t]
  BY Zenon DEF StopGoto
<1>2. t \in StopTasks /\ t.pc = pc /\ t.generation = stop[a].generation /\ t.session = stop[a].session
  BY DEF StopTasks
<1> HIDE DEF t
<1> QED
  BY <1>1, <1>2, StopChanges

LEMMA StopRests ==
  ASSUME stop \in [Avds -> StopTasks], NEW a \in Avds, stop' = [stop EXCEPT ![a] = IdleStop]
  PROVE  StopsAt(a, "idle", 0, 0)
<1>1. IdleStop \in StopTasks
  BY RegistryAssumption DEF IdleStop, StopTasks, StopPcs
<1> HIDE DEF StopsAt
<1> QED
  BY <1>1, StopChanges DEF IdleStop

\* The steps of a stop, one by one.
StopSteps(a) ==
  LET g == stop[a].generation
      i == stop[a].session
  IN /\ ClickStop(a) => StopsAt(a, "clicked", g, i)
     /\ CancelRequest(a) => StopsAt(a, "canceling", g, i)
     /\ NothingQueued(a) => StopsAt(a, "beginning", g, i)
     /\ CancelPhase(a) => StopsAt(a, "idle", 0, 0)
     /\ NotQueued(a) => StopsAt(a, "beginning", g, i)
     /\ BeginStop(a) => StopsAt(a, "killing", next_generation + 1, by_avd[a])
     /\ NothingRunning(a) => StopsAt(a, "idle", 0, 0)
     /\ EngineExits(a) => StopsAt(a, "killed", g, i)
     /\ EngineStays(a) => StopsAt(a, "failed", g, i)
     /\ CompleteStop(a) => StopsAt(a, "uncounting", g, i)
     /\ FailStop(a) => StopsAt(a, "idle", 0, 0)
     /\ StaleStop(a) => StopsAt(a, "idle", 0, 0)
     /\ Uncount(a) => StopsAt(a, "syncing", g, i)
     /\ StopSyncs(a) => StopsAt(a, "applying", g, i) \/ StopsAt(a, "idle", 0, 0)

LEMMA StopEffects ==
  ASSUME RuntimeInv, NEW a \in Avds
  PROVE  StopSteps(a)
<1> DEFINE s == stop[a]
<1>1. stop \in [Avds -> StopTasks] /\ s \in StopTasks
  BY DEF RuntimeInv, TaskTypes
<1>2. ASSUME NEW t \in StopTasks, stop' = [stop EXCEPT ![a] = t]
      PROVE  StopsAt(a, t.pc, t.generation, t.session)
  BY <1>1, <1>2, StopChanges
<1>3. ASSUME NEW pc \in StopPcs, StopGoto(a, pc)
      PROVE  StopsAt(a, pc, s.generation, s.session)
  BY <1>1, <1>3, StopGoes
<1>4. ASSUME stop' = [stop EXCEPT ![a] = IdleStop]
      PROVE  StopsAt(a, "idle", 0, 0)
  BY <1>1, <1>4, StopRests
<1>5. RegistryFacts
  BY RegistrySays DEF RuntimeInv
<1> HIDE DEF s
<1>6. ASSUME BeginStop(a)
      PROVE  StopsAt(a, "killing", next_generation + 1, by_avd[a])
  <2> DEFINE t == [IdleStop EXCEPT !.pc = "killing", !.generation = next_generation + 1,
                                   !.session = by_avd[a]]
  <2>1. stop' = [stop EXCEPT ![a] = t]
    BY <1>6, Zenon DEF BeginStop
  <2>2. next_generation + 1 \in 0..MaxGeneration
    <3>1. next_generation < MaxGeneration
      BY <1>6 DEF BeginStop, Reg!BeginStop, Reg!Renew
    <3> QED
      BY <1>5, <3>1, RegistryAssumption DEF RegistryFacts
  <2>3. by_avd[a] \in 0..MaxSessions
    <3>1. a \in DOMAIN by_avd
      BY <1>6 DEF BeginStop, Reg!BeginStop
    <3>2. by_avd[a] \in 1..next_session_id /\ next_session_id \in 0..MaxSessions
      BY <1>5, <3>1 DEF RegistryFacts
    <3> QED
      BY <3>2, RegistryAssumption
  <2>4. IdleStop \in StopTasks
    BY RegistryAssumption DEF IdleStop, StopTasks, StopPcs
  <2>5. t \in StopTasks /\ t.pc = "killing" /\ t.generation = next_generation + 1 /\ t.session = by_avd[a]
    BY <2>2, <2>3, <2>4 DEF StopTasks, StopPcs
  <2> HIDE DEF t
  <2> QED
    BY <1>2, <2>1, <2>5
<1>7. ASSUME StopSyncs(a)
      PROVE  StopsAt(a, "applying", s.generation, s.session) \/ StopsAt(a, "idle", 0, 0)
  <2>1. \/ stop' = [stop EXCEPT ![a].pc = "applying", ![a].routes = Reg!Routes]
        \/ stop' = [stop EXCEPT ![a] = IdleStop]
    BY <1>7, Zenon DEF StopSyncs
  <2> DEFINE t == [s EXCEPT !.pc = "applying", !.routes = Reg!Routes]
  <2>2. ASSUME stop' = [stop EXCEPT ![a].pc = "applying", ![a].routes = Reg!Routes]
        PROVE  stop' = [stop EXCEPT ![a] = t]
    BY <2>2, Zenon DEF s
  <2>3. Reg!Routes \subseteq RouteRecords
    BY RoutesType DEF RuntimeInv, RoutesAreTyped
  <2>4. t \in StopTasks /\ t.pc = "applying" /\ t.generation = s.generation /\ t.session = s.session
    BY <1>1, <2>3 DEF StopTasks, StopPcs
  <2> HIDE DEF t
  <2> QED
    BY <1>2, <1>4, <2>1, <2>2, <2>4
<1>8. /\ CancelPhase(a) \/ NothingRunning(a) \/ FailStop(a) \/ StaleStop(a) => StopsAt(a, "idle", 0, 0)
      /\ ClickStop(a) => StopGoto(a, "clicked")
      /\ CancelRequest(a) => StopGoto(a, "canceling")
      /\ NothingQueued(a) \/ NotQueued(a) => StopGoto(a, "beginning")
      /\ EngineExits(a) => StopGoto(a, "killed")
      /\ EngineStays(a) => StopGoto(a, "failed")
      /\ CompleteStop(a) => StopGoto(a, "uncounting")
      /\ Uncount(a) => StopGoto(a, "syncing")
  BY <1>4, Zenon
     DEF CancelPhase, NothingRunning, FailStop, StaleStop, ClickStop, CancelRequest, NothingQueued,
         NotQueued, EngineExits, EngineStays, CompleteStop, Uncount
<1>9. {"clicked", "canceling", "beginning", "killed", "failed", "uncounting", "syncing"} \subseteq StopPcs
  BY DEF StopPcs
<1> QED
  BY <1>3, <1>6, <1>7, <1>8, <1>9 DEF StopSteps, s

\* The steps of a scan, one by one.
ScanSteps(s) ==
  /\ ReadAds(s) => \E observed \in SUBSET engines : ScansAt(s, "read", observed)
  /\ Merge(s) => ScansAt(s, "merged", {})
  /\ CountExternal(s) => ScansAt(s, "counted", scan[s].observed)
  /\ ApplyRoutes(s) => ScansAt(s, "idle", {})

LEMMA ScanEffects ==
  ASSUME RuntimeInv, RP!Inv', NEW s \in Scanners
  PROVE  ScanSteps(s)
<1> DEFINE t == scan[s]
<1>1. scan \in [Scanners -> ScanTasks] /\ t \in ScanTasks /\ engines \in Observations
  BY DEF RuntimeInv, TaskTypes
<1>2. ASSUME NEW u \in ScanTasks, scan' = [scan EXCEPT ![s] = u]
      PROVE  ScansAt(s, u.pc, u.observed)
  BY <1>1, <1>2 DEF ScansAt
<1>3. IdleScan \in ScanTasks
  BY DEF IdleScan, ScanTasks, ScanPcs, Observations
<1>4. ASSUME NEW observed \in SUBSET engines
      PROVE  observed \in Observations
  BY <1>1 DEF Observations
<1> HIDE DEF t
<1>5. ASSUME ReadAds(s)
      PROVE  \E observed \in SUBSET engines : ScansAt(s, "read", observed)
  <2>6. PICK sdk \in Sdks : \E observed \in SUBSET OfSdk(sdk) :
          scan' = [scan EXCEPT ![s] = [IdleScan EXCEPT !.pc = "read", !.sdk = sdk,
                                                      !.observed = observed]]
    BY <1>5, Zenon DEF ReadAds
  <2>1. PICK observed \in SUBSET OfSdk(sdk) :
          scan' = [scan EXCEPT ![s] = [IdleScan EXCEPT !.pc = "read", !.sdk = sdk,
                                                      !.observed = observed]]
    BY <2>6
  <2> DEFINE u == [IdleScan EXCEPT !.pc = "read", !.sdk = sdk, !.observed = observed]
  <2>5. observed \in SUBSET engines
    BY DEF OfSdk
  <2>2. observed \in Observations
    BY <1>4, <2>5
  <2>3. u \in ScanTasks /\ u.pc = "read" /\ u.observed = observed
    BY <1>3, <2>2 DEF ScanTasks, ScanPcs
  <2> HIDE DEF u
  <2>4. ScansAt(s, "read", observed)
    BY <1>2, <2>1, <2>3 DEF u
  <2> QED
    BY <2>4, <2>5
<1>6. ASSUME Merge(s)
      PROVE  ScansAt(s, "merged", {})
  <2> DEFINE u == [IdleScan EXCEPT !.pc = "merged", !.adopted = AdoptedAvds', !.routes = Reg!Routes']
  <2>1. scan' = [scan EXCEPT ![s] = u]
    BY <1>6, Zenon DEF Merge
  <2>2. Reg!Routes' \subseteq RouteRecords
    BY RoutesTypeNext DEF RoutesAreTyped, RouteRecords
  <2>3. AdoptedAvds' \subseteq Avds
    <3>1. RegistryFacts'
      BY RegistrySaysNext
    <3> QED
      BY <3>1 DEF AdoptedAvds, RegistryFacts, EngineRecords
  <2>4. u \in ScanTasks /\ u.pc = "merged" /\ u.observed = IdleScan.observed
    BY <1>3, <2>2, <2>3 DEF ScanTasks, ScanPcs
  <2>5. IdleScan.observed = {}
    BY DEF IdleScan
  <2> HIDE DEF u
  <2> QED
    BY <1>2, <2>1, <2>4, <2>5
<1>7. ASSUME CountExternal(s)
      PROVE  ScansAt(s, "counted", t.observed)
  <2> DEFINE u == [t EXCEPT !.pc = "counted", !.adopted = {}]
  <2>1. scan' = [scan EXCEPT ![s] = u]
    BY <1>7, Zenon DEF CountExternal, t
  <2>2. u \in ScanTasks /\ u.pc = "counted" /\ u.observed = t.observed
    BY <1>1 DEF ScanTasks, ScanPcs
  <2> HIDE DEF u
  <2> QED
    BY <1>2, <2>1, <2>2
<1>8. ASSUME ApplyRoutes(s)
      PROVE  ScansAt(s, "idle", {})
  <2>1. scan' = [scan EXCEPT ![s] = IdleScan]
    BY <1>8 DEF ApplyRoutes
  <2>2. ScansAt(s, IdleScan.pc, IdleScan.observed)
    BY <1>2, <1>3, <2>1
  <2> QED
    BY <2>2 DEF IdleScan
<1> QED
  BY <1>5, <1>6, <1>7, <1>8 DEF ScanSteps, t

-----------------------------------------------------------------------------
(* The engines: one is started, or some are gone and no longer managed.     *)

EngineStarts(a, port) ==
  /\ engines' = engines \cup {[avd |-> a, port |-> port, pid |-> spawned + 1]}
  /\ spawned' = spawned + 1 /\ spawned + 1 \in Pids
  /\ managed' \in {managed, managed \cup {spawned + 1}}
EnginesGo ==
  /\ engines' \subseteq engines /\ managed' \subseteq managed /\ spawned' = spawned
  /\ \A o \in engines \ engines' : o.pid \notin managed'
EnginesStay == UNCHANGED engineVars

LEMMA SpawnTypes ==
  ASSUME RuntimeInv, NEW a \in Avds, NEW port \in Ports, Spawn(a, port),
         managed' \in {managed, managed \cup {spawned + 1}}
  PROVE  /\ EngineStarts(a, port)
         /\ engines' \in Observations /\ spawned' \in 0..MaxEngines
         /\ managed' \subseteq {o.pid : o \in engines'}
<1> DEFINE e == [avd |-> a, port |-> port, pid |-> spawned + 1]
<1>1. /\ engines \in Observations /\ spawned \in 0..MaxEngines
      /\ managed \subseteq {o.pid : o \in engines} /\ \A o \in engines : o.pid <= spawned
  BY DEF RuntimeInv, TaskTypes, PidsAreNew
<1>2. /\ engines' = engines \cup {e} /\ spawned' = spawned + 1 /\ spawned < MaxEngines
      /\ \A o \in engines : o.port # port
  BY DEF Spawn
<1>3. spawned + 1 \in 0..MaxEngines /\ spawned + 1 \in Pids
  BY <1>1, <1>2, EngineAssumption DEF Pids
<1>4. e \in EngineRecords /\ e.pid = spawned + 1 /\ e.port = port
  BY <1>3 DEF EngineRecords
<1>5. \A o \in engines : o.pid # spawned + 1
  <2>1. \A o \in engines : o.pid \in Int
    BY <1>1, EngineAssumption DEF Observations, EngineRecords, Pids
  <2> QED
    BY <1>1, <2>1, EngineAssumption
<1> HIDE DEF e
<1>6. engines' \in Observations
  BY <1>1, <1>2, <1>4, <1>5 DEF Observations
<1>7. managed' \subseteq {o.pid : o \in engines'}
  BY <1>1, <1>2, <1>4
<1>8. EngineStarts(a, port)
  BY <1>2, <1>3 DEF EngineStarts, e
<1> QED
  BY <1>2, <1>3, <1>6, <1>7, <1>8

LEMMA EnginesGoTypes ==
  ASSUME RuntimeInv, EnginesGo
  PROVE  /\ engines' \in Observations /\ spawned' \in 0..MaxEngines
         /\ managed' \subseteq {o.pid : o \in engines'}
<1>1. /\ engines \in Observations /\ spawned \in 0..MaxEngines
      /\ managed \subseteq {o.pid : o \in engines}
  BY DEF RuntimeInv, TaskTypes
<1>2. engines' \in Observations
  BY <1>1 DEF EnginesGo, Observations
<1>3. managed' \subseteq {o.pid : o \in engines'}
  BY <1>1 DEF EnginesGo
<1> QED
  BY <1>1, <1>2, <1>3 DEF EnginesGo

LEMMA CleanUpGoes ==
  ASSUME NEW a \in Avds, CleanUp(a)
  PROVE  EnginesGo
BY DEF CleanUp, EnginesGo

LEMMA CrashGoes ==
  ASSUME NEW o \in engines, Crash(o)
  PROVE  EnginesGo
BY DEF Crash, EnginesGo

LEMMA ExitGoes ==
  ASSUME NEW a \in Avds, EngineExits(a)
  PROVE  /\ EnginesGo
         /\ stop[a].session \in DOMAIN sessions =>
              sessions[stop[a].session].instance \notin engines'
BY DEF EngineExits, EnginesGo, StopTarget

\* What the steps do to the engines.
StartEngines(a) ==
  /\ Launch(a) => EngineStarts(a, start[a].port) /\ managed' = managed \cup {spawned + 1}
  /\ CleanUp(a) => EnginesGo
  /\ StartStep(a) => Launch(a) \/ CleanUp(a) \/ EnginesStay

LEMMA StartOnEngines ==
  ASSUME RuntimeInv, NEW a \in Avds
  PROVE  StartEngines(a)
<1>1. ASSUME Launch(a)
      PROVE  EngineStarts(a, start[a].port) /\ managed' = managed \cup {spawned + 1}
  <2>1. Spawn(a, start[a].port) /\ managed' = managed \cup {spawned + 1} /\ start[a].pc = "reserved"
    BY <1>1, Zenon DEF Launch, At
  <2>2. start[a].port \in Ports
    BY <2>1 DEF RuntimeInv, DevicesAreOwned, OwnsDevice, HasPort
  <2> QED
    BY <2>1, <2>2, SpawnTypes
<1>2. CleanUp(a) => EnginesGo
  BY CleanUpGoes
<1>3. ASSUME StartStep(a)
      PROVE  Launch(a) \/ CleanUp(a) \/ EnginesStay
  BY <1>3, Zenon
     DEF StartStep, EnginesStay, BeginStart, Enqueue, EnqueueRefused, CheckTicket, Canceled,
         MarkQueued, Acquire, MarkStarting, ListPorts, ReservePort, PortsExhausted, LaunchFails,
         MarkBooting, Boots, BootFails, IntoReservation, Commit, CommitRefused, FailStart, DropHeld,
         StartSyncs, engineVars
<1> QED
  BY <1>1, <1>2, <1>3 DEF StartEngines

LEMMA StopOnEngines ==
  ASSUME NEW a \in Avds, StopStep(a)
  PROVE  (EngineExits(a) /\ EnginesGo) \/ EnginesStay
<1>1. EngineExits(a) \/ EnginesStay
  BY Zenon
     DEF StopStep, EnginesStay, ClickStop, CancelRequest, NothingQueued, CancelPhase, NotQueued,
         BeginStop, NothingRunning, EngineStays, CompleteStop, FailStop, StaleStop, Uncount, StopSyncs
<1> QED
  BY <1>1, ExitGoes

LEMMA ScanOnEngines ==
  ASSUME NEW s \in Scanners, ScanStep(s)
  PROVE  EnginesStay
BY Zenon DEF ScanStep, ReadAds, Merge, CountExternal, ApplyRoutes, EnginesStay

LEMMA ExternalStartStarts ==
  ASSUME RuntimeInv, NEW a \in Avds, ExternalStart(a)
  PROVE  \E port \in Ports : EngineStarts(a, port) /\ managed' = managed
<1>1. PICK port \in Ports : Spawn(a, port)
  BY DEF ExternalStart
<1>2. managed' = managed
  BY DEF ExternalStart
<1> QED
  BY <1>1, <1>2, SpawnTypes

\* Which task a step belongs to.
LEMMA StartFrames ==
  ASSUME NEW a \in Avds, StartStep(a)
  PROVE  UNCHANGED <<stop, scan>>
BY Zenon
   DEF StartStep, StartFrame, BeginStart, Enqueue, EnqueueRefused, CheckTicket, Canceled,
       MarkQueued, Acquire, MarkStarting, ListPorts, ReservePort, PortsExhausted, Launch, LaunchFails,
       MarkBooting, Boots, BootFails, CleanUp, IntoReservation, Commit, CommitRefused, FailStart, DropHeld,
       StartSyncs

LEMMA StopFrames ==
  ASSUME NEW a \in Avds, StopStep(a)
  PROVE  UNCHANGED <<start, scan>>
BY Zenon
   DEF StopStep, StopFrame, ClickStop, CancelRequest, NothingQueued, CancelPhase, NotQueued,
       BeginStop, NothingRunning, EngineExits, EngineStays, CompleteStop, FailStop, StaleStop,
       Uncount, StopSyncs

LEMMA ScanFrames ==
  ASSUME NEW s \in Scanners, ScanStep(s)
  PROVE  UNCHANGED <<start, stop>>
BY Zenon DEF ScanStep, ScanFrame, ReadAds, Merge, CountExternal, ApplyRoutes

LEMMA TasksKept ==
  ASSUME RuntimeInv, [Next]_runtimeVars
  PROVE  TaskTypes'
<1>1. /\ start \in [Avds -> StartTasks] /\ stop \in [Avds -> StopTasks]
      /\ scan \in [Scanners -> ScanTasks]
      /\ engines \in Observations /\ spawned \in 0..MaxEngines
      /\ managed \subseteq {o.pid : o \in engines}
  BY DEF RuntimeInv, TaskTypes
<1>2. RP!Inv'
  BY RegistryKept
<1>3. ASSUME EnginesStay \/ EnginesGo
      PROVE  /\ engines' \in Observations /\ spawned' \in 0..MaxEngines
             /\ managed' \subseteq {o.pid : o \in engines'}
  BY <1>1, <1>3, EnginesGoTypes DEF EnginesStay, engineVars
<1>4. ASSUME NEW a \in Avds, StartStep(a)
      PROVE  TaskTypes'
  <2>1. start' \in [Avds -> StartTasks]
    BY <1>4, StartEffects DEF StartStep, StartSteps, StartsAt
  <2>2. stop' = stop /\ scan' = scan
    BY <1>4, StartFrames
  <2>3. /\ engines' \in Observations /\ spawned' \in 0..MaxEngines
        /\ managed' \subseteq {o.pid : o \in engines'}
    <3>1. CASE Launch(a)
      <4>1. Spawn(a, start[a].port) /\ managed' = managed \cup {spawned + 1} /\ start[a].pc = "reserved"
        BY <3>1, Zenon DEF Launch, At
      <4>2. start[a].port \in Ports
        BY <4>1 DEF RuntimeInv, DevicesAreOwned, OwnsDevice, HasPort
      <4> QED
        BY <4>1, <4>2, SpawnTypes
    <3> QED
      BY <1>3, <1>4, <3>1, StartOnEngines DEF StartEngines
  <2> QED
    BY <1>1, <2>1, <2>2, <2>3 DEF TaskTypes
<1>5. ASSUME NEW a \in Avds, StopStep(a)
      PROVE  TaskTypes'
  <2>1. stop' \in [Avds -> StopTasks]
    BY <1>5, StopEffects DEF StopStep, StopSteps, StopsAt
  <2>2. start' = start /\ scan' = scan
    BY <1>5, StopFrames
  <2> QED
    BY <1>1, <1>3, <1>5, <2>1, <2>2, StopOnEngines DEF TaskTypes
<1>6. ASSUME NEW s \in Scanners, ScanStep(s)
      PROVE  TaskTypes'
  <2>1. scan' \in [Scanners -> ScanTasks]
    BY <1>2, <1>6, ScanEffects DEF ScanStep, ScanSteps, ScansAt
  <2>2. start' = start /\ stop' = stop
    BY <1>6, ScanFrames
  <2> QED
    BY <1>1, <1>3, <1>6, <2>1, <2>2, ScanOnEngines DEF TaskTypes
<1>7. ASSUME NEW a \in Avds, ExternalStart(a)
      PROVE  TaskTypes'
  <2>1. PICK port \in Ports : Spawn(a, port)
    BY <1>7 DEF ExternalStart
  <2>2. managed' = managed /\ start' = start /\ stop' = stop /\ scan' = scan
    BY <1>7 DEF ExternalStart
  <2> QED
    BY <1>1, <2>1, <2>2, SpawnTypes DEF TaskTypes
<1>8. ASSUME NEW o \in engines, Crash(o)
      PROVE  TaskTypes'
  <2>1. start' = start /\ stop' = stop /\ scan' = scan
    BY <1>8 DEF Crash
  <2> QED
    BY <1>1, <1>3, <1>8, <2>1, CrashGoes DEF TaskTypes
<1>9. CASE UNCHANGED runtimeVars
  BY <1>1, <1>9 DEF runtimeVars, engineVars, TaskTypes
<1> QED
  BY <1>4, <1>5, <1>6, <1>7, <1>8, <1>9 DEF Next

-----------------------------------------------------------------------------
(* The scheduler under the runtime's steps.  A session that leaves drops    *)
(* its reservation, and a scan may drop several at once.                    *)

RequestsOf(ids) == {leases[i].request : i \in ids \cap DOMAIN leases}
LeasesGo(ids) ==
  /\ UNCHANGED <<next_id, queue>>
  /\ \A r \in Sched!Ids :
       /\ r \in RequestsOf(ids) => owner'[r] = "gone"
       /\ r \notin RequestsOf(ids) =>
            owner'[r] = owner[r] /\ (r \in DOMAIN active => active'[r].key = active[r].key)
  /\ DOMAIN leases' = DOMAIN leases \ ids
  /\ \A i \in DOMAIN leases \ ids : leases'[i] = leases[i]
  /\ reserved' = reserved \ {leases[i].port : i \in ids \cap DOMAIN leases}

LEMMA LeasesDropped ==
  ASSUME RuntimeInv, NEW ids, DropLeases(ids)
  PROVE  LeasesGo(ids) /\ SchedInv'
<1> DEFINE gone == RequestsOf(ids)
<1>1. SchedulerFacts /\ SchedInv
  BY SchedulerSays DEF RuntimeInv
<1>2. /\ active' = [x \in DOMAIN active \ gone |-> active[x]]
      /\ owner' = [r \in DOMAIN owner |-> IF r \in gone THEN "gone" ELSE owner[r]]
      /\ reserved' = reserved \ {leases[i].port : i \in ids \cap DOMAIN leases}
      /\ leases' = [x \in DOMAIN leases \ ids |-> leases[x]]
      /\ UNCHANGED <<next_id, queue, external, last_status, sleeping>>
  BY DEF DropLeases, Without, RequestsOf
<1>3. \A r \in gone : r \in Sched!Ids /\ owner[r] = "session"
  BY DEF RuntimeInv, SessionsOwn, RequestsOf
<1> HIDE DEF gone
<1>4. DOMAIN owner = Sched!Ids
  BY <1>1 DEF SchedulerFacts
<1>5. LeasesGo(ids)
  BY <1>2, <1>4 DEF LeasesGo, gone
<1>6. Sched!Ids = SP!Ids
  BY DEF Sched!Ids, SP!Ids
<1>7. /\ SP!TypeOK /\ SP!RequestsSoFar /\ SP!QueueInRequestOrder /\ SP!HandlesOwnAllocations
      /\ SP!OneRequestPerKey
  BY <1>1 DEF SchedInv, SP!QueueInv
<1>8. SP!TypeOK'
  <2>1. owner' \in [SP!Ids -> SP!OwnerStates]
    BY <1>2, <1>7 DEF SP!TypeOK, SP!OwnerStates
  <2>2. active' \in [DOMAIN active' -> SP!Allocations] /\ DOMAIN active' \subseteq SP!Ids
    BY <1>2, <1>7 DEF SP!TypeOK
  <2> QED
    BY <1>2, <1>7, <2>1, <2>2 DEF SP!TypeOK
<1>9. SP!RequestsSoFar'
  BY <1>2, <1>3, <1>4, <1>6, <1>7 DEF SP!RequestsSoFar
<1>10. SP!QueueInRequestOrder'
  BY <1>2, <1>7 DEF SP!QueueInRequestOrder
<1>11. SP!HandlesOwnAllocations'
  <2>1. SP!QueueIds' \subseteq SP!Waiters'
    <3>1. SP!QueueIds' = SP!QueueIds
      BY <1>2 DEF SP!QueueIds
    <3>2. \A r \in SP!Waiters : r \in SP!Waiters'
      BY <1>2, <1>3, <1>4, <1>6 DEF SP!Waiters
    <3> QED
      BY <1>7, <3>1, <3>2 DEF SP!HandlesOwnAllocations
  <2>2. DOMAIN active' = {r \in SP!Ids : owner'[r] \in {"permit", "session"}}
    BY <1>2, <1>3, <1>4, <1>6, <1>7 DEF SP!HandlesOwnAllocations
  <2>3. SP!Starting' = {r \in SP!Ids : owner'[r] = "permit"}
    <3>1. \A r \in SP!Ids : r \in DOMAIN active /\ active[r].starting <=> owner[r] = "permit"
      BY <1>7 DEF SP!HandlesOwnAllocations, SP!Starting
    <3>2. \A r \in SP!Ids : r \in DOMAIN active' /\ active'[r].starting <=> owner'[r] = "permit"
      BY <1>2, <1>3, <1>4, <1>6, <3>1
    <3>3. DOMAIN active' \subseteq SP!Ids
      BY <1>8 DEF SP!TypeOK
    <3> QED
      BY <3>2, <3>3 DEF SP!Starting
  <2> QED
    BY <2>1, <2>2, <2>3 DEF SP!HandlesOwnAllocations
<1>12. SP!OneRequestPerKey'
  <2>1. \A q \in DOMAIN active' : q \in DOMAIN active /\ active'[q] = active[q]
    BY <1>2
  <2>2. SP!QueueKeys' = SP!QueueKeys /\ queue' = queue
    BY <1>2 DEF SP!QueueKeys
  <2>3. SP!ActiveKeys' \subseteq SP!ActiveKeys
    BY <2>1 DEF SP!ActiveKeys
  <2>4. \A q, r \in DOMAIN active' : active'[q].key = active'[r].key => q = r
    BY <1>7, <2>1 DEF SP!OneRequestPerKey
  <2> QED
    BY <1>7, <2>2, <2>3, <2>4 DEF SP!OneRequestPerKey
<1> QED
  BY <1>5, <1>8, <1>9, <1>10, <1>11, <1>12 DEF SchedInv, SP!QueueInv

LEMMA SchedulerStays ==
  ASSUME SchedInv, UNCHANGED schedVars
  PROVE  SchedInv'
<1>1. /\ UNCHANGED <<next_id, queue, active, external, owner, last_status, sleeping>>
  BY DEF schedVars
<1>2. UNCHANGED SP!vars
  BY <1>1 DEF SP!vars
<1>3. SP!QueueInv /\ SP!OneRequestPerKey
  BY DEF SchedInv
<1>4. SP!TypeOK' /\ SP!RequestsSoFar' /\ SP!QueueInRequestOrder' /\ SP!HandlesOwnAllocations'
      /\ SP!OneRequestPerKey'
  BY <1>2, <1>3, ComponentAssumptions, SP!NextType, SP!NextRequestsSoFar, SP!NextOrder,
     SP!NextHandles, SP!NextOneRequest DEF SP!QueueInv
<1> QED
  BY <1>4 DEF SchedInv, SP!QueueInv

\* The request a task drops or turns into a reservation is one of its own.
LEMMA RequestOf ==
  ASSUME RuntimeInv, NEW a \in Avds, start[a].request # 0
  PROVE  start[a].request \in Sched!Ids
<1>1. start[a].request \in 0..MaxRequests
  BY DEF RuntimeInv, TaskTypes, StartTasks
<1> QED
  BY <1>1, SchedulerAssumption DEF Sched!Ids

LEMMA TicketOf ==
  ASSUME RuntimeInv, NEW a \in Avds, start[a].pc \in Ticketed \cup Permitted \cup {"committing"}
  PROVE  start[a].request \in Sched!Ids
<1>1. start[a].request # 0
  BY DEF RuntimeInv, RequestsAreHeld, HoldsRequest
<1> QED
  BY <1>1, RequestOf

LEMMA StartOnScheduler ==
  ASSUME RuntimeInv, NEW a \in Avds, StartStep(a)
  PROVE  Sched!Next \/ UNCHANGED schedVars
<1> DEFINE r == start[a].request
<1>1. CASE Enqueue(a)
  <2>1. Sched!Enqueue(a, Demand[a])
    BY <1>1, Zenon DEF Enqueue
  <2> QED
    BY <2>1 DEF Sched!Next
<1>2. CASE Canceled(a)
  <2>1. Sched!DropTicket(r) /\ start[a].pc \in Ticketed
    BY <1>2 DEF Canceled, At, Ticketed
  <2> QED
    BY <2>1, TicketOf DEF Sched!Next
<1>3. CASE Acquire(a)
  <2>1. Sched!TryAcquire(r) /\ start[a].pc \in Ticketed
    BY <1>3 DEF Acquire, At, Ticketed
  <2> QED
    BY <2>1, TicketOf DEF Sched!Next
<1>4. CASE IntoReservation(a)
  <2>1. Sched!IntoReservation(r) /\ start[a].pc \in Permitted
    BY <1>4 DEF IntoReservation, At, Permitted
  <2> QED
    BY <2>1, TicketOf DEF Sched!Next
<1>5. CASE CommitRefused(a)
  <2>1. Sched!DropReservation(r) /\ start[a].pc = "committing"
    BY <1>5, Zenon DEF CommitRefused, At
  <2> QED
    BY <2>1, TicketOf DEF Sched!Next
<1>6. CASE DropHeld(a)
  <2>1. \/ UNCHANGED schedVars
        \/ r # 0 /\ Sched!DropPermit(r)
    BY <1>6 DEF DropHeld
  <2> QED
    BY <2>1, RequestOf DEF Sched!Next
<1>7. CASE \/ BeginStart(a) \/ EnqueueRefused(a) \/ CheckTicket(a) \/ MarkQueued(a)
           \/ MarkStarting(a) \/ ListPorts(a) \/ ReservePort(a) \/ PortsExhausted(a) \/ Launch(a)
           \/ LaunchFails(a) \/ MarkBooting(a) \/ Boots(a) \/ BootFails(a) \/ CleanUp(a) \/ Commit(a)
           \/ FailStart(a) \/ StartSyncs(a)
  BY <1>7, Zenon
     DEF BeginStart, EnqueueRefused, CheckTicket, MarkQueued, MarkStarting, ListPorts, ReservePort,
         PortsExhausted, Launch, LaunchFails, MarkBooting, Boots, BootFails, CleanUp, Commit, FailStart,
         StartSyncs
<1> QED
  BY <1>1, <1>2, <1>3, <1>4, <1>5, <1>6, <1>7 DEF StartStep

LEMMA StopOnScheduler ==
  ASSUME NEW a \in Avds, StopStep(a)
  PROVE  \/ Sched!Next \/ UNCHANGED schedVars
         \/ CompleteStop(a) /\ DropLeases({stop[a].session})
<1>1. \/ Sched!Cancel(a) \/ Sched!RemoveExternal(a) \/ UNCHANGED schedVars
      \/ CompleteStop(a) /\ DropLeases({stop[a].session})
  BY Zenon
     DEF StopStep, ClickStop, CancelRequest, NothingQueued, CancelPhase, NotQueued, BeginStop,
         NothingRunning, EngineExits, EngineStays, CompleteStop, FailStop, StaleStop, Uncount, StopSyncs
<1> QED
  BY <1>1 DEF Sched!Next

LEMMA ScanOnScheduler ==
  ASSUME RuntimeInv, NEW s \in Scanners, ScanStep(s)
  PROVE  \/ Sched!Next \/ UNCHANGED schedVars
         \/ Merge(s) /\ DropLeases(ExitedSessions(scan[s].observed, scan[s].sdk))
<1>1. CASE CountExternal(s)
  <2> DEFINE entries == [a \in scan[s].adopted |-> ScanDemand(s, a)]
  <2>1. Sched!ReconcileExternal(entries)
    BY <1>1, Zenon DEF CountExternal
  <2>2. scan[s].adopted \subseteq Avds
    BY DEF RuntimeInv, TaskTypes, ScanTasks
  <2>3. entries \in Sched!ExternalMaps
    BY <2>2 DEF Sched!ExternalMaps, ScanDemand
  <2> HIDE DEF entries
  <2> QED
    BY <2>1, <2>3 DEF Sched!Next
<1>2. CASE ReadAds(s) \/ Merge(s) \/ ApplyRoutes(s)
  BY <1>2, Zenon DEF ReadAds, Merge, ApplyRoutes
<1> QED
  BY <1>1, <1>2 DEF ScanStep

LEMMA SchedulerKept ==
  ASSUME RuntimeInv, [Next]_runtimeVars
  PROVE  SchedInv'
<1>1. SchedInv
  BY DEF RuntimeInv
<1>2. ASSUME Sched!Next \/ UNCHANGED schedVars
      PROVE  SchedInv'
  BY <1>1, <1>2, SchedulerStep, SchedulerStays
<1>3. ASSUME NEW a \in Avds, ExternalStart(a)
      PROVE  UNCHANGED schedVars
  BY <1>3 DEF ExternalStart
<1>4. ASSUME NEW o \in engines, Crash(o)
      PROVE  UNCHANGED schedVars
  BY <1>4 DEF Crash
<1>5. ASSUME UNCHANGED runtimeVars
      PROVE  UNCHANGED schedVars
  BY <1>5 DEF runtimeVars
<1> QED
  BY <1>2, <1>3, <1>4, <1>5, StartOnScheduler, StopOnScheduler, ScanOnScheduler, LeasesDropped DEF Next

-----------------------------------------------------------------------------
(* Commands.                                                                *)

\* What a start does to the commands in the workers' hands.
LEMMA StartOnCommands ==
  ASSUME NEW a \in Avds, StartStep(a)
  PROVE  /\ stops' = stops
         /\ \/ BeginStart(a) /\ starts' = starts \cup {[avd |-> a, generation |-> next_generation + 1]}
            \/ /\ EnqueueRefused(a) \/ Canceled(a) \/ Commit(a) \/ FailStart(a)
               /\ starts' = starts \ {StartCommand(a)}
            \/ /\ ~(BeginStart(a) \/ EnqueueRefused(a) \/ Canceled(a) \/ Commit(a) \/ FailStart(a))
               /\ starts' = starts
<1>1. BeginStart(a) => /\ stops' = stops
                       /\ starts' = starts \cup {[avd |-> a, generation |-> next_generation + 1]}
  BY Zenon DEF BeginStart, Reg!BeginStart
<1>2. EnqueueRefused(a) \/ Canceled(a) \/ Commit(a) \/ FailStart(a) =>
        stops' = stops /\ starts' = starts \ {StartCommand(a)}
  BY Zenon DEF EnqueueRefused, Canceled, Commit, FailStart, Reg!FailStart, Reg!DropStart,
               Reg!CompleteStart
<1>3. MarkQueued(a) \/ MarkStarting(a) \/ MarkBooting(a) \/ ReservePort(a) =>
        stops' = stops /\ starts' = starts
  BY Zenon DEF MarkQueued, MarkStarting, MarkBooting, ReservePort, Reg!MarkStart,
               Reg!AttachStartPort, Reg!commandVars
<1>4. Enqueue(a) \/ CheckTicket(a) \/ Acquire(a) \/ ListPorts(a) \/ PortsExhausted(a) \/ Launch(a)
      \/ LaunchFails(a) \/ Boots(a) \/ BootFails(a) \/ CleanUp(a) \/ IntoReservation(a) \/ CommitRefused(a)
      \/ DropHeld(a) \/ StartSyncs(a) => UNCHANGED regVars
  BY Zenon DEF Enqueue, CheckTicket, Acquire, ListPorts, PortsExhausted, Launch, LaunchFails,
               Boots, BootFails, CleanUp, IntoReservation, CommitRefused, DropHeld, StartSyncs
<1>5. UNCHANGED regVars => stops' = stops /\ starts' = starts
  BY DEF regVars
<1> HIDE DEF StartCommand
<1> QED
  BY <1>1, <1>2, <1>3, <1>4, <1>5 DEF StartStep

LEMMA StartKeepsCommands ==
  ASSUME RuntimeInv, NEW a \in Avds, StartStep(a)
  PROVE  CommandsAreHeld'
<1>1. StartSteps(a) /\ stop' = stop /\ \A b \in Avds : HoldsCommands(b)
  BY StartEffects, StartFrames DEF RuntimeInv, CommandsAreHeld
<1>2. \A b \in Avds \ {a} : start'[b] = start[b]
  BY <1>1 DEF StartStep, StartSteps, StartsAt
<1>3. stops' = stops /\ \A c \in starts : c.avd # a => c \in starts'
  BY StartOnCommands DEF StartCommand
<1>4. ASSUME NEW b \in Avds \ {a}
      PROVE  HoldsCommands(b)'
  BY <1>1, <1>2, <1>3 DEF HoldsCommands, StartCommand, StopCommand
<1>5. HoldsCommands(a)'
  <2>1. CASE BeginStart(a)
    BY <1>1, <2>1, StartOnCommands
       DEF StartSteps, StartsAt, HoldsCommands, StartCommand, StopCommand
  <2>2. CASE EnqueueRefused(a) \/ Canceled(a) \/ Commit(a) \/ FailStart(a)
    <3>1. start'[a].pc \in {"idle", "syncing", "dropping"}
      BY <1>1, <2>2 DEF StartSteps, StartsAt
    <3> QED
      BY <1>1, <1>3, <3>1 DEF HoldsCommands, HoldsCommand, StopCommand
  <2>3. CASE ~(BeginStart(a) \/ EnqueueRefused(a) \/ Canceled(a) \/ Commit(a) \/ FailStart(a))
    <3>1. starts' = starts
      BY <2>3, StartOnCommands
    <3>2. \/ start'[a].pc \notin HoldsCommand
          \/ start[a].pc \in HoldsCommand /\ start'[a].generation = start[a].generation
      <4>1. CASE DropHeld(a) \/ StartSyncs(a)
        BY <1>1, <4>1 DEF StartSteps, StartsAt, HoldsCommand
      <4>2. CASE \/ Enqueue(a) \/ CheckTicket(a) \/ MarkQueued(a) \/ Acquire(a) \/ MarkStarting(a)
                 \/ ListPorts(a) \/ ReservePort(a) \/ PortsExhausted(a) \/ Launch(a)
                 \/ LaunchFails(a) \/ MarkBooting(a) \/ Boots(a) \/ BootFails(a) \/ CleanUp(a)
                 \/ IntoReservation(a) \/ CommitRefused(a)
        <5>1. start[a].pc \in HoldsCommand
          <6>1. start[a].pc \in {"begun", "enqueued", "checked", "waiting", "permitted", "starting",
                                 "listed", "reserved", "launched", "booting", "booted", "committing",
                                 "cleaning", "refused"}
            BY <4>2, Zenon
               DEF At, Enqueue, CheckTicket, MarkQueued, Acquire, MarkStarting, ListPorts,
                   ReservePort, PortsExhausted, Launch, LaunchFails, MarkBooting, Boots, BootFails, CleanUp,
                   IntoReservation, CommitRefused
          <6> QED
            BY <6>1 DEF HoldsCommand
        <5>2. start'[a].generation = start[a].generation
          BY <1>1, <4>2 DEF StartSteps, StartsAt
        <5> QED
          BY <5>1, <5>2
      <4> QED
        BY <2>3, <4>1, <4>2 DEF StartStep
    <3> QED
      BY <1>1, <1>3, <3>1, <3>2 DEF HoldsCommands, StartCommand, StopCommand
  <2> QED
    BY <2>1, <2>2, <2>3
<1> QED
  BY <1>4, <1>5 DEF CommandsAreHeld

LEMMA StopKeepsCommands ==
  ASSUME RuntimeInv, NEW a \in Avds, StopStep(a)
  PROVE  CommandsAreHeld'
<1>1. StopSteps(a) /\ start' = start /\ \A b \in Avds : HoldsCommands(b)
  BY StopEffects, StopFrames DEF RuntimeInv, CommandsAreHeld
<1>2. \A b \in Avds \ {a} : stop'[b] = stop[b]
  BY <1>1 DEF StopStep, StopSteps, StopsAt
<1>3. CASE BeginStop(a)
  <2>1. /\ starts' = starts
        /\ stops' = stops \cup {[avd |-> a, generation |-> next_generation + 1, session |-> by_avd[a]]}
    BY <1>3, Zenon DEF BeginStop, Reg!BeginStop
  <2> QED
    BY <1>1, <1>2, <1>3, <2>1
       DEF StopSteps, StopsAt, CommandsAreHeld, HoldsCommands, StartCommand, StopCommand
<1>4. CASE CompleteStop(a) \/ FailStop(a) \/ StaleStop(a)
  <2>1. starts' = starts /\ stops' = stops \ {StopCommand(a)}
    BY <1>4, Zenon DEF CompleteStop, FailStop, StaleStop, Reg!CompleteStop, Reg!FailStop, Reg!DropStop
  <2>2. stop'[a].pc \in {"uncounting", "idle"}
    BY <1>1, <1>4 DEF StopSteps, StopsAt
  <2> QED
    BY <1>1, <1>2, <2>1, <2>2 DEF CommandsAreHeld, HoldsCommands, StartCommand, StopCommand
<1>5. CASE CancelPhase(a)
  <2>1. starts' = starts /\ stops' = stops
    BY <1>5, Zenon DEF CancelPhase, Reg!CancelQueued, Reg!commandVars
  <2> QED
    BY <1>1, <1>2, <1>5, <2>1
       DEF StopSteps, StopsAt, CommandsAreHeld, HoldsCommands, StartCommand, StopCommand
<1>6. CASE \/ ClickStop(a) \/ CancelRequest(a) \/ NothingQueued(a) \/ NotQueued(a)
           \/ NothingRunning(a) \/ EngineExits(a) \/ EngineStays(a) \/ Uncount(a) \/ StopSyncs(a)
  <2>1. UNCHANGED regVars
    BY <1>6, Zenon DEF ClickStop, CancelRequest, NothingQueued, NotQueued, NothingRunning,
                EngineExits, EngineStays, Uncount, StopSyncs
  <2>2. starts' = starts /\ stops' = stops
    BY <2>1 DEF regVars
  <2>3. \/ stop'[a].pc \notin {"killing", "killed", "failed"}
        \/ /\ stop[a].pc = "killing" /\ stop'[a].generation = stop[a].generation
           /\ stop'[a].session = stop[a].session
    <3>1. EngineExits(a) \/ EngineStays(a) => stop[a].pc = "killing"
      BY Zenon DEF EngineExits, EngineStays, StopAt
    <3> QED
      BY <1>1, <1>6, <3>1 DEF StopSteps, StopsAt
  <2> QED
    BY <1>1, <1>2, <2>2, <2>3 DEF CommandsAreHeld, HoldsCommands, StartCommand, StopCommand
<1> QED
  BY <1>3, <1>4, <1>5, <1>6 DEF StopStep

\* The other steps keep the commands and the tasks that carry them.
LEMMA OthersKeepTasks ==
  ASSUME [Next]_runtimeVars
  PROVE  \/ \E a \in Avds : StartStep(a) \/ StopStep(a)
         \/ UNCHANGED <<start, stop, starts, stops>>
<1>1. ASSUME NEW s \in Scanners, ScanStep(s)
      PROVE  UNCHANGED <<start, stop, starts, stops>>
  <2>1. UNCHANGED <<start, stop>>
    BY <1>1, ScanFrames
  <2>2. CASE Merge(s)
    <3>1. UNCHANGED Reg!commandVars
      BY <2>2, Zenon DEF Merge, Reg!ReconcileRunning
    <3> QED
      BY <2>1, <3>1 DEF Reg!commandVars
  <2>3. CASE ReadAds(s) \/ CountExternal(s) \/ ApplyRoutes(s)
    <3>1. UNCHANGED regVars
      BY <2>3, Zenon DEF ReadAds, CountExternal, ApplyRoutes
    <3> QED
      BY <2>1, <3>1 DEF regVars
  <2> QED
    BY <1>1, <2>2, <2>3 DEF ScanStep
<1>2. ASSUME NEW a \in Avds, ExternalStart(a)
      PROVE  UNCHANGED <<start, stop, starts, stops>>
  BY <1>2 DEF ExternalStart, regVars
<1>3. ASSUME NEW o \in engines, Crash(o)
      PROVE  UNCHANGED <<start, stop, starts, stops>>
  BY <1>3 DEF Crash, regVars
<1>4. ASSUME UNCHANGED runtimeVars
      PROVE  UNCHANGED <<start, stop, starts, stops>>
  BY <1>4 DEF runtimeVars, regVars
<1> QED
  BY <1>1, <1>2, <1>3, <1>4 DEF Next

LEMMA CommandsKept ==
  ASSUME RuntimeInv, [Next]_runtimeVars
  PROVE  CommandsAreHeld'
<1>1. CASE UNCHANGED <<start, stop, starts, stops>>
  BY <1>1 DEF RuntimeInv, CommandsAreHeld, HoldsCommands, StartCommand, StopCommand
<1> QED
  BY <1>1, OthersKeepTasks, StartKeepsCommands, StopKeepsCommands

-----------------------------------------------------------------------------
(* The queue: no step puts an older request into it.                        *)

NoOldRequests ==
  \A e \in Sched!QueueEntries' : e \in Sched!QueueEntries \/ e.id > next_id

LEMMA QueueStays ==
  ASSUME queue' = queue
  PROVE  NoOldRequests /\ Sched!QueueEntries' = Sched!QueueEntries /\ Sched!QueueIds' = Sched!QueueIds
BY DEF NoOldRequests, Sched!QueueEntries, Sched!QueueIds

\* What each step of a start does to the requests.
StartRequests(a) ==
  LET r == start[a].request
  IN /\ Enqueue(a) =>
          /\ next_id' = next_id + 1 /\ next_id + 1 \in 1..MaxRequests
          /\ OnlyRequest(next_id + 1, "held")
          /\ Sched!QueueEntries' = Sched!QueueEntries \cup
               {[id |-> next_id + 1, key |-> a, demand |-> Demand[a]]}
     /\ Acquire(a) =>
          /\ OnlyRequest(r, "permit") /\ Dequeued(r) /\ next_id' = next_id
          /\ \E e \in Sched!QueueEntries : e.id = r /\ active'[r].key = e.key
     /\ Canceled(a) => OnlyRequest(r, "gone") /\ UNCHANGED <<next_id, queue>>
     /\ IntoReservation(a) =>
          /\ OnlyRequest(r, "session") /\ UNCHANGED <<next_id, queue>>
          /\ active'[r].key = active[r].key
     /\ CommitRefused(a) => OnlyRequest(r, "gone") /\ UNCHANGED <<next_id, queue>>
     /\ DropHeld(a) =>
          \/ r = 0 /\ UNCHANGED <<next_id, queue, owner, active>>
          \/ r # 0 /\ OnlyRequest(r, "gone") /\ UNCHANGED <<next_id, queue>>
     /\ StartStep(a) =>
          \/ Enqueue(a) \/ Acquire(a) \/ Canceled(a) \/ IntoReservation(a) \/ CommitRefused(a)
          \/ DropHeld(a) \/ UNCHANGED <<next_id, queue, owner, active>>

LEMMA StartOnRequests ==
  ASSUME RuntimeInv, NEW a \in Avds
  PROVE  StartRequests(a)
<1> DEFINE r == start[a].request
<1>1. SchedInv
  BY DEF RuntimeInv
<1>2. start[a].pc \in Ticketed \cup Permitted \cup {"committing"} => r \in Sched!Ids
  BY TicketOf
<1> HIDE DEF r
<1>3. ASSUME Enqueue(a)
      PROVE  /\ next_id' = next_id + 1 /\ next_id + 1 \in 1..MaxRequests
             /\ OnlyRequest(next_id + 1, "held")
             /\ Sched!QueueEntries' = Sched!QueueEntries \cup
                  {[id |-> next_id + 1, key |-> a, demand |-> Demand[a]]}
  <2>1. Sched!Enqueue(a, Demand[a])
    BY <1>3, Zenon DEF Enqueue
  <2> QED
    BY <1>1, <2>1, Enqueues
<1>4. ASSUME Acquire(a)
      PROVE  /\ OnlyRequest(r, "permit") /\ Dequeued(r) /\ next_id' = next_id
             /\ \E e \in Sched!QueueEntries : e.id = r /\ active'[r].key = e.key
  <2>1. Sched!TryAcquire(r)
    BY <1>4, Zenon DEF Acquire, r
  <2> QED
    BY <1>1, <2>1, Acquires
<1>5. ASSUME Canceled(a)
      PROVE  OnlyRequest(r, "gone") /\ UNCHANGED <<next_id, queue>>
  <2>1. Sched!DropTicket(r) /\ r \notin Sched!QueueIds /\ start[a].pc \in Ticketed
    BY <1>5 DEF Canceled, At, Ticketed, r
  <2> QED
    BY <1>1, <1>2, <2>1, DropsTicket
<1>6. ASSUME IntoReservation(a)
      PROVE  /\ OnlyRequest(r, "session") /\ UNCHANGED <<next_id, queue>>
             /\ active'[r].key = active[r].key
  <2>1. Sched!IntoReservation(r) /\ start[a].pc \in Permitted
    BY <1>6 DEF IntoReservation, At, Permitted, r
  <2> QED
    BY <1>1, <1>2, <2>1, IntoSession
<1>7. ASSUME CommitRefused(a)
      PROVE  OnlyRequest(r, "gone") /\ UNCHANGED <<next_id, queue>>
  <2>1. Sched!ReleaseActive(r) /\ start[a].pc = "committing"
    BY <1>7, Zenon DEF CommitRefused, At, Sched!DropReservation, r
  <2> QED
    BY <1>1, <1>2, <2>1, Releases
<1>8. ASSUME DropHeld(a)
      PROVE  \/ r = 0 /\ UNCHANGED <<next_id, queue, owner, active>>
             \/ r # 0 /\ OnlyRequest(r, "gone") /\ UNCHANGED <<next_id, queue>>
  <2>1. \/ r = 0 /\ UNCHANGED schedVars
        \/ r # 0 /\ Sched!ReleaseActive(r)
    BY <1>8 DEF DropHeld, Sched!DropPermit, r
  <2>2. r # 0 => r \in Sched!Ids
    BY RequestOf DEF r
  <2> QED
    BY <1>1, <2>1, <2>2, Releases DEF schedVars
<1>9. ASSUME StartStep(a)
      PROVE  \/ Enqueue(a) \/ Acquire(a) \/ Canceled(a) \/ IntoReservation(a) \/ CommitRefused(a)
             \/ DropHeld(a) \/ UNCHANGED <<next_id, queue, owner, active>>
  <2>1. CASE \/ BeginStart(a) \/ EnqueueRefused(a) \/ CheckTicket(a) \/ MarkQueued(a)
             \/ MarkStarting(a) \/ ListPorts(a) \/ ReservePort(a) \/ PortsExhausted(a) \/ Launch(a)
             \/ LaunchFails(a) \/ MarkBooting(a) \/ Boots(a) \/ BootFails(a) \/ CleanUp(a) \/ Commit(a)
             \/ FailStart(a) \/ StartSyncs(a)
    <3>1. UNCHANGED schedVars
      BY <2>1, Zenon
         DEF BeginStart, EnqueueRefused, CheckTicket, MarkQueued, MarkStarting, ListPorts,
             ReservePort, PortsExhausted, Launch, LaunchFails, MarkBooting, Boots, BootFails, CleanUp, Commit,
             FailStart, StartSyncs
    <3> QED
      BY <3>1 DEF schedVars
  <2> QED
    BY <1>9, <2>1 DEF StartStep
<1> QED
  BY <1>3, <1>4, <1>5, <1>6, <1>7, <1>8, <1>9 DEF StartRequests, r

\* What each step of a stop does to the requests.
StopRequests(a) ==
  /\ CancelRequest(a) =>
       /\ \E e \in Sched!QueueEntries : e.key = a /\ Dequeued(e.id)
       /\ UNCHANGED <<next_id, owner, active>>
  /\ CompleteStop(a) => LeasesGo({stop[a].session})
  /\ StopStep(a) =>
       CancelRequest(a) \/ CompleteStop(a) \/ UNCHANGED <<next_id, queue, owner, active>>

LEMMA StopOnRequests ==
  ASSUME RuntimeInv, NEW a \in Avds
  PROVE  StopRequests(a)
<1>1. ASSUME CancelRequest(a)
      PROVE  /\ \E e \in Sched!QueueEntries : e.key = a /\ Dequeued(e.id)
             /\ UNCHANGED <<next_id, owner, active>>
  <2>1. Sched!Cancel(a)
    BY <1>1, Zenon DEF CancelRequest
  <2> QED
    BY <2>1, Cancels DEF RuntimeInv
<1>2. ASSUME CompleteStop(a)
      PROVE  LeasesGo({stop[a].session})
  <2>1. DropLeases({stop[a].session})
    BY <1>2, Zenon DEF CompleteStop
  <2> QED
    BY <2>1, LeasesDropped
<1>3. ASSUME StopStep(a)
      PROVE  CancelRequest(a) \/ CompleteStop(a) \/ UNCHANGED <<next_id, queue, owner, active>>
  <2>1. CASE Uncount(a)
    <3>1. Sched!RemoveExternal(a) \/ UNCHANGED schedVars
      BY <2>1, Zenon DEF Uncount
    <3> QED
      BY <3>1 DEF Sched!RemoveExternal, schedVars
  <2>2. CASE \/ ClickStop(a) \/ NothingQueued(a) \/ CancelPhase(a) \/ NotQueued(a) \/ BeginStop(a)
             \/ NothingRunning(a) \/ EngineExits(a) \/ EngineStays(a) \/ FailStop(a)
             \/ StaleStop(a) \/ StopSyncs(a)
    <3>1. UNCHANGED schedVars
      BY <2>2, Zenon
         DEF ClickStop, NothingQueued, CancelPhase, NotQueued, BeginStop, NothingRunning,
             EngineExits, EngineStays, FailStop, StaleStop, StopSyncs
    <3> QED
      BY <3>1 DEF schedVars
  <2> QED
    BY <1>3, <2>1, <2>2 DEF StopStep
<1> QED
  BY <1>1, <1>2, <1>3 DEF StopRequests

\* What each step of a scan does to the requests.
ScanRequests(s) ==
  /\ Merge(s) => LeasesGo(ExitedSessions(scan[s].observed, scan[s].sdk))
  /\ ScanStep(s) => Merge(s) \/ UNCHANGED <<next_id, queue, owner, active>>

LEMMA ScanOnRequests ==
  ASSUME RuntimeInv, NEW s \in Scanners
  PROVE  ScanRequests(s)
<1>1. ASSUME Merge(s)
      PROVE  LeasesGo(ExitedSessions(scan[s].observed, scan[s].sdk))
  <2>1. DropLeases(ExitedSessions(scan[s].observed, scan[s].sdk))
    BY <1>1, Zenon DEF Merge
  <2> QED
    BY <2>1, LeasesDropped
<1>2. ASSUME ScanStep(s)
      PROVE  Merge(s) \/ UNCHANGED <<next_id, queue, owner, active>>
  <2>1. CASE CountExternal(s)
    BY <2>1, Zenon DEF CountExternal, Sched!ReconcileExternal
  <2>2. CASE ReadAds(s) \/ ApplyRoutes(s)
    <3>1. UNCHANGED schedVars
      BY <2>2, Zenon DEF ReadAds, ApplyRoutes
    <3> QED
      BY <3>1 DEF schedVars
  <2> QED
    BY <1>2, <2>1, <2>2 DEF ScanStep
<1> QED
  BY <1>1, <1>2 DEF ScanRequests

LEMMA EnginesOnRequests ==
  ASSUME NEW a \in Avds, NEW o, ExternalStart(a) \/ Crash(o)
  PROVE  UNCHANGED <<next_id, queue, owner, active, reserved, leases, states, sessions, start, stop, scan>>
BY DEF ExternalStart, Crash, schedVars, regVars, resourceVars

LEMMA QueueSteps ==
  ASSUME RuntimeInv, [Next]_runtimeVars
  PROVE  NoOldRequests
<1>1. SchedulerFacts
  BY SchedulerSays DEF RuntimeInv
<1>2. ASSUME NEW a \in Avds, Enqueue(a)
      PROVE  NoOldRequests
  <2>1. Sched!QueueEntries' = Sched!QueueEntries \cup
          {[id |-> next_id + 1, key |-> a, demand |-> Demand[a]]}
    BY <1>2, StartOnRequests DEF StartRequests
  <2>2. next_id + 1 > next_id
    BY <1>1, SchedulerAssumption DEF SchedulerFacts
  <2> QED
    BY <2>1, <2>2 DEF NoOldRequests
<1>3. ASSUME NEW r, Dequeued(r)
      PROVE  NoOldRequests
  BY <1>3 DEF Dequeued, NoOldRequests
<1>4. ASSUME NEW a \in Avds, StartStep(a)
      PROVE  NoOldRequests
  BY <1>2, <1>3, <1>4, StartOnRequests, QueueStays DEF StartRequests
<1>5. ASSUME NEW a \in Avds, StopStep(a)
      PROVE  NoOldRequests
  BY <1>3, <1>5, StopOnRequests, QueueStays DEF StopRequests, LeasesGo
<1>6. ASSUME NEW s \in Scanners, ScanStep(s)
      PROVE  NoOldRequests
  BY <1>6, ScanOnRequests, QueueStays DEF ScanRequests, LeasesGo
<1>7. ASSUME NEW a \in Avds, ExternalStart(a)
      PROVE  NoOldRequests
  <2>1. queue' = queue
    BY <1>7 DEF ExternalStart, schedVars
  <2> QED
    BY <2>1, QueueStays
<1>8. ASSUME NEW o \in engines, Crash(o)
      PROVE  NoOldRequests
  <2>1. queue' = queue
    BY <1>8 DEF Crash, schedVars
  <2> QED
    BY <2>1, QueueStays
<1>9. ASSUME UNCHANGED runtimeVars
      PROVE  NoOldRequests
  <2>1. queue' = queue
    BY <1>9 DEF runtimeVars, schedVars
  <2> QED
    BY <2>1, QueueStays
<1> QED
  BY <1>4, <1>5, <1>6, <1>7, <1>8, <1>9 DEF Next

\* A request that is not queued is never queued again.
LEMMA StillQueued ==
  ASSUME RuntimeInv, [Next]_runtimeVars, NEW a \in Avds, start'[a].request = start[a].request,
         IsQueued(a)'
  PROVE  IsQueued(a)
<1>1. SchedulerFacts /\ SchedulerFacts'
  BY SchedulerSays, SchedulerSaysNext, SchedulerKept DEF RuntimeInv
<1>2. PICK e \in Sched!QueueEntries' : e.id = start[a].request
  BY <1>1 DEF IsQueued, SchedulerFacts
<1>3. ~(e.id > next_id)
  <2>1. start[a].request <= next_id
    BY DEF RuntimeInv, RequestsAreHeld, HoldsRequest
  <2>2. start[a].request \in Int /\ next_id \in Int
    BY <1>1, SchedulerAssumption DEF RuntimeInv, TaskTypes, StartTasks, SchedulerFacts
  <2> QED
    BY <1>2, <2>1, <2>2
<1>4. e \in Sched!QueueEntries
  BY <1>2, <1>3, QueueSteps DEF NoOldRequests
<1> QED
  BY <1>1, <1>2, <1>4 DEF IsQueued, SchedulerFacts

-----------------------------------------------------------------------------
(* Who owns a device.                                                       *)

DeviceAt(a, generation, phase, port) ==
  /\ \A b \in Avds \ {a} : states'[b] = states[b]
  /\ states'[a].generation = generation /\ states'[a].phase = phase
  /\ states'[a].console_port = port
DeviceStays(a) ==
  /\ states'[a].generation = states[a].generation /\ states'[a].phase = states[a].phase
  /\ states'[a].console_port = states[a].console_port

LEMMA DeviceWritten ==
  ASSUME RegistryFacts, NEW a \in Avds, NEW generation, NEW phase, NEW port,
         states' = [states EXCEPT ![a] = Reg!State(generation, phase, port)]
  PROVE  DeviceAt(a, generation, phase, port)
BY DEF RegistryFacts, DeviceAt, Reg!State

\* What each step of a start writes to its device.
StartDevices(a) ==
  LET g == start[a].generation
      phase == states[a].phase
      port == states[a].console_port
  IN /\ BeginStart(a) =>
          /\ Reg!AllowsStart(phase) /\ DeviceAt(a, next_generation + 1, "Starting", NoPort)
     /\ EnqueueRefused(a) \/ FailStart(a) => DeviceAt(a, g, "Error", NoPort)
     /\ MarkQueued(a) => DeviceAt(a, g, "Queued", port)
     /\ MarkStarting(a) => DeviceAt(a, g, "Starting", port)
     /\ MarkBooting(a) => DeviceAt(a, g, "Booting", port)
     /\ \A p \in Ports : Reg!AttachStartPort(StartCommand(a), p) => DeviceAt(a, g, phase, p)
     /\ Commit(a) => DeviceAt(a, g, "Running", port)
     /\ StartStep(a) =>
          \/ BeginStart(a) \/ EnqueueRefused(a) \/ FailStart(a) \/ MarkQueued(a) \/ MarkStarting(a)
          \/ MarkBooting(a) \/ ReservePort(a) \/ Commit(a) \/ states' = states

LEMMA StartOnDevices ==
  ASSUME RuntimeInv, NEW a \in Avds
  PROVE  StartDevices(a)
<1> DEFINE c == StartCommand(a)
           g == start[a].generation
           port == states[a].console_port
<1>1. RegistryFacts
  BY RegistrySays DEF RuntimeInv
<1>2. c.avd = a /\ c.generation = g
  BY DEF StartCommand
<1> HIDE DEF c
<1>3. ASSUME BeginStart(a)
      PROVE  Reg!AllowsStart(states[a].phase) /\ DeviceAt(a, next_generation + 1, "Starting", NoPort)
  <2>1. Reg!MayStart(a) /\ states' = [states EXCEPT ![a] = Reg!State(next_generation + 1, "Starting", NoPort)]
    BY <1>3, Zenon DEF BeginStart, Reg!BeginStart, Reg!Renew
  <2> QED
    BY <1>1, <2>1, DeviceWritten DEF Reg!MayStart
<1>4. ASSUME EnqueueRefused(a) \/ FailStart(a)
      PROVE  DeviceAt(a, g, "Error", NoPort)
  <2>1. Reg!FailStart(c)
    BY <1>4, Zenon DEF EnqueueRefused, FailStart, c
  <2>2. states' = [states EXCEPT ![a] = Reg!State(g, "Error", NoPort)]
    BY <1>2, <2>1 DEF Reg!FailStart
  <2> QED
    BY <1>1, <2>2, DeviceWritten
<1>5. ASSUME NEW phase, phase # "Stopped", Reg!Update(a, g, phase)
      PROVE  DeviceAt(a, g, phase, port)
  <2>1. states' = [states EXCEPT ![a] = Reg!State(g, phase, port)]
    BY <1>5 DEF Reg!Update, Reg!Updated, Reg!IsCurrent
  <2> QED
    BY <1>1, <2>1, DeviceWritten
<1>6. ASSUME NEW phase, phase # "Stopped", Reg!MarkStart(c, phase)
      PROVE  DeviceAt(a, g, phase, port)
  BY <1>2, <1>5, <1>6 DEF Reg!MarkStart
<1>7. /\ MarkQueued(a) => Reg!MarkStart(c, "Queued")
      /\ MarkStarting(a) => Reg!MarkStart(c, "Starting")
      /\ MarkBooting(a) => Reg!MarkStart(c, "Booting")
      /\ Commit(a) => Reg!Update(c.avd, c.generation, "Running")
  BY Zenon DEF MarkQueued, MarkStarting, MarkBooting, Commit, Reg!CompleteStart, c
<1>8. ASSUME NEW p \in Ports, Reg!AttachStartPort(c, p)
      PROVE  DeviceAt(a, g, states[a].phase, p)
  <2>1. states' = [states EXCEPT ![a].console_port = p] /\ states[a].generation = g
    BY <1>2, <1>8 DEF Reg!AttachStartPort, Reg!IsCurrent
  <2> QED
    BY <1>1, <2>1 DEF RegistryFacts, DeviceAt
<1>9. ASSUME StartStep(a)
      PROVE  \/ BeginStart(a) \/ EnqueueRefused(a) \/ FailStart(a) \/ MarkQueued(a)
             \/ MarkStarting(a) \/ MarkBooting(a) \/ ReservePort(a) \/ Commit(a) \/ states' = states
  <2>1. CASE \/ Enqueue(a) \/ CheckTicket(a) \/ Acquire(a) \/ ListPorts(a) \/ PortsExhausted(a)
             \/ Launch(a) \/ LaunchFails(a) \/ Boots(a) \/ BootFails(a) \/ CleanUp(a)
             \/ IntoReservation(a) \/ CommitRefused(a) \/ DropHeld(a) \/ StartSyncs(a)
    <3>1. UNCHANGED regVars
      BY <2>1 DEF Enqueue, CheckTicket, Acquire, ListPorts, PortsExhausted, Launch, LaunchFails,
                  Boots, BootFails, CleanUp, IntoReservation, CommitRefused, DropHeld, StartSyncs
    <3> QED
      BY <3>1 DEF regVars
  <2>2. CASE Canceled(a)
    BY <2>2 DEF Canceled, Reg!DropStart, Reg!stateVars
  <2> QED
    BY <1>9, <2>1, <2>2 DEF StartStep
<1>10. Commit(a) => DeviceAt(a, g, "Running", port)
  BY <1>2, <1>5, <1>7
<1> QED
  BY <1>3, <1>4, <1>6, <1>7, <1>8, <1>9, <1>10 DEF StartDevices, c

\* A device that nobody claims may change; a claimed one is kept by every stop
\* but a cancel, and by a scan.
LEMMA StopOnDevices ==
  ASSUME RuntimeInv, NEW a \in Avds, StopStep(a)
  PROVE  \/ CancelPhase(a) /\ states[a].phase = "Queued" /\ \A b \in Avds \ {a} : DeviceStays(b)
         \/ ~CancelPhase(a) /\ \A b \in Avds : states[b].phase \in Reg!Claimed => DeviceStays(b)
<1>1. RegistryFacts /\ HoldsCommands(a)
  BY RegistrySays DEF RuntimeInv, CommandsAreHeld
<1>2. ASSUME NEW t, states' = [states EXCEPT ![a] = t]
      PROVE  \A b \in Avds \ {a} : DeviceStays(b)
  BY <1>1, <1>2 DEF RegistryFacts, DeviceStays
<1>3. ASSUME states' = states, NEW b \in Avds
      PROVE  DeviceStays(b)
  BY <1>3 DEF DeviceStays
<1>4. CASE CancelPhase(a)
  <2>1. /\ states[a].phase = "Queued"
        /\ states' = [states EXCEPT ![a] = Reg!State(next_generation + 1, "Stopped", NoPort)]
    BY <1>4, Zenon DEF CancelPhase, Reg!CancelQueued, Reg!ForceStopped, Reg!Renew
  <2> QED
    BY <1>2, <1>4, <2>1
<1>5. CASE BeginStop(a)
  <2>1. /\ a \in DOMAIN by_avd
        /\ \E t : states' = [states EXCEPT ![a] = t]
    BY <1>5, Zenon DEF BeginStop, Reg!BeginStop, Reg!Renew
  <2>2. states[a].phase \notin Reg!Claimed
    BY <1>1, <2>1 DEF RegistryFacts, Reg!Claimed
  <2>3. ~CancelPhase(a)
    BY <1>5 DEF BeginStop, CancelPhase, StopAt
  <2> QED
    BY <1>2, <2>1, <2>2, <2>3
<1>6. CASE CompleteStop(a) \/ FailStop(a)
  <2> DEFINE c == StopCommand(a)
  <2>1. /\ Reg!IsCurrent(c.avd, c.generation)
        /\ \E t : states' = [states EXCEPT ![c.avd] = t]
    BY <1>6, Zenon
       DEF CompleteStop, FailStop, Reg!CompleteStop, Reg!FailStop, Reg!StopIsCurrent, Reg!Update
  <2>2. c \in stops /\ c.avd = a
    BY <1>1, <1>6 DEF CompleteStop, FailStop, StopAt, HoldsCommands, StopCommand
  <2> HIDE DEF c
  <2>3. states[a].phase = "Stopping"
    BY <1>1, <2>1, <2>2 DEF RegistryFacts, Reg!IsCurrent
  <2>4. ~CancelPhase(a)
    BY <1>6 DEF CompleteStop, FailStop, CancelPhase, StopAt
  <2> QED
    BY <1>2, <2>1, <2>2, <2>3, <2>4 DEF Reg!Claimed
<1>7. CASE StaleStop(a)
  <2>1. states' = states
    BY <1>7 DEF StaleStop, Reg!DropStop, Reg!stateVars
  <2>2. ~CancelPhase(a)
    BY <1>7 DEF StaleStop, CancelPhase, StopAt
  <2> QED
    BY <1>3, <2>1, <2>2
<1>8. CASE \/ ClickStop(a) \/ CancelRequest(a) \/ NothingQueued(a) \/ NotQueued(a)
           \/ NothingRunning(a) \/ EngineExits(a) \/ EngineStays(a) \/ Uncount(a) \/ StopSyncs(a)
  <2>1. UNCHANGED regVars
    BY <1>8, Zenon DEF ClickStop, CancelRequest, NothingQueued, NotQueued, NothingRunning,
                EngineExits, EngineStays, Uncount, StopSyncs
  <2>2. states' = states
    BY <2>1 DEF regVars
  <2>3. \A b \in Avds : DeviceStays(b)
    BY <1>3, <2>2
  <2>4. CancelPhase(a) => states[a].phase = "Queued"
    BY DEF CancelPhase, Reg!CancelQueued
  <2> QED
    BY <2>3, <2>4
<1> QED
  BY <1>4, <1>5, <1>6, <1>7, <1>8 DEF StopStep

LEMMA ScanOnDevices ==
  ASSUME RuntimeInv, NEW s \in Scanners, ScanStep(s), NEW a \in Avds, states[a].phase \in Reg!Claimed
  PROVE  DeviceStays(a)
<1>1. CASE Merge(s)
  <2> DEFINE observed == scan[s].observed
             sdk == scan[s].sdk
  <2>1. observed \in RP!Scans
    BY DEF RuntimeInv, TaskTypes, ScanTasks, Observations, EngineRecords, RP!Scans, RP!Instances
  <2>2. Reg!ReconcileRunning(observed, Alive(observed, sdk), {})
    BY <1>1 DEF Merge
  <2> HIDE DEF observed, sdk
  <2>3. RP!ReconcileRunning(observed, Alive(observed, sdk), {})
    BY <2>2, RegistryScan
  <2>4. states[a].phase \in RP!Claimed /\ RP!Inv
    BY DEF Reg!Claimed, RP!Claimed, RuntimeInv
  <2> QED
    BY <2>1, <2>3, <2>4, ComponentAssumptions, RP!ScanKeepsClaimed DEF DeviceStays
<1>2. CASE ReadAds(s) \/ CountExternal(s) \/ ApplyRoutes(s)
  <2>1. UNCHANGED regVars
    BY <1>2, Zenon DEF ReadAds, CountExternal, ApplyRoutes
  <2> QED
    BY <2>1 DEF regVars, DeviceStays
<1> QED
  BY <1>1, <1>2 DEF ScanStep

\* A step that leaves the device and its start alone leaves the owner.
LEMMA OwnerStays ==
  ASSUME RuntimeInv, [Next]_runtimeVars, NEW a \in Avds,
         start'[a] = start[a], stop'[a].pc = "canceling" => stop[a].pc = "canceling",
         states[a].phase \in Reg!Claimed => DeviceStays(a)
  PROVE  OwnsDevice(a)'
<1>1. OwnsDevice(a)
  BY DEF RuntimeInv, DevicesAreOwned
<1>2. IsQueued(a)' => IsQueued(a)
  BY StillQueued
<1>3. \A pc \in HoldsCommand : PhasesAt(pc) \subseteq Reg!Claimed
  BY DEF HoldsCommand, PhasesAt, Reg!Claimed
<1>4. HasPort \subseteq HoldsCommand /\ "waiting" \notin HasPort
  BY DEF HasPort, HoldsCommand
<1>5. {"Starting", "Queued"} \subseteq Reg!Claimed
  BY DEF Reg!Claimed
<1>6. /\ start[a].pc \in HoldsCommand /\ (start[a].pc = "waiting" => IsQueued(a))
      => states[a].phase \in Reg!Claimed
  BY <1>1, <1>3 DEF OwnsDevice
<1>7. start[a].pc \in HasPort => states[a].phase \in Reg!Claimed
  BY <1>4, <1>6
<1>8. stop[a].pc = "canceling" => states[a].phase \in Reg!Claimed
  BY <1>1, <1>5 DEF OwnsDevice
<1> QED
  BY <1>1, <1>2, <1>6, <1>7, <1>8 DEF OwnsDevice, DeviceStays

\* The steps of a start, seen by its own device.
LEMMA StartKeepsDevice ==
  ASSUME RuntimeInv, NEW a \in Avds, StartStep(a)
  PROVE  OwnsDevice(a)'
<1>1. OwnsDevice(a) /\ StartSteps(a) /\ StartDevices(a) /\ stop' = stop
  BY StartEffects, StartOnDevices, StartFrames DEF RuntimeInv, DevicesAreOwned
<1>2. stop[a].pc = "canceling" =>
        /\ states[a].phase \in {"Starting", "Queued"}
        /\ start[a].pc = "idle" \/ (start[a].pc \in Ticketed /\ ~IsQueued(a))
  BY <1>1 DEF OwnsDevice
<1>3. SchedulerFacts
  BY SchedulerSays DEF RuntimeInv
\* A cancel is under way only while the start is idle or will find it out.
<1>4. ASSUME start[a].pc # "idle", start[a].pc \in Ticketed => IsQueued(a)
      PROVE  stop'[a].pc # "canceling"
  BY <1>1, <1>2, <1>4
<1>5. ASSUME states' = states, ~BeginStart(a), ~ReservePort(a)
      PROVE  DeviceStays(a)
  BY <1>5 DEF DeviceStays
<1>6. CASE BeginStart(a)
  <2>1. start'[a].pc = "begun" /\ start'[a].generation = next_generation + 1
    BY <1>1, <1>6 DEF StartSteps, StartsAt
  <2>2. states'[a].generation = next_generation + 1 /\ states'[a].phase = "Starting"
    BY <1>1, <1>6 DEF StartDevices, DeviceAt
  <2>3. stop'[a].pc # "canceling"
    BY <1>1, <1>2, <1>6 DEF StartDevices, Reg!AllowsStart
  <2> QED
    BY <2>1, <2>2, <2>3 DEF OwnsDevice, PhasesAt, HasPort
<1>7. CASE EnqueueRefused(a) \/ FailStart(a) \/ Commit(a) \/ DropHeld(a)
  <2>1. start[a].pc \in {"begun", "failing", "committing", "dropping"}
    BY <1>7, Zenon DEF EnqueueRefused, FailStart, Commit, DropHeld, At
  <2>2. start'[a].pc \in {"idle", "dropping", "syncing"}
    BY <1>1, <1>7 DEF StartSteps, StartsAt
  <2> QED
    BY <1>4, <2>1, <2>2 DEF OwnsDevice, HasPort, HoldsCommand, Ticketed
<1>8. CASE StartSyncs(a)
  <2>1. start[a].pc \in {"syncing", "applying"}
    BY <1>8 DEF StartSyncs, At
  <2>2. start'[a].pc \in {"idle", "applying"}
    BY <1>1, <1>8 DEF StartSteps, StartsAt
  <2> QED
    BY <1>4, <2>1, <2>2 DEF OwnsDevice, HasPort, HoldsCommand, Ticketed
<1>9. CASE Canceled(a)
  <2>1. start[a].pc \in Ticketed /\ start'[a].pc = "idle"
    BY <1>1, <1>9 DEF Canceled, At, Ticketed, StartSteps, StartsAt
  <2>2. states' = states
    BY <1>9 DEF Canceled, Reg!DropStart, Reg!stateVars
  <2> QED
    BY <1>1, <1>2, <2>1, <2>2 DEF OwnsDevice, HasPort, HoldsCommand
<1>10. CASE MarkQueued(a)
  <2>1. /\ start[a].pc = "checked" /\ start'[a].pc = "waiting"
        /\ start'[a].generation = start[a].generation /\ start'[a].request = start[a].request
    BY <1>1, <1>10 DEF MarkQueued, At, StartSteps, StartsAt
  <2>2. states'[a].generation = start[a].generation /\ states'[a].phase = "Queued"
    BY <1>1, <1>10 DEF StartDevices, DeviceAt
  <2>3. IsQueued(a)' => IsQueued(a)
    BY <1>10, <2>1, StillQueued DEF Next, StartStep
  <2> QED
    BY <1>1, <1>2, <2>1, <2>2, <2>3 DEF OwnsDevice, PhasesAt, HasPort, Ticketed
<1>11. CASE CheckTicket(a) \/ Acquire(a)
  <2>1. /\ CheckTicket(a) => start[a].pc = "enqueued" /\ start'[a].pc = "checked"
        /\ Acquire(a) => start[a].pc = "waiting" /\ start'[a].pc = "permitted"
        /\ start'[a].generation = start[a].generation
    BY <1>1, <1>11 DEF CheckTicket, Acquire, At, StartSteps, StartsAt
  <2>2. IsQueued(a)
    <3>1. CheckTicket(a) => IsQueued(a)
      BY DEF CheckTicket, IsQueued
    <3>2. Acquire(a) => IsQueued(a)
      BY <1>3, StartOnRequests DEF StartRequests, IsQueued, SchedulerFacts
    <3> QED
      BY <1>11, <3>1, <3>2
  <2>3. stop'[a].pc # "canceling"
    BY <1>4, <1>11, <2>1, <2>2
  <2>4. states' = states
    <3>1. UNCHANGED regVars
      BY <1>11, Zenon DEF CheckTicket, Acquire
    <3> QED
      BY <3>1 DEF regVars
  <2> QED
    BY <1>1, <1>11, <2>1, <2>2, <2>3, <2>4 DEF OwnsDevice, PhasesAt, HasPort, HoldsCommand
<1>12. CASE Enqueue(a) \/ ListPorts(a) \/ PortsExhausted(a) \/ Launch(a) \/ LaunchFails(a) \/ Boots(a)
            \/ BootFails(a) \/ CleanUp(a) \/ IntoReservation(a) \/ CommitRefused(a)
  <2>1. states' = states
    <3>1. UNCHANGED regVars
      BY <1>12, Zenon DEF Enqueue, ListPorts, PortsExhausted, Launch, LaunchFails, Boots, BootFails, CleanUp,
                          IntoReservation, CommitRefused
    <3> QED
      BY <3>1 DEF regVars
  <2>2. /\ start'[a].generation = start[a].generation
        /\ start'[a].port = start[a].port \/ start'[a].pc = "refused"
        /\ \/ start[a].pc = "begun" /\ start'[a].pc = "enqueued"
           \/ start[a].pc = "starting" /\ start'[a].pc = "listed"
           \/ start[a].pc = "reserved" /\ start'[a].pc = "launched"
           \/ start[a].pc = "booting" /\ start'[a].pc \in {"booted", "cleaning"}
           \/ start[a].pc = "booted" /\ start'[a].pc = "committing"
           \/ start[a].pc = "committing" /\ start'[a].pc = "refused"
           \/ /\ start[a].pc \in {"listed", "reserved", "cleaning", "refused"}
              /\ start'[a].pc = "failing"
    <3>1. /\ Enqueue(a) => start[a].pc = "begun"
          /\ ListPorts(a) => start[a].pc = "starting"
          /\ PortsExhausted(a) => start[a].pc = "listed"
          /\ Launch(a) \/ LaunchFails(a) => start[a].pc = "reserved"
          /\ Boots(a) \/ BootFails(a) => start[a].pc = "booting"
          /\ CleanUp(a) => start[a].pc \in {"cleaning", "refused"}
          /\ IntoReservation(a) => start[a].pc = "booted"
          /\ CommitRefused(a) => start[a].pc = "committing"
      BY Zenon DEF At, Enqueue, ListPorts, PortsExhausted, Launch, LaunchFails, Boots, BootFails, CleanUp,
                   IntoReservation, CommitRefused
    <3> QED
      BY <1>1, <1>12, <3>1 DEF StartSteps, StartsAt
  <2>3. stop'[a].pc # "canceling"
    BY <1>4, <2>2 DEF Ticketed
  <2> QED
    BY <1>1, <2>1, <2>2, <2>3 DEF OwnsDevice, PhasesAt, HasPort, HoldsCommand
<1>13. CASE MarkStarting(a) \/ MarkBooting(a)
  <2>1. /\ MarkStarting(a) => start[a].pc = "permitted" /\ start'[a].pc = "starting"
        /\ MarkBooting(a) => start[a].pc = "launched" /\ start'[a].pc = "booting"
        /\ start'[a].generation = start[a].generation /\ start'[a].port = start[a].port
    BY <1>1, <1>13 DEF MarkStarting, MarkBooting, At, StartSteps, StartsAt
  <2>2. /\ states'[a].generation = start[a].generation
        /\ states'[a].console_port = states[a].console_port
        /\ MarkStarting(a) => states'[a].phase = "Starting"
        /\ MarkBooting(a) => states'[a].phase = "Booting"
    BY <1>1, <1>13 DEF StartDevices, DeviceAt
  <2>3. stop'[a].pc # "canceling"
    BY <1>4, <1>13, <2>1 DEF Ticketed
  <2> QED
    BY <1>1, <1>13, <2>1, <2>2, <2>3 DEF OwnsDevice, PhasesAt, HasPort, HoldsCommand
<1>14. CASE ReservePort(a)
  <2>1. PICK p \in Ports : /\ StartsAt(a, "reserved", start[a].generation, start[a].request, p, start[a].pid)
                           /\ Reg!AttachStartPort(StartCommand(a), p)
    BY <1>1, <1>14 DEF StartSteps
  <2>2. DeviceAt(a, start[a].generation, states[a].phase, p)
    BY <1>1, <2>1 DEF StartDevices
  <2>3. start[a].pc = "listed"
    BY <1>14, Zenon DEF ReservePort, At
  <2>4. stop'[a].pc # "canceling"
    BY <1>4, <2>3 DEF Ticketed
  <2> QED
    BY <1>1, <2>1, <2>2, <2>3, <2>4 DEF OwnsDevice, PhasesAt, HasPort, HoldsCommand, StartsAt, DeviceAt
<1> QED
  BY <1>6, <1>7, <1>8, <1>9, <1>10, <1>11, <1>12, <1>13, <1>14 DEF StartStep

\* The steps of a stop, seen by its own device.
LEMMA StopKeepsDevice ==
  ASSUME RuntimeInv, NEW a \in Avds, StopStep(a)
  PROVE  OwnsDevice(a)'
<1>1. OwnsDevice(a) /\ StopSteps(a) /\ start' = start
  BY StopEffects, StopFrames DEF RuntimeInv, DevicesAreOwned
<1>2. SchedulerFacts /\ SchedulerFacts'
  BY SchedulerSays, SchedulerSaysNext, SchedulerKept DEF RuntimeInv, Next
<1>3. CASE CancelPhase(a)
  <2>1. states[a].phase = "Queued" /\ stop[a].pc = "canceling" /\ stop'[a].pc = "idle"
    BY <1>1, <1>3 DEF CancelPhase, Reg!CancelQueued, StopAt, StopSteps, StopsAt
  <2>2. start[a].pc = "idle" \/ (start[a].pc = "waiting" /\ ~IsQueued(a))
    BY <1>1, <2>1 DEF OwnsDevice, PhasesAt, HoldsCommand, Ticketed
  <2>3. IsQueued(a)' => IsQueued(a)
    BY <1>1, StillQueued DEF Next
  <2> QED
    BY <1>1, <2>1, <2>2, <2>3 DEF OwnsDevice, HoldsCommand, HasPort
<1>4. CASE CancelRequest(a)
  <2>1. PICK e \in Sched!QueueEntries : e.key = a /\ Dequeued(e.id)
    BY <1>4, StopOnRequests DEF StopRequests
  <2>2. start[a].request = e.id /\ start[a].pc \in Ticketed
    BY <2>1 DEF RuntimeInv, RequestsAreHeld
  <2>3. IsQueued(a) /\ ~IsQueued(a)'
    BY <1>1, <1>2, <2>1, <2>2 DEF IsQueued, SchedulerFacts, Dequeued
  <2>4. states' = states
    <3>1. UNCHANGED regVars
      BY <1>4, Zenon DEF CancelRequest
    <3> QED
      BY <3>1 DEF regVars
  <2>5. states[a].phase \in {"Starting", "Queued"}
    BY <1>1, <2>2, <2>3 DEF OwnsDevice, PhasesAt, HoldsCommand, Ticketed
  <2> QED
    BY <1>1, <2>2, <2>3, <2>4, <2>5 DEF OwnsDevice
<1>5. CASE ~CancelPhase(a) /\ ~CancelRequest(a)
  <2>1. stop'[a].pc # "canceling"
    BY <1>1, <1>5 DEF StopStep, StopSteps, StopsAt
  <2>2. states[a].phase \in Reg!Claimed => DeviceStays(a)
    BY <1>5, StopOnDevices
  <2> QED
    BY <1>1, <2>1, <2>2, OwnerStays DEF Next
<1> QED
  BY <1>3, <1>4, <1>5

LEMMA DevicesKept ==
  ASSUME RuntimeInv, [Next]_runtimeVars
  PROVE  DevicesAreOwned'
<1>1. ASSUME NEW a \in Avds, StartStep(a), NEW b \in Avds \ {a}
      PROVE  OwnsDevice(b)'
  <2>1. StartSteps(a) /\ StartDevices(a) /\ stop' = stop
    BY <1>1, StartEffects, StartOnDevices, StartFrames
  <2>2. start'[b] = start[b]
    BY <1>1, <2>1 DEF StartStep, StartSteps, StartsAt
  <2>3. states'[b] = states[b]
    <3>1. ReservePort(a) => \E p \in Ports : Reg!AttachStartPort(StartCommand(a), p)
      BY <2>1 DEF StartSteps
    <3> QED
      BY <1>1, <2>1, <3>1 DEF StartDevices, DeviceAt
  <2> QED
    BY <2>1, <2>2, <2>3, OwnerStays DEF DeviceStays
<1>2. ASSUME NEW a \in Avds, StopStep(a), NEW b \in Avds \ {a}
      PROVE  OwnsDevice(b)'
  <2>1. StopSteps(a) /\ start' = start
    BY <1>2, StopEffects, StopFrames
  <2>2. stop'[b] = stop[b]
    BY <1>2, <2>1 DEF StopStep, StopSteps, StopsAt
  <2>3. states[b].phase \in Reg!Claimed => DeviceStays(b)
    BY <1>2, StopOnDevices
  <2> QED
    BY <2>1, <2>2, <2>3, OwnerStays
<1>3. ASSUME NEW b \in Avds, UNCHANGED <<start, stop>>,
             states[b].phase \in Reg!Claimed => DeviceStays(b)
      PROVE  OwnsDevice(b)'
  BY <1>3, OwnerStays
<1>4. ASSUME NEW s \in Scanners, ScanStep(s), NEW b \in Avds
      PROVE  OwnsDevice(b)'
  BY <1>3, <1>4, ScanFrames, ScanOnDevices
<1>5. ASSUME states' = states, UNCHANGED <<start, stop>>, NEW b \in Avds
      PROVE  OwnsDevice(b)'
  BY <1>3, <1>5 DEF DeviceStays
<1>6. ASSUME NEW a \in Avds, ExternalStart(a), NEW b \in Avds
      PROVE  OwnsDevice(b)'
  BY <1>5, <1>6 DEF ExternalStart, regVars
<1>7. ASSUME NEW o \in engines, Crash(o), NEW b \in Avds
      PROVE  OwnsDevice(b)'
  BY <1>5, <1>7 DEF Crash, regVars
<1>8. ASSUME UNCHANGED runtimeVars, NEW b \in Avds
      PROVE  OwnsDevice(b)'
  BY <1>5, <1>8 DEF runtimeVars, regVars
<1> QED
  BY <1>1, <1>2, <1>4, <1>6, <1>7, <1>8, StartKeepsDevice, StopKeepsDevice
     DEF Next, DevicesAreOwned

-----------------------------------------------------------------------------
(* Who holds a request of the scheduler.                                    *)

\* A session's request is not the request of a task: the task's is held, is a
\* permit, or was just committed for a device without a session.
LEMMA LeaseIsNoTasks ==
  ASSUME RuntimeInv, NEW a \in Avds, start[a].pc \notin {"syncing", "applying"}
  PROVE  start[a].request \notin LeaseRequests
<1>1. RegistryFacts /\ SchedulerFacts
  BY RegistrySays, SchedulerSays DEF RuntimeInv
<1>2. SUFFICES ASSUME NEW i \in DOMAIN leases, leases[i].request = start[a].request
               PROVE  FALSE
  BY DEF LeaseRequests
<1>3. /\ i \in DOMAIN sessions /\ start[a].request \in Sched!Ids
      /\ owner[start[a].request] = "session"
      /\ active[start[a].request].key = sessions[i].instance.avd
  BY <1>2 DEF RuntimeInv, SessionsOwn
<1>4. start[a].request # 0
  BY <1>1, <1>3 DEF SchedulerFacts
<1>5. HoldsRequest(a) /\ OwnsDevice(a)
  BY DEF RuntimeInv, RequestsAreHeld, DevicesAreOwned
<1>6. start[a].pc = "committing"
  <2>1. start[a].pc \in StartPcs
    BY DEF RuntimeInv, TaskTypes, StartTasks
  <2> QED
    BY <1>3, <1>4, <1>5, <2>1 DEF HoldsRequest, StartPcs, Ticketed, Permitted, Ending
<1>7. sessions[i].instance.avd = a
  BY <1>3, <1>5, <1>6 DEF HoldsRequest
<1>8. a \notin DOMAIN by_avd
  BY <1>1, <1>5, <1>6 DEF OwnsDevice, PhasesAt, HoldsCommand, RegistryFacts
<1> QED
  BY <1>1, <1>3, <1>7, <1>8 DEF RegistryFacts

\* A task whose request no step touches.
RequestKept(a) ==
  /\ start'[a] = start[a] /\ next_id' \in {next_id, next_id + 1}
  /\ start[a].request \in Sched!Ids /\ start[a].pc \notin {"syncing", "applying"} =>
       /\ owner'[start[a].request] = owner[start[a].request]
       /\ start[a].request \in DOMAIN active =>
            active'[start[a].request].key = active[start[a].request].key

LEMMA RequestStays ==
  ASSUME RuntimeInv, NEW a \in Avds, RequestKept(a)
  PROVE  HoldsRequest(a)'
<1>1. SchedulerFacts /\ HoldsRequest(a)
  BY SchedulerSays DEF RuntimeInv, RequestsAreHeld
<1>2. start[a].request # 0 => start[a].request \in Sched!Ids
  BY RequestOf
<1>3. start[a].request <= next_id'
  <2>1. start[a].request \in Int /\ next_id \in Int
    BY <1>1, SchedulerAssumption DEF RuntimeInv, TaskTypes, StartTasks, SchedulerFacts
  <2> QED
    BY <1>1, <2>1 DEF HoldsRequest, RequestKept
<1>4. \A r \in Sched!Ids : owner[r] \in {"permit", "session"} => r \in DOMAIN active
  BY <1>1 DEF SchedulerFacts
<1>5. /\ start[a].pc \in {"syncing", "applying"} =>
           start[a].pc \notin Ticketed \cup Permitted \cup Ending \cup {"committing"}
  BY DEF Ticketed, Permitted, Ending
<1>6. start[a].pc \in Ticketed \cup Permitted \cup {"committing"} => start[a].request # 0
  BY <1>1 DEF HoldsRequest
<1> QED
  BY <1>1, <1>2, <1>3, <1>4, <1>5, <1>6 DEF HoldsRequest, RequestKept

\* What a step of a start does to the requests of the other tasks.
LEMMA StartKeepsOthersRequests ==
  ASSUME RuntimeInv, NEW a \in Avds, StartStep(a), NEW b \in Avds \ {a}
  PROVE  RequestKept(b)
<1>1. StartSteps(a) /\ StartRequests(a) /\ SchedulerFacts
  BY StartEffects, StartOnRequests, SchedulerSays DEF RuntimeInv
<1>2. start'[b] = start[b]
  BY <1>1 DEF StartStep, StartSteps, StartsAt
<1>3. start[b].request = start[a].request => start[b].request = 0
  BY DEF RuntimeInv, RequestsAreHeld
<1>4. 0 \notin Sched!Ids
  BY <1>1 DEF SchedulerFacts
<1>5. start[b].request # next_id + 1
  <2>1. start[b].request \in Int /\ next_id \in Int /\ start[b].request <= next_id
    BY <1>1, SchedulerAssumption
       DEF RuntimeInv, TaskTypes, StartTasks, SchedulerFacts, RequestsAreHeld, HoldsRequest
  <2> QED
    BY <2>1
<1>6. ASSUME NEW r \in {start[a].request, next_id + 1}, NEW state, OnlyRequest(r, state),
             next_id' \in {next_id, next_id + 1}
      PROVE  RequestKept(b)
  <2>1. start[b].request # r
    BY <1>3, <1>4, <1>5, <1>6 DEF OnlyRequest
  <2> QED
    BY <1>2, <1>6, <2>1 DEF OnlyRequest, RequestKept
<1>7. ASSUME UNCHANGED <<next_id, queue, owner, active>>
      PROVE  RequestKept(b)
  BY <1>2, <1>7 DEF RequestKept
<1> QED
  BY <1>1, <1>6, <1>7 DEF StartRequests

\* What it does to its own.
LEMMA StartKeepsOwnRequest ==
  ASSUME RuntimeInv, NEW a \in Avds, StartStep(a)
  PROVE  HoldsRequest(a)'
<1> DEFINE r == start[a].request
<1>1. StartSteps(a) /\ StartRequests(a) /\ SchedulerFacts /\ HoldsRequest(a)
  BY StartEffects, StartOnRequests, SchedulerSays DEF RuntimeInv, RequestsAreHeld
<1>2. next_id \in Int /\ 0 <= next_id /\ r \in Int /\ r <= next_id
  BY <1>1, SchedulerAssumption
     DEF SchedulerFacts, RuntimeInv, TaskTypes, StartTasks, HoldsRequest
<1>3. r # 0 => r \in Sched!Ids
  BY RequestOf
<1>4. \A q \in Sched!Ids : owner[q] \in {"permit", "session"} => q \in DOMAIN active
  BY <1>1 DEF SchedulerFacts
<1> HIDE DEF r
<1>5. CASE BeginStart(a) \/ EnqueueRefused(a) \/ Canceled(a) \/ DropHeld(a)
  <2>1. start'[a].request = 0 /\ start'[a].pc \in {"begun", "idle"}
    BY <1>1, <1>5 DEF StartSteps, StartsAt
  <2>2. next_id' = next_id
    BY <1>1, <1>5 DEF StartRequests, BeginStart, EnqueueRefused, schedVars
  <2> QED
    BY <1>2, <2>1, <2>2 DEF HoldsRequest, Ticketed, Permitted, Ending
<1>6. CASE Enqueue(a)
  <2>1. start'[a].request = next_id + 1 /\ start'[a].pc = "enqueued"
    BY <1>1, <1>6 DEF StartSteps, StartsAt
  <2>2. next_id' = next_id + 1 /\ owner'[next_id + 1] = "held"
    BY <1>1, <1>6 DEF StartRequests, OnlyRequest
  <2> QED
    BY <1>2, <2>1, <2>2 DEF HoldsRequest, Ticketed, Permitted, Ending
<1>7. CASE Acquire(a)
  <2>1. start'[a].request = r /\ start'[a].pc = "permitted" /\ start[a].pc = "waiting"
    BY <1>1, <1>7 DEF StartSteps, StartsAt, Acquire, At, r
  <2>2. /\ next_id' = next_id /\ owner'[r] = "permit"
        /\ \E e \in Sched!QueueEntries : e.id = r /\ active'[r].key = e.key
    BY <1>1, <1>7 DEF StartRequests, OnlyRequest, r
  <2>3. PICK e \in Sched!QueueEntries : e.id = r /\ active'[r].key = e.key
    BY <2>2
  <2>4. r # 0 /\ e.key \in Avds /\ start[e.key].request = r
    BY <1>1, <2>1, <2>3
       DEF HoldsRequest, Ticketed, SchedulerFacts, RuntimeInv, RequestsAreHeld, r
  <2>5. e.key = a
    BY <2>4 DEF RuntimeInv, RequestsAreHeld, r
  <2> QED
    BY <1>2, <2>1, <2>2, <2>3, <2>4, <2>5 DEF HoldsRequest, Ticketed, Permitted, Ending
<1>8. CASE IntoReservation(a)
  <2>1. start'[a].request = r /\ start'[a].pc = "committing" /\ start[a].pc = "booted"
    BY <1>1, <1>8 DEF StartSteps, StartsAt, IntoReservation, At, r
  <2>2. next_id' = next_id /\ owner'[r] = "session" /\ active'[r].key = active[r].key
    BY <1>1, <1>8 DEF StartRequests, OnlyRequest, r
  <2>3. r # 0 /\ active[r].key = a
    BY <1>1, <2>1 DEF HoldsRequest, Permitted, r
  <2> QED
    BY <1>2, <2>1, <2>2, <2>3 DEF HoldsRequest, Ticketed, Permitted, Ending
<1>9. CASE CommitRefused(a)
  <2>1. start'[a].request = 0 /\ start'[a].pc = "refused" /\ next_id' = next_id
    BY <1>1, <1>9 DEF StartSteps, StartsAt, StartRequests
  <2> QED
    BY <1>2, <2>1 DEF HoldsRequest, Ticketed, Permitted, Ending
<1>10. CASE StartSyncs(a)
  <2>1. \/ start'[a].request = 0 /\ start'[a].pc = "idle"
        \/ start'[a].request = r /\ start'[a].pc = "applying"
    BY <1>1, <1>10 DEF StartSteps, StartsAt, r
  <2>2. next_id' = next_id
    BY <1>10 DEF StartSyncs, schedVars
  <2> QED
    BY <1>2, <2>1, <2>2 DEF HoldsRequest, Ticketed, Permitted, Ending
<1>11. CASE \/ CheckTicket(a) \/ MarkQueued(a) \/ MarkStarting(a) \/ ListPorts(a) \/ ReservePort(a)
            \/ PortsExhausted(a) \/ Launch(a) \/ LaunchFails(a) \/ MarkBooting(a) \/ Boots(a)
            \/ BootFails(a) \/ CleanUp(a) \/ Commit(a) \/ FailStart(a)
  <2>1. UNCHANGED schedVars
    BY <1>11, Zenon
       DEF CheckTicket, MarkQueued, MarkStarting, ListPorts, ReservePort, PortsExhausted, Launch,
           LaunchFails, MarkBooting, Boots, BootFails, CleanUp, Commit, FailStart
  <2>2. UNCHANGED <<next_id, owner, active>>
    BY <2>1 DEF schedVars
  <2>3. /\ CheckTicket(a) => start[a].pc = "enqueued" /\ start'[a].pc = "checked"
        /\ MarkQueued(a) => start[a].pc = "checked" /\ start'[a].pc = "waiting"
        /\ MarkStarting(a) => start[a].pc = "permitted" /\ start'[a].pc = "starting"
        /\ ListPorts(a) => start[a].pc = "starting" /\ start'[a].pc = "listed"
        /\ ReservePort(a) => start[a].pc = "listed" /\ start'[a].pc = "reserved"
        /\ PortsExhausted(a) => start[a].pc = "listed" /\ start'[a].pc = "failing"
        /\ Launch(a) => start[a].pc = "reserved" /\ start'[a].pc = "launched"
        /\ LaunchFails(a) => start[a].pc = "reserved" /\ start'[a].pc = "failing"
        /\ MarkBooting(a) => start[a].pc = "launched" /\ start'[a].pc = "booting"
        /\ Boots(a) => start[a].pc = "booting" /\ start'[a].pc = "booted"
        /\ BootFails(a) => start[a].pc = "booting" /\ start'[a].pc = "cleaning"
        /\ CleanUp(a) => start[a].pc \in {"cleaning", "refused"} /\ start'[a].pc = "failing"
        /\ Commit(a) => start'[a].pc = "syncing"
        /\ FailStart(a) => start[a].pc = "failing" /\ start'[a].pc = "dropping"
    <3>1. /\ CheckTicket(a) => start[a].pc = "enqueued"
          /\ MarkQueued(a) => start[a].pc = "checked"
          /\ MarkStarting(a) => start[a].pc = "permitted"
          /\ ListPorts(a) => start[a].pc = "starting"
          /\ ReservePort(a) \/ PortsExhausted(a) => start[a].pc = "listed"
          /\ Launch(a) \/ LaunchFails(a) => start[a].pc = "reserved"
          /\ MarkBooting(a) => start[a].pc = "launched"
          /\ Boots(a) \/ BootFails(a) => start[a].pc = "booting"
          /\ CleanUp(a) => start[a].pc \in {"cleaning", "refused"}
          /\ FailStart(a) => start[a].pc = "failing"
      BY Zenon DEF At, CheckTicket, MarkQueued, MarkStarting, ListPorts, ReservePort, PortsExhausted,
                   Launch, LaunchFails, MarkBooting, Boots, BootFails, CleanUp, FailStart
    <3> QED
      BY <1>1, <3>1 DEF StartSteps, StartsAt
  <2>4. start'[a].request = r
    BY <1>1, <1>11 DEF StartSteps, StartsAt, r
  <2> QED
    BY <1>1, <1>2, <1>11, <2>2, <2>3, <2>4 DEF HoldsRequest, Ticketed, Permitted, Ending, r
<1> QED
  BY <1>5, <1>6, <1>7, <1>8, <1>9, <1>10, <1>11 DEF StartStep

LEMMA StartKeepsRequests ==
  ASSUME RuntimeInv, NEW a \in Avds, StartStep(a)
  PROVE  RequestsAreHeld'
<1>1. StartSteps(a) /\ StartRequests(a) /\ SchedulerFacts
  BY StartEffects, StartOnRequests, SchedulerSays DEF RuntimeInv
<1>2. /\ \A b, c \in Avds : start[b].request = start[c].request /\ b # c => start[b].request = 0
      /\ \A e \in Sched!QueueEntries :
           start[e.key].request = e.id /\ start[e.key].pc \in Ticketed
      /\ \A b \in Avds : HoldsRequest(b)
  BY DEF RuntimeInv, RequestsAreHeld
<1>3. \A b \in Avds \ {a} : start'[b] = start[b]
  BY <1>1 DEF StartStep, StartSteps, StartsAt
<1>4. \A b \in Avds : HoldsRequest(b)'
  <2>1. ASSUME NEW b \in Avds \ {a}
        PROVE  HoldsRequest(b)'
    BY <2>1, StartKeepsOthersRequests, RequestStays
  <2> QED
    BY <2>1, StartKeepsOwnRequest
<1>5. start'[a].request \in {start[a].request, 0} \/ Enqueue(a)
  <2>1. StartSyncs(a) => start'[a].request \in {start[a].request, 0}
    BY <1>1 DEF StartSteps, StartsAt
  <2>2. ReservePort(a) => start'[a].request = start[a].request
    BY <1>1 DEF StartSteps, StartsAt
  <2> QED
    BY <1>1, <2>1, <2>2 DEF StartStep, StartSteps, StartsAt
<1>6. Enqueue(a) => \A b \in Avds \ {a} : start[b].request # start'[a].request
  <2>1. SUFFICES ASSUME Enqueue(a), NEW b \in Avds \ {a}
                 PROVE  start[b].request # start'[a].request
    OBVIOUS
  <2>2. start'[a].request = next_id + 1
    BY <1>1, <2>1 DEF StartSteps, StartsAt
  <2>3. start[b].request \in Int /\ next_id \in Int /\ start[b].request <= next_id
    BY <1>1, <1>2, SchedulerAssumption
       DEF RuntimeInv, TaskTypes, StartTasks, SchedulerFacts, HoldsRequest
  <2> QED
    BY <2>2, <2>3
<1>7. \A b, c \in Avds : start'[b].request = start'[c].request /\ b # c => start'[b].request = 0
  BY <1>2, <1>3, <1>5, <1>6
<1>8. ASSUME NEW e \in Sched!QueueEntries'
      PROVE  start'[e.key].request = e.id /\ start'[e.key].pc \in Ticketed
  <2>1. CASE e \in Sched!QueueEntries /\ e.key # a
    BY <1>1, <1>2, <1>3, <2>1 DEF SchedulerFacts
  <2>2. CASE e \in Sched!QueueEntries /\ e.key = a
    <3>1. start[a].request = e.id /\ start[a].pc \in Ticketed /\ e.id \in Sched!QueueIds
      BY <1>1, <1>2, <2>2 DEF SchedulerFacts
    <3>2. ~Acquire(a)
      BY <1>1, <3>1 DEF StartRequests, Dequeued
    <3>3. ~Canceled(a)
      BY <3>1 DEF Canceled
    <3>4. CheckTicket(a) \/ MarkQueued(a)
      <4>1. \/ CheckTicket(a) \/ MarkQueued(a)
            \/ start[a].pc \in {"idle", "begun", "permitted", "starting", "listed", "reserved",
                                "launched", "booting", "booted", "committing", "cleaning", "refused",
                                "failing", "dropping", "syncing", "applying"}
        BY <3>2, <3>3, Zenon
           DEF StartStep, At, BeginStart, Enqueue, EnqueueRefused, MarkStarting, ListPorts,
               ReservePort, PortsExhausted, Launch, LaunchFails, MarkBooting, Boots, BootFails, CleanUp,
               IntoReservation, Commit, CommitRefused, FailStart, DropHeld, StartSyncs
      <4> QED
        BY <3>1, <4>1 DEF Ticketed
    <3>5. start'[a].request = start[a].request /\ start'[a].pc \in {"checked", "waiting"}
      BY <1>1, <3>4 DEF StartSteps, StartsAt
    <3> QED
      BY <2>2, <3>1, <3>5 DEF Ticketed
  <2>3. CASE e \notin Sched!QueueEntries
    <3>1. Enqueue(a)
      BY <1>1, <2>3, QueueStays DEF StartRequests, Dequeued
    <3>2. e.id = next_id + 1 /\ e.key = a
      BY <1>1, <2>3, <3>1 DEF StartRequests
    <3>3. start'[a].request = next_id + 1 /\ start'[a].pc = "enqueued"
      BY <1>1, <3>1 DEF StartSteps, StartsAt
    <3> QED
      BY <3>2, <3>3 DEF Ticketed
  <2> QED
    BY <2>1, <2>2, <2>3
<1> QED
  BY <1>4, <1>7, <1>8 DEF RequestsAreHeld

\* The steps of the others touch no request a task holds.
LEMMA RequestsStay ==
  ASSUME RuntimeInv, start' = start, Sched!QueueEntries' \subseteq Sched!QueueEntries,
         \A a \in Avds : RequestKept(a)
  PROVE  RequestsAreHeld'
<1>1. \A a \in Avds : HoldsRequest(a)'
  BY RequestStays
<1> QED
  BY <1>1 DEF RuntimeInv, RequestsAreHeld

LEMMA LeasesKeepRequests ==
  ASSUME RuntimeInv, start' = start, NEW ids, LeasesGo(ids)
  PROVE  RequestsAreHeld'
<1>1. Sched!QueueEntries' = Sched!QueueEntries /\ next_id' = next_id
  BY QueueStays DEF LeasesGo
<1>2. ASSUME NEW a \in Avds
      PROVE  RequestKept(a)
  <2>1. start[a].pc \notin {"syncing", "applying"} => start[a].request \notin RequestsOf(ids)
    BY LeaseIsNoTasks DEF LeaseRequests, RequestsOf
  <2> QED
    BY <1>1, <2>1 DEF LeasesGo, RequestKept
<1> QED
  BY <1>1, <1>2, RequestsStay

LEMMA RequestsKept ==
  ASSUME RuntimeInv, [Next]_runtimeVars
  PROVE  RequestsAreHeld'
<1>1. ASSUME start' = start, UNCHANGED <<next_id, queue, owner, active>>
      PROVE  RequestsAreHeld'
  <2>1. Sched!QueueEntries' = Sched!QueueEntries
    BY <1>1, QueueStays
  <2>2. \A a \in Avds : RequestKept(a)
    BY <1>1 DEF RequestKept
  <2> QED
    BY <1>1, <2>1, <2>2, RequestsStay
<1>2. ASSUME NEW a \in Avds, StopStep(a)
      PROVE  RequestsAreHeld'
  <2>1. start' = start /\ StopRequests(a)
    BY <1>2, StopFrames, StopOnRequests
  <2>2. CASE CancelRequest(a)
    <3>1. /\ UNCHANGED <<next_id, owner, active>>
          /\ Sched!QueueEntries' \subseteq Sched!QueueEntries
      BY <2>1, <2>2 DEF StopRequests, Dequeued
    <3>2. \A b \in Avds : RequestKept(b)
      BY <2>1, <3>1 DEF RequestKept
    <3> QED
      BY <2>1, <3>1, <3>2, RequestsStay
  <2> QED
    BY <1>1, <1>2, <2>1, <2>2, LeasesKeepRequests DEF StopRequests
<1>3. ASSUME NEW s \in Scanners, ScanStep(s)
      PROVE  RequestsAreHeld'
  <2>1. start' = start /\ ScanRequests(s)
    BY <1>3, ScanFrames, ScanOnRequests
  <2> QED
    BY <1>1, <1>3, <2>1, LeasesKeepRequests DEF ScanRequests
<1>4. ASSUME NEW a \in Avds, ExternalStart(a)
      PROVE  RequestsAreHeld'
  BY <1>1, <1>4 DEF ExternalStart, schedVars
<1>5. ASSUME NEW o \in engines, Crash(o)
      PROVE  RequestsAreHeld'
  BY <1>1, <1>5 DEF Crash, schedVars
<1>6. CASE UNCHANGED runtimeVars
  BY <1>1, <1>6 DEF runtimeVars, schedVars
<1> QED
  BY <1>2, <1>3, <1>4, <1>5, <1>6, StartKeepsRequests DEF Next

-----------------------------------------------------------------------------
(* The sessions and what they own.                                          *)

\* What each step does to the sessions: a commit adds one, a stop or a scan
\* lets some leave, and a scan adds adopted ones.
SessionsStay == UNCHANGED <<sessions, next_session_id, leases>>
SessionAdded(a) ==
  LET i == next_session_id + 1
  IN /\ DOMAIN sessions' = DOMAIN sessions \cup {i} /\ i \notin DOMAIN sessions
     /\ \A j \in DOMAIN sessions : sessions'[j] = sessions[j]
     /\ sessions'[i].origin = "Managed" /\ next_session_id' = i
     /\ sessions'[i].instance = [avd |-> a, port |-> states[a].console_port, pid |-> start[a].pid]
     /\ DOMAIN leases' = DOMAIN leases \cup {i}
     /\ \A j \in DOMAIN leases : leases'[j] = leases[j]
     /\ leases'[i] = [request |-> start[a].request, port |-> start[a].port]
     /\ UNCHANGED <<next_id, queue, owner, active, reserved>>
SessionsLeave(ids) ==
  /\ \A i \in DOMAIN sessions : i \in DOMAIN sessions' <=> i \notin ids
  /\ \A i \in DOMAIN sessions \cap DOMAIN sessions' :
       /\ sessions'[i].instance = sessions[i].instance
       /\ sessions'[i].origin = "Managed" <=> sessions[i].origin = "Managed"
  /\ \A i \in DOMAIN sessions' \ DOMAIN sessions : sessions'[i].origin # "Managed"
  /\ LeasesGo(ids)

LEMMA CommitAdds ==
  ASSUME RuntimeInv, NEW a \in Avds, Commit(a)
  PROVE  SessionAdded(a)
<1> DEFINE i == next_session_id + 1
           c == StartCommand(a)
<1>1. RegistryFacts /\ SessionsOwn
  BY RegistrySays DEF RuntimeInv
<1>2. i \notin DOMAIN sessions /\ i \notin DOMAIN leases
  <2>1. next_session_id \in Int /\ \A j \in DOMAIN sessions : j \in 1..next_session_id
    BY <1>1, RegistryAssumption DEF RegistryFacts
  <2>2. DOMAIN leases \subseteq DOMAIN sessions
    BY <1>1 DEF SessionsOwn
  <2> QED
    BY <2>1, <2>2
<1>3. /\ Reg!CompleteStart(c, start[a].pid) /\ UNCHANGED schedVars /\ reserved' = reserved
      /\ leases' = [j \in DOMAIN leases \cup {i} |->
                      IF j = i THEN [request |-> start[a].request, port |-> start[a].port]
                      ELSE leases[j]]
  BY Zenon DEF Commit
<1>4. c.avd = a
  BY DEF StartCommand
<1> DEFINE s == [generation |-> c.generation, origin |-> "Managed",
                 instance |-> [avd |-> c.avd, pid |-> start[a].pid,
                               port |-> states[c.avd].console_port]]
<1>5. sessions' = Reg!With(sessions, i, s) /\ next_session_id' = i
  BY <1>3, Zenon DEF Reg!CompleteStart, Reg!AddSession
<1>6. s.origin = "Managed"
      /\ s.instance = [avd |-> a, port |-> states[a].console_port, pid |-> start[a].pid]
  BY <1>4
<1> HIDE DEF s, c
<1>7. /\ DOMAIN sessions' = DOMAIN sessions \cup {i} /\ sessions'[i] = s
      /\ \A j \in DOMAIN sessions : sessions'[j] = sessions[j]
  BY <1>2, <1>5 DEF Reg!With
<1>8. /\ DOMAIN leases' = DOMAIN leases \cup {i}
      /\ leases'[i] = [request |-> start[a].request, port |-> start[a].port]
      /\ \A j \in DOMAIN leases : leases'[j] = leases[j]
  BY <1>2, <1>3
<1>9. UNCHANGED <<next_id, queue, owner, active>>
  BY <1>3 DEF schedVars
<1> QED
  BY <1>2, <1>3, <1>5, <1>6, <1>7, <1>8, <1>9 DEF SessionAdded

LEMMA CompleteStopLeaves ==
  ASSUME RuntimeInv, NEW a \in Avds, CompleteStop(a)
  PROVE  SessionsLeave({stop[a].session}) /\ next_session_id' = next_session_id
<1> DEFINE c == StopCommand(a)
<1>1. Reg!CompleteStop(c) /\ DropLeases({stop[a].session})
  BY Zenon DEF CompleteStop
<1>2. c.session = stop[a].session
  BY DEF StopCommand
<1> HIDE DEF c
<1>3. /\ sessions' = Reg!Without(sessions, {stop[a].session})
      /\ next_session_id' = next_session_id
  BY <1>1, <1>2, Zenon DEF Reg!CompleteStop, Reg!RemoveSession
<1>4. LeasesGo({stop[a].session})
  BY <1>1, LeasesDropped
<1> QED
  BY <1>3, <1>4 DEF SessionsLeave, Reg!Without

\* A scan lets a session go only when its engine is gone or of another SDK,
\* and adopts only engines it observed.
LEMMA MergeLeaves ==
  ASSUME RuntimeInv, NEW s \in Scanners, Merge(s)
  PROVE  /\ SessionsLeave(ExitedSessions(scan[s].observed, scan[s].sdk))
         /\ \A i \in DOMAIN sessions' \ DOMAIN sessions : sessions'[i].instance \in scan[s].observed
         /\ \A i \in DOMAIN sessions :
              i \in ExitedSessions(scan[s].observed, scan[s].sdk) =>
                sessions[i].instance \notin OfSdk(scan[s].sdk)
         /\ next_session_id <= next_session_id'
<1> DEFINE observed == scan[s].observed
           sdk == scan[s].sdk
<1>1. observed \in RP!Scans
  BY DEF RuntimeInv, TaskTypes, ScanTasks, Observations, EngineRecords, RP!Scans, RP!Instances
<1>2. Reg!ReconcileRunning(observed, Alive(observed, sdk), {}) /\ DropLeases(ExitedSessions(observed, sdk))
  BY DEF Merge
<1>3. ExitedSessions(observed, sdk) =
        {i \in DOMAIN sessions : sessions[i].instance \notin observed
                                 /\ sessions[i].instance \notin Alive(observed, sdk)}
  BY DEF ExitedSessions, Reg!Exited, Reg!Missing
<1>4. RP!Exited(observed, Alive(observed, sdk)) = ExitedSessions(observed, sdk)
  BY <1>3 DEF RP!Exited, RP!Missing
<1>5. \A i \in DOMAIN sessions :
        sessions[i].instance \notin observed /\ sessions[i].instance \in OfSdk(sdk) =>
          sessions[i].instance \in Alive(observed, sdk)
  BY DEF Alive, Reg!Missing
<1>6. RP!SessionsKept
  BY RegistryKept DEF Next, ScanStep
<1>7. LeasesGo(ExitedSessions(observed, sdk))
  BY <1>2, LeasesDropped
<1> HIDE DEF observed, sdk
<1>8. RP!ReconcileRunning(observed, Alive(observed, sdk), {})
  BY <1>2, RegistryScan
<1>9. RP!Inv
  BY DEF RuntimeInv
<1>10. /\ \A i \in DOMAIN sessions :
            i \in DOMAIN sessions' <=> i \notin RP!Exited(observed, Alive(observed, sdk))
       /\ \A i \in DOMAIN sessions' \ DOMAIN sessions :
            sessions'[i].instance \in observed /\ sessions'[i].origin # "Managed"
       /\ next_session_id <= next_session_id'
  BY <1>1, <1>8, <1>9, ComponentAssumptions, RP!ScanSessions
<1>11. SessionsLeave(ExitedSessions(observed, sdk))
  BY <1>4, <1>6, <1>7, <1>10 DEF SessionsLeave, RP!SessionsKept
<1> QED
  BY <1>3, <1>5, <1>10, <1>11 DEF observed, sdk

LEMMA StartOnSessions ==
  ASSUME NEW a \in Avds, StartStep(a)
  PROVE  Commit(a) \/ SessionsStay
<1>1. CASE \/ BeginStart(a) \/ EnqueueRefused(a) \/ Canceled(a) \/ MarkQueued(a) \/ MarkStarting(a)
           \/ ReservePort(a) \/ MarkBooting(a) \/ FailStart(a)
  <2>1. UNCHANGED Reg!sessionVars /\ leases' = leases
    BY <1>1, Zenon
       DEF BeginStart, EnqueueRefused, Canceled, MarkQueued, MarkStarting, ReservePort, MarkBooting,
           FailStart, Reg!BeginStart, Reg!FailStart, Reg!DropStart, Reg!MarkStart,
           Reg!AttachStartPort, resourceVars
  <2> QED
    BY <2>1 DEF Reg!sessionVars, SessionsStay
<1>2. CASE \/ Enqueue(a) \/ CheckTicket(a) \/ Acquire(a) \/ ListPorts(a) \/ PortsExhausted(a)
           \/ Launch(a) \/ LaunchFails(a) \/ Boots(a) \/ BootFails(a) \/ CleanUp(a)
           \/ IntoReservation(a) \/ CommitRefused(a) \/ DropHeld(a) \/ StartSyncs(a)
  <2>1. UNCHANGED regVars /\ leases' = leases
    BY <1>2 DEF Enqueue, CheckTicket, Acquire, ListPorts, PortsExhausted, Launch, LaunchFails,
                Boots, BootFails, CleanUp, IntoReservation, CommitRefused, DropHeld, StartSyncs, resourceVars
  <2> QED
    BY <2>1 DEF regVars, SessionsStay
<1> QED
  BY <1>1, <1>2 DEF StartStep

LEMMA StopOnSessions ==
  ASSUME NEW a \in Avds, StopStep(a)
  PROVE  CompleteStop(a) \/ (SessionsStay /\ reserved' = reserved)
<1>1. CASE CancelPhase(a) \/ BeginStop(a) \/ FailStop(a) \/ StaleStop(a)
  <2>1. UNCHANGED Reg!sessionVars /\ leases' = leases /\ reserved' = reserved
    BY <1>1, Zenon
       DEF CancelPhase, BeginStop, FailStop, StaleStop, Reg!CancelQueued, Reg!BeginStop,
           Reg!FailStop, Reg!DropStop, resourceVars
  <2> QED
    BY <2>1 DEF Reg!sessionVars, SessionsStay
<1>2. CASE \/ ClickStop(a) \/ CancelRequest(a) \/ NothingQueued(a) \/ NotQueued(a)
           \/ NothingRunning(a) \/ EngineExits(a) \/ EngineStays(a) \/ Uncount(a) \/ StopSyncs(a)
  <2>1. UNCHANGED regVars /\ leases' = leases /\ reserved' = reserved
    BY <1>2 DEF ClickStop, CancelRequest, NothingQueued, NotQueued, NothingRunning,
                EngineExits, EngineStays, Uncount, StopSyncs, resourceVars
  <2> QED
    BY <2>1 DEF regVars, SessionsStay
<1> QED
  BY <1>1, <1>2 DEF StopStep

LEMMA ScanOnSessions ==
  ASSUME NEW s \in Scanners, ScanStep(s)
  PROVE  Merge(s) \/ (SessionsStay /\ reserved' = reserved)
<1>1. CASE ReadAds(s) \/ CountExternal(s) \/ ApplyRoutes(s)
  <2>1. UNCHANGED regVars /\ leases' = leases /\ reserved' = reserved
    BY <1>1, Zenon DEF ReadAds, CountExternal, ApplyRoutes, resourceVars
  <2> QED
    BY <2>1 DEF regVars, SessionsStay
<1> QED
  BY <1>1 DEF ScanStep

\* Two sessions own different requests, and different ports.
LEMMA LeasesDiffer ==
  ASSUME RuntimeInv, NEW i \in DOMAIN leases, NEW j \in DOMAIN leases,
         leases[i].request = leases[j].request \/ leases[i].port = leases[j].port
  PROVE  i = j
<1>1. RegistryFacts /\ SessionsOwn
  BY RegistrySays DEF RuntimeInv
<1>2. i \in DOMAIN sessions /\ j \in DOMAIN sessions
  BY <1>1 DEF SessionsOwn
<1> QED
  BY <1>1, <1>2 DEF SessionsOwn, RegistryFacts

\* A task that holds a request still does after its step, unless it commits
\* or gives the request up.
LEMMA HoldersStay ==
  ASSUME RuntimeInv, NEW a \in Holders, StartStep(a),
         ~Commit(a), ~CommitRefused(a), ~DropHeld(a)
  PROVE  a \in Holders' /\ start'[a].request = start[a].request
<1>1. StartSteps(a)
  BY StartEffects DEF Holders
<1>2. \/ MarkStarting(a) \/ ListPorts(a) \/ ReservePort(a) \/ PortsExhausted(a) \/ Launch(a)
      \/ LaunchFails(a) \/ MarkBooting(a) \/ Boots(a) \/ BootFails(a) \/ CleanUp(a) \/ IntoReservation(a)
      \/ FailStart(a)
  <2>1. \/ MarkStarting(a) \/ ListPorts(a) \/ ReservePort(a) \/ PortsExhausted(a) \/ Launch(a)
        \/ LaunchFails(a) \/ MarkBooting(a) \/ Boots(a) \/ BootFails(a) \/ CleanUp(a) \/ IntoReservation(a)
        \/ FailStart(a)
        \/ start[a].pc \in {"idle", "begun", "enqueued", "checked", "waiting", "syncing", "applying"}
    BY Zenon DEF StartStep, At, BeginStart, Enqueue, EnqueueRefused, CheckTicket, Canceled,
                 MarkQueued, Acquire, StartSyncs
  <2> QED
    BY <2>1 DEF Holders
<1>3. start'[a].request = start[a].request
      /\ start'[a].pc \in {"starting", "listed", "reserved", "launched", "booting", "booted",
                           "committing", "cleaning", "failing", "dropping"}
  BY <1>1, <1>2 DEF StartSteps, StartsAt
<1> QED
  BY <1>3 DEF Holders

LEMMA StartKeepsSessions ==
  ASSUME RuntimeInv, NEW a \in Avds, StartStep(a), ~Commit(a)
  PROVE  SessionsOwn'
<1>1. StartSteps(a) /\ StartRequests(a) /\ SchedulerFacts /\ SessionsOwn /\ HoldsRequest(a)
  BY StartEffects, StartOnRequests, SchedulerSays DEF RuntimeInv, RequestsAreHeld
<1>2. sessions' = sessions /\ leases' = leases
  BY StartOnSessions DEF SessionsStay
<1>3. \A b \in Avds \ {a} : start'[b] = start[b]
  BY <1>1 DEF StartStep, StartSteps, StartsAt
<1>4. \/ UNCHANGED <<owner, active>>
      \/ \E r \in {start[a].request, next_id + 1} : \E state : OnlyRequest(r, state)
  BY <1>1 DEF StartRequests
<1>5. start[a].pc \in {"syncing", "applying"} => UNCHANGED <<owner, active>>
  <2>1. start[a].pc \in {"syncing", "applying"} =>
          ~(Enqueue(a) \/ Acquire(a) \/ Canceled(a) \/ IntoReservation(a) \/ CommitRefused(a)
            \/ DropHeld(a))
    BY Zenon DEF At, Enqueue, Acquire, Canceled, IntoReservation, CommitRefused, DropHeld
  <2> QED
    BY <1>1, <2>1 DEF StartRequests
<1>6. ASSUME NEW i \in DOMAIN leases
      PROVE  /\ owner'[leases[i].request] = "session"
             /\ active'[leases[i].request].key = active[leases[i].request].key
  <2> DEFINE r == leases[i].request
  <2>1. r \in Sched!Ids /\ owner[r] = "session" /\ r \in DOMAIN active
    BY <1>1 DEF SessionsOwn, SchedulerFacts
  <2>2. r # next_id + 1
    <3>1. r \in Int /\ next_id \in Int
      BY <1>1, <2>1, SchedulerAssumption DEF SchedulerFacts
    <3>2. ~(r > next_id)
      BY <1>1, <2>1 DEF SchedulerFacts
    <3> QED
      BY <3>1, <3>2
  <2>3. r = start[a].request => start[a].pc \in {"syncing", "applying"}
    BY LeaseIsNoTasks DEF LeaseRequests
  <2> HIDE DEF r
  <2>4. owner'[r] = owner[r] /\ active'[r].key = active[r].key
    BY <1>4, <1>5, <2>1, <2>2, <2>3 DEF OnlyRequest
  <2> QED
    BY <2>1, <2>4 DEF r
<1>7. ASSUME NEW r \in Sched!Ids, owner'[r] \in {"permit", "session"}
      PROVE  r \in TaskRequests' \cup LeaseRequests'
  <2>1. LeaseRequests' = LeaseRequests
    BY <1>2 DEF LeaseRequests
  <2>2. r # 0
    BY <1>1 DEF SchedulerFacts
  <2>3. CASE Acquire(a) \/ IntoReservation(a)
    <3>1. start'[a].request = start[a].request /\ start'[a].pc \in {"permitted", "committing"}
      BY <1>1, <2>3 DEF StartSteps, StartsAt
    <3>2. a \in Holders'
      BY <3>1 DEF Holders
    <3>3. CASE r = start[a].request
      BY <2>2, <3>1, <3>2, <3>3 DEF TaskRequests
    <3>4. CASE r # start[a].request
      <4>1. owner'[r] = owner[r]
        BY <1>1, <1>7, <2>3, <3>4 DEF StartRequests, OnlyRequest
      <4>2. r \in TaskRequests \cup LeaseRequests
        BY <1>1, <1>7, <4>1 DEF SessionsOwn
      <4>3. \A b \in Holders \ {a} : b \in Holders' /\ start'[b].request = start[b].request
        BY <1>3 DEF Holders
      <4> QED
        BY <2>1, <2>2, <3>4, <4>2, <4>3 DEF TaskRequests
    <3> QED
      BY <3>3, <3>4
  <2>4. CASE ~Acquire(a) /\ ~IntoReservation(a)
    <3>1. owner'[r] = owner[r]
      BY <1>1, <1>7, <2>4 DEF StartRequests, OnlyRequest
    <3>2. r \in TaskRequests \cup LeaseRequests
      BY <1>1, <1>7, <3>1 DEF SessionsOwn
    <3>3. \A b \in Holders \ {a} : b \in Holders' /\ start'[b].request = start[b].request
      BY <1>3 DEF Holders
    <3>4. CASE r \in TaskRequests
      <4>1. PICK b \in Holders : r = start[b].request
        BY <3>4 DEF TaskRequests
      <4>2. CASE b # a
        BY <2>2, <3>3, <4>1, <4>2 DEF TaskRequests
      <4>3. CASE b = a
        <5>1. ~CommitRefused(a) /\ ~DropHeld(a)
          BY <1>1, <1>7, <2>2, <4>1, <4>3 DEF StartRequests, OnlyRequest
        <5>2. a \in Holders' /\ start'[a].request = start[a].request
          BY <4>1, <4>3, <5>1, HoldersStay
        <5> QED
          BY <2>2, <4>1, <4>3, <5>2 DEF TaskRequests
      <4> QED
        BY <4>2, <4>3
    <3> QED
      BY <2>1, <3>2, <3>4
  <2> QED
    BY <2>3, <2>4
<1> QED
  BY <1>1, <1>2, <1>6, <1>7 DEF SessionsOwn, Managed

LEMMA CommitKeepsSessions ==
  ASSUME RuntimeInv, NEW a \in Avds, Commit(a)
  PROVE  SessionsOwn'
<1> DEFINE i == next_session_id + 1
<1>1. StartSteps(a) /\ SchedulerFacts /\ SessionsOwn /\ HoldsRequest(a) /\ OwnsDevice(a)
  BY StartEffects, SchedulerSays DEF RuntimeInv, RequestsAreHeld, DevicesAreOwned
<1>2. SessionAdded(a)
  BY CommitAdds
<1>3. start[a].pc = "committing"
  BY Zenon DEF Commit, At
<1>4. start[a].request \in Sched!Ids
  BY <1>3, TicketOf
<1>5. /\ start[a].port \in Ports /\ states[a].console_port = start[a].port
      /\ owner[start[a].request] = "session" /\ active[start[a].request].key = a
  BY <1>1, <1>3 DEF OwnsDevice, HasPort, HoldsRequest
<1>6. \A b \in Avds \ {a} : start'[b] = start[b]
  BY <1>1 DEF StartSteps, StartsAt
<1>7. DOMAIN leases' = {j \in DOMAIN sessions' : Managed(j)'}
  BY <1>1, <1>2 DEF SessionAdded, SessionsOwn, Managed
<1>8. ASSUME NEW j \in DOMAIN leases'
      PROVE  /\ leases'[j] \in [request : Sched!Ids, port : Ports]
             /\ owner'[leases'[j].request] = "session"
             /\ active'[leases'[j].request].key = sessions'[j].instance.avd
             /\ leases'[j].port = sessions'[j].instance.port
  <2>1. CASE j \in DOMAIN leases
    <3>1. j \in DOMAIN sessions
      BY <1>1, <2>1 DEF SessionsOwn
    <3> QED
      BY <1>1, <1>2, <2>1, <3>1 DEF SessionAdded, SessionsOwn
  <2>2. CASE j = i
    <3>1. /\ leases'[j] = [request |-> start[a].request, port |-> start[a].port]
          /\ sessions'[j].instance = [avd |-> a, port |-> states[a].console_port, pid |-> start[a].pid]
          /\ owner' = owner /\ active' = active
      BY <1>2, <2>2 DEF SessionAdded
    <3> QED
      BY <1>4, <1>5, <3>1
  <2> QED
    BY <1>2, <2>1, <2>2 DEF SessionAdded
<1>9. ASSUME NEW r \in Sched!Ids, owner'[r] \in {"permit", "session"}
      PROVE  r \in TaskRequests' \cup LeaseRequests'
  <2>1. r \in TaskRequests \cup LeaseRequests
    BY <1>1, <1>2, <1>9 DEF SessionAdded, SessionsOwn
  <2>2. LeaseRequests \subseteq LeaseRequests'
    BY <1>2 DEF SessionAdded, LeaseRequests
  <2>3. start[a].request \in LeaseRequests'
    <3>1. i \in DOMAIN leases' /\ leases'[i].request = start[a].request
      BY <1>2 DEF SessionAdded
    <3> QED
      BY <3>1 DEF LeaseRequests
  <2>4. \A b \in Holders \ {a} : b \in Holders' /\ start'[b].request = start[b].request
    BY <1>6 DEF Holders
  <2> QED
    BY <2>1, <2>2, <2>3, <2>4 DEF TaskRequests
<1> QED
  BY <1>7, <1>8, <1>9 DEF SessionsOwn

\* A session that leaves takes only its own request with it.
LEMMA LeavingKeepsSessions ==
  ASSUME RuntimeInv, start' = start, NEW ids, SessionsLeave(ids)
  PROVE  SessionsOwn'
<1>1. SchedulerFacts /\ SessionsOwn
  BY SchedulerSays DEF RuntimeInv
<1>2. DOMAIN leases' = {i \in DOMAIN sessions' : Managed(i)'}
  BY <1>1 DEF SessionsLeave, LeasesGo, SessionsOwn, Managed
<1>3. ASSUME NEW i \in DOMAIN leases'
      PROVE  /\ leases'[i] \in [request : Sched!Ids, port : Ports]
             /\ owner'[leases'[i].request] = "session"
             /\ active'[leases'[i].request].key = sessions'[i].instance.avd
             /\ leases'[i].port = sessions'[i].instance.port
  <2>1. i \in DOMAIN leases \ ids /\ leases'[i] = leases[i]
    BY DEF SessionsLeave, LeasesGo
  <2>2. i \in DOMAIN sessions /\ sessions'[i].instance = sessions[i].instance
    BY <1>1, <2>1 DEF SessionsLeave, SessionsOwn
  <2>3. leases[i].request \notin RequestsOf(ids)
    BY <2>1, LeasesDiffer DEF RequestsOf
  <2>4. leases[i].request \in Sched!Ids /\ leases[i].request \in DOMAIN active
    BY <1>1, <2>1 DEF SessionsOwn, SchedulerFacts
  <2>5. /\ owner'[leases[i].request] = owner[leases[i].request]
        /\ active'[leases[i].request].key = active[leases[i].request].key
    BY <2>3, <2>4 DEF SessionsLeave, LeasesGo
  <2> QED
    BY <1>1, <2>1, <2>2, <2>5 DEF SessionsOwn
<1>4. ASSUME NEW r \in Sched!Ids, owner'[r] \in {"permit", "session"}
      PROVE  r \in TaskRequests' \cup LeaseRequests'
  <2>1. r \notin RequestsOf(ids) /\ owner'[r] = owner[r]
    BY <1>4 DEF SessionsLeave, LeasesGo
  <2>2. r \in TaskRequests \cup LeaseRequests
    BY <1>1, <1>4, <2>1 DEF SessionsOwn
  <2>3. TaskRequests' = TaskRequests
    BY DEF TaskRequests, Holders
  <2>4. r \in LeaseRequests => r \in LeaseRequests'
    BY <2>1 DEF LeaseRequests, RequestsOf, SessionsLeave, LeasesGo
  <2> QED
    BY <2>2, <2>3, <2>4
<1> QED
  BY <1>2, <1>3, <1>4 DEF SessionsOwn

LEMMA SessionsOwnKept ==
  ASSUME RuntimeInv, [Next]_runtimeVars
  PROVE  SessionsOwn'
<1>1. ASSUME start' = start, UNCHANGED <<owner, active, sessions, leases>>
      PROVE  SessionsOwn'
  BY <1>1 DEF RuntimeInv, SessionsOwn, Managed, TaskRequests, LeaseRequests, Holders
<1>2. ASSUME NEW a \in Avds, StopStep(a)
      PROVE  SessionsOwn'
  <2>1. start' = start /\ StopRequests(a)
    BY <1>2, StopFrames, StopOnRequests
  <2>2. CASE CompleteStop(a)
    BY <2>1, <2>2, CompleteStopLeaves, LeavingKeepsSessions
  <2>3. CASE ~CompleteStop(a)
    BY <1>1, <1>2, <2>1, <2>3, StopOnSessions DEF StopRequests, SessionsStay
  <2> QED
    BY <2>2, <2>3
<1>3. ASSUME NEW s \in Scanners, ScanStep(s)
      PROVE  SessionsOwn'
  <2>1. start' = start /\ ScanRequests(s)
    BY <1>3, ScanFrames, ScanOnRequests
  <2>2. CASE Merge(s)
    BY <2>1, <2>2, MergeLeaves, LeavingKeepsSessions
  <2>3. CASE ~Merge(s)
    BY <1>1, <1>3, <2>1, <2>3, ScanOnSessions DEF ScanRequests, SessionsStay
  <2> QED
    BY <2>2, <2>3
<1>4. ASSUME NEW a \in Avds, ExternalStart(a)
      PROVE  SessionsOwn'
  BY <1>1, <1>4 DEF ExternalStart, schedVars, regVars, resourceVars
<1>5. ASSUME NEW o \in engines, Crash(o)
      PROVE  SessionsOwn'
  BY <1>1, <1>5 DEF Crash, schedVars, regVars, resourceVars
<1>6. CASE UNCHANGED runtimeVars
  BY <1>1, <1>6 DEF runtimeVars, schedVars, regVars, resourceVars
<1> QED
  BY <1>2, <1>3, <1>4, <1>5, <1>6, StartKeepsSessions, CommitKeepsSessions DEF Next

-----------------------------------------------------------------------------
(* Who holds a console port.                                                *)

\* What each step of a start does to the ports.
StartPorts(a) ==
  /\ CommitRefused(a) \/ DropHeld(a) => reserved' = reserved \ {start[a].port}
  /\ StartStep(a) => ReservePort(a) \/ CommitRefused(a) \/ DropHeld(a) \/ reserved' = reserved

LEMMA StartOnPorts ==
  ASSUME NEW a \in Avds
  PROVE  StartPorts(a)
<1>1. CommitRefused(a) \/ DropHeld(a) => reserved' = reserved \ {start[a].port}
  BY Zenon DEF CommitRefused, DropHeld
<1>2. ASSUME \/ BeginStart(a) \/ Enqueue(a) \/ EnqueueRefused(a) \/ CheckTicket(a) \/ Canceled(a)
             \/ MarkQueued(a) \/ Acquire(a) \/ MarkStarting(a) \/ ListPorts(a) \/ PortsExhausted(a)
             \/ Launch(a) \/ LaunchFails(a) \/ MarkBooting(a) \/ Boots(a) \/ BootFails(a) \/ CleanUp(a)
             \/ IntoReservation(a) \/ Commit(a) \/ FailStart(a) \/ StartSyncs(a)
      PROVE  reserved' = reserved
  <2>1. UNCHANGED resourceVars \/ reserved' = reserved
    BY <1>2, Zenon
       DEF BeginStart, Enqueue, EnqueueRefused, CheckTicket, Canceled, MarkQueued, Acquire,
           MarkStarting, ListPorts, PortsExhausted, Launch, LaunchFails, MarkBooting, Boots,
           BootFails, CleanUp, IntoReservation, Commit, FailStart, StartSyncs
  <2> QED
    BY <2>1 DEF resourceVars
<1> QED
  BY <1>1, <1>2 DEF StartPorts, StartStep

\* A task that lets its port go: no other task has it.
LEMMA PortLetGo ==
  ASSUME RuntimeInv, NEW a \in Holders, \A b \in Avds \ {a} : start'[b] = start[b],
         start'[a].port = NoPort \/ a \notin Holders'
  PROVE  TaskPorts' = TaskPorts \ {start[a].port}
<1>1. \A b, c \in Holders : start[b].port = start[c].port /\ b # c => start[b].port = NoPort
  BY DEF RuntimeInv, PortsAreHeld
<1>2. \A b \in Avds \ {a} : b \in Holders' <=> b \in Holders
  BY DEF Holders
<1>3. Holders \subseteq Avds /\ Holders' \subseteq Avds
  BY DEF Holders
<1>4. ASSUME NEW p
      PROVE  p \in TaskPorts' <=> p \in TaskPorts /\ p # start[a].port
  BY <1>1, <1>2, <1>3 DEF TaskPorts
<1> QED
  BY <1>4

LEMMA StartKeepsPorts ==
  ASSUME RuntimeInv, NEW a \in Avds, StartStep(a)
  PROVE  PortsAreHeld'
<1>1. StartSteps(a) /\ StartPorts(a) /\ PortsAreHeld /\ OwnsDevice(a)
  BY StartEffects, StartOnPorts DEF RuntimeInv, DevicesAreOwned
<1>2. \A b \in Avds \ {a} : start'[b] = start[b]
  BY <1>1 DEF StartStep, StartSteps, StartsAt
<1>3. \A b \in Avds \ {a} : b \in Holders' <=> b \in Holders
  BY <1>2 DEF Holders
<1>4. Holders \subseteq Avds /\ Holders' \subseteq Avds
  BY DEF Holders
<1>5. NoPort \notin Ports
  BY RegistryAssumption
<1>6. \A b \in Avds \ {a} : start'[b].pc \in WithoutPort => start'[b].port = NoPort
  BY <1>1, <1>2 DEF PortsAreHeld
\* What is left to show of a step, from what it does to a's own port.
<1>7. ASSUME start'[a].pc \in WithoutPort => start'[a].port = NoPort,
             \A b \in Holders \ {a} :
               a \in Holders' /\ start'[a].port = start[b].port => start'[a].port = NoPort,
             reserved' \subseteq Ports, reserved' = TaskPorts' \cup LeasePorts',
             TaskPorts' \cap LeasePorts' = {}
      PROVE  PortsAreHeld'
  <2>1. \A b, c \in Holders' : start'[b].port = start'[c].port /\ b # c => start'[b].port = NoPort
    BY <1>1, <1>2, <1>3, <1>4, <1>7 DEF PortsAreHeld
  <2>2. \A b \in Avds : start'[b].pc \in WithoutPort => start'[b].port = NoPort
    BY <1>6, <1>7
  <2> QED
    BY <1>7, <2>1, <2>2 DEF PortsAreHeld
<1>8. CASE ReservePort(a)
  <2>1. PICK p \in Ports \ reserved :
          /\ StartsAt(a, "reserved", start[a].generation, start[a].request, p, start[a].pid)
          /\ reserved' = reserved \cup {p}
    BY <1>1, <1>8 DEF StartSteps
  <2>2. start[a].pc = "listed"
    BY <1>8, Zenon DEF ReservePort, At
  <2>3. start[a].port = NoPort
    BY <1>1, <2>2 DEF PortsAreHeld, WithoutPort
  <2>4. start'[a].pc = "reserved" /\ start'[a].port = p /\ a \in Holders'
    BY <2>1 DEF StartsAt, Holders
  <2>5. LeasePorts' = LeasePorts
    <3>1. ~Commit(a)
      BY <2>2 DEF Commit, At
    <3> QED
      BY <3>1, StartOnSessions DEF SessionsStay, LeasePorts
  <2>6. TaskPorts' = TaskPorts \cup {p}
    <3>1. ASSUME NEW q
          PROVE  q \in TaskPorts' <=> q \in TaskPorts \/ q = p
      BY <1>2, <1>3, <1>4, <1>5, <2>1, <2>3, <2>4 DEF TaskPorts
    <3> QED
      BY <3>1
  <2>7. \A b \in Holders : start[b].port # p
    BY <1>1, <1>5, <2>1 DEF PortsAreHeld, TaskPorts
  <2> QED
    BY <1>1, <1>7, <2>1, <2>4, <2>5, <2>6, <2>7 DEF PortsAreHeld, WithoutPort, Ticketed
<1>9. CASE Commit(a)
  <2>1. start[a].pc = "committing" /\ start'[a].pc = "syncing"
    BY <1>1, <1>9 DEF Commit, At, StartSteps, StartsAt
  <2>2. a \in Holders /\ a \notin Holders' /\ start[a].port \in Ports
    BY <1>1, <2>1 DEF Holders, OwnsDevice, HasPort
  <2>3. TaskPorts' = TaskPorts \ {start[a].port}
    BY <1>2, <2>2, PortLetGo
  <2>4. LeasePorts' = LeasePorts \cup {start[a].port}
    <3>1. SessionAdded(a)
      BY <1>9, CommitAdds
    <3>2. ASSUME NEW q
          PROVE  q \in LeasePorts' <=> q \in LeasePorts \/ q = start[a].port
      BY <3>1 DEF SessionAdded, LeasePorts
    <3> QED
      BY <3>2
  <2>5. start[a].port \in TaskPorts
    BY <1>5, <2>2 DEF TaskPorts
  <2>6. reserved' = reserved
    BY <1>9 DEF Commit
  <2> QED
    BY <1>1, <1>7, <2>1, <2>2, <2>3, <2>4, <2>5, <2>6 DEF PortsAreHeld, WithoutPort, Ticketed
<1>10. CASE CommitRefused(a) \/ DropHeld(a)
  <2>1. start[a].pc \in {"committing", "dropping"}
    BY <1>10, Zenon DEF CommitRefused, DropHeld, At
  <2>2. start'[a].port = NoPort
    BY <1>1, <1>10 DEF StartSteps, StartsAt
  <2>3. a \in Holders
    BY <2>1 DEF Holders
  <2>4. TaskPorts' = TaskPorts \ {start[a].port}
    BY <1>2, <2>2, <2>3, PortLetGo
  <2>5. LeasePorts' = LeasePorts
    <3>1. ~Commit(a)
      BY <1>10, Zenon DEF Commit, CommitRefused, DropHeld, At, Reg!CompleteStart
    <3> QED
      BY <3>1, StartOnSessions DEF SessionsStay, LeasePorts
  <2>6. start[a].port \notin LeasePorts
    <3>1. start[a].port # NoPort => start[a].port \in TaskPorts
      BY <2>3 DEF TaskPorts
    <3> QED
      BY <1>1, <1>5, <3>1 DEF PortsAreHeld
  <2>7. reserved' = reserved \ {start[a].port}
    BY <1>1, <1>10 DEF StartPorts
  <2> QED
    BY <1>1, <1>7, <2>2, <2>4, <2>5, <2>6, <2>7 DEF PortsAreHeld
<1>11. CASE ~ReservePort(a) /\ ~Commit(a) /\ ~CommitRefused(a) /\ ~DropHeld(a)
  <2>1. reserved' = reserved /\ LeasePorts' = LeasePorts
    BY <1>1, <1>11, StartOnSessions DEF StartPorts, SessionsStay, LeasePorts
  <2>2. start'[a].port = start[a].port \/ (start'[a].port = NoPort /\ start'[a].pc \in {"idle", "begun"})
    <3>1. StartSyncs(a) => start'[a].port = start[a].port
                           \/ (start'[a].port = NoPort /\ start'[a].pc \in {"idle", "begun"})
      BY <1>1 DEF StartSteps, StartsAt
    <3> QED
      BY <1>1, <1>11, <3>1 DEF StartStep, StartSteps, StartsAt
  <2>3. a \in Holders \/ start[a].pc \in WithoutPort \/ StartSyncs(a)
    <3>1. start[a].pc \in {"syncing", "applying"} => StartSyncs(a)
      BY Zenon DEF StartStep, At, BeginStart, Enqueue, EnqueueRefused, CheckTicket, Canceled,
         MarkQueued, Acquire, MarkStarting, ListPorts, ReservePort, PortsExhausted, Launch,
         LaunchFails, MarkBooting, Boots, BootFails, CleanUp, IntoReservation, Commit, CommitRefused,
         FailStart, DropHeld
    <3>2. start[a].pc \in StartPcs
      BY DEF RuntimeInv, TaskTypes, StartTasks
    <3> QED
      BY <3>1, <3>2 DEF Holders, StartPcs, WithoutPort, Ticketed
  <2>4. CASE a \in Holders
    <3>1. a \in Holders' /\ start'[a].request = start[a].request
      BY <1>11, <2>4, HoldersStay
    <3>2. start'[a].port = start[a].port
      BY <2>2, <3>1 DEF Holders
    <3>3. TaskPorts' = TaskPorts
      <4>1. ASSUME NEW q
            PROVE  q \in TaskPorts' <=> q \in TaskPorts
        BY <1>2, <1>3, <1>4, <2>4, <3>1, <3>2 DEF TaskPorts
      <4> QED
        BY <4>1
    <3>4. start'[a].pc \in WithoutPort => start[a].pc \in WithoutPort
      <4>1. start'[a].pc \in {"starting", "listed"} => start[a].pc \in {"permitted", "starting"}
        <5>1. /\ MarkStarting(a) => start[a].pc = "permitted"
              /\ ListPorts(a) => start[a].pc = "starting"
              /\ BeginStart(a) => start[a].pc = "idle"
              /\ Enqueue(a) \/ EnqueueRefused(a) => start[a].pc = "begun"
              /\ CheckTicket(a) \/ MarkQueued(a) \/ Acquire(a) \/ Canceled(a) =>
                   start[a].pc \in {"enqueued", "checked", "waiting"}
              /\ StartSyncs(a) => start[a].pc \in {"syncing", "applying"}
          BY Zenon DEF At, BeginStart, Enqueue, EnqueueRefused, CheckTicket, Canceled, MarkQueued,
             Acquire, MarkStarting, ListPorts, StartSyncs
        <5>2. \/ MarkStarting(a) \/ ListPorts(a)
              \/ start'[a].pc \in {"reserved", "launched", "booting", "booted", "committing",
                                   "cleaning", "failing", "dropping"}
          BY <1>1, <1>11, <2>4, <5>1 DEF StartStep, StartSteps, StartsAt, Holders
        <5> QED
          BY <5>1, <5>2
      <4>2. start'[a].pc # "permitted"
        <5>1. Acquire(a) => start[a].pc = "waiting"
          BY DEF Acquire, At
        <5>2. StartSyncs(a) => start[a].pc \in {"syncing", "applying"}
          BY DEF StartSyncs, At
        <5> QED
          BY <1>1, <1>11, <2>4, <5>1, <5>2 DEF StartStep, StartSteps, StartsAt, Holders
      <4> QED
        BY <3>1, <4>1, <4>2 DEF Holders, WithoutPort, Ticketed
    <3> QED
      BY <1>1, <1>7, <2>1, <2>4, <3>2, <3>3, <3>4 DEF PortsAreHeld
  <2>5. CASE a \notin Holders
    <3>1. a \notin Holders' \/ start'[a].port = NoPort
      <4>1. CASE StartSyncs(a)
        BY <1>1, <4>1 DEF StartSteps, StartsAt, Holders
      <4> QED
        BY <1>1, <2>2, <2>3, <2>5, <4>1 DEF PortsAreHeld
    <3>2. start'[a].pc \in WithoutPort => start'[a].port = NoPort
      <4>1. CASE StartSyncs(a)
        BY <1>1, <4>1 DEF StartSteps, StartsAt, WithoutPort, Ticketed
      <4> QED
        BY <1>1, <2>2, <2>3, <2>5, <4>1 DEF PortsAreHeld
    <3>3. TaskPorts' = TaskPorts
      <4>1. ASSUME NEW q
            PROVE  q \in TaskPorts' <=> q \in TaskPorts
        BY <1>2, <1>3, <1>4, <2>5, <3>1 DEF TaskPorts
      <4> QED
        BY <4>1
    <3> QED
      BY <1>1, <1>7, <2>1, <3>1, <3>2, <3>3 DEF PortsAreHeld
  <2> QED
    BY <2>4, <2>5
<1> QED
  BY <1>8, <1>9, <1>10, <1>11

\* A session that leaves takes only its own port with it.
LEMMA LeavingKeepsPorts ==
  ASSUME RuntimeInv, start' = start, NEW ids, SessionsLeave(ids)
  PROVE  PortsAreHeld'
<1> DEFINE gone == {leases[i].port : i \in ids \cap DOMAIN leases}
<1>1. PortsAreHeld
  BY DEF RuntimeInv
<1>2. Holders' = Holders /\ TaskPorts' = TaskPorts
  BY DEF TaskPorts, Holders
<1>3. LeasesGo(ids)
  BY DEF SessionsLeave
<1>4. \A p : p \in LeasePorts' <=> p \in LeasePorts /\ p \notin gone
  <2>1. \A i \in DOMAIN leases, j \in DOMAIN leases : leases[i].port = leases[j].port => i = j
    BY LeasesDiffer
  <2> QED
    BY <1>3, <2>1 DEF LeasesGo, LeasePorts
<1>5. gone \subseteq LeasePorts /\ reserved' = reserved \ gone
  BY <1>3 DEF LeasesGo, LeasePorts
<1> HIDE DEF gone
<1>6. reserved' = TaskPorts' \cup LeasePorts' /\ TaskPorts' \cap LeasePorts' = {}
  BY <1>1, <1>2, <1>4, <1>5 DEF PortsAreHeld
<1> QED
  BY <1>1, <1>2, <1>5, <1>6 DEF PortsAreHeld

LEMMA PortsKept ==
  ASSUME RuntimeInv, [Next]_runtimeVars
  PROVE  PortsAreHeld'
<1>1. ASSUME start' = start, UNCHANGED <<leases, reserved>>
      PROVE  PortsAreHeld'
  BY <1>1 DEF RuntimeInv, PortsAreHeld, TaskPorts, LeasePorts, Holders
<1>2. ASSUME NEW a \in Avds, StopStep(a)
      PROVE  PortsAreHeld'
  <2>1. start' = start
    BY <1>2, StopFrames
  <2>2. CASE CompleteStop(a)
    BY <2>1, <2>2, CompleteStopLeaves, LeavingKeepsPorts
  <2> QED
    BY <1>1, <1>2, <2>1, <2>2, StopOnSessions DEF SessionsStay
<1>3. ASSUME NEW s \in Scanners, ScanStep(s)
      PROVE  PortsAreHeld'
  <2>1. start' = start
    BY <1>3, ScanFrames
  <2>2. CASE Merge(s)
    BY <2>1, <2>2, MergeLeaves, LeavingKeepsPorts
  <2> QED
    BY <1>1, <1>3, <2>1, <2>2, ScanOnSessions DEF SessionsStay
<1>4. ASSUME NEW a \in Avds, ExternalStart(a)
      PROVE  PortsAreHeld'
  BY <1>1, <1>4 DEF ExternalStart, resourceVars
<1>5. ASSUME NEW o \in engines, Crash(o)
      PROVE  PortsAreHeld'
  BY <1>1, <1>5 DEF Crash, resourceVars
<1>6. CASE UNCHANGED runtimeVars
  BY <1>1, <1>6 DEF runtimeVars, resourceVars
<1> QED
  BY <1>2, <1>3, <1>4, <1>5, <1>6, StartKeepsPorts DEF Next

-----------------------------------------------------------------------------
(* Pids, stopped engines, and whose an engine is.                           *)

\* A step starts at most one engine, with a pid nobody had.
EnginesChange ==
  /\ spawned \in Int /\ spawned' \in {spawned, spawned + 1}
  /\ \A o \in engines' : o \in engines \/ (o.pid = spawned + 1 /\ spawned' = spawned + 1)

LEMMA EnginesStep ==
  ASSUME RuntimeInv, [Next]_runtimeVars
  PROVE  EnginesChange
<1>1. spawned \in Int
  BY EngineAssumption DEF RuntimeInv, TaskTypes
<1>2. ASSUME NEW a, NEW port, EngineStarts(a, port)
      PROVE  EnginesChange
  BY <1>1, <1>2 DEF EngineStarts, EnginesChange
<1>3. ASSUME EnginesGo \/ EnginesStay
      PROVE  EnginesChange
  BY <1>1, <1>3 DEF EnginesGo, EnginesStay, EnginesChange, engineVars
<1>4. ASSUME NEW a \in Avds, StartStep(a)
      PROVE  EnginesChange
  BY <1>2, <1>3, <1>4, StartOnEngines DEF StartEngines
<1>5. ASSUME NEW a \in Avds, ExternalStart(a)
      PROVE  EnginesChange
  BY <1>2, <1>5, ExternalStartStarts
<1>6. ASSUME UNCHANGED runtimeVars
      PROVE  EnginesStay
  BY <1>6 DEF runtimeVars, EnginesStay
<1> QED
  BY <1>3, <1>4, <1>5, <1>6, StopOnEngines, ScanOnEngines, CrashGoes DEF Next

\* Where a step of a start leaves the task with an engine.
LEMMA LaunchedSteps ==
  ASSUME RuntimeInv, NEW a \in Avds, StartStep(a)
  PROVE  /\ start'[a].pc \in Launched /\ ~Launch(a) =>
              /\ start[a].pc \in Launched
              /\ start'[a].pid = start[a].pid /\ start'[a].port = start[a].port
         /\ start[a].pc \in Launched =>
              \/ BootFails(a) \/ CleanUp(a) \/ Commit(a) \/ CommitRefused(a)
              \/ start'[a].pc \in Launched /\ start'[a].pid = start[a].pid
         /\ start'[a].pid \in {start[a].pid, 0} \/ Launch(a)
         /\ start'[a].pid # 0 => start'[a].pc \in KnowingPid
         /\ Launch(a) => /\ start[a].pc \notin Launched /\ start'[a].pid = spawned + 1
                         /\ start'[a].pc \in Launched /\ start'[a].port = start[a].port
<1>1. StartSteps(a) /\ KnowsPid(a)
  BY StartEffects DEF RuntimeInv, PidsAreNew
<1>2. Launch(a) => /\ start[a].pc \notin Launched /\ start'[a].pid = spawned + 1
                   /\ start'[a].pc \in Launched /\ start'[a].port = start[a].port
  BY <1>1 DEF Launch, At, Launched, StartSteps, StartsAt
<1>3. CASE MarkBooting(a) \/ Boots(a) \/ IntoReservation(a)
  <2>1. start[a].pc \in Launched
    BY <1>3, Zenon DEF MarkBooting, Boots, IntoReservation, At, Launched
  <2>2. /\ start'[a].pc \in Launched
        /\ start'[a].pid = start[a].pid /\ start'[a].port = start[a].port
    BY <1>1, <1>3 DEF StartSteps, StartsAt, Launched
  <2> QED
    BY <1>2, <2>1, <2>2 DEF KnowingPid
<1>4. CASE Launch(a) \/ BootFails(a) \/ CleanUp(a) \/ Commit(a) \/ CommitRefused(a)
  BY <1>1, <1>2, <1>4 DEF StartSteps, StartsAt, Launched, KnowingPid
<1>5. CASE \/ BeginStart(a) \/ Enqueue(a) \/ EnqueueRefused(a) \/ CheckTicket(a) \/ Canceled(a)
           \/ MarkQueued(a) \/ Acquire(a) \/ MarkStarting(a) \/ ListPorts(a) \/ ReservePort(a)
           \/ PortsExhausted(a) \/ LaunchFails(a) \/ FailStart(a) \/ DropHeld(a) \/ StartSyncs(a)
  <2>1. start[a].pc \in {"idle", "begun", "enqueued", "checked", "waiting", "permitted", "starting",
                         "listed", "reserved", "failing", "dropping", "syncing", "applying"}
    BY <1>5, Zenon
       DEF At, BeginStart, Enqueue, EnqueueRefused, CheckTicket, Canceled, MarkQueued, Acquire,
           MarkStarting, ListPorts, ReservePort, PortsExhausted, LaunchFails, FailStart, DropHeld,
           StartSyncs
  <2>2. /\ start'[a].pc \in {"idle", "begun", "enqueued", "checked", "waiting", "permitted",
                             "starting", "listed", "reserved", "failing", "dropping", "applying"}
        /\ start'[a].pid \in {start[a].pid, 0}
        /\ StartSyncs(a) => start'[a].pid = 0 \/ start'[a].pc = "applying"
    <3>1. StartSyncs(a) => \/ start'[a].pc = "idle" /\ start'[a].pid = 0
                           \/ start'[a].pc = "applying" /\ start'[a].pid = start[a].pid
      BY <1>1 DEF StartSteps, StartsAt
    <3> QED
      BY <1>1, <1>5, <3>1 DEF StartSteps, StartsAt
  <2>3. start[a].pid # 0 => StartSyncs(a)
    <3>1. start[a].pc \notin KnowingPid \/ start[a].pc \in {"syncing", "applying"}
      BY <2>1 DEF KnowingPid, Launched
    <3>2. start[a].pc \in {"syncing", "applying"} => StartSyncs(a)
      BY <1>5, Zenon
         DEF At, BeginStart, Enqueue, EnqueueRefused, CheckTicket, Canceled, MarkQueued, Acquire,
             MarkStarting, ListPorts, ReservePort, PortsExhausted, LaunchFails, FailStart, DropHeld
    <3> QED
      BY <1>1, <3>1, <3>2 DEF KnowsPid
  <2>4. start'[a].pid # 0 => start'[a].pc \in KnowingPid
    BY <2>2, <2>3 DEF KnowingPid
  <2> QED
    BY <1>2, <2>1, <2>2, <2>4 DEF Launched
<1> QED
  BY <1>3, <1>4, <1>5 DEF StartStep

LEMMA PidsKept ==
  ASSUME RuntimeInv, [Next]_runtimeVars
  PROVE  PidsAreNew'
<1>1. EnginesChange /\ PidsAreNew
  BY EnginesStep DEF RuntimeInv
<1>2. engines \in Observations /\ RegistryFacts /\ RegistryFacts' /\ RP!SessionsKept
  BY RegistrySays, RegistrySaysNext, RegistryKept DEF RuntimeInv, TaskTypes
<1>3. /\ \A o \in engines : o.pid \in Int
      /\ \A i \in DOMAIN sessions : sessions[i].instance.pid \in Int
      /\ \A s \in Scanners : \A o \in scan[s].observed : o.pid \in Int
      /\ \A a \in Avds : start[a].pid \in Int
  BY <1>2, EngineAssumption
     DEF Observations, EngineRecords, Pids, RegistryFacts, RuntimeInv, TaskTypes, ScanTasks, StartTasks
<1>4. \A n \in Int : n <= spawned => n <= spawned' /\ n # spawned + 1
  BY <1>1 DEF EnginesChange
<1>5. \A o \in engines' : o.pid <= spawned'
  BY <1>1, <1>3, <1>4 DEF EnginesChange, PidsAreNew
<1>6. ASSUME NEW a \in Avds, start'[a] = start[a]
      PROVE  KnowsPid(a)'
  BY <1>1, <1>3, <1>4, <1>6 DEF EnginesChange, PidsAreNew, KnowsPid, Engine
<1>7. ASSUME NEW a \in Avds, StartStep(a)
      PROVE  KnowsPid(a)'
  <2>1. KnowsPid(a) /\ StartEngines(a)
    BY <1>1, StartOnEngines DEF PidsAreNew
  <2>2. CASE Launch(a)
    <3>1. /\ engines' = engines \cup {[avd |-> a, port |-> start[a].port, pid |-> spawned + 1]}
          /\ spawned' = spawned + 1
      BY <2>1, <2>2 DEF StartEngines, EngineStarts
    <3>2. /\ start'[a].pid = spawned + 1 /\ start'[a].port = start[a].port
          /\ start'[a].pc \in Launched
      BY <1>7, <2>2, LaunchedSteps
    <3>3. \A o \in engines : o.pid # spawned + 1
      BY <1>1, <1>3, <1>4 DEF PidsAreNew
    <3>4. spawned + 1 # 0 /\ spawned + 1 <= spawned'
      BY <3>1, EngineAssumption DEF RuntimeInv, TaskTypes
    <3> QED
      BY <3>1, <3>2, <3>3, <3>4 DEF KnowsPid, Engine, KnowingPid
  <2>3. CASE ~Launch(a)
    <3>1. start'[a].pid \in {start[a].pid, 0}
      BY <1>7, <2>3, LaunchedSteps
    <3>2. 0 <= spawned
      BY EngineAssumption DEF RuntimeInv, TaskTypes
    <3>3. start'[a].pid <= spawned'
      BY <1>3, <1>4, <2>1, <3>1, <3>2 DEF KnowsPid
    <3>4. start'[a].pc \in Launched =>
            /\ start[a].pc \in Launched
            /\ start'[a].pid = start[a].pid /\ start'[a].port = start[a].port
      BY <1>7, <2>3, LaunchedSteps
    <3>5. start[a].pid # spawned + 1
      BY <1>3, <1>4, <2>1 DEF KnowsPid
    <3>6. start'[a].pid # 0 => start'[a].pc \in KnowingPid
      BY <1>7, LaunchedSteps
    <3> QED
      BY <1>1, <2>1, <3>3, <3>4, <3>5, <3>6 DEF KnowsPid, EnginesChange, Engine
  <2> QED
    BY <2>2, <2>3
<1>8. \A a \in Avds : KnowsPid(a)'
  <2>1. ASSUME NEW a \in Avds, StartStep(a), NEW b \in Avds \ {a}
        PROVE  start'[b] = start[b]
    BY <2>1, StartEffects DEF StartStep, StartSteps, StartsAt
  <2>2. (\E a \in Avds : StartStep(a)) \/ start' = start
    BY StopFrames, ScanFrames DEF Next, ExternalStart, Crash, runtimeVars
  <2> QED
    BY <1>6, <1>7, <2>1, <2>2
<1>9. ASSUME NEW i \in DOMAIN sessions'
      PROVE  sessions'[i].instance.pid <= spawned'
  <2>1. CASE i \in DOMAIN sessions
    <3>1. sessions'[i].instance = sessions[i].instance
      BY <1>2, <2>1 DEF RP!SessionsKept
    <3> QED
      BY <1>1, <1>3, <1>4, <2>1, <3>1 DEF PidsAreNew
  <2>2. CASE i \notin DOMAIN sessions
    <3>1. (\E a \in Avds : Commit(a)) \/ (\E s \in Scanners : Merge(s))
      <4>1. \/ \E a \in Avds : Commit(a) \/ CompleteStop(a)
            \/ \E s \in Scanners : Merge(s)
            \/ sessions' = sessions
        BY StartOnSessions, StopOnSessions, ScanOnSessions
           DEF Next, ExternalStart, Crash, runtimeVars, regVars, SessionsStay
      <4>2. \A a \in Avds : CompleteStop(a) => DOMAIN sessions' \subseteq DOMAIN sessions
        BY Zenon DEF CompleteStop, Reg!CompleteStop, Reg!RemoveSession, Reg!Without
      <4> QED
        BY <2>2, <4>1, <4>2
    <3>2. ASSUME NEW a \in Avds, Commit(a)
          PROVE  sessions'[i].instance.pid <= spawned'
      <4>1. SessionAdded(a)
        BY <3>2, CommitAdds
      <4>2. sessions'[i].instance.pid = start[a].pid
        BY <2>2, <4>1 DEF SessionAdded
      <4> QED
        BY <1>1, <1>3, <1>4, <4>2 DEF PidsAreNew, KnowsPid
    <3>3. ASSUME NEW s \in Scanners, Merge(s)
          PROVE  sessions'[i].instance.pid <= spawned'
      <4>1. sessions'[i].instance \in scan[s].observed
        BY <2>2, <3>3, MergeLeaves
      <4> QED
        BY <1>1, <1>3, <1>4, <4>1 DEF PidsAreNew
    <3> QED
      BY <3>1, <3>2, <3>3
  <2> QED
    BY <2>1, <2>2
<1>10. ASSUME NEW s \in Scanners, NEW o \in scan'[s].observed
       PROVE  o.pid <= spawned'
  <2>1. ASSUME NEW r \in Scanners, ScanStep(r)
        PROVE  o \in engines \/ o \in scan[s].observed
    <3>1. ScanSteps(r)
      BY <2>1, RegistryKept, ScanEffects DEF Next
    <3>2. CASE s = r
      BY <1>10, <2>1, <3>1, <3>2 DEF ScanStep, ScanSteps, ScansAt
    <3>3. CASE s # r
      BY <1>10, <2>1, <3>1, <3>3 DEF ScanStep, ScanSteps, ScansAt
    <3> QED
      BY <3>2, <3>3
  <2>2. (\E r \in Scanners : ScanStep(r)) \/ scan' = scan
    BY StartFrames, StopFrames DEF Next, ExternalStart, Crash, runtimeVars
  <2>3. o \in engines \/ o \in scan[s].observed
    BY <1>10, <2>1, <2>2
  <2> QED
    BY <1>1, <1>3, <1>4, <2>3 DEF PidsAreNew
<1> QED
  BY <1>5, <1>8, <1>9, <1>10 DEF PidsAreNew

\* An engine that is gone does not come back: its pid is not used again.
LEMMA GoneStaysGone ==
  ASSUME RuntimeInv, [Next]_runtimeVars, NEW i \in DOMAIN sessions,
         sessions[i].instance \notin engines
  PROVE  sessions[i].instance \notin engines'
<1>1. EnginesChange /\ PidsAreNew /\ RegistryFacts
  BY EnginesStep, RegistrySays DEF RuntimeInv
<1>2. sessions[i].instance.pid # spawned + 1
  <2>1. sessions[i].instance.pid \in Int
    BY <1>1, EngineAssumption DEF RegistryFacts, EngineRecords, Pids
  <2>2. sessions[i].instance.pid <= spawned
    BY <1>1 DEF PidsAreNew
  <2> QED
    BY <1>1, <2>1, <2>2 DEF EnginesChange
<1> QED
  BY <1>1, <1>2 DEF EnginesChange

LEMMA SessionIdsGrow ==
  ASSUME RuntimeInv, [Next]_runtimeVars
  PROVE  next_session_id \in Nat /\ next_session_id' \in Nat /\ next_session_id <= next_session_id'
<1>1. RegistryFacts /\ RegistryFacts'
  BY RegistrySays, RegistrySaysNext, RegistryKept DEF RuntimeInv
<1>2. next_session_id \in Nat /\ next_session_id' \in Nat
  BY <1>1, RegistryAssumption DEF RegistryFacts
<1>3. next_session_id' = next_session_id \/ (\E a \in Avds : Commit(a)) \/ (\E s \in Scanners : Merge(s))
  BY StartOnSessions, StopOnSessions, ScanOnSessions, CompleteStopLeaves
     DEF Next, ExternalStart, Crash, runtimeVars, regVars, SessionsStay
<1>4. ASSUME NEW a \in Avds, Commit(a)
      PROVE  next_session_id' = next_session_id + 1
  BY <1>4, CommitAdds DEF SessionAdded
<1>5. ASSUME NEW s \in Scanners, Merge(s)
      PROVE  next_session_id <= next_session_id'
  BY <1>5, MergeLeaves
<1> QED
  BY <1>2, <1>3, <1>4, <1>5

LEMMA StoppedKept ==
  ASSUME RuntimeInv, [Next]_runtimeVars
  PROVE  StoppedEnginesAreGone'
<1>1. RegistryFacts /\ RP!SessionsKept /\ \A a \in Avds : StopIsTrue(a)
  BY RegistrySays, RegistryKept DEF RuntimeInv, StoppedEnginesAreGone
<1>2. /\ next_session_id \in Nat /\ next_session_id' \in Nat
      /\ next_session_id <= next_session_id'
  BY SessionIdsGrow
<1>3. \A a \in Avds : stop[a].session \in Int
  BY RegistryAssumption DEF RuntimeInv, TaskTypes, StopTasks
\* A session the task knows is the same one if it is still there.
<1>4. ASSUME NEW i \in Int, i <= next_session_id, i \in DOMAIN sessions'
      PROVE  i \in DOMAIN sessions /\ sessions'[i].instance = sessions[i].instance
  <2>1. ~(i > next_session_id)
    BY <1>2, <1>4
  <2> QED
    BY <1>1, <1>4, <2>1 DEF RP!SessionsKept
<1>5. ASSUME NEW a \in Avds, stop'[a].session = stop[a].session,
             stop'[a].pc = "killed" => stop[a].pc = "killed" \/ EngineExits(a)
      PROVE  StopIsTrue(a)'
  <2>1. stop'[a].session <= next_session_id'
    BY <1>1, <1>2, <1>3, <1>5 DEF StopIsTrue
  <2>2. ASSUME stop'[a].pc = "killed", stop[a].session \in DOMAIN sessions'
        PROVE  sessions'[stop[a].session].instance \notin engines'
    <3>1. /\ stop[a].session \in DOMAIN sessions
          /\ sessions'[stop[a].session].instance = sessions[stop[a].session].instance
      BY <1>1, <1>3, <1>4, <2>2 DEF StopIsTrue
    <3>2. CASE EngineExits(a)
      BY <3>1, <3>2, ExitGoes
    <3>3. CASE stop[a].pc = "killed"
      BY <1>1, <3>1, <3>3, GoneStaysGone DEF StopIsTrue
    <3> QED
      BY <1>5, <2>2, <3>2, <3>3
  <2> QED
    BY <1>5, <2>1, <2>2 DEF StopIsTrue
<1>6. ASSUME NEW a \in Avds, StopStep(a)
      PROVE  StopIsTrue(a)'
  <2>1. StopSteps(a)
    BY StopEffects
  <2>2. CASE BeginStop(a)
    <3>1. a \in DOMAIN by_avd
      BY <2>2, Zenon DEF BeginStop, Reg!BeginStop
    <3>2. by_avd[a] \in Int /\ by_avd[a] <= next_session_id
      BY <1>1, <1>2, <3>1 DEF RegistryFacts
    <3> QED
      BY <1>2, <2>1, <2>2, <3>2 DEF StopSteps, StopsAt, StopIsTrue
  <2>3. CASE stop'[a].session = 0 /\ stop'[a].pc = "idle"
    BY <1>2, <2>3 DEF StopIsTrue
  <2>4. CASE ~BeginStop(a) /\ ~(stop'[a].session = 0 /\ stop'[a].pc = "idle")
    <3>1. /\ stop'[a].session = stop[a].session
          /\ stop'[a].pc = "killed" => EngineExits(a)
      BY <1>6, <2>1, <2>4 DEF StopStep, StopSteps, StopsAt
    <3> QED
      BY <1>5, <3>1
  <2> QED
    BY <2>2, <2>3, <2>4
<1>7. ASSUME NEW a \in Avds, StopStep(a), NEW b \in Avds \ {a}
      PROVE  stop'[b] = stop[b]
  BY <1>7, StopEffects DEF StopStep, StopSteps, StopsAt
<1>8. (\E a \in Avds : StopStep(a)) \/ stop' = stop
  BY StartFrames, ScanFrames DEF Next, ExternalStart, Crash, runtimeVars
<1> QED
  BY <1>5, <1>6, <1>7, <1>8 DEF StoppedEnginesAreGone

\* The SDK of an engine is known from its start on.
LEMMA RootsKept ==
  ASSUME RuntimeInv, [Next]_runtimeVars
  PROVE  RootsAreKnown'
<1>1. RootsAreKnown /\ spawned \in Int
  BY EngineAssumption DEF RuntimeInv, TaskTypes
<1>2. ASSUME NEW a, NEW port, Spawn(a, port)
      PROVE  RootsAreKnown'
  <2>1. PICK root \in Sdks : roots' = Append(roots, root)
    BY <1>2 DEF Spawn
  <2>2. spawned' = spawned + 1
    BY <1>2 DEF Spawn
  <2> QED
    BY <1>1, <2>1, <2>2 DEF RootsAreKnown
<1>3. ASSUME UNCHANGED <<spawned, roots>>
      PROVE  RootsAreKnown'
  BY <1>1, <1>3 DEF RootsAreKnown
<1>4. ASSUME EnginesStay
      PROVE  RootsAreKnown'
  BY <1>3, <1>4 DEF EnginesStay, engineVars
<1>5. ASSUME NEW a \in Avds, StartStep(a)
      PROVE  RootsAreKnown'
  <2>1. Launch(a) \/ CleanUp(a) \/ EnginesStay
    BY <1>5, StartOnEngines DEF StartEngines
  <2>2. Launch(a) => Spawn(a, start[a].port)
    BY Zenon DEF Launch
  <2>3. CleanUp(a) => UNCHANGED <<spawned, roots>>
    BY DEF CleanUp
  <2> QED
    BY <1>2, <1>3, <1>4, <2>1, <2>2, <2>3
<1>6. ASSUME NEW a \in Avds, StopStep(a)
      PROVE  RootsAreKnown'
  <2>1. EngineExits(a) => UNCHANGED <<spawned, roots>>
    BY DEF EngineExits
  <2> QED
    BY <1>3, <1>4, <1>6, <2>1, StopOnEngines
<1>7. ASSUME NEW a \in Avds, ExternalStart(a)
      PROVE  RootsAreKnown'
  BY <1>2, <1>7 DEF ExternalStart
<1>8. ASSUME NEW o \in engines, Crash(o)
      PROVE  RootsAreKnown'
  BY <1>3, <1>8 DEF Crash
<1>9. ASSUME UNCHANGED runtimeVars
      PROVE  EnginesStay
  BY <1>9 DEF runtimeVars, EnginesStay
<1> QED
  BY <1>4, <1>5, <1>6, <1>7, <1>8, <1>9, ScanOnEngines DEF Next

-----------------------------------------------------------------------------
(* The runtime keeps its invariant.                                         *)

LEMMA InitRuntimeInv == Init => RuntimeInv
<1> SUFFICES ASSUME Init PROVE RuntimeInv
  OBVIOUS
<1>1. /\ Reg!Init /\ Sched!Init
      /\ reserved = {} /\ leases = [i \in {} |-> 0] /\ workspace = {}
      /\ start = [a \in Avds |-> IdleStart] /\ stop = [a \in Avds |-> IdleStop]
      /\ scan = [s \in Scanners |-> IdleScan]
      /\ engines = {} /\ spawned = 0 /\ managed = {} /\ roots = <<>>
  BY Zenon DEF Init
<1>2. RP!Inv
  BY <1>1, RegistryInit, ComponentAssumptions, RP!InitInv
<1>3. SchedInv
  BY <1>1, SchedulerInit, ComponentAssumptions, SP!InitQueueInv, SP!InitOneRequest DEF SchedInv
<1>4. RegistryFacts /\ SchedulerFacts
  BY <1>2, <1>3, RegistrySays, SchedulerSays
<1>5. /\ DOMAIN sessions = {} /\ next_id = 0 /\ queue = <<>>
      /\ next_session_id = 0 /\ owner = [i \in Sched!Ids |-> "unborn"]
  BY <1>1 DEF Reg!Init, Sched!Init
<1>6. \A a \in Avds :
        /\ start[a].pc = "idle" /\ start[a].request = 0 /\ start[a].port = NoPort
        /\ start[a].pid = 0 /\ stop[a].pc = "idle" /\ stop[a].session = 0
  BY <1>1 DEF IdleStart, IdleStop
<1>7. \A s \in Scanners : scan[s].observed = {}
  BY <1>1 DEF IdleScan
<1>8. TaskTypes
  <2>1. IdleStart \in StartTasks
    BY RegistryAssumption, SchedulerAssumption, EngineAssumption
       DEF IdleStart, StartTasks, StartPcs
  <2>2. IdleStop \in StopTasks
    BY RegistryAssumption DEF IdleStop, StopTasks, StopPcs
  <2>3. IdleScan \in ScanTasks
    BY DEF IdleScan, ScanTasks, ScanPcs, Observations
  <2>4. engines \in Observations /\ spawned \in 0..MaxEngines /\ managed \subseteq {o.pid : o \in engines}
    BY <1>1, EngineAssumption DEF Observations
  <2> QED
    BY <1>1, <2>1, <2>2, <2>3, <2>4 DEF TaskTypes
<1>9. CommandsAreHeld
  BY <1>6 DEF CommandsAreHeld, HoldsCommands, HoldsCommand
<1>10. DevicesAreOwned
  BY <1>6 DEF DevicesAreOwned, OwnsDevice, HoldsCommand, HasPort
<1>11. Holders = {} /\ TaskRequests = {} /\ TaskPorts = {} /\ LeaseRequests = {} /\ LeasePorts = {}
  BY <1>1, <1>6 DEF Holders, TaskRequests, TaskPorts, LeaseRequests, LeasePorts
<1>12. RequestsAreHeld
  <2>1. \A a \in Avds : HoldsRequest(a)
    BY <1>5, <1>6 DEF HoldsRequest, Ticketed, Permitted
  <2>2. Sched!QueueEntries = {}
    BY <1>5 DEF Sched!QueueEntries
  <2> QED
    BY <1>6, <2>1, <2>2 DEF RequestsAreHeld
<1>13. SessionsOwn
  BY <1>1, <1>5 DEF SessionsOwn, Managed
<1>14. PortsAreHeld
  BY <1>1, <1>6, <1>11 DEF PortsAreHeld, Holders
<1>15. PidsAreNew /\ StoppedEnginesAreGone /\ RootsAreKnown
  BY <1>1, <1>5, <1>6, <1>7
     DEF PidsAreNew, KnowsPid, Launched, StoppedEnginesAreGone, StopIsTrue, RootsAreKnown
<1> QED
  BY <1>2, <1>3, <1>8, <1>9, <1>10, <1>12, <1>13, <1>14, <1>15 DEF RuntimeInv

LEMMA StepRuntimeInv ==
  ASSUME RuntimeInv, [Next]_runtimeVars
  PROVE  RuntimeInv'
<1>1. RP!Inv' /\ SchedInv'
  BY RegistryKept, SchedulerKept
<1>2. TaskTypes' /\ CommandsAreHeld' /\ DevicesAreOwned' /\ RequestsAreHeld'
  BY TasksKept, CommandsKept, DevicesKept, RequestsKept
<1>3. SessionsOwn' /\ PortsAreHeld' /\ PidsAreNew' /\ StoppedEnginesAreGone' /\ RootsAreKnown'
  BY SessionsOwnKept, PortsKept, PidsKept, StoppedKept, RootsKept
<1> QED
  BY <1>1, <1>2, <1>3 DEF RuntimeInv

LEMMA RuntimeInvariant == Spec => []RuntimeInv
<1>1. RuntimeInv /\ [Next]_runtimeVars => RuntimeInv'
  BY StepRuntimeInv
<1> QED
  BY <1>1, InitRuntimeInv, PTL DEF Spec

-----------------------------------------------------------------------------
(* What the invariant says of the properties the runs check.                *)

LEMMA RuntimeTypes == RuntimeInv => RuntimeTypeOK
<1> SUFFICES ASSUME RuntimeInv PROVE RuntimeTypeOK
  OBVIOUS
<1>1. Reg!TypeOK
  <2>1. RP!TypeOK
    BY DEF RuntimeInv, RP!Inv
  <2> QED
    BY <2>1
       DEF RP!TypeOK, Reg!TypeOK, RP!Generations, Reg!Generations, RP!DeviceStates,
           Reg!DeviceStates, RP!Phases, Reg!Phases, RP!Claimed, Reg!Claimed, RP!Attached,
           Reg!Attached, RP!Recovering, Reg!Recovering, RP!Sessions, Reg!Sessions, RP!Origins,
           Reg!Origins, RP!Instances, Reg!Instances, RP!StartCommands, Reg!StartCommands,
           RP!StopCommands, Reg!StopCommands, RP!SessionIds, Reg!SessionIds
<1>2. Sched!TypeOK
  <2>1. SP!TypeOK
    BY DEF RuntimeInv, SchedInv, SP!QueueInv
  <2> QED
    BY <2>1
       DEF SP!TypeOK, Sched!TypeOK, SP!Ids, Sched!Ids, SP!Entries, Sched!Entries,
           SP!Allocations, Sched!Allocations, SP!OwnerStates, Sched!OwnerStates,
           SP!Statuses, Sched!Statuses, SP!Reasons, Sched!Reasons, SP!ReasonKinds,
           Sched!ReasonKinds
<1>3. RegistryFacts /\ SessionsOwn /\ TaskTypes /\ PortsAreHeld
  BY RegistrySays DEF RuntimeInv
<1>4. DOMAIN leases \subseteq Reg!SessionIds
  <2>1. \A i \in DOMAIN sessions : i \in 1..MaxSessions
    BY <1>3, RegistryAssumption DEF RegistryFacts
  <2> QED
    BY <1>3, <2>1 DEF SessionsOwn, Reg!SessionIds
<1>5. engines \subseteq Reg!Instances
  BY <1>3 DEF TaskTypes, Observations, EngineRecords, Reg!Instances
<1>6. \A a \in Avds : start[a].pc \in StartPcs /\ stop[a].pc \in StopPcs
  BY <1>3 DEF TaskTypes, StartTasks, StopTasks
<1>7. \A s \in Scanners : scan[s].pc \in ScanPcs
  BY <1>3 DEF TaskTypes, ScanTasks
<1>8. RootsAreKnown
  BY DEF RuntimeInv
<1> QED
  BY <1>1, <1>2, <1>3, <1>4, <1>5, <1>6, <1>7, <1>8
     DEF RuntimeTypeOK, SessionsOwn, TaskTypes, PortsAreHeld, RootsAreKnown

\* A request of a task that holds one is allocated to it.
LEMMA HoldersOwn ==
  ASSUME RuntimeInv, NEW a \in Holders, start[a].request # 0
  PROVE  /\ start[a].request \in DOMAIN active
         /\ active[start[a].request].key = a
         /\ start[a].request \notin LeaseRequests
<1>1. a \in Avds /\ start[a].pc \in Permitted \cup Ending \cup {"committing"}
  BY DEF Holders, Permitted, Ending
<1>2. HoldsRequest(a) /\ SchedulerFacts
  BY <1>1, SchedulerSays DEF RuntimeInv, RequestsAreHeld
<1>3. start[a].request \in Sched!Ids
  BY <1>1, RequestOf
<1>4. owner[start[a].request] \in {"permit", "session"} /\ active[start[a].request].key = a
  BY <1>1, <1>2 DEF HoldsRequest
<1>5. start[a].request \notin LeaseRequests
  BY <1>1, LeaseIsNoTasks DEF Permitted, Ending
<1> QED
  BY <1>2, <1>3, <1>4, <1>5 DEF SchedulerFacts

LEMMA RuntimeResources == RuntimeInv => ResourcesOwned
<1> SUFFICES ASSUME RuntimeInv PROVE ResourcesOwned
  OBVIOUS
<1>1. SchedulerFacts /\ SessionsOwn /\ PortsAreHeld
  BY SchedulerSays DEF RuntimeInv
<1>2. DOMAIN leases = {i \in DOMAIN sessions : sessions[i].origin = "Managed"}
  BY <1>1 DEF SessionsOwn, Managed
<1>3. \A i \in DOMAIN leases :
        /\ leases[i].request \in DOMAIN active
        /\ active[leases[i].request].key = sessions[i].instance.avd
        /\ leases[i].port = sessions[i].instance.port
  BY <1>1 DEF SessionsOwn, SchedulerFacts
<1>4. DOMAIN active \subseteq TaskRequests \cup LeaseRequests
  BY <1>1 DEF SessionsOwn, SchedulerFacts
<1>5. TaskRequests \subseteq DOMAIN active /\ TaskRequests \cap LeaseRequests = {}
  BY HoldersOwn DEF TaskRequests
<1>6. LeaseRequests \subseteq DOMAIN active
  BY <1>3 DEF LeaseRequests
<1> QED
  BY <1>1, <1>2, <1>3, <1>4, <1>5, <1>6 DEF ResourcesOwned, PortsAreHeld

LEMMA RuntimeResourcesNext == RuntimeInv' => ResourcesOwned'
BY RuntimeResources, PTL

\* A session that leaves is one whose engine is gone, or was looked for under
\* another SDK.
LEMMA SessionsLeaveLast ==
  ASSUME RuntimeInv, RuntimeInv', [Next]_runtimeVars, NEW i \in DOMAIN sessions \ DOMAIN sessions'
  PROVE  sessions[i].instance \notin engines \/ ScannedFromAnotherSdk(sessions[i].instance)
<1>1. ASSUME NEW a \in Avds, Commit(a)
      PROVE  FALSE
  BY <1>1, CommitAdds DEF SessionAdded
<1>2. ASSUME NEW a \in Avds, CompleteStop(a)
      PROVE  sessions[i].instance \notin engines
  <2>1. stop[a].pc = "killed"
    BY <1>2, Zenon DEF CompleteStop, StopAt
  <2>2. SessionsLeave({stop[a].session})
    BY <1>2, CompleteStopLeaves
  <2>3. i = stop[a].session
    BY <2>2 DEF SessionsLeave
  <2> QED
    BY <2>1, <2>3 DEF RuntimeInv, StoppedEnginesAreGone, StopIsTrue
<1>3. ASSUME NEW s \in Scanners, Merge(s)
      PROVE  sessions[i].instance \notin engines \/ ScannedFromAnotherSdk(sessions[i].instance)
  <2> DEFINE o == sessions[i].instance
  <2>1. SessionsLeave(ExitedSessions(scan[s].observed, scan[s].sdk))
    BY <1>3, MergeLeaves
  <2>2. i \in ExitedSessions(scan[s].observed, scan[s].sdk)
    BY <2>1 DEF SessionsLeave
  <2>3. o \notin OfSdk(scan[s].sdk)
    BY <1>3, <2>2, MergeLeaves
  <2>4. scan[s].pc = "read" /\ scan'[s].pc = "merged"
    <3>1. scan[s].pc = "read"
      BY <1>3, Zenon DEF Merge
    <3>2. ScanSteps(s)
      BY ScanEffects DEF RuntimeInv
    <3> QED
      BY <1>3, <3>1, <3>2 DEF ScanSteps, ScansAt
  <2> HIDE DEF o
  <2>5. o \notin engines \/ roots[o.pid] # scan[s].sdk
    BY <2>3 DEF OfSdk
  <2> QED
    BY <2>4, <2>5 DEF ScannedFromAnotherSdk, o
<1> QED
  BY <1>1, <1>2, <1>3, StartOnSessions, StopOnSessions, ScanOnSessions
     DEF Next, ExternalStart, Crash, runtimeVars, regVars, SessionsStay

\* Only a launch makes an engine liteavd's.
LEMMA LaunchManages ==
  ASSUME RuntimeInv, [Next]_runtimeVars, NEW pid \in managed' \ managed
  PROVE  \E a \in Avds : Launch(a) /\ StartStep(a) /\ pid = spawned + 1
<1>1. ASSUME EnginesGo \/ EnginesStay
      PROVE  FALSE
  BY <1>1 DEF EnginesGo, EnginesStay, engineVars
<1>2. ASSUME NEW a \in Avds, StartStep(a)
      PROVE  Launch(a) /\ pid = spawned + 1
  BY <1>1, <1>2, StartOnEngines DEF StartEngines
<1>3. ASSUME NEW a \in Avds, ExternalStart(a)
      PROVE  FALSE
  BY <1>3, ExternalStartStarts
<1>4. ASSUME UNCHANGED runtimeVars
      PROVE  FALSE
  BY <1>1, <1>4 DEF runtimeVars, EnginesStay
<1> QED
  BY <1>1, <1>2, <1>3, <1>4, StopOnEngines, ScanOnEngines, CrashGoes DEF Next

\* A new engine of liteavd's is charged to the start that launched it.
LEMMA LaunchIsCharged ==
  ASSUME RuntimeInv, RuntimeInv', [Next]_runtimeVars,
         NEW o \in engines' \ engines, o.pid \in managed'
  PROVE  Charged(o)'
<1>1. EnginesChange /\ PidsAreNew /\ managed \subseteq {e.pid : e \in engines}
      /\ \A e \in engines : e.pid \in Int
  BY EnginesStep, EngineAssumption
     DEF RuntimeInv, TaskTypes, Observations, EngineRecords, Pids
<1>2. o.pid = spawned + 1 /\ \A e \in engines : e.pid # spawned + 1
  BY <1>1 DEF EnginesChange, PidsAreNew
<1>3. o.pid \in managed' \ managed
  BY <1>1, <1>2
<1>4. PICK a \in Avds : Launch(a) /\ StartStep(a) /\ o.pid = spawned + 1
  BY <1>3, LaunchManages
<1>5. start'[a].pid = o.pid /\ start'[a].pc \in Launched
  BY <1>4, LaunchedSteps
<1>6. a \in Holders'
  BY <1>5 DEF Holders, Launched
<1>7. start'[a].request # 0
  <2>1. HoldsRequest(a)'
    BY DEF RuntimeInv, RequestsAreHeld
  <2> QED
    BY <1>5, <2>1 DEF HoldsRequest, Launched, Permitted
<1>8. start'[a].request \in DOMAIN active'
  BY <1>6, <1>7, RuntimeResourcesNext DEF ResourcesOwned, TaskRequests
<1> QED
  BY <1>5, <1>6, <1>8 DEF Charged, ChargedTo

\* A start passes the charge on to its session, or gives the engine up.
LEMMA TaskStaysCharged ==
  ASSUME RuntimeInv, RuntimeInv', [Next]_runtimeVars,
         NEW o \in engines, NEW a \in Holders,
         start[a].pid = o.pid, start[a].request \in DOMAIN active
  PROVE  Charged(o)' \/ GivenUp(o)
<1> DEFINE r == start[a].request
<1>1. /\ a \in Avds /\ KnowsPid(a) /\ HoldsRequest(a) /\ OwnsDevice(a)
      /\ SchedulerFacts /\ ResourcesOwned'
  BY SchedulerSays, RuntimeResourcesNext
     DEF Holders, RuntimeInv, PidsAreNew, RequestsAreHeld, DevicesAreOwned
<1>2. r # 0
  BY <1>1 DEF SchedulerFacts
<1>3. start[a].pc \in Launched \cup {"cleaning"}
  <2>1. o.pid # 0
    BY EngineAssumption DEF RuntimeInv, TaskTypes, Observations, EngineRecords, Pids
  <2>2. start[a].pc \in KnowingPid /\ start[a].pc # "refused"
    BY <1>1, <1>2, <2>1 DEF KnowsPid, HoldsRequest
  <2> QED
    BY <2>2 DEF KnowingPid, Holders
<1> HIDE DEF r
<1>4. ASSUME a \in Holders', start'[a].pid = o.pid, start'[a].request = r
      PROVE  Charged(o)'
  <2>1. r \in DOMAIN active'
    BY <1>1, <1>2, <1>4 DEF ResourcesOwned, TaskRequests
  <2> QED
    BY <1>4, <2>1 DEF Charged, ChargedTo
<1>5. CASE start'[a] = start[a]
  BY <1>4, <1>5 DEF Holders, r
<1>6. CASE StartStep(a)
  <2>1. StartSteps(a)
    BY <1>1, StartEffects
  <2>2. CASE Commit(a)
    <3> DEFINE i == next_session_id + 1
    <3>1. SessionAdded(a)
      BY <1>1, <2>2, CommitAdds
    <3>2. start[a].pc = "committing"
      BY <2>2, Zenon DEF Commit, At
    <3>3. o = Engine(a) /\ states[a].console_port = start[a].port
      BY <1>1, <3>2 DEF KnowsPid, OwnsDevice, Launched, HasPort
    <3>4. /\ sessions'[i].instance = [avd |-> a, port |-> states[a].console_port, pid |-> start[a].pid]
          /\ i \in DOMAIN leases' /\ leases'[i].request = r /\ active' = active
      BY <3>1 DEF SessionAdded, r
    <3> HIDE DEF i
    <3>5. sessions'[i].instance = o
      BY <3>3, <3>4 DEF Engine
    <3>6. r \in DOMAIN active'
      BY <3>4 DEF r
    <3> QED
      BY <3>4, <3>5, <3>6 DEF Charged, ChargedTo
  <2>3. CASE CommitRefused(a)
    <3>1. start[a].pc = "committing" /\ start'[a].pc = "refused"
      BY <2>1, <2>3 DEF CommitRefused, At, StartSteps, StartsAt
    <3> QED
      BY <1>1, <3>1 DEF GivenUp
  <2>4. CASE CleanUp(a)
    <3>1. start[a].pc \in {"cleaning", "refused"}
      BY <2>4, Zenon DEF CleanUp, At
    <3>2. start[a].pc = "cleaning" /\ start'[a].pc = "failing"
      BY <1>3, <2>1, <2>4, <3>1 DEF StartSteps, StartsAt, Launched
    <3> QED
      BY <1>1, <3>2 DEF GivenUp
  <2>5. CASE ~Commit(a) /\ ~CommitRefused(a) /\ ~CleanUp(a)
    <3>1. start[a].pc \in Launched
      <4>1. start[a].pc = "cleaning" => CleanUp(a)
        BY <1>6, Zenon
           DEF StartStep, At, BeginStart, Enqueue, EnqueueRefused, CheckTicket, Canceled,
               MarkQueued, Acquire, MarkStarting, ListPorts, ReservePort, PortsExhausted, Launch,
               LaunchFails, MarkBooting, Boots, BootFails, IntoReservation, Commit, CommitRefused,
               FailStart, DropHeld, StartSyncs
      <4> QED
        BY <1>3, <2>5, <4>1
    <3>2. ~DropHeld(a)
      BY <3>1 DEF DropHeld, At, Launched
    <3>3. a \in Holders' /\ start'[a].request = start[a].request
      BY <1>6, <2>5, <3>2, HoldersStay
    <3>4. start'[a].pid = start[a].pid
      <4>1. CASE BootFails(a)
        BY <2>1, <4>1 DEF StartSteps, StartsAt
      <4>2. CASE ~BootFails(a)
        BY <1>1, <1>6, <2>5, <3>1, <4>2, LaunchedSteps
      <4> QED
        BY <4>1, <4>2
    <3> QED
      BY <1>4, <3>3, <3>4 DEF r
  <2> QED
    BY <2>2, <2>3, <2>4, <2>5
<1>7. StartStep(a) \/ start'[a] = start[a]
  <2>1. ASSUME NEW b \in Avds \ {a}, StartStep(b)
        PROVE  start'[a] = start[a]
    BY <1>1, <2>1, StartEffects DEF StartStep, StartSteps, StartsAt
  <2>2. (\E b \in Avds : StartStep(b)) \/ start' = start
    BY StopFrames, ScanFrames DEF Next, ExternalStart, Crash, runtimeVars
  <2> QED
    BY <2>1, <2>2
<1> QED
  BY <1>5, <1>6, <1>7

\* A session keeps the charge until it leaves.
LEMMA SessionStaysCharged ==
  ASSUME RuntimeInv, RuntimeInv', [Next]_runtimeVars,
         NEW o \in engines, NEW i \in DOMAIN leases, sessions[i].instance = o
  PROVE  Charged(o)' \/ ScannedFromAnotherSdk(o)
<1>1. ResourcesOwned /\ ResourcesOwned' /\ RP!SessionsKept
  BY RuntimeResources, RuntimeResourcesNext, RegistryKept
<1>2. i \in DOMAIN sessions /\ sessions[i].origin = "Managed"
  BY <1>1 DEF ResourcesOwned
<1>3. CASE i \in DOMAIN sessions'
  <2>1. sessions'[i].instance = o /\ sessions'[i].origin = "Managed"
    BY <1>1, <1>2, <1>3 DEF RP!SessionsKept
  <2>2. i \in DOMAIN leases' /\ leases'[i].request \in DOMAIN active'
    BY <1>1, <1>3, <2>1 DEF ResourcesOwned
  <2> QED
    BY <2>1, <2>2 DEF Charged, ChargedTo
<1>4. CASE i \notin DOMAIN sessions'
  BY <1>2, <1>4, SessionsLeaveLast
<1> QED
  BY <1>3, <1>4

LEMMA EnginesStayCharged ==
  ASSUME RuntimeInv, RuntimeInv', [Next]_runtimeVars,
         NEW o \in engines', o.pid \in managed', o \in engines => Charged(o)
  PROVE  Charged(o)' \/ GivenUp(o) \/ ScannedFromAnotherSdk(o)
<1>1. CASE o \notin engines
  BY <1>1, LaunchIsCharged
<1>2. CASE o \in engines
  <2>1. PICK r \in DOMAIN active : ChargedTo(o, r)
    BY <1>2 DEF Charged
  <2>2. CASE \E a \in Holders : start[a].pid = o.pid /\ start[a].request = r
    BY <1>2, <2>2, TaskStaysCharged
  <2>3. CASE \E i \in DOMAIN leases : sessions[i].instance = o /\ leases[i].request = r
    BY <1>2, <2>3, SessionStaysCharged
  <2> QED
    BY <2>1, <2>2, <2>3 DEF ChargedTo
<1> QED
  BY <1>1, <1>2

LEMMA LaunchIsCurrent ==
  ASSUME RuntimeInv, [Next]_runtimeVars, NEW pid \in managed' \ managed,
         NEW a \in Avds, start'[a].pid = pid
  PROVE  /\ states[a].phase = "Starting"
         /\ states[a].generation = start[a].generation
         /\ a \notin DOMAIN by_avd
<1>1. PICK b \in Avds : Launch(b) /\ StartStep(b) /\ pid = spawned + 1
  BY LaunchManages
<1>2. a = b
  <2>1. start[a].pid \in Int /\ spawned \in Int /\ start[a].pid <= spawned
    BY EngineAssumption DEF RuntimeInv, TaskTypes, StartTasks, PidsAreNew, KnowsPid
  <2>2. start[a].pid # pid
    BY <1>1, <2>1
  <2>3. a # b => start'[a] = start[a]
    BY <1>1, StartEffects DEF StartSteps, StartsAt
  <2> QED
    BY <2>2, <2>3
<1>3. start[a].pc = "reserved"
  BY <1>1, <1>2, Zenon DEF Launch, At
<1>4. RegistryFacts /\ OwnsDevice(a)
  BY RegistrySays DEF RuntimeInv, DevicesAreOwned
<1>5. states[a].phase = "Starting" /\ states[a].generation = start[a].generation
  BY <1>3, <1>4 DEF OwnsDevice, HoldsCommand, PhasesAt
<1> QED
  BY <1>4, <1>5 DEF RegistryFacts

-----------------------------------------------------------------------------
(* The theorems.                                                            *)

\* Every console port and every allocation of the scheduler has one owner, a
\* start task or a managed session, and a session owns its own until it leaves
\* the registry (SessionResources, complete_scheduled_start, core/instance.rs).
THEOREM RuntimeIsSoundCorrect == Spec => []RuntimeIsSound
<1>1. RuntimeInv => RuntimeIsSound
  BY RuntimeTypes, RuntimeResources DEF RuntimeIsSound
<1> QED
  BY <1>1, RuntimeInvariant, PTL

\* An engine liteavd starts is charged to its start or its session from its
\* launch on, and loses that charge only in the step in which complete_start
\* refuses it, in which a failed start is done with a clean-up, or in a scan
\* under another SDK (complete_scheduled_start, core/instance.rs; start_device,
\* ui/device_list.rs).
THEOREM ManagedEnginesCountedCorrect == Spec => ManagedEnginesCounted
<1> DEFINE A == \A o \in engines' :
                  /\ o.pid \in managed'
                  /\ o \in engines => Charged(o)
                  => Charged(o)' \/ GivenUp(o) \/ ScannedFromAnotherSdk(o)
<1>1. RuntimeInv /\ RuntimeInv' /\ [Next]_runtimeVars => [A]_runtimeVars
  BY EnginesStayCharged
<1>2. Spec => [][A]_runtimeVars
  BY <1>1, RuntimeInvariant, PTL DEF Spec
<1> QED
  BY <1>2 DEF ManagedEnginesCounted

\* complete_stop and reconcile_running_with_probe forget a session only when
\* its engine is gone, or when the scan is about another SDK than the engine's.
THEOREM SessionsOutliveEnginesCorrect == Spec => SessionsOutliveEngines
<1> DEFINE A == \A i \in DOMAIN sessions \ DOMAIN sessions' :
                  LET o == sessions[i].instance
                  IN  o \notin engines \/ ScannedFromAnotherSdk(o)
<1>1. RuntimeInv /\ RuntimeInv' /\ [Next]_runtimeVars => [A]_runtimeVars
  BY SessionsLeaveLast
<1>2. Spec => [][A]_runtimeVars
  BY <1>1, RuntimeInvariant, PTL DEF Spec
<1> QED
  BY <1>2 DEF SessionsOutliveEngines

\* start_device launches an engine only for a start that still owns its
\* device, whatever was cancelled, scanned or stopped since it began.
THEOREM LaunchesAreCurrentCorrect == Spec => LaunchesAreCurrent
<1> DEFINE A == \A pid \in managed' \ managed : \A a \in Avds :
                  start'[a].pid = pid =>
                    /\ states[a].phase = "Starting"
                    /\ states[a].generation = start[a].generation
                    /\ a \notin DOMAIN by_avd
<1>1. RuntimeInv /\ [Next]_runtimeVars => [A]_runtimeVars
  BY LaunchIsCurrent
<1>2. Spec => [][A]_runtimeVars
  BY <1>1, RuntimeInvariant, PTL DEF Spec
<1> QED
  BY <1>2 DEF LaunchesAreCurrent

\* The runtime implements the registry: every step of a task, a scan or an
\* engine is one operation of InstanceRegistry on a command the registry
\* handed out and nobody has consumed, or leaves the registry alone.  So what
\* is proved of the registry under any callers holds of it here.
THEOREM ImplementsRegistry == Spec => Reg!Spec
<1>1. Init => Reg!Init
  BY DEF Init
<1>2. RuntimeInv /\ [Next]_runtimeVars => [Reg!Next]_Reg!registryVars
  BY StepOnRegistry DEF RegistryStutters
<1> QED
  BY <1>1, <1>2, RuntimeInvariant, PTL DEF Spec, Reg!Spec

\* A start holds its command and owns its device until its last write, unless
\* its request was cancelled, which it finds out before it writes again: so the
\* branches of start_device that handle a stale start command are not taken.
THEOREM StartsOwnTheirDevices == Spec => [](CommandsAreHeld /\ DevicesAreOwned)
<1>1. RuntimeInv => CommandsAreHeld /\ DevicesAreOwned
  BY DEF RuntimeInv
<1> QED
  BY <1>1, RuntimeInvariant, PTL

=============================================================================
