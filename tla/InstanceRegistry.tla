--------------------------- MODULE InstanceRegistry ---------------------------
(***************************************************************************)
(* The session registry of src/src/core/instance.rs (InstanceRegistry) with *)
(* the phase store it owns (DeviceStateStore, src/src/core/device_state.rs).*)
(*                                                                          *)
(* DeviceRuntime keeps the registry under one mutex, so every method is one *)
(* action.  A method that returns an error changes nothing and has no       *)
(* action; its guard is the condition under which it returns Ok.  The       *)
(* callers are the most general ones: any command handed out and not yet    *)
(* consumed may be used next, in any order, and a scan may report any set   *)
(* of instances, any answer of the process probe and of the recovery.       *)
(*                                                                          *)
(* Left out: the text of Queued and Error, the instance fields other than   *)
(* the identity reconcile compares (AVD, console port, pid), and the        *)
(* wrap-around of the u64 counters (MaxGeneration, MaxSessions bound them). *)
(* A state absent from the map reads as Stopped with generation 0, which no *)
(* command carries.                                                         *)
(***************************************************************************)
EXTENDS Integers, FiniteSets

CONSTANTS
  Avds,           \* AVD names
  Ports,          \* console ports
  NoPort,         \* console_port: None
  Pids,           \* engine process ids
  MaxGeneration,  \* bound: generations handed out in one behaviour
  MaxSessions     \* bound: session ids handed out in one behaviour

ASSUME AvdAssumption == IsFiniteSet(Avds)
ASSUME PortAssumption == IsFiniteSet(Ports) /\ Ports \subseteq Nat /\ NoPort \notin Ports
ASSUME CounterAssumption == MaxGeneration \in Nat /\ MaxSessions \in Nat

VARIABLES
  states,           \* DeviceStateStore::states
  next_generation,  \* DeviceStateStore::next_generation
  sessions,         \* InstanceRegistry::sessions
  by_avd,           \* InstanceRegistry::by_avd
  by_port,          \* InstanceRegistry::by_port
  next_session_id,  \* InstanceRegistry::next_session_id
  starts,           \* the StartCommands some worker still holds
  stops             \* the StopCommands some worker still holds

commandVars == <<starts, stops>>
sessionVars == <<sessions, by_avd, by_port, next_session_id>>
stateVars == <<states, next_generation>>
registryVars == <<stateVars, sessionVars, commandVars>>

Claimed == {"Queued", "Starting", "Booting"}  \* a start command owns the AVD
Recovering == {"AdvertisementMissing", "ControlDisconnected"}
Attached == {"Running", "Stopping"} \cup Recovering
Phases == {"Stopped", "Error"} \cup Claimed \cup Attached

Generations == 0..MaxGeneration
SessionIds == 1..MaxSessions
DeviceStates ==
  [generation : Generations, phase : Phases, console_port : Ports \cup {NoPort}]
Instances == [avd : Avds, port : Ports, pid : Pids]
Origins == {"Managed", "Recovered", "Adopted"}
Sessions == [generation : Generations, origin : Origins, instance : Instances]
StartCommands == [avd : Avds, generation : Generations]
StopCommands == [avd : Avds, generation : Generations, session : SessionIds]

AllowsStart(phase) == phase \in {"Stopped", "Error"}

Without(f, S) == [x \in DOMAIN f \ S |-> f[x]]
With(f, x, y) == [z \in DOMAIN f \cup {x} |-> IF z = x THEN y ELSE f[z]]

-----------------------------------------------------------------------------
(* DeviceStateStore.                                                        *)

State(generation, phase, port) ==
  [generation |-> generation, phase |-> phase, console_port |-> port]

(* The insertions that begin a command or force a phase: a fresh generation *)
(* makes every command handed out before it stale.                          *)
Renew(a, phase, port) ==
  /\ next_generation < MaxGeneration
  /\ next_generation' = next_generation + 1
  /\ states' = [states EXCEPT ![a] = State(next_generation + 1, phase, port)]

(* A cancel that forgets the fresh generation.                              *)
StopInPlace(a) ==
  /\ states' = [states EXCEPT ![a].phase = "Stopped", ![a].console_port = NoPort]
  /\ UNCHANGED next_generation

ForceStopped(a) == Renew(a, "Stopped", NoPort)

IsCurrent(a, generation) == states[a].generation = generation

Updated(state, phase) ==
  State(state.generation, phase,
        IF phase = "Stopped" THEN NoPort ELSE state.console_port)

UpdateAnyGeneration(a, generation, phase) ==
  /\ states' = [states EXCEPT ![a] = Updated(states[a], phase)]
  /\ UNCHANGED next_generation

(* update: refused unless the generation is the current one.                *)
Update(a, generation, phase) ==
  /\ IsCurrent(a, generation)
  /\ states' = [states EXCEPT ![a] = Updated(states[a], phase)]
  /\ UNCHANGED next_generation

(* A merge that does not preserve the recovering phases.                    *)
ReconcileScanRecovering(a, port) ==
  IF states[a].phase \notin {"Stopped", "Running"} \cup Recovering THEN states[a]
  ELSE IF port = NoPort THEN State(states[a].generation, "Stopped", NoPort)
  ELSE State(states[a].generation, "Running", port)

(* reconcile_scan for the port of the AVD's session (NoPort for none).      *)
ReconcileScan(a, port) ==
  IF states[a].phase \notin {"Stopped", "Running"} THEN states[a]
  ELSE IF port = NoPort THEN State(states[a].generation, "Stopped", NoPort)
  ELSE State(states[a].generation, "Running", port)

-----------------------------------------------------------------------------
(* The registry.                                                            *)

Init ==
  /\ states = [a \in Avds |-> State(0, "Stopped", NoPort)]
  /\ next_generation = 0
  /\ sessions = [i \in {} |-> 0]
  /\ by_avd = [a \in {} |-> 0]
  /\ by_port = [p \in {} |-> 0]
  /\ next_session_id = 0
  /\ starts = {}
  /\ stops = {}

(* begin_start refuses an AVD that has a session or a start under way.      *)
MayStart(a) == a \notin DOMAIN by_avd /\ AllowsStart(states[a].phase)

BeginStart(a) ==
  /\ MayStart(a)
  /\ Renew(a, "Starting", NoPort)
  /\ starts' = starts \cup {[avd |-> a, generation |-> next_generation + 1]}
  /\ UNCHANGED <<sessionVars, stops>>

(* mark_queued, mark_starting and mark_booting.                             *)
MarkStart(c, phase) ==
  /\ Update(c.avd, c.generation, phase)
  /\ UNCHANGED <<sessionVars, commandVars>>

AttachStartPort(c, port) ==
  /\ IsCurrent(c.avd, c.generation)
  /\ states' = [states EXCEPT ![c.avd].console_port = port]
  /\ UNCHANGED <<next_generation, sessionVars, commandVars>>

CancelQueued(a) ==
  /\ states[a].phase = "Queued"
  /\ ForceStopped(a)
  /\ UNCHANGED <<sessionVars, commandVars>>

(* complete_start_with_resources.  The engine was launched on the attached  *)
(* port; the code checks that, and that nobody took the AVD or the port.    *)
IndexesFree(c) ==
  /\ c.avd \notin DOMAIN by_avd
  /\ states[c.avd].console_port \notin DOMAIN by_port

AddSession(id, session) ==
  /\ sessions' = With(sessions, id, session)
  /\ by_avd' = With(by_avd, session.instance.avd, id)
  /\ by_port' = With(by_port, session.instance.port, id)
  /\ next_session_id' = id

CompleteStart(c, pid) ==
  /\ states[c.avd].console_port # NoPort
  /\ IndexesFree(c)
  /\ next_session_id < MaxSessions
  /\ Update(c.avd, c.generation, "Running")
  /\ AddSession(next_session_id + 1,
                [generation |-> c.generation, origin |-> "Managed",
                 instance |-> [avd |-> c.avd, pid |-> pid,
                               port |-> states[c.avd].console_port]])
  /\ starts' = starts \ {c}
  /\ UNCHANGED stops

FailStart(c) ==
  /\ IsCurrent(c.avd, c.generation)
  /\ states' = [states EXCEPT ![c.avd] = State(c.generation, "Error", NoPort)]
  /\ starts' = starts \ {c}
  /\ UNCHANGED <<next_generation, sessionVars, stops>>

(* A worker gives its command up: it was told the command is stale, or      *)
(* schedule_start returned the scheduler's error.                           *)
DropStart(c) ==
  /\ starts' = starts \ {c}
  /\ UNCHANGED <<stateVars, sessionVars, stops>>

(* begin_stop asks only for a session, whatever the phase.                  *)
BeginStop(a) ==
  /\ a \in DOMAIN by_avd
  /\ Renew(a, "Stopping", sessions[by_avd[a]].instance.port)
  /\ stops' = stops \cup {[avd |-> a, generation |-> next_generation + 1,
                           session |-> by_avd[a]]}
  /\ UNCHANGED <<sessionVars, starts>>

(* verify_stop_command.                                                     *)
StopIsCurrent(c) ==
  /\ IsCurrent(c.avd, c.generation)
  /\ c.avd \in DOMAIN by_avd
  /\ by_avd[c.avd] = c.session
  /\ c.session \in DOMAIN sessions

RemoveSessionKeepPort(i) ==
  /\ sessions' = Without(sessions, {i})
  /\ by_avd' = Without(by_avd, {sessions[i].instance.avd})
  /\ UNCHANGED <<by_port, next_session_id>>

RemoveSession(i) ==
  /\ sessions' = Without(sessions, {i})
  /\ by_avd' = Without(by_avd, {sessions[i].instance.avd})
  /\ by_port' = Without(by_port, {sessions[i].instance.port})
  /\ UNCHANGED next_session_id

CompleteStop(c) ==
  /\ StopIsCurrent(c)
  /\ RemoveSession(c.session)
  /\ Update(c.avd, c.generation, "Stopped")
  /\ stops' = stops \ {c}
  /\ UNCHANGED starts

(* fail_stop keeps the session, so that the stop can be tried again.        *)
FailStop(c) ==
  /\ StopIsCurrent(c)
  /\ states' = [states EXCEPT ![c.avd] =
       State(c.generation, "Error", sessions[c.session].instance.port)]
  /\ stops' = stops \ {c}
  /\ UNCHANGED <<next_generation, sessionVars, starts>>

DropStop(c) ==
  /\ ~StopIsCurrent(c)
  /\ stops' = stops \ {c}
  /\ UNCHANGED <<stateVars, sessionVars, starts>>

-----------------------------------------------------------------------------
(* reconcile_running_with_probe: one scan of the advertisement files.       *)

(* Consecutive numbers for the members of a set, in ascending order.        *)
Rank(S, n) == Cardinality({m \in S : m <= n})

AvdsOf(I) == {sessions[i].instance.avd : i \in I}
PortsOf(I) == {sessions[i].instance.port : i \in I}
AvdsIn(instances) == {o.avd : o \in instances}
PortsIn(instances) == {o.port : o \in instances}

(* First pass.  A session is matched by its whole identity; one that is not *)
(* advertised and whose process is gone is removed.                         *)
Missing(observed) == {i \in DOMAIN sessions : sessions[i].instance \notin observed}
Exited(observed, alive) == {i \in Missing(observed) : sessions[i].instance \notin alive}

ExitPhase(i) ==
  IF states[sessions[i].instance.avd].phase = "Stopping" \/ sessions[i].origin = "Adopted"
  THEN "Stopped" ELSE "Error"

(* Second pass, in port order: of two instances of one AVD the lower port   *)
(* is adopted; an AVD with a session or with a start under way is left.     *)
AlwaysClaimable(a) == a \in Avds
Claimable(a) == states[a].phase \notin Claimed

MayAdopt(o, exited) ==
  /\ o.port \notin DOMAIN by_port \ PortsOf(exited)
  /\ o.avd \notin DOMAIN by_avd \ AvdsOf(exited)
  /\ o.avd \in AvdsOf(exited) \/ Claimable(o.avd)

Adopted(observed, exited) ==
  {o \in observed :
    /\ MayAdopt(o, exited)
    /\ \A p \in observed : p.avd = o.avd /\ p.port < o.port => ~MayAdopt(p, exited)}

Seen(i, observed) == sessions[i].instance \in observed

(* What the two passes write to the phase of an AVD whose session stays.    *)
ScanPhase(i, observed) ==
  LET phase == states[sessions[i].instance.avd].phase
  IN IF ~Seen(i, observed) /\ phase \in {"Running"} \cup Recovering
       THEN "AdvertisementMissing"
     ELSE IF Seen(i, observed) /\ phase = "AdvertisementMissing" THEN "Running"
     ELSE phase

ScannedState(a, observed, exited, adopted) ==
  LET new == {o \in adopted : o.avd = a}
      lost == {i \in exited : sessions[i].instance.avd = a}
      kept == {i \in DOMAIN sessions \ exited :
                /\ sessions[i].instance.avd = a
                /\ IsCurrent(a, sessions[i].generation)}
  IN IF new # {}
       THEN LET o == CHOOSE x \in new : TRUE
            IN State(next_generation + Cardinality(exited) + Rank(PortsIn(adopted), o.port),
                     "Running", o.port)
     ELSE IF lost # {}
       THEN LET i == CHOOSE x \in lost : TRUE
            IN State(next_generation + Rank(exited, i), ExitPhase(i), NoPort)
     ELSE IF kept # {}
       THEN Updated(states[a], ScanPhase(CHOOSE x \in kept : TRUE, observed))
     ELSE states[a]

AdoptedIdBeforeIncrement(o, adopted) ==
  next_session_id + Rank(PortsIn(adopted), o.port) - 1
AdoptedId(o, adopted) == next_session_id + Rank(PortsIn(adopted), o.port)

AdoptedSession(o, state, recovered) ==
  [generation |-> state.generation, instance |-> o,
   origin |-> IF o \in recovered THEN "Recovered" ELSE "Adopted"]

(* Refreshing by port alone hands the old session to the new process.       *)
KeptSessionByPort(s, observed, recovered) ==
  IF s.instance.port \in PortsIn(observed)
  THEN [s EXCEPT !.instance =
          CHOOSE o \in observed : o.port = s.instance.port]
  ELSE s

KeptSession(s, observed, recovered) ==
  IF s.origin = "Adopted" /\ s.instance \in observed \cap recovered
  THEN [s EXCEPT !.origin = "Recovered"] ELSE s

ReconcileRunning(observed, alive, recovered) ==
  LET exited == Exited(observed, alive)
      adopted == Adopted(observed, exited)
      kept == DOMAIN sessions \ exited
      ids == {AdoptedId(o, adopted) : o \in adopted}
      ById(i) == CHOOSE o \in adopted : AdoptedId(o, adopted) = i
      ByAvd(a) == CHOOSE o \in adopted : o.avd = a
      ByPort(p) == CHOOSE o \in adopted : o.port = p
      generations == next_generation + Cardinality(exited) + Cardinality(adopted)
      lastId == next_session_id + Cardinality(adopted)
  IN /\ generations <= MaxGeneration
     /\ lastId <= MaxSessions
     /\ next_generation' = generations
     /\ next_session_id' = lastId
     /\ states' = [a \in Avds |-> ScannedState(a, observed, exited, adopted)]
     /\ sessions' = [i \in kept \cup ids |->
          IF i \in ids THEN AdoptedSession(ById(i), states'[ById(i).avd], recovered)
          ELSE KeptSession(sessions[i], observed, recovered)]
     /\ by_avd' = [a \in (DOMAIN by_avd \ AvdsOf(exited)) \cup AvdsIn(adopted) |->
          IF a \in AvdsIn(adopted) THEN AdoptedId(ByAvd(a), adopted) ELSE by_avd[a]]
     /\ by_port' = [p \in (DOMAIN by_port \ PortsOf(exited)) \cup PortsIn(adopted) |->
          IF p \in PortsIn(adopted) THEN AdoptedId(ByPort(p), adopted) ELSE by_port[p]]
     /\ UNCHANGED commandVars

-----------------------------------------------------------------------------
(* Routes: the identity under which the rest of the program holds a session.*)

RouteOf(i) == [avd |-> sessions[i].instance.avd, session |-> i,
               generation |-> sessions[i].generation]
Routes == {RouteOf(i) : i \in DOMAIN sessions}
RouteIsCurrent(r) == r \in Routes /\ states[r.avd].phase # "Stopping"

BeginStopRoute(r) == RouteIsCurrent(r) /\ BeginStop(r.avd)

(* report_control_health.                                                   *)
ControlLost(r) ==
  /\ r \in Routes
  /\ states[r.avd].phase = "Running"
  /\ Update(r.avd, r.generation, "ControlDisconnected")
  /\ UNCHANGED <<sessionVars, commandVars>>

ControlBack(r) ==
  /\ r \in Routes
  /\ states[r.avd].phase = "ControlDisconnected"
  /\ Update(r.avd, r.generation, "Running")
  /\ UNCHANGED <<sessionVars, commandVars>>

(* projection: what the device list shows, written back by reconcile_scan.  *)
SessionPort(a) ==
  IF a \in DOMAIN by_avd THEN sessions[by_avd[a]].instance.port ELSE NoPort

Projection(a) ==
  /\ states' = [states EXCEPT ![a] = ReconcileScan(a, SessionPort(a))]
  /\ UNCHANGED <<next_generation, sessionVars, commandVars>>

-----------------------------------------------------------------------------
(* The live engines a scan can see: one process per pid, one engine a port. *)
Scans == {I \in SUBSET Instances :
            \A o, p \in I : o.port = p.port \/ o.pid = p.pid => o = p}

StartStep(c) ==
  \/ \E phase \in Claimed : MarkStart(c, phase)
  \/ \E port \in Ports : AttachStartPort(c, port)
  \/ \E pid \in Pids : CompleteStart(c, pid)
  \/ FailStart(c)
  \/ DropStart(c)

StopStep(c) == CompleteStop(c) \/ FailStop(c) \/ DropStop(c)

Scan ==
  \E observed \in Scans :
    \E alive \in SUBSET {sessions[i].instance : i \in Missing(observed)},
       recovered \in SUBSET observed :
      ReconcileRunning(observed, alive, recovered)

Next ==
  \/ \E a \in Avds : BeginStart(a) \/ CancelQueued(a) \/ BeginStop(a) \/ Projection(a)
  \/ \E c \in starts : StartStep(c)
  \/ \E c \in stops : StopStep(c)
  \/ \E r \in Routes : BeginStopRoute(r) \/ ControlLost(r) \/ ControlBack(r)
  \/ Scan

Spec == Init /\ [][Next]_registryVars

-----------------------------------------------------------------------------
(* The types of the maps and counters of both structs, and of the commands. *)
TypeOK ==
  /\ next_generation \in Generations
  /\ states \in [Avds -> DeviceStates]
  /\ next_session_id \in 0..MaxSessions
  /\ DOMAIN sessions \subseteq 1..next_session_id
  /\ \A i \in DOMAIN sessions : sessions[i] \in Sessions
  /\ DOMAIN by_avd \subseteq Avds
  /\ DOMAIN by_port \subseteq Ports
  /\ starts \subseteq StartCommands
  /\ stops \subseteq StopCommands

(* The three maps of the registry describe the same sessions: each session  *)
(* is found under its AVD name and under its console port, and nothing else *)
(* is (complete_stop and both passes of a scan update all three; begin_stop *)
(* would panic on an AVD that points to no session).                        *)
IndexesAgree ==
  /\ \A i \in DOMAIN sessions :
       /\ sessions[i].instance.avd \in DOMAIN by_avd
       /\ by_avd[sessions[i].instance.avd] = i
       /\ sessions[i].instance.port \in DOMAIN by_port
       /\ by_port[sessions[i].instance.port] = i
  /\ \A a \in DOMAIN by_avd :
       by_avd[a] \in DOMAIN sessions /\ sessions[by_avd[a]].instance.avd = a
  /\ \A p \in DOMAIN by_port :
       by_port[p] \in DOMAIN sessions /\ sessions[by_port[p]].instance.port = p

(* The phase the user sees and the session map agree: a running, recovering *)
(* or stopping device has a session, one being started or stopped has none, *)
(* so no late command leaves a running phase behind without a session, and  *)
(* a stop that failed keeps its session out of the way of a new start.      *)
PhaseMatchesSession ==
  \A a \in Avds :
    /\ states[a].phase \in Attached => a \in DOMAIN by_avd
    /\ states[a].phase \in Claimed \cup {"Stopped"} => a \notin DOMAIN by_avd

(* A running or recovering device carries the generation of its session, so *)
(* that a scan or a control health report, which write with the session's   *)
(* generation, take effect; and a device with a session shows its port.     *)
SessionStateCurrent ==
  \A i \in DOMAIN sessions :
    LET s == states[sessions[i].instance.avd]
    IN /\ s.console_port = sessions[i].instance.port
       /\ s.phase \in {"Running"} \cup Recovering => s.generation = sessions[i].generation
       /\ s.phase = "Stopping" => s.generation > sessions[i].generation

(* The registry as a whole, after every command and every scan.             *)
RegistryIsConsistent == IndexesAgree /\ PhaseMatchesSession /\ SessionStateCurrent

(* Of all the commands workers hold for an AVD at most one is current, and  *)
(* it is the one the phase belongs to: a start while the AVD is claimed, a  *)
(* stop while it is stopping.  Every other late result is refused.          *)
CurrentStarts(a) == {c \in starts : c.avd = a /\ IsCurrent(a, c.generation)}
CurrentStops(a) == {c \in stops : c.avd = a /\ IsCurrent(a, c.generation)}
OneCurrentCommand ==
  \A a \in Avds :
    /\ \A c, d \in CurrentStarts(a) : c = d
    /\ \A c, d \in CurrentStops(a) : c = d
    /\ CurrentStarts(a) # {} => states[a].phase \in Claimed
    /\ CurrentStops(a) # {} => states[a].phase = "Stopping"

(* Showing the device list changes nothing: projection writes the merged    *)
(* state back, and what it writes is always what was there.                 *)
ProjectionIsQuiet ==
  \A a \in Avds : ReconcileScan(a, SessionPort(a)) = states[a]

(* A session stays the session of one process: it is never handed over to   *)
(* another process that reuses its console port, its id is never given to   *)
(* another session, and its origin only improves from adopted to recovered. *)
SessionKeepsIdentity ==
  [][/\ \A i \in DOMAIN sessions \cap DOMAIN sessions' :
         /\ sessions'[i].instance = sessions[i].instance
         /\ sessions'[i].generation = sessions[i].generation
         /\ sessions'[i].origin # sessions[i].origin =>
              sessions[i].origin = "Adopted" /\ sessions'[i].origin = "Recovered"
     /\ \A i \in DOMAIN sessions' \ DOMAIN sessions : i > next_session_id]_registryVars

(* A start under way owns its device: whatever a scan sees (the engine that *)
(* is booting is advertised before complete_start commits it) and whatever  *)
(* other commands do, the start loses the device only to cancel_queued.     *)
StartOwnsDevice ==
  [][\A a \in Avds :
       /\ states[a].phase \in Claimed
       /\ states'[a].generation # states[a].generation
       => states[a].phase = "Queued" /\ states'[a].phase = "Stopped"]_registryVars

(* The result of an older command never changes a device: generations only  *)
(* grow, and the generation of a device that stopped or failed is finished, *)
(* its phase can change only with a new one.                                *)
FinishedGenerationIsFinal ==
  [][\A a \in Avds :
       /\ states'[a].generation >= states[a].generation
       /\ /\ states'[a].generation = states[a].generation
          /\ states[a].phase \in {"Stopped", "Error"}
          => states'[a].phase = states[a].phase]_registryVars
=============================================================================
