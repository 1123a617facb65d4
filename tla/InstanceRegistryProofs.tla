----------------------- MODULE InstanceRegistryProofs -----------------------
(***************************************************************************)
(* Proofs about InstanceRegistry, for every finite set of AVDs and ports,   *)
(* every set of pids and any number of generations and sessions.            *)
(*                                                                          *)
(* RegistryIsConsistent is not inductive: that a command is refused once    *)
(* it is stale needs that every generation in use was handed out by the     *)
(* counter, and that of all commands for an AVD at most one is current.     *)
(***************************************************************************)
EXTENDS InstanceRegistry, FiniteSetTheorems, TLAPS

\* Every generation in use was handed out by the counter.
GenerationsAreIssued ==
  /\ \A a \in Avds : states[a].generation <= next_generation
  /\ \A i \in DOMAIN sessions : sessions[i].generation <= next_generation
  /\ \A c \in starts \cup stops : c.generation <= next_generation

\* What projection shows of a stopped device has no port.
StoppedHasNoPort ==
  \A a \in Avds : states[a].phase = "Stopped" => states[a].console_port = NoPort

Inv ==
  /\ TypeOK
  /\ RegistryIsConsistent
  /\ OneCurrentCommand
  /\ GenerationsAreIssued
  /\ StoppedHasNoPort

-----------------------------------------------------------------------------
(* Ranks: consecutive numbers from one, in ascending order.                 *)

LEMMA RankType ==
  ASSUME NEW S, IsFiniteSet(S), NEW n \in S, S \subseteq Int
  PROVE  Rank(S, n) \in 1 .. Cardinality(S)
<1> DEFINE T == {m \in S : m <= n}
<1>1. IsFiniteSet(T) /\ Cardinality(T) <= Cardinality(S)
  BY FS_Subset
<1>2. Cardinality(T) \in Nat /\ Cardinality(S) \in Nat
  BY <1>1, FS_CardinalityType
<1>3. n \in T
  OBVIOUS
<1>4. Cardinality(T) # 0
  BY <1>1, <1>3, FS_EmptySet
<1> QED
  BY <1>1, <1>2, <1>4 DEF Rank

LEMMA RankOrder ==
  ASSUME NEW S, IsFiniteSet(S), S \subseteq Int, NEW m \in S, NEW n \in S, m < n
  PROVE  Rank(S, m) < Rank(S, n)
<1> DEFINE T == {k \in S : k <= m}
           U == {k \in S : k <= n}
<1>1. IsFiniteSet(U)
  BY FS_Subset
<1>2. T \subseteq U /\ n \in U /\ n \notin T
  <2>1. m \in Int /\ n \in Int
    OBVIOUS
  <2>2. ASSUME NEW k \in S, k <= m PROVE k <= n
    <3>1. k \in Int
      OBVIOUS
    <3> QED
      BY <2>1, <2>2, <3>1
  <2>3. n <= n /\ ~(n <= m)
    BY <2>1
  <2> QED
    BY <2>2, <2>3
<1>3. IsFiniteSet(T) /\ Cardinality(T) <= Cardinality(U) /\ Cardinality(U) # Cardinality(T)
  BY <1>1, <1>2, FS_Subset
<1>4. Cardinality(T) \in Nat /\ Cardinality(U) \in Nat
  BY <1>1, <1>3, FS_CardinalityType
<1> QED
  BY <1>3, <1>4 DEF Rank

LEMMA RankInjective ==
  ASSUME NEW S, IsFiniteSet(S), S \subseteq Int, NEW m \in S, NEW n \in S,
         Rank(S, m) = Rank(S, n)
  PROVE  m = n
<1>1. m \in Int /\ n \in Int
  OBVIOUS
<1>2. Cardinality(S) \in Nat /\ Rank(S, m) \in 1 .. Cardinality(S)
  BY RankType, FS_CardinalityType, Zenon
<1>3. ~(m < n) /\ ~(n < m)
  <2>1. m < n => Rank(S, m) < Rank(S, n)
    BY RankOrder, Zenon
  <2>2. n < m => Rank(S, n) < Rank(S, m)
    BY RankOrder, Zenon
  <2> QED
    BY <1>2, <2>1, <2>2
<1> QED
  BY <1>1, <1>3

-----------------------------------------------------------------------------
(* What a state of Inv says about a device and the commands held for it.    *)

LEMMA SessionOf ==
  ASSUME Inv, NEW a \in DOMAIN by_avd
  PROVE  /\ a \in Avds /\ by_avd[a] \in DOMAIN sessions
         /\ sessions[by_avd[a]] \in Sessions
         /\ sessions[by_avd[a]].instance.avd = a
         /\ sessions[by_avd[a]].instance.port \in Ports
         /\ states[a].console_port = sessions[by_avd[a]].instance.port
BY DEF Inv, TypeOK, RegistryIsConsistent, IndexesAgree, SessionStateCurrent, Sessions, Instances

LEMMA AvdOf ==
  ASSUME Inv, NEW i \in DOMAIN sessions
  PROVE  /\ sessions[i] \in Sessions /\ sessions[i].instance \in Instances
         /\ sessions[i].instance.avd \in DOMAIN by_avd
         /\ by_avd[sessions[i].instance.avd] = i
         /\ sessions[i].instance.port \in DOMAIN by_port
         /\ by_port[sessions[i].instance.port] = i
BY DEF Inv, TypeOK, RegistryIsConsistent, IndexesAgree, Sessions

LEMMA StateType ==
  ASSUME Inv, NEW a \in Avds
  PROVE  /\ states[a] \in DeviceStates /\ states[a].phase \in Phases
         /\ states[a].generation \in Generations
         /\ states[a].console_port \in Ports \cup {NoPort}
BY DEF Inv, TypeOK, DeviceStates

LEMMA CurrentStart ==
  ASSUME Inv, NEW c \in starts, IsCurrent(c.avd, c.generation)
  PROVE  /\ c.avd \in Avds /\ c.generation \in Generations
         /\ states[c.avd].phase \in Claimed
         /\ c.avd \notin DOMAIN by_avd
         /\ \A d \in starts : d.avd = c.avd /\ IsCurrent(c.avd, d.generation) => d = c
         /\ \A d \in stops : d.avd = c.avd => ~IsCurrent(c.avd, d.generation)
<1>1. c.avd \in Avds /\ c.generation \in Generations
  BY DEF Inv, TypeOK, StartCommands
<1>2. c \in CurrentStarts(c.avd)
  BY DEF CurrentStarts
<1>3. states[c.avd].phase \in Claimed /\ \A d \in CurrentStarts(c.avd) : d = c
  BY <1>1, <1>2 DEF Inv, OneCurrentCommand
<1>4. CurrentStops(c.avd) = {}
  BY <1>1, <1>3 DEF Inv, OneCurrentCommand, Claimed
<1> QED
  BY <1>1, <1>3, <1>4 DEF Inv, RegistryIsConsistent, PhaseMatchesSession, CurrentStarts, CurrentStops

LEMMA CurrentStop ==
  ASSUME Inv, NEW c \in stops, IsCurrent(c.avd, c.generation)
  PROVE  /\ c.avd \in Avds /\ c.generation \in Generations
         /\ states[c.avd].phase = "Stopping"
         /\ c.avd \in DOMAIN by_avd
         /\ \A d \in stops : d.avd = c.avd /\ IsCurrent(c.avd, d.generation) => d = c
         /\ \A d \in starts : d.avd = c.avd => ~IsCurrent(c.avd, d.generation)
<1>1. c.avd \in Avds /\ c.generation \in Generations
  BY DEF Inv, TypeOK, StopCommands
<1>2. c \in CurrentStops(c.avd)
  BY DEF CurrentStops
<1>3. states[c.avd].phase = "Stopping" /\ \A d \in CurrentStops(c.avd) : d = c
  BY <1>1, <1>2 DEF Inv, OneCurrentCommand
<1>4. CurrentStarts(c.avd) = {}
  BY <1>1, <1>3 DEF Inv, OneCurrentCommand, Claimed
<1> QED
  BY <1>1, <1>3, <1>4 DEF Inv, RegistryIsConsistent, PhaseMatchesSession, Attached, CurrentStarts, CurrentStops

-----------------------------------------------------------------------------
(* A step that writes one device's state and leaves the sessions alone.     *)

\* What a device's new state must agree with.
Fits(a, s) ==
  /\ s.phase \in Attached => a \in DOMAIN by_avd
  /\ s.phase \in Claimed \cup {"Stopped"} => a \notin DOMAIN by_avd
  /\ s.phase = "Stopped" => s.console_port = NoPort
  /\ a \in DOMAIN by_avd =>
       /\ s.console_port = sessions[by_avd[a]].instance.port
       /\ s.phase \in {"Running"} \cup Recovering
            => s.generation = sessions[by_avd[a]].generation
       /\ s.phase = "Stopping" => s.generation > sessions[by_avd[a]].generation

\* The commands held for the device after the step.
OwnCommands(a, s, St, Sp) ==
  /\ \A c \in St : c.avd = a /\ c.generation = s.generation => s.phase \in Claimed
  /\ \A c \in Sp : c.avd = a /\ c.generation = s.generation => s.phase = "Stopping"
  /\ \A c, d \in Sp : /\ c.avd = a /\ c.generation = s.generation
                       /\ d.avd = a /\ d.generation = s.generation => c = d

LEMMA DeviceChanges ==
  ASSUME Inv, NEW a \in Avds, NEW s \in DeviceStates,
         states' = [states EXCEPT ![a] = s],
         UNCHANGED sessionVars,
         next_generation' \in Generations, next_generation <= next_generation',
         s.generation <= next_generation',
         starts' \subseteq StartCommands, stops' \subseteq StopCommands,
         \A c \in starts' \cup stops' : c.generation <= next_generation',
         \A c \in starts' : c.avd # a => c \in starts,
         \A c \in stops' : c.avd # a => c \in stops,
         Fits(a, s), OwnCommands(a, s, starts', stops')
  PROVE  Inv'
<1>1. /\ states \in [Avds -> DeviceStates] /\ states' \in [Avds -> DeviceStates]
      /\ states'[a] = s /\ \A b \in Avds \ {a} : states'[b] = states[b]
  BY DEF Inv, TypeOK
<1>2. TypeOK'
  BY <1>1 DEF Inv, TypeOK, sessionVars
<1>3. IndexesAgree'
  BY DEF Inv, RegistryIsConsistent, IndexesAgree, sessionVars
<1>4. PhaseMatchesSession'
  BY <1>1 DEF Inv, RegistryIsConsistent, PhaseMatchesSession, Fits, sessionVars
<1>5. SessionStateCurrent'
  <2> SUFFICES ASSUME NEW i \in DOMAIN sessions
               PROVE  LET t == states'[sessions[i].instance.avd]
                      IN /\ t.console_port = sessions[i].instance.port
                         /\ t.phase \in {"Running"} \cup Recovering
                              => t.generation = sessions[i].generation
                         /\ t.phase = "Stopping" => t.generation > sessions[i].generation
    BY DEF SessionStateCurrent, sessionVars
  <2>1. sessions[i].instance.avd \in Avds
    BY AvdOf DEF Instances
  <2>2. CASE sessions[i].instance.avd = a
    <3>1. a \in DOMAIN by_avd /\ by_avd[a] = i
      BY <2>2, AvdOf
    <3> QED
      BY <1>1, <2>2, <3>1 DEF Fits
  <2>3. CASE sessions[i].instance.avd # a
    BY <1>1, <2>1, <2>3 DEF Inv, RegistryIsConsistent, SessionStateCurrent
  <2> QED
    BY <2>2, <2>3
<1>6. OneCurrentCommand'
  <2> SUFFICES ASSUME NEW b \in Avds
               PROVE  /\ \A c, d \in CurrentStarts(b)' : c = d
                      /\ \A c, d \in CurrentStops(b)' : c = d
                      /\ CurrentStarts(b)' # {} => states'[b].phase \in Claimed
                      /\ CurrentStops(b)' # {} => states'[b].phase = "Stopping"
    BY DEF OneCurrentCommand
  <2>1. \A c, d \in CurrentStarts(b)' : c = d
    BY DEF CurrentStarts, StartCommands, IsCurrent
  <2>2. CASE b = a
    BY <1>1, <2>1, <2>2 DEF OwnCommands, CurrentStarts, CurrentStops, IsCurrent
  <2>3. CASE b # a
    <3>1. CurrentStarts(b)' \subseteq CurrentStarts(b) /\ CurrentStops(b)' \subseteq CurrentStops(b)
      BY <1>1, <2>3 DEF CurrentStarts, CurrentStops, IsCurrent
    <3> QED
      BY <1>1, <2>1, <2>3, <3>1 DEF Inv, OneCurrentCommand
  <2> QED
    BY <2>2, <2>3
<1>7. GenerationsAreIssued'
  <2>1. \A n \in Generations : n \in Int
    BY CounterAssumption DEF Generations
  <2>2. next_generation \in Int /\ next_generation' \in Int
    BY <2>1 DEF Inv, TypeOK
  <2>3. ASSUME NEW b \in Avds PROVE states'[b].generation <= next_generation'
    <3>1. states[b].generation \in Int /\ states[b].generation <= next_generation
      BY <2>1, StateType DEF Inv, GenerationsAreIssued
    <3> QED
      BY <1>1, <2>2, <3>1
  <2>4. ASSUME NEW i \in DOMAIN sessions PROVE sessions[i].generation <= next_generation'
    <3>1. sessions[i].generation \in Int /\ sessions[i].generation <= next_generation
      BY <2>1, AvdOf DEF Inv, GenerationsAreIssued, Sessions
    <3> QED
      BY <2>2, <3>1
  <2> QED
    BY <2>3, <2>4 DEF GenerationsAreIssued, sessionVars
<1>8. StoppedHasNoPort'
  BY <1>1 DEF Inv, StoppedHasNoPort, Fits
<1> QED
  BY <1>2, <1>3, <1>4, <1>5, <1>6, <1>7, <1>8 DEF Inv, RegistryIsConsistent

-----------------------------------------------------------------------------
(* The commands that leave the sessions alone.                              *)

\* Counters compare as integers; a fresh generation is none of those in use.
LEMMA GenerationTypes ==
  ASSUME Inv
  PROVE  /\ next_generation \in Generations /\ MaxGeneration \in Nat
         /\ \A n \in Generations : n \in Int /\ n >= 0
         /\ \A c \in starts : c \in StartCommands /\ c.generation \in Generations
                              /\ c.avd \in Avds
         /\ \A c \in stops : c \in StopCommands /\ c.generation \in Generations
                             /\ c.avd \in Avds
         /\ \A c \in starts \cup stops : c.generation <= next_generation
BY CounterAssumption
   DEF Inv, TypeOK, GenerationsAreIssued, Generations, StartCommands, StopCommands

\* A renewed device owns no command but the one that is new.
LEMMA Renewed ==
  ASSUME Inv, NEW a \in Avds, NEW phase \in Phases, NEW port \in Ports \cup {NoPort},
         Renew(a, phase, port), UNCHANGED sessionVars,
         starts' \subseteq StartCommands, stops' \subseteq StopCommands,
         \A c \in starts' : c \in starts \/ (/\ phase \in Claimed
                                             /\ c = [avd |-> a, generation |-> next_generation + 1]),
         \A c \in stops' : c \in stops \/ (/\ phase = "Stopping"
                                           /\ c = [avd |-> a, generation |-> next_generation + 1,
                                                   session |-> by_avd[a]]),
         Fits(a, State(next_generation + 1, phase, port))
  PROVE  Inv'
<1> DEFINE s == State(next_generation + 1, phase, port)
<1>1. /\ next_generation \in Int /\ next_generation + 1 \in Generations
      /\ next_generation' = next_generation + 1 /\ next_generation' \in Int
  BY GenerationTypes DEF Renew, Generations
<1>2. /\ s.generation = next_generation + 1 /\ s.phase = phase /\ s \in DeviceStates
      /\ states' = [states EXCEPT ![a] = s]
  BY <1>1 DEF State, DeviceStates, Renew
<1>3. ASSUME NEW c \in starts \cup stops
      PROVE  c.generation <= next_generation' /\ c.generation # next_generation + 1
  <2>1. c.generation \in Int /\ c.generation <= next_generation
    BY GenerationTypes
  <2> QED
    BY <1>1, <2>1
<1>4. \A c \in starts' \cup stops' : c.generation <= next_generation'
  BY <1>1, <1>3
<1>5. OwnCommands(a, s, starts', stops')
  BY <1>2, <1>3 DEF OwnCommands
<1>6. \A c \in starts' : c.avd # a => c \in starts
  OBVIOUS
<1>7. \A c \in stops' : c.avd # a => c \in stops
  OBVIOUS
<1>8. next_generation <= next_generation' /\ s.generation <= next_generation'
  BY <1>1, <1>2
<1> HIDE DEF s
<1> QED
  BY <1>1, <1>2, <1>4, <1>5, <1>6, <1>7, <1>8, DeviceChanges DEF s

LEMMA BeginStartKeeps ==
  ASSUME Inv, NEW a \in Avds, BeginStart(a)
  PROVE  Inv'
<1>1. Renew(a, "Starting", NoPort) /\ UNCHANGED <<sessionVars, stops>> /\ a \notin DOMAIN by_avd
  BY DEF BeginStart, MayStart
<1>2. [avd |-> a, generation |-> next_generation + 1] \in StartCommands
  BY GenerationTypes, <1>1 DEF StartCommands, Generations, Renew
<1>3. starts' \subseteq StartCommands /\ stops' \subseteq StopCommands
  BY <1>1, <1>2 DEF BeginStart, Inv, TypeOK
<1>4. Fits(a, State(next_generation + 1, "Starting", NoPort))
  BY <1>1 DEF Fits, State, Attached, Recovering
<1>5. \A c \in starts' : c \in starts \/ c = [avd |-> a, generation |-> next_generation + 1]
  BY DEF BeginStart
<1>6. \A c \in stops' : c \in stops
  BY <1>1
<1>7. "Starting" \in Claimed /\ "Starting" \in Phases
  BY DEF Claimed, Phases
<1> QED
  BY <1>1, <1>3, <1>4, <1>5, <1>6, <1>7, Renewed

LEMMA CancelQueuedKeeps ==
  ASSUME Inv, NEW a \in Avds, CancelQueued(a)
  PROVE  Inv'
<1>1. Renew(a, "Stopped", NoPort) /\ UNCHANGED <<sessionVars, commandVars>>
  BY DEF CancelQueued, ForceStopped
<1>2. a \notin DOMAIN by_avd
  BY DEF CancelQueued, Inv, RegistryIsConsistent, PhaseMatchesSession, Claimed
<1>3. Fits(a, State(next_generation + 1, "Stopped", NoPort))
  BY <1>2 DEF Fits, State, Attached, Recovering
<1>4. starts' \subseteq StartCommands /\ stops' \subseteq StopCommands
  BY <1>1 DEF Inv, TypeOK, commandVars
<1>5. \A c \in starts' : c \in starts
  BY <1>1 DEF commandVars
<1>6. \A c \in stops' : c \in stops
  BY <1>1 DEF commandVars
<1>7. "Stopped" \in Phases
  BY DEF Phases
<1> QED
  BY <1>1, <1>3, <1>4, <1>5, <1>6, <1>7, Renewed

LEMMA BeginStopKeeps ==
  ASSUME Inv, NEW a \in Avds, BeginStop(a)
  PROVE  Inv'
<1> DEFINE port == sessions[by_avd[a]].instance.port
<1>1. a \in DOMAIN by_avd /\ Renew(a, "Stopping", port) /\ UNCHANGED <<sessionVars, starts>>
  BY DEF BeginStop
<1>2. by_avd[a] \in SessionIds /\ port \in Ports
      /\ sessions[by_avd[a]].generation \in Int
      /\ sessions[by_avd[a]].generation <= next_generation
  <2>1. by_avd[a] \in DOMAIN sessions /\ port \in Ports /\ sessions[by_avd[a]] \in Sessions
    BY <1>1, SessionOf
  <2>2. DOMAIN sessions \subseteq SessionIds
    BY CounterAssumption DEF Inv, TypeOK, SessionIds
  <2>3. sessions[by_avd[a]].generation \in Generations
    BY <2>1 DEF Sessions
  <2> QED
    BY <2>1, <2>2, <2>3, GenerationTypes DEF Inv, GenerationsAreIssued
<1>3. next_generation \in Int /\ next_generation + 1 \in Generations
  BY GenerationTypes, <1>1 DEF Generations, Renew
<1>4. starts' \subseteq StartCommands /\ stops' \subseteq StopCommands
  BY <1>1, <1>2, <1>3 DEF BeginStop, Inv, TypeOK, StopCommands
<1>5. Fits(a, State(next_generation + 1, "Stopping", port))
  BY <1>1, <1>2, <1>3 DEF Fits, State, Attached, Recovering, Claimed
<1>6. \A c \in starts' : c \in starts
  BY <1>1
<1>7. \A c \in stops' : c \in stops \/ c = [avd |-> a, generation |-> next_generation + 1,
                                             session |-> by_avd[a]]
  BY DEF BeginStop
<1>8. "Stopping" \in Phases
  BY DEF Phases, Attached
<1> QED
  BY <1>1, <1>2, <1>4, <1>5, <1>6, <1>7, <1>8, Renewed

\* A device written under the generation it has keeps its commands, if they
\* still fit its phase.
LEMMA Rewritten ==
  ASSUME Inv, NEW a \in Avds, NEW s \in DeviceStates,
         states' = [states EXCEPT ![a] = s], s.generation = states[a].generation,
         UNCHANGED <<next_generation, sessionVars>>,
         starts' \subseteq starts, stops' \subseteq stops,
         Fits(a, s),
         \A c \in starts' : c.avd = a /\ IsCurrent(a, c.generation) => s.phase \in Claimed,
         \A c \in stops' : c.avd = a /\ IsCurrent(a, c.generation) => s.phase = "Stopping"
  PROVE  Inv'
<1>1. starts' \subseteq StartCommands /\ stops' \subseteq StopCommands
  BY DEF Inv, TypeOK
<1>2. next_generation' \in Generations /\ next_generation <= next_generation'
  BY GenerationTypes
<1>3. s.generation <= next_generation'
  BY DEF Inv, GenerationsAreIssued
<1>4. \A c \in starts' \cup stops' : c.generation <= next_generation'
  BY DEF Inv, GenerationsAreIssued
<1>5. OwnCommands(a, s, starts', stops')
  BY CurrentStop DEF OwnCommands, IsCurrent
<1>6. /\ \A c \in starts' : c.avd # a => c \in starts
      /\ \A c \in stops' : c.avd # a => c \in stops
  OBVIOUS
<1> QED
  BY <1>1, <1>2, <1>3, <1>4, <1>5, <1>6, DeviceChanges

LEMMA MarkStartKeeps ==
  ASSUME Inv, NEW c \in starts,
         (\E phase \in Claimed : MarkStart(c, phase)) \/ \E port \in Ports : AttachStartPort(c, port)
  PROVE  Inv'
<1> DEFINE a == c.avd
<1>1. PICK s \in DeviceStates :
        /\ states' = [states EXCEPT ![a] = s]
        /\ s.generation = states[a].generation /\ s.phase \in Claimed
        /\ IsCurrent(a, c.generation)
        /\ UNCHANGED <<next_generation, sessionVars, commandVars>>
  <2>1. a \in Avds /\ states[a] \in DeviceStates /\ Claimed \subseteq Phases \ {"Stopped"}
        /\ states \in [Avds -> DeviceStates]
    BY GenerationTypes, StateType DEF Phases, Claimed, Inv, TypeOK
  <2>2. CASE \E phase \in Claimed : MarkStart(c, phase)
    <3>1. PICK phase \in Claimed : MarkStart(c, phase)
      BY <2>2
    <3> DEFINE s == Updated(states[a], phase)
    <3>2. s \in DeviceStates /\ s.generation = states[a].generation /\ s.phase \in Claimed
      BY <2>1, <3>1 DEF Updated, State, DeviceStates
    <3> QED
      BY <3>1, <3>2 DEF MarkStart, Update
  <2>3. CASE \E port \in Ports : AttachStartPort(c, port)
    <3>1. PICK port \in Ports : AttachStartPort(c, port)
      BY <2>3
    <3>2. states[a].phase \in Claimed
      BY <3>1, CurrentStart DEF AttachStartPort
    <3> DEFINE s == [states[a] EXCEPT !.console_port = port]
    <3>3. s \in DeviceStates /\ s.generation = states[a].generation /\ s.phase \in Claimed
      BY <2>1, <3>2 DEF DeviceStates
    <3>4. states' = [states EXCEPT ![a] = s]
      BY <3>1, <2>1 DEF AttachStartPort
    <3> QED
      BY <3>1, <3>3, <3>4 DEF AttachStartPort
  <2> QED
    BY <2>2, <2>3
<1>2. a \in Avds /\ a \notin DOMAIN by_avd
      /\ \A d \in stops : d.avd = a => ~IsCurrent(a, d.generation)
  BY <1>1, CurrentStart
<1>3. Fits(a, s)
  BY <1>1, <1>2 DEF Fits, Claimed, Attached, Recovering
<1>4. starts' = starts /\ stops' = stops
  BY <1>1 DEF commandVars
<1> QED
  BY <1>1, <1>2, <1>3, <1>4, Rewritten

LEMMA FailStartKeeps ==
  ASSUME Inv, NEW c \in starts, FailStart(c)
  PROVE  Inv'
<1> DEFINE a == c.avd
           s == State(c.generation, "Error", NoPort)
<1>1. /\ a \in Avds /\ a \notin DOMAIN by_avd /\ c.generation \in Generations
      /\ \A d \in starts : d.avd = a /\ IsCurrent(a, d.generation) => d = c
      /\ \A d \in stops : d.avd = a => ~IsCurrent(a, d.generation)
  BY CurrentStart DEF FailStart
<1>2. s \in DeviceStates /\ s.generation = states[a].generation
  BY <1>1 DEF FailStart, IsCurrent, DeviceStates, State, Phases
<1>3. /\ states' = [states EXCEPT ![a] = s] /\ UNCHANGED <<next_generation, sessionVars>>
      /\ starts' = starts \ {c} /\ stops' = stops
  BY DEF FailStart
<1>4. Fits(a, s)
  BY <1>1 DEF Fits, State, Attached, Recovering, Claimed
<1> HIDE DEF s
<1> QED
  BY <1>1, <1>2, <1>3, <1>4, Rewritten

LEMMA FailStopKeeps ==
  ASSUME Inv, NEW c \in stops, FailStop(c)
  PROVE  Inv'
<1> DEFINE a == c.avd
           s == State(c.generation, "Error", sessions[c.session].instance.port)
<1>1. /\ a \in DOMAIN by_avd /\ c.generation \in Generations
      /\ IsCurrent(a, c.generation) /\ by_avd[a] = c.session
      /\ \A d \in stops : d.avd = a /\ IsCurrent(a, d.generation) => d = c
      /\ \A d \in starts : d.avd = a => ~IsCurrent(a, d.generation)
  BY CurrentStop DEF FailStop, StopIsCurrent
<1>2. a \in Avds /\ s \in DeviceStates /\ s.generation = states[a].generation
  BY <1>1, SessionOf DEF IsCurrent, DeviceStates, State, Phases
<1>3. /\ states' = [states EXCEPT ![a] = s] /\ UNCHANGED <<next_generation, sessionVars>>
      /\ starts' = starts /\ stops' = stops \ {c}
  BY DEF FailStop
<1>4. Fits(a, s)
  BY <1>1 DEF Fits, State, Attached, Recovering, Claimed
<1> HIDE DEF s
<1> QED
  BY <1>1, <1>2, <1>3, <1>4, Rewritten

\* Dropping commands, or writing what was there, leaves the invariant.
LEMMA NothingWritten ==
  ASSUME Inv, UNCHANGED <<stateVars, sessionVars>>,
         starts' \subseteq starts, stops' \subseteq stops
  PROVE  Inv'
<1> USE DEF stateVars, sessionVars
<1>1. TypeOK' /\ GenerationsAreIssued' /\ StoppedHasNoPort'
  BY DEF Inv, TypeOK, GenerationsAreIssued, StoppedHasNoPort
<1>2. RegistryIsConsistent'
  BY DEF Inv, RegistryIsConsistent, IndexesAgree, PhaseMatchesSession, SessionStateCurrent
<1>3. OneCurrentCommand'
  BY DEF Inv, OneCurrentCommand, CurrentStarts, CurrentStops, IsCurrent
<1> QED
  BY <1>1, <1>2, <1>3 DEF Inv

LEMMA ControlKeeps ==
  ASSUME Inv, NEW r \in Routes, ControlLost(r) \/ ControlBack(r)
  PROVE  Inv'
<1> DEFINE a == r.avd
<1>1. PICK i \in DOMAIN sessions : r = RouteOf(i)
  BY DEF Routes
<1>2. a \in DOMAIN by_avd /\ by_avd[a] = i /\ a \in Avds /\ r.generation = sessions[i].generation
  BY <1>1, AvdOf, SessionOf DEF RouteOf
<1>3. PICK phase \in {"ControlDisconnected", "Running"} :
        /\ Update(a, r.generation, phase)
        /\ UNCHANGED <<sessionVars, commandVars>>
        /\ states[a].phase \in {"Running", "ControlDisconnected"}
  BY DEF ControlLost, ControlBack
<1> DEFINE s == Updated(states[a], phase)
<1>4. /\ s \in DeviceStates /\ s.generation = states[a].generation /\ s.phase = phase
      /\ s.console_port = states[a].console_port
  BY <1>2, StateType DEF Updated, State, DeviceStates, Phases, Attached, Recovering
<1>5. /\ states' = [states EXCEPT ![a] = s] /\ UNCHANGED next_generation
      /\ states[a].generation = sessions[i].generation
  BY <1>2, <1>3 DEF Update, IsCurrent
<1>6. starts' = starts /\ stops' = stops
  BY <1>3 DEF commandVars
<1>7. s.console_port = sessions[i].instance.port
  BY <1>2, <1>4, SessionOf
<1>8. Fits(a, s)
  BY <1>2, <1>4, <1>5, <1>7 DEF Fits, Claimed
<1>9. /\ \A c \in starts : c.avd = a => ~IsCurrent(a, c.generation)
      /\ \A c \in stops : c.avd = a => ~IsCurrent(a, c.generation)
  BY <1>3, CurrentStart, CurrentStop DEF Claimed
<1> HIDE DEF s
<1> QED
  BY <1>2, <1>3, <1>4, <1>5, <1>6, <1>8, <1>9, Rewritten

\* Showing the device list writes back what was there.
LEMMA ProjectionQuiet ==
  ASSUME Inv
  PROVE  ProjectionIsQuiet
<1> SUFFICES ASSUME NEW a \in Avds PROVE ReconcileScan(a, SessionPort(a)) = states[a]
  BY DEF ProjectionIsQuiet
<1>1. states[a] = State(states[a].generation, states[a].phase, states[a].console_port)
  BY StateType DEF DeviceStates, State
<1>2. CASE states[a].phase = "Stopped"
  <2>1. a \notin DOMAIN by_avd /\ states[a].console_port = NoPort
    BY <1>2 DEF Inv, StoppedHasNoPort, RegistryIsConsistent, PhaseMatchesSession
  <2> QED
    BY <1>1, <1>2, <2>1 DEF ReconcileScan, SessionPort
<1>3. CASE states[a].phase = "Running"
  <2>1. a \in DOMAIN by_avd
    BY <1>3 DEF Inv, RegistryIsConsistent, PhaseMatchesSession, Attached
  <2>2. SessionPort(a) = states[a].console_port /\ SessionPort(a) # NoPort
    BY <2>1, SessionOf, PortAssumption DEF SessionPort
  <2> QED
    BY <1>1, <1>3, <2>2 DEF ReconcileScan
<1>4. CASE states[a].phase \notin {"Stopped", "Running"}
  BY <1>4 DEF ReconcileScan
<1> QED
  BY <1>2, <1>3, <1>4

LEMMA ProjectionKeeps ==
  ASSUME Inv, NEW a \in Avds, Projection(a)
  PROVE  Inv'
<1>1. ReconcileScan(a, SessionPort(a)) = states[a]
  BY ProjectionQuiet DEF ProjectionIsQuiet
<1>2. states' = states
  BY <1>1 DEF Projection, Inv, TypeOK
<1> QED
  BY <1>2, NothingWritten DEF Projection, stateVars, commandVars

-----------------------------------------------------------------------------
(* A start is committed: one more session.                                  *)

LEMMA CompleteStartKeeps ==
  ASSUME Inv, NEW c \in starts, NEW pid \in Pids, CompleteStart(c, pid)
  PROVE  Inv'
<1> DEFINE a == c.avd
           port == states[a].console_port
           id == next_session_id + 1
           session == [generation |-> c.generation, origin |-> "Managed",
                       instance |-> [avd |-> a, pid |-> pid, port |-> port]]
<1>1. /\ a \in Avds /\ a \notin DOMAIN by_avd /\ c.generation \in Generations
      /\ states[a].generation = c.generation
      /\ \A d \in starts : d.avd = a /\ IsCurrent(a, d.generation) => d = c
      /\ \A d \in stops : d.avd = a => ~IsCurrent(a, d.generation)
  BY CurrentStart DEF CompleteStart, Update, IsCurrent
<1>2. port \in Ports /\ port \notin DOMAIN by_port
  BY <1>1, StateType DEF CompleteStart, IndexesFree
<1>3. /\ id \in 1 .. MaxSessions /\ id \notin DOMAIN sessions /\ next_session_id' = id
      /\ 1 .. next_session_id \subseteq 1 .. id
  BY CounterAssumption DEF CompleteStart, AddSession, Inv, TypeOK
<1>4. /\ DOMAIN sessions' = DOMAIN sessions \cup {id} /\ sessions'[id] = session
      /\ \A i \in DOMAIN sessions : sessions'[i] = sessions[i]
  BY <1>3 DEF CompleteStart, AddSession, With
<1>5. /\ DOMAIN by_avd' = DOMAIN by_avd \cup {a} /\ by_avd'[a] = id
      /\ \A b \in DOMAIN by_avd : by_avd'[b] = by_avd[b]
  BY <1>1 DEF CompleteStart, AddSession, With
<1>6. /\ DOMAIN by_port' = DOMAIN by_port \cup {port} /\ by_port'[port] = id
      /\ \A p \in DOMAIN by_port : by_port'[p] = by_port[p]
  BY <1>2 DEF CompleteStart, AddSession, With
<1>7. /\ states' \in [Avds -> DeviceStates]
      /\ states'[a] = State(c.generation, "Running", port)
      /\ \A b \in Avds \ {a} : states'[b] = states[b]
  <2>1. State(c.generation, "Running", port) \in DeviceStates
    BY <1>1, <1>2 DEF State, DeviceStates, Phases, Attached
  <2>2. states' = [states EXCEPT ![a] = State(c.generation, "Running", port)]
    BY <1>1 DEF CompleteStart, Update, Updated
  <2> QED
    BY <1>1, <2>1, <2>2 DEF Inv, TypeOK
<1>8. next_generation' = next_generation /\ starts' = starts \ {c} /\ stops' = stops
  BY DEF CompleteStart, Update
<1>9. session \in Sessions
  BY <1>1, <1>2 DEF Sessions, Origins, Instances
<1>10. TypeOK'
  <2>1. DOMAIN sessions' \subseteq 1 .. next_session_id' /\ next_session_id' \in 0 .. MaxSessions
    BY <1>3, <1>4 DEF Inv, TypeOK
  <2>2. \A i \in DOMAIN sessions' : sessions'[i] \in Sessions
    BY <1>4, <1>9 DEF Inv, TypeOK
  <2>3. DOMAIN by_avd' \subseteq Avds /\ DOMAIN by_port' \subseteq Ports
    BY <1>1, <1>2, <1>5, <1>6 DEF Inv, TypeOK
  <2> QED
    BY <1>7, <1>8, <2>1, <2>2, <2>3 DEF Inv, TypeOK
<1>11. IndexesAgree'
  <2>1. ASSUME NEW i \in DOMAIN sessions
        PROVE  /\ sessions'[i].instance.avd \in DOMAIN by_avd'
               /\ by_avd'[sessions'[i].instance.avd] = i
               /\ sessions'[i].instance.port \in DOMAIN by_port'
               /\ by_port'[sessions'[i].instance.port] = i
    BY <1>4, <1>5, <1>6, AvdOf
  <2>2. ASSUME NEW b \in DOMAIN by_avd
        PROVE  by_avd'[b] \in DOMAIN sessions' /\ sessions'[by_avd'[b]].instance.avd = b
    BY <1>4, <1>5, SessionOf
  <2>3. ASSUME NEW p \in DOMAIN by_port
        PROVE  by_port'[p] \in DOMAIN sessions' /\ sessions'[by_port'[p]].instance.port = p
    BY <1>4, <1>6 DEF Inv, RegistryIsConsistent, IndexesAgree
  <2> QED
    BY <1>4, <1>5, <1>6, <2>1, <2>2, <2>3 DEF IndexesAgree
<1>12. PhaseMatchesSession'
  BY <1>1, <1>5, <1>7 DEF Inv, RegistryIsConsistent, PhaseMatchesSession, State, Attached, Claimed
<1>13. SessionStateCurrent'
  <2>1. ASSUME NEW i \in DOMAIN sessions
        PROVE  sessions[i].instance.avd \in Avds \ {a}
    BY <1>1, AvdOf DEF Instances
  <2>2. states'[a] = [generation |-> c.generation, phase |-> "Running", console_port |-> port]
    BY <1>7 DEF State
  <2> QED
    BY <1>4, <1>7, <2>1, <2>2 DEF Inv, RegistryIsConsistent, SessionStateCurrent
<1>14. OneCurrentCommand'
  <2> SUFFICES ASSUME NEW b \in Avds
               PROVE  /\ \A d, e \in CurrentStarts(b)' : d = e
                      /\ \A d, e \in CurrentStops(b)' : d = e
                      /\ CurrentStarts(b)' # {} => states'[b].phase \in Claimed
                      /\ CurrentStops(b)' # {} => states'[b].phase = "Stopping"
    BY DEF OneCurrentCommand
  <2>1. CASE b = a
    <3>1. CurrentStarts(a)' = {} /\ CurrentStops(a)' = {}
      BY <1>1, <1>7, <1>8 DEF CurrentStarts, CurrentStops, IsCurrent, State
    <3> QED
      BY <2>1, <3>1
  <2>2. CASE b # a
    <3>1. CurrentStarts(b)' \subseteq CurrentStarts(b) /\ CurrentStops(b)' \subseteq CurrentStops(b)
      BY <1>7, <1>8, <2>2 DEF CurrentStarts, CurrentStops, IsCurrent
    <3> QED
      BY <1>7, <2>2, <3>1 DEF Inv, OneCurrentCommand
  <2> QED
    BY <2>1, <2>2
<1>15. GenerationsAreIssued'
  <2>1. c.generation <= next_generation
    BY GenerationTypes
  <2>2. \A b \in Avds : states'[b].generation <= next_generation'
    BY <1>7, <1>8, <2>1 DEF Inv, GenerationsAreIssued, State
  <2>3. \A i \in DOMAIN sessions' : sessions'[i].generation <= next_generation'
    BY <1>4, <1>8, <2>1 DEF Inv, GenerationsAreIssued
  <2> QED
    BY <1>8, <2>2, <2>3 DEF Inv, GenerationsAreIssued
<1>16. StoppedHasNoPort'
  BY <1>7 DEF Inv, StoppedHasNoPort, State
<1> QED
  BY <1>10, <1>11, <1>12, <1>13, <1>14, <1>15, <1>16 DEF Inv, RegistryIsConsistent

-----------------------------------------------------------------------------
(* A stop is committed: one session less.                                   *)

LEMMA CompleteStopKeeps ==
  ASSUME Inv, NEW c \in stops, CompleteStop(c)
  PROVE  Inv'
<1> DEFINE a == c.avd
           port == sessions[c.session].instance.port
<1>1. /\ a \in Avds /\ a \in DOMAIN by_avd /\ by_avd[a] = c.session
      /\ c.session \in DOMAIN sessions
      /\ states[a].generation = c.generation /\ c.generation \in Generations
      /\ \A d \in stops : d.avd = a /\ IsCurrent(a, d.generation) => d = c
      /\ \A d \in starts : d.avd = a => ~IsCurrent(a, d.generation)
  BY CurrentStop DEF CompleteStop, StopIsCurrent, IsCurrent
<1>2. sessions[c.session].instance.avd = a /\ port \in DOMAIN by_port /\ by_port[port] = c.session
  BY <1>1, SessionOf, AvdOf
<1>3. /\ DOMAIN sessions' = DOMAIN sessions \ {c.session}
      /\ \A i \in DOMAIN sessions' : sessions'[i] = sessions[i]
  BY DEF CompleteStop, RemoveSession, Without
<1>4. /\ DOMAIN by_avd' = DOMAIN by_avd \ {a}
      /\ \A b \in DOMAIN by_avd' : by_avd'[b] = by_avd[b]
  BY <1>2 DEF CompleteStop, RemoveSession, Without
<1>5. /\ DOMAIN by_port' = DOMAIN by_port \ {port}
      /\ \A p \in DOMAIN by_port' : by_port'[p] = by_port[p]
  BY DEF CompleteStop, RemoveSession, Without
<1>6. /\ states' \in [Avds -> DeviceStates]
      /\ states'[a] = State(c.generation, "Stopped", NoPort)
      /\ \A b \in Avds \ {a} : states'[b] = states[b]
  <2>1. State(c.generation, "Stopped", NoPort) \in DeviceStates
    BY <1>1 DEF State, DeviceStates, Phases
  <2>2. states' = [states EXCEPT ![a] = State(c.generation, "Stopped", NoPort)]
    BY <1>1 DEF CompleteStop, Update, Updated
  <2> QED
    BY <1>1, <2>1, <2>2 DEF Inv, TypeOK
<1>7. /\ next_generation' = next_generation /\ next_session_id' = next_session_id
      /\ starts' = starts /\ stops' = stops \ {c}
  BY DEF CompleteStop, Update, RemoveSession
<1>8. TypeOK'
  BY <1>3, <1>4, <1>5, <1>6, <1>7 DEF Inv, TypeOK
<1>9. \A i \in DOMAIN sessions' : sessions[i].instance.avd # a /\ sessions[i].instance.port # port
  BY <1>1, <1>2, <1>3, AvdOf
<1>10. IndexesAgree'
  <2>1. ASSUME NEW i \in DOMAIN sessions'
        PROVE  /\ sessions'[i].instance.avd \in DOMAIN by_avd'
               /\ by_avd'[sessions'[i].instance.avd] = i
               /\ sessions'[i].instance.port \in DOMAIN by_port'
               /\ by_port'[sessions'[i].instance.port] = i
    BY <1>3, <1>4, <1>5, <1>9, AvdOf
  <2>2. ASSUME NEW b \in DOMAIN by_avd'
        PROVE  by_avd'[b] \in DOMAIN sessions' /\ sessions'[by_avd'[b]].instance.avd = b
    BY <1>2, <1>3, <1>4, SessionOf
  <2>3. ASSUME NEW p \in DOMAIN by_port'
        PROVE  by_port'[p] \in DOMAIN sessions' /\ sessions'[by_port'[p]].instance.port = p
    BY <1>3, <1>5 DEF Inv, RegistryIsConsistent, IndexesAgree
  <2> QED
    BY <2>1, <2>2, <2>3 DEF IndexesAgree
<1>11. PhaseMatchesSession'
  BY <1>4, <1>6 DEF Inv, RegistryIsConsistent, PhaseMatchesSession, State, Attached, Recovering
<1>12. SessionStateCurrent'
  <2>1. \A i \in DOMAIN sessions' : sessions[i].instance.avd \in Avds \ {a}
    BY <1>3, <1>9, AvdOf DEF Instances
  <2> QED
    BY <1>3, <1>6, <2>1 DEF Inv, RegistryIsConsistent, SessionStateCurrent
<1>13. OneCurrentCommand'
  <2> SUFFICES ASSUME NEW b \in Avds
               PROVE  /\ \A d, e \in CurrentStarts(b)' : d = e
                      /\ \A d, e \in CurrentStops(b)' : d = e
                      /\ CurrentStarts(b)' # {} => states'[b].phase \in Claimed
                      /\ CurrentStops(b)' # {} => states'[b].phase = "Stopping"
    BY DEF OneCurrentCommand
  <2>1. CASE b = a
    <3>1. CurrentStarts(a)' = {} /\ CurrentStops(a)' = {}
      BY <1>1, <1>6, <1>7 DEF CurrentStarts, CurrentStops, IsCurrent, State
    <3> QED
      BY <2>1, <3>1
  <2>2. CASE b # a
    <3>1. CurrentStarts(b)' \subseteq CurrentStarts(b) /\ CurrentStops(b)' \subseteq CurrentStops(b)
      BY <1>6, <1>7, <2>2 DEF CurrentStarts, CurrentStops, IsCurrent
    <3> QED
      BY <1>6, <2>2, <3>1 DEF Inv, OneCurrentCommand
  <2> QED
    BY <2>1, <2>2
<1>14. GenerationsAreIssued'
  <2>1. c.generation <= next_generation
    BY GenerationTypes
  <2> QED
    BY <1>3, <1>6, <1>7, <2>1 DEF Inv, GenerationsAreIssued, State
<1>15. StoppedHasNoPort'
  BY <1>6 DEF Inv, StoppedHasNoPort, State
<1> QED
  BY <1>8, <1>10, <1>11, <1>12, <1>13, <1>14, <1>15 DEF Inv, RegistryIsConsistent

-----------------------------------------------------------------------------
(* A scan: which sessions leave, which instances come in.                   *)

LEMMA ExitedSets ==
  ASSUME Inv, NEW observed, NEW alive
  PROVE  LET exited == Exited(observed, alive)
         IN /\ exited \subseteq DOMAIN sessions
            /\ IsFiniteSet(exited) /\ exited \subseteq Int /\ Cardinality(exited) \in Nat
            /\ \A i \in DOMAIN sessions \ exited :
                 /\ sessions[i].instance.avd \notin AvdsOf(exited)
                 /\ sessions[i].instance.port \notin PortsOf(exited)
            /\ \A i \in exited : /\ sessions[i].instance.avd \in AvdsOf(exited)
                                 /\ sessions[i].instance.port \in PortsOf(exited)
<1> DEFINE exited == Exited(observed, alive)
<1>1. exited \subseteq DOMAIN sessions
  BY DEF Exited, Missing
<1>2. DOMAIN sessions \subseteq 1 .. next_session_id /\ next_session_id \in Int
  BY CounterAssumption DEF Inv, TypeOK
<1>3. IsFiniteSet(1 .. next_session_id)
  BY <1>2, FS_Interval
<1>4. IsFiniteSet(exited)
  BY <1>1, <1>2, <1>3, FS_Subset
<1>5. exited \subseteq Int
  BY <1>1, <1>2
<1>6. Cardinality(exited) \in Nat
  BY <1>4, FS_CardinalityType
<1> HIDE DEF exited
<1>7. ASSUME NEW i \in DOMAIN sessions \ exited
      PROVE  /\ sessions[i].instance.avd \notin AvdsOf(exited)
             /\ sessions[i].instance.port \notin PortsOf(exited)
  <2>1. ASSUME NEW j \in exited
        PROVE  /\ sessions[i].instance.avd # sessions[j].instance.avd
               /\ sessions[i].instance.port # sessions[j].instance.port
    BY <1>1, AvdOf
  <2> QED
    BY <2>1 DEF AvdsOf, PortsOf
<1>8. \A i \in exited : /\ sessions[i].instance.avd \in AvdsOf(exited)
                        /\ sessions[i].instance.port \in PortsOf(exited)
  BY DEF AvdsOf, PortsOf
<1> QED
  BY <1>1, <1>4, <1>5, <1>6, <1>7, <1>8 DEF exited

\* Of the instances a scan sees, those it adopts have distinct AVDs and ports.
LEMMA AdoptedSets ==
  ASSUME NEW observed \in Scans, NEW exited
  PROVE  LET adopted == Adopted(observed, exited)
         IN /\ adopted \subseteq observed /\ adopted \subseteq Instances
            /\ PortsIn(adopted) \subseteq Ports /\ PortsIn(adopted) \subseteq Int
            /\ \A o, p \in adopted : o.port = p.port \/ o.avd = p.avd => o = p
            /\ \A o \in adopted : MayAdopt(o, exited)
            /\ IsFiniteSet(PortsIn(adopted))
            /\ Cardinality(adopted) \in Nat
            /\ Cardinality(PortsIn(adopted)) = Cardinality(adopted)
<1> DEFINE adopted == Adopted(observed, exited)
<1>1. adopted \subseteq observed /\ adopted \subseteq Instances
  BY DEF Adopted, Scans
<1>2. \A o \in adopted : MayAdopt(o, exited) /\ o.port \in Ports /\ o.port \in Int
  <2>1. \A o \in adopted : MayAdopt(o, exited)
    BY DEF Adopted
  <2>2. \A o \in Instances : o.port \in Ports
    BY DEF Instances
  <2>3. \A p \in Ports : p \in Int
    BY PortAssumption
  <2> QED
    BY <1>1, <2>1, <2>2, <2>3
<1>3. ASSUME NEW o \in adopted, NEW p \in adopted, o.port = p.port \/ o.avd = p.avd
      PROVE  o = p
  <2>1. o.port = p.port
    <3>1. CASE o.avd = p.avd
      <4>1. ~(p.port < o.port) /\ ~(o.port < p.port)
        BY <1>1, <1>2, <3>1 DEF Adopted
      <4> QED
        BY <4>1, <1>2
    <3> QED
      BY <1>3, <3>1
  <2> QED
    BY <1>1, <2>1 DEF Scans
<1>4. PortsIn(adopted) \subseteq Ports /\ PortsIn(adopted) \subseteq Int
  BY <1>2 DEF PortsIn
<1>5. IsFiniteSet(PortsIn(adopted))
  BY <1>4, PortAssumption, FS_Subset
<1> HIDE DEF adopted
<1>6. IsFiniteSet(adopted) /\ Cardinality(PortsIn(adopted)) = Cardinality(adopted)
  <2> DEFINE f == [o \in adopted |-> o.port]
  <2>1. f \in [adopted -> PortsIn(adopted)]
    BY DEF PortsIn
  <2>2. f \in Injection(adopted, PortsIn(adopted))
    BY <1>3, <2>1 DEF Injection, IsInjective
  <2>3. f \in Surjection(adopted, PortsIn(adopted))
    BY <2>1 DEF Surjection, PortsIn
  <2> QED
    BY <1>5, <2>2, <2>3, FS_Injection, Zenon
<1>7. Cardinality(adopted) \in Nat
  BY <1>6, FS_CardinalityType
<1> QED
  BY <1>1, <1>2, <1>3, <1>4, <1>5, <1>6, <1>7 DEF adopted

\* The ids of the adopted sessions are new and distinct.
LEMMA AdoptedIds ==
  ASSUME Inv, NEW observed \in Scans, NEW exited, NEW o \in Adopted(observed, exited)
  PROVE  LET adopted == Adopted(observed, exited)
         IN /\ AdoptedId(o, adopted) \in next_session_id + 1 .. next_session_id + Cardinality(adopted)
            /\ AdoptedId(o, adopted) \notin DOMAIN sessions
            /\ \A p \in adopted : AdoptedId(p, adopted) = AdoptedId(o, adopted) => p = o
<1> DEFINE adopted == Adopted(observed, exited)
           S == PortsIn(adopted)
<1>1. /\ IsFiniteSet(S) /\ S \subseteq Int
      /\ Cardinality(S) = Cardinality(adopted) /\ Cardinality(adopted) \in Nat
      /\ \A p, q \in adopted : p.port = q.port => p = q
  BY AdoptedSets
<1>2. \A p \in adopted : p.port \in S
  BY DEF PortsIn
<1> HIDE DEF adopted, S
<1>3. ASSUME NEW p \in adopted
      PROVE  Rank(S, p.port) \in 1 .. Cardinality(adopted)
  <2>1. Rank(S, p.port) \in 1 .. Cardinality(S)
    BY <1>1, <1>2, RankType, Zenon
  <2> QED
    BY <1>1, <2>1
<1>4. next_session_id \in Nat /\ DOMAIN sessions \subseteq 1 .. next_session_id
  BY CounterAssumption DEF Inv, TypeOK
<1>5. o \in adopted /\ \A p \in adopted : AdoptedId(p, adopted) = next_session_id + Rank(S, p.port)
  BY DEF AdoptedId, adopted, S
<1>6. /\ AdoptedId(o, adopted) \in next_session_id + 1 .. next_session_id + Cardinality(adopted)
      /\ AdoptedId(o, adopted) \notin DOMAIN sessions
  BY <1>1, <1>3, <1>4, <1>5
<1>7. ASSUME NEW p \in adopted, AdoptedId(p, adopted) = AdoptedId(o, adopted)
      PROVE  p = o
  <2>1. Rank(S, p.port) = Rank(S, o.port)
    <3>1. Rank(S, p.port) \in Int /\ Rank(S, o.port) \in Int
      BY <1>3, <1>5
    <3> QED
      BY <1>4, <1>5, <1>7, <3>1
  <2>2. p.port = o.port
    BY <1>1, <1>2, <1>5, <2>1, RankInjective, Zenon
  <2> QED
    BY <1>1, <1>5, <2>2
<1> QED
  BY <1>6, <1>7 DEF adopted


\* What a scan writes to the state of a device, by what became of its session.
LEMMA ScannedCases ==
  ASSUME Inv, NEW observed \in Scans, NEW alive, NEW a \in Avds
  PROVE  LET exited == Exited(observed, alive)
             adopted == Adopted(observed, exited)
             last == next_generation + Cardinality(exited) + Cardinality(adopted)
             s == states[a]
             t == ScannedState(a, observed, exited, adopted)
         IN /\ \A o \in adopted : o.avd = a =>
                 \E g \in next_generation + 1 .. last : t = State(g, "Running", o.port)
            /\ a \in AvdsOf(exited) \ AvdsIn(adopted) =>
                 \E g \in next_generation + 1 .. last, phase \in {"Stopped", "Error"} :
                   t = State(g, phase, NoPort)
            /\ a \notin AvdsOf(exited) \cup AvdsIn(adopted) =>
                 \E phase \in Phases :
                   /\ t = State(s.generation, phase, s.console_port)
                   /\ phase # s.phase => {phase, s.phase} \subseteq {"Running"} \cup Recovering
<1> DEFINE exited == Exited(observed, alive)
           adopted == Adopted(observed, exited)
           first == next_generation + Cardinality(exited)
           last == first + Cardinality(adopted)
           new == {o \in adopted : o.avd = a}
           lost == {i \in exited : sessions[i].instance.avd = a}
           kept == {i \in DOMAIN sessions \ exited :
                     sessions[i].instance.avd = a /\ IsCurrent(a, sessions[i].generation)}
           t == ScannedState(a, observed, exited, adopted)
<1>1. /\ IsFiniteSet(exited) /\ exited \subseteq Int /\ Cardinality(exited) \in Nat
      /\ exited \subseteq DOMAIN sessions
  BY ExitedSets
<1>2. /\ IsFiniteSet(PortsIn(adopted)) /\ PortsIn(adopted) \subseteq Int
      /\ Cardinality(adopted) \in Nat /\ Cardinality(PortsIn(adopted)) = Cardinality(adopted)
      /\ \A o, p \in adopted : o.avd = p.avd => o = p
  BY AdoptedSets
<1>3. next_generation \in Nat
  BY CounterAssumption DEF Inv, TypeOK, Generations
<1> HIDE DEF exited, adopted
<1>4. ASSUME NEW o \in adopted, o.avd = a
      PROVE  \E g \in next_generation + 1 .. last : t = State(g, "Running", o.port)
  <2> DEFINE r == Rank(PortsIn(adopted), o.port)
  <2>1. new = {o}
    BY <1>2, <1>4
  <2>2. (CHOOSE x \in new : TRUE) = o /\ new # {}
    BY <2>1
  <2>3. t = State(first + r, "Running", o.port)
    BY <2>2 DEF ScannedState
  <2>4. o.port \in PortsIn(adopted)
    BY DEF PortsIn
  <2>5. r \in 1 .. Cardinality(PortsIn(adopted))
    BY <1>2, <2>4, RankType, Zenon
  <2> HIDE DEF r
  <2>6. first + r \in next_generation + 1 .. last
    BY <1>1, <1>2, <1>3, <2>5
  <2> QED
    BY <2>3, <2>6
<1>5. ASSUME a \in AvdsOf(exited) \ AvdsIn(adopted)
      PROVE  \E g \in next_generation + 1 .. last, phase \in {"Stopped", "Error"} :
               t = State(g, phase, NoPort)
  <2>1. new = {} /\ lost # {}
    BY <1>5 DEF AvdsOf, AvdsIn
  <2>2. PICK i \in lost : i = (CHOOSE x \in lost : TRUE)
    BY <2>1
  <2>3. t = State(next_generation + Rank(exited, i), ExitPhase(i), NoPort)
    BY <2>1, <2>2 DEF ScannedState
  <2>4. Rank(exited, i) \in 1 .. Cardinality(exited)
    BY <1>1, RankType, Zenon
  <2>5. next_generation + Rank(exited, i) \in next_generation + 1 .. last
    BY <1>1, <1>2, <1>3, <2>4
  <2>6. ExitPhase(i) \in {"Stopped", "Error"}
    BY DEF ExitPhase
  <2> QED
    BY <2>3, <2>5, <2>6
<1>6. ASSUME a \notin AvdsOf(exited) \cup AvdsIn(adopted)
      PROVE  \E phase \in Phases :
               /\ t = State(states[a].generation, phase, states[a].console_port)
               /\ phase # states[a].phase =>
                    {phase, states[a].phase} \subseteq {"Running"} \cup Recovering
  <2>1. new = {} /\ lost = {}
    BY <1>6 DEF AvdsOf, AvdsIn
  <2>2. states[a] \in DeviceStates /\ states[a].phase \in Phases
    BY StateType
  <2>3. CASE kept = {}
    <3>1. t = states[a]
      BY <2>1, <2>3 DEF ScannedState
    <3>2. states[a] = State(states[a].generation, states[a].phase, states[a].console_port)
      BY <2>2 DEF DeviceStates, State
    <3> QED
      BY <2>2, <3>1, <3>2
  <2>4. CASE kept # {}
    <3>1. PICK i \in kept : i = (CHOOSE x \in kept : TRUE)
      BY <2>4
    <3>2. t = Updated(states[a], ScanPhase(i, observed))
      BY <2>1, <2>4, <3>1 DEF ScannedState
    <3>3. states[a].phase # "Stopped"
      BY AvdOf DEF Inv, RegistryIsConsistent, PhaseMatchesSession
    <3>4. /\ ScanPhase(i, observed) \in Phases \ {"Stopped"}
          /\ ScanPhase(i, observed) # states[a].phase =>
               {ScanPhase(i, observed), states[a].phase} \subseteq {"Running"} \cup Recovering
      BY <2>2, <3>3 DEF ScanPhase, Phases, Attached, Recovering
    <3> QED
      BY <3>2, <3>4 DEF Updated
  <2> QED
    BY <2>3, <2>4
<1> QED
  BY <1>4, <1>5, <1>6 DEF exited, adopted

\* What a scan does to the three maps.
MapsAfterScan(exited, adopted) ==
  LET kept == DOMAIN sessions \ exited
  IN /\ DOMAIN sessions' = kept \cup {AdoptedId(o, adopted) : o \in adopted}
     /\ \A i \in kept :
          /\ sessions'[i].instance = sessions[i].instance
          /\ sessions'[i].generation = sessions[i].generation
          /\ sessions'[i] \in Sessions
          /\ sessions'[i].origin # sessions[i].origin =>
               sessions[i].origin = "Adopted" /\ sessions'[i].origin = "Recovered"
     /\ \A o \in adopted : \E origin \in {"Recovered", "Adopted"} :
          sessions'[AdoptedId(o, adopted)] =
            [generation |-> states'[o.avd].generation, origin |-> origin, instance |-> o]
     /\ DOMAIN by_avd' = (DOMAIN by_avd \ AvdsOf(exited)) \cup AvdsIn(adopted)
     /\ \A a \in DOMAIN by_avd \ AvdsOf(exited) :
          a \notin AvdsIn(adopted) /\ by_avd'[a] = by_avd[a]
     /\ \A o \in adopted : by_avd'[o.avd] = AdoptedId(o, adopted)
     /\ DOMAIN by_port' = (DOMAIN by_port \ PortsOf(exited)) \cup PortsIn(adopted)
     /\ \A p \in DOMAIN by_port \ PortsOf(exited) :
          p \notin PortsIn(adopted) /\ by_port'[p] = by_port[p]
     /\ \A o \in adopted : by_port'[o.port] = AdoptedId(o, adopted)

LEMMA ScanEffect ==
  ASSUME Inv, NEW observed \in Scans, NEW alive, NEW recovered,
         ReconcileRunning(observed, alive, recovered)
  PROVE  MapsAfterScan(Exited(observed, alive), Adopted(observed, Exited(observed, alive)))
<1> DEFINE exited == Exited(observed, alive)
           adopted == Adopted(observed, exited)
           kept == DOMAIN sessions \ exited
           ids == {AdoptedId(o, adopted) : o \in adopted}
           ById(i) == CHOOSE o \in adopted : AdoptedId(o, adopted) = i
           ByAvd(a) == CHOOSE o \in adopted : o.avd = a
           ByPort(p) == CHOOSE o \in adopted : o.port = p
<1>1. /\ sessions' = [i \in kept \cup ids |->
             IF i \in ids THEN AdoptedSession(ById(i), states'[ById(i).avd], recovered)
             ELSE KeptSession(sessions[i], observed, recovered)]
      /\ by_avd' = [a \in (DOMAIN by_avd \ AvdsOf(exited)) \cup AvdsIn(adopted) |->
             IF a \in AvdsIn(adopted) THEN AdoptedId(ByAvd(a), adopted) ELSE by_avd[a]]
      /\ by_port' = [p \in (DOMAIN by_port \ PortsOf(exited)) \cup PortsIn(adopted) |->
             IF p \in PortsIn(adopted) THEN AdoptedId(ByPort(p), adopted) ELSE by_port[p]]
  BY DEF ReconcileRunning
<1>2. /\ \A o, p \in adopted : o.port = p.port \/ o.avd = p.avd => o = p
      /\ \A o \in adopted : MayAdopt(o, exited)
  BY AdoptedSets
<1>3. \A o \in adopted : /\ AdoptedId(o, adopted) \notin DOMAIN sessions
                         /\ \A p \in adopted : AdoptedId(p, adopted) = AdoptedId(o, adopted) => p = o
  BY AdoptedIds
<1> HIDE DEF exited, adopted
<1>4. ASSUME NEW o \in adopted
      PROVE  ById(AdoptedId(o, adopted)) = o /\ ByAvd(o.avd) = o /\ ByPort(o.port) = o
  BY <1>2, <1>3
<1>5. \A o \in adopted : AdoptedId(o, adopted) \in ids /\ o.avd \in AvdsIn(adopted) /\ o.port \in PortsIn(adopted)
  BY DEF AvdsIn, PortsIn
<1>6. \A i \in kept : i \notin ids
  BY <1>3
<1> HIDE DEF ids, ById, ByAvd, ByPort
<1>7. DOMAIN sessions' = kept \cup ids
  BY <1>1
<1>8. ASSUME NEW i \in kept
      PROVE  /\ sessions'[i].instance = sessions[i].instance
             /\ sessions'[i].generation = sessions[i].generation
             /\ sessions'[i] \in Sessions
             /\ sessions'[i].origin # sessions[i].origin =>
                  sessions[i].origin = "Adopted" /\ sessions'[i].origin = "Recovered"
  <2>1. sessions'[i] = KeptSession(sessions[i], observed, recovered)
    BY <1>1, <1>6
  <2>2. sessions[i] \in Sessions
    BY AvdOf
  <2> QED
    BY <2>1, <2>2 DEF KeptSession, Sessions, Origins
<1>9. ASSUME NEW o \in adopted
      PROVE  \E origin \in {"Recovered", "Adopted"} :
               sessions'[AdoptedId(o, adopted)] =
                 [generation |-> states'[o.avd].generation, origin |-> origin, instance |-> o]
  <2>1. sessions'[AdoptedId(o, adopted)] = AdoptedSession(o, states'[o.avd], recovered)
    BY <1>1, <1>4, <1>5
  <2> QED
    BY <2>1 DEF AdoptedSession
<1>10. ASSUME NEW a \in DOMAIN by_avd \ AvdsOf(exited)
       PROVE  a \notin AvdsIn(adopted) /\ by_avd'[a] = by_avd[a]
  <2>1. a \notin AvdsIn(adopted)
    BY <1>2 DEF AvdsIn, MayAdopt
  <2> QED
    BY <1>1, <2>1
<1>11. ASSUME NEW p \in DOMAIN by_port \ PortsOf(exited)
       PROVE  p \notin PortsIn(adopted) /\ by_port'[p] = by_port[p]
  <2>1. p \notin PortsIn(adopted)
    BY <1>2 DEF PortsIn, MayAdopt
  <2> QED
    BY <1>1, <2>1
<1>12. \A o \in adopted : by_avd'[o.avd] = AdoptedId(o, adopted)
  BY <1>1, <1>4, <1>5
<1>13. \A o \in adopted : by_port'[o.port] = AdoptedId(o, adopted)
  BY <1>1, <1>4, <1>5
<1>14. /\ DOMAIN by_avd' = (DOMAIN by_avd \ AvdsOf(exited)) \cup AvdsIn(adopted)
       /\ DOMAIN by_port' = (DOMAIN by_port \ PortsOf(exited)) \cup PortsIn(adopted)
  BY <1>1
<1> QED
  BY <1>7, <1>8, <1>9, <1>10, <1>11, <1>12, <1>13, <1>14
  DEF exited, adopted, ids, MapsAfterScan

\* Every device after a scan: it has a new session, lost its own, or is as before.
LEMMA ScanStates ==
  ASSUME Inv, NEW observed \in Scans, NEW alive, NEW recovered,
         ReconcileRunning(observed, alive, recovered), NEW a \in Avds
  PROVE  LET exited == Exited(observed, alive)
             adopted == Adopted(observed, exited)
         IN /\ a \in AvdsIn(adopted) =>
                 /\ states'[a].phase = "Running"
                 /\ \A o \in adopted : o.avd = a => states'[a].console_port = o.port
            /\ a \in AvdsOf(exited) \ AvdsIn(adopted) =>
                 states'[a].phase \in {"Stopped", "Error"} /\ states'[a].console_port = NoPort
            /\ a \in AvdsOf(exited) \cup AvdsIn(adopted) =>
                 states'[a].generation \in next_generation + 1 .. next_generation'
            /\ a \notin AvdsOf(exited) \cup AvdsIn(adopted) =>
                 /\ states'[a].generation = states[a].generation
                 /\ states'[a].console_port = states[a].console_port
                 /\ states'[a].phase # states[a].phase =>
                      {states'[a].phase, states[a].phase} \subseteq {"Running"} \cup Recovering
            /\ states'[a] \in DeviceStates
            /\ next_generation' \in Generations /\ next_generation' >= next_generation
<1> DEFINE exited == Exited(observed, alive)
           adopted == Adopted(observed, exited)
           last == next_generation + Cardinality(exited) + Cardinality(adopted)
           s == states[a]
           t == ScannedState(a, observed, exited, adopted)
<1>1. states'[a] = t /\ next_generation' = last /\ last <= MaxGeneration
  BY DEF ReconcileRunning
<1>2. /\ \A o \in adopted : o.avd = a =>
           \E g \in next_generation + 1 .. last : t = State(g, "Running", o.port)
      /\ a \in AvdsOf(exited) \ AvdsIn(adopted) =>
           \E g \in next_generation + 1 .. last, phase \in {"Stopped", "Error"} :
             t = State(g, phase, NoPort)
      /\ a \notin AvdsOf(exited) \cup AvdsIn(adopted) =>
           \E phase \in Phases :
             /\ t = State(s.generation, phase, s.console_port)
             /\ phase # s.phase => {phase, s.phase} \subseteq {"Running"} \cup Recovering
  BY ScannedCases
<1>3. Cardinality(exited) \in Nat
  BY ExitedSets
<1>4. Cardinality(adopted) \in Nat /\ adopted \subseteq Instances
      /\ \A o, p \in adopted : o.avd = p.avd => o = p
  BY AdoptedSets
<1>5. next_generation \in Nat /\ MaxGeneration \in Nat
  BY CounterAssumption DEF Inv, TypeOK, Generations
<1>6. s.generation \in Generations /\ s.console_port \in Ports \cup {NoPort}
  BY StateType
<1>7. \A o \in adopted : o.port \in Ports
  BY <1>4 DEF Instances
<1> HIDE DEF exited, adopted, s, t
<1>8. last \in Generations /\ last >= next_generation
  BY <1>1, <1>3, <1>4, <1>5 DEF Generations
<1>9. \A g \in next_generation + 1 .. last : g \in Generations
  BY <1>5, <1>8 DEF Generations
<1> HIDE DEF last
<1>10. CASE a \in AvdsIn(adopted)
  <2>1. PICK o \in adopted : o.avd = a
    BY <1>10 DEF AvdsIn
  <2>2. PICK g \in next_generation + 1 .. last : t = State(g, "Running", o.port)
    BY <1>2, <2>1
  <2>3. /\ t.phase = "Running" /\ t.console_port = o.port /\ t.generation = g
        /\ \A q \in adopted : q.avd = a => q = o
    BY <1>4, <2>1, <2>2 DEF State
  <2>4. t \in DeviceStates
    BY <1>7, <1>9, <2>2 DEF State, DeviceStates, Phases, Attached
  <2> QED
    BY <1>1, <1>8, <1>10, <2>3, <2>4 DEF exited, adopted
<1>11. CASE a \in AvdsOf(exited) \ AvdsIn(adopted)
  <2>1. PICK g \in next_generation + 1 .. last, phase \in {"Stopped", "Error"} :
          t = State(g, phase, NoPort)
    BY <1>2, <1>11
  <2>2. t.phase \in {"Stopped", "Error"} /\ t.console_port = NoPort /\ t.generation = g
    BY <2>1 DEF State
  <2>3. t \in DeviceStates
    BY <1>9, <2>1 DEF State, DeviceStates, Phases
  <2> QED
    BY <1>1, <1>8, <1>11, <2>2, <2>3 DEF exited, adopted
<1>12. CASE a \notin AvdsOf(exited) \cup AvdsIn(adopted)
  <2>1. PICK phase \in Phases :
          /\ t = State(s.generation, phase, s.console_port)
          /\ phase # s.phase => {phase, s.phase} \subseteq {"Running"} \cup Recovering
    BY <1>2, <1>12
  <2>2. t.phase = phase /\ t.console_port = s.console_port /\ t.generation = s.generation
    BY <2>1 DEF State
  <2>3. t \in DeviceStates
    BY <1>6, <2>1 DEF State, DeviceStates
  <2> QED
    BY <1>1, <1>8, <1>12, <2>1, <2>2, <2>3 DEF exited, adopted, s
<1> QED
  BY <1>10, <1>11, <1>12

\* What the runtime needs of a scan: a device that a start has claimed keeps
\* its state; the sessions that exited leave, and those that come are adopted.
LEMMA ScanKeepsClaimed ==
  ASSUME Inv, NEW observed \in Scans, NEW alive, NEW recovered,
         ReconcileRunning(observed, alive, recovered),
         NEW a \in Avds, states[a].phase \in Claimed
  PROVE  /\ states'[a].generation = states[a].generation
         /\ states'[a].phase = states[a].phase
         /\ states'[a].console_port = states[a].console_port
<1> DEFINE exited == Exited(observed, alive)
           adopted == Adopted(observed, exited)
<1>1. a \notin DOMAIN by_avd
  BY DEF Inv, RegistryIsConsistent, PhaseMatchesSession
<1>2. a \notin AvdsOf(exited)
  <2>1. exited \subseteq DOMAIN sessions
    BY ExitedSets
  <2>2. \A i \in DOMAIN sessions : sessions[i].instance.avd # a
    BY <1>1, AvdOf
  <2> QED
    BY <2>1, <2>2 DEF AvdsOf
<1>3. a \notin AvdsIn(adopted)
  <2>1. \A o \in adopted : MayAdopt(o, exited)
    BY AdoptedSets
  <2> HIDE DEF adopted, exited
  <2> QED
    BY <1>2, <2>1 DEF AvdsIn, MayAdopt, Claimable
<1>4. /\ states'[a].generation = states[a].generation
      /\ states'[a].console_port = states[a].console_port
      /\ states'[a].phase # states[a].phase =>
           {states'[a].phase, states[a].phase} \subseteq {"Running"} \cup Recovering
  BY <1>2, <1>3, ScanStates
<1> QED
  BY <1>4 DEF Claimed, Recovering

LEMMA ScanSessions ==
  ASSUME Inv, NEW observed \in Scans, NEW alive, NEW recovered,
         ReconcileRunning(observed, alive, recovered)
  PROVE  /\ \A i \in DOMAIN sessions : i \in DOMAIN sessions' <=> i \notin Exited(observed, alive)
         /\ \A i \in DOMAIN sessions' \ DOMAIN sessions :
              sessions'[i].instance \in observed /\ sessions'[i].origin # "Managed"
         /\ next_session_id <= next_session_id'
<1> DEFINE exited == Exited(observed, alive)
           adopted == Adopted(observed, exited)
<1>1. MapsAfterScan(exited, adopted)
  BY ScanEffect
<1>2. adopted \subseteq observed /\ Cardinality(adopted) \in Nat
  BY AdoptedSets
<1>3. next_session_id' = next_session_id + Cardinality(adopted)
  BY Zenon DEF ReconcileRunning
<1>4. next_session_id \in Int
  BY CounterAssumption DEF Inv, TypeOK
<1>5. \A o \in adopted : AdoptedId(o, adopted) \notin DOMAIN sessions
  BY AdoptedIds
<1> HIDE DEF adopted, exited
<1>6. /\ DOMAIN sessions' = (DOMAIN sessions \ exited) \cup {AdoptedId(o, adopted) : o \in adopted}
      /\ \A o \in adopted : \E origin \in {"Recovered", "Adopted"} :
           sessions'[AdoptedId(o, adopted)] =
             [generation |-> states'[o.avd].generation, origin |-> origin, instance |-> o]
  BY <1>1 DEF MapsAfterScan
<1>7. \A i \in DOMAIN sessions : i \in DOMAIN sessions' <=> i \notin exited
  BY <1>5, <1>6
<1>8. ASSUME NEW i \in DOMAIN sessions' \ DOMAIN sessions
      PROVE  sessions'[i].instance \in observed /\ sessions'[i].origin # "Managed"
  <2>1. PICK o \in adopted : i = AdoptedId(o, adopted)
    BY <1>6
  <2>2. PICK origin \in {"Recovered", "Adopted"} :
          sessions'[i] = [generation |-> states'[o.avd].generation, origin |-> origin, instance |-> o]
    BY <1>6, <2>1
  <2>3. sessions'[i].instance = o /\ sessions'[i].origin = origin
    BY <2>2
  <2> QED
    BY <1>2, <2>3
<1>9. next_session_id <= next_session_id'
  BY <1>2, <1>3, <1>4
<1> QED
  BY <1>7, <1>8, <1>9 DEF exited

LEMMA ReconcileKeeps ==
  ASSUME Inv, NEW observed \in Scans, NEW alive, NEW recovered,
         ReconcileRunning(observed, alive, recovered)
  PROVE  Inv'
<1> DEFINE exited == Exited(observed, alive)
           adopted == Adopted(observed, exited)
           kept == DOMAIN sessions \ exited
           Id(o) == AdoptedId(o, adopted)
<1>1. /\ exited \subseteq DOMAIN sessions
      /\ \A i \in kept : /\ sessions[i].instance.avd \notin AvdsOf(exited)
                         /\ sessions[i].instance.port \notin PortsOf(exited)
      /\ \A i \in exited : /\ sessions[i].instance.avd \in AvdsOf(exited)
                           /\ sessions[i].instance.port \in PortsOf(exited)
  BY ExitedSets
<1>2. /\ adopted \subseteq Instances /\ PortsIn(adopted) \subseteq Ports
      /\ \A o, p \in adopted : o.port = p.port \/ o.avd = p.avd => o = p
      /\ \A o \in adopted : MayAdopt(o, exited)
      /\ Cardinality(adopted) \in Nat
  BY AdoptedSets
<1>3. \A o \in adopted : Id(o) \in next_session_id + 1 .. next_session_id + Cardinality(adopted)
  BY AdoptedIds
<1>4. /\ DOMAIN sessions' = kept \cup {Id(o) : o \in adopted}
      /\ \A i \in kept :
           /\ sessions'[i].instance = sessions[i].instance
           /\ sessions'[i].generation = sessions[i].generation
           /\ sessions'[i] \in Sessions
      /\ \A o \in adopted : \E origin \in {"Recovered", "Adopted"} :
           sessions'[Id(o)] =
             [generation |-> states'[o.avd].generation, origin |-> origin, instance |-> o]
      /\ DOMAIN by_avd' = (DOMAIN by_avd \ AvdsOf(exited)) \cup AvdsIn(adopted)
      /\ \A a \in DOMAIN by_avd \ AvdsOf(exited) :
           a \notin AvdsIn(adopted) /\ by_avd'[a] = by_avd[a]
      /\ \A o \in adopted : by_avd'[o.avd] = Id(o)
      /\ DOMAIN by_port' = (DOMAIN by_port \ PortsOf(exited)) \cup PortsIn(adopted)
      /\ \A p \in DOMAIN by_port \ PortsOf(exited) :
           p \notin PortsIn(adopted) /\ by_port'[p] = by_port[p]
      /\ \A o \in adopted : by_port'[o.port] = Id(o)
  <2>1. MapsAfterScan(exited, adopted)
    BY ScanEffect
  <2> HIDE DEF exited, adopted
  <2> QED
    BY <2>1 DEF MapsAfterScan
<1>5. ASSUME NEW a \in Avds
      PROVE  /\ a \in AvdsIn(adopted) =>
                  /\ states'[a].phase = "Running"
                  /\ \A o \in adopted : o.avd = a => states'[a].console_port = o.port
             /\ a \in AvdsOf(exited) \ AvdsIn(adopted) =>
                  states'[a].phase \in {"Stopped", "Error"} /\ states'[a].console_port = NoPort
             /\ a \in AvdsOf(exited) \cup AvdsIn(adopted) =>
                  states'[a].generation \in next_generation + 1 .. next_generation'
             /\ a \notin AvdsOf(exited) \cup AvdsIn(adopted) =>
                  /\ states'[a].generation = states[a].generation
                  /\ states'[a].console_port = states[a].console_port
                  /\ states'[a].phase # states[a].phase =>
                       {states'[a].phase, states[a].phase} \subseteq {"Running"} \cup Recovering
             /\ states'[a] \in DeviceStates
  BY ScanStates
<1>6. /\ DOMAIN states' = Avds /\ states' = [a \in Avds |-> states'[a]]
      /\ next_session_id' = next_session_id + Cardinality(adopted)
      /\ next_session_id' <= MaxSessions
      /\ starts' = starts /\ stops' = stops
      /\ next_generation' = next_generation + Cardinality(exited) + Cardinality(adopted)
      /\ next_generation' <= MaxGeneration
  BY DEF ReconcileRunning, commandVars
<1>7. next_generation' \in Generations /\ next_generation' >= next_generation
      /\ next_generation \in Int /\ next_generation' \in Int
  <2>1. Cardinality(exited) \in Nat
    BY ExitedSets
  <2>2. next_generation \in Nat /\ MaxGeneration \in Nat
    BY CounterAssumption DEF Inv, TypeOK, Generations
  <2> HIDE DEF exited, adopted
  <2> QED
    BY <1>2, <1>6, <2>1, <2>2 DEF Generations
<1>8. next_session_id \in Nat /\ DOMAIN sessions \subseteq 1 .. next_session_id
  BY CounterAssumption DEF Inv, TypeOK
<1> HIDE DEF exited, adopted
<1>9. \A o \in adopted : o.avd \in Avds /\ o.port \in Ports /\ o.avd \in AvdsIn(adopted)
                         /\ o.port \in PortsIn(adopted)
  BY <1>2 DEF Instances, AvdsIn, PortsIn
<1>10. \A i \in kept : /\ sessions[i].instance.avd \in DOMAIN by_avd \ AvdsOf(exited)
                       /\ by_avd[sessions[i].instance.avd] = i
                       /\ sessions[i].instance.port \in DOMAIN by_port \ PortsOf(exited)
                       /\ by_port[sessions[i].instance.port] = i
                       /\ sessions[i].instance.avd \in Avds
  BY <1>1, AvdOf DEF Instances
<1> HIDE DEF Id
<1>11. TypeOK'
  <2>1. states' \in [Avds -> DeviceStates]
    BY <1>5, <1>6
  <2>2. next_session_id' \in 0 .. MaxSessions /\ DOMAIN sessions' \subseteq 1 .. next_session_id'
    <3>1. next_session_id' \in Nat /\ MaxSessions \in Nat
      BY <1>2, <1>6, <1>8, CounterAssumption
    <3>2. \A o \in adopted : Id(o) \in 1 .. next_session_id'
      BY <1>2, <1>3, <1>6, <1>8 DEF Id
    <3>3. \A i \in DOMAIN sessions : i \in 1 .. next_session_id'
      BY <1>2, <1>6, <1>8
    <3> QED
      BY <1>4, <1>6, <3>1, <3>2, <3>3
  <2>3. ASSUME NEW i \in DOMAIN sessions'
        PROVE  sessions'[i] \in Sessions
    <3>1. CASE i \in kept
      BY <1>4, <3>1
    <3>2. CASE i \notin kept
      <4>1. PICK o \in adopted : i = Id(o)
        BY <1>4, <3>2
      <4>2. PICK origin \in {"Recovered", "Adopted"} : sessions'[i] =
              [generation |-> states'[o.avd].generation, origin |-> origin, instance |-> o]
        BY <1>4, <4>1
      <4>3. states'[o.avd].generation \in Generations
        BY <1>5, <1>9 DEF DeviceStates
      <4> QED
        BY <1>2, <4>2, <4>3 DEF Sessions, Origins
    <3> QED
      BY <3>1, <3>2
  <2>4. DOMAIN by_avd' \subseteq Avds /\ DOMAIN by_port' \subseteq Ports
    <3>1. DOMAIN by_avd \subseteq Avds /\ DOMAIN by_port \subseteq Ports
      BY DEF Inv, TypeOK
    <3>2. AvdsIn(adopted) \subseteq Avds
      BY <1>9 DEF AvdsIn
    <3> QED
      BY <1>2, <1>4, <3>1, <3>2
  <2> QED
    BY <1>6, <1>7, <2>1, <2>2, <2>3, <2>4 DEF Inv, TypeOK
<1>12. ASSUME NEW i \in DOMAIN sessions', i \notin kept
       PROVE  \E o \in adopted : /\ i = Id(o) /\ sessions'[i].instance = o
                                 /\ sessions'[i].generation = states'[o.avd].generation
  <2>1. PICK o \in adopted : i = Id(o)
    BY <1>4, <1>12
  <2>2. PICK origin \in {"Recovered", "Adopted"} : sessions'[i] =
          [generation |-> states'[o.avd].generation, origin |-> origin, instance |-> o]
    BY <1>4, <2>1
  <2> QED
    BY <2>1, <2>2
<1>13. IndexesAgree'
  <2>1. ASSUME NEW i \in DOMAIN sessions'
        PROVE  /\ sessions'[i].instance.avd \in DOMAIN by_avd'
               /\ by_avd'[sessions'[i].instance.avd] = i
               /\ sessions'[i].instance.port \in DOMAIN by_port'
               /\ by_port'[sessions'[i].instance.port] = i
    <3>1. CASE i \in kept
      BY <1>4, <1>10, <3>1
    <3>2. CASE i \notin kept
      <4>1. PICK o \in adopted : i = Id(o) /\ sessions'[i].instance = o
        BY <1>12, <3>2
      <4> QED
        BY <1>4, <1>9, <4>1
    <3> QED
      BY <3>1, <3>2
  <2>2. ASSUME NEW b \in DOMAIN by_avd'
        PROVE  by_avd'[b] \in DOMAIN sessions' /\ sessions'[by_avd'[b]].instance.avd = b
    <3>1. CASE b \in AvdsIn(adopted)
      <4>1. PICK o \in adopted : o.avd = b
        BY <3>1 DEF AvdsIn
      <4>2. by_avd'[b] = Id(o) /\ Id(o) \in DOMAIN sessions'
        BY <1>4, <4>1
      <4>3. PICK origin \in {"Recovered", "Adopted"} : sessions'[Id(o)] =
              [generation |-> states'[o.avd].generation, origin |-> origin, instance |-> o]
        BY <1>4
      <4>4. sessions'[Id(o)].instance = o
        BY <4>3
      <4> QED
        BY <4>1, <4>2, <4>4
    <3>2. CASE b \in DOMAIN by_avd \ AvdsOf(exited)
      <4>1. by_avd[b] \in DOMAIN sessions /\ sessions[by_avd[b]].instance.avd = b
        BY <3>2, SessionOf
      <4>2. by_avd[b] \in kept
        BY <1>1, <3>2, <4>1
      <4> QED
        BY <1>4, <3>2, <4>1, <4>2
    <3> QED
      BY <1>4, <3>1, <3>2
  <2>3. ASSUME NEW q \in DOMAIN by_port'
        PROVE  by_port'[q] \in DOMAIN sessions' /\ sessions'[by_port'[q]].instance.port = q
    <3>1. CASE q \in PortsIn(adopted)
      <4>1. PICK o \in adopted : o.port = q
        BY <3>1 DEF PortsIn
      <4>2. by_port'[q] = Id(o) /\ Id(o) \in DOMAIN sessions'
        BY <1>4, <4>1
      <4>3. PICK origin \in {"Recovered", "Adopted"} : sessions'[Id(o)] =
              [generation |-> states'[o.avd].generation, origin |-> origin, instance |-> o]
        BY <1>4
      <4>4. sessions'[Id(o)].instance = o
        BY <4>3
      <4> QED
        BY <4>1, <4>2, <4>4
    <3>2. CASE q \in DOMAIN by_port \ PortsOf(exited)
      <4>1. by_port[q] \in DOMAIN sessions /\ sessions[by_port[q]].instance.port = q
        BY <3>2 DEF Inv, RegistryIsConsistent, IndexesAgree
      <4>2. by_port[q] \in kept
        BY <1>1, <3>2, <4>1
      <4> QED
        BY <1>4, <3>2, <4>1, <4>2
    <3> QED
      BY <1>4, <3>1, <3>2
  <2> QED
    BY <2>1, <2>2, <2>3 DEF IndexesAgree
<1>14. PhaseMatchesSession'
  <2> SUFFICES ASSUME NEW a \in Avds
               PROVE  /\ states'[a].phase \in Attached => a \in DOMAIN by_avd'
                      /\ states'[a].phase \in Claimed \cup {"Stopped"} => a \notin DOMAIN by_avd'
    BY DEF PhaseMatchesSession
  <2>1. CASE a \in AvdsIn(adopted)
    BY <1>4, <1>5, <2>1 DEF Claimed
  <2>2. CASE a \in AvdsOf(exited) \ AvdsIn(adopted)
    BY <1>4, <1>5, <2>2 DEF Attached, Recovering
  <2>3. CASE a \notin AvdsOf(exited) \cup AvdsIn(adopted)
    <3>1. a \in DOMAIN by_avd' <=> a \in DOMAIN by_avd
      BY <1>4, <2>3
    <3>2. /\ states[a].phase \in Attached => a \in DOMAIN by_avd
          /\ states[a].phase \in Claimed \cup {"Stopped"} => a \notin DOMAIN by_avd
      BY DEF Inv, RegistryIsConsistent, PhaseMatchesSession
    <3> QED
      BY <1>5, <2>3, <3>1, <3>2 DEF Attached, Claimed, Recovering
  <2> QED
    BY <2>1, <2>2, <2>3
<1>15. SessionStateCurrent'
  <2> SUFFICES ASSUME NEW i \in DOMAIN sessions'
               PROVE  LET s == states'[sessions'[i].instance.avd]
                      IN /\ s.console_port = sessions'[i].instance.port
                         /\ s.phase \in {"Running"} \cup Recovering =>
                              s.generation = sessions'[i].generation
                         /\ s.phase = "Stopping" => s.generation > sessions'[i].generation
    BY DEF SessionStateCurrent
  <2>1. CASE i \in kept
    <3> DEFINE a == sessions[i].instance.avd
    <3>1. a \in Avds /\ a \notin AvdsOf(exited) \cup AvdsIn(adopted)
      BY <1>4, <1>10, <2>1
    <3>2. /\ states[a].console_port = sessions[i].instance.port
          /\ states[a].phase \in {"Running"} \cup Recovering =>
               states[a].generation = sessions[i].generation
          /\ states[a].phase = "Stopping" => states[a].generation > sessions[i].generation
      BY <2>1 DEF Inv, RegistryIsConsistent, SessionStateCurrent
    <3>3. sessions'[i].instance = sessions[i].instance /\ sessions'[i].generation = sessions[i].generation
      BY <1>4, <2>1
    <3> QED
      BY <1>5, <3>1, <3>2, <3>3 DEF Recovering
  <2>2. CASE i \notin kept
    <3>1. PICK o \in adopted : /\ sessions'[i].instance = o
                               /\ sessions'[i].generation = states'[o.avd].generation
      BY <1>12, <2>2
    <3> QED
      BY <1>5, <1>9, <3>1
  <2> QED
    BY <2>1, <2>2
<1>16. OneCurrentCommand'
  <2> SUFFICES ASSUME NEW b \in Avds
               PROVE  /\ \A d, e \in CurrentStarts(b)' : d = e
                      /\ \A d, e \in CurrentStops(b)' : d = e
                      /\ CurrentStarts(b)' # {} => states'[b].phase \in Claimed
                      /\ CurrentStops(b)' # {} => states'[b].phase = "Stopping"
    BY DEF OneCurrentCommand
  <2>1. CASE b \in AvdsOf(exited) \cup AvdsIn(adopted)
    <3>1. states'[b].generation \in Int /\ states'[b].generation > next_generation
      BY <1>5, <1>7, <2>1
    <3>2. \A c \in starts \cup stops : c.generation \in Int /\ c.generation <= next_generation
      BY GenerationTypes DEF Inv, GenerationsAreIssued
    <3>3. CurrentStarts(b)' = {} /\ CurrentStops(b)' = {}
      BY <1>6, <1>7, <3>1, <3>2 DEF CurrentStarts, CurrentStops, IsCurrent
    <3> QED
      BY <3>3
  <2>2. CASE b \notin AvdsOf(exited) \cup AvdsIn(adopted)
    <3>1. CurrentStarts(b)' = CurrentStarts(b) /\ CurrentStops(b)' = CurrentStops(b)
      BY <1>5, <1>6, <2>2 DEF CurrentStarts, CurrentStops, IsCurrent
    <3>2. /\ CurrentStarts(b) # {} => states[b].phase \in Claimed
          /\ CurrentStops(b) # {} => states[b].phase = "Stopping"
      BY DEF Inv, OneCurrentCommand
    <3>3. states[b].phase \in Claimed \cup {"Stopping"} => states'[b].phase = states[b].phase
      BY <1>5, <2>2 DEF Claimed, Recovering
    <3> QED
      BY <3>1, <3>2, <3>3 DEF Inv, OneCurrentCommand
  <2> QED
    BY <2>1, <2>2
<1>17. GenerationsAreIssued'
  <2>1. ASSUME NEW a \in Avds PROVE states'[a].generation <= next_generation'
    <3>1. CASE a \in AvdsOf(exited) \cup AvdsIn(adopted)
      BY <1>5, <1>7, <3>1
    <3>2. CASE a \notin AvdsOf(exited) \cup AvdsIn(adopted)
      <4>1. states[a].generation <= next_generation /\ states[a].generation \in Int
        BY StateType DEF Inv, GenerationsAreIssued, Generations
      <4> QED
        BY <1>5, <1>7, <3>2, <4>1
    <3> QED
      BY <3>1, <3>2
  <2>2. ASSUME NEW i \in DOMAIN sessions' PROVE sessions'[i].generation <= next_generation'
    <3>1. CASE i \in kept
      <4>1. sessions[i].generation <= next_generation /\ sessions[i].generation \in Int
        BY <3>1, AvdOf DEF Inv, GenerationsAreIssued, Sessions, Generations
      <4> QED
        BY <1>4, <1>7, <3>1, <4>1
    <3>2. CASE i \notin kept
      BY <1>9, <1>12, <2>1, <3>2
    <3> QED
      BY <3>1, <3>2
  <2>3. \A c \in starts \cup stops : c.generation \in Int /\ c.generation <= next_generation
    BY GenerationTypes DEF Inv, GenerationsAreIssued
  <2>4. \A c \in starts' \cup stops' : c.generation <= next_generation'
    BY <1>6, <1>7, <2>3
  <2> QED
    BY <2>1, <2>2, <2>4 DEF GenerationsAreIssued
<1>18. StoppedHasNoPort'
  <2> SUFFICES ASSUME NEW a \in Avds, states'[a].phase = "Stopped"
               PROVE  states'[a].console_port = NoPort
    BY DEF StoppedHasNoPort
  <2>1. CASE a \in AvdsOf(exited) \cup AvdsIn(adopted)
    BY <1>5, <2>1
  <2>2. CASE a \notin AvdsOf(exited) \cup AvdsIn(adopted)
    BY <1>5, <2>2 DEF Inv, StoppedHasNoPort, Recovering
  <2> QED
    BY <2>1, <2>2
<1> QED
  BY <1>11, <1>13, <1>14, <1>15, <1>16, <1>17, <1>18 DEF Inv, RegistryIsConsistent

-----------------------------------------------------------------------------
(* Every step keeps the invariant.                                          *)

LEMMA InitInv == Init => Inv
<1> SUFFICES ASSUME Init PROVE Inv
  OBVIOUS
<1>1. MaxGeneration \in Nat /\ MaxSessions \in Nat /\ 0 \in Generations /\ 0 \in 0 .. MaxSessions
  BY CounterAssumption DEF Generations
<1>2. DOMAIN sessions = {} /\ DOMAIN by_avd = {} /\ DOMAIN by_port = {}
  BY DEF Init
<1>3. \A a \in Avds : states[a] = [generation |-> 0, phase |-> "Stopped", console_port |-> NoPort]
  BY DEF Init, State
<1>4. TypeOK
  BY <1>1, <1>2 DEF Init, TypeOK, State, DeviceStates, Phases
<1>5. RegistryIsConsistent
  BY <1>2, <1>3
     DEF RegistryIsConsistent, IndexesAgree, PhaseMatchesSession, SessionStateCurrent,
         Attached, Recovering
<1>6. OneCurrentCommand
  BY DEF Init, OneCurrentCommand, CurrentStarts, CurrentStops
<1>7. GenerationsAreIssued /\ StoppedHasNoPort
  BY <1>2, <1>3 DEF Init, GenerationsAreIssued, StoppedHasNoPort
<1> QED
  BY <1>4, <1>5, <1>6, <1>7 DEF Inv

\* A route names the AVD of its session.
LEMMA RouteAvd ==
  ASSUME Inv, NEW r \in Routes
  PROVE  r.avd \in DOMAIN by_avd /\ r.avd \in Avds
<1>1. PICK i \in DOMAIN sessions : r = RouteOf(i)
  BY DEF Routes
<1> QED
  BY <1>1, AvdOf, SessionOf DEF RouteOf

LEMMA StepInv ==
  ASSUME Inv, [Next]_registryVars
  PROVE  Inv'
<1>1. ASSUME NEW a \in Avds, BeginStart(a) \/ CancelQueued(a) \/ BeginStop(a) \/ Projection(a)
      PROVE  Inv'
  BY <1>1, BeginStartKeeps, CancelQueuedKeeps, BeginStopKeeps, ProjectionKeeps
<1>2. ASSUME NEW c \in starts, StartStep(c)
      PROVE  Inv'
  <2>1. CASE (\E phase \in Claimed : MarkStart(c, phase)) \/ \E port \in Ports : AttachStartPort(c, port)
    BY <2>1, MarkStartKeeps
  <2>2. CASE \E pid \in Pids : CompleteStart(c, pid)
    BY <2>2, CompleteStartKeeps
  <2>3. CASE FailStart(c)
    BY <2>3, FailStartKeeps
  <2>4. CASE DropStart(c)
    BY <2>4, NothingWritten DEF DropStart
  <2> QED
    BY <1>2, <2>1, <2>2, <2>3, <2>4 DEF StartStep
<1>3. ASSUME NEW c \in stops, StopStep(c)
      PROVE  Inv'
  <2>1. CASE CompleteStop(c)
    BY <2>1, CompleteStopKeeps
  <2>2. CASE FailStop(c)
    BY <2>2, FailStopKeeps
  <2>3. CASE DropStop(c)
    BY <2>3, NothingWritten DEF DropStop
  <2> QED
    BY <1>3, <2>1, <2>2, <2>3 DEF StopStep
<1>4. ASSUME NEW r \in Routes, BeginStopRoute(r) \/ ControlLost(r) \/ ControlBack(r)
      PROVE  Inv'
  <2>1. CASE BeginStopRoute(r)
    BY <2>1, RouteAvd, BeginStopKeeps DEF BeginStopRoute
  <2>2. CASE ControlLost(r) \/ ControlBack(r)
    BY <2>2, ControlKeeps
  <2> QED
    BY <1>4, <2>1, <2>2
<1>5. ASSUME Scan
      PROVE  Inv'
  BY <1>5, ReconcileKeeps DEF Scan
<1>6. ASSUME UNCHANGED registryVars
      PROVE  Inv'
  BY <1>6, NothingWritten DEF registryVars, commandVars
<1> QED
  BY <1>1, <1>2, <1>3, <1>4, <1>5, <1>6 DEF Next

LEMMA RegistryInvariant == Spec => []Inv
BY InitInv, StepInv, PTL DEF Spec

-----------------------------------------------------------------------------
(* What a step may do to a session and to a device.                         *)

SessionsKept ==
  /\ \A i \in DOMAIN sessions \cap DOMAIN sessions' :
       /\ sessions'[i].instance = sessions[i].instance
       /\ sessions'[i].generation = sessions[i].generation
       /\ sessions'[i].origin # sessions[i].origin =>
            sessions[i].origin = "Adopted" /\ sessions'[i].origin = "Recovered"
  /\ \A i \in DOMAIN sessions' \ DOMAIN sessions : i > next_session_id

LEMMA StepKeepsSessions ==
  ASSUME Inv, [Next]_registryVars
  PROVE  SessionsKept
<1>1. ASSUME NEW c \in starts, NEW pid \in Pids, CompleteStart(c, pid)
      PROVE  SessionsKept
  <2>1. next_session_id \in Nat /\ DOMAIN sessions \subseteq 1 .. next_session_id
    BY CounterAssumption DEF Inv, TypeOK
  <2>2. next_session_id + 1 \notin DOMAIN sessions /\ next_session_id + 1 > next_session_id
    BY <2>1
  <2>3. /\ DOMAIN sessions' = DOMAIN sessions \cup {next_session_id + 1}
        /\ \A i \in DOMAIN sessions : sessions'[i] = sessions[i]
    BY <1>1, <2>2 DEF CompleteStart, AddSession, With
  <2> QED
    BY <2>2, <2>3 DEF SessionsKept
<1>2. ASSUME NEW c \in stops, CompleteStop(c)
      PROVE  SessionsKept
  BY <1>2 DEF CompleteStop, RemoveSession, Without, SessionsKept
<1>3. ASSUME Scan
      PROVE  SessionsKept
  <2>1. PICK observed \in Scans :
          \E alive \in SUBSET {sessions[i].instance : i \in Missing(observed)},
             recovered \in SUBSET observed :
            ReconcileRunning(observed, alive, recovered)
    BY <1>3 DEF Scan
  <2>2. PICK alive, recovered : ReconcileRunning(observed, alive, recovered)
    BY <2>1
  <2> DEFINE exited == Exited(observed, alive)
             adopted == Adopted(observed, exited)
  <2>3. MapsAfterScan(exited, adopted)
    BY <2>2, ScanEffect
  <2>4. ASSUME NEW o \in adopted
        PROVE  AdoptedId(o, adopted) > next_session_id /\ AdoptedId(o, adopted) \notin DOMAIN sessions
    <3>1. /\ AdoptedId(o, adopted) \in next_session_id + 1 .. next_session_id + Cardinality(adopted)
          /\ AdoptedId(o, adopted) \notin DOMAIN sessions
      BY AdoptedIds
    <3>2. next_session_id \in Nat
      BY CounterAssumption DEF Inv, TypeOK
    <3> HIDE DEF adopted
    <3> QED
      BY <3>1, <3>2
  <2> HIDE DEF exited, adopted
  <2> QED
    BY <2>3, <2>4 DEF MapsAfterScan, SessionsKept
<1>4. ASSUME sessions' = sessions
      PROVE  SessionsKept
  BY <1>4 DEF SessionsKept
<1>5. ASSUME NEW a \in Avds, BeginStart(a) \/ CancelQueued(a) \/ BeginStop(a) \/ Projection(a)
      PROVE  SessionsKept
  BY <1>4, <1>5 DEF BeginStart, CancelQueued, BeginStop, Projection, sessionVars
<1>6. ASSUME NEW c \in starts, StartStep(c)
      PROVE  SessionsKept
  BY <1>1, <1>4, <1>6
     DEF StartStep, MarkStart, AttachStartPort, FailStart, DropStart, sessionVars
<1>7. ASSUME NEW c \in stops, StopStep(c)
      PROVE  SessionsKept
  BY <1>2, <1>4, <1>7 DEF StopStep, FailStop, DropStop, sessionVars
<1>8. ASSUME NEW r \in Routes, BeginStopRoute(r) \/ ControlLost(r) \/ ControlBack(r)
      PROVE  SessionsKept
  BY <1>4, <1>8 DEF BeginStopRoute, BeginStop, ControlLost, ControlBack, sessionVars
<1>9. ASSUME UNCHANGED registryVars
      PROVE  SessionsKept
  BY <1>4, <1>9 DEF registryVars, sessionVars
<1> QED
  BY <1>3, <1>5, <1>6, <1>7, <1>8, <1>9 DEF Next

\* A device moves on to a newer generation or stays with its own; a start
\* under way loses it only when it is cancelled in the queue, and a finished
\* generation stays finished.
DeviceStep(s, t) ==
  /\ t.generation >= s.generation
  /\ s.phase \in Claimed /\ t.generation # s.generation =>
       s.phase = "Queued" /\ t.phase = "Stopped"
  /\ t.generation = s.generation /\ s.phase \in {"Stopped", "Error"} => t.phase = s.phase

DevicesStep == \A a \in Avds : DeviceStep(states[a], states'[a])

\* A step that writes one device.
LEMMA OneDeviceStep ==
  ASSUME Inv, NEW a \in Avds, NEW t,
         states' = [states EXCEPT ![a] = t], DeviceStep(states[a], t)
  PROVE  DevicesStep
<1>1. \A b \in Avds : DeviceStep(states[b], states[b])
  BY StateType, GenerationTypes DEF DeviceStep
<1>2. \A b \in Avds \ {a} : states'[b] = states[b]
  BY DEF Inv, TypeOK
<1>3. states'[a] = t
  BY DEF Inv, TypeOK
<1> QED
  BY <1>1, <1>2, <1>3 DEF DevicesStep

\* A device renewed by a command, and one written under its own generation.
LEMMA RenewStep ==
  ASSUME Inv, NEW a \in Avds, NEW phase, NEW port, Renew(a, phase, port),
         states[a].phase \notin Claimed \/ (states[a].phase = "Queued" /\ phase = "Stopped")
  PROVE  DevicesStep
<1> DEFINE t == State(next_generation + 1, phase, port)
<1>1. t.generation = next_generation + 1 /\ t.phase = phase
  BY DEF State
<1>2. states[a].generation \in Int /\ states[a].generation <= next_generation /\ next_generation \in Int
  BY StateType, GenerationTypes DEF Inv, GenerationsAreIssued
<1>3. states' = [states EXCEPT ![a] = t]
  BY DEF Renew
<1>4. DeviceStep(states[a], t)
  BY <1>1, <1>2 DEF DeviceStep
<1> HIDE DEF t
<1> QED
  BY <1>3, <1>4, OneDeviceStep

LEMMA RewriteStep ==
  ASSUME Inv, NEW a \in Avds, NEW t, states' = [states EXCEPT ![a] = t],
         t.generation = states[a].generation,
         states[a].phase \in {"Stopped", "Error"} => t.phase = states[a].phase
  PROVE  DevicesStep
<1>1. states[a].generation \in Int
  BY StateType, GenerationTypes
<1>2. DeviceStep(states[a], t)
  BY <1>1 DEF DeviceStep
<1> QED
  BY <1>2, OneDeviceStep

LEMMA ScanStep ==
  ASSUME Inv, NEW observed \in Scans, NEW alive, NEW recovered,
         ReconcileRunning(observed, alive, recovered)
  PROVE  DevicesStep
<1> SUFFICES ASSUME NEW a \in Avds PROVE DeviceStep(states[a], states'[a])
  BY DEF DevicesStep
<1> DEFINE exited == Exited(observed, alive)
           adopted == Adopted(observed, exited)
<1>1. /\ a \in AvdsOf(exited) \cup AvdsIn(adopted) =>
           states'[a].generation \in next_generation + 1 .. next_generation'
      /\ a \notin AvdsOf(exited) \cup AvdsIn(adopted) =>
           /\ states'[a].generation = states[a].generation
           /\ states'[a].phase # states[a].phase =>
                {states'[a].phase, states[a].phase} \subseteq {"Running"} \cup Recovering
  BY ScanStates
<1>2. \A o \in adopted : MayAdopt(o, exited)
  BY AdoptedSets
<1>3. exited \subseteq DOMAIN sessions
  BY ExitedSets
<1>4. /\ states[a].generation \in Int /\ states[a].generation <= next_generation
      /\ next_generation \in Int /\ next_generation' \in Int
  <2>1. next_generation' \in Generations
    BY ScanStates
  <2> QED
    BY <2>1, StateType, GenerationTypes DEF Inv, GenerationsAreIssued
<1> HIDE DEF exited, adopted
<1>5. a \in AvdsOf(exited) => states[a].phase \notin Claimed
  <2>1. a \in AvdsOf(exited) => a \in DOMAIN by_avd
    BY <1>3, AvdOf DEF AvdsOf
  <2> QED
    BY <2>1 DEF Inv, RegistryIsConsistent, PhaseMatchesSession
<1>6. a \in AvdsIn(adopted) => states[a].phase \notin Claimed
  BY <1>2, <1>5 DEF AvdsIn, MayAdopt, Claimable
<1>7. CASE a \in AvdsOf(exited) \cup AvdsIn(adopted)
  BY <1>1, <1>4, <1>5, <1>6, <1>7 DEF DeviceStep
<1>8. CASE a \notin AvdsOf(exited) \cup AvdsIn(adopted)
  BY <1>1, <1>4, <1>8 DEF DeviceStep, Recovering
<1> QED
  BY <1>7, <1>8

LEMMA StartStepsDevice ==
  ASSUME Inv, NEW c \in starts, StartStep(c)
  PROVE  DevicesStep
<1> DEFINE a == c.avd
<1>1. a \in Avds /\ states \in [Avds -> DeviceStates]
  BY GenerationTypes DEF Inv, TypeOK
<1>2. IsCurrent(a, c.generation) =>
        states[a].phase \in Claimed /\ states[a].generation = c.generation
  BY CurrentStart DEF IsCurrent
<1>3. ASSUME NEW t, states' = [states EXCEPT ![a] = t], IsCurrent(a, c.generation),
             t.generation = states[a].generation
      PROVE  DevicesStep
  BY <1>1, <1>2, <1>3, RewriteStep DEF Claimed
<1>4. ASSUME NEW phase, Update(a, c.generation, phase)
      PROVE  DevicesStep
  <2>1. Updated(states[a], phase).generation = states[a].generation
    BY DEF Updated, State
  <2> QED
    BY <1>3, <1>4, <2>1 DEF Update
<1>5. ASSUME NEW port \in Ports, AttachStartPort(c, port)
      PROVE  DevicesStep
  <2> DEFINE t == [states[a] EXCEPT !.console_port = port]
  <2>1. t.generation = states[a].generation
    BY <1>1 DEF DeviceStates
  <2>2. states' = [states EXCEPT ![a] = t]
    BY <1>5, <1>1 DEF AttachStartPort
  <2> HIDE DEF t
  <2> QED
    BY <1>3, <1>5, <2>1, <2>2 DEF AttachStartPort
<1>6. ASSUME FailStart(c)
      PROVE  DevicesStep
  <2>1. State(c.generation, "Error", NoPort).generation = c.generation
    BY DEF State
  <2> QED
    BY <1>2, <1>3, <1>6, <2>1 DEF FailStart
<1>7. ASSUME DropStart(c)
      PROVE  DevicesStep
  <2>1. \A b \in Avds : states[b].generation \in Int
    BY StateType, GenerationTypes
  <2> QED
    BY <1>7, <2>1 DEF DropStart, stateVars, DevicesStep, DeviceStep
<1> QED
  BY <1>4, <1>5, <1>6, <1>7 DEF StartStep, MarkStart, CompleteStart

LEMMA StopStepsDevice ==
  ASSUME Inv, NEW c \in stops, StopStep(c)
  PROVE  DevicesStep
<1> DEFINE a == c.avd
<1>1. IsCurrent(a, c.generation) =>
        /\ a \in Avds /\ states[a].phase = "Stopping" /\ states[a].generation = c.generation
  BY CurrentStop DEF IsCurrent
<1>2. ASSUME NEW t, states' = [states EXCEPT ![a] = t], IsCurrent(a, c.generation),
             t.generation = c.generation
      PROVE  DevicesStep
  BY <1>1, <1>2, RewriteStep
<1>3. ASSUME CompleteStop(c)
      PROVE  DevicesStep
  <2>1. Updated(states[a], "Stopped").generation = states[a].generation
    BY DEF Updated, State
  <2> QED
    BY <1>1, <1>2, <1>3, <2>1 DEF CompleteStop, StopIsCurrent, Update
<1>4. ASSUME FailStop(c)
      PROVE  DevicesStep
  <2> DEFINE t == State(c.generation, "Error", sessions[c.session].instance.port)
  <2>1. t.generation = c.generation
    BY DEF State
  <2>2. states' = [states EXCEPT ![a] = t]
    BY <1>4 DEF FailStop
  <2> HIDE DEF t
  <2> QED
    BY <1>2, <1>4, <2>1, <2>2 DEF FailStop, StopIsCurrent
<1>5. ASSUME DropStop(c)
      PROVE  DevicesStep
  <2>1. \A b \in Avds : states[b].generation \in Int
    BY StateType, GenerationTypes
  <2> QED
    BY <1>5, <2>1 DEF DropStop, stateVars, DevicesStep, DeviceStep
<1> QED
  BY <1>3, <1>4, <1>5 DEF StopStep

LEMMA StepDevices ==
  ASSUME Inv, [Next]_registryVars
  PROVE  DevicesStep
<1>1. \A a \in DOMAIN by_avd : a \in Avds /\ states[a].phase \notin Claimed
  BY SessionOf DEF Inv, RegistryIsConsistent, PhaseMatchesSession
<1>2. ASSUME NEW a \in DOMAIN by_avd, BeginStop(a)
      PROVE  DevicesStep
  BY <1>1, <1>2, RenewStep DEF BeginStop
<1>3. ASSUME states' = states
      PROVE  DevicesStep
  <2>1. \A b \in Avds : states[b].generation \in Int
    BY StateType, GenerationTypes
  <2> QED
    BY <1>3, <2>1 DEF DevicesStep, DeviceStep
<1>4. ASSUME NEW a \in Avds, BeginStart(a) \/ CancelQueued(a) \/ BeginStop(a) \/ Projection(a)
      PROVE  DevicesStep
  <2>1. CASE BeginStart(a)
    BY <2>1, RenewStep DEF BeginStart, MayStart, AllowsStart, Claimed
  <2>2. CASE CancelQueued(a)
    BY <2>2, RenewStep DEF CancelQueued, ForceStopped
  <2>3. CASE BeginStop(a)
    BY <1>2, <2>3 DEF BeginStop
  <2>4. CASE Projection(a)
    <3>1. ReconcileScan(a, SessionPort(a)) = states[a]
      BY ProjectionQuiet DEF ProjectionIsQuiet
    <3>2. states' = states
      BY <2>4, <3>1 DEF Projection, Inv, TypeOK
    <3> QED
      BY <1>3, <3>2
  <2> QED
    BY <1>4, <2>1, <2>2, <2>3, <2>4
<1>5. ASSUME NEW r \in Routes, BeginStopRoute(r) \/ ControlLost(r) \/ ControlBack(r)
      PROVE  DevicesStep
  <2> DEFINE a == r.avd
  <2>1. a \in DOMAIN by_avd /\ a \in Avds
    BY RouteAvd
  <2>2. CASE BeginStopRoute(r)
    BY <1>2, <2>1, <2>2 DEF BeginStopRoute
  <2>3. CASE ControlLost(r) \/ ControlBack(r)
    <3>1. PICK phase : Update(a, r.generation, phase)
      BY <2>3 DEF ControlLost, ControlBack
    <3> DEFINE t == Updated(states[a], phase)
    <3>2. t.generation = states[a].generation /\ states' = [states EXCEPT ![a] = t]
      BY <3>1 DEF Updated, State, Update
    <3>3. states[a].phase \notin {"Stopped", "Error"}
      BY <2>3 DEF ControlLost, ControlBack
    <3> HIDE DEF t
    <3> QED
      BY <2>1, <3>2, <3>3, RewriteStep
  <2> QED
    BY <1>5, <2>2, <2>3
<1>6. ASSUME Scan
      PROVE  DevicesStep
  BY <1>6, ScanStep DEF Scan
<1>7. ASSUME UNCHANGED registryVars
      PROVE  DevicesStep
  BY <1>3, <1>7 DEF registryVars, stateVars
<1> QED
  BY <1>4, <1>5, <1>6, <1>7, StartStepsDevice, StopStepsDevice DEF Next

-----------------------------------------------------------------------------
(* The theorems.                                                            *)

\* The maps and counters of InstanceRegistry and of DeviceStateStore keep their
\* types, and every command in a worker's hands names an AVD and a generation
\* that was handed out (core/instance.rs).
THEOREM TypeCorrect == Spec => []TypeOK
<1>1. Inv => TypeOK
  BY DEF Inv
<1> QED
  BY <1>1, RegistryInvariant, PTL

\* The three maps of InstanceRegistry describe the same sessions and agree with
\* the phase DeviceStateStore shows, after every command and every scan
\* (core/instance.rs).
THEOREM RegistryIsConsistentCorrect == Spec => []RegistryIsConsistent
<1>1. Inv => RegistryIsConsistent
  BY DEF Inv
<1> QED
  BY <1>1, RegistryInvariant, PTL

\* Of the start and stop commands the workers hold for one AVD at most one is
\* current: the checks of update and verify_stop_command refuse every other.
THEOREM OneCurrentCommandCorrect == Spec => []OneCurrentCommand
<1>1. Inv => OneCurrentCommand
  BY DEF Inv
<1> QED
  BY <1>1, RegistryInvariant, PTL

\* projection writes back through reconcile_scan what was there already.
THEOREM ProjectionIsQuietCorrect == Spec => []ProjectionIsQuiet
<1>1. Inv => ProjectionIsQuiet
  BY ProjectionQuiet
<1> QED
  BY <1>1, RegistryInvariant, PTL

\* A session is never handed to another process, and a session id is never
\* used again, by any command or scan (reconcile_running_with_probe,
\* complete_start_with_resources).
THEOREM SessionKeepsIdentityCorrect == Spec => SessionKeepsIdentity
<1>1. Inv /\ [Next]_registryVars => [SessionsKept]_registryVars
  BY StepKeepsSessions
<1>2. Spec => [][SessionsKept]_registryVars
  BY <1>1, RegistryInvariant, PTL DEF Spec
<1> QED
  BY <1>2 DEF SessionKeepsIdentity, SessionsKept

\* Only cancel_queued takes a device from a start under way; no scan does, even
\* one that sees the booting engine before complete_start commits it.
THEOREM StartOwnsDeviceCorrect == Spec => StartOwnsDevice
<1> DEFINE A == \A a \in Avds :
                  /\ states[a].phase \in Claimed
                  /\ states'[a].generation # states[a].generation
                  => states[a].phase = "Queued" /\ states'[a].phase = "Stopped"
<1>1. Inv /\ [Next]_registryVars => [A]_registryVars
  BY StepDevices DEF DevicesStep, DeviceStep
<1>2. Spec => [][A]_registryVars
  BY <1>1, RegistryInvariant, PTL DEF Spec
<1> QED
  BY <1>2 DEF StartOwnsDevice

\* Generations only grow, and a device that stopped or failed changes its phase
\* only under a new one: no late result of a worker reaches it.
THEOREM FinishedGenerationIsFinalCorrect == Spec => FinishedGenerationIsFinal
<1> DEFINE A == \A a \in Avds :
                  /\ states'[a].generation >= states[a].generation
                  /\ /\ states'[a].generation = states[a].generation
                     /\ states[a].phase \in {"Stopped", "Error"}
                     => states'[a].phase = states[a].phase
<1>1. Inv /\ [Next]_registryVars => [A]_registryVars
  BY StepDevices DEF DevicesStep, DeviceStep
<1>2. Spec => [][A]_registryVars
  BY <1>1, RegistryInvariant, PTL DEF Spec
<1> QED
  BY <1>2 DEF FinishedGenerationIsFinal

=============================================================================
