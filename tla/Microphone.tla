----------------------------- MODULE Microphone -----------------------------
(***************************************************************************)
(* The virtual microphone (ui/microphone.rs, core/microphone.rs): the      *)
(* controller starts one source at a time, each on a task of its own that  *)
(* waits at the coordinator's gate, turns the guest's microphone on, pumps *)
(* packets into the endpoint's FIFO and turns the microphone off again.    *)
(*                                                                         *)
(* A device stands for one session route.  An action is what a task does   *)
(* between two awaits, or one turn of the pump thread between two places   *)
(* where it looks at the stop condition.                                   *)
(***************************************************************************)
EXTENDS Integers, Sequences

CONSTANTS MicDevices, MicSources,  \* a source is one call of start
          NoSource,
          MaxMicChanges            \* bound: changes of focus, routes and revision

ASSUME MicBounds == NoSource \notin MicSources /\ MicDevices # {} /\ MaxMicChanges \in Nat

Waiting == {"spawned", "waiting"}
Inside == {"reconnect", "enable", "undo", "verify", "fifo", "pump", "write", "beat",
           "disable", "confirm"}
Exits == {"none", "canceled", "eof", "error"}

VARIABLES
  micSource,  \* the task of each source and its flags
  micActive,  \* ControllerState.active
  micGate,    \* MicrophoneCoordinator.gate: the holder, then the waiters
  micOn,      \* real_audio_enabled in each guest
  micUndone,  \* history: guests whose last disabling RPC was not applied
  micRoute    \* each route, the focused one, control_stream_revision

micVars == <<micSource, micActive, micGate, micOn, micUndone, micRoute>>

MicTypeOK ==
  /\ micSource \in [MicSources -> [dev : MicDevices, kind : {"host", "wav"},
       at : {"idle", "done"} \cup Waiting \cup Inside, exit : Exits,
       cancel : BOOLEAN, broken : BOOLEAN, paused : BOOLEAN,
       revision : 0 .. MaxMicChanges, late : Nat]]
  /\ micActive \in MicSources \cup {NoSource}
  /\ micGate \in Seq(MicSources)
  /\ micOn \in [MicDevices -> BOOLEAN] /\ micUndone \subseteq MicDevices
  /\ micRoute.state \in [MicDevices -> {"live", "stopping", "gone"}]
  /\ micRoute.focus \in MicDevices /\ micRoute.revision \in 0 .. micRoute.changes
  /\ micRoute.changes \in 0 .. MaxMicChanges

MicInit ==
  /\ LET d == CHOOSE d \in MicDevices : TRUE
     IN  /\ micSource = [s \in MicSources |->
              [dev |-> d, kind |-> "wav", at |-> "idle", exit |-> "none", cancel |-> FALSE,
               broken |-> FALSE, paused |-> FALSE, revision |-> 0, late |-> 0]]
         /\ micRoute = [state |-> [e \in MicDevices |-> "live"], focus |-> d,
                        revision |-> 0, changes |-> 0]
  /\ micActive = NoSource /\ micGate = <<>>
  /\ micOn = [d \in MicDevices |-> FALSE] /\ micUndone = {}

Dev(s) == micSource[s].dev
SourceAt(s, step) == micSource[s].at = step
RouteAlive(d) == micRoute.state[d] # "gone"

RouteIsFocused(s) == micRoute.state[Dev(s)] = "live" /\ micRoute.focus = Dev(s)
PumpStopped(s) == \/ micSource[s].cancel
                  \/ ~RouteIsFocused(s)
                  \/ micRoute.revision # micSource[s].revision

SourceGoes(s, step) == micSource' = [micSource EXCEPT ![s].at = step]
SourceLeaves(s, exit, step) == micSource' = [micSource EXCEPT ![s].at = step, ![s].exit = exit]

\* The source whose turn it is.
Holds(s) == micGate # <<>> /\ Head(micGate) = s

\* run returns and the task ends: the turn at the gate is over, if it had come; an
\* input error replaces the result, and nothing reads the flags any more.
Ended(source, exit) ==
  [source EXCEPT !.at = "done", !.exit = IF source.broken THEN "error" ELSE exit,
     !.kind = "wav", !.cancel = FALSE, !.broken = FALSE, !.paused = FALSE,
     !.revision = 0, !.late = 0]
Return(s, exit) ==
  /\ micSource' = [micSource EXCEPT ![s] = Ended(@, exit)]
  /\ micGate' = IF Holds(s) THEN Tail(micGate) ELSE micGate

----------------------------------------------------------------------------
(* The controller *)

CancelActive(sources) ==
  [s \in MicSources |-> IF s = micActive /\ ~SourceAt(s, "done") THEN [sources[s] EXCEPT !.cancel = TRUE]
                        ELSE sources[s]]

\* start_host and start_wav focus the device, then replace the active source.
StartSource(s, d, kind) ==
  /\ SourceAt(s, "idle") /\ micRoute.state[d] = "live"
  /\ micSource' = [CancelActive(micSource) EXCEPT
                     ![s].dev = d, ![s].kind = kind, ![s].at = "spawned"]
  /\ micActive' = s
  /\ micRoute' = [micRoute EXCEPT !.focus = d]
  /\ UNCHANGED <<micGate, micOn, micUndone>>

\* stop_for of the active source's device, stop_all.
StopSource ==
  /\ micActive # NoSource
  /\ micSource' = CancelActive(micSource)
  /\ micActive' = NoSource
  /\ UNCHANGED <<micGate, micOn, micUndone, micRoute>>

ToggleWavPause ==
  /\ micActive # NoSource
  /\ micSource[micActive].kind = "wav" /\ ~SourceAt(micActive, "done")
  /\ micSource' = [micSource EXCEPT ![micActive].paused = ~@]
  /\ UNCHANGED <<micActive, micGate, micOn, micUndone, micRoute>>

guestVars == <<micActive, micOn, micUndone, micRoute>>

\* The cpal error callback, or two seconds without a first frame; the monitor
\* task then cancels the source.
InputBreaks(s) ==
  /\ micSource[s].kind = "host" /\ micSource[s].at \in {"waiting"} \cup Inside
  /\ ~micSource[s].broken
  /\ micSource' = [micSource EXCEPT ![s].broken = TRUE]
  /\ UNCHANGED <<micGate, guestVars>>

MonitorCancels(s) ==
  /\ micSource[s].broken /\ ~micSource[s].cancel /\ ~SourceAt(s, "done")
  /\ micSource' = [micSource EXCEPT ![s].cancel = TRUE]
  /\ UNCHANGED <<micGate, guestVars>>

----------------------------------------------------------------------------
(* MicrophoneCoordinator::run *)

JoinGate(s) ==
  /\ SourceAt(s, "spawned")
  /\ \/ SourceGoes(s, "waiting") /\ micGate' = Append(micGate, s)
     \/ micSource[s].kind = "host" /\ Return(s, "error")  \* the input did not open
  /\ UNCHANGED guestVars

\* The gate is held: the first checks, until the client reconnects.
EnterGate(s) ==
  /\ SourceAt(s, "waiting") /\ Holds(s)
  /\ IF micSource[s].cancel THEN Return(s, "canceled")
     ELSE \/ micSource[s].kind = "wav" /\ Return(s, "error")
          \/ ~RouteIsFocused(s) /\ Return(s, "error")
          \/ RouteIsFocused(s) /\ SourceGoes(s, "reconnect") /\ UNCHANGED micGate
  /\ UNCHANGED guestVars

Reconnect(s) ==
  /\ SourceAt(s, "reconnect")
  /\ \/ Return(s, "error")
     \/ /\ RouteAlive(Dev(s))
        /\ IF micSource[s].cancel \/ ~RouteIsFocused(s) THEN Return(s, "canceled")
           ELSE SourceGoes(s, "enable") /\ UNCHANGED micGate
  /\ UNCHANGED guestVars

\* set_microphone_enabled: a failed call may have reached the guest.
SetGuestMicrophone(d, on, ok) ==
  /\ ok => RouteAlive(d)
  /\ \E applied \in BOOLEAN :
       /\ ok => applied
       /\ applied => RouteAlive(d)
       /\ micOn' = IF applied THEN [micOn EXCEPT ![d] = on] ELSE micOn
       /\ micUndone' = IF on \/ applied THEN micUndone \ {d} ELSE micUndone \cup {d}

EnableGuest(s) ==
  /\ SourceAt(s, "enable")
  /\ \E ok \in BOOLEAN : SetGuestMicrophone(Dev(s), TRUE, ok) /\ SourceGoes(s, IF ok THEN "verify" ELSE "undo")
  /\ UNCHANGED <<micActive, micGate, micRoute>>

\* The guest must answer that its microphone is on; the pump thread is spawned
\* with the revision of that moment.
VerifyGuest(s) ==
  /\ SourceAt(s, "verify")
  /\ \/ /\ micOn[Dev(s)]
        /\ micSource' = [micSource EXCEPT ![s].revision = micRoute.revision, ![s].at = "fifo"]
     \/ SourceGoes(s, "undo")
  /\ UNCHANGED <<micGate, guestVars>>

\* A failure path that returns at once.
UndoEnableSkipped(s) ==
  /\ SourceAt(s, "undo") /\ Return(s, "error")
  /\ UNCHANGED guestVars

\* The failure path turns the microphone off and ignores how that went.
UndoEnable(s) ==
  /\ SourceAt(s, "undo")
  /\ \E ok \in BOOLEAN : SetGuestMicrophone(Dev(s), FALSE, ok)
  /\ Return(s, "error")
  /\ UNCHANGED <<micActive, micRoute>>

OpenFifo(s) ==
  /\ SourceAt(s, "fifo")
  /\ \/ SourceGoes(s, "pump")
     \/ PumpStopped(s) /\ SourceLeaves(s, "canceled", "disable")
     \/ SourceLeaves(s, "error", "disable")                     \* no reader in five seconds
  /\ UNCHANGED <<micGate, guestVars>>

\* The top of the pump loop: the next packet, from the ring, of silence or of the file.
NextPacket(s) ==
  /\ SourceAt(s, "pump")
  /\ IF PumpStopped(s) THEN SourceLeaves(s, "canceled", "disable")
     ELSE \/ SourceGoes(s, "write")
          \/ /\ micSource[s].kind = "wav" /\ ~micSource[s].paused
             /\ \E exit \in {"eof", "error"} : SourceLeaves(s, exit, "disable")
  /\ UNCHANGED <<micGate, guestVars>>

\* A full FIFO is retried until the source is stopped.
WriteFifo(s) ==
  /\ SourceAt(s, "write")
  /\ \/ micSource' = [micSource EXCEPT ![s].at = "beat",
                        ![s].late = IF micSource[s].cancel \/ ~RouteAlive(Dev(s))
                                    THEN @ + 1 ELSE @]
     \/ PumpStopped(s) /\ SourceGoes(s, "beat")
     \/ SourceLeaves(s, "error", "disable")
  /\ UNCHANGED <<micGate, guestVars>>

\* The wait for the packet's deadline.
Beat(s) ==
  /\ SourceAt(s, "beat")
  /\ \/ SourceGoes(s, "pump")
     \/ PumpStopped(s) /\ SourceLeaves(s, "canceled", "disable")
  /\ UNCHANGED <<micGate, guestVars>>

DisableGuest(s) ==
  /\ SourceAt(s, "disable")
  /\ \E ok \in BOOLEAN :
       /\ SetGuestMicrophone(Dev(s), FALSE, ok)
       /\ IF ok THEN SourceGoes(s, "confirm") /\ UNCHANGED micGate ELSE Return(s, "error")
  /\ UNCHANGED <<micActive, micRoute>>

ConfirmDisabled(s) ==
  /\ SourceAt(s, "confirm")
  /\ \/ ~micOn[Dev(s)] /\ Return(s, micSource[s].exit)
     \/ Return(s, "error")
  /\ UNCHANGED guestVars

SourceStep(s) ==
  \/ JoinGate(s) \/ EnterGate(s) \/ Reconnect(s) \/ EnableGuest(s) \/ VerifyGuest(s)
  \/ UndoEnable(s) \/ OpenFifo(s) \/ NextPacket(s) \/ WriteFifo(s)
  \/ Beat(s) \/ DisableGuest(s) \/ ConfirmDisabled(s)

----------------------------------------------------------------------------
(* The registry and the workspace around it *)

ChangeRoutes(next) ==
  /\ micRoute.changes < MaxMicChanges
  /\ micRoute' = [next EXCEPT !.changes = @ + 1]
  /\ UNCHANGED <<micSource, micActive, micGate, micUndone>>

FocusOther(d) ==
  /\ micRoute.focus # d /\ micRoute.state[d] # "gone"
  /\ ChangeRoutes([micRoute EXCEPT !.focus = d]) /\ UNCHANGED micOn
StopDevice(d) ==
  /\ micRoute.state[d] = "live"
  /\ ChangeRoutes([micRoute EXCEPT !.state[d] = "stopping"]) /\ UNCHANGED micOn
StopDeviceFails(d) ==
  /\ micRoute.state[d] = "stopping"
  /\ micRoute' = [micRoute EXCEPT !.state[d] = "live"]
  /\ UNCHANGED <<micSource, micActive, micGate, micOn, micUndone>>
DeviceGone(d) ==
  /\ micRoute.state[d] # "gone"
  /\ ChangeRoutes([micRoute EXCEPT !.state[d] = "gone"])
  /\ micOn' = [micOn EXCEPT ![d] = FALSE]
ResetStreams ==
  ChangeRoutes([micRoute EXCEPT !.revision = @ + 1]) /\ UNCHANGED micOn

MicEnvironment ==
  \/ \E d \in MicDevices : FocusOther(d) \/ StopDevice(d) \/ StopDeviceFails(d) \/ DeviceGone(d)
  \/ ResetStreams

MicNext ==
  \/ \E s \in MicSources : SourceStep(s) \/ InputBreaks(s) \/ MonitorCancels(s)
  \/ \E s \in MicSources, d \in MicDevices, kind \in {"host", "wav"} : StartSource(s, d, kind)
  \/ StopSource \/ ToggleWavPause
  \/ MicEnvironment

MicSpec == MicInit /\ [][MicNext]_micVars

----------------------------------------------------------------------------
(* Properties *)

\* A guest's microphone is on only during the turn of a source of that device,
\* except after a disabling call that failed (core/microphone.rs:72: a new
\* source is enabled only after the old one has completed its disabling RPC).
EnabledOnlyInTurn ==
  \A d \in MicDevices :
    micOn[d] /\ d \notin micUndone => micGate # <<>> /\ Dev(Head(micGate)) = d

\* Once a source is canceled or its session is gone, the pump writes at most
\* the packet it had already taken (pump_fifo looks again before the next).
OnePacketAfterStop == \A s \in MicSources : micSource[s].late <= 1

\* A guest hears its microphone during the turn of its source and no longer.
MicrophoneIsTurned == EnabledOnlyInTurn /\ OnePacketAfterStop

=============================================================================
