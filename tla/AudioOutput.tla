---------------------------- MODULE AudioOutput ----------------------------
(***************************************************************************)
(* Guest sound (ui/audio.rs, core/audio.rs).  A timer of the main thread   *)
(* calls sync_focus, which keeps one pump active for the focused route;    *)
(* each pump is a task that acquires a sink from the output pool, streams  *)
(* packets into the one shared AudioBuffer, clears it when it ends and     *)
(* gives the sink back.  Every sink that exists has a cpal stream whose    *)
(* callback takes samples out of the shared buffer.                        *)
(*                                                                         *)
(* A device stands for one session route, a sample for one packet, named   *)
(* by the pump that wrote it.  A task's action is what it does between two *)
(* points where another thread can intervene: an await, or two accesses to *)
(* the pool's separate atomics.                                            *)
(***************************************************************************)
EXTENDS Integers, Sequences

CONSTANTS AudioManaged, AudioAdopted,  \* routes with and without a gRPC client
          Unfocused,                   \* no focused route
          MaxPumps,                    \* bound: pumps started
          MaxAudioChanges,             \* bound: changes of focus, routes, revision
          BufferCapacity, Prebuffer, FastStart  \* of AudioBuffer, in packets

ASSUME AudioBounds ==
  /\ Unfocused \notin AudioManaged \cup AudioAdopted /\ AudioManaged \cup AudioAdopted # {}
  /\ MaxPumps \in Nat /\ MaxAudioChanges \in Nat /\ BufferCapacity \in Nat \ {0}
  /\ Prebuffer \in 0 .. BufferCapacity /\ FastStart \in 0 .. Prebuffer

AudioRoutes == AudioManaged \cup AudioAdopted
Pumps == 1 .. MaxPumps
NoPump == 0
NoSink == 0      \* a sink is named by the pump that created it
Results == {"none", "canceled", "stale", "retryable", "fatal"}

VARIABLES
  pump,       \* the tasks
  controller, \* enabled, the active pump and its control_stream_revision, and
              \* whether the main thread still owes a sync_focus
  pool,       \* AudioOutputPool
  buffer,     \* AudioBuffer: samples, primed, fast_start_pending, tail and fade-out
  world       \* focus, current routes, control_stream_revision

audioVars == <<pump, controller, pool, buffer, world>>

AudioTypeOK ==
  /\ pump \in [Pumps -> [route : AudioRoutes, sink : {NoSink} \cup Pumps,
       at : {"idle", "check", "take", "wait", "creating", "connect", "stream", "top",
             "packet", "clear", "release", "store", "done"},
       cancel : BOOLEAN, woken : BOOLEAN, result : Results]]
  /\ controller \in [enabled : BOOLEAN, active : {NoPump} \cup Pumps, muted : BOOLEAN, resync : BOOLEAN,
                     started : {NoPump} \cup Pumps, revision : 0 .. MaxAudioChanges]
  /\ pool \in [open : BOOLEAN, output : {NoSink} \cup Pumps, creating : BOOLEAN,
               permit : BOOLEAN]
  /\ buffer.samples \in Seq(Pumps) /\ Len(buffer.samples) <= BufferCapacity
  /\ buffer.tail \in {NoPump} \cup Pumps /\ buffer.fadeOut => buffer.tail # NoPump
  /\ world.focus \in AudioRoutes \cup {Unfocused} /\ world.current \subseteq AudioRoutes

EmptyBuffer == [samples |-> <<>>, primed |-> Prebuffer = 0, fast |-> Prebuffer > 0,
                tail |-> NoPump, fadeOut |-> FALSE]

AudioInit ==
  /\ pump = [p \in Pumps |-> [route |-> CHOOSE r \in AudioRoutes : TRUE, sink |-> NoSink,
               at |-> "idle", cancel |-> FALSE, woken |-> FALSE, result |-> "none"]]
  /\ controller = [enabled |-> TRUE, active |-> NoPump, muted |-> FALSE, resync |-> FALSE,
                   started |-> NoPump, revision |-> 0]
  /\ pool = [open |-> TRUE, output |-> NoSink, creating |-> FALSE, permit |-> FALSE]
  /\ buffer = EmptyBuffer
  /\ world = [focus |-> Unfocused, current |-> AudioRoutes, revision |-> 0, changes |-> 0]

PumpAt(p, step) == pump[p].at = step
PumpGoes(p, step) == pump' = [pump EXCEPT ![p].at = step]
PumpEnds(p, step, result) == pump' = [pump EXCEPT ![p].at = step, ![p].result = result]
RouteIsCurrent(p) == pump[p].route \in world.current

----------------------------------------------------------------------------
(* AudioBuffer *)

\* push_s16le: the oldest samples make room; enough of them start playback.
Pushed(p) ==
  LET all == Append(buffer.samples, p)
      samples == IF Len(all) > BufferCapacity THEN Tail(all) ELSE all
      ready == Len(samples) >= (IF buffer.fast THEN FastStart ELSE Prebuffer)
  IN  [buffer EXCEPT !.samples = samples, !.primed = @ \/ ready, !.fast = @ /\ ~ready]

\* clear: what was playing last fades out.
Cleared == [EmptyBuffer EXCEPT !.tail = buffer.tail, !.fadeOut = buffer.tail # NoPump]

\* fill_i16, for a block of one packet: the fade-out, silence until primed or
\* while the producer has the lock, the next sample, or an underrun.
FillBlock ==
  /\ buffer' =
       IF buffer.fadeOut THEN [buffer EXCEPT !.fadeOut = FALSE, !.tail = NoPump]
       ELSE IF ~buffer.primed THEN buffer
       ELSE IF buffer.samples = <<>> THEN [buffer EXCEPT !.primed = FALSE, !.tail = NoPump]
       ELSE [buffer EXCEPT !.samples = Tail(@),
               !.tail = IF controller.muted THEN NoPump ELSE Head(buffer.samples)]
  /\ UNCHANGED <<pump, controller, pool, world>>

----------------------------------------------------------------------------
(* AudioOutputPool *)

\* notify_waiters reaches every Notified that exists, polled or not.
Armed == {"take", "wait"}
NotifyAll(pumps) ==
  [p \in Pumps |-> IF pumps[p].at \in Armed THEN [pumps[p] EXCEPT !.woken = TRUE]
                   ELSE pumps[p]]

\* The first half of an attempt to acquire: the checks, then the Notified.
AcquireCheck(p) ==
  /\ PumpAt(p, "check")
  /\ IF pump[p].cancel \/ ~pool.open THEN PumpEnds(p, "done", "canceled")
     ELSE pump' = [pump EXCEPT ![p].at = "take", ![p].woken = FALSE]
  /\ UNCHANGED <<controller, pool, buffer, world>>

\* An attempt that asks to be notified only once it has found nothing.
AcquireTakeArmsLate(p) ==
  /\ PumpAt(p, "take")
  /\ \/ /\ pool.output # NoSink
        /\ pump' = [pump EXCEPT ![p].at = "connect", ![p].sink = pool.output]
        /\ pool' = [pool EXCEPT !.output = NoSink]
     \/ /\ pool.output = NoSink /\ ~pool.creating /\ ~pump[p].woken
        /\ PumpGoes(p, "creating") /\ pool' = [pool EXCEPT !.creating = TRUE]
     \/ /\ pool.output = NoSink /\ (pool.creating \/ pump[p].woken)
        /\ pump' = [pump EXCEPT ![p].at = "wait", ![p].woken = FALSE] /\ UNCHANGED pool
  /\ UNCHANGED <<controller, buffer, world>>

\* The second: the pooled sink, or the right to create one, or a wait.
AcquireTake(p) ==
  /\ PumpAt(p, "take")
  /\ \/ /\ pool.output # NoSink
        /\ pump' = [pump EXCEPT ![p].at = "connect", ![p].sink = pool.output]
        /\ pool' = [pool EXCEPT !.output = NoSink]
     \/ /\ pool.output = NoSink /\ ~pool.creating
        /\ PumpGoes(p, "creating") /\ pool' = [pool EXCEPT !.creating = TRUE]
     \/ /\ pool.output = NoSink /\ pool.creating
        /\ PumpGoes(p, "wait") /\ UNCHANGED pool
  /\ UNCHANGED <<controller, buffer, world>>

AcquireWakes(p) ==
  /\ PumpAt(p, "wait")
  /\ \/ pump[p].woken /\ PumpGoes(p, "check") /\ UNCHANGED pool
     \/ pool.permit /\ PumpGoes(p, "check") /\ pool' = [pool EXCEPT !.permit = FALSE]
     \/ pump[p].cancel /\ PumpEnds(p, "done", "canceled") /\ UNCHANGED pool
  /\ UNCHANGED <<controller, buffer, world>>

\* CpalAudioSink::new returns; a sink nobody wants any more is dropped.
CreateSink(p) ==
  /\ PumpAt(p, "creating")
  /\ pool' = [pool EXCEPT !.creating = FALSE]
  /\ LET woken == NotifyAll(pump)
     IN  IF pump[p].cancel \/ ~pool.open
         THEN pump' = [woken EXCEPT ![p].at = "done", ![p].result = "canceled"]
         ELSE \/ pump' = [woken EXCEPT ![p].at = "connect", ![p].sink = p]
              \/ pump' = [woken EXCEPT ![p].at = "done", ![p].result = "fatal"]
  /\ UNCHANGED <<controller, buffer, world>>

Waiters == {p \in Pumps : PumpAt(p, "wait") /\ ~pump[p].woken}

\* release: the pool's flag is read, then the sink is stored over any other or
\* dropped; one waiter, or the next one, is notified.
ReleaseCheck(p) ==
  /\ PumpAt(p, "release")
  /\ pump' = [pump EXCEPT ![p].at = "store", ![p].sink = IF pool.open THEN @ ELSE NoSink]
  /\ UNCHANGED <<controller, pool, buffer, world>>

ReleaseStore(p) ==
  /\ PumpAt(p, "store")
  /\ LET output == IF pump[p].sink = NoSink THEN pool.output ELSE pump[p].sink
         left == [pump EXCEPT ![p].at = "done", ![p].sink = NoSink]
     IN  IF Waiters = {} THEN pump' = left /\ pool' = [pool EXCEPT !.output = output, !.permit = TRUE]
         ELSE \E w \in Waiters : /\ pump' = [left EXCEPT ![w].woken = TRUE]
                                 /\ pool' = [pool EXCEPT !.output = output]
  /\ UNCHANGED <<controller, buffer, world>>

----------------------------------------------------------------------------
(* run_route_audio and pump_audio_stream *)

ConnectAudio(p) ==
  /\ PumpAt(p, "connect")
  /\ \/ pump[p].cancel /\ PumpEnds(p, "clear", "canceled")
     \/ PumpEnds(p, "clear", "retryable")
     \/ IF RouteIsCurrent(p) THEN PumpGoes(p, "stream") ELSE PumpEnds(p, "clear", "stale")
  /\ UNCHANGED <<controller, pool, buffer, world>>

\* A guest that is silent makes the request time out, which is repeated.
OpenStream(p) ==
  /\ PumpAt(p, "stream")
  /\ \/ pump[p].cancel /\ PumpEnds(p, "clear", "canceled")
     \/ PumpGoes(p, "top")
     \/ ~RouteIsCurrent(p) /\ PumpEnds(p, "clear", "stale")
     \/ \E result \in {"retryable", "fatal"} : PumpEnds(p, "clear", result)
  /\ UNCHANGED <<controller, pool, buffer, world>>

PumpTop(p) ==
  /\ PumpAt(p, "top")
  /\ IF pump[p].cancel THEN PumpEnds(p, "clear", "canceled")
     ELSE IF RouteIsCurrent(p) THEN PumpGoes(p, "packet") ELSE PumpEnds(p, "clear", "stale")
  /\ UNCHANGED <<controller, pool, buffer, world>>

\* The select: a packet may be taken although the cancellation is there too.
PumpPacket(p) ==
  /\ PumpAt(p, "packet")
  /\ \/ RouteIsCurrent(p) /\ PumpGoes(p, "top") /\ buffer' = Pushed(p)
     \/ /\ \/ pump[p].cancel /\ PumpEnds(p, "clear", "canceled")
           \/ ~RouteIsCurrent(p) /\ PumpEnds(p, "clear", "stale")
           \/ \E result \in {"retryable", "fatal"} : PumpEnds(p, "clear", result)
        /\ UNCHANGED buffer
  /\ UNCHANGED <<controller, pool, world>>

\* A pump that trusts whoever canceled it to have cleared the buffer.
ClearAtEndUnlessCanceled(p) ==
  /\ PumpAt(p, "clear")
  /\ buffer' = IF pump[p].result = "canceled" THEN buffer ELSE Cleared
  /\ PumpGoes(p, "release")
  /\ UNCHANGED <<controller, pool, world>>

ClearAtEnd(p) ==
  /\ PumpAt(p, "clear")
  /\ buffer' = Cleared /\ PumpGoes(p, "release")
  /\ UNCHANGED <<controller, pool, world>>

PumpStep(p) ==
  \/ AcquireCheck(p) \/ AcquireTake(p) \/ AcquireWakes(p) \/ CreateSink(p)
  \/ ConnectAudio(p) \/ OpenStream(p) \/ PumpTop(p) \/ PumpPacket(p) \/ ClearAtEnd(p)
  \/ ReleaseCheck(p) \/ ReleaseStore(p)

----------------------------------------------------------------------------
(* AudioController *)

\* cancel_active
Canceled ==
  [p \in Pumps |-> IF p = controller.active /\ ~PumpAt(p, "done")
                   THEN [pump[p] EXCEPT !.cancel = TRUE] ELSE pump[p]]

\* cancel_active, then AudioOutputPool::close.
Silence(changed) ==
  /\ controller' = [changed EXCEPT !.active = NoPump, !.resync = FALSE]
  /\ pump' = NotifyAll(Canceled)
  /\ pool' = [pool EXCEPT !.open = FALSE, !.output = NoSink]
  /\ buffer' = Cleared

Wanted == controller.enabled /\ world.focus \in world.current

\* Nothing to play: the pool is closed on every tick.
SyncSilent ==
  /\ ~Wanted
  /\ Silence(controller) /\ UNCHANGED world

\* The active pump is for this route and this revision, and need not be retried.
Settled ==
  /\ controller.active # NoPump
  /\ pump[controller.active].route = world.focus
  /\ controller.revision = world.revision

StartPump(p) ==
  /\ p = controller.started + 1
  /\ controller' = [controller EXCEPT !.active = p, !.started = p, !.resync = FALSE,
                                      !.revision = world.revision]
  /\ pump' = [NotifyAll(Canceled) EXCEPT ![p].route = world.focus, ![p].at = "check"]
  /\ pool' = [pool EXCEPT !.open = TRUE]

SyncStarts ==
  /\ Wanted
  /\ Settled => pump[controller.active].result = "retryable" /\ PumpAt(controller.active, "done")
  /\ IF world.focus \in AudioAdopted THEN Silence(controller)
     ELSE /\ \E p \in Pumps : StartPump(p)
          /\ buffer' = Cleared
  /\ UNCHANGED world

\* Enabling opens the pool and ends with a sync_focus of its own.
SetAudioEnabled ==
  /\ ~controller.resync
  /\ IF controller.enabled THEN Silence([controller EXCEPT !.enabled = FALSE])
     ELSE /\ controller' = [controller EXCEPT !.enabled = TRUE, !.active = NoPump,
                                              !.resync = TRUE]
          /\ pump' = NotifyAll(Canceled) /\ pool' = [pool EXCEPT !.open = TRUE]
          /\ buffer' = Cleared
  /\ world.changes < MaxAudioChanges
  /\ world' = [world EXCEPT !.changes = @ + 1]

SetAudioMuted ==
  /\ ~controller.resync
  /\ controller' = [controller EXCEPT !.muted = ~@]
  /\ world.changes < MaxAudioChanges
  /\ world' = [world EXCEPT !.changes = @ + 1]
  /\ UNCHANGED <<pump, pool, buffer>>

\* Focus, routes (a stop makes a route not current, its failure current again)
\* and control_stream_revision change.
WorldChanges ==
  /\ world.changes < MaxAudioChanges
  /\ \/ \E r \in AudioRoutes \cup {Unfocused} :
          ~controller.resync /\ world' = [world EXCEPT !.focus = r, !.changes = @ + 1]
     \/ \E r \in AudioRoutes :
          world' = [world EXCEPT !.changes = @ + 1,
                      !.current = IF r \in @ THEN @ \ {r} ELSE @ \cup {r}]
     \/ world' = [world EXCEPT !.revision = @ + 1, !.changes = @ + 1]
  /\ UNCHANGED <<pump, controller, pool, buffer>>

AudioNext ==
  \/ \E p \in Pumps : PumpStep(p)
  \/ SyncSilent \/ SyncStarts \/ SetAudioEnabled \/ SetAudioMuted
  \/ FillBlock
  \/ WorldChanges

AudioSpec == AudioInit /\ [][AudioNext]_audioVars

----------------------------------------------------------------------------
(* Properties *)

\* The buffer holds samples only of pumps that will still clear it: once a pump
\* has ended, none of its sound is left to be played for another device, even
\* if it took a packet after it was canceled.
BufferIsOfRunningPumps ==
  \A i \in DOMAIN buffer.samples :
    ~(pump[buffer.samples[i]].at \in {"release", "store", "done"})

\* A pump that waits for a sink has been woken, or another is creating one and
\* will wake it: a notification between the checks and the wait is not lost.
WaitersAreWoken ==
  \A p \in Pumps : PumpAt(p, "wait") /\ ~pump[p].woken => pool.creating

\* Sound passes from one device to the next: what the old one left in the buffer
\* is gone and who waits for the sink is told.
SoundIsHandedOver == BufferIsOfRunningPumps /\ WaitersAreWoken
=============================================================================
