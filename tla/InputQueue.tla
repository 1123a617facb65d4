----------------------------- MODULE InputQueue -----------------------------
(***************************************************************************)
(* The input path of one viewport (ui/input.rs): GTK handlers on the main  *)
(* thread call the dispatcher, a worker thread sends what it finds to the  *)
(* guest.  Reliable events go through a channel whose ordinary entries are *)
(* counted, pointer motion through a slot that holds one event.            *)
(*                                                                         *)
(* A handler is a list of dispatcher calls (todo); each call and each step *)
(* of the worker is an action, because the two threads share only atomics, *)
(* the channel and the slot's mutex.                                       *)
(***************************************************************************)
EXTENDS Integers, Sequences, FiniteSets

CONSTANTS MaxReliable,  \* MAX_RELIABLE_QUEUE
          MaxHandlers   \* bound: GTK events in one behaviour

ASSUME InputBounds == MaxReliable \in Nat /\ MaxHandlers \in Nat

Devices == {"touch", "key", "right"}
NoJob == [dev |-> "none"]

VARIABLES
  ui,       \* what the widgets know: pressed devices, frame, calls to make, and
            \* (history) a right button let go where nothing could be sent
  channel,  \* reliable: jobs in flight, each counted or not
  queued,   \* queued_reliable
  motion,   \* the slot
  stop,     \* the stop flag
  current,  \* InputRouteGuard::is_current
  worker,   \* where input_loop is, and the job it holds
  guest,    \* what the engine has been told is pressed, and the last touch
  lost      \* history: devices with an event dropped by a failed RPC or by a
            \* route that was not current

inputVars == <<ui, channel, queued, motion, stop, current, worker, guest, lost>>

----------------------------------------------------------------------------
(* Events, jobs and calls *)

Job(dev, held, after) ==
  LET touch(n) == IF dev = "touch" THEN n ELSE 0
  IN  [dev |-> dev, held |-> held, at |-> touch(ui.clock + 1), gesture |-> touch(ui.gesture),
       after |-> after]
Jobs == [dev : Devices \cup {"text"}, held : BOOLEAN, at : 0 .. MaxHandlers + 1,
         gesture : 0 .. MaxHandlers, after : 0 .. MaxHandlers]

Call(op, job) == [op |-> op, job |-> job]
Flush == Call("flush", NoJob)
Clear == Call("clear", NoJob)
Release(dev, after) == <<Call("critical", Job(dev, FALSE, after))>>
ReleaseIf(pressed, dev, after) == IF pressed THEN Release(dev, after) ELSE <<>>

Counted(job) == [job |-> job, counted |-> TRUE]
Uncounted(job) == [job |-> job, counted |-> FALSE]
Unsent == [job |-> NoJob, counted |-> FALSE]

CountedIn(entries) == Cardinality({i \in DOMAIN entries : entries[i].counted})

InputInit ==
  /\ ui = [held |-> [d \in Devices |-> FALSE], frame |-> FALSE, open |-> TRUE,
           forgot |-> FALSE, clock |-> 0, gesture |-> 0, moved |-> 0, todo |-> <<>>,
           sending |-> Unsent]
  /\ channel = <<>> /\ queued = 0 /\ motion = NoJob
  /\ stop = FALSE /\ current = TRUE
  /\ worker = [at |-> "connect", job |-> NoJob]
  /\ guest = [held |-> [d \in Devices |-> FALSE], ended |-> 0, moved |-> 0]
  /\ lost = {}

workerVars == <<worker, guest, lost>>
queueVars == <<channel, queued, motion, stop, current>>

----------------------------------------------------------------------------
(* GTK handlers *)

\* A handler runs when the previous one has made its calls.
Handle(changed, calls) ==
  /\ ui.open /\ ui.todo = <<>> /\ ui.sending = Unsent /\ ui.clock < MaxHandlers
  /\ ui' = [changed EXCEPT !.clock = @ + 1, !.todo = calls]
  /\ UNCHANGED <<queueVars, workerVars>>

DragBegin ==
  /\ ui.frame /\ ~ui.held["touch"]
  /\ Handle([ui EXCEPT !.held["touch"] = TRUE, !.gesture = @ + 1, !.moved = 0],
            <<Call("reliable", [Job("touch", TRUE, 0) EXCEPT !.gesture = @ + 1])>>)

DragUpdate ==
  /\ ui.frame /\ ui.held["touch"]
  /\ Handle(ui, <<Call("replace", Job("touch", TRUE, 0))>>)

\* A release that does not wait for the motion still in the slot.
DragEndReleasesFirst ==
  Handle([ui EXCEPT !.held["touch"] = FALSE],
         ReleaseIf(ui.held["touch"], "touch", ui.moved) \o <<Flush>>)

\* A drag that ends promotes its last motion and then releases; one that is
\* cancelled drops the motion.
DragEnd ==
  Handle([ui EXCEPT !.held["touch"] = FALSE],
         <<Flush>> \o ReleaseIf(ui.held["touch"], "touch", ui.moved))

DragCancel ==
  Handle([ui EXCEPT !.held["touch"] = FALSE],
         <<Clear>> \o ReleaseIf(ui.held["touch"], "touch", 0))

MouseMotion ==
  /\ ~ui.held["touch"] /\ ui.frame
  /\ Handle(ui, <<Call("replace", Job("right", ui.held["right"], 0))>>)

RightPressed ==
  /\ ui.frame
  /\ Handle([ui EXCEPT !.held["right"] = TRUE, !.forgot = FALSE],
            <<Clear, Call("reliable", Job("right", TRUE, 0))>>)

\* Without a frame there is no point to release at: nothing is sent, and as
\* the button counts as released from here on, no later handler sends it.
RightReleased ==
  Handle([ui EXCEPT !.held["right"] = FALSE,
                    !.forgot = ~ui.frame /\ (ui.held["right"] \/ ui.forgot)],
         <<Flush>> \o ReleaseIf(ui.frame, "right", 0))

CommitText == Handle(ui, <<Call("reliable", Job("text", FALSE, 0))>>)

KeyPressed ==
  /\ ~ui.held["key"]
  /\ Handle([ui EXCEPT !.held["key"] = TRUE], <<Call("reliable", Job("key", TRUE, 0))>>)

KeyReleased ==
  /\ ui.held["key"]
  /\ Handle([ui EXCEPT !.held["key"] = FALSE], Release("key", 0))

\* Focus loss and Drop release whatever is pressed (mouse_point is known
\* whenever the right button is held).
ReleaseAll ==
  <<Clear>> \o ReleaseIf(ui.held["touch"], "touch", 0) \o ReleaseIf(ui.held["key"], "key", 0)
    \o (IF ui.held["right"] THEN <<Clear>> \o Release("right", 0) ELSE <<>>)
NothingHeld == [d \in Devices |-> FALSE]

FocusLeave == Handle([ui EXCEPT !.held = NothingHeld], ReleaseAll)

\* Drop of the InputBinding: its own releases first, then the worker's Drop.
Detach ==
  Handle([ui EXCEPT !.held = NothingHeld, !.open = FALSE],
         Append(ReleaseAll, Call("stop", NoJob)))

\* The frame pump stores the metadata of a valid frame and clears it otherwise.
FrameMeta ==
  /\ ui.open /\ ui.todo = <<>>
  /\ ui' = [ui EXCEPT !.frame = ~@]
  /\ UNCHANGED <<queueVars, workerVars>>

----------------------------------------------------------------------------
(* Dispatcher calls *)

Lose(job) == lost' = lost \cup {job.dev}
Doing(op) == ui.todo # <<>> /\ Head(ui.todo).op = op
Next1 == [ui EXCEPT !.todo = Tail(@)]
\* A press that is refused cancels the touch.
Refused(job) == IF job.dev = "touch" /\ job.held THEN [Next1 EXCEPT !.held["touch"] = FALSE] ELSE Next1

\* validate_route, the counter, and the checks of send_reliable up to the send.
AdmitReliable ==
  /\ ui.sending = Unsent /\ Doing("reliable")
  /\ LET job == Head(ui.todo).job
         admitted == current /\ queued < MaxReliable /\ ~stop
     IN  IF admitted
         THEN ui' = [ui EXCEPT !.sending = Counted(job)] /\ queued' = queued + 1
         ELSE ui' = Refused(job) /\ UNCHANGED queued
  /\ UNCHANGED <<channel, motion, stop, current, workerVars>>

AdmitCritical ==
  /\ ui.sending = Unsent /\ Doing("critical")
  /\ ui' = IF current /\ ~stop THEN [ui EXCEPT !.sending = Uncounted(Head(ui.todo).job)] ELSE Next1
  /\ IF current THEN UNCHANGED lost ELSE Lose(Head(ui.todo).job)
  /\ UNCHANGED <<queueVars, worker, guest>>

FlushMotion ==
  /\ ui.sending = Unsent /\ Doing("flush")
  /\ ui' = IF motion # NoJob /\ current /\ ~stop THEN [ui EXCEPT !.sending = Uncounted(motion)]
                                                 ELSE Next1
  /\ motion' = NoJob
  /\ IF motion = NoJob \/ current THEN UNCHANGED lost ELSE Lose(motion)
  /\ UNCHANGED <<channel, queued, stop, current, worker, guest>>

\* The channel refuses a job only when the worker has dropped its end.
SendReliable ==
  /\ ui.sending # Unsent
  /\ LET entry == ui.sending
         accepted == worker.at # "gone"
     IN  /\ channel' = IF accepted THEN Append(channel, entry) ELSE channel
         /\ queued' = IF ~accepted /\ entry.counted THEN queued - 1 ELSE queued
         /\ ui' = [(IF accepted \/ ~entry.counted THEN Next1 ELSE Refused(entry.job))
                     EXCEPT !.sending = Unsent]
  /\ UNCHANGED <<motion, stop, current, workerVars>>

ReplaceMotion ==
  /\ Doing("replace")
  /\ LET job == Head(ui.todo).job
         accepted == current /\ ~stop
     IN  /\ motion' = IF accepted THEN job ELSE motion
         /\ ui' = IF accepted /\ job.dev = "touch" THEN [Next1 EXCEPT !.moved = job.at] ELSE Next1
  /\ UNCHANGED <<channel, queued, stop, current, workerVars>>

ClearMotion ==
  /\ Doing("clear")
  /\ motion' = NoJob /\ ui' = [Next1 EXCEPT !.moved = 0]
  /\ UNCHANGED <<channel, queued, stop, current, workerVars>>

StopWorker ==
  /\ Doing("stop")
  /\ stop' = TRUE /\ ui' = Next1
  /\ UNCHANGED <<channel, queued, motion, current, workerVars>>

----------------------------------------------------------------------------
(* The worker *)

Goto(at, job) == worker' = [at |-> at, job |-> job]

\* reconnect_until_available: it keeps trying until it is stopped.
Connect ==
  /\ worker.at = "connect"
  /\ IF stop \/ ~current THEN Goto("close", NoJob) ELSE Goto("poll", NoJob)
  /\ UNCHANGED <<ui, queueVars, guest, lost>>

\* A job of another route or of one that has ended closes the worker.
TakeJob(job) == IF current THEN Goto("run", job) ELSE Goto("close", NoJob)

\* try_recv, which sees the channel closed only when it is empty.
Receive ==
  /\ worker.at = "poll" /\ channel # <<>>
  /\ TakeJob(Head(channel).job)
  /\ channel' = Tail(channel)
  /\ queued' = IF Head(channel).counted THEN queued - 1 ELSE queued
  /\ UNCHANGED <<ui, motion, stop, current, guest, lost>>

FoundEmpty ==
  /\ worker.at = "poll" /\ channel = <<>>
  /\ Goto("slot", NoJob)
  /\ UNCHANGED <<ui, queueVars, guest, lost>>

SendersGone ==
  /\ worker.at = "poll" /\ channel = <<>> /\ ~ui.open /\ ui.todo = <<>> /\ ui.sending = Unsent
  /\ Goto("gone", NoJob)
  /\ UNCHANGED <<ui, queueVars, guest, lost>>

TakeMotion ==
  /\ worker.at = "slot" /\ motion # NoJob
  /\ TakeJob(motion)
  /\ motion' = NoJob
  /\ UNCHANGED <<ui, channel, queued, stop, current, guest, lost>>

\* The stop flag is looked at after both queues; an unparked worker polls again.
CheckStop ==
  /\ worker.at = "slot" /\ motion = NoJob
  /\ IF stop THEN Goto("gone", NoJob) ELSE Goto("poll", NoJob)
  /\ UNCHANGED <<ui, queueVars, guest, lost>>

\* What the engine knows after it has handled a job.
Applied(job) ==
  [held |-> IF job.dev \in Devices THEN [guest.held EXCEPT ![job.dev] = job.held] ELSE guest.held,
   ended |-> IF job.dev = "touch" /\ ~job.held THEN job.gesture ELSE guest.ended,
   moved |-> IF job.dev = "touch" /\ job.held /\ job.at > guest.moved THEN job.at ELSE guest.moved]

Executed ==
  /\ worker.at \in {"run", "retry"}
  /\ guest' = Applied(worker.job)
  /\ Goto("poll", NoJob)
  /\ UNCHANGED <<ui, queueVars, lost>>

\* A failed call may or may not have reached the engine.
ExecuteFails ==
  /\ worker.at = "run"
  /\ guest' \in {guest, Applied(worker.job)}
  /\ IF current THEN Goto("reconnect", worker.job) ELSE Goto("close", NoJob)
  /\ UNCHANGED <<ui, queueVars, lost>>

IsRetrySafe(job) == job.dev \in {"touch", "right"}

Reconnected ==
  /\ worker.at = "reconnect"
  /\ IF IsRetrySafe(worker.job)
     THEN /\ IF current THEN Goto("retry", worker.job) ELSE Goto("close", NoJob)
          /\ UNCHANGED lost
     ELSE Goto("poll", NoJob) /\ Lose(worker.job)
  /\ UNCHANGED <<ui, queueVars, guest>>

GivesUp ==
  /\ worker.at \in {"reconnect", "retry"}
  /\ Goto("poll", NoJob) /\ Lose(worker.job)
  /\ guest' \in IF worker.at = "retry" THEN {guest, Applied(worker.job)} ELSE {guest}
  /\ UNCHANGED <<ui, queueVars>>

\* close_failed_worker sets the flag, drains both queues and returns.
CloseWorker ==
  /\ worker.at = "close"
  /\ stop' = TRUE /\ Goto("drain", NoJob)
  /\ UNCHANGED <<ui, channel, queued, motion, current, guest, lost>>

Drain ==
  /\ worker.at = "drain"
  /\ channel' = <<>> /\ motion' = NoJob
  /\ queued' = queued - CountedIn(channel)
  /\ Goto("drained", NoJob)
  /\ UNCHANGED <<ui, stop, current, guest, lost>>

DropReceiver ==
  /\ worker.at = "drained"
  /\ Goto("gone", NoJob)
  /\ UNCHANGED <<ui, queueVars, guest, lost>>

\* A route is not current while its session is being stopped and after it
\* ended; a stop that fails makes it current again.
RouteChanges ==
  /\ current' = ~current
  /\ UNCHANGED <<ui, channel, queued, motion, stop, workerVars>>

----------------------------------------------------------------------------
Handler ==
  \/ DragBegin \/ DragUpdate \/ DragEnd \/ DragCancel
  \/ MouseMotion \/ RightPressed \/ RightReleased
  \/ CommitText \/ KeyPressed \/ KeyReleased \/ FocusLeave \/ Detach \/ FrameMeta

Dispatch ==
  \/ AdmitReliable \/ AdmitCritical \/ FlushMotion \/ SendReliable
  \/ ReplaceMotion \/ ClearMotion \/ StopWorker

WorkerStep ==
  \/ Connect \/ Receive \/ FoundEmpty \/ SendersGone \/ TakeMotion \/ CheckStop
  \/ Executed \/ Reconnected \/ CloseWorker \/ Drain \/ DropReceiver

InputNext == Handler \/ Dispatch \/ WorkerStep \/ ExecuteFails \/ GivesUp \/ RouteChanges

InputSpec == InputInit /\ [][InputNext]_inputVars

----------------------------------------------------------------------------
(* Properties *)

\* Type invariant of the dispatcher and its worker (ui/input.rs).
InputTypeOK ==
  /\ ui.held \in [Devices -> BOOLEAN] /\ ui.forgot \in BOOLEAN /\ ui.clock \in 0 .. MaxHandlers
  /\ motion \in Jobs \cup {NoJob}
  /\ \A i \in DOMAIN channel : channel[i].job \in Jobs /\ channel[i].counted \in BOOLEAN
  /\ queued \in 0 .. MaxReliable
  /\ worker.at \in {"connect", "poll", "slot", "run", "retry", "reconnect",
                    "close", "drain", "drained", "gone"}
  /\ (worker.at \in {"run", "retry", "reconnect"}) = (worker.job # NoJob)
  /\ guest.held \in [Devices -> BOOLEAN]

\* The counter that sender and worker change separately is the number of
\* counted jobs in the channel and in the sender's hands, so the hard cap of
\* "ordinary reliable events" is neither passed nor used up by a leak.
CountMatchesQueue ==
  queued = CountedIn(channel) + (IF ui.sending.counted THEN 1 ELSE 0)

\* The right button let go without a frame, until it is pressed again: its
\* release is never sent.
Forgotten == IF ui.forgot THEN {"right"} ELSE {}

\* Whenever the worker has nothing left to send, the engine holds nothing
\* pressed that the user does not, whatever handlers, worker steps and slot
\* replacements came in between.  There are three exceptions: a device whose
\* RPC failed, a device whose event was refused while the session was being
\* stopped (both in lost), and the right button that was let go while there was
\* no frame (RightReleased), which stays pressed in the engine although "focus loss
\* always sends a release" (docs/en/ARCHITECTURE.md:163).
QuiescentGuestAgrees ==
  (/\ channel = <<>> /\ motion = NoJob /\ ui.todo = <<>>
   /\ worker.at \in {"poll", "slot"})
    => \A d \in Devices \ (lost \cup Forgotten) : guest.held[d] => ui.held[d]

\* The release is the last event of a touch: the motion it promoted out of the
\* slot was sent before it ("a drag cannot collapse into a click"; only a right
\* press during the drag, which clears the slot, drops it) and no contact
\* of the same gesture comes after it
\* (flush_motion_critical).
ReleaseEndsGesture ==
  (worker.at \in {"run", "retry"} /\ worker.job.dev = "touch" /\ "touch" \notin lost)
    => IF worker.job.held THEN worker.job.gesture > guest.ended
                          ELSE guest.moved >= worker.job.after

\* What the engine is told follows what the user does, by whichever of the two
\* queues it goes.
GuestFollowsInput == CountMatchesQueue /\ QuiescentGuestAgrees /\ ReleaseEndsGesture

\* "Cancel/detach/focus loss always sends a release" (docs/en/ARCHITECTURE.md):
\* a worker that ended because its viewport was detached has released
\* everything (but the right button let go without a frame).
DetachReleases ==
  (worker.at = "gone" /\ ~ui.open /\ ui.todo = <<>> /\ current)
    => \A d \in Devices \ (lost \cup Forgotten) : ~guest.held[d]

=============================================================================
