---------------------------- MODULE FrameCapture ----------------------------
(***************************************************************************)
(* The video of one engine (core/stream.rs): a capture thread maps the     *)
(* file the engine shares, copies a frame whenever the header changed and  *)
(* publishes it in a slot that keeps only the latest; viewports take it.   *)
(*                                                                         *)
(* A file is known by its identity (its inode); a frame by the header it   *)
(* was copied under.  Pixels are not modelled: the code compares only the  *)
(* headers before and after the copy.                                      *)
(***************************************************************************)
EXTENDS Integers, FiniteSetsExt

CONSTANTS Viewports,         \* subscriptions
          MaxFiles,          \* bound: files the engine creates
          MaxFrames,         \* bound: headers written into one file
          FrameSizes,        \* lengths a file may have and sizes a header may name
          Attempts           \* CONSISTENCY_ATTEMPTS

ASSUME CaptureBounds ==
  /\ MaxFiles \in Nat /\ MaxFrames \in Nat /\ Attempts \in Nat \ {0}
  /\ FrameSizes \subseteq Nat \ {0}

Files == 1 .. MaxFiles
NoShare == 0
NoHeader == [size |-> 0, counter |-> 0]     \* a file not yet written, too
Headers == [size : FrameSizes \cup {0}, counter : 0 .. MaxFrames]

VARIABLES
  shared,   \* the engine's files, and the one the path names
  reader,   \* capture_loop and ShareVidReader
  slot,     \* LatestFrameSlot and the counters of published and dropped frames
  seen,     \* seen_sequence of each subscription
  stopping  \* CaptureHandle::stop

captureVars == <<shared, reader, slot, seen, stopping>>

CaptureTypeOK ==
  /\ shared.path \in Files \cup {NoShare} /\ shared.created \in 0 .. MaxFiles
  /\ shared.header \in [Files -> Headers]
  /\ reader.at \in {"attach", "refresh", "before", "after", "closed"}
  /\ reader.map \in Files \cup {NoShare} /\ reader.last \in Headers
  /\ reader.attempt \in 0 .. Attempts
  /\ slot.header \in Headers /\ slot.dropped =< slot.sequence
  /\ slot.observed =< slot.sequence /\ \A v \in Viewports : seen[v] =< slot.observed

CaptureInit ==
  /\ shared = [path |-> NoShare, length |-> [f \in Files |-> 0],
               header |-> [f \in Files |-> NoHeader], created |-> 0]
  /\ reader = [at |-> "attach", map |-> NoShare, last |-> NoHeader, before |-> NoHeader,
               attempt |-> 0]
  /\ slot = [file |-> NoShare, header |-> NoHeader, sequence |-> 0, observed |-> 0,
             dropped |-> 0, closed |-> FALSE]
  /\ seen = [v \in Viewports |-> 0]
  /\ stopping = FALSE

----------------------------------------------------------------------------
(* The engine *)

Engine(state) == shared' = state /\ UNCHANGED <<reader, slot, seen, stopping>>

\* A new file at the path: the engine starts, restarts or resizes its screen.
CreateFile(size) ==
  /\ shared.created < MaxFiles
  /\ LET f == shared.created + 1
     IN  Engine([shared EXCEPT !.path = f, !.created = f, !.length[f] = size])

RemoveFile == shared.path # NoShare /\ Engine([shared EXCEPT !.path = NoShare])

\* A frame; the first header may be written before the file has its length.
WriteFrame(size) ==
  LET f == shared.path
  IN  /\ f # NoShare /\ shared.header[f].counter < MaxFrames
      /\ Engine([shared EXCEPT !.header[f] = [size |-> size, counter |-> @.counter + 1]])

EngineStep == \/ \E size \in FrameSizes : CreateFile(size) \/ WriteFrame(size)
              \/ RemoveFile

----------------------------------------------------------------------------
(* ShareVidReader and capture_loop *)

ReaderStep(changed) == reader' = changed /\ UNCHANGED <<shared, seen, stopping>>

\* Every error but an unstable frame drops the mapping; the thread parks and
\* starts again.
Detached == [reader EXCEPT !.at = "attach", !.map = NoShare, !.last = NoHeader]

Attach ==
  /\ reader.at = "attach" /\ ~stopping
  /\ shared.path # NoShare
  /\ ReaderStep([reader EXCEPT !.at = "refresh", !.map = shared.path])
  /\ UNCHANGED slot

\* A refresh that keeps the last header of the file it replaces.
RefreshKeepsLast ==
  /\ reader.at = "refresh" /\ ~stopping
  /\ ReaderStep(IF shared.path = NoShare THEN Detached
                ELSE [reader EXCEPT !.at = "before", !.map = shared.path, !.attempt = 1])
  /\ UNCHANGED slot

\* refresh_mapping: another file at the path is mapped and has no last header.
Refresh ==
  /\ reader.at = "refresh" /\ ~stopping
  /\ ReaderStep(IF shared.path = NoShare THEN Detached
                ELSE [reader EXCEPT !.at = "before", !.map = shared.path, !.attempt = 1,
                        !.last = IF shared.path = reader.map THEN @ ELSE NoHeader])
  /\ UNCHANGED slot

Mapped == shared.header[reader.map]

ReadBefore ==
  /\ reader.at = "before"
  /\ ReaderStep(
       IF Mapped # NoHeader /\ Mapped = reader.last THEN [reader EXCEPT !.at = "refresh"]
       ELSE IF Mapped.size # shared.length[reader.map] THEN Detached
       ELSE [reader EXCEPT !.at = "after", !.before = Mapped])
  /\ UNCHANGED slot

\* publish_frame
Publish(f, header) ==
  slot' = [slot EXCEPT !.file = f, !.header = header, !.sequence = @ + 1,
             !.dropped = IF slot.sequence > slot.observed THEN @ + 1 ELSE @]

\* The header after the copy: the same one publishes the frame, another one
\* tries again until the attempts are used up.
ReadAfter ==
  /\ reader.at = "after"
  /\ IF Mapped = reader.before
     THEN /\ ReaderStep([reader EXCEPT !.at = "refresh", !.last = Mapped])
          /\ Publish(reader.map, Mapped)
     ELSE /\ ReaderStep(IF reader.attempt < Attempts
                        THEN [reader EXCEPT !.at = "before", !.attempt = @ + 1]
                        ELSE [reader EXCEPT !.at = "refresh"])
          /\ UNCHANGED slot

\* The loop's condition is false: the slot is closed and everyone is woken.
CloseSlot ==
  /\ stopping /\ reader.at \in {"attach", "refresh"}
  /\ ReaderStep([reader EXCEPT !.at = "closed"])
  /\ slot' = [slot EXCEPT !.closed = TRUE]

CaptureStep == Attach \/ Refresh \/ ReadBefore \/ ReadAfter \/ CloseSlot

----------------------------------------------------------------------------
(* CaptureHandle and CaptureSubscription *)

\* take_latest, wait_timeout: the latest frame if it is new to this viewport.
TakeLatest(v) ==
  /\ slot.sequence # seen[v]
  /\ seen' = [seen EXCEPT ![v] = slot.sequence]
  /\ slot' = [slot EXCEPT !.observed = Max({@, slot.sequence})]
  /\ UNCHANGED <<shared, reader, stopping>>

DropHandle ==
  /\ ~stopping /\ stopping' = TRUE
  /\ UNCHANGED <<shared, reader, slot, seen>>

CaptureNext ==
  \/ EngineStep
  \/ CaptureStep
  \/ \E v \in Viewports : TakeLatest(v)
  \/ DropHandle

CaptureSpec == CaptureInit /\ [][CaptureNext]_captureVars /\ WF_captureVars(CaptureStep)

----------------------------------------------------------------------------
(* Properties *)

\* The engine's last complete frame is shown even if nothing is written after
\* it, across restarts that reuse header values, torn copies and files that
\* are mapped before they have their length.
IsCurrent(f) == shared.path = f /\ shared.header[f].size = shared.length[f]
Shown(f) == slot.file = f /\ slot.header = shared.header[f]
LastFrameIsShown ==
  \A f \in Files : <>[]IsCurrent(f) => <>[](Shown(f) \/ stopping)
=============================================================================
