------------------------- MODULE MicrophoneSources -------------------------
(***************************************************************************)
(* The two producers of microphone packets (core/microphone.rs).  The host *)
(* input pushes blocks into MicrophoneBuffer, a ring of bounded size that  *)
(* the pump empties one packet at a time; the input callback never waits   *)
(* for its lock.  WavPcmReader reads a file of any admitted rate and       *)
(* repeats samples to reach the guest's rate.                              *)
(*                                                                         *)
(* Samples are counted, not valued.  The ring's lock is taken and released *)
(* by fill_packet in two steps so that a callback can run in between.      *)
(***************************************************************************)
EXTENDS Integers, FiniteSetsExt

CONSTANTS RingCapacity,    \* capacity of the ring, in frames
          PacketFrames,    \* FRAMES_PER_PACKET
          SampleRate,      \* MICROPHONE_SAMPLE_RATE
          MaxBlocks,       \* bound: input callbacks in one behaviour
          MaxWavFrames     \* bound: frames in a file

ASSUME SourceBounds ==
  /\ PacketFrames \in Nat \ {0} /\ RingCapacity \in Nat /\ SampleRate \in Nat \ {0}
  /\ MaxBlocks \in Nat /\ MaxWavFrames \in Nat

VARIABLES
  producer,  \* MicrophoneSource: which of the two this behaviour is about
  ring,      \* queued frames, whether the pump has its lock, the four counters
  delivered, \* history: frames the pump has taken out of the ring
  wav        \* the open file and WavPcmReader

sourceVars == <<producer, ring, delivered, wav>>

Capacity == Max({RingCapacity, PacketFrames})
InputBlocks == 1 .. Capacity + 1      \* an input block may exceed the ring

NoWav == [at |-> "chunks", rate |-> 0, left |-> 0, read |-> 0, phase |-> 0,
           repeats |-> 0, packet |-> 0, sent |-> 0]

SourceTypeOK ==
  /\ ring.queued \in 0 .. Capacity /\ ring.blocks \in 0 .. MaxBlocks
  /\ wav.at \in {"chunks", "open", "ended", "refused"}
  /\ wav.rate \in 0 .. SampleRate /\ wav.left \in 0 .. MaxWavFrames
  /\ wav.packet \in 0 .. PacketFrames /\ wav.repeats \in 0 .. SampleRate

SourceInit ==
  /\ producer \in {"host", "wav"}
  /\ ring = [queued |-> 0, locked |-> FALSE, blocks |-> 0,
             received |-> 0, dropped |-> 0, contention |-> 0, underrun |-> 0]
  /\ delivered = 0
  /\ wav = NoWav

----------------------------------------------------------------------------
(* MicrophoneBuffer *)

Received(n) == [ring EXCEPT !.received = @ + n, !.blocks = @ + 1]

\* A push that does not count the part of the block that never fitted.
PushBlockForgetsSkipped(n) ==
  LET kept == Min({n, Capacity})
      overflow == Max({0, ring.queued + kept - Capacity})
  IN  /\ ring.blocks < MaxBlocks /\ ~ring.locked
      /\ ring' = [Received(n) EXCEPT !.queued = @ - overflow + kept,
                                     !.dropped = @ + overflow]
      /\ UNCHANGED <<delivered, wav>>

\* A push that makes no room for the new frames.
PushBlockKeepsOld(n) ==
  LET kept == Min({n, Capacity})
  IN  /\ ring.blocks < MaxBlocks /\ ~ring.locked
      /\ ring' = [Received(n) EXCEPT !.queued = @ + kept, !.dropped = @ + (n - kept)]
      /\ UNCHANGED <<delivered, wav>>

\* push_mono_i16: the newest frames stay.
PushBlock(n) ==
  LET kept == Min({n, Capacity})
      overflow == Max({0, ring.queued + kept - Capacity})
  IN  /\ ring.blocks < MaxBlocks /\ ~ring.locked
      /\ ring' = [Received(n) EXCEPT !.queued = @ - overflow + kept,
                                     !.dropped = @ + (n - kept) + overflow]
      /\ UNCHANGED <<delivered, wav>>

PushContended(n) ==
  /\ ring.blocks < MaxBlocks /\ ring.locked
  /\ ring' = [Received(n) EXCEPT !.dropped = @ + n, !.contention = @ + 1]
  /\ UNCHANGED <<delivered, wav>>

LockRing == ~ring.locked /\ ring' = [ring EXCEPT !.locked = TRUE] /\ UNCHANGED <<delivered, wav>>

\* fill_packet: what is missing is silence.
FillPacket ==
  LET copied == Min({ring.queued, PacketFrames})
  IN  /\ ring.locked
      /\ ring.underrun < PacketFrames * MaxBlocks      \* bound: packets of silence
      /\ ring' = [ring EXCEPT !.queued = @ - copied, !.locked = FALSE,
                              !.underrun = @ + (PacketFrames - copied)]
      /\ delivered' = delivered + copied
      /\ UNCHANGED wav

----------------------------------------------------------------------------
(* WavPcmReader *)

WavFails == wav' = [NoWav EXCEPT !.at = "refused"]

\* open: a chunk other than fmt and data is skipped.
SkipChunk == wav.at = "chunks" /\ UNCHANGED wav

\* A fmt chunk with an encoding, a layout and a rate that are admitted, or not.
FormatChunk(rate) ==
  /\ wav.at = "chunks"
  /\ IF rate \in 1 .. SampleRate THEN wav' = [wav EXCEPT !.rate = rate] ELSE WavFails

\* A data chunk of n frames; a chunk beyond the end of the file, a part of a
\* frame, or data before its format.
DataChunk(n) ==
  /\ wav.at = "chunks"
  /\ \/ wav.rate # 0 /\ wav' = [wav EXCEPT !.at = "open", !.left = n]
     \/ WavFails

\* A resampler that starts every frame at phase zero.
EmitSampleResetsPhase ==
  LET take == wav.repeats = 0
      repeats == IF take THEN SampleRate \div wav.rate ELSE wav.repeats
  IN  /\ wav.at = "open" /\ wav.packet < PacketFrames
      /\ take => wav.left > 0
      /\ wav' = [wav EXCEPT !.left = IF take THEN @ - 1 ELSE @,
                            !.read = IF take THEN @ + 1 ELSE @,
                            !.repeats = repeats - 1, !.packet = @ + 1]

\* next_packet, one pass of its loop: take a frame if none is pending and emit.
EmitSample ==
  LET take == wav.repeats = 0
      phase == IF take THEN wav.phase + SampleRate ELSE wav.phase
      repeats == IF take THEN phase \div wav.rate ELSE wav.repeats
  IN  /\ wav.at = "open" /\ wav.packet < PacketFrames
      /\ take => wav.left > 0
      /\ wav' = [wav EXCEPT !.left = IF take THEN @ - 1 ELSE @,
                            !.read = IF take THEN @ + 1 ELSE @,
                            !.phase = IF take THEN phase % wav.rate ELSE @,
                            !.repeats = repeats - 1, !.packet = @ + 1]

EndOfFrames == wav.left = 0 /\ wav.repeats = 0

\* A full packet, or the short one at the end of the file.
SendPacket ==
  /\ wav.at = "open" /\ wav.packet > 0
  /\ wav.packet = PacketFrames \/ EndOfFrames
  /\ wav' = [wav EXCEPT !.sent = @ + wav.packet, !.packet = 0]

\* next_packet returns None.
WavEnds ==
  /\ wav.at = "open" /\ EndOfFrames /\ wav.packet = 0
  /\ wav' = [wav EXCEPT !.at = "ended"]

WavReadFails == wav.at = "open" /\ wav.repeats = 0 /\ wav.left > 0 /\ WavFails

WavStep ==
  /\ \/ SkipChunk
     \/ \E rate \in 0 .. SampleRate + 1 : FormatChunk(rate)
     \/ \E n \in 0 .. MaxWavFrames : DataChunk(n)
     \/ EmitSample \/ SendPacket \/ WavEnds \/ WavReadFails
  /\ UNCHANGED <<ring, delivered>>

HostStep ==
  \/ \E n \in InputBlocks : PushBlock(n) \/ PushContended(n)
  \/ LockRing
  \/ FillPacket

SourceNext ==
  /\ IF producer = "host" THEN HostStep ELSE WavStep
  /\ UNCHANGED producer

SourceSpec == SourceInit /\ [][SourceNext]_sourceVars

----------------------------------------------------------------------------
(* Properties *)

\* Every frame the callback was given is queued, was delivered or is counted as
\* dropped, whatever the block size and whoever had the lock: the statistics
\* of the microphone say how much was lost.
FramesAccounted ==
  /\ ring.received = ring.queued + delivered + ring.dropped

\* A file plays for its own duration: after every input frame the reader has
\* produced exactly the share of output frames that is due, for every rate, and
\* a packet never ends before the frames it was given.
PlaysAtRate ==
  wav.at \in {"open", "ended"} =>
    wav.sent + wav.packet + wav.repeats = (wav.read * SampleRate) \div wav.rate

\* Nothing is lost or stretched without being counted, by either producer.
SourcesAreExact == FramesAccounted /\ PlaysAtRate
=============================================================================
