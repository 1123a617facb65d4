---------------------------- MODULE StreamProofs ----------------------------
(***************************************************************************)
(* Theorems about the components that carry samples: the readers of the    *)
(* microphone sources, the audio output and the microphone of the guests.  *)
(* Each has its own part: the invariant, a lemma per action, the theorem,  *)
(* and the types with the module's bounds.                                 *)
(***************************************************************************)
EXTENDS MicrophoneSources, AudioOutput, Microphone, SequenceTheorems, TLAPS

-----------------------------------------------------------------------------
(* The inductive invariant of MicrophoneSources.                            *)

Readers ==
  [at : {"chunks", "open", "ended", "refused"}, rate : Nat, left : Nat, read : Nat, phase : Nat,
   repeats : Nat, packet : Nat, sent : Nat]
Rings ==
  [queued : 0 .. Capacity, locked : BOOLEAN, blocks : Nat, received : Nat, dropped : Nat,
   contention : Nat, underrun : Nat]

\* The frames read, repeated up to the guest's rate, are what the reader gave
\* out, what it still repeats and the phase that is left.
IsExact(w) ==
  /\ w.rate # 0 /\ w.rate <= SampleRate /\ w.phase < w.rate
  /\ w.read * SampleRate = w.rate * (w.sent + w.packet + w.repeats) + w.phase

WavInv ==
  /\ wav \in Readers
  /\ wav.at = "chunks" => wav = [NoWav EXCEPT !.rate = wav.rate] /\ wav.rate <= SampleRate
  /\ wav.at \in {"open", "ended"} => IsExact(wav)

RingInv == ring \in Rings /\ delivered \in Nat /\ FramesAccounted

SourceInv == WavInv /\ RingInv

LEMMA CapacityIs == Capacity \in Nat /\ Capacity >= PacketFrames
<1>1. CASE RingCapacity >= PacketFrames
  <2>1. \A y \in {RingCapacity, PacketFrames} : RingCapacity >= y
    BY <1>1, SourceBounds
  <2>2. Capacity \in {RingCapacity, PacketFrames} /\ \A y \in {RingCapacity, PacketFrames} : Capacity >= y
    BY <2>1 DEF Capacity, Max
  <2> QED
    BY <2>2, SourceBounds
<1>2. CASE ~(RingCapacity >= PacketFrames)
  <2>1. \A y \in {RingCapacity, PacketFrames} : PacketFrames >= y
    BY <1>2, SourceBounds
  <2>2. Capacity \in {RingCapacity, PacketFrames} /\ \A y \in {RingCapacity, PacketFrames} : Capacity >= y
    BY <2>1 DEF Capacity, Max
  <2> QED
    BY <2>2, SourceBounds
<1> QED
  BY <1>1, <1>2

LEMMA MinIs ==
  ASSUME NEW m \in Int, NEW n \in Int
  PROVE  /\ Min({m, n}) \in {m, n} /\ Min({m, n}) <= m /\ Min({m, n}) <= n
         /\ Max({m, n}) \in {m, n} /\ Max({m, n}) >= m /\ Max({m, n}) >= n
<1>1. \E x \in {m, n} : \A y \in {m, n} : x =< y
  <2>1. CASE m <= n
    BY <2>1
  <2>2. CASE ~(m <= n)
    BY <2>2
  <2> QED
    BY <2>1, <2>2
<1>2. \E x \in {m, n} : \A y \in {m, n} : x >= y
  <2>1. CASE m >= n
    BY <2>1
  <2>2. CASE ~(m >= n)
    BY <2>2
  <2> QED
    BY <2>1, <2>2
<1>3. Min({m, n}) \in {m, n} /\ \A y \in {m, n} : Min({m, n}) =< y
  BY <1>1 DEF Min
<1>4. Max({m, n}) \in {m, n} /\ \A y \in {m, n} : Max({m, n}) >= y
  BY <1>2 DEF Max
<1> QED
  BY <1>3, <1>4

\* One frame more: SampleRate is split into whole repeats and a new phase.
LEMMA Divided ==
  ASSUME NEW n \in Nat, NEW d \in Nat, d # 0
  PROVE  /\ n \div d \in Nat /\ n % d \in Nat /\ n % d < d
         /\ n = d * (n \div d) + (n % d)
<1>1. n % d \in 0 .. d - 1
  OBVIOUS
<1>2. n \div d \in Int /\ n = d * (n \div d) + (n % d)
  OBVIOUS
<1>3. n \div d >= 0
  OBVIOUS
<1> QED
  BY <1>1, <1>2, <1>3

LEMMA Quotient ==
  ASSUME NEW n \in Nat, NEW d \in Nat, d # 0, NEW q \in Nat, NEW r \in Nat, r < d, n = d * q + r
  PROVE  n \div d = q
  OBVIOUS

LEMMA HostKeeps ==
  ASSUME RingInv, HostStep
  PROVE  RingInv' /\ UNCHANGED wav
<1> USE CapacityIs, SourceBounds
<1>1. ASSUME NEW n \in InputBlocks, PushBlock(n) PROVE RingInv' /\ UNCHANGED wav
  <2> DEFINE kept == Min({n, Capacity})
             overflow == Max({0, ring.queued + kept - Capacity})
  <2>1. n \in Nat
    BY DEF InputBlocks
  <2>2. kept \in Nat /\ kept <= Capacity /\ kept <= n
    <3>1. n \in Int /\ Capacity \in Int
      BY <2>1
    <3>2. kept \in {n, Capacity} /\ kept <= n /\ kept <= Capacity
      BY <3>1, MinIs, Zenon
    <3> QED
      BY <3>2, <2>1
  <2>3. ring.queued \in Nat /\ ring.queued <= Capacity
    BY DEF RingInv, Rings
  <2>4. /\ overflow \in Nat /\ overflow <= ring.queued
        /\ ring.queued - overflow + kept <= Capacity
    <3>1. 0 \in Int /\ ring.queued + kept - Capacity \in Int
      BY <2>2, <2>3
    <3>2. /\ overflow \in {0, ring.queued + kept - Capacity}
          /\ overflow >= 0 /\ overflow >= ring.queued + kept - Capacity
      BY <3>1, MinIs, Zenon
    <3> HIDE DEF kept, overflow
    <3> QED
      BY <3>2, <2>2, <2>3
  <2>5. /\ ring' = [Received(n) EXCEPT !.queued = @ - overflow + kept,
                                       !.dropped = @ + (n - kept) + overflow]
        /\ UNCHANGED <<delivered, wav>>
    BY <1>1 DEF PushBlock
  <2> HIDE DEF kept, overflow
  <2>6. n - kept \in Nat /\ ring.queued - overflow + kept \in 0 .. Capacity
    BY <2>1, <2>2, <2>3, <2>4
  <2>7. /\ ring'.queued = ring.queued - overflow + kept
        /\ ring'.dropped = ring.dropped + (n - kept) + overflow
        /\ ring'.received = ring.received + n
        /\ ring' \in Rings
    <3>1. /\ ring \in Rings /\ ring.dropped + (n - kept) + overflow \in Nat
          /\ ring.received + n \in Nat /\ ring.blocks + 1 \in Nat
      BY <2>1, <2>4, <2>6 DEF RingInv, Rings
    <3>2. ring' = [ring EXCEPT !.received = ring.received + n, !.blocks = ring.blocks + 1,
                               !.queued = ring.queued - overflow + kept,
                               !.dropped = ring.dropped + (n - kept) + overflow]
      BY <2>5, <3>1 DEF Received, Rings
    <3> QED
      BY <2>6, <3>1, <3>2 DEF Rings
  <2> QED
    BY <2>1, <2>2, <2>3, <2>4, <2>5, <2>7 DEF RingInv, Rings, FramesAccounted
<1>2. ASSUME NEW n \in InputBlocks, PushContended(n) PROVE RingInv' /\ UNCHANGED wav
  <2>1. n \in Nat
    BY DEF InputBlocks
  <2> QED
    <3>1. /\ ring \in Rings /\ ring.dropped + n \in Nat /\ ring.received + n \in Nat
          /\ ring.blocks + 1 \in Nat /\ ring.contention + 1 \in Nat
      BY <2>1 DEF RingInv, Rings
    <3>2. /\ ring' = [ring EXCEPT !.received = ring.received + n, !.blocks = ring.blocks + 1,
                                  !.dropped = ring.dropped + n, !.contention = ring.contention + 1]
          /\ UNCHANGED <<delivered, wav>>
      BY <1>2, <3>1 DEF PushContended, Received, Rings
    <3>3. /\ ring' \in Rings /\ ring'.received = ring.received + n
          /\ ring'.dropped = ring.dropped + n /\ ring'.queued = ring.queued
      BY <3>1, <3>2 DEF Rings
    <3> QED
      BY <2>1, <3>2, <3>3 DEF RingInv, Rings, FramesAccounted
<1>3. ASSUME LockRing PROVE RingInv' /\ UNCHANGED wav
  BY <1>3 DEF LockRing, RingInv, Rings, FramesAccounted
<1>4. ASSUME FillPacket PROVE RingInv' /\ UNCHANGED wav
  <2> DEFINE copied == Min({ring.queued, PacketFrames})
  <2>1. ring.queued \in Nat /\ ring.queued <= Capacity
    BY DEF RingInv, Rings
  <2>2. copied \in Nat /\ copied <= ring.queued /\ copied <= PacketFrames
    <3>1. ring.queued \in Int /\ PacketFrames \in Int
      BY <2>1
    <3>2. copied \in {ring.queued, PacketFrames} /\ copied <= ring.queued /\ copied <= PacketFrames
      BY <3>1, MinIs, Zenon
    <3> QED
      BY <3>2, <2>1
  <2>3. /\ ring' = [ring EXCEPT !.queued = @ - copied, !.locked = FALSE,
                                !.underrun = @ + (PacketFrames - copied)]
        /\ delivered' = delivered + copied /\ UNCHANGED wav
    BY <1>4 DEF FillPacket
  <2> HIDE DEF copied
  <2>4. PacketFrames - copied \in Nat /\ ring.queued - copied \in 0 .. Capacity
    BY <2>1, <2>2
  <2>5. /\ ring \in Rings /\ ring.underrun + (PacketFrames - copied) \in Nat
    BY <2>4 DEF RingInv, Rings
  <2>6. ring' = [ring EXCEPT !.queued = ring.queued - copied, !.locked = FALSE,
                             !.underrun = ring.underrun + (PacketFrames - copied)]
    BY <2>3, <2>5 DEF Rings
  <2>7. /\ ring' \in Rings /\ ring'.queued = ring.queued - copied
        /\ ring'.received = ring.received /\ ring'.dropped = ring.dropped
    BY <2>4, <2>5, <2>6 DEF Rings
  <2> QED
    BY <2>2, <2>3, <2>5, <2>7 DEF RingInv, Rings, FramesAccounted
<1> QED
  BY <1>1, <1>2, <1>3, <1>4 DEF HostStep

LEMMA EmitKeeps ==
  ASSUME WavInv, EmitSample
  PROVE  WavInv'
<1>1. /\ wav \in Readers /\ IsExact(wav) /\ wav.at = "open" /\ SampleRate \in Nat
      /\ wav.rate \in Nat /\ wav.left \in Nat /\ wav.read \in Nat /\ wav.phase \in Nat
      /\ wav.repeats \in Nat /\ wav.packet \in Nat /\ wav.sent \in Nat
  BY SourceBounds DEF WavInv, EmitSample, Readers
<1>2. /\ wav.rate # 0 /\ wav.rate <= SampleRate /\ wav.phase < wav.rate
      /\ wav.read * SampleRate = wav.rate * (wav.sent + wav.packet + wav.repeats) + wav.phase
  BY <1>1 DEF IsExact
<1>3. CASE wav.repeats = 0
  <2> DEFINE phase == wav.phase + SampleRate
             q == phase \div wav.rate
             r == phase % wav.rate
  <2>1. phase \in Nat /\ phase >= wav.rate
    BY <1>1, <1>2
  <2>2. q \in Nat /\ r \in Nat /\ r < wav.rate /\ phase = wav.rate * q + r
    BY <1>1, <1>2, <2>1, Divided
  <2>3. q # 0
    BY <1>1, <2>1, <2>2
  <2>4. wav.left > 0
    BY <1>3 DEF EmitSample
  <2>5. wav' = [wav EXCEPT !.left = wav.left - 1, !.read = wav.read + 1, !.phase = r,
                           !.repeats = q - 1, !.packet = wav.packet + 1]
    BY <1>3 DEF EmitSample
  <2>6. (wav.read + 1) * SampleRate = wav.rate * (wav.sent + (wav.packet + 1) + (q - 1)) + r
    <3>1. (wav.read + 1) * SampleRate = wav.read * SampleRate + SampleRate
      BY <1>1
    <3>2. wav.read * SampleRate = wav.rate * (wav.sent + wav.packet) + wav.phase
      BY <1>1, <1>2, <1>3
    <3>3. wav.sent + (wav.packet + 1) + (q - 1) = (wav.sent + wav.packet) + q
      BY <1>1, <2>2
    <3>4. wav.rate * ((wav.sent + wav.packet) + q) = wav.rate * (wav.sent + wav.packet) + wav.rate * q
      <4> HIDE DEF q
      <4> QED
        BY <1>1, <2>2
    <3>5. wav.phase + SampleRate = wav.rate * q + r
      BY <2>2
    <3> DEFINE a == wav.read * SampleRate
               b == wav.rate * (wav.sent + wav.packet)
               c == wav.rate * q
    <3>6. a \in Int /\ b \in Int /\ c \in Int
      <4> HIDE DEF q
      <4> QED
        BY <1>1, <2>2
    <3>7. a + SampleRate = b + c + r
      <4> HIDE DEF a, b, c, r, q, phase
      <4> QED
        BY <1>1, <2>2, <3>2, <3>5, <3>6 DEF a, b, c
    <3> QED
      BY <3>1, <3>3, <3>4, <3>7
  <2> HIDE DEF q, r, phase
  <2>7. /\ wav'.at = "open" /\ wav'.rate = wav.rate /\ wav'.phase = r /\ wav'.repeats = q - 1
        /\ wav'.read = wav.read + 1 /\ wav'.packet = wav.packet + 1 /\ wav'.sent = wav.sent
        /\ wav'.left = wav.left - 1
    BY <1>1, <2>5 DEF Readers
  <2>8. wav' \in Readers
    <3>1. /\ q - 1 \in Nat /\ wav.packet + 1 \in Nat /\ wav.left - 1 \in Nat
          /\ wav.read + 1 \in Nat /\ wav \in Readers
      BY <1>1, <2>2, <2>3, <2>4
    <3> QED
      BY <2>2, <2>5, <3>1 DEF Readers
  <2>9. IsExact(wav')
    BY <1>1, <1>2, <2>2, <2>6, <2>7 DEF IsExact
  <2> QED
    BY <2>7, <2>8, <2>9 DEF WavInv, IsExact
<1>4. CASE wav.repeats # 0
  <2>1. wav' = [wav EXCEPT !.repeats = wav.repeats - 1, !.packet = wav.packet + 1]
    BY <1>1, <1>4 DEF EmitSample, Readers
  <2>2. /\ wav'.at = "open" /\ wav'.rate = wav.rate /\ wav'.phase = wav.phase
        /\ wav'.repeats = wav.repeats - 1 /\ wav'.read = wav.read
        /\ wav'.packet = wav.packet + 1 /\ wav'.sent = wav.sent
    BY <1>1, <2>1 DEF Readers
  <2>3. wav' \in Readers
    <3>1. wav.repeats - 1 \in Nat /\ wav.packet + 1 \in Nat /\ wav \in Readers
      BY <1>1, <1>4
    <3> QED
      BY <2>1, <3>1 DEF Readers
  <2>4. wav'.sent + wav'.packet + wav'.repeats = wav.sent + wav.packet + wav.repeats
    BY <1>1, <1>4, <2>2
  <2>5. IsExact(wav')
    BY <1>2, <2>2, <2>4 DEF IsExact
  <2> QED
    BY <2>2, <2>3, <2>5 DEF WavInv, IsExact
<1> QED
  BY <1>3, <1>4

LEMMA WavKeeps ==
  ASSUME WavInv, WavStep
  PROVE  WavInv' /\ UNCHANGED <<ring, delivered>>
<1> SUFFICES WavInv'
  BY DEF WavStep
<1>1. wav \in Readers /\ SampleRate \in Nat /\ NoWav \in Readers
  BY SourceBounds DEF WavInv, Readers, NoWav
<1>2. CASE SkipChunk
  BY <1>2 DEF SkipChunk, WavInv, IsExact, Readers
<1>3. CASE WavFails
  <2>1. wav' \in Readers /\ wav'.at = "refused"
    BY <1>1, <1>3 DEF WavFails, Readers, NoWav
  <2> QED
    BY <2>1 DEF WavInv
<1>4. ASSUME NEW rate \in 1 .. SampleRate, wav.at = "chunks", wav' = [wav EXCEPT !.rate = rate]
      PROVE  WavInv'
  <2>1. wav = [NoWav EXCEPT !.rate = wav.rate]
    BY <1>4 DEF WavInv
  <2>2. wav' \in Readers /\ wav'.at = "chunks" /\ wav'.rate = rate
    BY <1>1, <1>4 DEF Readers
  <2>3. wav' = [NoWav EXCEPT !.rate = rate]
    BY <1>1, <1>4, <2>1 DEF Readers, NoWav
  <2> QED
    BY <1>1, <2>2, <2>3 DEF WavInv
<1>5. ASSUME NEW n \in 0 .. MaxWavFrames, wav.at = "chunks", wav.rate # 0,
             wav' = [wav EXCEPT !.at = "open", !.left = n]
      PROVE  WavInv'
  <2>1. /\ wav.rate <= SampleRate /\ wav.phase = 0 /\ wav.repeats = 0 /\ wav.read = 0
        /\ wav.packet = 0 /\ wav.sent = 0 /\ wav.rate \in Nat
    BY <1>1, <1>5 DEF WavInv, NoWav, Readers
  <2>2. n \in Nat
    BY SourceBounds
  <2>3. /\ wav' \in Readers /\ wav'.at = "open" /\ wav'.rate = wav.rate
        /\ wav'.phase = 0 /\ wav'.repeats = 0 /\ wav'.read = 0
        /\ wav'.packet = 0 /\ wav'.sent = 0
    BY <1>1, <1>5, <2>1, <2>2 DEF Readers
  <2>4. IsExact(wav')
    BY <1>1, <1>5, <2>1, <2>3 DEF IsExact
  <2> QED
    BY <2>3, <2>4 DEF WavInv, IsExact
<1>6. CASE SendPacket
  <2>1. /\ wav.at = "open" /\ IsExact(wav)
        /\ wav' = [wav EXCEPT !.sent = wav.sent + wav.packet, !.packet = 0]
    BY <1>1, <1>6 DEF SendPacket, WavInv, Readers
  <2>2. wav.sent + wav.packet \in Nat /\ wav.sent \in Nat /\ wav.packet \in Nat /\ wav.repeats \in Nat
    BY <1>1 DEF Readers
  <2>3. /\ wav' \in Readers /\ wav'.at = "open" /\ wav'.rate = wav.rate
        /\ wav'.phase = wav.phase /\ wav'.repeats = wav.repeats /\ wav'.read = wav.read
        /\ wav'.packet = 0 /\ wav'.sent = wav.sent + wav.packet
    BY <1>1, <2>1, <2>2 DEF Readers
  <2>4. wav'.sent + wav'.packet + wav'.repeats = wav.sent + wav.packet + wav.repeats
    BY <2>2, <2>3
  <2>5. IsExact(wav')
    BY <2>1, <2>3, <2>4 DEF IsExact
  <2> QED
    BY <2>3, <2>5 DEF WavInv, IsExact
<1>7. CASE WavEnds
  <2>1. IsExact(wav) /\ wav' = [wav EXCEPT !.at = "ended"]
    BY <1>7 DEF WavEnds, WavInv
  <2>2. /\ wav' \in Readers /\ wav'.at = "ended" /\ wav'.rate = wav.rate
        /\ wav'.phase = wav.phase /\ wav'.repeats = wav.repeats /\ wav'.read = wav.read
        /\ wav'.packet = wav.packet /\ wav'.sent = wav.sent
    BY <1>1, <2>1 DEF Readers
  <2>3. IsExact(wav')
    BY <2>1, <2>2 DEF IsExact
  <2> QED
    BY <2>2, <2>3 DEF WavInv, IsExact
<1>8. ASSUME NEW rate \in 0 .. SampleRate + 1, FormatChunk(rate) PROVE WavInv'
  BY <1>3, <1>4, <1>8 DEF FormatChunk
<1>9. ASSUME NEW n \in 0 .. MaxWavFrames, DataChunk(n) PROVE WavInv'
  BY <1>3, <1>5, <1>9 DEF DataChunk
<1> QED
  BY <1>2, <1>3, <1>6, <1>7, <1>8, <1>9, EmitKeeps DEF WavStep, WavReadFails

LEMMA SourceStepKeeps == SourceInv /\ [SourceNext]_sourceVars => SourceInv'
<1> SUFFICES ASSUME SourceInv, [SourceNext]_sourceVars PROVE SourceInv'
  OBVIOUS
<1>1. CASE UNCHANGED sourceVars
  BY <1>1 DEF sourceVars, SourceInv, WavInv, RingInv, IsExact, Readers, Rings, FramesAccounted
<1>2. CASE HostStep
  <2>1. RingInv' /\ UNCHANGED wav
    BY <1>2, HostKeeps DEF SourceInv
  <2> QED
    BY <2>1 DEF SourceInv, WavInv, IsExact, Readers
<1>3. CASE WavStep
  <2>1. WavInv' /\ UNCHANGED <<ring, delivered>>
    BY <1>3, WavKeeps DEF SourceInv
  <2> QED
    BY <2>1 DEF SourceInv, RingInv, Rings, FramesAccounted
<1> QED
  BY <1>1, <1>2, <1>3 DEF SourceNext

LEMMA SourceInitInv == SourceInit => SourceInv
<1> SUFFICES ASSUME SourceInit PROVE SourceInv
  OBVIOUS
<1>1. WavInv
  BY SourceBounds DEF SourceInit, WavInv, Readers, NoWav
<1>2. RingInv
  BY CapacityIs DEF SourceInit, RingInv, Rings, FramesAccounted
<1> QED
  BY <1>1, <1>2 DEF SourceInv

LEMMA ExactPlaysAtRate == WavInv => PlaysAtRate
<1> SUFFICES ASSUME WavInv, wav.at \in {"open", "ended"}
             PROVE  wav.sent + wav.packet + wav.repeats = (wav.read * SampleRate) \div wav.rate
  BY DEF PlaysAtRate
<1> DEFINE n == wav.read * SampleRate
           q == wav.sent + wav.packet + wav.repeats
<1>1. wav \in Readers /\ IsExact(wav)
  BY DEF WavInv
<1>2. /\ wav.read \in Nat /\ SampleRate \in Nat /\ wav.rate \in Nat /\ wav.rate # 0
      /\ q \in Nat /\ wav.phase \in Nat /\ wav.phase < wav.rate /\ n = wav.rate * q + wav.phase
  BY <1>1, SourceBounds DEF Readers, IsExact
<1>3. n \in Nat
  BY <1>2
<1> HIDE DEF n, q
<1>4. n \div wav.rate = q
  BY <1>2, <1>3, Quotient
<1> QED
  BY <1>4 DEF n, q

\* For every capacity of the ring, size of packets, rate of the guest's input and
\* rate of a file up to it: every frame the input callback was given is queued,
\* delivered or counted as dropped (MicrophoneBuffer), and WavPcmReader has
\* produced exactly the frames that are due (core/microphone.rs).
THEOREM SourcesAreExactCorrect == SourceSpec => []SourcesAreExact
<1>1. SourceInv => SourcesAreExact
  BY ExactPlaysAtRate DEF SourceInv, RingInv, SourcesAreExact
<1> QED
  BY <1>1, SourceInitInv, SourceStepKeeps, PTL DEF SourceSpec

-----------------------------------------------------------------------------
(* The types of MicrophoneSources.                                          *)

\* A frame is repeated at most SampleRate times.
LEMMA RepeatsFew ==
  ASSUME NEW rate \in Nat, rate # 0, NEW phase \in Nat, phase < rate, NEW n \in Nat \ {0}
  PROVE  (phase + n) \div rate \in Nat /\ (phase + n) \div rate <= n
<1> DEFINE q == (phase + n) \div rate
           r == (phase + n) % rate
<1>1. q \in Nat /\ r \in Nat /\ phase + n = rate * q + r
  BY Divided
<1> HIDE DEF q, r
<1>2. ASSUME q > n PROVE FALSE
  <2>1. PICK k \in Nat : q = n + 1 + k
    <3>1. q - n - 1 \in Nat /\ q = n + 1 + (q - n - 1)
      BY <1>1, <1>2
    <3> QED
      BY <3>1
  <2>2. rate * q = rate * n + rate + rate * k
    BY <2>1
  <2>3. PICK m \in Nat : rate = m + 1
    <3>1. rate - 1 \in Nat /\ rate = (rate - 1) + 1
      OBVIOUS
    <3> QED
      BY <3>1
  <2>4. rate * n = m * n + n /\ m * n \in Nat /\ rate * k \in Nat
    BY <2>3
  <2> DEFINE a == m * n
             b == rate * k
             c == rate * n
             d == rate * q
  <2>5. a \in Nat /\ b \in Nat /\ c = a + n /\ d = c + rate + b /\ phase + n = d + r
    BY <1>1, <2>2, <2>4
  <2> HIDE DEF a, b, c, d
  <2> QED
    BY <1>1, <2>5
<1>3. q <= n
  BY <1>1, <1>2
<1> QED
  BY <1>1, <1>3 DEF q

SourceCounts ==
  /\ ring.blocks <= MaxBlocks
  /\ wav.rate <= SampleRate /\ wav.left <= MaxWavFrames
  /\ wav.packet <= PacketFrames /\ wav.repeats <= SampleRate

LEMMA HostCounts ==
  ASSUME SourceInv, SourceCounts, HostStep
  PROVE  SourceCounts'
<1>1. ring \in Rings /\ ring.blocks \in Nat /\ MaxBlocks \in Nat /\ UNCHANGED wav
  BY HostKeeps, SourceBounds DEF SourceInv, RingInv, Rings
<1>2. ASSUME NEW n \in InputBlocks, PushBlock(n) \/ PushContended(n)
      PROVE  ring'.blocks = ring.blocks + 1 /\ ring.blocks < MaxBlocks
  <2>1. Received(n).blocks = ring.blocks + 1 /\ DOMAIN Received(n) = DOMAIN ring
    BY <1>1 DEF Received, Rings
  <2>2. CASE PushBlock(n)
    <3>1. PICK q, d : ring' = [Received(n) EXCEPT !.queued = q, !.dropped = d]
      BY <2>2, Zenon DEF PushBlock
    <3> QED
      BY <2>1, <2>2, <3>1 DEF PushBlock
  <2>3. CASE PushContended(n)
    <3>1. PICK d, c : ring' = [Received(n) EXCEPT !.dropped = d, !.contention = c]
      BY <2>3, Zenon DEF PushContended
    <3> QED
      BY <2>1, <2>3, <3>1 DEF PushContended
  <2> QED
    BY <1>2, <2>2, <2>3
<1>3. ASSUME LockRing \/ FillPacket PROVE ring'.blocks = ring.blocks
  <2>1. CASE LockRing
    BY <1>1, <2>1 DEF LockRing, Rings
  <2>2. CASE FillPacket
    <3>1. PICK q, u : ring' = [ring EXCEPT !.queued = q, !.locked = FALSE, !.underrun = u]
      BY <2>2, Zenon DEF FillPacket
    <3> QED
      BY <1>1, <3>1 DEF Rings
  <2> QED
    BY <1>3, <2>1, <2>2
<1> QED
  BY <1>1, <1>2, <1>3 DEF HostStep, SourceCounts

LEMMA WavCounts ==
  ASSUME SourceInv, SourceCounts, WavStep
  PROVE  SourceCounts'
<1>1. /\ wav \in Readers /\ SampleRate \in Nat \ {0} /\ MaxWavFrames \in Nat
      /\ PacketFrames \in Nat \ {0} /\ UNCHANGED ring
      /\ wav.rate \in Nat /\ wav.left \in Nat /\ wav.packet \in Nat /\ wav.repeats \in Nat
  BY SourceBounds DEF SourceInv, WavInv, Readers, WavStep
<1>2. CASE WavFails
  BY <1>1, <1>2 DEF WavFails, NoWav, SourceCounts
<1>3. CASE EmitSample
  <2>1. IsExact(wav) /\ wav.phase \in Nat
    BY <1>1, <1>3 DEF SourceInv, WavInv, EmitSample, Readers
  <2>2. (wav.phase + SampleRate) \div wav.rate \in Nat /\ (wav.phase + SampleRate) \div wav.rate <= SampleRate
    BY <1>1, <2>1, RepeatsFew DEF IsExact
  <2>3. wav.packet < PacketFrames
    BY <1>3 DEF EmitSample
  <2>4. CASE wav.repeats = 0
    <3>1. wav' = [wav EXCEPT !.left = wav.left - 1, !.read = wav.read + 1,
                             !.phase = (wav.phase + SampleRate) % wav.rate,
                             !.repeats = (wav.phase + SampleRate) \div wav.rate - 1,
                             !.packet = wav.packet + 1]
      BY <1>3, <2>4 DEF EmitSample
    <3>2. /\ wav'.rate = wav.rate /\ wav'.left = wav.left - 1 /\ wav'.packet = wav.packet + 1
          /\ wav'.repeats = (wav.phase + SampleRate) \div wav.rate - 1
      BY <1>1, <3>1 DEF Readers
    <3> QED
      BY <1>1, <2>2, <2>3, <3>2 DEF SourceCounts
  <2>5. CASE wav.repeats # 0
    <3>1. wav' = [wav EXCEPT !.repeats = wav.repeats - 1, !.packet = wav.packet + 1]
      BY <1>1, <1>3, <2>5 DEF EmitSample, Readers
    <3>2. /\ wav'.rate = wav.rate /\ wav'.left = wav.left /\ wav'.packet = wav.packet + 1
          /\ wav'.repeats = wav.repeats - 1
      BY <1>1, <3>1 DEF Readers
    <3> QED
      BY <1>1, <2>3, <3>2 DEF SourceCounts
  <2> QED
    BY <2>4, <2>5
<1>4. CASE SkipChunk
  BY <1>1, <1>4 DEF SkipChunk, SourceCounts
<1>5. ASSUME NEW rate \in 0 .. SampleRate + 1, FormatChunk(rate) PROVE SourceCounts'
  BY <1>1, <1>2, <1>5 DEF FormatChunk, SourceCounts, Readers
<1>6. ASSUME NEW n \in 0 .. MaxWavFrames, DataChunk(n) PROVE SourceCounts'
  <2>1. CASE wav' = [wav EXCEPT !.at = "open", !.left = n]
    <3>1. /\ wav'.rate = wav.rate /\ wav'.left = n /\ wav'.packet = wav.packet
          /\ wav'.repeats = wav.repeats
      BY <1>1, <2>1 DEF Readers
    <3> QED
      BY <1>1, <3>1 DEF SourceCounts
  <2> QED
    BY <1>2, <1>6, <2>1 DEF DataChunk
<1>7. CASE SendPacket \/ WavEnds
  <2>1. \/ wav' = [wav EXCEPT !.sent = wav.sent + wav.packet, !.packet = 0]
        \/ wav' = [wav EXCEPT !.at = "ended"]
    BY <1>1, <1>7 DEF SendPacket, WavEnds, Readers
  <2>2. /\ wav'.rate = wav.rate /\ wav'.left = wav.left /\ wav'.packet \in {0, wav.packet}
        /\ wav'.repeats = wav.repeats
    BY <1>1, <2>1 DEF Readers
  <2> QED
    BY <1>1, <2>2 DEF SourceCounts
<1>8. CASE WavReadFails
  BY <1>2, <1>8 DEF WavReadFails
<1> QED
  BY <1>3, <1>4, <1>5, <1>6, <1>7, <1>8 DEF WavStep

\* The types of the ring and of the open file (core/microphone.rs).
LEMMA SourceTypeCorrect == SourceSpec => []SourceTypeOK
<1>1. SourceInit => SourceInv /\ SourceCounts
  BY SourceInitInv, SourceBounds DEF SourceInit, SourceCounts, NoWav
<1>2. SourceInv /\ SourceCounts /\ [SourceNext]_sourceVars => SourceInv' /\ SourceCounts'
  <2> SUFFICES ASSUME SourceInv, SourceCounts, [SourceNext]_sourceVars PROVE SourceCounts'
    BY SourceStepKeeps
  <2>1. CASE UNCHANGED sourceVars
    BY <2>1 DEF sourceVars, SourceCounts
  <2> QED
    BY <2>1, HostCounts, WavCounts DEF SourceNext
<1>3. SourceInv /\ SourceCounts => SourceTypeOK
  BY SourceBounds, CapacityIs
     DEF SourceInv, RingInv, WavInv, Rings, Readers, SourceCounts, SourceTypeOK
<1> QED
  BY <1>1, <1>2, <1>3, PTL DEF SourceSpec

-----------------------------------------------------------------------------
(* The inductive invariant of AudioOutput.                                  *)

Playing == {"top", "packet", "clear"}
PumpSteps == Playing \cup {"idle", "check", "take", "wait", "creating", "connect", "stream",
                           "release", "store", "done"}
PumpRecords ==
  [route : AudioRoutes \cup {Unfocused, CHOOSE r \in AudioRoutes : TRUE},
   sink : {NoSink} \cup Pumps, at : PumpSteps, cancel : BOOLEAN, woken : BOOLEAN, result : Results]
Buffers ==
  [samples : Seq(Pumps), primed : BOOLEAN, fast : BOOLEAN, tail : {NoPump} \cup Pumps,
   fadeOut : BOOLEAN]
Controllers ==
  [enabled : BOOLEAN, active : {NoPump} \cup Pumps, muted : BOOLEAN, resync : BOOLEAN,
   started : Nat, revision : Nat]
Pools == [open : BOOLEAN, output : {NoSink} \cup Pumps, creating : BOOLEAN, permit : BOOLEAN]
Worlds ==
  [focus : AudioRoutes \cup {Unfocused}, current : SUBSET AudioRoutes, revision : Nat,
   changes : Nat]

AudioTypes ==
  /\ pump \in [Pumps -> PumpRecords] /\ controller \in Controllers
  /\ pool \in Pools /\ buffer \in Buffers /\ world \in Worlds

\* A sample belongs to a pump between its first packet and its clear.
SamplesInv == \A i \in 1 .. Len(buffer.samples) : pump[buffer.samples[i]].at \in Playing

\* Pumps are started in order of their numbers.
StartedInv == \A p \in Pumps : p > controller.started => pump[p].at = "idle"

AudioInv == AudioTypes /\ SamplesInv /\ StartedInv /\ WaitersAreWoken

-----------------------------------------------------------------------------
(* The pumps.                                                               *)

\* Only pump p moves; others may be woken.
OnlyMoves(p) ==
  /\ pump' \in [Pumps -> PumpRecords]
  /\ \A q \in Pumps \ {p} :
       pump'[q].at = pump[q].at /\ (pump[q].woken => pump'[q].woken)

LEMMA MovesKeeps ==
  ASSUME AudioInv, NEW p \in Pumps, OnlyMoves(p), pool' \in Pools, controller' = controller,
         world' = world, buffer' = buffer,
         pump[p].at # "idle", pump[p].at \in Playing => pump'[p].at \in Playing,
         pump'[p].at = "wait" => pump'[p].woken \/ pool'.creating,
         pool.creating => pool'.creating
  PROVE  AudioInv'
<1>1. AudioTypes'
  BY DEF AudioInv, AudioTypes, OnlyMoves
<1>2. SamplesInv'
  <2> SUFFICES ASSUME NEW i \in 1 .. Len(buffer.samples)
               PROVE  pump'[buffer.samples[i]].at \in Playing
    BY DEF SamplesInv
  <2>1. buffer.samples[i] \in Pumps /\ pump[buffer.samples[i]].at \in Playing
    BY DEF AudioInv, AudioTypes, Buffers, SamplesInv
  <2> QED
    BY <2>1 DEF OnlyMoves
<1>3. StartedInv'
  BY DEF AudioInv, StartedInv, OnlyMoves
<1>4. WaitersAreWoken'
  BY DEF AudioInv, WaitersAreWoken, OnlyMoves, PumpAt
<1> QED
  BY <1>1, <1>2, <1>3, <1>4 DEF AudioInv

LEMMA GoesIs ==
  ASSUME AudioTypes, NEW p \in Pumps, NEW step \in PumpSteps, PumpGoes(p, step)
  PROVE  OnlyMoves(p) /\ pump'[p].at = step /\ pump'[p].woken = pump[p].woken
BY DEF AudioTypes, PumpGoes, OnlyMoves, PumpRecords

LEMMA EndsIs ==
  ASSUME AudioTypes, NEW p \in Pumps, NEW step \in PumpSteps, NEW result \in Results,
         PumpEnds(p, step, result)
  PROVE  OnlyMoves(p) /\ pump'[p].at = step
<1> DEFINE w == [pump[p] EXCEPT !.at = step, !.result = result]
<1>1. pump' = [pump EXCEPT ![p] = w]
  BY Zenon DEF PumpEnds
<1>2. w \in PumpRecords /\ w.at = step
  <2>1. pump[p] \in PumpRecords
    BY DEF AudioTypes
  <2> QED
    BY <2>1 DEF PumpRecords
<1> HIDE DEF w
<1> QED
  BY <1>1, <1>2 DEF AudioTypes, OnlyMoves

LEMMA SetIs ==
  ASSUME AudioTypes, NEW p \in Pumps, NEW w \in PumpRecords, pump' = [pump EXCEPT ![p] = w]
  PROVE  OnlyMoves(p) /\ pump'[p] = w
BY DEF AudioTypes, OnlyMoves

LEMMA AcquireCheckKeeps ==
  ASSUME AudioInv, NEW p \in Pumps, AcquireCheck(p)
  PROVE  AudioInv'
<1>1. /\ pump[p].at = "check" /\ AudioTypes /\ UNCHANGED <<controller, pool, buffer, world>>
      /\ pool \in Pools
  BY DEF AcquireCheck, PumpAt, AudioInv, AudioTypes
<1>2. OnlyMoves(p) /\ pump'[p].at \in {"done", "take"}
  <2>1. CASE PumpEnds(p, "done", "canceled")
    BY <1>1, <2>1, EndsIs DEF PumpSteps, Results
  <2>2. CASE pump' = [pump EXCEPT ![p].at = "take", ![p].woken = FALSE]
    <3> DEFINE w == [pump[p] EXCEPT !.at = "take", !.woken = FALSE]
    <3>1. pump' = [pump EXCEPT ![p] = w]
      BY <2>2, Zenon
    <3>2. w \in PumpRecords /\ w.at = "take"
      BY <1>1 DEF AudioTypes, PumpRecords, PumpSteps
    <3> HIDE DEF w
    <3> QED
      BY <1>1, <3>1, <3>2, SetIs
  <2> QED
    BY <2>1, <2>2, Zenon DEF AcquireCheck
<1> QED
  BY <1>1, <1>2, MovesKeeps DEF Playing

LEMMA AcquireTakeKeeps ==
  ASSUME AudioInv, NEW p \in Pumps, AcquireTake(p)
  PROVE  AudioInv'
<1>1. /\ pump[p].at = "take" /\ AudioTypes /\ UNCHANGED <<controller, buffer, world>>
      /\ pool \in Pools
  BY DEF AcquireTake, PumpAt, AudioInv, AudioTypes
<1>2. CASE /\ pump' = [pump EXCEPT ![p].at = "connect", ![p].sink = pool.output]
           /\ pool' = [pool EXCEPT !.output = NoSink]
  <2> DEFINE w == [pump[p] EXCEPT !.at = "connect", !.sink = pool.output]
  <2>1. pump' = [pump EXCEPT ![p] = w]
    BY <1>2, Zenon
  <2>0. pump[p] \in PumpRecords /\ pool.output \in {NoSink} \cup Pumps
    BY <1>1 DEF AudioTypes, Pools
  <2>2. w \in PumpRecords /\ w.at = "connect"
    BY <2>0 DEF PumpRecords, PumpSteps
  <2> HIDE DEF w
  <2>3. OnlyMoves(p) /\ pump'[p].at = "connect"
    BY <1>1, <2>1, <2>2, SetIs
  <2>4. pool' \in Pools /\ pool'.creating = pool.creating
    BY <1>1, <1>2 DEF Pools
  <2> QED
    BY <1>1, <2>3, <2>4, MovesKeeps DEF Playing
<1>3. CASE PumpGoes(p, "creating") /\ pool' = [pool EXCEPT !.creating = TRUE]
  <2>1. OnlyMoves(p) /\ pump'[p].at = "creating"
    BY <1>1, <1>3, GoesIs DEF PumpSteps
  <2>2. pool' \in Pools /\ pool'.creating
    BY <1>1, <1>3 DEF Pools
  <2> QED
    BY <1>1, <2>1, <2>2, MovesKeeps DEF Playing
<1>4. CASE PumpGoes(p, "wait") /\ pool.creating /\ UNCHANGED pool
  <2>1. OnlyMoves(p) /\ pump'[p].at = "wait"
    BY <1>1, <1>4, GoesIs DEF PumpSteps
  <2> QED
    BY <1>1, <1>4, <2>1, MovesKeeps DEF Playing
<1> QED
  BY <1>2, <1>3, <1>4, Zenon DEF AcquireTake

LEMMA AcquireWakesKeeps ==
  ASSUME AudioInv, NEW p \in Pumps, AcquireWakes(p)
  PROVE  AudioInv'
<1>1. /\ pump[p].at = "wait" /\ AudioTypes /\ UNCHANGED <<controller, buffer, world>>
      /\ pool \in Pools
  BY DEF AcquireWakes, PumpAt, AudioInv, AudioTypes
<1>2. \/ PumpGoes(p, "check") \/ PumpEnds(p, "done", "canceled")
  BY DEF AcquireWakes
<1>3. OnlyMoves(p) /\ pump'[p].at \in {"check", "done"}
  BY <1>1, <1>2, GoesIs, EndsIs DEF PumpSteps, Results
<1>4. pool' \in Pools /\ pool'.creating = pool.creating
  BY <1>1 DEF AcquireWakes, Pools
<1> QED
  BY <1>1, <1>3, <1>4, MovesKeeps DEF Playing

\* A step of a pump that streams or connects, and a release that is checked.
LEMMA StreamKeeps ==
  ASSUME AudioInv, NEW p \in Pumps, ConnectAudio(p) \/ OpenStream(p) \/ PumpTop(p)
  PROVE  AudioInv'
<1>1. /\ pump[p].at \in {"connect", "stream", "top"} /\ AudioTypes
      /\ UNCHANGED <<controller, pool, buffer, world>> /\ pool \in Pools
  BY DEF ConnectAudio, OpenStream, PumpTop, PumpAt, AudioInv, AudioTypes
<1>2. \/ \E step \in {"stream"} \cup Playing :
           PumpGoes(p, step) /\ (pump[p].at = "top" => step \in Playing)
      \/ \E result \in Results : PumpEnds(p, "clear", result)
  BY DEF ConnectAudio, OpenStream, PumpTop, PumpAt, Playing, Results
<1>3. OnlyMoves(p) /\ pump'[p].at \in {"stream"} \cup Playing
      /\ (pump[p].at = "top" => pump'[p].at \in Playing)
  <2>1. ASSUME NEW step \in {"stream"} \cup Playing, PumpGoes(p, step),
               pump[p].at = "top" => step \in Playing
        PROVE  /\ OnlyMoves(p) /\ pump'[p].at \in {"stream"} \cup Playing
               /\ (pump[p].at = "top" => pump'[p].at \in Playing)
    BY <1>1, <2>1, GoesIs DEF PumpSteps
  <2> QED
    BY <1>1, <1>2, <2>1, EndsIs DEF PumpSteps, Playing
<1> QED
  BY <1>1, <1>3, MovesKeeps DEF Playing

LEMMA PumpPacketKeeps ==
  ASSUME AudioInv, NEW p \in Pumps, PumpPacket(p)
  PROVE  AudioInv'
<1>1. /\ pump[p].at = "packet" /\ AudioTypes /\ UNCHANGED <<controller, pool, world>>
      /\ pool \in Pools
  BY DEF PumpPacket, PumpAt, AudioInv, AudioTypes
<1>2. CASE PumpGoes(p, "top") /\ buffer' = Pushed(p)
  <2>1. OnlyMoves(p) /\ pump'[p].at = "top"
    BY <1>1, <1>2, GoesIs DEF PumpSteps, Playing
  <2> DEFINE all == Append(buffer.samples, p)
             samples == IF Len(all) > BufferCapacity THEN Tail(all) ELSE all
             ready == Len(samples) >= (IF buffer.fast THEN FastStart ELSE Prebuffer)
  <2>2. buffer \in Buffers /\ buffer.samples \in Seq(Pumps)
    BY <1>1 DEF AudioTypes, Buffers
  <2>3. all \in Seq(Pumps) /\ Len(all) = Len(buffer.samples) + 1 /\ Len(all) \in Nat
    BY <2>2
  <2>4. \A i \in 1 .. Len(all) : all[i] \in Pumps /\ pump'[all[i]].at \in Playing
    <3> SUFFICES ASSUME NEW i \in 1 .. Len(all) PROVE all[i] \in Pumps /\ pump'[all[i]].at \in Playing
      OBVIOUS
    <3>1. CASE i = Len(buffer.samples) + 1
      <4>1. all[i] = p
        BY <2>2, <3>1
      <4> QED
        BY <4>1, <2>1 DEF Playing
    <3>2. CASE i # Len(buffer.samples) + 1
      <4>1. i \in 1 .. Len(buffer.samples) /\ all[i] = buffer.samples[i]
        BY <2>2, <2>3, <3>2
      <4>2. all[i] \in Pumps /\ pump[all[i]].at \in Playing
        BY <4>1, <2>2 DEF AudioInv, SamplesInv
      <4> HIDE DEF all
      <4> QED
        BY <4>2, <2>1 DEF OnlyMoves, Playing
    <3> QED
      BY <3>1, <3>2
  <2>5. /\ samples \in Seq(Pumps)
        /\ \A i \in 1 .. Len(samples) : pump'[samples[i]].at \in Playing
    <3>1. CASE Len(all) > BufferCapacity
      <4>1. all # <<>> /\ samples = Tail(all)
        BY <2>3, <3>1
      <4> HIDE DEF all, samples
      <4>2. Len(Tail(all)) = Len(all) - 1 /\ Tail(all) \in Seq(Pumps)
        BY <2>3, <4>1
      <4>3. \A i \in 1 .. Len(all) - 1 : Tail(all)[i] = all[i + 1] /\ i + 1 \in 1 .. Len(all)
        BY <2>3, <4>1, <4>2
      <4> QED
        BY <2>3, <2>4, <4>1, <4>2, <4>3
    <3>2. CASE ~(Len(all) > BufferCapacity)
      BY <2>3, <2>4, <3>2
    <3> QED
      BY <3>1, <3>2
  <2>6. buffer' = [buffer EXCEPT !.samples = samples, !.primed = @ \/ ready, !.fast = @ /\ ~ready]
    BY <1>2, Zenon DEF Pushed
  <2>7. ready \in BOOLEAN
    OBVIOUS
  <2> HIDE DEF samples, ready
  <2>8. buffer' \in Buffers /\ buffer'.samples = samples
    BY <2>2, <2>5, <2>6, <2>7 DEF Buffers
  <2>9. AudioTypes'
    BY <1>1, <2>1, <2>8 DEF AudioTypes, OnlyMoves
  <2>10. SamplesInv'
    BY <2>5, <2>8 DEF SamplesInv
  <2>11. StartedInv'
    BY <1>1, <2>1 DEF AudioInv, StartedInv, OnlyMoves
  <2>12. WaitersAreWoken'
    BY <1>1, <2>1 DEF AudioInv, WaitersAreWoken, OnlyMoves, PumpAt
  <2> QED
    BY <2>9, <2>10, <2>11, <2>12 DEF AudioInv
<1>3. CASE UNCHANGED buffer /\ \E result \in Results : PumpEnds(p, "clear", result)
  <2>1. OnlyMoves(p) /\ pump'[p].at = "clear"
    BY <1>1, <1>3, EndsIs DEF PumpSteps, Playing
  <2> QED
    BY <1>1, <1>3, <2>1, MovesKeeps DEF Playing
<1> QED
  BY <1>2, <1>3 DEF PumpPacket, Results

LEMMA ClearedIs == buffer \in Buffers => Cleared \in Buffers /\ Cleared.samples = <<>>
<1> SUFFICES ASSUME buffer \in Buffers PROVE Cleared \in Buffers /\ Cleared.samples = <<>>
  OBVIOUS
<1>1. EmptyBuffer \in Buffers /\ EmptyBuffer.samples = <<>>
  BY DEF EmptyBuffer, Buffers
<1>2. buffer.tail \in {NoPump} \cup Pumps /\ (buffer.tail # NoPump) \in BOOLEAN
  BY DEF Buffers
<1> HIDE DEF EmptyBuffer
<1> QED
  BY <1>1, <1>2 DEF Cleared, Buffers

LEMMA NotifyIs ==
  ASSUME NEW f \in [Pumps -> PumpRecords]
  PROVE  /\ NotifyAll(f) \in [Pumps -> PumpRecords]
         /\ \A p \in Pumps :
              /\ NotifyAll(f)[p].at = f[p].at
              /\ f[p].woken \/ f[p].at = "wait" => NotifyAll(f)[p].woken
<1> SUFFICES ASSUME NEW p \in Pumps
             PROVE  /\ NotifyAll(f)[p] \in PumpRecords /\ NotifyAll(f)[p].at = f[p].at
                    /\ f[p].woken \/ f[p].at = "wait" => NotifyAll(f)[p].woken
  BY DEF NotifyAll
<1>1. NotifyAll(f)[p] = IF f[p].at \in Armed THEN [f[p] EXCEPT !.woken = TRUE] ELSE f[p]
  BY DEF NotifyAll
<1>2. f[p] \in PumpRecords
  OBVIOUS
<1> QED
  BY <1>1, <1>2 DEF PumpRecords, Armed

LEMMA CanceledIs ==
  ASSUME AudioTypes
  PROVE  /\ Canceled \in [Pumps -> PumpRecords]
         /\ \A p \in Pumps : Canceled[p].at = pump[p].at /\ Canceled[p].woken = pump[p].woken
<1> SUFFICES ASSUME NEW p \in Pumps
             PROVE  /\ Canceled[p] \in PumpRecords /\ Canceled[p].at = pump[p].at
                    /\ Canceled[p].woken = pump[p].woken
  BY DEF Canceled
<1>1. \/ Canceled[p] = [pump[p] EXCEPT !.cancel = TRUE]
      \/ Canceled[p] = pump[p]
  BY DEF Canceled
<1>2. pump[p] \in PumpRecords
  BY DEF AudioTypes
<1> QED
  BY <1>1, <1>2 DEF PumpRecords

\* A step that empties the buffer, or leaves it, and wakes or leaves the waiters.
LEMMA HandOverKeeps ==
  ASSUME AudioInv, AudioTypes', NEW P \in SUBSET Pumps,
         \A q \in Pumps \ P :
           pump'[q].at = pump[q].at /\ (pump[q].woken => pump'[q].woken),
         \A q \in P : pump'[q].at # "wait" /\ (q > controller'.started => pump'[q].at = "idle"),
         \A q \in Pumps : q > controller'.started => q > controller.started,
         buffer'.samples = <<>> \/ (buffer' = buffer /\ \A q \in P : pump[q].at \notin Playing),
         pool'.creating = pool.creating \/ \A q \in Pumps : pump'[q].at = "wait" => pump'[q].woken
  PROVE  AudioInv'
<1>1. SamplesInv'
  <2>1. CASE buffer'.samples = <<>>
    BY <2>1 DEF SamplesInv
  <2>2. CASE buffer' = buffer /\ \A q \in P : pump[q].at \notin Playing
    <3> SUFFICES ASSUME NEW i \in 1 .. Len(buffer.samples)
                 PROVE  pump'[buffer.samples[i]].at \in Playing
      BY <2>2 DEF SamplesInv
    <3>1. buffer.samples[i] \in Pumps /\ pump[buffer.samples[i]].at \in Playing
      BY DEF AudioInv, AudioTypes, Buffers, SamplesInv
    <3> QED
      BY <2>2, <3>1
  <2> QED
    BY <2>1, <2>2
<1>2. StartedInv'
  BY DEF AudioInv, StartedInv
<1>3. WaitersAreWoken'
  BY DEF AudioInv, WaitersAreWoken, PumpAt
<1> QED
  BY <1>1, <1>2, <1>3 DEF AudioInv

LEMMA ClearAtEndKeeps ==
  ASSUME AudioInv, NEW p \in Pumps, ClearAtEnd(p)
  PROVE  AudioInv'
<1>1. /\ pump[p].at = "clear" /\ AudioTypes /\ UNCHANGED <<controller, pool, world>>
      /\ buffer' = Cleared /\ PumpGoes(p, "release")
  BY DEF ClearAtEnd, PumpAt, AudioInv
<1>2. OnlyMoves(p) /\ pump'[p].at = "release"
  BY <1>1, GoesIs DEF PumpSteps
<1>3. buffer' \in Buffers /\ buffer'.samples = <<>>
  BY <1>1, ClearedIs DEF AudioTypes
<1>4. AudioTypes'
  BY <1>1, <1>2, <1>3 DEF AudioTypes, OnlyMoves
<1>5. ~(p > controller.started)
  BY <1>1 DEF AudioInv, StartedInv
<1>6. /\ {p} \in SUBSET Pumps
      /\ \A q \in Pumps \ {p} : pump'[q].at = pump[q].at /\ (pump[q].woken => pump'[q].woken)
      /\ \A q \in {p} : pump'[q].at # "wait" /\ (q > controller'.started => pump'[q].at = "idle")
  BY <1>1, <1>2, <1>5 DEF OnlyMoves
<1> QED
  BY <1>1, <1>3, <1>4, <1>6, HandOverKeeps

LEMMA CreateSinkKeeps ==
  ASSUME AudioInv, NEW p \in Pumps, CreateSink(p)
  PROVE  AudioInv'
<1>1. /\ pump[p].at = "creating" /\ AudioTypes /\ UNCHANGED <<controller, buffer, world>>
      /\ pool' = [pool EXCEPT !.creating = FALSE]
  BY DEF CreateSink, PumpAt, AudioInv
<1> DEFINE woken == NotifyAll(pump)
<1>2. /\ woken \in [Pumps -> PumpRecords]
      /\ \A q \in Pumps : /\ woken[q].at = pump[q].at
                          /\ pump[q].woken \/ pump[q].at = "wait" => woken[q].woken
  <2>1. pump \in [Pumps -> PumpRecords]
    BY <1>1 DEF AudioTypes
  <2> QED
    BY <2>1, NotifyIs
<1>3. \/ pump' = [woken EXCEPT ![p].at = "done", ![p].result = "canceled"]
      \/ pump' = [woken EXCEPT ![p].at = "connect", ![p].sink = p]
      \/ pump' = [woken EXCEPT ![p].at = "done", ![p].result = "fatal"]
  BY Zenon DEF CreateSink
<1> HIDE DEF woken
<1>4. PICK w \in PumpRecords : w.at \in {"done", "connect"} /\ pump' = [woken EXCEPT ![p] = w]
  <2>1. woken[p] \in PumpRecords
    BY <1>2
  <2>2. \A result \in {"canceled", "fatal"} :
          /\ [woken[p] EXCEPT !.at = "done", !.result = result] \in PumpRecords
          /\ [woken[p] EXCEPT !.at = "done", !.result = result].at = "done"
    BY <2>1 DEF PumpRecords, PumpSteps, Results
  <2>3. /\ [woken[p] EXCEPT !.at = "connect", !.sink = p] \in PumpRecords
        /\ [woken[p] EXCEPT !.at = "connect", !.sink = p].at = "connect"
    BY <2>1 DEF PumpRecords, PumpSteps
  <2>4. CASE pump' = [woken EXCEPT ![p].at = "done", ![p].result = "canceled"]
    BY <2>2, <2>4, Zenon
  <2>5. CASE pump' = [woken EXCEPT ![p].at = "done", ![p].result = "fatal"]
    BY <2>2, <2>5, Zenon
  <2>6. CASE pump' = [woken EXCEPT ![p].at = "connect", ![p].sink = p]
    BY <2>3, <2>6, Zenon
  <2> QED
    BY <1>3, <2>4, <2>5, <2>6
<1>5. /\ pump' \in [Pumps -> PumpRecords] /\ pump'[p].at \in {"done", "connect"}
      /\ \A q \in Pumps \ {p} : /\ pump'[q].at = pump[q].at
                                /\ pump[q].woken \/ pump[q].at = "wait" => pump'[q].woken
  BY <1>2, <1>4
<1>6. AudioTypes'
  BY <1>1, <1>5 DEF AudioTypes, Pools
<1>7. ~(p > controller.started)
  BY <1>1 DEF AudioInv, StartedInv
<1>8. /\ \A q \in {p} : pump'[q].at # "wait" /\ (q > controller'.started => pump'[q].at = "idle")
      /\ \A q \in {p} : pump[q].at \notin Playing
      /\ \A q \in Pumps : pump'[q].at = "wait" => pump'[q].woken
      /\ {p} \in SUBSET Pumps
  BY <1>1, <1>5, <1>7 DEF Playing
<1> QED
  BY <1>1, <1>5, <1>6, <1>8, HandOverKeeps

LEMMA ReleaseCheckKeeps ==
  ASSUME AudioInv, NEW p \in Pumps, ReleaseCheck(p)
  PROVE  AudioInv'
<1>1. /\ pump[p].at = "release" /\ AudioTypes /\ UNCHANGED <<controller, pool, buffer, world>>
      /\ pool \in Pools /\ pump[p] \in PumpRecords
  BY DEF ReleaseCheck, PumpAt, AudioInv, AudioTypes
<1> DEFINE sink == IF pool.open THEN pump[p].sink ELSE NoSink
           w == [pump[p] EXCEPT !.at = "store", !.sink = sink]
<1>2. pump' = [pump EXCEPT ![p] = w]
  BY Zenon DEF ReleaseCheck
<1>3. sink \in {NoSink} \cup Pumps
  BY <1>1 DEF PumpRecords
<1> HIDE DEF sink
<1>4. w \in PumpRecords /\ w.at = "store"
  BY <1>1, <1>3 DEF PumpRecords, PumpSteps
<1> HIDE DEF w
<1>5. OnlyMoves(p) /\ pump'[p].at = "store"
  BY <1>1, <1>2, <1>4, SetIs
<1> QED
  BY <1>1, <1>5, MovesKeeps DEF Playing

LEMMA ReleaseStoreKeeps ==
  ASSUME AudioInv, NEW p \in Pumps, ReleaseStore(p)
  PROVE  AudioInv'
<1>1. /\ pump[p].at = "store" /\ AudioTypes /\ UNCHANGED <<controller, buffer, world>>
      /\ pool \in Pools /\ pump[p] \in PumpRecords /\ pump \in [Pumps -> PumpRecords]
  BY DEF ReleaseStore, PumpAt, AudioInv, AudioTypes
<1> DEFINE output == IF pump[p].sink = NoSink THEN pool.output ELSE pump[p].sink
           v == [pump[p] EXCEPT !.at = "done", !.sink = NoSink]
           left == [pump EXCEPT ![p] = v]
<1>2. output \in {NoSink} \cup Pumps
  BY <1>1 DEF PumpRecords, Pools
<1>3. v \in PumpRecords /\ v.at = "done"
  BY <1>1 DEF PumpRecords, PumpSteps
<1>4. left = [pump EXCEPT ![p].at = "done", ![p].sink = NoSink]
  BY Zenon
<1>5. \/ pump' = left /\ pool' = [pool EXCEPT !.output = output, !.permit = TRUE]
      \/ /\ \E q \in Waiters : pump' = [left EXCEPT ![q].woken = TRUE]
         /\ pool' = [pool EXCEPT !.output = output]
  BY <1>4, Zenon DEF ReleaseStore
<1> HIDE DEF output, v
<1>6. left \in [Pumps -> PumpRecords] /\ left[p].at = "done"
      /\ \A q \in Pumps \ {p} : left[q] = pump[q]
  BY <1>1, <1>3
<1>7. pool' \in Pools /\ pool'.creating = pool.creating
  BY <1>1, <1>2, <1>5 DEF Pools
<1>8. OnlyMoves(p) /\ pump'[p].at = "done"
  <2>1. CASE pump' = left
    BY <1>6, <2>1 DEF OnlyMoves
  <2>2. ASSUME NEW q \in Waiters, pump' = [left EXCEPT ![q].woken = TRUE]
        PROVE  OnlyMoves(p) /\ pump'[p].at = "done"
    <3>1. q \in Pumps /\ left[q] \in PumpRecords
      BY <1>6 DEF Waiters
    <3> DEFINE u == [left[q] EXCEPT !.woken = TRUE]
    <3>2. u \in PumpRecords /\ u.at = left[q].at /\ u.woken
      BY <3>1 DEF PumpRecords
    <3>3. pump' = [left EXCEPT ![q] = u]
      BY <2>2, Zenon
    <3> HIDE DEF u, left
    <3> QED
      BY <1>6, <3>1, <3>2, <3>3 DEF OnlyMoves
  <2> QED
    BY <1>5, <2>1, <2>2
<1> QED
  BY <1>1, <1>7, <1>8, MovesKeeps DEF Playing

-----------------------------------------------------------------------------
(* The controller, the callback and the world.                              *)

LEMMA SilenceKeeps ==
  ASSUME AudioInv, NEW changed \in Controllers, changed.started = controller.started,
         Silence(changed), world' \in Worlds
  PROVE  AudioInv'
<1>1. AudioTypes /\ pump \in [Pumps -> PumpRecords] /\ pool \in Pools
  BY DEF AudioInv, AudioTypes
<1>2. controller' \in Controllers /\ controller'.started = controller.started
  BY DEF Silence, Controllers
<1>3. pool' \in Pools /\ pool'.creating = pool.creating
  BY <1>1 DEF Silence, Pools
<1>4. buffer' \in Buffers /\ buffer'.samples = <<>>
  BY <1>1, ClearedIs DEF Silence, AudioTypes
<1>5. /\ pump' \in [Pumps -> PumpRecords]
      /\ \A q \in Pumps : pump'[q].at = pump[q].at /\ (pump[q].woken => pump'[q].woken)
  BY <1>1, CanceledIs, NotifyIs DEF Silence
<1>6. AudioTypes'
  BY <1>2, <1>3, <1>4, <1>5 DEF AudioTypes
<1>7. {} \in SUBSET Pumps
  OBVIOUS
<1> QED
  BY <1>2, <1>3, <1>4, <1>5, <1>6, <1>7, HandOverKeeps

LEMMA StartPumpKeeps ==
  ASSUME AudioInv, NEW p \in Pumps, StartPump(p), buffer' = Cleared, UNCHANGED world
  PROVE  AudioInv'
<1>1. /\ AudioTypes /\ pump \in [Pumps -> PumpRecords] /\ pool \in Pools /\ world \in Worlds
      /\ controller \in Controllers /\ p = controller.started + 1 /\ p \in Nat
      /\ controller.started \in Nat /\ world.revision \in Nat
  BY AudioBounds DEF AudioInv, AudioTypes, StartPump, Controllers, Worlds, Pumps
<1>2. controller' \in Controllers /\ controller'.started = p
  BY <1>1 DEF StartPump, Controllers
<1>3. pool' \in Pools /\ pool'.creating = pool.creating
  BY <1>1 DEF StartPump, Pools
<1>4. buffer' \in Buffers /\ buffer'.samples = <<>>
  BY <1>1, ClearedIs DEF AudioTypes
<1> DEFINE told == NotifyAll(Canceled)
<1>5. /\ told \in [Pumps -> PumpRecords]
      /\ \A q \in Pumps : told[q].at = pump[q].at /\ (pump[q].woken => told[q].woken)
  BY <1>1, CanceledIs, NotifyIs
<1>6. pump' = [told EXCEPT ![p].route = world.focus, ![p].at = "check"]
  BY Zenon DEF StartPump
<1> HIDE DEF told
<1> DEFINE w == [told[p] EXCEPT !.route = world.focus, !.at = "check"]
<1>7. pump' = [told EXCEPT ![p] = w]
  BY <1>6, Zenon
<1>8. w \in PumpRecords /\ w.at = "check"
  <2>1. told[p] \in PumpRecords /\ world.focus \in AudioRoutes \cup {Unfocused}
    BY <1>1, <1>5 DEF Worlds
  <2> QED
    BY <2>1 DEF PumpRecords, PumpSteps
<1> HIDE DEF w
<1>9. /\ pump' \in [Pumps -> PumpRecords] /\ pump'[p].at = "check"
      /\ \A q \in Pumps \ {p} : pump'[q].at = pump[q].at /\ (pump[q].woken => pump'[q].woken)
  BY <1>5, <1>7, <1>8
<1>10. AudioTypes'
  BY <1>1, <1>2, <1>3, <1>4, <1>9 DEF AudioTypes
<1>11. /\ {p} \in SUBSET Pumps
       /\ \A q \in Pumps : q > controller'.started => q > controller.started
       /\ \A q \in {p} : pump'[q].at # "wait" /\ (q > controller'.started => pump'[q].at = "idle")
  BY <1>1, <1>2, <1>9 DEF Pumps
<1> QED
  BY <1>3, <1>4, <1>9, <1>10, <1>11, HandOverKeeps

LEMMA SyncKeeps ==
  ASSUME AudioInv, SyncSilent \/ SyncStarts
  PROVE  AudioInv'
<1>1. world \in Worlds /\ world' = world /\ controller \in Controllers
  BY DEF AudioInv, AudioTypes, SyncSilent, SyncStarts
<1>2. CASE Silence(controller)
  BY <1>1, <1>2, SilenceKeeps
<1>3. ASSUME NEW p \in Pumps, StartPump(p), buffer' = Cleared PROVE AudioInv'
  BY <1>1, <1>3, StartPumpKeeps
<1> QED
  BY <1>2, <1>3, Zenon DEF SyncSilent, SyncStarts

LEMMA SetAudioEnabledKeeps ==
  ASSUME AudioInv, SetAudioEnabled
  PROVE  AudioInv'
<1>1. /\ AudioTypes /\ world \in Worlds /\ controller \in Controllers /\ pool \in Pools
      /\ pump \in [Pumps -> PumpRecords]
  BY DEF AudioInv, AudioTypes
<1>2. world' = [world EXCEPT !.changes = @ + 1]
  BY DEF SetAudioEnabled
<1>3. world' \in Worlds
  BY <1>1, <1>2 DEF Worlds
<1>4. CASE Silence([controller EXCEPT !.enabled = FALSE])
  <2> DEFINE changed == [controller EXCEPT !.enabled = FALSE]
  <2>1. changed \in Controllers /\ changed.started = controller.started
    BY <1>1 DEF Controllers
  <2>2. Silence(changed)
    BY <1>4
  <2> HIDE DEF changed
  <2> QED
    BY <1>3, <2>1, <2>2, SilenceKeeps
<1>5. CASE /\ controller' = [controller EXCEPT !.enabled = TRUE, !.active = NoPump, !.resync = TRUE]
           /\ pump' = NotifyAll(Canceled) /\ pool' = [pool EXCEPT !.open = TRUE]
           /\ buffer' = Cleared
  <2>1. controller' \in Controllers /\ controller'.started = controller.started
    BY <1>1, <1>5 DEF Controllers
  <2>2. pool' \in Pools /\ pool'.creating = pool.creating
    BY <1>1, <1>5 DEF Pools
  <2>3. buffer' \in Buffers /\ buffer'.samples = <<>>
    BY <1>1, <1>5, ClearedIs DEF AudioTypes
  <2>4. /\ pump' \in [Pumps -> PumpRecords]
        /\ \A q \in Pumps : pump'[q].at = pump[q].at /\ (pump[q].woken => pump'[q].woken)
    BY <1>1, <1>5, CanceledIs, NotifyIs
  <2>5. AudioTypes' /\ {} \in SUBSET Pumps
    BY <1>3, <2>1, <2>2, <2>3, <2>4 DEF AudioTypes
  <2> QED
    BY <2>1, <2>2, <2>3, <2>4, <2>5, HandOverKeeps
<1> QED
  BY <1>4, <1>5, Zenon DEF SetAudioEnabled

LEMMA FillBlockKeeps ==
  ASSUME AudioInv, FillBlock
  PROVE  AudioInv'
<1>1. /\ AudioTypes /\ buffer \in Buffers /\ buffer.samples \in Seq(Pumps)
      /\ UNCHANGED <<pump, controller, pool, world>>
  BY DEF AudioInv, AudioTypes, Buffers, FillBlock
<1>2. /\ buffer' \in Buffers
      /\ \/ buffer'.samples = buffer.samples
         \/ buffer.samples # <<>> /\ buffer'.samples = Tail(buffer.samples)
  <2>1. CASE buffer' = [buffer EXCEPT !.fadeOut = FALSE, !.tail = NoPump]
    BY <1>1, <2>1 DEF Buffers
  <2>2. CASE buffer' = buffer
    BY <1>1, <2>2
  <2>3. CASE buffer' = [buffer EXCEPT !.primed = FALSE, !.tail = NoPump]
    BY <1>1, <2>3 DEF Buffers
  <2>4. CASE /\ buffer.samples # <<>>
             /\ buffer' = [buffer EXCEPT !.samples = Tail(@),
                             !.tail = IF controller.muted THEN NoPump ELSE Head(buffer.samples)]
    <3> DEFINE tail == IF controller.muted THEN NoPump ELSE Head(buffer.samples)
    <3>1. Tail(buffer.samples) \in Seq(Pumps) /\ tail \in {NoPump} \cup Pumps
      BY <1>1, <2>4
    <3>2. buffer' = [buffer EXCEPT !.samples = Tail(buffer.samples), !.tail = tail]
      BY <1>1, <2>4, Zenon DEF Buffers
    <3> HIDE DEF tail
    <3> QED
      BY <1>1, <2>4, <3>1, <3>2 DEF Buffers
  <2> QED
    BY <2>1, <2>2, <2>3, <2>4, Zenon DEF FillBlock
<1>3. SamplesInv'
  <2>1. CASE buffer'.samples = buffer.samples
    BY <1>1, <2>1 DEF AudioInv, SamplesInv
  <2>2. CASE buffer.samples # <<>> /\ buffer'.samples = Tail(buffer.samples)
    <3>1. \A i \in 1 .. Len(buffer'.samples) :
            i + 1 \in 1 .. Len(buffer.samples) /\ buffer'.samples[i] = buffer.samples[i + 1]
      BY <1>1, <2>2
    <3> QED
      BY <1>1, <3>1 DEF AudioInv, SamplesInv
  <2> QED
    BY <1>2, <2>1, <2>2
<1> QED
  BY <1>1, <1>2, <1>3 DEF AudioInv, AudioTypes, StartedInv, WaitersAreWoken, PumpAt

LEMMA WorldKeeps ==
  ASSUME AudioInv, SetAudioMuted \/ WorldChanges
  PROVE  AudioInv'
<1>1. AudioTypes /\ world \in Worlds /\ controller \in Controllers
      /\ UNCHANGED <<pump, pool, buffer>>
  BY DEF AudioInv, AudioTypes, SetAudioMuted, WorldChanges
<1>2. world' \in Worlds /\ controller' \in Controllers /\ controller'.started = controller.started
  <2>0. world.changes + 1 \in Nat /\ world.revision + 1 \in Nat /\ (~controller.muted) \in BOOLEAN
    BY <1>1 DEF Worlds
  <2>1. CASE SetAudioMuted
    <3>1. /\ controller' = [controller EXCEPT !.muted = ~controller.muted]
          /\ world' = [world EXCEPT !.changes = world.changes + 1]
      BY <1>1, <2>1 DEF SetAudioMuted, Worlds, Controllers
    <3> DEFINE muted == ~controller.muted
    <3>2. controller' = [controller EXCEPT !.muted = muted] /\ muted \in BOOLEAN
      BY <3>1
    <3> HIDE DEF muted
    <3>3. controller' \in Controllers /\ controller'.started = controller.started
      BY <1>1, <3>2 DEF Controllers
    <3>4. world' \in Worlds
      BY <1>1, <2>0, <3>1 DEF Worlds
    <3> QED
      BY <3>3, <3>4
  <2>2. ASSUME NEW r \in AudioRoutes \cup {Unfocused},
               world' = [world EXCEPT !.focus = r, !.changes = @ + 1]
        PROVE  world' \in Worlds
    <3>1. world' = [world EXCEPT !.focus = r, !.changes = world.changes + 1]
      BY <1>1, <2>2 DEF Worlds
    <3> QED
      BY <1>1, <2>0, <3>1 DEF Worlds
  <2>3. ASSUME NEW r \in AudioRoutes,
               world' = [world EXCEPT !.changes = @ + 1,
                           !.current = IF r \in @ THEN @ \ {r} ELSE @ \cup {r}]
        PROVE  world' \in Worlds
    <3>1. /\ world.current \ {r} \in SUBSET AudioRoutes /\ world.current \cup {r} \in SUBSET AudioRoutes
          /\ world.changes + 1 \in Nat
      BY <1>1 DEF Worlds
    <3> QED
      BY <1>1, <2>3, <3>1 DEF Worlds
  <2>4. ASSUME world' = [world EXCEPT !.revision = @ + 1, !.changes = @ + 1]
        PROVE  world' \in Worlds
    <3>1. world' = [world EXCEPT !.revision = world.revision + 1, !.changes = world.changes + 1]
      BY <1>1, <2>4 DEF Worlds
    <3> QED
      BY <1>1, <2>0, <3>1 DEF Worlds
  <2>5. SetAudioMuted \/ (WorldChanges /\ UNCHANGED controller)
    BY DEF WorldChanges
  <2> QED
    BY <1>1, <2>1, <2>2, <2>3, <2>4, <2>5, Zenon DEF WorldChanges
<1> QED
  BY <1>1, <1>2 DEF AudioInv, AudioTypes, SamplesInv, StartedInv, WaitersAreWoken, PumpAt

LEMMA AudioStepKeeps == AudioInv /\ [AudioNext]_audioVars => AudioInv'
<1> SUFFICES ASSUME AudioInv, [AudioNext]_audioVars PROVE AudioInv'
  OBVIOUS
<1>1. ASSUME NEW p \in Pumps, PumpStep(p) PROVE AudioInv'
  BY <1>1, AcquireCheckKeeps, AcquireTakeKeeps, AcquireWakesKeeps, CreateSinkKeeps, StreamKeeps,
     PumpPacketKeeps, ClearAtEndKeeps, ReleaseCheckKeeps, ReleaseStoreKeeps DEF PumpStep
<1>2. CASE UNCHANGED audioVars
  BY <1>2 DEF audioVars, AudioInv, AudioTypes, SamplesInv, StartedInv, WaitersAreWoken, PumpAt
<1> QED
  BY <1>1, <1>2, SyncKeeps, SetAudioEnabledKeeps, FillBlockKeeps, WorldKeeps DEF AudioNext

LEMMA AudioInitInv == AudioInit => AudioInv
<1> SUFFICES ASSUME AudioInit PROVE AudioInv
  OBVIOUS
<1>1. EmptyBuffer \in Buffers /\ EmptyBuffer.samples = <<>>
  BY DEF EmptyBuffer, Buffers
<1>2. AudioTypes
  <2>1. pump \in [Pumps -> PumpRecords]
    BY DEF AudioInit, PumpRecords, PumpSteps, Results
  <2>2. /\ controller = [enabled |-> TRUE, active |-> NoPump, muted |-> FALSE, resync |-> FALSE,
                         started |-> NoPump, revision |-> 0]
        /\ NoPump \in Nat
    BY DEF AudioInit, NoPump
  <2>4. controller \in Controllers
    BY <2>2 DEF Controllers
  <2>5. pool \in Pools
    BY DEF AudioInit, Pools
  <2>3. world \in Worlds
    BY DEF AudioInit, Worlds
  <2> QED
    BY <1>1, <2>1, <2>3, <2>4, <2>5 DEF AudioInit, AudioTypes
<1>3. \A p \in Pumps : pump[p].at = "idle"
  BY DEF AudioInit
<1> QED
  BY <1>1, <1>2, <1>3 DEF AudioInit, AudioInv, SamplesInv, StartedInv, WaitersAreWoken, PumpAt

\* For any number of pumps, routes and changes of the focus: a pump that has ended
\* left no sound in the shared buffer, and no pump waits for a sink that nobody
\* will announce (ui/audio.rs, core/audio.rs).
THEOREM SoundIsHandedOverCorrect == AudioSpec => []SoundIsHandedOver
<1>1. AudioInv => SoundIsHandedOver
  <2> SUFFICES ASSUME AudioInv PROVE BufferIsOfRunningPumps
    BY DEF AudioInv, SoundIsHandedOver
  <2>1. buffer.samples \in Seq(Pumps)
    BY DEF AudioInv, AudioTypes, Buffers
  <2>2. DOMAIN buffer.samples = 1 .. Len(buffer.samples)
    BY <2>1
  <2> QED
    BY <2>2 DEF AudioInv, SamplesInv, BufferIsOfRunningPumps, Playing
<1> QED
  BY <1>1, AudioInitInv, AudioStepKeeps, PTL DEF AudioSpec

-----------------------------------------------------------------------------
(* The types of AudioOutput.                                                *)

AudioCounts ==
  /\ world.changes <= MaxAudioChanges /\ world.revision <= world.changes
  /\ controller.revision <= world.revision /\ controller.started <= MaxPumps
  /\ \A p \in Pumps : pump[p].route \in AudioRoutes

BufferFits(b) == Len(b.samples) <= BufferCapacity /\ (b.fadeOut => b.tail # NoPump)

RoutesStay == \A p \in Pumps : pump'[p].route = pump[p].route

LEMMA NotifyStays ==
  ASSUME NEW f \in [Pumps -> PumpRecords], NEW p \in Pumps
  PROVE  NotifyAll(f)[p].route = f[p].route /\ NotifyAll(f)[p] \in PumpRecords
BY DEF NotifyAll, PumpRecords

LEMMA CanceledStays ==
  ASSUME AudioTypes, NEW p \in Pumps
  PROVE  Canceled[p].route = pump[p].route
BY DEF AudioTypes, Canceled, PumpRecords

LEMMA PumpStays ==
  ASSUME AudioTypes, NEW p \in Pumps, PumpStep(p)
  PROVE  RoutesStay /\ UNCHANGED <<controller, world>>
<1>1. pump \in [Pumps -> PumpRecords] /\ pump[p] \in PumpRecords
  BY DEF AudioTypes
<1>2. ASSUME NEW step, NEW result, PumpGoes(p, step) \/ PumpEnds(p, step, result)
      PROVE  RoutesStay
  BY <1>1, <1>2 DEF PumpGoes, PumpEnds, RoutesStay, PumpRecords
<1>3. ASSUME NEW sink, NEW step, NEW woken,
             \/ pump' = [pump EXCEPT ![p].at = step, ![p].sink = sink]
             \/ pump' = [pump EXCEPT ![p].at = step, ![p].woken = woken]
      PROVE  RoutesStay
  BY <1>1, <1>3 DEF RoutesStay, PumpRecords
<1>4. CASE AcquireCheck(p)
  <2>1. (\E step, result : PumpEnds(p, step, result))
          \/ pump' = [pump EXCEPT ![p].at = "take", ![p].woken = FALSE]
    BY <1>4, Zenon DEF AcquireCheck
  <2> QED
    BY <1>2, <1>3, <1>4, <2>1, Zenon DEF AcquireCheck
<1>5. CASE AcquireTake(p)
  <2>1. (\E step, result : PumpGoes(p, step) \/ PumpEnds(p, step, result))
          \/ pump' = [pump EXCEPT ![p].at = "connect", ![p].sink = pool.output]
    BY <1>5, Zenon DEF AcquireTake
  <2> QED
    BY <1>2, <1>3, <1>5, <2>1, Zenon DEF AcquireTake
<1>6. CASE AcquireWakes(p)
  BY <1>2, <1>6, Zenon DEF AcquireWakes
<1>7. CASE CreateSink(p)
  <2> DEFINE woken == NotifyAll(pump)
  <2>1. \A q \in Pumps : woken[q].route = pump[q].route /\ woken[q] \in PumpRecords
    BY <1>1, NotifyStays
  <2>2. DOMAIN woken = Pumps
    BY DEF NotifyAll
  <2>3. \/ pump' = [woken EXCEPT ![p].at = "done", ![p].result = "canceled"]
        \/ pump' = [woken EXCEPT ![p].at = "connect", ![p].sink = p]
        \/ pump' = [woken EXCEPT ![p].at = "done", ![p].result = "fatal"]
    BY <1>7, Zenon DEF CreateSink
  <2>4. UNCHANGED <<controller, world>>
    BY <1>7 DEF CreateSink
  <2> HIDE DEF woken
  <2> QED
    BY <2>1, <2>2, <2>3, <2>4 DEF RoutesStay, PumpRecords
<1>8. CASE ConnectAudio(p) \/ OpenStream(p) \/ PumpTop(p)
  BY <1>2, <1>8, Zenon DEF ConnectAudio, OpenStream, PumpTop
<1>9. CASE PumpPacket(p) \/ ClearAtEnd(p)
  BY <1>2, <1>9, Zenon DEF PumpPacket, ClearAtEnd
<1>10. CASE ReleaseCheck(p)
  <2>1. PICK sink : pump' = [pump EXCEPT ![p].at = "store", ![p].sink = sink]
    BY <1>10 DEF ReleaseCheck
  <2> QED
    BY <1>3, <1>10, <2>1 DEF ReleaseCheck
<1>11. CASE ReleaseStore(p)
  <2> DEFINE left == [pump EXCEPT ![p].at = "done", ![p].sink = NoSink]
  <2>1. pump' = left \/ \E w \in Waiters : pump' = [left EXCEPT ![w].woken = TRUE]
    BY <1>11, Zenon DEF ReleaseStore
  <2>2. \A q \in Pumps : left[q].route = pump[q].route /\ left[q] \in PumpRecords
    BY <1>1 DEF PumpRecords, PumpSteps
  <2>3. DOMAIN left = Pumps /\ Waiters \subseteq Pumps
    BY <1>1 DEF Waiters
  <2>4. UNCHANGED <<controller, world>>
    BY <1>11 DEF ReleaseStore
  <2> HIDE DEF left
  <2> QED
    BY <2>1, <2>2, <2>3, <2>4 DEF RoutesStay, PumpRecords
<1> QED
  BY <1>4, <1>5, <1>6, <1>7, <1>8, <1>9, <1>10, <1>11 DEF PumpStep

LEMMA PushedFits ==
  ASSUME buffer \in Buffers, BufferFits(buffer), NEW p \in Pumps
  PROVE  BufferFits(Pushed(p))
<1> DEFINE all == Append(buffer.samples, p)
           samples == IF Len(all) > BufferCapacity THEN Tail(all) ELSE all
<1>1. buffer.samples \in Seq(Pumps) /\ all \in Seq(Pumps) /\ Len(all) = Len(buffer.samples) + 1
  BY DEF Buffers
<1>2. Len(samples) <= BufferCapacity
  <2>1. CASE Len(all) > BufferCapacity
    <3>1. all # <<>> /\ Len(Tail(all)) = Len(all) - 1
      BY <1>1, HeadTailProperties
    <3> QED
      BY <1>1, <2>1, <3>1, AudioBounds DEF BufferFits
  <2>2. CASE ~(Len(all) > BufferCapacity)
    BY <1>1, <2>2, AudioBounds
  <2> QED
    BY <2>1, <2>2
<1>3. PICK primed, fast : Pushed(p) = [buffer EXCEPT !.samples = samples, !.primed = primed, !.fast = fast]
  BY Zenon DEF Pushed
<1> HIDE DEF samples
<1>4. Pushed(p).samples = samples /\ Pushed(p).fadeOut = buffer.fadeOut /\ Pushed(p).tail = buffer.tail
  BY <1>3 DEF Buffers
<1> QED
  BY <1>2, <1>4 DEF BufferFits

LEMMA ClearedFits == BufferFits(Cleared)
<1>1. /\ Cleared.samples = <<>> /\ Cleared.fadeOut = (buffer.tail # NoPump)
      /\ Cleared.tail = buffer.tail
  BY DEF Cleared, EmptyBuffer
<1>2. Cleared.fadeOut => Cleared.tail # NoPump
  BY <1>1, Zenon
<1>3. Len(Cleared.samples) <= BufferCapacity
  BY <1>1, AudioBounds
<1> QED
  BY <1>2, <1>3 DEF BufferFits

LEMMA FillFits ==
  ASSUME buffer \in Buffers, BufferFits(buffer), FillBlock
  PROVE  BufferFits(buffer')
<1>1. CASE buffer.fadeOut
  BY <1>1 DEF FillBlock, BufferFits, Buffers
<1>2. CASE ~buffer.fadeOut /\ (~buffer.primed \/ buffer.samples = <<>>)
  BY <1>2 DEF FillBlock, BufferFits, Buffers
<1>3. CASE ~buffer.fadeOut /\ buffer.primed /\ buffer.samples # <<>>
  <2>0. buffer.samples \in Seq(Pumps)
    BY DEF Buffers
  <2>1. Len(Tail(buffer.samples)) = Len(buffer.samples) - 1 /\ Len(buffer.samples) \in Nat
    BY <1>3, <2>0, HeadTailProperties
  <2> DEFINE tail == IF controller.muted THEN NoPump ELSE Head(buffer.samples)
  <2>2. buffer' = [buffer EXCEPT !.samples = Tail(buffer.samples), !.tail = tail]
    BY <1>3, Zenon DEF FillBlock
  <2> HIDE DEF tail
  <2>3. buffer'.samples = Tail(buffer.samples) /\ buffer'.fadeOut = FALSE
    BY <1>3, <2>2 DEF Buffers
  <2> QED
    BY <2>1, <2>3, AudioBounds DEF BufferFits
<1> QED
  BY <1>1, <1>2, <1>3

LEMMA BufferFitsStep ==
  ASSUME AudioInv, BufferFits(buffer), [AudioNext]_audioVars
  PROVE  BufferFits(buffer')
<1>1. buffer \in Buffers
  BY DEF AudioInv, AudioTypes
<1>2. ASSUME NEW p \in Pumps, PumpStep(p) PROVE buffer' \in {buffer, Cleared, Pushed(p)}
  BY <1>2 DEF PumpStep, AcquireCheck, AcquireTake, AcquireWakes, CreateSink, ConnectAudio, OpenStream,
              PumpTop, PumpPacket, ClearAtEnd, ReleaseCheck, ReleaseStore
<1>3. CASE SyncSilent \/ SyncStarts \/ SetAudioEnabled
  <2>1. buffer' = Cleared
    BY <1>3, Zenon DEF SyncSilent, SyncStarts, SetAudioEnabled, Silence
  <2> QED
    BY <2>1, ClearedFits
<1>4. CASE SetAudioMuted \/ WorldChanges \/ UNCHANGED audioVars
  <2>1. buffer' = buffer
    BY <1>4, Zenon DEF SetAudioMuted, WorldChanges, audioVars
  <2> QED
    BY <2>1
<1> QED
  BY <1>1, <1>2, <1>3, <1>4, PushedFits, ClearedFits, FillFits DEF AudioNext

LEMMA AudioCountsStep ==
  ASSUME AudioInv, AudioCounts, [AudioNext]_audioVars
  PROVE  AudioCounts'
<1>1. /\ AudioTypes /\ controller \in Controllers /\ world \in Worlds
      /\ controller.revision \in Nat /\ controller.started \in Nat /\ world.revision \in Nat
      /\ world.changes \in Nat /\ MaxPumps \in Nat /\ MaxAudioChanges \in Nat
  BY AudioBounds DEF AudioInv, AudioTypes, Controllers, Worlds
<1>2. ASSUME NEW p \in Pumps, PumpStep(p) PROVE AudioCounts'
  BY <1>1, <1>2, PumpStays DEF RoutesStay, AudioCounts
<1>3. \A q \in Pumps : NotifyAll(Canceled)[q].route = pump[q].route
  BY <1>1, CanceledIs, CanceledStays, NotifyStays
<1>4. ASSUME NEW c, c.revision = controller.revision, c.started = controller.started,
             DOMAIN c = DOMAIN controller, Silence(c)
      PROVE  /\ RoutesStay /\ controller'.revision = controller.revision
             /\ controller'.started = controller.started
  BY <1>1, <1>3, <1>4 DEF Silence, RoutesStay, Controllers
<1>5. CASE SyncSilent
  BY <1>1, <1>4, <1>5 DEF SyncSilent, RoutesStay, AudioCounts
<1>6. CASE SyncStarts
  <2>1. CASE Silence(controller)
    BY <1>1, <1>4, <1>6, <2>1 DEF SyncStarts, RoutesStay, AudioCounts
  <2>2. ASSUME NEW p \in Pumps, StartPump(p) PROVE AudioCounts'
    <3>1. world.focus \in AudioRoutes /\ UNCHANGED world
      BY <1>1, <1>6 DEF SyncStarts, Wanted, Worlds
    <3>2. controller'.revision = world.revision /\ controller'.started = p /\ p <= MaxPumps
      BY <1>1, <2>2 DEF StartPump, Controllers, Pumps
    <3>3. DOMAIN NotifyAll(Canceled) = Pumps /\ NotifyAll(Canceled)[p] \in PumpRecords
      BY <1>1, CanceledIs, NotifyStays DEF NotifyAll
    <3>4. pump' = [NotifyAll(Canceled) EXCEPT ![p].route = world.focus, ![p].at = "check"]
      BY <2>2 DEF StartPump
    <3>5. \A q \in Pumps : pump'[q].route \in {pump[q].route, world.focus}
      BY <1>3, <3>3, <3>4 DEF PumpRecords
    <3> QED
      BY <1>1, <3>1, <3>2, <3>5 DEF AudioCounts
  <2> QED
    BY <1>6, <2>1, <2>2 DEF SyncStarts
<1>7. CASE SetAudioEnabled
  <2>1. /\ world'.changes = world.changes + 1 /\ world'.revision = world.revision
        /\ world.changes < MaxAudioChanges
    BY <1>1, <1>7 DEF SetAudioEnabled, Worlds
  <2>2. /\ RoutesStay /\ controller'.revision = controller.revision
        /\ controller'.started = controller.started
    <3>1. CASE Silence([controller EXCEPT !.enabled = FALSE])
      BY <1>1, <1>4, <3>1 DEF Controllers
    <3>2. CASE /\ controller' = [controller EXCEPT !.enabled = TRUE, !.active = NoPump, !.resync = TRUE]
               /\ pump' = NotifyAll(Canceled)
      BY <1>1, <1>3, <3>2 DEF Controllers, RoutesStay
    <3> QED
      BY <1>7, <3>1, <3>2 DEF SetAudioEnabled
  <2> QED
    BY <1>1, <2>1, <2>2 DEF RoutesStay, AudioCounts
<1>8. CASE SetAudioMuted
  <2>1. /\ world'.changes = world.changes + 1 /\ world'.revision = world.revision
        /\ world.changes < MaxAudioChanges /\ UNCHANGED pump
        /\ controller'.revision = controller.revision /\ controller'.started = controller.started
    BY <1>1, <1>8 DEF SetAudioMuted, Worlds, Controllers
  <2> QED
    BY <1>1, <2>1 DEF AudioCounts
<1>9. CASE FillBlock \/ UNCHANGED audioVars
  <2>1. UNCHANGED <<pump, controller, world>>
    BY <1>9 DEF FillBlock, audioVars
  <2> QED
    BY <2>1 DEF AudioCounts
<1>10. CASE WorldChanges
  <2>0. SUFFICES world'.changes = world.changes + 1 /\ world'.revision \in {world.revision, world.revision + 1}
    <3>1. world.changes < MaxAudioChanges /\ pump' = pump /\ controller' = controller
      BY <1>10 DEF WorldChanges
    <3> QED
      BY <1>1, <3>1 DEF AudioCounts
  <2>1. CASE \E r \in AudioRoutes \cup {Unfocused} :
                ~controller.resync /\ world' = [world EXCEPT !.focus = r, !.changes = @ + 1]
    <3>1. PICK r \in AudioRoutes \cup {Unfocused} : world' = [world EXCEPT !.focus = r, !.changes = @ + 1]
      BY <2>1, Zenon
    <3> QED
      BY <1>1, <3>1 DEF Worlds
  <2>2. CASE \E r \in AudioRoutes :
                world' = [world EXCEPT !.changes = @ + 1,
                            !.current = IF r \in @ THEN @ \ {r} ELSE @ \cup {r}]
    <3>1. PICK r \in AudioRoutes :
             world' = [world EXCEPT !.changes = @ + 1,
                         !.current = IF r \in @ THEN @ \ {r} ELSE @ \cup {r}]
      BY <2>2, Zenon
    <3> QED
      BY <1>1, <3>1 DEF Worlds
  <2>3. CASE world' = [world EXCEPT !.revision = @ + 1, !.changes = @ + 1]
    BY <1>1, <2>3 DEF Worlds
  <2> QED
    <3>1. \/ \E r \in AudioRoutes \cup {Unfocused} :
                ~controller.resync /\ world' = [world EXCEPT !.focus = r, !.changes = @ + 1]
          \/ \E r \in AudioRoutes :
                world' = [world EXCEPT !.changes = @ + 1,
                            !.current = IF r \in @ THEN @ \ {r} ELSE @ \cup {r}]
          \/ world' = [world EXCEPT !.revision = @ + 1, !.changes = @ + 1]
      BY <1>10, Zenon DEF WorldChanges
    <3> QED
      BY <3>1, <2>1, <2>2, <2>3
<1> QED
  BY <1>2, <1>5, <1>6, <1>7, <1>8, <1>9, <1>10 DEF AudioNext

\* The types of the pumps, of the output and of what it plays (core/audio.rs).
LEMMA AudioTypeCorrect == AudioSpec => []AudioTypeOK
<1>1. AudioInit => AudioInv /\ AudioCounts /\ BufferFits(buffer)
  <2> SUFFICES ASSUME AudioInit PROVE AudioCounts /\ BufferFits(buffer)
    BY AudioInitInv
  <2>1. (CHOOSE r \in AudioRoutes : TRUE) \in AudioRoutes
    BY AudioBounds DEF AudioRoutes
  <2>2. AudioCounts
    BY <2>1, AudioBounds DEF AudioInit, AudioCounts, NoPump
  <2>3. BufferFits(buffer)
    BY AudioBounds DEF AudioInit, BufferFits, EmptyBuffer
  <2> QED
    BY <2>2, <2>3
<1>2. AudioInv /\ AudioCounts /\ BufferFits(buffer) /\ [AudioNext]_audioVars =>
        AudioInv' /\ AudioCounts' /\ BufferFits(buffer)'
  BY AudioStepKeeps, AudioCountsStep, BufferFitsStep
<1>3. AudioInv /\ AudioCounts /\ BufferFits(buffer) => AudioTypeOK
  <2> SUFFICES ASSUME AudioInv, AudioCounts, BufferFits(buffer) PROVE AudioTypeOK
    OBVIOUS
  <2>1. AudioTypes
    BY DEF AudioInv
  <2>2. pump \in [Pumps -> [route : AudioRoutes, sink : {NoSink} \cup Pumps, at : PumpSteps,
                            cancel : BOOLEAN, woken : BOOLEAN, result : Results]]
    BY <2>1 DEF AudioTypes, AudioCounts, PumpRecords
  <2>3. /\ controller \in Controllers /\ controller.revision \in 0 .. MaxAudioChanges
        /\ controller.started \in {NoPump} \cup Pumps
    BY <2>1, AudioBounds DEF AudioTypes, AudioCounts, Controllers, Worlds, NoPump, Pumps
  <2>4. controller \in [enabled : BOOLEAN, active : {NoPump} \cup Pumps, muted : BOOLEAN,
                        resync : BOOLEAN, started : {NoPump} \cup Pumps,
                        revision : 0 .. MaxAudioChanges]
    BY <2>3 DEF Controllers
  <2> QED
    BY <2>1, <2>2, <2>4 DEF AudioTypes, AudioTypeOK, Pools, Buffers, Worlds, BufferFits, PumpSteps, Playing
<1> QED
  BY <1>1, <1>2, <1>3, PTL DEF AudioSpec

-----------------------------------------------------------------------------
(* The inductive invariant of Microphone.                                   *)

Joined == {"waiting"} \cup Inside
TurnedOn == {"verify", "undo", "fifo", "pump", "write", "beat", "disable"}
MicSteps == {"idle", "done"} \cup Waiting \cup Inside
Devs == MicDevices \cup {CHOOSE d \in MicDevices : TRUE}
MicRecords ==
  [dev : Devs, kind : {"host", "wav"}, at : MicSteps, exit : Exits, cancel : BOOLEAN,
   broken : BOOLEAN, paused : BOOLEAN, revision : Nat, late : Nat]
MicRoutes ==
  [state : [MicDevices -> {"live", "stopping", "gone"}], focus : Devs, revision : Nat,
   changes : Nat]

MicTypes ==
  /\ micSource \in [MicSources -> MicRecords] /\ micActive \in MicSources \cup {NoSource}
  /\ micGate \in Seq(MicSources) /\ micOn \in [MicDevices -> BOOLEAN] /\ micRoute \in MicRoutes

\* Who has joined the gate and not returned is in the queue once, and only its
\* head is inside.
GateInv ==
  /\ \A i, j \in 1 .. Len(micGate) : i # j => micGate[i] # micGate[j]
  /\ \A i \in 1 .. Len(micGate) : micSource[micGate[i]].at \in Joined
  /\ \A s \in MicSources : micSource[s].at \in Inside => Holds(s)

IsOn(d) == micOn[d] /\ d \notin micUndone

\* A microphone that is on has the holder of the gate to turn it off.
TurnInv ==
  \A d \in MicDevices : IsOn(d) =>
    micGate # <<>> /\ Dev(Head(micGate)) = d /\ micSource[Head(micGate)].at \in TurnedOn

\* A packet written late is the last one: the pump looks before the next.
LateInv(s) ==
  /\ micSource[s].late <= 1
  /\ micSource[s].late = 1 =>
       /\ micSource[s].at \in {"beat", "pump", "disable", "confirm"}
       /\ micSource[s].cancel \/ ~RouteAlive(Dev(s))
  /\ micSource[s].at # "idle" => Dev(s) \in MicDevices

MicInv == MicTypes /\ GateInv /\ TurnInv /\ \A s \in MicSources : LateInv(s)

-----------------------------------------------------------------------------
(* One source moves.                                                        *)

LEMMA HeadIs ==
  ASSUME MicInv, micGate # <<>>
  PROVE  /\ Head(micGate) \in MicSources /\ Head(micGate) = micGate[1]
         /\ 1 \in 1 .. Len(micGate) /\ micSource[Head(micGate)].at \in Joined
         /\ micGate \in Seq(MicSources) /\ Len(micGate) \in Nat
<1>1. micGate \in Seq(MicSources) /\ Len(micGate) \in Nat /\ Len(micGate) # 0
  BY DEF MicInv, MicTypes
<1>2. 1 \in 1 .. Len(micGate) /\ Head(micGate) = micGate[1] /\ micGate[1] \in MicSources
  BY <1>1
<1> QED
  BY <1>1, <1>2 DEF MicInv, GateInv

LEMMA SourceMoves ==
  ASSUME MicInv, NEW s \in MicSources, NEW w \in MicRecords,
         micSource' = [micSource EXCEPT ![s] = w],
         UNCHANGED <<micActive, micGate, micRoute>>, micOn' \in [MicDevices -> BOOLEAN],
         w.dev = Dev(s), micSource[s].at # "idle",
         micSource[s].at \in Joined => w.at \in Joined, w.at \in Inside => Holds(s),
         w.late <= 1,
         w.late = 1 => /\ w.at \in {"beat", "pump", "disable", "confirm"}
                       /\ w.cancel \/ ~RouteAlive(Dev(s)),
         \A d \in MicDevices :
           IsOn(d)' => IsOn(d) \/ (d = Dev(s) /\ Holds(s) /\ w.at \in TurnedOn),
         \A d \in MicDevices : Holds(s) /\ d = Dev(s) /\ IsOn(d)' => w.at \in TurnedOn
  PROVE  MicInv'
<1>1. /\ micSource' \in [MicSources -> MicRecords] /\ micSource'[s] = w
      /\ \A t \in MicSources \ {s} : micSource'[t] = micSource[t]
  BY DEF MicInv, MicTypes
<1>2. MicTypes'
  BY <1>1 DEF MicInv, MicTypes
<1>3. micGate \in Seq(MicSources) /\ micGate' = micGate
  BY DEF MicInv, MicTypes
<1>4. \A i \in 1 .. Len(micGate) : micGate[i] \in MicSources
  BY <1>3
<1>5. GateInv'
  BY <1>1, <1>3, <1>4 DEF MicInv, GateInv, Holds
<1>6. TurnInv'
  <2> SUFFICES ASSUME NEW d \in MicDevices, IsOn(d)'
               PROVE  /\ micGate # <<>> /\ micSource'[Head(micGate)].dev = d
                      /\ micSource'[Head(micGate)].at \in TurnedOn
    BY <1>3 DEF TurnInv, Dev
  <2>1. CASE Holds(s)
    <3>1. micGate # <<>> /\ Head(micGate) = s
      BY <2>1 DEF Holds
    <3>2. d = Dev(s)
      BY <3>1 DEF MicInv, TurnInv
    <3> QED
      BY <1>1, <2>1, <3>1, <3>2
  <2>2. CASE ~Holds(s)
    <3>1. IsOn(d)
      BY <2>2
    <3>2. /\ micGate # <<>> /\ Dev(Head(micGate)) = d
          /\ micSource[Head(micGate)].at \in TurnedOn
      BY <3>1 DEF MicInv, TurnInv
    <3>3. Head(micGate) \in MicSources \ {s}
      BY <2>2, <3>2, HeadIs DEF Holds
    <3> QED
      BY <1>1, <3>2, <3>3 DEF Dev
  <2> QED
    BY <2>1, <2>2
<1>7. ASSUME NEW t \in MicSources PROVE LateInv(t)'
  <2>1. CASE t = s
    BY <1>1, <2>1 DEF MicInv, LateInv, Dev, RouteAlive
  <2>2. CASE t # s
    BY <1>1, <2>2 DEF MicInv, LateInv, Dev, RouteAlive
  <2> QED
    BY <2>1, <2>2
<1> QED
  BY <1>2, <1>5, <1>6, <1>7 DEF MicInv

\* A source's turn ends, or it ends before it joins the gate.
LEMMA ReturnKeeps ==
  ASSUME MicInv, NEW s \in MicSources, NEW exit \in Exits, Return(s, exit),
         micSource[s].at = "spawned" \/ Holds(s), micSource[s].at # "idle",
         UNCHANGED <<micActive, micRoute>>, micOn' \in [MicDevices -> BOOLEAN],
         \A d \in MicDevices : IsOn(d)' => IsOn(d) /\ ~(Holds(s) /\ d = Dev(s))
  PROVE  MicInv'
<1> DEFINE w == Ended(micSource[s], exit)
<1>1. micSource[s] \in MicRecords /\ Dev(s) \in MicDevices
  BY DEF MicInv, MicTypes, LateInv
<1>2. /\ w \in MicRecords /\ w.dev = Dev(s) /\ w.late = 0 /\ w.at = "done"
  <2> DEFINE e == IF micSource[s].broken THEN "error" ELSE exit
  <2>1. e \in Exits
    BY DEF Exits
  <2>2. w = [micSource[s] EXCEPT !.at = "done", !.exit = e, !.kind = "wav", !.cancel = FALSE,
               !.broken = FALSE, !.paused = FALSE, !.revision = 0, !.late = 0]
    BY DEF Ended
  <2> HIDE DEF e, w
  <2> QED
    BY <1>1, <2>1, <2>2 DEF MicRecords, MicSteps, Dev
<1>3. micSource' = [micSource EXCEPT ![s] = w]
  BY Zenon DEF Return
<1> HIDE DEF w
<1>4. /\ micSource' \in [MicSources -> MicRecords] /\ micSource'[s] = w
      /\ \A t \in MicSources \ {s} : micSource'[t] = micSource[t]
  BY <1>2, <1>3 DEF MicInv, MicTypes
<1>5. micGate' = IF Holds(s) THEN Tail(micGate) ELSE micGate
  BY DEF Return
<1>6. \A t \in MicSources : LateInv(t)'
  BY <1>1, <1>2, <1>4 DEF MicInv, LateInv, Dev, RouteAlive
<1>7. CASE Holds(s)
  <2>1. micGate # <<>> /\ Head(micGate) = s
    BY <1>7 DEF Holds
  <2>2. /\ micGate[1] = s /\ micGate \in Seq(MicSources) /\ Len(micGate) \in Nat
        /\ Len(micGate) >= 1
    BY <2>1, HeadIs
  <2>3. /\ micGate' = Tail(micGate) /\ micGate' \in Seq(MicSources)
        /\ Len(micGate') = Len(micGate) - 1
        /\ \A i \in 1 .. Len(micGate') : micGate'[i] = micGate[i + 1] /\ i + 1 \in 1 .. Len(micGate)
    BY <1>5, <1>7, <2>1, <2>2
  <2>4. \A i \in 1 .. Len(micGate') : micGate'[i] \in MicSources \ {s}
    BY <2>2, <2>3 DEF MicInv, GateInv
  <2>5. \A t \in MicSources \ {s} : micSource[t].at \notin Inside
    BY <2>1 DEF MicInv, GateInv, Holds
  <2>6. GateInv'
    <3>1. \A i, j \in 1 .. Len(micGate') : i # j => micGate'[i] # micGate'[j]
      <4> SUFFICES ASSUME NEW i \in 1 .. Len(micGate'), NEW j \in 1 .. Len(micGate'), i # j
                   PROVE  micGate'[i] # micGate'[j]
        OBVIOUS
      <4>1. i + 1 # j + 1 /\ i + 1 \in 1 .. Len(micGate) /\ j + 1 \in 1 .. Len(micGate)
        BY <2>2, <2>3
      <4> QED
        BY <2>3, <4>1 DEF MicInv, GateInv
    <3>2. \A i \in 1 .. Len(micGate') : micSource'[micGate'[i]].at \in Joined
      BY <1>4, <2>3, <2>4 DEF MicInv, GateInv
    <3>3. \A t \in MicSources : micSource'[t].at \notin Inside
      BY <1>2, <1>4, <2>5 DEF Inside
    <3> QED
      BY <3>1, <3>2, <3>3 DEF GateInv
  <2>7. \A d \in MicDevices : ~IsOn(d)'
    BY <1>7, <2>1 DEF MicInv, TurnInv
  <2> QED
    BY <1>4, <1>6, <2>3, <2>6, <2>7 DEF MicInv, MicTypes, TurnInv
<1>8. CASE ~Holds(s)
  <2>1. micGate' = micGate /\ micSource[s].at = "spawned"
    BY <1>5, <1>8
  <2>2. \A i \in 1 .. Len(micGate) : micGate[i] \in MicSources \ {s}
    <3>1. "spawned" \notin Joined
      BY DEF Joined, Inside
    <3> QED
      BY <2>1, <3>1 DEF MicInv, MicTypes, GateInv
  <2>3. GateInv'
    <3>1. w.at \notin Inside
      BY <1>2 DEF Inside
    <3> QED
      BY <1>4, <2>1, <2>2, <3>1 DEF MicInv, GateInv, Holds
  <2>4. TurnInv'
    <3> SUFFICES ASSUME NEW d \in MicDevices, IsOn(d)'
                 PROVE  /\ micGate # <<>> /\ micSource'[Head(micGate)].dev = d
                        /\ micSource'[Head(micGate)].at \in TurnedOn
      BY <2>1 DEF TurnInv, Dev
    <3>1. /\ micGate # <<>> /\ Dev(Head(micGate)) = d
          /\ micSource[Head(micGate)].at \in TurnedOn
      BY DEF MicInv, TurnInv
    <3>2. Head(micGate) \in MicSources \ {s}
      BY <1>8, <3>1, HeadIs DEF Holds
    <3> QED
      BY <1>4, <3>1, <3>2 DEF Dev
  <2> QED
    BY <1>4, <1>6, <2>1, <2>3, <2>4 DEF MicInv, MicTypes
<1> QED
  BY <1>7, <1>8

-----------------------------------------------------------------------------
(* The steps of a source.                                                   *)

LEMMA MicGoesIs ==
  ASSUME MicInv, NEW s \in MicSources, NEW step \in MicSteps, SourceGoes(s, step)
  PROVE  \E w \in MicRecords :
           /\ micSource' = [micSource EXCEPT ![s] = w]
           /\ w.at = step /\ w.dev = Dev(s) /\ w.late = micSource[s].late
           /\ w.cancel = micSource[s].cancel
<1> DEFINE w == [micSource[s] EXCEPT !.at = step]
<1>1. micSource' = [micSource EXCEPT ![s] = w]
  BY Zenon DEF SourceGoes
<1>2. micSource[s] \in MicRecords
  BY DEF MicInv, MicTypes
<1>3. /\ w \in MicRecords /\ w.at = step /\ w.dev = Dev(s) /\ w.late = micSource[s].late
      /\ w.cancel = micSource[s].cancel
  BY <1>2 DEF MicRecords, Dev
<1> HIDE DEF w
<1> QED
  BY <1>1, <1>3

LEMMA LeavesIs ==
  ASSUME MicInv, NEW s \in MicSources, NEW exit \in Exits, NEW step \in MicSteps,
         SourceLeaves(s, exit, step)
  PROVE  \E w \in MicRecords :
           /\ micSource' = [micSource EXCEPT ![s] = w]
           /\ w.at = step /\ w.dev = Dev(s) /\ w.late = micSource[s].late
           /\ w.cancel = micSource[s].cancel
<1> DEFINE w == [micSource[s] EXCEPT !.at = step, !.exit = exit]
<1>1. micSource' = [micSource EXCEPT ![s] = w]
  BY Zenon DEF SourceLeaves
<1>2. micSource[s] \in MicRecords
  BY DEF MicInv, MicTypes
<1>3. /\ w \in MicRecords /\ w.at = step /\ w.dev = Dev(s) /\ w.late = micSource[s].late
      /\ w.cancel = micSource[s].cancel
  BY <1>2 DEF MicRecords, Dev
<1> HIDE DEF w
<1> QED
  BY <1>1, <1>3

\* What SetGuestMicrophone does, whether or not the call succeeds.
LEMMA SetGuestIs ==
  ASSUME MicInv, NEW d \in MicDevices, NEW on \in BOOLEAN, NEW ok \in BOOLEAN,
         SetGuestMicrophone(d, on, ok)
  PROVE  /\ micOn' \in [MicDevices -> BOOLEAN]
         /\ \A e \in MicDevices \ {d} : IsOn(e)' => IsOn(e)
         /\ ~on => ~(micOn'[d] /\ d \notin micUndone')
<1>1. micOn \in [MicDevices -> BOOLEAN]
  BY DEF MicInv, MicTypes
<1>2. PICK applied \in BOOLEAN :
        /\ micOn' = IF applied THEN [micOn EXCEPT ![d] = on] ELSE micOn
        /\ micUndone' = IF on \/ applied THEN micUndone \ {d} ELSE micUndone \cup {d}
  BY DEF SetGuestMicrophone
<1>3. micOn' \in [MicDevices -> BOOLEAN]
  BY <1>1, <1>2
<1>4. \A e \in MicDevices \ {d} : IsOn(e)' => IsOn(e)
  BY <1>1, <1>2 DEF IsOn
<1>5. ~on => ~(micOn'[d] /\ d \notin micUndone')
  BY <1>1, <1>2
<1> QED
  BY <1>3, <1>4, <1>5

\* A step of a source that leaves the guests alone.
LEMMA QuietMoves ==
  ASSUME MicInv, NEW s \in MicSources, NEW step \in MicSteps,
         micSource[s].at # "idle", UNCHANGED <<micGate, guestVars>>,
         \E w \in MicRecords :
           /\ micSource' = [micSource EXCEPT ![s] = w]
           /\ w.at = step /\ w.dev = Dev(s) /\ w.late = micSource[s].late
           /\ w.cancel = micSource[s].cancel,
         micSource[s].at \in Joined => step \in Joined, step \in Inside => Holds(s),
         micSource[s].late = 1 => step \in {"beat", "pump", "disable", "confirm"},
         micSource[s].at \in TurnedOn => step \in TurnedOn
  PROVE  MicInv'
<1>1. PICK w \in MicRecords :
        /\ micSource' = [micSource EXCEPT ![s] = w]
        /\ w.at = step /\ w.dev = Dev(s) /\ w.late = micSource[s].late
        /\ w.cancel = micSource[s].cancel
  OBVIOUS
<1>2. micOn' \in [MicDevices -> BOOLEAN] /\ UNCHANGED <<micActive, micGate, micRoute, micOn, micUndone>>
  BY DEF MicInv, MicTypes, guestVars
<1>3. LateInv(s)
  BY DEF MicInv
<1>4. /\ w.late <= 1
      /\ w.late = 1 => /\ w.at \in {"beat", "pump", "disable", "confirm"}
                       /\ w.cancel \/ ~RouteAlive(Dev(s))
  BY <1>1, <1>3 DEF LateInv
<1>5. \A d \in MicDevices : IsOn(d)' => IsOn(d)
  BY <1>2 DEF IsOn
<1>6. \A d \in MicDevices : Holds(s) /\ d = Dev(s) /\ IsOn(d)' => w.at \in TurnedOn
  BY <1>1, <1>5 DEF MicInv, TurnInv, Holds
<1> QED
  BY <1>1, <1>2, <1>4, <1>5, <1>6, SourceMoves

\* A turn that ends where the microphone is off, or without a turn.
LEMMA QuietReturn ==
  ASSUME MicInv, NEW s \in MicSources, NEW exit \in Exits, Return(s, exit), UNCHANGED guestVars,
         micSource[s].at = "spawned" \/ Holds(s), micSource[s].at # "idle",
         micSource[s].at \notin TurnedOn
  PROVE  MicInv'
<1>1. micOn' \in [MicDevices -> BOOLEAN] /\ UNCHANGED <<micActive, micRoute, micOn, micUndone>>
  BY DEF MicInv, MicTypes, guestVars
<1>2. \A d \in MicDevices : IsOn(d)' => IsOn(d)
  BY <1>1 DEF IsOn
<1>3. \A d \in MicDevices : IsOn(d) => ~(Holds(s) /\ d = Dev(s))
  BY DEF MicInv, TurnInv, Holds
<1> QED
  BY <1>1, <1>2, <1>3, ReturnKeeps

LEMMA JoinGateKeeps ==
  ASSUME MicInv, NEW s \in MicSources, JoinGate(s)
  PROVE  MicInv'
<1>1. micSource[s].at = "spawned" /\ UNCHANGED guestVars
  BY DEF JoinGate, SourceAt
<1>2. CASE Return(s, "error")
  BY <1>1, <1>2, QuietReturn DEF TurnedOn, Exits
<1>3. CASE SourceGoes(s, "waiting") /\ micGate' = Append(micGate, s)
  <2>1. PICK w \in MicRecords :
          /\ micSource' = [micSource EXCEPT ![s] = w]
          /\ w.at = "waiting" /\ w.dev = Dev(s) /\ w.late = micSource[s].late
          /\ w.cancel = micSource[s].cancel
    BY <1>3, MicGoesIs DEF MicSteps, Waiting
  <2>2. /\ micSource' \in [MicSources -> MicRecords] /\ micSource'[s] = w
        /\ \A t \in MicSources \ {s} : micSource'[t] = micSource[t]
    BY <2>1 DEF MicInv, MicTypes
  <2>3. /\ micGate \in Seq(MicSources) /\ micGate' \in Seq(MicSources) /\ Len(micGate) \in Nat
        /\ Len(micGate') = Len(micGate) + 1 /\ micGate'[Len(micGate) + 1] = s
        /\ \A i \in 1 .. Len(micGate) : micGate'[i] = micGate[i] /\ micGate[i] \in MicSources
    BY <1>3 DEF MicInv, MicTypes
  <2>4. \A i \in 1 .. Len(micGate) : micGate[i] # s
    <3>1. "spawned" \notin Joined
      BY DEF Joined, Inside
    <3> QED
      BY <1>1, <3>1 DEF MicInv, GateInv
  <2>5. Holds(s) => FALSE
    BY <2>3, <2>4, HeadIs DEF Holds
  <2>6. /\ micGate # <<>> => micGate' # <<>> /\ Head(micGate') = Head(micGate)
    BY <2>3
  <2>7. GateInv'
    <3>1. ASSUME NEW i \in 1 .. Len(micGate'), NEW j \in 1 .. Len(micGate'), i # j
          PROVE  micGate'[i] # micGate'[j]
      <4>1. i \in Nat /\ j \in Nat
        BY <2>3
      <4>2. CASE i = Len(micGate) + 1
        <5>1. j \in 1 .. Len(micGate)
          BY <2>3, <3>1, <4>2
        <5> QED
          BY <2>3, <2>4, <4>2, <5>1
      <4>3. CASE j = Len(micGate) + 1
        <5>1. i \in 1 .. Len(micGate)
          BY <2>3, <3>1, <4>3
        <5> QED
          BY <2>3, <2>4, <4>3, <5>1
      <4>4. CASE i # Len(micGate) + 1 /\ j # Len(micGate) + 1
        <5>1. i \in 1 .. Len(micGate) /\ j \in 1 .. Len(micGate)
          BY <2>3, <4>4
        <5> QED
          BY <2>3, <3>1, <5>1 DEF MicInv, GateInv
      <4> QED
        BY <4>2, <4>3, <4>4
    <3>2. ASSUME NEW i \in 1 .. Len(micGate') PROVE micSource'[micGate'[i]].at \in Joined
      <4>1. CASE i = Len(micGate) + 1
        BY <2>1, <2>2, <2>3, <4>1 DEF Joined
      <4>2. CASE i # Len(micGate) + 1
        <5>1. i \in 1 .. Len(micGate)
          BY <2>3, <4>2
        <5> QED
          BY <2>2, <2>3, <2>4, <5>1 DEF MicInv, GateInv
      <4> QED
        BY <4>1, <4>2
    <3>3. ASSUME NEW t \in MicSources, micSource'[t].at \in Inside
          PROVE  micGate' # <<>> /\ Head(micGate') = t
      <4>1. t # s
        BY <2>1, <2>2, <3>3 DEF Inside
      <4>2. Holds(t)
        BY <2>2, <3>3, <4>1 DEF MicInv, GateInv
      <4> QED
        BY <2>6, <4>2 DEF Holds
    <3> QED
      BY <3>1, <3>2, <3>3 DEF GateInv, Holds
  <2>8. UNCHANGED <<micActive, micOn, micUndone, micRoute>>
    BY <1>1 DEF guestVars
  <2>9. TurnInv'
    <3> SUFFICES ASSUME NEW d \in MicDevices, IsOn(d)'
                 PROVE  /\ micGate' # <<>> /\ micSource'[Head(micGate')].dev = d
                        /\ micSource'[Head(micGate')].at \in TurnedOn
      BY DEF TurnInv, Dev
    <3>1. IsOn(d)
      BY <2>8 DEF IsOn
    <3>2. /\ micGate # <<>> /\ Dev(Head(micGate)) = d
          /\ micSource[Head(micGate)].at \in TurnedOn
      BY <3>1 DEF MicInv, TurnInv
    <3>3. Head(micGate) \in MicSources \ {s}
      BY <2>5, <3>2, HeadIs DEF Holds
    <3> QED
      BY <2>2, <2>6, <3>2, <3>3 DEF Dev
  <2>10. \A t \in MicSources : LateInv(t)'
    <3>1. LateInv(s)
      BY DEF MicInv
    <3>2. LateInv(s)'
      BY <1>1, <2>1, <2>2, <2>8, <3>1 DEF LateInv, Dev, RouteAlive
    <3> QED
      BY <2>2, <2>8, <3>2 DEF MicInv, LateInv, Dev, RouteAlive
  <2>11. MicTypes'
    BY <2>2, <2>3, <2>8 DEF MicInv, MicTypes
  <2> QED
    BY <2>7, <2>9, <2>10, <2>11 DEF MicInv
<1> QED
  BY <1>2, <1>3 DEF JoinGate

LEMMA EnterGateKeeps ==
  ASSUME MicInv, NEW s \in MicSources, EnterGate(s)
  PROVE  MicInv'
<1>1. micSource[s].at = "waiting" /\ Holds(s) /\ UNCHANGED guestVars
  BY DEF EnterGate, SourceAt
<1>2. ASSUME NEW exit \in Exits, Return(s, exit) PROVE MicInv'
  BY <1>1, <1>2, QuietReturn DEF TurnedOn
<1>3. CASE SourceGoes(s, "reconnect") /\ UNCHANGED micGate
  <2>1. "reconnect" \in MicSteps
    BY DEF MicSteps, Inside
  <2>2. LateInv(s)
    BY DEF MicInv
  <2> QED
    BY <1>1, <1>3, <2>1, <2>2, MicGoesIs, QuietMoves DEF Joined, Inside, TurnedOn, LateInv
<1> QED
  BY <1>2, <1>3 DEF EnterGate, Exits

LEMMA ReconnectKeeps ==
  ASSUME MicInv, NEW s \in MicSources, Reconnect(s)
  PROVE  MicInv'
<1>1. micSource[s].at = "reconnect" /\ UNCHANGED guestVars
  BY DEF Reconnect, SourceAt
<1>2. Holds(s)
  BY <1>1 DEF MicInv, GateInv, Inside
<1>3. ASSUME NEW exit \in Exits, Return(s, exit) PROVE MicInv'
  BY <1>1, <1>2, <1>3, QuietReturn DEF TurnedOn
<1>4. CASE SourceGoes(s, "enable") /\ UNCHANGED micGate
  <2>1. "enable" \in MicSteps
    BY DEF MicSteps, Inside
  <2>2. LateInv(s)
    BY DEF MicInv
  <2> QED
    BY <1>1, <1>2, <1>4, <2>1, <2>2, MicGoesIs, QuietMoves DEF Joined, Inside, TurnedOn, LateInv
<1> QED
  BY <1>3, <1>4 DEF Reconnect, Exits

LEMMA InsideHolds ==
  ASSUME MicInv, NEW s \in MicSources, micSource[s].at \in Inside
  PROVE  Holds(s) /\ Dev(s) \in MicDevices /\ LateInv(s)
<1>1. micSource[s].at # "idle"
  BY DEF Inside
<1> QED
  BY <1>1 DEF MicInv, GateInv, LateInv

LEMMA EnableGuestKeeps ==
  ASSUME MicInv, NEW s \in MicSources, EnableGuest(s)
  PROVE  MicInv'
<1>1. micSource[s].at = "enable" /\ UNCHANGED <<micActive, micGate, micRoute>>
  BY DEF EnableGuest, SourceAt
<1>2. Holds(s) /\ Dev(s) \in MicDevices /\ LateInv(s)
  BY <1>1, InsideHolds DEF Inside
<1>3. PICK ok \in BOOLEAN :
        SetGuestMicrophone(Dev(s), TRUE, ok) /\ SourceGoes(s, IF ok THEN "verify" ELSE "undo")
  BY DEF EnableGuest
<1> DEFINE step == IF ok THEN "verify" ELSE "undo"
<1>4. step \in MicSteps /\ step \in TurnedOn /\ step \in Joined
  BY DEF MicSteps, TurnedOn, Joined, Inside
<1> HIDE DEF step
<1>5. PICK w \in MicRecords :
        /\ micSource' = [micSource EXCEPT ![s] = w]
        /\ w.at = step /\ w.dev = Dev(s) /\ w.late = micSource[s].late
        /\ w.cancel = micSource[s].cancel
  BY <1>3, <1>4, MicGoesIs DEF step
<1>6. /\ micOn' \in [MicDevices -> BOOLEAN]
      /\ \A e \in MicDevices : e # Dev(s) /\ IsOn(e)' => IsOn(e)
  BY <1>2, <1>3, SetGuestIs
<1>7. w.late <= 1 /\ w.late # 1
  BY <1>1, <1>2, <1>5 DEF LateInv
<1> QED
  BY <1>1, <1>2, <1>4, <1>5, <1>6, <1>7, SourceMoves

LEMMA VerifyGuestKeeps ==
  ASSUME MicInv, NEW s \in MicSources, VerifyGuest(s)
  PROVE  MicInv'
<1>1. micSource[s].at = "verify" /\ UNCHANGED <<micGate, guestVars>>
  BY DEF VerifyGuest, SourceAt
<1>2. Holds(s) /\ Dev(s) \in MicDevices /\ LateInv(s)
  BY <1>1, InsideHolds DEF Inside
<1>3. CASE SourceGoes(s, "undo")
  <2>1. "undo" \in MicSteps
    BY DEF MicSteps, Inside
  <2> QED
    BY <1>1, <1>2, <1>3, <2>1, MicGoesIs, QuietMoves DEF Joined, Inside, TurnedOn, LateInv
<1>4. CASE micSource' = [micSource EXCEPT ![s].revision = micRoute.revision, ![s].at = "fifo"]
  <2> DEFINE w == [micSource[s] EXCEPT !.revision = micRoute.revision, !.at = "fifo"]
  <2>1. micSource' = [micSource EXCEPT ![s] = w]
    BY <1>4, Zenon
  <2>2. micSource[s] \in MicRecords /\ micRoute.revision \in Nat /\ "fifo" \in MicSteps
    BY DEF MicInv, MicTypes, MicRoutes, MicSteps, Inside
  <2>3. /\ w \in MicRecords /\ w.at = "fifo" /\ w.dev = Dev(s) /\ w.late = micSource[s].late
        /\ w.cancel = micSource[s].cancel
    BY <2>2 DEF MicRecords, Dev
  <2> HIDE DEF w
  <2> QED
    BY <1>1, <1>2, <2>1, <2>2, <2>3, QuietMoves DEF Joined, Inside, TurnedOn, LateInv
<1> QED
  BY <1>3, <1>4 DEF VerifyGuest

LEMMA UndoEnableKeeps ==
  ASSUME MicInv, NEW s \in MicSources, UndoEnable(s)
  PROVE  MicInv'
<1>1. micSource[s].at = "undo" /\ UNCHANGED <<micActive, micRoute>> /\ Return(s, "error")
  BY DEF UndoEnable, SourceAt
<1>2. Holds(s) /\ Dev(s) \in MicDevices
  BY <1>1, InsideHolds DEF Inside
<1>3. PICK ok \in BOOLEAN : SetGuestMicrophone(Dev(s), FALSE, ok)
  BY DEF UndoEnable
<1>4. /\ micOn' \in [MicDevices -> BOOLEAN]
      /\ \A e \in MicDevices : IsOn(e)' => IsOn(e) /\ e # Dev(s)
  BY <1>2, <1>3, SetGuestIs DEF IsOn
<1> QED
  BY <1>1, <1>2, <1>4, ReturnKeeps DEF Exits

LEMMA DisableGuestKeeps ==
  ASSUME MicInv, NEW s \in MicSources, DisableGuest(s)
  PROVE  MicInv'
<1>1. micSource[s].at = "disable" /\ UNCHANGED <<micActive, micRoute>>
  BY DEF DisableGuest, SourceAt
<1>2. Holds(s) /\ Dev(s) \in MicDevices /\ LateInv(s)
  BY <1>1, InsideHolds DEF Inside
<1>3. PICK ok \in BOOLEAN :
        /\ SetGuestMicrophone(Dev(s), FALSE, ok)
        /\ IF ok THEN SourceGoes(s, "confirm") /\ UNCHANGED micGate ELSE Return(s, "error")
  BY DEF DisableGuest
<1>4. /\ micOn' \in [MicDevices -> BOOLEAN]
      /\ \A e \in MicDevices : IsOn(e)' => IsOn(e) /\ e # Dev(s)
  BY <1>2, <1>3, SetGuestIs DEF IsOn
<1>5. CASE Return(s, "error")
  BY <1>1, <1>2, <1>4, <1>5, ReturnKeeps DEF Exits
<1>6. CASE SourceGoes(s, "confirm") /\ UNCHANGED micGate
  <2>1. "confirm" \in MicSteps /\ "confirm" \in Joined
    BY DEF MicSteps, Joined, Inside
  <2>2. PICK w \in MicRecords :
          /\ micSource' = [micSource EXCEPT ![s] = w]
          /\ w.at = "confirm" /\ w.dev = Dev(s) /\ w.late = micSource[s].late
          /\ w.cancel = micSource[s].cancel
    BY <1>6, <2>1, MicGoesIs
  <2>3. /\ w.late <= 1
        /\ w.late = 1 => w.cancel \/ ~RouteAlive(Dev(s))
    BY <1>2, <2>2 DEF LateInv
  <2> QED
    BY <1>1, <1>2, <1>4, <1>6, <2>1, <2>2, <2>3, SourceMoves
<1> QED
  BY <1>3, <1>5, <1>6

LEMMA ConfirmDisabledKeeps ==
  ASSUME MicInv, NEW s \in MicSources, ConfirmDisabled(s)
  PROVE  MicInv'
<1>1. micSource[s].at = "confirm" /\ UNCHANGED guestVars
  BY DEF ConfirmDisabled, SourceAt
<1>2. Holds(s)
  BY <1>1, InsideHolds DEF Inside
<1>3. ASSUME NEW exit \in Exits, Return(s, exit) PROVE MicInv'
  BY <1>1, <1>2, <1>3, QuietReturn DEF TurnedOn
<1>4. micSource[s].exit \in Exits
  BY DEF MicInv, MicTypes, MicRecords
<1> QED
  BY <1>3, <1>4 DEF ConfirmDisabled, Exits

\* The stop condition holds for a source whose packet was late.
LEMMA LateIsStopped ==
  ASSUME MicInv, NEW s \in MicSources, micSource[s].at \in Inside, micSource[s].late = 1
  PROVE  PumpStopped(s)
<1>1. LateInv(s)
  BY DEF MicInv
<1> QED
  BY <1>1 DEF LateInv, PumpStopped, RouteIsFocused, RouteAlive

LEMMA PumpKeeps ==
  ASSUME MicInv, NEW s \in MicSources, OpenFifo(s) \/ NextPacket(s) \/ Beat(s)
  PROVE  MicInv'
<1>1. micSource[s].at \in {"fifo", "pump", "beat"} /\ UNCHANGED <<micGate, guestVars>>
  BY DEF OpenFifo, NextPacket, Beat, SourceAt
<1>2. Holds(s) /\ LateInv(s)
  BY <1>1, InsideHolds DEF Inside
<1>3. \/ \E exit \in Exits : SourceLeaves(s, exit, "disable")
      \/ micSource[s].at \in {"fifo", "beat"} /\ SourceGoes(s, "pump")
      \/ micSource[s].at = "pump" /\ ~PumpStopped(s) /\ SourceGoes(s, "write")
  BY DEF OpenFifo, NextPacket, Beat, SourceAt, Exits
<1>4. "disable" \in MicSteps /\ "pump" \in MicSteps /\ "write" \in MicSteps
  BY DEF MicSteps, Inside
<1>5. ASSUME NEW exit \in Exits, SourceLeaves(s, exit, "disable") PROVE MicInv'
  BY <1>1, <1>2, <1>4, <1>5, LeavesIs, QuietMoves DEF Joined, Inside, TurnedOn
<1>6. CASE micSource[s].at \in {"fifo", "beat"} /\ SourceGoes(s, "pump")
  BY <1>1, <1>2, <1>4, <1>6, MicGoesIs, QuietMoves DEF Joined, Inside, TurnedOn
<1>7. CASE micSource[s].at = "pump" /\ ~PumpStopped(s) /\ SourceGoes(s, "write")
  <2>1. micSource[s].late # 1
    BY <1>1, <1>7, LateIsStopped DEF Inside
  <2> QED
    BY <1>1, <1>2, <1>4, <1>7, <2>1, MicGoesIs, QuietMoves DEF Joined, Inside, TurnedOn
<1> QED
  BY <1>3, <1>5, <1>6, <1>7

LEMMA WriteFifoKeeps ==
  ASSUME MicInv, NEW s \in MicSources, WriteFifo(s)
  PROVE  MicInv'
<1>1. micSource[s].at = "write" /\ UNCHANGED <<micGate, guestVars>>
  BY DEF WriteFifo, SourceAt
<1>2. Holds(s) /\ LateInv(s) /\ micSource[s] \in MicRecords
  BY <1>1, InsideHolds DEF Inside, MicInv, MicTypes
<1>3. micSource[s].late = 0
  BY <1>1, <1>2 DEF LateInv, MicRecords
<1>4. "disable" \in MicSteps /\ "beat" \in MicSteps
  BY DEF MicSteps, Inside
<1>5. CASE SourceLeaves(s, "error", "disable")
  BY <1>1, <1>2, <1>3, <1>4, <1>5, LeavesIs, QuietMoves DEF Joined, Inside, TurnedOn, Exits
<1>6. CASE SourceGoes(s, "beat")
  BY <1>1, <1>2, <1>3, <1>4, <1>6, MicGoesIs, QuietMoves DEF Joined, Inside, TurnedOn
<1>7. CASE micSource' = [micSource EXCEPT ![s].at = "beat",
                           ![s].late = IF micSource[s].cancel \/ ~RouteAlive(Dev(s))
                                       THEN @ + 1 ELSE @]
  <2> DEFINE late == IF micSource[s].cancel \/ ~RouteAlive(Dev(s))
                     THEN micSource[s].late + 1 ELSE micSource[s].late
             w == [micSource[s] EXCEPT !.at = "beat", !.late = late]
  <2>1. micSource' = [micSource EXCEPT ![s] = w]
    BY <1>7, Zenon
  <2>2. late \in {0, 1} /\ (late = 1 => micSource[s].cancel \/ ~RouteAlive(Dev(s)))
    BY <1>3
  <2> HIDE DEF late
  <2>3. /\ w \in MicRecords /\ w.at = "beat" /\ w.dev = Dev(s) /\ w.late = late
        /\ w.cancel = micSource[s].cancel
    <3>1. late \in Nat /\ micSource[s] \in MicRecords
      BY <1>2, <2>2
    <3> QED
      BY <1>4, <3>1 DEF MicRecords, Dev
  <2> HIDE DEF w
  <2>4. /\ micOn' \in [MicDevices -> BOOLEAN] /\ UNCHANGED <<micActive, micRoute, micOn, micUndone>>
        /\ w.late <= 1 /\ w.at \in Joined /\ w.at \in TurnedOn
    BY <1>1, <2>2, <2>3 DEF guestVars, MicInv, MicTypes, Joined, Inside, TurnedOn
  <2>5. \A d \in MicDevices : IsOn(d)' => IsOn(d)
    BY <2>4 DEF IsOn
  <2> QED
    BY <1>1, <1>2, <2>1, <2>2, <2>3, <2>4, <2>5, SourceMoves
<1> QED
  BY <1>5, <1>6, <1>7, Zenon DEF WriteFifo

-----------------------------------------------------------------------------
(* The controller and the world.                                            *)

\* Flags and routes change, and sources are started, at most.
LEMMA MicWorldKeeps ==
  ASSUME MicInv, MicTypes', micGate' = micGate, NEW P \in SUBSET MicSources,
         \A s \in MicSources \ P :
           /\ micSource'[s].at = micSource[s].at /\ micSource'[s].dev = micSource[s].dev
           /\ micSource[s].cancel => micSource'[s].cancel,
         \A s \in MicSources : micSource'[s].late = micSource[s].late,
         \A s \in P : /\ micSource[s].at = "idle" /\ micSource'[s].at = "spawned"
                      /\ micSource'[s].dev \in MicDevices,
         \A d \in MicDevices : IsOn(d)' => IsOn(d),
         \A d \in MicDevices : micRoute.state[d] = "gone" => micRoute'.state[d] = "gone"
  PROVE  MicInv'
<1>1. "idle" \notin Joined /\ "spawned" \notin Inside /\ "idle" \notin Inside
  BY DEF Joined, Inside
<1>2. \A i \in 1 .. Len(micGate) : micGate[i] \in MicSources \ P
  BY <1>1 DEF MicInv, MicTypes, GateInv
<1>3. GateInv'
  BY <1>1, <1>2 DEF MicInv, GateInv, Holds
<1>4. TurnInv'
  <2> SUFFICES ASSUME NEW d \in MicDevices, IsOn(d)'
               PROVE  /\ micGate # <<>> /\ micSource'[Head(micGate)].dev = d
                      /\ micSource'[Head(micGate)].at \in TurnedOn
    BY DEF TurnInv, Dev
  <2>1. /\ micGate # <<>> /\ Dev(Head(micGate)) = d
        /\ micSource[Head(micGate)].at \in TurnedOn
    BY DEF MicInv, TurnInv
  <2>2. Head(micGate) \in MicSources \ P
    BY <1>2, <2>1, HeadIs
  <2> QED
    BY <2>1, <2>2 DEF Dev
<1>5. ASSUME NEW s \in MicSources PROVE LateInv(s)'
  <2>1. LateInv(s)
    BY DEF MicInv
  <2>2. CASE s \in P
    BY <2>1, <2>2 DEF LateInv, Dev
  <2>3. CASE s \notin P
    <3>1. micSource[s].late = 1 => Dev(s) \in MicDevices
      BY <2>1 DEF LateInv
    <3> QED
      BY <2>1, <2>3, <3>1 DEF LateInv, Dev, RouteAlive
  <2> QED
    BY <2>2, <2>3
<1> QED
  BY <1>3, <1>4, <1>5 DEF MicInv

LEMMA CancelIs ==
  ASSUME MicInv
  PROVE  /\ CancelActive(micSource) \in [MicSources -> MicRecords]
         /\ \A s \in MicSources :
              /\ CancelActive(micSource)[s].at = micSource[s].at
              /\ CancelActive(micSource)[s].dev = micSource[s].dev
              /\ CancelActive(micSource)[s].late = micSource[s].late
              /\ micSource[s].cancel => CancelActive(micSource)[s].cancel
<1> SUFFICES ASSUME NEW s \in MicSources
             PROVE  /\ CancelActive(micSource)[s] \in MicRecords
                    /\ CancelActive(micSource)[s].at = micSource[s].at
                    /\ CancelActive(micSource)[s].dev = micSource[s].dev
                    /\ CancelActive(micSource)[s].late = micSource[s].late
                    /\ micSource[s].cancel => CancelActive(micSource)[s].cancel
  BY DEF CancelActive
<1>1. \/ CancelActive(micSource)[s] = [micSource[s] EXCEPT !.cancel = TRUE]
      \/ CancelActive(micSource)[s] = micSource[s]
  BY DEF CancelActive
<1>2. micSource[s] \in MicRecords
  BY DEF MicInv, MicTypes
<1> QED
  BY <1>1, <1>2 DEF MicRecords

LEMMA StartSourceKeeps ==
  ASSUME MicInv, NEW s \in MicSources, NEW d \in MicDevices, NEW kind \in {"host", "wav"},
         StartSource(s, d, kind)
  PROVE  MicInv'
<1>1. /\ micSource[s].at = "idle" /\ UNCHANGED <<micGate, micOn, micUndone>> /\ micActive' = s
      /\ micRoute' = [micRoute EXCEPT !.focus = d]
  BY DEF StartSource, SourceAt
<1> DEFINE c == CancelActive(micSource)
           w == [c[s] EXCEPT !.dev = d, !.kind = kind, !.at = "spawned"]
<1>2. micSource' = [c EXCEPT ![s].dev = d, ![s].kind = kind, ![s].at = "spawned"]
  BY Zenon DEF StartSource
<1>3. micSource' = [c EXCEPT ![s] = w]
  BY <1>2, Zenon
<1>4. /\ c \in [MicSources -> MicRecords]
      /\ \A t \in MicSources :
           /\ c[t].at = micSource[t].at /\ c[t].dev = micSource[t].dev
           /\ c[t].late = micSource[t].late /\ (micSource[t].cancel => c[t].cancel)
  BY CancelIs
<1> HIDE DEF c
<1>5. /\ w \in MicRecords /\ w.at = "spawned" /\ w.dev = d /\ w.late = micSource[s].late
  <2>1. c[s] \in MicRecords /\ d \in Devs /\ "spawned" \in MicSteps
    BY <1>4 DEF Devs, MicSteps, Waiting
  <2> QED
    BY <1>4, <2>1 DEF MicRecords
<1> HIDE DEF w
<1>6. /\ micSource' \in [MicSources -> MicRecords] /\ micSource'[s] = w
      /\ \A t \in MicSources \ {s} : micSource'[t] = c[t]
  BY <1>3, <1>4, <1>5
<1>7. micRoute' \in MicRoutes /\ micRoute'.state = micRoute.state
  BY <1>1 DEF MicInv, MicTypes, MicRoutes, Devs
<1>8. MicTypes'
  BY <1>1, <1>6, <1>7 DEF MicInv, MicTypes
<1>9. /\ \A t \in MicSources \ {s} :
           /\ micSource'[t].at = micSource[t].at /\ micSource'[t].dev = micSource[t].dev
           /\ micSource[t].cancel => micSource'[t].cancel
      /\ \A t \in MicSources : micSource'[t].late = micSource[t].late
      /\ \A t \in {s} : /\ micSource[t].at = "idle" /\ micSource'[t].at = "spawned"
                        /\ micSource'[t].dev \in MicDevices
      /\ \A e \in MicDevices : IsOn(e)' => IsOn(e)
      /\ \A e \in MicDevices : micRoute.state[e] = "gone" => micRoute'.state[e] = "gone"
      /\ {s} \in SUBSET MicSources
  BY <1>1, <1>4, <1>5, <1>6, <1>7 DEF IsOn
<1> QED
  BY <1>1, <1>8, <1>9, MicWorldKeeps

\* One flag of one source changes.
LEMMA FlagKeeps ==
  ASSUME MicInv, NEW s \in MicSources, NEW w \in MicRecords,
         micSource' = [micSource EXCEPT ![s] = w], UNCHANGED <<micGate, guestVars>>,
         w.at = micSource[s].at, w.dev = micSource[s].dev, w.late = micSource[s].late,
         micSource[s].cancel => w.cancel
  PROVE  MicInv'
<1>1. UNCHANGED <<micActive, micGate, micOn, micUndone, micRoute>>
  BY DEF guestVars
<1>2. /\ micSource' \in [MicSources -> MicRecords] /\ micSource'[s] = w
      /\ \A t \in MicSources \ {s} : micSource'[t] = micSource[t]
  BY DEF MicInv, MicTypes
<1>3. MicTypes'
  BY <1>1, <1>2 DEF MicInv, MicTypes
<1>4. /\ \A t \in MicSources \ {} :
           /\ micSource'[t].at = micSource[t].at /\ micSource'[t].dev = micSource[t].dev
           /\ micSource[t].cancel => micSource'[t].cancel
      /\ \A t \in MicSources : micSource'[t].late = micSource[t].late
      /\ \A e \in MicDevices : IsOn(e)' => IsOn(e)
      /\ \A e \in MicDevices : micRoute.state[e] = "gone" => micRoute'.state[e] = "gone"
  BY <1>1, <1>2 DEF IsOn
<1>5. {} \in SUBSET MicSources
  OBVIOUS
<1> QED
  BY <1>1, <1>3, <1>4, <1>5, MicWorldKeeps

LEMMA FlagsKeep ==
  ASSUME MicInv, \/ ToggleWavPause
                 \/ \E s \in MicSources : InputBreaks(s) \/ MonitorCancels(s)
  PROVE  MicInv'
<1>1. ASSUME NEW s \in MicSources, InputBreaks(s) \/ MonitorCancels(s) PROVE MicInv'
  <2>1. micSource[s] \in MicRecords /\ UNCHANGED <<micGate, guestVars>>
    BY <1>1 DEF MicInv, MicTypes, InputBreaks, MonitorCancels
  <2>2. CASE micSource' = [micSource EXCEPT ![s].broken = TRUE]
    <3> DEFINE w == [micSource[s] EXCEPT !.broken = TRUE]
    <3>1. micSource' = [micSource EXCEPT ![s] = w]
      BY <2>2, Zenon
    <3>2. /\ w \in MicRecords /\ w.at = micSource[s].at /\ w.dev = micSource[s].dev
          /\ w.late = micSource[s].late /\ (micSource[s].cancel => w.cancel)
      BY <2>1 DEF MicRecords
    <3> HIDE DEF w
    <3> QED
      BY <2>1, <3>1, <3>2, FlagKeeps
  <2>3. CASE micSource' = [micSource EXCEPT ![s].cancel = TRUE]
    <3> DEFINE w == [micSource[s] EXCEPT !.cancel = TRUE]
    <3>1. micSource' = [micSource EXCEPT ![s] = w]
      BY <2>3, Zenon
    <3>2. /\ w \in MicRecords /\ w.at = micSource[s].at /\ w.dev = micSource[s].dev
          /\ w.late = micSource[s].late /\ (micSource[s].cancel => w.cancel)
      BY <2>1 DEF MicRecords
    <3> HIDE DEF w
    <3> QED
      BY <2>1, <3>1, <3>2, FlagKeeps
  <2> QED
    BY <1>1, <2>2, <2>3 DEF InputBreaks, MonitorCancels
<1>2. CASE ToggleWavPause
  <2>1. /\ micActive \in MicSources /\ micSource[micActive] \in MicRecords
        /\ UNCHANGED <<micGate, guestVars>>
    BY <1>2 DEF MicInv, MicTypes, ToggleWavPause, guestVars
  <2>2. PICK s \in MicSources : s = micActive
    BY <2>1
  <2> DEFINE paused == ~micSource[s].paused
             w == [micSource[s] EXCEPT !.paused = paused]
  <2>3. micSource' = [micSource EXCEPT ![s] = w]
    BY <1>2, <2>2, Zenon DEF ToggleWavPause
  <2>4. paused \in BOOLEAN
    OBVIOUS
  <2> HIDE DEF paused
  <2>5. /\ w \in MicRecords /\ w.at = micSource[s].at /\ w.dev = micSource[s].dev
        /\ w.late = micSource[s].late /\ (micSource[s].cancel => w.cancel)
    BY <2>1, <2>2, <2>4 DEF MicRecords
  <2> HIDE DEF w
  <2> QED
    BY <2>1, <2>3, <2>5, FlagKeeps
<1> QED
  BY <1>1, <1>2

LEMMA StopSourceKeeps ==
  ASSUME MicInv, StopSource
  PROVE  MicInv'
<1>1. /\ micSource' = CancelActive(micSource) /\ micActive' = NoSource
      /\ UNCHANGED <<micGate, micOn, micUndone, micRoute>>
  BY DEF StopSource
<1>2. MicTypes'
  BY <1>1, CancelIs DEF MicInv, MicTypes
<1>3. /\ \A t \in MicSources \ {} :
           /\ micSource'[t].at = micSource[t].at /\ micSource'[t].dev = micSource[t].dev
           /\ micSource[t].cancel => micSource'[t].cancel
      /\ \A t \in MicSources : micSource'[t].late = micSource[t].late
      /\ \A e \in MicDevices : IsOn(e)' => IsOn(e)
      /\ \A e \in MicDevices : micRoute.state[e] = "gone" => micRoute'.state[e] = "gone"
  BY <1>1, CancelIs DEF IsOn
<1>4. {} \in SUBSET MicSources
  OBVIOUS
<1> QED
  BY <1>1, <1>2, <1>3, <1>4, MicWorldKeeps

LEMMA EnvironmentKeeps ==
  ASSUME MicInv, MicEnvironment
  PROVE  MicInv'
<1>1. micRoute \in MicRoutes /\ micOn \in [MicDevices -> BOOLEAN]
      /\ micRoute.changes + 1 \in Nat /\ micRoute.revision + 1 \in Nat
  BY DEF MicInv, MicTypes, MicRoutes
<1>2. UNCHANGED <<micSource, micActive, micGate, micUndone>>
  BY DEF MicEnvironment, FocusOther, StopDevice, StopDeviceFails, DeviceGone, ResetStreams,
         ChangeRoutes
<1> SUFFICES /\ micOn' \in [MicDevices -> BOOLEAN] /\ \A d \in MicDevices : micOn'[d] => micOn[d]
             /\ micRoute' \in MicRoutes
             /\ \A d \in MicDevices : micRoute.state[d] = "gone" => micRoute'.state[d] = "gone"
  <2>1. MicTypes'
    BY <1>2 DEF MicInv, MicTypes
  <2>2. /\ \A t \in MicSources \ {} :
             /\ micSource'[t].at = micSource[t].at /\ micSource'[t].dev = micSource[t].dev
             /\ micSource[t].cancel => micSource'[t].cancel
        /\ \A t \in MicSources : micSource'[t].late = micSource[t].late
        /\ \A e \in MicDevices : IsOn(e)' => IsOn(e)
        /\ {} \in SUBSET MicSources
    BY <1>2 DEF IsOn
  <2> QED
    BY <1>2, <2>1, <2>2, MicWorldKeeps
<1>3. ASSUME NEW next \in MicRoutes, ChangeRoutes(next), next.changes = micRoute.changes
      PROVE  micRoute' \in MicRoutes /\ micRoute'.state = next.state
  <2>1. micRoute' = [next EXCEPT !.changes = micRoute.changes + 1]
    BY <1>3 DEF ChangeRoutes, MicRoutes
  <2> QED
    BY <1>1, <2>1 DEF MicRoutes
<1>4. ASSUME NEW d \in MicDevices, FocusOther(d)
      PROVE  micRoute' \in MicRoutes /\ micRoute'.state = micRoute.state /\ micOn' = micOn
  <2> DEFINE next == [micRoute EXCEPT !.focus = d]
  <2>1. next \in MicRoutes /\ next.state = micRoute.state /\ next.changes = micRoute.changes
    BY <1>1 DEF MicRoutes, Devs
  <2>2. ChangeRoutes(next) /\ micOn' = micOn
    BY <1>4 DEF FocusOther
  <2> HIDE DEF next
  <2> QED
    BY <1>3, <2>1, <2>2
<1>5. ASSUME ResetStreams
      PROVE  micRoute' \in MicRoutes /\ micRoute'.state = micRoute.state /\ micOn' = micOn
  <2> DEFINE next == [micRoute EXCEPT !.revision = micRoute.revision + 1]
  <2>1. next \in MicRoutes /\ next.state = micRoute.state /\ next.changes = micRoute.changes
    BY <1>1 DEF MicRoutes
  <2>2. ChangeRoutes(next) /\ micOn' = micOn
    BY <1>1, <1>5 DEF ResetStreams, MicRoutes
  <2> HIDE DEF next
  <2> QED
    BY <1>3, <2>1, <2>2
<1>6. ASSUME NEW d \in MicDevices, NEW st \in {"stopping", "gone"},
             ChangeRoutes([micRoute EXCEPT !.state[d] = st]), micRoute.state[d] # "gone"
      PROVE  /\ micRoute' \in MicRoutes
             /\ \A e \in MicDevices : micRoute.state[e] = "gone" => micRoute'.state[e] = "gone"
  <2> DEFINE states == [micRoute.state EXCEPT ![d] = st]
             next == [micRoute EXCEPT !.state = states]
  <2>1. /\ states \in [MicDevices -> {"live", "stopping", "gone"}]
        /\ \A e \in MicDevices : micRoute.state[e] = "gone" => states[e] = "gone"
    BY <1>1, <1>6 DEF MicRoutes
  <2>2. next = [micRoute EXCEPT !.state[d] = st]
    BY Zenon
  <2> HIDE DEF states
  <2>3. next \in MicRoutes /\ next.state = states /\ next.changes = micRoute.changes
    BY <1>1, <2>1 DEF MicRoutes
  <2> HIDE DEF next
  <2> QED
    BY <1>3, <1>6, <2>1, <2>2, <2>3
<1>7. ASSUME NEW d \in MicDevices, StopDeviceFails(d)
      PROVE  /\ micRoute' \in MicRoutes /\ micOn' = micOn
             /\ \A e \in MicDevices : micRoute.state[e] = "gone" => micRoute'.state[e] = "gone"
  <2> DEFINE states == [micRoute.state EXCEPT ![d] = "live"]
  <2>1. /\ micRoute' = [micRoute EXCEPT !.state = states] /\ micRoute.state[d] = "stopping"
        /\ micOn' = micOn
    BY <1>7, Zenon DEF StopDeviceFails
  <2>2. /\ states \in [MicDevices -> {"live", "stopping", "gone"}]
        /\ \A e \in MicDevices : micRoute.state[e] = "gone" => states[e] = "gone"
    BY <1>1, <2>1 DEF MicRoutes
  <2> HIDE DEF states
  <2> QED
    BY <1>1, <2>1, <2>2 DEF MicRoutes
<1>8. ASSUME NEW d \in MicDevices, StopDevice(d) \/ DeviceGone(d)
      PROVE  /\ micRoute' \in MicRoutes /\ micOn' \in [MicDevices -> BOOLEAN]
             /\ \A e \in MicDevices : micOn'[e] => micOn[e]
             /\ \A e \in MicDevices : micRoute.state[e] = "gone" => micRoute'.state[e] = "gone"
  <2>1. CASE StopDevice(d)
    BY <1>1, <1>6, <2>1 DEF StopDevice
  <2>2. CASE DeviceGone(d)
    <3>1. micOn' = [micOn EXCEPT ![d] = FALSE]
      BY <2>2 DEF DeviceGone
    <3> QED
      BY <1>1, <1>6, <2>2, <3>1 DEF DeviceGone
  <2> QED
    BY <1>8, <2>1, <2>2
<1> QED
  BY <1>1, <1>4, <1>5, <1>7, <1>8 DEF MicEnvironment

LEMMA MicStepKeeps == MicInv /\ [MicNext]_micVars => MicInv'
<1> SUFFICES ASSUME MicInv, [MicNext]_micVars PROVE MicInv'
  OBVIOUS
<1>1. ASSUME NEW s \in MicSources, SourceStep(s) PROVE MicInv'
  BY <1>1, JoinGateKeeps, EnterGateKeeps, ReconnectKeeps, EnableGuestKeeps, VerifyGuestKeeps,
     UndoEnableKeeps, PumpKeeps, WriteFifoKeeps, DisableGuestKeeps, ConfirmDisabledKeeps
  DEF SourceStep
<1>2. CASE UNCHANGED micVars
  <2>1. UNCHANGED <<micSource, micActive, micGate, micOn, micUndone, micRoute>>
    BY <1>2 DEF micVars
  <2> QED
    BY <2>1 DEF MicInv, MicTypes, GateInv, TurnInv, LateInv, Holds, IsOn, Dev, RouteAlive
<1> QED
  BY <1>1, <1>2, StartSourceKeeps, FlagsKeep, StopSourceKeeps, EnvironmentKeeps DEF MicNext

LEMMA MicInitInv == MicInit => MicInv
<1> SUFFICES ASSUME MicInit PROVE MicInv
  OBVIOUS
<1> DEFINE d == CHOOSE d \in MicDevices : TRUE
<1>1. /\ micSource = [s \in MicSources |->
              [dev |-> d, kind |-> "wav", at |-> "idle", exit |-> "none", cancel |-> FALSE,
               broken |-> FALSE, paused |-> FALSE, revision |-> 0, late |-> 0]]
      /\ micRoute = [state |-> [e \in MicDevices |-> "live"], focus |-> d,
                     revision |-> 0, changes |-> 0]
      /\ micActive = NoSource /\ micGate = <<>>
      /\ micOn = [e \in MicDevices |-> FALSE]
  BY DEF MicInit
<1>2. d \in Devs
  BY DEF Devs
<1> HIDE DEF d
<1>3. MicTypes
  BY <1>1, <1>2 DEF MicTypes, MicRecords, MicRoutes, MicSteps, Exits
<1>4. GateInv
  BY <1>1 DEF GateInv, Inside
<1>5. TurnInv
  BY <1>1 DEF TurnInv, IsOn
<1>6. \A s \in MicSources : LateInv(s)
  BY <1>1 DEF LateInv
<1> QED
  BY <1>3, <1>4, <1>5, <1>6 DEF MicInv

\* For any number of sources, devices and changes of focus: a guest's microphone
\* is on only while it is the turn of one of its sources, unless turning it off
\* failed, and a source that was stopped writes at most the packet it had taken
\* (MicrophoneCoordinator::run and pump_fifo in core/microphone.rs).
THEOREM MicrophoneIsTurnedCorrect == MicSpec => []MicrophoneIsTurned
<1>1. MicInv => MicrophoneIsTurned
  BY DEF MicInv, TurnInv, LateInv, IsOn, MicrophoneIsTurned, EnabledOnlyInTurn, OnePacketAfterStop
<1> QED
  BY <1>1, MicInitInv, MicStepKeeps, PTL DEF MicSpec

-----------------------------------------------------------------------------
(* The types of Microphone.                                                 *)

MicCounts ==
  /\ micUndone \subseteq MicDevices
  /\ micRoute.changes =< MaxMicChanges /\ micRoute.revision =< micRoute.changes
  /\ \A s \in MicSources : micSource[s].revision =< micRoute.revision

LEMMA DevsAre == Devs = MicDevices
BY MicBounds DEF Devs

\* A source gets its revision from the route, and loses it when it ends.
Revised ==
  \A s \in MicSources : micSource'[s].revision \in {micSource[s].revision, 0, micRoute.revision}

LEMMA GoingRevises ==
  ASSUME MicTypes, NEW s \in MicSources, NEW step, NEW exit,
         SourceGoes(s, step) \/ SourceLeaves(s, exit, step) \/ Return(s, exit)
  PROVE  Revised
<1>1. micSource \in [MicSources -> MicRecords] /\ micSource[s] \in MicRecords
  BY DEF MicTypes
<1>2. CASE SourceGoes(s, step) \/ SourceLeaves(s, exit, step)
  BY <1>1, <1>2 DEF SourceGoes, SourceLeaves, Revised, MicRecords
<1>3. CASE Return(s, exit)
  <2>1. Ended(micSource[s], exit).revision = 0
    BY <1>1 DEF Ended, MicRecords
  <2> QED
    BY <1>1, <1>3, <2>1 DEF Return, Revised
<1> QED
  BY <1>2, <1>3

LEMMA StepRevises ==
  ASSUME MicTypes, NEW s \in MicSources, SourceStep(s)
  PROVE  Revised
<1>1. micSource \in [MicSources -> MicRecords] /\ micSource[s] \in MicRecords
  BY DEF MicTypes
<1>2. \/ \E step, exit : SourceGoes(s, step) \/ SourceLeaves(s, exit, step) \/ Return(s, exit)
      \/ micSource' = [micSource EXCEPT ![s].revision = micRoute.revision, ![s].at = "fifo"]
      \/ micSource' = [micSource EXCEPT ![s].at = "beat",
                         ![s].late = IF micSource[s].cancel \/ ~RouteAlive(Dev(s))
                                     THEN @ + 1 ELSE @]
  <2>1. CASE JoinGate(s)
    BY <2>1, Zenon DEF JoinGate
  <2>2. CASE EnterGate(s)
    BY <2>2, Zenon DEF EnterGate
  <2>3. CASE Reconnect(s)
    BY <2>3, Zenon DEF Reconnect
  <2>4. CASE EnableGuest(s)
    BY <2>4, Zenon DEF EnableGuest
  <2>5. CASE VerifyGuest(s)
    BY <2>5, Zenon DEF VerifyGuest
  <2>6. CASE UndoEnable(s)
    BY <2>6, Zenon DEF UndoEnable
  <2>7. CASE OpenFifo(s)
    BY <2>7, Zenon DEF OpenFifo
  <2>8. CASE NextPacket(s)
    BY <2>8, Zenon DEF NextPacket
  <2>9. CASE WriteFifo(s)
    BY <2>9, Zenon DEF WriteFifo
  <2>10. CASE Beat(s)
    BY <2>10, Zenon DEF Beat
  <2>11. CASE DisableGuest(s)
    BY <2>11, Zenon DEF DisableGuest
  <2>12. CASE ConfirmDisabled(s)
    BY <2>12, Zenon DEF ConfirmDisabled
  <2> QED
    BY <2>1, <2>2, <2>3, <2>4, <2>5, <2>6, <2>7, <2>8, <2>9, <2>10, <2>11, <2>12 DEF SourceStep
<1>3. CASE micSource' = [micSource EXCEPT ![s].revision = micRoute.revision, ![s].at = "fifo"]
  BY <1>1, <1>3 DEF Revised, MicRecords
<1>4. CASE micSource' = [micSource EXCEPT ![s].at = "beat",
                           ![s].late = IF micSource[s].cancel \/ ~RouteAlive(Dev(s))
                                       THEN @ + 1 ELSE @]
  <2>1. PICK late : micSource' = [micSource EXCEPT ![s].at = "beat", ![s].late = late]
    BY <1>4
  <2> QED
    BY <1>1, <2>1 DEF Revised, MicRecords
<1> QED
  BY <1>2, <1>3, <1>4, GoingRevises, Zenon

LEMMA SetGuestUndone ==
  ASSUME NEW d \in MicDevices, NEW on, NEW ok, SetGuestMicrophone(d, on, ok), micUndone \subseteq MicDevices
  PROVE  micUndone' \subseteq MicDevices
BY DEF SetGuestMicrophone

LEMMA MicCountsStep ==
  ASSUME MicInv, MicCounts, [MicNext]_micVars
  PROVE  MicCounts'
<1>1. /\ MicTypes /\ micSource \in [MicSources -> MicRecords] /\ micRoute \in MicRoutes
      /\ \A s \in MicSources : micSource[s].revision \in Nat
      /\ \A s \in MicSources : Dev(s) \in MicDevices
      /\ micRoute.revision \in Nat /\ micRoute.changes \in Nat
  BY DevsAre DEF MicInv, MicTypes, MicRecords, MicRoutes, Dev
<1>2. ASSUME Revised, micUndone' \subseteq MicDevices, micRoute'.revision = micRoute.revision,
             micRoute'.changes = micRoute.changes
      PROVE  MicCounts'
  BY <1>1, <1>2 DEF MicCounts, Revised
<1>3. ASSUME NEW s \in MicSources, SourceStep(s) PROVE MicCounts'
  <2>1. micUndone' \subseteq MicDevices
    <3>1. \/ UNCHANGED micUndone \/ \E on, ok \in BOOLEAN : SetGuestMicrophone(Dev(s), on, ok)
      BY <1>3 DEF SourceStep, JoinGate, EnterGate, Reconnect, EnableGuest, VerifyGuest, UndoEnable,
                  OpenFifo, NextPacket, WriteFifo, Beat, DisableGuest, ConfirmDisabled, guestVars
    <3> QED
      BY <1>1, <3>1, SetGuestUndone DEF MicCounts
  <2>2. UNCHANGED micRoute
    BY <1>3, Zenon DEF SourceStep, JoinGate, EnterGate, Reconnect, EnableGuest, VerifyGuest, UndoEnable,
                OpenFifo, NextPacket, WriteFifo, Beat, DisableGuest, ConfirmDisabled, guestVars
  <2> QED
    BY <1>1, <1>2, <1>3, <2>1, <2>2, StepRevises
<1>4. ASSUME NEW s \in MicSources, InputBreaks(s) \/ MonitorCancels(s) PROVE MicCounts'
  <2>1. Revised
    BY <1>1, <1>4 DEF InputBreaks, MonitorCancels, Revised, MicRecords
  <2> QED
    BY <1>2, <1>4, <2>1 DEF InputBreaks, MonitorCancels, guestVars, MicCounts
<1>5. \A s \in MicSources : CancelActive(micSource)[s].revision = micSource[s].revision
                             /\ CancelActive(micSource)[s] \in MicRecords
  BY <1>1 DEF CancelActive, MicRecords
<1>6. ASSUME NEW s \in MicSources, NEW d \in MicDevices, NEW kind \in {"host", "wav"},
             StartSource(s, d, kind)
      PROVE  MicCounts'
  <2>1. micSource' = [CancelActive(micSource) EXCEPT ![s].dev = d, ![s].kind = kind, ![s].at = "spawned"]
    BY <1>6 DEF StartSource
  <2>2. DOMAIN CancelActive(micSource) = MicSources
    BY DEF CancelActive
  <2>3. Revised
    BY <1>5, <2>1, <2>2 DEF Revised, MicRecords
  <2>4. micRoute' = [micRoute EXCEPT !.focus = d] /\ UNCHANGED micUndone
    BY <1>6 DEF StartSource
  <2> QED
    BY <1>1, <1>2, <2>3, <2>4 DEF MicRoutes, MicCounts
<1>7. CASE StopSource
  <2>1. Revised
    BY <1>5, <1>7 DEF StopSource, Revised
  <2> QED
    BY <1>2, <1>7, <2>1 DEF StopSource, MicCounts
<1>8. CASE ToggleWavPause
  <2>1. Revised
    BY <1>1, <1>8 DEF ToggleWavPause, MicTypes, Revised, MicRecords
  <2> QED
    BY <1>2, <1>8, <2>1 DEF ToggleWavPause, MicCounts
<1>9. CASE MicEnvironment
  <2>1. ASSUME NEW next \in MicRoutes, ChangeRoutes(next), next.changes = micRoute.changes,
               next.revision \in {micRoute.revision, micRoute.revision + 1}
        PROVE  MicCounts'
    <3>1. /\ micRoute.changes < MaxMicChanges /\ micRoute'.changes = micRoute.changes + 1
          /\ micRoute'.revision = next.revision /\ micSource' = micSource /\ micUndone' = micUndone
      BY <2>1 DEF ChangeRoutes, MicRoutes
    <3> QED
      BY <1>1, <2>1, <3>1, MicBounds DEF MicCounts
  <2>2. ASSUME NEW d \in MicDevices, FocusOther(d) \/ StopDevice(d) \/ DeviceGone(d)
        PROVE  MicCounts'
    <3>1. PICK next : /\ ChangeRoutes(next)
                      /\ \/ next = [micRoute EXCEPT !.focus = d]
                         \/ next = [micRoute EXCEPT !.state[d] = "stopping"]
                         \/ next = [micRoute EXCEPT !.state[d] = "gone"]
      BY <2>2, Zenon DEF FocusOther, StopDevice, DeviceGone
    <3>2. /\ next \in MicRoutes /\ next.changes = micRoute.changes
          /\ next.revision = micRoute.revision
      BY <1>1, <3>1, DevsAre DEF MicRoutes
    <3> QED
      BY <2>1, <3>1, <3>2
  <2>3. ASSUME NEW d \in MicDevices, StopDeviceFails(d) PROVE MicCounts'
    <3>1. /\ micRoute'.revision = micRoute.revision /\ micRoute'.changes = micRoute.changes
          /\ micSource' = micSource /\ micUndone' = micUndone
      BY <1>1, <2>3 DEF StopDeviceFails, MicRoutes
    <3> QED
      BY <3>1 DEF MicCounts
  <2>4. CASE ResetStreams
    <3>1. /\ [micRoute EXCEPT !.revision = @ + 1] \in MicRoutes
          /\ [micRoute EXCEPT !.revision = @ + 1].changes = micRoute.changes
          /\ [micRoute EXCEPT !.revision = @ + 1].revision = micRoute.revision + 1
      BY <1>1 DEF MicRoutes
    <3> QED
      BY <2>1, <2>4, <3>1 DEF ResetStreams
  <2> QED
    BY <1>9, <2>2, <2>3, <2>4 DEF MicEnvironment
<1>10. CASE UNCHANGED micVars
  BY <1>10 DEF micVars, MicCounts
<1> QED
  BY <1>3, <1>4, <1>6, <1>7, <1>8, <1>9, <1>10 DEF MicNext

\* The types of the sources, of the gate and of the routes (core/microphone.rs).
LEMMA MicTypeCorrect == MicSpec => []MicTypeOK
<1>1. MicInit => MicInv /\ MicCounts
  BY MicInitInv, MicBounds DEF MicInit, MicCounts
<1>2. MicInv /\ MicCounts /\ [MicNext]_micVars => MicInv' /\ MicCounts'
  BY MicStepKeeps, MicCountsStep
<1>3. MicInv /\ MicCounts => MicTypeOK
  <2> SUFFICES ASSUME MicInv, MicCounts PROVE MicTypeOK
    OBVIOUS
  <2>1. /\ micSource \in [MicSources -> MicRecords] /\ micRoute \in MicRoutes
        /\ micRoute.revision \in 0 .. micRoute.changes /\ micRoute.changes \in 0 .. MaxMicChanges
        /\ \A s \in MicSources : micSource[s].revision \in 0 .. MaxMicChanges
    BY MicBounds DEF MicInv, MicTypes, MicCounts, MicRecords, MicRoutes
  <2> QED
    BY <2>1, DevsAre DEF MicInv, MicTypes, MicTypeOK, MicCounts, MicRecords, MicRoutes, MicSteps
<1> QED
  BY <1>1, <1>2, <1>3, PTL DEF MicSpec
=============================================================================
