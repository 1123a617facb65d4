--------------------------- MODULE InputQueueProofs ---------------------------
(***************************************************************************)
(* Proofs about InputQueue, for any number of GTK events and any length of  *)
(* the reliable queue.  The invariant says, for a device that is let go and *)
(* for the motion of a touch that is over, where the event that tells the   *)
(* engine is: still to be called, in the sender's hands, in the slot, in    *)
(* the channel, or in the worker.                                           *)
(***************************************************************************)
EXTENDS InputQueue, FiniteSetTheorems, SequenceTheorems, TLAPS

-----------------------------------------------------------------------------
(* The inductive invariant of InputQueue.                                   *)

InputJobs == [dev : Devices \cup {"text"}, held : BOOLEAN, at : Nat, gesture : Nat, after : Nat]
Entries == [job : InputJobs, counted : BOOLEAN]
Calls == [op : {"reliable", "critical", "replace", "flush", "clear", "stop"},
          job : InputJobs \cup {NoJob}]
Interfaces ==
  [held : [Devices -> BOOLEAN], frame : BOOLEAN, open : BOOLEAN, forgot : BOOLEAN, clock : Nat, gesture : Nat,
   moved : Nat, todo : Seq(Calls), sending : Entries \cup {Unsent}]
Working == {"run", "retry", "reconnect"}
Living == {"connect", "poll", "slot"} \cup Working
WorkerRecords ==
  [at : Living \cup {"close", "drain", "drained", "gone"}, job : InputJobs \cup {NoJob}]
GuestRecords == [held : [Devices -> BOOLEAN], ended : Nat, moved : Nat]

InputTypes ==
  /\ ui \in Interfaces /\ channel \in Seq(Entries) /\ queued \in Nat
  /\ motion \in InputJobs \cup {NoJob} /\ stop \in BOOLEAN /\ current \in BOOLEAN
  /\ worker \in WorkerRecords /\ guest \in GuestRecords
  /\ worker.at \in Working <=> worker.job # NoJob

Presses(job, d) == job.dev = d /\ job.held
Lifts(job, d) == job.dev = d /\ ~job.held
Contact(job) == Presses(job, "touch")
Lift(job) == Lifts(job, "touch")

\* What the calls of a handler are, and what they say of the user.
CallInv(i, c) ==
  /\ c.op \in {"reliable", "critical", "replace"} => c.job \in InputJobs
  /\ c.op = "critical" =>
       /\ c.job.dev \in Devices /\ ~c.job.held
       /\ c.job.dev = "touch" => ~ui.held["touch"] /\ c.job.gesture = ui.gesture
  /\ c.op = "reliable" =>
       /\ c.job.held => c.job.dev \in Devices /\ ui.held[c.job.dev]
       /\ ~c.job.held => c.job.dev = "text"
       /\ c.job.dev = "touch" => Len(ui.todo) = 1 /\ c.job.gesture = ui.gesture
  /\ c.op = "replace" =>
       /\ Len(ui.todo) = 1 /\ c.job.dev \in {"touch", "right"}
       /\ c.job.held => ui.held[c.job.dev]
       /\ c.job.dev = "touch" => c.job.held /\ c.job.gesture = ui.gesture
       /\ c.job.dev = "right" => ~ui.held["touch"]
  /\ c.op = "flush" => i = 1
  /\ c.op = "stop" => i = Len(ui.todo) /\ ~ui.open
TodoInv == \A i \in 1 .. Len(ui.todo) : CallInv(i, ui.todo[i])

SendingInv ==
  ui.sending # Unsent =>
    /\ ui.todo # <<>>
    /\ \/ Head(ui.todo).op \in {"reliable", "critical"} /\ ui.sending.job = Head(ui.todo).job
       \/ Head(ui.todo).op = "flush" /\ motion = NoJob
    /\ ui.sending.counted => Head(ui.todo).op = "reliable"

\* A worker that may see the stop flag has all the calls there will be.
Lives == worker.at \in Living
StopInv == stop /\ Lives => ui.todo = <<>> /\ ~ui.open

\* The devices whose release is not promised.
Excused == lost \cup Forgotten

\* A release of d is still to be called, or is the last of d's jobs on their way.
Pressing == ui.todo # <<>> /\ Head(ui.todo).op = "reliable" /\ Contact(Head(ui.todo).job)
Releasing(d) ==
  \E i \in 1 .. Len(ui.todo) : ui.todo[i].op = "critical" /\ ui.todo[i].job.dev = d
LiftComes(d, i) == \E j \in 1 .. Len(channel) : j > i /\ Lifts(channel[j].job, d)
Covered(d) ==
  /\ \A i \in 1 .. Len(channel) : Presses(channel[i].job, d) => LiftComes(d, i)
  /\ Presses(worker.job, d) => LiftComes(d, 0)
  /\ guest.held[d] => LiftComes(d, 0) \/ Lifts(worker.job, d)
HoldInv ==
  Lives => \A d \in Devices \ Excused :
    ~ui.held[d] \/ (d = "touch" /\ Pressing) => Releasing(d) \/ Covered(d)

\* What holds d pressed outside the channel is of a device that is pressed or
\* will be released, and a motion of a touch that is over is about to be taken
\* out of the slot.
MotionInv ==
  motion # NoJob =>
    /\ motion.dev \in {"touch", "right"} /\ (motion.dev = "touch" => motion.held)
    /\ motion.held =>
         \/ ui.held[motion.dev] /\ ~(motion.dev = "touch" /\ Pressing)
         \/ /\ ui.todo # <<>> /\ Head(ui.todo).op \in {"flush", "clear"}
            /\ motion.dev \in Excused \/ Releasing(motion.dev)
PromotedInv ==
  ui.sending # Unsent /\ ui.sending.job.held =>
    \/ ui.held[ui.sending.job.dev] \/ ui.sending.job.dev \in Excused
    \/ Releasing(ui.sending.job.dev)

\* Every release that was called is of a gesture below g.
Over(g) ==
  /\ guest.ended < g
  /\ Lift(worker.job) => worker.job.gesture < g
  /\ \A i \in 1 .. Len(channel) : Lift(channel[i].job) => channel[i].job.gesture < g
  /\ Lift(ui.sending.job) => ui.sending.job.gesture < g
AheadBelow(i, g) ==
  /\ guest.ended < g
  /\ Lift(worker.job) => worker.job.gesture < g
  /\ \A j \in 1 .. Len(channel) :
       j < i /\ Lift(channel[j].job) => channel[j].job.gesture < g
GestureInv ==
  /\ Over(ui.gesture + 1)
  /\ ui.held["touch"] => Over(ui.gesture)
  /\ Contact(motion) => Over(motion.gesture)
  /\ Contact(ui.sending.job) => Over(ui.sending.job.gesture)
  /\ \A i \in 1 .. Len(channel) :
       Contact(channel[i].job) => AheadBelow(i, channel[i].job.gesture)
  /\ Contact(worker.job) => guest.ended < worker.job.gesture

\* The motion numbered n, or a later one, has reached the engine or goes there
\* ahead of the entry i of the channel; or will be in the channel, too.
BroughtBefore(i, n) ==
  \/ guest.moved >= n
  \/ Contact(worker.job) /\ worker.job.at >= n
  \/ \E j \in 1 .. Len(channel) : j < i /\ Contact(channel[j].job) /\ channel[j].job.at >= n
Brought(n) == BroughtBefore(Len(channel) + 1, n)
Carried(n) ==
  \/ Brought(n)
  \/ Contact(motion) /\ motion.at >= n
  \/ Contact(ui.sending.job) /\ ui.sending.job.at >= n
MoveInv ==
  Lives /\ "touch" \notin lost =>
    /\ ui.held["touch"] => Carried(ui.moved)
    /\ \A i \in 1 .. Len(ui.todo) :
         ui.todo[i].op = "critical" /\ ui.todo[i].job.dev = "touch" =>
           IF Head(ui.todo).op = "flush" THEN Carried(ui.todo[i].job.after)
                                         ELSE Brought(ui.todo[i].job.after)
    /\ Lift(ui.sending.job) => Brought(ui.sending.job.after)
    /\ \A i \in 1 .. Len(channel) :
         Lift(channel[i].job) => BroughtBefore(i, channel[i].job.after)
    /\ Lift(worker.job) => guest.moved >= worker.job.after

InputInv ==
  /\ InputTypes /\ CountMatchesQueue /\ TodoInv /\ SendingInv /\ StopInv
  /\ HoldInv /\ MotionInv /\ PromotedInv /\ GestureInv /\ MoveInv

-----------------------------------------------------------------------------
(* Counting the counted entries of a channel.                               *)

Places(s) == {i \in DOMAIN s : s[i].counted}

LEMMA PlacesAreFinite ==
  ASSUME NEW s \in Seq(Entries)
  PROVE  IsFiniteSet(Places(s)) /\ CountedIn(s) = Cardinality(Places(s)) /\ CountedIn(s) \in Nat
<1>1. Places(s) \subseteq 1 .. Len(s) /\ Len(s) \in Nat
  BY DEF Places
<1>2. IsFiniteSet(1 .. Len(s))
  BY <1>1, FS_Interval
<1>3. IsFiniteSet(Places(s))
  BY <1>1, <1>2, FS_Subset
<1> QED
  BY <1>3, FS_CardinalityType DEF CountedIn, Places

LEMMA CountedEmpty == CountedIn(<<>>) = 0
<1>1. {i \in DOMAIN <<>> : <<>>[i].counted} = {}
  OBVIOUS
<1> QED
  BY <1>1, FS_EmptySet DEF CountedIn

LEMMA CountedAppend ==
  ASSUME NEW s \in Seq(Entries), NEW e \in Entries
  PROVE  CountedIn(Append(s, e)) = CountedIn(s) + (IF e.counted THEN 1 ELSE 0)
<1> DEFINE n == Len(s) + 1
<1>1. Append(s, e) \in Seq(Entries) /\ n \in Nat
  OBVIOUS
<1>2. n \notin Places(s)
  BY DEF Places
<1>3. Places(Append(s, e)) = IF e.counted THEN Places(s) \cup {n} ELSE Places(s)
  <2>1. \A i : i \in Places(Append(s, e)) <=>
                 i \in 1 .. n /\ (IF i = n THEN e.counted ELSE s[i].counted)
    BY DEF Places
  <2>2. \A i : i \in Places(s) <=> i \in 1 .. Len(s) /\ s[i].counted
    BY DEF Places
  <2>3. CASE e.counted
    <3>1. \A i : i \in Places(Append(s, e)) <=> i \in Places(s) \cup {n}
      BY <2>1, <2>2, <2>3, <1>1
    <3> QED
      BY <3>1, <2>3
  <2>4. CASE ~e.counted
    <3>1. \A i : i \in Places(Append(s, e)) <=> i \in Places(s)
      BY <2>1, <2>2, <2>4, <1>1
    <3> QED
      BY <3>1, <2>4
  <2> QED
    BY <2>3, <2>4
<1>4. Cardinality(Places(s) \cup {n}) = Cardinality(Places(s)) + 1
  BY <1>2, PlacesAreFinite, FS_AddElement
<1>5. /\ CountedIn(Append(s, e)) = Cardinality(Places(Append(s, e)))
      /\ CountedIn(s) = Cardinality(Places(s)) /\ CountedIn(s) \in Nat
  BY <1>1, PlacesAreFinite
<1>6. CASE e.counted
  BY <1>3, <1>4, <1>5, <1>6
<1>7. CASE ~e.counted
  BY <1>3, <1>5, <1>7
<1> QED
  BY <1>6, <1>7

LEMMA CountedTail ==
  ASSUME NEW s \in Seq(Entries), s # <<>>
  PROVE  CountedIn(Tail(s)) = CountedIn(s) - (IF Head(s).counted THEN 1 ELSE 0)
<1>1. Tail(s) \in Seq(Entries) /\ Len(s) \in Nat /\ Len(s) >= 1 /\ Len(Tail(s)) = Len(s) - 1
  OBVIOUS
<1> DEFINE R == Places(s) \ {1}
<1>2. \A i : i \in Places(Tail(s)) <=> i \in 1 .. Len(s) - 1 /\ s[i + 1].counted
  BY <1>1 DEF Places
<1>3. \A i : i \in R <=> i \in 2 .. Len(s) /\ s[i].counted
  BY <1>1 DEF Places
<1>4. IsFiniteSet(Places(Tail(s))) /\ IsFiniteSet(R)
  BY <1>1, PlacesAreFinite, FS_Subset
<1> DEFINE f == [i \in Places(Tail(s)) |-> i + 1]
<1>5. f \in Bijection(Places(Tail(s)), R)
  <2>1. \A i \in Places(Tail(s)) : f[i] \in R
    BY <1>2, <1>3
  <2>2. \A i, j \in Places(Tail(s)) : f[i] = f[j] => i = j
    BY <1>2
  <2>3. \A k \in R : \E i \in Places(Tail(s)) : f[i] = k
    <3>1. ASSUME NEW k \in R PROVE k - 1 \in Places(Tail(s)) /\ f[k - 1] = k
      BY <1>1, <1>2, <1>3
    <3> QED
      BY <3>1
  <2> QED
    BY <2>1, <2>2, <2>3 DEF Bijection, Injection, Surjection, IsInjective
<1>6. Cardinality(Places(Tail(s))) = Cardinality(R)
  BY <1>4, <1>5, FS_Bijection DEF ExistsBijection
<1>7. 1 \in Places(s) <=> Head(s).counted
  BY <1>1 DEF Places
<1>8. Cardinality(R) = Cardinality(Places(s)) - (IF Head(s).counted THEN 1 ELSE 0)
  <2>1. CASE 1 \in Places(s)
    BY <2>1, <1>7, PlacesAreFinite, FS_RemoveElement
  <2>2. CASE 1 \notin Places(s)
    <3>1. R = Places(s) /\ ~Head(s).counted
      BY <2>2, <1>7
    <3>2. Cardinality(Places(s)) \in Nat
      BY PlacesAreFinite
    <3>3. Cardinality(R) = Cardinality(Places(s))
      BY <3>1, Zenon
    <3> HIDE DEF R
    <3> QED
      BY <3>1, <3>2, <3>3
  <2> QED
    BY <2>1, <2>2
<1> QED
  BY <1>1, <1>6, <1>8, PlacesAreFinite

-----------------------------------------------------------------------------
(* Steps of the worker.                                                     *)

\* What the engine has after a job.
LEMMA AppliedIs ==
  ASSUME guest \in GuestRecords, NEW job \in InputJobs
  PROVE  /\ Applied(job) \in GuestRecords
         /\ \A d \in Devices :
              Applied(job).held[d] = IF job.dev = d THEN job.held ELSE guest.held[d]
         /\ Applied(job).ended = IF Lift(job) THEN job.gesture ELSE guest.ended
         /\ Applied(job).moved >= guest.moved
         /\ Contact(job) => Applied(job).moved >= job.at
<1>1. /\ guest.held \in [Devices -> BOOLEAN] /\ guest.ended \in Nat /\ guest.moved \in Nat
      /\ job.dev \in Devices \cup {"text"} /\ job.held \in BOOLEAN /\ job.gesture \in Nat
      /\ job.at \in Nat
  BY DEF GuestRecords, InputJobs
<1> DEFINE held == IF job.dev \in Devices THEN [guest.held EXCEPT ![job.dev] = job.held] ELSE guest.held
           moved == IF job.dev = "touch" /\ job.held /\ job.at > guest.moved THEN job.at ELSE guest.moved
           ended == IF job.dev = "touch" /\ ~job.held THEN job.gesture ELSE guest.ended
<1>2. /\ held \in [Devices -> BOOLEAN]
      /\ \A d \in Devices : held[d] = IF job.dev = d THEN job.held ELSE guest.held[d]
  BY <1>1
<1>3. moved \in Nat /\ ended \in Nat /\ moved >= guest.moved /\ (Contact(job) => moved >= job.at)
  BY <1>1 DEF Contact, Presses
<1>4. ended = IF Lift(job) THEN job.gesture ELSE guest.ended
  BY DEF Lift, Lifts
<1>5. Applied(job) = [held |-> held, ended |-> ended, moved |-> moved]
  BY DEF Applied
<1> HIDE DEF held, moved, ended
<1> QED
  BY <1>2, <1>3, <1>4, <1>5 DEF GuestRecords

\* The engine's view after a step in which the worker gets on with its job.
HandsOver ==
  \/ guest' = guest
  \/ worker.job \in InputJobs /\ guest' = Applied(worker.job)

\* The worker goes on with the job it has, has executed it, loses it or ends.
LEMMA WorkerGoes ==
  ASSUME InputInv, UNCHANGED <<ui, channel, queued, motion>>,
         stop' \in BOOLEAN, current' \in BOOLEAN, lost \subseteq lost', HandsOver,
         worker' \in WorkerRecords, worker'.at \in Working <=> worker'.job # NoJob,
         worker'.job \in {worker.job, NoJob},
         Lives' => Lives /\ stop' = stop,
         Lives' => \/ worker'.job = worker.job \/ worker.job.dev \in lost'
                   \/ worker.job \in InputJobs /\ guest' = Applied(worker.job)
  PROVE  InputInv'
<1> USE DEF InputInv
<1>1. /\ ui \in Interfaces /\ channel \in Seq(Entries) /\ worker \in WorkerRecords
      /\ guest \in GuestRecords /\ worker.job \in InputJobs \cup {NoJob}
      /\ guest.ended \in Nat /\ guest.moved \in Nat
  BY DEF InputTypes, WorkerRecords, GuestRecords
<1>2. /\ guest' \in GuestRecords
      /\ \A d \in Devices : \/ guest'.held[d] = guest.held[d]
                            \/ worker.job.dev = d /\ guest'.held[d] = worker.job.held
      /\ guest'.ended = guest.ended \/ (Lift(worker.job) /\ guest'.ended = worker.job.gesture)
      /\ guest'.moved >= guest.moved
  <2>1. CASE guest' = guest
    BY <1>1, <2>1
  <2>2. CASE worker.job \in InputJobs /\ guest' = Applied(worker.job)
    BY <1>1, <2>2, AppliedIs
  <2> QED
    BY <2>1, <2>2 DEF HandsOver
<1>3. worker.job \in InputJobs /\ guest' = Applied(worker.job) =>
        /\ \A d \in Devices : worker.job.dev = d => guest'.held[d] = worker.job.held
        /\ Contact(worker.job) => guest'.moved >= worker.job.at
  BY <1>1, AppliedIs
<1>4. InputTypes'
  BY <1>2 DEF InputTypes
<1>5. CountMatchesQueue' /\ TodoInv' /\ SendingInv'
  BY DEF CountMatchesQueue, TodoInv, SendingInv, CallInv
<1>e. Excused \subseteq Excused'
  BY DEF Excused, Forgotten
<1>6. StopInv' /\ MotionInv' /\ PromotedInv'
  BY <1>e DEF StopInv, MotionInv, PromotedInv, Pressing, Releasing, Contact, Presses
<1>7. HoldInv'
  <2> SUFFICES ASSUME Lives', NEW d \in Devices \ Excused', ~ui.held[d] \/ (d = "touch" /\ Pressing),
                      ~Releasing(d)
               PROVE  Covered(d)'
    BY <1>e DEF HoldInv, Pressing, Releasing, Contact, Presses
  <2>1. Covered(d) /\ d \notin lost'
    BY <1>e DEF HoldInv, Excused
  <2>2. \A i : LiftComes(d, i)' <=> LiftComes(d, i)
    BY DEF LiftComes, Lifts
  <2>3. \A i \in 1 .. Len(channel) : Presses(channel[i].job, d) => LiftComes(d, i)
    BY <2>1 DEF Covered
  <2>4. Presses(worker'.job, d) => LiftComes(d, 0)
    BY <2>1, <1>1 DEF Covered, Presses, NoJob, Devices
  <2>5. guest'.held[d] => LiftComes(d, 0) \/ Lifts(worker'.job, d)
    BY <2>1, <1>1, <1>2, <1>3 DEF Covered, Presses, Lifts, NoJob, Devices
  <2> QED
    BY <2>2, <2>3, <2>4, <2>5 DEF Covered, Presses, Lifts
<1>8. GestureInv'
  <2>1. \A g : Over(g) => Over(g)'
    BY <1>1, <1>2 DEF Over, Lift, Lifts, NoJob
  <2>2. \A i, g : AheadBelow(i, g) => AheadBelow(i, g)'
    BY <1>1, <1>2 DEF AheadBelow, Lift, Lifts, NoJob
  <2>3. Contact(worker'.job) => guest'.ended < worker'.job.gesture
    BY <1>1, <1>2 DEF GestureInv, Contact, Presses, Lift, Lifts, NoJob
  <2> QED
    BY <2>1, <2>2, <2>3 DEF GestureInv, Contact, Presses
<1>9. MoveInv'
  <2> SUFFICES ASSUME Lives', "touch" \notin lost' PROVE MoveInv'
    BY DEF MoveInv
  <2>1. Lives /\ "touch" \notin lost
    OBVIOUS
  <2>2. Contact(worker.job) => worker'.job = worker.job \/ guest'.moved >= worker.job.at
    <3>1. Contact(worker.job) => worker.job.dev = "touch"
      BY DEF Contact, Presses
    <3> QED
      BY <3>1, <1>3
  <2>3. \A i, n \in Nat : BroughtBefore(i, n) => BroughtBefore(i, n)'
    <3> SUFFICES ASSUME NEW i \in Nat, NEW n \in Nat, BroughtBefore(i, n)
                 PROVE  BroughtBefore(i, n)'
      OBVIOUS
    <3>1. guest'.moved \in Nat /\ guest.moved \in Nat
      BY <1>1, <1>2 DEF GuestRecords
    <3>2. CASE guest.moved >= n
      BY <3>1, <3>2, <1>2 DEF BroughtBefore
    <3>3. CASE Contact(worker.job) /\ worker.job.at >= n
      <4>1. worker.job.at \in Nat
        BY <1>1, <3>3 DEF Contact, Presses, NoJob, InputJobs
      <4> QED
        BY <3>1, <3>3, <4>1, <2>2 DEF BroughtBefore, Contact, Presses
    <3>4. CASE \E j \in 1 .. Len(channel) :
                 j < i /\ Contact(channel[j].job) /\ channel[j].job.at >= n
      BY <3>4 DEF BroughtBefore, Contact, Presses
    <3> QED
      BY <3>2, <3>3, <3>4 DEF BroughtBefore
  <2>4. \A n \in Nat : (Brought(n) => Brought(n)') /\ (Carried(n) => Carried(n)')
    BY <1>1, <2>3 DEF Brought, Carried, Contact, Presses
  <2>5. Lift(worker'.job) => guest'.moved >= worker'.job.after
    BY <1>1, <1>2, <2>1 DEF MoveInv, Lift, Lifts, NoJob, InputJobs, GuestRecords
  <2>6. ui.held["touch"] => Carried(ui.moved)'
    BY <1>1, <2>1, <2>4 DEF MoveInv, Interfaces
  <2>7. \A i \in 1 .. Len(ui.todo) :
         ui.todo[i].op = "critical" /\ ui.todo[i].job.dev = "touch" =>
           IF Head(ui.todo).op = "flush" THEN Carried(ui.todo[i].job.after)'
                                         ELSE Brought(ui.todo[i].job.after)'
    <3> SUFFICES ASSUME NEW i \in 1 .. Len(ui.todo), ui.todo[i].op = "critical",
                        ui.todo[i].job.dev = "touch"
                 PROVE  IF Head(ui.todo).op = "flush" THEN Carried(ui.todo[i].job.after)'
                                                      ELSE Brought(ui.todo[i].job.after)'
      OBVIOUS
    <3>1. ui.todo[i].job.after \in Nat
      BY DEF TodoInv, CallInv, InputJobs
    <3> QED
      BY <3>1, <2>1, <2>4 DEF MoveInv
  <2>8. Lift(ui.sending.job) => Brought(ui.sending.job.after)'
    <3>1. Lift(ui.sending.job) => ui.sending.job.after \in Nat
      BY <1>1 DEF Lift, Lifts, Unsent, NoJob, Interfaces, Entries, InputJobs
    <3> QED
      BY <3>1, <2>1, <2>4 DEF MoveInv
  <2>9. \A i \in 1 .. Len(channel) :
         Lift(channel[i].job) => BroughtBefore(i, channel[i].job.after)'
    <3>1. \A i \in 1 .. Len(channel) : i \in Nat /\ channel[i].job.after \in Nat
      <4>1. \A i \in 1 .. Len(channel) : i \in Nat /\ channel[i] \in Entries
        BY <1>1
      <4>2. \A e \in Entries : e.job.after \in Nat
        BY DEF Entries, InputJobs
      <4> QED
        BY <4>1, <4>2
    <3> QED
      BY <3>1, <2>1, <2>3 DEF MoveInv
  <2> QED
    BY <2>5, <2>6, <2>7, <2>8, <2>9 DEF MoveInv, Lift, Lifts
<1> QED
  BY <1>4, <1>5, <1>6, <1>7, <1>8, <1>9

\* What is left of the channel when its first entry is taken.
LEMMA TailIs ==
  ASSUME channel \in Seq(Entries), channel # <<>>, channel' = Tail(channel)
  PROVE  /\ channel' \in Seq(Entries) /\ Len(channel) \in Nat /\ Len(channel') = Len(channel) - 1
         /\ Head(channel) \in Entries /\ Head(channel) = channel[1]
         /\ \A i \in 1 .. Len(channel') : i + 1 \in 1 .. Len(channel) /\ channel'[i] = channel[i + 1]
OBVIOUS

LEMMA ReceiveKeeps == InputInv /\ Receive => InputInv'
<1> SUFFICES ASSUME InputInv, Receive PROVE InputInv'
  OBVIOUS
<1> USE DEF InputInv
<1> DEFINE e == Head(channel)
<1>1. /\ ui \in Interfaces /\ channel \in Seq(Entries) /\ worker \in WorkerRecords
      /\ guest \in GuestRecords /\ guest.ended \in Nat /\ guest.moved \in Nat
      /\ worker.at = "poll" /\ worker.job = NoJob
  BY DEF InputTypes, WorkerRecords, GuestRecords, Receive, Working
<1>2. /\ channel # <<>> /\ channel' = Tail(channel)
      /\ UNCHANGED <<ui, motion, stop, current, guest, lost>>
  BY DEF Receive
<1>3. /\ channel' \in Seq(Entries) /\ Len(channel) \in Nat /\ Len(channel') = Len(channel) - 1
      /\ e \in Entries /\ e = channel[1]
      /\ \A i \in 1 .. Len(channel') : i + 1 \in 1 .. Len(channel) /\ channel'[i] = channel[i + 1]
  BY <1>1, <1>2, TailIs
<1>4. e.job \in InputJobs /\ e.counted \in BOOLEAN
  BY <1>3 DEF Entries
<1>5. /\ worker' \in WorkerRecords /\ (worker'.at \in Working <=> worker'.job # NoJob)
      /\ worker'.job = e.job \/ (worker'.job = NoJob /\ ~Lives')
      /\ Lives
  <2>1. Lives
    BY <1>1 DEF Lives, Living
  <2>2. e.job # NoJob
    BY <1>4 DEF NoJob, InputJobs
  <2>3. CASE current
    <3>1. worker' = [at |-> "run", job |-> e.job]
      BY <2>3 DEF Receive, TakeJob, Goto
    <3> QED
      BY <2>1, <2>2, <3>1, <1>4 DEF WorkerRecords, Working, Living
  <2>4. CASE ~current
    <3>1. worker' = [at |-> "close", job |-> NoJob]
      BY <2>4 DEF Receive, TakeJob, Goto
    <3> QED
      BY <2>1, <3>1 DEF WorkerRecords, Working, Living, Lives
  <2> QED
    BY <2>3, <2>4
<1>6. CountMatchesQueue' /\ queued' \in Nat
  <2>1. CountedIn(channel') = CountedIn(channel) - (IF e.counted THEN 1 ELSE 0)
    BY <1>1, <1>2, CountedTail
  <2>2. CountedIn(channel) \in Nat /\ CountedIn(channel') \in Nat
    BY <1>1, <1>3, PlacesAreFinite
  <2>3. queued' = IF e.counted THEN queued - 1 ELSE queued
    BY DEF Receive
  <2> QED
    BY <1>2, <1>4, <2>1, <2>2, <2>3 DEF CountMatchesQueue
<1>7. InputTypes'
  BY <1>2, <1>3, <1>5, <1>6 DEF InputTypes
<1>8. TodoInv' /\ SendingInv'
  BY <1>2 DEF TodoInv, SendingInv, CallInv
<1>e. Excused \subseteq Excused'
  BY <1>2 DEF Excused, Forgotten
<1>9. StopInv' /\ MotionInv' /\ PromotedInv'
  BY <1>e, <1>2, <1>5 DEF StopInv, MotionInv, PromotedInv, Pressing, Releasing, Contact, Presses
<1>10. HoldInv'
  <2> SUFFICES ASSUME Lives', NEW d \in Devices \ Excused', ~ui.held[d] \/ (d = "touch" /\ Pressing),
                      ~Releasing(d)
               PROVE  Covered(d)'
    BY <1>e, <1>2 DEF HoldInv, Pressing, Releasing, Contact, Presses
  <2>1. Covered(d) /\ worker'.job = e.job
    BY <1>e, <1>5 DEF HoldInv
  <2>2. \A i \in Nat : LiftComes(d, i + 1) => LiftComes(d, i)'
    <3> SUFFICES ASSUME NEW i \in Nat, LiftComes(d, i + 1) PROVE LiftComes(d, i)'
      OBVIOUS
    <3>1. PICK j \in 1 .. Len(channel) : j > i + 1 /\ Lifts(channel[j].job, d)
      BY DEF LiftComes
    <3>2. j - 1 \in 1 .. Len(channel') /\ channel'[j - 1] = channel[j] /\ j - 1 > i
      BY <1>3, <3>1
    <3> QED
      BY <3>1, <3>2 DEF LiftComes, Lifts
  <2>3. \A i \in 1 .. Len(channel') : Presses(channel'[i].job, d) => LiftComes(d, i)'
    BY <1>3, <2>1, <2>2 DEF Covered
  <2>4. Presses(e.job, d) => LiftComes(d, 0)'
    BY <1>3, <2>1, <2>2 DEF Covered
  <2>5. LiftComes(d, 0) => Lifts(e.job, d) \/ LiftComes(d, 0)'
    <3> SUFFICES ASSUME LiftComes(d, 0), ~Lifts(e.job, d) PROVE LiftComes(d, 0)'
      OBVIOUS
    <3>1. PICK j \in 1 .. Len(channel) : j > 0 /\ Lifts(channel[j].job, d)
      BY DEF LiftComes
    <3>2. j > 0 + 1
      BY <1>3, <3>1
    <3> QED
      BY <2>2, <3>1, <3>2 DEF LiftComes
  <2>6. guest'.held[d] => LiftComes(d, 0)' \/ Lifts(e.job, d)
    BY <1>1, <1>2, <2>1, <2>5 DEF Covered, Lifts, NoJob, Devices
  <2> QED
    BY <2>1, <2>3, <2>4, <2>6 DEF Covered, Presses, Lifts
<1>11. GestureInv'
  <2>1. \A g : Over(g) => Over(g)'
    BY <1>2, <1>3, <1>5 DEF Over, Lift, Lifts, NoJob
  <2>2. \A i \in 1 .. Len(channel') : \A g : AheadBelow(i + 1, g) => AheadBelow(i, g)'
    BY <1>2, <1>3, <1>5 DEF AheadBelow, Lift, Lifts, NoJob
  <2>3. Contact(e.job) => AheadBelow(1, e.job.gesture)
    BY <1>3 DEF GestureInv
  <2>4. Contact(worker'.job) => guest'.ended < worker'.job.gesture
    BY <1>2, <1>5, <2>3 DEF AheadBelow, Contact, Presses, NoJob
  <2>5. \A i \in 1 .. Len(channel') : \A g :
          Contact(channel'[i].job) /\ g = channel'[i].job.gesture => AheadBelow(i, g)'
    BY <1>3, <2>2 DEF GestureInv
  <2> QED
    BY <1>2, <2>1, <2>4, <2>5 DEF GestureInv, Contact, Presses
<1>12. MoveInv'
  <2> SUFFICES ASSUME Lives', "touch" \notin lost PROVE MoveInv'
    BY <1>2 DEF MoveInv
  <2>1. worker'.job = e.job
    BY <1>5
  <2>2. \A i, n \in Nat : BroughtBefore(i + 1, n) => BroughtBefore(i, n)'
    <3> SUFFICES ASSUME NEW i \in Nat, NEW n \in Nat, BroughtBefore(i + 1, n)
                 PROVE  BroughtBefore(i, n)'
      OBVIOUS
    <3>1. CASE guest.moved >= n
      BY <3>1, <1>2 DEF BroughtBefore
    <3>2. CASE \E j \in 1 .. Len(channel) :
                 j < i + 1 /\ Contact(channel[j].job) /\ channel[j].job.at >= n
      <4>1. PICK j \in 1 .. Len(channel) :
                   j < i + 1 /\ Contact(channel[j].job) /\ channel[j].job.at >= n
        BY <3>2
      <4>2. CASE j = 1
        BY <1>3, <2>1, <4>1, <4>2 DEF BroughtBefore, Contact, Presses
      <4>3. CASE j # 1
        <5>1. j - 1 \in 1 .. Len(channel') /\ channel'[j - 1] = channel[j] /\ j - 1 < i
          BY <1>3, <4>1, <4>3
        <5> QED
          BY <4>1, <5>1 DEF BroughtBefore, Contact, Presses
      <4> QED
        BY <4>2, <4>3
    <3>3. ~Contact(worker.job)
      BY <1>1 DEF Contact, Presses, NoJob
    <3> QED
      BY <3>1, <3>2, <3>3 DEF BroughtBefore
  <2>3. \A n \in Nat : (Brought(n) => Brought(n)') /\ (Carried(n) => Carried(n)')
    <3>1. Len(channel') + 1 \in Nat /\ (Len(channel') + 1) + 1 = Len(channel) + 1
      BY <1>3
    <3>2. \A n \in Nat : Brought(n) => Brought(n)'
      BY <2>2, <3>1 DEF Brought
    <3> QED
      BY <1>2, <3>2 DEF Carried, Contact, Presses
  <2>4. Lift(e.job) => guest.moved >= e.job.after
    <3>1. Lift(e.job) => BroughtBefore(1, e.job.after)
      BY <1>3, <1>5 DEF MoveInv
    <3>2. ~Contact(worker.job)
      BY <1>1 DEF Contact, Presses, NoJob
    <3> QED
      BY <3>1, <3>2 DEF BroughtBefore
  <2>5. ui.held["touch"] => Carried(ui.moved)'
    BY <1>1, <1>2, <1>5, <2>3 DEF MoveInv, Interfaces
  <2>6. \A i \in 1 .. Len(ui.todo) :
         ui.todo[i].op = "critical" /\ ui.todo[i].job.dev = "touch" =>
           IF Head(ui.todo).op = "flush" THEN Carried(ui.todo[i].job.after)'
                                         ELSE Brought(ui.todo[i].job.after)'
    <3> SUFFICES ASSUME NEW i \in 1 .. Len(ui.todo), ui.todo[i].op = "critical",
                        ui.todo[i].job.dev = "touch"
                 PROVE  IF Head(ui.todo).op = "flush" THEN Carried(ui.todo[i].job.after)'
                                                      ELSE Brought(ui.todo[i].job.after)'
      OBVIOUS
    <3>1. ui.todo[i].job.after \in Nat
      BY DEF TodoInv, CallInv, InputJobs
    <3> QED
      BY <3>1, <1>2, <1>5, <2>3 DEF MoveInv
  <2>7. Lift(ui.sending.job) => Brought(ui.sending.job.after)'
    <3>1. Lift(ui.sending.job) => ui.sending.job.after \in Nat
      BY <1>1 DEF Lift, Lifts, Unsent, NoJob, Interfaces, Entries, InputJobs
    <3> QED
      BY <3>1, <1>2, <1>5, <2>3 DEF MoveInv
  <2>8. \A i \in 1 .. Len(channel') : \A n :
          Lift(channel'[i].job) /\ n = channel'[i].job.after => BroughtBefore(i, n)'
    <3> SUFFICES ASSUME NEW i \in 1 .. Len(channel'), Lift(channel'[i].job)
                 PROVE  \A n : n = channel'[i].job.after => BroughtBefore(i, n)'
      OBVIOUS
    <3>1. i \in Nat /\ i + 1 \in 1 .. Len(channel) /\ channel'[i] = channel[i + 1]
      BY <1>3
    <3>2. channel[i + 1].job.after \in Nat
      <4>1. channel[i + 1] \in Entries
        BY <1>1, <3>1
      <4> QED
        BY <4>1 DEF Entries, InputJobs
    <3>3. BroughtBefore(i + 1, channel[i + 1].job.after)
      BY <3>1, <1>5 DEF MoveInv
    <3>4. \A n : n = channel[i + 1].job.after => BroughtBefore(i, n)'
      BY <2>2, <3>1, <3>2, <3>3
    <3> QED
      BY <3>1, <3>4
  <2> QED
    BY <1>2, <2>1, <2>4, <2>5, <2>6, <2>7, <2>8 DEF MoveInv, Lift, Lifts
<1> QED
  BY <1>6, <1>7, <1>8, <1>9, <1>10, <1>11, <1>12

LEMMA TakeMotionKeeps == InputInv /\ TakeMotion => InputInv'
<1> SUFFICES ASSUME InputInv, TakeMotion PROVE InputInv'
  OBVIOUS
<1> USE DEF InputInv
<1>1. /\ ui \in Interfaces /\ channel \in Seq(Entries) /\ worker \in WorkerRecords
      /\ guest \in GuestRecords /\ guest.ended \in Nat /\ guest.moved \in Nat
      /\ worker.at = "slot" /\ worker.job = NoJob /\ motion \in InputJobs
  BY DEF InputTypes, WorkerRecords, GuestRecords, TakeMotion, Working
<1>2. UNCHANGED <<ui, channel, queued, stop, current, guest, lost>> /\ motion' = NoJob
  BY DEF TakeMotion
<1>3. /\ worker' \in WorkerRecords /\ (worker'.at \in Working <=> worker'.job # NoJob)
      /\ worker'.job = motion \/ (worker'.job = NoJob /\ ~Lives')
      /\ Lives
  <2>1. Lives
    BY <1>1 DEF Lives, Living
  <2>2. motion # NoJob
    BY DEF TakeMotion
  <2>3. CASE current
    <3>1. worker' = [at |-> "run", job |-> motion]
      BY <2>3 DEF TakeMotion, TakeJob, Goto
    <3> QED
      BY <2>1, <2>2, <3>1, <1>1 DEF WorkerRecords, Working, Living
  <2>4. CASE ~current
    <3>1. worker' = [at |-> "close", job |-> NoJob]
      BY <2>4 DEF TakeMotion, TakeJob, Goto
    <3> QED
      BY <2>1, <3>1 DEF WorkerRecords, Working, Living, Lives
  <2> QED
    BY <2>3, <2>4
<1>4. ~Contact(NoJob) /\ ~Lift(NoJob)
  BY DEF Contact, Presses, Lift, Lifts, NoJob
<1>5. InputTypes'
  BY <1>2, <1>3 DEF InputTypes
<1>6. CountMatchesQueue' /\ TodoInv' /\ SendingInv'
  BY <1>2 DEF CountMatchesQueue, TodoInv, SendingInv, CallInv
<1>e. Excused \subseteq Excused'
  BY <1>2 DEF Excused, Forgotten
<1>7. StopInv' /\ MotionInv' /\ PromotedInv'
  BY <1>e, <1>2, <1>3 DEF StopInv, MotionInv, PromotedInv, Releasing
<1>8. ~Lift(motion)
  BY <1>1 DEF MotionInv, Lift, Lifts, TakeMotion
<1>9. HoldInv'
  <2> SUFFICES ASSUME Lives', NEW d \in Devices \ Excused', ~ui.held[d] \/ (d = "touch" /\ Pressing),
                      ~Releasing(d)
               PROVE  Covered(d)'
    BY <1>e, <1>2 DEF HoldInv, Pressing, Releasing, Contact, Presses
  <2>1. Covered(d) /\ worker'.job = motion
    BY <1>e, <1>3 DEF HoldInv
  <2>2. ~Presses(motion, d)
    BY <1>e DEF MotionInv, TakeMotion, Presses
  <2>3. \A i : LiftComes(d, i)' <=> LiftComes(d, i)
    BY <1>2 DEF LiftComes, Lifts
  <2>4. guest'.held[d] => LiftComes(d, 0)
    BY <1>1, <1>2, <2>1 DEF Covered, Lifts, NoJob, Devices
  <2> QED
    BY <1>2, <2>1, <2>2, <2>3, <2>4 DEF Covered, Presses, Lifts
<1>10. GestureInv'
  <2>1. \A g : Over(g) => Over(g)'
    BY <1>2, <1>3, <1>4, <1>8 DEF Over, Lift, Lifts
  <2>2. \A i, g : AheadBelow(i, g) => AheadBelow(i, g)'
    BY <1>2, <1>3, <1>4, <1>8 DEF AheadBelow, Lift, Lifts
  <2>3. Contact(worker'.job) => guest'.ended < worker'.job.gesture
    BY <1>2, <1>3, <1>4 DEF GestureInv, Over
  <2> QED
    BY <1>2, <1>4, <2>1, <2>2, <2>3 DEF GestureInv, Contact, Presses
<1>11. MoveInv'
  <2> SUFFICES ASSUME Lives', "touch" \notin lost PROVE MoveInv'
    BY <1>2 DEF MoveInv
  <2>1. worker'.job = motion /\ Lives
    BY <1>3
  <2>2. \A i, n : BroughtBefore(i, n) => BroughtBefore(i, n)'
    BY <1>1, <1>2, <1>4 DEF BroughtBefore, Contact, Presses
  <2>3. \A n : (Brought(n) => Brought(n)') /\ (Carried(n) => Carried(n)')
    <3>1. \A n : Brought(n) => Brought(n)'
      BY <1>2, <2>2 DEF Brought
    <3>2. \A n : Contact(motion) /\ motion.at >= n => Brought(n)'
      BY <2>1 DEF Brought, BroughtBefore, Contact, Presses
    <3> QED
      BY <1>2, <3>1, <3>2 DEF Carried, Contact, Presses
  <2>4. ui.held["touch"] => Carried(ui.moved)'
    BY <1>2, <2>1, <2>3 DEF MoveInv
  <2>5. \A i \in 1 .. Len(ui.todo) :
         ui.todo[i].op = "critical" /\ ui.todo[i].job.dev = "touch" =>
           IF Head(ui.todo).op = "flush" THEN Carried(ui.todo[i].job.after)'
                                         ELSE Brought(ui.todo[i].job.after)'
    BY <1>2, <2>1, <2>3 DEF MoveInv
  <2>6. Lift(ui.sending.job) => Brought(ui.sending.job.after)'
    BY <1>2, <2>1, <2>3 DEF MoveInv
  <2>7. \A i \in 1 .. Len(channel) :
         Lift(channel[i].job) => BroughtBefore(i, channel[i].job.after)'
    BY <1>2, <2>1, <2>2 DEF MoveInv
  <2> QED
    BY <1>2, <1>8, <2>1, <2>4, <2>5, <2>6, <2>7 DEF MoveInv, Lift, Lifts
<1> QED
  BY <1>5, <1>6, <1>7, <1>9, <1>10, <1>11

LEMMA DrainKeeps == InputInv /\ Drain => InputInv'
<1> SUFFICES ASSUME InputInv, Drain PROVE InputInv'
  OBVIOUS
<1> USE DEF InputInv
<1>1. /\ ui \in Interfaces /\ channel \in Seq(Entries) /\ worker \in WorkerRecords
      /\ guest \in GuestRecords /\ queued \in Nat
      /\ channel' = <<>> /\ motion' = NoJob /\ queued' = queued - CountedIn(channel)
      /\ worker' = [at |-> "drained", job |-> NoJob]
      /\ UNCHANGED <<ui, stop, current, guest, lost>>
  BY DEF InputTypes, Drain, Goto
<1>2. CountMatchesQueue' /\ queued' \in Nat
  <2>1. CountedIn(channel) \in Nat /\ CountedIn(<<>>) = 0
    BY <1>1, PlacesAreFinite, CountedEmpty
  <2>2. queued' = (IF ui.sending.counted THEN 1 ELSE 0)
    BY <1>1, <2>1 DEF CountMatchesQueue
  <2> QED
    BY <1>1, <2>1, <2>2 DEF CountMatchesQueue
<1>3. InputTypes' /\ ~Lives'
  BY <1>1, <1>2 DEF InputTypes, WorkerRecords, Working, Living, Lives
<1>4. TodoInv' /\ SendingInv'
  BY <1>1 DEF TodoInv, SendingInv, CallInv
<1>e. Excused \subseteq Excused'
  BY <1>1 DEF Excused, Forgotten
<1>5. StopInv' /\ MotionInv' /\ PromotedInv' /\ HoldInv' /\ MoveInv'
  BY <1>e, <1>1, <1>3 DEF StopInv, MotionInv, PromotedInv, Releasing, HoldInv, MoveInv
<1>6. GestureInv'
  <2>1. ~Contact(NoJob) /\ ~Lift(NoJob) /\ Len(<<>>) = 0
    BY DEF Contact, Presses, Lift, Lifts, NoJob
  <2>2. \A g : Over(g) => Over(g)'
    BY <1>1, <2>1 DEF Over, Lift, Lifts
  <2> QED
    BY <1>1, <2>1, <2>2 DEF GestureInv, Contact, Presses
<1> QED
  BY <1>2, <1>3, <1>4, <1>5, <1>6

\* The other steps of the worker take nothing.
LEMMA WorkerKeeps ==
  ASSUME InputInv,
         \/ Connect \/ FoundEmpty \/ SendersGone \/ CheckStop \/ Executed \/ ExecuteFails
         \/ Reconnected \/ GivesUp \/ CloseWorker \/ DropReceiver \/ RouteChanges
  PROVE  InputInv'
<1> DEFINE Goes ==
      /\ UNCHANGED <<ui, channel, queued, motion>>
      /\ stop' \in BOOLEAN /\ current' \in BOOLEAN /\ lost \subseteq lost' /\ HandsOver
      /\ worker' \in WorkerRecords /\ (worker'.at \in Working <=> worker'.job # NoJob)
      /\ worker'.job \in {worker.job, NoJob}
      /\ Lives' => Lives /\ stop' = stop
      /\ Lives' => \/ worker'.job = worker.job \/ worker.job.dev \in lost'
                   \/ worker.job \in InputJobs /\ guest' = Applied(worker.job)
<1>1. /\ worker \in WorkerRecords /\ (worker.at \in Working <=> worker.job # NoJob)
      /\ stop \in BOOLEAN /\ current \in BOOLEAN
      /\ worker.job \in InputJobs \cup {NoJob}
      /\ worker.at \in Working => worker.job \in InputJobs /\ Lives
  BY DEF InputInv, InputTypes, WorkerRecords, Lives, Living
<1> USE DEF Goto, WorkerRecords, Working, Living, Lives, HandsOver
<1>2. ASSUME Connect PROVE Goes
  BY <1>1, <1>2 DEF Connect, queueVars
<1>3. ASSUME FoundEmpty PROVE Goes
  BY <1>1, <1>3 DEF FoundEmpty, queueVars
<1>4. ASSUME SendersGone PROVE Goes
  BY <1>1, <1>4 DEF SendersGone, queueVars
<1>5. ASSUME CheckStop PROVE Goes
  BY <1>1, <1>5 DEF CheckStop, queueVars
<1>6. ASSUME Executed PROVE Goes
  BY <1>1, <1>6 DEF Executed, queueVars
<1>7. ASSUME ExecuteFails PROVE Goes
  BY <1>1, <1>7 DEF ExecuteFails, queueVars
<1>8. ASSUME Reconnected PROVE Goes
  BY <1>1, <1>8 DEF Reconnected, queueVars, Lose
<1>9. ASSUME GivesUp PROVE Goes
  BY <1>1, <1>9 DEF GivesUp, queueVars, Lose
<1>10. ASSUME CloseWorker PROVE Goes
  BY <1>1, <1>10 DEF CloseWorker
<1>11. ASSUME DropReceiver PROVE Goes
  BY <1>1, <1>11 DEF DropReceiver, queueVars
<1>12. ASSUME RouteChanges PROVE Goes
  BY <1>1, <1>12 DEF RouteChanges, workerVars
<1>13. Goes
  BY <1>2, <1>3, <1>4, <1>5, <1>6, <1>7, <1>8, <1>9, <1>10, <1>11, <1>12
<1> QED
  BY <1>13, WorkerGoes

-----------------------------------------------------------------------------
(* Dispatcher calls.                                                        *)

\* The call at the head is admitted: its job is in the sender's hands.
LEMMA AdmitKeeps ==
  ASSUME InputInv, ui.sending = Unsent, ui.todo # <<>>, NEW e \in Entries,
         ui' = [ui EXCEPT !.sending = e], UNCHANGED <<channel, stop, current, workerVars>>,
         queued' = queued + (IF e.counted THEN 1 ELSE 0),
         \/ Head(ui.todo).op \in {"reliable", "critical"} /\ e.job = Head(ui.todo).job
              /\ motion' = motion
         \/ Head(ui.todo).op = "flush" /\ e.job = motion /\ motion' = NoJob,
         e.counted => Head(ui.todo).op = "reliable"
  PROVE  InputInv'
<1> USE DEF InputInv, workerVars
<1> DEFINE c == Head(ui.todo)
<1>1. /\ ui \in Interfaces /\ channel \in Seq(Entries) /\ queued \in Nat
      /\ e.job \in InputJobs /\ e.counted \in BOOLEAN /\ ui.gesture \in Nat
      /\ motion \in InputJobs \cup {NoJob} /\ motion' \in {motion, NoJob}
  BY DEF InputTypes, Interfaces, Entries
<1>2. /\ ui' \in Interfaces /\ ui'.sending = e
      /\ ui'.held = ui.held /\ ui'.todo = ui.todo /\ ui'.gesture = ui.gesture
      /\ ui'.moved = ui.moved /\ ui'.open = ui.open
  BY <1>1 DEF Interfaces
<1>3. e # Unsent /\ ~Contact(NoJob) /\ ~Lift(NoJob) /\ ~Lift(ui.sending.job)
      /\ ~Contact(ui.sending.job) /\ ~ui.sending.counted
  <2>1. ui.sending.job = NoJob /\ ~ui.sending.counted /\ Unsent.job = NoJob
    BY DEF Unsent
  <2>2. NoJob \notin InputJobs /\ NoJob.dev = "none"
    BY DEF NoJob, InputJobs
  <2> QED
    BY <1>1, <2>1, <2>2 DEF Contact, Presses, Lift, Lifts
<1>4. c = ui.todo[1] /\ 1 \in 1 .. Len(ui.todo) /\ CallInv(1, c)
  BY <1>1 DEF TodoInv, Interfaces
<1>5. InputTypes' /\ CountMatchesQueue'
  <2>1. CountedIn(channel) \in Nat
    BY <1>1, PlacesAreFinite
  <2> QED
    BY <1>1, <1>2, <1>3, <2>1 DEF InputTypes, CountMatchesQueue
<1>6. TodoInv' /\ StopInv' /\ SendingInv'
  <2>1. TodoInv'
    BY <1>2 DEF TodoInv, CallInv
  <2>2. StopInv'
    BY <1>2 DEF StopInv, Lives
  <2>3. SendingInv'
    BY <1>2 DEF SendingInv
  <2> QED
    BY <2>1, <2>2, <2>3
<1>e. Excused \subseteq Excused'
  BY <1>2 DEF Excused, Forgotten
<1>7. MotionInv'
  BY <1>e, <1>1, <1>2 DEF MotionInv, Pressing, Releasing
<1>8. HoldInv'
  <2>1. \A d : (Releasing(d)' <=> Releasing(d)) /\ (Pressing' <=> Pressing) /\ (Lives' <=> Lives)
    BY <1>2 DEF Releasing, Pressing, Lives
  <2>2. \A d : Covered(d)' <=> Covered(d)
    BY DEF Covered, LiftComes, Presses, Lifts
  <2> QED
    BY <1>e, <1>2, <2>1, <2>2 DEF HoldInv
<1>9. PromotedInv'
  <2>1. e.job.held => ui.held[e.job.dev] \/ e.job.dev \in Excused \/ Releasing(e.job.dev)
    <3>1. CASE c.op \in {"reliable", "critical"} /\ e.job = c.job
      BY <1>4, <3>1 DEF CallInv
    <3>2. CASE c.op = "flush" /\ e.job = motion
      BY <1>1, <3>2 DEF MotionInv, NoJob, InputJobs
    <3> QED
      BY <3>1, <3>2
  <2> QED
    BY <1>e, <1>2, <2>1 DEF PromotedInv, Releasing
<1>10. GestureInv'
  <2>1. Lift(e.job) => c.op = "critical" /\ e.job = c.job
    BY <1>4 DEF CallInv, MotionInv, Lift, Lifts, NoJob
  <2>2. Lift(e.job) => e.job.gesture = ui.gesture /\ ~ui.held["touch"] /\ ~Contact(motion)
    BY <1>4, <2>1 DEF CallInv, MotionInv, Lift, Lifts, Contact, Presses, NoJob
  <2>3. \A g : Over(g) /\ (Lift(e.job) => e.job.gesture < g) => Over(g)'
    BY <1>2 DEF Over, Lift, Lifts
  <2>4. \A i, g : AheadBelow(i, g) => AheadBelow(i, g)'
    BY DEF AheadBelow, Lift, Lifts
  <2>5. Contact(e.job) => Over(e.job.gesture)
    BY <1>4, <1>3 DEF CallInv, GestureInv, Contact, Presses
  <2>6. Contact(e.job) => ~Lift(e.job)
    BY DEF Contact, Lift, Presses, Lifts
  <2>7. Over(ui.gesture + 1)' /\ (ui.held["touch"] => Over(ui.gesture)')
    BY <1>1, <1>2, <2>2, <2>3 DEF GestureInv
  <2>8. Contact(motion') => motion' = motion /\ \A g : g = motion.gesture => Over(g)'
    BY <1>1, <1>3, <2>2, <2>3 DEF GestureInv
  <2>9. Contact(e.job) => \A g : g = e.job.gesture => Over(g)'
    BY <2>3, <2>5, <2>6
  <2> QED
    BY <1>2, <2>4, <2>7, <2>8, <2>9 DEF GestureInv, Contact, Presses
<1>11. MoveInv'
  <2> SUFFICES ASSUME Lives, "touch" \notin lost PROVE MoveInv'
    BY DEF MoveInv, Lives
  <2>1. \A i, n : BroughtBefore(i, n) => BroughtBefore(i, n)'
    BY DEF BroughtBefore, Contact, Presses
  <2>2. \A n : Brought(n) => Brought(n)'
    BY <2>1 DEF Brought
  <2>3. \A n : Carried(n) => Carried(n)'
    BY <1>2, <1>3, <2>2 DEF Carried, Contact, Presses
  <2>4. Lift(e.job) => Brought(e.job.after)
    <3>1. Lift(e.job) => c.op = "critical" /\ e.job = c.job
      BY <1>4 DEF CallInv, MotionInv, Lift, Lifts, NoJob
    <3> QED
      BY <1>4, <3>1 DEF MoveInv, Lift, Lifts
  <2>5. \A i \in 1 .. Len(ui.todo) : \A n :
          ui.todo[i].op = "critical" /\ ui.todo[i].job.dev = "touch" /\ n = ui.todo[i].job.after =>
            IF c.op = "flush" THEN Carried(n)' ELSE Brought(n)'
    BY <2>2, <2>3 DEF MoveInv
  <2>6. ui.held["touch"] => \A n : n = ui.moved => Carried(n)'
    BY <2>3 DEF MoveInv
  <2>7. Lift(e.job) => \A n : n = e.job.after => Brought(n)'
    BY <2>2, <2>4
  <2>8. \A i \in 1 .. Len(channel) : \A n :
          Lift(channel[i].job) /\ n = channel[i].job.after => BroughtBefore(i, n)'
    BY <2>1 DEF MoveInv
  <2>9. Lift(worker.job) => guest.moved >= worker.job.after
    BY DEF MoveInv
  <2> QED
    BY <1>2, <2>5, <2>6, <2>7, <2>8, <2>9 DEF MoveInv, Lift, Lifts
<1> QED
  BY <1>5, <1>6, <1>7, <1>8, <1>9, <1>10, <1>11

\* The calls that are left when the head has been made.  A refused press of a
\* touch, which has no call behind it, takes the touch back.
LEMMA PopIs ==
  ASSUME InputInv, ui.todo # <<>>, ui' \in Interfaces,
         ui'.todo = Tail(ui.todo), ui'.gesture = ui.gesture, ui'.open = ui.open,
         \/ ui'.held = ui.held
         \/ Pressing /\ ~ui'.held["touch"]
              /\ \A d \in Devices \ {"touch"} : ui'.held[d] = ui.held[d]
  PROVE  /\ TodoInv' /\ ~Pressing'
         /\ \A d : Releasing(d) /\ ~Releasing(d)' =>
              Head(ui.todo).op = "critical" /\ Head(ui.todo).job.dev = d
         /\ CallInv(1, Head(ui.todo)) /\ 1 \in 1 .. Len(ui.todo) /\ Head(ui.todo) = ui.todo[1]
         /\ Len(ui'.todo) = Len(ui.todo) - 1
         /\ \A i \in 1 .. Len(ui'.todo) :
              /\ i + 1 \in 1 .. Len(ui.todo) /\ ui'.todo[i] = ui.todo[i + 1]
              /\ ui'.todo[i].op # "flush"
         /\ ui'.todo # <<>> => Head(ui'.todo).op # "flush"
<1> USE DEF InputInv
<1>1. ui.todo \in Seq(Calls) /\ ui'.todo \in Seq(Calls)
  BY DEF InputTypes, Interfaces
<1>2. /\ Len(ui'.todo) = Len(ui.todo) - 1 /\ Head(ui.todo) = ui.todo[1]
      /\ 1 \in 1 .. Len(ui.todo) /\ Len(ui.todo) \in Nat
      /\ \A i \in 1 .. Len(ui'.todo) : i + 1 \in 1 .. Len(ui.todo) /\ ui'.todo[i] = ui.todo[i + 1]
      /\ \A i \in 2 .. Len(ui.todo) : i - 1 \in 1 .. Len(ui'.todo) /\ ui'.todo[i - 1] = ui.todo[i]
      /\ ui'.todo # <<>> => 1 \in 1 .. Len(ui'.todo) /\ Head(ui'.todo) = ui'.todo[1]
  BY <1>1
<1>3. \A i \in 1 .. Len(ui.todo) : CallInv(i, ui.todo[i])
  BY DEF TodoInv
<1>4. Pressing => Len(ui.todo) = 1
  BY <1>2, <1>3 DEF Pressing, CallInv, Contact, Presses
<1>5. \A i \in 1 .. Len(ui'.todo) : ui'.held = ui.held
  BY <1>2, <1>4
<1>6. ASSUME NEW i \in 1 .. Len(ui'.todo) 
      PROVE  (\A c : c = ui.todo[i + 1] => CallInv(i, c)') /\ ui'.todo[i].op # "flush"
  <2>1. CallInv(i + 1, ui.todo[i + 1]) /\ ui'.todo[i] = ui.todo[i + 1] /\ i + 1 # 1
    BY <1>2, <1>3
  <2> QED
    BY <1>2, <1>5, <2>1 DEF CallInv
<1>7. TodoInv'
  BY <1>2, <1>6 DEF TodoInv, CallInv
<1>8. ~Pressing'
  <2> SUFFICES ASSUME Pressing' PROVE FALSE
    OBVIOUS
  <2>1. 1 \in 1 .. Len(ui'.todo) /\ ui'.todo[1].op = "reliable" /\ ui'.todo[1].job.dev = "touch"
    BY <1>2 DEF Pressing, Contact, Presses
  <2>2. CallInv(1 + 1, ui.todo[1 + 1]) /\ ui'.todo[1] = ui.todo[1 + 1]
    BY <2>1, <1>2, <1>3
  <2> QED
    BY <1>2, <2>1, <2>2 DEF CallInv
<1>9. \A d : Releasing(d) /\ ~Releasing(d)' =>
              Head(ui.todo).op = "critical" /\ Head(ui.todo).job.dev = d
  <2> SUFFICES ASSUME NEW d, Releasing(d), ~Releasing(d)'
               PROVE  Head(ui.todo).op = "critical" /\ Head(ui.todo).job.dev = d
    OBVIOUS
  <2>1. PICK i \in 1 .. Len(ui.todo) : ui.todo[i].op = "critical" /\ ui.todo[i].job.dev = d
    BY DEF Releasing
  <2>2. i \notin 2 .. Len(ui.todo)
    <3> SUFFICES ASSUME i \in 2 .. Len(ui.todo) PROVE Releasing(d)'
      OBVIOUS
    <3>1. i - 1 \in 1 .. Len(ui'.todo) /\ ui'.todo[i - 1] = ui.todo[i]
      BY <1>2
    <3> QED
      BY <2>1, <3>1 DEF Releasing
  <2>3. i = 1
    BY <2>1, <2>2, <1>2
  <2> QED
    BY <2>1, <2>3, <1>2
<1> QED
  BY <1>2, <1>3, <1>6, <1>7, <1>8, <1>9

\* A call that sends nothing is over.
LEMMA PopKeeps ==
  ASSUME InputInv, ui.sending = Unsent, ui.todo # <<>>, ui' \in Interfaces,
         ui'.todo = Tail(ui.todo), ui'.gesture = ui.gesture, ui'.open = ui.open,
         ui'.sending = Unsent, ui'.moved \in {ui.moved, 0},
         \/ ui'.held = ui.held
         \/ Pressing /\ ~ui'.held["touch"]
              /\ \A d \in Devices \ {"touch"} : ui'.held[d] = ui.held[d],
         UNCHANGED <<channel, queued, current, worker, guest>>, lost \subseteq lost',
         ui'.forgot = ui.forgot,
         stop' \in BOOLEAN, stop' /\ Lives => ui'.todo = <<>> /\ ~ui.open,
         IF Head(ui.todo).op \in {"flush", "clear"} THEN motion' = NoJob ELSE motion' = motion,
         Head(ui.todo).op = "critical" => Head(ui.todo).job.dev \in lost' \/ ~Lives,
         Head(ui.todo).op = "flush" /\ Contact(motion) => "touch" \in lost' \/ ~Lives,
         Head(ui.todo).op = "clear" => ui'.moved = 0
  PROVE  InputInv'
<1> USE DEF InputInv
<1> DEFINE c == Head(ui.todo)
<1>1. /\ ui \in Interfaces /\ channel \in Seq(Entries) /\ queued \in Nat
      /\ ui.gesture \in Nat /\ guest.moved \in Nat
      /\ motion \in InputJobs \cup {NoJob} /\ motion' \in {motion, NoJob}
  BY DEF InputTypes, Interfaces, GuestRecords
<1>2. /\ TodoInv' /\ ~Pressing'
      /\ \A d : Releasing(d) /\ ~Releasing(d)' => c.op = "critical" /\ c.job.dev = d
      /\ CallInv(1, c) /\ 1 \in 1 .. Len(ui.todo) /\ c = ui.todo[1]
      /\ Len(ui'.todo) = Len(ui.todo) - 1
      /\ \A i \in 1 .. Len(ui'.todo) :
           /\ i + 1 \in 1 .. Len(ui.todo) /\ ui'.todo[i] = ui.todo[i + 1]
           /\ ui'.todo[i].op # "flush"
      /\ ui'.todo # <<>> => Head(ui'.todo).op # "flush"
  BY PopIs
<1>3. NoJob.dev = "none" /\ ~Contact(NoJob) /\ ~Lift(NoJob) /\ Unsent.job = NoJob
  BY DEF Unsent, Contact, Presses, Lift, Lifts, NoJob
<1>4. Pressing => c.op = "reliable"
  BY DEF Pressing
<1>5. InputTypes'
  BY <1>1 DEF InputTypes
<1>e. Excused \subseteq Excused'
  BY DEF Excused, Forgotten
<1>6. CountMatchesQueue' /\ SendingInv' /\ StopInv' /\ PromotedInv'
  <2>1. CountMatchesQueue'
    BY DEF CountMatchesQueue
  <2> QED
    BY <1>e, <2>1 DEF SendingInv, StopInv, PromotedInv, Lives
<1>7. MotionInv'
  <2> SUFFICES ASSUME motion' # NoJob PROVE MotionInv'
    BY DEF MotionInv
  <2>1. motion' = motion /\ c.op \notin {"flush", "clear"} /\ motion \in InputJobs
    BY <1>1
  <2>2. motion.held => ui.held[motion.dev] /\ ~(motion.dev = "touch" /\ Pressing)
    BY <2>1 DEF MotionInv
  <2>3. motion.held => ui'.held[motion.dev]
    BY <2>1, <2>2 DEF MotionInv, Devices
  <2> QED
    BY <1>2, <2>1, <2>3 DEF MotionInv
<1>8. HoldInv'
  <2> SUFFICES ASSUME Lives, NEW d \in Devices \ Excused', ~ui'.held[d]
               PROVE  Releasing(d)' \/ Covered(d)'
    BY <1>e, <1>2 DEF HoldInv, Lives
  <2>1. ~ui.held[d] \/ (d = "touch" /\ Pressing)
    OBVIOUS
  <2>2. Releasing(d) \/ Covered(d)
    BY <1>e, <2>1 DEF HoldInv
  <2>3. /\ Covered(d) => Covered(d)'
        /\ d \notin lost'
    BY DEF Covered, LiftComes, Presses, Lifts, Excused
  <2> QED
    BY <1>2, <2>2, <2>3
<1>9. GestureInv'
  <2>1. \A g : Over(g) => Over(g)'
    BY DEF Over, Lift, Lifts
  <2>2. \A i, g : AheadBelow(i, g) => AheadBelow(i, g)'
    BY DEF AheadBelow, Lift, Lifts
  <2>3. ui'.held["touch"] => ui.held["touch"]
    OBVIOUS
  <2> QED
    BY <1>3, <2>1, <2>2, <2>3 DEF GestureInv, Contact, Presses
<1>10. MoveInv'
  <2> SUFFICES ASSUME Lives, "touch" \notin lost' PROVE MoveInv'
    BY DEF MoveInv, Lives
  <2>1. \A i, n : BroughtBefore(i, n) => BroughtBefore(i, n)'
    BY DEF BroughtBefore, Contact, Presses
  <2>2. \A n : Brought(n) => Brought(n)'
    BY <2>1 DEF Brought
  <2>3. c.op # "clear" => \A n : Carried(n) => Carried(n)'
    BY <1>3, <2>2 DEF Carried, Contact, Presses
  <2>4. c.op = "flush" => \A n : Carried(n) => Brought(n)
    BY <1>3 DEF Carried
  <2>5. \A i \in 1 .. Len(ui'.todo) : \A n :
          ui'.todo[i].op = "critical" /\ ui'.todo[i].job.dev = "touch"
             /\ n = ui'.todo[i].job.after => Brought(n)'
    BY <1>2, <2>2, <2>4 DEF MoveInv
  <2>6. Carried(0)'
    BY <1>1 DEF Carried, Brought, BroughtBefore
  <2>7. ui'.held["touch"] => \A n : n = ui'.moved => Carried(n)'
    BY <2>3, <2>6 DEF MoveInv
  <2>8. \A i \in 1 .. Len(channel) : \A n :
          Lift(channel[i].job) /\ n = channel[i].job.after => BroughtBefore(i, n)'
    BY <2>1 DEF MoveInv
  <2>9. Lift(worker.job) => guest.moved >= worker.job.after
    BY DEF MoveInv
  <2>10. \A i \in 1 .. Len(ui'.todo) : Head(ui'.todo).op # "flush"
    BY <1>2
  <2> QED
    BY <1>3, <2>5, <2>7, <2>8, <2>9, <2>10 DEF MoveInv, Lift, Lifts
<1> QED
  BY <1>2, <1>5, <1>6, <1>7, <1>8, <1>9, <1>10

\* A job whose receiver has gone is dropped.
LEMMA SendFailsKeeps ==
  ASSUME InputInv, SendReliable, worker.at = "gone"
  PROVE  InputInv'
<1> USE DEF InputInv
<1> DEFINE e == ui.sending
           c == Head(ui.todo)
<1>1. /\ ui \in Interfaces /\ channel \in Seq(Entries) /\ queued \in Nat
      /\ e \in Entries /\ e # Unsent /\ e.job \in InputJobs /\ e.counted \in BOOLEAN
      /\ ui.todo \in Seq(Calls) /\ ui.todo # <<>>
  BY DEF InputTypes, Interfaces, Entries, SendReliable, SendingInv
<1>2. /\ e.counted => c.op = "reliable" /\ e.job = c.job
      /\ c.op \in {"reliable", "critical"} \/ (c.op = "flush" /\ motion = NoJob)
  BY <1>1 DEF SendingInv
<1>3. /\ UNCHANGED <<channel, motion, stop, current, worker, guest, lost>>
      /\ queued' = IF e.counted THEN queued - 1 ELSE queued
      /\ ui' = [(IF ~e.counted THEN Next1 ELSE Refused(e.job)) EXCEPT !.sending = Unsent]
  BY DEF SendReliable, workerVars
<1>4. /\ ui' \in Interfaces /\ ui'.todo = Tail(ui.todo) /\ ui'.sending = Unsent
      /\ ui'.gesture = ui.gesture /\ ui'.open = ui.open /\ ui'.forgot = ui.forgot
      /\ \/ ui'.held = ui.held
         \/ Pressing /\ ~ui'.held["touch"]
              /\ \A d \in Devices \ {"touch"} : ui'.held[d] = ui.held[d]
  <2>1. Tail(ui.todo) \in Seq(Calls)
    BY <1>1
  <2>2. CASE e.counted /\ e.job.dev = "touch" /\ e.job.held
    <3>1. Pressing
      BY <1>1, <1>2, <2>2 DEF Pressing, Contact, Presses
    <3> DEFINE h == [ui.held EXCEPT !["touch"] = FALSE]
    <3>2. /\ h \in [Devices -> BOOLEAN] /\ ~h["touch"]
          /\ \A d \in Devices \ {"touch"} : h[d] = ui.held[d]
      BY <1>1 DEF Interfaces, Devices
    <3>3. ui' = [ui EXCEPT !.todo = Tail(ui.todo), !.held = h, !.sending = Unsent]
      BY <1>1, <1>3, <2>2 DEF Refused, Next1, Interfaces
    <3> HIDE DEF h
    <3> QED
      BY <1>1, <2>1, <3>1, <3>2, <3>3 DEF Interfaces
  <2>3. CASE ~(e.counted /\ e.job.dev = "touch" /\ e.job.held)
    <3>1. ui' = [ui EXCEPT !.todo = Tail(ui.todo), !.sending = Unsent]
      BY <1>1, <1>3, <2>3 DEF Refused, Next1, Interfaces
    <3> QED
      BY <1>1, <2>1, <3>1 DEF Interfaces
  <2> QED
    BY <2>2, <2>3
<1>5. TodoInv' /\ ~Pressing'
  BY <1>1, <1>4, PopIs
<1>6. ~Lives' /\ Unsent.job = NoJob /\ ~Contact(NoJob) /\ ~Lift(NoJob) /\ ~Unsent.counted
  BY <1>3 DEF Lives, Living, Working, Unsent, NoJob, Contact, Presses, Lift, Lifts
<1>7. CountMatchesQueue' /\ queued' \in Nat
  <2>1. CountedIn(channel) \in Nat
    BY <1>1, PlacesAreFinite
  <2> QED
    BY <1>1, <1>3, <1>4, <1>6, <2>1 DEF CountMatchesQueue
<1>8. InputTypes'
  BY <1>3, <1>4, <1>7 DEF InputTypes
<1>9. SendingInv' /\ StopInv' /\ PromotedInv' /\ HoldInv' /\ MoveInv'
  BY <1>4, <1>6 DEF SendingInv, StopInv, PromotedInv, HoldInv, MoveInv
<1>10. MotionInv'
  <2> SUFFICES ASSUME motion # NoJob PROVE MotionInv'
    BY <1>3 DEF MotionInv
  <2>1. motion.held => ui.held[motion.dev] /\ ~(motion.dev = "touch" /\ Pressing)
    BY <1>2 DEF MotionInv
  <2>2. motion.held => ui'.held[motion.dev]
    BY <1>4, <2>1 DEF MotionInv, Devices
  <2> QED
    BY <1>3, <1>5, <2>2 DEF MotionInv
<1>11. GestureInv'
  <2>1. \A g : Over(g) => Over(g)'
    BY <1>3, <1>4, <1>6 DEF Over, Lift, Lifts
  <2>2. \A i, g : AheadBelow(i, g) => AheadBelow(i, g)'
    BY <1>3 DEF AheadBelow, Lift, Lifts
  <2>3. ui'.held["touch"] => ui.held["touch"]
    BY <1>4
  <2> QED
    BY <1>3, <1>4, <1>6, <2>1, <2>2, <2>3 DEF GestureInv, Contact, Presses
<1> QED
  BY <1>5, <1>7, <1>8, <1>9, <1>10, <1>11

\* A job that is sent is the last of the channel.
LEMMA SendKeeps ==
  ASSUME InputInv, SendReliable, worker.at # "gone"
  PROVE  InputInv'
<1> USE DEF InputInv
<1> DEFINE e == ui.sending
           c == Head(ui.todo)
<1>0. PICK n : n = Len(channel) + 1
  OBVIOUS
<1>1. /\ ui \in Interfaces /\ channel \in Seq(Entries) /\ queued \in Nat
      /\ e \in Entries /\ e # Unsent /\ e.job \in InputJobs /\ e.counted \in BOOLEAN
      /\ ui.todo \in Seq(Calls) /\ ui.todo # <<>>
  BY DEF InputTypes, Interfaces, Entries, SendReliable, SendingInv
<1>2. \/ c.op \in {"reliable", "critical"} /\ e.job = c.job
      \/ c.op = "flush" /\ motion = NoJob
  BY <1>1 DEF SendingInv
<1>3. /\ UNCHANGED <<queued, motion, stop, current, worker, guest, lost>>
      /\ channel' = Append(channel, e)
      /\ ui' = [Next1 EXCEPT !.sending = Unsent]
  BY DEF SendReliable, workerVars
<1>4. /\ ui' \in Interfaces /\ ui'.todo = Tail(ui.todo) /\ ui'.sending = Unsent
      /\ ui'.gesture = ui.gesture /\ ui'.open = ui.open /\ ui'.held = ui.held
      /\ ui'.forgot = ui.forgot
      /\ ui'.moved = ui.moved
  <2>1. Tail(ui.todo) \in Seq(Calls)
    BY <1>1
  <2>2. ui' = [ui EXCEPT !.todo = Tail(ui.todo), !.sending = Unsent]
    BY <1>1, <1>3 DEF Next1, Interfaces
  <2> QED
    BY <1>1, <2>1, <2>2 DEF Interfaces
<1>5. /\ TodoInv' /\ ~Pressing'
      /\ \A d : Releasing(d) /\ ~Releasing(d)' => c.op = "critical" /\ c.job.dev = d
      /\ CallInv(1, c) /\ 1 \in 1 .. Len(ui.todo) /\ c = ui.todo[1]
      /\ \A i \in 1 .. Len(ui'.todo) :
           /\ i + 1 \in 1 .. Len(ui.todo) /\ ui'.todo[i] = ui.todo[i + 1]
           /\ ui'.todo[i].op # "flush"
      /\ ui'.todo # <<>> => Head(ui'.todo).op # "flush"
  BY <1>1, <1>4, PopIs
<1>6. Unsent.job = NoJob /\ ~Contact(NoJob) /\ ~Lift(NoJob) /\ ~Unsent.counted
  BY DEF Unsent, NoJob, Contact, Presses, Lift, Lifts
<1>7. /\ channel' \in Seq(Entries) /\ Len(channel) \in Nat /\ Len(channel') = n
      /\ channel'[n] = e /\ n \in 1 .. Len(channel')
      /\ \A i \in 1 .. Len(channel) : i \in 1 .. Len(channel') /\ channel'[i] = channel[i]
      /\ \A i \in 1 .. Len(channel') : i \in 1 .. Len(channel) \/ i = n
  BY <1>0, <1>1, <1>3
<1>8. CountMatchesQueue'
  <2>1. CountedIn(channel') = CountedIn(channel) + (IF e.counted THEN 1 ELSE 0)
    BY <1>1, <1>3, CountedAppend
  <2>2. CountedIn(channel) \in Nat
    BY <1>1, PlacesAreFinite
  <2> QED
    BY <1>1, <1>3, <1>4, <1>6, <2>1, <2>2 DEF CountMatchesQueue
<1>9. InputTypes'
  BY <1>3, <1>4, <1>7 DEF InputTypes
<1>e. Excused \subseteq Excused'
  BY <1>3, <1>4 DEF Excused, Forgotten
<1>10. SendingInv' /\ StopInv' /\ PromotedInv'
  BY <1>e, <1>1, <1>3, <1>4 DEF SendingInv, StopInv, PromotedInv, Lives
<1>11. MotionInv'
  <2> SUFFICES ASSUME motion # NoJob PROVE MotionInv'
    BY <1>3 DEF MotionInv
  <2>1. motion.held => ui.held[motion.dev] /\ ~(motion.dev = "touch" /\ Pressing)
    BY <1>2 DEF MotionInv
  <2> QED
    BY <1>e, <1>3, <1>4, <1>5, <2>1 DEF MotionInv
<1>12. HoldInv'
  <2> SUFFICES ASSUME Lives, NEW d \in Devices \ Excused', ~ui.held[d]
               PROVE  Releasing(d)' \/ Covered(d)'
    BY <1>e, <1>3, <1>4, <1>5 DEF HoldInv, Lives
  <2>1. Releasing(d) \/ Covered(d)
    BY <1>e DEF HoldInv
  <2>2. \A i : LiftComes(d, i) => LiftComes(d, i)'
    BY <1>7 DEF LiftComes, Lifts
  <2>3. CASE Lifts(e.job, d)
    <3>1. \A i \in 0 .. Len(channel) : LiftComes(d, i)'
      BY <1>0, <1>7, <2>3 DEF LiftComes, Lifts
    <3>2. ~Presses(e.job, d)
      BY <2>3 DEF Lifts, Presses
    <3> QED
      BY <1>3, <1>7, <3>1, <3>2 DEF Covered, Presses
  <2>4. CASE Presses(e.job, d)
    <3>1. Releasing(d)
      BY <1>e, <1>1, <2>4 DEF PromotedInv, Presses
    <3>2. c.op # "critical"
      BY <1>2, <1>5, <2>4 DEF CallInv, Presses
    <3> QED
      BY <1>5, <3>1, <3>2
  <2>5. CASE e.job.dev # d
    <3>1. Releasing(d)' \/ Covered(d)
      BY <1>2, <1>5, <2>1, <2>5
    <3>2. Covered(d) => Covered(d)'
      BY <1>3, <1>7, <2>2, <2>5 DEF Covered, Presses, Lifts
    <3> QED
      BY <3>1, <3>2
  <2> QED
    BY <1>1, <2>3, <2>4, <2>5 DEF Lifts, Presses, InputJobs
<1>13. GestureInv'
  <2>1. \A g : Over(g) => Over(g)'
    BY <1>3, <1>4, <1>6, <1>7 DEF Over, Lift, Lifts
  <2>2. \A i \in 1 .. Len(channel) : \A g : AheadBelow(i, g) => AheadBelow(i, g)'
    BY <1>3, <1>7 DEF AheadBelow, Lift, Lifts
  <2>3. \A g : Over(g) => AheadBelow(n, g)'
    BY <1>3, <1>7 DEF Over, AheadBelow, Lift, Lifts
  <2>4. \A i \in 1 .. Len(channel') : \A g :
          Contact(channel'[i].job) /\ g = channel'[i].job.gesture => AheadBelow(i, g)'
    <3>1. \A i \in 1 .. Len(channel) : \A g :
            Contact(channel[i].job) /\ g = channel[i].job.gesture => AheadBelow(i, g)'
      BY <2>2 DEF GestureInv
    <3>2. Contact(e.job) => \A g : g = e.job.gesture => AheadBelow(n, g)'
      BY <2>3 DEF GestureInv
    <3> QED
      BY <1>7, <3>1, <3>2
  <2> QED
    BY <1>3, <1>4, <1>6, <2>1, <2>4 DEF GestureInv, Contact, Presses
<1>14. MoveInv'
  <2> SUFFICES ASSUME Lives, "touch" \notin lost PROVE MoveInv'
    BY <1>3 DEF MoveInv, Lives
  <2>1. \A i, k : BroughtBefore(i, k) => BroughtBefore(i, k)'
    BY <1>3, <1>7 DEF BroughtBefore, Contact, Presses
  <2>2. \A k : Brought(k) => Brought(k)'
    <3> SUFFICES ASSUME NEW k, Brought(k) PROVE Brought(k)'
      OBVIOUS
    <3>1. BroughtBefore(n, k)'
      BY <1>0, <2>1 DEF Brought
    <3>2. BroughtBefore(n, k)' => BroughtBefore(n + 1, k)'
      BY <1>7 DEF BroughtBefore
    <3> QED
      BY <1>7, <3>1, <3>2 DEF Brought
  <2>3. \A k : Contact(e.job) /\ e.job.at >= k => Brought(k)'
    BY <1>7 DEF Brought, BroughtBefore, Contact, Presses
  <2>4. \A k : Carried(k) => Carried(k)'
    BY <1>3, <2>2, <2>3 DEF Carried, Contact, Presses
  <2>5. c.op = "flush" => \A k : Carried(k) => Brought(k)'
    BY <1>2, <1>6, <2>2, <2>3 DEF Carried
  <2>6. \A i \in 1 .. Len(ui'.todo) : \A k :
          ui'.todo[i].op = "critical" /\ ui'.todo[i].job.dev = "touch"
             /\ k = ui'.todo[i].job.after => Brought(k)'
    <3> SUFFICES ASSUME NEW i \in 1 .. Len(ui'.todo), ui'.todo[i].op = "critical",
                        ui'.todo[i].job.dev = "touch",
                        NEW k, k = ui'.todo[i].job.after
                 PROVE  Brought(k)'
      OBVIOUS
    <3>1. i + 1 \in 1 .. Len(ui.todo) /\ ui'.todo[i] = ui.todo[i + 1]
      BY <1>5
    <3>2. IF c.op = "flush" THEN Carried(k) ELSE Brought(k)
      BY <3>1 DEF MoveInv
    <3> QED
      BY <3>2, <2>2, <2>5
  <2>7. ui.held["touch"] => \A k : k = ui.moved => Carried(k)'
    BY <2>4 DEF MoveInv
  <2>8. \A i \in 1 .. Len(channel) : \A k :
          Lift(channel[i].job) /\ k = channel[i].job.after => BroughtBefore(i, k)'
    BY <2>1 DEF MoveInv
  <2>9. Lift(e.job) => \A k : k = e.job.after => BroughtBefore(n, k)'
    <3>1. Lift(e.job) => Brought(e.job.after)
      BY DEF MoveInv
    <3> QED
      BY <1>0, <3>1, <2>1 DEF Brought
  <2>10. \A i \in 1 .. Len(channel') : \A k :
          Lift(channel'[i].job) /\ k = channel'[i].job.after => BroughtBefore(i, k)'
    <3> SUFFICES ASSUME NEW i \in 1 .. Len(channel'), NEW k, Lift(channel'[i].job),
                        k = channel'[i].job.after
                 PROVE  BroughtBefore(i, k)'
      OBVIOUS
    <3>1. CASE i \in 1 .. Len(channel)
      BY <1>7, <2>8, <3>1
    <3>2. CASE i = n
      BY <1>7, <2>9, <3>2
    <3> QED
      BY <1>7, <3>1, <3>2
  <2>11. Lift(worker.job) => guest.moved >= worker.job.after
    BY DEF MoveInv
  <2>12. \A i \in 1 .. Len(ui'.todo) : Head(ui'.todo).op # "flush"
    BY <1>5
  <2> QED
    BY <1>3, <1>4, <1>6, <2>6, <2>7, <2>10, <2>11, <2>12 DEF MoveInv, Lift, Lifts
<1> QED
  BY <1>5, <1>8, <1>9, <1>10, <1>11, <1>12, <1>13, <1>14

LEMMA SendReliableKeeps ==
  ASSUME InputInv, SendReliable
  PROVE  InputInv'
BY SendFailsKeeps, SendKeeps

\* A motion replaces the one in the slot: it is of the touch that is going on,
\* or there is none.
LEMMA ReplaceKeeps ==
  ASSUME InputInv, ReplaceMotion
  PROVE  InputInv'
<1> USE DEF InputInv
<1> DEFINE c == Head(ui.todo)
<1>1. /\ ui \in Interfaces /\ ui.todo \in Seq(Calls) /\ ui.todo # <<>> /\ c.op = "replace"
      /\ ui.gesture \in Nat /\ ui.moved \in Nat /\ ui.sending = Unsent
      /\ motion \in InputJobs \cup {NoJob}
  BY DEF ReplaceMotion, Doing, InputTypes, Interfaces, SendingInv
<1>2. /\ c = ui.todo[1] /\ 1 \in 1 .. Len(ui.todo) /\ CallInv(1, c)
      /\ Len(ui.todo) = 1 /\ Tail(ui.todo) = <<>> /\ c.job \in InputJobs
      /\ Tail(ui.todo) \in Seq(Calls)
  BY <1>1 DEF TodoInv, CallInv
<1>3. ~Pressing /\ \A d : ~Releasing(d)
  BY <1>1, <1>2 DEF Pressing, Releasing
<1>4. UNCHANGED <<channel, queued, stop, current, worker, guest, lost>>
  BY DEF ReplaceMotion, workerVars
<1>5. CASE ~(current /\ ~stop)
  <2>1. motion' = motion /\ ui' = [ui EXCEPT !.todo = Tail(ui.todo)]
    BY <1>5 DEF ReplaceMotion, Next1
  <2>2. /\ ui' \in Interfaces /\ ui'.todo = Tail(ui.todo) /\ ui'.gesture = ui.gesture
        /\ ui'.open = ui.open /\ ui'.forgot = ui.forgot /\ ui'.sending = Unsent /\ ui'.moved = ui.moved
        /\ ui'.held = ui.held
    BY <1>1, <1>2, <2>1 DEF Interfaces
  <2>3. stop' \in BOOLEAN /\ (stop' /\ Lives => FALSE)
    BY <1>1, <1>4 DEF StopInv, InputTypes
  <2> QED
    BY <1>1, <1>4, <2>1, <2>2, <2>3, PopKeeps
<1>6. CASE current /\ ~stop
  <2>0. PICK n : n = IF c.job.dev = "touch" THEN c.job.at ELSE ui.moved
    OBVIOUS
  <2>1. motion' = c.job /\ ui' = [ui EXCEPT !.todo = Tail(ui.todo), !.moved = n]
    BY <2>0, <1>1, <1>6 DEF ReplaceMotion, Next1, Interfaces
  <2>2. n \in Nat
    BY <2>0, <1>1, <1>2 DEF InputJobs
  <2>3. /\ ui' \in Interfaces /\ ui'.todo = <<>> /\ ui'.gesture = ui.gesture
        /\ ui'.open = ui.open /\ ui'.forgot = ui.forgot /\ ui'.sending = Unsent /\ ui'.moved = n
        /\ ui'.held = ui.held
    BY <1>1, <1>2, <2>1, <2>2 DEF Interfaces
  <2>4. Len(ui'.todo) = 0 /\ ~Pressing' /\ Unsent.job = NoJob /\ ~Contact(NoJob) /\ ~Lift(NoJob)
    BY <2>3 DEF Pressing, Unsent, NoJob, Contact, Presses, Lift, Lifts
  <2>5. /\ c.job.dev \in {"touch", "right"} /\ (c.job.held => ui.held[c.job.dev])
        /\ c.job.dev = "touch" => c.job.held /\ c.job.gesture = ui.gesture
        /\ c.job.dev = "right" => ~ui.held["touch"]
    BY <1>1, <1>2 DEF CallInv
  <2>6. InputTypes' /\ CountMatchesQueue'
    BY <1>1, <1>2, <1>4, <2>1, <2>3 DEF InputTypes, CountMatchesQueue
  <2>e. Excused \subseteq Excused'
    BY <1>4, <2>3 DEF Excused, Forgotten
  <2>7. TodoInv' /\ SendingInv' /\ PromotedInv'
    BY <1>4, <2>3, <2>4 DEF TodoInv, SendingInv, PromotedInv
  <2>8. StopInv'
    BY <1>4, <1>6, <2>3 DEF StopInv, Lives
  <2>9. MotionInv'
    BY <2>1, <2>3, <2>4, <2>5 DEF MotionInv
  <2>10. HoldInv'
    <3>1. \A d : Covered(d) => Covered(d)'
      BY <1>4 DEF Covered, LiftComes, Presses, Lifts
    <3> QED
      BY <2>e, <1>3, <1>4, <2>3, <2>4, <3>1 DEF HoldInv, Lives
  <2>11. GestureInv'
    <3>1. \A g : Over(g) => Over(g)'
      BY <1>1, <1>4, <2>3 DEF Over, Lift, Lifts
    <3>2. \A i, g : AheadBelow(i, g) => AheadBelow(i, g)'
      BY <1>4 DEF AheadBelow, Lift, Lifts
    <3>3. Contact(c.job) => Over(ui.gesture) /\ c.job.gesture = ui.gesture
      BY <2>5 DEF GestureInv, Contact, Presses
    <3>4. Contact(motion') => \A g : g = motion'.gesture => Over(g)'
      BY <2>1, <3>1, <3>3
    <3> QED
      BY <1>4, <2>3, <2>4, <3>1, <3>2, <3>4 DEF GestureInv, Contact, Presses
  <2>12. MoveInv'
    <3> SUFFICES ASSUME Lives, "touch" \notin lost PROVE MoveInv'
      BY <1>4 DEF MoveInv, Lives
    <3>1. \A i, k : BroughtBefore(i, k) => BroughtBefore(i, k)'
      BY <1>4 DEF BroughtBefore, Contact, Presses
    <3>2. ui.held["touch"] => Carried(n)'
      <4> SUFFICES ASSUME ui.held["touch"] PROVE Carried(n)'
        OBVIOUS
      <4>1. c.job.dev = "touch" /\ c.job.held /\ n = c.job.at
        BY <2>0, <2>5
      <4> QED
        BY <2>1, <2>2, <4>1 DEF Carried, Contact, Presses
    <3>3. \A i \in 1 .. Len(channel) : \A k :
            Lift(channel[i].job) /\ k = channel[i].job.after => BroughtBefore(i, k)'
      BY <3>1 DEF MoveInv
    <3>4. Lift(worker.job) => guest.moved >= worker.job.after
      BY DEF MoveInv
    <3> QED
      BY <1>4, <2>3, <2>4, <3>2, <3>3, <3>4 DEF MoveInv, Lift, Lifts
  <2> QED
    BY <2>6, <2>7, <2>8, <2>9, <2>10, <2>11, <2>12
<1> QED
  BY <1>5, <1>6

\* What a call of the dispatcher starts from.
LEMMA CallIs ==
  ASSUME InputInv, ui.todo # <<>>
  PROVE  /\ ui \in Interfaces /\ ui.todo \in Seq(Calls) /\ Tail(ui.todo) \in Seq(Calls)
         /\ Len(Tail(ui.todo)) = Len(ui.todo) - 1
         /\ CallInv(1, Head(ui.todo)) /\ Len(ui.todo) \in Nat /\ Len(ui.todo) # 0
         /\ Next1 \in Interfaces /\ Next1.todo = Tail(ui.todo) /\ Next1.gesture = ui.gesture
         /\ Next1.open = ui.open /\ Next1.forgot = ui.forgot /\ Next1.sending = ui.sending /\ Next1.moved = ui.moved
         /\ Next1.held = ui.held
         /\ stop \in BOOLEAN /\ current \in BOOLEAN /\ (stop /\ Lives => FALSE)
<1> USE DEF InputInv
<1>1. /\ ui \in Interfaces /\ ui.todo \in Seq(Calls) /\ stop \in BOOLEAN /\ current \in BOOLEAN
  BY DEF InputTypes, Interfaces
<1>2. /\ Tail(ui.todo) \in Seq(Calls) /\ Head(ui.todo) = ui.todo[1] /\ 1 \in 1 .. Len(ui.todo)
      /\ Len(Tail(ui.todo)) = Len(ui.todo) - 1 /\ Len(ui.todo) \in Nat /\ Len(ui.todo) # 0
  BY <1>1
<1>3. CallInv(1, Head(ui.todo))
  BY <1>2 DEF TodoInv
<1> QED
  BY <1>1, <1>2, <1>3 DEF Next1, Interfaces, StopInv

LEMMA AdmitReliableKeeps ==
  ASSUME InputInv, AdmitReliable
  PROVE  InputInv'
<1> DEFINE c == Head(ui.todo)
<1>1. ui.sending = Unsent /\ ui.todo # <<>> /\ c.op = "reliable"
  BY DEF AdmitReliable, Doing
<1>2. /\ ui \in Interfaces /\ ui.todo \in Seq(Calls) /\ c.job \in InputJobs
      /\ Next1 \in Interfaces /\ Next1.todo = Tail(ui.todo) /\ Next1.gesture = ui.gesture
      /\ Next1.open = ui.open /\ Next1.forgot = ui.forgot /\ Next1.sending = ui.sending
      /\ Next1.moved = ui.moved /\ Next1.held = ui.held /\ stop \in BOOLEAN /\ (stop /\ Lives => FALSE)
  BY <1>1, CallIs DEF CallInv
<1>3. UNCHANGED <<channel, motion, stop, current, workerVars>>
  BY DEF AdmitReliable
<1>4. CASE current /\ queued < MaxReliable /\ ~stop
  <2>1. ui' = [ui EXCEPT !.sending = Counted(c.job)] /\ queued' = queued + 1
    BY <1>4 DEF AdmitReliable
  <2>2. Counted(c.job) \in Entries /\ Counted(c.job).counted /\ Counted(c.job).job = c.job
    BY <1>2 DEF Counted, Entries
  <2>3. queued' = queued + (IF Counted(c.job).counted THEN 1 ELSE 0)
    BY <2>1, <2>2
  <2> QED
    BY <1>1, <1>3, <2>1, <2>2, <2>3, AdmitKeeps
<1>5. CASE ~(current /\ queued < MaxReliable /\ ~stop)
  <2>1. ui' = Refused(c.job) /\ queued' = queued
    BY <1>5 DEF AdmitReliable
  <2>2. /\ ui' \in Interfaces /\ ui'.todo = Tail(ui.todo) /\ ui'.gesture = ui.gesture
        /\ ui'.open = ui.open /\ ui'.forgot = ui.forgot /\ ui'.sending = Unsent /\ ui'.moved = ui.moved
        /\ \/ ui'.held = ui.held
           \/ Pressing /\ ~ui'.held["touch"]
                /\ \A d \in Devices \ {"touch"} : ui'.held[d] = ui.held[d]
    <3>1. CASE c.job.dev = "touch" /\ c.job.held
      <4>1. Pressing
        BY <1>1, <3>1 DEF Pressing, Contact, Presses
      <4> DEFINE h == [ui.held EXCEPT !["touch"] = FALSE]
      <4>2. /\ h \in [Devices -> BOOLEAN] /\ ~h["touch"]
            /\ \A d \in Devices \ {"touch"} : h[d] = ui.held[d]
        BY <1>2 DEF Interfaces, Devices
      <4>3. ui' = [Next1 EXCEPT !.held = h]
        BY <1>2, <2>1, <3>1 DEF Refused, Interfaces
      <4> HIDE DEF h
      <4> QED
        BY <1>1, <1>2, <4>1, <4>2, <4>3 DEF Interfaces
    <3>2. CASE ~(c.job.dev = "touch" /\ c.job.held)
      BY <1>1, <1>2, <2>1, <3>2 DEF Refused
    <3> QED
      BY <3>1, <3>2
  <2> QED
    BY <1>1, <1>2, <1>3, <2>1, <2>2, PopKeeps DEF workerVars
<1> QED
  BY <1>4, <1>5

LEMMA AdmitCriticalKeeps ==
  ASSUME InputInv, AdmitCritical
  PROVE  InputInv'
<1> DEFINE c == Head(ui.todo)
<1>1. ui.sending = Unsent /\ ui.todo # <<>> /\ c.op = "critical"
  BY DEF AdmitCritical, Doing
<1>2. /\ ui \in Interfaces /\ ui.todo \in Seq(Calls) /\ c.job \in InputJobs
      /\ Next1 \in Interfaces /\ Next1.todo = Tail(ui.todo) /\ Next1.gesture = ui.gesture
      /\ Next1.open = ui.open /\ Next1.forgot = ui.forgot /\ Next1.sending = ui.sending
      /\ Next1.moved = ui.moved /\ Next1.held = ui.held /\ stop \in BOOLEAN /\ (stop /\ Lives => FALSE)
  BY <1>1, CallIs DEF CallInv
<1>3. UNCHANGED <<channel, queued, motion, stop, current, worker, guest>>
      /\ lost' = IF current THEN lost ELSE lost \cup {c.job.dev}
  BY DEF AdmitCritical, queueVars, Lose
<1>4. CASE current /\ ~stop
  <2>1. ui' = [ui EXCEPT !.sending = Uncounted(c.job)]
    BY <1>4 DEF AdmitCritical
  <2>2. Uncounted(c.job) \in Entries /\ ~Uncounted(c.job).counted /\ Uncounted(c.job).job = c.job
    BY <1>2 DEF Uncounted, Entries
  <2>3. queued' = queued + (IF Uncounted(c.job).counted THEN 1 ELSE 0)
    BY <1>3, <2>2 DEF InputInv, InputTypes
  <2> QED
    BY <1>1, <1>3, <1>4, <2>1, <2>2, <2>3, AdmitKeeps DEF workerVars
<1>5. CASE ~(current /\ ~stop)
  <2>1. ui' = Next1
    BY <1>5 DEF AdmitCritical
  <2>2. c.job.dev \in lost' \/ ~Lives
    BY <1>2, <1>3, <1>5
  <2> QED
    BY <1>1, <1>2, <1>3, <2>1, <2>2, PopKeeps
<1> QED
  BY <1>4, <1>5

LEMMA FlushMotionKeeps ==
  ASSUME InputInv, FlushMotion
  PROVE  InputInv'
<1> DEFINE c == Head(ui.todo)
<1>1. ui.sending = Unsent /\ ui.todo # <<>> /\ c.op = "flush"
  BY DEF FlushMotion, Doing
<1>2. /\ ui \in Interfaces /\ ui.todo \in Seq(Calls) /\ motion \in InputJobs \cup {NoJob}
      /\ Next1 \in Interfaces /\ Next1.todo = Tail(ui.todo) /\ Next1.gesture = ui.gesture
      /\ Next1.open = ui.open /\ Next1.forgot = ui.forgot /\ Next1.sending = ui.sending
      /\ Next1.moved = ui.moved /\ Next1.held = ui.held /\ stop \in BOOLEAN /\ (stop /\ Lives => FALSE)
  BY <1>1, CallIs DEF InputInv, InputTypes
<1>3. /\ UNCHANGED <<channel, queued, stop, current, worker, guest>> /\ motion' = NoJob
      /\ lost' = IF motion = NoJob \/ current THEN lost ELSE lost \cup {motion.dev}
  BY DEF FlushMotion, Lose
<1>4. CASE motion # NoJob /\ current /\ ~stop
  <2>1. ui' = [ui EXCEPT !.sending = Uncounted(motion)]
    BY <1>4 DEF FlushMotion
  <2>2. Uncounted(motion) \in Entries /\ ~Uncounted(motion).counted /\ Uncounted(motion).job = motion
    BY <1>2, <1>4 DEF Uncounted, Entries
  <2>3. queued' = queued + (IF Uncounted(motion).counted THEN 1 ELSE 0)
    BY <1>3, <2>2 DEF InputInv, InputTypes
  <2> QED
    BY <1>1, <1>3, <1>4, <2>1, <2>2, <2>3, AdmitKeeps DEF workerVars
<1>5. CASE ~(motion # NoJob /\ current /\ ~stop)
  <2>1. ui' = Next1
    BY <1>5 DEF FlushMotion
  <2>2. Contact(motion) => "touch" \in lost' \/ ~Lives
    <3>1. ~Contact(NoJob)
      BY DEF Contact, Presses, NoJob
    <3> QED
      BY <1>2, <1>3, <1>5, <3>1 DEF Contact, Presses
  <2> QED
    BY <1>1, <1>2, <1>3, <2>1, <2>2, PopKeeps
<1> QED
  BY <1>4, <1>5

LEMMA ClearMotionKeeps ==
  ASSUME InputInv, ClearMotion
  PROVE  InputInv'
<1>1. ui.todo # <<>> /\ Head(ui.todo).op = "clear"
  BY DEF ClearMotion, Doing
<1>2. ui.sending = Unsent
  BY <1>1 DEF InputInv, SendingInv
<1>3. /\ Next1 \in Interfaces /\ Next1.todo = Tail(ui.todo) /\ Next1.gesture = ui.gesture
      /\ Next1.open = ui.open /\ Next1.forgot = ui.forgot /\ Next1.sending = ui.sending
      /\ Next1.held = ui.held /\ stop \in BOOLEAN /\ (stop /\ Lives => FALSE)
  BY <1>1, CallIs
<1>4. UNCHANGED <<channel, queued, stop, current, worker, guest, lost>> /\ motion' = NoJob
      /\ ui' = [Next1 EXCEPT !.moved = 0]
  BY DEF ClearMotion, workerVars
<1>5. /\ ui' \in Interfaces /\ ui'.todo = Tail(ui.todo) /\ ui'.gesture = ui.gesture
      /\ ui'.open = ui.open /\ ui'.sending = Unsent /\ ui'.moved = 0 /\ ui'.held = ui.held
  BY <1>2, <1>3, <1>4 DEF Interfaces
<1> QED
  BY <1>1, <1>2, <1>3, <1>4, <1>5, PopKeeps

LEMMA StopWorkerKeeps ==
  ASSUME InputInv, StopWorker
  PROVE  InputInv'
<1>1. ui.todo # <<>> /\ Head(ui.todo).op = "stop"
  BY DEF StopWorker, Doing
<1>2. ui.sending = Unsent
  BY <1>1 DEF InputInv, SendingInv
<1>3. /\ Next1 \in Interfaces /\ Next1.todo = Tail(ui.todo) /\ Next1.gesture = ui.gesture
      /\ Next1.open = ui.open /\ Next1.forgot = ui.forgot /\ Next1.sending = ui.sending /\ Next1.moved = ui.moved
      /\ Next1.held = ui.held
  BY <1>1, CallIs
<1>4. UNCHANGED <<channel, queued, motion, current, worker, guest, lost>> /\ stop' = TRUE
      /\ ui' = Next1
  BY DEF StopWorker, workerVars
<1>5. ui'.todo = <<>> /\ ~ui.open
  <2>1. /\ ui.todo \in Seq(Calls) /\ CallInv(1, Head(ui.todo)) /\ Len(Tail(ui.todo)) = Len(ui.todo) - 1
        /\ Tail(ui.todo) \in Seq(Calls) /\ Len(ui.todo) \in Nat
    BY <1>1, CallIs
  <2>2. Len(ui.todo) = 1 /\ ~ui.open
    BY <1>1, <2>1 DEF CallInv
  <2>3. Len(Tail(ui.todo)) = 0
    BY <2>1, <2>2
  <2>4. Tail(ui.todo) = <<>>
    <3>1. \A s \in Seq(Calls) : Len(s) = 0 => s = <<>>
      OBVIOUS
    <3> QED
      BY <2>1, <2>3, <3>1
  <2> QED
    BY <1>3, <1>4, <2>2, <2>4
<1> QED
  BY <1>1, <1>2, <1>3, <1>4, <1>5, PopKeeps

LEMMA DispatchKeeps ==
  ASSUME InputInv, Dispatch
  PROVE  InputInv'
BY AdmitReliableKeeps, AdmitCriticalKeeps, FlushMotionKeeps, SendReliableKeeps,
   ReplaceKeeps, ClearMotionKeeps, StopWorkerKeeps DEF Dispatch

-----------------------------------------------------------------------------
(* Handlers.                                                                *)

LEMMA ExcusedStays ==
  ASSUME lost' = lost, ui'.forgot = ui.forgot
  PROVE  Excused \subseteq Excused'
BY DEF Excused, Forgotten

\* A handler that releases d calls a release of d, one that ends a touch or a
\* right press takes its motion out of the slot first, and a touch begins with
\* a gesture of its own.
LEMMA HandlerKeeps ==
  ASSUME InputInv, ui.open, ui.todo = <<>>, ui.sending = Unsent,
         UNCHANGED <<channel, queued, motion, stop, current, worker, guest>>, lost \subseteq lost',
         ui' \in Interfaces, ui'.sending = Unsent, TodoInv',
         \A d \in Devices : ui.held[d] /\ ~ui'.held[d] => d \in Excused' \/ Releasing(d)',
         \A d \in Devices : d \in Excused => d \in Excused' \/ ui'.held[d] \/ Releasing(d)',
         \A d \in {"touch", "right"} : ui.held[d] /\ ~ui'.held[d] =>
           ui'.todo # <<>> /\ Head(ui'.todo).op \in {"flush", "clear"},
         Pressing' => ~ui.held["touch"],
         ui'.gesture \in {ui.gesture, ui.gesture + 1},
         ui'.held["touch"] =>
           IF ui.held["touch"] THEN ui'.gesture = ui.gesture /\ ui'.moved = ui.moved
                               ELSE ui'.gesture = ui.gesture + 1 /\ ui'.moved = 0,
         \A i \in 1 .. Len(ui'.todo) :
           ui'.todo[i].op = "critical" /\ ui'.todo[i].job.dev = "touch" =>
             \/ ui'.todo[i].job.after = 0
             \/ Head(ui'.todo).op = "flush" /\ ui.held["touch"]
                  /\ ui'.todo[i].job.after = ui.moved
  PROVE  InputInv'
<1> USE DEF InputInv
<1>1. /\ ui \in Interfaces /\ ui.gesture \in Nat /\ ui'.gesture \in Nat /\ guest.moved \in Nat
      /\ motion \in InputJobs \cup {NoJob} /\ guest.ended \in Nat
      /\ \A d \in Devices : ui.held[d] \in BOOLEAN
  BY DEF InputTypes, Interfaces, GuestRecords
<1>2. Unsent.job = NoJob /\ ~Contact(NoJob) /\ ~Lift(NoJob) /\ "touch" \in Devices
  BY DEF Unsent, NoJob, Contact, Presses, Lift, Lifts, Devices
<1>3. \A d : ~Releasing(d)
  BY DEF Releasing
<1>4. InputTypes' /\ CountMatchesQueue'
  BY DEF InputTypes, CountMatchesQueue
<1>5. StopInv' /\ SendingInv' /\ PromotedInv'
  BY DEF StopInv, SendingInv, PromotedInv, Lives
<1>6. MotionInv'
  <2> SUFFICES ASSUME motion # NoJob PROVE MotionInv'
    BY DEF MotionInv
  <2>1. /\ motion.dev \in {"touch", "right"} /\ (motion.dev = "touch" => motion.held)
        /\ motion.held => ui.held[motion.dev]
    BY DEF MotionInv
  <2>2. "right" \in Devices
    BY DEF Devices
  <2>3. motion.held /\ ui'.held[motion.dev] => ~(motion.dev = "touch" /\ Pressing')
    BY <2>1
  <2>4. motion.held /\ ~ui'.held[motion.dev] =>
          /\ ui'.todo # <<>> /\ Head(ui'.todo).op \in {"flush", "clear"}
          /\ motion.dev \in Excused' \/ Releasing(motion.dev)'
    BY <1>2, <2>1, <2>2
  <2>5. motion.held => \A d : d = motion.dev =>
         \/ ui'.held[d] /\ ~(d = "touch" /\ Pressing')
         \/ /\ ui'.todo # <<>> /\ Head(ui'.todo).op \in {"flush", "clear"}
            /\ d \in Excused' \/ Releasing(d)'
    BY <1>2, <2>1, <2>2, <2>3, <2>4
  <2> QED
    BY <2>1, <2>5 DEF MotionInv
<1>7. HoldInv'
  <2> SUFFICES ASSUME Lives, NEW d \in Devices \ Excused', ~ui'.held[d] \/ (d = "touch" /\ Pressing')
               PROVE  Releasing(d)' \/ Covered(d)'
    BY DEF HoldInv, Lives
  <2>0. d \in Excused => d # "touch" /\ (ui'.held[d] \/ Releasing(d)')
    BY DEF Excused, Forgotten
  <2>1. CASE ui.held[d]
    BY <2>1
  <2>2. CASE ~ui.held[d]
    <3>1. d \in Excused => Releasing(d)'
      BY <2>0
    <3>2. d \notin Excused => Covered(d)
      BY <1>3, <2>2 DEF HoldInv
    <3> QED
      BY <3>1, <3>2 DEF Covered, LiftComes, Presses, Lifts
  <2> QED
    BY <2>1, <2>2
<1>8. GestureInv'
  <2>1. \A g : Over(g) => Over(g)'
    BY DEF Over, Lift, Lifts
  <2>2. \A i, g : AheadBelow(i, g) => AheadBelow(i, g)'
    BY DEF AheadBelow, Lift, Lifts
  <2>3. \A g \in Nat : Over(g) => Over(g + 1)
    <3> SUFFICES ASSUME NEW g \in Nat, Over(g) PROVE Over(g + 1)
      OBVIOUS
    <3>1. \A j \in InputJobs : j.gesture \in Nat
      BY DEF InputJobs
    <3>2. channel \in Seq(Entries) /\ worker.job \in InputJobs \cup {NoJob}
      BY DEF InputTypes, WorkerRecords
    <3>3. \A i \in 1 .. Len(channel) : channel[i].job.gesture \in Nat
      <4> SUFFICES ASSUME NEW i \in 1 .. Len(channel) PROVE channel[i].job.gesture \in Nat
        OBVIOUS
      <4>1. channel[i] \in Entries
        BY <3>2
      <4> QED
        BY <4>1 DEF Entries, InputJobs
    <3>4. Lift(worker.job) => worker.job.gesture \in Nat
      BY <1>2, <3>1, <3>2
    <3> QED
      BY <1>1, <1>2, <3>3, <3>4 DEF Over
  <2>4. Over(ui.gesture + 1) /\ (ui.held["touch"] => Over(ui.gesture))
    BY DEF GestureInv
  <2>5. \A g : g = ui'.gesture + 1 => Over(g)'
    BY <1>1, <2>1, <2>3, <2>4
  <2>6. ui'.held["touch"] => \A g : g = ui'.gesture => Over(g)'
    BY <2>1, <2>4
  <2>7. Contact(motion) => \A g : g = motion.gesture => Over(g)'
    BY <2>1 DEF GestureInv
  <2>8. \A i \in 1 .. Len(channel) : \A g :
          Contact(channel[i].job) /\ g = channel[i].job.gesture => AheadBelow(i, g)'
    BY <2>2 DEF GestureInv
  <2>9. Contact(worker.job) => guest.ended < worker.job.gesture
    BY DEF GestureInv
  <2> QED
    BY <1>2, <2>5, <2>6, <2>7, <2>8, <2>9 DEF GestureInv, Contact, Presses
<1>9. MoveInv'
  <2> SUFFICES ASSUME Lives, "touch" \notin lost' PROVE MoveInv'
    BY DEF MoveInv, Lives
  <2>1. \A i, n : BroughtBefore(i, n) => BroughtBefore(i, n)'
    BY DEF BroughtBefore, Contact, Presses
  <2>2. \A n : Brought(n) => Brought(n)'
    BY <2>1 DEF Brought
  <2>3. \A n : Carried(n) => Carried(n)'
    BY <1>2, <2>2 DEF Carried, Contact, Presses
  <2>4. Brought(0)' /\ Carried(0)'
    BY <1>1 DEF Carried, Brought, BroughtBefore
  <2>5. ui.held["touch"] => Carried(ui.moved)
    BY DEF MoveInv
  <2>6. ui'.held["touch"] => \A n : n = ui'.moved => Carried(n)'
    BY <2>3, <2>4, <2>5
  <2>7. \A i \in 1 .. Len(ui'.todo) : \A n :
          ui'.todo[i].op = "critical" /\ ui'.todo[i].job.dev = "touch"
             /\ n = ui'.todo[i].job.after =>
               IF Head(ui'.todo).op = "flush" THEN Carried(n)' ELSE Brought(n)'
    BY <2>3, <2>4, <2>5
  <2>8. \A i \in 1 .. Len(channel) : \A n :
          Lift(channel[i].job) /\ n = channel[i].job.after => BroughtBefore(i, n)'
    BY <2>1 DEF MoveInv
  <2>9. Lift(worker.job) => guest.moved >= worker.job.after
    BY DEF MoveInv
  <2> QED
    BY <1>2, <2>6, <2>7, <2>8, <2>9 DEF MoveInv, Lift, Lifts
<1> QED
  BY <1>4, <1>5, <1>6, <1>7, <1>8, <1>9

LEMMA JobIs ==
  ASSUME ui \in Interfaces, NEW dev \in Devices \cup {"text"}, NEW held \in BOOLEAN,
         NEW after \in Nat
  PROVE  /\ Job(dev, held, after) \in InputJobs
         /\ Job(dev, held, after).dev = dev /\ Job(dev, held, after).held = held
         /\ Job(dev, held, after).after = after
         /\ dev = "touch" => Job(dev, held, after).gesture = ui.gesture
<1>1. ui.clock + 1 \in Nat /\ ui.gesture \in Nat /\ 0 \in Nat
  BY DEF Interfaces
<1> DEFINE at == IF dev = "touch" THEN ui.clock + 1 ELSE 0
           gesture == IF dev = "touch" THEN ui.gesture ELSE 0
<1>2. at \in Nat /\ gesture \in Nat /\ (dev = "touch" => gesture = ui.gesture)
  BY <1>1
<1>3. Job(dev, held, after) =
        [dev |-> dev, held |-> held, at |-> at, gesture |-> gesture, after |-> after]
  BY DEF Job
<1> HIDE DEF at, gesture
<1> QED
  BY <1>2, <1>3 DEF InputJobs

LEMMA HandleIs ==
  ASSUME InputInv, NEW changed \in Interfaces, NEW calls \in Seq(Calls), Handle(changed, calls)
  PROVE  /\ ui.open /\ ui.todo = <<>> /\ ui.sending = Unsent
         /\ UNCHANGED <<channel, queued, motion, stop, current, worker, guest, lost>>
         /\ ui' \in Interfaces /\ ui'.todo = calls /\ ui'.held = changed.held
         /\ ui'.sending = changed.sending /\ ui'.gesture = changed.gesture
         /\ ui'.moved = changed.moved /\ ui'.open = changed.open /\ ui'.forgot = changed.forgot
<1>1. /\ ui.open /\ ui.todo = <<>> /\ ui.sending = Unsent
      /\ UNCHANGED <<channel, queued, motion, stop, current, worker, guest, lost>>
  BY DEF Handle, queueVars, workerVars
<1>2. ui' = [changed EXCEPT !.clock = changed.clock + 1, !.todo = calls]
  BY DEF Handle, Interfaces
<1>3. changed.clock + 1 \in Nat
  BY DEF Interfaces
<1> QED
  BY <1>1, <1>2, <1>3 DEF Interfaces

\* A release of dev and the calls that go before it.
LEMMA CallsAre ==
  ASSUME ui \in Interfaces, NEW dev \in Devices, NEW after \in Nat
  PROVE  /\ Flush \in Calls /\ Clear \in Calls /\ Call("stop", NoJob) \in Calls
         /\ Flush.op = "flush" /\ Clear.op = "clear" /\ Call("stop", NoJob).op = "stop"
         /\ Call("critical", Job(dev, FALSE, after)) \in Calls
         /\ Call("critical", Job(dev, FALSE, after)).op = "critical"
         /\ Call("critical", Job(dev, FALSE, after)).job = Job(dev, FALSE, after)
         /\ Release(dev, after) = <<Call("critical", Job(dev, FALSE, after))>>
<1>1. Job(dev, FALSE, after) \in InputJobs
  BY JobIs
<1> HIDE DEF Job
<1>2. \A op, job : Call(op, job).op = op /\ Call(op, job).job = job
  BY DEF Call
<1>3. /\ Call("flush", NoJob) \in Calls /\ Call("clear", NoJob) \in Calls
      /\ Call("stop", NoJob) \in Calls
      /\ Call("critical", Job(dev, FALSE, after)) \in Calls
  BY <1>1 DEF Call, Calls
<1> QED
  BY <1>2, <1>3 DEF Flush, Clear, Release

Elems(s) == {s[i] : i \in 1 .. Len(s)}

LEMMA ElemsOfOne ==
  ASSUME NEW c \in Calls
  PROVE  /\ <<c>> \in Seq(Calls) /\ <<c>> # <<>> /\ Head(<<c>>) = c /\ Elems(<<c>>) = {c}
         /\ <<>> \in Seq(Calls) /\ Elems(<<>>) = {}
BY DEF Elems

LEMMA ElemsOfConcat ==
  ASSUME NEW s \in Seq(Calls), NEW t \in Seq(Calls)
  PROVE  /\ s \o t \in Seq(Calls) /\ Elems(s \o t) = Elems(s) \cup Elems(t)
         /\ s # <<>> => s \o t # <<>> /\ Head(s \o t) = Head(s)
<1>1. /\ s \o t \in Seq(Calls) /\ Len(s) \in Nat /\ Len(t) \in Nat
      /\ Len(s \o t) = Len(s) + Len(t)
      /\ \A i \in 1 .. Len(s) : (s \o t)[i] = s[i]
      /\ \A i \in 1 .. Len(t) : (s \o t)[Len(s) + i] = t[i]
  OBVIOUS
<1>2. Elems(s \o t) \subseteq Elems(s) \cup Elems(t)
  <2> SUFFICES ASSUME NEW i \in 1 .. Len(s \o t)
               PROVE  (s \o t)[i] \in Elems(s) \cup Elems(t)
    BY DEF Elems
  <2>1. CASE i <= Len(s)
    BY <1>1, <2>1 DEF Elems
  <2>2. CASE ~(i <= Len(s))
    <3>1. PICK k \in 1 .. Len(t) : i = Len(s) + k
      <4>1. i - Len(s) \in 1 .. Len(t) /\ i = Len(s) + (i - Len(s))
        BY <1>1, <2>2
      <4> QED
        BY <4>1
    <3> QED
      BY <1>1, <3>1 DEF Elems
  <2> QED
    BY <2>1, <2>2
<1>3. \A e \in Elems(s) : e \in Elems(s \o t)
  <2> SUFFICES ASSUME NEW i \in 1 .. Len(s) PROVE s[i] \in Elems(s \o t)
    BY DEF Elems
  <2>1. i \in 1 .. Len(s \o t) /\ (s \o t)[i] = s[i]
    BY <1>1
  <2> QED
    BY <2>1 DEF Elems
<1>4. \A e \in Elems(t) : e \in Elems(s \o t)
  <2> SUFFICES ASSUME NEW i \in 1 .. Len(t) PROVE t[i] \in Elems(s \o t)
    BY DEF Elems
  <2>1. Len(s) + i \in 1 .. Len(s \o t) /\ (s \o t)[Len(s) + i] = t[i]
    BY <1>1
  <2> QED
    BY <2>1 DEF Elems
<1>5. s # <<>> => s \o t # <<>> /\ Head(s \o t) = Head(s)
  <2> SUFFICES ASSUME s # <<>> PROVE s \o t # <<>> /\ Head(s \o t) = Head(s)
    OBVIOUS
  <2>1. Len(s) >= 1 /\ Len(s \o t) >= 1 /\ 1 \in 1 .. Len(s)
    BY <1>1
  <2>2. Head(s \o t) = (s \o t)[1] /\ Head(s) = s[1]
    BY <1>1, <2>1
  <2> QED
    BY <1>1, <2>1, <2>2
<1> QED
  BY <1>1, <1>2, <1>3, <1>4, <1>5

\* A release of d.
ReleaseOf(d, k) == Call("critical", Job(d, FALSE, k))

LEMMA ReleaseIs ==
  ASSUME ui \in Interfaces, NEW d \in Devices, NEW k \in Nat, NEW c,
         c = ReleaseOf(d, k)
  PROVE  /\ c \in Calls /\ c.op = "critical" /\ c.job \in InputJobs /\ c.job.dev = d
         /\ ~c.job.held /\ c.job.after = k /\ (d = "touch" => c.job.gesture = ui.gesture)
<1>1. ui.clock + 1 \in Nat /\ ui.gesture \in Nat /\ 0 \in Nat
  BY DEF Interfaces
<1> DEFINE at == IF d = "touch" THEN ui.clock + 1 ELSE 0
           gesture == IF d = "touch" THEN ui.gesture ELSE 0
           job == [dev |-> d, held |-> FALSE, at |-> at, gesture |-> gesture, after |-> k]
<1>2. at \in Nat /\ gesture \in Nat /\ (d = "touch" => gesture = ui.gesture)
  BY <1>1
<1>3. Job(d, FALSE, k) = job
  BY DEF Job
<1> HIDE DEF at, gesture
<1>4. /\ job \in InputJobs /\ job.dev = d /\ ~job.held /\ job.after = k
      /\ d = "touch" => job.gesture = ui.gesture
  BY <1>2 DEF InputJobs
<1>5. c = [op |-> "critical", job |-> job]
  BY <1>3 DEF Call, ReleaseOf
<1> HIDE DEF job
<1>6. c \in Calls
  BY <1>4, <1>5 DEF Calls
<1>7. c.op = "critical" /\ c.job = job
  BY <1>5
<1> QED
  BY <1>4, <1>6, <1>7

\* A handler that only releases.
LEMMA ReleasesKeep ==
  ASSUME InputInv, ui.open, ui.todo = <<>>, ui.sending = Unsent,
         UNCHANGED <<channel, queued, motion, stop, current, worker, guest>>, lost \subseteq lost',
         ui' \in Interfaces, ui'.sending = Unsent, ui'.gesture = ui.gesture, ui'.moved = ui.moved,
         \A d \in Devices : ui'.held[d] => ui.held[d],
         \A d \in Devices : ui.held[d] /\ ~ui'.held[d] =>
           d \in Excused' \/ \E k \in Nat : ReleaseOf(d, k) \in Elems(ui'.todo),
         \A d \in Devices : d \in Excused =>
           d \in Excused' \/ \E k \in Nat : ReleaseOf(d, k) \in Elems(ui'.todo),
         \A d \in {"touch", "right"} : ui.held[d] /\ ~ui'.held[d] =>
           ui'.todo # <<>> /\ Head(ui'.todo) \in {Flush, Clear},
         \A i \in 1 .. Len(ui'.todo) :
           \/ ui'.todo[i] = Clear
           \/ ui'.todo[i] = Flush /\ i = 1
           \/ ui'.todo[i] = Call("stop", NoJob) /\ i = Len(ui'.todo) /\ ~ui'.open
           \/ \E d \in Devices, k \in Nat :
                /\ ui'.todo[i] = ReleaseOf(d, k) /\ ~ui'.held[d]
                /\ d = "touch" => k = 0 \/ ( /\ Head(ui'.todo).op = "flush" /\ ui.held["touch"]
                                              /\ k = ui.moved )
  PROVE  InputInv'
<1>1. ui \in Interfaces /\ ui'.todo \in Seq(Calls)
  BY DEF InputInv, InputTypes, Interfaces
<1>2. "touch" \in Devices /\ "right" \in Devices
  BY DEF Devices
<1>3. ASSUME NEW d \in Devices, NEW k \in Nat, NEW c, c = ReleaseOf(d, k)
      PROVE  /\ c.op = "critical" /\ c.job \in InputJobs /\ c.job.dev = d /\ ~c.job.held
             /\ c.job.after = k /\ (d = "touch" => c.job.gesture = ui.gesture)
  BY <1>1, <1>3, ReleaseIs
<1>4. Flush.op = "flush" /\ Clear.op = "clear" /\ Call("stop", NoJob).op = "stop"
  BY DEF Flush, Clear, Call
<1>5. ASSUME NEW i \in 1 .. Len(ui'.todo)
      PROVE  /\ \A c : c = ui'.todo[i] => CallInv(i, c)'
             /\ ui'.todo[i].op # "reliable"
             /\ ui'.todo[i].op = "critical" /\ ui'.todo[i].job.dev = "touch" =>
                  \/ ui'.todo[i].job.after = 0
                  \/ Head(ui'.todo).op = "flush" /\ ui.held["touch"]
                       /\ ui'.todo[i].job.after = ui.moved
  <2>1. CASE ui'.todo[i] = Clear \/ (ui'.todo[i] = Flush /\ i = 1)
    BY <1>4, <2>1 DEF CallInv
  <2>2. CASE ui'.todo[i] = Call("stop", NoJob) /\ i = Len(ui'.todo) /\ ~ui'.open
    BY <1>4, <2>2 DEF CallInv
  <2>3. ASSUME NEW d \in Devices, NEW k \in Nat,
               ui'.todo[i] = ReleaseOf(d, k), ~ui'.held[d],
               d = "touch" => k = 0 \/ ( /\ Head(ui'.todo).op = "flush" /\ ui.held["touch"]
                                             /\ k = ui.moved )
        PROVE  /\ \A c : c = ui'.todo[i] => CallInv(i, c)'
               /\ ui'.todo[i].op # "reliable"
               /\ ui'.todo[i].op = "critical" /\ ui'.todo[i].job.dev = "touch" =>
                    \/ ui'.todo[i].job.after = 0
                    \/ Head(ui'.todo).op = "flush" /\ ui.held["touch"]
                         /\ ui'.todo[i].job.after = ui.moved
    <3>1. /\ ui'.todo[i].op = "critical" /\ ui'.todo[i].job \in InputJobs
          /\ ui'.todo[i].job.dev = d /\ ~ui'.todo[i].job.held /\ ui'.todo[i].job.after = k
          /\ d = "touch" => ui'.todo[i].job.gesture = ui'.gesture
      BY <1>3, <2>3
    <3>2. \A c : c = ui'.todo[i] => CallInv(i, c)'
      BY <2>3, <3>1 DEF CallInv
    <3> QED
      BY <2>3, <3>1, <3>2
  <2> QED
    BY <2>1, <2>2, <2>3
<1>6. TodoInv'
  BY <1>5 DEF TodoInv
<1>7. ~Pressing'
  <2> SUFFICES ASSUME Pressing' PROVE FALSE
    OBVIOUS
  <2>1. Head(ui'.todo) = ui'.todo[1] /\ 1 \in 1 .. Len(ui'.todo)
    BY <1>1 DEF Pressing
  <2> QED
    BY <2>1, <1>5 DEF Pressing
<1>8. \A d \in Devices : (ui.held[d] /\ ~ui'.held[d]) \/ d \in Excused =>
        d \in Excused' \/ Releasing(d)'
  <2> SUFFICES ASSUME NEW d \in Devices, (ui.held[d] /\ ~ui'.held[d]) \/ d \in Excused,
                      d \notin Excused'
               PROVE  Releasing(d)'
    OBVIOUS
  <2>1. PICK k \in Nat : ReleaseOf(d, k) \in Elems(ui'.todo)
    OBVIOUS
  <2>2. PICK i \in 1 .. Len(ui'.todo) : ui'.todo[i] = ReleaseOf(d, k)
    BY <2>1 DEF Elems
  <2>3. ui'.todo[i].op = "critical" /\ ui'.todo[i].job.dev = d
    BY <1>3, <2>2
  <2> QED
    BY <2>3 DEF Releasing
<1>9. \A d \in {"touch", "right"} : ui.held[d] /\ ~ui'.held[d] =>
        ui'.todo # <<>> /\ Head(ui'.todo).op \in {"flush", "clear"}
  BY <1>2, <1>4
<1> QED
  BY <1>2, <1>5, <1>6, <1>7, <1>8, <1>9, HandlerKeeps

LEMMA TwoCalls ==
  ASSUME NEW a \in Calls
  PROVE  <<a>> \o <<>> = <<a>> /\ \A b \in Calls : <<a>> \o <<b>> = <<a, b>>
<1>1. <<a>> \o <<>> = <<a>>
  OBVIOUS
<1>2. ASSUME NEW b \in Calls PROVE <<a>> \o <<b>> = <<a, b>>
  <2> DEFINE s == <<a>> \o <<b>>
             t == <<a, b>>
  <2>1. s \in Seq(Calls) /\ t \in Seq(Calls) /\ Len(s) = 2 /\ Len(t) = 2
    OBVIOUS
  <2>2. s[1] = a /\ s[2] = b /\ t[1] = a /\ t[2] = b
    OBVIOUS
  <2> HIDE DEF s, t
  <2>3. s = t
    BY <2>1, <2>2, SeqEqual
  <2> QED
    BY <2>3 DEF s, t
<1> QED
  BY <1>1, <1>2

\* Releasing d behind a call that takes the motion out of the slot.
LEMMA OneReleaseKeeps ==
  ASSUME InputInv, NEW x \in {Flush, Clear}, NEW d \in {"touch", "right"}, NEW k \in Nat,
         NEW r, r = ReleaseOf(d, k), NEW s, s \in {<<>>, <<r>>},
         ui.open, ui.todo = <<>>, ui.sending = Unsent,
         UNCHANGED <<channel, queued, motion, stop, current, worker, guest>>, lost \subseteq lost',
         ui' \in Interfaces, ui'.sending = Unsent, ui'.gesture = ui.gesture, ui'.moved = ui.moved,
         ui'.todo = <<x>> \o s, ui'.held = [ui.held EXCEPT ![d] = FALSE],
         ui.held[d] \/ d \in Excused => d \in Excused' \/ s = <<r>>,
         \A e \in Devices : e # d /\ e \in Excused => e \in Excused',
         k = 0 \/ d = "right" \/ (x = Flush /\ (s = <<>> \/ ui.held["touch"]) /\ k = ui.moved)
  PROVE  InputInv'
<1>1. ui \in Interfaces /\ ui.held \in [Devices -> BOOLEAN] /\ d \in Devices
  BY DEF InputInv, InputTypes, Interfaces, Devices
<1>2. r \in Calls /\ r.op = "critical" /\ x \in Calls /\ Flush.op = "flush"
  <2>1. r \in Calls /\ r.op = "critical"
    BY <1>1, ReleaseIs
  <2>2. Flush \in Calls /\ Clear \in Calls /\ Flush.op = "flush"
    BY <1>1, CallsAre
  <2> QED
    BY <2>1, <2>2
<1>3. /\ \A e \in Devices : ui'.held[e] => ui.held[e]
      /\ \A e \in Devices : ui.held[e] /\ ~ui'.held[e] => e = d
      /\ ~ui'.held[d]
  BY <1>1
<1>4. CASE s = <<>>
  <2>1. ui'.todo = <<x>>
    BY <1>2, <1>4, TwoCalls
  <2>2. ui'.todo # <<>> /\ Head(ui'.todo) = x /\ Len(ui'.todo) = 1 /\ ui'.todo[1] = x
    BY <2>1, <1>2
  <2>3. ui.held[d] \/ d \in Excused => d \in Excused'
    <3>1. <<r>> # <<>>
      OBVIOUS
    <3> QED
      BY <1>4, <3>1
  <2>4. \A i \in 1 .. Len(ui'.todo) :
          ui'.todo[i] = Clear \/ (ui'.todo[i] = Flush /\ i = 1)
    BY <2>2
  <2>5. ui'.todo # <<>> /\ Head(ui'.todo) \in {Flush, Clear}
    BY <2>2
  <2> QED
    BY <1>3, <2>3, <2>4, <2>5, ReleasesKeep
<1>5. CASE s = <<r>>
  <2>1. ui'.todo = <<x, r>>
    BY <1>2, <1>5, TwoCalls
  <2>2. /\ ui'.todo # <<>> /\ Head(ui'.todo) = x /\ Len(ui'.todo) = 2
        /\ ui'.todo[1] = x /\ ui'.todo[2] = r
    BY <2>1, <1>2
  <2>3. r \in Elems(ui'.todo)
    BY <2>2 DEF Elems
  <2>4. ui'.todo # <<>> /\ Head(ui'.todo) \in {Flush, Clear}
    BY <2>2
  <2>5. d = "touch" => k = 0 \/ (Head(ui'.todo).op = "flush" /\ ui.held["touch"] /\ k = ui.moved)
    <3>1. s # <<>>
      BY <1>5
    <3> QED
      BY <1>2, <2>2, <3>1
  <2>6. \A i \in 1 .. Len(ui'.todo) :
          \/ ui'.todo[i] = Clear
          \/ ui'.todo[i] = Flush /\ i = 1
          \/ \E e \in Devices, n \in Nat :
               /\ ui'.todo[i] = ReleaseOf(e, n) /\ ~ui'.held[e]
               /\ e = "touch" => n = 0 \/ ( /\ Head(ui'.todo).op = "flush" /\ ui.held["touch"]
                                             /\ n = ui.moved )
    <3> SUFFICES ASSUME NEW i \in 1 .. Len(ui'.todo), ui'.todo[i] # Clear,
                        ~(ui'.todo[i] = Flush /\ i = 1)
                 PROVE  \E e \in Devices, n \in Nat :
                          /\ ui'.todo[i] = ReleaseOf(e, n) /\ ~ui'.held[e]
                          /\ e = "touch" =>
                               n = 0 \/ ( /\ Head(ui'.todo).op = "flush" /\ ui.held["touch"]
                                          /\ n = ui.moved )
      OBVIOUS
    <3>1. ui'.todo[i] = ReleaseOf(d, k)
      BY <2>2
    <3> QED
      BY <1>1, <1>3, <2>5, <3>1
  <2>7. \A e \in Devices : (ui.held[e] /\ ~ui'.held[e]) \/ e \in Excused =>
          e \in Excused' \/ \E n \in Nat : ReleaseOf(e, n) \in Elems(ui'.todo)
    BY <1>3, <2>3
  <2> QED
    BY <1>3, <2>4, <2>6, <2>7, ReleasesKeep
<1> QED
  BY <1>4, <1>5

\* The interface without the device d.
LEMMA LetGo ==
  ASSUME ui \in Interfaces, NEW d \in Devices
  PROVE  /\ [ui.held EXCEPT ![d] = FALSE] \in [Devices -> BOOLEAN]
         /\ [ui EXCEPT !.held[d] = FALSE] = [ui EXCEPT !.held = [ui.held EXCEPT ![d] = FALSE]]
         /\ [ui EXCEPT !.held[d] = FALSE] \in Interfaces
<1>1. ui.held \in [Devices -> BOOLEAN]
  BY DEF Interfaces
<1> DEFINE h == [ui.held EXCEPT ![d] = FALSE]
<1>2. h \in [Devices -> BOOLEAN]
  BY <1>1
<1>3. [ui EXCEPT !.held[d] = FALSE] = [ui EXCEPT !.held = h]
  BY DEF Interfaces
<1> HIDE DEF h
<1>4. [ui EXCEPT !.held = h] \in Interfaces
  BY <1>2 DEF Interfaces
<1>5. h \in [Devices -> BOOLEAN] /\ [ui EXCEPT !.held[d] = FALSE] = [ui EXCEPT !.held = h]
      /\ [ui EXCEPT !.held[d] = FALSE] \in Interfaces
  BY <1>2, <1>3, <1>4
<1> QED
  BY <1>5 DEF h

LEMMA LetGoFields ==
  ASSUME ui \in Interfaces, NEW h \in [Devices -> BOOLEAN]
  PROVE  /\ [ui EXCEPT !.held = h].held = h
         /\ [ui EXCEPT !.held = h].sending = ui.sending
         /\ [ui EXCEPT !.held = h].gesture = ui.gesture
         /\ [ui EXCEPT !.held = h].moved = ui.moved
         /\ [ui EXCEPT !.held = h].open = ui.open
         /\ [ui EXCEPT !.held = h].forgot = ui.forgot
BY DEF Interfaces

\* A drag that is over.
LEMMA DragOverKeeps ==
  ASSUME InputInv, NEW x \in {Flush, Clear}, NEW k \in Nat,
         Handle([ui EXCEPT !.held["touch"] = FALSE],
                <<x>> \o ReleaseIf(ui.held["touch"], "touch", k)),
         k = 0 \/ (x = Flush /\ k = ui.moved)
  PROVE  InputInv'
<1>1. ui \in Interfaces /\ ui.moved \in Nat /\ "touch" \in Devices
  BY DEF InputInv, InputTypes, Interfaces, Devices
<1>2. PICK s : /\ s = ReleaseIf(ui.held["touch"], "touch", k)
               /\ Handle([ui EXCEPT !.held["touch"] = FALSE], <<x>> \o s)
  OBVIOUS
<1>3. s = IF ui.held["touch"] THEN <<ReleaseOf("touch", k)>> ELSE <<>>
  BY <1>2 DEF ReleaseIf, Release, ReleaseOf
<1>4. ReleaseOf("touch", k) \in Calls /\ x \in Calls
  BY <1>1, ReleaseIs, CallsAre
<1>5. <<x>> \o s \in Seq(Calls)
  BY <1>3, <1>4
<1>6. PICK h : h = [ui.held EXCEPT !["touch"] = FALSE]
  OBVIOUS
<1>7. h \in [Devices -> BOOLEAN] /\ [ui EXCEPT !.held["touch"] = FALSE] = [ui EXCEPT !.held = h]
      /\ [ui EXCEPT !.held = h] \in Interfaces
  BY <1>1, <1>6, LetGo
<1>8. PICK changed : changed = [ui EXCEPT !.held = h]
  OBVIOUS
<1>9. /\ changed \in Interfaces /\ changed.held = h /\ changed.sending = ui.sending
      /\ changed.gesture = ui.gesture /\ changed.moved = ui.moved /\ changed.open = ui.open
      /\ changed.forgot = ui.forgot
  BY <1>1, <1>7, <1>8, LetGoFields
<1>10. Handle(changed, <<x>> \o s)
  BY <1>2, <1>7, <1>8
<1>11. /\ ui.open /\ ui.todo = <<>> /\ ui.sending = Unsent
      /\ UNCHANGED <<channel, queued, motion, stop, current, worker, guest, lost>>
      /\ ui' \in Interfaces /\ ui'.todo = <<x>> \o s /\ ui'.held = h
      /\ ui'.sending = ui.sending /\ ui'.gesture = ui.gesture
      /\ ui'.moved = ui.moved /\ ui'.open = ui.open /\ ui'.forgot = ui.forgot
  BY <1>5, <1>9, <1>10, HandleIs
<1>12. PICK r : r = ReleaseOf("touch", k)
  OBVIOUS
<1>13. s \in {<<>>, <<r>>} /\ (ui.held["touch"] => s = <<r>>)
  BY <1>3, <1>12
<1>14. k = 0 \/ (x = Flush /\ (s = <<>> \/ ui.held["touch"]) /\ k = ui.moved)
  BY <1>3
<1>15. /\ ui'.held = [ui.held EXCEPT !["touch"] = FALSE] /\ ui'.sending = Unsent
       /\ Excused \subseteq Excused' /\ lost \subseteq lost'
  BY <1>6, <1>11, ExcusedStays
<1>16. PICK d \in {"touch", "right"} : d = "touch"
  OBVIOUS
<1>17. /\ ui.held[d] \/ d \in Excused => d \in Excused' \/ s = <<r>>
       /\ \A e \in Devices : e # d /\ e \in Excused => e \in Excused'
  BY <1>13, <1>15, <1>16
<1>18. ui'.todo = <<x>> \o s /\ ui'.held = [ui.held EXCEPT ![d] = FALSE] /\ r = ReleaseOf(d, k)
  BY <1>11, <1>12, <1>15, <1>16
<1>19. /\ ui.open /\ ui.todo = <<>> /\ ui.sending = Unsent /\ lost \subseteq lost'
       /\ UNCHANGED <<channel, queued, motion, stop, current, worker, guest>>
       /\ ui' \in Interfaces /\ ui'.sending = Unsent
       /\ ui'.gesture = ui.gesture /\ ui'.moved = ui.moved
  BY <1>11, <1>15
<1>20. k = 0 \/ d = "right" \/ (x = Flush /\ (s = <<>> \/ ui.held["touch"]) /\ k = ui.moved)
  BY <1>14
<1>21. s \in {<<>>, <<r>>}
  BY <1>13
<1> QED
  BY <1>17, <1>18, <1>19, <1>20, <1>21, OneReleaseKeeps, ZenonT(60)

LEMMA DragEndKeeps ==
  ASSUME InputInv, DragEnd
  PROVE  InputInv'
<1>1. ui.moved \in Nat
  BY DEF InputInv, InputTypes, Interfaces
<1> QED
  BY <1>1, DragOverKeeps DEF DragEnd

LEMMA DragCancelKeeps ==
  ASSUME InputInv, DragCancel
  PROVE  InputInv'
BY DragOverKeeps DEF DragCancel

\* The right button is let go; without a frame nothing says so to the engine.
LEMMA RightReleasedKeeps ==
  ASSUME InputInv, RightReleased
  PROVE  InputInv'
<1>1. ui \in Interfaces /\ "right" \in Devices
  BY DEF InputInv, InputTypes, Interfaces, Devices
<1>2. PICK s : s = ReleaseIf(ui.frame, "right", 0)
  OBVIOUS
<1>3. s = IF ui.frame THEN <<ReleaseOf("right", 0)>> ELSE <<>>
  BY <1>2 DEF ReleaseIf, Release, ReleaseOf
<1>4. ReleaseOf("right", 0) \in Calls /\ Flush \in Calls
  BY <1>1, ReleaseIs, CallsAre
<1>5. <<Flush>> \o s \in Seq(Calls)
  BY <1>3, <1>4
<1>6. PICK h : h = [ui.held EXCEPT !["right"] = FALSE]
  OBVIOUS
<1>7. h \in [Devices -> BOOLEAN]
  BY <1>1, <1>6 DEF Interfaces
<1>8. PICK forgot \in BOOLEAN : forgot = (~ui.frame /\ (ui.held["right"] \/ ui.forgot))
  OBVIOUS
<1>9. PICK changed : changed = [ui EXCEPT !.held = h, !.forgot = forgot]
  OBVIOUS
<1>10. /\ changed \in Interfaces /\ changed.held = h /\ changed.forgot = forgot
       /\ changed.sending = ui.sending /\ changed.gesture = ui.gesture
       /\ changed.moved = ui.moved
  BY <1>1, <1>7, <1>8, <1>9 DEF Interfaces
<1>11. changed = [ui EXCEPT !.held["right"] = FALSE,
                            !.forgot = ~ui.frame /\ (ui.held["right"] \/ ui.forgot)]
  BY <1>1, <1>6, <1>8, <1>9 DEF Interfaces
<1>12. Handle(changed, <<Flush>> \o s)
  BY <1>2, <1>11, Zenon DEF RightReleased
<1>13. /\ ui.open /\ ui.todo = <<>> /\ ui.sending = Unsent
       /\ UNCHANGED <<channel, queued, motion, stop, current, worker, guest, lost>>
       /\ ui' \in Interfaces /\ ui'.todo = <<Flush>> \o s /\ ui'.held = h
       /\ ui'.sending = ui.sending /\ ui'.gesture = ui.gesture /\ ui'.moved = ui.moved
       /\ ui'.forgot = forgot
  BY <1>5, <1>10, <1>12, HandleIs
<1>14. PICK r : r = ReleaseOf("right", 0)
  OBVIOUS
<1>15. s \in {<<>>, <<r>>} /\ (ui.frame => s = <<r>>)
  BY <1>3, <1>14
<1>16. ~ui.frame /\ (ui.held["right"] \/ "right" \in Excused) => "right" \in Excused'
  BY <1>8, <1>13 DEF Excused, Forgotten
<1>17. \A e \in Devices : e # "right" /\ e \in Excused => e \in Excused'
  BY <1>13 DEF Excused, Forgotten
<1>18. PICK d \in {"touch", "right"} : d = "right"
  OBVIOUS
<1>19. PICK k \in Nat : k = 0
  OBVIOUS
<1>20. PICK x \in {Flush, Clear} : x = Flush
  OBVIOUS
<1>21. r = ReleaseOf(d, k)
  BY <1>14, <1>18, <1>19
<1>22. /\ ui'.todo = <<x>> \o s /\ ui'.held = [ui.held EXCEPT ![d] = FALSE]
       /\ ui'.sending = Unsent
  BY <1>6, <1>13, <1>18, <1>20
<1>23. /\ ui.held[d] \/ d \in Excused => d \in Excused' \/ s = <<r>>
       /\ \A e \in Devices : e # d /\ e \in Excused => e \in Excused'
  BY <1>15, <1>16, <1>17, <1>18
<1>24. /\ ui.open /\ ui.todo = <<>> /\ ui.sending = Unsent /\ lost \subseteq lost'
       /\ UNCHANGED <<channel, queued, motion, stop, current, worker, guest>>
       /\ ui' \in Interfaces /\ ui'.gesture = ui.gesture /\ ui'.moved = ui.moved
  BY <1>13
<1>25. k = 0 \/ d = "right" \/ (x = Flush /\ (s = <<>> \/ ui.held["touch"]) /\ k = ui.moved)
  BY <1>19
<1>26. s \in {<<>>, <<r>>}
  BY <1>15
<1> QED
  BY <1>18, <1>19, <1>20, <1>21, <1>22, <1>23, <1>24, <1>25, <1>26, OneReleaseKeeps, ZenonT(60)

LEMMA KeyReleasedKeeps ==
  ASSUME InputInv, KeyReleased
  PROVE  InputInv'
<1>1. ui \in Interfaces /\ "key" \in Devices
  BY DEF InputInv, InputTypes, Interfaces, Devices
<1>2. PICK r : r = ReleaseOf("key", 0)
  OBVIOUS
<1>3. r \in Calls
  BY <1>1, <1>2, ReleaseIs
<1>4. PICK h : h = [ui.held EXCEPT !["key"] = FALSE]
  OBVIOUS
<1>5. h \in [Devices -> BOOLEAN] /\ [ui EXCEPT !.held["key"] = FALSE] = [ui EXCEPT !.held = h]
      /\ [ui EXCEPT !.held = h] \in Interfaces
  BY <1>1, <1>4, LetGo
<1>6. PICK changed : changed = [ui EXCEPT !.held = h]
  OBVIOUS
<1>7. /\ changed \in Interfaces /\ changed.held = h /\ changed.sending = ui.sending
      /\ changed.gesture = ui.gesture /\ changed.moved = ui.moved /\ changed.open = ui.open
      /\ changed.forgot = ui.forgot
  BY <1>1, <1>5, <1>6, LetGoFields
<1>8. Handle(changed, <<r>>)
  BY <1>2, <1>5, <1>6 DEF KeyReleased, Release, ReleaseOf
<1>9. <<r>> \in Seq(Calls) /\ r \in Elems(<<r>>) /\ <<r>>[1] = r /\ Len(<<r>>) = 1
  BY <1>3, ElemsOfOne
<1>10. /\ ui.open /\ ui.todo = <<>> /\ ui.sending = Unsent
       /\ UNCHANGED <<channel, queued, motion, stop, current, worker, guest, lost>>
       /\ ui' \in Interfaces /\ ui'.todo = <<r>> /\ ui'.held = h
       /\ ui'.sending = ui.sending /\ ui'.gesture = ui.gesture
       /\ ui'.moved = ui.moved /\ ui'.open = ui.open /\ ui'.forgot = ui.forgot
  BY <1>7, <1>8, <1>9, HandleIs
<1>11. \A d \in Devices : IF d = "key" THEN ~h[d] ELSE h[d] = ui.held[d]
  BY <1>1, <1>4 DEF Interfaces
<1>12. \A d \in {"touch", "right"} : h[d] = ui.held[d]
  BY <1>11 DEF Devices
<1>13. \A i \in 1 .. Len(ui'.todo) : ui'.todo[i] = ReleaseOf("key", 0)
  BY <1>2, <1>9, <1>10
<1>14. \A d \in Devices : ui.held[d] /\ ~ui'.held[d] =>
         \E k \in Nat : ReleaseOf(d, k) \in Elems(ui'.todo)
  BY <1>2, <1>9, <1>10, <1>11
<1>15. \A d \in Devices : ui'.held[d] => ui.held[d]
  BY <1>10, <1>11
<1>16. ~ui'.held["key"]
  BY <1>1, <1>10, <1>11
<1>17. ui'.sending = Unsent /\ Excused \subseteq Excused'
  BY <1>10, ExcusedStays
<1> QED
  BY <1>1, <1>10, <1>12, <1>13, <1>14, <1>15, <1>16, <1>17, ReleasesKeep

\* A handler of one call that releases nothing.
LEMMA OneCallKeeps ==
  ASSUME InputInv, NEW changed \in Interfaces, NEW c \in Calls, Handle(changed, <<c>>),
         changed.sending = ui.sending, changed.forgot = ui.forgot, c.job \in InputJobs,
         \A d \in Devices : ui.held[d] => changed.held[d],
         changed.gesture \in {ui.gesture, ui.gesture + 1},
         changed.held["touch"] =>
           IF ui.held["touch"] THEN changed.gesture = ui.gesture /\ changed.moved = ui.moved
                               ELSE changed.gesture = ui.gesture + 1 /\ changed.moved = 0,
         c.job.held => c.job.dev \in Devices /\ changed.held[c.job.dev],
         c.job.dev = "touch" => c.job.held /\ c.job.gesture = changed.gesture,
         \/ c.op = "reliable" /\ (~c.job.held => c.job.dev = "text")
              /\ (c.job.dev = "touch" => ~ui.held["touch"])
         \/ c.op = "replace" /\ c.job.dev \in {"touch", "right"}
              /\ (c.job.dev = "right" => ~changed.held["touch"])
  PROVE  InputInv'
<1>1. /\ <<c>> \in Seq(Calls) /\ Len(<<c>>) = 1 /\ <<c>>[1] = c /\ Head(<<c>>) = c
      /\ <<c>> # <<>>
  BY ElemsOfOne
<1>2. /\ ui.open /\ ui.todo = <<>> /\ ui.sending = Unsent
      /\ UNCHANGED <<channel, queued, motion, stop, current, worker, guest, lost>>
      /\ ui' \in Interfaces /\ ui'.todo = <<c>> /\ ui'.held = changed.held
      /\ ui'.sending = changed.sending /\ ui'.gesture = changed.gesture
      /\ ui'.moved = changed.moved /\ ui'.open = changed.open /\ ui'.forgot = ui.forgot
  BY <1>1, HandleIs
<1>3. Len(ui'.todo) = 1 /\ \A i \in 1 .. Len(ui'.todo) : i = 1 /\ ui'.todo[i] = c
  BY <1>1, <1>2
<1>4. TodoInv'
  <2>1. CallInv(1, c)'
    BY <1>2, <1>3 DEF CallInv
  <2> QED
    BY <1>3, <2>1 DEF TodoInv, CallInv
<1>5. Pressing' => ~ui.held["touch"]
  BY <1>1, <1>2 DEF Pressing, Contact, Presses
<1>6. \A d \in Devices : ui.held[d] => ui'.held[d]
  BY <1>2
<1>7. "touch" \in Devices /\ "right" \in Devices
  BY DEF Devices
<1>8. ui'.sending = Unsent /\ Excused \subseteq Excused'
  BY <1>2, ExcusedStays
<1> QED
  BY <1>2, <1>3, <1>4, <1>5, <1>6, <1>7, <1>8, HandlerKeeps

\* The call of a job.
LEMMA CallOf ==
  ASSUME NEW job \in InputJobs
  PROVE  /\ Call("reliable", job) \in Calls /\ Call("reliable", job).op = "reliable"
         /\ Call("reliable", job).job = job
         /\ Call("replace", job) \in Calls /\ Call("replace", job).op = "replace"
         /\ Call("replace", job).job = job
<1>1. Call("reliable", job) \in Calls /\ Call("replace", job) \in Calls
  BY DEF Call, Calls
<1> QED
  BY <1>1 DEF Call

PressOf(d) == Job(d, TRUE, 0)

LEMMA PressIs ==
  ASSUME ui \in Interfaces, NEW d \in Devices
  PROVE  /\ PressOf(d) \in InputJobs /\ PressOf(d).dev = d /\ PressOf(d).held
         /\ d = "touch" => PressOf(d).gesture = ui.gesture
<1>1. ui.clock + 1 \in Nat /\ ui.gesture \in Nat /\ 0 \in Nat
  BY DEF Interfaces
<1> DEFINE at == IF d = "touch" THEN ui.clock + 1 ELSE 0
           gesture == IF d = "touch" THEN ui.gesture ELSE 0
           job == [dev |-> d, held |-> TRUE, at |-> at, gesture |-> gesture, after |-> 0]
<1>2. at \in Nat /\ gesture \in Nat /\ (d = "touch" => gesture = ui.gesture)
  BY <1>1
<1>3. PressOf(d) = job
  BY DEF Job, PressOf
<1> HIDE DEF at, gesture
<1>4. /\ job \in InputJobs /\ job.dev = d /\ job.held
      /\ d = "touch" => job.gesture = ui.gesture
  BY <1>2 DEF InputJobs
<1> HIDE DEF job
<1> QED
  BY <1>3, <1>4

LEMMA DragUpdateKeeps ==
  ASSUME InputInv, DragUpdate
  PROVE  InputInv'
<1>1. /\ ui \in Interfaces /\ "touch" \in Devices /\ ui.held["touch"]
      /\ ui.gesture \in Nat
  BY DEF InputInv, InputTypes, Interfaces, Devices, DragUpdate
<1>2. PICK job : job = PressOf("touch")
  OBVIOUS
<1>3. job \in InputJobs /\ job.dev = "touch" /\ job.held /\ job.gesture = ui.gesture
  BY <1>1, <1>2, PressIs
<1>4. PICK c : c = Call("replace", job)
  OBVIOUS
<1>5. c \in Calls /\ c.op = "replace" /\ c.job = job
  BY <1>3, <1>4, CallOf
<1>6. Handle(ui, <<c>>)
  BY <1>2, <1>4 DEF DragUpdate, PressOf
<1> QED
  BY <1>1, <1>3, <1>5, <1>6, OneCallKeeps

LEMMA MouseMotionKeeps ==
  ASSUME InputInv, MouseMotion
  PROVE  InputInv'
<1>1. /\ ui \in Interfaces /\ "right" \in Devices /\ "touch" \in Devices /\ ~ui.held["touch"]
      /\ ui.gesture \in Nat /\ ui.held["right"] \in BOOLEAN
  BY DEF InputInv, InputTypes, Interfaces, Devices, MouseMotion
<1>2. PICK job : job = Job("right", ui.held["right"], 0)
  OBVIOUS
<1>3. job = [dev |-> "right", held |-> ui.held["right"], at |-> 0, gesture |-> 0, after |-> 0]
  BY <1>2 DEF Job
<1>4. job \in InputJobs /\ job.dev = "right" /\ (job.held <=> ui.held["right"])
  BY <1>1, <1>3 DEF InputJobs
<1>5. PICK c : c = Call("replace", job)
  OBVIOUS
<1>6. c \in Calls /\ c.op = "replace" /\ c.job = job
  BY <1>4, <1>5, CallOf
<1>7. Handle(ui, <<c>>)
  BY <1>2, <1>5 DEF MouseMotion
<1> QED
  BY <1>1, <1>4, <1>6, <1>7, OneCallKeeps

LEMMA CommitTextKeeps ==
  ASSUME InputInv, CommitText
  PROVE  InputInv'
<1>1. /\ ui \in Interfaces /\ ui.gesture \in Nat /\ "touch" \in Devices
  BY DEF InputInv, InputTypes, Interfaces, Devices
<1>2. PICK job : job = Job("text", FALSE, 0)
  OBVIOUS
<1>3. job = [dev |-> "text", held |-> FALSE, at |-> 0, gesture |-> 0, after |-> 0]
  BY <1>2 DEF Job
<1>4. job \in InputJobs /\ job.dev = "text" /\ ~job.held
  BY <1>3 DEF InputJobs
<1>5. PICK c : c = Call("reliable", job)
  OBVIOUS
<1>6. c \in Calls /\ c.op = "reliable" /\ c.job = job
  BY <1>4, <1>5, CallOf
<1>7. Handle(ui, <<c>>)
  BY <1>2, <1>5 DEF CommitText
<1> QED
  BY <1>1, <1>4, <1>6, <1>7, OneCallKeeps

LEMMA DragBeginKeeps ==
  ASSUME InputInv, DragBegin
  PROVE  InputInv'
<1>1. /\ ui \in Interfaces /\ "touch" \in Devices /\ ~ui.held["touch"]
      /\ ui.gesture \in Nat /\ ui.gesture + 1 \in Nat /\ ui.held \in [Devices -> BOOLEAN]
  BY DEF InputInv, InputTypes, Interfaces, Devices, DragBegin
<1>2. PICK press : press = PressOf("touch")
  OBVIOUS
<1>3. press \in InputJobs /\ press.dev = "touch" /\ press.held /\ press.gesture = ui.gesture
  BY <1>1, <1>2, PressIs
<1>4. PICK job : job = [press EXCEPT !.gesture = press.gesture + 1]
  OBVIOUS
<1>5. job \in InputJobs /\ job.dev = "touch" /\ job.held /\ job.gesture = ui.gesture + 1
  BY <1>1, <1>3, <1>4 DEF InputJobs
<1>6. PICK h : h = [ui.held EXCEPT !["touch"] = TRUE]
  OBVIOUS
<1>7. /\ h \in [Devices -> BOOLEAN] /\ h["touch"]
      /\ \A d \in Devices : ui.held[d] => h[d]
  BY <1>1, <1>6
<1>8. PICK changed : changed = [ui EXCEPT !.held = h, !.gesture = ui.gesture + 1, !.moved = 0]
  OBVIOUS
<1>9. /\ changed \in Interfaces /\ changed.held = h /\ changed.sending = ui.sending
      /\ changed.gesture = ui.gesture + 1 /\ changed.moved = 0
      /\ changed.forgot = ui.forgot
  BY <1>1, <1>7, <1>8 DEF Interfaces
<1>10. PICK c : c = Call("reliable", job)
  OBVIOUS
<1>11. c \in Calls /\ c.op = "reliable" /\ c.job = job
  BY <1>5, <1>10, CallOf
<1>12. changed = [ui EXCEPT !.held["touch"] = TRUE, !.gesture = @ + 1, !.moved = 0]
  BY <1>1, <1>6, <1>8 DEF Interfaces
<1>13. job = [Job("touch", TRUE, 0) EXCEPT !.gesture = @ + 1]
  BY <1>2, <1>3, <1>4 DEF InputJobs, PressOf
<1>14. Handle(changed, <<c>>)
  BY <1>10, <1>12, <1>13 DEF DragBegin
<1> QED
  BY <1>1, <1>5, <1>7, <1>9, <1>11, <1>14, OneCallKeeps

LEMMA KeyPressedKeeps ==
  ASSUME InputInv, KeyPressed
  PROVE  InputInv'
<1>1. /\ ui \in Interfaces /\ "key" \in Devices /\ "touch" \in Devices
      /\ ui.gesture \in Nat /\ ui.held \in [Devices -> BOOLEAN]
  BY DEF InputInv, InputTypes, Interfaces, Devices
<1>2. PICK job : job = PressOf("key")
  OBVIOUS
<1>3. job \in InputJobs /\ job.dev = "key" /\ job.held
  BY <1>1, <1>2, PressIs
<1>4. PICK h : h = [ui.held EXCEPT !["key"] = TRUE]
  OBVIOUS
<1>5. /\ h \in [Devices -> BOOLEAN] /\ h["key"] /\ h["touch"] = ui.held["touch"]
      /\ \A d \in Devices : ui.held[d] => h[d]
  BY <1>1, <1>4
<1>6. PICK changed : changed = [ui EXCEPT !.held = h]
  OBVIOUS
<1>7. /\ changed \in Interfaces /\ changed.held = h /\ changed.sending = ui.sending
      /\ changed.gesture = ui.gesture /\ changed.moved = ui.moved
      /\ changed.forgot = ui.forgot
  BY <1>1, <1>5, <1>6 DEF Interfaces
<1>8. PICK c : c = Call("reliable", job)
  OBVIOUS
<1>9. c \in Calls /\ c.op = "reliable" /\ c.job = job
  BY <1>3, <1>8, CallOf
<1>10. changed = [ui EXCEPT !.held["key"] = TRUE]
  BY <1>1, <1>4, <1>6 DEF Interfaces
<1>11. Handle(changed, <<c>>)
  BY <1>2, <1>8, <1>10 DEF KeyPressed, PressOf
<1> QED
  BY <1>1, <1>3, <1>5, <1>7, <1>9, <1>11, OneCallKeeps

\* A right press clears the slot, then goes the way of the ordinary events.
LEMMA RightPressedKeeps ==
  ASSUME InputInv, RightPressed
  PROVE  InputInv'
<1>1. /\ ui \in Interfaces /\ "right" \in Devices /\ "touch" \in Devices
      /\ ui.gesture \in Nat /\ ui.held \in [Devices -> BOOLEAN]
  BY DEF InputInv, InputTypes, Interfaces, Devices
<1>2. PICK job : job = PressOf("right")
  OBVIOUS
<1>3. job \in InputJobs /\ job.dev = "right" /\ job.held
  BY <1>1, <1>2, PressIs
<1>4. PICK h : h = [ui.held EXCEPT !["right"] = TRUE]
  OBVIOUS
<1>5. /\ h \in [Devices -> BOOLEAN] /\ h["right"] /\ h["touch"] = ui.held["touch"]
      /\ \A d \in Devices : ui.held[d] => h[d]
  BY <1>1, <1>4
<1>6. PICK changed : changed = [ui EXCEPT !.held = h, !.forgot = FALSE]
  OBVIOUS
<1>7. /\ changed \in Interfaces /\ changed.held = h /\ changed.sending = ui.sending
      /\ changed.gesture = ui.gesture /\ changed.moved = ui.moved
  BY <1>1, <1>5, <1>6 DEF Interfaces
<1>8. PICK c : c = Call("reliable", job)
  OBVIOUS
<1>9. c \in Calls /\ c.op = "reliable" /\ c.job = job
  BY <1>3, <1>8, CallOf
<1>10. changed = [ui EXCEPT !.held["right"] = TRUE, !.forgot = FALSE]
  BY <1>1, <1>4, <1>6 DEF Interfaces
<1>11. Handle(changed, <<Clear, c>>)
  BY <1>2, <1>8, <1>10 DEF RightPressed, PressOf
<1>12. Clear \in Calls /\ Clear.op = "clear"
  BY <1>1, CallsAre
<1>13. /\ <<Clear, c>> \in Seq(Calls) /\ Len(<<Clear, c>>) = 2 /\ <<Clear, c>>[1] = Clear
       /\ <<Clear, c>>[2] = c /\ Head(<<Clear, c>>) = Clear /\ <<Clear, c>> # <<>>
  BY <1>9, <1>12
<1>14. /\ ui.open /\ ui.todo = <<>> /\ ui.sending = Unsent
       /\ UNCHANGED <<channel, queued, motion, stop, current, worker, guest, lost>>
       /\ ui' \in Interfaces /\ ui'.todo = <<Clear, c>> /\ ui'.held = h
       /\ ui'.sending = ui.sending /\ ui'.gesture = ui.gesture /\ ui'.moved = ui.moved
  BY <1>7, <1>11, <1>13, HandleIs
<1>15. \A i \in 1 .. Len(ui'.todo) :
         (i = 1 /\ ui'.todo[i] = Clear) \/ (i = 2 /\ ui'.todo[i] = c)
  BY <1>13, <1>14
<1>16. TodoInv'
  <2>1. PICK clear : clear = Clear
    OBVIOUS
  <2>2. CallInv(1, clear)'
    BY <1>12, <2>1 DEF CallInv
  <2>3. CallInv(2, c)'
    <3>1. c.op = "reliable" /\ c.job \in InputJobs /\ c.job.dev = "right" /\ c.job.held
      BY <1>3, <1>9
    <3>2. ui'.held["right"]
      BY <1>5, <1>14
    <3> QED
      BY <1>1, <3>1, <3>2 DEF CallInv
  <2> QED
    BY <1>15, <2>1, <2>2, <2>3 DEF TodoInv, CallInv
<1>17. ~Pressing'
  BY <1>12, <1>13, <1>14 DEF Pressing
<1>18. \A i \in 1 .. Len(ui'.todo) : ui'.todo[i].op # "critical"
  BY <1>9, <1>12, <1>15
<1>19. \A d \in Devices : ui.held[d] => ui'.held[d]
  BY <1>5, <1>14
<1>20. ui'.held["touch"] = ui.held["touch"] /\ ui'.sending = Unsent
  BY <1>5, <1>14
<1>21. \A d \in Devices : d \in Excused => d \in Excused' \/ ui'.held[d]
  BY <1>5, <1>14 DEF Excused, Forgotten
<1> QED
  BY <1>1, <1>14, <1>16, <1>17, <1>18, <1>19, <1>20, <1>21, HandlerKeeps

LEMMA FrameMetaKeeps ==
  ASSUME InputInv, FrameMeta
  PROVE  InputInv'
<1>1. ui \in Interfaces /\ ui.frame \in BOOLEAN /\ ui.gesture \in Nat
  BY DEF InputInv, InputTypes, Interfaces
<1>2. /\ ui.open /\ ui.todo = <<>> /\ ui' = [ui EXCEPT !.frame = ~ui.frame]
      /\ UNCHANGED <<channel, queued, motion, stop, current, worker, guest, lost>>
  BY <1>1 DEF FrameMeta, queueVars, workerVars, Interfaces
<1>3. /\ ui' \in Interfaces /\ ui'.todo = <<>> /\ ui'.held = ui.held
      /\ ui'.sending = ui.sending /\ ui'.gesture = ui.gesture /\ ui'.moved = ui.moved
      /\ ui'.forgot = ui.forgot
  BY <1>1, <1>2 DEF Interfaces
<1>4. ui.sending = Unsent
  BY <1>2 DEF InputInv, SendingInv
<1>5. Len(ui'.todo) = 0 /\ ~Pressing'
  BY <1>3 DEF Pressing
<1>6. TodoInv'
  BY <1>5 DEF TodoInv
<1>7. "touch" \in Devices /\ "right" \in Devices
  BY DEF Devices
<1>8. Excused \subseteq Excused'
  BY <1>2, <1>3, ExcusedStays
<1> QED
  BY <1>1, <1>2, <1>3, <1>4, <1>5, <1>6, <1>7, <1>8, HandlerKeeps

LEMMA ReleaseIfIs ==
  ASSUME ui \in Interfaces, NEW d \in Devices, NEW s,
         s = IF ui.held[d] THEN <<ReleaseOf(d, 0)>> ELSE <<>>
  PROVE  /\ s \in Seq(Calls)
         /\ Elems(s) = IF ui.held[d] THEN {ReleaseOf(d, 0)} ELSE {}
<1>1. ReleaseOf(d, 0) \in Calls
  BY ReleaseIs
<1>2. /\ <<ReleaseOf(d, 0)>> \in Seq(Calls) /\ Elems(<<ReleaseOf(d, 0)>>) = {ReleaseOf(d, 0)}
      /\ <<>> \in Seq(Calls) /\ Elems(<<>>) = {}
  BY <1>1, ElemsOfOne
<1> QED
  BY <1>2

\* What focus loss and Drop call.
LEMMA ReleaseAllIs ==
  ASSUME ui \in Interfaces
  PROVE  /\ ReleaseAll \in Seq(Calls) /\ ReleaseAll # <<>> /\ Head(ReleaseAll) = Clear
         /\ \A d \in Devices : ui.held[d] => ReleaseOf(d, 0) \in Elems(ReleaseAll)
         /\ \A c \in Elems(ReleaseAll) :
              c = Clear \/ \E d \in Devices : ui.held[d] /\ c = ReleaseOf(d, 0)
<1>1. Clear \in Calls /\ "touch" \in Devices /\ "key" \in Devices /\ "right" \in Devices
      /\ \A d \in Devices : d = "touch" \/ d = "key" \/ d = "right"
  BY CallsAre DEF Devices
<1>2. /\ <<Clear>> \in Seq(Calls) /\ <<Clear>> # <<>> /\ Head(<<Clear>>) = Clear
      /\ Elems(<<Clear>>) = {Clear}
  BY <1>1, ElemsOfOne
<1>3. PICK t : t = IF ui.held["touch"] THEN <<ReleaseOf("touch", 0)>> ELSE <<>>
  OBVIOUS
<1>4. PICK k : k = IF ui.held["key"] THEN <<ReleaseOf("key", 0)>> ELSE <<>>
  OBVIOUS
<1>5. PICK r : r = IF ui.held["right"] THEN <<ReleaseOf("right", 0)>> ELSE <<>>
  OBVIOUS
<1>6. t \in Seq(Calls) /\ Elems(t) = IF ui.held["touch"] THEN {ReleaseOf("touch", 0)} ELSE {}
  BY <1>1, <1>3, ReleaseIfIs
<1>7. k \in Seq(Calls) /\ Elems(k) = IF ui.held["key"] THEN {ReleaseOf("key", 0)} ELSE {}
  BY <1>1, <1>4, ReleaseIfIs
<1>8. r \in Seq(Calls) /\ Elems(r) = IF ui.held["right"] THEN {ReleaseOf("right", 0)} ELSE {}
  BY <1>1, <1>5, ReleaseIfIs
<1>9. PICK z : z = IF ui.held["right"] THEN <<Clear>> \o r ELSE <<>>
  OBVIOUS
<1>10. z \in Seq(Calls) /\ Elems(r) \subseteq Elems(z) /\ Elems(z) \subseteq Elems(r) \cup {Clear}
  <2>1. <<Clear>> \o r \in Seq(Calls) /\ Elems(<<Clear>> \o r) = {Clear} \cup Elems(r)
    BY <1>2, <1>8, ElemsOfConcat
  <2>2. <<>> \in Seq(Calls) /\ Elems(<<>>) = {}
    BY <1>1, ElemsOfOne
  <2>3. CASE ui.held["right"]
    BY <1>9, <2>1, <2>3
  <2>4. CASE ~ui.held["right"]
    BY <1>8, <1>9, <2>2, <2>4
  <2> QED
    BY <2>3, <2>4
<1>11. ReleaseAll = ((<<Clear>> \o t) \o k) \o z
  <2>1. /\ t = ReleaseIf(ui.held["touch"], "touch", 0)
        /\ k = ReleaseIf(ui.held["key"], "key", 0)
    BY <1>3, <1>4 DEF ReleaseIf, Release, ReleaseOf
  <2>2. z = IF ui.held["right"] THEN <<Clear>> \o Release("right", 0) ELSE <<>>
    BY <1>5, <1>9 DEF Release, ReleaseOf
  <2> QED
    BY <2>1, <2>2 DEF ReleaseAll
<1>12. PICK a : a = <<Clear>> \o t
  OBVIOUS
<1>13. a \in Seq(Calls) /\ a # <<>> /\ Head(a) = Clear /\ Elems(a) = {Clear} \cup Elems(t)
  BY <1>2, <1>6, <1>12, ElemsOfConcat
<1>14. PICK b : b = a \o k
  OBVIOUS
<1>15. b \in Seq(Calls) /\ b # <<>> /\ Head(b) = Clear /\ Elems(b) = Elems(a) \cup Elems(k)
  BY <1>7, <1>13, <1>14, ElemsOfConcat
<1>16. PICK all : all = b \o z
  OBVIOUS
<1>17. all \in Seq(Calls) /\ all # <<>> /\ Head(all) = Clear /\ Elems(all) = Elems(b) \cup Elems(z)
  BY <1>10, <1>15, <1>16, ElemsOfConcat
<1>18. ReleaseAll = all
  BY <1>11, <1>12, <1>14, <1>16
<1>19. \A d \in Devices : ui.held[d] => ReleaseOf(d, 0) \in Elems(all)
  <2> SUFFICES ASSUME NEW d \in Devices, ui.held[d] PROVE ReleaseOf(d, 0) \in Elems(all)
    OBVIOUS
  <2>1. CASE d = "touch"
    BY <2>1, <1>6, <1>13, <1>15, <1>17
  <2>2. CASE d = "key"
    BY <2>2, <1>7, <1>15, <1>17
  <2>3. CASE d = "right"
    BY <2>3, <1>8, <1>10, <1>17
  <2> QED
    BY <1>1, <2>1, <2>2, <2>3
<1>20. \A c \in Elems(all) : c = Clear \/ \E d \in Devices : ui.held[d] /\ c = ReleaseOf(d, 0)
  <2> SUFFICES ASSUME NEW c \in Elems(all), c # Clear
               PROVE  \E d \in Devices : ui.held[d] /\ c = ReleaseOf(d, 0)
    OBVIOUS
  <2>1. c \in Elems(t) \cup Elems(k) \cup Elems(r)
    BY <1>10, <1>13, <1>15, <1>17
  <2> QED
    BY <1>1, <1>6, <1>7, <1>8, <2>1
<1> QED
  BY <1>17, <1>18, <1>19, <1>20

LEMMA NothingHeldIs == NothingHeld \in [Devices -> BOOLEAN] /\ \A d \in Devices : ~NothingHeld[d]
BY DEF NothingHeld

LEMMA FocusLeaveKeeps ==
  ASSUME InputInv, FocusLeave
  PROVE  InputInv'
<1>1. ui \in Interfaces
  BY DEF InputInv, InputTypes
<1>2. PICK all : all = ReleaseAll
  OBVIOUS
<1>3. /\ all \in Seq(Calls) /\ all # <<>> /\ Head(all) = Clear
      /\ \A d \in Devices : ui.held[d] => ReleaseOf(d, 0) \in Elems(all)
      /\ \A c \in Elems(all) :
           c = Clear \/ \E d \in Devices : ui.held[d] /\ c = ReleaseOf(d, 0)
  BY <1>1, <1>2, ReleaseAllIs
<1>4. PICK changed : changed = [ui EXCEPT !.held = NothingHeld]
  OBVIOUS
<1>5. /\ changed \in Interfaces /\ changed.held = NothingHeld /\ changed.sending = ui.sending
      /\ changed.gesture = ui.gesture /\ changed.moved = ui.moved
      /\ changed.forgot = ui.forgot
  BY <1>1, <1>4, NothingHeldIs DEF Interfaces
<1>6. Handle(changed, all)
  BY <1>2, <1>4 DEF FocusLeave
<1>7. /\ ui.open /\ ui.todo = <<>> /\ ui.sending = Unsent
      /\ UNCHANGED <<channel, queued, motion, stop, current, worker, guest, lost>>
      /\ ui' \in Interfaces /\ ui'.todo = all /\ ui'.held = NothingHeld
      /\ ui'.sending = ui.sending /\ ui'.gesture = ui.gesture /\ ui'.moved = ui.moved
      /\ ui'.forgot = ui.forgot
  BY <1>3, <1>5, <1>6, HandleIs
<1>8. \A i \in 1 .. Len(ui'.todo) :
        ui'.todo[i] = Clear \/ \E d \in Devices, k \in Nat :
                                  ui'.todo[i] = ReleaseOf(d, k) /\ ~ui'.held[d] /\ k = 0
  <2> SUFFICES ASSUME NEW i \in 1 .. Len(all), all[i] # Clear
               PROVE  \E d \in Devices, k \in Nat :
                         all[i] = ReleaseOf(d, k) /\ ~ui'.held[d] /\ k = 0
    BY <1>7
  <2>1. all[i] \in Elems(all)
    BY DEF Elems
  <2>2. PICK d \in Devices : all[i] = ReleaseOf(d, 0)
    BY <1>3, <2>1
  <2> QED
    BY <1>7, <2>2, NothingHeldIs
<1>9. \A d \in Devices : ui.held[d] => \E k \in Nat : ReleaseOf(d, k) \in Elems(ui'.todo)
  BY <1>3, <1>7
<1>10. ui'.todo # <<>> /\ Head(ui'.todo) \in {Flush, Clear} /\ ui'.sending = Unsent
  BY <1>3, <1>7
<1>11. Excused \subseteq Excused' /\ \A d \in Devices : ~ui'.held[d]
  BY <1>7, ExcusedStays, NothingHeldIs
<1> QED
  BY <1>7, <1>8, <1>9, <1>10, <1>11, ReleasesKeep

LEMMA DetachKeeps ==
  ASSUME InputInv, Detach
  PROVE  InputInv'
<1>1. ui \in Interfaces
  BY DEF InputInv, InputTypes
<1>2. PICK all : all = ReleaseAll
  OBVIOUS
<1>3. /\ all \in Seq(Calls) /\ all # <<>> /\ Head(all) = Clear
      /\ \A d \in Devices : ui.held[d] => ReleaseOf(d, 0) \in Elems(all)
      /\ \A c \in Elems(all) :
           c = Clear \/ \E d \in Devices : ui.held[d] /\ c = ReleaseOf(d, 0)
  BY <1>1, <1>2, ReleaseAllIs
<1>4. PICK last : last = Call("stop", NoJob)
  OBVIOUS
<1>5. last \in Calls
  BY <1>1, <1>4, CallsAre DEF Devices
<1>6. PICK calls : calls = Append(all, last)
  OBVIOUS
<1>7. /\ calls \in Seq(Calls) /\ calls # <<>> /\ Len(calls) = Len(all) + 1
      /\ Len(all) \in Nat /\ Len(all) >= 1
      /\ calls[Len(calls)] = last /\ \A i \in 1 .. Len(all) : calls[i] = all[i]
  BY <1>3, <1>5, <1>6
<1>8. Head(calls) = Clear
  BY <1>3, <1>7
<1>9. PICK changed : changed = [ui EXCEPT !.held = NothingHeld, !.open = FALSE]
  OBVIOUS
<1>10. /\ changed \in Interfaces /\ changed.held = NothingHeld /\ changed.sending = ui.sending
       /\ changed.gesture = ui.gesture /\ changed.moved = ui.moved /\ ~changed.open
       /\ changed.forgot = ui.forgot
  BY <1>1, <1>9, NothingHeldIs DEF Interfaces
<1>11. Handle(changed, calls)
  BY <1>2, <1>4, <1>6, <1>9 DEF Detach
<1>12. /\ ui.open /\ ui.todo = <<>> /\ ui.sending = Unsent
       /\ UNCHANGED <<channel, queued, motion, stop, current, worker, guest, lost>>
       /\ ui' \in Interfaces /\ ui'.todo = calls /\ ui'.held = NothingHeld
       /\ ui'.sending = ui.sending /\ ui'.gesture = ui.gesture /\ ui'.moved = ui.moved
       /\ ~ui'.open /\ ui'.forgot = ui.forgot
  BY <1>7, <1>10, <1>11, HandleIs
<1>13. \A i \in 1 .. Len(ui'.todo) :
         \/ ui'.todo[i] = Clear
         \/ ui'.todo[i] = Call("stop", NoJob) /\ i = Len(ui'.todo) /\ ~ui'.open
         \/ \E d \in Devices, k \in Nat : ui'.todo[i] = ReleaseOf(d, k) /\ ~ui'.held[d] /\ k = 0
  <2> SUFFICES ASSUME NEW i \in 1 .. Len(calls), calls[i] # Clear, i # Len(calls)
               PROVE  \E d \in Devices, k \in Nat :
                         calls[i] = ReleaseOf(d, k) /\ ~ui'.held[d] /\ k = 0
    BY <1>4, <1>7, <1>12
  <2>1. i \in 1 .. Len(all) /\ calls[i] = all[i]
    BY <1>7
  <2>2. all[i] \in Elems(all)
    BY <2>1 DEF Elems
  <2>3. PICK d \in Devices : all[i] = ReleaseOf(d, 0)
    BY <1>3, <2>1, <2>2
  <2> QED
    BY <1>12, <2>1, <2>3, NothingHeldIs
<1>14. \A d \in Devices : ui.held[d] => \E k \in Nat : ReleaseOf(d, k) \in Elems(ui'.todo)
  <2> SUFFICES ASSUME NEW d \in Devices, ui.held[d] PROVE ReleaseOf(d, 0) \in Elems(calls)
    BY <1>12
  <2>1. PICK i \in 1 .. Len(all) : all[i] = ReleaseOf(d, 0)
    BY <1>3 DEF Elems
  <2>2. i \in 1 .. Len(calls) /\ calls[i] = ReleaseOf(d, 0)
    BY <1>7, <2>1
  <2> QED
    BY <2>2 DEF Elems
<1>15. ui'.todo # <<>> /\ Head(ui'.todo) \in {Flush, Clear} /\ ui'.sending = Unsent
  BY <1>7, <1>8, <1>12
<1>16. Excused \subseteq Excused' /\ \A d \in Devices : ~ui'.held[d]
  BY <1>12, ExcusedStays, NothingHeldIs
<1> QED
  BY <1>12, <1>13, <1>14, <1>15, <1>16, ReleasesKeep

-----------------------------------------------------------------------------
(* GuestFollowsInput.                                                       *)

LEMMA InputStarts == InputInit => InputInv
<1> SUFFICES ASSUME InputInit PROVE InputInv
  OBVIOUS
<1>1. /\ ui = [held |-> [d \in Devices |-> FALSE], frame |-> FALSE, open |-> TRUE,
               forgot |-> FALSE, clock |-> 0, gesture |-> 0, moved |-> 0, todo |-> <<>>, sending |-> Unsent]
      /\ channel = <<>> /\ queued = 0 /\ motion = NoJob /\ stop = FALSE /\ current = TRUE
      /\ worker = [at |-> "connect", job |-> NoJob]
      /\ guest = [held |-> [d \in Devices |-> FALSE], ended |-> 0, moved |-> 0] /\ lost = {}
  BY DEF InputInit
<1>2. [d \in Devices |-> FALSE] \in [Devices -> BOOLEAN]
  OBVIOUS
<1>3. ui \in Interfaces
  BY <1>1, <1>2 DEF Interfaces
<1>4. /\ ui.todo = <<>> /\ ui.sending = Unsent /\ ui.gesture = 0
      /\ \A d \in Devices : ~ui.held[d]
      /\ worker.at = "connect" /\ worker.job = NoJob
      /\ guest.ended = 0 /\ \A d \in Devices : ~guest.held[d]
  BY <1>1
<1>5. Len(ui.todo) = 0 /\ Len(channel) = 0 /\ "touch" \in Devices
  BY <1>1, <1>4 DEF Devices
<1>6. Unsent.job = NoJob /\ ~Unsent.counted
  BY DEF Unsent
<1>7. \A d \in Devices : ~Presses(NoJob, d) /\ ~Lifts(NoJob, d)
  BY DEF NoJob, Devices, Presses, Lifts
<1>8. ~Contact(NoJob) /\ ~Lift(NoJob)
  BY <1>5, <1>7 DEF Contact, Lift
<1>9. InputTypes
  <2>1. worker \in WorkerRecords
    BY <1>1 DEF WorkerRecords, Living
  <2>2. guest \in GuestRecords
    BY <1>1, <1>2 DEF GuestRecords
  <2>3. worker.at \notin Working
    BY <1>4 DEF Working
  <2>4. channel \in Seq(Entries) /\ queued \in Nat
    BY <1>1
  <2>5. motion \in InputJobs \cup {NoJob} /\ stop \in BOOLEAN /\ current \in BOOLEAN
    BY <1>1
  <2> QED
    BY <1>3, <1>4, <2>1, <2>2, <2>3, <2>4, <2>5 DEF InputTypes
<1>10. CountMatchesQueue
  BY <1>1, <1>4, <1>6, CountedEmpty DEF CountMatchesQueue
<1>11. TodoInv /\ SendingInv /\ StopInv /\ MotionInv /\ PromotedInv
  BY <1>1, <1>4, <1>5 DEF TodoInv, SendingInv, StopInv, MotionInv, PromotedInv
<1>12. HoldInv
  BY <1>4, <1>5, <1>7 DEF HoldInv, Covered
<1>13. GestureInv
  BY <1>1, <1>4, <1>5, <1>6, <1>8 DEF GestureInv, Over
<1>14. MoveInv
  BY <1>4, <1>5, <1>6, <1>8 DEF MoveInv
<1> QED
  BY <1>9, <1>10, <1>11, <1>12, <1>13, <1>14 DEF InputInv

LEMMA InputInvSuffices == InputInv => GuestFollowsInput
<1> SUFFICES ASSUME InputInv PROVE GuestFollowsInput
  OBVIOUS
<1> USE DEF InputInv
<1>1. QuiescentGuestAgrees
  <2> SUFFICES ASSUME channel = <<>>, ui.todo = <<>>, worker.at \in {"poll", "slot"},
                      NEW d \in Devices \ Excused, ~ui.held[d]
               PROVE  ~guest.held[d]
    BY DEF QuiescentGuestAgrees, Excused
  <2>1. Lives /\ worker.job = NoJob
    BY DEF InputTypes, Lives, Living, Working
  <2>2. Len(channel) = 0 /\ Len(ui.todo) = 0
    OBVIOUS
  <2>3. Covered(d)
    BY <2>1, <2>2 DEF HoldInv, Releasing
  <2>4. ~LiftComes(d, 0) /\ ~Lifts(NoJob, d)
    BY <2>2 DEF LiftComes, Lifts, NoJob, Devices
  <2> QED
    BY <2>1, <2>3, <2>4 DEF Covered
<1>2. ReleaseEndsGesture
  <2> SUFFICES ASSUME worker.at \in {"run", "retry"}, worker.job.dev = "touch", "touch" \notin lost
               PROVE  IF worker.job.held THEN worker.job.gesture > guest.ended
                                         ELSE guest.moved >= worker.job.after
    BY DEF ReleaseEndsGesture
  <2>1. Lives
    BY DEF Lives, Living, Working
  <2>2. worker.job.held => guest.ended < worker.job.gesture
    BY DEF GestureInv, Contact, Presses
  <2>3. ~worker.job.held => guest.moved >= worker.job.after
    BY <2>1 DEF MoveInv, Lift, Lifts
  <2>4. worker.job \in InputJobs /\ guest.ended \in Nat
    BY DEF InputTypes, WorkerRecords, GuestRecords, NoJob, Working
  <2>5. worker.job.gesture \in Nat
    BY <2>4 DEF InputJobs
  <2> QED
    BY <2>2, <2>3, <2>4, <2>5
<1> QED
  BY <1>1, <1>2 DEF GuestFollowsInput

LEMMA InputStays == InputInv /\ UNCHANGED inputVars => InputInv'
<1> SUFFICES ASSUME InputInv, UNCHANGED inputVars PROVE InputInv'
  OBVIOUS
<1>1. UNCHANGED <<ui, channel, queued, motion, stop, current, worker, guest, lost>>
  BY DEF inputVars
<1>2. HandsOver
  BY <1>1 DEF HandsOver
<1>3. /\ worker' \in WorkerRecords /\ (worker'.at \in Working <=> worker'.job # NoJob)
      /\ stop' \in BOOLEAN /\ current' \in BOOLEAN
  BY <1>1 DEF InputInv, InputTypes
<1> QED
  BY <1>1, <1>2, <1>3, WorkerGoes DEF Lives

LEMMA InputAlways == InputSpec => []InputInv
<1>1. InputInit => InputInv
  BY InputStarts
<1>2. InputInv /\ [InputNext]_inputVars => InputInv'
  <2> SUFFICES ASSUME InputInv, [InputNext]_inputVars PROVE InputInv'
    OBVIOUS
  <2>1. CASE Handler
    BY <2>1, DragBeginKeeps, DragUpdateKeeps, DragEndKeeps, DragCancelKeeps, MouseMotionKeeps,
       RightPressedKeeps, RightReleasedKeeps, CommitTextKeeps, KeyPressedKeeps, KeyReleasedKeeps,
       FocusLeaveKeeps, DetachKeeps, FrameMetaKeeps DEF Handler
  <2>2. CASE Dispatch
    BY <2>2, DispatchKeeps
  <2>3. CASE Receive
    BY <2>3, ReceiveKeeps
  <2>4. CASE TakeMotion
    BY <2>4, TakeMotionKeeps
  <2>5. CASE Drain
    BY <2>5, DrainKeeps
  <2>6. CASE UNCHANGED inputVars
    BY <2>6, InputStays
  <2>7. CASE \/ Connect \/ FoundEmpty \/ SendersGone \/ CheckStop \/ Executed \/ ExecuteFails
             \/ Reconnected \/ GivesUp \/ CloseWorker \/ DropReceiver \/ RouteChanges
    BY <2>7, WorkerKeeps
  <2> QED
    BY <2>1, <2>2, <2>3, <2>4, <2>5, <2>6, <2>7 DEF InputNext, WorkerStep
<1> QED
  BY <1>1, <1>2, PTL DEF InputSpec

\* Whatever the handlers, the two queues, failed RPCs and route changes do, the
\* count of the reliable queue is exact, an engine with nothing left to come
\* holds nothing pressed that the user does not (a device with a lost event and
\* a right button let go without a frame apart), and the release of a touch
\* comes last, after the motion it promoted (ui/input.rs).
THEOREM GuestFollowsInputCorrect == InputSpec => []GuestFollowsInput
<1>1. InputSpec => []InputInv
  BY InputAlways
<1>2. InputInv => GuestFollowsInput
  BY InputInvSuffices
<1> QED
  BY <1>1, <1>2, PTL


-----------------------------------------------------------------------------
(* The numbers the bounds of a behaviour give: the type of its jobs.         *)

Small(job) ==
  job \in InputJobs =>
    job.at <= MaxHandlers /\ job.gesture <= MaxHandlers /\ job.after <= MaxHandlers
SmallCalls(s) == \A c \in Elems(s) : Small(c.job)

InputFits ==
  /\ ui.clock <= MaxHandlers /\ ui.gesture <= ui.clock /\ ui.moved <= MaxHandlers
  /\ SmallCalls(ui.todo) /\ Small(ui.sending.job)
  /\ \A i \in 1 .. Len(channel) : Small(channel[i].job)
  /\ Small(motion) /\ queued <= MaxReliable

LEMMA NoJobIsSmall == Small(NoJob) /\ NoJob \notin InputJobs
BY DEF Small, NoJob, InputJobs

LEMMA JobIsSmall ==
  ASSUME ui \in Interfaces, InputFits, ui.clock < MaxHandlers,
         NEW dev \in Devices \cup {"text"}, NEW held \in BOOLEAN, NEW after \in 0 .. MaxHandlers
  PROVE  /\ Job(dev, held, after) \in InputJobs /\ Small(Job(dev, held, after))
         /\ Job(dev, held, after).at <= MaxHandlers /\ Job(dev, held, after).after = after
         /\ Job(dev, held, after).gesture <= ui.gesture
<1>1. /\ ui.clock + 1 \in Nat /\ ui.gesture \in Nat /\ 0 \in Nat /\ after \in Nat
      /\ ui.clock + 1 <= MaxHandlers /\ ui.gesture <= MaxHandlers /\ 0 <= MaxHandlers
      /\ after <= MaxHandlers
  BY InputBounds DEF Interfaces, InputFits
<1> DEFINE at == IF dev = "touch" THEN ui.clock + 1 ELSE 0
           gesture == IF dev = "touch" THEN ui.gesture ELSE 0
<1>2. /\ at \in Nat /\ gesture \in Nat /\ at <= MaxHandlers /\ gesture <= MaxHandlers
      /\ gesture <= ui.gesture
  BY <1>1
<1>3. Job(dev, held, after) =
        [dev |-> dev, held |-> held, at |-> at, gesture |-> gesture, after |-> after]
  BY DEF Job
<1> HIDE DEF at, gesture
<1> QED
  BY <1>1, <1>2, <1>3 DEF InputJobs, Small

LEMMA OneCallIsSmall ==
  ASSUME NEW c \in Calls, Small(c.job)
  PROVE  <<c>> \in Seq(Calls) /\ SmallCalls(<<c>>)
BY ElemsOfOne DEF SmallCalls

LEMMA ConcatIsSmall ==
  ASSUME NEW s \in Seq(Calls), NEW t \in Seq(Calls), SmallCalls(s), SmallCalls(t)
  PROVE  s \o t \in Seq(Calls) /\ SmallCalls(s \o t)
BY ElemsOfConcat DEF SmallCalls

LEMMA NoCallIsSmall == <<>> \in Seq(Calls) /\ SmallCalls(<<>>)
BY DEF SmallCalls, Elems

LEMMA ControlIsSmall ==
  /\ <<Flush>> \in Seq(Calls) /\ SmallCalls(<<Flush>>)
  /\ <<Clear>> \in Seq(Calls) /\ SmallCalls(<<Clear>>)
  /\ Call("stop", NoJob) \in Calls /\ Small(Call("stop", NoJob).job)
<1>1. \A op : Call(op, NoJob).job = NoJob
  BY DEF Call
<1>2. Flush \in Calls /\ Clear \in Calls /\ Call("stop", NoJob) \in Calls
  BY DEF Flush, Clear, Call, Calls
<1>3. Small(Flush.job) /\ Small(Clear.job) /\ Small(Call("stop", NoJob).job)
  BY <1>1, NoJobIsSmall DEF Flush, Clear
<1> QED
  BY <1>2, <1>3, OneCallIsSmall

LEMMA ReleaseIsSmall ==
  ASSUME ui \in Interfaces, InputFits, ui.clock < MaxHandlers,
         NEW dev \in Devices, NEW after \in 0 .. MaxHandlers
  PROVE  Release(dev, after) \in Seq(Calls) /\ SmallCalls(Release(dev, after))
<1>1. Job(dev, FALSE, after) \in InputJobs /\ Small(Job(dev, FALSE, after))
  BY JobIsSmall
<1> HIDE DEF Job
<1>2. PICK c : c = Call("critical", Job(dev, FALSE, after))
  OBVIOUS
<1>3. c \in Calls /\ Small(c.job)
  BY <1>1, <1>2 DEF Call, Calls
<1> QED
  BY <1>2, <1>3, OneCallIsSmall DEF Release

LEMMA ReleaseIfIsSmall ==
  ASSUME ui \in Interfaces, InputFits, ui.clock < MaxHandlers,
         NEW dev \in Devices, NEW after \in 0 .. MaxHandlers, NEW pressed
  PROVE  ReleaseIf(pressed, dev, after) \in Seq(Calls) /\ SmallCalls(ReleaseIf(pressed, dev, after))
BY ReleaseIsSmall, NoCallIsSmall DEF ReleaseIf

LEMMA ReleaseAllIsSmall ==
  ASSUME ui \in Interfaces, InputFits, ui.clock < MaxHandlers
  PROVE  ReleaseAll \in Seq(Calls) /\ SmallCalls(ReleaseAll)
<1>1. ReleaseAll \in Seq(Calls)
  BY ReleaseAllIs
<1>2. 0 \in 0 .. MaxHandlers
  BY InputBounds
<1>3. ASSUME NEW c \in Elems(ReleaseAll) PROVE Small(c.job)
  <2>1. CASE c = Clear
    BY <2>1, NoJobIsSmall DEF Clear, Call
  <2>2. CASE c # Clear
    <3>1. PICK d \in Devices : c = ReleaseOf(d, 0)
      BY <2>2, ReleaseAllIs
    <3>2. Small(Job(d, FALSE, 0))
      BY <1>2, JobIsSmall
    <3> HIDE DEF Job
    <3>3. c.job = Job(d, FALSE, 0)
      BY <3>1 DEF ReleaseOf, Call
    <3> QED
      BY <3>2, <3>3
  <2> QED
    BY <2>1, <2>2
<1> QED
  BY <1>1, <1>3 DEF SmallCalls

\* What a handler leaves.
LEMMA HandleFits ==
  ASSUME InputInv, InputFits, NEW changed \in Interfaces, NEW calls \in Seq(Calls),
         Handle(changed, calls), SmallCalls(calls),
         changed.clock = ui.clock, changed.gesture \in {ui.gesture, ui.gesture + 1},
         changed.moved \in {0, ui.moved}, changed.sending = ui.sending
  PROVE  InputFits'
<1>1. ui' = [changed EXCEPT !.clock = changed.clock + 1, !.todo = calls] /\ ui.clock < MaxHandlers
  BY DEF Handle, Interfaces
<1>2. /\ ui'.clock = ui.clock + 1 /\ ui'.todo = calls /\ ui'.sending = ui.sending
      /\ ui'.gesture = changed.gesture /\ ui'.moved = changed.moved
  BY <1>1 DEF Interfaces
<1>3. ui \in Interfaces /\ ui.clock \in Nat /\ ui.gesture \in Nat /\ ui.moved \in Nat
  BY DEF InputInv, InputTypes, Interfaces
<1>4. ui'.clock <= MaxHandlers /\ ui'.gesture <= ui'.clock /\ ui'.moved <= MaxHandlers
  BY <1>1, <1>2, <1>3, InputBounds DEF InputFits
<1>5. UNCHANGED <<channel, queued, motion>>
  BY DEF Handle, queueVars
<1> QED
  BY <1>2, <1>4, <1>5 DEF InputFits

LEMMA HandlerFits ==
  ASSUME InputInv, InputFits, Handler
  PROVE  InputFits'
<1>1. /\ ui \in Interfaces /\ ui.moved \in 0 .. MaxHandlers /\ ui.gesture \in Nat
      /\ 0 \in 0 .. MaxHandlers
  BY InputBounds DEF InputInv, InputTypes, Interfaces, InputFits
<1>2. ASSUME NEW changed, NEW calls, Handle(changed, calls) PROVE ui.clock < MaxHandlers
  BY <1>2 DEF Handle
<1>3. ASSUME NEW h \in [Devices -> BOOLEAN], NEW open \in BOOLEAN
      PROVE  /\ [ui EXCEPT !.held = h] \in Interfaces
             /\ [ui EXCEPT !.held = h].clock = ui.clock
             /\ [ui EXCEPT !.held = h].gesture = ui.gesture
             /\ [ui EXCEPT !.held = h].moved = ui.moved
             /\ [ui EXCEPT !.held = h].sending = ui.sending
             /\ [ui EXCEPT !.held = h, !.open = open] \in Interfaces
             /\ [ui EXCEPT !.held = h, !.open = open].clock = ui.clock
             /\ [ui EXCEPT !.held = h, !.open = open].gesture = ui.gesture
             /\ [ui EXCEPT !.held = h, !.open = open].moved = ui.moved
             /\ [ui EXCEPT !.held = h, !.open = open].sending = ui.sending
  BY <1>1 DEF Interfaces
<1>4. ASSUME NEW d \in Devices, NEW b \in BOOLEAN
      PROVE  [ui.held EXCEPT ![d] = b] \in [Devices -> BOOLEAN]
  BY <1>1 DEF Interfaces
<1>5. "touch" \in Devices /\ "key" \in Devices /\ "right" \in Devices
  BY DEF Devices
<1>6. ASSUME NEW op \in {"reliable", "replace"}, NEW job \in InputJobs, Small(job)
      PROVE  <<Call(op, job)>> \in Seq(Calls) /\ SmallCalls(<<Call(op, job)>>)
  <2>1. Call(op, job) \in Calls /\ Call(op, job).job = job
    BY DEF Call, Calls
  <2> QED
    BY <1>6, <2>1, OneCallIsSmall
<1>7. ASSUME NEW d \in Devices, NEW h \in BOOLEAN, NEW b \in BOOLEAN, NEW op \in {"reliable", "replace"},
             Handle([ui EXCEPT !.held = [ui.held EXCEPT ![d] = h]], <<Call(op, Job(d, b, 0))>>)
      PROVE  InputFits'
  <2>1. Job(d, b, 0) \in InputJobs /\ Small(Job(d, b, 0))
    BY <1>1, <1>2, <1>7, JobIsSmall
  <2> HIDE DEF Job
  <2>2. /\ <<Call(op, Job(d, b, 0))>> \in Seq(Calls)
        /\ SmallCalls(<<Call(op, Job(d, b, 0))>>)
    BY <1>6, <2>1
  <2> QED
    BY <1>3, <1>4, <1>7, <2>2, HandleFits
<1>8. ASSUME NEW d \in Devices \cup {"text"}, NEW b \in BOOLEAN, NEW op \in {"reliable", "replace"},
             Handle(ui, <<Call(op, Job(d, b, 0))>>)
      PROVE  InputFits'
  <2>1. Job(d, b, 0) \in InputJobs /\ Small(Job(d, b, 0))
    BY <1>1, <1>2, <1>8, JobIsSmall
  <2> HIDE DEF Job
  <2>2. /\ <<Call(op, Job(d, b, 0))>> \in Seq(Calls)
        /\ SmallCalls(<<Call(op, Job(d, b, 0))>>)
    BY <1>6, <2>1
  <2> QED
    BY <1>1, <1>8, <2>2, HandleFits
<1>9. CASE DragBegin
  <2>1. PICK j : j = Job("touch", TRUE, 0)
    OBVIOUS
  <2>2. PICK job : job = [j EXCEPT !.gesture = j.gesture + 1]
    OBVIOUS
  <2>3. PICK h : h = [ui.held EXCEPT !["touch"] = TRUE]
    OBVIOUS
  <2>4. PICK changed : changed = [ui EXCEPT !.held = h, !.gesture = ui.gesture + 1, !.moved = 0]
    OBVIOUS
  <2>5. Handle(changed, <<Call("reliable", job)>>)
    <3>1. changed = [ui EXCEPT !.held["touch"] = TRUE, !.gesture = @ + 1, !.moved = 0]
      BY <1>1, <2>3, <2>4 DEF Interfaces
    <3> QED
      BY <1>9, <2>1, <2>2, <3>1 DEF DragBegin
  <2>6. ui.clock < MaxHandlers
    BY <1>2, <2>5
  <2>7. j \in InputJobs /\ j.at <= MaxHandlers /\ j.after = 0 /\ j.gesture <= ui.gesture
    BY <1>1, <1>5, <2>1, <2>6, JobIsSmall
  <2>8. /\ j.gesture \in Nat /\ j.gesture + 1 \in Nat /\ ui.gesture + 1 \in Nat
        /\ j.gesture + 1 <= ui.gesture + 1
    BY <1>1, <2>7 DEF InputJobs
  <2>9. ui.gesture + 1 <= MaxHandlers
    BY <1>1, <2>6, InputBounds DEF InputFits, Interfaces
  <2>10. /\ job \in InputJobs /\ job.at = j.at /\ job.after = j.after
         /\ job.gesture = j.gesture + 1
    BY <2>2, <2>7, <2>8 DEF InputJobs
  <2>11. Small(job)
    BY <2>7, <2>8, <2>9, <2>10, InputBounds DEF Small
  <2>12. h \in [Devices -> BOOLEAN]
    BY <1>4, <1>5, <2>3
  <2>13. /\ changed \in Interfaces /\ changed.clock = ui.clock
         /\ changed.gesture = ui.gesture + 1 /\ changed.moved = 0 /\ changed.sending = ui.sending
    BY <1>1, <2>4, <2>8, <2>12 DEF Interfaces
  <2> QED
    BY <1>6, <2>5, <2>10, <2>11, <2>13, HandleFits
<1>10. CASE DragUpdate \/ MouseMotion \/ CommitText
  <2>1. PICK d \in Devices \cup {"text"}, b \in BOOLEAN, op \in {"reliable", "replace"} :
             Handle(ui, <<Call(op, Job(d, b, 0))>>)
    <3>1. ui.held["right"] \in BOOLEAN
      BY <1>1, <1>5 DEF Interfaces
    <3> HIDE DEF Job, Call, Handle
    <3>2. CASE DragUpdate
      <4>1. Handle(ui, <<Call("replace", Job("touch", TRUE, 0))>>)
        BY <3>2 DEF DragUpdate
      <4> QED
        BY <1>5, <4>1
    <3>3. CASE MouseMotion
      BY <3>3, <3>1, <1>5 DEF MouseMotion
    <3>4. CASE CommitText
      BY <3>4 DEF CommitText
    <3> QED
      BY <1>10, <3>2, <3>3, <3>4
  <2> QED
    BY <1>8, <2>1
<1>11. CASE KeyPressed
  <2>1. Handle([ui EXCEPT !.held = [ui.held EXCEPT !["key"] = TRUE]],
               <<Call("reliable", Job("key", TRUE, 0))>>)
    BY <1>11 DEF KeyPressed
  <2> QED
    BY <1>5, <1>7, <2>1
<1>12. ASSUME NEW d \in Devices, NEW h \in BOOLEAN, NEW calls \in Seq(Calls), SmallCalls(calls),
              Handle([ui EXCEPT !.held = [ui.held EXCEPT ![d] = h]], calls)
       PROVE  InputFits'
  BY <1>3, <1>4, <1>12, HandleFits
<1>f. ASSUME NEW h \in BOOLEAN, NEW b \in BOOLEAN, NEW calls \in Seq(Calls), SmallCalls(calls),
             Handle([ui EXCEPT !.held = [ui.held EXCEPT !["right"] = h], !.forgot = b], calls)
      PROVE  InputFits'
  <2>1. PICK held : held = [ui.held EXCEPT !["right"] = h]
    OBVIOUS
  <2>2. PICK changed : changed = [ui EXCEPT !.held = held, !.forgot = b]
    OBVIOUS
  <2>3. held \in [Devices -> BOOLEAN]
    BY <1>4, <1>5, <2>1
  <2>4. /\ changed \in Interfaces /\ changed.clock = ui.clock /\ changed.gesture = ui.gesture
        /\ changed.moved = ui.moved /\ changed.sending = ui.sending
    BY <1>1, <2>2, <2>3 DEF Interfaces
  <2>5. Handle(changed, calls)
    BY <1>f, <2>1, <2>2
  <2> QED
    BY <1>f, <2>4, <2>5, HandleFits
<1>13. CASE RightPressed
  <2>1. Handle([ui EXCEPT !.held = [ui.held EXCEPT !["right"] = TRUE], !.forgot = FALSE],
               <<Clear, Call("reliable", Job("right", TRUE, 0))>>)
    BY <1>13 DEF RightPressed
  <2>2. Job("right", TRUE, 0) \in InputJobs /\ Small(Job("right", TRUE, 0))
    BY <1>1, <1>2, <1>5, <2>1, JobIsSmall
  <2>3. PICK c : c = Call("reliable", Job("right", TRUE, 0))
    OBVIOUS
  <2>4. <<c>> \in Seq(Calls) /\ SmallCalls(<<c>>)
    BY <1>6, <2>2, <2>3
  <2>5. <<Clear>> \o <<c>> \in Seq(Calls) /\ SmallCalls(<<Clear>> \o <<c>>)
    BY <2>4, ControlIsSmall, ConcatIsSmall
  <2>6. <<Clear>> \o <<c>> = <<Clear, c>>
    <3>1. Clear \in Calls /\ c \in Calls
      BY <2>2, <2>3 DEF Clear, Call, Calls
    <3> QED
      BY <3>1, TwoCalls
  <2> QED
    BY <1>f, <2>1, <2>3, <2>5, <2>6
<1>14. CASE RightReleased
  <2>1. PICK calls : calls = <<Flush>> \o ReleaseIf(ui.frame, "right", 0)
    OBVIOUS
  <2>2. PICK b \in BOOLEAN : b = (~ui.frame /\ (ui.held["right"] \/ ui.forgot))
    OBVIOUS
  <2>3. Handle([ui EXCEPT !.held = [ui.held EXCEPT !["right"] = FALSE], !.forgot = b], calls)
    BY <1>14, <2>1, <2>2 DEF RightReleased
  <2>4. calls \in Seq(Calls) /\ SmallCalls(calls)
    BY <1>1, <1>2, <1>5, <2>1, <2>3, ReleaseIfIsSmall, ControlIsSmall, ConcatIsSmall
  <2> QED
    BY <1>f, <2>3, <2>4
<1>15. CASE KeyReleased
  <2>1. Handle([ui EXCEPT !.held = [ui.held EXCEPT !["key"] = FALSE]], Release("key", 0))
    BY <1>15 DEF KeyReleased
  <2>2. Release("key", 0) \in Seq(Calls) /\ SmallCalls(Release("key", 0))
    BY <1>1, <1>2, <1>5, <2>1, ReleaseIsSmall
  <2> QED
    BY <1>5, <1>12, <2>1, <2>2
<1>16. CASE DragEnd \/ DragCancel
  <2>1. PICK first \in {<<Flush>>, <<Clear>>}, k \in {0, ui.moved} :
             Handle([ui EXCEPT !.held = [ui.held EXCEPT !["touch"] = FALSE]],
                    first \o ReleaseIf(ui.held["touch"], "touch", k))
    BY <1>16 DEF DragEnd, DragCancel
  <2>2. ReleaseIf(ui.held["touch"], "touch", k) \in Seq(Calls)
        /\ SmallCalls(ReleaseIf(ui.held["touch"], "touch", k))
    BY <1>1, <1>2, <1>5, <2>1, ReleaseIfIsSmall
  <2>3. PICK t : t = ReleaseIf(ui.held["touch"], "touch", k)
    OBVIOUS
  <2>4. first \o t \in Seq(Calls) /\ SmallCalls(first \o t)
    BY <2>2, <2>3, ControlIsSmall, ConcatIsSmall
  <2> QED
    BY <1>5, <1>12, <2>1, <2>3, <2>4
<1>17. CASE FocusLeave
  <2>1. Handle([ui EXCEPT !.held = NothingHeld], ReleaseAll)
    BY <1>17 DEF FocusLeave
  <2>2. ReleaseAll \in Seq(Calls) /\ SmallCalls(ReleaseAll)
    BY <1>1, <1>2, <2>1, ReleaseAllIsSmall
  <2> QED
    BY <1>3, <2>1, <2>2, NothingHeldIs, HandleFits
<1>18. CASE Detach
  <2>1. Handle([ui EXCEPT !.held = NothingHeld, !.open = FALSE],
               Append(ReleaseAll, Call("stop", NoJob)))
    BY <1>18 DEF Detach
  <2>2. ReleaseAll \in Seq(Calls) /\ SmallCalls(ReleaseAll)
    BY <1>1, <1>2, <2>1, ReleaseAllIsSmall
  <2>3. PICK all : all = ReleaseAll
    OBVIOUS
  <2>4. PICK c : c = Call("stop", NoJob)
    OBVIOUS
  <2>5. Append(all, c) \in Seq(Calls) /\ SmallCalls(Append(all, c))
    <3>1. c \in Calls /\ Small(c.job) /\ all \in Seq(Calls) /\ SmallCalls(all)
      BY <2>2, <2>3, <2>4, ControlIsSmall
    <3>2. Append(all, c) = all \o <<c>>
      BY <3>1, AppendIsConcat
    <3>3. <<c>> \in Seq(Calls) /\ SmallCalls(<<c>>)
      BY <3>1, OneCallIsSmall
    <3> QED
      BY <3>1, <3>2, <3>3, ConcatIsSmall
  <2> QED
    BY <1>3, <2>1, <2>3, <2>4, <2>5, NothingHeldIs, HandleFits
<1>19. CASE FrameMeta
  <2>1. /\ ui' = [ui EXCEPT !.frame = ~ui.frame] /\ UNCHANGED <<channel, queued, motion>>
    BY <1>19 DEF FrameMeta, queueVars
  <2>2. /\ ui'.clock = ui.clock /\ ui'.todo = ui.todo /\ ui'.sending = ui.sending
        /\ ui'.gesture = ui.gesture /\ ui'.moved = ui.moved
    BY <1>1, <2>1 DEF Interfaces
  <2> QED
    BY <2>1, <2>2 DEF InputFits
<1> QED
  BY <1>9, <1>10, <1>11, <1>13, <1>14, <1>15, <1>16, <1>17, <1>18, <1>19 DEF Handler

\* What the dispatcher's calls leave.
LEMMA DispatchFits ==
  ASSUME InputInv, InputFits, Dispatch
  PROVE  InputFits'
<1>1. /\ ui \in Interfaces /\ ui.todo \in Seq(Calls) /\ channel \in Seq(Entries) /\ queued \in Nat
      /\ ui.clock \in Nat /\ ui.gesture \in Nat /\ ui.moved \in Nat
      /\ ui.sending \in Entries \cup {Unsent}
  BY DEF InputInv, InputTypes, Interfaces
<1>2. ASSUME ui.todo # <<>>
      PROVE  /\ Small(Head(ui.todo).job) /\ SmallCalls(Tail(ui.todo))
             /\ CallInv(1, Head(ui.todo))
             /\ Next1 = [ui EXCEPT !.todo = Tail(ui.todo)]
             /\ Tail(ui.todo) \in Seq(Calls)
  <2>1. /\ 1 \in 1 .. Len(ui.todo) /\ Head(ui.todo) = ui.todo[1] /\ Tail(ui.todo) \in Seq(Calls)
        /\ \A i \in 1 .. Len(Tail(ui.todo)) :
             i + 1 \in 1 .. Len(ui.todo) /\ Tail(ui.todo)[i] = ui.todo[i + 1]
    BY <1>1, <1>2
  <2>2. \A i \in 1 .. Len(ui.todo) : Small(ui.todo[i].job)
    BY DEF InputFits, SmallCalls, Elems
  <2>3. SmallCalls(Tail(ui.todo))
    BY <2>1, <2>2 DEF SmallCalls, Elems
  <2> QED
    BY <1>1, <1>2, <2>1, <2>2, <2>3, CallIs DEF Next1, Interfaces
<1>3. ASSUME ui.todo # <<>>, NEW h \in [Devices -> BOOLEAN]
      PROVE  /\ Next1 \in Interfaces /\ [Next1 EXCEPT !.held = h] \in Interfaces
             /\ \A n \in {Next1, [Next1 EXCEPT !.held = h]} :
                  /\ n.todo = Tail(ui.todo) /\ n.clock = ui.clock /\ n.gesture = ui.gesture
                  /\ n.moved = ui.moved /\ n.sending = ui.sending
  <2>1. PICK t : t = Tail(ui.todo)
    OBVIOUS
  <2>2. Next1 = [ui EXCEPT !.todo = t] /\ t \in Seq(Calls)
    BY <1>2, <1>3, <2>1
  <2> QED
    BY <1>1, <2>1, <2>2 DEF Interfaces
<1>4. ASSUME ui.todo # <<>>, NEW job
      PROVE  \E h \in [Devices -> BOOLEAN] :
               Refused(job) \in {Next1, [Next1 EXCEPT !.held = h]}
  <2>1. Next1.held \in [Devices -> BOOLEAN] /\ "touch" \in Devices /\ Next1 \in Interfaces
    BY <1>1, <1>3, <1>4 DEF Interfaces, Devices
  <2>2. PICK h : h = [Next1.held EXCEPT !["touch"] = FALSE]
    OBVIOUS
  <2>3. h \in [Devices -> BOOLEAN]
    BY <2>1, <2>2
  <2>4. Refused(job) \in {Next1, [Next1 EXCEPT !.held = h]}
    BY <2>1, <2>2 DEF Refused, Interfaces
  <2> QED
    BY <2>3, <2>4
<1>5. Small(Unsent.job)
  BY NoJobIsSmall DEF Unsent
<1>6. ASSUME ui' \in Interfaces, ui'.clock = ui.clock, ui'.gesture = ui.gesture,
             ui'.moved <= MaxHandlers, SmallCalls(ui'.todo), Small(ui'.sending.job),
             \A i \in 1 .. Len(channel') : Small(channel'[i].job),
             motion' = motion \/ Small(motion'), queued' <= MaxReliable
      PROVE  InputFits'
  BY <1>6 DEF InputFits
<1>7. /\ \A i \in 1 .. Len(channel) : Small(channel[i].job)
      /\ queued <= MaxReliable /\ ui.moved <= MaxHandlers /\ Small(motion)
      /\ Small(ui.sending.job) /\ SmallCalls(ui.todo)
  BY DEF InputFits
<1>8. ASSUME NEW e \in Entries
      PROVE  /\ [ui EXCEPT !.sending = e] \in Interfaces
             /\ [ui EXCEPT !.sending = e].clock = ui.clock
             /\ [ui EXCEPT !.sending = e].gesture = ui.gesture
             /\ [ui EXCEPT !.sending = e].moved = ui.moved
             /\ [ui EXCEPT !.sending = e].todo = ui.todo
             /\ [ui EXCEPT !.sending = e].sending = e
  BY <1>1 DEF Interfaces
<1>9. ASSUME NEW job \in InputJobs
      PROVE  /\ Counted(job) \in Entries /\ Counted(job).job = job
             /\ Uncounted(job) \in Entries /\ Uncounted(job).job = job
  BY DEF Counted, Uncounted, Entries
<1>10. ASSUME ui.todo # <<>>, NEW job, ui' \in {Next1, Refused(job)},
              UNCHANGED <<channel, queued>>, motion' = motion \/ Small(motion')
       PROVE  InputFits'
  <2>1. PICK h \in [Devices -> BOOLEAN] : ui' \in {Next1, [Next1 EXCEPT !.held = h]}
    BY <1>4, <1>10
  <2>2. /\ ui' \in Interfaces /\ ui'.todo = Tail(ui.todo) /\ ui'.clock = ui.clock
        /\ ui'.gesture = ui.gesture /\ ui'.moved = ui.moved /\ ui'.sending = ui.sending
    BY <1>3, <1>10, <2>1
  <2> QED
    BY <1>2, <1>6, <1>7, <1>10, <2>2
<1>11. CASE AdmitReliable
  <2> DEFINE job == Head(ui.todo).job
  <2>1. ui.todo # <<>> /\ Head(ui.todo).op = "reliable" /\ UNCHANGED <<channel, motion>>
    BY <1>11 DEF AdmitReliable, Doing
  <2>2. job \in InputJobs /\ Small(job)
    BY <1>2, <2>1 DEF CallInv
  <2>3. CASE ui' = Refused(job) /\ UNCHANGED queued
    BY <1>10, <2>1, <2>3
  <2>4. CASE ui' = [ui EXCEPT !.sending = Counted(job)] /\ queued' = queued + 1 /\ queued < MaxReliable
    <3>1. queued' <= MaxReliable
      BY <1>1, <2>4, InputBounds
    <3>2. PICK e : e = Counted(job)
      OBVIOUS
    <3>3. e \in Entries /\ e.job = job
      BY <1>9, <2>2, <3>2
    <3> HIDE DEF job
    <3> QED
      BY <1>6, <1>7, <1>8, <2>1, <2>2, <2>4, <3>1, <3>2, <3>3
  <2> QED
    BY <1>11, <2>3, <2>4 DEF AdmitReliable
<1>12. CASE AdmitCritical \/ FlushMotion
  <2>1. ui.todo # <<>> /\ UNCHANGED <<channel, queued>>
    BY <1>12 DEF AdmitCritical, FlushMotion, Doing, queueVars
  <2>2. motion' = motion \/ Small(motion')
    BY <1>12, NoJobIsSmall DEF AdmitCritical, FlushMotion, queueVars
  <2>3. \/ ui' = Next1
        \/ \E job \in InputJobs : Small(job) /\ ui' = [ui EXCEPT !.sending = Uncounted(job)]
    <3>1. CASE AdmitCritical
      <4>1. Head(ui.todo).op = "critical"
        BY <3>1 DEF AdmitCritical, Doing
      <4>2. Head(ui.todo).job \in InputJobs /\ Small(Head(ui.todo).job)
        BY <1>2, <2>1, <4>1 DEF CallInv
      <4> QED
        BY <3>1, <4>2 DEF AdmitCritical
    <3>2. CASE FlushMotion
      <4>1. motion \in InputJobs \cup {NoJob}
        BY DEF InputInv, InputTypes
      <4> QED
        BY <1>7, <3>2, <4>1 DEF FlushMotion
    <3> QED
      BY <1>12, <3>1, <3>2
  <2>4. CASE ui' = Next1
    BY <1>10, <2>1, <2>2, <2>4
  <2>5. ASSUME NEW job \in InputJobs, Small(job), ui' = [ui EXCEPT !.sending = Uncounted(job)]
        PROVE  InputFits'
    <3>1. PICK e : e = Uncounted(job)
      OBVIOUS
    <3>2. e \in Entries /\ e.job = job
      BY <1>9, <3>1
    <3> QED
      BY <1>6, <1>7, <1>8, <2>1, <2>2, <2>5, <3>1, <3>2
  <2> QED
    BY <2>3, <2>4, <2>5
<1>13. CASE SendReliable
  <2>1. ui.sending # Unsent /\ ui.todo # <<>> /\ ui.sending \in Entries /\ motion' = motion
    BY <1>1, <1>13 DEF SendReliable, InputInv, SendingInv
  <2>2. PICK n : /\ ui' = [n EXCEPT !.sending = Unsent]
                 /\ \E h \in [Devices -> BOOLEAN] : n \in {Next1, [Next1 EXCEPT !.held = h]}
    <3>1. \E n \in {Next1, Refused(ui.sending.job)} : ui' = [n EXCEPT !.sending = Unsent]
      BY <1>13 DEF SendReliable
    <3>2. PICK n \in {Next1, Refused(ui.sending.job)} : ui' = [n EXCEPT !.sending = Unsent]
      BY <3>1
    <3>3. PICK h \in [Devices -> BOOLEAN] : n \in {Next1, [Next1 EXCEPT !.held = h]}
      BY <1>4, <2>1, <3>2
    <3> QED
      BY <3>2, <3>3
  <2>3. /\ n \in Interfaces /\ n.todo = Tail(ui.todo) /\ n.clock = ui.clock
        /\ n.gesture = ui.gesture /\ n.moved = ui.moved
    BY <1>3, <2>1, <2>2
  <2>4. /\ ui' \in Interfaces /\ ui'.todo = Tail(ui.todo) /\ ui'.clock = ui.clock
        /\ ui'.gesture = ui.gesture /\ ui'.moved = ui.moved /\ ui'.sending = Unsent
    BY <2>2, <2>3 DEF Interfaces
  <2>5. queued' \in {queued, queued - 1}
    BY <1>13 DEF SendReliable
  <2>6. queued' <= MaxReliable
    BY <1>1, <1>7, <2>5, InputBounds
  <2>7. \A i \in 1 .. Len(channel') : Small(channel'[i].job)
    <3>1. channel' \in {channel, Append(channel, ui.sending)}
      BY <1>13 DEF SendReliable
    <3>2. \A i \in 1 .. Len(Append(channel, ui.sending)) :
             Append(channel, ui.sending)[i] = ui.sending \/
               (i \in 1 .. Len(channel) /\ Append(channel, ui.sending)[i] = channel[i])
      BY <1>1, <2>1
    <3> QED
      BY <1>7, <3>1, <3>2
  <2> QED
    BY <1>2, <1>5, <1>6, <1>7, <2>1, <2>4, <2>6, <2>7
<1>14. CASE ReplaceMotion
  <2> DEFINE job == Head(ui.todo).job
  <2>1. ui.todo # <<>> /\ Head(ui.todo).op = "replace" /\ UNCHANGED <<channel, queued>>
    BY <1>14 DEF ReplaceMotion, Doing
  <2>2. job \in InputJobs /\ Small(job)
    BY <1>2, <2>1 DEF CallInv
  <2>3. motion' \in {job, motion}
    BY <1>14 DEF ReplaceMotion
  <2>4. CASE ui' = Next1
    BY <1>7, <1>10, <2>1, <2>2, <2>3, <2>4
  <2>5. CASE ui' = [Next1 EXCEPT !.moved = job.at]
    <3>1. job.at \in Nat /\ job.at <= MaxHandlers
      BY <2>2 DEF Small, InputJobs
    <3>2. PICK h \in [Devices -> BOOLEAN] : TRUE
      BY <1>1 DEF Interfaces
    <3>3. /\ Next1 \in Interfaces /\ Next1.todo = Tail(ui.todo) /\ Next1.clock = ui.clock
          /\ Next1.gesture = ui.gesture /\ Next1.sending = ui.sending
      BY <1>3, <2>1, <3>2
    <3> HIDE DEF job
    <3>4. /\ ui' \in Interfaces /\ ui'.todo = Tail(ui.todo) /\ ui'.clock = ui.clock
          /\ ui'.gesture = ui.gesture /\ ui'.moved = job.at /\ ui'.sending = ui.sending
      BY <2>5, <3>1, <3>3 DEF Interfaces
    <3> QED
      BY <1>2, <1>6, <1>7, <2>1, <2>2, <2>3, <3>1, <3>4
  <2> QED
    BY <1>14, <2>4, <2>5 DEF ReplaceMotion
<1>15. CASE ClearMotion
  <2>1. /\ ui.todo # <<>> /\ UNCHANGED <<channel, queued>> /\ motion' = NoJob
        /\ ui' = [Next1 EXCEPT !.moved = 0]
    BY <1>15 DEF ClearMotion, Doing
  <2>2. PICK h \in [Devices -> BOOLEAN] : TRUE
    BY <1>1 DEF Interfaces
  <2>3. /\ Next1 \in Interfaces /\ Next1.todo = Tail(ui.todo) /\ Next1.clock = ui.clock
        /\ Next1.gesture = ui.gesture /\ Next1.sending = ui.sending
    BY <1>3, <2>1, <2>2
  <2>4. /\ ui' \in Interfaces /\ ui'.todo = Tail(ui.todo) /\ ui'.clock = ui.clock
        /\ ui'.gesture = ui.gesture /\ ui'.moved = 0 /\ ui'.sending = ui.sending
    BY <2>1, <2>3 DEF Interfaces
  <2> QED
    BY <1>2, <1>6, <1>7, <2>1, <2>4, NoJobIsSmall, InputBounds
<1>16. CASE StopWorker
  <2>1. ui.todo # <<>> /\ ui' = Next1 /\ UNCHANGED <<channel, queued, motion>>
    BY <1>16 DEF StopWorker, Doing
  <2> QED
    BY <1>10, <2>1
<1> QED
  BY <1>11, <1>12, <1>13, <1>14, <1>15, <1>16 DEF Dispatch

\* What the worker leaves.
LEMMA WorkerFits ==
  ASSUME InputInv, InputFits,
         WorkerStep \/ ExecuteFails \/ GivesUp \/ RouteChanges \/ UNCHANGED inputVars
  PROVE  InputFits'
<1>1. channel \in Seq(Entries) /\ queued \in Nat
  BY DEF InputInv, InputTypes
<1>2. ui' = ui
  BY DEF WorkerStep, Connect, Receive, FoundEmpty, SendersGone, TakeMotion, CheckStop, Executed,
         Reconnected, CloseWorker, Drain, DropReceiver, ExecuteFails, GivesUp, RouteChanges, inputVars
<1>3. motion' \in {motion, NoJob}
  BY DEF WorkerStep, Connect, Receive, FoundEmpty, SendersGone, TakeMotion, CheckStop, Executed,
         Reconnected, CloseWorker, Drain, DropReceiver, ExecuteFails, GivesUp, RouteChanges, inputVars,
         queueVars
<1>4. CASE Receive
  <2>1. /\ channel # <<>> /\ channel' = Tail(channel) /\ queued' \in {queued, queued - 1}
    BY <1>4 DEF Receive
  <2>2. queued' <= MaxReliable
    BY <1>1, <2>1, InputBounds DEF InputFits
  <2>3. \A i \in 1 .. Len(channel') : i + 1 \in 1 .. Len(channel) /\ channel'[i] = channel[i + 1]
    BY <1>1, <2>1
  <2> QED
    BY <1>2, <1>3, <2>2, <2>3, NoJobIsSmall DEF InputFits
<1>5. CASE Drain
  <2>1. InputInv'
    BY <1>5, DrainKeeps
  <2>2. channel' = <<>> /\ queued' = CountedIn(channel') + (IF ui'.sending.counted THEN 1 ELSE 0)
    BY <1>5, <2>1 DEF Drain, InputInv, CountMatchesQueue
  <2>3. queued = CountedIn(channel) + (IF ui.sending.counted THEN 1 ELSE 0)
    BY DEF InputInv, CountMatchesQueue
  <2>4. CountedIn(channel) \in Nat
    BY <1>1, PlacesAreFinite, FS_CardinalityType DEF CountedIn, Places
  <2>5. queued' <= queued
    BY <1>1, <1>2, <2>2, <2>3, <2>4, CountedEmpty
  <2>6. queued' \in Nat
    BY <2>1 DEF InputInv, InputTypes
  <2>7. queued' <= MaxReliable
    BY <1>1, <2>5, <2>6, InputBounds DEF InputFits
  <2>8. \A i \in 1 .. Len(channel') : FALSE
    BY <2>2
  <2> QED
    BY <1>2, <1>3, <2>7, <2>8, NoJobIsSmall DEF InputFits
<1>6. CASE ~Receive /\ ~Drain
  <2>1. UNCHANGED <<channel, queued>>
    BY <1>6 DEF WorkerStep, Connect, FoundEmpty, SendersGone, TakeMotion, CheckStop, Executed,
         Reconnected, CloseWorker, DropReceiver, ExecuteFails, GivesUp, RouteChanges, inputVars,
         queueVars
  <2> QED
    BY <1>2, <1>3, <2>1, NoJobIsSmall DEF InputFits
<1> QED
  BY <1>4, <1>5, <1>6

\* The types of what the user holds, of the jobs and of the worker, and the hard
\* cap of the reliable queue (MAX_RELIABLE_QUEUE, ui/input.rs).
LEMMA InputTypeCorrect == InputSpec => []InputTypeOK
<1>1. InputInit => InputFits
  <2> SUFFICES ASSUME InputInit PROVE InputFits
    OBVIOUS
  <2>1. Elems(<<>>) = {} /\ Small(NoJob) /\ Unsent.job = NoJob
    BY NoJobIsSmall DEF Elems, Unsent
  <2> QED
    BY <2>1, InputBounds DEF InputInit, InputFits, SmallCalls
<1>2. InputInv /\ InputFits /\ [InputNext]_inputVars => InputFits'
  BY HandlerFits, DispatchFits, WorkerFits DEF InputNext
<1>3. InputInv /\ InputFits => InputTypeOK
  <2> SUFFICES ASSUME InputInv, InputFits PROVE InputTypeOK
    OBVIOUS
  <2>1. InputTypes
    BY DEF InputInv
  <2>2. ASSUME NEW job \in InputJobs, Small(job) PROVE job \in Jobs
    BY <2>2, InputBounds DEF Small, InputJobs, Jobs
  <2>3. ui.held \in [Devices -> BOOLEAN] /\ ui.forgot \in BOOLEAN /\ ui.clock \in 0 .. MaxHandlers
    BY <2>1, InputBounds DEF InputTypes, Interfaces, InputFits
  <2>4. \A i \in DOMAIN channel : channel[i].job \in Jobs /\ channel[i].counted \in BOOLEAN
    <3> SUFFICES ASSUME NEW i \in DOMAIN channel
                 PROVE  channel[i].job \in Jobs /\ channel[i].counted \in BOOLEAN
      OBVIOUS
    <3>1. i \in 1 .. Len(channel) /\ channel[i] \in Entries
      BY <2>1 DEF InputTypes
    <3>2. channel[i].job \in InputJobs /\ channel[i].counted \in BOOLEAN
      BY <3>1 DEF Entries
    <3> QED
      BY <2>2, <3>1, <3>2 DEF InputFits
  <2>5. motion \in Jobs \cup {NoJob} /\ queued \in 0 .. MaxReliable
    BY <2>1, <2>2, InputBounds DEF InputTypes, InputFits
  <2>6. /\ worker.at \in {"connect", "poll", "slot", "run", "retry", "reconnect",
                          "close", "drain", "drained", "gone"}
        /\ (worker.at \in {"run", "retry", "reconnect"}) = (worker.job # NoJob)
    BY <2>1 DEF InputTypes, WorkerRecords, Living, Working
  <2>7. guest.held \in [Devices -> BOOLEAN]
    BY <2>1 DEF InputTypes, GuestRecords
  <2> QED
    BY <2>3, <2>4, <2>5, <2>6, <2>7 DEF InputTypeOK
<1>4. InputSpec => []InputInv
  BY InputAlways
<1> QED
  BY <1>1, <1>2, <1>3, <1>4, PTL DEF InputSpec


===============================================================================
