--------------------------- MODULE LaunchScheduler ---------------------------
(***************************************************************************)
(* The FIFO launch scheduler of src/src/core/scheduler.rs: LaunchScheduler, *)
(* StartTicket, LaunchPermit and ResourceReservation.                       *)
(*                                                                          *)
(* One mutex guards queue, active and external, so every method body that   *)
(* runs under it is one action.  The only method that gives the mutex up in *)
(* the middle is StartTicket::wait_with_status, which is split where it     *)
(* does: WaitCheck (locked), OnStatus (the callback, unlocked), and the     *)
(* sleep in the condition variable.  notify_all empties `sleeping`.         *)
(*                                                                          *)
(* A ticket, the permit it becomes and the reservation the permit becomes   *)
(* carry the same request id, so `owner` records which of them exists.      *)
(***************************************************************************)
EXTENDS Integers, Sequences, FiniteSets

CONSTANTS
  Keys,          \* AVD names
  NoKey,         \* not an AVD name
  Demands,       \* the ResourceDemand records a caller may declare
  MaxStarts,     \* SchedulerConfig::max_concurrent_starts
  MemoryBudget,  \* SchedulerConfig::memory_budget_mb, NoLimit for None
  GpuSlots,      \* SchedulerConfig::gpu_slots, NoLimit for None
  NoLimit,
  MaxRequests    \* bound: requests enqueued in one behaviour

ASSUME StartLimitAssumption == MaxStarts \in Nat \ {0}
ASSUME DemandAssumption == Demands \subseteq [memory_mb : Nat, gpu_slots : Nat]
ASSUME BudgetAssumption ==
  /\ MemoryBudget \in Nat \cup {NoLimit}
  /\ GpuSlots \in Nat \cup {NoLimit}
  /\ NoLimit \notin Nat
ASSUME KeyAssumption == IsFiniteSet(Keys) /\ NoKey \notin Keys
ASSUME RequestsAssumption == MaxRequests \in Nat

VARIABLES
  next_id,       \* SchedulerState::next_id
  queue,         \* SchedulerState::queue
  active,        \* SchedulerState::active, a map from request ids
  external,      \* SchedulerState::external, a map from keys
  owner,         \* which handle of a request exists, and where its thread is
  last_status,   \* wait_with_status's local of that name, per request
  sleeping       \* the requests whose thread is parked in `changed`

stateVars == <<next_id, queue, active, external>>
vars == <<next_id, queue, active, external, owner, last_status, sleeping>>

Ids == 1..MaxRequests
Entries == [id : Ids, key : Keys, demand : Demands]
Allocations == [key : Keys, demand : Demands, starting : BOOLEAN]

(***************************************************************************)
(* unborn: not enqueued yet.  held: a StartTicket nobody waits on.          *)
(* waiting: in wait_with_status, at the top of its loop or parked.          *)
(* reporting: in wait_with_status, running the on_status callback.          *)
(* permit: a LaunchPermit.  session: a ResourceReservation.  gone: dropped. *)
(***************************************************************************)
OwnerStates ==
  {"unborn", "held", "waiting", "reporting", "permit", "session", "gone"}
Waiters == {i \in Ids : owner[i] \in {"held", "waiting", "reporting"}}

ReasonKinds == {"Ready", "EarlierTasks", "StartLimit", "Memory", "Gpu"}
Reasons == [kind : ReasonKinds, requested : Nat, available : Nat]
Statuses == [position : Nat, reason : Reasons]
NoStatus == [position |-> 0,
             reason |-> [kind |-> "Ready", requested |-> 0, available |-> 0]]

QueueEntries == {queue[n] : n \in DOMAIN queue}
QueueIds == {queue[n].id : n \in DOMAIN queue}
QueueKeys == {queue[n].key : n \in DOMAIN queue}
ActiveKeys == {active[i].key : i \in DOMAIN active}
Starting == {i \in DOMAIN active : active[i].starting}

-----------------------------------------------------------------------------
(* allocated: what active and external requests hold.  A sum over a map is  *)
(* written as the size of the disjoint union of its parts.  The code adds   *)
(* with saturation: a saturated sum is above every budget, as the sum is.   *)
Units(f) == UNION {{x} \X (1..f[x]) : x \in DOMAIN f}
Total(f) == Cardinality(Units(f))

ActiveMemory == Total([i \in DOMAIN active |-> active[i].demand.memory_mb])
ActiveGpu == Total([i \in DOMAIN active |-> active[i].demand.gpu_slots])
AllocatedMemory ==
  ActiveMemory + Total([k \in DOMAIN external |-> external[k].memory_mb])
AllocatedGpu ==
  ActiveGpu + Total([k \in DOMAIN external |-> external[k].gpu_slots])

SaturatingSub(a, b) == IF a >= b THEN a - b ELSE 0
(* A fault: external instances are forgotten.                               *)
MemoryLeftByActive == SaturatingSub(MemoryBudget, ActiveMemory)
MemoryAvailable == SaturatingSub(MemoryBudget, AllocatedMemory)
GpuAvailable == SaturatingSub(GpuSlots, AllocatedGpu)

MemoryBlocks(d) == MemoryBudget # NoLimit /\ d.memory_mb > MemoryAvailable
GpuBlocks(d) == GpuSlots # NoLimit /\ d.gpu_slots > GpuAvailable

Reason(kind, requested, available) ==
  [kind |-> kind, requested |-> requested, available |-> available]

StartLimitExceeded == Cardinality(Starting) > MaxStarts
StartLimitReached == Cardinality(Starting) >= MaxStarts

(* queue_status, for the entry at index n of the queue.                     *)
QueueStatus(n) ==
  LET d == queue[n].demand
  IN [position |-> n,
      reason |->
        IF n > 1 THEN Reason("EarlierTasks", 0, 0)
        ELSE IF StartLimitReached THEN Reason("StartLimit", 0, 0)
        ELSE IF MemoryBlocks(d)
             THEN Reason("Memory", d.memory_mb, MemoryAvailable)
        ELSE IF GpuBlocks(d)
             THEN Reason("Gpu", d.gpu_slots, GpuAvailable)
        ELSE Reason("Ready", 0, 0)]

IsReady(n) == QueueStatus(n).reason.kind = "Ready"

NotifyAll == sleeping' = {}

Without(f, x) == [y \in DOMAIN f \ {x} |-> f[y]]

(* VecDeque::remove keeps the order; swap_remove_back would not.            *)
RemovedBySwap(n) ==
  [m \in 1..(Len(queue) - 1) |-> IF m = n THEN queue[Len(queue)] ELSE queue[m]]
Removed(n) ==
  [m \in 1..(Len(queue) - 1) |-> IF m < n THEN queue[m] ELSE queue[m + 1]]

-----------------------------------------------------------------------------
Init ==
  /\ next_id = 0
  /\ queue = <<>>
  /\ active = [i \in {} |-> 0]
  /\ external = [k \in {} |-> 0]
  /\ owner = [i \in Ids |-> "unborn"]
  /\ last_status = [i \in Ids |-> NoStatus]
  /\ sleeping = {}

(* A demand no budget can ever meet is refused instead of queued.           *)
Admissible(d) ==
  /\ MemoryBudget # NoLimit => d.memory_mb <= MemoryBudget
  /\ GpuSlots # NoLimit => d.gpu_slots <= GpuSlots

KeyIsNotQueued(k) == k \notin QueueKeys \cup DOMAIN external
KeyIsFree(k) == k \notin QueueKeys \cup ActiveKeys \cup DOMAIN external

(* enqueue.  A refusal returns an error and changes nothing.                *)
Enqueue(k, d) ==
  LET id == next_id + 1
  IN /\ next_id < MaxRequests
     /\ Admissible(d)
     /\ KeyIsFree(k)
     /\ next_id' = id
     /\ queue' = Append(queue, [id |-> id, key |-> k, demand |-> d])
     /\ owner' = [owner EXCEPT ![id] = "held"]
     /\ NotifyAll
     /\ UNCHANGED <<active, external, last_status>>

(* cancel: by key, and only while the request is still queued.              *)
Cancel(k) ==
  \E n \in DOMAIN queue :
    /\ queue[n].key = k
    /\ queue' = Removed(n)
    /\ NotifyAll
    /\ UNCHANGED <<next_id, active, external, owner, last_status>>

(* reconcile_external: replaces the whole map; managed keys are left out.   *)
ReconcileExternal(entries) ==
  /\ external' = [k \in DOMAIN entries \ ActiveKeys |-> entries[k]]
  /\ NotifyAll
  /\ UNCHANGED <<next_id, queue, active, owner, last_status>>

RemoveExternal(k) ==
  /\ k \in DOMAIN external
  /\ external' = Without(external, k)
  /\ NotifyAll
  /\ UNCHANGED <<next_id, queue, active, owner, last_status>>

(* A fault: the start slot is given back as soon as it is taken.            *)
AdmitAsRunning(i) ==
  /\ active' = [j \in DOMAIN active \cup {i} |->
                  IF j = i THEN [key |-> Head(queue).key,
                                 demand |-> Head(queue).demand,
                                 starting |-> FALSE]
                           ELSE active[j]]
  /\ queue' = Removed(1)
  /\ owner' = [owner EXCEPT ![i] = "permit"]
  /\ last_status' = [last_status EXCEPT ![i] = NoStatus]
  /\ NotifyAll
  /\ UNCHANGED <<next_id, external>>

(* admit: the head of the queue becomes an allocation that is starting.     *)
Admit(i) ==
  /\ active' = [j \in DOMAIN active \cup {i} |->
                  IF j = i THEN [key |-> Head(queue).key,
                                 demand |-> Head(queue).demand,
                                 starting |-> TRUE]
                           ELSE active[j]]
  /\ queue' = Removed(1)
  /\ owner' = [owner EXCEPT ![i] = "permit"]
  /\ last_status' = [last_status EXCEPT ![i] = NoStatus]
  /\ NotifyAll
  /\ UNCHANGED <<next_id, external>>

(* StartTicket::try_acquire, when it changes anything: the ticket has       *)
(* become the head and nothing blocks it.                                   *)
TryAcquire(i) ==
  /\ owner[i] = "held"
  /\ queue # <<>> /\ Head(queue).id = i
  /\ IsReady(1)
  /\ Admit(i)

(* wait_with_status is called: the ticket moves into the loop.              *)
BeginWait(i) ==
  /\ owner[i] = "held"
  /\ owner' = [owner EXCEPT ![i] = "waiting"]
  /\ UNCHANGED <<next_id, queue, active, external, last_status, sleeping>>

(* One turn of wait_with_status under the mutex, for a thread that is not   *)
(* parked: the request was cancelled, is admitted, has a new status to      *)
(* report, or parks in the condition variable.                              *)
WaitCanceled(i) ==
  /\ owner[i] = "waiting" /\ i \notin sleeping
  /\ i \notin QueueIds
  /\ owner' = [owner EXCEPT ![i] = "gone"]
  /\ last_status' = [last_status EXCEPT ![i] = NoStatus]
  /\ UNCHANGED <<next_id, queue, active, external, sleeping>>

WaitAdmitted(i) ==
  /\ owner[i] = "waiting" /\ i \notin sleeping
  /\ queue # <<>> /\ Head(queue).id = i
  /\ IsReady(1)
  /\ Admit(i)

WaitReports(i) ==
  /\ owner[i] = "waiting" /\ i \notin sleeping
  /\ \E n \in DOMAIN queue :
       /\ queue[n].id = i
       /\ ~IsReady(n)
       /\ last_status[i] # QueueStatus(n)
       /\ last_status' = [last_status EXCEPT ![i] = QueueStatus(n)]
  /\ owner' = [owner EXCEPT ![i] = "reporting"]
  /\ UNCHANGED <<next_id, queue, active, external, sleeping>>

WaitParks(i) ==
  /\ owner[i] = "waiting" /\ i \notin sleeping
  /\ \E n \in DOMAIN queue :
       /\ queue[n].id = i
       /\ ~IsReady(n)
       /\ last_status[i] = QueueStatus(n)
  /\ sleeping' = sleeping \cup {i}
  /\ UNCHANGED <<next_id, queue, active, external, owner, last_status>>

WaitCheck(i) ==
  WaitCanceled(i) \/ WaitAdmitted(i) \/ WaitReports(i) \/ WaitParks(i)

(* A fault: the thread parks after its callback without a second look.      *)
OnStatusThenPark(i) ==
  /\ owner[i] = "reporting"
  /\ owner' = [owner EXCEPT ![i] = "waiting"]
  /\ sleeping' = sleeping \cup {i}
  /\ UNCHANGED <<next_id, queue, active, external, last_status>>

(* The on_status callback returns; the loop starts over and checks again.   *)
OnStatus(i) ==
  /\ owner[i] = "reporting"
  /\ owner' = [owner EXCEPT ![i] = "waiting"]
  /\ UNCHANGED <<next_id, queue, active, external, last_status, sleeping>>

(* std::sync::Condvar may wake a thread that nobody notified.               *)
SpuriousWake(i) ==
  /\ i \in sleeping
  /\ sleeping' = sleeping \ {i}
  /\ UNCHANGED <<next_id, queue, active, external, owner, last_status>>

(* A fault: a ticket without a Drop.                                        *)
ForgetTicket(i) ==
  /\ owner[i] = "held"
  /\ owner' = [owner EXCEPT ![i] = "gone"]
  /\ UNCHANGED <<next_id, queue, active, external, last_status, sleeping>>

(* StartTicket::drop, through cancel_id: by id, a no-op once cancelled.     *)
DropTicket(i) ==
  /\ owner[i] = "held"
  /\ owner' = [owner EXCEPT ![i] = "gone"]
  /\ \/ /\ i \notin QueueIds
        /\ UNCHANGED <<queue, sleeping>>
     \/ /\ \E n \in DOMAIN queue : queue[n].id = i /\ queue' = Removed(n)
        /\ NotifyAll
  /\ UNCHANGED <<next_id, active, external, last_status>>

(* A fault: the start slot is freed and nobody is told.                     *)
IntoReservationSilently(i) ==
  /\ owner[i] = "permit"
  /\ active' = [active EXCEPT ![i].starting = FALSE]
  /\ owner' = [owner EXCEPT ![i] = "session"]
  /\ UNCHANGED <<next_id, queue, external, last_status, sleeping>>

(* LaunchPermit::into_reservation: boot finished, the start slot is free.   *)
IntoReservation(i) ==
  /\ owner[i] = "permit"
  /\ active' = [active EXCEPT ![i].starting = FALSE]
  /\ owner' = [owner EXCEPT ![i] = "session"]
  /\ NotifyAll
  /\ UNCHANGED <<next_id, queue, external, last_status>>

(* A fault: release_active without its notify_all.                          *)
ReleaseSilently(i) ==
  /\ active' = Without(active, i)
  /\ owner' = [owner EXCEPT ![i] = "gone"]
  /\ UNCHANGED <<next_id, queue, external, last_status, sleeping>>

(* Drop of a LaunchPermit or of a ResourceReservation: release_active.      *)
ReleaseActive(i) ==
  /\ active' = Without(active, i)
  /\ owner' = [owner EXCEPT ![i] = "gone"]
  /\ NotifyAll
  /\ UNCHANGED <<next_id, queue, external, last_status>>

DropPermit(i) == owner[i] = "permit" /\ ReleaseActive(i)
DropReservation(i) == owner[i] = "session" /\ ReleaseActive(i)

ExternalMaps == UNION {[S -> Demands] : S \in SUBSET Keys}

Next ==
  \/ \E k \in Keys, d \in Demands : Enqueue(k, d)
  \/ \E k \in Keys : Cancel(k) \/ RemoveExternal(k)
  \/ \E entries \in ExternalMaps : ReconcileExternal(entries)
  \/ \E i \in Ids :
       \/ TryAcquire(i) \/ BeginWait(i) \/ DropTicket(i)
       \/ WaitCheck(i) \/ OnStatus(i) \/ SpuriousWake(i)
       \/ IntoReservation(i) \/ DropPermit(i) \/ DropReservation(i)

Spec == Init /\ [][Next]_vars

(***************************************************************************)
(* A ticket is waited on or dropped at once; every waiter has a thread of   *)
(* its own that the system keeps running (what the comment on wait asks of  *)
(* its callers); and a launch ends: the engine start and the boot wait have *)
(* time limits, after which the permit is dropped.  Nothing makes a user    *)
(* cancel, or a session or an external instance end.                        *)
(***************************************************************************)
WaiterFairness ==
  \A i \in Ids : /\ WF_vars(BeginWait(i) \/ DropTicket(i) \/ TryAcquire(i))
                 /\ WF_vars(WaitCheck(i))
                 /\ WF_vars(OnStatus(i))
LaunchFairness ==
  \A i \in Ids : WF_vars(IntoReservation(i) \/ DropPermit(i))
FairSpec == Spec /\ WaiterFairness /\ LaunchFairness

-----------------------------------------------------------------------------
(***************************************************************************)
(* Properties.                                                              *)
(***************************************************************************)
(* Types of the scheduler's state and of its handles.                       *)
TypeOK ==
  /\ next_id \in 0..MaxRequests
  /\ queue \in Seq(Entries)
  /\ DOMAIN active \subseteq Ids
  /\ active \in [DOMAIN active -> Allocations]
  /\ DOMAIN external \subseteq Keys
  /\ external \in [DOMAIN external -> Demands]
  /\ owner \in [Ids -> OwnerStates]
  /\ last_status \in [Ids -> Statuses]
  /\ sleeping \subseteq Ids

(* The queue holds requests in the order they were made, whatever was       *)
(* cancelled out of its middle, and no request that was not yet made.       *)
QueueInRequestOrder ==
  /\ \A m, n \in DOMAIN queue : m < n => queue[m].id < queue[n].id
  /\ \A n \in DOMAIN queue : queue[n].id <= next_id

(* Each queued request has a ticket and each allocation has exactly the     *)
(* permit or the reservation that will release it: nothing leaks when a     *)
(* handle is dropped, and the `expect` of into_reservation and of admit     *)
(* cannot panic.                                                            *)
HandlesOwnAllocations ==
  /\ QueueIds \subseteq Waiters
  /\ DOMAIN active = {i \in Ids : owner[i] \in {"permit", "session"}}
  /\ Starting = {i \in Ids : owner[i] = "permit"}

(* One AVD is never in the scheduler twice: not queued twice, not queued    *)
(* and launched, not launched twice.                                        *)
OneRequestPerKey ==
  /\ \A m, n \in DOMAIN queue : queue[m].key = queue[n].key => m = n
  /\ \A i, j \in DOMAIN active : active[i].key = active[j].key => i = j
  /\ QueueKeys \cap ActiveKeys = {}

(* Both: the scheduler serves one request of an AVD at a time, in the order *)
(* in which they came.                                                      *)
QueueIsOrderly == QueueInRequestOrder /\ OneRequestPerKey

(* max_concurrent_starts is a bound at all times, under any interleaving.   *)
StartLimitHolds == Cardinality(Starting) <= MaxStarts

(* No wake-up is lost: a parked thread is still queued, the status it last  *)
(* reported is still the truth, and that status is a reason to wait.  A     *)
(* change of the queue, of an allocation or of the external map that did    *)
(* not notify, or a thread that parked on a stale status, would break it.   *)
NoLostWakeup ==
  \A i \in sleeping :
    /\ owner[i] = "waiting"
    /\ \E n \in DOMAIN queue :
         /\ queue[n].id = i
         /\ QueueStatus(n) = last_status[i]
         /\ ~IsReady(n)

(* When a request that needs memory (or GPU slots) is admitted, everything   *)
(* allocated, external instances included, fits that budget with it.  A      *)
(* request that needs none is admitted whatever external instances hold.     *)
FitsBudget ==
  \A i \in (DOMAIN active') \ DOMAIN active :
    /\ (MemoryBudget # NoLimit /\ active'[i].demand.memory_mb > 0) =>
         AllocatedMemory' <= MemoryBudget
    /\ (GpuSlots # NoLimit /\ active'[i].demand.gpu_slots > 0) =>
         AllocatedGpu' <= GpuSlots
AdmissionFitsBudget == [][FitsBudget]_vars

(* The scheduler implements first-come-first-served admission: whatever the *)
(* interleaving of enqueues, cancellations, drops, scans and waiters, no     *)
(* request overtakes an earlier one that is still queued (a small request    *)
(* does not slip past a large head), no admission exceeds the start slots,   *)
(* no AVD is in twice, and no allocation ends twice or comes back.           *)
RequestPhase ==
  [i \in Ids |->
     CASE i > next_id -> "new"
       [] i \in QueueIds -> "pending"
       [] i \in Starting -> "starting"
       [] i \in DOMAIN active \ Starting -> "running"
       [] OTHER -> "done"]
RequestName ==
  [i \in Ids |->
     IF i \in QueueIds THEN (CHOOSE e \in QueueEntries : e.id = i).key
     ELSE IF i \in DOMAIN active THEN active[i].key
     ELSE NoKey]

Fifo == INSTANCE FifoAdmission
          WITH Requests <- Ids, Names <- Keys, NoName <- NoKey,
               StartSlots <- MaxStarts,
               phase <- RequestPhase, name <- RequestName
ImplementsFifo == Fifo!FifoSpec

(* Every start request leaves the queue, unless a memory or GPU budget      *)
(* blocks its head again and again: launches ahead of it end within their   *)
(* time limits and hand the start slot on, and each change that unblocks a  *)
(* waiting thread also wakes it.  With no budgets (the default              *)
(* configuration) that is every request; with budgets, no head that could   *)
(* be admitted stays parked.                                                *)
BudgetBlocksHead ==
  queue # <<>> /\ (MemoryBlocks(Head(queue).demand) \/ GpuBlocks(Head(queue).demand))
EveryWaiterLeavesQueue ==
  <>[]~BudgetBlocksHead => \A i \in Ids : (i \in QueueIds) ~> (i \notin QueueIds)
=============================================================================
