----------------------- MODULE LaunchSchedulerProofs -----------------------
(***************************************************************************)
(* Proofs about LaunchScheduler, for every set of AVDs, every set of        *)
(* demands, every start limit and every budget; the last part shows that it *)
(* implements FifoAdmission.                                                *)
(***************************************************************************)
EXTENDS LaunchScheduler, FiniteSetTheorems, TLAPS

-----------------------------------------------------------------------------
(* Sums: Total is a natural number, and one more part adds its size.        *)

LEMMA UnitsFinite ==
  ASSUME NEW D, IsFiniteSet(D), NEW f \in [D -> Nat]
  PROVE  IsFiniteSet(Units(f))
<1> DEFINE part == [x \in D |-> {x} \X (1..f[x])]
           P == {part[x] : x \in D}
<1>1. part \in Surjection(D, P)
  BY DEF Surjection
<1>2. IsFiniteSet(P)
  BY <1>1, FS_Surjection
<1>3. ASSUME NEW x \in D PROVE IsFiniteSet(part[x])
  <2>1. IsFiniteSet(1..f[x])
    BY FS_Interval
  <2>2. IsFiniteSet({x})
    BY FS_Singleton
  <2> QED
    BY <2>1, <2>2, FS_Product
<1>4. IsFiniteSet(UNION P)
  BY <1>2, <1>3, FS_UNION
<1>5. UNION P = Units(f)
  BY DEF Units
<1> QED
  BY <1>4, <1>5

LEMMA TotalType ==
  ASSUME NEW D, IsFiniteSet(D), NEW f \in [D -> Nat]
  PROVE  Total(f) \in Nat
BY UnitsFinite, FS_CardinalityType DEF Total

LEMMA TotalAdd ==
  ASSUME NEW D, IsFiniteSet(D), NEW f \in [D -> Nat],
         NEW x, x \notin D, NEW g \in [D \cup {x} -> Nat],
         \A y \in D : g[y] = f[y]
  PROVE  Total(g) = Total(f) + g[x]
<1> DEFINE new == {x} \X (1..g[x])
<1>1. Units(g) = Units(f) \cup new
  BY DEF Units
<1>2. Units(f) \cap new = {}
  BY DEF Units
<1>3. IsFiniteSet(Units(f)) /\ Cardinality(Units(f)) \in Nat
  BY UnitsFinite, FS_CardinalityType
<1>4. IsFiniteSet(1..g[x]) /\ Cardinality(1..g[x]) = g[x]
  BY FS_Interval
<1>5. IsFiniteSet({x}) /\ Cardinality({x}) = 1
  BY FS_Singleton
<1>6. IsFiniteSet(new) /\ Cardinality(new) = g[x]
  <2>1. IsFiniteSet(new) /\ Cardinality(new) = Cardinality({x}) * Cardinality(1..g[x])
    BY <1>4, <1>5, FS_Product, Zenon
  <2>2. g[x] \in Nat /\ 1 * g[x] = g[x]
    OBVIOUS
  <2> QED
    BY <1>4, <1>5, <2>1, <2>2
<1>7. Cardinality(Units(f) \cup new) = Cardinality(Units(f)) + g[x] - 0
  BY <1>2, <1>3, <1>6, FS_Union, FS_EmptySet
<1> QED
  BY <1>1, <1>3, <1>7 DEF Total

-----------------------------------------------------------------------------
(* Types.                                                                    *)

LEMMA IdsFinite == IsFiniteSet(Ids)
<1>1. 1 \in Int /\ MaxRequests \in Int
  BY RequestsAssumption
<1> QED
  BY <1>1, FS_Interval DEF Ids

LEMMA AllocatedType ==
  ASSUME TypeOK
  PROVE  AllocatedMemory \in Nat /\ AllocatedGpu \in Nat
<1>1. IsFiniteSet(DOMAIN active)
  BY IdsFinite, FS_Subset DEF TypeOK
<1>2. IsFiniteSet(DOMAIN external)
  BY FS_Subset, KeyAssumption DEF TypeOK
<1>3. /\ [i \in DOMAIN active |-> active[i].demand.memory_mb] \in [DOMAIN active -> Nat]
      /\ [i \in DOMAIN active |-> active[i].demand.gpu_slots] \in [DOMAIN active -> Nat]
  BY DemandAssumption DEF TypeOK, Allocations
<1>4. /\ [k \in DOMAIN external |-> external[k].memory_mb] \in [DOMAIN external -> Nat]
      /\ [k \in DOMAIN external |-> external[k].gpu_slots] \in [DOMAIN external -> Nat]
  BY DemandAssumption DEF TypeOK
<1>5. ActiveMemory \in Nat /\ ActiveGpu \in Nat
  BY <1>1, <1>3, TotalType DEF ActiveMemory, ActiveGpu
<1> QED
  BY <1>2, <1>4, <1>5, TotalType DEF AllocatedMemory, AllocatedGpu

LEMMA QueueEntryType ==
  ASSUME TypeOK, NEW n \in DOMAIN queue
  PROVE  /\ queue[n].id \in Ids
         /\ queue[n].id \in Nat
         /\ queue[n].key \in Keys
         /\ queue[n].demand \in Demands
<1>1. queue[n] \in Entries
  BY DEF TypeOK
<1>2. Ids \subseteq Nat
  BY RequestsAssumption DEF Ids
<1> QED
  BY <1>1, <1>2 DEF Entries

LEMMA QueueStatusType ==
  ASSUME TypeOK, NEW n \in DOMAIN queue
  PROVE  QueueStatus(n) \in Statuses
<1>1. /\ queue[n].demand.memory_mb \in Nat
      /\ queue[n].demand.gpu_slots \in Nat
  BY QueueEntryType, DemandAssumption
<1>2. MemoryBudget \in Nat => MemoryAvailable \in Nat
  BY AllocatedType DEF MemoryAvailable, SaturatingSub
<1>3. GpuSlots \in Nat => GpuAvailable \in Nat
  BY AllocatedType DEF GpuAvailable, SaturatingSub
<1>4. MemoryBlocks(queue[n].demand) => MemoryAvailable \in Nat
  BY <1>2, BudgetAssumption DEF MemoryBlocks
<1>5. GpuBlocks(queue[n].demand) => GpuAvailable \in Nat
  BY <1>3, BudgetAssumption DEF GpuBlocks
<1>6. n \in Nat
  BY DEF TypeOK
<1> QED
  BY <1>1, <1>4, <1>5, <1>6
     DEF QueueStatus, Reason, Statuses, Reasons, ReasonKinds

LEMMA RemovedType ==
  ASSUME NEW n \in DOMAIN queue, queue \in Seq(Entries)
  PROVE  Removed(n) \in Seq(Entries)
<1>1. Len(queue) - 1 \in Nat
  OBVIOUS
<1>2. Removed(n) \in [1..(Len(queue) - 1) -> Entries]
  BY DEF Removed
<1> QED
  BY <1>1, <1>2

LEMMA InitType == Init => TypeOK
BY RequestsAssumption
   DEF Init, TypeOK, Ids, OwnerStates, NoStatus, Statuses, Reasons, ReasonKinds

LEMMA NextType == TypeOK /\ [Next]_vars => TypeOK'
<1> SUFFICES ASSUME TypeOK, [Next]_vars PROVE TypeOK'
  OBVIOUS
<1> USE DEF NotifyAll
<1>1. ASSUME NEW k \in Keys, NEW d \in Demands, Enqueue(k, d) PROVE TypeOK'
  <2>1. next_id + 1 \in Ids /\ next_id' \in 0..MaxRequests
    BY <1>1, RequestsAssumption DEF Enqueue, TypeOK, Ids
  <2>2. queue' \in Seq(Entries)
    BY <1>1, <2>1 DEF Enqueue, TypeOK, Entries
  <2>3. owner' \in [Ids -> OwnerStates]
    BY <1>1, <2>1 DEF Enqueue, TypeOK, OwnerStates
  <2> QED
    BY <1>1, <2>1, <2>2, <2>3 DEF Enqueue, TypeOK
<1>2. ASSUME NEW k \in Keys, Cancel(k) PROVE TypeOK'
  BY <1>2, RemovedType DEF Cancel, TypeOK
<1>3. ASSUME NEW k \in Keys, RemoveExternal(k) PROVE TypeOK'
  BY <1>3 DEF RemoveExternal, Without, TypeOK
<1>4. ASSUME NEW entries \in ExternalMaps, ReconcileExternal(entries) PROVE TypeOK'
  <2>1. PICK S \in SUBSET Keys : entries \in [S -> Demands]
    BY DEF ExternalMaps
  <2> QED
    BY <1>4, <2>1 DEF ReconcileExternal, TypeOK
<1>5. ASSUME NEW i \in Ids, queue # <<>>, Admit(i) PROVE TypeOK'
  <2>1. Head(queue) \in Entries /\ Removed(1) \in Seq(Entries)
    BY <1>5, RemovedType DEF TypeOK
  <2>2. active' \in [DOMAIN active' -> Allocations] /\ DOMAIN active' \subseteq Ids
    BY <1>5, <2>1 DEF Admit, TypeOK, Entries, Allocations
  <2>3. NoStatus \in Statuses
    BY DEF NoStatus, Statuses, Reasons, ReasonKinds
  <2> QED
    BY <1>5, <2>1, <2>2, <2>3 DEF Admit, TypeOK, OwnerStates
<1>6. ASSUME NEW i \in Ids, TryAcquire(i) \/ WaitAdmitted(i) PROVE TypeOK'
  BY <1>5, <1>6 DEF TryAcquire, WaitAdmitted
<1>7. ASSUME NEW i \in Ids, BeginWait(i) \/ OnStatus(i) PROVE TypeOK'
  BY <1>7 DEF BeginWait, OnStatus, TypeOK, OwnerStates
<1>8. ASSUME NEW i \in Ids, WaitCanceled(i) PROVE TypeOK'
  <2>1. NoStatus \in Statuses
    BY DEF NoStatus, Statuses, Reasons, ReasonKinds
  <2> QED
    BY <1>8, <2>1 DEF WaitCanceled, TypeOK, OwnerStates
<1>9. ASSUME NEW i \in Ids, WaitReports(i) PROVE TypeOK'
  <2>1. PICK n \in DOMAIN queue : last_status' = [last_status EXCEPT ![i] = QueueStatus(n)]
    BY <1>9 DEF WaitReports
  <2>2. QueueStatus(n) \in Statuses
    BY QueueStatusType
  <2> QED
    BY <1>9, <2>1, <2>2 DEF WaitReports, TypeOK, OwnerStates
<1>10. ASSUME NEW i \in Ids, WaitParks(i) \/ SpuriousWake(i) PROVE TypeOK'
  BY <1>10 DEF WaitParks, SpuriousWake, TypeOK
<1>11. ASSUME NEW i \in Ids, DropTicket(i) PROVE TypeOK'
  BY <1>11, RemovedType DEF DropTicket, TypeOK, OwnerStates
<1>12. ASSUME NEW i \in Ids, IntoReservation(i) PROVE TypeOK'
  BY <1>12 DEF IntoReservation, TypeOK, OwnerStates, Allocations
<1>13. ASSUME NEW i \in Ids, DropPermit(i) \/ DropReservation(i) PROVE TypeOK'
  BY <1>13 DEF DropPermit, DropReservation, ReleaseActive, Without, TypeOK, OwnerStates
<1>14. CASE UNCHANGED vars
  BY <1>14 DEF vars, TypeOK
<1> QED
  BY <1>1, <1>2, <1>3, <1>4, <1>6, <1>7, <1>8, <1>9, <1>10, <1>11, <1>12, <1>13, <1>14
     DEF Next, WaitCheck

(* Every state of the scheduler and of its handles is well typed.            *)
THEOREM TypeCorrect == Spec => []TypeOK
BY InitType, NextType, PTL DEF Spec

-----------------------------------------------------------------------------
(* The inductive invariant.  RequestsSoFar ties the handles to next_id; the  *)
(* others are the invariants of LaunchScheduler themselves.                  *)
RequestsSoFar ==
  \A i \in Ids : owner[i] = "unborn" <=> i > next_id

(* What each step may rely on: a queued request has a ticket and an id that  *)
(* was given out; an admitted one is not queued.                             *)
QueueInv ==
  /\ TypeOK
  /\ RequestsSoFar
  /\ QueueInRequestOrder
  /\ HandlesOwnAllocations

LEMMA InitQueueInv == Init => QueueInv
<1> SUFFICES ASSUME Init PROVE QueueInv
  OBVIOUS
<1>1. TypeOK
  BY InitType
<1>2. RequestsSoFar
  BY RequestsAssumption DEF Init, RequestsSoFar, Ids
<1>3. QueueInRequestOrder
  BY DEF Init, QueueInRequestOrder
<1>4. HandlesOwnAllocations
  BY DEF Init, HandlesOwnAllocations, QueueIds, Starting
<1> QED
  BY <1>1, <1>2, <1>3, <1>4 DEF QueueInv

LEMMA NextRequestsSoFar ==
  TypeOK /\ RequestsSoFar /\ [Next]_vars => RequestsSoFar'
<1> SUFFICES ASSUME TypeOK, RequestsSoFar, [Next]_vars PROVE RequestsSoFar'
  OBVIOUS
<1> USE DEF TypeOK, RequestsSoFar, Ids
<1>1. ASSUME NEW k \in Keys, NEW d \in Demands, Enqueue(k, d) PROVE RequestsSoFar'
  BY <1>1, RequestsAssumption DEF Enqueue
<1>2. ASSUME NEW k \in Keys, Cancel(k) \/ RemoveExternal(k) PROVE RequestsSoFar'
  BY <1>2 DEF Cancel, RemoveExternal
<1>3. ASSUME NEW entries, ReconcileExternal(entries) PROVE RequestsSoFar'
  BY <1>3 DEF ReconcileExternal
<1>4. ASSUME NEW i \in Ids, owner[i] # "unborn",
             NEW s \in OwnerStates \ {"unborn"},
             owner' = [owner EXCEPT ![i] = s], next_id' = next_id
      PROVE  RequestsSoFar'
  BY <1>4
<1>5. ASSUME NEW i \in Ids, TryAcquire(i) \/ BeginWait(i) \/ DropTicket(i)
                             \/ WaitCheck(i) \/ OnStatus(i) \/ SpuriousWake(i)
      PROVE  RequestsSoFar'
  BY <1>4, <1>5 DEF TryAcquire, BeginWait, DropTicket, WaitCheck, WaitCanceled,
       WaitAdmitted, WaitReports, WaitParks, Admit, OnStatus, SpuriousWake, OwnerStates
<1>6. ASSUME NEW i \in Ids, IntoReservation(i) \/ DropPermit(i) \/ DropReservation(i)
      PROVE  RequestsSoFar'
  BY <1>4, <1>6 DEF IntoReservation, DropPermit, DropReservation, ReleaseActive, OwnerStates
<1>7. CASE UNCHANGED vars
  BY <1>7 DEF vars
<1> QED
  BY <1>1, <1>2, <1>3, <1>5, <1>6, <1>7 DEF Next

(* Taking an entry out of the queue keeps the others, in their order: `at`   *)
(* says where the entries of the new queue were in the old one.              *)
LEMMA RemovedIndex ==
  ASSUME queue \in Seq(Entries), NEW n \in DOMAIN queue, queue' = Removed(n)
  PROVE  \E at \in [DOMAIN queue' -> DOMAIN queue \ {n}] :
           /\ \A m \in DOMAIN queue' : queue'[m] = queue[at[m]]
           /\ \A m, o \in DOMAIN queue' : m < o => at[m] < at[o]
           /\ \A m, o \in DOMAIN queue' : at[m] = at[o] => m = o
           /\ \A p \in DOMAIN queue \ {n} : \E m \in DOMAIN queue' : at[m] = p
<1>1. n \in 1..Len(queue) /\ DOMAIN queue = 1..Len(queue) /\ Len(queue) \in Nat
  OBVIOUS
<1>2. DOMAIN queue' = 1..(Len(queue) - 1)
  BY DEF Removed
<1> DEFINE at == [m \in DOMAIN queue' |-> IF m < n THEN m ELSE m + 1]
<1>3. at \in [DOMAIN queue' -> DOMAIN queue \ {n}]
  BY <1>1, <1>2
<1>4. \A m \in DOMAIN queue' : queue'[m] = queue[at[m]]
  BY <1>1, <1>2 DEF Removed
<1>5. \A m, o \in DOMAIN queue' : (m < o => at[m] < at[o]) /\ (at[m] = at[o] => m = o)
  BY <1>1, <1>2
<1>6. ASSUME NEW p \in DOMAIN queue \ {n}
      PROVE  \E m \in DOMAIN queue' : at[m] = p
  <2>1. CASE p < n
    BY <1>1, <1>2, <2>1
  <2>2. CASE p > n
    <3>1. p - 1 \in DOMAIN queue' /\ at[p - 1] = p
      BY <1>1, <1>2, <2>2
    <3> QED
      BY <3>1
  <2> QED
    BY <1>1, <2>1, <2>2
<1> HIDE DEF at
<1> QED
  BY <1>3, <1>4, <1>5, <1>6

LEMMA RemovedEntries ==
  ASSUME TypeOK, QueueInRequestOrder, NEW n \in DOMAIN queue, queue' = Removed(n)
  PROVE  /\ \A m \in DOMAIN queue' :
              \E p \in DOMAIN queue : p # n /\ queue'[m] = queue[p]
         /\ \A m, o \in DOMAIN queue' : m < o => queue'[m].id < queue'[o].id
         /\ QueueIds' = QueueIds \ {queue[n].id}
<1>1. queue \in Seq(Entries)
  BY DEF TypeOK
<1>2. PICK at \in [DOMAIN queue' -> DOMAIN queue \ {n}] :
        /\ \A m \in DOMAIN queue' : queue'[m] = queue[at[m]]
        /\ \A m, o \in DOMAIN queue' : m < o => at[m] < at[o]
        /\ \A p \in DOMAIN queue \ {n} : \E m \in DOMAIN queue' : at[m] = p
  BY <1>1, RemovedIndex
<1>3. ASSUME NEW p \in DOMAIN queue, p # n PROVE queue[p].id # queue[n].id
  <2>1. queue[p].id \in Nat /\ queue[n].id \in Nat
    BY <1>3, QueueEntryType
  <2>2. p < n \/ n < p
    BY <1>1, <1>3
  <2> QED
    BY <1>3, <2>1, <2>2 DEF QueueInRequestOrder
<1>4. \A m, o \in DOMAIN queue' : m < o => queue'[m].id < queue'[o].id
  BY <1>2 DEF QueueInRequestOrder
<1>5. QueueIds' = {queue'[m].id : m \in DOMAIN queue'}
  BY DEF QueueIds
<1>6. QueueIds' = QueueIds \ {queue[n].id}
  BY <1>2, <1>3, <1>5 DEF QueueIds
<1> QED
  BY <1>2, <1>4, <1>6

LEMMA HeadEntry ==
  ASSUME TypeOK, queue # <<>>
  PROVE  1 \in DOMAIN queue /\ Head(queue) = queue[1]
BY DEF TypeOK

LEMMA NextOrder ==
  TypeOK /\ QueueInRequestOrder /\ [Next]_vars => QueueInRequestOrder'
<1> SUFFICES ASSUME TypeOK, QueueInRequestOrder, [Next]_vars
             PROVE  QueueInRequestOrder'
  OBVIOUS
<1>1. ASSUME NEW k \in Keys, NEW d \in Demands, Enqueue(k, d)
      PROVE  QueueInRequestOrder'
  <2>1. /\ queue \in Seq(Entries)
        /\ queue' = Append(queue, [id |-> next_id + 1, key |-> k, demand |-> d])
        /\ next_id \in Nat /\ next_id' = next_id + 1
    BY <1>1 DEF Enqueue, TypeOK
  <2>2. \A n \in DOMAIN queue : queue[n].id \in Nat /\ queue[n].id <= next_id
    BY QueueEntryType DEF QueueInRequestOrder
  <2> QED
    BY <2>1, <2>2 DEF QueueInRequestOrder
<1>2. ASSUME NEW n \in DOMAIN queue, queue' = Removed(n), next_id' = next_id
      PROVE  QueueInRequestOrder'
  BY <1>2, RemovedEntries DEF QueueInRequestOrder
<1>3. ASSUME NEW k \in Keys, Cancel(k) PROVE QueueInRequestOrder'
  BY <1>2, <1>3 DEF Cancel
<1>4. ASSUME NEW i \in Ids, TryAcquire(i) \/ WaitAdmitted(i)
      PROVE  QueueInRequestOrder'
  BY <1>2, <1>4, HeadEntry DEF TryAcquire, WaitAdmitted, Admit
<1>5. ASSUME NEW i \in Ids, DropTicket(i) PROVE QueueInRequestOrder'
  BY <1>2, <1>5 DEF DropTicket, QueueInRequestOrder
<1>6. ASSUME UNCHANGED <<queue, next_id>> PROVE QueueInRequestOrder'
  BY <1>6 DEF QueueInRequestOrder
<1>7. ASSUME NEW k \in Keys, RemoveExternal(k) PROVE QueueInRequestOrder'
  BY <1>6, <1>7 DEF RemoveExternal
<1>8. ASSUME NEW entries, ReconcileExternal(entries) PROVE QueueInRequestOrder'
  BY <1>6, <1>8 DEF ReconcileExternal
<1>9. ASSUME NEW i \in Ids, BeginWait(i) \/ WaitCanceled(i) \/ WaitReports(i)
                              \/ WaitParks(i) \/ OnStatus(i) \/ SpuriousWake(i)
      PROVE  QueueInRequestOrder'
  BY <1>6, <1>9 DEF BeginWait, WaitCanceled, WaitReports, WaitParks, OnStatus, SpuriousWake
<1>10. ASSUME NEW i \in Ids, IntoReservation(i) \/ DropPermit(i) \/ DropReservation(i)
       PROVE  QueueInRequestOrder'
  BY <1>6, <1>10 DEF IntoReservation, DropPermit, DropReservation, ReleaseActive
<1>11. CASE UNCHANGED vars
  BY <1>6, <1>11 DEF vars
<1> QED
  BY <1>1, <1>3, <1>4, <1>5, <1>7, <1>8, <1>9, <1>10, <1>11 DEF Next, WaitCheck

(* What an admission and an ended allocation do to the handles.              *)
LEMMA AdmitHandles ==
  ASSUME QueueInv, NEW i \in Ids, queue # <<>>, Head(queue).id = i, Admit(i)
  PROVE  /\ HandlesOwnAllocations'
         /\ DOMAIN active' = DOMAIN active \cup {i}
         /\ i \notin DOMAIN active
         /\ Starting' = Starting \cup {i}
         /\ QueueIds' = QueueIds \ {i}
<1> USE DEF QueueInv
<1>1. 1 \in DOMAIN queue /\ queue[1].id = i
  BY HeadEntry
<1>2. QueueIds' = QueueIds \ {i}
  BY <1>1, RemovedEntries DEF Admit
<1>3. owner[i] \in {"held", "waiting", "reporting"}
  BY <1>1 DEF HandlesOwnAllocations, QueueIds, Waiters
<1>4. i \notin DOMAIN active
  BY <1>3 DEF HandlesOwnAllocations
<1>5. DOMAIN active' = DOMAIN active \cup {i}
  BY DEF Admit
<1>6. Starting' = Starting \cup {i}
  BY <1>4 DEF Admit, Starting
<1>7. owner' = [owner EXCEPT ![i] = "permit"]
  BY DEF Admit
<1>8. QueueIds' \subseteq Waiters'
  BY <1>2, <1>7 DEF HandlesOwnAllocations, Waiters, TypeOK
<1>9. DOMAIN active' = {j \in Ids : owner'[j] \in {"permit", "session"}}
  BY <1>5, <1>7 DEF HandlesOwnAllocations, TypeOK
<1>10. Starting' = {j \in Ids : owner'[j] = "permit"}
  BY <1>6, <1>7 DEF HandlesOwnAllocations, TypeOK
<1> QED
  BY <1>2, <1>4, <1>5, <1>6, <1>8, <1>9, <1>10 DEF HandlesOwnAllocations

LEMMA NextHandles == QueueInv /\ [Next]_vars => HandlesOwnAllocations'
<1> SUFFICES ASSUME QueueInv, [Next]_vars PROVE HandlesOwnAllocations'
  OBVIOUS
<1> USE DEF QueueInv
<1>1. ASSUME NEW k \in Keys, NEW d \in Demands, Enqueue(k, d)
      PROVE  HandlesOwnAllocations'
  <2>1. queue \in Seq(Entries) /\ next_id \in Nat
    BY DEF TypeOK
  <2>2. QueueIds' = QueueIds \cup {next_id + 1}
    BY <1>1, <2>1 DEF Enqueue, QueueIds
  <2>3. next_id + 1 \in Ids /\ owner[next_id + 1] = "unborn"
    BY <1>1, <2>1, RequestsAssumption DEF Enqueue, RequestsSoFar, Ids
  <2>4. owner' = [owner EXCEPT ![next_id + 1] = "held"]
    BY <1>1 DEF Enqueue
  <2>5. QueueIds' \subseteq Waiters'
    BY <2>2, <2>3, <2>4 DEF HandlesOwnAllocations, Waiters, TypeOK
  <2>6. Starting' = Starting /\ active' = active
    BY <1>1 DEF Enqueue, Starting
  <2> QED
    BY <2>3, <2>4, <2>5, <2>6 DEF HandlesOwnAllocations, TypeOK
<1>2. ASSUME NEW k \in Keys, Cancel(k) PROVE HandlesOwnAllocations'
  <2>1. QueueIds' \subseteq QueueIds
    BY <1>2, RemovedEntries DEF Cancel
  <2> QED
    BY <1>2, <2>1 DEF Cancel, HandlesOwnAllocations, Starting, Waiters
<1>3. ASSUME NEW k \in Keys, RemoveExternal(k) PROVE HandlesOwnAllocations'
  BY <1>3 DEF RemoveExternal, HandlesOwnAllocations, QueueIds, Starting, Waiters
<1>4. ASSUME NEW entries, ReconcileExternal(entries) PROVE HandlesOwnAllocations'
  BY <1>4 DEF ReconcileExternal, HandlesOwnAllocations, QueueIds, Starting, Waiters
<1>5. ASSUME NEW i \in Ids, TryAcquire(i) \/ WaitAdmitted(i)
      PROVE  HandlesOwnAllocations'
  BY <1>5, AdmitHandles DEF TryAcquire, WaitAdmitted
<1>6. ASSUME NEW i \in Ids, owner[i] \in {"held", "waiting", "reporting"},
             NEW s \in {"held", "waiting", "reporting"},
             owner' = [owner EXCEPT ![i] = s], UNCHANGED <<queue, active>>
      PROVE  HandlesOwnAllocations'
  BY <1>6 DEF HandlesOwnAllocations, QueueIds, Starting, Waiters, TypeOK
<1>7. ASSUME NEW i \in Ids, BeginWait(i) \/ WaitReports(i) \/ OnStatus(i)
      PROVE  HandlesOwnAllocations'
  BY <1>6, <1>7 DEF BeginWait, WaitReports, OnStatus
<1>8. ASSUME NEW i \in Ids, owner[i] \in {"held", "waiting", "reporting"},
             owner' = [owner EXCEPT ![i] = "gone"], active' = active,
             QueueIds' = QueueIds \ {i}
      PROVE  HandlesOwnAllocations'
  BY <1>8 DEF HandlesOwnAllocations, Starting, Waiters, TypeOK
<1>9. ASSUME NEW i \in Ids, WaitCanceled(i) PROVE HandlesOwnAllocations'
  BY <1>8, <1>9 DEF WaitCanceled, QueueIds
<1>10. ASSUME NEW i \in Ids, DropTicket(i) PROVE HandlesOwnAllocations'
  <2>1. QueueIds' = QueueIds \ {i}
    <3>1. CASE i \notin QueueIds /\ queue' = queue
      BY <3>1 DEF QueueIds
    <3>2. CASE \E n \in DOMAIN queue : queue[n].id = i /\ queue' = Removed(n)
      BY <3>2, RemovedEntries
    <3> QED
      BY <1>10, <3>1, <3>2 DEF DropTicket
  <2> QED
    BY <1>8, <1>10, <2>1 DEF DropTicket
<1>11. ASSUME NEW i \in Ids, WaitParks(i) \/ SpuriousWake(i)
       PROVE  HandlesOwnAllocations'
  BY <1>11 DEF WaitParks, SpuriousWake, HandlesOwnAllocations, QueueIds, Starting, Waiters
<1>12. ASSUME NEW i \in Ids, IntoReservation(i) PROVE HandlesOwnAllocations'
  <2>1. i \in DOMAIN active /\ owner' = [owner EXCEPT ![i] = "session"] /\ queue' = queue
    BY <1>12 DEF IntoReservation, HandlesOwnAllocations
  <2>2. Starting' = Starting \ {i} /\ DOMAIN active' = DOMAIN active
    BY <1>12, <2>1 DEF IntoReservation, Starting, TypeOK, Allocations
  <2>3. i \notin QueueIds
    BY <1>12 DEF IntoReservation, HandlesOwnAllocations, Waiters
  <2> QED
    BY <1>12, <2>1, <2>2, <2>3 DEF HandlesOwnAllocations, QueueIds, Waiters, TypeOK
<1>13. ASSUME NEW i \in Ids, DropPermit(i) \/ DropReservation(i)
       PROVE  HandlesOwnAllocations'
  <2>1. owner[i] \in {"permit", "session"} /\ owner' = [owner EXCEPT ![i] = "gone"]
        /\ queue' = queue
    BY <1>13 DEF DropPermit, DropReservation, ReleaseActive
  <2>2. Starting' = Starting \ {i} /\ DOMAIN active' = DOMAIN active \ {i}
    BY <1>13 DEF DropPermit, DropReservation, ReleaseActive, Without, Starting
  <2>3. i \notin QueueIds
    BY <2>1 DEF HandlesOwnAllocations, Waiters
  <2> QED
    BY <2>1, <2>2, <2>3 DEF HandlesOwnAllocations, QueueIds, Waiters, TypeOK
<1>14. CASE UNCHANGED vars
  BY <1>14 DEF vars, HandlesOwnAllocations, QueueIds, Starting, Waiters
<1> QED
  BY <1>1, <1>2, <1>3, <1>4, <1>5, <1>7, <1>9, <1>10, <1>11, <1>12, <1>13, <1>14
     DEF Next, WaitCheck

LEMMA QueueInvariant == Spec => []QueueInv
<1>1. QueueInv /\ [Next]_vars => QueueInv'
  BY NextType, NextRequestsSoFar, NextOrder, NextHandles DEF QueueInv
<1> QED
  BY <1>1, InitQueueInv, PTL DEF Spec

(* Cancelling or dropping a queued request never reorders the others.        *)
THEOREM OrderCorrect == Spec => []QueueInRequestOrder
<1>1. QueueInv => QueueInRequestOrder
  BY DEF QueueInv
<1> QED
  BY <1>1, QueueInvariant, PTL

(* No allocation is without a handle that will release it, and no handle is  *)
(* without its allocation: into_reservation and admit cannot panic.          *)
THEOREM HandlesCorrect == Spec => []HandlesOwnAllocations
<1>1. QueueInv => HandlesOwnAllocations
  BY DEF QueueInv
<1> QED
  BY <1>1, QueueInvariant, PTL

-----------------------------------------------------------------------------
(* The start limit.                                                          *)

LEMMA StartingFinite ==
  ASSUME TypeOK
  PROVE  IsFiniteSet(Starting) /\ Cardinality(Starting) \in Nat
<1>1. Starting \in SUBSET Ids
  BY DEF TypeOK, Starting
<1> QED
  BY <1>1, IdsFinite, FS_Subset, FS_CardinalityType

LEMMA ReadyMeansFree ==
  ASSUME TypeOK, IsReady(1)
  PROVE  Cardinality(Starting) < MaxStarts
<1>1. ~StartLimitReached
  BY DEF IsReady, QueueStatus, Reason
<1> QED
  BY <1>1, StartingFinite, StartLimitAssumption DEF StartLimitReached

LEMMA NextStartLimit == QueueInv /\ StartLimitHolds /\ [Next]_vars => StartLimitHolds'
<1> SUFFICES ASSUME QueueInv, StartLimitHolds, [Next]_vars PROVE StartLimitHolds'
  OBVIOUS
<1> USE DEF QueueInv
<1>1. ASSUME Starting' \subseteq Starting PROVE StartLimitHolds'
  <2>1. Cardinality(Starting') <= Cardinality(Starting) /\ Cardinality(Starting') \in Nat
    BY <1>1, StartingFinite, FS_Subset, FS_CardinalityType
  <2> QED
    BY <2>1, StartingFinite, StartLimitAssumption DEF StartLimitHolds
<1>2. ASSUME NEW i \in Ids, queue # <<>>, Head(queue).id = i, IsReady(1), Admit(i)
      PROVE  StartLimitHolds'
  <2>1. Starting' = Starting \cup {i}
    BY <1>2, AdmitHandles
  <2>2. /\ Cardinality(Starting \cup {i}) \in Nat
        /\ Cardinality(Starting \cup {i}) <= Cardinality(Starting) + 1
    <3>1. IsFiniteSet(Starting \cup {i})
          /\ Cardinality(Starting \cup {i}) =
               IF i \in Starting THEN Cardinality(Starting) ELSE Cardinality(Starting) + 1
      BY StartingFinite, FS_AddElement
    <3> QED
      BY <3>1, StartingFinite
  <2> QED
    BY <1>2, <2>1, <2>2, ReadyMeansFree, StartingFinite, StartLimitAssumption
       DEF StartLimitHolds
<1>3. ASSUME NEW i \in Ids, TryAcquire(i) \/ WaitAdmitted(i) PROVE StartLimitHolds'
  BY <1>2, <1>3 DEF TryAcquire, WaitAdmitted
<1>4. ASSUME active' = active PROVE StartLimitHolds'
  BY <1>1, <1>4 DEF Starting
<1>5. ASSUME NEW k \in Keys, Cancel(k) \/ RemoveExternal(k) PROVE StartLimitHolds'
  BY <1>4, <1>5 DEF Cancel, RemoveExternal
<1>6. ASSUME NEW k \in Keys, NEW d \in Demands, Enqueue(k, d) PROVE StartLimitHolds'
  BY <1>4, <1>6 DEF Enqueue
<1>7. ASSUME NEW entries, ReconcileExternal(entries) PROVE StartLimitHolds'
  BY <1>4, <1>7 DEF ReconcileExternal
<1>8. ASSUME NEW i \in Ids, BeginWait(i) \/ WaitCanceled(i) \/ WaitReports(i)
                    \/ WaitParks(i) \/ OnStatus(i) \/ SpuriousWake(i) \/ DropTicket(i)
      PROVE  StartLimitHolds'
  BY <1>4, <1>8 DEF BeginWait, WaitCanceled, WaitReports, WaitParks, OnStatus,
                    SpuriousWake, DropTicket
<1>9. ASSUME NEW i \in Ids, IntoReservation(i) PROVE StartLimitHolds'
  BY <1>1, <1>9 DEF IntoReservation, Starting, TypeOK, Allocations
<1>10. ASSUME NEW i \in Ids, DropPermit(i) \/ DropReservation(i) PROVE StartLimitHolds'
  BY <1>1, <1>10 DEF DropPermit, DropReservation, ReleaseActive, Without, Starting
<1>11. CASE UNCHANGED vars
  BY <1>4, <1>11 DEF vars
<1> QED
  BY <1>3, <1>5, <1>6, <1>7, <1>8, <1>9, <1>10, <1>11 DEF Next, WaitCheck

(* However many tickets wait and however they are cancelled, at most         *)
(* max_concurrent_starts emulators are starting at any time.                 *)
THEOREM StartLimitCorrect == Spec => []StartLimitHolds
<1>1. Init => StartLimitHolds
  <2> SUFFICES ASSUME Init PROVE StartLimitHolds
    OBVIOUS
  <2>1. Starting = {}
    BY DEF Init, Starting
  <2> QED
    BY <2>1, FS_EmptySet, StartLimitAssumption DEF StartLimitHolds
<1> QED
  BY <1>1, NextStartLimit, QueueInvariant, PTL DEF Spec

-----------------------------------------------------------------------------
(* One request per AVD.                                                      *)

LEMMA InitOneRequest == Init => OneRequestPerKey
BY DEF Init, OneRequestPerKey, QueueKeys, ActiveKeys

LEMMA RemovedKeepsOneRequest ==
  ASSUME TypeOK, OneRequestPerKey, NEW n \in DOMAIN queue, queue' = Removed(n)
  PROVE  /\ \A m, o \in DOMAIN queue' : queue'[m].key = queue'[o].key => m = o
         /\ QueueKeys' = QueueKeys \ {queue[n].key}
<1>1. PICK at \in [DOMAIN queue' -> DOMAIN queue \ {n}] :
        /\ \A m \in DOMAIN queue' : queue'[m] = queue[at[m]]
        /\ \A m, o \in DOMAIN queue' : at[m] = at[o] => m = o
        /\ \A p \in DOMAIN queue \ {n} : \E m \in DOMAIN queue' : at[m] = p
  BY RemovedIndex DEF TypeOK
<1>2. QueueKeys' = {queue'[m].key : m \in DOMAIN queue'}
  BY DEF QueueKeys
<1> QED
  BY <1>1, <1>2 DEF OneRequestPerKey, QueueKeys

LEMMA NextOneRequest == QueueInv /\ OneRequestPerKey /\ [Next]_vars => OneRequestPerKey'
<1> SUFFICES ASSUME QueueInv, OneRequestPerKey, [Next]_vars PROVE OneRequestPerKey'
  OBVIOUS
<1> USE DEF QueueInv
<1>1. ASSUME NEW k \in Keys, NEW d \in Demands, Enqueue(k, d) PROVE OneRequestPerKey'
  <2>1. queue \in Seq(Entries) /\ active' = active
        /\ queue' = Append(queue, [id |-> next_id + 1, key |-> k, demand |-> d])
    BY <1>1 DEF Enqueue, TypeOK
  <2>2. k \notin QueueKeys \cup ActiveKeys
    BY <1>1 DEF Enqueue, KeyIsFree
  <2>3. QueueKeys' = QueueKeys \cup {k} /\ ActiveKeys' = ActiveKeys
    BY <2>1 DEF QueueKeys, ActiveKeys
  <2>4. \A m, n \in DOMAIN queue' : queue'[m].key = queue'[n].key => m = n
    BY <2>1, <2>2 DEF OneRequestPerKey, QueueKeys
  <2> QED
    BY <2>1, <2>2, <2>3, <2>4 DEF OneRequestPerKey
<1>2. ASSUME NEW n \in DOMAIN queue, queue' = Removed(n), active' = active
      PROVE  OneRequestPerKey'
  <2>1. ActiveKeys' = ActiveKeys
    BY <1>2 DEF ActiveKeys
  <2> QED
    BY <1>2, <2>1, RemovedKeepsOneRequest DEF OneRequestPerKey
<1>3. ASSUME NEW i \in Ids, queue # <<>>, Head(queue).id = i, Admit(i)
      PROVE  OneRequestPerKey'
  <2> DEFINE k == queue[1].key
  <2>1. 1 \in DOMAIN queue /\ Head(queue) = queue[1] /\ i \notin DOMAIN active
    BY <1>3, HeadEntry, AdmitHandles
  <2>2. /\ \A m, o \in DOMAIN queue' : queue'[m].key = queue'[o].key => m = o
        /\ QueueKeys' = QueueKeys \ {k}
    BY <1>3, <2>1, RemovedKeepsOneRequest DEF Admit
  <2>3. /\ DOMAIN active' = DOMAIN active \cup {i}
        /\ active'[i].key = k
        /\ \A j \in DOMAIN active : active'[j].key = active[j].key
    BY <1>3, <2>1 DEF Admit
  <2>4. ActiveKeys' = ActiveKeys \cup {k} /\ k \in QueueKeys
    BY <2>1, <2>3 DEF ActiveKeys, QueueKeys
  <2>5. \A j \in DOMAIN active : active[j].key # k
    BY <2>4 DEF OneRequestPerKey, ActiveKeys
  <2>6. \A j, l \in DOMAIN active' : active'[j].key = active'[l].key => j = l
    BY <2>3, <2>5 DEF OneRequestPerKey
  <2> QED
    BY <2>2, <2>4, <2>6 DEF OneRequestPerKey
<1>4. ASSUME queue' = queue, DOMAIN active' \subseteq DOMAIN active,
             \A j \in DOMAIN active' : active'[j].key = active[j].key
      PROVE  OneRequestPerKey'
  <2>1. QueueKeys' = QueueKeys /\ ActiveKeys' \subseteq ActiveKeys
    BY <1>4 DEF QueueKeys, ActiveKeys
  <2> QED
    BY <1>4, <2>1 DEF OneRequestPerKey
<1>5. ASSUME NEW k \in Keys, Cancel(k) PROVE OneRequestPerKey'
  BY <1>2, <1>5 DEF Cancel
<1>6. ASSUME NEW i \in Ids, TryAcquire(i) \/ WaitAdmitted(i) PROVE OneRequestPerKey'
  BY <1>3, <1>6 DEF TryAcquire, WaitAdmitted
<1>7. ASSUME NEW i \in Ids, DropTicket(i) PROVE OneRequestPerKey'
  BY <1>2, <1>4, <1>7 DEF DropTicket
<1>8. ASSUME NEW k \in Keys, RemoveExternal(k) PROVE OneRequestPerKey'
  BY <1>4, <1>8 DEF RemoveExternal
<1>9. ASSUME NEW entries, ReconcileExternal(entries) PROVE OneRequestPerKey'
  BY <1>4, <1>9 DEF ReconcileExternal
<1>10. ASSUME NEW i \in Ids, BeginWait(i) \/ WaitCanceled(i) \/ WaitReports(i)
                               \/ WaitParks(i) \/ OnStatus(i) \/ SpuriousWake(i)
       PROVE  OneRequestPerKey'
  BY <1>4, <1>10 DEF BeginWait, WaitCanceled, WaitReports, WaitParks, OnStatus, SpuriousWake
<1>11. ASSUME NEW i \in Ids, IntoReservation(i) PROVE OneRequestPerKey'
  BY <1>4, <1>11 DEF IntoReservation, TypeOK, Allocations
<1>12. ASSUME NEW i \in Ids, DropPermit(i) \/ DropReservation(i) PROVE OneRequestPerKey'
  BY <1>4, <1>12 DEF DropPermit, DropReservation, ReleaseActive, Without
<1>13. CASE UNCHANGED vars
  BY <1>4, <1>13 DEF vars
<1> QED
  BY <1>1, <1>5, <1>6, <1>7, <1>8, <1>9, <1>10, <1>11, <1>12, <1>13 DEF Next, WaitCheck

(* No AVD is ever queued twice, launched twice, or queued while it runs.     *)
THEOREM OneRequestCorrect == Spec => []OneRequestPerKey
BY InitOneRequest, NextOneRequest, QueueInvariant, PTL DEF Spec

(* Both: requests wait in order, and an AVD has one of them.                 *)
THEOREM QueueCorrect == Spec => []QueueIsOrderly
BY OrderCorrect, OneRequestCorrect, PTL DEF QueueIsOrderly

-----------------------------------------------------------------------------
(* No lost wake-up.                                                          *)

LEMMA StatusUnchanged ==
  ASSUME UNCHANGED <<queue, active, external>>, NEW n
  PROVE  QueueStatus(n)' = QueueStatus(n)
BY DEF QueueStatus, Reason, StartLimitReached, Starting, MemoryBlocks, GpuBlocks,
       MemoryAvailable, GpuAvailable, SaturatingSub, AllocatedMemory, AllocatedGpu,
       ActiveMemory, ActiveGpu

LEMMA NextNoLostWakeup == TypeOK /\ NoLostWakeup /\ [Next]_vars => NoLostWakeup'
<1> SUFFICES ASSUME TypeOK, NoLostWakeup, [Next]_vars PROVE NoLostWakeup'
  OBVIOUS
<1>1. ASSUME NotifyAll PROVE NoLostWakeup'
  BY <1>1 DEF NotifyAll, NoLostWakeup
<1>2. ASSUME UNCHANGED <<queue, active, external>>, NEW i \in sleeping, i \in sleeping',
             owner'[i] = owner[i], last_status'[i] = last_status[i]
      PROVE  /\ owner'[i] = "waiting"
             /\ \E n \in DOMAIN queue' : /\ queue'[n].id = i
                                         /\ QueueStatus(n)' = last_status'[i]
                                         /\ ~IsReady(n)'
  <2>1. PICK n \in DOMAIN queue : /\ queue[n].id = i
                                  /\ QueueStatus(n) = last_status[i]
                                  /\ ~IsReady(n)
    BY <1>2 DEF NoLostWakeup
  <2>2. QueueStatus(n)' = QueueStatus(n)
    BY <1>2, StatusUnchanged
  <2> QED
    BY <1>2, <2>1, <2>2 DEF IsReady, NoLostWakeup
<1>3. ASSUME UNCHANGED <<queue, active, external>>, sleeping' \subseteq sleeping,
             NEW i \in Ids, i \notin sleeping,
             \A j \in Ids \ {i} : owner'[j] = owner[j] /\ last_status'[j] = last_status[j]
      PROVE  NoLostWakeup'
  BY <1>2, <1>3 DEF NoLostWakeup, TypeOK
<1>4. ASSUME NEW k \in Keys, Cancel(k) \/ RemoveExternal(k) PROVE NoLostWakeup'
  BY <1>1, <1>4 DEF Cancel, RemoveExternal
<1>5. ASSUME NEW k \in Keys, NEW d \in Demands, Enqueue(k, d) PROVE NoLostWakeup'
  BY <1>1, <1>5 DEF Enqueue
<1>6. ASSUME NEW entries, ReconcileExternal(entries) PROVE NoLostWakeup'
  BY <1>1, <1>6 DEF ReconcileExternal
<1>7. ASSUME NEW i \in Ids, \/ TryAcquire(i) \/ WaitAdmitted(i) \/ IntoReservation(i)
                            \/ DropPermit(i) \/ DropReservation(i)
      PROVE  NoLostWakeup'
  BY <1>1, <1>7 DEF TryAcquire, WaitAdmitted, Admit, IntoReservation, DropPermit,
                    DropReservation, ReleaseActive
<1>8. ASSUME NEW i \in Ids, BeginWait(i) \/ OnStatus(i) PROVE NoLostWakeup'
  <2>1. i \notin sleeping
    BY <1>8 DEF BeginWait, OnStatus, NoLostWakeup
  <2> QED
    BY <1>3, <1>8, <2>1 DEF BeginWait, OnStatus, TypeOK
<1>9. ASSUME NEW i \in Ids, WaitCanceled(i) \/ WaitReports(i) PROVE NoLostWakeup'
  BY <1>3, <1>9 DEF WaitCanceled, WaitReports, TypeOK
<1>10. ASSUME NEW i \in Ids, WaitParks(i) PROVE NoLostWakeup'
  <2>1. PICK n \in DOMAIN queue : /\ queue[n].id = i
                                  /\ ~IsReady(n)
                                  /\ last_status[i] = QueueStatus(n)
    BY <1>10 DEF WaitParks
  <2>2. /\ UNCHANGED <<queue, active, external, owner, last_status>>
        /\ owner[i] = "waiting" /\ sleeping' = sleeping \cup {i}
    BY <1>10 DEF WaitParks
  <2>3. QueueStatus(n)' = QueueStatus(n)
    BY <2>2, StatusUnchanged
  <2>4. ~IsReady(n)'
    BY <2>1, <2>3 DEF IsReady
  <2>5. ASSUME NEW j \in sleeping'
        PROVE  /\ owner'[j] = "waiting"
               /\ \E m \in DOMAIN queue' : /\ queue'[m].id = j
                                           /\ QueueStatus(m)' = last_status'[j]
                                           /\ ~IsReady(m)'
    <3>1. CASE j = i
      BY <2>1, <2>2, <2>3, <2>4, <3>1
    <3>2. CASE j \in sleeping
      BY <1>2, <2>2, <3>2
    <3> QED
      BY <2>2, <3>1, <3>2
  <2> QED
    BY <2>5 DEF NoLostWakeup
<1>11. ASSUME NEW i \in Ids, SpuriousWake(i) PROVE NoLostWakeup'
  BY <1>2, <1>11 DEF SpuriousWake, NoLostWakeup
<1>12. ASSUME NEW i \in Ids, DropTicket(i) PROVE NoLostWakeup'
  <2>1. i \notin sleeping
    BY <1>12 DEF DropTicket, NoLostWakeup
  <2> QED
    BY <1>1, <1>3, <1>12, <2>1 DEF DropTicket, TypeOK
<1>13. CASE UNCHANGED vars
  BY <1>2, <1>13 DEF vars, NoLostWakeup
<1> QED
  BY <1>4, <1>5, <1>6, <1>7, <1>8, <1>9, <1>10, <1>11, <1>12, <1>13 DEF Next, WaitCheck

(* A parked start thread has always told its caller the present reason for   *)
(* waiting, and there is one: whatever changes the reason wakes it.          *)
THEOREM NoLostWakeupCorrect == Spec => []NoLostWakeup
<1>1. Init => NoLostWakeup
  BY DEF Init, NoLostWakeup
<1>2. Spec => []TypeOK
  BY TypeCorrect
<1> QED
  BY <1>1, <1>2, NextNoLostWakeup, PTL DEF Spec

-----------------------------------------------------------------------------
(* Budgets.                                                                  *)

LEMMA AdmitFits ==
  ASSUME QueueInv, NEW i \in Ids, queue # <<>>, Head(queue).id = i, IsReady(1), Admit(i)
  PROVE  /\ (MemoryBudget # NoLimit /\ active'[i].demand.memory_mb > 0) =>
              AllocatedMemory' <= MemoryBudget
         /\ (GpuSlots # NoLimit /\ active'[i].demand.gpu_slots > 0) =>
              AllocatedGpu' <= GpuSlots
<1> USE DEF QueueInv
<1> DEFINE d == queue[1].demand
           mem == [j \in DOMAIN active |-> active[j].demand.memory_mb]
           gpu == [j \in DOMAIN active |-> active[j].demand.gpu_slots]
<1>1. 1 \in DOMAIN queue /\ Head(queue) = queue[1] /\ d \in Demands
  BY HeadEntry, QueueEntryType
<1>2. d.memory_mb \in Nat /\ d.gpu_slots \in Nat
  BY <1>1, DemandAssumption
<1>3. i \notin DOMAIN active /\ IsFiniteSet(DOMAIN active)
  BY AdmitHandles, IdsFinite, FS_Subset DEF TypeOK
<1>4. /\ mem \in [DOMAIN active -> Nat]
      /\ gpu \in [DOMAIN active -> Nat]
  BY DemandAssumption DEF TypeOK, Allocations
<1>5. /\ DOMAIN active' = DOMAIN active \cup {i}
      /\ active'[i].demand = d
      /\ \A j \in DOMAIN active : active'[j] = active[j]
      /\ external' = external
  BY <1>1, <1>3 DEF Admit
<1>6. ActiveMemory' = ActiveMemory + d.memory_mb
  <2> DEFINE g == [j \in DOMAIN active \cup {i} |-> active'[j].demand.memory_mb]
  <2>1. g \in [DOMAIN active \cup {i} -> Nat] /\ g[i] = d.memory_mb
        /\ \A j \in DOMAIN active : g[j] = mem[j]
    BY <1>2, <1>4, <1>5
  <2>2. ActiveMemory' = Total(g)
    BY <1>5 DEF ActiveMemory
  <2>3. Total(g) = Total(mem) + g[i]
    <3> HIDE DEF d, g, mem
    <3>1. i \notin DOMAIN active /\ IsFiniteSet(DOMAIN active)
      BY <1>3
    <3>2. mem \in [DOMAIN active -> Nat] /\ g \in [DOMAIN active \cup {i} -> Nat]
      BY <1>4, <2>1
    <3>3. \A j \in DOMAIN active : g[j] = mem[j]
      BY <2>1
    <3> QED
      BY ONLY <3>1, <3>2, <3>3, TotalAdd
  <2> QED
    BY <2>1, <2>2, <2>3 DEF ActiveMemory
<1>7. ActiveGpu' = ActiveGpu + d.gpu_slots
  <2> DEFINE g == [j \in DOMAIN active \cup {i} |-> active'[j].demand.gpu_slots]
  <2>1. g \in [DOMAIN active \cup {i} -> Nat] /\ g[i] = d.gpu_slots
        /\ \A j \in DOMAIN active : g[j] = gpu[j]
    BY <1>2, <1>4, <1>5
  <2>2. ActiveGpu' = Total(g)
    BY <1>5 DEF ActiveGpu
  <2>3. Total(g) = Total(gpu) + g[i]
    <3> HIDE DEF d, g, gpu
    <3>1. i \notin DOMAIN active /\ IsFiniteSet(DOMAIN active)
      BY <1>3
    <3>2. gpu \in [DOMAIN active -> Nat] /\ g \in [DOMAIN active \cup {i} -> Nat]
      BY <1>4, <2>1
    <3>3. \A j \in DOMAIN active : g[j] = gpu[j]
      BY <2>1
    <3> QED
      BY ONLY <3>1, <3>2, <3>3, TotalAdd
  <2> QED
    BY <2>1, <2>2, <2>3 DEF ActiveGpu
<1>8. /\ ActiveMemory \in Nat /\ ActiveGpu \in Nat
      /\ AllocatedMemory \in Nat /\ AllocatedGpu \in Nat
  BY <1>3, <1>4, TotalType, AllocatedType DEF ActiveMemory, ActiveGpu
<1>9. /\ AllocatedMemory' = AllocatedMemory + d.memory_mb
      /\ AllocatedGpu' = AllocatedGpu + d.gpu_slots
  <2>1. PICK em \in Nat, eg \in Nat :
          /\ em = Total([k \in DOMAIN external |-> external[k].memory_mb])
          /\ eg = Total([k \in DOMAIN external |-> external[k].gpu_slots])
    <3>1. IsFiniteSet(DOMAIN external)
      BY FS_Subset, KeyAssumption DEF TypeOK
    <3>2. /\ [k \in DOMAIN external |-> external[k].memory_mb] \in [DOMAIN external -> Nat]
          /\ [k \in DOMAIN external |-> external[k].gpu_slots] \in [DOMAIN external -> Nat]
      BY DemandAssumption DEF TypeOK
    <3> QED
      BY <3>1, <3>2, TotalType
  <2>2. AllocatedMemory = ActiveMemory + em /\ AllocatedGpu = ActiveGpu + eg
    BY <2>1 DEF AllocatedMemory, AllocatedGpu
  <2>3. AllocatedMemory' = ActiveMemory' + em /\ AllocatedGpu' = ActiveGpu' + eg
    BY <1>5, <2>1 DEF AllocatedMemory, AllocatedGpu
  <2> HIDE DEF d
  <2>4. AllocatedMemory' = AllocatedMemory + d.memory_mb
    BY <1>2, <1>6, <1>8, <2>2, <2>3
  <2>5. AllocatedGpu' = AllocatedGpu + d.gpu_slots
    BY <1>2, <1>7, <1>8, <2>2, <2>3
  <2> QED
    BY <2>4, <2>5
<1>10. ~MemoryBlocks(d) /\ ~GpuBlocks(d)
  BY DEF IsReady, QueueStatus, Reason
<1>11. (MemoryBudget # NoLimit /\ d.memory_mb > 0) =>
         AllocatedMemory + d.memory_mb <= MemoryBudget
  BY <1>2, <1>8, <1>10, BudgetAssumption DEF MemoryBlocks, MemoryAvailable, SaturatingSub
<1>12. (GpuSlots # NoLimit /\ d.gpu_slots > 0) =>
         AllocatedGpu + d.gpu_slots <= GpuSlots
  BY <1>2, <1>8, <1>10, BudgetAssumption DEF GpuBlocks, GpuAvailable, SaturatingSub
<1> QED
  BY <1>5, <1>9, <1>11, <1>12

LEMMA NextFitsBudget == QueueInv /\ [Next]_vars => [FitsBudget]_vars
<1> SUFFICES ASSUME QueueInv, Next PROVE FitsBudget
  OBVIOUS
<1>1. ASSUME DOMAIN active' \subseteq DOMAIN active PROVE FitsBudget
  BY <1>1 DEF FitsBudget
<1>2. ASSUME NEW i \in Ids, TryAcquire(i) \/ WaitAdmitted(i) PROVE FitsBudget
  <2>1. queue # <<>> /\ Head(queue).id = i /\ IsReady(1) /\ Admit(i)
    BY <1>2 DEF TryAcquire, WaitAdmitted
  <2>2. DOMAIN active' = DOMAIN active \cup {i}
    BY <2>1, AdmitHandles
  <2> QED
    BY <2>1, <2>2, AdmitFits DEF FitsBudget
<1>3. ASSUME NEW k \in Keys, \/ Cancel(k) \/ RemoveExternal(k)
                             \/ \E d \in Demands : Enqueue(k, d)
      PROVE  FitsBudget
  BY <1>1, <1>3 DEF Cancel, RemoveExternal, Enqueue
<1>4. ASSUME NEW entries, ReconcileExternal(entries) PROVE FitsBudget
  BY <1>1, <1>4 DEF ReconcileExternal
<1>5. ASSUME NEW i \in Ids, BeginWait(i) \/ WaitCanceled(i) \/ WaitReports(i)
                    \/ WaitParks(i) \/ OnStatus(i) \/ SpuriousWake(i) \/ DropTicket(i)
      PROVE  FitsBudget
  BY <1>1, <1>5 DEF BeginWait, WaitCanceled, WaitReports, WaitParks, OnStatus,
                    SpuriousWake, DropTicket
<1>6. ASSUME NEW i \in Ids, IntoReservation(i) \/ DropPermit(i) \/ DropReservation(i)
      PROVE  FitsBudget
  BY <1>1, <1>6 DEF IntoReservation, DropPermit, DropReservation, ReleaseActive, Without
<1> QED
  BY <1>2, <1>3, <1>4, <1>5, <1>6 DEF Next, WaitCheck

(* Nothing is admitted into a budget it does not fit, external instances     *)
(* counted, whatever the configuration and whatever the demands.             *)
THEOREM BudgetCorrect == Spec => AdmissionFitsBudget
<1>1. QueueInv /\ [Next]_vars => [FitsBudget]_vars
  BY NextFitsBudget
<1> QED
  BY <1>1, QueueInvariant, PTL DEF Spec, AdmissionFitsBudget

-----------------------------------------------------------------------------
(* LaunchScheduler implements FifoAdmission: its queue, its handles and its *)
(* condition variable are first-come-first-served admission.                *)

(* The state the mapping reads: which ids are given out, queued, starting    *)
(* and running, and which AVD each live one names.                           *)
LiveIds == QueueIds \cup DOMAIN active

LEMMA IdsDisjoint ==
  ASSUME QueueInv
  PROVE  /\ QueueIds \cap DOMAIN active = {}
         /\ Starting \subseteq DOMAIN active
         /\ \A i \in LiveIds : i \in Ids /\ i <= next_id
<1> USE DEF QueueInv
<1>1. Ids \subseteq Nat /\ next_id \in Nat
  BY RequestsAssumption DEF Ids, TypeOK
<1>2. ASSUME NEW i \in QueueIds
      PROVE  i \in Ids /\ owner[i] \in {"held", "waiting", "reporting"}
  BY <1>2 DEF HandlesOwnAllocations, Waiters
<1>3. ASSUME NEW i \in DOMAIN active
      PROVE  i \in Ids /\ owner[i] \in {"permit", "session"}
  BY <1>3 DEF HandlesOwnAllocations
<1>4. \A i \in Ids : owner[i] # "unborn" => i <= next_id
  BY <1>1 DEF RequestsSoFar
<1> QED
  BY <1>2, <1>3, <1>4 DEF LiveIds, Starting

(* The mapping, read off case by case.                                       *)
PhaseFacts ==
  \A i \in Ids :
    /\ i > next_id => RequestPhase[i] = "new"
    /\ i \in QueueIds => RequestPhase[i] = "pending"
    /\ i \in Starting => RequestPhase[i] = "starting"
    /\ i \in DOMAIN active \ Starting => RequestPhase[i] = "running"
    /\ (i <= next_id /\ i \notin LiveIds) => RequestPhase[i] = "done"
NameFacts ==
  /\ \A e \in QueueEntries : RequestName[e.id] = e.key
  /\ \A i \in DOMAIN active : RequestName[i] = active[i].key
  /\ \A i \in Ids \ LiveIds : RequestName[i] = NoKey

LEMMA PhaseIs == QueueInv => PhaseFacts
<1> SUFFICES ASSUME QueueInv, NEW i \in Ids
             PROVE  /\ i > next_id => RequestPhase[i] = "new"
                    /\ i \in QueueIds => RequestPhase[i] = "pending"
                    /\ i \in Starting => RequestPhase[i] = "starting"
                    /\ i \in DOMAIN active \ Starting => RequestPhase[i] = "running"
                    /\ (i <= next_id /\ i \notin LiveIds) => RequestPhase[i] = "done"
  BY DEF PhaseFacts
<1>1. i \in Nat /\ next_id \in Nat
  BY RequestsAssumption DEF Ids, TypeOK, QueueInv
<1>2. /\ i \in LiveIds => i <= next_id
      /\ i \in QueueIds => i \notin DOMAIN active
      /\ i \in Starting => i \in DOMAIN active
  BY IdsDisjoint
<1> QED
  BY <1>1, <1>2 DEF RequestPhase, LiveIds

LEMMA EntryOf ==
  ASSUME QueueInv
  PROVE  /\ \A e, f \in QueueEntries : e.id = f.id => e = f
         /\ QueueIds = {e.id : e \in QueueEntries}
         /\ QueueKeys = {e.key : e \in QueueEntries}
<1> USE DEF QueueInv
<1>1. ASSUME NEW m \in DOMAIN queue, NEW n \in DOMAIN queue, queue[m].id = queue[n].id
      PROVE  m = n
  <2>1. queue[m].id \in Nat /\ queue[n].id \in Nat /\ m \in Nat /\ n \in Nat
    BY QueueEntryType DEF TypeOK
  <2> QED
    BY <1>1, <2>1 DEF QueueInRequestOrder
<1> QED
  BY <1>1 DEF QueueEntries, QueueIds, QueueKeys

LEMMA NameIs == QueueInv => NameFacts
<1> SUFFICES ASSUME QueueInv PROVE NameFacts
  OBVIOUS
<1>1. ASSUME NEW e \in QueueEntries PROVE RequestName[e.id] = e.key
  <2>1. e.id \in QueueIds /\ e.id \in Ids
    BY EntryOf, IdsDisjoint DEF LiveIds
  <2>2. (CHOOSE f \in QueueEntries : f.id = e.id) = e
    BY EntryOf
  <2> QED
    BY <2>1, <2>2 DEF RequestName
<1>2. ASSUME NEW i \in DOMAIN active PROVE RequestName[i] = active[i].key
  BY IdsDisjoint DEF RequestName, LiveIds
<1> QED
  BY <1>1, <1>2 DEF NameFacts, RequestName, LiveIds

(* A step that leaves a request alone leaves its phase and its name alone.   *)
Untouched(j) ==
  /\ j > next_id <=> j > next_id'
  /\ j \in QueueIds <=> j \in QueueIds'
  /\ j \in DOMAIN active <=> j \in DOMAIN active'
  /\ j \in Starting <=> j \in Starting'
  /\ \A e \in QueueEntries : e.id = j => e \in QueueEntries'
  /\ j \in DOMAIN active => active'[j].key = active[j].key

LEMMA UntouchedKeeps ==
  ASSUME QueueInv, QueueInv', NEW j \in Ids, Untouched(j)
  PROVE  RequestPhase'[j] = RequestPhase[j] /\ RequestName'[j] = RequestName[j]
<1>1. RequestPhase'[j] = RequestPhase[j]
  BY DEF RequestPhase, Untouched
<1>2. NameFacts /\ NameFacts'
  BY NameIs, PTL
<1>3. RequestName'[j] = RequestName[j]
  <2>1. CASE j \in QueueIds
    <3>1. PICK e \in QueueEntries : e.id = j
      BY <2>1, EntryOf
    <3> QED
      BY <1>2, <3>1 DEF Untouched, NameFacts
  <2>2. CASE j \in DOMAIN active
    BY <1>2, <2>2 DEF Untouched, NameFacts
  <2>3. CASE j \notin LiveIds
    <3>1. j \notin LiveIds'
      BY <2>3 DEF Untouched, LiveIds
    <3> QED
      BY <1>2, <2>3, <3>1 DEF NameFacts, Ids
  <2> QED
    BY <2>1, <2>2, <2>3 DEF LiveIds
<1> QED
  BY <1>1, <1>3

LEMMA MappedFunctions ==
  /\ RequestPhase = [i \in Ids |-> RequestPhase[i]]
  /\ RequestName = [i \in Ids |-> RequestName[i]]
BY DEF RequestPhase, RequestName

(* One step touches at most one request: the others keep phase and name, so  *)
(* the mapped functions change at that request only.                         *)
LEMMA OneTouched ==
  ASSUME QueueInv, QueueInv', NEW i \in Ids, \A j \in Ids \ {i} : Untouched(j)
  PROVE  /\ RequestPhase' = [RequestPhase EXCEPT ![i] = RequestPhase'[i]]
         /\ RequestName' = [RequestName EXCEPT ![i] = RequestName'[i]]
<1>1. \A j \in Ids \ {i} : RequestPhase'[j] = RequestPhase[j] /\ RequestName'[j] = RequestName[j]
  BY UntouchedKeeps
<1>2. RequestPhase' = [j \in Ids |-> RequestPhase'[j]] /\ RequestName' = [j \in Ids |-> RequestName'[j]]
  BY DEF RequestPhase, RequestName
<1> QED
  BY <1>1, <1>2, MappedFunctions

LEMMA NoneTouched ==
  ASSUME QueueInv, QueueInv', \A j \in Ids : Untouched(j)
  PROVE  UNCHANGED <<RequestPhase, RequestName>>
<1>1. \A j \in Ids : RequestPhase'[j] = RequestPhase[j] /\ RequestName'[j] = RequestName[j]
  BY UntouchedKeeps
<1>2. RequestPhase' = [j \in Ids |-> RequestPhase'[j]] /\ RequestName' = [j \in Ids |-> RequestName'[j]]
  BY DEF RequestPhase, RequestName
<1> QED
  BY <1>1, <1>2, MappedFunctions

(* Taking entry n out of the queue touches only its own request.             *)
LEMMA RemovedTouches ==
  ASSUME QueueInv, NEW n \in DOMAIN queue, queue' = Removed(n)
  PROVE  /\ QueueIds' = QueueIds \ {queue[n].id}
         /\ \A e \in QueueEntries : e.id # queue[n].id => e \in QueueEntries'
<1>1. PICK at \in [DOMAIN queue' -> DOMAIN queue \ {n}] :
        /\ \A m \in DOMAIN queue' : queue'[m] = queue[at[m]]
        /\ \A p \in DOMAIN queue \ {n} : \E m \in DOMAIN queue' : at[m] = p
  BY RemovedIndex DEF QueueInv, TypeOK
<1>2. QueueEntries' = {queue'[m] : m \in DOMAIN queue'}
  BY DEF QueueEntries
<1> QED
  BY <1>1, <1>2, RemovedEntries DEF QueueEntries, QueueInv

-----------------------------------------------------------------------------
(* Each action of the scheduler is an action of FifoAdmission, or none.      *)

LEMMA EnqueueArrives ==
  ASSUME QueueInv, QueueInv', NEW k \in Keys, NEW d \in Demands, Enqueue(k, d)
  PROVE  Fifo!Arrive(next_id + 1, k)
<1> DEFINE i == next_id + 1
           e == [id |-> i, key |-> k, demand |-> d]
<1>1. next_id \in Nat /\ next_id' = i /\ i \in Ids /\ active' = active
  BY RequestsAssumption DEF Enqueue, QueueInv, TypeOK, Ids
<1>2. queue \in Seq(Entries) /\ queue' = Append(queue, e)
  BY DEF Enqueue, QueueInv, TypeOK
<1>3. QueueIds' = QueueIds \cup {i} /\ QueueEntries' = QueueEntries \cup {e}
  BY <1>2 DEF QueueIds, QueueEntries
<1>4. PhaseFacts /\ NameFacts /\ PhaseFacts' /\ NameFacts'
  BY PhaseIs, NameIs, PTL
<1>5. \A j \in Ids \ {i} : Untouched(j)
  BY <1>1, <1>3 DEF Untouched, Starting, Ids
<1>6. /\ RequestPhase' = [RequestPhase EXCEPT ![i] = RequestPhase'[i]]
      /\ RequestName' = [RequestName EXCEPT ![i] = RequestName'[i]]
  BY <1>1, <1>5, OneTouched
<1>7. RequestPhase[i] = "new" /\ RequestPhase'[i] = "pending" /\ RequestName'[i] = k
  <2>1. i > next_id
    BY <1>1
  <2>2. i \in QueueIds' /\ e \in QueueEntries' /\ e.id = i /\ e.key = k
    BY <1>3
  <2> HIDE DEF i, e
  <2> QED
    BY <1>1, <1>4, <2>1, <2>2 DEF PhaseFacts, NameFacts, Ids
<1>8. \A q \in Ids : q < i => RequestPhase[q] # "new"
  <2>1. \A q \in Ids : q < i => q \in Nat /\ q <= next_id
    BY <1>1, RequestsAssumption DEF Ids
  <2> QED
    BY <2>1, <1>4 DEF PhaseFacts, Starting, LiveIds
<1>9. k \notin Fifo!LiveNames
  <2>1. k \notin QueueKeys \cup ActiveKeys
    BY DEF Enqueue, KeyIsFree
  <2>2. ASSUME NEW r \in Ids PROVE RequestName[r] # k
    <3>1. CASE r \in QueueIds
      <4>1. PICK f \in QueueEntries : f.id = r
        BY <3>1, EntryOf
      <4> QED
        BY <1>4, <2>1, <4>1, EntryOf DEF NameFacts
    <3>2. CASE r \in DOMAIN active
      BY <1>4, <2>1, <3>2 DEF NameFacts, ActiveKeys
    <3>3. CASE r \notin LiveIds
      BY <1>4, <3>3, KeyAssumption DEF NameFacts
    <3> QED
      BY <3>1, <3>2, <3>3 DEF LiveIds
  <2> QED
    BY <2>2 DEF Fifo!LiveNames
<1> HIDE DEF i
<1> QED
  BY <1>6, <1>7, <1>8, <1>9 DEF Fifo!Arrive, i

LEMMA RemovedEnds ==
  ASSUME QueueInv, QueueInv', NEW n \in DOMAIN queue, queue' = Removed(n),
         active' = active, next_id' = next_id
  PROVE  Fifo!End(queue[n].id) /\ queue[n].id \in Ids
<1> DEFINE i == queue[n].id
<1>1. i \in Ids /\ i \in QueueIds
  BY QueueEntryType DEF QueueInv, QueueIds
<1>2. QueueIds' = QueueIds \ {i} /\ \A e \in QueueEntries : e.id # i => e \in QueueEntries'
  BY RemovedTouches
<1>3. PhaseFacts /\ PhaseFacts' /\ NameFacts'
  BY PhaseIs, NameIs, PTL
<1>4. i \notin LiveIds' /\ i <= next_id'
  BY <1>1, <1>2, IdsDisjoint DEF LiveIds
<1> HIDE DEF i
<1>5. \A j \in Ids \ {i} : Untouched(j)
  BY <1>2 DEF Untouched, Starting
<1>6. /\ RequestPhase' = [RequestPhase EXCEPT ![i] = RequestPhase'[i]]
      /\ RequestName' = [RequestName EXCEPT ![i] = RequestName'[i]]
  BY <1>1, <1>5, OneTouched
<1>7. RequestPhase[i] = "pending" /\ RequestPhase'[i] = "done" /\ RequestName'[i] = NoKey
  BY <1>1, <1>3, <1>4 DEF PhaseFacts, NameFacts, Ids
<1> QED
  BY <1>1, <1>6, <1>7 DEF Fifo!End, i

(* The instance has its own copy of the operators of FiniteSets.             *)
LEMMA SameCardinality == \A S : Fifo!Cardinality(S) = Cardinality(S)
BY DEF Fifo!Cardinality, Cardinality, Fifo!IsFiniteSet, IsFiniteSet

LEMMA AdmitStarts ==
  ASSUME QueueInv, QueueInv', NEW i \in Ids, queue # <<>>, Head(queue).id = i,
         IsReady(1), Admit(i)
  PROVE  Fifo!Start(i)
<1>1. 1 \in DOMAIN queue /\ Head(queue) = queue[1] /\ queue[1].id = i
  BY HeadEntry DEF QueueInv
<1>2. /\ i \notin DOMAIN active
      /\ DOMAIN active' = DOMAIN active \cup {i}
      /\ Starting' = Starting \cup {i}
  BY AdmitHandles
<1>3. QueueIds' = QueueIds \ {i} /\ \A e \in QueueEntries : e.id # i => e \in QueueEntries'
  BY <1>1, RemovedTouches DEF Admit
<1>4. /\ next_id' = next_id /\ active'[i].key = queue[1].key
      /\ \A j \in DOMAIN active : active'[j].key = active[j].key
  BY <1>1, <1>2 DEF Admit
<1>5. PhaseFacts /\ NameFacts /\ PhaseFacts' /\ NameFacts'
  BY PhaseIs, NameIs, PTL
<1>6. \A j \in Ids \ {i} : Untouched(j)
  BY <1>2, <1>3, <1>4 DEF Untouched
<1>7. /\ RequestPhase' = [RequestPhase EXCEPT ![i] = RequestPhase'[i]]
      /\ RequestName' = [RequestName EXCEPT ![i] = RequestName'[i]]
  BY <1>6, OneTouched
<1>8. i \in QueueIds /\ queue[1] \in QueueEntries
  BY <1>1 DEF QueueIds, QueueEntries
<1>9. RequestPhase[i] = "pending" /\ RequestPhase'[i] = "starting"
      /\ RequestName'[i] = RequestName[i]
  BY <1>1, <1>2, <1>4, <1>5, <1>8 DEF PhaseFacts, NameFacts, Ids
<1>10. RequestName' = RequestName
  BY <1>7, <1>9, MappedFunctions
<1>11. \A q \in Fifo!Pending : i <= q
  <2> SUFFICES ASSUME NEW q \in Ids, RequestPhase[q] = "pending" PROVE i <= q
    BY DEF Fifo!Pending
  <2>1. q \in QueueIds
    <3>1. q \in Nat /\ next_id \in Nat
      BY RequestsAssumption DEF Ids, QueueInv, TypeOK
    <3> QED
      BY <1>5, <3>1 DEF PhaseFacts, LiveIds
  <2>2. PICK n \in DOMAIN queue : queue[n].id = q
    BY <2>1 DEF QueueIds
  <2>3. i \in Nat /\ q \in Nat /\ n \in Nat /\ (n = 1 \/ 1 < n)
    BY RequestsAssumption DEF Ids, QueueInv, TypeOK
  <2> QED
    BY <1>1, <2>2, <2>3 DEF QueueInv, QueueInRequestOrder
<1>12. Fifo!InStart = Starting
  <2>1. \A q \in Ids : RequestPhase[q] = "starting" <=> q \in Starting
    <3>1. \A q \in Ids : q \in Nat /\ next_id \in Nat
      BY RequestsAssumption DEF Ids, QueueInv, TypeOK
    <3> QED
      BY <1>5, <3>1 DEF PhaseFacts, LiveIds
  <2>2. Starting \subseteq Ids
    BY IdsDisjoint DEF LiveIds
  <2> QED
    BY <2>1, <2>2 DEF Fifo!InStart
<1>13. RequestPhase' = [RequestPhase EXCEPT ![i] = "starting"]
  BY <1>7, <1>9
<1>14. Fifo!Cardinality(Fifo!InStart) < MaxStarts
  BY <1>12, SameCardinality, ReadyMeansFree DEF QueueInv
<1>15. RequestPhase[i] = "pending"
  BY <1>9
<1> QED
  BY ONLY <1>10, <1>11, <1>13, <1>14, <1>15 DEF Fifo!Start

LEMMA IntoReservationBoots ==
  ASSUME QueueInv, QueueInv', NEW i \in Ids, IntoReservation(i)
  PROVE  Fifo!Booted(i)
<1>1. i \in Starting /\ i \in DOMAIN active
  BY DEF IntoReservation, QueueInv, HandlesOwnAllocations
<1>2. /\ UNCHANGED <<queue, next_id>> /\ DOMAIN active' = DOMAIN active
      /\ \A j \in DOMAIN active : active'[j].key = active[j].key
      /\ \A j \in DOMAIN active \ {i} : active'[j] = active[j]
      /\ active'[i].starting = FALSE
  BY <1>1 DEF IntoReservation, QueueInv, TypeOK, Allocations
<1>3. Starting' = Starting \ {i}
  BY <1>2 DEF Starting
<1>4. PhaseFacts /\ NameFacts /\ PhaseFacts' /\ NameFacts'
  BY PhaseIs, NameIs, PTL
<1>5. \A j \in Ids \ {i} : Untouched(j)
  BY <1>2, <1>3 DEF Untouched, QueueIds, QueueEntries
<1>6. /\ RequestPhase' = [RequestPhase EXCEPT ![i] = RequestPhase'[i]]
      /\ RequestName' = [RequestName EXCEPT ![i] = RequestName'[i]]
  BY <1>5, OneTouched
<1>7. RequestPhase[i] = "starting" /\ RequestPhase'[i] = "running"
      /\ RequestName'[i] = RequestName[i]
  BY <1>1, <1>2, <1>3, <1>4 DEF PhaseFacts, NameFacts, Ids
<1>8. RequestName' = RequestName
  BY <1>6, <1>7, MappedFunctions
<1> QED
  BY <1>6, <1>7, <1>8 DEF Fifo!Booted

LEMMA ReleaseEnds ==
  ASSUME QueueInv, QueueInv', NEW i \in Ids, DropPermit(i) \/ DropReservation(i)
  PROVE  Fifo!End(i)
<1>1. i \in DOMAIN active
  BY DEF DropPermit, DropReservation, QueueInv, HandlesOwnAllocations
<1>2. /\ UNCHANGED <<queue, next_id>> /\ DOMAIN active' = DOMAIN active \ {i}
      /\ \A j \in DOMAIN active \ {i} : active'[j] = active[j]
  BY DEF DropPermit, DropReservation, ReleaseActive, Without
<1>3. Starting' = Starting \ {i} /\ QueueIds' = QueueIds
  BY <1>2 DEF Starting, QueueIds
<1>4. PhaseFacts /\ NameFacts /\ PhaseFacts' /\ NameFacts'
  BY PhaseIs, NameIs, PTL
<1>5. \A j \in Ids \ {i} : Untouched(j)
  BY <1>2, <1>3 DEF Untouched, QueueEntries
<1>6. /\ RequestPhase' = [RequestPhase EXCEPT ![i] = RequestPhase'[i]]
      /\ RequestName' = [RequestName EXCEPT ![i] = RequestName'[i]]
  BY <1>5, OneTouched
<1>7. i \notin LiveIds' /\ i <= next_id'
  BY <1>1, <1>2, <1>3, IdsDisjoint DEF LiveIds
<1>8. RequestPhase[i] \in {"starting", "running"} /\ RequestPhase'[i] = "done"
      /\ RequestName'[i] = NoKey
  BY <1>1, <1>4, <1>7 DEF PhaseFacts, NameFacts, Ids
<1> QED
  BY <1>6, <1>8 DEF Fifo!End

LEMMA NextRefines ==
  QueueInv /\ QueueInv' /\ [Next]_vars => [Fifo!FifoNext]_<<RequestPhase, RequestName>>
<1> SUFFICES ASSUME QueueInv, QueueInv', [Next]_vars
             PROVE  Fifo!FifoNext \/ UNCHANGED <<RequestPhase, RequestName>>
  OBVIOUS
<1>1. ASSUME NEW k \in Keys, NEW d \in Demands, Enqueue(k, d) PROVE Fifo!FifoNext
  <2>1. next_id + 1 \in Ids
    BY <1>1, RequestsAssumption DEF Enqueue, QueueInv, TypeOK, Ids
  <2> QED
    BY <1>1, <2>1, EnqueueArrives DEF Fifo!FifoNext
<1>2. ASSUME NEW n \in DOMAIN queue, queue' = Removed(n), active' = active, next_id' = next_id
      PROVE  Fifo!FifoNext
  BY <1>2, RemovedEnds DEF Fifo!FifoNext
<1>3. ASSUME UNCHANGED <<queue, active, next_id>>
      PROVE  UNCHANGED <<RequestPhase, RequestName>>
  BY <1>3 DEF RequestPhase, RequestName, QueueIds, QueueEntries, Starting
<1>4. ASSUME NEW i \in Ids, TryAcquire(i) \/ WaitAdmitted(i) PROVE Fifo!FifoNext
  <2>1. queue # <<>> /\ Head(queue).id = i /\ IsReady(1) /\ Admit(i)
    BY <1>4 DEF TryAcquire, WaitAdmitted
  <2> QED
    BY <2>1, AdmitStarts DEF Fifo!FifoNext
<1>5. ASSUME NEW i \in Ids, IntoReservation(i) PROVE Fifo!FifoNext
  BY <1>5, IntoReservationBoots DEF Fifo!FifoNext
<1>6. ASSUME NEW i \in Ids, DropPermit(i) \/ DropReservation(i) PROVE Fifo!FifoNext
  BY <1>6, ReleaseEnds DEF Fifo!FifoNext
<1>7. ASSUME NEW k \in Keys, Cancel(k) PROVE Fifo!FifoNext
  BY <1>2, <1>7 DEF Cancel
<1>8. ASSUME NEW i \in Ids, DropTicket(i)
      PROVE  Fifo!FifoNext \/ UNCHANGED <<RequestPhase, RequestName>>
  BY <1>2, <1>3, <1>8 DEF DropTicket
<1>9. ASSUME NEW k \in Keys, RemoveExternal(k)
      PROVE  UNCHANGED <<RequestPhase, RequestName>>
  BY <1>3, <1>9 DEF RemoveExternal
<1>10. ASSUME NEW entries, ReconcileExternal(entries)
       PROVE  UNCHANGED <<RequestPhase, RequestName>>
  BY <1>3, <1>10 DEF ReconcileExternal
<1>11. ASSUME NEW i \in Ids, BeginWait(i) \/ WaitCanceled(i) \/ WaitReports(i)
                               \/ WaitParks(i) \/ OnStatus(i) \/ SpuriousWake(i)
       PROVE  UNCHANGED <<RequestPhase, RequestName>>
  BY <1>3, <1>11 DEF BeginWait, WaitCanceled, WaitReports, WaitParks, OnStatus, SpuriousWake
<1>12. CASE UNCHANGED vars
  BY <1>3, <1>12 DEF vars
<1> QED
  BY <1>1, <1>4, <1>5, <1>6, <1>7, <1>8, <1>9, <1>10, <1>11, <1>12 DEF Next, WaitCheck

LEMMA InitRefines == Init => Fifo!FifoInit
<1> SUFFICES ASSUME Init PROVE Fifo!FifoInit
  OBVIOUS
<1>1. QueueIds = {} /\ Starting = {} /\ DOMAIN active = {} /\ next_id = 0
  BY DEF Init, QueueIds, Starting
<1>2. \A i \in Ids : i > next_id
  BY <1>1, RequestsAssumption DEF Ids
<1> QED
  BY <1>1, <1>2 DEF Fifo!FifoInit, RequestPhase, RequestName

(* For every set of AVDs and every configuration, the scheduler's queue of   *)
(* tickets, its condition variable and its drop handlers implement           *)
(* first-come-first-served admission with MaxStarts start slots.             *)
THEOREM FifoRefinement == Spec => ImplementsFifo
<1>1. QueueInv /\ QueueInv' /\ [Next]_vars => [Fifo!FifoNext]_<<RequestPhase, RequestName>>
  BY NextRefines
<1> QED
  BY <1>1, InitRefines, QueueInvariant, PTL
     DEF Spec, ImplementsFifo, Fifo!FifoSpec, Fifo!fifoVars

=============================================================================
