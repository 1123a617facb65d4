------------------------------ MODULE StoreProofs ------------------------------
(***************************************************************************)
(* Proofs about what is kept on disk for the next process: components      *)
(* (PackageStore), for any number of packages, tasks and blocks; AVDs      *)
(* (AvdStore), for every set of names and creators; and the identities of  *)
(* sessions with their leases and modules (RecoveryLease), for any number  *)
(* of processes.  Crashes are unbounded in all three.                      *)
(***************************************************************************)
EXTENDS PackageStore, AvdStore, RecoveryLease, SequenceTheorems, FiniteSetTheorems,
        WellFoundedInduction, TLAPS

-----------------------------------------------------------------------------
(* The inductive invariant of PackageStore.                                 *)

Early == {"dialog", "cache", "request", "stream", "cached", "unpack"}
Holding == {"backup", "swap", "verify", "restore", "uninstall"}
Stages == {"idle"} \cup Early \cup Holding
Copies == [blocks : Seq(Nat), whole : BOOLEAN]
TaskRecords == [at : Stages, package : Packages \cup {Resting.package}, attempt : Nat,
                restarts : Nat, until : 0 .. LongestFile, total : Nat,
                staged : Copies, had : Copies]

PackageTypes ==
  /\ changes \in 0 .. MaxServerChanges /\ server \in [Packages -> 1 .. changes + 1]
  /\ archive \in [Packages -> Seq(Nat)] /\ part \in [Packages -> Seq(Nat)]
  /\ installLock \in [Packages -> PackageTasks \cup {NoTask}]
  /\ installed \in [Packages -> Copies] /\ backups \in [Packages -> SUBSET Copies]
  /\ packageTask \in [PackageTasks -> TaskRecords]

\* A copy that may be at a package's place.
Checked(p, c) == p \in Summed /\ c # Nothing => c.blocks = Expected

\* A task that changes a component has its lock, and knows what is in its place.
TaskInv(t) ==
  /\ packageTask[t].at # "idle" => Of(t) \in Packages
  /\ packageTask[t].at \in Holding => installLock[Of(t)] = t
  /\ packageTask[t].at \in {"backup", "swap", "verify"} => Checked(Of(t), packageTask[t].staged)
  /\ packageTask[t].at \in {"swap", "verify", "restore"} =>
       /\ Checked(Of(t), packageTask[t].had)
       /\ packageTask[t].had # Nothing => packageTask[t].had \in backups[Of(t)]
  /\ packageTask[t].at \in {"swap", "restore"} => installed[Of(t)] = Nothing
  /\ packageTask[t].at = "uninstall" => ~installed[Of(t)].whole

ProductInv(p) ==
  /\ p \in Summed => archive[p] \in {NoFile, Expected}
  /\ Checked(p, installed[p])

PackageInv ==
  /\ PackageTypes
  /\ \A t \in PackageTasks : TaskInv(t)
  /\ \A p \in Packages : ProductInv(p)

-----------------------------------------------------------------------------
(* What a step does to its own task and leaves to the others.               *)

TaskIs(t, at, p, staged, had) ==
  /\ packageTask' \in [PackageTasks -> TaskRecords]
  /\ packageTask'[t].at = at /\ packageTask'[t].package = p
  /\ packageTask'[t].staged = staged /\ packageTask'[t].had = had
  /\ \A u \in PackageTasks \ {t} : packageTask'[u] = packageTask[u]

\* Components another task has the lock of stay as they are.
OthersStayLocked(t) ==
  /\ \A u \in PackageTasks \ {t} : packageTask'[u] = packageTask[u]
  /\ \A p \in Packages : installLock[p] \notin {t, NoTask} =>
       installLock'[p] = installLock[p] /\ installed'[p] = installed[p] /\ backups'[p] = backups[p]

LEMMA NothingIs == Nothing \in Copies /\ ~Nothing.whole
BY DEF Nothing, Copies, NoFile

LEMMA RestingIs ==
  /\ Resting \in TaskRecords /\ Resting.at = "idle"
  /\ Resting.staged = Nothing /\ Resting.had = Nothing
<1>1. Resting.package \in Packages \cup {Resting.package}
  OBVIOUS
<1> DEFINE p == CHOOSE q \in Packages : TRUE
<1>2. /\ Resting.at = "idle" /\ Resting.attempt = 1 /\ Resting.restarts = 0
      /\ Resting.until = 0 /\ Resting.total = 0 /\ Resting.staged = Nothing /\ Resting.had = Nothing
      /\ Resting.package = p
  BY DEF Resting
<1>3. Resting = [at |-> "idle", package |-> p, attempt |-> 1, restarts |-> 0,
                 until |-> 0, total |-> 0, staged |-> Nothing, had |-> Nothing]
  BY DEF Resting
<1>4. Resting \in TaskRecords
  BY <1>2, <1>3, NothingIs, LengthAssumption DEF TaskRecords, Stages
<1> QED
  BY <1>2, <1>4

LEMMA TaskSet ==
  ASSUME packageTask \in [PackageTasks -> TaskRecords], NEW t \in PackageTasks,
         NEW w \in TaskRecords, packageTask' = [packageTask EXCEPT ![t] = w]
  PROVE  TaskIs(t, w.at, w.package, w.staged, w.had)
BY DEF TaskIs

LEMMA TaskGoesTo ==
  ASSUME packageTask \in [PackageTasks -> TaskRecords], NEW t \in PackageTasks,
         NEW at \in Stages, TaskGoes(t, at)
  PROVE  TaskIs(t, at, Of(t), packageTask[t].staged, packageTask[t].had)
<1> DEFINE w == [packageTask[t] EXCEPT !.at = at]
<1>1. packageTask' = [packageTask EXCEPT ![t] = w]
  BY Zenon DEF TaskGoes
<1>2. /\ w \in TaskRecords /\ w.at = at /\ w.package = packageTask[t].package
      /\ w.staged = packageTask[t].staged /\ w.had = packageTask[t].had
  <2>1. packageTask[t] \in TaskRecords
    OBVIOUS
  <2> QED
    BY <2>1 DEF TaskRecords
<1> HIDE DEF w
<1>3. TaskIs(t, w.at, w.package, w.staged, w.had)
  BY <1>1, <1>2, TaskSet
<1> QED
  BY <1>2, <1>3 DEF Of

LEMMA TaskEndsIs ==
  ASSUME packageTask \in [PackageTasks -> TaskRecords], NEW t \in PackageTasks, TaskEnds(t)
  PROVE  TaskIs(t, "idle", Resting.package, Nothing, Nothing)
<1>1. TaskIs(t, Resting.at, Resting.package, Resting.staged, Resting.had)
  BY RestingIs, TaskSet DEF TaskEnds
<1> QED
  BY <1>1, RestingIs

\* The invariant holds after a step when it holds of the step's own task and the
\* other tasks' components stay.
LEMMA OneTask ==
  ASSUME PackageInv, NEW t \in PackageTasks, PackageTypes', OthersStayLocked(t), TaskInv(t)',
         \A p \in Packages : ProductInv(p)'
  PROVE  PackageInv'
<1>1. ASSUME NEW u \in PackageTasks \ {t}
      PROVE  TaskInv(u)'
  <2>1. TaskInv(u) /\ packageTask'[u] = packageTask[u] /\ u # NoTask
    BY PackageAssumption DEF PackageInv, OthersStayLocked
  <2>2. packageTask[u].at \in Holding =>
          /\ installLock'[Of(u)] = installLock[Of(u)] /\ installed'[Of(u)] = installed[Of(u)]
          /\ backups'[Of(u)] = backups[Of(u)]
    BY <2>1 DEF TaskInv, OthersStayLocked, Holding
  <2> QED
    BY <2>1, <2>2 DEF TaskInv, Of, Holding
<1> QED
  BY <1>1 DEF PackageInv

-----------------------------------------------------------------------------
(* The steps before a component is touched.                                 *)

\* What a step of a download leaves: the components, and archives that were checked.
LEMMA EarlyKeeps ==
  ASSUME PackageInv, NEW t \in PackageTasks,
         NEW at \in {"idle"} \cup Early, NEW p \in Packages \cup {Resting.package},
         NEW staged, NEW had, TaskIs(t, at, p, staged, had), at # "idle" => p \in Packages,
         UNCHANGED <<server, changes, installLock, installed, backups>>,
         archive' \in [Packages -> Seq(Nat)], part' \in [Packages -> Seq(Nat)],
         \A q \in Summed : archive'[q] \in {archive[q], NoFile, Expected}
  PROVE  PackageInv'
<1>1. PackageTypes'
  BY DEF PackageInv, PackageTypes, TaskIs
<1>2. OthersStayLocked(t)
  BY DEF OthersStayLocked, TaskIs
<1>3. TaskInv(t)'
  BY DEF TaskInv, TaskIs, Of, Early, Holding
<1>4. ASSUME NEW q \in Packages
      PROVE  ProductInv(q)'
  BY DEF PackageInv, ProductInv, Checked
<1> QED
  BY <1>1, <1>2, <1>3, <1>4, OneTask

LEMMA PageKeeps ==
  ASSUME PackageInv, NEW t \in PackageTasks,
         AcceptLicense(t) \/ DeclineLicense(t) \/ LeaveCache(t) \/ \E p \in Packages : ClickDownload(t, p)
  PROVE  PackageInv'
<1>1. /\ packageTask \in [PackageTasks -> TaskRecords]
      /\ archive \in [Packages -> Seq(Nat)] /\ part \in [Packages -> Seq(Nat)]
      /\ packageTask[t].at # "idle" => Of(t) \in Packages
  BY DEF PackageInv, PackageTypes, TaskInv
<1>2. UNCHANGED <<server, changes, archive, part, installLock, installed, backups>>
  BY Zenon DEF AcceptLicense, DeclineLicense, LeaveCache, ClickDownload
<1>3. CASE AcceptLicense(t) \/ LeaveCache(t)
  <2>1. PICK at \in {"cache", "unpack"} : TaskGoes(t, at) /\ packageTask[t].at \in {"dialog", "cached"}
    BY <1>3, Zenon DEF AcceptLicense, LeaveCache
  <2>2. TaskIs(t, at, Of(t), packageTask[t].staged, packageTask[t].had)
    BY <1>1, <2>1, TaskGoesTo DEF Stages, Early
  <2> QED
    BY <1>1, <1>2, <2>1, <2>2, EarlyKeeps DEF Early
<1>4. CASE DeclineLicense(t)
  <2>1. TaskIs(t, "idle", Resting.package, Nothing, Nothing)
    BY <1>1, <1>4, TaskEndsIs DEF DeclineLicense
  <2> QED
    BY <1>1, <1>2, <2>1, EarlyKeeps
<1>5. ASSUME NEW p \in Packages, ClickDownload(t, p)
      PROVE  PackageInv'
  <2> DEFINE at == IF licensed THEN "cache" ELSE "dialog"
             w == [Resting EXCEPT !.at = at, !.package = p]
  <2>1. packageTask' = [packageTask EXCEPT ![t] = w]
    BY <1>5, Zenon DEF ClickDownload
  <2>2. at \in Early
    BY DEF Early
  <2> HIDE DEF at
  <2>3. /\ w \in TaskRecords /\ w.at = at /\ w.package = p
        /\ w.staged = Nothing /\ w.had = Nothing
    BY <2>2, RestingIs DEF TaskRecords, Stages
  <2> HIDE DEF w
  <2>4. TaskIs(t, at, p, Nothing, Nothing)
    <3>1. TaskIs(t, w.at, w.package, w.staged, w.had)
      BY <1>1, <2>1, <2>3, TaskSet
    <3> QED
      BY <2>3, <3>1
  <2> QED
    BY <1>1, <1>2, <2>2, <2>4, EarlyKeeps
<1> QED
  BY <1>3, <1>4, <1>5

LEMMA TakeCacheKeeps ==
  ASSUME PackageInv, NEW t \in PackageTasks, TakeCache(t)
  PROVE  PackageInv'
<1>1. /\ packageTask \in [PackageTasks -> TaskRecords]
      /\ archive \in [Packages -> Seq(Nat)] /\ part \in [Packages -> Seq(Nat)]
      /\ packageTask[t].at # "idle" => Of(t) \in Packages
  BY DEF PackageInv, PackageTypes, TaskInv
<1>2. packageTask[t].at = "cache" /\ UNCHANGED <<server, changes, installLock, installed, backups>>
  BY Zenon DEF TakeCache
<1>3. CASE TaskEnds(t) /\ UNCHANGED <<archive, part>>
  <2>1. TaskIs(t, "idle", Resting.package, Nothing, Nothing)
    BY <1>1, <1>3, TaskEndsIs
  <2> QED
    BY <1>1, <1>2, <1>3, <2>1, EarlyKeeps
<1>4. ASSUME NEW gone, NEW usable,
             archive' = [p \in Packages |->
                           IF p \in gone \/ (p = Of(t) /\ ~usable) THEN NoFile ELSE archive[p]],
             part' = [p \in Packages |-> IF p \in gone THEN NoFile ELSE part[p]],
             TaskGoes(t, IF usable THEN "cached" ELSE "request")
      PROVE  PackageInv'
  <2> DEFINE at == IF usable THEN "cached" ELSE "request"
  <2>1. at \in Early /\ at \in Stages
    BY DEF Early, Stages
  <2>2. TaskGoes(t, at)
    BY <1>4
  <2> HIDE DEF at
  <2>3. TaskIs(t, at, Of(t), packageTask[t].staged, packageTask[t].had)
    BY <1>1, <2>1, <2>2, TaskGoesTo
  <2>4. archive' \in [Packages -> Seq(Nat)] /\ part' \in [Packages -> Seq(Nat)]
    BY <1>1, <1>4 DEF NoFile
  <2>5. \A q \in Summed : archive'[q] \in {archive[q], NoFile, Expected}
    BY <1>4, PackageAssumption
  <2> QED
    BY <1>1, <1>2, <2>1, <2>3, <2>4, <2>5, EarlyKeeps
<1> DEFINE gone == Pruned(t, Blocks)
           usable == /\ Len(archive[Of(t)]) = Blocks
                     /\ Of(t) \in Summed => archive[Of(t)] = Expected
<1>5. \/ TaskEnds(t) /\ UNCHANGED <<archive, part>>
      \/ /\ archive' = [p \in Packages |->
                           IF p \in gone \/ (p = Of(t) /\ ~usable) THEN NoFile ELSE archive[p]]
         /\ part' = [p \in Packages |-> IF p \in gone THEN NoFile ELSE part[p]]
         /\ TaskGoes(t, IF usable THEN "cached" ELSE "request")
  BY Zenon DEF TakeCache
<1> HIDE DEF gone, usable
<1> QED
  BY <1>3, <1>4, <1>5

LEMMA RetryIs ==
  ASSUME packageTask \in [PackageTasks -> TaskRecords], NEW t \in PackageTasks, RetryOrFail(t)
  PROVE  \/ TaskIs(t, "request", Of(t), packageTask[t].staged, packageTask[t].had)
         \/ TaskIs(t, "idle", Resting.package, Nothing, Nothing)
<1> DEFINE w == [packageTask[t] EXCEPT !.at = "request", !.attempt = @ + 1, !.restarts = 0]
<1>1. TaskEnds(t) \/ packageTask' = [packageTask EXCEPT ![t] = w]
  BY Zenon DEF RetryOrFail
<1>2. /\ w \in TaskRecords /\ w.at = "request" /\ w.package = packageTask[t].package
      /\ w.staged = packageTask[t].staged /\ w.had = packageTask[t].had
  <2> DEFINE n == packageTask[t].attempt + 1
  <2>1. packageTask[t] \in TaskRecords /\ n \in Nat
    BY DEF TaskRecords
  <2>2. w = [packageTask[t] EXCEPT !.at = "request", !.attempt = n, !.restarts = 0]
    OBVIOUS
  <2> HIDE DEF n, w
  <2> QED
    BY <2>1, <2>2 DEF TaskRecords, Stages, Early
<1> HIDE DEF w
<1>3. CASE packageTask' = [packageTask EXCEPT ![t] = w]
  <2>1. TaskIs(t, w.at, w.package, w.staged, w.had)
    BY <1>2, <1>3, TaskSet
  <2> QED
    BY <1>2, <2>1 DEF Of
<1> QED
  BY <1>1, <1>3, TaskEndsIs

\* The generations there are have a length.
LEMMA ServedIs ==
  ASSUME PackageTypes, NEW p \in Packages
  PROVE  server[p] \in Nat /\ server[p] \in Generations /\ Length[server[p]] \in 1 .. LongestFile
<1>1. server[p] \in 1 .. changes + 1 /\ changes \in 0 .. MaxServerChanges
  BY DEF PackageTypes
<1>2. server[p] \in Nat /\ server[p] \in Generations
  BY <1>1, PackageAssumption DEF Generations
<1> QED
  BY <1>2, LengthAssumption

LEMMA AnswerIs ==
  ASSUME PackageInv, NEW t \in PackageTasks, NEW resume, NEW announced,
         ServerAnswers(t, resume, announced)
  PROVE  TaskIs(t, "stream", Of(t), packageTask[t].staged, packageTask[t].had)
<1> DEFINE size == Length[server[Of(t)]]
           had == Len(part[Of(t)])
           total == IF announced THEN size ELSE IF resume THEN had ELSE 0
           w == [packageTask[t] EXCEPT !.at = "stream", !.until = size, !.total = total]
<1>1. packageTask[t].at = "request" /\ packageTask' = [packageTask EXCEPT ![t] = w]
  BY Zenon DEF ServerAnswers
<1>2. /\ packageTask \in [PackageTasks -> TaskRecords] /\ packageTask[t] \in TaskRecords
      /\ Of(t) \in Packages /\ PackageTypes
  BY <1>1 DEF PackageInv, PackageTypes, TaskInv
<1>3. size \in 1 .. LongestFile /\ LongestFile \in Nat
  BY <1>2, ServedIs, LengthAssumption
<1>4. had \in Nat
  BY <1>2 DEF PackageTypes
<1> HIDE DEF size, had
<1>5. total \in Nat /\ size \in 0 .. LongestFile
  BY <1>3, <1>4
<1> HIDE DEF total
<1>6. /\ w \in TaskRecords /\ w.at = "stream" /\ w.package = packageTask[t].package
      /\ w.staged = packageTask[t].staged /\ w.had = packageTask[t].had
  BY <1>2, <1>5 DEF TaskRecords, Stages, Early
<1> HIDE DEF w
<1>7. TaskIs(t, w.at, w.package, w.staged, w.had)
  BY <1>1, <1>2, <1>6, TaskSet
<1> QED
  BY <1>6, <1>7 DEF Of

LEMMA DownloadKeeps ==
  ASSUME PackageInv, NEW t \in PackageTasks,
         \/ RangeRefused(t) \/ HttpFails(t) \/ BlockArrives(t) \/ NetworkFails(t)
         \/ \E resume, announced \in BOOLEAN : ServerAnswers(t, resume, announced)
  PROVE  PackageInv'
<1>1. /\ packageTask \in [PackageTasks -> TaskRecords] 
      /\ archive \in [Packages -> Seq(Nat)] /\ part \in [Packages -> Seq(Nat)]
      /\ packageTask[t].at # "idle" => Of(t) \in Packages
  BY DEF PackageInv, PackageTypes, TaskInv
<1>2. UNCHANGED <<server, changes, archive, installLock, installed, backups>>
  BY Zenon DEF RangeRefused, HttpFails, BlockArrives, NetworkFails, ServerAnswers
<1>3. packageTask[t].at \in {"request", "stream"}
  BY Zenon DEF RangeRefused, HttpFails, BlockArrives, NetworkFails, ServerAnswers
<1>4. part' \in [Packages -> Seq(Nat)]
  <2>1. \/ UNCHANGED part
        \/ part' = [part EXCEPT ![Of(t)] = NoFile]
        \/ part' = [part EXCEPT ![Of(t)] = Append(@, server[Of(t)])]
    BY Zenon DEF RangeRefused, HttpFails, BlockArrives, NetworkFails, ServerAnswers
  <2>2. /\ Of(t) \in Packages /\ NoFile \in Seq(Nat)
        /\ Append(part[Of(t)], server[Of(t)]) \in Seq(Nat)
    <3>1. Of(t) \in Packages
      BY <1>1, <1>3
    <3> QED
      BY <1>1, <3>1, ServedIs DEF NoFile, PackageInv
  <2> QED
    BY <1>1, <2>1, <2>2
<1>5. ASSUME NEW at \in Early, TaskIs(t, at, Of(t), packageTask[t].staged, packageTask[t].had)
      PROVE  PackageInv'
  BY <1>1, <1>2, <1>3, <1>4, <1>5, EarlyKeeps
<1>6. ASSUME TaskIs(t, "idle", Resting.package, Nothing, Nothing)
      PROVE  PackageInv'
  BY <1>1, <1>2, <1>4, <1>6, EarlyKeeps
<1>7. CASE RetryOrFail(t)
  BY <1>1, <1>5, <1>6, <1>7, RetryIs DEF Early
<1>8. CASE TaskEnds(t)
  BY <1>1, <1>6, <1>8, TaskEndsIs
<1>9. ASSUME NEW resume \in BOOLEAN, NEW announced \in BOOLEAN,
             ServerAnswers(t, resume, announced)
      PROVE  PackageInv'
  BY <1>5, <1>9, AnswerIs DEF Early
<1>10. CASE UNCHANGED packageTask
  <2>1. TaskIs(t, packageTask[t].at, Of(t), packageTask[t].staged, packageTask[t].had)
    BY <1>1, <1>10 DEF TaskIs, Of
  <2> QED
    BY <1>3, <1>5, <2>1 DEF Early
<1>11. CASE packageTask' = [packageTask EXCEPT ![t].restarts = 1]
  <2> DEFINE w == [packageTask[t] EXCEPT !.restarts = 1]
  <2>1. packageTask' = [packageTask EXCEPT ![t] = w]
    BY <1>11, Zenon
  <2>2. /\ w \in TaskRecords /\ w.at = packageTask[t].at /\ w.package = packageTask[t].package
        /\ w.staged = packageTask[t].staged /\ w.had = packageTask[t].had
    <3>1. packageTask[t] \in TaskRecords
      BY <1>1
    <3> QED
      BY <3>1 DEF TaskRecords
  <2> HIDE DEF w
  <2>3. TaskIs(t, w.at, w.package, w.staged, w.had)
    BY <1>1, <2>1, <2>2, TaskSet
  <2>4. TaskIs(t, packageTask[t].at, Of(t), packageTask[t].staged, packageTask[t].had)
    BY <2>2, <2>3 DEF Of
  <2> QED
    BY <1>3, <1>5, <2>4 DEF Early
<1>12. \/ RetryOrFail(t) \/ TaskEnds(t) \/ UNCHANGED packageTask
       \/ packageTask' = [packageTask EXCEPT ![t].restarts = 1]
       \/ \E resume, announced \in BOOLEAN : ServerAnswers(t, resume, announced)
  BY Zenon DEF RangeRefused, HttpFails, BlockArrives, NetworkFails
<1> QED
  BY <1>7, <1>8, <1>9, <1>10, <1>11, <1>12

LEMMA StreamEndsKeeps ==
  ASSUME PackageInv, NEW t \in PackageTasks, StreamEnds(t)
  PROVE  PackageInv'
<1>1. /\ packageTask \in [PackageTasks -> TaskRecords]
      /\ archive \in [Packages -> Seq(Nat)] /\ part \in [Packages -> Seq(Nat)]
      /\ packageTask[t].at # "idle" => Of(t) \in Packages
  BY DEF PackageInv, PackageTypes, TaskInv
<1>2. /\ packageTask[t].at = "stream"
      /\ UNCHANGED <<server, changes, installLock, installed, backups>>
      /\ \/ RetryOrFail(t) /\ UNCHANGED <<archive, part>>
         \/ /\ part' = [part EXCEPT ![Of(t)] = NoFile]
            /\ TaskEnds(t) /\ UNCHANGED archive
         \/ /\ Of(t) \in Summed => part[Of(t)] = Expected
            /\ part' = [part EXCEPT ![Of(t)] = NoFile]
            /\ archive' = [archive EXCEPT ![Of(t)] = part[Of(t)]]
            /\ TaskGoes(t, "cached") \/ TaskEnds(t)
  BY Zenon DEF StreamEnds, StreamIsOver, Rename
<1>3. Of(t) \in Packages /\ (\A q \in Summed : archive[q] \in {archive[q], NoFile, Expected})
  BY <1>1, <1>2
<1>4. CASE RetryOrFail(t) /\ UNCHANGED <<archive, part>>
  BY <1>1, <1>2, <1>3, <1>4, RetryIs, EarlyKeeps DEF Early
<1>5. CASE part' = [part EXCEPT ![Of(t)] = NoFile] /\ TaskEnds(t) /\ UNCHANGED archive
  <2>1. TaskIs(t, "idle", Resting.package, Nothing, Nothing)
    BY <1>1, <1>5, TaskEndsIs
  <2>2. part' \in [Packages -> Seq(Nat)]
    BY <1>1, <1>3, <1>5 DEF NoFile
  <2> QED
    BY <1>1, <1>2, <1>3, <1>5, <2>1, <2>2, EarlyKeeps
<1>6. CASE /\ Of(t) \in Summed => part[Of(t)] = Expected
           /\ part' = [part EXCEPT ![Of(t)] = NoFile]
           /\ archive' = [archive EXCEPT ![Of(t)] = part[Of(t)]]
           /\ TaskGoes(t, "cached") \/ TaskEnds(t)
  <2>1. \/ TaskIs(t, "cached", Of(t), packageTask[t].staged, packageTask[t].had)
        \/ TaskIs(t, "idle", Resting.package, Nothing, Nothing)
    BY <1>1, <1>6, TaskGoesTo, TaskEndsIs DEF Stages, Early
  <2>2. /\ archive' \in [Packages -> Seq(Nat)] /\ part' \in [Packages -> Seq(Nat)]
        /\ \A q \in Summed : archive'[q] \in {archive[q], NoFile, Expected}
    BY <1>1, <1>3, <1>6, PackageAssumption DEF NoFile
  <2> QED
    BY <1>2, <1>3, <2>1, <2>2, EarlyKeeps DEF Early
<1> QED
  BY <1>2, <1>4, <1>5, <1>6

-----------------------------------------------------------------------------
(* The steps that touch a component.                                        *)

WholeKept == \A p \in Packages : HasWhole(p) => HasWhole(p)'

\* A step of task t that touches package p alone, whose lock is free or its own.
Touches(t, p) ==
  /\ UNCHANGED <<server, changes, archive, part>>
  /\ installLock' \in [Packages -> PackageTasks \cup {NoTask}]
  /\ installed' \in [Packages -> Copies] /\ backups' \in [Packages -> SUBSET Copies]
  /\ \A q \in Packages \ {p} :
       installLock'[q] = installLock[q] /\ installed'[q] = installed[q] /\ backups'[q] = backups[q]
  /\ installLock[p] \in {t, NoTask}

LEMMA TouchKeeps ==
  ASSUME PackageInv, NEW t \in PackageTasks, NEW p \in Packages, Touches(t, p),
         NEW at, NEW q, NEW staged, NEW had, TaskIs(t, at, q, staged, had),
         TaskInv(t)', Checked(p, installed'[p])
  PROVE  PackageInv'
<1>1. PackageTypes'
  BY DEF PackageInv, PackageTypes, TaskIs, Touches
<1>2. OthersStayLocked(t)
  BY DEF OthersStayLocked, TaskIs, Touches
<1>3. ASSUME NEW r \in Packages
      PROVE  ProductInv(r)'
  <2>1. ProductInv(r)
    BY DEF PackageInv
  <2>2. CASE r = p
    BY <2>1, <2>2 DEF ProductInv, Touches, Checked
  <2>3. CASE r # p
    BY <2>1, <2>3 DEF ProductInv, Touches, Checked
  <2> QED
    BY <2>2, <2>3
<1> QED
  BY <1>1, <1>2, <1>3, OneTask

LEMMA TouchKeepsWhole ==
  ASSUME NEW t, NEW p \in Packages, Touches(t, p), HasWhole(p) => HasWhole(p)'
  PROVE  WholeKept
BY DEF WholeKept, HasWhole, Touches

\* What is known of a task that has a component.
LEMMA HolderKnown ==
  ASSUME PackageInv, NEW t \in PackageTasks, packageTask[t].at \in Holding
  PROVE  /\ PackageTypes /\ packageTask \in [PackageTasks -> TaskRecords]
         /\ Of(t) \in Packages /\ installLock[Of(t)] = t
         /\ packageTask[t] \in TaskRecords
         /\ packageTask[t].staged \in Copies /\ packageTask[t].had \in Copies
         /\ installed[Of(t)] \in Copies /\ backups[Of(t)] \in SUBSET Copies
         /\ Checked(Of(t), installed[Of(t)]) /\ TaskInv(t)
         /\ UNCHANGED installLock => installLock' \in [Packages -> PackageTasks \cup {NoTask}]
         /\ UNCHANGED backups => backups' \in [Packages -> SUBSET Copies]
         /\ UNCHANGED installed => installed' \in [Packages -> Copies]
<1>1. packageTask[t] \in TaskRecords /\ packageTask[t].at # "idle"
  BY DEF PackageInv, PackageTypes, Holding
<1>2. packageTask[t].staged \in Copies /\ packageTask[t].had \in Copies
  BY <1>1 DEF TaskRecords
<1> QED
  BY <1>1, <1>2 DEF PackageInv, PackageTypes, TaskInv, ProductInv

LEMMA LeftUnlocked ==
  ASSUME installLock \in [Packages -> PackageTasks \cup {NoTask}], NEW t, Of(t) \in Packages,
         Unlocked(t)
  PROVE  /\ installLock' \in [Packages -> PackageTasks \cup {NoTask}]
         /\ \A q \in Packages \ {Of(t)} : installLock'[q] = installLock[q]
BY DEF Unlocked

LEMMA UnpackKeeps ==
  ASSUME PackageInv, NEW t \in PackageTasks, NEW p, p = Of(t),
         NEW whole \in BOOLEAN, Unpack(t, whole)
  PROVE  PackageInv' /\ WholeKept
<1> DEFINE c == [blocks |-> archive[p], whole |-> whole]
           w == [packageTask[t] EXCEPT !.at = "backup", !.staged = c]
<1>1. /\ packageTask[t].at = "unpack" /\ installLock[p] = NoTask /\ archive[p] # NoFile
      /\ installLock' = [installLock EXCEPT ![p] = t]
      /\ packageTask' = [packageTask EXCEPT ![t] = w]
      /\ UNCHANGED <<server, changes, archive, part, installed, backups>>
  BY Zenon DEF Unpack
<1>2. PackageTypes /\ p \in Packages /\ packageTask[t] \in TaskRecords
  BY <1>1 DEF PackageInv, PackageTypes, TaskInv
<1>3. c \in Copies /\ Checked(p, c)
  <2>1. p \in Summed => archive[p] = Expected
    BY <1>1, <1>2 DEF PackageInv, ProductInv
  <2> QED
    BY <1>2, <2>1 DEF Copies, Checked, PackageTypes
<1> HIDE DEF c
<1>4. /\ w \in TaskRecords /\ w.at = "backup" /\ w.package = packageTask[t].package
      /\ w.staged = c /\ w.had = packageTask[t].had
  BY <1>2, <1>3 DEF TaskRecords, Stages, Holding
<1> HIDE DEF w
<1>5. TaskIs(t, w.at, w.package, w.staged, w.had)
  BY <1>1, <1>2, <1>4, TaskSet DEF PackageTypes
<1>6. TaskIs(t, "backup", p, c, packageTask[t].had)
  BY <1>4, <1>5 DEF Of
<1>7. Touches(t, p) /\ installLock'[p] = t
  BY <1>1, <1>2 DEF Touches, PackageTypes
<1>8. TaskInv(t)'
  BY <1>2, <1>3, <1>6, <1>7 DEF TaskInv, TaskIs, Of, Holding
<1>9. Checked(p, installed'[p]) /\ (HasWhole(p) => HasWhole(p)')
  BY <1>1, <1>2 DEF PackageInv, ProductInv, HasWhole
<1> QED
  BY <1>2, <1>6, <1>7, <1>8, <1>9, TouchKeeps, TouchKeepsWhole

LEMMA MoveOldAwayKeeps ==
  ASSUME PackageInv, NEW t \in PackageTasks, NEW p, p = Of(t), MoveOldAway(t)
  PROVE  PackageInv' /\ WholeKept
<1> DEFINE old == installed[p]
           w == [packageTask[t] EXCEPT !.at = "swap", !.had = old]
<1>1. /\ packageTask[t].at = "backup" /\ packageTask' = [packageTask EXCEPT ![t] = w]
      /\ backups' = IF old = Nothing THEN backups ELSE [backups EXCEPT ![p] = @ \cup {old}]
      /\ installed' = [installed EXCEPT ![p] = Nothing]
      /\ UNCHANGED <<server, changes, archive, part, installLock>>
  BY Zenon DEF MoveOldAway
<1>2. /\ PackageTypes /\ p \in Packages /\ installLock[p] = t /\ packageTask[t] \in TaskRecords
      /\ old \in Copies /\ Checked(p, old) /\ TaskInv(t)
  BY <1>1, HolderKnown DEF Holding
<1> HIDE DEF old
<1>3. /\ w \in TaskRecords /\ w.at = "swap" /\ w.package = packageTask[t].package
      /\ w.staged = packageTask[t].staged /\ w.had = old
  BY <1>2 DEF TaskRecords, Stages, Holding
<1> HIDE DEF w
<1>4. TaskIs(t, w.at, w.package, w.staged, w.had)
  BY <1>1, <1>2, <1>3, TaskSet DEF PackageTypes
<1>5. TaskIs(t, "swap", p, packageTask[t].staged, old)
  BY <1>3, <1>4 DEF Of
<1>6. Checked(p, packageTask[t].staged)
  BY <1>1, <1>2 DEF TaskInv
<1>7. /\ Touches(t, p) /\ installLock'[p] = t /\ installed'[p] = Nothing
      /\ old # Nothing => old \in backups'[p]
      /\ backups[p] \subseteq backups'[p]
  BY <1>1, <1>2, NothingIs DEF Touches, PackageTypes
<1>8. TaskInv(t)'
  BY <1>2, <1>5, <1>6, <1>7 DEF TaskInv, TaskIs, Of, Holding
<1>9. HasWhole(p) => HasWhole(p)'
  BY <1>7, NothingIs DEF HasWhole, old
<1>10. Checked(p, installed'[p])
  BY <1>7 DEF Checked
<1> QED
  BY <1>2, <1>5, <1>7, <1>8, <1>9, <1>10, TouchKeeps, TouchKeepsWhole

LEMMA MoveNewInKeeps ==
  ASSUME PackageInv, NEW t \in PackageTasks, NEW p, p = Of(t), MoveNewIn(t)
  PROVE  PackageInv' /\ WholeKept
<1> DEFINE new == packageTask[t].staged
<1>1. /\ packageTask[t].at = "swap" /\ TaskGoes(t, "verify")
      /\ installed' = [installed EXCEPT ![p] = new]
      /\ UNCHANGED <<server, changes, archive, part, installLock, backups>>
  BY Zenon DEF MoveNewIn
<1>2. /\ PackageTypes /\ p \in Packages /\ installLock[p] = t
      /\ packageTask \in [PackageTasks -> TaskRecords] /\ new \in Copies /\ TaskInv(t)
  BY <1>1, HolderKnown DEF Holding
<1>3. TaskIs(t, "verify", p, new, packageTask[t].had)
  BY <1>1, <1>2, TaskGoesTo DEF Stages, Holding
<1>4. Checked(p, new) /\ installed[p] = Nothing
  BY <1>1, <1>2 DEF TaskInv
<1> HIDE DEF new
<1>5. Touches(t, p) /\ installLock'[p] = t /\ installed'[p] = new /\ backups'[p] = backups[p]
  BY <1>1, <1>2 DEF Touches, PackageTypes
<1>6. TaskInv(t)'
  BY <1>1, <1>2, <1>3, <1>4, <1>5 DEF TaskInv, TaskIs, Of, Holding
<1>7. HasWhole(p) => HasWhole(p)'
  BY <1>4, <1>5, NothingIs DEF HasWhole
<1> QED
  BY <1>2, <1>3, <1>4, <1>5, <1>6, <1>7, TouchKeeps, TouchKeepsWhole

LEMMA CommitKeeps ==
  ASSUME PackageInv, NEW t \in PackageTasks, NEW p, p = Of(t), CommitInstall(t)
  PROVE  PackageInv' /\ WholeKept
<1> DEFINE had == packageTask[t].had
<1>1. /\ packageTask[t].at = "verify" /\ installed[p].whole
      /\ backups' = [backups EXCEPT ![p] = @ \ {had}] /\ Unlocked(t) /\ TaskEnds(t)
      /\ UNCHANGED <<server, changes, archive, part, installed>>
  BY Zenon DEF CommitInstall
<1>2. /\ PackageTypes /\ p \in Packages /\ installLock[p] = t
      /\ packageTask \in [PackageTasks -> TaskRecords] /\ Checked(p, installed[p])
  BY <1>1, HolderKnown DEF Holding
<1>3. TaskIs(t, "idle", Resting.package, Nothing, Nothing)
  BY <1>1, <1>2, TaskEndsIs
<1>4. /\ installLock' \in [Packages -> PackageTasks \cup {NoTask}]
      /\ \A q \in Packages \ {p} : installLock'[q] = installLock[q]
  BY <1>1, <1>2, LeftUnlocked DEF PackageTypes
<1> HIDE DEF had
<1>5. Touches(t, p)
  BY <1>1, <1>2, <1>4 DEF Touches, PackageTypes
<1>6. TaskInv(t)'
  BY <1>3 DEF TaskInv, TaskIs, Holding
<1>7. (HasWhole(p) => HasWhole(p)') /\ Checked(p, installed'[p])
  BY <1>1, <1>2 DEF HasWhole
<1> QED
  BY <1>2, <1>3, <1>5, <1>6, <1>7, TouchKeeps, TouchKeepsWhole

LEMMA RollBackKeeps ==
  ASSUME PackageInv, NEW t \in PackageTasks, NEW p, p = Of(t), RollBack(t)
  PROVE  PackageInv' /\ WholeKept
<1>1. /\ packageTask[t].at \in {"swap", "verify"} /\ ~installed[p].whole /\ TaskGoes(t, "restore")
      /\ installed' = [installed EXCEPT ![p] = Nothing]
      /\ UNCHANGED <<server, changes, archive, part, installLock, backups>>
  BY Zenon DEF RollBack
<1>2. /\ PackageTypes /\ p \in Packages /\ installLock[p] = t
      /\ packageTask \in [PackageTasks -> TaskRecords] /\ TaskInv(t)
  BY <1>1, HolderKnown DEF Holding
<1>3. TaskIs(t, "restore", p, packageTask[t].staged, packageTask[t].had)
  BY <1>1, <1>2, TaskGoesTo DEF Stages, Holding
<1>4. Touches(t, p) /\ installLock'[p] = t /\ installed'[p] = Nothing /\ backups'[p] = backups[p]
  BY <1>1, <1>2, NothingIs DEF Touches, PackageTypes
<1>5. TaskInv(t)'
  BY <1>1, <1>2, <1>3, <1>4 DEF TaskInv, TaskIs, Of, Holding
<1>6. (HasWhole(p) => HasWhole(p)') /\ Checked(p, installed'[p])
  BY <1>1, <1>4 DEF HasWhole, Checked
<1> QED
  BY <1>2, <1>3, <1>4, <1>5, <1>6, TouchKeeps, TouchKeepsWhole

LEMMA RestoreOldKeeps ==
  ASSUME PackageInv, NEW t \in PackageTasks, NEW p, p = Of(t), NEW restored, RestoreOld(t, restored)
  PROVE  PackageInv' /\ WholeKept
<1> DEFINE had == packageTask[t].had
<1>1. /\ packageTask[t].at = "restore" /\ Unlocked(t) /\ TaskEnds(t)
      /\ \/ UNCHANGED <<installed, backups>>
         \/ /\ installed' = [installed EXCEPT ![p] = had]
            /\ backups' = [backups EXCEPT ![p] = @ \ {had}]
      /\ UNCHANGED <<server, changes, archive, part>>
  BY Zenon DEF RestoreOld
<1>2. /\ PackageTypes /\ p \in Packages /\ installLock[p] = t /\ had \in Copies
      /\ packageTask \in [PackageTasks -> TaskRecords] /\ TaskInv(t)
  BY <1>1, HolderKnown DEF Holding
<1>3. Checked(p, had) /\ installed[p] = Nothing
  BY <1>1, <1>2 DEF TaskInv
<1>4. TaskIs(t, "idle", Resting.package, Nothing, Nothing)
  BY <1>1, <1>2, TaskEndsIs
<1>5. /\ installLock' \in [Packages -> PackageTasks \cup {NoTask}]
      /\ \A q \in Packages \ {p} : installLock'[q] = installLock[q]
  BY <1>1, <1>2, LeftUnlocked DEF PackageTypes
<1> HIDE DEF had
<1>6. /\ Touches(t, p)
      /\ \/ installed'[p] = installed[p] /\ backups'[p] = backups[p]
         \/ installed'[p] = had /\ backups'[p] = backups[p] \ {had}
  <2>1. CASE UNCHANGED <<installed, backups>>
    BY <1>1, <1>2, <1>5, <2>1 DEF Touches, PackageTypes
  <2>2. CASE /\ installed' = [installed EXCEPT ![p] = had]
             /\ backups' = [backups EXCEPT ![p] = @ \ {had}]
    BY <1>1, <1>2, <1>5, <2>2 DEF Touches, PackageTypes
  <2> QED
    BY <1>1, <2>1, <2>2
<1>7. TaskInv(t)'
  BY <1>4 DEF TaskInv, TaskIs, Holding
<1>8. HasWhole(p) => HasWhole(p)'
  BY <1>3, <1>6, NothingIs DEF HasWhole
<1>9. Checked(p, installed'[p])
  BY <1>3, <1>6 DEF Checked
<1> QED
  BY <1>2, <1>4, <1>6, <1>7, <1>8, <1>9, TouchKeeps, TouchKeepsWhole

LEMMA PlaceUnavailableKeeps ==
  ASSUME PackageInv, NEW t \in PackageTasks, NEW p, p = Of(t), PlaceUnavailable(t)
  PROVE  PackageInv' /\ WholeKept
<1>1. /\ packageTask[t].at = "swap" /\ Unlocked(t) /\ TaskEnds(t)
      /\ UNCHANGED <<server, changes, archive, part, installed, backups>>
  BY Zenon DEF PlaceUnavailable
<1>2. /\ PackageTypes /\ p \in Packages /\ installLock[p] = t
      /\ packageTask \in [PackageTasks -> TaskRecords] /\ Checked(p, installed[p])
  BY <1>1, HolderKnown DEF Holding
<1>3. TaskIs(t, "idle", Resting.package, Nothing, Nothing)
  BY <1>1, <1>2, TaskEndsIs
<1>4. /\ installLock' \in [Packages -> PackageTasks \cup {NoTask}]
      /\ \A q \in Packages \ {p} : installLock'[q] = installLock[q]
  BY <1>1, <1>2, LeftUnlocked DEF PackageTypes
<1>5. Touches(t, p)
  BY <1>1, <1>2, <1>4 DEF Touches, PackageTypes
<1>6. TaskInv(t)'
  BY <1>3 DEF TaskInv, TaskIs, Holding
<1>7. (HasWhole(p) => HasWhole(p)') /\ Checked(p, installed'[p])
  BY <1>1, <1>2 DEF HasWhole
<1> QED
  BY <1>2, <1>3, <1>5, <1>6, <1>7, TouchKeeps, TouchKeepsWhole

LEMMA UninstallEndsKeeps ==
  ASSUME PackageInv, NEW t \in PackageTasks, NEW p, p = Of(t), UninstallEnds(t)
  PROVE  PackageInv' /\ WholeKept
<1>1. /\ packageTask[t].at = "uninstall" /\ installed' = [installed EXCEPT ![p] = Nothing]
      /\ Unlocked(t) /\ TaskEnds(t) /\ UNCHANGED <<server, changes, archive, part, backups>>
  BY Zenon DEF UninstallEnds
<1>2. /\ PackageTypes /\ p \in Packages /\ installLock[p] = t
      /\ packageTask \in [PackageTasks -> TaskRecords] /\ TaskInv(t)
  BY <1>1, HolderKnown DEF Holding
<1>3. TaskIs(t, "idle", Resting.package, Nothing, Nothing)
  BY <1>1, <1>2, TaskEndsIs
<1>4. /\ installLock' \in [Packages -> PackageTasks \cup {NoTask}]
      /\ \A q \in Packages \ {p} : installLock'[q] = installLock[q]
  BY <1>1, <1>2, LeftUnlocked DEF PackageTypes
<1>5. Touches(t, p) /\ installed'[p] = Nothing /\ backups'[p] = backups[p]
  BY <1>1, <1>2, <1>4, NothingIs DEF Touches, PackageTypes
<1>6. TaskInv(t)'
  BY <1>3 DEF TaskInv, TaskIs, Holding
<1>7. ~installed[p].whole
  BY <1>1, <1>2 DEF TaskInv
<1>8. (HasWhole(p) => HasWhole(p)') /\ Checked(p, installed'[p])
  BY <1>5, <1>7 DEF HasWhole, Checked
<1> QED
  BY <1>2, <1>3, <1>5, <1>6, <1>8, TouchKeeps, TouchKeepsWhole

\* An uninstall takes the last whole copy, and is seen to.
LEMMA UninstallKeeps ==
  ASSUME PackageInv, NEW t \in PackageTasks, NEW p \in Packages, Uninstall(t, p)
  PROVE  PackageInv' /\ packageTask[t].at = "idle" /\ packageTask'[t].at = "uninstall"
<1> DEFINE c == [installed[p] EXCEPT !.whole = FALSE]
           w == [Resting EXCEPT !.at = "uninstall", !.package = p]
<1>1. /\ packageTask[t].at = "idle" /\ installLock[p] = NoTask /\ installed[p] # Nothing
      /\ installLock' = [installLock EXCEPT ![p] = t]
      /\ installed' = [installed EXCEPT ![p] = c] /\ packageTask' = [packageTask EXCEPT ![t] = w]
      /\ UNCHANGED <<server, changes, archive, part, backups>>
  BY Zenon DEF Uninstall, IsNext
<1>2. PackageTypes /\ Checked(p, installed[p]) /\ installed[p] \in Copies
  BY DEF PackageInv, PackageTypes, ProductInv
<1>3. c \in Copies /\ ~c.whole /\ c.blocks = installed[p].blocks
  BY <1>2 DEF Copies
<1>4. /\ w \in TaskRecords /\ w.at = "uninstall" /\ w.package = p
      /\ w.staged = Nothing /\ w.had = Nothing
  BY RestingIs DEF TaskRecords, Stages, Holding
<1> HIDE DEF c, w
<1>5. TaskIs(t, w.at, w.package, w.staged, w.had)
  BY <1>1, <1>2, <1>4, TaskSet DEF PackageTypes
<1>6. TaskIs(t, "uninstall", p, Nothing, Nothing)
  BY <1>4, <1>5
<1>7. Touches(t, p) /\ installLock'[p] = t /\ installed'[p] = c
  BY <1>1, <1>2, <1>3 DEF Touches, PackageTypes
<1>8. TaskInv(t)'
  BY <1>3, <1>6, <1>7 DEF TaskInv, TaskIs, Of, Holding
<1>9. Checked(p, installed'[p])
  BY <1>1, <1>2, <1>3, <1>7 DEF Checked
<1> QED
  BY <1>1, <1>6, <1>7, <1>8, <1>9, TouchKeeps DEF TaskIs

LEMMA InstallFailsKeeps ==
  ASSUME PackageInv, NEW t \in PackageTasks, InstallFails(t)
  PROVE  PackageInv'
<1>1. /\ TaskEnds(t)
      /\ installLock' = [p \in Packages |-> IF installLock[p] = t THEN NoTask ELSE installLock[p]]
      /\ UNCHANGED <<server, changes, archive, part, installed, backups>>
  BY Zenon DEF InstallFails
<1>2. PackageTypes
  BY DEF PackageInv
<1>3. TaskIs(t, "idle", Resting.package, Nothing, Nothing)
  BY <1>1, <1>2, TaskEndsIs DEF PackageTypes
<1>4. /\ installLock' \in [Packages -> PackageTasks \cup {NoTask}]
      /\ \A p \in Packages : installLock[p] # t => installLock'[p] = installLock[p]
  BY <1>1, <1>2 DEF PackageTypes
<1>5. PackageTypes' /\ OthersStayLocked(t)
  BY <1>1, <1>2, <1>3, <1>4 DEF PackageTypes, OthersStayLocked, TaskIs
<1>6. TaskInv(t)'
  BY <1>3 DEF TaskInv, TaskIs, Holding
<1>7. \A p \in Packages : ProductInv(p)'
  BY <1>1 DEF PackageInv, ProductInv
<1> QED
  BY <1>5, <1>6, <1>7, OneTask

LEMMA CrashKeeps ==
  ASSUME PackageInv, PackageCrash
  PROVE  PackageInv'
<1>1. /\ packageTask' = [t \in PackageTasks |-> Resting]
      /\ installLock' = [p \in Packages |-> NoTask]
      /\ UNCHANGED <<server, changes, archive, part, installed, backups>>
  BY Zenon DEF PackageCrash
<1>2. PackageTypes'
  BY <1>1, RestingIs DEF PackageInv, PackageTypes
<1>3. \A t \in PackageTasks : TaskInv(t)'
  BY <1>1, RestingIs DEF TaskInv, Holding
<1>4. \A p \in Packages : ProductInv(p)'
  BY <1>1 DEF PackageInv, ProductInv
<1> QED
  BY <1>2, <1>3, <1>4 DEF PackageInv

LEMMA ServerChangesKeeps ==
  ASSUME PackageInv, NEW p \in Packages, ServerChanges(p)
  PROVE  PackageInv'
<1>1. /\ server' = [server EXCEPT ![p] = @ + 1] /\ changes < MaxServerChanges
      /\ changes' = changes + 1
      /\ UNCHANGED <<archive, part, installLock, installed, backups, packageTask>>
  BY Zenon DEF ServerChanges
<1>2. PackageTypes'
  <2>1. changes \in 0 .. MaxServerChanges /\ server \in [Packages -> 1 .. changes + 1]
    BY DEF PackageInv, PackageTypes
  <2>2. changes' \in 0 .. MaxServerChanges /\ server' \in [Packages -> 1 .. changes' + 1]
    BY <1>1, <2>1, PackageAssumption
  <2> QED
    BY <1>1, <2>2 DEF PackageInv, PackageTypes
<1>3. \A t \in PackageTasks : TaskInv(t)'
  BY <1>1 DEF PackageInv, TaskInv, Of
<1>4. \A q \in Packages : ProductInv(q)'
  BY <1>1 DEF PackageInv, ProductInv
<1> QED
  BY <1>2, <1>3, <1>4 DEF PackageInv

-----------------------------------------------------------------------------
(* The theorems about the store.                                            *)

LEMMA PackageInitInv == PackageInit => PackageInv
<1> SUFFICES ASSUME PackageInit PROVE PackageInv
  OBVIOUS
<1>1. NoFile \in Seq(Nat) /\ Nothing \in Copies
  BY NothingIs DEF NoFile
<1>2. PackageTypes
  <2>1. changes \in 0 .. MaxServerChanges /\ server \in [Packages -> 1 .. changes + 1]
    BY PackageAssumption DEF PackageInit
  <2> QED
    BY <1>1, <2>1, RestingIs DEF PackageInit, PackageTypes
<1>3. \A t \in PackageTasks : TaskInv(t)
  BY RestingIs DEF PackageInit, TaskInv, Holding
<1>4. \A p \in Packages : ProductInv(p)
  BY PackageAssumption DEF PackageInit, ProductInv, Checked
<1> QED
  BY <1>2, <1>3, <1>4 DEF PackageInv

\* What a step does to the whole copies.
Kept == WholeKept \/ \E t \in PackageTasks : packageTask'[t].at = "uninstall" /\ packageTask[t].at = "idle"

LEMMA ComponentsStay == UNCHANGED <<installed, backups>> => Kept
BY DEF Kept, WholeKept, HasWhole

LEMMA PackageStep == PackageInv /\ [PackageNext]_packageVars => PackageInv' /\ Kept
<1> SUFFICES ASSUME PackageInv, [PackageNext]_packageVars PROVE PackageInv' /\ Kept
  OBVIOUS
<1>1. CASE UNCHANGED packageVars
  <2>1. PackageInv'
    BY <1>1 DEF PackageInv, packageVars, PackageTypes, TaskInv, ProductInv, Of
  <2>2. UNCHANGED <<installed, backups>>
    BY <1>1 DEF packageVars
  <2> QED
    BY <2>1, <2>2, ComponentsStay
<1>2. CASE PackageCrash
  <2>1. UNCHANGED <<installed, backups>>
    BY <1>2, Zenon DEF PackageCrash
  <2> QED
    BY <2>1, <1>2, CrashKeeps, ComponentsStay
<1>3. ASSUME NEW p \in Packages, ServerChanges(p)
      PROVE  PackageInv' /\ Kept
  <2>1. UNCHANGED <<installed, backups>>
    BY <1>3, Zenon DEF ServerChanges
  <2> QED
    BY <2>1, <1>3, ServerChangesKeeps, ComponentsStay
<1>4. ASSUME NEW t \in PackageTasks,
             \/ AcceptLicense(t) \/ DeclineLicense(t) \/ LeaveCache(t)
             \/ \E p \in Packages : ClickDownload(t, p)
      PROVE  PackageInv' /\ Kept
  <2>1. UNCHANGED <<installed, backups>>
    BY <1>4, Zenon DEF AcceptLicense, DeclineLicense, LeaveCache, ClickDownload
  <2> QED
    BY <2>1, <1>4, PageKeeps, ComponentsStay
<1>5. ASSUME NEW t \in PackageTasks, TakeCache(t)
      PROVE  PackageInv' /\ Kept
  <2>1. UNCHANGED <<installed, backups>>
    BY <1>5, Zenon DEF TakeCache
  <2> QED
    BY <2>1, <1>5, TakeCacheKeeps, ComponentsStay
<1>6. ASSUME NEW t \in PackageTasks,
             \/ RangeRefused(t) \/ HttpFails(t) \/ BlockArrives(t) \/ NetworkFails(t)
             \/ \E resume, announced \in BOOLEAN : ServerAnswers(t, resume, announced)
      PROVE  PackageInv' /\ Kept
  <2>1. UNCHANGED <<installed, backups>>
    BY <1>6, Zenon DEF RangeRefused, HttpFails, BlockArrives, NetworkFails, ServerAnswers
  <2> QED
    BY <2>1, <1>6, DownloadKeeps, ComponentsStay
<1>7. ASSUME NEW t \in PackageTasks, StreamEnds(t)
      PROVE  PackageInv' /\ Kept
  <2>1. UNCHANGED <<installed, backups>>
    BY <1>7, Zenon DEF StreamEnds
  <2> QED
    BY <2>1, <1>7, StreamEndsKeeps, ComponentsStay
<1>8. ASSUME NEW t \in PackageTasks, InstallFails(t)
      PROVE  PackageInv' /\ Kept
  <2>1. UNCHANGED <<installed, backups>>
    BY <1>8, Zenon DEF InstallFails
  <2> QED
    BY <2>1, <1>8, InstallFailsKeeps, ComponentsStay
<1>9. ASSUME NEW t \in PackageTasks,
             \/ MoveOldAway(t) \/ MoveNewIn(t) \/ CommitInstall(t) \/ RollBack(t)
             \/ PlaceUnavailable(t) \/ UninstallEnds(t) \/ \E whole \in BOOLEAN : Unpack(t, whole)
             \/ \E restored \in BOOLEAN : RestoreOld(t, restored)
      PROVE  PackageInv' /\ Kept
  <2>1. PICK p : p = Of(t)
    OBVIOUS
  <2>2. PackageInv' /\ WholeKept
    BY <2>1, <1>9, MoveOldAwayKeeps, MoveNewInKeeps, CommitKeeps, RollBackKeeps,
       RestoreOldKeeps, PlaceUnavailableKeeps, UninstallEndsKeeps, UnpackKeeps
  <2> QED
    BY <2>2 DEF Kept
<1>10. ASSUME NEW t \in PackageTasks, NEW p \in Packages, Uninstall(t, p)
       PROVE  PackageInv' /\ Kept
  BY <1>10, UninstallKeeps DEF Kept
<1> QED
  BY <1>1, <1>2, <1>3, <1>4, <1>5, <1>6, <1>7, <1>8, <1>9, <1>10, Zenon DEF PackageNext

LEMMA PackageInvariant == PackageSpec => []PackageInv
BY PackageInitInv, PackageStep, PTL DEF PackageSpec

\* Whatever is at a component's place, where the repository gives a checksum, is
\* made of the blocks it describes: neither a resumed download that mixes two
\* files of the server nor an archive an earlier process left is installed
\* (download.rs verify, package_service.rs install_component).
THEOREM InstallsWhatWasCheckedCorrect == PackageSpec => []InstallsWhatWasChecked
<1>1. PackageInv => InstallsWhatWasChecked
  BY PackageAssumption DEF PackageInv, ProductInv, Checked, InstallsWhatWasChecked
<1> QED
  BY <1>1, PackageInvariant, PTL

\* No step of an installation, and no crash within one, takes the last whole copy
\* of a component, in place or moved away: only the user's uninstall does
\* (install.rs swaps by renaming and deletes the old copy after the check).
THEOREM WholeCopyIsKeptCorrect == PackageSpec => WholeCopyIsKept
<1> DEFINE A == \A p \in Packages : HasWhole(p) /\ ~HasWhole(p)' =>
             \E t \in PackageTasks : packageTask'[t].at = "uninstall" /\ packageTask[t].at = "idle"
<1>1. PackageInv /\ [PackageNext]_packageVars => [A]_packageVars
  BY PackageStep DEF Kept, WholeKept
<1>2. PackageSpec => [][A]_packageVars
  BY <1>1, PackageInvariant, PTL DEF PackageSpec
<1> QED
  BY <1>2 DEF WholeCopyIsKept

-----------------------------------------------------------------------------
(* The cache's limit.  What is used is a number of blocks, so that a set of *)
(* entries has a size without a sum over it: the cardinality of the set of  *)
(* its blocks.                                                              *)

\* An archive and a part of one package are never both there, and a part lies with
\* no archive while a task downloads.
EntryInv(p) ==
  /\ archive[p] = NoFile \/ part[p] = NoFile
  /\ Len(archive[p]) =< LongestFile /\ Len(part[p]) =< LongestFile

Downloading == {"request", "stream", "cached"}

\* A task past TakeCache has the cache and made room for its whole archive.
RoomInv ==
  /\ \A t \in PackageTasks : packageTask[t].at \in Downloading => quotaLock = t
  /\ \A t \in PackageTasks : packageTask[t].at \in {"request", "stream"} => archive[Of(t)] = NoFile
  /\ quotaLock \in PackageTasks \cup {NoTask}
  /\ quotaLock # NoTask => /\ packageTask[quotaLock].at \in Downloading
                           /\ UsedBy(Others(quotaLock)) + Blocks =< CacheLimit
  /\ CacheKeepsItsLimit

CacheInv == PackageInv /\ (\A p \in Packages : EntryInv(p)) /\ RoomInv

-----------------------------------------------------------------------------
(* What entries take up.                                                    *)

\* The blocks of entries, given the size of each.
Blocked(sizes, ps) == {b \in ps \X (1 .. 2 * LongestFile) : b[2] =< sizes[b[1]]}
Sizes == [p \in Packages |-> Payload(p)]

LEMMA BlockedIsFinite ==
  ASSUME NEW sizes, NEW ps \in SUBSET Packages
  PROVE  IsFiniteSet(Blocked(sizes, ps)) /\ Cardinality(Blocked(sizes, ps)) \in Nat
<1>1. IsFiniteSet(ps) /\ IsFiniteSet(1 .. 2 * LongestFile)
  <2>1. IsFiniteSet(ps)
    BY FS_Subset, PackageAssumption
  <2>2. 1 \in Int /\ 2 * LongestFile \in Int
    BY LengthAssumption
  <2> QED
    BY <2>1, <2>2, FS_Interval
<1>2. IsFiniteSet(ps \X (1 .. 2 * LongestFile))
  BY <1>1, FS_Product
<1>3. Blocked(sizes, ps) \subseteq ps \X (1 .. 2 * LongestFile)
  BY DEF Blocked
<1>4. IsFiniteSet(Blocked(sizes, ps))
  BY <1>2, <1>3, FS_Subset
<1> QED
  BY <1>4, FS_CardinalityType

LEMMA UsedIs ==
  ASSUME NEW ps \in SUBSET Packages
  PROVE  UsedBy(ps) = Cardinality(Blocked(Sizes, ps)) /\ UsedBy(ps)' = Cardinality(Blocked(Sizes', ps))
<1>1. Stored(ps) = Blocked(Sizes, ps)
  BY DEF Stored, Blocked, Sizes
<1>2. Stored(ps)' = Blocked(Sizes', ps)
  BY DEF Stored, Blocked, Sizes, Payload
<1> QED
  BY <1>1, <1>2 DEF UsedBy

\* Fewer entries take up no more.
LEMMA UsedByFewer ==
  ASSUME NEW ps \in SUBSET Packages, NEW qs \in SUBSET ps
  PROVE  UsedBy(qs) =< UsedBy(ps) /\ UsedBy(ps) \in Nat /\ UsedBy(qs) \in Nat
<1>1. Blocked(Sizes, qs) \subseteq Blocked(Sizes, ps)
  BY DEF Blocked
<1> QED
  BY <1>1, BlockedIsFinite, UsedIs, FS_Subset

\* What is pruned is enough: the oldest entry that stays, if one does, was looked
\* at when all that is older was gone.
LEMMA PrunedIsEnough ==
  ASSUME NEW t \in PackageTasks, NEW size \in Nat, Fits(t, size)
  PROVE  UsedBy(Others(t) \ Pruned(t, size)) + size =< CacheLimit
<1> DEFINE stay == Others(t) \ Pruned(t, size)
<1>1. stay \subseteq Others(t) /\ Others(t) \subseteq Packages /\ CacheLimit \in Nat
  BY PackageAssumption DEF Others
<1>2. \A p \in stay : UsedBy(Others(t) \ OlderThan(p)) + size =< CacheLimit
  <2> SUFFICES ASSUME NEW p \in stay PROVE UsedBy(Others(t) \ OlderThan(p)) + size =< CacheLimit
    OBVIOUS
  <2>1. ~(UsedBy(Others(t) \ OlderThan(p)) + size > CacheLimit)
    BY DEF Pruned
  <2>2. UsedBy(Others(t) \ OlderThan(p)) \in Nat
    BY <1>1, UsedByFewer
  <2> QED
    BY <1>1, <2>1, <2>2
<1> HIDE DEF stay
<1>3. CASE stay = {}
  <2>1. Stored(stay) = {}
    BY <1>3 DEF Stored
  <2>2. UsedBy(stay) = 0
    BY <2>1, FS_EmptySet DEF UsedBy
  <2> QED
    BY <1>1, <2>2 DEF Fits, stay
<1>4. ASSUME NEW p \in stay, stay \cap OlderThan(p) = {}
      PROVE  UsedBy(stay) + size =< CacheLimit
  <2>1. stay \subseteq Others(t) \ OlderThan(p)
    BY <1>1, <1>4
  <2>2. UsedBy(stay) =< UsedBy(Others(t) \ OlderThan(p))
    BY <1>1, <2>1, UsedByFewer
  <2>3. UsedBy(stay) \in Nat /\ UsedBy(Others(t) \ OlderThan(p)) \in Nat
    BY <1>1, UsedByFewer
  <2> QED
    BY <1>1, <1>2, <2>2, <2>3
<1>5. CASE stay # {}
  <2> DEFINE places == {i \in Nat \ {0} : i =< Len(cacheOrder) /\ cacheOrder[i] \in stay}
  <2>1. CASE places = {}
    <3>1. PICK p \in stay : TRUE
      BY <1>5
    <3>2. stay \cap OlderThan(p) = {}
      BY <2>1 DEF OlderThan
    <3> QED
      BY <1>4, <3>2 DEF stay
  <2>2. CASE places # {}
    <3>1. PICK i \in places : \A j \in places : ~(<<j, i>> \in OpToRel(<, Nat))
      BY <2>2, NatLessThanWellFounded, WFMin, Zenon
    <3>2. \A j \in places : ~(j < i)
      BY <3>1 DEF OpToRel
    <3>3. cacheOrder[i] \in stay /\ i \in 1 .. Len(cacheOrder)
      OBVIOUS
    <3>4. stay \cap OlderThan(cacheOrder[i]) = {}
      BY <3>2, <3>3 DEF OlderThan
    <3> QED
      BY <1>4, <3>3, <3>4 DEF stay
  <2> QED
    BY <2>1, <2>2
<1> QED
  BY <1>3, <1>5 DEF stay

-----------------------------------------------------------------------------
(* The steps.                                                               *)

\* A step of a task that is not in the cache, and of none.
LEMMA OutsideCache ==
  ASSUME CacheInv, PackageInv', UNCHANGED <<archive, part, quotaLock>>,
         \A u \in PackageTasks :
           packageTask[u].at \in Downloading \/ packageTask'[u].at \in Downloading =>
             /\ packageTask'[u].at = packageTask[u].at
             /\ packageTask'[u].package = packageTask[u].package
  PROVE  CacheInv'
<1>1. \A p \in Packages : EntryInv(p)'
  BY DEF CacheInv, EntryInv
<1>2. RoomInv'
  <2>1. \A ps \in SUBSET Packages : UsedBy(ps)' = UsedBy(ps)
    BY DEF UsedBy, Stored, Payload
  <2>2. quotaLock # NoTask => Others(quotaLock)' = Others(quotaLock) /\ Others(quotaLock) \subseteq Packages
    BY DEF CacheInv, RoomInv, Others, Of
  <2>3. quotaLock # NoTask => UsedBy(Others(quotaLock))' + Blocks =< CacheLimit
    <3>1. ASSUME quotaLock # NoTask
          PROVE  UsedBy(Others(quotaLock))' = UsedBy(Others(quotaLock))
      <4>1. \A p \in Packages : Payload(p)' = Payload(p)
        BY DEF Payload
      <4> QED
        BY <2>2, <3>1, <4>1 DEF UsedBy, Stored, Others
    <3> QED
      BY <3>1 DEF CacheInv, RoomInv
  <2>4. CacheKeepsItsLimit'
    <3>1. UsedBy(Packages)' = UsedBy(Packages)
      BY <2>1
    <3>2. \A p \in Packages : UsedBy(Packages \ {p})' = UsedBy(Packages \ {p})
      BY <2>1
    <3> QED
      BY <3>1, <3>2 DEF CacheInv, RoomInv, CacheKeepsItsLimit
  <2>5. \A u \in PackageTasks : packageTask'[u].at \in {"request", "stream"} => archive'[Of(u)'] = NoFile
    BY DEF CacheInv, RoomInv, Of, Downloading
  <2> QED
    BY <2>3, <2>4, <2>5 DEF CacheInv, RoomInv
<1> QED
  BY <1>1, <1>2 DEF CacheInv

\* A step of the task that has the cache: the others' entries stay.
LEMMA InsideCache ==
  ASSUME CacheInv, PackageInv', NEW t \in PackageTasks, NEW p \in Packages, Of(t) = p,
         packageTask[t].at \in Downloading,
         \A u \in PackageTasks \ {t} : packageTask'[u] = packageTask[u],
         \A q \in Packages \ {p} : archive'[q] = archive[q] /\ part'[q] = part[q],
         EntryInv(p)',
         \/ /\ quotaLock' = quotaLock /\ packageTask'[t].package = p
            /\ packageTask'[t].at \in Downloading
            /\ packageTask'[t].at \in {"request", "stream"} => archive'[p] = NoFile
         \/ quotaLock' = NoTask /\ packageTask'[t].at \notin Downloading
  PROVE  CacheInv'
<1>1. quotaLock = t /\ t # NoTask
  BY PackageAssumption DEF CacheInv, RoomInv
<1>2. \A q \in Packages : EntryInv(q)'
  <2>1. \A q \in Packages \ {p} : EntryInv(q)'
    BY DEF CacheInv, EntryInv
  <2> QED
    BY <2>1
<1>3. Others(t) = Packages \ {p}
  BY DEF Others
<1>4. Blocked(Sizes', Packages \ {p}) = Blocked(Sizes, Packages \ {p})
  <2>1. \A q \in Packages \ {p} : Sizes'[q] = Sizes[q]
    BY DEF Sizes, Payload
  <2> QED
    BY <2>1 DEF Blocked
<1>5. Cardinality(Blocked(Sizes', Packages \ {p})) + Blocks =< CacheLimit
  <2>1. UsedBy(Packages \ {p}) = Cardinality(Blocked(Sizes, Packages \ {p}))
    BY UsedIs
  <2> QED
    BY <1>1, <1>3, <1>4, <2>1 DEF CacheInv, RoomInv
<1>6. \A u \in PackageTasks \ {t} : packageTask'[u].at \notin Downloading
  BY <1>1 DEF CacheInv, RoomInv
<1>7. CASE quotaLock' = NoTask /\ packageTask'[t].at \notin Downloading
  <2>3. UsedBy(Packages \ {p})' + Blocks =< CacheLimit
    BY <1>5, UsedIs
  <2>4. RoomInv'
    BY <1>6, <1>7, <2>3 DEF RoomInv, Downloading, CacheKeepsItsLimit
  <2> QED
    BY <1>2, <2>4 DEF CacheInv
<1>8. CASE /\ quotaLock' = quotaLock /\ packageTask'[t].package = p
           /\ packageTask'[t].at \in Downloading
           /\ packageTask'[t].at \in {"request", "stream"} => archive'[p] = NoFile
  <2>1. Others(t)' = Packages \ {p}
    BY <1>8 DEF Others, Of
  <2>2. UsedBy(Packages \ {p})' = Cardinality(Blocked(Sizes', Packages \ {p}))
    BY UsedIs
  <2>3. UsedBy(Others(t))' = UsedBy(Packages \ {p})'
    BY <2>1 DEF UsedBy, Stored
  <2>4. UsedBy(Others(quotaLock))' + Blocks =< CacheLimit
    BY <1>1, <1>5, <1>8, <2>2, <2>3 DEF Others, UsedBy, Stored
  <2>5. RoomInv'
    BY <1>1, <1>6, <1>8, <2>4 DEF RoomInv, Downloading, Of, CacheKeepsItsLimit
  <2> QED
    BY <1>2, <2>5 DEF CacheInv
<1> QED
  BY <1>7, <1>8

LEMMA TaskOutside ==
  ASSUME CacheInv, PackageInv', UNCHANGED <<archive, part, quotaLock>>, NEW t \in PackageTasks,
         packageTask[t].at \notin Downloading, NEW w, w.at \notin Downloading,
         packageTask' = [packageTask EXCEPT ![t] = w]
  PROVE  CacheInv'
<1>1. packageTask \in [PackageTasks -> TaskRecords]
  BY DEF CacheInv, PackageInv, PackageTypes
<1>2. \A u \in PackageTasks : packageTask'[u] = IF u = t THEN w ELSE packageTask[u]
  BY <1>1
<1> QED
  BY <1>2, OutsideCache

LEMMA GoesOutside ==
  ASSUME CacheInv, PackageInv', UNCHANGED <<archive, part, quotaLock>>, NEW t \in PackageTasks,
         packageTask[t].at \notin Downloading, NEW at, at \notin Downloading, TaskGoes(t, at)
  PROVE  CacheInv'
<1> DEFINE w == [packageTask[t] EXCEPT !.at = at]
<1>1. packageTask' = [packageTask EXCEPT ![t] = w]
  BY Zenon DEF TaskGoes
<1>2. w.at = at
  BY DEF CacheInv, PackageInv, PackageTypes, TaskRecords
<1> HIDE DEF w
<1> QED
  BY <1>1, <1>2, TaskOutside

LEMMA EndsOutside ==
  ASSUME CacheInv, PackageInv', UNCHANGED <<archive, part, quotaLock>>, NEW t \in PackageTasks,
         packageTask[t].at \notin Downloading, TaskEnds(t)
  PROVE  CacheInv'
BY RestingIs, TaskOutside DEF TaskEnds, Downloading

LEMMA PageKeepsLimit ==
  ASSUME CacheInv, PackageInv', NEW t \in PackageTasks,
         AcceptLicense(t) \/ DeclineLicense(t) \/ \E p \in Packages : ClickDownload(t, p) \/ Uninstall(t, p)
  PROVE  CacheInv'
<1>1. UNCHANGED <<archive, part, quotaLock>>
  BY Zenon DEF AcceptLicense, DeclineLicense, ClickDownload, Uninstall
<1>2. packageTask[t].at \in {"dialog", "idle"}
  BY Zenon DEF AcceptLicense, DeclineLicense, ClickDownload, Uninstall, IsNext
<1>3. CASE AcceptLicense(t)
  BY <1>1, <1>2, <1>3, GoesOutside DEF AcceptLicense, Downloading
<1>4. CASE DeclineLicense(t)
  BY <1>1, <1>2, <1>4, EndsOutside DEF DeclineLicense, Downloading
<1>5. ASSUME NEW p \in Packages, ClickDownload(t, p) \/ Uninstall(t, p)
      PROVE  CacheInv'
  <2>1. PICK at \in {"cache", "dialog", "uninstall"} :
          packageTask' = [packageTask EXCEPT ![t] = [Resting EXCEPT !.at = at, !.package = p]]
    BY <1>5, Zenon DEF ClickDownload, Uninstall
  <2>2. [Resting EXCEPT !.at = at, !.package = p].at = at
    BY RestingIs DEF TaskRecords
  <2> QED
    BY <1>1, <1>2, <2>1, <2>2, TaskOutside DEF Downloading
<1> QED
  BY <1>3, <1>4, <1>5

LEMMA InstallKeepsLimit ==
  ASSUME CacheInv, PackageInv', NEW t \in PackageTasks,
         \/ MoveOldAway(t) \/ MoveNewIn(t) \/ CommitInstall(t) \/ RollBack(t) \/ PlaceUnavailable(t)
         \/ (\E restored \in BOOLEAN : RestoreOld(t, restored)) \/ InstallFails(t) \/ UninstallEnds(t) \/ \E whole \in BOOLEAN : Unpack(t, whole)
  PROVE  CacheInv'
<1>1. UNCHANGED <<archive, part, quotaLock>>
  BY Zenon DEF MoveOldAway, MoveNewIn, CommitInstall, RollBack, RestoreOld, PlaceUnavailable, InstallFails,
     UninstallEnds, Unpack
<1>2. packageTask[t].at \in {"backup", "swap", "verify", "restore", "unpack", "uninstall"}
  BY Zenon DEF MoveOldAway, MoveNewIn, CommitInstall, RollBack, RestoreOld, PlaceUnavailable, InstallFails,
     UninstallEnds, Unpack
<1>3. packageTask[t].at \notin Downloading
  BY <1>2 DEF Downloading
<1>4. CASE TaskEnds(t)
  BY <1>1, <1>3, <1>4, EndsOutside
<1>5. CASE TaskGoes(t, "verify") \/ TaskGoes(t, "restore")
  BY <1>1, <1>3, <1>5, GoesOutside DEF Downloading
<1>7. packageTask[t] \in TaskRecords
  BY DEF CacheInv, PackageInv, PackageTypes
<1>8. CASE MoveOldAway(t)
  <2> DEFINE w == [packageTask[t] EXCEPT !.at = "swap", !.had = installed[Of(t)]]
  <2>1. packageTask' = [packageTask EXCEPT ![t] = w]
    BY <1>8, Zenon DEF MoveOldAway
  <2>2. w.at = "swap"
    BY <1>7 DEF TaskRecords
  <2> HIDE DEF w
  <2> QED
    BY <1>1, <1>3, <2>1, <2>2, TaskOutside DEF Downloading
<1>9. ASSUME NEW whole \in BOOLEAN, Unpack(t, whole)
      PROVE  CacheInv'
  <2> DEFINE w == [packageTask[t] EXCEPT !.at = "backup", !.staged = [blocks |-> archive[Of(t)], whole |-> whole]]
  <2>1. packageTask' = [packageTask EXCEPT ![t] = w]
    BY <1>9, Zenon DEF Unpack
  <2>2. w.at = "backup"
    BY <1>7 DEF TaskRecords
  <2> HIDE DEF w
  <2> QED
    BY <1>1, <1>3, <2>1, <2>2, TaskOutside DEF Downloading
<1> QED
  BY <1>4, <1>5, <1>8, <1>9, Zenon DEF MoveNewIn, CommitInstall, RollBack, RestoreOld, PlaceUnavailable,
     InstallFails, UninstallEnds

LEMMA LeaveKeepsLimit ==
  ASSUME CacheInv, PackageInv', NEW t \in PackageTasks, LeaveCache(t)
  PROVE  CacheInv'
<1>1. /\ packageTask[t].at = "cached" /\ quotaLock' = NoTask /\ UNCHANGED <<archive, part>>
      /\ TaskGoes(t, "unpack")
  BY Zenon DEF LeaveCache
<1>2. packageTask \in [PackageTasks -> TaskRecords] /\ Of(t) \in Packages
  BY <1>1 DEF CacheInv, PackageInv, PackageTypes, TaskInv
<1>3. TaskIs(t, "unpack", Of(t), packageTask[t].staged, packageTask[t].had)
  BY <1>1, <1>2, TaskGoesTo DEF Stages, Early
<1>4. PICK p \in Packages : Of(t) = p
  BY <1>2
<1>5. EntryInv(p)'
  BY <1>1 DEF CacheInv, EntryInv
<1> QED
  BY <1>1, <1>3, <1>4, <1>5, InsideCache DEF TaskIs, Downloading

LEMMA TakeKeepsLimit ==
  ASSUME CacheInv, PackageInv', NEW t \in PackageTasks, TakeCache(t)
  PROVE  CacheInv'
<1> DEFINE gone == Pruned(t, Blocks)
           usable == /\ Len(archive[Of(t)]) = Blocks
                     /\ Of(t) \in Summed => archive[Of(t)] = Expected
           at == IF usable THEN "cached" ELSE "request"
<1>1. /\ packageTask[t].at = "cache" /\ packageTask \in [PackageTasks -> TaskRecords]
      /\ Of(t) \in Packages
  BY DEF TakeCache, CacheInv, PackageInv, PackageTypes, TaskInv
<1>2. CASE TaskEnds(t) /\ UNCHANGED <<archive, part, cacheOrder, quotaLock>>
  BY <1>1, <1>2, EndsOutside DEF Downloading
<1>3. CASE /\ quotaLock = NoTask /\ Fits(t, Blocks) /\ quotaLock' = t
           /\ archive' = [p \in Packages |->
                             IF p \in gone \/ (p = Of(t) /\ ~usable) THEN NoFile ELSE archive[p]]
           /\ part' = [p \in Packages |-> IF p \in gone THEN NoFile ELSE part[p]]
           /\ TaskGoes(t, at)
  <2>1. at \in {"cached", "request"} /\ (at = "request" => ~usable)
    OBVIOUS
  <2>2. gone \subseteq Others(t)
    BY DEF Pruned
  <2>3. UsedBy(Others(t) \ gone) + Blocks =< CacheLimit
    BY <1>3, PackageAssumption, PrunedIsEnough
  <2> HIDE DEF at, gone, usable
  <2>4. TaskIs(t, at, Of(t), packageTask[t].staged, packageTask[t].had)
    BY <1>1, <1>3, <2>1, TaskGoesTo DEF Stages, Early
  <2>5. Len(NoFile) = 0 /\ LongestFile \in Nat
    BY LengthAssumption DEF NoFile
  <2>6. \A q \in Packages : EntryInv(q)'
    BY <1>3, <2>5 DEF CacheInv, EntryInv
  <2>7. PICK p \in Packages : Of(t) = p
    BY <1>1
  <2>8. Others(t) = Packages \ {p} /\ Of(t)' = p /\ Others(t)' = Packages \ {p}
    BY <2>4, <2>7 DEF Others, Of, TaskIs
  <2>9. Blocked(Sizes', Packages \ {p}) = Blocked(Sizes, Others(t) \ gone)
    <3>1. \A q \in Others(t) \ gone : Sizes'[q] = Sizes[q]
      BY <1>3, <2>7, <2>8 DEF Sizes, Payload
    <3>2. \A q \in gone : Sizes'[q] = 0
      BY <1>3, <2>2, <2>5, <2>8 DEF Sizes, Payload
    <3> QED
      BY <2>2, <2>8, <3>1, <3>2, LengthAssumption DEF Blocked
  <2>10. UsedBy(Others(t))' + Blocks =< CacheLimit
    <3>1. UsedBy(Others(t) \ gone) = Cardinality(Blocked(Sizes, Others(t) \ gone))
      BY <2>8, UsedIs
    <3>2. UsedBy(Packages \ {p})' = Cardinality(Blocked(Sizes', Packages \ {p}))
      BY UsedIs
    <3>3. UsedBy(Others(t))' = UsedBy(Packages \ {p})'
      BY <2>8 DEF UsedBy, Stored
    <3> QED
      BY <2>3, <2>9, <3>1, <3>2, <3>3
  <2>11. \A u \in PackageTasks \ {t} : packageTask'[u] = packageTask[u] /\ packageTask'[u].at \notin Downloading
    BY <1>3, <2>4, PackageAssumption DEF CacheInv, RoomInv, TaskIs
  <2>12. at = "request" => archive'[p] = NoFile
    BY <1>3, <2>1, <2>7
  <2>13. RoomInv'
    <3>1. quotaLock' = t /\ t # NoTask /\ packageTask'[t].at = at /\ at \in Downloading
      BY <1>3, <2>1, <2>4, PackageAssumption DEF TaskIs, Downloading
    <3>2. UsedBy(Others(quotaLock))' + Blocks =< CacheLimit
      BY <2>10, <3>1 DEF UsedBy, Stored, Others
    <3>3. \A u \in PackageTasks : packageTask'[u].at \in {"request", "stream"} => archive'[Of(u)'] = NoFile
      BY <2>1, <2>8, <2>11, <2>12, <3>1 DEF Downloading
    <3> QED
      BY <2>11, <3>1, <3>2, <3>3 DEF RoomInv, CacheKeepsItsLimit
  <2> QED
    BY <2>6, <2>13 DEF CacheInv
<1> QED
  BY <1>2, <1>3, Zenon DEF TakeCache

\* The task goes on with the cache, or ends and leaves it.
LEMMA RetryTells ==
  ASSUME packageTask \in [PackageTasks -> TaskRecords], NEW t \in PackageTasks, RetryOrFail(t)
  PROVE  \/ /\ TaskIs(t, "request", Of(t), packageTask[t].staged, packageTask[t].had)
            /\ UNCHANGED quotaLock
         \/ TaskIs(t, "idle", Resting.package, Nothing, Nothing) /\ quotaLock' = NoTask
<1>1. CASE TaskEnds(t) /\ quotaLock' = NoTask
  BY <1>1, TaskEndsIs
<1> DEFINE w == [packageTask[t] EXCEPT !.at = "request", !.attempt = @ + 1, !.restarts = 0]
<1>2. CASE packageTask' = [packageTask EXCEPT ![t] = w] /\ UNCHANGED quotaLock
  <2>1. packageTask'[t] = w /\ packageTask[t] \in TaskRecords
    BY <1>2
  <2>2. w.at = "request"
    BY <2>1 DEF TaskRecords
  <2> HIDE DEF w
  <2>3. ~TaskIs(t, "idle", Resting.package, Nothing, Nothing)
    BY <2>1, <2>2 DEF TaskIs
  <2> QED
    BY <1>2, <2>3, RetryIs
<1> QED
  BY <1>1, <1>2, Zenon DEF RetryOrFail

LEMMA DownloadKeepsLimit ==
  ASSUME CacheInv, PackageInv', NEW t \in PackageTasks,
         \/ RangeRefused(t) \/ HttpFails(t) \/ BlockArrives(t) \/ NetworkFails(t)
         \/ \E resume, announced \in BOOLEAN : ServerAnswers(t, resume, announced)
  PROVE  CacheInv'
<1>1. packageTask[t].at \in {"request", "stream"} /\ UNCHANGED archive
  BY Zenon DEF RangeRefused, HttpFails, BlockArrives, NetworkFails, ServerAnswers
<1>2. /\ packageTask \in [PackageTasks -> TaskRecords] /\ Of(t) \in Packages
      /\ part \in [Packages -> Seq(Nat)] 
      /\ packageTask[t] \in TaskRecords
  BY <1>1 DEF CacheInv, PackageInv, PackageTypes, TaskInv
<1>3. PICK p \in Packages : Of(t) = p
  BY <1>2
<1>4. packageTask[t].at \in Downloading /\ archive[p] = NoFile
  BY <1>1, <1>3 DEF CacheInv, RoomInv, Downloading
<1>5. \/ UNCHANGED part
      \/ part' = [part EXCEPT ![p] = NoFile]
      \/ Len(part[p]) < packageTask[t].until /\ part' = [part EXCEPT ![p] = Append(@, server[p])]
  BY <1>3, Zenon DEF RangeRefused, HttpFails, BlockArrives, NetworkFails, ServerAnswers
<1>6. \A q \in Packages \ {p} : archive'[q] = archive[q] /\ part'[q] = part[q]
  BY <1>1, <1>2, <1>5
<1>7. EntryInv(p)'
  <2>1. Len(part'[p]) =< LongestFile
    <3>1. Len(Append(part[p], server[p])) = Len(part[p]) + 1 /\ Len(part[p]) \in Nat /\ Len(NoFile) = 0
      BY <1>2 DEF NoFile
    <3>2. Len(part[p]) =< LongestFile
      BY DEF CacheInv, EntryInv
    <3>3. packageTask[t].until \in 0 .. LongestFile
      BY <1>2 DEF TaskRecords
    <3> QED
      BY <1>2, <1>5, <3>1, <3>2, <3>3, LengthAssumption
  <2>2. Len(archive'[p]) =< LongestFile
    BY <1>1 DEF CacheInv, EntryInv
  <2> QED
    BY <1>1, <1>4, <2>1, <2>2 DEF EntryInv
<1>8. ASSUME NEW at \in {"request", "stream"}, UNCHANGED quotaLock,
             TaskIs(t, at, Of(t), packageTask[t].staged, packageTask[t].had)
      PROVE  CacheInv'
  BY <1>1, <1>3, <1>4, <1>6, <1>7, <1>8, InsideCache DEF TaskIs, Downloading
<1>9. ASSUME quotaLock' = NoTask, TaskIs(t, "idle", Resting.package, Nothing, Nothing)
      PROVE  CacheInv'
  BY <1>3, <1>4, <1>6, <1>7, <1>9, InsideCache DEF TaskIs, Downloading
<1>10. CASE RetryOrFail(t)
  BY <1>2, <1>8, <1>9, <1>10, RetryTells
<1>11. CASE TaskEnds(t) /\ quotaLock' = NoTask
  BY <1>2, <1>9, <1>11, TaskEndsIs
<1>12. ASSUME NEW resume \in BOOLEAN, NEW announced \in BOOLEAN,
             ServerAnswers(t, resume, announced)
      PROVE  CacheInv'
  <2>1. TaskIs(t, "stream", Of(t), packageTask[t].staged, packageTask[t].had)
    BY <1>12, AnswerIs DEF CacheInv
  <2>2. UNCHANGED quotaLock
    BY <1>12, Zenon DEF ServerAnswers
  <2> QED
    BY <1>8, <2>1, <2>2
<1>13. CASE UNCHANGED <<packageTask, quotaLock>>
  <2>1. TaskIs(t, packageTask[t].at, Of(t), packageTask[t].staged, packageTask[t].had)
    BY <1>2, <1>13 DEF TaskIs, Of
  <2> QED
    BY <1>1, <1>8, <1>13, <2>1
<1>14. CASE packageTask' = [packageTask EXCEPT ![t].restarts = 1] /\ UNCHANGED quotaLock
  <2> DEFINE w == [packageTask[t] EXCEPT !.restarts = 1]
  <2>1. packageTask' = [packageTask EXCEPT ![t] = w]
    BY <1>14, Zenon
  <2>2. /\ w \in TaskRecords /\ w.at = packageTask[t].at /\ w.package = packageTask[t].package
        /\ w.staged = packageTask[t].staged /\ w.had = packageTask[t].had
    <3>1. packageTask[t] \in TaskRecords
      BY <1>2
    <3> QED
      BY <3>1 DEF TaskRecords
  <2> HIDE DEF w
  <2>3. TaskIs(t, w.at, w.package, w.staged, w.had)
    BY <1>2, <2>1, <2>2, TaskSet
  <2>4. TaskIs(t, packageTask[t].at, Of(t), packageTask[t].staged, packageTask[t].had)
    BY <2>2, <2>3 DEF Of
  <2> QED
    BY <1>1, <1>8, <1>14, <2>4
<1> QED
  BY <1>10, <1>11, <1>12, <1>13, <1>14, Zenon DEF RangeRefused, HttpFails, BlockArrives,
     NetworkFails

LEMMA StreamKeepsLimit ==
  ASSUME CacheInv, PackageInv', NEW t \in PackageTasks, StreamEnds(t)
  PROVE  CacheInv'
<1>1. packageTask[t].at = "stream"
  BY Zenon DEF StreamEnds, StreamIsOver
<1>2. /\ packageTask \in [PackageTasks -> TaskRecords] /\ Of(t) \in Packages
      /\ part \in [Packages -> Seq(Nat)] /\ archive \in [Packages -> Seq(Nat)]
  BY <1>1 DEF CacheInv, PackageInv, PackageTypes, TaskInv
<1>3. PICK p \in Packages : Of(t) = p
  BY <1>2
<1>4. /\ Len(NoFile) = 0 /\ LongestFile \in Nat /\ packageTask[t].at \in Downloading
      /\ archive[p] = NoFile /\ EntryInv(p)
  BY <1>1, <1>3, LengthAssumption DEF NoFile, Downloading, CacheInv, RoomInv
<1>5. /\ \/ UNCHANGED <<archive, part>>
         \/ UNCHANGED archive /\ part' = [part EXCEPT ![p] = NoFile]
         \/ archive' = [archive EXCEPT ![p] = part[p]] /\ part' = [part EXCEPT ![p] = NoFile]
      /\ \/ RetryOrFail(t) /\ UNCHANGED archive
         \/ TaskGoes(t, "cached") /\ UNCHANGED quotaLock
         \/ TaskEnds(t) /\ quotaLock' = NoTask
  BY <1>3, Zenon DEF StreamEnds, Rename
<1>6. EntryInv(p)' /\ \A q \in Packages \ {p} : archive'[q] = archive[q] /\ part'[q] = part[q]
  BY <1>2, <1>4, <1>5 DEF EntryInv
<1>7. ASSUME NEW at \in Downloading, UNCHANGED quotaLock, at # "cached" => UNCHANGED archive,
             TaskIs(t, at, Of(t), packageTask[t].staged, packageTask[t].had)
      PROVE  CacheInv'
  BY <1>3, <1>4, <1>6, <1>7, InsideCache DEF TaskIs, Downloading
<1>8. ASSUME quotaLock' = NoTask, TaskIs(t, "idle", Resting.package, Nothing, Nothing)
      PROVE  CacheInv'
  BY <1>3, <1>4, <1>6, <1>8, InsideCache DEF TaskIs, Downloading
<1>9. CASE RetryOrFail(t) /\ UNCHANGED archive
  BY <1>2, <1>7, <1>8, <1>9, RetryTells DEF Downloading
<1>10. CASE TaskGoes(t, "cached") /\ UNCHANGED quotaLock
  <2>1. TaskIs(t, "cached", Of(t), packageTask[t].staged, packageTask[t].had)
    BY <1>2, <1>10, TaskGoesTo DEF Stages, Early
  <2> QED
    BY <1>7, <1>10, <2>1 DEF Downloading
<1>11. CASE TaskEnds(t) /\ quotaLock' = NoTask
  BY <1>2, <1>8, <1>11, TaskEndsIs
<1> QED
  BY <1>5, <1>9, <1>10, <1>11

LEMMA CrashKeepsLimit ==
  ASSUME CacheInv, PackageInv', PackageCrash
  PROVE  CacheInv'
<1>1. /\ packageTask' = [t \in PackageTasks |-> Resting] /\ quotaLock' = NoTask
      /\ UNCHANGED <<archive, part>>
  BY Zenon DEF PackageCrash
<1>2. \A t \in PackageTasks : packageTask'[t].at = "idle"
  BY <1>1, RestingIs
<1>3. \A q \in Packages : EntryInv(q)'
  BY <1>1 DEF CacheInv, EntryInv
<1>4. UsedBy(Packages) = 0 \/ \E p \in Packages : UsedBy(Packages \ {p}) + Blocks =< CacheLimit
  <2>1. CASE quotaLock = NoTask
    BY <2>1 DEF CacheInv, RoomInv, CacheKeepsItsLimit
  <2>2. CASE quotaLock # NoTask
    <3>1. /\ quotaLock \in PackageTasks /\ packageTask[quotaLock].at \in Downloading
          /\ UsedBy(Others(quotaLock)) + Blocks =< CacheLimit
      BY <2>2 DEF CacheInv, RoomInv
    <3>2. PICK p \in Packages : Of(quotaLock) = p
      BY <3>1 DEF CacheInv, PackageInv, TaskInv, Downloading
    <3>3. Others(quotaLock) = Packages \ {p}
      BY <3>2 DEF Others
    <3> QED
      BY <3>1, <3>3
  <2> QED
    BY <2>1, <2>2
<1>5. /\ UsedBy(Packages)' = UsedBy(Packages)
      /\ \A p \in Packages : UsedBy(Packages \ {p})' = UsedBy(Packages \ {p})
  BY <1>1 DEF UsedBy, Stored, Payload
<1>6. RoomInv'
  BY <1>1, <1>2, <1>4, <1>5 DEF RoomInv, Downloading, CacheKeepsItsLimit
<1> QED
  BY <1>3, <1>6 DEF CacheInv

LEMMA CacheInitInv == PackageInit => CacheInv
<1> SUFFICES ASSUME PackageInit PROVE CacheInv
  OBVIOUS
<1>1. Len(NoFile) = 0 /\ LongestFile \in Nat
  BY LengthAssumption DEF NoFile
<1>2. \A p \in Packages : EntryInv(p) /\ Payload(p) = 0
  BY <1>1 DEF PackageInit, EntryInv, Payload
<1>3. Stored(Packages) = {}
  BY <1>2, LengthAssumption DEF Stored
<1>4. UsedBy(Packages) = 0
  BY <1>3, FS_EmptySet DEF UsedBy
<1>5. RoomInv
  BY <1>1, <1>4, RestingIs DEF PackageInit, RoomInv, Downloading, CacheKeepsItsLimit
<1> QED
  BY <1>2, <1>5, PackageInitInv DEF CacheInv

LEMMA CacheStep == CacheInv /\ [PackageNext]_packageVars => CacheInv'
<1> SUFFICES ASSUME CacheInv, [PackageNext]_packageVars PROVE CacheInv'
  OBVIOUS
<1>1. PackageInv'
  BY PackageStep DEF CacheInv
<1>2. CASE UNCHANGED packageVars
  BY <1>1, <1>2, OutsideCache DEF packageVars
<1>3. CASE PackageCrash
  BY <1>1, <1>3, CrashKeepsLimit
<1>4. ASSUME NEW p \in Packages, ServerChanges(p)
      PROVE  CacheInv'
  <2>1. UNCHANGED <<archive, part, quotaLock, packageTask>>
    BY <1>4, Zenon DEF ServerChanges
  <2> QED
    BY <1>1, <2>1, OutsideCache
<1>5. ASSUME NEW t \in PackageTasks,
             \/ AcceptLicense(t) \/ DeclineLicense(t)
             \/ \E p \in Packages : ClickDownload(t, p) \/ Uninstall(t, p)
      PROVE  CacheInv'
  BY <1>1, <1>5, PageKeepsLimit
<1>6. ASSUME NEW t \in PackageTasks, TakeCache(t) \/ LeaveCache(t)
      PROVE  CacheInv'
  BY <1>1, <1>6, TakeKeepsLimit, LeaveKeepsLimit
<1>7. ASSUME NEW t \in PackageTasks,
             \/ RangeRefused(t) \/ HttpFails(t) \/ BlockArrives(t) \/ NetworkFails(t)
             \/ \E resume, announced \in BOOLEAN : ServerAnswers(t, resume, announced)
      PROVE  CacheInv'
  BY <1>1, <1>7, DownloadKeepsLimit
<1>8. ASSUME NEW t \in PackageTasks, StreamEnds(t)
      PROVE  CacheInv'
  BY <1>1, <1>8, StreamKeepsLimit
<1>9. ASSUME NEW t \in PackageTasks,
             \/ MoveOldAway(t) \/ MoveNewIn(t) \/ CommitInstall(t) \/ RollBack(t) \/ PlaceUnavailable(t)
             \/ (\E restored \in BOOLEAN : RestoreOld(t, restored)) \/ InstallFails(t) \/ UninstallEnds(t) \/ \E whole \in BOOLEAN : Unpack(t, whole)
      PROVE  CacheInv'
  BY <1>1, <1>9, InstallKeepsLimit
<1> QED
  BY <1>2, <1>3, <1>4, <1>5, <1>6, <1>7, <1>8, <1>9, Zenon DEF PackageNext

LEMMA CacheInvariant == PackageSpec => []CacheInv
  BY CacheInitInv, CacheStep, PTL DEF PackageSpec

\* Whenever no task is in the cache, all entries but one leave the room of an
\* announced archive: for any number of packages and tasks, however long the
\* server's files are, whichever downloads failed, were resumed or were cut off by a
\* crash (package_service.rs ensure_cache_capacity makes room once, before a download).
THEOREM CacheKeepsItsLimitCorrect == PackageSpec => []CacheKeepsItsLimit
<1>1. CacheInv => CacheKeepsItsLimit
  BY DEF CacheInv, RoomInv, CacheKeepsItsLimit
<1> QED
  BY <1>1, CacheInvariant, PTL

-----------------------------------------------------------------------------
(* The types of PackageStore: a file holds no block of a generation that the *)
(* server never had.                                                        *)

BlocksServed ==
  /\ changes \in 0 .. MaxServerChanges /\ licensed \in BOOLEAN
  /\ server \in [Packages -> 1 .. changes + 1]
  /\ archive \in [Packages -> Seq(1 .. changes + 1)] /\ part \in [Packages -> Seq(1 .. changes + 1)]

\* A step of a task: what it sends is of the server's generation.
PassesOn(p) ==
  \/ UNCHANGED <<archive, part>>
  \/ part' = [part EXCEPT ![p] = NoFile] /\ archive' \in {archive, [archive EXCEPT ![p] = part[p]]}
  \/ part' = [part EXCEPT ![p] = Append(part[p], server[p])] /\ UNCHANGED archive
  \/ /\ \A q \in Packages : part'[q] \in {part[q], NoFile} /\ archive'[q] \in {archive[q], NoFile}
     /\ part' = [q \in Packages |-> part'[q]] /\ archive' = [q \in Packages |-> archive'[q]]

LEMMA PassingOnKeeps ==
  ASSUME BlocksServed, NEW p \in Packages, PassesOn(p), UNCHANGED <<server, changes>>,
         licensed' \in BOOLEAN
  PROVE  BlocksServed'
<1> DEFINE G == 1 .. changes + 1
<1>1. /\ server[p] \in G /\ part[p] \in Seq(G) /\ NoFile \in Seq(G)
      /\ \A q \in Packages : part[q] \in Seq(G) /\ archive[q] \in Seq(G)
  BY DEF BlocksServed, NoFile
<1>2. Append(part[p], server[p]) \in Seq(G)
  BY <1>1
<1>3. /\ part \in [Packages -> Seq(G)] /\ archive \in [Packages -> Seq(G)]
      /\ server \in [Packages -> G] /\ changes \in 0 .. MaxServerChanges
  BY DEF BlocksServed
<1> HIDE DEF G
<1>4. part' \in [Packages -> Seq(G)] /\ archive' \in [Packages -> Seq(G)]
  <2>1. CASE UNCHANGED <<archive, part>>
    BY <1>3, <2>1
  <2>2. CASE part' = [part EXCEPT ![p] = NoFile] /\ archive' \in {archive, [archive EXCEPT ![p] = part[p]]}
    BY <1>1, <1>3, <2>2
  <2>3. CASE part' = [part EXCEPT ![p] = Append(part[p], server[p])] /\ UNCHANGED archive
    BY <1>2, <1>3, <2>3
  <2>4. CASE /\ \A q \in Packages : part'[q] \in {part[q], NoFile} /\ archive'[q] \in {archive[q], NoFile}
             /\ part' = [q \in Packages |-> part'[q]] /\ archive' = [q \in Packages |-> archive'[q]]
    BY <1>1, <2>4
  <2> QED
    BY <2>1, <2>2, <2>3, <2>4 DEF PassesOn
<1> USE DEF G
<1> QED
  BY <1>3, <1>4 DEF BlocksServed

LEMMA BlocksServedStep ==
  ASSUME PackageInv, BlocksServed, [PackageNext]_packageVars
  PROVE  BlocksServed'
<1>1. CASE UNCHANGED <<server, archive, part, changes>> /\ licensed' \in BOOLEAN
  BY <1>1 DEF BlocksServed
<1>2. ASSUME NEW p \in Packages, ServerChanges(p) PROVE BlocksServed'
  <2>1. /\ changes < MaxServerChanges /\ server' = [server EXCEPT ![p] = @ + 1]
        /\ changes' = changes + 1 /\ UNCHANGED <<licensed, archive, part>>
    BY <1>2 DEF ServerChanges
  <2>2. changes \in Nat /\ changes' \in 0 .. MaxServerChanges
    BY <2>1, PackageAssumption DEF BlocksServed
  <2>3. server' \in [Packages -> 1 .. changes' + 1]
    BY <2>1, <2>2 DEF BlocksServed
  <2>4. Seq(1 .. changes + 1) \subseteq Seq(1 .. changes' + 1)
    BY <2>1, <2>2
  <2> QED
    BY <2>1, <2>2, <2>3, <2>4 DEF BlocksServed
<1>3. ASSUME NEW t \in PackageTasks, PackageInv, packageTask[t].at # "idle"
      PROVE  Of(t) \in Packages
  BY <1>3 DEF PackageInv, TaskInv
<1>4. ASSUME NEW t \in PackageTasks, TakeCache(t) PROVE BlocksServed'
  <2>1. packageTask[t].at = "cache" /\ UNCHANGED <<server, changes, licensed>>
    BY <1>4 DEF TakeCache
  <2>2. PassesOn(Of(t))
    BY <1>4 DEF TakeCache, PassesOn
  <2> QED
    BY <1>3, <2>1, <2>2, PassingOnKeeps DEF BlocksServed
<1>5. ASSUME NEW t \in PackageTasks,
             \/ RangeRefused(t) \/ HttpFails(t) \/ BlockArrives(t) \/ StreamEnds(t)
             \/ \E resume, announced \in BOOLEAN : ServerAnswers(t, resume, announced)
      PROVE  BlocksServed'
  <2>1. packageTask[t].at # "idle" /\ UNCHANGED <<server, changes, licensed>>
    BY <1>5, Zenon DEF RangeRefused, HttpFails, BlockArrives, StreamEnds, StreamIsOver, ServerAnswers
  <2>2. Of(t) \in Packages
    BY <1>3, <2>1
  <2>3. PassesOn(Of(t))
    BY <1>5, Zenon DEF RangeRefused, HttpFails, BlockArrives, StreamEnds, Rename, ServerAnswers, PassesOn
  <2> QED
    BY <2>1, <2>2, <2>3, PassingOnKeeps DEF BlocksServed
<1>6. ASSUME NEW t \in PackageTasks,
             \/ AcceptLicense(t) \/ DeclineLicense(t) \/ LeaveCache(t) \/ NetworkFails(t)
             \/ MoveOldAway(t) \/ MoveNewIn(t) \/ CommitInstall(t) \/ RollBack(t) \/ PlaceUnavailable(t)
             \/ (\E restored \in BOOLEAN : RestoreOld(t, restored)) \/ InstallFails(t) \/ UninstallEnds(t) \/ \E whole \in BOOLEAN : Unpack(t, whole)
             \/ \E p \in Packages : ClickDownload(t, p) \/ Uninstall(t, p)
      PROVE  BlocksServed'
  <2>1. UNCHANGED <<server, archive, part, changes>> /\ licensed' \in {licensed, TRUE}
    BY <1>6, Zenon
       DEF AcceptLicense, DeclineLicense, LeaveCache, NetworkFails, MoveOldAway, MoveNewIn,
           CommitInstall, RollBack, RestoreOld, PlaceUnavailable, InstallFails, UninstallEnds, Unpack, ClickDownload,
           Uninstall
  <2> QED
    BY <1>1, <2>1 DEF BlocksServed
<1>7. CASE PackageCrash \/ UNCHANGED packageVars
  BY <1>1, <1>7 DEF PackageCrash, packageVars, BlocksServed
<1> QED
  BY <1>2, <1>4, <1>5, <1>6, <1>7, Zenon DEF PackageNext

LEMMA ElementsOf ==
  ASSUME NEW S, NEW s \in Seq(S)
  PROVE  ToSet(s) \subseteq S
<1>1. \A i \in DOMAIN s : s[i] \in S
  OBVIOUS
<1> QED
  BY <1>1 DEF ToSet

\* The types of components, of the cache and of the tasks (core/package_service.rs).
LEMMA PackageTypeCorrect == PackageSpec => []PackageTypeOK
<1>1. PackageInit => BlocksServed
  <2> SUFFICES ASSUME PackageInit PROVE BlocksServed
    OBVIOUS
  <2>1. /\ changes = 0 /\ licensed = FALSE /\ server = [p \in Packages |-> 1]
        /\ archive = [p \in Packages |-> NoFile] /\ part = [p \in Packages |-> NoFile]
    BY DEF PackageInit
  <2>2. NoFile \in Seq(1 .. changes + 1)
    BY DEF NoFile
  <2>3. 1 \in 1 .. changes + 1 /\ changes \in 0 .. MaxServerChanges
    BY <2>1, PackageAssumption
  <2> QED
    BY <2>1, <2>2, <2>3 DEF BlocksServed
<1>2. PackageInv /\ BlocksServed /\ [PackageNext]_packageVars => BlocksServed'
  BY BlocksServedStep
<1>3. CacheInv /\ BlocksServed => PackageTypeOK
  <2> SUFFICES ASSUME CacheInv, BlocksServed PROVE PackageTypeOK
    OBVIOUS
  <2>1. PackageTypes /\ RoomInv /\ \A p \in Packages : EntryInv(p)
    BY DEF CacheInv, PackageInv
  <2>2. server \in [Packages -> Generations] /\ licensed \in BOOLEAN
    BY PackageAssumption DEF BlocksServed, Generations
  <2>3. ASSUME NEW p \in Packages
        PROVE  /\ Len(archive[p]) =< LongestFile /\ Len(part[p]) =< LongestFile
               /\ ToSet(archive[p]) \cup ToSet(part[p]) \subseteq Generations
    <3>1. \A s \in Seq(1 .. changes + 1) : ToSet(s) \subseteq 1 .. changes + 1
      BY ElementsOf
    <3>2. 1 .. changes + 1 \subseteq Generations
      BY PackageAssumption DEF BlocksServed, Generations
    <3>3. archive[p] \in Seq(1 .. changes + 1) /\ part[p] \in Seq(1 .. changes + 1)
      BY DEF BlocksServed
    <3> QED
      BY <2>1, <3>1, <3>2, <3>3 DEF EntryInv
  <2>4. \A t \in PackageTasks : packageTask[t].at \in Stages
    BY <2>1 DEF PackageTypes, TaskRecords
  <2> QED
    BY <2>1, <2>2, <2>3, <2>4 DEF PackageTypeOK, PackageTypes, RoomInv, Stages, Early, Holding
<1> QED
  BY <1>1, <1>2, <1>3, PackageInvariant, CacheInvariant, PTL DEF PackageSpec

-----------------------------------------------------------------------------
(* The inductive invariant of AvdStore: what a creator may rely on at each  *)
(* of its steps, because it has the lock of its name, is added.             *)

\* A creation under way has the lock of its name, and its name is not reported.
HasLock(c) ==
  ~Creating(c, "rest") => avdLock[NewName(c)] = c /\ NewName(c) \notin reported

\* Up to the second rename, and again once that is undone, no ini file of
\* liteavd's is there; after the first rename the directory is the creator's.
DirFirst(c) ==
  /\ creation[c].at \in {"staged", "configured", "described", "published",
                         "undo config", "undo dir"} => avdIni[NewName(c)] \notin AvdCreators
  /\ creation[c].at \in {"published", "linked"} =>
       avdDir[NewName(c)] = [by |-> c, config |-> TRUE]
  /\ Creating(c, "linked") => avdIni[NewName(c)] = c

CreationInv == \A c \in AvdCreators : HasLock(c) /\ DirFirst(c)

\* An ini file of liteavd's has its directory.
IniHasDir ==
  \A n \in AvdNames :
    avdIni[n] \in AvdCreators => avdDir[n] = [by |-> avdIni[n], config |-> TRUE]

\* What was reported has such an ini file.
ReportedIsThere == \A n \in reported : avdIni[n] \in AvdCreators

AvdInv == AvdTypeOK /\ CreationInv /\ IniHasDir /\ ReportedIsThere

-----------------------------------------------------------------------------

LEMMA AtRestType ==
  AtRest \in [at : CreationSteps, name : AvdNames] /\ AtRest.at = "rest"
BY AvdAssumption DEF AtRest, CreationSteps

LEMMA NameType ==
  ASSUME AvdTypeOK, NEW c \in AvdCreators
  PROVE  NewName(c) \in AvdNames
BY DEF AvdTypeOK, NewName

\* The step of a creation changes where it is and nothing else of any creation.
LEMMA StepOf ==
  ASSUME AvdTypeOK, NEW c \in AvdCreators, NEW at \in CreationSteps, StepsTo(c, at)
  PROVE  /\ creation' \in [AvdCreators -> [at : CreationSteps, name : AvdNames]]
         /\ creation'[c].at = at
         /\ creation'[c].name = creation[c].name
         /\ \A d \in AvdCreators \ {c} : creation'[d] = creation[d]
BY DEF AvdTypeOK, StepsTo

\* The end of a creation frees its name and changes no other creation.
LEMMA EndOf ==
  ASSUME AvdTypeOK, NEW c \in AvdCreators, Unlocks(c)
  PROVE  /\ creation' \in [AvdCreators -> [at : CreationSteps, name : AvdNames]]
         /\ avdLock' \in [AvdNames -> AvdCreators \cup {Nobody}]
         /\ creation'[c].at = "rest"
         /\ \A d \in AvdCreators \ {c} : creation'[d] = creation[d]
         /\ \A n \in AvdNames \ {NewName(c)} : avdLock'[n] = avdLock[n]
<1>1. creation' = [creation EXCEPT ![c] = AtRest] /\ AtRest.at = "rest"
  BY AtRestType DEF Unlocks
<1>2. creation' \in [AvdCreators -> [at : CreationSteps, name : AvdNames]]
  BY <1>1, AtRestType DEF AvdTypeOK
<1>3. creation'[c].at = "rest" /\ \A d \in AvdCreators \ {c} : creation'[d] = creation[d]
  BY <1>1 DEF AvdTypeOK
<1>4. avdLock' = [avdLock EXCEPT ![NewName(c)] = Nobody]
  BY DEF Unlocks
<1>5. avdLock' \in [AvdNames -> AvdCreators \cup {Nobody}]
  BY <1>4 DEF AvdTypeOK
<1>6. \A n \in AvdNames \ {NewName(c)} : avdLock'[n] = avdLock[n]
  BY <1>4 DEF AvdTypeOK
<1> QED
  BY <1>2, <1>3, <1>5, <1>6

\* A step at a creator's own name leaves the other creators' facts true.
LEMMA OthersKeep ==
  ASSUME AvdTypeOK, CreationInv, NEW c \in AvdCreators, NEW n,
         \A d \in AvdCreators \ {c} : Creating(d, "rest") \/ NewName(d) # n,
         \A d \in AvdCreators \ {c} : creation'[d] = creation[d],
         \A m \in AvdNames \ {n} :
           avdLock'[m] = avdLock[m] /\ avdIni'[m] = avdIni[m] /\ avdDir'[m] = avdDir[m],
         reported' \subseteq reported \cup {n}
  PROVE  \A d \in AvdCreators \ {c} : HasLock(d)' /\ DirFirst(d)'
<1> SUFFICES ASSUME NEW d \in AvdCreators \ {c} PROVE HasLock(d)' /\ DirFirst(d)'
  OBVIOUS
<1>1. creation'[d] = creation[d] /\ NewName(d) \in AvdNames /\ HasLock(d) /\ DirFirst(d)
  BY NameType DEF CreationInv
<1>2. CASE Creating(d, "rest")
  BY <1>1, <1>2 DEF HasLock, DirFirst, Creating
<1>3. CASE ~Creating(d, "rest")
  <2>1. NewName(d)' = NewName(d) /\ NewName(d) \in AvdNames \ {n}
    BY <1>1, <1>3 DEF NewName
  <2> QED
    BY <1>1, <2>1 DEF HasLock, DirFirst, Creating
<1> QED
  BY <1>2, <1>3

\* Two creations under way have different names.
LEMMA NamesDiffer ==
  ASSUME CreationInv, NEW c \in AvdCreators, ~Creating(c, "rest")
  PROVE  \A d \in AvdCreators \ {c} : Creating(d, "rest") \/ NewName(d) # NewName(c)
BY DEF CreationInv, HasLock

LEMMA AvdInitInv == AvdInit => AvdInv
<1> SUFFICES ASSUME AvdInit PROVE AvdInv
  OBVIOUS
<1>1. AvdTypeOK
  BY AtRestType DEF AvdInit, AvdTypeOK, CreationSteps, NoAvdDir, Makers
<1>2. CreationInv
  BY AtRestType DEF AvdInit, CreationInv, HasLock, DirFirst, Creating
<1>3. IniHasDir /\ ReportedIsThere
  BY AvdAssumption DEF AvdInit, IniHasDir, ReportedIsThere
<1> QED
  BY <1>1, <1>2, <1>3 DEF AvdInv

-----------------------------------------------------------------------------
(* One lemma per action.                                                    *)

LEMMA WriteStagedKeeps ==
  ASSUME AvdInv, NEW c \in AvdCreators, WriteStaged(c)
  PROVE  AvdInv'
<1> USE DEF AvdInv, CreationSteps
<1>1. PICK at \in {"configured", "described"} : StepsTo(c, at)
  BY DEF WriteStaged
<1>2. creation[c].at \in {"staged", "configured"} /\ ~Creating(c, "rest")
  BY DEF WriteStaged, Creating
<1>3. UNCHANGED <<avdLock, avdDir, avdIni, reported>>
  BY DEF WriteStaged
<1>4. AvdTypeOK'
  BY <1>1, <1>3, StepOf, NameType DEF AvdTypeOK
<1>5. \A d \in AvdCreators \ {c} : HasLock(d)' /\ DirFirst(d)'
  <2>1. \A d \in AvdCreators \ {c} : creation'[d] = creation[d]
    BY <1>1, StepOf
  <2>2. \A m \in AvdNames \ {NewName(c)} :
          avdLock'[m] = avdLock[m] /\ avdIni'[m] = avdIni[m] /\ avdDir'[m] = avdDir[m]
    BY <1>1, <1>3
  <2>3. reported' \subseteq reported \cup {NewName(c)}
    BY <1>3
  <2> QED
    BY <1>2, <2>1, <2>2, <2>3, NamesDiffer, OthersKeep
<1>6. HasLock(c)' /\ DirFirst(c)'
  BY <1>1, <1>2, <1>3, StepOf, NameType
     DEF CreationInv, HasLock, DirFirst, Creating, NewName
<1>7. IniHasDir' /\ ReportedIsThere'
  BY <1>2, <1>3, NameType DEF IniHasDir, ReportedIsThere
<1> QED
  BY <1>4, <1>5, <1>6, <1>7 DEF CreationInv

LEMMA PublishDirKeeps ==
  ASSUME AvdInv, NEW c \in AvdCreators, PublishDir(c)
  PROVE  AvdInv'
<1> USE DEF AvdInv, CreationSteps
<1>1. PICK at \in {"published"} : StepsTo(c, at)
  BY DEF PublishDir
<1>2. creation[c].at \in {"described"} /\ ~Creating(c, "rest")
  BY DEF PublishDir, Creating
<1>3. UNCHANGED <<avdLock, avdIni, reported>>
  BY DEF PublishDir
<1>4. AvdTypeOK'
  BY <1>1, <1>3, StepOf, NameType DEF PublishDir, AvdTypeOK, Makers
<1>5. \A d \in AvdCreators \ {c} : HasLock(d)' /\ DirFirst(d)'
  <2>1. \A d \in AvdCreators \ {c} : creation'[d] = creation[d]
    BY <1>1, StepOf
  <2>2. \A m \in AvdNames \ {NewName(c)} :
          avdLock'[m] = avdLock[m] /\ avdIni'[m] = avdIni[m] /\ avdDir'[m] = avdDir[m]
    BY <1>1, <1>3 DEF PublishDir, AvdTypeOK
  <2>3. reported' \subseteq reported \cup {NewName(c)}
    BY <1>3
  <2> QED
    BY <1>2, <2>1, <2>2, <2>3, NamesDiffer, OthersKeep
<1>6. HasLock(c)' /\ DirFirst(c)'
  BY <1>1, <1>2, <1>3, StepOf, NameType
     DEF PublishDir, AvdTypeOK, CreationInv, HasLock, DirFirst, Creating, NewName
<1>7. IniHasDir' /\ ReportedIsThere'
  BY <1>2, <1>3, NameType
     DEF PublishDir, AvdTypeOK, CreationInv, DirFirst, IniHasDir, ReportedIsThere
<1> QED
  BY <1>4, <1>5, <1>6, <1>7 DEF CreationInv

LEMMA PublishIniKeeps ==
  ASSUME AvdInv, NEW c \in AvdCreators, PublishIni(c)
  PROVE  AvdInv'
<1> USE DEF AvdInv, CreationSteps
<1>1. PICK at \in {"linked"} : StepsTo(c, at)
  BY DEF PublishIni
<1>2. creation[c].at \in {"published"} /\ ~Creating(c, "rest")
  BY DEF PublishIni, Creating
<1>3. UNCHANGED <<avdLock, avdDir, reported>>
  BY DEF PublishIni
<1>4. AvdTypeOK'
  BY <1>1, <1>3, StepOf, NameType DEF PublishIni, AvdTypeOK, Makers
<1>5. \A d \in AvdCreators \ {c} : HasLock(d)' /\ DirFirst(d)'
  <2>1. \A d \in AvdCreators \ {c} : creation'[d] = creation[d]
    BY <1>1, StepOf
  <2>2. \A m \in AvdNames \ {NewName(c)} :
          avdLock'[m] = avdLock[m] /\ avdIni'[m] = avdIni[m] /\ avdDir'[m] = avdDir[m]
    BY <1>1, <1>3 DEF PublishIni, AvdTypeOK
  <2>3. reported' \subseteq reported \cup {NewName(c)}
    BY <1>3
  <2> QED
    BY <1>2, <2>1, <2>2, <2>3, NamesDiffer, OthersKeep
<1>6. HasLock(c)' /\ DirFirst(c)'
  BY <1>1, <1>2, <1>3, StepOf, NameType
     DEF PublishIni, AvdTypeOK, CreationInv, HasLock, DirFirst, Creating, NewName
<1>7. IniHasDir' /\ ReportedIsThere'
  BY <1>2, <1>3, NameType
     DEF PublishIni, AvdTypeOK, CreationInv, DirFirst, IniHasDir, ReportedIsThere
<1> QED
  BY <1>4, <1>5, <1>6, <1>7 DEF CreationInv

LEMMA CreationFailsKeeps ==
  ASSUME AvdInv, NEW c \in AvdCreators, CreationFails(c)
  PROVE  AvdInv'
<1> USE DEF AvdInv, CreationSteps
<1>1. PICK at \in {"undo"} : StepsTo(c, at)
  BY DEF CreationFails
<1>2. /\ creation[c].at \in {"staged", "configured", "described", "published", "linked"}
      /\ ~Creating(c, "rest")
  BY DEF CreationFails, Creating
<1>3. UNCHANGED <<avdLock, avdDir, avdIni, reported>>
  BY DEF CreationFails
<1>4. AvdTypeOK'
  BY <1>1, <1>3, StepOf, NameType DEF AvdTypeOK
<1>5. \A d \in AvdCreators \ {c} : HasLock(d)' /\ DirFirst(d)'
  <2>1. \A d \in AvdCreators \ {c} : creation'[d] = creation[d]
    BY <1>1, StepOf
  <2>2. \A m \in AvdNames \ {NewName(c)} :
          avdLock'[m] = avdLock[m] /\ avdIni'[m] = avdIni[m] /\ avdDir'[m] = avdDir[m]
    BY <1>1, <1>3
  <2>3. reported' \subseteq reported \cup {NewName(c)}
    BY <1>3
  <2> QED
    BY <1>2, <2>1, <2>2, <2>3, NamesDiffer, OthersKeep
<1>6. HasLock(c)' /\ DirFirst(c)'
  BY <1>1, <1>2, <1>3, StepOf, NameType
     DEF CreationInv, HasLock, DirFirst, Creating, NewName
<1>7. IniHasDir' /\ ReportedIsThere'
  BY <1>2, <1>3, NameType DEF IniHasDir, ReportedIsThere
<1> QED
  BY <1>4, <1>5, <1>6, <1>7 DEF CreationInv

LEMMA UndoIniKeeps ==
  ASSUME AvdInv, NEW c \in AvdCreators, UndoIni(c)
  PROVE  AvdInv'
<1> USE DEF AvdInv, CreationSteps
<1>1. PICK at \in {"undo config"} : StepsTo(c, at)
  BY DEF UndoIni
<1>2. creation[c].at \in {"undo"} /\ ~Creating(c, "rest")
  BY DEF UndoIni, Creating
<1>3. UNCHANGED <<avdLock, avdDir, reported>>
  BY DEF UndoIni
<1>4. AvdTypeOK'
  BY <1>1, <1>3, StepOf, NameType DEF UndoIni, AvdTypeOK, Makers
<1>5. \A d \in AvdCreators \ {c} : HasLock(d)' /\ DirFirst(d)'
  <2>1. \A d \in AvdCreators \ {c} : creation'[d] = creation[d]
    BY <1>1, StepOf
  <2>2. \A m \in AvdNames \ {NewName(c)} :
          avdLock'[m] = avdLock[m] /\ avdIni'[m] = avdIni[m] /\ avdDir'[m] = avdDir[m]
    BY <1>1, <1>3 DEF UndoIni, AvdTypeOK
  <2>3. reported' \subseteq reported \cup {NewName(c)}
    BY <1>3
  <2> QED
    BY <1>2, <2>1, <2>2, <2>3, NamesDiffer, OthersKeep
<1>6. HasLock(c)' /\ DirFirst(c)'
  BY <1>1, <1>2, <1>3, StepOf, NameType, AvdAssumption
     DEF UndoIni, AvdTypeOK, CreationInv, HasLock, DirFirst, Creating, NewName
<1>7. IniHasDir' /\ ReportedIsThere'
  BY <1>2, <1>3, NameType, AvdAssumption
     DEF UndoIni, AvdTypeOK, CreationInv, HasLock, Creating, IniHasDir, ReportedIsThere
<1> QED
  BY <1>4, <1>5, <1>6, <1>7 DEF CreationInv

LEMMA UndoConfigKeeps ==
  ASSUME AvdInv, NEW c \in AvdCreators, UndoConfig(c)
  PROVE  AvdInv'
<1> USE DEF AvdInv, CreationSteps
<1>1. PICK at \in {"undo dir"} : StepsTo(c, at)
  BY DEF UndoConfig
<1>2. creation[c].at \in {"undo config"} /\ ~Creating(c, "rest")
  BY DEF UndoConfig, Creating
<1>3. UNCHANGED <<avdLock, avdIni, reported>>
  BY DEF UndoConfig
<1>4. AvdTypeOK'
  BY <1>1, <1>3, StepOf, NameType DEF UndoConfig, AvdTypeOK, Makers
<1>5. \A d \in AvdCreators \ {c} : HasLock(d)' /\ DirFirst(d)'
  <2>1. \A d \in AvdCreators \ {c} : creation'[d] = creation[d]
    BY <1>1, StepOf
  <2>2. \A m \in AvdNames \ {NewName(c)} :
          avdLock'[m] = avdLock[m] /\ avdIni'[m] = avdIni[m] /\ avdDir'[m] = avdDir[m]
    BY <1>1, <1>3 DEF UndoConfig, AvdTypeOK
  <2>3. reported' \subseteq reported \cup {NewName(c)}
    BY <1>3
  <2> QED
    BY <1>2, <2>1, <2>2, <2>3, NamesDiffer, OthersKeep
<1>6. HasLock(c)' /\ DirFirst(c)'
  BY <1>1, <1>2, <1>3, StepOf, NameType
     DEF UndoConfig, AvdTypeOK, CreationInv, HasLock, DirFirst, Creating, NewName
<1>7. IniHasDir' /\ ReportedIsThere'
  BY <1>2, <1>3, NameType
     DEF UndoConfig, AvdTypeOK, CreationInv, DirFirst, IniHasDir, ReportedIsThere
<1> QED
  BY <1>4, <1>5, <1>6, <1>7 DEF CreationInv

LEMMA CommitCreationKeeps ==
  ASSUME AvdInv, NEW c \in AvdCreators, CommitCreation(c)
  PROVE  AvdInv'
<1> USE DEF AvdInv
<1>1. Unlocks(c)
  BY DEF CommitCreation
<1>2. Creating(c, "linked") /\ ~Creating(c, "rest")
  BY DEF CommitCreation, Creating
<1>3. UNCHANGED <<avdDir, avdIni>>
  BY DEF CommitCreation
<1>4. AvdTypeOK'
  BY <1>1, <1>3, EndOf, NameType DEF CommitCreation, AvdTypeOK
<1>5. \A d \in AvdCreators \ {c} : HasLock(d)' /\ DirFirst(d)'
  <2>1. \A d \in AvdCreators \ {c} : creation'[d] = creation[d]
    BY <1>1, EndOf
  <2>2. \A m \in AvdNames \ {NewName(c)} :
          avdLock'[m] = avdLock[m] /\ avdIni'[m] = avdIni[m] /\ avdDir'[m] = avdDir[m]
    BY <1>1, <1>3, EndOf DEF CommitCreation
  <2>3. reported' \subseteq reported \cup {NewName(c)}
    BY <1>3 DEF CommitCreation
  <2> QED
    BY <1>2, <2>1, <2>2, <2>3, NamesDiffer, OthersKeep
<1>6. HasLock(c)' /\ DirFirst(c)'
  BY <1>1, EndOf DEF HasLock, DirFirst, Creating
<1>7. IniHasDir' /\ ReportedIsThere'
  BY <1>2, <1>3, NameType
     DEF CommitCreation, CreationInv, DirFirst, IniHasDir, ReportedIsThere
<1> QED
  BY <1>4, <1>5, <1>6, <1>7 DEF CreationInv

LEMMA UndoDirKeeps ==
  ASSUME AvdInv, NEW c \in AvdCreators, UndoDir(c)
  PROVE  AvdInv'
<1> USE DEF AvdInv
<1>1. Unlocks(c)
  BY DEF UndoDir
<1>2. Creating(c, "undo dir") /\ ~Creating(c, "rest")
  BY DEF UndoDir, Creating
<1>3. UNCHANGED <<avdIni, reported>>
  BY DEF UndoDir
<1>4. AvdTypeOK'
  BY <1>1, <1>3, EndOf, NameType DEF UndoDir, AvdTypeOK, NoAvdDir, Makers
<1>5. \A d \in AvdCreators \ {c} : HasLock(d)' /\ DirFirst(d)'
  <2>1. \A d \in AvdCreators \ {c} : creation'[d] = creation[d]
    BY <1>1, EndOf
  <2>2. \A m \in AvdNames \ {NewName(c)} :
          avdLock'[m] = avdLock[m] /\ avdIni'[m] = avdIni[m] /\ avdDir'[m] = avdDir[m]
    BY <1>1, <1>3, EndOf DEF UndoDir, AvdTypeOK
  <2>3. reported' \subseteq reported \cup {NewName(c)}
    BY <1>3 DEF UndoDir, AvdTypeOK
  <2> QED
    BY <1>2, <2>1, <2>2, <2>3, NamesDiffer, OthersKeep
<1>6. HasLock(c)' /\ DirFirst(c)'
  BY <1>1, EndOf DEF HasLock, DirFirst, Creating
<1>7. IniHasDir' /\ ReportedIsThere'
  BY <1>2, <1>3, NameType
     DEF UndoDir, AvdTypeOK, CreationInv, DirFirst, Creating, IniHasDir, ReportedIsThere
<1> QED
  BY <1>4, <1>5, <1>6, <1>7 DEF CreationInv

LEMMA CreatorCrashesKeeps ==
  ASSUME AvdInv, NEW c \in AvdCreators, CreatorCrashes(c)
  PROVE  AvdInv'
<1> USE DEF AvdInv
<1>1. Unlocks(c)
  BY DEF CreatorCrashes
<1>2. ~Creating(c, "rest")
  BY DEF CreatorCrashes, Creating
<1>3. UNCHANGED <<avdDir, avdIni, reported>>
  BY DEF CreatorCrashes
<1>4. AvdTypeOK'
  BY <1>1, <1>3, EndOf, NameType DEF AvdTypeOK
<1>5. \A d \in AvdCreators \ {c} : HasLock(d)' /\ DirFirst(d)'
  <2>1. \A d \in AvdCreators \ {c} : creation'[d] = creation[d]
    BY <1>1, EndOf
  <2>2. \A m \in AvdNames \ {NewName(c)} :
          avdLock'[m] = avdLock[m] /\ avdIni'[m] = avdIni[m] /\ avdDir'[m] = avdDir[m]
    BY <1>1, <1>3, EndOf
  <2>3. reported' \subseteq reported \cup {NewName(c)}
    BY <1>3
  <2> QED
    BY <1>2, <2>1, <2>2, <2>3, NamesDiffer, OthersKeep
<1>6. HasLock(c)' /\ DirFirst(c)'
  BY <1>1, EndOf DEF HasLock, DirFirst, Creating
<1>7. IniHasDir' /\ ReportedIsThere'
  BY <1>2, <1>3, NameType DEF IniHasDir, ReportedIsThere
<1> QED
  BY <1>4, <1>5, <1>6, <1>7 DEF CreationInv

LEMMA StartCreationKeeps ==
  ASSUME AvdInv, NEW c \in AvdCreators, NEW n \in AvdNames, StartCreation(c, n)
  PROVE  AvdInv'
<1> USE DEF AvdInv
<1>1. UNCHANGED <<avdDir, avdIni, reported>> /\ avdLock[n] = Nobody /\ avdIni[n] = Nobody
  BY DEF StartCreation, NameIsFree
<1>2. /\ creation' = [creation EXCEPT ![c] = [at |-> "staged", name |-> n]]
      /\ avdLock' = [avdLock EXCEPT ![n] = c]
  BY DEF StartCreation
<1>3. AvdTypeOK'
  BY <1>1, <1>2 DEF AvdTypeOK, CreationSteps
<1>4. \A d \in AvdCreators \ {c} : Creating(d, "rest") \/ NewName(d) # n
  BY <1>1, AvdAssumption DEF CreationInv, HasLock
<1>5. \A d \in AvdCreators \ {c} : HasLock(d)' /\ DirFirst(d)'
  <2>1. /\ \A d \in AvdCreators \ {c} : creation'[d] = creation[d]
        /\ \A m \in AvdNames \ {n} : avdLock'[m] = avdLock[m]
    BY <1>2 DEF AvdTypeOK
  <2> QED
    BY <1>1, <1>4, <2>1, OthersKeep
<1>6. HasLock(c)' /\ DirFirst(c)'
  BY <1>1, <1>2, AvdAssumption
  DEF AvdTypeOK, HasLock, DirFirst, Creating, NewName, ReportedIsThere
<1>7. IniHasDir' /\ ReportedIsThere'
  BY <1>1 DEF IniHasDir, ReportedIsThere
<1> QED
  BY <1>3, <1>5, <1>6, <1>7 DEF CreationInv

\* The other tool makes what is not there; liteavd's ini files and the
\* directories that have one are there.
LEMMA ToolMakesDirKeeps ==
  ASSUME AvdInv, NEW n \in AvdNames, ToolMakesDir(n)
  PROVE  AvdInv'
<1> USE DEF AvdInv
<1>1. UNCHANGED <<avdLock, avdIni, creation, reported>> /\ avdDir[n].by = Nobody
  BY DEF ToolMakesDir, NoAvdDir
<1>2. avdDir' = [avdDir EXCEPT ![n] = [by |-> OtherTool, config |-> TRUE]]
  BY DEF ToolMakesDir
<1>3. AvdTypeOK'
  BY <1>1, <1>2 DEF AvdTypeOK, Makers
<1>4. \A m \in AvdNames : avdDir[m].by \in AvdCreators => avdDir'[m] = avdDir[m]
  BY <1>1, <1>2, AvdAssumption DEF AvdTypeOK
<1>5. CreationInv'
  <2> SUFFICES ASSUME NEW c \in AvdCreators PROVE HasLock(c)' /\ DirFirst(c)'
    BY DEF CreationInv
  <2>1. HasLock(c) /\ DirFirst(c) /\ NewName(c)' = NewName(c) /\ NewName(c) \in AvdNames
    BY <1>1, NameType DEF CreationInv, NewName
  <2>2. avdDir[NewName(c)] = [by |-> c, config |-> TRUE] =>
          avdDir'[NewName(c)] = avdDir[NewName(c)]
    BY <1>4, <2>1
  <2>3. HasLock(c)'
    BY <1>1, <2>1 DEF HasLock, Creating
  <2>4. DirFirst(c)'
    BY <1>1, <2>1, <2>2 DEF DirFirst, Creating
  <2> QED
    BY <2>3, <2>4
<1>6. IniHasDir' /\ ReportedIsThere'
  BY <1>1, <1>4 DEF IniHasDir, ReportedIsThere
<1> QED
  BY <1>3, <1>5, <1>6

LEMMA ToolMakesIniKeeps ==
  ASSUME AvdInv, NEW n \in AvdNames, ToolMakesIni(n)
  PROVE  AvdInv'
<1> USE DEF AvdInv
<1>1. UNCHANGED <<avdLock, avdDir, creation, reported>> /\ avdIni[n] = Nobody
  BY DEF ToolMakesIni
<1>2. avdIni' = [avdIni EXCEPT ![n] = OtherTool]
  BY DEF ToolMakesIni
<1>3. AvdTypeOK'
  BY <1>1, <1>2 DEF AvdTypeOK, Makers
<1>4. \A m \in AvdNames : IF m = n THEN avdIni'[m] = OtherTool ELSE avdIni'[m] = avdIni[m]
  BY <1>2 DEF AvdTypeOK
<1>5. CreationInv'
  <2> SUFFICES ASSUME NEW c \in AvdCreators PROVE HasLock(c)' /\ DirFirst(c)'
    BY DEF CreationInv
  <2>1. HasLock(c) /\ DirFirst(c) /\ NewName(c)' = NewName(c) /\ NewName(c) \in AvdNames
    BY <1>1, NameType DEF CreationInv, NewName
  <2>2. /\ avdIni'[NewName(c)] \in {OtherTool, avdIni[NewName(c)]}
        /\ avdIni[NewName(c)] \in AvdCreators => avdIni'[NewName(c)] = avdIni[NewName(c)]
    BY <1>1, <1>4, <2>1, AvdAssumption
  <2>3. HasLock(c)'
    BY <1>1, <2>1 DEF HasLock, Creating
  <2>4. DirFirst(c)'
    BY <1>1, <2>1, <2>2, AvdAssumption DEF DirFirst, Creating
  <2> QED
    BY <2>3, <2>4
<1>6. IniHasDir' /\ ReportedIsThere'
  <2>1. reported \subseteq AvdNames
    BY DEF AvdTypeOK
  <2> QED
    BY <1>1, <1>4, <2>1, AvdAssumption DEF IniHasDir, ReportedIsThere
<1> QED
  BY <1>3, <1>5, <1>6

-----------------------------------------------------------------------------

LEMMA AvdStepInv == AvdInv /\ [AvdNext]_avdVars => AvdInv'
<1> SUFFICES ASSUME AvdInv, [AvdNext]_avdVars PROVE AvdInv'
  OBVIOUS
<1>1. ASSUME NEW c \in AvdCreators, NEW n \in AvdNames, StartCreation(c, n) PROVE AvdInv'
  BY <1>1, StartCreationKeeps
<1>2. ASSUME NEW c \in AvdCreators,
             \/ WriteStaged(c) \/ PublishDir(c) \/ PublishIni(c) \/ CommitCreation(c)
      PROVE AvdInv'
  BY <1>2, WriteStagedKeeps, PublishDirKeeps, PublishIniKeeps, CommitCreationKeeps
<1>3. ASSUME NEW c \in AvdCreators,
             CreationFails(c) \/ UndoIni(c) \/ UndoConfig(c) \/ UndoDir(c) \/ CreatorCrashes(c)
      PROVE AvdInv'
  BY <1>3, CreationFailsKeeps, UndoIniKeeps, UndoConfigKeeps, UndoDirKeeps,
     CreatorCrashesKeeps
<1>4. ASSUME NEW n \in AvdNames, ToolMakesDir(n) \/ ToolMakesIni(n) PROVE AvdInv'
  BY <1>4, ToolMakesDirKeeps, ToolMakesIniKeeps
<1>5. CASE UNCHANGED avdVars
  BY <1>5 DEF avdVars, AvdInv, AvdTypeOK, CreationInv, HasLock, DirFirst, IniHasDir,
              ReportedIsThere, Creating, NewName
<1> QED
  BY <1>1, <1>2, <1>3, <1>4, <1>5 DEF AvdNext

LEMMA AvdInvIsEnough == AvdInv => AvdsAreWhole
<1> SUFFICES ASSUME AvdInv PROVE AvdsAreWhole
  OBVIOUS
<1>1. \A n \in reported : n \in ListedAvds /\ avdIni[n] \in AvdCreators
  BY AvdAssumption DEF AvdInv, AvdTypeOK, IniHasDir, ReportedIsThere, ListedAvds
<1> QED
  BY <1>1 DEF AvdInv, IniHasDir, AvdsAreWhole

LEMMA AvdInvariant == AvdSpec => []AvdInv
  BY AvdInitInv, AvdStepInv, PTL DEF AvdSpec

\* However many creators, names, crashes and rivals there are: an AVD that
\* create_avd makes appears whole, and one it reported stays (core/avd.rs).
THEOREM AvdsWholeCorrect == AvdSpec => []AvdsAreWhole
  BY AvdInvariant, AvdInvIsEnough, PTL

\* The types of the AVDs and of their creations (core/avd.rs).
LEMMA AvdTypeCorrect == AvdSpec => []AvdTypeOK
<1>1. AvdInv => AvdTypeOK
  BY DEF AvdInv
<1> QED
  BY <1>1, AvdInvariant, PTL

-----------------------------------------------------------------------------
(* The inductive invariant of RecoveryLease.                                *)

Making == {"created", "sink", "source"}
LaunchStages == Making \cup {"audio", "engine", "key", "lease", "private"}
RecoveryStages == {"matched", "leased", "recovered", "capture"}
BothModules == {"sink", "source"}
Dirs == [owner : Processes \cup {NoProcess}, key : BOOLEAN, record : BOOLEAN, metadata : BOOLEAN]

RecoveryTypes ==
  /\ up \subseteq Processes /\ past \subseteq Processes /\ up \cap past = {}
  /\ dir \in [Keys -> Dirs]
  /\ lease \in [Keys -> Processes \cup {NoProcess}]
  /\ modules \in [Keys -> SUBSET BothModules]
  /\ jwk \subseteq Keys /\ used \subseteq Keys
  /\ engines \in [Keys -> {"none", "alive", "dead"}]
  /\ auth \in [Processes -> SUBSET Keys] /\ endpoint \in [Processes -> SUBSET Keys]
  /\ cleaning \in [Processes -> SUBSET Keys]
  /\ jobs \in [Processes -> {Idle} \cup [at : LaunchStages \cup RecoveryStages, key : Keys]]
  /\ faults \in 0 .. MaxFaults

\* A process that launches under an identity is alone with it.
LaunchOwns(p, k) ==
  jobs[p].key = k /\ jobs[p].at \in LaunchStages =>
    /\ dir[k].owner = p /\ ~dir[k].record /\ k \in auth[p]
    /\ \A q \in Processes \ {p} : jobs[q].key # k /\ k \notin auth[q] /\ k \notin endpoint[q]
    /\ \A q \in Processes : k \notin cleaning[q]
    /\ jobs[p].at \in {"lease", "private"} => lease[k] = p
    /\ jobs[p].at = "private" => dir[k].key
    /\ jobs[p].at \in {"key", "lease", "private"} => k \in jwk
    /\ jobs[p].at \in Making => k \notin endpoint[p] /\ ~dir[k].metadata
    /\ jobs[p].at = "created" => modules[k] = {}
    /\ jobs[p].at = "sink" => modules[k] = {"sink"}
    /\ jobs[p].at = "source" => modules[k] = BothModules
    /\ jobs[p].at \notin Making => k \in endpoint[p] \/ ~dir[k].metadata

\* Modules a session has to unload are those of an endpoint it has, unless a fault
\* kept it from recovering the endpoint.
ModulesKnown(p, k) ==
  modules[k] = {} \/ k \in endpoint[p] \/ ~dir[k].metadata \/ faults # 0

RecoveryOwns(p, k) ==
  jobs[p].key = k /\ jobs[p].at \in RecoveryStages =>
    /\ engines[k] = "alive" => dir[k].record
    /\ k \in auth[p] <=> jobs[p].at \in {"recovered", "capture"}
    /\ jobs[p].at # "matched" => lease[k] = p
    /\ jobs[p].at = "capture" => ModulesKnown(p, k)

SessionOwns(p, k) ==
  InSession(p, k) =>
    lease[k] = p /\ (engines[k] = "alive" => dir[k].record) /\ ModulesKnown(p, k)

KeyInv(k) ==
  /\ \A p \in Processes : LaunchOwns(p, k) /\ RecoveryOwns(p, k) /\ SessionOwns(p, k)
  /\ dir[k].record => dir[k].key /\ k \in jwk
  /\ dir[k].metadata => modules[k] \in {{}, BothModules}
  /\ k \notin used =>
       /\ dir[k] = NoDir /\ modules[k] = {}
       /\ \A p \in Processes : jobs[p].key # k /\ k \notin auth[p] \cup endpoint[p] \cup cleaning[p]

RecoveryInv ==
  /\ RecoveryTypes
  /\ \A p \in Processes \ up : jobs[p] = Idle
  /\ \A k \in Keys : KeyInv(k)

-----------------------------------------------------------------------------
(* A key no step touches, and a job that goes on or ends.                   *)

JobTypes == [Processes -> {Idle} \cup [at : LaunchStages \cup RecoveryStages, key : Keys]]

KeyStays(k) ==
  /\ dir'[k] = dir[k] /\ lease'[k] = lease[k] /\ modules'[k] = modules[k]
  /\ engines'[k] = engines[k]
  /\ k \in jwk' <=> k \in jwk
  /\ k \in used' <=> k \in used
  /\ faults # 0 => faults' # 0
  /\ \A q \in Processes :
       /\ k \in auth'[q] <=> k \in auth[q]
       /\ k \in endpoint'[q] <=> k \in endpoint[q]
       /\ k \in cleaning'[q] <=> k \in cleaning[q]
       /\ jobs'[q] = jobs[q] \/ (jobs'[q].key # k /\ jobs[q].key # k)

\* What has failed has failed for good.
LEMMA FaultsCount ==
  ASSUME faults \in 0 .. MaxFaults
  PROVE  /\ Fault => faults' \in 0 .. MaxFaults /\ faults' # faults /\ faults' # 0
         /\ \A left : Unload(left) =>
              /\ faults' \in 0 .. MaxFaults /\ (faults # 0 => faults' # 0)
              /\ left # {} => faults' # faults
<1>1. Fault => faults' \in 0 .. MaxFaults /\ faults' # faults /\ faults' # 0
  BY RecoveryAssumption DEF Fault
<1> QED
  BY <1>1 DEF Unload

LEMMA StayingKey ==
  ASSUME NEW k, KeyInv(k), KeyStays(k)
  PROVE  KeyInv(k)'
<1>1. ASSUME NEW p \in Processes
      PROVE  LaunchOwns(p, k)'
  <2>1. LaunchOwns(p, k)
    BY DEF KeyInv
  <2> QED
    BY <2>1 DEF KeyStays, LaunchOwns
<1>2. ASSUME NEW p \in Processes
      PROVE  RecoveryOwns(p, k)'
  <2>1. RecoveryOwns(p, k)
    BY DEF KeyInv
  <2> QED
    BY <2>1 DEF KeyStays, RecoveryOwns, ModulesKnown
<1>3. ASSUME NEW p \in Processes
      PROVE  SessionOwns(p, k)'
  <2>1. SessionOwns(p, k)
    BY DEF KeyInv
  <2> QED
    BY <2>1 DEF KeyStays, SessionOwns, InSession, ModulesKnown
<1> QED
  BY <1>1, <1>2, <1>3 DEF KeyInv, KeyStays

\* A step of process p that touches key k alone keeps the invariant when it
\* keeps what is said of k.
OthersStay(p, k) ==
  /\ up' = up /\ past' = past
  /\ \A l \in Keys \ {k} : KeyStays(l)
  /\ \A q \in Processes \ {p} : jobs'[q] = jobs[q]

LEMMA OneKey ==
  ASSUME RecoveryInv, NEW p \in up, NEW k \in Keys, RecoveryTypes', OthersStay(p, k), KeyInv(k)'
  PROVE  RecoveryInv' /\ OthersStay(p, k)
<1>1. \A l \in Keys : KeyInv(l)'
  BY StayingKey DEF RecoveryInv, OthersStay
<1>2. \A q \in Processes \ up' : jobs'[q] = Idle
  BY DEF RecoveryInv, OthersStay
<1> QED
  BY <1>1, <1>2 DEF RecoveryInv

JobRecordIs(p, at, k) ==
  /\ jobs' \in JobTypes
  /\ jobs'[p].at = at /\ jobs'[p].key = k
  /\ \A q \in Processes \ {p} : jobs'[q] = jobs[q]

LEMMA JobHere ==
  ASSUME NEW p \in Processes, NEW at, NEW k, JobAt(p, at, k)
  PROVE  p \in up /\ jobs[p].at = at /\ jobs[p].key = k
BY DEF JobAt

LEMMA JobMoves ==
  ASSUME jobs \in JobTypes, NEW p \in Processes, NEW k \in Keys, jobs[p].key = k,
         NEW to \in LaunchStages \cup RecoveryStages, JobGoes(p, to)
  PROVE  JobRecordIs(p, to, k)
<1>1. jobs[p] \in [at : LaunchStages \cup RecoveryStages, key : Keys]
  BY RecoveryAssumption DEF JobTypes, Idle
<1> DEFINE j == [jobs[p] EXCEPT !.at = to]
<1>2. j \in [at : LaunchStages \cup RecoveryStages, key : Keys] /\ j.at = to /\ j.key = k
  BY <1>1
<1>3. jobs' = [jobs EXCEPT ![p] = j]
  BY Zenon DEF JobGoes
<1> HIDE DEF j
<1> QED
  BY <1>2, <1>3 DEF JobTypes, JobRecordIs

LEMMA JobEnds ==
  ASSUME jobs \in JobTypes, NEW p \in Processes, Ends(p)
  PROVE  JobRecordIs(p, "none", NoKey)
BY DEF JobTypes, JobRecordIs, Ends, Idle

LEMMA JobStarts ==
  ASSUME jobs \in JobTypes, NEW p \in Processes, NEW k \in Keys,
         NEW at \in LaunchStages \cup RecoveryStages,
         jobs' = [jobs EXCEPT ![p] = [at |-> at, key |-> k]]
  PROVE  JobRecordIs(p, at, k)
<1> DEFINE j == [at |-> at, key |-> k]
<1>1. j \in [at : LaunchStages \cup RecoveryStages, key : Keys] /\ j.at = at /\ j.key = k
  OBVIOUS
<1> HIDE DEF j
<1> QED
  BY <1>1 DEF JobTypes, JobRecordIs, j

-----------------------------------------------------------------------------
(* The steps of a launch.                                                   *)

\* A launch that goes on leaves nothing to show but what it owns.
LEMMA LaunchOn ==
  ASSUME NEW p \in Processes, NEW k, jobs'[p].key = k, jobs'[p].at \in LaunchStages,
         LaunchOwns(p, k)', k \in used', dir'[k].metadata => modules'[k] \in {{}, BothModules}
  PROVE  KeyInv(k)'
<1>1. LaunchStages \cap RecoveryStages = {}
  BY DEF LaunchStages, RecoveryStages, Making
<1>2. ASSUME NEW q \in Processes
      PROVE  LaunchOwns(q, k)' /\ RecoveryOwns(q, k)' /\ SessionOwns(q, k)'
  BY <1>1 DEF LaunchOwns, RecoveryOwns, SessionOwns, InSession
<1> QED
  BY <1>2 DEF KeyInv, LaunchOwns

\* What is known where a launch steps.
LEMMA LaunchKnown ==
  ASSUME RecoveryInv, NEW p \in up, NEW k \in Keys, NEW at \in LaunchStages, JobAt(p, at, k)
  PROVE  /\ p \in Processes /\ RecoveryTypes /\ jobs \in JobTypes
         /\ jobs[p].at = at /\ jobs[p].key = k
         /\ LaunchOwns(p, k) /\ k \in used
         /\ dir[k].metadata => modules[k] \in {{}, BothModules}
         /\ k # NoKey /\ dir[k] \in Dirs
BY RecoveryAssumption DEF JobAt, RecoveryInv, RecoveryTypes, JobTypes, KeyInv

LEMMA MakingKeeps ==
  ASSUME RecoveryInv, NEW p \in up, NEW k \in Keys,
         LoadSink(p, k) \/ LoadSource(p, k) \/ WriteMetadata(p, k) \/ EndpointFails(p, k)
  PROVE  RecoveryInv' /\ OthersStay(p, k)
<1>1. PICK at \in Making : JobAt(p, at, k)
  BY Zenon DEF LoadSink, LoadSource, WriteMetadata, EndpointFails, Making
<1>2. /\ p \in Processes /\ RecoveryTypes /\ jobs \in JobTypes
      /\ jobs[p].at = at /\ jobs[p].key = k /\ LaunchOwns(p, k) /\ k \in used
      /\ dir[k].metadata => modules[k] \in {{}, BothModules}
      /\ k # NoKey /\ dir[k] \in Dirs
  BY <1>1, LaunchKnown DEF LaunchStages
<1>3. CASE LoadSink(p, k)
  <2>1. /\ JobGoes(p, "sink") /\ JobAt(p, "created", k)
        /\ modules' = [modules EXCEPT ![k] = {"sink"}]
        /\ UNCHANGED <<up, past, dir, lease, jwk, engines, auth, endpoint, cleaning, used, faults>>
    BY <1>3, Zenon DEF LoadSink
  <2>2. JobRecordIs(p, "sink", k) /\ at = "created"
    BY <1>2, <2>1, JobMoves, JobHere DEF LaunchStages, Making
  <2>3. RecoveryTypes'
    BY <1>2, <2>1, <2>2 DEF RecoveryTypes, JobRecordIs, JobTypes, BothModules
  <2>4. OthersStay(p, k)
    BY <1>2, <2>1, <2>2 DEF OthersStay, KeyStays, RecoveryTypes, JobRecordIs
  <2>5. LaunchOwns(p, k)'
    BY <1>2, <2>1, <2>2 DEF LaunchOwns, JobRecordIs, RecoveryTypes, LaunchStages, Making
  <2>6. KeyInv(k)'
    BY <1>2, <2>1, <2>2, <2>5, LaunchOn DEF JobRecordIs, LaunchStages, Making, LaunchOwns
  <2> QED
    BY <2>3, <2>4, <2>6, OneKey
<1>4. CASE LoadSource(p, k)
  <2>1. /\ JobGoes(p, "source") /\ JobAt(p, "sink", k)
        /\ modules' = [modules EXCEPT ![k] = @ \cup {"source"}]
        /\ UNCHANGED <<up, past, dir, lease, jwk, engines, auth, endpoint, cleaning, used, faults>>
    BY <1>4, Zenon DEF LoadSource
  <2>2. JobRecordIs(p, "source", k) /\ at = "sink"
    BY <1>2, <2>1, JobMoves, JobHere DEF LaunchStages, Making
  <2>3. RecoveryTypes'
    BY <1>2, <2>1, <2>2 DEF RecoveryTypes, JobRecordIs, JobTypes, BothModules
  <2>4. OthersStay(p, k)
    BY <1>2, <2>1, <2>2 DEF OthersStay, KeyStays, RecoveryTypes, JobRecordIs
  <2>5. modules'[k] = BothModules
    BY <1>2, <2>1, <2>2 DEF LaunchOwns, RecoveryTypes, LaunchStages, Making, BothModules
  <2>6. LaunchOwns(p, k)'
    BY <1>2, <2>1, <2>2, <2>5 DEF LaunchOwns, JobRecordIs, RecoveryTypes, LaunchStages, Making
  <2>7. KeyInv(k)'
    BY <1>2, <2>1, <2>2, <2>5, <2>6, LaunchOn DEF JobRecordIs, LaunchStages, Making
  <2> QED
    BY <2>3, <2>4, <2>7, OneKey
<1>5. CASE WriteMetadata(p, k)
  <2>1. /\ JobGoes(p, "audio") /\ JobAt(p, "source", k)
        /\ dir' = [dir EXCEPT ![k].metadata = TRUE]
        /\ endpoint' = [endpoint EXCEPT ![p] = @ \cup {k}]
        /\ UNCHANGED <<up, past, lease, modules, jwk, engines, auth, cleaning, used, faults>>
    BY <1>5, Zenon DEF WriteMetadata
  <2>2. JobRecordIs(p, "audio", k) /\ at = "source"
    BY <1>2, <2>1, JobMoves, JobHere DEF LaunchStages, Making
  <2> DEFINE d == [dir[k] EXCEPT !.metadata = TRUE]
  <2>3. /\ dir' \in [Keys -> Dirs] /\ \A l \in Keys \ {k} : dir'[l] = dir[l]
        /\ dir'[k].owner = dir[k].owner /\ dir'[k].record = dir[k].record
    <3>1. d \in Dirs /\ d.owner = dir[k].owner /\ d.record = dir[k].record
      BY <1>2 DEF Dirs
    <3>2. dir' = [dir EXCEPT ![k] = d]
      BY <2>1, Zenon
    <3> HIDE DEF d
    <3> QED
      BY <1>2, <3>1, <3>2 DEF RecoveryTypes
  <2>4. RecoveryTypes'
    <3>1. /\ UNCHANGED <<up, past, lease, modules, jwk, engines, auth, cleaning, used, faults>>
          /\ endpoint' \in [Processes -> SUBSET Keys]
      BY <1>2, <2>1 DEF RecoveryTypes
    <3> QED
      BY <1>2, <2>2, <2>3, <3>1 DEF RecoveryTypes, JobRecordIs, JobTypes
  <2>5. OthersStay(p, k)
    BY <1>2, <2>1, <2>2, <2>3 DEF OthersStay, KeyStays, RecoveryTypes, JobRecordIs
  <2>6. LaunchOwns(p, k)'
    BY <1>2, <2>1, <2>2, <2>3 DEF LaunchOwns, JobRecordIs, RecoveryTypes, LaunchStages, Making
  <2>7. modules'[k] = BothModules
    BY <1>2, <2>1, <2>2 DEF LaunchOwns, LaunchStages, Making
  <2>8. KeyInv(k)'
    BY <1>2, <2>1, <2>2, <2>6, <2>7, LaunchOn DEF JobRecordIs, LaunchStages
  <2> QED
    BY <2>4, <2>5, <2>8, OneKey
<1>6. CASE EndpointFails(p, k)
  <2>1. PICK left \in SUBSET modules[k] :
          /\ JobGoes(p, "audio") /\ modules' = [modules EXCEPT ![k] = left] /\ Unload(left)
          /\ UNCHANGED <<up, past, dir, lease, jwk, engines, auth, endpoint, cleaning, used>>
    BY <1>6, Zenon DEF EndpointFails
  <2> faults' \in 0 .. MaxFaults /\ (faults # 0 => faults' # 0)
    BY <1>2, <2>1, FaultsCount DEF RecoveryTypes
  <2> ~dir[k].metadata
    BY <1>2 DEF LaunchOwns, LaunchStages
  <2>2. JobRecordIs(p, "audio", k)
    BY <1>2, <2>1, JobMoves DEF LaunchStages
  <2>3. RecoveryTypes'
    BY <1>2, <2>1, <2>2 DEF RecoveryTypes, JobRecordIs, JobTypes
  <2>4. OthersStay(p, k)
    BY <1>2, <2>1, <2>2 DEF OthersStay, KeyStays, RecoveryTypes, JobRecordIs
  <2>5. LaunchOwns(p, k)'
    BY <1>2, <2>1, <2>2 DEF LaunchOwns, JobRecordIs, RecoveryTypes, LaunchStages, Making
  <2>6. KeyInv(k)'
    BY <1>2, <2>1, <2>2, <2>5, LaunchOn DEF JobRecordIs, LaunchStages
  <2> QED
    BY <2>3, <2>4, <2>6, OneKey
<1> QED
  BY <1>3, <1>4, <1>5, <1>6

LEMMA MetadataWritten ==
  ASSUME dir \in [Keys -> Dirs], NEW k \in Keys, NEW b \in BOOLEAN,
         dir' = [dir EXCEPT ![k].metadata = b]
  PROVE  /\ dir' \in [Keys -> Dirs] /\ \A l \in Keys \ {k} : dir'[l] = dir[l]
         /\ dir'[k].metadata = b /\ dir'[k].owner = dir[k].owner
         /\ dir'[k].key = dir[k].key /\ dir'[k].record = dir[k].record
<1> DEFINE d == [dir[k] EXCEPT !.metadata = b]
<1>1. /\ d \in Dirs /\ d.metadata = b /\ d.owner = dir[k].owner
      /\ d.key = dir[k].key /\ d.record = dir[k].record
  <2>1. dir[k] \in Dirs
    OBVIOUS
  <2> QED
    BY <2>1 DEF Dirs
<1>2. dir' = [dir EXCEPT ![k] = d]
  BY Zenon
<1> HIDE DEF d
<1> QED
  BY <1>1, <1>2

LEMMA KeyWritten ==
  ASSUME dir \in [Keys -> Dirs], NEW k \in Keys, dir' = [dir EXCEPT ![k].key = TRUE]
  PROVE  /\ dir' \in [Keys -> Dirs] /\ \A l \in Keys \ {k} : dir'[l] = dir[l]
         /\ dir'[k].key /\ dir'[k].owner = dir[k].owner
         /\ dir'[k].metadata = dir[k].metadata /\ dir'[k].record = dir[k].record
<1> DEFINE d == [dir[k] EXCEPT !.key = TRUE]
<1>1. /\ d \in Dirs /\ d.key /\ d.owner = dir[k].owner
      /\ d.metadata = dir[k].metadata /\ d.record = dir[k].record
  <2>1. dir[k] \in Dirs
    OBVIOUS
  <2> QED
    BY <2>1 DEF Dirs
<1>2. dir' = [dir EXCEPT ![k] = d]
  BY Zenon
<1> HIDE DEF d
<1> QED
  BY <1>1, <1>2

LEMMA RecordWritten ==
  ASSUME dir \in [Keys -> Dirs], NEW k \in Keys, dir' = [dir EXCEPT ![k].record = TRUE]
  PROVE  /\ dir' \in [Keys -> Dirs] /\ \A l \in Keys \ {k} : dir'[l] = dir[l]
         /\ dir'[k].record /\ dir'[k].owner = dir[k].owner
         /\ dir'[k].metadata = dir[k].metadata /\ dir'[k].key = dir[k].key
<1> DEFINE d == [dir[k] EXCEPT !.record = TRUE]
<1>1. /\ d \in Dirs /\ d.record /\ d.owner = dir[k].owner
      /\ d.metadata = dir[k].metadata /\ d.key = dir[k].key
  <2>1. dir[k] \in Dirs
    OBVIOUS
  <2> QED
    BY <2>1 DEF Dirs
<1>2. dir' = [dir EXCEPT ![k] = d]
  BY Zenon
<1> HIDE DEF d
<1> QED
  BY <1>1, <1>2

LEMMA EngineLaunchKeeps ==
  ASSUME RecoveryInv, NEW p \in up, NEW k \in Keys,
         EngineStarts(p, k) \/ InstallKey(p, k) \/ TakeLease(p, k) \/ WritePrivateKey(p, k)
  PROVE  RecoveryInv' /\ OthersStay(p, k)
<1>1. PICK at \in {"audio", "engine", "key", "lease"} : JobAt(p, at, k)
  BY Zenon DEF EngineStarts, InstallKey, TakeLease, WritePrivateKey
<1>2. /\ p \in Processes /\ RecoveryTypes /\ jobs \in JobTypes
      /\ jobs[p].at = at /\ jobs[p].key = k /\ LaunchOwns(p, k) /\ k \in used
      /\ dir[k].metadata => modules[k] \in {{}, BothModules}
      /\ k # NoKey /\ dir[k] \in Dirs
  BY <1>1, LaunchKnown DEF LaunchStages
<1>3. CASE EngineStarts(p, k)
  <2>1. /\ JobGoes(p, "engine") /\ JobAt(p, "audio", k)
        /\ engines' = [engines EXCEPT ![k] = "alive"]
        /\ UNCHANGED <<up, past, dir, lease, modules, jwk, auth, endpoint, cleaning, used, faults>>
    BY <1>3, Zenon DEF EngineStarts
  <2>2. JobRecordIs(p, "engine", k) /\ at = "audio"
    BY <1>2, <2>1, JobMoves, JobHere DEF LaunchStages, Making
  <2>3. RecoveryTypes'
    BY <1>2, <2>1, <2>2 DEF RecoveryTypes, JobRecordIs, JobTypes
  <2>4. OthersStay(p, k)
    BY <1>2, <2>1, <2>2 DEF OthersStay, KeyStays, RecoveryTypes, JobRecordIs
  <2>5. LaunchOwns(p, k)'
    BY <1>2, <2>1, <2>2 DEF LaunchOwns, JobRecordIs, RecoveryTypes, LaunchStages, Making
  <2>6. KeyInv(k)'
    BY <1>2, <2>1, <2>2, <2>5, LaunchOn DEF JobRecordIs, LaunchStages
  <2> QED
    BY <2>3, <2>4, <2>6, OneKey
<1>4. CASE InstallKey(p, k)
  <2>1. /\ JobGoes(p, "key") /\ JobAt(p, "engine", k) /\ jwk' = jwk \cup {k}
        /\ UNCHANGED <<up, past, dir, lease, modules, engines, auth, endpoint, cleaning, used, faults>>
    BY <1>4, Zenon DEF InstallKey
  <2>2. JobRecordIs(p, "key", k) /\ at = "engine"
    BY <1>2, <2>1, JobMoves, JobHere DEF LaunchStages, Making
  <2>3. RecoveryTypes'
    BY <1>2, <2>1, <2>2 DEF RecoveryTypes, JobRecordIs, JobTypes
  <2>4. OthersStay(p, k)
    BY <1>2, <2>1, <2>2 DEF OthersStay, KeyStays, RecoveryTypes, JobRecordIs
  <2>5. LaunchOwns(p, k)'
    BY <1>2, <2>1, <2>2 DEF LaunchOwns, JobRecordIs, RecoveryTypes, LaunchStages, Making
  <2>6. KeyInv(k)'
    BY <1>2, <2>1, <2>2, <2>5, LaunchOn DEF JobRecordIs, LaunchStages
  <2> QED
    BY <2>3, <2>4, <2>6, OneKey
<1>5. CASE TakeLease(p, k)
  <2>1. /\ JobGoes(p, "lease") /\ JobAt(p, "key", k)
        /\ lease' = [lease EXCEPT ![k] = p]
        /\ UNCHANGED <<up, past, dir, modules, jwk, engines, auth, endpoint, cleaning, used, faults>>
    BY <1>5, Zenon DEF TakeLease
  <2>2. JobRecordIs(p, "lease", k) /\ at = "key"
    BY <1>2, <2>1, JobMoves, JobHere DEF LaunchStages, Making
  <2>3. RecoveryTypes'
    BY <1>2, <2>1, <2>2 DEF RecoveryTypes, JobRecordIs, JobTypes
  <2>4. OthersStay(p, k)
    BY <1>2, <2>1, <2>2 DEF OthersStay, KeyStays, RecoveryTypes, JobRecordIs
  <2>5. LaunchOwns(p, k)'
    BY <1>2, <2>1, <2>2 DEF LaunchOwns, JobRecordIs, RecoveryTypes, LaunchStages, Making
  <2>6. KeyInv(k)'
    BY <1>2, <2>1, <2>2, <2>5, LaunchOn DEF JobRecordIs, LaunchStages
  <2> QED
    BY <2>3, <2>4, <2>6, OneKey
<1>6. CASE WritePrivateKey(p, k)
  <2>1. /\ JobGoes(p, "private") /\ JobAt(p, "lease", k)
        /\ dir' = [dir EXCEPT ![k].key = TRUE]
        /\ UNCHANGED <<up, past, lease, modules, jwk, engines, auth, endpoint, cleaning, used, faults>>
    BY <1>6, Zenon DEF WritePrivateKey
  <2>2. JobRecordIs(p, "private", k) /\ at = "lease"
    BY <1>2, <2>1, JobMoves, JobHere DEF LaunchStages, Making
  <2>3. /\ dir' \in [Keys -> Dirs] /\ \A l \in Keys \ {k} : dir'[l] = dir[l]
        /\ dir'[k].key /\ dir'[k].owner = dir[k].owner
        /\ dir'[k].metadata = dir[k].metadata /\ dir'[k].record = dir[k].record
    BY <1>2, <2>1, KeyWritten DEF RecoveryTypes
  <2>4. UNCHANGED <<up, past, lease, modules, jwk, engines, auth, endpoint, cleaning, used, faults>>
    BY <2>1
  <2>5. RecoveryTypes'
    BY <1>2, <2>2, <2>3, <2>4 DEF RecoveryTypes, JobRecordIs, JobTypes
  <2>6. OthersStay(p, k)
    BY <1>2, <2>2, <2>3, <2>4 DEF OthersStay, KeyStays, RecoveryTypes, JobRecordIs
  <2>7. LaunchOwns(p, k)'
    BY <1>2, <2>2, <2>3, <2>4 DEF LaunchOwns, JobRecordIs, RecoveryTypes, LaunchStages, Making
  <2>8. KeyInv(k)'
    BY <1>2, <2>2, <2>3, <2>4, <2>7, LaunchOn DEF JobRecordIs, LaunchStages
  <2> QED
    BY <2>5, <2>6, <2>8, OneKey
<1> QED
  BY <1>3, <1>4, <1>5, <1>6

-----------------------------------------------------------------------------
(* A launch that completes, and what ends with an identity.                 *)

LEMMA NoDirIs ==
  /\ NoDir \in Dirs /\ NoDir.owner = NoProcess
  /\ ~NoDir.key /\ ~NoDir.record /\ ~NoDir.metadata
BY DEF NoDir, Dirs

LEMMA WriteRecordKeeps ==
  ASSUME RecoveryInv, NEW p \in up, NEW k \in Keys, WriteRecord(p, k)
  PROVE  RecoveryInv' /\ OthersStay(p, k)
<1>1. /\ JobAt(p, "private", k) /\ Ends(p)
      /\ dir' = [dir EXCEPT ![k].record = TRUE]
      /\ UNCHANGED <<up, past, lease, modules, jwk, engines, auth, endpoint, cleaning, used, faults>>
  BY Zenon DEF WriteRecord
<1>2. /\ p \in Processes /\ RecoveryTypes /\ jobs \in JobTypes
      /\ jobs[p].at = "private" /\ jobs[p].key = k /\ LaunchOwns(p, k) /\ k \in used
      /\ dir[k].metadata => modules[k] \in {{}, BothModules}
      /\ k # NoKey /\ dir[k] \in Dirs
  BY <1>1, LaunchKnown DEF LaunchStages
<1>3. JobRecordIs(p, "none", NoKey)
  BY <1>1, <1>2, JobEnds
<1>4. /\ dir' \in [Keys -> Dirs] /\ \A l \in Keys \ {k} : dir'[l] = dir[l]
      /\ dir'[k].record /\ dir'[k].owner = dir[k].owner
      /\ dir'[k].metadata = dir[k].metadata /\ dir'[k].key = dir[k].key
  BY <1>1, <1>2, RecordWritten DEF RecoveryTypes
<1>5. UNCHANGED <<up, past, lease, modules, jwk, engines, auth, endpoint, cleaning, used, faults>>
  BY <1>1
<1>6. RecoveryTypes'
  BY <1>2, <1>3, <1>4, <1>5 DEF RecoveryTypes, JobRecordIs, JobTypes
<1>7. OthersStay(p, k)
  BY RecoveryAssumption, <1>2, <1>3, <1>4, <1>5 DEF OthersStay, KeyStays, RecoveryTypes, JobRecordIs
<1>8. /\ k \in auth[p] /\ lease[k] = p /\ dir[k].key /\ k \in jwk
      /\ k \in endpoint[p] \/ ~dir[k].metadata
      /\ \A q \in Processes \ {p} : jobs[q].key # k /\ k \notin auth[q]
  BY <1>2 DEF LaunchOwns, LaunchStages, Making
<1>9. ASSUME NEW q \in Processes
      PROVE  LaunchOwns(q, k)' /\ RecoveryOwns(q, k)' /\ SessionOwns(q, k)'
  <2>1. jobs'[q].key # k
    BY <1>2, <1>3, <1>8 DEF JobRecordIs
  <2> QED
    BY <1>4, <1>5, <1>8, <2>1 DEF LaunchOwns, RecoveryOwns, SessionOwns, InSession, ModulesKnown
<1>10. KeyInv(k)'
  BY <1>2, <1>4, <1>5, <1>8, <1>9 DEF KeyInv
<1> QED
  BY <1>6, <1>7, <1>10, OneKey

\* What is dropped is nobody else's.
LEMMA DroppedKeeps ==
  ASSUME RecoveryInv, NEW p \in up, NEW k \in Keys, NEW e \in {"none", "dead"},
         Dropped(p, k, e), UNCHANGED <<up, past, modules, used, faults>>,
         jobs' \in JobTypes, \A q \in Processes \ {p} : jobs'[q] = jobs[q],
         jobs'[p].key # k,
         \A l \in Keys \ {k} : jobs'[p] = jobs[p] \/ (jobs'[p].key # l /\ jobs[p].key # l),
         \A q \in Processes \ {p} :
           \/ jobs[q].key # k /\ k \notin auth[q]
           \/ lease[k] # q /\ ~(jobs[q].key = k /\ jobs[q].at \in LaunchStages),
         k \in used
  PROVE  RecoveryInv' /\ OthersStay(p, k)
<1>1. /\ jwk' = jwk \ {k} /\ dir' = [dir EXCEPT ![k] = NoDir]
      /\ lease' = [lease EXCEPT ![k] = IF @ = p THEN NoProcess ELSE @]
      /\ auth' = [auth EXCEPT ![p] = @ \ {k}]
      /\ endpoint' = [endpoint EXCEPT ![p] = @ \ {k}]
      /\ cleaning' = IF k \in endpoint[p] THEN [cleaning EXCEPT ![p] = @ \cup {k}] ELSE cleaning
      /\ engines' = [engines EXCEPT ![k] = e]
  BY Zenon DEF Dropped
<1>2. /\ p \in Processes /\ RecoveryTypes /\ KeyInv(k)
  BY DEF RecoveryInv, RecoveryTypes
<1>3. /\ dir' \in [Keys -> Dirs] /\ \A l \in Keys \ {k} : dir'[l] = dir[l]
      /\ ~dir'[k].record /\ ~dir'[k].metadata
  BY <1>1, <1>2, NoDirIs DEF RecoveryTypes
<1>4. /\ lease' \in [Keys -> Processes \cup {NoProcess}]
      /\ \A l \in Keys \ {k} : lease'[l] = lease[l]
      /\ lease[k] # p => lease'[k] = lease[k]
  BY <1>1, <1>2 DEF RecoveryTypes
<1>5. /\ auth' \in [Processes -> SUBSET Keys] /\ endpoint' \in [Processes -> SUBSET Keys]
      /\ cleaning' \in [Processes -> SUBSET Keys] /\ k \notin auth'[p]
      /\ \A q \in Processes, l \in Keys : l # k \/ q # p =>
           /\ l \in auth'[q] <=> l \in auth[q]
           /\ l \in endpoint'[q] <=> l \in endpoint[q]
           /\ l \in cleaning'[q] <=> l \in cleaning[q]
  BY <1>1, <1>2 DEF RecoveryTypes
<1>6. /\ engines' \in [Keys -> {"none", "alive", "dead"}] /\ engines'[k] # "alive"
      /\ \A l \in Keys \ {k} : engines'[l] = engines[l]
  BY <1>1, <1>2 DEF RecoveryTypes
<1>7. RecoveryTypes'
  BY <1>1, <1>2, <1>3, <1>4, <1>5, <1>6 DEF RecoveryTypes, JobTypes
<1>8. OthersStay(p, k)
  BY <1>1, <1>2, <1>3, <1>4, <1>5, <1>6 DEF OthersStay, KeyStays
<1>9. ASSUME NEW q \in Processes
      PROVE  LaunchOwns(q, k)' /\ RecoveryOwns(q, k)' /\ SessionOwns(q, k)'
  <2>1. CASE q = p
    BY <1>5, <2>1 DEF LaunchOwns, RecoveryOwns, SessionOwns, InSession
  <2>2. CASE q # p /\ jobs[q].key # k /\ k \notin auth[q]
    BY <1>5, <2>2 DEF LaunchOwns, RecoveryOwns, SessionOwns, InSession
  <2>3. CASE q # p /\ lease[k] # q /\ ~(jobs[q].key = k /\ jobs[q].at \in LaunchStages)
    <3>1. RecoveryOwns(q, k) /\ SessionOwns(q, k)
      BY <1>2 DEF KeyInv
    <3>2. jobs'[q] = jobs[q] /\ (k \in auth'[q] <=> k \in auth[q])
      BY <1>5, <2>3
    <3>3. LaunchOwns(q, k)'
      BY <2>3, <3>2 DEF LaunchOwns
    <3>4. RecoveryOwns(q, k)'
      BY <1>3, <1>6, <2>3, <3>1, <3>2 DEF RecoveryOwns, ModulesKnown
    <3>5. SessionOwns(q, k)'
      BY <1>3, <1>6, <2>3, <3>1, <3>2 DEF SessionOwns, InSession
    <3> QED
      BY <3>3, <3>4, <3>5
  <2> QED
    BY <2>1, <2>2, <2>3
<1>10. KeyInv(k)'
  BY <1>3, <1>9 DEF KeyInv
<1> QED
  BY <1>7, <1>8, <1>10, OneKey

LEMMA LaunchFailsKeeps ==
  ASSUME RecoveryInv, NEW p \in up, NEW k \in Keys, LaunchFails(p, k)
  PROVE  RecoveryInv' /\ OthersStay(p, k)
<1>1. PICK at \in {"audio", "engine", "key", "lease", "private"} : JobAt(p, at, k)
  BY Zenon DEF LaunchFails
<1>2. /\ p \in Processes /\ jobs \in JobTypes /\ jobs[p].at = at
      /\ jobs[p].key = k /\ LaunchOwns(p, k) /\ k \in used /\ k # NoKey
  BY <1>1, LaunchKnown DEF LaunchStages
<1>3. /\ Ends(p) /\ Dropped(p, k, IF engines[k] = "none" THEN "none" ELSE "dead")
      /\ UNCHANGED <<up, past, modules, used, faults>>
  BY Zenon DEF LaunchFails
<1>4. JobRecordIs(p, "none", NoKey)
  BY <1>2, <1>3, JobEnds
<1>5. \A q \in Processes \ {p} : jobs[q].key # k /\ k \notin auth[q]
  BY <1>2 DEF LaunchOwns, LaunchStages
<1> DEFINE e == IF engines[k] = "none" THEN "none" ELSE "dead"
<1>6. e \in {"none", "dead"}
  OBVIOUS
<1>7. Dropped(p, k, e)
  BY <1>3
<1> HIDE DEF e
<1> QED
  BY RecoveryAssumption, <1>2, <1>3, <1>4, <1>5, <1>6, <1>7, DroppedKeeps DEF JobRecordIs

LEMMA SessionEndsKeeps ==
  ASSUME RecoveryInv, NEW p \in up, NEW k \in Keys, SessionEnds(p, k)
  PROVE  RecoveryInv' /\ OthersStay(p, k)
<1>1. /\ k \in auth[p] /\ jobs[p].key # k /\ Dropped(p, k, "dead")
      /\ UNCHANGED <<up, past, modules, jobs, used, faults>>
  BY Zenon DEF SessionEnds
<1>2. p \in Processes /\ jobs \in JobTypes /\ KeyInv(k) /\ k \in used
  BY <1>1 DEF RecoveryInv, RecoveryTypes, JobTypes, KeyInv
<1>3. lease[k] = p
  BY <1>1, <1>2 DEF KeyInv, SessionOwns, InSession
<1>4. \A q \in Processes \ {p} : ~(jobs[q].key = k /\ jobs[q].at \in LaunchStages)
  BY <1>1, <1>2 DEF KeyInv, LaunchOwns
<1> QED
  BY <1>1, <1>2, <1>3, <1>4, DroppedKeeps

\* An endpoint that is cleaned has left its launch behind.
LEMMA CleanEndpointKeeps ==
  ASSUME RecoveryInv, NEW p \in up, NEW k \in Keys, CleanEndpoint(p, k)
  PROVE  RecoveryInv' /\ OthersStay(p, k)
<1>1. PICK left \in SUBSET modules[k] :
        /\ k \in cleaning[p] /\ modules' = [modules EXCEPT ![k] = left] /\ Unload(left)
        /\ dir' = [dir EXCEPT ![k].metadata = FALSE]
        /\ cleaning' = [cleaning EXCEPT ![p] = @ \ {k}]
        /\ UNCHANGED <<up, past, lease, jwk, engines, auth, endpoint, jobs, used>>
  BY Zenon DEF CleanEndpoint
<1>2. p \in Processes /\ RecoveryTypes /\ KeyInv(k) /\ k \in used
  BY <1>1 DEF RecoveryInv, RecoveryTypes, KeyInv
<1>3. /\ dir' \in [Keys -> Dirs] /\ \A l \in Keys \ {k} : dir'[l] = dir[l]
      /\ ~dir'[k].metadata /\ dir'[k].owner = dir[k].owner
      /\ dir'[k].key = dir[k].key /\ dir'[k].record = dir[k].record
  BY <1>1, <1>2, MetadataWritten DEF RecoveryTypes
<1>4. /\ UNCHANGED <<up, past, lease, jwk, engines, auth, endpoint, jobs, used>>
      /\ faults' \in 0 .. MaxFaults /\ (faults # 0 => faults' # 0)
  BY <1>1, <1>2, FaultsCount DEF RecoveryTypes
<1>5. RecoveryTypes'
  BY <1>1, <1>2, <1>3, <1>4 DEF RecoveryTypes
<1>6. OthersStay(p, k)
  BY <1>1, <1>2, <1>3, <1>4 DEF OthersStay, KeyStays, RecoveryTypes
<1>7. ASSUME NEW q \in Processes
      PROVE  LaunchOwns(q, k)' /\ RecoveryOwns(q, k)' /\ SessionOwns(q, k)'
  <2>1. LaunchOwns(q, k) /\ RecoveryOwns(q, k) /\ SessionOwns(q, k)
    BY <1>2 DEF KeyInv
  <2>2. ~(jobs[q].key = k /\ jobs[q].at \in LaunchStages)
    BY <1>1, <1>2, <2>1 DEF LaunchOwns
  <2>3. LaunchOwns(q, k)'
    BY <1>4, <2>2 DEF LaunchOwns
  <2>4. RecoveryOwns(q, k)' /\ SessionOwns(q, k)'
    BY <1>3, <1>4, <1>5, <2>1 DEF RecoveryOwns, SessionOwns, InSession, ModulesKnown
  <2> QED
    BY <2>3, <2>4
<1>8. KeyInv(k)'
  BY <1>2, <1>3, <1>4, <1>7 DEF KeyInv
<1> QED
  BY <1>5, <1>6, <1>8, OneKey

-----------------------------------------------------------------------------
(* The steps of a recovery.                                                 *)

LEMMA RecordMatchesKeeps ==
  ASSUME RecoveryInv, NEW p \in up, NEW k \in Keys, RecordMatches(p, k)
  PROVE  RecoveryInv' /\ OthersStay(p, k)
<1>1. /\ jobs[p] = Idle /\ dir[k].record /\ k \notin auth[p]
      /\ jobs' = [jobs EXCEPT ![p] = [at |-> "matched", key |-> k]]
      /\ UNCHANGED <<up, past, dir, lease, modules, jwk, engines, auth, endpoint, cleaning, used, faults>>
  BY Zenon DEF RecordMatches
<1>2. p \in Processes /\ RecoveryTypes /\ jobs \in JobTypes /\ KeyInv(k) /\ k # NoKey
  BY RecoveryAssumption DEF RecoveryInv, RecoveryTypes, JobTypes
<1>3. JobRecordIs(p, "matched", k)
  BY <1>1, <1>2, JobStarts DEF RecoveryStages
<1>4. UNCHANGED <<up, past, dir, lease, modules, jwk, engines, auth, endpoint, cleaning, used, faults>>
  BY <1>1
<1>5. RecoveryTypes'
  BY <1>2, <1>3, <1>4 DEF RecoveryTypes, JobRecordIs, JobTypes
<1>6. OthersStay(p, k)
  BY RecoveryAssumption, <1>1, <1>2, <1>3, <1>4 DEF OthersStay, KeyStays, JobRecordIs, Idle
<1>7. k \in used
  BY <1>1, <1>2, NoDirIs DEF KeyInv
<1>8. ASSUME NEW q \in Processes
      PROVE  LaunchOwns(q, k)' /\ RecoveryOwns(q, k)' /\ SessionOwns(q, k)'
  <2>1. LaunchOwns(q, k) /\ RecoveryOwns(q, k) /\ SessionOwns(q, k)
    BY <1>2 DEF KeyInv
  <2>2. CASE q = p
    BY <1>1, <1>3, <1>4, <2>2 DEF LaunchOwns, RecoveryOwns, SessionOwns, InSession, JobRecordIs,
       LaunchStages, Making
  <2>3. CASE q # p
    <3>1. jobs'[q] = jobs[q]
      BY <1>3, <2>3 DEF JobRecordIs
    <3>2. LaunchOwns(q, k)'
      BY <1>1, <1>4, <2>1, <3>1 DEF LaunchOwns
    <3>3. RecoveryOwns(q, k)' /\ SessionOwns(q, k)'
      BY <1>4, <2>1, <3>1 DEF RecoveryOwns, SessionOwns, InSession, ModulesKnown
    <3> QED
      BY <3>2, <3>3
  <2> QED
    BY <2>2, <2>3
<1>9. KeyInv(k)'
  BY <1>2, <1>4, <1>7, <1>8 DEF KeyInv
<1> QED
  BY <1>5, <1>6, <1>9, OneKey

\* What is known where a recovery steps.
LEMMA RecoveryKnown ==
  ASSUME RecoveryInv, NEW p \in up, NEW k \in Keys, NEW at \in RecoveryStages, JobAt(p, at, k)
  PROVE  /\ p \in Processes /\ RecoveryTypes /\ jobs \in JobTypes
         /\ jobs[p].at = at /\ jobs[p].key = k
         /\ KeyInv(k) /\ RecoveryOwns(p, k) /\ k \in used /\ k # NoKey
         /\ \A q \in Processes : ~(jobs[q].key = k /\ jobs[q].at \in LaunchStages)
<1>1. p \in Processes /\ RecoveryTypes /\ jobs \in JobTypes /\ KeyInv(k) /\ k # NoKey
  BY RecoveryAssumption DEF RecoveryInv, RecoveryTypes, JobTypes
<1>2. jobs[p].at = at /\ jobs[p].key = k
  BY JobHere, <1>1
<1>3. at \notin LaunchStages
  BY DEF LaunchStages, RecoveryStages, Making
<1>4. \A q \in Processes : ~(jobs[q].key = k /\ jobs[q].at \in LaunchStages)
  BY <1>1, <1>2, <1>3 DEF KeyInv, LaunchOwns
<1> QED
  BY <1>1, <1>2, <1>4 DEF KeyInv

\* A recovery's step keeps what is said of the key when the one of the process
\* holds and the other processes keep theirs.
LEMMA RecoverySteps ==
  ASSUME RecoveryInv, NEW p \in up, NEW k \in Keys, NEW at \in RecoveryStages, JobAt(p, at, k),
         NEW to \in RecoveryStages \cup {"none"}, NEW key \in {k, NoKey}, JobRecordIs(p, to, key),
         UNCHANGED <<up, past, dir, modules, jwk, engines, used>>, faults # 0 => faults' # 0,
         RecoveryTypes', \A l \in Keys \ {k} : lease'[l] = lease[l],
         \A q \in Processes, l \in Keys : q # p \/ l # k =>
           /\ l \in auth'[q] <=> l \in auth[q]
           /\ l \in endpoint'[q] <=> l \in endpoint[q]
           /\ l \in cleaning'[q] <=> l \in cleaning[q],
         \A q \in Processes \ {p} : lease'[k] = lease[k] \/ lease[k] # q,
         RecoveryOwns(p, k)', SessionOwns(p, k)'
  PROVE  RecoveryInv' /\ OthersStay(p, k)
<1>1. /\ p \in Processes /\ RecoveryTypes /\ jobs \in JobTypes
      /\ jobs[p].at = at /\ jobs[p].key = k
      /\ KeyInv(k) /\ RecoveryOwns(p, k) /\ k \in used /\ k # NoKey
      /\ \A q \in Processes : ~(jobs[q].key = k /\ jobs[q].at \in LaunchStages)
  BY RecoveryKnown
<1>2. to \notin LaunchStages
  BY DEF LaunchStages, RecoveryStages, Making
<1>3. OthersStay(p, k)
  BY RecoveryAssumption, <1>1 DEF OthersStay, KeyStays, JobRecordIs
<1>4. ASSUME NEW q \in Processes
      PROVE  LaunchOwns(q, k)' /\ RecoveryOwns(q, k)' /\ SessionOwns(q, k)'
  <2>1. RecoveryOwns(q, k) /\ SessionOwns(q, k)
    BY <1>1 DEF KeyInv
  <2>2. LaunchOwns(q, k)'
    BY <1>1, <1>2 DEF LaunchOwns, JobRecordIs
  <2>3. CASE q = p
    BY <2>2, <2>3
  <2>4. CASE q # p
    <3>1. jobs'[q] = jobs[q]
      BY <2>4 DEF JobRecordIs
    <3>2. RecoveryOwns(q, k)' /\ SessionOwns(q, k)'
      BY <2>1, <2>4, <3>1 DEF RecoveryOwns, SessionOwns, InSession, ModulesKnown
    <3> QED
      BY <2>2, <3>2
  <2> QED
    BY <2>3, <2>4
<1>5. KeyInv(k)'
  BY <1>1, <1>4 DEF KeyInv
<1> QED
  BY <1>3, <1>5, OneKey

LEMMA RecoverLeaseKeeps ==
  ASSUME RecoveryInv, NEW p \in up, NEW k \in Keys, RecoverLease(p, k)
  PROVE  RecoveryInv' /\ OthersStay(p, k)
<1>1. /\ JobAt(p, "matched", k)
      /\ UNCHANGED <<up, past, dir, modules, jwk, engines, auth, endpoint, cleaning, used, faults>>
      /\ \/ lease[k] = NoProcess /\ lease' = [lease EXCEPT ![k] = p] /\ JobGoes(p, "leased")
         \/ Ends(p) /\ UNCHANGED lease
  BY Zenon DEF RecoverLease
<1>2. /\ p \in Processes /\ RecoveryTypes /\ jobs \in JobTypes
      /\ jobs[p].at = "matched" /\ jobs[p].key = k
      /\ KeyInv(k) /\ RecoveryOwns(p, k) /\ k # NoKey
  BY <1>1, RecoveryKnown DEF RecoveryStages
<1>3. k \notin auth[p]
  BY <1>2 DEF RecoveryOwns, RecoveryStages
<1>4. CASE lease[k] = NoProcess /\ lease' = [lease EXCEPT ![k] = p] /\ JobGoes(p, "leased")
  <2>1. JobRecordIs(p, "leased", k)
    BY <1>2, <1>4, JobMoves DEF RecoveryStages
  <2>2. RecoveryTypes'
    BY <1>1, <1>2, <1>4, <2>1 DEF RecoveryTypes, JobRecordIs, JobTypes
  <2>3. lease'[k] = p /\ \A l \in Keys \ {k} : lease'[l] = lease[l]
    BY <1>2, <1>4 DEF RecoveryTypes
  <2>4. RecoveryOwns(p, k)' /\ SessionOwns(p, k)'
    BY <1>1, <1>2, <1>3, <2>1, <2>3
       DEF RecoveryOwns, SessionOwns, InSession, JobRecordIs, RecoveryStages
  <2>5. \A q \in Processes \ {p} : lease[k] # q
    BY RecoveryAssumption, <1>4
  <2> QED
    BY <1>1, <1>2, <2>1, <2>2, <2>3, <2>4, <2>5, RecoverySteps DEF RecoveryStages
<1>5. CASE Ends(p) /\ UNCHANGED lease
  <2>1. JobRecordIs(p, "none", NoKey)
    BY <1>2, <1>5, JobEnds
  <2>2. RecoveryTypes'
    BY <1>1, <1>2, <1>5, <2>1 DEF RecoveryTypes, JobRecordIs, JobTypes
  <2>3. RecoveryOwns(p, k)' /\ SessionOwns(p, k)'
    BY <1>1, <1>2, <1>3, <2>1
       DEF RecoveryOwns, SessionOwns, InSession, JobRecordIs, RecoveryStages
  <2> QED
    BY <1>1, <1>2, <1>5, <2>1, <2>2, <2>3, RecoverySteps DEF RecoveryStages
<1> QED
  BY <1>1, <1>4, <1>5

LEMMA RecoverAuthKeeps ==
  ASSUME RecoveryInv, NEW p \in up, NEW k \in Keys, RecoverAuth(p, k)
  PROVE  RecoveryInv' /\ OthersStay(p, k)
<1>1. /\ JobAt(p, "leased", k)
      /\ UNCHANGED <<up, past, dir, modules, jwk, engines, endpoint, cleaning, used, faults>>
      /\ \/ auth' = [auth EXCEPT ![p] = @ \cup {k}] /\ JobGoes(p, "recovered") /\ UNCHANGED lease
         \/ Ends(p) /\ lease' = [lease EXCEPT ![k] = NoProcess] /\ UNCHANGED auth
  BY Zenon DEF RecoverAuth
<1>2. /\ p \in Processes /\ RecoveryTypes /\ jobs \in JobTypes
      /\ jobs[p].at = "leased" /\ jobs[p].key = k
      /\ KeyInv(k) /\ RecoveryOwns(p, k) /\ k # NoKey
  BY <1>1, RecoveryKnown DEF RecoveryStages
<1>3. /\ k \notin auth[p] /\ lease[k] = p
      /\ engines[k] = "alive" => dir[k].record
  BY <1>2 DEF RecoveryOwns, RecoveryStages
<1>4. CASE auth' = [auth EXCEPT ![p] = @ \cup {k}] /\ JobGoes(p, "recovered") /\ UNCHANGED lease
  <2>1. JobRecordIs(p, "recovered", k)
    BY <1>2, <1>4, JobMoves DEF RecoveryStages
  <2>2. /\ auth' \in [Processes -> SUBSET Keys] /\ k \in auth'[p]
        /\ \A q \in Processes, l \in Keys : q # p \/ l # k => (l \in auth'[q] <=> l \in auth[q])
    BY <1>2, <1>4 DEF RecoveryTypes
  <2>3. RecoveryTypes'
    BY <1>1, <1>2, <1>4, <2>1, <2>2 DEF RecoveryTypes, JobRecordIs, JobTypes
  <2>4. RecoveryOwns(p, k)' /\ SessionOwns(p, k)'
    BY <1>1, <1>2, <1>3, <1>4, <2>1, <2>2
       DEF RecoveryOwns, SessionOwns, InSession, JobRecordIs, RecoveryStages
  <2> QED
    BY <1>1, <1>2, <1>4, <2>1, <2>2, <2>3, <2>4, RecoverySteps DEF RecoveryStages
<1>5. CASE Ends(p) /\ lease' = [lease EXCEPT ![k] = NoProcess] /\ UNCHANGED auth
  <2>1. JobRecordIs(p, "none", NoKey)
    BY <1>2, <1>5, JobEnds
  <2>2. RecoveryTypes' /\ \A l \in Keys \ {k} : lease'[l] = lease[l]
    BY <1>1, <1>2, <1>5, <2>1 DEF RecoveryTypes, JobRecordIs, JobTypes
  <2>3. RecoveryOwns(p, k)' /\ SessionOwns(p, k)'
    BY <1>1, <1>2, <1>3, <1>5, <2>1
       DEF RecoveryOwns, SessionOwns, InSession, JobRecordIs, RecoveryStages
  <2> QED
    BY <1>1, <1>2, <1>3, <1>5, <2>1, <2>2, <2>3, RecoverySteps DEF RecoveryStages
<1> QED
  BY <1>1, <1>4, <1>5

LEMMA RecoverEndpointKeeps ==
  ASSUME RecoveryInv, NEW p \in up, NEW k \in Keys, RecoverEndpoint(p, k)
  PROVE  RecoveryInv' /\ OthersStay(p, k)
<1>1. /\ JobAt(p, "recovered", k) /\ JobGoes(p, "capture")
      /\ \/ /\ endpoint' = IF dir[k].metadata /\ modules[k] = {"sink", "source"}
                            THEN [endpoint EXCEPT ![p] = @ \cup {k}] ELSE endpoint
            /\ UNCHANGED faults
         \/ Fault /\ UNCHANGED endpoint
      /\ UNCHANGED <<up, past, dir, lease, modules, jwk, engines, auth, cleaning, used>>
  BY Zenon DEF RecoverEndpoint
<1>2. /\ p \in Processes /\ RecoveryTypes /\ jobs \in JobTypes
      /\ jobs[p].at = "recovered" /\ jobs[p].key = k
      /\ KeyInv(k) /\ RecoveryOwns(p, k) /\ k # NoKey
  BY <1>1, RecoveryKnown DEF RecoveryStages
<1>3. JobRecordIs(p, "capture", k)
  BY <1>1, <1>2, JobMoves DEF RecoveryStages
<1>4. /\ endpoint' \in [Processes -> SUBSET Keys]
      /\ \/ dir[k].metadata /\ modules[k] = BothModules => k \in endpoint'[p]
         \/ faults' # 0
      /\ faults' \in 0 .. MaxFaults /\ (faults # 0 => faults' # 0)
      /\ \A q \in Processes, l \in Keys :
           q # p \/ l # k => (l \in endpoint'[q] <=> l \in endpoint[q])
  <2>1. CASE Fault /\ UNCHANGED endpoint
    <3>1. faults' \in 0 .. MaxFaults /\ faults' # 0
      BY <1>2, <2>1, FaultsCount DEF RecoveryTypes
    <3> QED
      BY <1>2, <2>1, <3>1 DEF RecoveryTypes
  <2>2. CASE ~(Fault /\ UNCHANGED endpoint)
    BY <1>1, <1>2, <2>2 DEF RecoveryTypes, BothModules
  <2> QED
    BY <2>1, <2>2
<1>5. UNCHANGED <<up, past, dir, lease, modules, jwk, engines, auth, cleaning, used>>
  BY <1>1
<1>6. RecoveryTypes'
  BY <1>2, <1>3, <1>4, <1>5 DEF RecoveryTypes, JobRecordIs, JobTypes
<1>7. dir[k].metadata => modules[k] \in {{}, BothModules}
  BY <1>2 DEF KeyInv
<1>8. ModulesKnown(p, k)'
  BY <1>4, <1>5, <1>7 DEF ModulesKnown
<1>9. RecoveryOwns(p, k)' /\ SessionOwns(p, k)'
  BY <1>2, <1>3, <1>5, <1>8 DEF RecoveryOwns, SessionOwns, InSession, JobRecordIs, RecoveryStages
<1> QED
  BY <1>1, <1>2, <1>3, <1>4, <1>5, <1>6, <1>9, RecoverySteps DEF RecoveryStages

LEMMA CaptureStartsKeeps ==
  ASSUME RecoveryInv, NEW p \in up, NEW k \in Keys, CaptureStarts(p, k)
  PROVE  RecoveryInv' /\ OthersStay(p, k)
<1>1. /\ JobAt(p, "capture", k) /\ Ends(p)
      /\ UNCHANGED <<up, past, dir, lease, modules, jwk, engines, auth, endpoint, cleaning, used, faults>>
  BY Zenon DEF CaptureStarts
<1>2. /\ p \in Processes /\ RecoveryTypes /\ jobs \in JobTypes
      /\ jobs[p].at = "capture" /\ jobs[p].key = k /\ RecoveryOwns(p, k) /\ k # NoKey
  BY <1>1, RecoveryKnown DEF RecoveryStages
<1>3. JobRecordIs(p, "none", NoKey)
  BY <1>1, <1>2, JobEnds
<1>4. RecoveryTypes'
  BY <1>1, <1>2, <1>3 DEF RecoveryTypes, JobRecordIs, JobTypes
<1>5. RecoveryOwns(p, k)' /\ SessionOwns(p, k)'
  BY <1>1, <1>2, <1>3
     DEF RecoveryOwns, SessionOwns, InSession, JobRecordIs, RecoveryStages, ModulesKnown
<1> QED
  BY <1>1, <1>3, <1>4, <1>5, RecoverySteps DEF RecoveryStages

LEMMA RecoveryFailsKeeps ==
  ASSUME RecoveryInv, NEW p \in up, NEW k \in Keys, RecoveryFails(p, k)
  PROVE  RecoveryInv' /\ OthersStay(p, k)
<1>1. PICK at \in {"recovered", "capture"} : JobAt(p, at, k)
  BY Zenon DEF RecoveryFails
<1>2. /\ Ends(p) /\ lease' = [lease EXCEPT ![k] = NoProcess]
      /\ auth' = [auth EXCEPT ![p] = @ \ {k}]
      /\ endpoint' = [endpoint EXCEPT ![p] = @ \ {k}]
      /\ cleaning' = IF k \in endpoint[p] THEN [cleaning EXCEPT ![p] = @ \cup {k}] ELSE cleaning
      /\ UNCHANGED <<up, past, dir, modules, jwk, engines, used, faults>>
  BY Zenon DEF RecoveryFails
<1>3. /\ p \in Processes /\ RecoveryTypes /\ jobs \in JobTypes
      /\ jobs[p].at = at /\ jobs[p].key = k /\ RecoveryOwns(p, k) /\ k # NoKey
  BY <1>1, RecoveryKnown DEF RecoveryStages
<1>4. lease[k] = p
  BY <1>3 DEF RecoveryOwns, RecoveryStages
<1>5. JobRecordIs(p, "none", NoKey)
  BY <1>2, <1>3, JobEnds
<1>6. /\ auth' \in [Processes -> SUBSET Keys] /\ endpoint' \in [Processes -> SUBSET Keys]
      /\ cleaning' \in [Processes -> SUBSET Keys] /\ k \notin auth'[p]
      /\ \A q \in Processes, l \in Keys : q # p \/ l # k =>
           /\ l \in auth'[q] <=> l \in auth[q]
           /\ l \in endpoint'[q] <=> l \in endpoint[q]
           /\ l \in cleaning'[q] <=> l \in cleaning[q]
  BY <1>2, <1>3 DEF RecoveryTypes
<1>7. lease' \in [Keys -> Processes \cup {NoProcess}] /\ \A l \in Keys \ {k} : lease'[l] = lease[l]
  BY <1>2, <1>3 DEF RecoveryTypes
<1>8. UNCHANGED <<up, past, dir, modules, jwk, engines, used, faults>>
  BY <1>2
<1>9. RecoveryTypes'
  BY <1>3, <1>5, <1>6, <1>7, <1>8 DEF RecoveryTypes, JobRecordIs, JobTypes
<1>10. RecoveryOwns(p, k)' /\ SessionOwns(p, k)'
  BY <1>3, <1>5, <1>6 DEF RecoveryOwns, SessionOwns, InSession, JobRecordIs
<1> QED
  BY <1>1, <1>4, <1>5, <1>6, <1>7, <1>8, <1>9, <1>10, RecoverySteps DEF RecoveryStages

-----------------------------------------------------------------------------
(* A new identity cleans up after others; processes and engines come and go. *)

LEMMA NewIdentityKeeps ==
  ASSUME RecoveryInv, NEW p \in up, NEW k \in Keys, NewIdentity(p, k)
  PROVE  RecoveryInv'
<1> DEFINE made == [NoDir EXCEPT !.owner = p]
<1>1. PICK kept \in SUBSET {l \in Keys : Stale(l) /\ dir[l].metadata /\ modules[l] # {}} :
      /\ jobs[p] = Idle /\ k \notin used /\ used' = used \cup {k}
      /\ dir' = [l \in Keys |-> IF l = k THEN made ELSE IF Stale(l) THEN NoDir ELSE dir[l]]
      /\ modules' = [l \in Keys |-> IF Stale(l) /\ dir[l].metadata /\ l \notin kept
                                   THEN {} ELSE modules[l]]
      /\ Unload(kept)
      /\ auth' = [auth EXCEPT ![p] = @ \cup {k}]
      /\ jobs' = [jobs EXCEPT ![p] = [at |-> "created", key |-> k]]
      /\ UNCHANGED <<up, past, lease, jwk, engines, endpoint, cleaning>>
  BY Zenon DEF NewIdentity
<1>2. /\ p \in Processes /\ RecoveryTypes /\ jobs \in JobTypes /\ KeyInv(k)
      /\ \A l \in Keys : KeyInv(l) /\ l # NoKey
      /\ \A q \in Processes \ up : jobs[q] = Idle
  BY RecoveryAssumption DEF RecoveryInv, RecoveryTypes, JobTypes
<1>3. made \in Dirs /\ made.owner = p /\ ~made.record /\ ~made.metadata
  BY <1>2 DEF NoDir, Dirs
<1> HIDE DEF made
<1>4. JobRecordIs(p, "created", k)
  BY <1>1, <1>2, JobStarts DEF LaunchStages, Making
<1>5. /\ dir' \in [Keys -> Dirs] /\ dir'[k] = made
      /\ \A l \in Keys \ {k} : dir'[l] = IF Stale(l) THEN NoDir ELSE dir[l]
  BY <1>1, <1>2, <1>3, NoDirIs DEF RecoveryTypes
<1>6. /\ modules' \in [Keys -> SUBSET BothModules]
      /\ \A l \in Keys : modules'[l] = {} \/ modules'[l] = modules[l]
      /\ \A l \in Keys : ~Stale(l) => modules'[l] = modules[l]
  BY <1>1, <1>2 DEF RecoveryTypes
<1>7. /\ auth' \in [Processes -> SUBSET Keys] /\ k \in auth'[p]
      /\ \A q \in Processes, l \in Keys : q # p \/ l # k => (l \in auth'[q] <=> l \in auth[q])
  BY <1>1, <1>2 DEF RecoveryTypes
<1>8. /\ UNCHANGED <<up, past, lease, jwk, engines, endpoint, cleaning>> /\ used' = used \cup {k}
      /\ faults' \in 0 .. MaxFaults /\ (faults # 0 => faults' # 0)
  BY <1>1, <1>2, FaultsCount DEF RecoveryTypes
<1>9. RecoveryTypes'
  BY <1>2, <1>4, <1>5, <1>6, <1>7, <1>8 DEF RecoveryTypes, JobRecordIs, JobTypes
<1>10. KeyInv(k)'
  <2>1. /\ modules[k] = {}
        /\ \A q \in Processes :
             jobs[q].key # k /\ k \notin auth[q] /\ k \notin endpoint[q] /\ k \notin cleaning[q]
    BY <1>1, <1>2 DEF KeyInv
  <2>2. \A q \in Processes \ {p} : jobs'[q].key # k /\ k \notin auth'[q]
    BY <1>4, <1>7, <2>1 DEF JobRecordIs
  <2>3. modules'[k] = {}
    BY <1>6, <2>1
  <2>4. LaunchOwns(p, k)'
    <3>1. jobs'[p].at = "created" /\ dir'[k].owner = p /\ ~dir'[k].record /\ ~dir'[k].metadata
      BY <1>3, <1>4, <1>5 DEF JobRecordIs
    <3>2. \A q \in Processes : k \notin endpoint'[q] /\ k \notin cleaning'[q]
      BY <1>8, <2>1
    <3> QED
      BY <1>2, <1>7, <2>2, <2>3, <3>1, <3>2 DEF LaunchOwns, Making
  <2> QED
    BY <1>2, <1>4, <1>8, <2>3, <2>4, LaunchOn DEF JobRecordIs, LaunchStages, Making
<1>11. ASSUME NEW l \in Keys \ {k}
       PROVE  KeyInv(l)'
  <2>1. /\ KeyInv(l) /\ dir'[l] = IF Stale(l) THEN NoDir ELSE dir[l]
        /\ jobs'[p].key # l /\ jobs[p].key # l
    BY <1>1, <1>2, <1>4, <1>5 DEF JobRecordIs, Idle
  <2>2. CASE ~Stale(l)
    <3>1. KeyStays(l)
      BY <1>2, <1>4, <1>6, <1>7, <1>8, <2>1, <2>2 DEF KeyStays, JobRecordIs
    <3> QED
      BY <2>1, <3>1, StayingKey
  <2>3. CASE Stale(l)
    <3>1. /\ dir[l].owner \in Processes \ up /\ (dir[l].record => engines[l] # "alive")
          /\ dir'[l] = NoDir
      BY <2>1, <2>3 DEF Stale
    <3>2. l \in used
      BY RecoveryAssumption, <2>1, <3>1, NoDirIs DEF KeyInv
    <3>3. ASSUME NEW q \in Processes
          PROVE  LaunchOwns(q, l)' /\ RecoveryOwns(q, l)' /\ SessionOwns(q, l)'
      <4>1. LaunchOwns(q, l) /\ RecoveryOwns(q, l) /\ SessionOwns(q, l)
        BY <2>1 DEF KeyInv
      <4>2. jobs'[q] = jobs[q] \/ (jobs'[q].key # l /\ jobs[q].key # l)
        BY <1>4, <2>1 DEF JobRecordIs
      <4>3. ~(jobs[q].key = l /\ jobs[q].at \in LaunchStages)
        BY <1>2, <3>1, <4>1 DEF LaunchOwns, Idle
      <4>4. LaunchOwns(q, l)'
        BY <4>2, <4>3 DEF LaunchOwns
      <4>5. l \in auth'[q] <=> l \in auth[q]
        BY <1>7
      <4>6. RecoveryOwns(q, l)' /\ SessionOwns(q, l)'
        BY <1>8, <3>1, <4>1, <4>2, <4>5, NoDirIs
           DEF RecoveryOwns, SessionOwns, InSession, ModulesKnown
      <4> QED
        BY <4>4, <4>6
    <3> QED
      BY <1>8, <3>1, <3>2, <3>3, NoDirIs DEF KeyInv
  <2> QED
    BY <2>2, <2>3
<1>12. \A q \in Processes \ up' : jobs'[q] = Idle
  BY <1>2, <1>4, <1>8 DEF JobRecordIs
<1> QED
  BY <1>9, <1>10, <1>11, <1>12 DEF RecoveryInv

LEMMA ProcessStartsKeeps ==
  ASSUME RecoveryInv, NEW p \in Processes, ProcessStarts(p)
  PROVE  RecoveryInv'
<1>1. /\ p \notin up \cup past /\ up' = up \cup {p}
      /\ UNCHANGED <<past, dir, lease, modules, jwk, engines, auth, endpoint, cleaning, jobs, used, faults>>
  BY Zenon DEF ProcessStarts
<1>2. RecoveryTypes'
  BY <1>1 DEF RecoveryInv, RecoveryTypes
<1>3. \A l \in Keys : KeyStays(l)
  BY <1>1 DEF KeyStays
<1>4. \A l \in Keys : KeyInv(l)'
  BY <1>3, StayingKey DEF RecoveryInv
<1> QED
  BY <1>1, <1>2, <1>4 DEF RecoveryInv

LEMMA EngineDiesKeeps ==
  ASSUME RecoveryInv, NEW k \in Keys, EngineDies(k)
  PROVE  RecoveryInv'
<1>1. /\ engines' = [engines EXCEPT ![k] = "dead"]
      /\ UNCHANGED <<up, past, dir, lease, modules, jwk, auth, endpoint, cleaning, jobs, used, faults>>
  BY Zenon DEF EngineDies
<1>2. RecoveryTypes /\ \A l \in Keys : KeyInv(l)
  BY DEF RecoveryInv
<1>3. RecoveryTypes'
  BY <1>1, <1>2 DEF RecoveryTypes
<1>4. /\ \A l \in Keys \ {k} : engines'[l] = engines[l]
      /\ engines'[k] # "alive"
  BY <1>1, <1>2 DEF RecoveryTypes
<1>5. \A l \in Keys \ {k} : KeyStays(l)
  BY <1>1, <1>4 DEF KeyStays
<1>6. UNCHANGED <<up, past, dir, lease, modules, jwk, auth, endpoint, cleaning, jobs, used, faults>>
  BY <1>1
<1>7. KeyInv(k)'
  <2>1. ASSUME NEW q \in Processes
        PROVE  LaunchOwns(q, k)' /\ RecoveryOwns(q, k)' /\ SessionOwns(q, k)'
    <3>1. LaunchOwns(q, k) /\ RecoveryOwns(q, k) /\ SessionOwns(q, k)
      BY <1>2 DEF KeyInv
    <3>2. LaunchOwns(q, k)'
      BY <1>6, <3>1 DEF LaunchOwns
    <3>3. RecoveryOwns(q, k)' /\ SessionOwns(q, k)'
      BY <1>4, <1>6, <3>1 DEF RecoveryOwns, SessionOwns, InSession, ModulesKnown
    <3> QED
      BY <3>2, <3>3
  <2> QED
    BY <1>2, <1>6, <2>1 DEF KeyInv
<1>8. \A l \in Keys : KeyInv(l)'
  BY <1>2, <1>5, <1>7, StayingKey
<1>9. \A q \in Processes \ up' : jobs'[q] = Idle
  BY <1>6 DEF RecoveryInv
<1> QED
  BY <1>3, <1>8, <1>9 DEF RecoveryInv

LEMMA ProcessExitsKeeps ==
  ASSUME RecoveryInv, NEW p \in up, ProcessExits(p)
  PROVE  RecoveryInv'
<1>1. /\ up' = up \ {p} /\ past' = past \cup {p}
      /\ lease' = [k \in Keys |-> IF lease[k] = p THEN NoProcess ELSE lease[k]]
      /\ auth' = [auth EXCEPT ![p] = {}] /\ endpoint' = [endpoint EXCEPT ![p] = {}]
      /\ cleaning' = [cleaning EXCEPT ![p] = {}] /\ jobs' = [jobs EXCEPT ![p] = Idle]
      /\ UNCHANGED <<dir, modules, jwk, engines, used, faults>>
  BY Zenon DEF ProcessExits
<1>2. /\ p \in Processes /\ RecoveryTypes /\ jobs \in JobTypes /\ \A l \in Keys : KeyInv(l)
      /\ \A q \in Processes \ up : jobs[q] = Idle
  BY DEF RecoveryInv, RecoveryTypes, JobTypes
<1>3. JobRecordIs(p, "none", NoKey)
  BY <1>1, <1>2, JobEnds DEF Ends
<1>4. /\ auth' \in [Processes -> SUBSET Keys] /\ endpoint' \in [Processes -> SUBSET Keys]
      /\ cleaning' \in [Processes -> SUBSET Keys]
      /\ auth'[p] = {} /\ endpoint'[p] = {} /\ cleaning'[p] = {}
      /\ \A q \in Processes \ {p} :
           auth'[q] = auth[q] /\ endpoint'[q] = endpoint[q] /\ cleaning'[q] = cleaning[q]
  BY <1>1, <1>2 DEF RecoveryTypes
<1>5. /\ lease' \in [Keys -> Processes \cup {NoProcess}]
      /\ \A l \in Keys : lease[l] # p => lease'[l] = lease[l]
  BY <1>1, <1>2 DEF RecoveryTypes
<1>6. UNCHANGED <<dir, modules, jwk, engines, used, faults>>
  BY <1>1
<1>7. RecoveryTypes'
  BY <1>1, <1>2, <1>3, <1>4, <1>5, <1>6 DEF RecoveryTypes, JobRecordIs, JobTypes
<1>8. ASSUME NEW k \in Keys
      PROVE  KeyInv(k)'
  <2>1. k # NoKey
    BY RecoveryAssumption
  <2>2. ASSUME NEW q \in Processes
        PROVE  LaunchOwns(q, k)' /\ RecoveryOwns(q, k)' /\ SessionOwns(q, k)'
    <3>1. LaunchOwns(q, k) /\ RecoveryOwns(q, k) /\ SessionOwns(q, k)
      BY <1>2 DEF KeyInv
    <3>2. CASE q = p
      BY <1>3, <1>4, <2>1, <3>2 DEF LaunchOwns, RecoveryOwns, SessionOwns, InSession, JobRecordIs
    <3>3. CASE q # p
      <4>1. /\ jobs'[q] = jobs[q] /\ auth'[q] = auth[q] /\ endpoint'[q] = endpoint[q]
            /\ lease[k] = q => lease'[k] = q
        BY <1>3, <1>4, <1>5, <3>3 DEF JobRecordIs
      <4>2. ASSUME NEW r \in Processes, jobs[q].key = k, jobs[q].at \in LaunchStages
            PROVE  /\ k \notin cleaning'[r]
                   /\ r # q => jobs'[r].key # k /\ k \notin auth'[r] /\ k \notin endpoint'[r]
        BY <1>3, <1>4, <2>1, <3>1, <4>2 DEF LaunchOwns, JobRecordIs
      <4>3. LaunchOwns(q, k)'
        BY <1>6, <3>1, <4>1, <4>2 DEF LaunchOwns
      <4>4. RecoveryOwns(q, k)' /\ SessionOwns(q, k)'
        BY <1>6, <3>1, <4>1 DEF RecoveryOwns, SessionOwns, InSession, ModulesKnown
      <4> QED
        BY <4>3, <4>4
    <3> QED
      BY <3>2, <3>3
  <2>3. k \notin used =>
          \A q \in Processes : jobs'[q].key # k /\ k \notin auth'[q] \cup endpoint'[q] \cup cleaning'[q]
    <3>1. ASSUME k \notin used, NEW q \in Processes
          PROVE  jobs'[q].key # k /\ k \notin auth'[q] \cup endpoint'[q] \cup cleaning'[q]
      <4>1. jobs[q].key # k /\ k \notin auth[q] \cup endpoint[q] \cup cleaning[q]
        BY <1>2, <3>1 DEF KeyInv
      <4> QED
        BY <1>3, <1>4, <2>1, <4>1 DEF JobRecordIs
    <3> QED
      BY <3>1
  <2> QED
    BY <1>2, <1>6, <2>2, <2>3 DEF KeyInv
<1>9. \A q \in Processes \ up' : jobs'[q] = Idle
  BY <1>1, <1>2 DEF JobTypes
<1> QED
  BY <1>7, <1>8, <1>9 DEF RecoveryInv

-----------------------------------------------------------------------------
(* The invariant of RecoveryLease.                                          *)

LEMMA InitRecoveryInv == RecoveryInit => RecoveryInv
<1> SUFFICES ASSUME RecoveryInit
             PROVE  RecoveryInv
  OBVIOUS
<1>1. /\ up = {} /\ past = {} /\ jwk = {} /\ used = {}
      /\ dir = [k \in Keys |-> NoDir]
      /\ lease = [k \in Keys |-> NoProcess] /\ modules = [k \in Keys |-> {}]
      /\ engines = [k \in Keys |-> "none"]
      /\ auth = [p \in Processes |-> {}] /\ endpoint = [p \in Processes |-> {}]
      /\ cleaning = [p \in Processes |-> {}] /\ jobs = [p \in Processes |-> Idle]
      /\ faults = 0
  BY Zenon DEF RecoveryInit
<1>2. RecoveryTypes
  BY <1>1, NoDirIs, RecoveryAssumption DEF RecoveryTypes
<1>3. ASSUME NEW k \in Keys
      PROVE  KeyInv(k)
  <2>1. k # NoKey /\ dir[k] = NoDir /\ modules[k] = {}
    BY RecoveryAssumption, <1>1
  <2>2. \A p \in Processes :
          jobs[p].key # k /\ k \notin auth[p] /\ k \notin endpoint[p] /\ k \notin cleaning[p]
    BY <1>1, <2>1 DEF Idle
  <2> QED
    BY <2>1, <2>2, NoDirIs DEF KeyInv, LaunchOwns, RecoveryOwns, SessionOwns, InSession
<1> QED
  BY <1>1, <1>2, <1>3 DEF RecoveryInv

LEMMA StepRecoveryInv == RecoveryInv /\ [RecoveryNext]_recoveryVars => RecoveryInv'
<1> SUFFICES ASSUME RecoveryInv, [RecoveryNext]_recoveryVars
             PROVE  RecoveryInv'
  OBVIOUS
<1>1. CASE UNCHANGED recoveryVars
  <2>1. UNCHANGED <<up, past, dir, lease, modules, jwk, engines, auth, endpoint, cleaning, jobs, used, faults>>
    BY <1>1, Zenon DEF recoveryVars
  <2>2. RecoveryTypes' /\ \A p \in Processes \ up' : jobs'[p] = Idle
    BY <2>1 DEF RecoveryInv, RecoveryTypes
  <2>3. \A k \in Keys : KeyStays(k)
    BY <2>1 DEF KeyStays
  <2> QED
    BY <2>2, <2>3, StayingKey DEF RecoveryInv
<1>2. CASE \E p \in Processes : ProcessStarts(p)
  BY <1>2, ProcessStartsKeeps
<1>3. CASE \E k \in Keys : EngineDies(k)
  BY <1>3, EngineDiesKeeps
<1>4. CASE \E p \in up : ProcessExits(p)
  BY <1>4, ProcessExitsKeeps
<1>5. ASSUME NEW p \in up, NEW k \in Keys,
             NewIdentity(p, k) \/ SessionEnds(p, k) \/ CleanEndpoint(p, k) \/ RecordMatches(p, k)
      PROVE  RecoveryInv'
  BY <1>5, NewIdentityKeeps, SessionEndsKeeps, CleanEndpointKeeps, RecordMatchesKeeps
<1>6. ASSUME NEW p \in up, NEW k \in {jobs[p].key} \ {NoKey},
             \/ LoadSink(p, k) \/ LoadSource(p, k) \/ WriteMetadata(p, k) \/ EndpointFails(p, k)
             \/ EngineStarts(p, k) \/ InstallKey(p, k) \/ TakeLease(p, k)
             \/ WritePrivateKey(p, k) \/ WriteRecord(p, k) \/ LaunchFails(p, k)
             \/ RecoverLease(p, k) \/ RecoverAuth(p, k) \/ RecoverEndpoint(p, k)
             \/ CaptureStarts(p, k) \/ RecoveryFails(p, k)
      PROVE  RecoveryInv'
  <2>1. k \in Keys
    BY DEF RecoveryInv, RecoveryTypes, Idle
  <2> QED
    BY <1>6, <2>1, MakingKeeps, EngineLaunchKeeps, WriteRecordKeeps, LaunchFailsKeeps,
       RecoverLeaseKeeps, RecoverAuthKeeps, RecoverEndpointKeeps, CaptureStartsKeeps,
       RecoveryFailsKeeps
<1> QED
  BY <1>1, <1>2, <1>3, <1>4, <1>5, <1>6, Zenon DEF RecoveryNext

LEMMA RecoveryInvariant == RecoverySpec => []RecoveryInv
  BY InitRecoveryInv, StepRecoveryInv, PTL DEF RecoverySpec

\* The types of what processes share and of what each is doing (core/emulator.rs).
LEMMA RecoveryTypeCorrect == RecoverySpec => []RecoveryTypeOK
<1>1. RecoveryInv => RecoveryTypeOK
  BY DEF RecoveryInv, RecoveryTypes, RecoveryTypeOK, Dirs, BothModules
<1> QED
  BY <1>1, RecoveryInvariant, PTL

-----------------------------------------------------------------------------
(* What a session keeps.                                                    *)

\* Who has an identity is launching under it, recovering it, or in its session:
\* the first keeps out all others, the other two hold its lease.
LEMMA HoldersOfAnIdentity ==
  ASSUME RecoveryInv, NEW p \in Processes, NEW k \in Keys, k \in auth[p]
  PROVE  lease[k] = p \/ (jobs[p].key = k /\ jobs[p].at \in LaunchStages)
<1>1. RecoveryOwns(p, k) /\ SessionOwns(p, k) /\ k # NoKey
  BY RecoveryAssumption DEF RecoveryInv, KeyInv
<1>2. jobs[p] \in {Idle} \cup [at : LaunchStages \cup RecoveryStages, key : Keys]
  BY DEF RecoveryInv, RecoveryTypes
<1>3. jobs[p].key = k => jobs[p].at \in LaunchStages \cup RecoveryStages
  BY <1>1, <1>2 DEF Idle
<1> QED
  BY <1>1, <1>3 DEF RecoveryOwns, SessionOwns, InSession

LEMMA KeepsIdentity == RecoveryInv => SessionKeepsItsIdentity
<1> SUFFICES ASSUME RecoveryInv, NEW p \in up, NEW k \in Keys,
                    InSession(p, k), engines[k] = "alive"
             PROVE  /\ lease[k] = p /\ k \in jwk
                    /\ dir[k].key /\ dir[k].record
                    /\ \A q \in up \ {p} : k \notin auth[q]
  BY DEF SessionKeepsItsIdentity
<1>1. p \in Processes /\ KeyInv(k) /\ up \subseteq Processes
  BY DEF RecoveryInv, RecoveryTypes
<1>2. lease[k] = p /\ dir[k].record
  BY <1>1 DEF KeyInv, SessionOwns
<1>3. dir[k].key /\ k \in jwk
  BY <1>1, <1>2 DEF KeyInv
<1>4. ASSUME NEW q \in up \ {p}, k \in auth[q]
      PROVE  FALSE
  <2>1. jobs[q].key = k /\ jobs[q].at \in LaunchStages
    BY <1>1, <1>2, <1>4, HoldersOfAnIdentity
  <2>2. LaunchOwns(q, k)
    BY <1>1 DEF KeyInv
  <2> QED
    BY <1>1, <2>1, <2>2 DEF LaunchOwns, InSession
<1> QED
  BY <1>2, <1>3, <1>4

\* In every reachable state a process that drives a live engine alone has its
\* lease and its key, and the engine's directory is complete.
THEOREM SessionKeepsItsIdentityCorrect == RecoverySpec => []SessionKeepsItsIdentity
<1> QED
  BY RecoveryInvariant, KeepsIdentity, PTL

-----------------------------------------------------------------------------
(* What a session leaves in the sound server.                               *)

MakesModules(q, k) == jobs[q] \in [at : {"sink", "source"}, key : {k}]
Tracked(k) == Leaked(k)' => Leaked(k) \/ faults' # faults \/ EndpointGivenUp(k)

LEMMA LeakedIs ==
  ASSUME NEW k
  PROVE  Leaked(k) <=>
           /\ modules[k] # {} /\ ~dir[k].metadata
           /\ \A q \in up : k \notin endpoint[q] \cup cleaning[q] /\ ~MakesModules(q, k)
BY DEF Leaked, MakesModules

\* Who forgets nothing of a key keeps track of its modules.
LEMMA NothingForgotten ==
  ASSUME RecoveryInv, NEW k, up' = up, modules'[k] = modules[k],
         dir'[k].metadata <=> dir[k].metadata,
         \A q \in Processes :
           /\ k \in endpoint[q] \cup cleaning[q] => k \in endpoint'[q] \cup cleaning'[q]
           /\ MakesModules(q, k) => MakesModules(q, k)'
  PROVE  Tracked(k)
<1>1. Leaked(k)' <=>
        /\ modules'[k] # {} /\ ~dir'[k].metadata
        /\ \A q \in up' : k \notin endpoint'[q] \cup cleaning'[q] /\ ~MakesModules(q, k)'
  BY DEF Leaked, MakesModules
<1>2. up \subseteq Processes
  BY DEF RecoveryInv, RecoveryTypes
<1> QED
  BY <1>1, <1>2, LeakedIs DEF Tracked

LEMMA OtherKeysTracked ==
  ASSUME RecoveryInv, NEW p \in up, NEW k \in Keys, OthersStay(p, k), NEW l \in Keys \ {k}
  PROVE  Tracked(l)
<1>1. KeyStays(l) /\ up' = up
  BY DEF OthersStay
<1>2. \A q \in Processes : MakesModules(q, l) => MakesModules(q, l)'
  BY <1>1 DEF KeyStays, MakesModules
<1> QED
  BY <1>1, <1>2, NothingForgotten DEF KeyStays

\* Modules that are gone, and those whose endpoint is there or is cleaned, are
\* not lost.
LEMMA NotLeaked ==
  ASSUME NEW p \in up, NEW k, up' = up,
         \/ modules'[k] = {} \/ k \in endpoint'[p] \/ k \in cleaning'[p] \/ dir'[k].metadata
  PROVE  Tracked(k)
BY DEF Tracked, Leaked

\* Modules that are left are left by a fault.
LEMMA UnloadTracks ==
  ASSUME RecoveryInv, NEW p \in up, NEW k \in Keys, up' = up, NEW left,
         modules' = [modules EXCEPT ![k] = left], Unload(left)
  PROVE  Tracked(k)
<1>1. RecoveryTypes
  BY DEF RecoveryInv
<1>2. modules'[k] = left /\ (left # {} => faults' # faults)
  BY <1>1, FaultsCount DEF RecoveryTypes
<1> QED
  BY <1>2, NotLeaked DEF Tracked

LEMMA MakingTracks ==
  ASSUME RecoveryInv, NEW p \in up, NEW k \in Keys, OthersStay(p, k),
         LoadSink(p, k) \/ LoadSource(p, k) \/ WriteMetadata(p, k) \/ EndpointFails(p, k)
  PROVE  Tracked(k)
<1>1. PICK at \in Making : JobAt(p, at, k)
  BY Zenon DEF LoadSink, LoadSource, WriteMetadata, EndpointFails, Making
<1>2. /\ p \in Processes /\ RecoveryTypes /\ jobs \in JobTypes /\ up' = up
      /\ jobs[p].key = k /\ k # NoKey
  BY <1>1, LaunchKnown DEF LaunchStages, OthersStay
<1>3. CASE LoadSink(p, k) \/ LoadSource(p, k)
  <2>1. PICK to \in {"sink", "source"} : JobGoes(p, to)
    BY <1>3, Zenon DEF LoadSink, LoadSource
  <2>2. JobRecordIs(p, to, k)
    BY <1>2, <2>1, JobMoves DEF LaunchStages, Making
  <2>3. MakesModules(p, k)'
    BY <1>2, <2>2 DEF MakesModules, JobRecordIs, JobTypes, Idle
  <2> QED
    BY <1>2, <2>3 DEF Tracked, Leaked, MakesModules
<1>4. CASE WriteMetadata(p, k)
  <2>1. endpoint' = [endpoint EXCEPT ![p] = @ \cup {k}]
    BY <1>4, Zenon DEF WriteMetadata
  <2>2. k \in endpoint'[p]
    BY <1>2, <2>1 DEF RecoveryTypes
  <2> QED
    BY <1>2, <2>2, NotLeaked
<1>5. CASE EndpointFails(p, k)
  <2>1. PICK left \in SUBSET modules[k] : modules' = [modules EXCEPT ![k] = left] /\ Unload(left)
    BY <1>5, Zenon DEF EndpointFails
  <2> QED
    BY <1>2, <2>1, UnloadTracks
<1> QED
  BY <1>3, <1>4, <1>5

\* The steps of a launch once the endpoint is made or not, and those of a recovery.
LEMMA QuietTracks ==
  ASSUME RecoveryInv, NEW p \in up, NEW k \in Keys, OthersStay(p, k),
         \/ EngineStarts(p, k) \/ InstallKey(p, k) \/ TakeLease(p, k) \/ WritePrivateKey(p, k)
         \/ WriteRecord(p, k) \/ RecordMatches(p, k) \/ RecoverLease(p, k) \/ RecoverAuth(p, k)
         \/ RecoverEndpoint(p, k) \/ CaptureStarts(p, k) \/ RecoveryFails(p, k)
  PROVE  Tracked(k)
<1>1. p \in Processes /\ RecoveryTypes /\ up' = up
  BY DEF RecoveryInv, RecoveryTypes, OthersStay
<1>2. UNCHANGED modules
  BY Zenon DEF EngineStarts, InstallKey, TakeLease, WritePrivateKey, WriteRecord,
     RecordMatches, RecoverLease, RecoverAuth, RecoverEndpoint, CaptureStarts, RecoveryFails
<1>3. dir'[k].metadata <=> dir[k].metadata
  <2>1. CASE WriteRecord(p, k)
    <3>1. dir' = [dir EXCEPT ![k].record = TRUE]
      BY <2>1, Zenon DEF WriteRecord
    <3> QED
      BY <1>1, <3>1, RecordWritten DEF RecoveryTypes
  <2>2. CASE WritePrivateKey(p, k)
    <3>1. dir' = [dir EXCEPT ![k].key = TRUE]
      BY <2>2, Zenon DEF WritePrivateKey
    <3> QED
      BY <1>1, <3>1, KeyWritten DEF RecoveryTypes
  <2>3. CASE ~WriteRecord(p, k) /\ ~WritePrivateKey(p, k)
    <3>1. UNCHANGED dir
      BY <2>3, Zenon DEF EngineStarts, InstallKey, TakeLease, RecordMatches, RecoverLease,
         RecoverAuth, RecoverEndpoint, CaptureStarts, RecoveryFails
    <3> QED
      BY <3>1
  <2> QED
    BY <2>1, <2>2, <2>3
<1>4. ASSUME NEW q \in Processes, MakesModules(q, k)
      PROVE  MakesModules(q, k)'
  <2>1. q # p
    <3>1. \/ jobs[p] = Idle
          \/ \E at \in {"matched", "leased", "recovered", "capture", "audio", "engine", "key",
                       "lease", "private"} : JobAt(p, at, k)
      BY Zenon DEF EngineStarts, InstallKey, TakeLease, WritePrivateKey, WriteRecord,
         RecordMatches, RecoverLease, RecoverAuth, RecoverEndpoint, CaptureStarts, RecoveryFails
    <3>2. jobs[p].at \notin {"sink", "source"}
      BY <1>1, <3>1, JobHere DEF Idle
    <3>3. jobs[q].at \in {"sink", "source"}
      BY <1>4 DEF MakesModules
    <3> QED
      BY <3>2, <3>3
  <2> QED
    BY <1>4, <2>1 DEF MakesModules, OthersStay
<1>5. \A q \in Processes :
        k \in endpoint[q] \cup cleaning[q] => k \in endpoint'[q] \cup cleaning'[q]
  <2>1. CASE RecoverEndpoint(p, k)
    <3>1. /\ UNCHANGED cleaning
          /\ \/ endpoint' = [endpoint EXCEPT ![p] = @ \cup {k}]
             \/ UNCHANGED endpoint
      BY <2>1, Zenon DEF RecoverEndpoint
    <3> QED
      BY <1>1, <3>1 DEF RecoveryTypes
  <2>2. CASE RecoveryFails(p, k)
    <3>1. /\ endpoint' = [endpoint EXCEPT ![p] = @ \ {k}]
          /\ cleaning' = IF k \in endpoint[p] THEN [cleaning EXCEPT ![p] = @ \cup {k}] ELSE cleaning
      BY <2>2, Zenon DEF RecoveryFails
    <3> QED
      BY <1>1, <3>1 DEF RecoveryTypes
  <2>3. CASE ~RecoverEndpoint(p, k) /\ ~RecoveryFails(p, k)
    <3>1. UNCHANGED <<endpoint, cleaning>>
      BY <2>3, Zenon DEF EngineStarts, InstallKey, TakeLease, WritePrivateKey, WriteRecord,
         RecordMatches, RecoverLease, RecoverAuth, CaptureStarts
    <3> QED
      BY <3>1
  <2> QED
    BY <2>1, <2>2, <2>3
<1> QED
  BY <1>1, <1>2, <1>3, <1>4, <1>5, NothingForgotten

\* What is dropped is handed to a cleanup, or there was no metadata of it.
LEMMA DroppedTracks ==
  ASSUME RecoveryInv, NEW p \in up, NEW k \in Keys, NEW e, Dropped(p, k, e), OthersStay(p, k),
         UNCHANGED modules, k \in endpoint[p] \/ ~dir[k].metadata, ~MakesModules(p, k)
  PROVE  Tracked(k)
<1>1. /\ dir' = [dir EXCEPT ![k] = NoDir]
      /\ endpoint' = [endpoint EXCEPT ![p] = @ \ {k}]
      /\ cleaning' = IF k \in endpoint[p] THEN [cleaning EXCEPT ![p] = @ \cup {k}] ELSE cleaning
  BY Zenon DEF Dropped
<1>2. p \in Processes /\ RecoveryTypes /\ up' = up
  BY DEF RecoveryInv, RecoveryTypes, OthersStay
<1>3. CASE k \in endpoint[p]
  <2>1. k \in cleaning'[p]
    BY <1>1, <1>2, <1>3 DEF RecoveryTypes
  <2> QED
    BY <1>2, <2>1, NotLeaked
<1>4. CASE ~dir[k].metadata
  <2>1. ~dir'[k].metadata
    BY <1>1, <1>2, NoDirIs DEF RecoveryTypes
  <2>2. ASSUME NEW q \in Processes
        PROVE  /\ k \in endpoint[q] \cup cleaning[q] => k \in endpoint'[q] \cup cleaning'[q]
               /\ MakesModules(q, k) => MakesModules(q, k)'
    <3>1. k \in endpoint[q] \cup cleaning[q] => k \in endpoint'[q] \cup cleaning'[q]
      BY <1>1, <1>2 DEF RecoveryTypes
    <3>2. MakesModules(q, k) => MakesModules(q, k)'
      BY DEF MakesModules, OthersStay
    <3> QED
      BY <3>1, <3>2
  <2> QED
    BY <1>2, <1>4, <2>1, <2>2, NothingForgotten
<1> QED
  BY <1>3, <1>4

LEMMA EndTracks ==
  ASSUME RecoveryInv, NEW p \in up, NEW k \in Keys, OthersStay(p, k),
         LaunchFails(p, k) \/ SessionEnds(p, k) \/ CleanEndpoint(p, k)
  PROVE  Tracked(k)
<1>1. p \in Processes /\ RecoveryTypes /\ KeyInv(k) /\ up' = up
  BY DEF RecoveryInv, RecoveryTypes, OthersStay
<1>2. CASE LaunchFails(p, k)
  <2>1. PICK at \in {"audio", "engine", "key", "lease", "private"} : JobAt(p, at, k)
    BY <1>2, Zenon DEF LaunchFails
  <2>2. jobs[p].at = at /\ jobs[p].key = k /\ LaunchOwns(p, k)
    BY <2>1, LaunchKnown DEF LaunchStages
  <2>3. ~MakesModules(p, k) /\ (k \in endpoint[p] \/ ~dir[k].metadata)
    BY <2>2 DEF MakesModules, LaunchOwns, LaunchStages, Making
  <2>4. Dropped(p, k, IF engines[k] = "none" THEN "none" ELSE "dead") /\ UNCHANGED modules
    BY <1>2, Zenon DEF LaunchFails
  <2> QED
    BY <2>3, <2>4, DroppedTracks
<1>3. CASE SessionEnds(p, k)
  <2>1. /\ k \in auth[p] /\ jobs[p].key # k /\ Dropped(p, k, "dead") /\ UNCHANGED modules
    BY <1>3, Zenon DEF SessionEnds
  <2>2. InSession(p, k) /\ ModulesKnown(p, k) /\ ~MakesModules(p, k)
    BY <1>1, <2>1 DEF KeyInv, SessionOwns, InSession, MakesModules
  <2>3. CASE k \in endpoint[p] \/ ~dir[k].metadata
    BY <2>1, <2>2, <2>3, DroppedTracks
  <2>4. CASE modules[k] = {}
    BY <1>1, <2>1, <2>4, NotLeaked
  <2>5. CASE k \notin endpoint[p] /\ faults # 0
    <3>1. auth' = [auth EXCEPT ![p] = @ \ {k}]
      BY <2>1, Zenon DEF Dropped
    <3>2. k \notin auth'[p]
      BY <1>1, <3>1 DEF RecoveryTypes
    <3>3. EndpointGivenUp(k)
      BY <2>2, <2>5, <3>2, Zenon DEF EndpointGivenUp
    <3> QED
      BY <3>3 DEF Tracked
  <2> QED
    BY <2>2, <2>3, <2>4, <2>5 DEF ModulesKnown
<1>4. CASE CleanEndpoint(p, k)
  <2>1. PICK left \in SUBSET modules[k] : modules' = [modules EXCEPT ![k] = left] /\ Unload(left)
    BY <1>4, Zenon DEF CleanEndpoint
  <2> QED
    BY <1>1, <2>1, UnloadTracks
<1> QED
  BY <1>2, <1>3, <1>4

LEMMA NewIdentityTracks ==
  ASSUME RecoveryInv, RecoveryInv', NEW p \in up, NEW k \in Keys, NewIdentity(p, k),
         NEW l \in Keys
  PROVE  Tracked(l)
<1>1. PICK kept \in SUBSET {i \in Keys : Stale(i) /\ dir[i].metadata /\ modules[i] # {}} :
      /\ jobs[p] = Idle /\ k \notin used
      /\ dir' = [i \in Keys |-> IF i = k THEN [NoDir EXCEPT !.owner = p]
                                ELSE IF Stale(i) THEN NoDir ELSE dir[i]]
      /\ modules' = [i \in Keys |-> IF Stale(i) /\ dir[i].metadata /\ i \notin kept
                                   THEN {} ELSE modules[i]]
      /\ Unload(kept)
      /\ jobs' = [jobs EXCEPT ![p] = [at |-> "created", key |-> k]]
      /\ UNCHANGED <<up, endpoint, cleaning>>
  BY Zenon DEF NewIdentity
<1>2. p \in Processes /\ RecoveryTypes /\ KeyInv(k) /\ up' = up
  BY <1>1 DEF RecoveryInv, RecoveryTypes
<1>3. /\ modules'[l] = IF Stale(l) /\ dir[l].metadata /\ l \notin kept THEN {} ELSE modules[l]
      /\ kept # {} => faults' # faults
  BY <1>1, <1>2, FaultsCount DEF RecoveryTypes
<1>4. CASE l = k \/ (Stale(l) /\ dir[l].metadata)
  <2>1. modules[k] = {}
    BY <1>1, <1>2 DEF KeyInv
  <2>2. modules'[l] = {} \/ faults' # faults
    BY <1>3, <1>4, <2>1
  <2> QED
    BY <1>2, <2>2, NotLeaked DEF Tracked
<1>5. CASE l # k /\ ~(Stale(l) /\ dir[l].metadata)
  <2>1. dir'[l].metadata <=> dir[l].metadata
    <3>1. dir'[l] = IF Stale(l) THEN NoDir ELSE dir[l]
      BY <1>1, <1>5
    <3> QED
      BY <1>5, <3>1, NoDirIs
  <2>2. \A q \in Processes : MakesModules(q, l) => MakesModules(q, l)'
    <3>1. ~MakesModules(p, l)
      BY <1>1 DEF MakesModules, Idle
    <3>2. \A q \in Processes \ {p} : jobs'[q] = jobs[q]
      BY <1>1, <1>2 DEF RecoveryTypes
    <3> QED
      BY <3>1, <3>2 DEF MakesModules
  <2> QED
    BY <1>1, <1>2, <1>3, <1>5, <2>1, <2>2, NothingForgotten
<1> QED
  BY <1>4, <1>5

LEMMA StepTracks ==
  ASSUME RecoveryInv, RecoveryInv', [RecoveryNext]_recoveryVars, up' = up, NEW l \in Keys
  PROVE  Tracked(l)
<1>1. CASE UNCHANGED recoveryVars \/ \E k \in Keys : EngineDies(k)
  <2>1. UNCHANGED <<dir, modules, endpoint, cleaning, jobs>>
    BY <1>1, Zenon DEF recoveryVars, EngineDies
  <2> QED
    BY <2>1, NothingForgotten DEF MakesModules
<1>2. CASE (\E p \in Processes : ProcessStarts(p)) \/ (\E p \in up : ProcessExits(p))
  BY <1>2 DEF ProcessStarts, ProcessExits
<1>3. ASSUME NEW p \in up, NEW k \in Keys, NewIdentity(p, k)
      PROVE  Tracked(l)
  BY <1>3, NewIdentityTracks
<1>4. ASSUME NEW p \in up, NEW k \in Keys,
             SessionEnds(p, k) \/ CleanEndpoint(p, k) \/ LaunchFails(p, k)
      PROVE  Tracked(l)
  <2>1. OthersStay(p, k)
    BY <1>4, SessionEndsKeeps, CleanEndpointKeeps, LaunchFailsKeeps
  <2> QED
    BY <1>4, <2>1, EndTracks, OtherKeysTracked
<1>5. ASSUME NEW p \in up, NEW k \in Keys,
             \/ EngineStarts(p, k) \/ InstallKey(p, k) \/ TakeLease(p, k)
             \/ WritePrivateKey(p, k)
             \/ WriteRecord(p, k) \/ RecordMatches(p, k) \/ RecoverLease(p, k) \/ RecoverAuth(p, k)
             \/ RecoverEndpoint(p, k) \/ CaptureStarts(p, k) \/ RecoveryFails(p, k)
      PROVE  Tracked(l)
  <2>1. OthersStay(p, k)
    BY <1>5, EngineLaunchKeeps, WriteRecordKeeps, RecordMatchesKeeps, RecoverLeaseKeeps, RecoverAuthKeeps,
       RecoverEndpointKeeps, CaptureStartsKeeps, RecoveryFailsKeeps
  <2> QED
    BY <1>5, <2>1, QuietTracks, OtherKeysTracked
<1>6. ASSUME NEW p \in up, NEW k \in Keys,
             LoadSink(p, k) \/ LoadSource(p, k) \/ WriteMetadata(p, k) \/ EndpointFails(p, k)
      PROVE  Tracked(l)
  <2>1. OthersStay(p, k)
    BY <1>6, MakingKeeps
  <2> QED
    BY <1>6, <2>1, MakingTracks, OtherKeysTracked
<1>7. \A p \in Processes : {jobs[p].key} \ {NoKey} \subseteq Keys
  BY DEF RecoveryInv, RecoveryTypes, Idle
<1>8. up \subseteq Processes
  BY DEF RecoveryInv, RecoveryTypes
<1>9. CASE \E p \in up, k \in Keys :
             NewIdentity(p, k) \/ SessionEnds(p, k) \/ CleanEndpoint(p, k) \/ RecordMatches(p, k)
  BY <1>3, <1>4, <1>5, <1>9
<1>10. ASSUME NEW p \in up, NEW k \in {jobs[p].key} \ {NoKey},
              \/ LoadSink(p, k) \/ LoadSource(p, k) \/ WriteMetadata(p, k) \/ EndpointFails(p, k)
              \/ EngineStarts(p, k) \/ InstallKey(p, k) \/ TakeLease(p, k)
              \/ WritePrivateKey(p, k) \/ WriteRecord(p, k) \/ LaunchFails(p, k)
              \/ RecoverLease(p, k) \/ RecoverAuth(p, k) \/ RecoverEndpoint(p, k)
              \/ CaptureStarts(p, k) \/ RecoveryFails(p, k)
       PROVE  Tracked(l)
  BY <1>4, <1>5, <1>6, <1>7, <1>8, <1>10
<1> QED
  BY <1>1, <1>2, <1>9, <1>10, Zenon DEF RecoveryNext

\* No step of a running process loses track of modules it has loaded into the
\* sound server while the server does what it is asked: only a process that ends in
\* the middle of making or of unloading an endpoint does, a call of pactl that fails
\* in that step, and the end of a session whose recovery a fault has kept from its
\* endpoint.
THEOREM OnlyAnExitLeaksCorrect == RecoverySpec => OnlyAnExitLeaks
<1> DEFINE A == \A k \in Keys : ~Leaked(k) /\ Leaked(k)'
                  => up' # up \/ faults' # faults \/ EndpointGivenUp(k)
<1>1. RecoveryInv /\ RecoveryInv' /\ [RecoveryNext]_recoveryVars => [A]_recoveryVars
  <2> SUFFICES ASSUME RecoveryInv, RecoveryInv', [RecoveryNext]_recoveryVars
               PROVE  A
    OBVIOUS
  <2> QED
    BY StepTracks DEF Tracked
<1>2. RecoverySpec => [][A]_recoveryVars
  BY <1>1, RecoveryInvariant, PTL DEF RecoverySpec
<1> QED
  BY <1>2 DEF OnlyAnExitLeaks
===============================================================================
