----------------------------- MODULE ServiceProofs -----------------------------
(***************************************************************************)
(* Proofs about the services around the devices' phases: the operations    *)
(* (OperationBatch), for any targets and number of files, the engine's     *)
(* processes (EngineLaunch), for any number of attempts and pids, and the  *)
(* workspace (Workspace), for any AVDs, gestures and restarts.  Then, that *)
(* all components of MCServices keep their promises side by side.          *)
(***************************************************************************)
EXTENDS MCServices, InputQueueProofs, StreamProofs, StoreProofs, FiniteSetTheorems,
        SequenceTheorems, TLAPS

-----------------------------------------------------------------------------
(* The inductive invariant of OperationBatch.                               *)

OperationRecords == [kind : Kinds, stage : {"idle", "confirm", "run", "done"}, left : Seq(Targets),
                     canceled : BOOLEAN]
TargetTasks == [at : {"none", "connect", "shoot", "publish", "stop", "stopping", "spawn", "wait", "clean"},
                pc : Nat, staged : SUBSET (1 .. Items), published : SUBSET (1 .. Items),
                outcome : TargetResults]
AdbProcesses == [at : {"none", "running", "exited"}, ok : BOOLEAN, acted : BOOLEAN]

OperationTypes ==
  /\ sessions \subseteq Targets /\ listed \subseteq Targets
  /\ operation \in OperationRecords /\ results \in [Targets -> TargetResults]
  /\ task \in TargetTasks /\ adb \in AdbProcesses
  /\ guestFiles \in [Targets -> [1 .. Items -> Guests]]
  /\ pictures \in [Targets -> Targets \cup {NoTarget}] /\ strays \in [Targets -> Nat]

Failures == {"failed", "canceled", "stale"}
Partless(t) == \A i \in 1 .. Items : guestFiles[t][i].part = "none"
Driving == {"spawn", "wait", "clean"}      \* where a task drives adb
Untouched(t) == results[t] = "waiting" /\ Partless(t)

\* Where the operation is: what it has not come to is untouched.
StageInv ==
  /\ operation.stage \in {"idle", "confirm"} => \A t \in Targets : Untouched(t)
  /\ operation.stage \in {"confirm", "run"} => operation.left # <<>>
  /\ operation.stage \in {"idle", "done"} => operation.left = <<>>
  /\ task.at # "none" => operation.stage = "run"
  /\ task.at = "clean" => task.outcome \in Failures
  /\ task.at \in {"spawn", "wait"} => operation.kind \in Controlled /\ task.pc \in 1 .. Len(Program)
  /\ task.at \in {"stop", "stopping"} => operation.kind = "stop"
  /\ adb.at # "none" => task.at \in {"wait", "clean"}
  /\ adb.at = "none" => ~adb.ok /\ ~adb.acted
LeftInv ==
  /\ \A j, k \in 1 .. Len(operation.left) : j < k => operation.left[j] # operation.left[k]
  /\ \A k \in 1 .. Len(operation.left) :
       /\ results[operation.left[k]] = "waiting"
       /\ k > 1 \/ task.at \notin Driving => Partless(operation.left[k])

\* The places in PushProgram of an item's push and of the look whether its part has gone.
PushAt(i) == 1 + Items + i
GoneAt(i) == 2 * Items + 3 * i

\* An item while the commands run: its part is known, and once it was pushed a
\* part that is gone is the published file.
ItemInv(i, f) ==
  /\ f.part # "none" => /\ i \in task.staged /\ operation.kind = "push"
                        /\ PushAt(i) < task.pc \/ (PushAt(i) = task.pc /\ task.at = "wait")
  /\ operation.kind = "push" /\ PushAt(i) < task.pc /\ f.part = "none" => f.file = "ours"
  /\ GoneAt(i) < task.pc => f.part = "none"
  /\ i \in task.published => f.file = "ours"

RunInv ==
  task.at \in {"spawn", "wait"} /\ Target \in sessions =>
    /\ \A i \in 1 .. Items : ItemInv(i, guestFiles[Target][i])
    /\ task.at = "wait" /\ Command.do = "push" => Command.item \in task.staged
    /\ adb.ok /\ Command.do = "push" => guestFiles[Target][Command.item].part # "none"
    /\ adb.ok /\ Command.do = "gone" => guestFiles[Target][Command.item].part = "none"

\* The cleanup knows all that is there, and removes no file of another.
CleanInv ==
  task.at = "clean" /\ Target \in sessions =>
    \A i \in 1 .. Items :
      /\ guestFiles[Target][i].part # "none" => i \in task.staged
      /\ adb.acted => guestFiles[Target][i].part = "none"
      /\ ~adb.acted /\ i \in task.published => guestFiles[Target][i].file = "ours"

ResultInv(t) ==
  /\ results[t] = "succeeded" =>
       Partless(t) /\ (operation.kind = "screenshot" => pictures[PictureOf(t)] = t)
  /\ strays[t] <= 1 /\ (t \in sessions => strays[t] = 0)
  /\ adb.at = "running" /\ Target = t /\ strays[t] # 0 => adb.acted

OperationInv ==
  /\ OperationTypes /\ StageInv /\ LeftInv /\ RunInv /\ CleanInv
  /\ \A t \in Targets : ResultInv(t)

-----------------------------------------------------------------------------
(* The program of a push.                                                   *)

Commands == [do : {"mkdir", "absent", "push", "move", "gone", "isfile"}, item : Nat]

LEMMA EachIs ==
  ASSUME NEW command \in {"absent", "push"}
  PROVE  /\ Each(command) \in Seq(Commands) /\ Len(Each(command)) = Items
         /\ \A i \in 1 .. Items : Each(command)[i] = [do |-> command, item |-> i]
BY OperationAssumption DEF Each, Commands

LEMMA PublishingIs ==
  /\ Publishing \in Seq(Commands) /\ Len(Publishing) = 3 * Items
  /\ \A n \in 1 .. 3 * Items :
       /\ Publishing[n].do \in {"move", "gone", "isfile"} /\ Publishing[n].item \in 1 .. Items
       /\ Publishing[n].do = "move" => 3 * Publishing[n].item = n + 2
       /\ Publishing[n].do = "gone" => 3 * Publishing[n].item = n + 1
       /\ Publishing[n].do = "isfile" => 3 * Publishing[n].item = n
       /\ \A i \in 1 .. Items : 3 * i = n + 1 => Publishing[n].do = "gone" /\ Publishing[n].item = i
<1>1. ASSUME NEW n \in 1 .. 3 * Items
      PROVE  LET k == ((n - 1) % 3) + 1  i == ((n - 1) \div 3) + 1 IN
             /\ k \in 1 .. 3 /\ i \in 1 .. Items /\ n = 3 * (i - 1) + k
             /\ Publishing[n] = [do |-> <<"move", "gone", "isfile">>[k], item |-> i]
  BY OperationAssumption DEF Publishing
<1>2. ASSUME NEW n \in 1 .. 3 * Items
      PROVE  \E k \in 1 .. 3, i \in 1 .. Items :
               /\ n = 3 * (i - 1) + k
               /\ Publishing[n] = [do |-> <<"move", "gone", "isfile">>[k], item |-> i]
  BY <1>1
<1>3. ASSUME NEW n \in 1 .. 3 * Items
      PROVE  /\ Publishing[n] \in Commands
             /\ Publishing[n].do \in {"move", "gone", "isfile"} /\ Publishing[n].item \in 1 .. Items
             /\ Publishing[n].do = "move" => 3 * Publishing[n].item = n + 2
             /\ Publishing[n].do = "gone" => 3 * Publishing[n].item = n + 1
             /\ Publishing[n].do = "isfile" => 3 * Publishing[n].item = n
             /\ \A i \in 1 .. Items : 3 * i = n + 1 => Publishing[n].do = "gone" /\ Publishing[n].item = i
  <2>1. PICK k \in 1 .. 3, i \in 1 .. Items :
          /\ n = 3 * (i - 1) + k
          /\ Publishing[n] = [do |-> <<"move", "gone", "isfile">>[k], item |-> i]
    BY <1>2
  <2>2. k = 1 \/ k = 2 \/ k = 3
    OBVIOUS
  <2>3. CASE k = 1
    BY <2>1, <2>3, OperationAssumption DEF Commands
  <2>4. CASE k = 2
    BY <2>1, <2>4, OperationAssumption DEF Commands
  <2>5. CASE k = 3
    BY <2>1, <2>5, OperationAssumption DEF Commands
  <2> QED
    BY <2>2, <2>3, <2>4, <2>5
<1>4. Publishing \in Seq(Commands) /\ Len(Publishing) = 3 * Items
  <2>1. 3 * Items \in Nat /\ Publishing = [n \in 1 .. 3 * Items |-> Publishing[n]]
    BY OperationAssumption DEF Publishing
  <2>2. Publishing \in [1 .. 3 * Items -> Commands]
    BY <2>1, <1>3, Zenon
  <2>3. Publishing \in Seq(Commands)
    BY <2>1, <2>2, SeqDef
  <2>4. DOMAIN Publishing = 1 .. 3 * Items /\ DOMAIN Publishing = 1 .. Len(Publishing)
    BY <2>2, <2>3, LenProperties
  <2> QED
    BY <2>1, <2>3, <2>4, LenProperties
<1> QED
  BY <1>3, <1>4

LEMMA JoinedIs ==
  ASSUME NEW s \in Seq(Commands), NEW r \in Seq(Commands)
  PROVE  /\ s \o r \in Seq(Commands) /\ Len(s \o r) = Len(s) + Len(r)
         /\ \A k \in 1 .. Len(s) : (s \o r)[k] = s[k]
         /\ \A k \in 1 .. Len(r) : (s \o r)[Len(s) + k] = r[k]
<1> DEFINE m == Len(s)  n == Len(r)
<1>1. m \in Nat /\ n \in Nat
  BY LenProperties
<1>2. /\ s \o r \in Seq(Commands) /\ Len(s \o r) = m + n
      /\ \A i \in 1 .. m + n : (s \o r)[i] = IF i <= m THEN s[i] ELSE r[i - m]
  BY ConcatProperties
<1> HIDE DEF m, n
<1>3. \A k \in 1 .. m : (s \o r)[k] = s[k]
  BY <1>1, <1>2
<1>4. ASSUME NEW k \in 1 .. n PROVE (s \o r)[m + k] = r[k]
  <2>1. PICK i : i = m + k
    OBVIOUS
  <2>2. i \in 1 .. m + n /\ ~(i <= m) /\ i - m = k
    BY <1>1, <2>1
  <2>3. (s \o r)[i] = r[i - m]
    BY <1>2, <2>2
  <2> QED
    BY <2>1, <2>2, <2>3
<1> QED
  BY <1>2, <1>3, <1>4 DEF m, n

LEMMA ProgramIs ==
  ASSUME NEW pc \in 1 .. 5 * Items + 1, NEW c, c = PushProgram[pc]
  PROVE  /\ Len(PushProgram) = 5 * Items + 1
         /\ c.do \in {"mkdir", "absent", "push", "move", "gone", "isfile"}
         /\ c.do = "push" => c.item \in 1 .. Items /\ PushAt(c.item) = pc
         /\ c.do = "move" => c.item \in 1 .. Items /\ GoneAt(c.item) = pc + 1
         /\ c.do = "gone" => c.item \in 1 .. Items /\ GoneAt(c.item) = pc
         /\ c.do = "isfile" => c.item \in 1 .. Items /\ GoneAt(c.item) = pc - 1
         /\ \A i \in 1 .. Items : /\ PushAt(i) = pc => c.do = "push" /\ c.item = i
                                  /\ GoneAt(i) = pc => c.do = "gone" /\ c.item = i
<1> DEFINE A == Each("absent")  P == Each("push")  M == <<[do |-> "mkdir", item |-> 0]>>
<1>1. Items \in Nat \ {0}
  BY OperationAssumption
<1>2. /\ A \in Seq(Commands) /\ P \in Seq(Commands) /\ M \in Seq(Commands) /\ Publishing \in Seq(Commands)
      /\ Len(A) = Items /\ Len(P) = Items /\ Len(M) = 1 /\ Len(Publishing) = 3 * Items
  <2>1. A \in Seq(Commands) /\ P \in Seq(Commands) /\ Len(A) = Items /\ Len(P) = Items
    BY EachIs, <1>1
  <2>2. M \in Seq(Commands) /\ Len(M) = 1
    BY DEF Commands
  <2>3. Publishing \in Seq(Commands) /\ Len(Publishing) = 3 * Items
    BY PublishingIs, <1>1
  <2> QED
    BY <2>1, <2>2, <2>3
<1>3. PushProgram = M \o A \o P \o Publishing
  BY Zenon DEF PushProgram
<1>4. \A i \in 1 .. Items : A[i] = [do |-> "absent", item |-> i] /\ P[i] = [do |-> "push", item |-> i]
  BY EachIs
<1>5. M[1] = [do |-> "mkdir", item |-> 0]
  OBVIOUS
<1> HIDE DEF A, P, M
<1>6. PICK MA : MA = M \o A
  OBVIOUS
<1>7. PICK MAP : MAP = MA \o P
  OBVIOUS
<1>8. /\ MA \in Seq(Commands) /\ Len(MA) = 1 + Items /\ MA[1] = M[1]
      /\ \A k \in 1 .. Items : MA[1 + k] = A[k]
  <2>1. /\ MA \in Seq(Commands) /\ Len(MA) = Len(M) + Len(A)
        /\ \A k \in 1 .. Len(M) : MA[k] = M[k]
        /\ \A k \in 1 .. Len(A) : MA[Len(M) + k] = A[k]
    BY <1>2, <1>6, JoinedIs
  <2> QED
    BY <1>1, <1>2, <2>1
<1>9. /\ MAP \in Seq(Commands) /\ Len(MAP) = 1 + Items + Items
      /\ \A k \in 1 .. 1 + Items : MAP[k] = MA[k]
      /\ \A k \in 1 .. Items : MAP[1 + Items + k] = P[k]
  <2>1. MA \in Seq(Commands) /\ P \in Seq(Commands) /\ MAP = MA \o P
    BY <1>2, <1>7, <1>8
  <2>2. /\ MA \o P \in Seq(Commands) /\ Len(MA \o P) = Len(MA) + Len(P)
        /\ \A k \in 1 .. Len(MA) : (MA \o P)[k] = MA[k]
        /\ \A k \in 1 .. Len(P) : (MA \o P)[Len(MA) + k] = P[k]
    BY <2>1, JoinedIs
  <2>3. /\ MAP \in Seq(Commands) /\ Len(MAP) = Len(MA) + Len(P)
        /\ \A k \in 1 .. Len(MA) : MAP[k] = MA[k]
        /\ \A k \in 1 .. Len(P) : MAP[Len(MA) + k] = P[k]
    BY <2>1, <2>2
  <2> QED
    BY <1>1, <1>2, <1>8, <2>3
<1>10. /\ Len(PushProgram) = 1 + Items + Items + 3 * Items
       /\ \A k \in 1 .. 1 + Items + Items : PushProgram[k] = MAP[k]
       /\ \A k \in 1 .. 3 * Items : PushProgram[1 + Items + Items + k] = Publishing[k]
  <2>1. MAP \in Seq(Commands) /\ Publishing \in Seq(Commands) /\ PushProgram = MAP \o Publishing
    BY <1>2, <1>3, <1>6, <1>7, <1>9
  <2>2. /\ MAP \o Publishing \in Seq(Commands) /\ Len(MAP \o Publishing) = Len(MAP) + Len(Publishing)
        /\ \A k \in 1 .. Len(MAP) : (MAP \o Publishing)[k] = MAP[k]
        /\ \A k \in 1 .. Len(Publishing) : (MAP \o Publishing)[Len(MAP) + k] = Publishing[k]
    BY <2>1, JoinedIs
  <2>3. /\ PushProgram \in Seq(Commands) /\ Len(PushProgram) = Len(MAP) + Len(Publishing)
        /\ \A k \in 1 .. Len(MAP) : PushProgram[k] = MAP[k]
        /\ \A k \in 1 .. Len(Publishing) : PushProgram[Len(MAP) + k] = Publishing[k]
    BY <2>1, <2>2
  <2> QED
    BY <1>1, <1>2, <1>9, <2>3
<1>11. Len(PushProgram) = 5 * Items + 1
  BY <1>1, <1>10
<1>12. CASE pc = 1
  <2>1. c = M[1]
    BY <1>1, <1>8, <1>9, <1>10, <1>12
  <2> QED
    BY <1>1, <1>5, <1>11, <1>12, <2>1 DEF PushAt, GoneAt
<1>13. ASSUME NEW k \in 1 .. Items, pc = 1 + k
       PROVE  c = A[k]
  BY <1>1, <1>8, <1>9, <1>10, <1>13
<1>14. ASSUME NEW k \in 1 .. Items, pc = 1 + Items + k
       PROVE  c = P[k]
  BY <1>1, <1>9, <1>10, <1>14
<1>15. ASSUME NEW k \in 1 .. 3 * Items, pc = 1 + Items + Items + k
       PROVE  c = Publishing[k]
  BY <1>1, <1>10, <1>15
<1>16. CASE \E k \in 1 .. Items : pc = 1 + k
  <2>1. PICK k \in 1 .. Items : pc = 1 + k
    BY <1>16
  <2>2. c = [do |-> "absent", item |-> k]
    BY <1>4, <1>13, <2>1, Zenon
  <2> QED
    BY <1>1, <1>11, <2>1, <2>2 DEF PushAt, GoneAt
<1>17. CASE \E k \in 1 .. Items : pc = 1 + Items + k
  <2>1. PICK k \in 1 .. Items : pc = 1 + Items + k
    BY <1>17
  <2>2. c = [do |-> "push", item |-> k]
    BY <1>4, <1>14, <2>1, Zenon
  <2> QED
    BY <1>1, <1>11, <2>1, <2>2 DEF PushAt, GoneAt
<1>18. CASE \E k \in 1 .. 3 * Items : pc = 1 + Items + Items + k
  <2>1. PICK k \in 1 .. 3 * Items : pc = 1 + Items + Items + k
    BY <1>18
  <2>2. /\ c.do \in {"move", "gone", "isfile"} /\ c.item \in 1 .. Items
        /\ c.do = "move" => 3 * c.item = k + 2
        /\ c.do = "gone" => 3 * c.item = k + 1
        /\ c.do = "isfile" => 3 * c.item = k
        /\ \A i \in 1 .. Items : 3 * i = k + 1 => c.do = "gone" /\ c.item = i
    BY <1>15, <2>1, PublishingIs
  <2> QED
    BY <1>1, <1>11, <2>1, <2>2 DEF PushAt, GoneAt
<1>19. \/ pc = 1 \/ \E k \in 1 .. Items : pc = 1 + k
       \/ \E k \in 1 .. Items : pc = 1 + Items + k
       \/ \E k \in 1 .. 3 * Items : pc = 1 + Items + Items + k
  <2>1. \/ pc = 1 \/ pc - 1 \in 1 .. Items \/ pc - 1 - Items \in 1 .. Items
        \/ pc - 1 - Items - Items \in 1 .. 3 * Items
    BY <1>1
  <2>2. /\ pc = 1 + (pc - 1) /\ pc = 1 + Items + (pc - 1 - Items)
        /\ pc = 1 + Items + Items + (pc - 1 - Items - Items)
    BY <1>1
  <2> QED
    BY <2>1, <2>2, Zenon
<1> QED
  BY <1>12, <1>16, <1>17, <1>18, <1>19

-----------------------------------------------------------------------------
(* Steps of an operation.                                                   *)

\* The program of the operation, and its steps.
LEMMA CommandIs ==
  ASSUME OperationInv, task.at \in {"spawn", "wait"}, NEW c, c = Command, NEW pc, pc = task.pc
  PROVE  /\ pc \in 1 .. Len(Program) /\ Len(Program) \in Nat
         /\ operation.kind = "push" => Len(Program) = 5 * Items + 1
         /\ operation.kind = "install" => Len(Program) = 1
         /\ c.do \in {"mkdir", "absent", "push", "move", "gone", "isfile", "install"}
         /\ c.do = "push" => c.item \in 1 .. Items /\ PushAt(c.item) = pc
         /\ c.do = "move" => c.item \in 1 .. Items /\ GoneAt(c.item) = pc + 1
         /\ c.do = "gone" => c.item \in 1 .. Items /\ GoneAt(c.item) = pc
         /\ c.do = "isfile" => c.item \in 1 .. Items /\ GoneAt(c.item) = pc - 1
         /\ operation.kind = "install" => c.do = "install"
         /\ operation.kind = "push" =>
              \A i \in 1 .. Items : /\ PushAt(i) = pc => c.do = "push" /\ c.item = i
                                    /\ GoneAt(i) = pc => c.do = "gone" /\ c.item = i
<1>1. /\ operation.kind \in Controlled /\ task.pc \in 1 .. Len(Program)
      /\ c = Program[pc] /\ Items \in Nat \ {0}
  BY OperationAssumption DEF OperationInv, StageInv, Command
<1>2. CASE operation.kind = "push"
  <2>1. Program = PushProgram
    BY <1>2 DEF Program
  <2>2. 1 \in 1 .. 5 * Items + 1 /\ Len(PushProgram) = 5 * Items + 1
    <3>1. 1 \in 1 .. 5 * Items + 1
      BY <1>1
    <3> QED
      BY <3>1, ProgramIs
  <2>3. pc \in 1 .. 5 * Items + 1 /\ c = PushProgram[pc]
    BY <1>1, <2>1, <2>2
  <2> QED
    BY <1>1, <1>2, <2>1, <2>2, <2>3, ProgramIs
<1>3. CASE operation.kind = "install"
  <2>1. Program = <<[do |-> "install", item |-> 0]>>
    BY <1>3 DEF Program
  <2>2. Len(Program) = 1 /\ pc = 1 /\ c.do = "install"
    BY <1>1, <2>1
  <2> QED
    BY <1>1, <1>3, <2>2
<1> QED
  BY <1>1, <1>2, <1>3 DEF Controlled

LEMMA TargetIs ==
  ASSUME OperationInv, operation.stage = "run"
  PROVE  /\ OperationTypes /\ operation.left \in Seq(Targets) /\ operation.left # <<>>
         /\ Target \in Targets /\ Len(operation.left) \in Nat /\ 1 \in 1 .. Len(operation.left)
         /\ Target = operation.left[1] /\ results[Target] = "waiting"
         /\ task.at \notin Driving => Partless(Target)
<1>1. OperationTypes /\ operation.left \in Seq(Targets) /\ operation.left # <<>>
  BY DEF OperationInv, StageInv, OperationTypes, OperationRecords
<1>2. Len(operation.left) \in Nat /\ 1 \in 1 .. Len(operation.left)
  BY <1>1
<1>3. Target = operation.left[1] /\ Target \in Targets
  BY <1>1 DEF Target
<1> QED
  BY <1>1, <1>2, <1>3 DEF OperationInv, LeftInv

LEMMA FinishIs ==
  ASSUME OperationTypes, NEW result, Finish(result), NEW t, t = Target
  PROVE  /\ results' = [results EXCEPT ![t] = result]
         /\ operation'.kind = operation.kind /\ operation'.canceled = operation.canceled
         /\ operation'.left = Tail(operation.left)
         /\ operation'.stage = IF Len(operation.left) = 1 THEN "done" ELSE operation.stage
         /\ operation' = [kind |-> operation'.kind, stage |-> operation'.stage,
                          left |-> operation'.left, canceled |-> operation'.canceled]
         /\ task' = NoTargetTask
<1>1. operation \in OperationRecords
  BY DEF OperationTypes
<1>2. /\ results' = [results EXCEPT ![t] = result] /\ task' = NoTargetTask
      /\ operation' = [operation EXCEPT !.left = Tail(@),
                                        !.stage = IF Len(operation.left) = 1 THEN "done" ELSE @]
  BY Zenon DEF Finish
<1> QED
  BY <1>1, <1>2 DEF OperationRecords

LEMMA FinishKeeps ==
  ASSUME OperationInv, operation.stage = "run",
         NEW result \in TargetResults, result # "waiting", Finish(result),
         result = "succeeded" =>
           Partless(Target) /\ (operation.kind = "screenshot" => pictures'[PictureOf(Target)] = Target),
         UNCHANGED <<listed, guestFiles, strays>>, sessions' \subseteq sessions,
         adb' \in AdbProcesses, adb'.at = "none", ~adb'.ok, ~adb'.acted,
         pictures' \in [Targets -> Targets \cup {NoTarget}],
         \A t \in Targets : results[t] = "succeeded" /\ operation.kind = "screenshot" =>
                              pictures'[PictureOf(t)] = pictures[PictureOf(t)]
  PROVE  OperationInv'
<1>1. PICK t, left, n, rest : t = Target /\ left = operation.left /\ n = Len(left) /\ rest = Tail(left)
  OBVIOUS
<1>2. /\ OperationTypes /\ left \in Seq(Targets) /\ left # <<>> /\ t \in Targets /\ n \in Nat
      /\ 1 \in 1 .. n /\ t = left[1] /\ results \in [Targets -> TargetResults]
  BY <1>1, TargetIs DEF OperationTypes
<1>3. /\ results' = [results EXCEPT ![t] = result] /\ operation'.kind = operation.kind
      /\ operation'.left = rest /\ task' = NoTargetTask
      /\ operation'.stage = IF n = 1 THEN "done" ELSE operation.stage
      /\ operation'.canceled = operation.canceled
      /\ operation' = [kind |-> operation'.kind, stage |-> operation'.stage,
                       left |-> operation'.left, canceled |-> operation'.canceled]
  BY <1>1, <1>2, FinishIs, Zenon
<1>4. /\ rest \in Seq(Targets) /\ Len(rest) = n - 1
      /\ \A k \in 1 .. n - 1 : rest[k] = left[k + 1]
      /\ (n = 1) <=> (rest = <<>>)
  <2>1. /\ rest \in Seq(Targets) /\ Len(rest) = n - 1
        /\ \A k \in 1 .. n - 1 : rest[k] = left[k + 1]
    BY <1>1, <1>2, HeadTailProperties
  <2>2. rest = <<>> => n - 1 = 0
    BY <2>1, EmptySeq
  <2>3. n - 1 = 0 => rest = <<>>
    BY <2>1, EmptySeq
  <2> QED
    BY <1>2, <2>1, <2>2, <2>3
<1>5. NoTargetTask \in TargetTasks /\ NoTargetTask.at = "none"
  BY DEF NoTargetTask, TargetTasks, TargetResults
<1>6. OperationTypes'
  <2>1. operation' \in OperationRecords
    BY <1>2, <1>3, <1>4 DEF OperationTypes, OperationRecords
  <2> QED
    BY <1>2, <1>3, <1>5, <2>1 DEF OperationTypes
<1>7. StageInv'
  BY <1>2, <1>3, <1>4, <1>5 DEF StageInv
<1>8. LeftInv'
  <2>1. \A j, k \in 1 .. n - 1 : j < k => rest[j] # rest[k]
    <3>1. \A j, k \in 1 .. n : j < k => left[j] # left[k]
      BY <1>1 DEF OperationInv, LeftInv
    <3>2. \A j \in 1 .. n - 1 : j + 1 \in 1 .. n
      BY <1>2
    <3> QED
      BY <1>2, <1>4, <3>1, <3>2
  <2>2. ASSUME NEW k \in 1 .. n - 1
        PROVE  results'[rest[k]] = "waiting" /\ Partless(rest[k])
    <3>1. PICK m : m = k + 1
      OBVIOUS
    <3>2. m \in 1 .. n /\ 1 < m /\ rest[k] = left[m] /\ left[m] \in Targets
      <4>1. k + 1 \in 1 .. n /\ 1 < k + 1 /\ left[k + 1] \in Targets
        BY <1>1, <1>2, ElementOfSeq
      <4>2. rest[k] = left[k + 1]
        BY <1>4
      <4> QED
        BY <3>1, <4>1, <4>2
    <3>3. /\ \A i, j \in 1 .. n : i < j => left[i] # left[j]
          /\ \A j \in 1 .. n : results[left[j]] = "waiting" /\ (j > 1 => Partless(left[j]))
      <4>1. LeftInv
        BY DEF OperationInv
      <4> QED
        BY <1>1, <4>1, Zenon DEF LeftInv
    <3>4. left[m] # t /\ results[left[m]] = "waiting" /\ Partless(left[m])
      BY <1>2, <3>2, <3>3
    <3> QED
      BY <1>2, <1>3, <3>2, <3>4
  <2>3. \A k \in 1 .. n - 1 : Partless(rest[k])'
    BY <2>2, <1>3 DEF Partless
  <2> QED
    BY <1>3, <1>4, <2>1, <2>2, <2>3 DEF LeftInv
<1>9. RunInv' /\ CleanInv'
  BY <1>3, <1>5 DEF RunInv, CleanInv
<1>10. ASSUME NEW u \in Targets
       PROVE  ResultInv(u)'
  <2>1. ResultInv(u)
    BY DEF OperationInv
  <2>2. results'[u] = IF u = t THEN result ELSE results[u]
    BY <1>2, <1>3
  <2>3. Partless(u) => Partless(u)'
    BY DEF Partless
  <2> QED
    BY <1>1, <1>3, <2>1, <2>2, <2>3 DEF ResultInv
<1> QED
  BY <1>6, <1>7, <1>8, <1>9, <1>10 DEF OperationInv

\* A step of the task at the head alone.
LEMMA TaskKeeps ==
  ASSUME OperationInv, operation.stage = "run",
         UNCHANGED <<sessions, listed, operation, results, guestFiles, pictures, strays>>,
         task' \in TargetTasks, adb' \in AdbProcesses,
         task'.at \notin Driving => Partless(Target),
         task'.at = "clean" => task'.outcome \in Failures,
         task'.at \in {"spawn", "wait"} => operation.kind \in Controlled /\ task'.pc \in 1 .. Len(Program),
         task'.at \in {"stop", "stopping"} => operation.kind = "stop",
         adb'.at # "none" => task'.at \in {"wait", "clean"},
         adb'.at = "none" => ~adb'.ok /\ ~adb'.acted,
         adb'.at = "running" /\ Target \notin sessions => adb'.acted \/ (adb.at = "running" /\ ~adb.acted),
         RunInv', CleanInv'
  PROVE  OperationInv'
<1>1. OperationTypes' /\ OperationTypes
  BY DEF OperationInv, OperationTypes
<1>2. StageInv'
  <2>1. Program' = Program
    BY DEF Program
  <2> QED
    BY <2>1 DEF OperationInv, StageInv
<1>3. LeftInv'
  <2>1. \A k \in 1 .. Len(operation.left) : k > 1 \/ operation.left[k] = Target
    BY TargetIs
  <2>2. \A t \in Targets : Partless(t) = Partless(t)'
    BY DEF Partless
  <2>3. \A k \in 1 .. Len(operation.left) : operation.left[k] \in Targets
    BY TargetIs
  <2>4. \A k \in 1 .. Len(operation.left) :
          /\ results[operation.left[k]] = "waiting"
          /\ k > 1 \/ task'.at \notin Driving => Partless(operation.left[k])'
    BY <2>1, <2>2, <2>3 DEF OperationInv, LeftInv
  <2>5. \A j, k \in 1 .. Len(operation.left) : j < k => operation.left[j] # operation.left[k]
    BY DEF OperationInv, LeftInv
  <2> QED
    BY <2>4, <2>5, Zenon DEF LeftInv
<1>4. ASSUME NEW u \in Targets
      PROVE  ResultInv(u)'
  <2>1. ResultInv(u) /\ strays[u] \in Nat
    BY <1>1 DEF OperationInv, OperationTypes
  <2>2. Partless(u) = Partless(u)' /\ Target' = Target
    BY DEF Partless, Target
  <2> QED
    BY <2>1, <2>2 DEF ResultInv
<1> QED
  BY <1>1, <1>2, <1>3, <1>4 DEF OperationInv

LEMMA NoAdbIs == NoAdb \in AdbProcesses /\ NoAdb.at = "none" /\ ~NoAdb.ok /\ ~NoAdb.acted
BY DEF NoAdb, AdbProcesses

LEMMA EndingIs ==
  ASSUME NEW otherwise
  PROVE  /\ Ending(otherwise) \in {"stale", "canceled", otherwise}
         /\ Ending("go") = "go" => Target \in sessions
BY DEF Ending

\* While a task drives adb no picture is made.
LEMMA Driven ==
  ASSUME OperationInv, task.at # "none"
  PROVE  /\ operation.stage = "run" /\ OperationTypes /\ task \in TargetTasks
         /\ pictures' = pictures => /\ pictures' \in [Targets -> Targets \cup {NoTarget}]
                                    /\ \A t \in Targets : results[t] = "succeeded" /\ operation.kind = "screenshot" =>
                                         pictures'[PictureOf(t)] = pictures[PictureOf(t)]
         /\ task.at = "clean" => task.outcome \in Failures
BY DEF OperationInv, OperationTypes, StageInv

LEMMA GiveUpKeeps ==
  ASSUME OperationInv, task.at \in {"spawn", "wait"}, NEW outcome \in Failures,
         NEW staged \in SUBSET (1 .. Items), task.staged \subseteq staged, GiveUp(outcome, staged),
         UNCHANGED <<sessions, listed, guestFiles, pictures, strays>>,
         adb' \in AdbProcesses, adb'.at = "none", ~adb'.ok, ~adb'.acted
  PROVE  OperationInv'
<1>1. /\ operation.stage = "run" /\ task \in TargetTasks
      /\ pictures' \in [Targets -> Targets \cup {NoTarget}]
      /\ \A t \in Targets : results[t] = "succeeded" /\ operation.kind = "screenshot" =>
                              pictures'[PictureOf(t)] = pictures[PictureOf(t)]
  BY Driven
<1>2. outcome \in TargetResults /\ outcome # "waiting" /\ outcome # "succeeded"
  BY DEF Failures, TargetResults
<1>3. CASE Finish(outcome)
  BY <1>1, <1>2, <1>3, FinishKeeps
<1> DEFINE w == [task EXCEPT !.at = "clean", !.staged = staged, !.outcome = outcome]
<1>4. CASE Target \in sessions /\ task' = w /\ UNCHANGED <<operation, results>>
  <2>1. /\ w \in TargetTasks /\ w.at = "clean" /\ w.staged = staged /\ w.outcome = outcome
        /\ w.published = task.published
    BY <1>1, <1>2 DEF TargetTasks
  <2> HIDE DEF w
  <2>2. CleanInv'
    <3>1. \A i \in 1 .. Items : ItemInv(i, guestFiles[Target][i])
      BY <1>4 DEF OperationInv, RunInv
    <3>2. Target' = Target
      BY <1>4 DEF Target
    <3>3. \A i \in 1 .. Items :
            /\ guestFiles[Target][i].part # "none" => i \in staged
            /\ i \in task.published => guestFiles[Target][i].file = "ours"
      BY <3>1 DEF ItemInv
    <3> QED
      BY <1>4, <2>1, <3>2, <3>3 DEF CleanInv
  <2>3. RunInv'
    BY <1>4, <2>1 DEF RunInv
  <2> QED
    BY <1>1, <1>4, <2>1, <2>2, <2>3, TaskKeeps DEF Driving
<1> QED
  BY <1>3, <1>4, Zenon DEF GiveUp

LEMMA BeginTargetKeeps ==
  ASSUME OperationInv, BeginTarget
  PROVE  OperationInv'
<1>1. /\ operation.stage = "run" /\ task.at = "none"
      /\ UNCHANGED <<sessions, listed, adb, guestFiles, pictures, strays>>
  BY Zenon DEF BeginTarget
<1>2. /\ OperationTypes /\ Target \in Targets /\ Partless(Target) /\ adb \in AdbProcesses
      /\ adb.at = "none" /\ ~adb.ok /\ ~adb.acted
  BY <1>1, TargetIs DEF OperationInv, OperationTypes, StageInv, Driving, AdbProcesses
<1>3. CASE Finish("stale")
  BY <1>1, <1>2, <1>3, FinishKeeps DEF OperationTypes, TargetResults
<1> DEFINE w == [NoTargetTask EXCEPT !.at = FirstStep, !.pc = 1]
<1>4. CASE task' = w /\ UNCHANGED <<operation, results>>
  <2>1. /\ FirstStep \in {"spawn", "connect", "stop"}
        /\ FirstStep = "stop" => operation.kind = "stop"
        /\ FirstStep = "spawn" => operation.kind \in Controlled
    BY <1>2 DEF FirstStep, OperationTypes, OperationRecords, Kinds, Controlled
  <2>2. /\ w \in TargetTasks /\ w.at = FirstStep /\ w.pc = 1 /\ w.staged = {} /\ w.published = {}
    BY <2>1 DEF TargetTasks, NoTargetTask, TargetResults
  <2> HIDE DEF w
  <2>3. FirstStep = "spawn" => 1 \in 1 .. Len(Program)
    <3>1. Len(PushProgram) = 5 * Items + 1
      BY OperationAssumption, ProgramIs
    <3>2. Len(<<[do |-> "install", item |-> 0]>>) = 1
      OBVIOUS
    <3> QED
      BY <2>1, <3>1, <3>2, OperationAssumption DEF Program
  <2>4. RunInv'
    <3>1. Target' = Target /\ \A i \in 1 .. Items : guestFiles[Target][i].part = "none"
      BY <1>2, <1>4 DEF Target, Partless
    <3>2. \A i \in 1 .. Items : ~(PushAt(i) < 1) /\ ~(GoneAt(i) < 1)
      BY OperationAssumption DEF PushAt, GoneAt
    <3> QED
      BY <1>1, <1>2, <1>4, <2>1, <2>2, <3>1, <3>2 DEF RunInv, ItemInv
  <2>5. CleanInv'
    BY <1>4, <2>1, <2>2 DEF CleanInv
  <2> QED
    BY <1>1, <1>2, <1>4, <2>1, <2>2, <2>3, <2>4, <2>5, TaskKeeps
<1> QED
  BY <1>3, <1>4, Zenon DEF BeginTarget

LEMMA SpawnKeeps ==
  ASSUME OperationInv, Spawn
  PROVE  OperationInv'
<1> DEFINE w == [task EXCEPT !.at = "wait", !.staged = StagedNow]
           a == [NoAdb EXCEPT !.at = "running"]
<1>1. task.at = "spawn" /\ UNCHANGED <<sessions, listed, guestFiles, pictures, strays>>
  BY Zenon DEF Spawn
<1>2. /\ operation.stage = "run" /\ task \in TargetTasks /\ adb \in AdbProcesses
      /\ adb.at = "none" /\ ~adb.ok /\ ~adb.acted
      /\ operation.kind \in Controlled /\ task.pc \in 1 .. Len(Program)
  BY <1>1 DEF OperationInv, OperationTypes, StageInv
<1>3. StagedNow \in SUBSET (1 .. Items) /\ task.staged \subseteq StagedNow
  BY <1>1, <1>2, CommandIs DEF StagedNow, TargetTasks
<1>4. CASE Ending("go") = "go" /\ adb' = a /\ task' = w /\ UNCHANGED <<operation, results>>
  <2>1. /\ w \in TargetTasks /\ w.at = "wait" /\ w.staged = StagedNow /\ w.pc = task.pc
        /\ w.published = task.published
        /\ a \in AdbProcesses /\ a.at = "running" /\ ~a.ok
    BY <1>2, <1>3 DEF TargetTasks, AdbProcesses, NoAdb
  <2> HIDE DEF w, a
  <2>2. Target \in sessions /\ Target' = Target
    BY <1>4, EndingIs DEF Target
  <2>3. RunInv'
    <3>1. PICK files : files = guestFiles[Target] /\ files = guestFiles'[Target']
      BY <1>1, <2>2
    <3>2. \A i \in 1 .. Items : ItemInv(i, files[i])
      BY <1>1, <2>2, <3>1 DEF OperationInv, RunInv
    <3>3. \A i \in 1 .. Items : ItemInv(i, files[i])'
      BY <1>1, <1>3, <1>4, <2>1, <3>2 DEF ItemInv
    <3>4. Command' = Command /\ (Command.do = "push" => Command.item \in StagedNow)
      <4>1. Program' = Program
        BY <1>4 DEF Program
      <4> QED
        BY <1>1, <1>4, <2>1, <4>1 DEF Command, StagedNow
    <3> QED
      BY <1>4, <2>1, <3>1, <3>3, <3>4 DEF RunInv, ItemInv
  <2>4. CleanInv'
    BY <1>4, <2>1 DEF CleanInv
  <2> QED
    BY <1>1, <1>2, <1>4, <2>1, <2>2, <2>3, <2>4, TaskKeeps DEF Driving
<1>5. CASE GiveUp(Ending("failed"), StagedNow) /\ UNCHANGED adb
  <2>1. Ending("failed") \in Failures
    BY EndingIs DEF Failures
  <2> QED
    BY <1>1, <1>2, <1>3, <1>5, <2>1, GiveUpKeeps
<1> QED
  BY <1>4, <1>5, Zenon DEF Spawn

LEMMA SpawnCleanupKeeps ==
  ASSUME OperationInv, SpawnCleanup
  PROVE  OperationInv'
<1> DEFINE a == [NoAdb EXCEPT !.at = "running"]
<1>1. /\ task.at = "clean" /\ adb.at = "none"
      /\ UNCHANGED <<sessions, listed, guestFiles, pictures, strays>>
  BY Zenon DEF SpawnCleanup
<1>2. /\ operation.stage = "run" /\ task \in TargetTasks /\ adb \in AdbProcesses
      /\ adb.at = "none" /\ ~adb.ok /\ ~adb.acted /\ task.outcome \in Failures
  BY <1>1 DEF OperationInv, OperationTypes, StageInv
<1>3. CASE Target \in sessions /\ adb' = a /\ UNCHANGED <<operation, results, task>>
  <2>1. a \in AdbProcesses /\ a.at = "running" /\ ~a.ok /\ ~a.acted
    BY DEF AdbProcesses, NoAdb
  <2> HIDE DEF a
  <2>2. Target' = Target
    BY <1>3 DEF Target
  <2>3. RunInv' /\ CleanInv'
    BY <1>1, <1>2, <1>3, <2>1, <2>2 DEF OperationInv, RunInv, CleanInv
  <2> QED
    BY <1>1, <1>2, <1>3, <2>1, <2>3, TaskKeeps DEF Driving
<1>4. CASE Finish(task.outcome) /\ UNCHANGED adb
  <2>1. task.outcome \in TargetResults /\ task.outcome # "waiting" /\ task.outcome # "succeeded"
    BY <1>2 DEF Failures, TargetResults
  <2> QED
    BY <1>1, <1>2, <1>4, <2>1, Driven, FinishKeeps
<1> QED
  BY <1>3, <1>4, Zenon DEF SpawnCleanup

LEMMA CleanupEndsKeeps ==
  ASSUME OperationInv, CleanupEnds
  PROVE  OperationInv'
<1>1. /\ task.at = "clean" /\ Finish(task.outcome) /\ adb' = NoAdb
      /\ UNCHANGED <<sessions, listed, guestFiles, pictures, strays>>
  BY Zenon DEF CleanupEnds
<1>2. /\ operation.stage = "run" /\ task.outcome \in Failures
  BY <1>1, Driven
<1>3. task.outcome \in TargetResults /\ task.outcome # "waiting" /\ task.outcome # "succeeded"
  BY <1>2 DEF Failures, TargetResults
<1> QED
  BY <1>1, <1>2, <1>3, NoAdbIs, Driven, FinishKeeps

\* A command that succeeded: the operation goes on to the next, or is done.
LEMMA ExitsWellKeeps ==
  ASSUME OperationInv, task.at = "wait", Ending("go") = "go", adb.ok, ExitsWell, adb' = NoAdb,
         UNCHANGED <<sessions, listed, guestFiles, pictures, strays>>
  PROVE  OperationInv'
<1>1. PICK c, pc : c = Command /\ pc = task.pc
  OBVIOUS
<1>2. /\ operation.stage = "run" /\ task \in TargetTasks /\ operation.kind \in Controlled
      /\ Target \in sessions /\ Items \in Nat \ {0} /\ pc \in Nat
  BY <1>1, EndingIs, OperationAssumption DEF OperationInv, OperationTypes, StageInv, TargetTasks
<1>3. PICK files : files = guestFiles[Target]
  OBVIOUS
<1>4. /\ \A i \in 1 .. Items : ItemInv(i, files[i])
      /\ c.do = "push" => files[c.item].part # "none"
      /\ c.do = "gone" => files[c.item].part = "none"
  BY <1>1, <1>2, <1>3 DEF OperationInv, RunInv
<1>5. /\ pc \in 1 .. Len(Program) /\ Len(Program) \in Nat
      /\ operation.kind = "push" => Len(Program) = 5 * Items + 1
      /\ operation.kind = "install" => Len(Program) = 1
      /\ c.do = "isfile" => c.item \in 1 .. Items /\ GoneAt(c.item) = pc - 1
      /\ operation.kind = "push" =>
              \A i \in 1 .. Items : /\ PushAt(i) = pc => c.do = "push" /\ c.item = i
                                    /\ GoneAt(i) = pc => c.do = "gone" /\ c.item = i
  BY <1>1, CommandIs
<1>6. operation.kind \in {"install", "push"}
  BY <1>2 DEF Controlled
<1>7. CASE pc = Len(Program)
  <2>1. Finish("succeeded")
    BY <1>1, <1>7 DEF ExitsWell
  <2>2. \A i \in 1 .. Items : files[i].part = "none"
    <3>1. CASE operation.kind = "install"
      BY <1>4, <3>1 DEF ItemInv
    <3>2. CASE operation.kind = "push"
      <4>1. \A i \in 1 .. Items : GoneAt(i) < task.pc
        BY <1>1, <1>2, <1>5, <1>7, <3>2 DEF GoneAt
      <4> QED
        BY <1>4, <4>1 DEF ItemInv
    <3> QED
      BY <1>6, <3>1, <3>2
  <2>3. Partless(Target)
    BY <1>3, <2>2 DEF Partless
  <2> QED
    BY <1>2, <1>6, <2>1, <2>3, NoAdbIs, Driven, FinishKeeps DEF TargetResults
<1>8. CASE pc # Len(Program)
  <2> DEFINE next == task.pc + 1
             staged == IF Command.do = "isfile" THEN task.staged \ {Command.item} ELSE task.staged
             published == IF Command.do = "isfile" THEN task.published \cup {Command.item}
                          ELSE task.published
             w == [task EXCEPT !.at = "spawn", !.pc = next, !.staged = staged, !.published = published]
  <2>1. task' = w /\ UNCHANGED <<operation, results>>
    <3>1. task.pc # Len(Program)
      BY <1>1, <1>8
    <3> QED
      BY <3>1, Zenon DEF ExitsWell
  <2>2. operation.kind = "push"
    <3>1. SUFFICES ASSUME operation.kind = "install" PROVE FALSE
      BY <1>6
    <3>2. Len(Program) = 1 /\ pc \in 1 .. 1
      BY <1>5, <3>1, Zenon
    <3> QED
      BY <3>2, <1>8
  <2>3. next \in 1 .. Len(Program) /\ next \in Nat
    BY <1>1, <1>5, <1>8
  <2>4. staged \in SUBSET (1 .. Items) /\ published \in SUBSET (1 .. Items)
    BY <1>1, <1>2, <1>5 DEF TargetTasks
  <2> HIDE DEF next, staged, published
  <2>5. /\ w \in TargetTasks /\ w.at = "spawn" /\ w.pc = next /\ w.staged = staged
        /\ w.published = published
    BY <1>2, <2>3, <2>4 DEF TargetTasks
  <2> HIDE DEF w
  <2>6. ASSUME NEW i \in 1 .. Items
        PROVE  /\ files[i].part # "none" => i \in staged /\ PushAt(i) < next
               /\ PushAt(i) < next /\ files[i].part = "none" => files[i].file = "ours"
               /\ GoneAt(i) < next => files[i].part = "none"
               /\ i \in published => files[i].file = "ours"
    <3>1. ItemInv(i, files[i]) /\ PushAt(i) \in Nat /\ GoneAt(i) \in Nat /\ next = pc + 1
      BY <1>1, <1>2, <1>4 DEF PushAt, GoneAt, next
    <3>2. /\ PushAt(i) = pc => files[i].part # "none"
          /\ GoneAt(i) = pc => files[i].part = "none"
      BY <1>4, <1>5, <2>2
    <3>3. c.do = "isfile" /\ c.item = i => GoneAt(i) < pc /\ PushAt(i) < pc
      BY <1>2, <1>5 DEF PushAt, GoneAt
    <3>4. /\ files[i].part # "none" => i \in task.staged /\ PushAt(i) < next
          /\ PushAt(i) < next /\ files[i].part = "none" => files[i].file = "ours"
          /\ GoneAt(i) < next => files[i].part = "none"
          /\ i \in task.published => files[i].file = "ours"
      BY <1>1, <1>2, <2>2, <3>1, <3>2 DEF ItemInv
    <3>5. c.do = "isfile" /\ c.item = i => files[i].part = "none" /\ files[i].file = "ours"
      BY <1>1, <1>2, <2>2, <3>1, <3>3 DEF ItemInv
    <3> QED
      BY <1>1, <3>4, <3>5 DEF staged, published
  <2>7. RunInv'
    <3>1. Target' = Target /\ guestFiles'[Target'] = files
      BY <1>3, <2>1 DEF Target
    <3>2. \A i \in 1 .. Items : ItemInv(i, files[i])'
      BY <2>1, <2>2, <2>5, <2>6 DEF ItemInv
    <3> QED
      BY <2>1, <2>5, <3>1, <3>2, NoAdbIs DEF RunInv, ItemInv
  <2>8. CleanInv'
    BY <2>1, <2>5 DEF CleanInv
  <2> QED
    BY <1>2, <2>1, <2>3, <2>5, <2>7, <2>8, NoAdbIs, TaskKeeps DEF Driving
<1> QED
  BY <1>7, <1>8

LEMMA PollKeeps ==
  ASSUME OperationInv, PollKills \/ PollSeesExit
  PROVE  OperationInv'
<1>1. /\ task.at = "wait" /\ adb' = NoAdb
      /\ UNCHANGED <<sessions, listed, guestFiles, pictures, strays>>
      /\ \/ GiveUp(Ending("failed"), task.staged)
         \/ Ending("go") = "go" /\ adb.ok /\ ExitsWell
  BY Zenon DEF PollKills, PollSeesExit
<1>2. Ending("failed") \in Failures /\ task.staged \in SUBSET (1 .. Items)
  BY EndingIs DEF Failures, OperationInv, OperationTypes, TargetTasks
<1> QED
  BY <1>1, <1>2, NoAdbIs, GiveUpKeeps, ExitsWellKeeps

\* The steps of a screenshot and of a stop drive no adb.
LEMMA PlacesKeep ==
  ASSUME OperationInv, ConnectDevice \/ Shoot \/ BeginStop
  PROVE  OperationInv'
<1>1. /\ task.at \in {"connect", "shoot", "stop"}
      /\ UNCHANGED <<sessions, listed, adb, guestFiles, pictures, strays>>
      /\ \/ /\ \E at \in {"shoot", "publish", "stopping"} :
                 task' = [task EXCEPT !.at = at] /\ (at = "stopping" => task.at = "stop")
            /\ UNCHANGED <<operation, results>>
         \/ Finish("stale") \/ Finish("failed")
  BY Zenon DEF ConnectDevice, Shoot, BeginStop
<1>2. /\ operation.stage = "run" /\ task \in TargetTasks /\ adb \in AdbProcesses
      /\ adb.at = "none" /\ ~adb.ok /\ ~adb.acted
      /\ task.at = "stop" => operation.kind = "stop"
  BY <1>1 DEF OperationInv, OperationTypes, StageInv, AdbProcesses
<1>3. Partless(Target)
  BY <1>1, <1>2, TargetIs DEF Driving
<1>4. ASSUME NEW at \in {"shoot", "publish", "stopping"}, task' = [task EXCEPT !.at = at],
             at = "stopping" => task.at = "stop", UNCHANGED <<operation, results>>
      PROVE  OperationInv'
  <2>1. task' \in TargetTasks /\ task'.at = at
    BY <1>2, <1>4 DEF TargetTasks
  <2>2. RunInv' /\ CleanInv'
    BY <2>1, <1>4 DEF RunInv, CleanInv
  <2> QED
    BY <1>1, <1>2, <1>3, <1>4, <2>1, <2>2, TaskKeeps
<1>5. CASE Finish("stale") \/ Finish("failed")
  BY <1>1, <1>2, <1>5, Driven, FinishKeeps DEF TargetResults
<1> QED
  BY <1>1, <1>4, <1>5

LEMMA PublishKeeps ==
  ASSUME OperationInv, PublishScreenshot
  PROVE  OperationInv'
<1>1. PICK t, n : t = Target /\ n = PictureOf(Target)
  OBVIOUS
<1>2. /\ task.at = "publish" /\ UNCHANGED <<sessions, listed, adb, guestFiles, strays>>
      /\ \/ (Finish("stale") \/ Finish("failed")) /\ UNCHANGED pictures
         \/ pictures[n] = NoTarget /\ pictures' = [pictures EXCEPT ![n] = t] /\ Finish("succeeded")
  BY <1>1, Zenon DEF PublishScreenshot
<1>3. /\ operation.stage = "run" /\ OperationTypes /\ adb \in AdbProcesses
      /\ adb.at = "none" /\ ~adb.ok /\ ~adb.acted
  BY <1>2 DEF OperationInv, OperationTypes, StageInv, AdbProcesses
<1>4. Partless(Target) /\ t \in Targets
  BY <1>1, <1>2, <1>3, TargetIs DEF Driving
<1>5. \A u \in Targets : PictureOf(u) \in Targets
  BY OperationAssumption DEF PictureOf
<1>6. CASE (Finish("stale") \/ Finish("failed")) /\ UNCHANGED pictures
  BY <1>2, <1>3, <1>6, Driven, FinishKeeps DEF TargetResults
<1>7. CASE pictures[n] = NoTarget /\ pictures' = [pictures EXCEPT ![n] = t] /\ Finish("succeeded")
  <2>1. pictures \in [Targets -> Targets \cup {NoTarget}] /\ n \in Targets
    BY <1>1, <1>3, <1>4, <1>5 DEF OperationTypes
  <2>2. /\ pictures' \in [Targets -> Targets \cup {NoTarget}] /\ pictures'[n] = t
        /\ \A m \in Targets \ {n} : pictures'[m] = pictures[m]
    BY <1>4, <1>7, <2>1
  <2>3. ASSUME NEW u \in Targets, results[u] = "succeeded", operation.kind = "screenshot"
        PROVE  pictures'[PictureOf(u)] = pictures[PictureOf(u)]
    <3>1. pictures[PictureOf(u)] = u
      BY <2>3 DEF OperationInv, ResultInv
    <3>2. u # NoTarget
      BY OperationAssumption DEF NoTarget
    <3> QED
      BY <1>5, <1>7, <2>2, <3>1, <3>2
  <2>4. pictures'[PictureOf(Target)] = Target
    BY <1>1, <2>2
  <2> QED
    BY <1>2, <1>3, <1>4, <1>7, <2>2, <2>3, <2>4, FinishKeeps DEF TargetResults
<1> QED
  BY <1>2, <1>6, <1>7

LEMMA StopEndsKeeps ==
  ASSUME OperationInv, StopEnds
  PROVE  OperationInv'
<1>1. /\ task.at = "stopping" /\ UNCHANGED <<listed, adb, guestFiles, pictures, strays>>
      /\ Finish("succeeded") \/ Finish("failed")
      /\ sessions' = sessions \ {Target} \/ sessions' = sessions
  BY Zenon DEF StopEnds
<1>2. PICK result \in {"succeeded", "failed"} : Finish(result)
  BY <1>1
<1>3. /\ operation.stage = "run" /\ adb \in AdbProcesses
      /\ adb.at = "none" /\ ~adb.ok /\ ~adb.acted
  BY <1>1 DEF OperationInv, OperationTypes, StageInv, AdbProcesses
<1>4. Partless(Target)
  BY <1>1, <1>3, TargetIs DEF Driving
<1>5. operation.kind = "stop"
  BY <1>1 DEF OperationInv, StageInv
<1> QED
  BY <1>1, <1>2, <1>3, <1>4, <1>5, Driven, FinishKeeps DEF TargetResults

LEMMA AdbExitsKeeps ==
  ASSUME OperationInv, AdbExits
  PROVE  OperationInv'
<1>1. /\ adb.at = "running" /\ \E ok \in {FALSE, adb.ok} : adb' = [adb EXCEPT !.at = "exited", !.ok = ok]
      /\ UNCHANGED <<sessions, listed, operation, results, task, guestFiles, pictures, strays>>
  BY Zenon DEF AdbExits
<1>2. task.at \in {"wait", "clean"} /\ adb \in AdbProcesses
  BY <1>1 DEF OperationInv, OperationTypes, StageInv
<1>3. adb' \in AdbProcesses /\ adb'.at = "exited" /\ adb'.acted = adb.acted /\ (adb'.ok => adb.ok)
  <2>1. PICK ok \in {FALSE, adb.ok} : adb' = [adb EXCEPT !.at = "exited", !.ok = ok]
    BY <1>1
  <2>2. ok \in BOOLEAN
    BY <1>2, <2>1 DEF AdbProcesses
  <2> QED
    BY <1>2, <2>1, <2>2 DEF AdbProcesses
<1>4. Target' = Target /\ Command' = Command
  BY <1>1 DEF Target, Command, Program
<1>5. RunInv' /\ CleanInv'
  BY <1>1, <1>3, <1>4 DEF OperationInv, RunInv, CleanInv, ItemInv
<1> QED
  BY <1>1, <1>2, <1>3, <1>5, TaskKeeps DEF OperationInv, OperationTypes, StageInv, Driving

-----------------------------------------------------------------------------
(* What a command and the other programs do to the guest's files.           *)

OthersKept ==
  \A t \in Targets, i \in 1 .. Items :
    guestFiles[t][i].file = "other" => guestFiles'[t][i].file = "other"

\* What the command of a push may leave of a file.
LEMMA ChangedIs ==
  ASSUME OperationInv, task.at = "wait", NEW g \in [1 .. Items -> Guests], NEW files \in Changed(g),
         NEW c, c = Command
  PROVE  /\ files \in [1 .. Items -> Guests]
         /\ \A i \in 1 .. Items :
              \/ files[i] = g[i]
              \/ c.do = "push" /\ c.item = i /\ files[i].part # "none" /\ files[i].file = g[i].file
              \/ /\ c.do = "move" /\ c.item = i /\ g[i].part # "none" /\ g[i].file = "none"
                 /\ files[i].part = "none" /\ files[i].file = "ours"
         /\ c.do = "push" => files[c.item].part # "none"
<1>1. /\ c.do \in {"mkdir", "absent", "push", "move", "gone", "isfile", "install"}
      /\ c.do \in {"push", "move"} => c.item \in 1 .. Items
  BY CommandIs
<1>2. CASE c.do = "push"
  <2>1. PICK p \in {"partial", "whole"} : files = [g EXCEPT ![c.item].part = p]
    BY <1>2, Zenon DEF Changed
  <2> DEFINE w == [g[c.item] EXCEPT !.part = p]
  <2>2. c.item \in 1 .. Items /\ g[c.item] \in Guests
    BY <1>1, <1>2
  <2>3. w \in Guests /\ w.part = p /\ w.file = g[c.item].file
    BY <2>2 DEF Guests
  <2>4. files = [g EXCEPT ![c.item] = w]
    BY <2>1
  <2> HIDE DEF w
  <2> QED
    BY <1>2, <2>2, <2>3, <2>4
<1>3. CASE c.do = "move"
  <2> DEFINE w == Moved(g[c.item])
  <2>1. files = [g EXCEPT ![c.item] = w]
    BY <1>3 DEF Changed
  <2>2. c.item \in 1 .. Items /\ g[c.item] \in Guests
    BY <1>1, <1>3
  <2>3. /\ w \in Guests
        /\ \/ w = g[c.item]
           \/ /\ g[c.item].part # "none" /\ g[c.item].file = "none"
              /\ w.part = "none" /\ w.file = "ours"
    BY <2>2 DEF Moved, Guests
  <2> HIDE DEF w
  <2> QED
    BY <1>3, <2>1, <2>2, <2>3
<1>4. CASE c.do \notin {"push", "move"}
  <2>1. files = g
    BY <1>1, <1>4 DEF Changed
  <2> QED
    BY <1>4, <2>1
<1> QED
  BY <1>2, <1>3, <1>4

\* A step that changes files of the guests and, of the operation, adb alone.
LEMMA FilesKeep ==
  ASSUME OperationInv, operation.stage = "run",
         UNCHANGED <<sessions, listed, operation, results, task, pictures>>,
         guestFiles' \in [Targets -> [1 .. Items -> Guests]], strays' \in [Targets -> Nat],
         adb' \in AdbProcesses, adb'.at = adb.at, adb'.at = "none" => ~adb'.ok /\ ~adb'.acted,
         \A t \in Targets : \/ t = Target /\ task.at \in Driving
                            \/ \A i \in 1 .. Items : guestFiles'[t][i].part = guestFiles[t][i].part,
         \A t \in Targets : /\ strays'[t] <= 1 /\ (t \in sessions => strays'[t] = 0)
                            /\ adb'.at = "running" /\ Target = t /\ strays'[t] # 0 => adb'.acted,
         RunInv', CleanInv'
  PROVE  OperationInv'
<1>1. PICK target : target = Target
  OBVIOUS
<1>2. Target' = target /\ Program' = Program /\ target \in Targets /\ results[target] = "waiting"
  BY <1>1, TargetIs DEF Target, Program
<1>3. OperationTypes'
  BY DEF OperationInv, OperationTypes
<1>4. StageInv'
  BY <1>2 DEF OperationInv, StageInv
<1>5. \A t \in Targets : Partless(t) /\ (t # target \/ task.at \notin Driving) => Partless(t)'
  BY <1>1 DEF Partless
<1>6. LeftInv'
  <2>1. \A k \in 1 .. Len(operation.left) :
          operation.left[k] \in Targets /\ (k > 1 => operation.left[k] # target)
    <3>1. /\ operation.left \in Seq(Targets) /\ target = operation.left[1]
          /\ 1 \in 1 .. Len(operation.left)
      BY <1>1, TargetIs
    <3>2. \A j, k \in 1 .. Len(operation.left) : j < k => operation.left[j] # operation.left[k]
      BY DEF OperationInv, LeftInv
    <3> QED
      BY <3>1, <3>2
  <2>2. \A k \in 1 .. Len(operation.left) :
          /\ results[operation.left[k]] = "waiting"
          /\ k > 1 \/ task.at \notin Driving => Partless(operation.left[k])'
    BY <1>5, <2>1 DEF OperationInv, LeftInv
  <2>3. \A j, k \in 1 .. Len(operation.left) : j < k => operation.left[j] # operation.left[k]
    BY DEF OperationInv, LeftInv
  <2> QED
    BY <2>2, <2>3 DEF LeftInv
<1>7. ASSUME NEW t \in Targets
      PROVE  ResultInv(t)'
  <2>1. results[t] = "succeeded" => t # target /\ Partless(t)
    BY <1>2 DEF OperationInv, ResultInv
  <2>2. results[t] = "succeeded" => Partless(t)'
    BY <1>5, <2>1
  <2> QED
    BY <1>1, <1>2, <2>2 DEF OperationInv, ResultInv
<1> QED
  BY <1>3, <1>4, <1>6, <1>7 DEF OperationInv

LEMMA RivalKeeps ==
  ASSUME OperationInv, NEW t \in Targets, NEW i \in 1 .. Items, RivalWrites(t, i)
  PROVE  OperationInv' /\ OthersKept
<1> DEFINE f == [guestFiles[t][i] EXCEPT !.file = "other"]
           g == [guestFiles[t] EXCEPT ![i] = f]
<1>1. /\ operation.stage = "run" /\ guestFiles[t][i].file = "none"
      /\ guestFiles' = [guestFiles EXCEPT ![t][i].file = "other"]
      /\ UNCHANGED <<sessions, listed, operation, results, task, adb, pictures, strays>>
  BY Zenon DEF RivalWrites
<1>2. OperationTypes /\ guestFiles \in [Targets -> [1 .. Items -> Guests]]
  BY DEF OperationInv, OperationTypes
<1>3. f \in Guests /\ f.part = guestFiles[t][i].part /\ f.file = "other"
  <2>1. guestFiles[t][i] \in Guests
    BY <1>2
  <2> QED
    BY <2>1 DEF Guests
<1>4. guestFiles' = [guestFiles EXCEPT ![t] = g]
  BY <1>1, Zenon
<1> HIDE DEF f
<1>5. g \in [1 .. Items -> Guests] /\ \A j \in 1 .. Items : g[j] = IF j = i THEN f ELSE guestFiles[t][j]
  BY <1>2, <1>3
<1> HIDE DEF g
<1>6. guestFiles' \in [Targets -> [1 .. Items -> Guests]]
      /\ \A u \in Targets : guestFiles'[u] = IF u = t THEN g ELSE guestFiles[u]
  BY <1>2, <1>4, <1>5
<1>7. \A u \in Targets, j \in 1 .. Items :
        /\ guestFiles'[u][j].part = guestFiles[u][j].part
        /\ guestFiles[u][j].file # "none" => guestFiles'[u][j].file = guestFiles[u][j].file
  BY <1>1, <1>3, <1>5, <1>6
<1>8. Target' = Target /\ Command' = Command /\ Target \in Targets
  BY <1>1, TargetIs DEF Target, Command, Program
<1>9. RunInv'
  <2> SUFFICES ASSUME task.at \in {"spawn", "wait"}, Target \in sessions PROVE RunInv'
    BY <1>1, <1>8 DEF RunInv
  <2>1. PICK target, c : target = Target /\ c = Command
    OBVIOUS
  <2>2. /\ \A j \in 1 .. Items : ItemInv(j, guestFiles[target][j])
        /\ task.at = "wait" /\ c.do = "push" => c.item \in task.staged
        /\ adb.ok /\ c.do = "push" => guestFiles[target][c.item].part # "none"
        /\ adb.ok /\ c.do = "gone" => guestFiles[target][c.item].part = "none"
    BY <2>1 DEF OperationInv, RunInv
  <2>3. c.do \in {"push", "gone"} => c.item \in 1 .. Items
    BY <2>1, CommandIs
  <2>4. target \in Targets
    BY <1>8, <2>1
  <2> QED
    BY <1>1, <1>7, <1>8, <2>1, <2>2, <2>3, <2>4 DEF RunInv, ItemInv
<1>10. CleanInv'
  BY <1>1, <1>7, <1>8 DEF OperationInv, CleanInv
<1>11. OthersKept
  BY <1>7 DEF OthersKept
<1> QED
  BY <1>1, <1>2, <1>6, <1>7, <1>9, <1>10, <1>11, FilesKeep
     DEF OperationInv, OperationTypes, StageInv, ResultInv

LEMMA AdbActsKeeps ==
  ASSUME OperationInv, AdbActs
  PROVE  OperationInv' /\ OthersKept
<1>1. PICK t, g, c : t = Target /\ g = guestFiles[t] /\ c = Command
  OBVIOUS
<1>2. PICK files \in Changed(g) :
        /\ guestFiles' = IF t \in sessions THEN [guestFiles EXCEPT ![t] = files] ELSE guestFiles
        /\ adb' = [adb EXCEPT !.acted = TRUE, !.ok = CommandHolds(files)]
  BY <1>1, Zenon DEF AdbActs
<1>3. /\ adb.at = "running" /\ ~adb.acted
      /\ strays' = IF t \in sessions THEN strays ELSE [strays EXCEPT ![t] = @ + 1]
      /\ UNCHANGED <<sessions, listed, operation, results, task, pictures>>
  BY <1>1, Zenon DEF AdbActs
<1>4. /\ task.at \in {"wait", "clean"} /\ operation.stage = "run" /\ OperationTypes
      /\ adb \in AdbProcesses /\ guestFiles \in [Targets -> [1 .. Items -> Guests]]
      /\ strays \in [Targets -> Nat]
  BY <1>3 DEF OperationInv, OperationTypes, StageInv
<1>5. t \in Targets /\ Target' = t /\ Command' = c /\ g \in [1 .. Items -> Guests]
  BY <1>1, <1>3, <1>4, TargetIs DEF Target, Command, Program
<1>6. /\ adb' \in AdbProcesses /\ adb'.at = "running" /\ adb'.acted
      /\ adb'.ok = CommandHolds(files)
  <2>1. CommandHolds(files) \in BOOLEAN
    BY DEF CommandHolds
  <2> QED
    BY <1>2, <1>3, <1>4, <2>1 DEF AdbProcesses
<1>7. files \in [1 .. Items -> Guests]
      /\ (t \in sessions => \A i \in 1 .. Items : g[i].file = "other" => files[i].file = "other")
  <2>1. CASE task.at = "wait"
    <3>1. /\ files \in [1 .. Items -> Guests]
          /\ \A i \in 1 .. Items :
               \/ files[i] = g[i]
               \/ c.do = "push" /\ c.item = i /\ files[i].part # "none" /\ files[i].file = g[i].file
               \/ /\ c.do = "move" /\ c.item = i /\ g[i].part # "none" /\ g[i].file = "none"
                  /\ files[i].part = "none" /\ files[i].file = "ours"
      BY <1>1, <1>2, <1>5, <2>1, ChangedIs
    <3> QED
      BY <3>1
  <2>2. CASE task.at = "clean"
    <3>1. files = RemovedFiles(g)
      BY <1>2, <2>2 DEF Changed, Command
    <3>2. t \in sessions => \A i \in 1 .. Items : i \in task.published => g[i].file = "ours"
      BY <1>1, <1>3, <2>2 DEF OperationInv, CleanInv
    <3>3. /\ files \in [1 .. Items -> Guests]
          /\ \A i \in 1 .. Items : files[i].file = IF i \in task.published THEN "none" ELSE g[i].file
      BY <1>5, <3>1 DEF RemovedFiles, Guests
    <3> QED
      BY <3>2, <3>3
  <2> QED
    BY <1>4, <2>1, <2>2
<1>8. /\ guestFiles' \in [Targets -> [1 .. Items -> Guests]]
      /\ t \in sessions => guestFiles'[t] = files
      /\ \A u \in Targets : (u # t \/ t \notin sessions) => guestFiles'[u] = guestFiles[u]
  BY <1>2, <1>4, <1>5, <1>7
<1>9. OthersKept
  BY <1>1, <1>7, <1>8 DEF OthersKept
<1>10. RunInv'
  <2> SUFFICES ASSUME task.at = "wait", t \in sessions PROVE RunInv'
    BY <1>3, <1>4, <1>5 DEF RunInv
  <2>1. \A i \in 1 .. Items : ItemInv(i, g[i])
    BY <1>1 DEF OperationInv, RunInv
  <2>2. /\ \A i \in 1 .. Items :
             \/ files[i] = g[i]
             \/ c.do = "push" /\ c.item = i /\ files[i].part # "none" /\ files[i].file = g[i].file
             \/ /\ c.do = "move" /\ c.item = i /\ g[i].part # "none" /\ g[i].file = "none"
                /\ files[i].part = "none" /\ files[i].file = "ours"
        /\ c.do = "push" => files[c.item].part # "none"
    BY <1>1, <1>2, <1>5, ChangedIs
  <2>3. /\ c.do = "push" => c.item \in 1 .. Items /\ PushAt(c.item) = task.pc
        /\ operation.kind = "install" => c.do = "install"
        /\ task.pc \in Nat
    BY <1>1, <1>4, CommandIs DEF OperationTypes, TargetTasks
  <2>4. /\ operation.kind \in {"install", "push"}
        /\ c.do = "push" => c.item \in task.staged
    BY <1>1 DEF OperationInv, StageInv, RunInv, Controlled
  <2>5. ASSUME NEW i \in 1 .. Items
        PROVE  ItemInv(i, files[i])'
    <3>1. ItemInv(i, g[i]) /\ Items \in Nat
      BY <2>1, OperationAssumption
    <3>2. CASE files[i] = g[i]
      BY <1>3, <3>1, <3>2 DEF ItemInv
    <3>3. CASE c.do = "push" /\ c.item = i /\ files[i].part # "none" /\ files[i].file = g[i].file
      <4>1. PushAt(i) = task.pc /\ ~(PushAt(i) < task.pc) /\ ~(GoneAt(i) < task.pc)
        BY <2>3, <3>1, <3>3 DEF PushAt, GoneAt
      <4> QED
        BY <1>3, <2>3, <2>4, <3>1, <3>3, <4>1 DEF ItemInv
    <3>4. CASE /\ g[i].part # "none" /\ g[i].file = "none"
               /\ files[i].part = "none" /\ files[i].file = "ours"
      BY <1>3, <3>1, <3>4 DEF ItemInv
    <3> QED
      BY <2>2, <3>2, <3>3, <3>4
  <2>6. adb'.ok /\ c.do = "gone" => files[c.item].part = "none"
    BY <1>1, <1>6 DEF CommandHolds
  <2> QED
    BY <1>3, <1>5, <1>8, <2>2, <2>4, <2>5, <2>6 DEF RunInv, ItemInv
<1>11. CleanInv'
  <2> SUFFICES ASSUME task.at = "clean", t \in sessions PROVE CleanInv'
    BY <1>3, <1>5 DEF CleanInv
  <2>1. files = RemovedFiles(g)
    BY <1>2 DEF Changed, Command
  <2>2. \A i \in 1 .. Items : g[i].part # "none" => i \in task.staged
    BY <1>1 DEF OperationInv, CleanInv
  <2>3. \A i \in 1 .. Items : files[i].part = "none"
    <3>1. \A i \in 1 .. Items : files[i].part = IF i \in task.staged THEN "none" ELSE g[i].part
      BY <1>5, <2>1 DEF RemovedFiles, Guests
    <3> QED
      BY <2>2, <3>1
  <2> QED
    BY <1>5, <1>6, <1>8, <2>3 DEF CleanInv
<1>12. /\ strays' \in [Targets -> Nat]
       /\ \A u \in Targets : strays'[u] <= 1 /\ (u \in sessions => strays'[u] = 0)
  <2>1. \A u \in Targets : strays[u] \in Nat /\ strays[u] <= 1 /\ (u \in sessions => strays[u] = 0)
    BY <1>4 DEF OperationInv, ResultInv
  <2>2. strays[t] = 0
    BY <1>1, <1>3, <1>5 DEF OperationInv, ResultInv
  <2> QED
    BY <1>3, <1>4, <1>5, <2>1, <2>2
<1>13. \A u \in Targets : \/ u = Target /\ task.at \in Driving
                          \/ \A i \in 1 .. Items : guestFiles'[u][i].part = guestFiles[u][i].part
  BY <1>1, <1>4, <1>8 DEF Driving
<1>14. OperationInv'
  BY <1>3, <1>4, <1>6, <1>8, <1>10, <1>11, <1>12, <1>13, FilesKeep
<1> QED
  BY <1>9, <1>14

-----------------------------------------------------------------------------
(* Before the operation runs, and the theorems.                             *)

LEMMA TargetSessionKeeps ==
  ASSUME OperationInv, NEW t \in Targets, TargetSessionEnds(t)
  PROVE  OperationInv'
<1>1. /\ sessions' \subseteq sessions
      /\ UNCHANGED <<listed, operation, results, task, adb, guestFiles, pictures, strays>>
  BY Zenon DEF TargetSessionEnds
<1>2. Target' = Target /\ Program' = Program /\ Command' = Command
  BY <1>1 DEF Target, Program, Command
<1>3. OperationTypes' /\ StageInv' /\ LeftInv'
  BY <1>1, <1>2 DEF OperationInv, OperationTypes, StageInv, LeftInv, Untouched, Partless
<1>4. RunInv' /\ CleanInv'
  BY <1>1, <1>2 DEF OperationInv, RunInv, CleanInv, ItemInv
<1>5. \A u \in Targets : ResultInv(u)'
  BY <1>1, <1>2 DEF OperationInv, ResultInv, Partless
<1> QED
  BY <1>3, <1>4, <1>5 DEF OperationInv

\* A step of the plan: nothing was done for any target yet.
LEMMA PlanKeeps ==
  ASSUME OperationInv, operation.stage \in {"idle", "confirm"},
         operation' \in OperationRecords, operation'.stage \in {"confirm", "run", "done"},
         operation'.stage \in {"confirm", "run"} => operation'.left # <<>>,
         operation'.stage = "done" => operation'.left = <<>>,
         \A j, k \in 1 .. Len(operation'.left) : j < k => operation'.left[j] # operation'.left[k],
         UNCHANGED <<sessions, listed, results, task, adb, guestFiles, pictures, strays>>
  PROVE  OperationInv'
<1>1. /\ task.at = "none" /\ adb.at = "none" /\ ~adb.ok /\ ~adb.acted
      /\ \A t \in Targets : results[t] = "waiting" /\ Partless(t)
  BY DEF OperationInv, StageInv, Untouched
<1>2. \A t \in Targets : results'[t] = "waiting" /\ Partless(t)'
  BY <1>1 DEF Partless
<1>3. OperationTypes'
  BY DEF OperationInv, OperationTypes
<1>4. StageInv'
  BY <1>1, <1>2 DEF StageInv, Untouched
<1>5. LeftInv'
  <2>1. \A k \in 1 .. Len(operation'.left) : operation'.left[k] \in Targets
    BY DEF OperationRecords
  <2> QED
    BY <1>2, <2>1 DEF LeftInv
<1>6. RunInv' /\ CleanInv'
  BY <1>1 DEF RunInv, CleanInv
<1>7. \A t \in Targets : ResultInv(t)'
  BY <1>1, <1>2 DEF OperationInv, ResultInv
<1> QED
  BY <1>3, <1>4, <1>5, <1>6, <1>7 DEF OperationInv

LEMMA OrdersAre ==
  ASSUME NEW order \in Orders
  PROVE  /\ order \in Seq(Targets) /\ order # <<>>
         /\ \A j, k \in 1 .. Len(order) : j < k => order[j] # order[k]
<1>1. Cardinality(Targets) \in Nat
  BY OperationAssumption, FS_CardinalityType
<1>2. PICK n \in 1 .. Cardinality(Targets) : order \in [1 .. n -> Targets]
  BY DEF Orders
<1>3. n \in Nat /\ n # 0
  BY <1>1, <1>2
<1>4. order \in Seq(Targets) /\ Len(order) = n
  BY <1>2, <1>3
<1>5. \A j, k \in 1 .. n : j < k => order[j] # order[k]
  <2>1. \A j, k \in 1 .. n : j < k => order[j] < order[k]
    BY <1>2 DEF Orders
  <2>2. \A j \in 1 .. n : order[j] \in Nat
    BY <1>2, OperationAssumption
  <2> QED
    BY <2>1, <2>2
<1> QED
  BY <1>3, <1>4, <1>5, EmptySeq

LEMMA BeforeRunKeeps ==
  ASSUME OperationInv,
         \/ \E kind \in Kinds, order \in Orders : Plan(kind, order)
         \/ Authorize \/ Dismiss
  PROVE  OperationInv'
<1>1. operation \in OperationRecords
  BY DEF OperationInv, OperationTypes
<1>2. ASSUME NEW kind \in Kinds, NEW order \in Orders, Plan(kind, order)
      PROVE  OperationInv'
  <2>1. /\ operation.stage = "idle"
        /\ operation' = [kind |-> kind, stage |-> "confirm", canceled |-> FALSE, left |-> order]
        /\ UNCHANGED <<sessions, listed, results, task, adb, guestFiles, pictures, strays>>
    BY <1>2, Zenon DEF Plan
  <2>2. order \in Seq(Targets)
    BY OrdersAre
  <2>3. operation' \in OperationRecords /\ operation'.stage = "confirm" /\ operation'.left = order
    BY <2>1, <2>2 DEF OperationRecords
  <2> QED
    BY <2>1, <2>3, OrdersAre, PlanKeeps
<1>3. CASE Authorize \/ Dismiss
  <2>1. /\ operation.stage = "confirm"
        /\ \/ operation' = [operation EXCEPT !.stage = "run"]
           \/ operation' = [operation EXCEPT !.stage = "done", !.left = <<>>]
        /\ UNCHANGED <<sessions, listed, results, task, adb, guestFiles, pictures, strays>>
    BY <1>3, Zenon DEF Authorize, Dismiss
  <2>2. /\ operation.left # <<>>
        /\ \A j, k \in 1 .. Len(operation.left) : j < k => operation.left[j] # operation.left[k]
    BY <2>1 DEF OperationInv, StageInv, LeftInv
  <2>3. CASE operation' = [operation EXCEPT !.stage = "run"]
    <3>1. /\ operation' \in OperationRecords /\ operation'.stage = "run"
          /\ operation'.left = operation.left
      BY <1>1, <2>3 DEF OperationRecords
    <3> QED
      BY <2>1, <2>2, <3>1, PlanKeeps
  <2>4. CASE operation' = [operation EXCEPT !.stage = "done", !.left = <<>>]
    <3>1. operation' \in OperationRecords /\ operation'.stage = "done" /\ operation'.left = <<>>
      BY <1>1, <2>4, EmptySeq DEF OperationRecords
    <3>2. \A j, k \in 1 .. Len(operation'.left) : j < k => operation'.left[j] # operation'.left[k]
      BY <3>1, EmptySeq
    <3> QED
      BY <2>1, <3>1, <3>2, PlanKeeps
  <2> QED
    BY <2>1, <2>3, <2>4
<1> QED
  BY <1>2, <1>3

LEMMA CancelKeeps ==
  ASSUME OperationInv, CancelOperation \/ WorkspaceFollows
  PROVE  OperationInv'
<1>1. /\ operation' = [operation EXCEPT !.canceled = TRUE] \/ operation' = operation
      /\ listed' \in {listed, sessions}
      /\ UNCHANGED <<sessions, results, task, adb, guestFiles, pictures, strays>>
  BY Zenon DEF CancelOperation, WorkspaceFollows
<1>2. /\ operation' \in OperationRecords /\ operation'.kind = operation.kind
      /\ operation'.stage = operation.stage /\ operation'.left = operation.left
  BY <1>1 DEF OperationInv, OperationTypes, OperationRecords
<1>3. Target' = Target /\ Program' = Program
  BY <1>2 DEF Target, Program
<1>4. Command' = Command
  BY <1>1, <1>3 DEF Command
<1>5. OperationTypes' /\ StageInv' /\ LeftInv'
  BY <1>1, <1>2, <1>3 DEF OperationInv, OperationTypes, StageInv, LeftInv, Untouched, Partless
<1>6. RunInv' /\ CleanInv'
  BY <1>1, <1>2, <1>3, <1>4 DEF OperationInv, RunInv, CleanInv, ItemInv
<1>7. \A u \in Targets : ResultInv(u)'
  BY <1>1, <1>2, <1>3 DEF OperationInv, ResultInv, Partless
<1> QED
  BY <1>5, <1>6, <1>7 DEF OperationInv

LEMMA OperationInitInv == OperationInit => OperationInv
<1> SUFFICES ASSUME OperationInit PROVE OperationInv
  OBVIOUS
<1>1. /\ operation = [kind |-> "push", stage |-> "idle", left |-> <<>>, canceled |-> FALSE]
      /\ operation.stage = "idle" /\ operation.left = <<>> /\ Len(operation.left) = 0
  BY EmptySeq DEF OperationInit
<1>2. /\ \A t \in Targets : results[t] = "waiting" /\ strays[t] = 0
      /\ \A t \in Targets : \A i \in 1 .. Items : guestFiles[t][i].part = "none"
      /\ guestFiles \in [Targets -> [1 .. Items -> Guests]]
      /\ task = NoTargetTask /\ task.at = "none" /\ adb = NoAdb
  <2>1. /\ results = [t \in Targets |-> "waiting"] /\ strays = [t \in Targets |-> 0]
        /\ task = NoTargetTask /\ adb = NoAdb
        /\ guestFiles \in [Targets -> [1 .. Items -> [part : {"none"}, file : {"none", "other"}]]]
    BY DEF OperationInit
  <2>2. \A t \in Targets, i \in 1 .. Items : guestFiles[t][i] \in [part : {"none"}, file : {"none", "other"}]
    BY <2>1
  <2>3. \A t \in Targets, i \in 1 .. Items : guestFiles[t][i].part = "none" /\ guestFiles[t][i] \in Guests
    BY <2>2 DEF Guests
  <2>4. [part : {"none"}, file : {"none", "other"}] \subseteq Guests
    BY DEF Guests
  <2>5. guestFiles \in [Targets -> [1 .. Items -> Guests]]
    BY <2>1, <2>4
  <2> QED
    BY <2>1, <2>3, <2>5 DEF NoTargetTask
<1>3. OperationTypes
  <2>1. operation \in OperationRecords
    BY <1>1, EmptySeq DEF OperationRecords, Kinds
  <2>2. task \in TargetTasks
    BY <1>2 DEF NoTargetTask, TargetTasks, TargetResults
  <2>3. adb \in AdbProcesses
    BY <1>2, NoAdbIs
  <2> QED
    BY <1>2, <2>1, <2>2, <2>3 DEF OperationInit, OperationTypes, TargetResults
<1>4. StageInv /\ LeftInv
  BY <1>1, <1>2, NoAdbIs DEF StageInv, LeftInv, Untouched, Partless
<1>5. RunInv /\ CleanInv /\ \A t \in Targets : ResultInv(t)
  BY <1>2, NoAdbIs DEF RunInv, CleanInv, ResultInv
<1> QED
  BY <1>3, <1>4, <1>5 DEF OperationInv

\* An action has one of the forms below; only adb and a rival touch the files.
LEMMA OperationStepKeeps ==
  ASSUME OperationInv, [OperationNext]_operationVars
  PROVE  OperationInv' /\ OthersKept
<1>1. ASSUME UNCHANGED guestFiles PROVE OthersKept
  BY <1>1 DEF OthersKept
<1>2. CASE OperationStep
  <2>1. UNCHANGED guestFiles
    BY <1>2, Zenon DEF OperationStep, BeginTarget, Spawn, SpawnCleanup, PollKills, PollSeesExit,
                       CleanupEnds, ConnectDevice, Shoot, PublishScreenshot, BeginStop, StopEnds
  <2>2. OperationInv'
    BY <1>2, BeginTargetKeeps, SpawnKeeps, SpawnCleanupKeeps, PollKeeps, CleanupEndsKeeps,
       PlacesKeep, PublishKeeps, StopEndsKeeps, Zenon DEF OperationStep
  <2> QED
    BY <1>1, <2>1, <2>2
<1>3. CASE \E kind \in Kinds, order \in Orders : Plan(kind, order)
  <2>1. UNCHANGED guestFiles
    BY <1>3, Zenon DEF Plan
  <2> QED
    BY <1>1, <1>3, <2>1, BeforeRunKeeps
<1>4. CASE Authorize \/ Dismiss
  <2>1. UNCHANGED guestFiles
    BY <1>4, Zenon DEF Authorize, Dismiss
  <2> QED
    BY <1>1, <1>4, <2>1, BeforeRunKeeps
<1>5. CASE CancelOperation \/ WorkspaceFollows
  <2>1. UNCHANGED guestFiles
    BY <1>5, Zenon DEF CancelOperation, WorkspaceFollows
  <2> QED
    BY <1>1, <1>5, <2>1, CancelKeeps
<1>6. CASE AdbExits
  <2>1. UNCHANGED guestFiles
    BY <1>6, Zenon DEF AdbExits
  <2> QED
    BY <1>1, <1>6, <2>1, AdbExitsKeeps
<1>7. CASE AdbActs
  BY <1>7, AdbActsKeeps
<1>8. ASSUME NEW t \in Targets, TargetSessionEnds(t)
      PROVE  OperationInv' /\ OthersKept
  <2>1. UNCHANGED guestFiles
    BY <1>8, Zenon DEF TargetSessionEnds
  <2> QED
    BY <1>1, <1>8, <2>1, TargetSessionKeeps
<1>9. ASSUME NEW t \in Targets, NEW i \in 1 .. Items, RivalWrites(t, i)
      PROVE  OperationInv' /\ OthersKept
  BY <1>9, RivalKeeps
<1>10. CASE UNCHANGED operationVars
  <2>1. UNCHANGED <<sessions, listed, operation, results, task, adb, guestFiles, pictures, strays>>
    BY <1>10 DEF operationVars
  <2>2. Target' = Target /\ Program' = Program
    BY <2>1 DEF Target, Program
  <2>3. Command' = Command
    BY <2>1, <2>2 DEF Command
  <2>4. OperationTypes' /\ StageInv' /\ LeftInv'
    BY <2>1, <2>2, <2>3 DEF OperationInv, OperationTypes, StageInv, LeftInv, Untouched, Partless
  <2>5. RunInv' /\ CleanInv'
    BY <2>1, <2>2, <2>3 DEF OperationInv, RunInv, CleanInv, ItemInv
  <2>6. \A u \in Targets : ResultInv(u)'
    BY <2>1, <2>2, <2>3 DEF OperationInv, ResultInv, Partless
  <2> QED
    BY <1>1, <2>1, <2>4, <2>5, <2>6 DEF OperationInv
<1> QED
  BY <1>2, <1>3, <1>4, <1>5, <1>6, <1>7, <1>8, <1>9, <1>10, Zenon DEF OperationNext

LEMMA OperationInvariant == OperationSpec => []OperationInv
<1>1. OperationInv /\ [OperationNext]_operationVars => OperationInv'
  BY OperationStepKeeps
<1> QED
  BY OperationInitInv, <1>1, PTL DEF OperationSpec

\* The types of a confirmed batch, of its target and of its adb call (core/operation.rs).
LEMMA OperationTypeCorrect == OperationSpec => []OperationTypeOK
<1>1. OperationInv => OperationTypeOK
  BY DEF OperationInv, OperationTypes, OperationTypeOK, OperationRecords, TargetTasks, AdbProcesses
<1> QED
  BY <1>1, OperationInvariant, PTL

\* Whatever interrupts a push, whenever a route ends: the cleanup knows every
\* part that may be on a device that is still there, a success leaves none, and
\* after a session ended at most the command that was running still reaches the
\* device; a screenshot reported as saved is the file of that device.
THEOREM OperationsAreCleanCorrect == OperationSpec => []OperationsAreClean
<1>1. ASSUME OperationInv PROVE OperationsAreClean
  <2>1. NoPartIsForgotten
    <3>1. ASSUME NEW t \in Targets, results[t] = "succeeded"
          PROVE  Leftovers(t) = {}
      BY <1>1, <3>1 DEF OperationInv, ResultInv, Partless, Leftovers
    <3>2. ASSUME task.at \in {"wait", "spawn"}, Target \in sessions
          PROVE  Leftovers(Target) \subseteq task.staged
      BY <1>1, <3>2 DEF OperationInv, RunInv, ItemInv, Leftovers
    <3>3. ASSUME task.at = "clean", Target \in sessions
          PROVE  /\ Leftovers(Target) \subseteq task.staged
                 /\ adb.acted => Leftovers(Target) = {}
      BY <1>1, <3>3 DEF OperationInv, CleanInv, Leftovers
    <3> QED
      BY <3>1, <3>2, <3>3 DEF NoPartIsForgotten
  <2>2. StaleRouteIsLetGo /\ ScreenshotsAreKept
    BY <1>1 DEF OperationInv, ResultInv, StaleRouteIsLetGo, ScreenshotsAreKept
  <2> QED
    BY <2>1, <2>2 DEF OperationsAreClean
<1> QED
  BY OperationInvariant, <1>1, PTL

\* No command and no cleanup of an operation replaces or removes a file that
\* another program made under the name it publishes.
THEOREM OthersFilesAreKeptCorrect == OperationSpec => OthersFilesAreKept
<1> DEFINE A == \A t \in Targets, i \in 1 .. Items :
                  guestFiles[t][i].file = "other" => guestFiles'[t][i].file = "other"
<1>1. OperationInv /\ [OperationNext]_operationVars => [A]_operationVars
  BY OperationStepKeeps DEF OthersKept
<1>2. OperationSpec => [][A]_operationVars
  BY OperationInvariant, <1>1, PTL DEF OperationSpec
<1> QED
  BY <1>2 DEF OthersFilesAreKept

-----------------------------------------------------------------------------
(* The inductive invariant of EngineLaunch.                                 *)

ProcessRecords ==
  [kind : {"none", "launcher", "parent", "engine", "stranger"}, of : Attempts \cup {NoAttempt},
   state : {"unused", "gone", "alive", "termed", "dying", "zombie"}]
Found == {"verify", "abort", "boot", "unboot", "running", "closing"}   \* the engine is known
Stopping == {"abort", "unboot", "closing"}
LaunchRecords ==
  [at : {"idle", "checked", "bound", "spawned"} \cup Found, n : Attempts \cup {NoAttempt},
   launcher : Pids \cup {NoPid}, engine : Pids \cup {NoPid}, tracked : Attempts \cup {NoAttempt},
   mic : BOOLEAN, check : Nat]
StopRecords == [at : {"none", "begin", "termed", "killed", "ended"}, pid : Pids \cup {NoPid},
                failed : BOOLEAN]
CleanerRecords == [at : {"none", "wait", "killed"}, engine : Pids \cup {NoPid},
                   launcher : Pids \cup {NoPid}]
EndRecords == [how : {"not", "refused", "failed", "stopped"}, tracked : Attempts \cup {NoAttempt}]

EngineTypes ==
  /\ proc \in [Pids -> ProcessRecords] /\ ads \subseteq Pids
  /\ launch \in LaunchRecords /\ stopping \in StopRecords
  /\ cleaner \in [Attempts -> CleanerRecords] /\ ended \in [Attempts -> EndRecords]

\* No engine of the attempt comes any more, and none but e may live.
LauncherGone(t) == \A p \in Pids : proc[p].kind = "launcher" => proc[p].of # t
OnlyEngine(t, e) ==
  \A p \in Pids : proc[p].kind = "engine" /\ proc[p].of = t /\ proc[p].state \in {"alive", "termed"}
                    => p = e

\* An attempt has one launcher, and when that has forked one engine; what is
\* advertised is, or was, an engine.
ProcessInv ==
  /\ \A p \in Pids : proc[p].kind \in {"launcher", "engine"} =>
       /\ proc[p].of \in 1 .. launch.n
       /\ launch.at \in {"checked", "bound"} => proc[p].of # launch.n
  /\ \A p, q \in Pids :
       proc[p].kind \in {"launcher", "engine"} /\ proc[q].kind \in {"launcher", "engine"} =>
         p = q \/ proc[p].of # proc[q].of
  /\ \A p \in ads : proc[p] # Unused /\ proc[p].kind \notin {"launcher", "parent"}

\* A stop that has done with the engine and did not fail has seen it dead.
LaunchInv ==
  /\ launch.at # "idle" => launch.n \in Attempts /\ ended[launch.n].how = "not"
  /\ launch.at \in Found => /\ LauncherGone(launch.tracked) /\ OnlyEngine(launch.tracked, launch.engine)
                            /\ launch.tracked \in 1 .. launch.n
  /\ launch.at \notin Found => launch.tracked = NoAttempt
  /\ stopping.at # "none" => launch.at \in Stopping
  /\ stopping.at = "ended" \/ (stopping.at # "none" /\ stopping.pid # launch.engine) =>
       stopping.failed \/ ~EngineLives(launch.tracked)

\* The engine of an attempt that ended is its cleanup thread's, or does not live.
EndedInv(a) ==
  /\ ended[a].how # "not" => a <= launch.n
  /\ ended[a].how \in {"failed", "stopped"} =>
       /\ LauncherGone(ended[a].tracked) /\ ended[a].tracked <= a
       /\ \/ cleaner[a].at = "wait" /\ OnlyEngine(ended[a].tracked, cleaner[a].engine)
          \/ ~EngineLives(ended[a].tracked)

EngineInv == EngineTypes /\ ProcessInv /\ LaunchInv /\ \A a \in Attempts : EndedInv(a)

-----------------------------------------------------------------------------
(* What a step does to the processes.                                       *)

\* No process comes, and none comes back.
Quiet ==
  \A p \in Pids :
    /\ proc'[p].kind \in {"launcher", "parent", "engine"} =>
         /\ proc'[p].kind = proc[p].kind /\ proc'[p].of = proc[p].of
         /\ proc'[p].state \in {"alive", "termed"} => proc[p].state \in {"alive", "termed"}
    /\ proc'[p] = Unused => proc[p] = Unused

\* What is settled about the engine of an attempt stays so.
Calm(t) ==
  /\ LauncherGone(t) => LauncherGone(t)'
  /\ \A e \in Pids \cup {NoPid} : OnlyEngine(t, e) => OnlyEngine(t, e)'
  /\ ~EngineLives(t) => ~EngineLives(t)'

LEMMA QuietIsCalm ==
  ASSUME Quiet, NEW t
  PROVE  Calm(t)
BY DEF Quiet, Calm, LauncherGone, OnlyEngine, EngineLives

LEMMA OnlyDead ==
  ASSUME NEW t, NEW e \in Pids \cup {NoPid}, OnlyEngine(t, e), ~ProcessAlive(e)
  PROVE  ~EngineLives(t)
BY DEF OnlyEngine, ProcessAlive, EngineLives

\* A signal.
LEMMA SignalledIs ==
  ASSUME NEW procs \in [Pids -> ProcessRecords], NEW ps, NEW to \in {"termed", "dying"}
  PROVE  /\ Signalled(procs, ps, to) \in [Pids -> ProcessRecords]
         /\ \A p \in Pids :
              LET new == Signalled(procs, ps, to)[p] IN
              /\ new.kind = procs[p].kind /\ new.of = procs[p].of
              /\ \/ new = procs[p] /\ (p \notin ps \/ procs[p].state \notin {"alive", "termed"})
                 \/ procs[p].state \in {"alive", "termed"} /\ new.state = to
<1> DEFINE s == Signalled(procs, ps, to)
<1>1. s = [p \in Pids |-> IF p \in ps /\ procs[p].state \in {"alive", "termed"}
                          THEN [procs[p] EXCEPT !.state = to] ELSE procs[p]]
  BY DEF Signalled
<1>2. ASSUME NEW p \in Pids
      PROVE  /\ s[p] \in ProcessRecords /\ s[p].kind = procs[p].kind /\ s[p].of = procs[p].of
             /\ \/ s[p] = procs[p] /\ (p \notin ps \/ procs[p].state \notin {"alive", "termed"})
                \/ procs[p].state \in {"alive", "termed"} /\ s[p].state = to
  <2> DEFINE w == [procs[p] EXCEPT !.state = to]
  <2>1. procs[p] \in ProcessRecords
    OBVIOUS
  <2>2. w \in ProcessRecords /\ w.kind = procs[p].kind /\ w.of = procs[p].of /\ w.state = to
    BY <2>1 DEF ProcessRecords
  <2>3. s[p] = IF p \in ps /\ procs[p].state \in {"alive", "termed"} THEN w ELSE procs[p]
    BY <1>1
  <2> HIDE DEF w, s
  <2> QED
    BY <2>1, <2>2, <2>3
<1>3. s \in [Pids -> ProcessRecords]
  <2>1. s = [p \in Pids |-> s[p]]
    BY <1>1
  <2> HIDE DEF s
  <2> QED
    BY <1>2, <2>1
<1> QED
  BY <1>2, <1>3

\* Signals, and a process that is reaped.
LEMMA SignalIsQuiet ==
  ASSUME EngineTypes, NEW ps, NEW to \in {"termed", "dying"}, proc' = Signalled(proc, ps, to)
  PROVE  proc' \in [Pids -> ProcessRecords] /\ Quiet
<1>1. proc \in [Pids -> ProcessRecords]
  BY DEF EngineTypes
<1>2. proc' \in [Pids -> ProcessRecords]
  BY <1>1, SignalledIs
<1>3. \A p \in Pids :
        /\ proc'[p].kind = proc[p].kind /\ proc'[p].of = proc[p].of
        /\ proc'[p] = proc[p] \/ (proc[p].state \in {"alive", "termed"} /\ proc'[p].state = to)
  BY <1>1, SignalledIs
<1>4. \A p \in Pids : proc'[p] = Unused => proc[p] = Unused
  BY <1>3 DEF Unused, NobodyThere
<1> QED
  BY <1>2, <1>3, <1>4 DEF Quiet

LEMMA NobodyIs ==
  /\ NobodyThere \in ProcessRecords /\ Unused \in ProcessRecords /\ Unused # NobodyThere
  /\ NobodyThere.kind = "none" /\ Unused.kind = "none" /\ Unused.state = "unused"
BY DEF NobodyThere, Unused, ProcessRecords

\* The engine of what is found is the tracked attempt's.
LEMMA FoundIs ==
  ASSUME EngineInv, launch.at \in Found
  PROVE  /\ LauncherGone(launch.tracked) /\ OnlyEngine(launch.tracked, launch.engine)
         /\ launch.tracked \in 1 .. launch.n /\ launch.engine \in Pids \cup {NoPid}
BY DEF EngineInv, EngineTypes, LaunchInv, LaunchRecords

LEMMA ProcessKeeps ==
  ASSUME EngineInv, Quiet, ads' \subseteq ads \cup {p \in Pids : proc'[p].kind = "engine"},
         launch' \in LaunchRecords,
         \/ launch'.n = launch.n /\ (launch'.at \in {"checked", "bound"} => launch.at \in {"checked", "bound"})
         \/ launch'.n = launch.n + 1
  PROVE  ProcessInv'
<1>1. /\ launch.n \in Nat /\ launch'.n \in Nat
      /\ \A p \in Pids : proc[p].kind \in {"launcher", "engine"} =>
           /\ proc[p].of \in 1 .. launch.n
           /\ launch.at \in {"checked", "bound"} => proc[p].of # launch.n
  BY EngineAssumption DEF EngineInv, EngineTypes, LaunchRecords, ProcessInv, Attempts, NoAttempt
<1>2. ASSUME NEW p \in Pids, proc'[p].kind \in {"launcher", "engine"}
      PROVE  /\ proc'[p].of \in 1 .. launch'.n
             /\ launch'.at \in {"checked", "bound"} => proc'[p].of # launch'.n
  <2>1. proc'[p].kind = proc[p].kind /\ proc'[p].of = proc[p].of
    BY <1>2 DEF Quiet
  <2> QED
    BY <1>1, <1>2, <2>1
<1>3. ASSUME NEW p \in Pids, NEW q \in Pids, proc'[p].kind \in {"launcher", "engine"},
             proc'[q].kind \in {"launcher", "engine"}
      PROVE  p = q \/ proc'[p].of # proc'[q].of
  BY <1>3 DEF EngineInv, ProcessInv, Quiet
<1>4. ASSUME NEW p \in ads'
      PROVE  proc'[p] # Unused /\ proc'[p].kind \notin {"launcher", "parent"}
  <2>1. p \in Pids
    BY DEF EngineInv, EngineTypes
  <2>2. CASE p \in ads
    <3>1. proc[p] # Unused /\ proc[p].kind \notin {"launcher", "parent"}
      BY <2>2 DEF EngineInv, ProcessInv
    <3> QED
      BY <2>1, <3>1 DEF Quiet
  <2>3. CASE proc'[p].kind = "engine"
    BY <2>3, NobodyIs
  <2> QED
    BY <2>2, <2>3
<1> QED
  BY <1>2, <1>3, <1>4 DEF ProcessInv

\* What is known of an attempt that ended.
LEMMA EndedKeeps ==
  ASSUME EngineInv, EngineTypes', NEW a \in Attempts, ended'[a] = ended[a], launch'.n >= launch.n,
         LauncherGone(ended[a].tracked) => Calm(ended[a].tracked),
         \/ cleaner'[a] = cleaner[a]
         \/ ended[a].how \in {"failed", "stopped"} => ~EngineLives(ended[a].tracked)'
  PROVE  EndedInv(a)'
<1>1. PICK t, e, f : t = ended[a].tracked /\ e = cleaner[a].engine /\ f = cleaner'[a].engine
  OBVIOUS
<1>2. /\ ended'[a].tracked = t /\ ended'[a].how = ended[a].how /\ e \in Pids \cup {NoPid}
      /\ LauncherGone(t) => Calm(t)
  BY <1>1 DEF EngineInv, EngineTypes, CleanerRecords
<1>3. ended'[a].how # "not" => a <= launch'.n
  BY <1>2 DEF EngineInv, EndedInv, EngineTypes, LaunchRecords, Attempts, NoAttempt
<1>4. ASSUME ended[a].how \in {"failed", "stopped"}
      PROVE  /\ LauncherGone(t)' /\ t <= a
             /\ \/ cleaner'[a].at = "wait" /\ OnlyEngine(t, f)'
                \/ ~EngineLives(t)'
  <2>1. /\ LauncherGone(t) /\ t <= a
        /\ (cleaner[a].at = "wait" /\ OnlyEngine(t, e)) \/ ~EngineLives(t)
    BY <1>1, <1>4 DEF EngineInv, EndedInv
  <2>2. LauncherGone(t)' /\ (OnlyEngine(t, e) => OnlyEngine(t, e)') /\ (~EngineLives(t) => ~EngineLives(t)')
    BY <1>2, <2>1 DEF Calm
  <2>3. CASE cleaner'[a] = cleaner[a]
    BY <1>1, <2>1, <2>2, <2>3
  <2>4. CASE ~EngineLives(ended[a].tracked)'
    BY <1>1, <1>2, <2>1, <2>2, <2>4
  <2> QED
    BY <1>4, <2>3, <2>4
<1> QED
  BY <1>1, <1>2, <1>3, <1>4 DEF EndedInv

\* A step of an attempt that goes on.
LEMMA AdvanceKeeps ==
  ASSUME EngineInv, Quiet, proc' \in [Pids -> ProcessRecords], ads' \subseteq Pids,
         ads' \subseteq ads \cup {p \in Pids : proc'[p].kind = "engine"},
         launch' \in LaunchRecords, stopping' \in StopRecords, UNCHANGED <<cleaner, ended>>,
         launch'.n = launch.n, launch'.tracked = launch.tracked, launch'.engine = launch.engine,
         launch'.at \in Found <=> launch.at \in Found,
         launch'.at # "idle" => launch.at # "idle",
         launch'.at \in {"checked", "bound"} => launch.at \in {"checked", "bound"},
         stopping'.at # "none" => launch'.at \in Stopping,
         stopping'.at = "ended" \/ (stopping'.at # "none" /\ stopping'.pid # launch.engine) =>
           stopping'.failed \/ ~EngineLives(launch.tracked)
  PROVE  EngineInv'
<1>1. PICK t, e : t = launch.tracked /\ e = launch.engine
  OBVIOUS
<1>2. EngineTypes'
  BY DEF EngineInv, EngineTypes
<1>3. ProcessInv'
  BY ProcessKeeps
<1>4. /\ launch.at # "idle" => launch.n \in Attempts /\ ended[launch.n].how = "not"
      /\ launch.at \in Found => LauncherGone(t) /\ OnlyEngine(t, e) /\ t \in 1 .. launch.n
      /\ launch.at \notin Found => t = NoAttempt
      /\ e \in Pids \cup {NoPid}
  BY <1>1 DEF EngineInv, EngineTypes, LaunchInv, LaunchRecords
<1>5. /\ LauncherGone(t) => LauncherGone(t)'
      /\ OnlyEngine(t, e) => OnlyEngine(t, e)'
      /\ ~EngineLives(t) => ~EngineLives(t)'
  BY <1>4, QuietIsCalm DEF Calm
<1>6. LaunchInv'
  <2>1. stopping'.at = "ended" \/ (stopping'.at # "none" /\ stopping'.pid # e) =>
          stopping'.failed \/ ~EngineLives(t)'
    BY <1>1, <1>5
  <2> QED
    BY <1>1, <1>4, <1>5, <2>1 DEF LaunchInv
<1>7. ASSUME NEW a \in Attempts PROVE EndedInv(a)'
  <2>1. launch'.n >= launch.n /\ ended'[a] = ended[a] /\ cleaner'[a] = cleaner[a]
    BY EngineAssumption DEF EngineInv, EngineTypes, LaunchRecords, Attempts, NoAttempt
  <2> QED
    BY <1>2, <2>1, QuietIsCalm, EndedKeeps
<1> QED
  BY <1>2, <1>3, <1>6, <1>7 DEF EngineInv

LEMMA NoLaunchIs ==
  ASSUME NEW n \in Attempts \cup {NoAttempt}, NEW l, l = [NoLaunch EXCEPT !.n = n]
  PROVE  /\ l \in LaunchRecords /\ l.at = "idle" /\ l.n = n /\ l.tracked = NoAttempt
         /\ NoStop \in StopRecords /\ NoStop.at = "none"
<1> DEFINE w == [at |-> "idle", n |-> n, launcher |-> NoPid, engine |-> NoPid, tracked |-> NoAttempt,
                 mic |-> FALSE, check |-> 1]
<1>1. l = w
  BY DEF NoLaunch
<1>2. w \in LaunchRecords /\ w.at = "idle" /\ w.n = n /\ w.tracked = NoAttempt
  BY DEF LaunchRecords, NoAttempt
<1> HIDE DEF w
<1>3. NoStop \in StopRecords /\ NoStop.at = "none"
  BY DEF NoStop, StopRecords
<1> QED
  BY <1>1, <1>2, <1>3

\* An attempt ends: its engine is not known, is dead, or goes to the cleanup thread.
LEMMA EndLaunchKeeps ==
  ASSUME EngineInv, launch.at # "idle", NEW how \in {"failed", "stopped"}, EndLaunch(how),
         Quiet, proc' \in [Pids -> ProcessRecords], ads' \subseteq ads,
         \/ cleaner' = cleaner /\ (launch.at \in Found => ~EngineLives(launch.tracked))
         \/ launch.at \in Found /\ CleanupScheduled(launch.engine, launch.launcher)
  PROVE  EngineInv'
<1>1. PICK n, t, e, l : n = launch.n /\ t = launch.tracked /\ e = launch.engine /\ l = launch.launcher
  OBVIOUS
<1>2. /\ n \in Attempts /\ t \in Attempts \cup {NoAttempt} /\ e \in Pids \cup {NoPid}
      /\ l \in Pids \cup {NoPid} /\ launch \in LaunchRecords
  BY <1>1 DEF EngineInv, EngineTypes, LaunchInv, LaunchRecords
<1>3. /\ ended' = [ended EXCEPT ![n] = [how |-> how, tracked |-> t]]
      /\ launch' = [NoLaunch EXCEPT !.n = n]
      /\ stopping' = NoStop
  BY <1>1 DEF EndLaunch
<1>4. /\ launch' \in LaunchRecords /\ launch'.at = "idle" /\ launch'.n = n /\ launch'.tracked = NoAttempt
      /\ stopping' \in StopRecords /\ stopping'.at = "none"
  BY <1>2, <1>3, NoLaunchIs
<1>5. /\ ended' \in [Attempts -> EndRecords] /\ ended'[n].how = how /\ ended'[n].tracked = t
      /\ \A a \in Attempts : a # n => ended'[a] = ended[a]
  <2> DEFINE w == [how |-> how, tracked |-> t]
  <2>1. w \in EndRecords /\ w.how = how /\ w.tracked = t
    BY <1>2 DEF EndRecords
  <2> HIDE DEF w
  <2> QED
    BY <1>2, <1>3, <2>1 DEF w, EngineInv, EngineTypes
<1>6. /\ cleaner' \in [Attempts -> CleanerRecords]
      /\ \A a \in Attempts : a # n => cleaner'[a] = cleaner[a]
      /\ \/ cleaner' = cleaner /\ (launch.at \in Found => ~EngineLives(t))
         \/ launch.at \in Found /\ cleaner'[n].at = "wait" /\ cleaner'[n].engine = e
  <2> DEFINE w == [at |-> "wait", engine |-> e, launcher |-> l]
  <2>1. w \in CleanerRecords /\ w.at = "wait" /\ w.engine = e
    BY <1>2 DEF CleanerRecords
  <2>2. \/ cleaner' = cleaner /\ (launch.at \in Found => ~EngineLives(t))
        \/ launch.at \in Found /\ cleaner' = [cleaner EXCEPT ![n] = w]
    BY <1>1 DEF CleanupScheduled
  <2> HIDE DEF w
  <2> QED
    BY <1>2, <2>1, <2>2 DEF EngineInv, EngineTypes
<1>7. EngineTypes'
  BY <1>4, <1>5, <1>6 DEF EngineInv, EngineTypes
<1>8. ProcessInv'
  BY <1>1, <1>4, ProcessKeeps
<1>9. /\ LauncherGone(t) /\ t <= n
      /\ (launch.at \in Found /\ OnlyEngine(t, e)) \/ ~EngineLives(t)
  <2>1. CASE launch.at \in Found
    BY <1>1, <1>2, <2>1, FoundIs DEF Attempts
  <2>2. CASE launch.at \notin Found
    <3>1. t = 0
      BY <1>1, <2>2 DEF EngineInv, LaunchInv, NoAttempt
    <3>2. \A p \in Pids : proc[p].kind \in {"launcher", "engine"} => proc[p].of # 0
      BY DEF EngineInv, ProcessInv
    <3> QED
      BY <1>2, <3>1, <3>2, EngineAssumption DEF LauncherGone, EngineLives, Attempts
  <2> QED
    BY <2>1, <2>2
<1>10. /\ LauncherGone(t)' /\ (OnlyEngine(t, e) => OnlyEngine(t, e)')
       /\ ~EngineLives(t) => ~EngineLives(t)'
  BY <1>2, <1>9, QuietIsCalm DEF Calm
<1>11. LaunchInv'
  BY <1>4 DEF LaunchInv, Found
<1>12. EndedInv(n)'
  <2>1. (cleaner'[n].at = "wait" /\ cleaner'[n].engine = e /\ OnlyEngine(t, e)') \/ ~EngineLives(t)'
    BY <1>1, <1>6, <1>9, <1>10, FoundIs
  <2> QED
    BY <1>4, <1>5, <1>9, <1>10, <2>1, <1>2 DEF EndedInv, Attempts
<1>13. ASSUME NEW a \in Attempts, a # n PROVE EndedInv(a)'
  <2>1. launch'.n >= launch.n /\ ended'[a] = ended[a] /\ cleaner'[a] = cleaner[a]
    BY <1>1, <1>2, <1>4, <1>5, <1>6, <1>13, EngineAssumption DEF Attempts
  <2> QED
    BY <1>7, <2>1, QuietIsCalm, EndedKeeps
<1> QED
  BY <1>7, <1>8, <1>11, <1>12, <1>13 DEF EngineInv

-----------------------------------------------------------------------------
(* The processes.                                                           *)

\* The launch is left alone.
LEMMA ProcessesKeep ==
  ASSUME EngineInv, Quiet, proc' \in [Pids -> ProcessRecords],
         ads' \subseteq ads \cup {p \in Pids : proc'[p].kind = "engine"},
         UNCHANGED <<launch, stopping, cleaner, ended>>
  PROVE  EngineInv'
<1>1. launch' \in LaunchRecords /\ stopping' \in StopRecords /\ ads' \subseteq Pids
  BY DEF EngineInv, EngineTypes
<1>2. /\ stopping'.at # "none" => launch'.at \in Stopping
      /\ stopping'.at = "ended" \/ (stopping'.at # "none" /\ stopping'.pid # launch.engine) =>
           stopping'.failed \/ ~EngineLives(launch.tracked)
  BY DEF EngineInv, LaunchInv
<1> QED
  BY <1>1, <1>2, AdvanceKeeps

LEMMA ReapedIsQuiet ==
  ASSUME NEW p, NEW procs \in [Pids -> ProcessRecords], proc \in [Pids -> ProcessRecords],
         proc' = [procs EXCEPT ![p] = NobodyThere],
         \A q \in Pids : /\ procs[q].kind = proc[q].kind /\ procs[q].of = proc[q].of
                         /\ procs[q].state \in {"alive", "termed"} => proc[q].state \in {"alive", "termed"}
                         /\ procs[q] = Unused => proc[q] = Unused
  PROVE  proc' \in [Pids -> ProcessRecords] /\ Quiet
<1>1. proc' \in [Pids -> ProcessRecords] /\ \A q \in Pids : proc'[q] \in {procs[q], NobodyThere}
  BY NobodyIs
<1> QED
  BY <1>1, NobodyIs DEF Quiet

LEMMA ProcessEndsKeeps ==
  ASSUME EngineInv, NEW p \in Pids, NEW saving \in BOOLEAN, ProcessEnds(p, saving)
  PROVE  EngineInv'
<1> DEFINE w == [proc[p] EXCEPT !.state = "zombie"]
<1>1. /\ ProcessAlive(p) /\ proc[p].kind # "stranger"
      /\ proc' = [proc EXCEPT ![p] = w] \/ proc' = [proc EXCEPT ![p] = NobodyThere]
      /\ ads' \subseteq ads
      /\ UNCHANGED <<launch, stopping, cleaner, ended>>
  BY DEF ProcessEnds
<1>2. proc \in [Pids -> ProcessRecords]
  BY DEF EngineInv, EngineTypes
<1>3. proc[p] \in ProcessRecords
  BY <1>2
<1>4. w \in ProcessRecords /\ w.kind = proc[p].kind /\ w.of = proc[p].of /\ w.state = "zombie"
  BY <1>3 DEF ProcessRecords
<1> HIDE DEF w
<1>5. CASE proc' = [proc EXCEPT ![p] = w]
  <2>1. proc' \in [Pids -> ProcessRecords] /\ proc'[p] = w /\ \A q \in Pids : q # p => proc'[q] = proc[q]
    BY <1>2, <1>4, <1>5
  <2>2. Quiet
    BY <1>4, <2>1, NobodyIs DEF Quiet
  <2> QED
    BY <1>1, <2>1, <2>2, ProcessesKeep
<1>6. CASE proc' = [proc EXCEPT ![p] = NobodyThere]
  BY <1>1, <1>2, <1>6, ReapedIsQuiet, ProcessesKeep
<1> QED
  BY <1>1, <1>5, <1>6

LEMMA AdvertisedKeeps ==
  ASSUME EngineInv, NEW p \in Pids, EngineAdvertises(p) \/ PidIsReused(p)
  PROVE  EngineInv'
<1>1. proc \in [Pids -> ProcessRecords]
  BY DEF EngineInv, EngineTypes
<1>2. CASE EngineAdvertises(p)
  <2>1. /\ proc[p].kind = "engine" /\ ads' = ads \cup {p} /\ proc' = proc
        /\ UNCHANGED <<launch, stopping, cleaner, ended>>
    BY <1>2 DEF EngineAdvertises
  <2> QED
    BY <1>1, <2>1, ProcessesKeep DEF Quiet
<1>3. CASE PidIsReused(p)
  <2> DEFINE w == [kind |-> "stranger", of |-> NoAttempt, state |-> "alive"]
  <2>1. /\ proc[p] = NobodyThere /\ proc' = [proc EXCEPT ![p] = w]
        /\ ads' = ads /\ UNCHANGED <<launch, stopping, cleaner, ended>>
    BY <1>3 DEF PidIsReused
  <2>2. w \in ProcessRecords /\ w.kind = "stranger"
    BY DEF ProcessRecords, NoAttempt
  <2> HIDE DEF w
  <2>3. proc' \in [Pids -> ProcessRecords] /\ proc'[p] = w /\ \A q \in Pids : q # p => proc'[q] = proc[q]
    BY <1>1, <2>1, <2>2
  <2>4. Quiet
    BY <2>2, <2>3, NobodyIs DEF Quiet
  <2> QED
    BY <2>1, <2>3, <2>4, ProcessesKeep
<1> QED
  BY <1>2, <1>3

\* A process that comes: a launcher of an attempt that had none, or its engine.
LEMMA ComesKeeps ==
  ASSUME EngineInv, proc' \in [Pids -> ProcessRecords], launch' \in LaunchRecords,
         NEW q \in Pids, proc[q] = Unused, NEW n \in Nat, proc'[q].of = n,
         proc'[q].kind \in {"launcher", "engine"},
         \A p \in Pids \ {q} :
           /\ proc'[p].kind \in {"launcher", "engine"} => proc'[p] = proc[p] /\ proc[p].of # n
           /\ proc'[p] = Unused => proc[p] = Unused
           /\ proc'[p].kind = "parent" => proc[p].kind \in {"launcher", "parent"}
           /\ proc'[p].kind = "launcher" => proc[p].kind = "launcher",
         \A p \in ads : proc'[p].kind = "parent" => proc[p].kind = "parent",
         n \in 1 .. launch.n, launch'.at \in {"checked", "bound"} => launch' = launch /\ n # launch.n,
         UNCHANGED <<ads, stopping, cleaner, ended>>,
         launch' = launch \/ (launch'.n = launch.n /\ launch'.at \notin Found /\ launch.at # "idle"
                              /\ launch'.tracked = NoAttempt /\ stopping.at = "none"),
         launch.at \in Found => launch.tracked # n,
         \A a \in Attempts : ended[a].how \in {"failed", "stopped"} => ended[a].tracked # n
  PROVE  EngineInv'
<1>1. proc \in [Pids -> ProcessRecords] /\ EngineTypes'
  BY DEF EngineInv, EngineTypes
<1>2. /\ \A t : t # n /\ LauncherGone(t) => LauncherGone(t)'
      /\ \A t, e : t # n /\ OnlyEngine(t, e) => OnlyEngine(t, e)'
      /\ \A t : t # n /\ ~EngineLives(t) => ~EngineLives(t)'
  BY DEF LauncherGone, OnlyEngine, EngineLives
<1>3. launch'.n = launch.n
  OBVIOUS
<1>4. ProcessInv'
  <2>1. ASSUME NEW p \in Pids, proc'[p].kind \in {"launcher", "engine"}
        PROVE  /\ proc'[p].of \in 1 .. launch'.n
               /\ launch'.at \in {"checked", "bound"} => proc'[p].of # launch'.n
    BY <1>3, <2>1 DEF EngineInv, ProcessInv
  <2>2. ASSUME NEW p \in Pids, NEW r \in Pids, proc'[p].kind \in {"launcher", "engine"},
               proc'[r].kind \in {"launcher", "engine"}
        PROVE  p = r \/ proc'[p].of # proc'[r].of
    BY <2>2 DEF EngineInv, ProcessInv
  <2>3. ASSUME NEW p \in ads'
        PROVE  proc'[p] # Unused /\ proc'[p].kind \notin {"launcher", "parent"}
    <3>1. p \in Pids /\ proc[p] # Unused /\ proc[p].kind \notin {"launcher", "parent"}
      BY DEF EngineInv, EngineTypes, ProcessInv
    <3> QED
      BY <3>1
  <2> QED
    BY <2>1, <2>2, <2>3 DEF ProcessInv
<1>5. LaunchInv'
  <2>1. CASE launch' = launch
    <3>1. PICK t, e : t = launch.tracked /\ e = launch.engine
      OBVIOUS
    <3>2. stopping.at # "none" => launch.at \in Found
      BY DEF EngineInv, LaunchInv, Stopping, Found
    <3> QED
      BY <1>2, <2>1, <3>1, <3>2 DEF EngineInv, LaunchInv
  <2>2. CASE launch' # launch
    BY <2>2 DEF EngineInv, LaunchInv, Found
  <2> QED
    BY <2>1, <2>2
<1>6. ASSUME NEW a \in Attempts PROVE EndedInv(a)'
  <2>1. PICK t, e : t = ended[a].tracked /\ e = cleaner[a].engine
    OBVIOUS
  <2> QED
    BY <1>2, <1>3, <2>1 DEF EngineInv, EndedInv
<1> QED
  BY <1>1, <1>4, <1>5, <1>6 DEF EngineInv

LEMMA LauncherForksKeeps ==
  ASSUME EngineInv, NEW p \in Pids, LauncherForks(p)
  PROVE  EngineInv'
<1>1. PICK q, n : q = NewPid /\ n = proc[p].of
  OBVIOUS
<1> DEFINE v == [proc[p] EXCEPT !.kind = "parent"]
           w == [kind |-> "engine", of |-> n, state |-> "alive"]
<1>2. /\ proc[p].kind = "launcher" /\ proc[p].state = "alive" /\ Fresh # {}
      /\ proc' = [proc EXCEPT ![p] = v, ![q] = w]
      /\ UNCHANGED <<ads, launch, stopping, cleaner, ended>>
  BY <1>1, Zenon DEF LauncherForks
<1>3. q \in Pids /\ proc[q] = Unused
  <2>1. NewPid \in Fresh
    BY <1>2, Zenon DEF NewPid
  <2> QED
    BY <1>1, <2>1 DEF Fresh
<1>4. proc \in [Pids -> ProcessRecords] /\ launch \in LaunchRecords
  BY DEF EngineInv, EngineTypes
<1>5. proc[p] \in ProcessRecords /\ n \in Attempts \cup {NoAttempt} /\ n \in Nat
  BY <1>1, <1>4, EngineAssumption DEF ProcessRecords, Attempts, NoAttempt
<1>6. v \in ProcessRecords /\ v.kind = "parent" /\ w \in ProcessRecords /\ w.kind = "engine" /\ w.of = n
  BY <1>5 DEF ProcessRecords
<1> HIDE DEF v, w
<1>7. /\ proc' \in [Pids -> ProcessRecords] /\ q # p /\ proc'[q] = w /\ proc'[p] = v
      /\ \A r \in Pids : r # p /\ r # q => proc'[r] = proc[r]
  BY <1>2, <1>3, <1>4, <1>6, NobodyIs
<1>8. /\ n \in 1 .. launch.n /\ (launch.at \in {"checked", "bound"} => n # launch.n)
      /\ \A r \in Pids : proc[r].kind \in {"launcher", "engine"} => r = p \/ proc[r].of # n
      /\ p \notin ads
  BY <1>1, <1>2 DEF EngineInv, ProcessInv
<1>9. /\ launch.at \in Found => launch.tracked # n
      /\ \A a \in Attempts : ended[a].how \in {"failed", "stopped"} => ended[a].tracked # n
  BY <1>1, <1>2 DEF EngineInv, LaunchInv, EndedInv, LauncherGone
<1>10. \A r \in Pids \ {q} :
         /\ proc'[r].kind \in {"launcher", "engine"} => proc'[r] = proc[r] /\ proc[r].of # n
         /\ proc'[r] = Unused => proc[r] = Unused
         /\ proc'[r].kind = "parent" => proc[r].kind \in {"launcher", "parent"}
         /\ proc'[r].kind = "launcher" => proc[r].kind = "launcher"
  BY <1>2, <1>6, <1>7, <1>8, NobodyIs
<1>11. \A r \in ads : proc'[r].kind = "parent" => proc[r].kind = "parent"
  <2>1. \A r \in ads : r \in Pids /\ r # q
    BY <1>3 DEF EngineInv, EngineTypes, ProcessInv
  <2> QED
    BY <1>7, <1>8, <2>1
<1>12. /\ launch' = launch /\ launch' \in LaunchRecords
       /\ launch'.at \in {"checked", "bound"} => launch' = launch /\ n # launch.n
  BY <1>2, <1>4, <1>8
<1>13. proc'[q].of = n /\ proc'[q].kind \in {"launcher", "engine"} /\ proc' \in [Pids -> ProcessRecords]
  BY <1>6, <1>7
<1>14. n \in 1 .. launch.n /\ UNCHANGED <<ads, stopping, cleaner, ended>>
  BY <1>2, <1>8
<1> QED
  BY <1>3, <1>5, <1>9, <1>10, <1>11, <1>12, <1>13, <1>14, ComesKeeps

LEMMA SpawnLauncherKeeps ==
  ASSUME EngineInv, SpawnLauncher
  PROVE  EngineInv'
<1>1. PICK q, n : q = NewPid /\ n = launch.n
  OBVIOUS
<1> DEFINE w == [kind |-> "launcher", of |-> n, state |-> "alive"]
<1>2. /\ launch.at = "bound" /\ Fresh # {}
      /\ proc' = [proc EXCEPT ![q] = w]
      /\ launch' = [launch EXCEPT !.at = "spawned", !.launcher = q]
      /\ UNCHANGED <<ads, stopping, cleaner, ended>>
  BY <1>1, Zenon DEF SpawnLauncher
<1>3. q \in Pids /\ proc[q] = Unused
  <2>1. NewPid \in Fresh
    BY <1>2, Zenon DEF NewPid
  <2> QED
    BY <1>1, <2>1 DEF Fresh
<1>4. proc \in [Pids -> ProcessRecords] /\ launch \in LaunchRecords
  BY DEF EngineInv, EngineTypes
<1>5. /\ n \in Attempts /\ n \in Nat /\ n \in 1 .. launch.n /\ launch.tracked = NoAttempt
      /\ ended[n].how = "not" /\ stopping.at = "none"
  BY <1>1, <1>2, EngineAssumption DEF EngineInv, LaunchInv, Attempts, Found, Stopping
<1>6. w \in ProcessRecords /\ w.kind = "launcher" /\ w.of = n
  BY <1>5 DEF ProcessRecords
<1> HIDE DEF w
<1>7. /\ proc' \in [Pids -> ProcessRecords] /\ proc'[q] = w
      /\ \A r \in Pids : r # q => proc'[r] = proc[r]
  BY <1>2, <1>3, <1>4, <1>6
<1>8. /\ launch' \in LaunchRecords /\ launch'.at = "spawned" /\ launch'.n = launch.n
      /\ launch'.tracked = NoAttempt
  BY <1>2, <1>3, <1>4, <1>5 DEF LaunchRecords
<1>9. \A r \in Pids : proc[r].kind \in {"launcher", "engine"} => proc[r].of # n
  BY <1>1, <1>2 DEF EngineInv, ProcessInv
<1>10. ASSUME NEW a \in Attempts, ended[a].how \in {"failed", "stopped"}
       PROVE  ended[a].tracked # n
  <2>1. a <= launch.n /\ ended[a].tracked <= a /\ a # n
    BY <1>5, <1>10 DEF EngineInv, EndedInv
  <2>2. ended[a].tracked \in Nat /\ a \in Nat
    BY EngineAssumption DEF EngineInv, EngineTypes, EndRecords, Attempts, NoAttempt
  <2> QED
    BY <1>1, <1>5, <2>1, <2>2
<1>11. \A r \in ads : r \in Pids /\ r # q
  BY <1>3 DEF EngineInv, EngineTypes, ProcessInv
<1>12. /\ launch'.at \notin Found /\ launch.at \notin Found /\ launch'.at \notin {"checked", "bound"}
       /\ launch.at # "idle"
  BY <1>2, <1>8 DEF Found
<1>13. \A r \in Pids \ {q} :
         /\ proc'[r].kind \in {"launcher", "engine"} => proc'[r] = proc[r] /\ proc[r].of # n
         /\ proc'[r] = Unused => proc[r] = Unused
         /\ proc'[r].kind = "parent" => proc[r].kind \in {"launcher", "parent"}
         /\ proc'[r].kind = "launcher" => proc[r].kind = "launcher"
  BY <1>7, <1>9
<1>14. \A r \in ads : proc'[r].kind = "parent" => proc[r].kind = "parent"
  BY <1>7, <1>11
<1> QED
  BY <1>2, <1>3, <1>5, <1>6, <1>7, <1>8, <1>10, <1>12, <1>13, <1>14, ComesKeeps

\* The cleanup thread kills what may live of the attempt it belongs to.
LEMMA CleanerKeeps ==
  ASSUME EngineInv, NEW a \in Attempts, CleanerKills(a) \/ CleanerEnds(a)
  PROVE  EngineInv'
<1>1. PICK e, l : e = cleaner[a].engine /\ l = cleaner[a].launcher
  OBVIOUS
<1>2. /\ proc \in [Pids -> ProcessRecords] /\ launch \in LaunchRecords /\ stopping \in StopRecords
      /\ cleaner \in [Attempts -> CleanerRecords]
  BY DEF EngineInv, EngineTypes
<1> DEFINE v == [cleaner[a] EXCEPT !.at = "killed"]
<1>3. /\ ads' \subseteq ads /\ UNCHANGED <<launch, stopping, ended>>
      /\ \/ /\ cleaner[a].at = "wait"
            /\ proc' = Signalled(proc, {p \in {e, l} : Verified(p)}, "dying")
            /\ cleaner' = [cleaner EXCEPT ![a] = v]
         \/ /\ cleaner[a].at = "killed" /\ proc' = proc
            /\ cleaner' = [cleaner EXCEPT ![a] = NoCleaner]
  <2>1. CASE CleanerKills(a)
    BY <1>1, <2>1, Zenon DEF CleanerKills
  <2>2. CASE CleanerEnds(a)
    BY <2>2 DEF CleanerEnds
  <2> QED
    BY <2>1, <2>2
<1>4. proc' \in [Pids -> ProcessRecords] /\ Quiet
  <2>1. proc' = proc => Quiet
    BY DEF Quiet
  <2>2. EngineTypes
    BY DEF EngineInv
  <2> QED
    BY <1>2, <1>3, <2>1, <2>2, SignalIsQuiet
<1>5. /\ cleaner' \in [Attempts -> CleanerRecords]
      /\ \A b \in Attempts : b # a => cleaner'[b] = cleaner[b]
  <2>1. cleaner[a] \in CleanerRecords
    BY <1>2
  <2>2. v \in CleanerRecords /\ NoCleaner \in CleanerRecords
    BY <2>1 DEF CleanerRecords, NoCleaner
  <2> HIDE DEF v
  <2> QED
    BY <1>2, <1>3, <2>2
<1>6. EngineTypes'
  BY <1>3, <1>4, <1>5 DEF EngineInv, EngineTypes
<1>7. ProcessInv'
  BY <1>2, <1>3, <1>4, ProcessKeeps
<1>8. LaunchInv'
  <2>1. PICK t, f : t = launch.tracked /\ f = launch.engine
    OBVIOUS
  <2>2. f \in Pids \cup {NoPid}
    BY <1>2, <2>1 DEF LaunchRecords
  <2>3. /\ LauncherGone(t) => LauncherGone(t)'
        /\ OnlyEngine(t, f) => OnlyEngine(t, f)'
        /\ ~EngineLives(t) => ~EngineLives(t)'
    BY <1>4, <2>2, QuietIsCalm DEF Calm
  <2> QED
    BY <1>3, <2>1, <2>3 DEF EngineInv, LaunchInv
<1>9. ASSUME ended[a].how \in {"failed", "stopped"}
      PROVE  ~EngineLives(ended[a].tracked)'
  <2>1. PICK t : t = ended[a].tracked
    OBVIOUS
  <2>2. \/ cleaner[a].at = "wait" /\ OnlyEngine(t, e)
        \/ ~EngineLives(t)
    BY <1>1, <1>9, <2>1 DEF EngineInv, EndedInv
  <2>3. ~EngineLives(t) => ~EngineLives(t)'
    BY <1>4, QuietIsCalm DEF Calm
  <2>4. CASE cleaner[a].at = "wait" /\ OnlyEngine(t, e)
    <3>1. proc' = Signalled(proc, {p \in {e, l} : Verified(p)}, "dying")
      BY <1>3, <2>4
    <3>2. ASSUME NEW p \in Pids, proc'[p].kind = "engine", proc'[p].of = t,
                 proc'[p].state \in {"alive", "termed"}
          PROVE  FALSE
      <4>1. /\ proc[p].kind = "engine" /\ proc[p].of = t /\ proc[p].state \in {"alive", "termed"}
            /\ p \notin {r \in {e, l} : Verified(r)}
        BY <1>2, <3>1, <3>2, SignalledIs
      <4>2. p = e /\ Verified(p)
        BY <2>4, <4>1 DEF OnlyEngine, Verified, ProcessAlive
      <4> QED
        BY <4>1, <4>2
    <3> QED
      BY <1>3, <2>1, <3>2 DEF EngineLives
  <2> QED
    BY <1>3, <2>1, <2>2, <2>3, <2>4
<1>10. ASSUME NEW b \in Attempts PROVE EndedInv(b)'
  <2>1. launch'.n >= launch.n /\ ended'[b] = ended[b]
    BY <1>2, <1>3, EngineAssumption DEF LaunchRecords, Attempts, NoAttempt
  <2>2. cleaner'[b] = cleaner[b] \/ (ended[b].how \in {"failed", "stopped"} => ~EngineLives(ended[b].tracked)')
    BY <1>5, <1>9
  <2> QED
    BY <1>4, <1>6, <2>1, <2>2, QuietIsCalm, EndedKeeps
<1> QED
  BY <1>6, <1>7, <1>8, <1>10 DEF EngineInv

-----------------------------------------------------------------------------
(* Stopping, and the steps of a launch.                                     *)

LEMMA StoppingIs ==
  ASSUME EngineInv, stopping.at # "none"
  PROVE  /\ launch.at \in Stopping /\ launch.at \in Found /\ launch.at # "idle"
         /\ OnlyEngine(launch.tracked, launch.engine)
         /\ launch \in LaunchRecords /\ stopping \in StopRecords /\ proc \in [Pids -> ProcessRecords]
         /\ launch.engine \in Pids \cup {NoPid} /\ launch.launcher \in Pids \cup {NoPid}
         /\ stopping.at = "ended" \/ stopping.pid # launch.engine =>
              stopping.failed \/ ~EngineLives(launch.tracked)
BY DEF EngineInv, LaunchInv, EngineTypes, LaunchRecords, Stopping, Found

\* The engine is done with when it is dead, or the stop has failed.
LEMMA AfterStopIs ==
  ASSUME EngineInv, stopping.at \in {"begin", "termed", "killed"}, NEW failed \in BOOLEAN,
         AfterStop(failed), failed \/ ~ProcessAlive(stopping.pid)
  PROVE  /\ stopping' \in StopRecords
         /\ stopping'.failed \/ ~EngineLives(launch.tracked)
<1>1. PICK t, e, l : t = launch.tracked /\ e = launch.engine /\ l = launch.launcher
  OBVIOUS
<1>2. /\ OnlyEngine(t, e) /\ e \in Pids \cup {NoPid} /\ l \in Pids \cup {NoPid} /\ stopping \in StopRecords
      /\ stopping.pid # e => stopping.failed \/ ~EngineLives(t)
  BY <1>1, StoppingIs
<1>3. failed \/ stopping.failed \/ ~EngineLives(t)
  BY <1>2, OnlyDead
<1>4. stopping.pid = e => failed \/ ~EngineLives(t)
  BY <1>2, OnlyDead
<1> DEFINE v == [at |-> "begin", pid |-> l, failed |-> failed]
           w == [stopping EXCEPT !.at = "ended", !.failed = failed \/ stopping.failed]
<1>5. (stopping' = v /\ stopping.pid = e) \/ stopping' = w
  BY <1>1, Zenon DEF AfterStop
<1>6. v \in StopRecords /\ v.failed = failed
  BY <1>2 DEF StopRecords
<1>7. PICK either \in BOOLEAN : either = (failed \/ stopping.failed)
  OBVIOUS
<1>8. w \in StopRecords /\ w.failed = either
  BY <1>2, <1>7 DEF StopRecords
<1> HIDE DEF v, w
<1> QED
  BY <1>1, <1>3, <1>4, <1>5, <1>6, <1>7, <1>8

LEMMA StopKeeps ==
  ASSUME EngineInv, StopFirst \/ StopSeesDeath \/ StopKills \/ StopGivesUp
  PROVE  EngineInv'
<1>1. PICK q, e : q = stopping.pid /\ e = launch.engine
  OBVIOUS
<1>2. /\ stopping.at \in {"begin", "termed", "killed"}
      /\ UNCHANGED <<launch, cleaner, ended>>
  BY Zenon DEF StopFirst, StopSeesDeath, StopKills, StopGivesUp
<1>3. ads' \subseteq ads
  BY DEF StopFirst, StopSeesDeath, StopKills, StopGivesUp, Stopped
<1>4. \/ /\ proc' = proc
         /\ \E failed \in BOOLEAN : AfterStop(failed) /\ (failed \/ ~ProcessAlive(q))
      \/ /\ proc' = Signalled(proc, {q}, "termed") \/ proc' = Signalled(proc, {q}, "dying")
         /\ \E at \in {"termed", "killed"} : stopping' = [stopping EXCEPT !.at = at]
  <2>1. CASE StopFirst
    <3>1. CASE ~ProcessAlive(q)
      BY <1>1, <2>1, <3>1, Zenon DEF StopFirst
    <3>2. CASE ProcessAlive(q)
      BY <1>1, <2>1, <3>2, Zenon DEF StopFirst
    <3> QED
      BY <3>1, <3>2
  <2>2. CASE StopSeesDeath
    BY <1>1, <2>2, Zenon DEF StopSeesDeath
  <2>3. CASE StopKills
    BY <1>1, <2>3, Zenon DEF StopKills
  <2>4. CASE StopGivesUp
    BY <1>1, <2>4, Zenon DEF StopGivesUp
  <2> QED
    BY <2>1, <2>2, <2>3, <2>4
<1>5. /\ launch.at \in Stopping /\ launch \in LaunchRecords /\ stopping \in StopRecords
      /\ proc \in [Pids -> ProcessRecords] /\ ads' \subseteq Pids /\ EngineTypes
      /\ stopping.pid # e => stopping.failed \/ ~EngineLives(launch.tracked)
  BY <1>1, <1>2, <1>3, StoppingIs DEF EngineInv, EngineTypes
<1>6. proc' \in [Pids -> ProcessRecords] /\ Quiet
  <2>1. proc' = proc => Quiet
    BY DEF Quiet
  <2> QED
    BY <1>4, <1>5, <2>1, SignalIsQuiet
<1>7. /\ stopping' \in StopRecords
      /\ stopping'.at = "ended" \/ (stopping'.at # "none" /\ stopping'.pid # e) =>
           stopping'.failed \/ ~EngineLives(launch.tracked)
  <2>1. CASE \E failed \in BOOLEAN : AfterStop(failed) /\ (failed \/ ~ProcessAlive(q))
    BY <1>1, <1>2, <2>1, AfterStopIs
  <2>2. CASE \E at \in {"termed", "killed"} : stopping' = [stopping EXCEPT !.at = at]
    <3>1. /\ stopping' \in StopRecords /\ stopping'.at # "ended" /\ stopping'.pid = stopping.pid
          /\ stopping'.failed = stopping.failed
      BY <1>5, <2>2 DEF StopRecords
    <3> QED
      BY <1>5, <3>1
  <2> QED
    BY <1>4, <2>1, <2>2
<1> QED
  BY <1>1, <1>2, <1>3, <1>5, <1>6, <1>7, AdvanceKeeps

\* A stop begins with the engine.
LEMMA StopBeginsKeeps ==
  ASSUME EngineInv, launch.at \in Found, NEW at \in Stopping, StopBegins(at)
  PROVE  EngineInv'
<1>1. PICK e : e = launch.engine
  OBVIOUS
<1> DEFINE w == [at |-> "begin", pid |-> e, failed |-> FALSE]
           l == [launch EXCEPT !.at = at]
<1>2. /\ launch' = l /\ stopping' = w
      /\ UNCHANGED <<proc, ads, cleaner, ended>>
  BY <1>1, Zenon DEF StopBegins
<1>3. launch \in LaunchRecords /\ proc \in [Pids -> ProcessRecords] /\ ads \subseteq Pids
  BY DEF EngineInv, EngineTypes
<1>4. w \in StopRecords /\ w.at = "begin" /\ w.pid = e
  BY <1>1, <1>3 DEF StopRecords, LaunchRecords
<1>5. /\ l \in LaunchRecords /\ l.at = at /\ l.n = launch.n /\ l.tracked = launch.tracked
      /\ l.engine = launch.engine
  BY <1>3 DEF LaunchRecords, Stopping, Found
<1> HIDE DEF w, l
<1>6. Quiet
  BY <1>2 DEF Quiet
<1>7. at \in Found /\ at \notin {"idle", "checked", "bound"} /\ launch.at # "idle"
  BY DEF Stopping, Found
<1> QED
  BY <1>1, <1>2, <1>3, <1>4, <1>5, <1>6, <1>7, AdvanceKeeps

\* PendingLaunch::drop.
LEMMA DropPendingIs ==
  ASSUME EngineInv, NEW tracked \in BOOLEAN, DropPending(tracked)
  PROVE  /\ proc' \in [Pids -> ProcessRecords] /\ Quiet
         /\ IF tracked THEN CleanupScheduled(launch.engine, launch.launcher) ELSE cleaner' = cleaner
<1>1. PICK ps, procs : /\ ps = {p \in {launch.engine, launch.launcher} : Verified(p)}
                       /\ procs = IF tracked THEN Signalled(proc, ps, "termed") ELSE proc
  OBVIOUS
<1>2. proc' = [procs EXCEPT ![launch.launcher] = NobodyThere]
  BY <1>1, Zenon DEF DropPending, Termed
<1>3. proc \in [Pids -> ProcessRecords]
  BY DEF EngineInv, EngineTypes
<1>4. /\ procs \in [Pids -> ProcessRecords]
      /\ \A q \in Pids :
           /\ procs[q].kind = proc[q].kind /\ procs[q].of = proc[q].of
           /\ procs[q] = proc[q] \/ (proc[q].state \in {"alive", "termed"} /\ procs[q].state = "termed")
  BY <1>1, <1>3, SignalledIs
<1>5. \A q \in Pids : procs[q] = Unused => proc[q] = Unused
  BY <1>4, NobodyIs
<1>6. proc' \in [Pids -> ProcessRecords] /\ Quiet
  BY <1>2, <1>3, <1>4, <1>5, ReapedIsQuiet
<1> QED
  BY <1>6 DEF DropPending

LEMMA EndingsKeep ==
  ASSUME EngineInv,
         FailEarly \/ PollFails \/ DropVerifying \/ DropBooting \/ AbortEnds \/ UnbootEnds
  PROVE  EngineInv'
<1>1. proc \in [Pids -> ProcessRecords] /\ EngineTypes /\ stopping.failed \in BOOLEAN
  BY DEF EngineInv, EngineTypes, StopRecords
<1>2. proc' = proc => Quiet
  BY DEF Quiet
<1>3. CASE FailEarly \/ PollFails
  <2>1. /\ launch.at \in {"checked", "bound", "spawned"} /\ EndLaunch("failed") /\ ads' = ads
        /\ (proc' = proc /\ cleaner' = cleaner) \/ DropPending(FALSE)
    BY <1>3 DEF FailEarly, PollFails
  <2>2. proc' \in [Pids -> ProcessRecords] /\ Quiet /\ cleaner' = cleaner
    BY <1>1, <1>2, <2>1, DropPendingIs
  <2> QED
    BY <2>1, <2>2, EndLaunchKeeps DEF Found
<1>4. CASE DropVerifying \/ (AbortEnds /\ stopping.failed)
  <2>1. /\ launch.at \in {"verify", "abort"} /\ EndLaunch("failed") /\ ads' = ads /\ DropPending(TRUE)
    BY <1>1, <1>4 DEF DropVerifying, AbortEnds
  <2>2. /\ proc' \in [Pids -> ProcessRecords] /\ Quiet
        /\ CleanupScheduled(launch.engine, launch.launcher)
    BY <2>1, DropPendingIs
  <2> QED
    BY <2>1, <2>2, EndLaunchKeeps DEF Found
<1>5. CASE AbortEnds /\ ~stopping.failed
  <2>1. /\ launch.at = "abort" /\ stopping.at = "ended" /\ EndLaunch("failed") /\ ads' = ads
        /\ DropPending(FALSE)
    BY <1>1, <1>5 DEF AbortEnds
  <2>2. proc' \in [Pids -> ProcessRecords] /\ Quiet /\ cleaner' = cleaner
    BY <2>1, DropPendingIs
  <2>3. ~EngineLives(launch.tracked)
    BY <1>5, <2>1, StoppingIs
  <2> QED
    BY <2>1, <2>2, <2>3, EndLaunchKeeps DEF Found
<1>6. CASE DropBooting \/ UnbootEnds
  <2>1. /\ launch.at \in {"boot", "unboot"} /\ EndLaunch("failed") /\ ads' = ads
        /\ CleanupScheduled(launch.engine, launch.launcher)
        /\ proc' = Signalled(proc, {p \in {launch.engine, launch.launcher} : Verified(p)}, "termed")
    BY <1>6, Zenon DEF DropBooting, UnbootEnds, DropLaunched, Termed
  <2>2. proc' \in [Pids -> ProcessRecords] /\ Quiet
    BY <1>1, <2>1, SignalIsQuiet
  <2> QED
    BY <2>1, <2>2, EndLaunchKeeps DEF Found
<1> QED
  BY <1>1, <1>3, <1>4, <1>5, <1>6

LEMMA CloseEndsKeeps ==
  ASSUME EngineInv, CloseEnds
  PROVE  EngineInv'
<1>1. /\ launch.at = "closing" /\ stopping.at = "ended"
      /\ UNCHANGED <<proc, ads, cleaner>>
      /\ \/ /\ launch' = [launch EXCEPT !.at = "running"]
            /\ stopping' = NoStop /\ UNCHANGED ended
         \/ ~stopping.failed /\ EndLaunch("stopped")
  BY DEF CloseEnds
<1>2. /\ launch \in LaunchRecords /\ proc \in [Pids -> ProcessRecords] /\ ads \subseteq Pids
  BY DEF EngineInv, EngineTypes
<1>3. Quiet
  BY <1>1 DEF Quiet
<1>4. CASE ~stopping.failed /\ EndLaunch("stopped")
  <2>1. ~EngineLives(launch.tracked)
    BY <1>1, <1>4, StoppingIs
  <2> QED
    BY <1>1, <1>2, <1>3, <1>4, <2>1, EndLaunchKeeps
<1>5. CASE launch' = [launch EXCEPT !.at = "running"] /\ stopping' = NoStop /\ UNCHANGED ended
  <2>1. /\ launch' \in LaunchRecords /\ launch'.at = "running" /\ launch'.n = launch.n
        /\ launch'.tracked = launch.tracked /\ launch'.engine = launch.engine
    BY <1>2, <1>5 DEF LaunchRecords, Found
  <2>2. stopping' \in StopRecords /\ stopping'.at = "none"
    BY <1>5 DEF NoStop, StopRecords
  <2> QED
    BY <1>1, <1>2, <1>3, <1>5, <2>1, <2>2, AdvanceKeeps DEF Found
<1> QED
  BY <1>1, <1>4, <1>5

\* Ports, checks, the commit.
LEMMA GoesOnKeeps ==
  ASSUME EngineInv, CheckPasses \/ CommitLaunch \/ \E mic \in BOOLEAN : BindPorts(mic)
  PROVE  EngineInv'
<1>1. /\ launch \in LaunchRecords /\ proc \in [Pids -> ProcessRecords] /\ ads \subseteq Pids
      /\ stopping \in StopRecords
  BY DEF EngineInv, EngineTypes
<1>2. /\ UNCHANGED <<ads, stopping, cleaner, ended>>
      /\ proc' = proc \/ proc' = [proc EXCEPT ![launch.launcher] = NobodyThere]
  BY DEF CheckPasses, CommitLaunch, BindPorts
<1>3. proc' \in [Pids -> ProcessRecords] /\ Quiet
  <2>1. proc' = proc => Quiet
    BY DEF Quiet
  <2> QED
    BY <1>1, <1>2, <2>1, ReapedIsQuiet
<1>4. stopping.at = "none"
  BY DEF EngineInv, LaunchInv, Stopping, CheckPasses, CommitLaunch, BindPorts
<1>5. /\ launch' \in LaunchRecords /\ launch'.n = launch.n
      /\ launch'.tracked = launch.tracked /\ launch'.engine = launch.engine
      /\ \/ launch.at = "checked" /\ launch'.at = "bound"
         \/ launch.at = "verify" /\ launch'.at \in {"verify", "boot"}
         \/ launch.at = "boot" /\ launch'.at = "running"
  <2>1. ASSUME NEW mic \in BOOLEAN, BindPorts(mic)
        PROVE  /\ launch.at = "checked" /\ launch'.at = "bound"
               /\ launch' \in LaunchRecords /\ launch'.n = launch.n
               /\ launch'.tracked = launch.tracked /\ launch'.engine = launch.engine
    <3>1. launch.at = "checked" /\ launch' = [launch EXCEPT !.at = "bound", !.mic = mic]
      BY <2>1 DEF BindPorts
    <3> QED
      BY <1>1, <3>1 DEF LaunchRecords
  <2>2. CASE CommitLaunch
    <3>1. launch.at = "boot" /\ launch' = [launch EXCEPT !.at = "running"]
      BY <2>2 DEF CommitLaunch
    <3> QED
      BY <1>1, <3>1 DEF LaunchRecords, Found
  <2>3. CASE CheckPasses
    <3>1. PICK check : check = IF Checks[launch.check + 1] = "mic" /\ ~launch.mic
                               THEN launch.check + 2 ELSE launch.check + 1
      OBVIOUS
    <3>2. /\ launch.at = "verify"
          /\ \/ launch' = [launch EXCEPT !.at = "boot"]
             \/ launch' = [launch EXCEPT !.check = check]
      BY <2>3, <3>1, Zenon DEF CheckPasses
    <3>3. check \in Nat
      BY <1>1, <3>1 DEF LaunchRecords
    <3> QED
      BY <1>1, <3>2, <3>3 DEF LaunchRecords, Found
  <2> QED
    BY <2>1, <2>2, <2>3
<1> QED
  BY <1>1, <1>2, <1>3, <1>4, <1>5, AdvanceKeeps DEF Found

\* A new attempt: what is there is of earlier ones.
LEMMA CheckSlotKeeps ==
  ASSUME EngineInv, CheckSlot
  PROVE  EngineInv'
<1>1. PICK n, at : n = launch.n + 1 /\ at = IF SlotTaken \/ MarkerHolds THEN "idle" ELSE "checked"
  OBVIOUS
<1>2. /\ launch.at = "idle" /\ launch.n < MaxAttempts
      /\ launch' = [NoLaunch EXCEPT !.n = n, !.at = at]
      /\ ended' = ended \/ (at = "idle" /\ ended' = [ended EXCEPT ![n].how = "refused"])
      /\ UNCHANGED <<proc, ads, stopping, cleaner>>
  BY <1>1, Zenon DEF CheckSlot
<1>3. /\ launch \in LaunchRecords /\ proc \in [Pids -> ProcessRecords]
      /\ ended \in [Attempts -> EndRecords]
  BY DEF EngineInv, EngineTypes
<1>4. n \in Attempts /\ launch.n \in Nat /\ at \in {"idle", "checked"}
  BY <1>1, <1>2, <1>3, EngineAssumption DEF LaunchRecords, Attempts, NoAttempt
<1>5. launch' \in LaunchRecords /\ launch'.at = at /\ launch'.n = n /\ launch'.tracked = NoAttempt
  <2> DEFINE w == [at |-> at, n |-> n, launcher |-> NoPid, engine |-> NoPid, tracked |-> NoAttempt,
                   mic |-> FALSE, check |-> 1]
  <2>1. launch' = w
    BY <1>2 DEF NoLaunch
  <2>2. w \in LaunchRecords /\ w.at = at /\ w.n = n /\ w.tracked = NoAttempt
    BY <1>4 DEF LaunchRecords
  <2> HIDE DEF w
  <2> QED
    BY <2>1, <2>2
<1>6. ended[n].how = "not"
  BY <1>1, <1>4 DEF EngineInv, EndedInv
<1> DEFINE w == [ended[n] EXCEPT !.how = "refused"]
<1>7. /\ ended' \in [Attempts -> EndRecords]
      /\ \A a \in Attempts : a # n => ended'[a] = ended[a]
      /\ ended'[n].how = "refused" \/ ended' = ended
      /\ at # "idle" => ended' = ended
  <2>1. ended[n] \in EndRecords
    BY <1>3, <1>4
  <2>2. w \in EndRecords /\ w.how = "refused"
    BY <2>1 DEF EndRecords
  <2>3. ended' = ended \/ (at = "idle" /\ ended' = [ended EXCEPT ![n] = w])
    BY <1>2, Zenon
  <2> HIDE DEF w
  <2> QED
    BY <1>3, <1>4, <2>2, <2>3
<1>8. EngineTypes'
  BY <1>2, <1>5, <1>7 DEF EngineInv, EngineTypes
<1>9. Quiet
  BY <1>2 DEF Quiet
<1>10. ProcessInv'
  BY <1>1, <1>2, <1>5, <1>9, ProcessKeeps
<1>11. LaunchInv'
  <2>1. stopping.at = "none"
    BY <1>2 DEF EngineInv, LaunchInv, Stopping
  <2> QED
    BY <1>2, <1>4, <1>5, <1>6, <1>7, <2>1 DEF LaunchInv, Found
<1>12. ASSUME NEW a \in Attempts PROVE EndedInv(a)'
  <2>1. launch'.n >= launch.n /\ cleaner'[a] = cleaner[a]
    BY <1>1, <1>2, <1>4, <1>5
  <2>2. CASE ended'[a] = ended[a]
    BY <1>8, <1>9, <2>1, <2>2, QuietIsCalm, EndedKeeps
  <2>3. CASE a = n /\ ended'[n].how = "refused"
    BY <1>4, <1>5, <2>3 DEF EndedInv, Attempts
  <2> QED
    BY <1>7, <2>2, <2>3
<1> QED
  BY <1>8, <1>10, <1>11, <1>12 DEF EngineInv

\* What is advertised and verified is the one engine of its attempt.
LEMMA EngineFoundKeeps ==
  ASSUME EngineInv, NEW p \in Pids, EngineFound(p)
  PROVE  EngineInv'
<1>1. PICK t : t = proc[p].of
  OBVIOUS
<1>2. /\ launch.at = "spawned" /\ p \in ads /\ Verified(p)
      /\ launch' = [launch EXCEPT !.at = "verify", !.engine = p, !.tracked = t]
      /\ UNCHANGED <<proc, ads, stopping, cleaner, ended>>
  BY <1>1, Zenon DEF EngineFound
<1>3. launch \in LaunchRecords /\ proc \in [Pids -> ProcessRecords]
  BY DEF EngineInv, EngineTypes
<1>4. proc[p].kind = "engine" /\ t \in 1 .. launch.n /\ t \in Attempts \cup {NoAttempt}
  BY <1>1, <1>2, <1>3 DEF EngineInv, ProcessInv, Verified, ProcessRecords
<1>5. /\ launch' \in LaunchRecords /\ launch'.at = "verify" /\ launch'.engine = p
      /\ launch'.tracked = t /\ launch'.n = launch.n
  BY <1>2, <1>3, <1>4 DEF LaunchRecords, Found
<1>6. LauncherGone(t) /\ OnlyEngine(t, p)
  BY <1>1, <1>4 DEF EngineInv, ProcessInv, LauncherGone, OnlyEngine
<1>7. LauncherGone(t)' /\ OnlyEngine(t, p)'
  BY <1>2, <1>6 DEF LauncherGone, OnlyEngine
<1>8. EngineTypes'
  BY <1>2, <1>5 DEF EngineInv, EngineTypes
<1>9. Quiet
  BY <1>2 DEF Quiet
<1>10. ProcessInv'
  BY <1>2, <1>5, <1>9, ProcessKeeps
<1>11. LaunchInv'
  <2>1. stopping.at = "none"
    BY <1>2 DEF EngineInv, LaunchInv, Stopping
  <2>2. launch.n \in Attempts /\ ended[launch.n].how = "not"
    BY <1>2 DEF EngineInv, LaunchInv
  <2> QED
    BY <1>2, <1>4, <1>5, <1>7, <2>1, <2>2 DEF LaunchInv, Found
<1>12. ASSUME NEW a \in Attempts PROVE EndedInv(a)'
  <2>1. launch'.n >= launch.n /\ cleaner'[a] = cleaner[a] /\ ended'[a] = ended[a]
    BY <1>2, <1>3, <1>5, EngineAssumption DEF LaunchRecords, Attempts, NoAttempt
  <2> QED
    BY <1>8, <1>9, <2>1, QuietIsCalm, EndedKeeps
<1> QED
  BY <1>8, <1>10, <1>11, <1>12 DEF EngineInv

LEMMA EngineStepKeeps ==
  ASSUME EngineInv, [EngineNext]_launchVars
  PROVE  EngineInv'
<1>1. CASE LaunchStep
  <2>1. CASE CheckFails \/ BootFails \/ CloseSession
    <3>1. launch.at \in Found /\ \E at \in Stopping : StopBegins(at)
      BY <2>1 DEF CheckFails, BootFails, CloseSession, Found, Stopping
    <3> QED
      BY <3>1, StopBeginsKeeps
  <2>2. CASE FailEarly \/ PollFails \/ DropVerifying \/ DropBooting \/ AbortEnds \/ UnbootEnds
    BY <2>2, EndingsKeep
  <2>3. CASE StopFirst \/ StopSeesDeath \/ StopKills \/ StopGivesUp
    BY <2>3, StopKeeps
  <2>4. CASE CheckPasses \/ CommitLaunch \/ \E mic \in BOOLEAN : BindPorts(mic)
    BY <2>4, GoesOnKeeps
  <2> QED
    BY <1>1, <2>1, <2>2, <2>3, <2>4, CheckSlotKeeps, SpawnLauncherKeeps, CloseEndsKeeps,
       EngineFoundKeeps, Zenon DEF LaunchStep
<1>2. CASE UNCHANGED launchVars
  <2>1. UNCHANGED <<proc, ads, launch, stopping, cleaner, ended>>
    BY <1>2 DEF launchVars
  <2>2. proc' \in [Pids -> ProcessRecords] /\ Quiet
    BY <2>1 DEF EngineInv, EngineTypes, Quiet
  <2> QED
    BY <2>1, <2>2, ProcessesKeep
<1> QED
  BY <1>1, <1>2, CleanerKeeps, LauncherForksKeeps, AdvertisedKeeps, ProcessEndsKeeps, Zenon
     DEF EngineNext

LEMMA EngineInitInv == EngineInit => EngineInv
<1> SUFFICES ASSUME EngineInit PROVE EngineInv
  OBVIOUS
<1>1. /\ proc = [p \in Pids |-> Unused] /\ ads = {} /\ launch = NoLaunch /\ stopping = NoStop
      /\ cleaner = [a \in Attempts |-> NoCleaner]
      /\ ended = [a \in Attempts |-> [how |-> "not", tracked |-> NoAttempt]]
  BY DEF EngineInit
<1>2. /\ NoLaunch \in LaunchRecords /\ NoLaunch.at = "idle" /\ NoLaunch.tracked = NoAttempt
      /\ NoStop \in StopRecords /\ NoStop.at = "none" /\ NoCleaner \in CleanerRecords
      /\ [how |-> "not", tracked |-> NoAttempt] \in EndRecords
  BY DEF NoLaunch, LaunchRecords, NoStop, StopRecords, NoCleaner, CleanerRecords, EndRecords
<1>3. EngineTypes
  BY <1>1, <1>2, NobodyIs DEF EngineTypes
<1>4. ProcessInv
  BY <1>1, NobodyIs DEF ProcessInv
<1>5. LaunchInv
  BY <1>1, <1>2 DEF LaunchInv, Found
<1>6. ASSUME NEW a \in Attempts PROVE EndedInv(a)
  BY <1>1 DEF EndedInv
<1> QED
  BY <1>3, <1>4, <1>5, <1>6 DEF EngineInv

\* An engine that a launch had found does not outlive it: whichever step failed,
\* was dropped or aborted, once the cleanup thread is done the engine is dead or
\* killed, also when its process ids were taken again.
THEOREM TrackedEnginesEndCorrect == EngineSpec => []TrackedEnginesEnd
<1>1. EngineInv /\ [EngineNext]_launchVars => EngineInv'
  BY EngineStepKeeps
<1>2. EngineInv => TrackedEnginesEnd
  BY DEF EngineInv, EndedInv, TrackedEnginesEnd
<1> QED
  BY EngineInitInv, <1>1, <1>2, PTL DEF EngineSpec

-----------------------------------------------------------------------------
(* The types of EngineLaunch.                                               *)

LaunchFields ==
  /\ shareVid \in Attempts \cup {NoAttempt} /\ lock \in Pids \cup {NoPid}
  /\ launch.check \in 1 .. Len(Checks)

LEMMA ChecksAre == Len(Checks) = 10 /\ (\A i \in 1 .. 10 : Checks[i] = "mic" => i = 6)
BY DEF Checks

LEMMA LaunchFieldsStep ==
  ASSUME EngineInv, LaunchFields, [EngineNext]_launchVars
  PROVE  LaunchFields'
<1>1. /\ launch \in LaunchRecords /\ proc \in [Pids -> ProcessRecords]
      /\ launch.check \in 1 .. 10 /\ NoAttempt \in Attempts \cup {NoAttempt}
      /\ NoLaunch.check = 1 /\ 1 \in 1 .. 10
  BY ChecksAre DEF EngineInv, EngineTypes, LaunchFields, NoLaunch
<1>2. CASE UNCHANGED <<shareVid, lock, launch>>
  BY <1>2 DEF LaunchFields
<1>3. \A h : EndLaunch(h) => launch'.check = 1
  BY <1>1 DEF EndLaunch, NoLaunch
<1>4. CASE \/ FailEarly \/ PollFails \/ DropVerifying \/ DropBooting \/ AbortEnds \/ UnbootEnds
           \/ CloseEnds
  <2>1. UNCHANGED <<shareVid, lock>>
    BY <1>4 DEF FailEarly, PollFails, DropVerifying, DropBooting, DropLaunched, AbortEnds,
                UnbootEnds, CloseEnds
  <2>2. (\E h : EndLaunch(h)) \/ launch' = [launch EXCEPT !.at = "running"]
    BY <1>4, Zenon DEF FailEarly, PollFails, DropVerifying, DropBooting, DropLaunched, AbortEnds,
                UnbootEnds, CloseEnds
  <2>3. launch'.check \in 1 .. 10
    BY <1>1, <1>3, <2>2 DEF LaunchRecords
  <2> QED
    BY <2>1, <2>3, ChecksAre DEF LaunchFields
<1>5. CASE CheckSlot
  <2>1. UNCHANGED shareVid /\ lock' \in {lock, NoPid} /\ launch'.check = 1
    BY <1>1, <1>5 DEF CheckSlot, NoLaunch
  <2> QED
    BY <2>1, ChecksAre DEF LaunchFields
<1>6. ASSUME NEW mic \in BOOLEAN, BindPorts(mic) PROVE LaunchFields'
  <2>1. shareVid' = NoAttempt /\ lock' = lock /\ launch'.check = launch.check
    BY <1>1, <1>6 DEF BindPorts, LaunchRecords
  <2> QED
    BY <2>1 DEF LaunchFields
<1>7. CASE SpawnLauncher \/ CommitLaunch \/ CheckFails \/ BootFails \/ CloseSession
  <2>1. UNCHANGED <<shareVid, lock>> /\ launch'.check = launch.check
    BY <1>1, <1>7 DEF SpawnLauncher, CommitLaunch, CheckFails, BootFails, CloseSession, StopBegins,
                      LaunchRecords
  <2> QED
    BY <2>1 DEF LaunchFields
<1>8. ASSUME NEW p \in Pids, EngineFound(p) PROVE LaunchFields'
  <2>1. UNCHANGED <<shareVid, lock>> /\ launch'.check = launch.check
    BY <1>1, <1>8 DEF EngineFound, LaunchRecords
  <2> QED
    BY <2>1 DEF LaunchFields
<1>9. CASE CheckPasses
  <2>1. UNCHANGED <<shareVid, lock>> /\ launch'.check \in 1 .. 10
    BY <1>1, <1>9, ChecksAre DEF CheckPasses, LaunchRecords
  <2> QED
    BY <2>1, ChecksAre DEF LaunchFields
<1>10. CASE StopFirst \/ StopSeesDeath \/ StopKills \/ StopGivesUp
  <2>1. UNCHANGED <<lock, launch>> /\ shareVid' \in {shareVid, NoAttempt}
    BY <1>10 DEF StopFirst, StopSeesDeath, StopKills, StopGivesUp, Stopped, AfterStop
  <2> QED
    BY <1>1, <2>1 DEF LaunchFields
<1>11. ASSUME NEW a \in Attempts, CleanerKills(a) \/ CleanerEnds(a) PROVE LaunchFields'
  <2>1. UNCHANGED <<lock, launch>> /\ shareVid' \in {shareVid, NoAttempt}
    BY <1>11 DEF CleanerKills, CleanerEnds
  <2> QED
    BY <1>1, <2>1 DEF LaunchFields
<1>12. ASSUME NEW p \in Pids, LauncherForks(p) \/ EngineAdvertises(p) \/ PidIsReused(p)
       PROVE  LaunchFields'
  <2>1. UNCHANGED <<lock, launch>> /\ shareVid' \in {shareVid, proc[p].of}
    BY <1>12 DEF LauncherForks, EngineAdvertises, PidIsReused
  <2>2. proc[p].of \in Attempts \cup {NoAttempt}
    BY <1>1 DEF ProcessRecords
  <2> QED
    BY <2>1, <2>2 DEF LaunchFields
<1>13. ASSUME NEW p \in Pids, NEW saving \in BOOLEAN, ProcessEnds(p, saving) PROVE LaunchFields'
  <2>1. UNCHANGED launch /\ lock' \in {lock, p} /\ shareVid' \in {shareVid, NoAttempt}
    BY <1>13, Zenon DEF ProcessEnds
  <2> QED
    BY <1>1, <2>1 DEF LaunchFields
<1>14. CASE UNCHANGED launchVars
  BY <1>2, <1>14 DEF launchVars
<1> QED
  BY <1>4, <1>5, <1>6, <1>7, <1>8, <1>9, <1>10, <1>11, <1>12, <1>13, <1>14, Zenon
     DEF EngineNext, LaunchStep

\* The types of the processes, of a launch, its stop and its cleanup (core/emulator.rs).
LEMMA EngineTypeCorrect == EngineSpec => []EngineTypeOK
<1>1. EngineInit => EngineInv /\ LaunchFields
  BY EngineInitInv, ChecksAre DEF EngineInit, LaunchFields, NoLaunch
<1>2. EngineInv /\ LaunchFields /\ [EngineNext]_launchVars => EngineInv' /\ LaunchFields'
  BY EngineStepKeeps, LaunchFieldsStep
<1>3. EngineInv /\ LaunchFields => EngineTypeOK
  BY DEF EngineInv, EngineTypes, LaunchFields, EngineTypeOK, ProcessRecords, LaunchRecords, Found,
         CleanerRecords
<1> QED
  BY <1>1, <1>2, <1>3, PTL DEF EngineSpec

-----------------------------------------------------------------------------
(* The inductive invariant of Workspace.                                    *)

WorkspaceTypes ==
  /\ registry \in [current : Listings, latest : Nat]
  /\ syncer \in [Syncers -> [at : {"idle", "due", "read"}, listing : Listings]]
  /\ routes \in Listings /\ focused \in Routes \cup {NoRoute} /\ selected \in SUBSET Routes
  /\ pending \in Intents /\ saved \in [file : Intents, last : Intents]
  /\ gestures \in [all : Nat, here : BOOLEAN]
  /\ chosen \in SUBSET WorkspaceAvds /\ started \in SUBSET WorkspaceAvds

\* Every session that is known of started in this process.
SessionsStarted ==
  /\ Live(registry.current) \subseteq started
  /\ \A t \in Syncers : Live(syncer[t].listing) \subseteq started

\* What is in focus or selected was chosen; what is pending was not.
PendingInv ==
  /\ \A r \in (selected \cup {focused}) \ {NoRoute} : r.avd \in chosen /\ r.avd \in started
  /\ gestures.here => pending = NoIntent
  /\ \A a \in pending.selected \cup {pending.focused} : a \notin chosen

\* While the user has done nothing, what the file wants and has not run is pending.
FileInv ==
  ~gestures.here =>
    /\ saved.file.selected \ started \subseteq pending.selected
    /\ saved.file.focused \notin started => focused = NoRoute /\ pending.focused = saved.file.focused

WorkspaceInv == WorkspaceTypes /\ SessionsStarted /\ PendingInv /\ FileInv

ChoicesStep ==
  \A r \in (selected' \cup {focused'}) \ (selected \cup {focused, NoRoute}) :
    \/ gestures'.all # gestures.all
    \/ /\ ~gestures.here /\ r.avd \notin chosen
       /\ r.avd \in pending.selected \cup {pending.focused}
WantedStep ==
  (app.up /\ ~gestures'.here)
    => /\ saved.file.selected \ started' \subseteq saved'.file.selected
       /\ saved.file.focused \notin started' => saved'.file.focused = saved.file.focused

LEMMA NoRouteIs ==
  /\ NoRoute \notin Routes /\ NoIntent \in Intents /\ NothingListed \in Listings
  /\ NoRoute.avd = NoAvd /\ NoIntent.selected = {} /\ NoIntent.focused = NoAvd
  /\ Live(NothingListed) = {}
BY WorkspaceAssumption DEF NoRoute, Routes, NoIntent, Intents, NothingListed, Listings, Live, NoSession

LEMMA RouteOfIs ==
  ASSUME NEW listing \in Listings, NEW a \in Live(listing)
  PROVE  /\ RouteOf(listing, a) \in Routes /\ RouteOf(listing, a).avd = a
         /\ Listed(listing, RouteOf(listing, a)) /\ RouteOf(listing, a) # NoRoute
<1>1. a \in WorkspaceAvds /\ listing[a] \in 0 .. MaxSessions /\ listing[a] # 0
  BY DEF Live, Listings, NoSession
<1>2. RouteOf(listing, a) = [avd |-> a, session |-> listing[a]]
  BY DEF RouteOf
<1>3. RouteOf(listing, a) \in Routes
  BY <1>1, <1>2, WorkspaceAssumption DEF Routes
<1> QED
  BY <1>1, <1>2, <1>3, NoRouteIs DEF Listed

\* A step that leaves the choices alone, and lets more sessions have started.
LEMMA ChoicesKeep ==
  ASSUME WorkspaceInv, UNCHANGED <<choiceVars, saved, gestures, chosen>>,
         registry' \in [current : Listings, latest : Nat],
         syncer' \in [Syncers -> [at : {"idle", "due", "read"}, listing : Listings]],
         routes' \in Listings,
         started' \in SUBSET WorkspaceAvds, started \subseteq started', SessionsStarted'
  PROVE  WorkspaceInv' /\ ChoicesStep /\ WantedStep
<1>1. UNCHANGED <<focused, selected, pending, saved, gestures, chosen>>
  BY DEF choiceVars
<1>2. WorkspaceTypes'
  BY <1>1 DEF WorkspaceInv, WorkspaceTypes
<1>3. PendingInv'
  BY <1>1 DEF WorkspaceInv, PendingInv
<1>4. FileInv'
  BY <1>1 DEF WorkspaceInv, FileInv
<1>5. ChoicesStep /\ WantedStep
  BY <1>1 DEF ChoicesStep, WantedStep
<1> QED
  BY <1>2, <1>3, <1>4, <1>5 DEF WorkspaceInv

LEMMA ChangeIs ==
  ASSUME WorkspaceInv, NEW a \in WorkspaceAvds,
         NEW s \in {NoSession, registry.latest + 1} \cap (0 .. MaxSessions)
  PROVE  Change(a, s) \in [current : Listings, latest : Nat]
<1>1. registry \in [current : Listings, latest : Nat] /\ s \in 0 .. MaxSessions
  BY DEF WorkspaceInv, WorkspaceTypes
<1>2. PICK now, latest : /\ now = [registry.current EXCEPT ![a] = s]
                             /\ latest = IF s = NoSession THEN registry.latest ELSE s
  OBVIOUS
<1>3. Change(a, s) = [registry EXCEPT !.current = now, !.latest = latest]
  BY <1>2, Zenon DEF Change
<1>4. now \in Listings
  BY <1>1, <1>2 DEF Listings
<1>5. latest \in Nat
  BY <1>1, <1>2, WorkspaceAssumption
<1> QED
  BY <1>1, <1>3, <1>4, <1>5

LEMMA SyncerKeeps ==
  ASSUME WorkspaceInv, NEW t \in Syncers,
         ReadRoutes(t) \/ \E a \in WorkspaceAvds : SessionChanges(t, a) \/ Scan(t, a)
  PROVE  WorkspaceInv' /\ ChoicesStep /\ WantedStep
<1>1. /\ registry \in [current : Listings, latest : Nat]
      /\ syncer \in [Syncers -> [at : {"idle", "due", "read"}, listing : Listings]]
      /\ routes \in Listings /\ started \in SUBSET WorkspaceAvds
      /\ Live(registry.current) \subseteq started
      /\ \A u \in Syncers : Live(syncer[u].listing) \subseteq started
  BY DEF WorkspaceInv, WorkspaceTypes, SessionsStarted
<1>2. /\ UNCHANGED <<choiceVars, saved, gestures, chosen>> /\ routes' = routes
      /\ \/ registry' = registry /\ started' = started
         \/ /\ started' = started \cup Live(registry'.current)
            /\ \/ registry' = registry
               \/ \E a \in WorkspaceAvds, s \in {NoSession, registry.latest + 1} \cap (0 .. MaxSessions) :
                    registry' = Change(a, s)
      /\ \/ syncer' = [syncer EXCEPT ![t].at = "due"]
         \/ syncer' = [syncer EXCEPT ![t] = [at |-> "read", listing |-> registry'.current]]
  <2>1. CASE ReadRoutes(t)
    BY <2>1, Zenon DEF ReadRoutes
  <2>2. ASSUME NEW a \in WorkspaceAvds, SessionChanges(t, a)
        PROVE  /\ UNCHANGED <<choiceVars, saved, gestures, chosen>> /\ routes' = routes
               /\ started' = started \cup Live(registry'.current)
               /\ \E s \in {NoSession, registry.latest + 1} \cap (0 .. MaxSessions) :
                    registry' = Change(a, s)
               /\ syncer' = [syncer EXCEPT ![t].at = "due"]
    BY <2>2, Zenon DEF SessionChanges
  <2>3. ASSUME NEW a \in WorkspaceAvds, Scan(t, a)
        PROVE  /\ UNCHANGED <<choiceVars, saved, gestures, chosen>> /\ routes' = routes
               /\ started' = started \cup Live(registry'.current)
               /\ \/ registry' = registry
                  \/ \E s \in {NoSession, registry.latest + 1} \cap (0 .. MaxSessions) :
                       registry' = Change(a, s)
               /\ syncer' = [syncer EXCEPT ![t] = [at |-> "read", listing |-> registry'.current]]
    <3>1. /\ UNCHANGED <<choiceVars, saved, gestures, chosen>> /\ routes' = routes
          /\ started' = started \cup Live(registry'.current)
          /\ syncer' = [syncer EXCEPT ![t] = [at |-> "read", listing |-> registry'.current]]
          /\ \E s \in {registry.current[a], NoSession, registry.latest + 1} \cap (0 .. MaxSessions) :
               registry' = IF s = registry.current[a] THEN registry ELSE Change(a, s)
      BY <2>3, Zenon DEF Scan
    <3>2. PICK s \in {registry.current[a], NoSession, registry.latest + 1} \cap (0 .. MaxSessions) :
            registry' = IF s = registry.current[a] THEN registry ELSE Change(a, s)
      BY <3>1
    <3> QED
      BY <3>1, <3>2
  <2> QED
    BY <2>1, <2>2, <2>3, Zenon
<1>3. registry' \in [current : Listings, latest : Nat]
  BY <1>1, <1>2, ChangeIs
<1>4. /\ started' \in SUBSET WorkspaceAvds /\ started \subseteq started'
      /\ Live(registry'.current) \subseteq started'
  <2>1. Live(registry'.current) \subseteq WorkspaceAvds
    BY DEF Live
  <2> QED
    BY <1>1, <1>2, <2>1
<1>5. /\ syncer' \in [Syncers -> [at : {"idle", "due", "read"}, listing : Listings]]
      /\ \A u \in Syncers : syncer'[u].listing \in {syncer[u].listing, registry'.current}
  <2>1. CASE syncer' = [syncer EXCEPT ![t].at = "due"]
    <3> DEFINE w == [syncer[t] EXCEPT !.at = "due"]
    <3>1. syncer' = [syncer EXCEPT ![t] = w]
      BY <2>1, Zenon
    <3>2. w \in [at : {"idle", "due", "read"}, listing : Listings] /\ w.listing = syncer[t].listing
      BY <1>1
    <3> HIDE DEF w
    <3> QED
      BY <1>1, <3>1, <3>2
  <2>2. CASE syncer' = [syncer EXCEPT ![t] = [at |-> "read", listing |-> registry'.current]]
    <3> DEFINE w == [at |-> "read", listing |-> registry'.current]
    <3>1. w \in [at : {"idle", "due", "read"}, listing : Listings] /\ w.listing = registry'.current
      BY <1>3
    <3> HIDE DEF w
    <3> QED
      BY <1>1, <2>2, <3>1 DEF w
  <2> QED
    BY <1>2, <2>1, <2>2
<1>6. SessionsStarted'
  BY <1>1, <1>4, <1>5 DEF SessionsStarted
<1> QED
  BY <1>1, <1>2, <1>3, <1>4, <1>5, <1>6, ChoicesKeep

\* A reconciliation binds only what is pending and lives.
LEMMA ReconcileKeeps ==
  ASSUME WorkspaceInv, NEW t \in Syncers, Reconcile(t)
  PROVE  WorkspaceInv' /\ ChoicesStep /\ WantedStep
<1>1. PICK listing : listing = syncer[t].listing
  OBVIOUS
<1>2. /\ routes' = listing /\ focused' = RestoredFocus(listing)
      /\ selected' = RestoredSelection(listing) /\ pending' = StillPending(listing)
      /\ chosen' = chosen \cup Chosen(focused', selected')
      /\ syncer' = [syncer EXCEPT ![t] = [at |-> "idle", listing |-> NothingListed]]
      /\ UNCHANGED <<registry, saved, app, gestures, started>>
  BY <1>1, Zenon DEF Reconcile
<1>3. /\ registry \in [current : Listings, latest : Nat]
      /\ syncer \in [Syncers -> [at : {"idle", "due", "read"}, listing : Listings]]
      /\ routes \in Listings /\ focused \in Routes \cup {NoRoute} /\ selected \in SUBSET Routes
      /\ pending \in Intents /\ saved \in [file : Intents, last : Intents]
      /\ gestures \in [all : Nat, here : BOOLEAN]
      /\ chosen \in SUBSET WorkspaceAvds /\ started \in SUBSET WorkspaceAvds
  BY DEF WorkspaceInv, WorkspaceTypes
<1>4. listing \in Listings /\ Live(listing) \subseteq started
  BY <1>1, <1>3 DEF WorkspaceInv, SessionsStarted
<1>5. /\ pending.selected \subseteq WorkspaceAvds /\ pending.focused \in WorkspaceAvds \cup {NoAvd}
      /\ NoAvd \notin WorkspaceAvds
  BY <1>3, WorkspaceAssumption DEF Intents
<1>6. /\ pending'.focused = IF pending.focused \in Live(listing) THEN NoAvd ELSE pending.focused
      /\ pending'.selected = pending.selected \ Live(listing)
      /\ pending' \in Intents
  BY <1>2, <1>5 DEF StillPending, Intents
<1>7. \/ focused' = focused \/ focused' = NoRoute
      \/ pending.focused \in Live(listing) /\ focused' = RouteOf(listing, pending.focused)
  BY <1>2 DEF RestoredFocus, KeptFocus
<1>8. \A r \in selected' : \/ r \in selected
                           \/ \E a \in pending.selected \cap Live(listing) : r = RouteOf(listing, a)
  BY <1>2 DEF RestoredSelection, KeptSelection
<1>9. focused' \in Routes \cup {NoRoute} /\ selected' \in SUBSET Routes
  BY <1>3, <1>4, <1>7, <1>8, RouteOfIs
<1>10. chosen' = chosen \cup {q.avd : q \in (selected' \cup {focused'}) \ {NoRoute}}
  BY <1>2 DEF Chosen
<1>11. \A q \in Routes : q.avd \in WorkspaceAvds
  BY DEF Routes
<1>12. chosen' \in SUBSET WorkspaceAvds
  BY <1>3, <1>9, <1>10, <1>11
<1>13. /\ syncer' \in [Syncers -> [at : {"idle", "due", "read"}, listing : Listings]]
       /\ \A u \in Syncers : syncer'[u].listing \in {syncer[u].listing, NothingListed}
  <2> DEFINE w == [at |-> "idle", listing |-> NothingListed]
  <2>1. w \in [at : {"idle", "due", "read"}, listing : Listings] /\ w.listing = NothingListed
    BY NoRouteIs
  <2> HIDE DEF w
  <2> QED
    BY <1>2, <1>3, <2>1 DEF w
<1>14. WorkspaceTypes'
  BY <1>2, <1>3, <1>4, <1>6, <1>9, <1>12, <1>13 DEF WorkspaceTypes
<1>15. SessionsStarted'
  BY <1>2, <1>13, NoRouteIs DEF WorkspaceInv, SessionsStarted
<1>16. /\ \A r \in (selected \cup {focused}) \ {NoRoute} : r.avd \in chosen /\ r.avd \in started
       /\ gestures.here => pending = NoIntent
       /\ \A a \in pending.selected \cup {pending.focused} : a \notin chosen
  BY DEF WorkspaceInv, PendingInv
\* What is new was pending and lives.
<1>17. \A r \in (selected' \cup {focused'}) \ (selected \cup {focused, NoRoute}) :
         r.avd \in Live(listing) /\ r.avd \in pending.selected \cup {pending.focused}
  BY <1>4, <1>7, <1>8, RouteOfIs
<1>18. PendingInv'
  <2>1. \A r \in (selected' \cup {focused'}) \ {NoRoute} : r.avd \in chosen'
    BY <1>10
  <2>2. \A r \in (selected' \cup {focused'}) \ {NoRoute} : r.avd \in started'
    BY <1>2, <1>4, <1>16, <1>17
  <2>3. ASSUME gestures'.here PROVE pending' = NoIntent
    <3>1. pending = NoIntent
      BY <1>2, <1>16, <2>3
    <3>2. pending'.focused = NoAvd /\ pending'.selected = {}
      BY <1>6, <3>1, NoRouteIs
    <3> QED
      BY <1>2, <1>6, <3>2 DEF StillPending, NoIntent
  <2>4. ASSUME NEW a \in pending'.selected \cup {pending'.focused}
        PROVE  a \notin chosen'
    <3>1. CASE a = NoAvd
      BY <1>5, <1>12, <3>1
    <3>2. CASE a # NoAvd
      <4>1. a \in pending.selected \cup {pending.focused} /\ a \notin chosen
        BY <1>6, <1>16, <3>2, <2>4
      <4>2. a \notin Live(listing)
        \* the focus may be pending for an AVD that is also pending for the selection
        BY <1>6, <3>2, <2>4
      <4>3. \A r \in (selected' \cup {focused'}) \ {NoRoute} : r.avd # a
        BY <1>16, <1>17, <4>1, <4>2
      <4> QED
        BY <1>10, <4>1, <4>3
    <3> QED
      BY <3>1, <3>2
  <2> QED
    BY <2>1, <2>2, <2>3, <2>4 DEF PendingInv
<1>19. FileInv'
  <2>1. ASSUME ~gestures.here
        PROVE  /\ saved.file.selected \ started \subseteq pending'.selected
               /\ saved.file.focused \notin started =>
                    focused' = NoRoute /\ pending'.focused = saved.file.focused
    <3>1. /\ saved.file.selected \ started \subseteq pending.selected
          /\ saved.file.focused \notin started =>
               focused = NoRoute /\ pending.focused = saved.file.focused
      BY <2>1 DEF WorkspaceInv, FileInv
    <3> QED
      BY <1>4, <1>6, <1>7, <3>1
  <2> QED
    BY <1>2, <2>1 DEF FileInv
<1>20. ChoicesStep
  <2>1. ASSUME gestures.here
        PROVE  (selected' \cup {focused'}) \ (selected \cup {focused, NoRoute}) = {}
    <3>1. pending.selected = {} /\ pending.focused = NoAvd
      BY <1>16, <2>1, NoRouteIs
    <3>2. NoAvd \notin Live(listing)
      BY <1>5 DEF Live
    <3> QED
      BY <1>17, <3>1, <3>2
  <2> QED
    BY <1>16, <1>17, <2>1 DEF ChoicesStep
<1>21. WantedStep
  BY <1>2 DEF WantedStep
<1> QED
  BY <1>14, <1>15, <1>18, <1>19, <1>20, <1>21 DEF WorkspaceInv

LEMMA GestureKeeps ==
  ASSUME WorkspaceInv, NEW a \in WorkspaceAvds, FocusSession(a) \/ ToggleSelected(a)
  PROVE  WorkspaceInv' /\ ChoicesStep /\ WantedStep
<1>1. PICK r : r = RouteOf(routes, a)
  OBVIOUS
<1>2. /\ registry.current[a] # NoSession /\ routes[a] = registry.current[a]
      /\ \/ focused' = r /\ selected' = selected
         \/ focused' = focused /\ selected' = IF r \in selected THEN selected \ {r} ELSE selected \cup {r}
      /\ pending' = NoIntent
      /\ gestures' = [all |-> gestures.all + 1, here |-> TRUE]
      /\ chosen' = chosen \cup Chosen(focused', selected')
      /\ UNCHANGED <<registry, syncer, routes, saved, app, started>>
  BY <1>1, Zenon DEF FocusSession, ToggleSelected, Gesture
<1>3. /\ WorkspaceTypes /\ SessionsStarted
      /\ focused \in Routes \cup {NoRoute} /\ selected \in SUBSET Routes /\ routes \in Listings
      /\ chosen \in SUBSET WorkspaceAvds /\ started \in SUBSET WorkspaceAvds
      /\ \A q \in (selected \cup {focused}) \ {NoRoute} : q.avd \in chosen /\ q.avd \in started
  BY DEF WorkspaceInv, WorkspaceTypes, PendingInv
<1>4. a \in Live(routes) /\ a \in started
  BY <1>2, <1>3 DEF SessionsStarted, Live
<1>5. r \in Routes /\ r.avd = a
  BY <1>1, <1>3, <1>4, RouteOfIs
<1>6. /\ focused' \in Routes \cup {NoRoute} /\ selected' \in SUBSET Routes
      /\ \A q \in (selected' \cup {focused'}) \ {NoRoute} : q.avd \in started
  BY <1>2, <1>3, <1>4, <1>5
<1>7. chosen' = chosen \cup {q.avd : q \in (selected' \cup {focused'}) \ {NoRoute}}
  BY <1>2 DEF Chosen
<1>8. chosen' \in SUBSET WorkspaceAvds
  <2>1. \A q \in Routes : q.avd \in WorkspaceAvds
    BY DEF Routes
  <2> QED
    BY <1>3, <1>6, <1>7, <2>1
<1>9. gestures'.here = TRUE /\ gestures'.all = gestures.all + 1
  BY <1>2
<1>10. WorkspaceTypes'
  BY <1>2, <1>3, <1>6, <1>8, <1>9, NoRouteIs DEF WorkspaceTypes
<1>11. SessionsStarted'
  BY <1>2, <1>3 DEF SessionsStarted
<1>12. PendingInv'
  BY <1>2, <1>6, <1>7, <1>8, NoRouteIs, WorkspaceAssumption DEF PendingInv
<1>13. FileInv' /\ WantedStep
  BY <1>9 DEF FileInv, WantedStep
<1>14. ChoicesStep
  <2>1. gestures.all + 1 # gestures.all
    BY <1>3 DEF WorkspaceInv, WorkspaceTypes
  <2> QED
    BY <1>9, <2>1 DEF ChoicesStep
<1> QED
  BY <1>10, <1>11, <1>12, <1>13, <1>14 DEF WorkspaceInv

\* Saving, and closing the window: the file is what is wanted now.
LEMMA SaveKeeps ==
  ASSUME WorkspaceInv, SaveIntent \/ EndProcess
  PROVE  WorkspaceInv' /\ ChoicesStep /\ WantedStep
<1>1. /\ UNCHANGED <<registry, syncer, routes, focused, selected, pending, gestures, chosen, started>>
      /\ saved' \in {saved, [file |-> Intent, last |-> Intent]}
  BY Zenon DEF SaveIntent, EndProcess, choiceVars
<1>2. /\ WorkspaceTypes /\ focused \in Routes \cup {NoRoute} /\ selected \in SUBSET Routes
      /\ pending \in Intents /\ saved \in [file : Intents, last : Intents]
      /\ \A q \in (selected \cup {focused}) \ {NoRoute} : q.avd \in started
  BY DEF WorkspaceInv, WorkspaceTypes, PendingInv
<1>3. \A q \in Routes : q.avd \in WorkspaceAvds
  BY DEF Routes
<1>4. /\ Intent.focused = IF focused # NoRoute THEN focused.avd ELSE pending.focused
      /\ Intent.selected = {r.avd : r \in selected} \cup pending.selected
      /\ Intent \in Intents
  BY <1>2, <1>3 DEF Intent, Intents
<1>5. PICK intent : intent = Intent
  OBVIOUS
<1>6. /\ saved' \in [file : Intents, last : Intents]
      /\ saved'.file = saved.file \/ saved'.file = intent
  BY <1>1, <1>2, <1>4, <1>5
<1>7. WorkspaceTypes' /\ SessionsStarted' /\ PendingInv'
  BY <1>1, <1>6 DEF WorkspaceInv, WorkspaceTypes, SessionsStarted, PendingInv
<1>8. ASSUME ~gestures.here
      PROVE  /\ saved'.file.selected \ started \subseteq pending.selected
             /\ saved'.file.focused \notin started =>
                  focused = NoRoute /\ pending.focused = saved'.file.focused
             /\ saved.file.selected \ started \subseteq saved'.file.selected
             /\ saved.file.focused \notin started => saved'.file.focused = saved.file.focused
  <2>1. /\ saved.file.selected \ started \subseteq pending.selected
        /\ saved.file.focused \notin started =>
             focused = NoRoute /\ pending.focused = saved.file.focused
    BY <1>8 DEF WorkspaceInv, FileInv
  <2>2. NoRoute \notin selected
    BY <1>2, NoRouteIs
  <2>3. \A r \in selected : r.avd \in started
    BY <1>2, <2>2
  <2> QED
    BY <1>2, <1>4, <1>5, <1>6, <2>1, <2>3
<1>9. FileInv'
  BY <1>1, <1>8 DEF FileInv
<1>10. ChoicesStep /\ WantedStep
  BY <1>1, <1>8 DEF ChoicesStep, WantedStep
<1> QED
  BY <1>7, <1>9, <1>10 DEF WorkspaceInv

LEMMA RestartKeeps ==
  ASSUME WorkspaceInv, Restart
  PROVE  WorkspaceInv' /\ ChoicesStep /\ WantedStep
<1>1. /\ ~app.up
      /\ registry' = [registry EXCEPT !.current = NothingListed]
      /\ syncer' = IdleSyncers /\ routes' = NothingListed
      /\ focused' = NoRoute /\ selected' = {} /\ pending' = saved.file
      /\ saved' = [saved EXCEPT !.last = saved.file]
      /\ gestures' = [gestures EXCEPT !.here = FALSE]
      /\ chosen' = {} /\ started' = {}
  BY Zenon DEF Restart
<1>2. /\ registry \in [current : Listings, latest : Nat]
      /\ saved \in [file : Intents, last : Intents]
      /\ gestures \in [all : Nat, here : BOOLEAN]
  BY DEF WorkspaceInv, WorkspaceTypes
<1>3. /\ registry' \in [current : Listings, latest : Nat] /\ registry'.current = NothingListed
      /\ saved' \in [file : Intents, last : Intents] /\ saved'.file = saved.file
      /\ gestures' \in [all : Nat, here : BOOLEAN] /\ ~gestures'.here
  BY <1>1, <1>2, NoRouteIs
<1>4. /\ syncer' \in [Syncers -> [at : {"idle", "due", "read"}, listing : Listings]]
      /\ \A t \in Syncers : syncer'[t].listing = NothingListed
  BY <1>1, NoRouteIs DEF IdleSyncers
<1>5. pending' \in Intents
  BY <1>1, <1>2
<1>6. WorkspaceTypes'
  BY <1>1, <1>3, <1>4, <1>5, NoRouteIs DEF WorkspaceTypes
<1>7. SessionsStarted'
  BY <1>1, <1>3, <1>4, NoRouteIs DEF SessionsStarted
<1>8. PendingInv' /\ FileInv'
  BY <1>1, <1>3 DEF PendingInv, FileInv
<1>9. ChoicesStep /\ WantedStep
  BY <1>1 DEF ChoicesStep, WantedStep
<1> QED
  BY <1>6, <1>7, <1>8, <1>9 DEF WorkspaceInv

LEMMA WorkspaceStepKeeps ==
  ASSUME WorkspaceInv, [WorkspaceNext]_workspaceVars
  PROVE  WorkspaceInv' /\ ChoicesStep /\ WantedStep
<1>1. CASE UNCHANGED workspaceVars
  <2>1. UNCHANGED <<registry, syncer, routes, focused, selected, pending, saved, app, gestures,
                    chosen, started>>
    BY <1>1 DEF workspaceVars
  <2>2. WorkspaceTypes' /\ SessionsStarted' /\ PendingInv' /\ FileInv'
    BY <2>1 DEF WorkspaceInv, WorkspaceTypes, SessionsStarted, PendingInv, FileInv
  <2>3. ChoicesStep /\ WantedStep
    BY <2>1 DEF ChoicesStep, WantedStep
  <2> QED
    BY <2>2, <2>3 DEF WorkspaceInv
<1> QED
  BY <1>1, SyncerKeeps, ReconcileKeeps, GestureKeeps, SaveKeeps, RestartKeeps, Zenon DEF WorkspaceNext

LEMMA WorkspaceInitInv == WorkspaceInit => WorkspaceInv
<1> SUFFICES ASSUME WorkspaceInit PROVE WorkspaceInv
  OBVIOUS
<1>1. /\ registry = [current |-> NothingListed, latest |-> 0] /\ syncer = IdleSyncers
      /\ routes = NothingListed /\ focused = NoRoute /\ selected = {} /\ pending = NoIntent
      /\ saved = [file |-> NoIntent, last |-> NoIntent] /\ gestures = [all |-> 0, here |-> FALSE]
      /\ chosen = {} /\ started = {}
  BY DEF WorkspaceInit
<1>2. WorkspaceTypes
  BY <1>1, NoRouteIs DEF WorkspaceTypes, IdleSyncers
<1>3. SessionsStarted
  BY <1>1, NoRouteIs DEF SessionsStarted, IdleSyncers
<1>4. PendingInv /\ FileInv
  BY <1>1, NoRouteIs DEF PendingInv, FileInv
<1> QED
  BY <1>2, <1>3, <1>4 DEF WorkspaceInv

\* A session comes into focus or selection only by the user or, while the user
\* has done nothing, because the last process left its AVD there and this one has
\* not chosen it yet; an AVD wanted by the file that has not run stays in the file.
THEOREM ChoicesAreKeptCorrect == WorkspaceSpec => ChoicesAreKept
<1> DEFINE
      A == \A r \in (selected' \cup {focused'}) \ (selected \cup {focused, NoRoute}) :
             \/ gestures'.all # gestures.all
             \/ /\ ~gestures.here /\ r.avd \notin chosen
                /\ r.avd \in pending.selected \cup {pending.focused}
      B == (app.up /\ ~gestures'.here)
             => /\ saved.file.selected \ started' \subseteq saved'.file.selected
                /\ saved.file.focused \notin started' => saved'.file.focused = saved.file.focused
<1>1. WorkspaceInv /\ [WorkspaceNext]_workspaceVars =>
        WorkspaceInv' /\ [A]_workspaceVars /\ [B]_workspaceVars
  BY WorkspaceStepKeeps DEF ChoicesStep, WantedStep
<1>2. WorkspaceSpec => [][A]_workspaceVars /\ [][B]_workspaceVars
  BY WorkspaceInitInv, <1>1, PTL DEF WorkspaceSpec
<1> QED
  BY <1>2 DEF ChoicesAreKept, ChoicesAreTheUsers, AbsentAvdsStayWanted

-----------------------------------------------------------------------------
(* The types of Workspace.                                                  *)

WorkspaceCounts ==
  /\ registry.latest =< MaxSessions /\ gestures.all =< MaxGestures
  /\ app \in [up : BOOLEAN, restarts : 0 .. MaxRestarts]
  /\ ~app.up => app.restarts < MaxRestarts

LEMMA WorkspaceCountsStep ==
  ASSUME WorkspaceInv, WorkspaceCounts, [WorkspaceNext]_workspaceVars
  PROVE  WorkspaceCounts'
<1> USE DEF WorkspaceCounts
<1>1. CASE UNCHANGED <<registry, gestures, app>>
  BY <1>1
<1>2. ASSUME NEW t \in Syncers, NEW a \in WorkspaceAvds, SessionChanges(t, a) \/ Scan(t, a)
      PROVE  WorkspaceCounts'
  <2>1. UNCHANGED <<gestures, app>>
    BY <1>2 DEF SessionChanges, Scan
  <2>2. PICK s \in 0 .. MaxSessions : registry' = Change(a, s) \/ registry' = registry
    <3>1. ASSUME SessionChanges(t, a)
          PROVE  \E s \in 0 .. MaxSessions : registry' = Change(a, s)
      BY <3>1 DEF SessionChanges
    <3>2. ASSUME Scan(t, a)
          PROVE  \E s \in 0 .. MaxSessions : registry' = Change(a, s) \/ registry' = registry
      <4>1. PICK s \in {registry.current[a], NoSession, registry.latest + 1} \cap 0 .. MaxSessions :
              registry' = IF s = registry.current[a] THEN registry ELSE Change(a, s)
        BY <3>2, Zenon DEF Scan
      <4> QED
        BY <4>1
    <3> QED
      BY <1>2, <3>1, <3>2
  <2>3. registry \in [current : Listings, latest : Nat]
    BY DEF WorkspaceInv, WorkspaceTypes
  <2>4. Change(a, s).latest \in {registry.latest, s}
    BY <2>3 DEF Change
  <2>5. registry'.latest =< MaxSessions
    BY <2>2, <2>4, WorkspaceAssumption
  <2> QED
    BY <2>1, <2>5
<1>3. ASSUME NEW t \in Syncers, ReadRoutes(t) \/ Reconcile(t) PROVE WorkspaceCounts'
  BY <1>1, <1>3 DEF ReadRoutes, Reconcile
<1>4. ASSUME NEW a \in WorkspaceAvds, FocusSession(a) \/ ToggleSelected(a) PROVE WorkspaceCounts'
  <2>1. UNCHANGED <<registry, app>> /\ gestures'.all = gestures.all + 1 /\ gestures.all < MaxGestures
    BY <1>4 DEF FocusSession, ToggleSelected, Gesture
  <2> QED
    BY <2>1, WorkspaceAssumption DEF WorkspaceInv, WorkspaceTypes
<1>5. CASE SaveIntent \/ UNCHANGED workspaceVars
  BY <1>1, <1>5 DEF SaveIntent, workspaceVars
<1>6. CASE EndProcess
  BY <1>6 DEF EndProcess
<1>7. CASE Restart
  <2>1. /\ registry'.latest = registry.latest /\ gestures'.all = gestures.all /\ ~app.up
        /\ app' = [up |-> TRUE, restarts |-> app.restarts + 1]
    BY <1>7 DEF Restart, WorkspaceInv, WorkspaceTypes
  <2> QED
    BY <2>1, WorkspaceAssumption
<1> QED
  BY <1>2, <1>3, <1>4, <1>5, <1>6, <1>7, Zenon DEF WorkspaceNext

\* The types of the routes, of what is chosen and of the state file (core/workspace.rs).
LEMMA WorkspaceTypeCorrect == WorkspaceSpec => []WorkspaceTypeOK
<1>1. WorkspaceInit => WorkspaceInv /\ WorkspaceCounts
  BY WorkspaceInitInv, WorkspaceAssumption DEF WorkspaceInit, WorkspaceCounts
<1>2. WorkspaceInv /\ WorkspaceCounts /\ [WorkspaceNext]_workspaceVars =>
        WorkspaceInv' /\ WorkspaceCounts'
  BY WorkspaceStepKeeps, WorkspaceCountsStep
<1>3. WorkspaceInv /\ WorkspaceCounts => WorkspaceTypeOK
  BY WorkspaceAssumption DEF WorkspaceInv, WorkspaceTypes, WorkspaceCounts, WorkspaceTypeOK
<1> QED
  BY <1>1, <1>2, <1>3, PTL DEF WorkspaceSpec

-----------------------------------------------------------------------------
(* The components side by side.                                             *)

LEMMA InputAlone == ServicesSpec => InputSpec
<1>1. ServicesInit => InputInit
  BY DEF ServicesInit
<1>2. [ServicesNext]_servicesVars => [InputNext]_inputVars
  BY DEF ServicesNext, UiMoves, CoreMoves, servicesVars, uiVars, coreVars
<1> QED
  BY <1>1, <1>2, PTL DEF ServicesSpec, InputSpec

LEMMA MicAlone == ServicesSpec => MicSpec
<1>1. ServicesInit => MicInit
  BY DEF ServicesInit
<1>2. [ServicesNext]_servicesVars => [MicNext]_micVars
  BY DEF ServicesNext, UiMoves, CoreMoves, servicesVars, uiVars, coreVars
<1> QED
  BY <1>1, <1>2, PTL DEF ServicesSpec, MicSpec

LEMMA SourceAlone == ServicesSpec => SourceSpec
<1>1. ServicesInit => SourceInit
  BY DEF ServicesInit
<1>2. [ServicesNext]_servicesVars => [SourceNext]_sourceVars
  BY DEF ServicesNext, UiMoves, CoreMoves, servicesVars, uiVars, coreVars
<1> QED
  BY <1>1, <1>2, PTL DEF ServicesSpec, SourceSpec

LEMMA AudioAlone == ServicesSpec => AudioSpec
<1>1. ServicesInit => AudioInit
  BY DEF ServicesInit
<1>2. [ServicesNext]_servicesVars => [AudioNext]_audioVars
  BY DEF ServicesNext, UiMoves, CoreMoves, servicesVars, uiVars, coreVars
<1> QED
  BY <1>1, <1>2, PTL DEF ServicesSpec, AudioSpec

LEMMA WorkspaceAlone == ServicesSpec => WorkspaceSpec
<1>1. ServicesInit => WorkspaceInit
  BY DEF ServicesInit
<1>2. [ServicesNext]_servicesVars => [WorkspaceNext]_workspaceVars
  BY DEF ServicesNext, UiMoves, CoreMoves, servicesVars, uiVars, coreVars
<1> QED
  BY <1>1, <1>2, PTL DEF ServicesSpec, WorkspaceSpec

LEMMA OperationAlone == ServicesSpec => OperationSpec
<1>1. ServicesInit => OperationInit
  BY DEF ServicesInit
<1>2. [ServicesNext]_servicesVars => [OperationNext]_operationVars
  BY DEF ServicesNext, UiMoves, CoreMoves, servicesVars, uiVars, coreVars
<1> QED
  BY <1>1, <1>2, PTL DEF ServicesSpec, OperationSpec

LEMMA EngineAlone == ServicesSpec => EngineSpec
<1>1. ServicesInit => EngineInit
  BY DEF ServicesInit
<1>2. [ServicesNext]_servicesVars => [EngineNext]_launchVars
  BY DEF ServicesNext, UiMoves, CoreMoves, servicesVars, uiVars, coreVars
<1> QED
  BY <1>1, <1>2, PTL DEF ServicesSpec, EngineSpec

LEMMA RecoveryAlone == ServicesSpec => RecoverySpec
<1>1. ServicesInit => RecoveryInit
  BY DEF ServicesInit
<1>2. [ServicesNext]_servicesVars => [RecoveryNext]_recoveryVars
  BY DEF ServicesNext, UiMoves, CoreMoves, servicesVars, uiVars, coreVars
<1> QED
  BY <1>1, <1>2, PTL DEF ServicesSpec, RecoverySpec

LEMMA PackageAlone == ServicesSpec => PackageSpec
<1>1. ServicesInit => PackageInit
  BY DEF ServicesInit
<1>2. [ServicesNext]_servicesVars => [PackageNext]_packageVars
  BY DEF ServicesNext, UiMoves, CoreMoves, servicesVars, uiVars, coreVars
<1> QED
  BY <1>1, <1>2, PTL DEF ServicesSpec, PackageSpec

LEMMA AvdAlone == ServicesSpec => AvdSpec
<1>1. ServicesInit => AvdInit
  BY DEF ServicesInit
<1>2. [ServicesNext]_servicesVars => [AvdNext]_avdVars
  BY DEF ServicesNext, UiMoves, CoreMoves, servicesVars, uiVars, coreVars
<1> QED
  BY <1>1, <1>2, PTL DEF ServicesSpec, AvdSpec

\* Each component keeps its types and its counters within the limits the code
\* sets (MAX_RELIABLE_QUEUE in ui/input.rs, capacity_samples of AudioBuffer in
\* core/audio.rs, and the rest), whatever the others do.
THEOREM ServicesTypeCorrect == ServicesSpec => []ServicesTypeOK
<1>1. ServicesSpec => []InputTypeOK
  BY InputAlone, InputTypeCorrect, PTL
<1>2. ServicesSpec => []MicTypeOK
  BY MicAlone, MicTypeCorrect, PTL
<1>3. ServicesSpec => []SourceTypeOK
  BY SourceAlone, SourceTypeCorrect, PTL
<1>4. ServicesSpec => []AudioTypeOK
  BY AudioAlone, AudioTypeCorrect, PTL
<1>5. ServicesSpec => []WorkspaceTypeOK
  BY WorkspaceAlone, WorkspaceTypeCorrect, PTL
<1>6. ServicesSpec => []OperationTypeOK
  BY OperationAlone, OperationTypeCorrect, PTL
<1>7. ServicesSpec => []EngineTypeOK
  BY EngineAlone, EngineTypeCorrect, PTL
<1>8. ServicesSpec => []RecoveryTypeOK
  BY RecoveryAlone, RecoveryTypeCorrect, PTL
<1>9. ServicesSpec => []PackageTypeOK
  BY PackageAlone, PackageTypeCorrect, PTL
<1>10. ServicesSpec => []AvdTypeOK
  BY AvdAlone, AvdTypeCorrect, PTL
<1>11. InputTypeOK /\ MicTypeOK /\ SourceTypeOK /\ AudioTypeOK /\ WorkspaceTypeOK
       /\ OperationTypeOK /\ EngineTypeOK /\ RecoveryTypeOK /\ PackageTypeOK /\ AvdTypeOK
       => ServicesTypeOK
  BY DEF ServicesTypeOK
<1> QED
  BY <1>1, <1>2, <1>3, <1>4, <1>5, <1>6, <1>7, <1>8, <1>9, <1>10, <1>11, PTL

\* Side by side, the input path, sound, operations, engines, recovery leases,
\* packages and AVDs keep what each promises alone: none of them changes what
\* another relies on.
THEOREM ServicesKeepTheirPromises ==
  ServicesSpec =>
    /\ []GuestFollowsInput
    /\ []MicrophoneIsTurned
    /\ []SourcesAreExact
    /\ []SoundIsHandedOver
    /\ []OperationsAreClean
    /\ []TrackedEnginesEnd
    /\ []SessionKeepsItsIdentity
    /\ []InstallsWhatWasChecked
    /\ []CacheKeepsItsLimit
    /\ []AvdsAreWhole
    /\ ChoicesAreKept /\ OthersFilesAreKept /\ OnlyAnExitLeaks /\ WholeCopyIsKept
<1>1. ServicesSpec => []GuestFollowsInput
  BY InputAlone, GuestFollowsInputCorrect, PTL
<1>2. ServicesSpec => []MicrophoneIsTurned
  BY MicAlone, MicrophoneIsTurnedCorrect, PTL
<1>3. ServicesSpec => []SourcesAreExact
  BY SourceAlone, SourcesAreExactCorrect, PTL
<1>4. ServicesSpec => []SoundIsHandedOver
  BY AudioAlone, SoundIsHandedOverCorrect, PTL
<1>5. ServicesSpec => []OperationsAreClean
  BY OperationAlone, OperationsAreCleanCorrect, PTL
<1>6. ServicesSpec => []TrackedEnginesEnd
  BY EngineAlone, TrackedEnginesEndCorrect, PTL
<1>7. ServicesSpec => []SessionKeepsItsIdentity
  BY RecoveryAlone, SessionKeepsItsIdentityCorrect, PTL
<1>8. ServicesSpec => []InstallsWhatWasChecked
  BY PackageAlone, InstallsWhatWasCheckedCorrect, PTL
<1>9. ServicesSpec => []CacheKeepsItsLimit
  BY PackageAlone, CacheKeepsItsLimitCorrect, PTL
<1>10. ServicesSpec => []AvdsAreWhole
  BY AvdAlone, AvdsWholeCorrect, PTL
<1>11. ServicesSpec => ChoicesAreKept
  BY WorkspaceAlone, ChoicesAreKeptCorrect
<1>12. ServicesSpec => OthersFilesAreKept
  BY OperationAlone, OthersFilesAreKeptCorrect
<1>13. ServicesSpec => OnlyAnExitLeaks
  BY RecoveryAlone, OnlyAnExitLeaksCorrect
<1>14. ServicesSpec => WholeCopyIsKept
  BY PackageAlone, WholeCopyIsKeptCorrect
<1> QED
  BY <1>1, <1>2, <1>3, <1>4, <1>5, <1>6, <1>7, <1>8, <1>9, <1>10, <1>11, <1>12, <1>13, <1>14

=============================================================================
