---------------------------- MODULE OperationBatch ----------------------------
(***************************************************************************)
(* One operation on several devices (core/operation.rs, ui/operations.rs): *)
(* it is planned for the routes the workspace lists, authorized against    *)
(* them after the user confirmed, and run on one target after another.     *)
(* Pushing files and installing packages drive adb (core/adb.rs), which    *)
(* finds the device by its port alone: a command that outlives its session *)
(* reaches whatever took the port.                                         *)
(*                                                                         *)
(* The guest's files are those of this operation: the staged part and the  *)
(* published file of each item.  Killing adb ends what it does.            *)
(***************************************************************************)
EXTENDS Integers, Sequences, FiniteSets, SequencesExt

CONSTANTS Targets,    \* the routes, in the order of their AVD's name
          SameName,   \* targets whose names make the same screenshot name
          Items       \* bound: the number of files pushed

ASSUME OperationAssumption ==
  /\ IsFiniteSet(Targets) /\ Targets \subseteq Nat
  /\ SameName \subseteq Targets /\ Items \in Nat \ {0}

Kinds == {"screenshot", "install", "push", "stop"}
TargetResults == {"waiting", "succeeded", "failed", "canceled", "stale"}
Controlled == {"install", "push"}      \* run under the progress dialog
Guests == [part : {"none", "partial", "whole"}, file : {"none", "other", "ours"}]
NoTarget == -1

VARIABLES
  sessions,  \* targets whose session the registry still has
  listed,    \* targets the workspace lists
  operation, \* kind, stage, the targets left to run, the cancellation flag
  results,   \* the result of each target
  task,      \* what is done for the target at the head
  adb,       \* its adb process
  guestFiles, \* the files of each device
  pictures,  \* whose bytes each screenshot file holds; NoTarget: no such file
  strays     \* history: commands that reached a device after its session ended

operationVars == <<sessions, listed, operation, results, task, adb, guestFiles, pictures, strays>>

Target == Head(operation.left)
NoTargetTask == [at |-> "none", pc |-> 0, staged |-> {}, published |-> {}, outcome |-> "waiting"]
NoAdb == [at |-> "none", ok |-> FALSE, acted |-> FALSE]

OperationTypeOK ==
  /\ sessions \subseteq Targets /\ listed \subseteq Targets
  /\ operation.stage \in {"idle", "confirm", "run", "done"}
  /\ results \in [Targets -> TargetResults]
  /\ task.staged \subseteq 1 .. Items /\ task.published \subseteq 1 .. Items
  /\ adb.at \in {"none", "running", "exited"}
  /\ guestFiles \in [Targets -> [1 .. Items -> Guests]]

OperationInit ==
  /\ sessions = Targets /\ listed = Targets
  /\ operation = [kind |-> "push", stage |-> "idle", left |-> <<>>, canceled |-> FALSE]
  /\ results = [t \in Targets |-> "waiting"]
  /\ task = NoTargetTask /\ adb = NoAdb
  /\ guestFiles \in [Targets -> [1 .. Items -> [part : {"none"}, file : {"none", "other"}]]]
  /\ pictures = [n \in Targets |-> NoTarget]
  /\ strays = [t \in Targets |-> 0]

----------------------------------------------------------------------------
(* Sessions come and go while the user confirms and while the operation runs *)

TargetSessionEnds(t) ==
  /\ t \in sessions
  /\ sessions' = sessions \ {t}
  /\ UNCHANGED <<listed, operation, results, task, adb, guestFiles, pictures, strays>>

WorkspaceFollows ==
  /\ listed # sessions
  /\ listed' = sessions
  /\ UNCHANGED <<sessions, operation, results, task, adb, guestFiles, pictures, strays>>

\* another program of the guest makes a file of that name
RivalWrites(t, i) ==
  /\ operation.stage = "run" /\ t \in sessions /\ guestFiles[t][i].file = "none"
  /\ guestFiles' = [guestFiles EXCEPT ![t][i].file = "other"]
  /\ UNCHANGED <<sessions, listed, operation, results, task, adb, pictures, strays>>

----------------------------------------------------------------------------
(* Plan, confirmation, authorization *)

\* targets in the order of their AVD's name
Orders == {order \in UNION {[1 .. n -> Targets] : n \in 1 .. Cardinality(Targets)} :
             \A i, j \in DOMAIN order : i < j => order[i] < order[j]}

Plan(kind, order) ==
  /\ operation.stage = "idle" /\ ToSet(order) \subseteq listed
  /\ operation' = [kind |-> kind, stage |-> "confirm", canceled |-> FALSE, left |-> order]
  /\ UNCHANGED <<sessions, listed, results, task, adb, guestFiles, pictures, strays>>

\* the user confirms, or chooses the folder; one target that changed refuses all
Authorize ==
  /\ operation.stage = "confirm"
  /\ operation' = IF ToSet(operation.left) \subseteq listed
                  THEN [operation EXCEPT !.stage = "run"]
                  ELSE [operation EXCEPT !.stage = "done", !.left = <<>>]
  /\ UNCHANGED <<sessions, listed, results, task, adb, guestFiles, pictures, strays>>

Dismiss ==
  /\ operation.stage = "confirm"
  /\ operation' = [operation EXCEPT !.stage = "done", !.left = <<>>]
  /\ UNCHANGED <<sessions, listed, results, task, adb, guestFiles, pictures, strays>>

CancelOperation ==
  /\ operation.stage = "run" /\ operation.kind \in Controlled /\ ~operation.canceled
  /\ operation' = [operation EXCEPT !.canceled = TRUE]
  /\ UNCHANGED <<sessions, listed, results, task, adb, guestFiles, pictures, strays>>

----------------------------------------------------------------------------
(* execute_with: one target after another *)

Finish(result) ==
  /\ results' = [results EXCEPT ![Target] = result]
  /\ operation' = [operation EXCEPT !.left = Tail(@),
                                    !.stage = IF Len(operation.left) = 1 THEN "done" ELSE @]
  /\ task' = NoTargetTask

FirstStep == CASE operation.kind \in Controlled -> "spawn"
               [] operation.kind = "screenshot" -> "connect"
               [] operation.kind = "stop" -> "stop"

BeginTarget ==
  /\ operation.stage = "run" /\ task.at = "none"
  /\ IF Target \in sessions
     THEN /\ task' = [NoTargetTask EXCEPT !.at = FirstStep, !.pc = 1]
          /\ UNCHANGED <<operation, results>>
     ELSE Finish("stale")
  /\ UNCHANGED <<sessions, listed, adb, guestFiles, pictures, strays>>

----------------------------------------------------------------------------
(* The commands of push_files_to_route and of an installation *)

Each(command) == [i \in 1 .. Items |-> [do |-> command, item |-> i]]
Publishing == [n \in 1 .. 3 * Items |->
                 [do |-> <<"move", "gone", "isfile">>[((n - 1) % 3) + 1],
                  item |-> ((n - 1) \div 3) + 1]]
PushProgram == <<[do |-> "mkdir", item |-> 0]>> \o Each("absent") \o Each("push") \o Publishing
Program == IF operation.kind = "push" THEN PushProgram
           ELSE <<[do |-> "install", item |-> 0]>>
Command == IF task.at = "clean" THEN [do |-> "remove", item |-> 0] ELSE Program[task.pc]

\* classify_adb_failure and ensure_operation_current ask in this order
Ending(otherwise) == IF Target \notin sessions THEN "stale"
                     ELSE IF operation.canceled THEN "canceled" ELSE otherwise

\* the error path: clean up if the route is still current and there is
\* something to clean up
GiveUp(outcome, staged) ==
  IF Target \in sessions /\ staged \cup task.published # {}
  THEN /\ task' = [task EXCEPT !.at = "clean", !.staged = staged, !.outcome = outcome]
       /\ UNCHANGED <<operation, results>>
  ELSE Finish(outcome)

\* A part registered for the cleanup only once its push has succeeded.
StagedAfterPush == task.staged

StagedNow == IF Command.do = "push" THEN task.staged \cup {Command.item} ELSE task.staged

Spawn ==
  /\ task.at = "spawn"
  /\ \/ /\ Ending("go") = "go"
        /\ adb' = [NoAdb EXCEPT !.at = "running"]
        /\ task' = [task EXCEPT !.at = "wait", !.staged = StagedNow]
        /\ UNCHANGED <<operation, results>>
     \/ /\ GiveUp(Ending("failed"), StagedNow)         \* or adb cannot be started
        /\ UNCHANGED adb
  /\ UNCHANGED <<sessions, listed, guestFiles, pictures, strays>>

SpawnCleanup ==
  /\ task.at = "clean" /\ adb.at = "none"
  /\ \/ /\ Target \in sessions
        /\ adb' = [NoAdb EXCEPT !.at = "running"]
        /\ UNCHANGED <<operation, results, task>>
     \/ Finish(task.outcome) /\ UNCHANGED adb
  /\ UNCHANGED <<sessions, listed, guestFiles, pictures, strays>>

----------------------------------------------------------------------------
(* What a command does to the guest; it may fail at any time *)

\* A move that replaces what is there.
MovedOver(f) == IF f.part # "none" THEN [part |-> "none", file |-> "ours"] ELSE f

Moved(f) == IF f.part # "none" /\ f.file = "none"         \* mv -n
            THEN [part |-> "none", file |-> "ours"] ELSE f
RemovedFiles(files) ==
  [i \in 1 .. Items |->
     [part |-> IF i \in task.staged THEN "none" ELSE files[i].part,
      file |-> IF i \in task.published THEN "none" ELSE files[i].file]]

Changed(files) ==
  LET i == Command.item IN
  CASE Command.do = "push"   -> {[files EXCEPT ![i].part = p] : p \in {"partial", "whole"}}
    [] Command.do = "move"   -> {[files EXCEPT ![i] = Moved(@)]}
    [] Command.do = "remove" -> {RemovedFiles(files)}
    [] OTHER                 -> {files}

CommandHolds(files) ==
  CASE Command.do = "absent" -> files[Command.item].file = "none"
    [] Command.do = "push"   -> files[Command.item].part = "whole"
    [] Command.do = "gone"   -> files[Command.item].part = "none"
    [] Command.do = "isfile" -> files[Command.item].file # "none"
    [] OTHER                 -> TRUE

AdbActs ==
  /\ adb.at = "running" /\ ~adb.acted
  /\ \E files \in Changed(guestFiles[Target]) :
       /\ guestFiles' = IF Target \in sessions THEN [guestFiles EXCEPT ![Target] = files]
                         ELSE guestFiles
       /\ adb' = [adb EXCEPT !.acted = TRUE, !.ok = CommandHolds(files)]
  /\ strays' = IF Target \in sessions THEN strays ELSE [strays EXCEPT ![Target] = @ + 1]
  /\ UNCHANGED <<sessions, listed, operation, results, task, pictures>>

AdbExits ==
  /\ adb.at = "running"
  /\ \E ok \in {FALSE, adb.ok} : adb' = [adb EXCEPT !.at = "exited", !.ok = ok]
  /\ UNCHANGED <<sessions, listed, operation, results, task, guestFiles, pictures, strays>>

----------------------------------------------------------------------------
(* run_cancellable: every 50 ms it asks for cancellation, then for the       *)
(* deadline, then for the exit; a canceled or late process is killed         *)

ExitsWell ==
  LET done == Command.do = "isfile" IN
  IF task.pc = Len(Program)
  THEN Finish("succeeded")
  ELSE /\ task' = [task EXCEPT !.at = "spawn", !.pc = @ + 1,
                     !.staged = IF done THEN @ \ {Command.item} ELSE @,
                     !.published = IF done THEN @ \cup {Command.item} ELSE @]
       /\ UNCHANGED <<operation, results>>

PollKills ==
  /\ task.at = "wait" /\ adb.at # "none"
  /\ GiveUp(Ending("failed"), task.staged)          \* canceled, stale or too late
  /\ adb' = NoAdb
  /\ UNCHANGED <<sessions, listed, guestFiles, pictures, strays>>

PollSeesExit ==
  /\ task.at = "wait" /\ adb.at = "exited"
  /\ IF Ending("go") = "go" /\ adb.ok THEN ExitsWell ELSE GiveUp(Ending("failed"), task.staged)
  /\ adb' = NoAdb
  /\ UNCHANGED <<sessions, listed, guestFiles, pictures, strays>>

\* the cleanup is not canceled by the user, and its own result is ignored
CleanupEnds ==
  /\ task.at = "clean" /\ adb.at # "none"
  /\ Finish(task.outcome)
  /\ adb' = NoAdb
  /\ UNCHANGED <<sessions, listed, guestFiles, pictures, strays>>

----------------------------------------------------------------------------
(* Screenshots: connect, ask, publish by a hard link that never overwrites   *)

PictureOf(t) == IF t \in SameName THEN CHOOSE s \in SameName : TRUE ELSE t

ConnectDevice ==
  /\ task.at = "connect"
  /\ \/ Target \in sessions /\ task' = [task EXCEPT !.at = "shoot"] /\ UNCHANGED <<operation, results>>
     \/ Target \notin sessions /\ Finish("stale")
     \/ Finish("failed")
  /\ UNCHANGED <<sessions, listed, adb, guestFiles, pictures, strays>>

Shoot ==
  /\ task.at = "shoot"
  /\ \/ Target \in sessions /\ task' = [task EXCEPT !.at = "publish"] /\ UNCHANGED <<operation, results>>
     \/ Target \notin sessions /\ Finish("stale")
     \/ Finish("failed")                               \* or the answer is no PNG
  /\ UNCHANGED <<sessions, listed, adb, guestFiles, pictures, strays>>

PublishScreenshot ==
  /\ task.at = "publish"
  /\ LET n == PictureOf(Target) IN
     \/ Target \notin sessions /\ Finish("stale") /\ UNCHANGED pictures
     \/ /\ Target \in sessions /\ pictures[n] = NoTarget
        /\ pictures' = [pictures EXCEPT ![n] = Target]
        /\ Finish("succeeded")
     \/ Finish("failed") /\ UNCHANGED pictures         \* the name is taken, or I/O failed
  /\ UNCHANGED <<sessions, listed, adb, guestFiles, strays>>

----------------------------------------------------------------------------
(* Stop: the exact route is asked for under the registry's own lock          *)

BeginStop ==
  /\ task.at = "stop"
  /\ IF Target \in sessions
     THEN task' = [task EXCEPT !.at = "stopping"] /\ UNCHANGED <<operation, results>>
     ELSE Finish("stale")
  /\ UNCHANGED <<sessions, listed, adb, guestFiles, pictures, strays>>

\* the engine ended, or would not; committing fails if the session was replaced
StopEnds ==
  /\ task.at = "stopping"
  /\ \/ /\ Target \in sessions /\ Finish("succeeded")
        /\ sessions' = sessions \ {Target}
     \/ Finish("failed") /\ UNCHANGED sessions
  /\ UNCHANGED <<listed, adb, guestFiles, pictures, strays>>

----------------------------------------------------------------------------

OperationStep ==
  \/ BeginTarget \/ Spawn \/ SpawnCleanup \/ PollKills \/ PollSeesExit \/ CleanupEnds
  \/ ConnectDevice \/ Shoot \/ PublishScreenshot \/ BeginStop \/ StopEnds

OperationNext ==
  \/ OperationStep
  \/ \E t \in Targets : TargetSessionEnds(t) \/ \E i \in 1 .. Items : RivalWrites(t, i)
  \/ \E kind \in Kinds, order \in Orders : Plan(kind, order)
  \/ WorkspaceFollows \/ Authorize \/ Dismiss \/ CancelOperation \/ AdbActs \/ AdbExits

OperationSpec == OperationInit /\ [][OperationNext]_operationVars

----------------------------------------------------------------------------
(* Properties *)

\* A target's part files are left behind only where the code gave up on them:
\* the route ended, or the one removal it tries did not come to act.
\* (a killed push may have made the part before its process ended)
Leftovers(t) == {i \in 1 .. Items : guestFiles[t][i].part # "none"}
NoPartIsForgotten ==
  /\ \A t \in Targets : results[t] = "succeeded" => Leftovers(t) = {}
  /\ task.at \in {"wait", "spawn", "clean"} /\ Target \in sessions =>
       Leftovers(Target) \subseteq task.staged
  /\ task.at = "clean" /\ adb.acted /\ Target \in sessions => Leftovers(Target) = {}

\* A file that another program made under the operation's name is never
\* overwritten and never removed, on whichever path the operation fails.
OthersFilesAreKept ==
  [][ \A t \in Targets, i \in 1 .. Items :
        guestFiles[t][i].file = "other" => guestFiles'[t][i].file = "other" ]_operationVars

\* Once the registry has dropped a session, at most the command that was
\* already running still reaches the port it had; no later one, and no cleanup.
StaleRouteIsLetGo == \A t \in Targets : strays[t] <= 1

\* A screenshot reported as saved is there and is that device's, even if two
\* devices' names make the same file name.
ScreenshotsAreKept ==
  operation.kind = "screenshot" =>
    \A t \in Targets : results[t] = "succeeded" => pictures[PictureOf(t)] = t

\* Whatever interrupts an operation, it tidies up after itself, lets go of what
\* is no longer its target and reports what it did.
OperationsAreClean == NoPartIsForgotten /\ StaleRouteIsLetGo /\ ScreenshotsAreKept
=============================================================================
