----------------------------- MODULE EngineLaunch -----------------------------
(***************************************************************************)
(* Launching and stopping the emulator's processes (core/emulator.rs): the *)
(* launcher that is spawned, the engine it forks, the advertisement the    *)
(* engine writes, and whoever signals them: the launch itself, the guard   *)
(* that runs when its future is dropped, the session that stops and the    *)
(* detached cleanup thread.                                                *)
(*                                                                         *)
(* The attempts are those of one AVD on one console port, one after        *)
(* another; the cleanup of an earlier one may go on during a later one.    *)
(* A process id is free once its process is reaped, and a stranger may     *)
(* take it; the AVD's own processes have ids that were not used before.    *)
(* A timeout may fire whenever its wait lasts.                             *)
(***************************************************************************)
EXTENDS Integers, Sequences, FiniteSets

CONSTANTS Pids, NoPid,
          MaxAttempts, MaxReuses   \* bounds

ASSUME EngineAssumption ==
  NoPid \notin Pids /\ MaxAttempts \in Nat \ {0} /\ MaxReuses \in Nat

Attempts == 1 .. MaxAttempts
NoAttempt == 0

VARIABLES
  proc,      \* the process of each id: what it is, whose attempt, how it fares
  ads,       \* ids that have an advertisement file
  shareVid,  \* the attempt whose engine made the port's shared-memory file
  lock,      \* the id in the AVD's snapshot marker
  launch,    \* the attempt under way: where it is and what it owns
  stopping,  \* stop_process of the attempt: where it is, which process, whether it failed
  cleaner,   \* the cleanup thread of each attempt
  ended,     \* history: how each attempt ended, and whose engine it had tracked
  reuses

launchVars == <<proc, ads, shareVid, lock, launch, stopping, cleaner, ended, reuses>>

NobodyThere == [kind |-> "none", of |-> NoAttempt, state |-> "gone"]
Unused == [NobodyThere EXCEPT !.state = "unused"]
NoStop == [at |-> "none", pid |-> NoPid, failed |-> FALSE]
NoCleaner == [at |-> "none", engine |-> NoPid, launcher |-> NoPid]
NoLaunch == [at |-> "idle", n |-> NoAttempt, launcher |-> NoPid, engine |-> NoPid,
             tracked |-> NoAttempt, mic |-> FALSE, check |-> 1]

\* what is verified between the advertisement and the commit, in order
Checks == <<"port", "jwks", "jwk", "connect", "status", "mic", "bind", "renderer",
            "capture", "reaper">>

EngineTypeOK ==
  /\ proc \in [Pids -> [kind : {"none", "launcher", "parent", "engine", "stranger"},
                        of : Attempts \cup {NoAttempt},
                        state : {"unused", "gone", "alive", "termed", "dying", "zombie"}]]
  /\ ads \subseteq Pids /\ shareVid \in Attempts \cup {NoAttempt}
  /\ lock \in Pids \cup {NoPid}
  /\ launch.at \in {"idle", "checked", "bound", "spawned", "verify", "abort", "boot",
                    "unboot", "running", "closing"}
  /\ launch.check \in 1 .. Len(Checks)
  /\ cleaner \in [Attempts -> [at : {"none", "wait", "killed"},
                               engine : Pids \cup {NoPid}, launcher : Pids \cup {NoPid}]]

EngineInit ==
  /\ proc = [p \in Pids |-> Unused] /\ ads = {} /\ shareVid = NoAttempt
  /\ lock = NoPid
  /\ launch = NoLaunch /\ stopping = NoStop
  /\ cleaner = [a \in Attempts |-> NoCleaner]
  /\ ended = [a \in Attempts |-> [how |-> "not", tracked |-> NoAttempt]] /\ reuses = 0

----------------------------------------------------------------------------
(* Processes *)

ProcessAlive(p) == p \in Pids /\ proc[p].state \in {"alive", "termed", "dying"}
Verified(p) == ProcessAlive(p) /\ proc[p].kind \in {"launcher", "parent", "engine"}
Fresh == {p \in Pids : proc[p] = Unused}
NewPid == CHOOSE p \in Fresh : TRUE     \* ids are alike

Signalled(procs, ps, to) ==
  [p \in Pids |-> IF p \in ps /\ procs[p].state \in {"alive", "termed"}
                  THEN [procs[p] EXCEPT !.state = to] ELSE procs[p]]

Owned(p) == launch.at \in {"spawned", "verify", "abort"} /\ launch.launcher = p

\* the launcher forks the engine, once
LauncherForks(p) ==
  /\ proc[p].kind = "launcher" /\ proc[p].state = "alive" /\ Fresh # {}
  /\ proc' = [proc EXCEPT ![p].kind = "parent",
                          ![NewPid] = [kind |-> "engine", of |-> proc[p].of, state |-> "alive"]]
  /\ UNCHANGED <<ads, shareVid, lock, launch, stopping, cleaner, ended, reuses>>

\* the engine advertises itself and makes its shared memory
EngineAdvertises(p) ==
  /\ proc[p].kind = "engine" /\ proc[p].state = "alive" /\ p \notin ads
  /\ ads' = ads \cup {p}
  /\ shareVid' = proc[p].of
  /\ UNCHANGED <<proc, lock, launch, stopping, cleaner, ended, reuses>>

\* a process ends, told or of itself; an engine that is told removes its files,
\* one that is killed leaves them and may leave the marker of a save
ProcessEnds(p, saving) ==
  /\ ProcessAlive(p) /\ proc[p].kind # "stranger"
  /\ saving => proc[p].kind = "engine" /\ proc[p].state = "dying"
  /\ proc' = [proc EXCEPT ![p] = IF Owned(p) THEN [@ EXCEPT !.state = "zombie"]
                                             ELSE NobodyThere]
  /\ ads' = IF proc[p].state = "termed" THEN ads \ {p} ELSE ads
  /\ shareVid' = IF /\ proc[p].kind = "engine" /\ proc[p].state = "termed"
                    /\ shareVid = proc[p].of
                 THEN NoAttempt ELSE shareVid
  /\ lock' = IF saving THEN p ELSE lock
  /\ UNCHANGED <<launch, stopping, cleaner, ended, reuses>>

PidIsReused(p) ==
  /\ proc[p] = NobodyThere /\ reuses < MaxReuses
  /\ proc' = [proc EXCEPT ![p] = [kind |-> "stranger", of |-> NoAttempt, state |-> "alive"]]
  /\ reuses' = reuses + 1
  /\ UNCHANGED <<ads, shareVid, lock, launch, stopping, cleaner, ended>>

----------------------------------------------------------------------------
(* The cleanup thread *)

\* schedule_managed_cleanup: TERM now, the rest in a thread
CleanupScheduled(engine, launcher) ==
  cleaner' = [cleaner EXCEPT ![launch.n] =
                [at |-> "wait", engine |-> engine, launcher |-> launcher]]
Termed(engine, launcher) == Signalled(proc, {p \in {engine, launcher} : Verified(p)}, "termed")

CleanerKills(a) ==
  /\ cleaner[a].at = "wait"
  /\ proc' = Signalled(proc, {p \in {cleaner[a].engine, cleaner[a].launcher} : Verified(p)},
                       "dying")
  /\ cleaner' = [cleaner EXCEPT ![a].at = "killed"]
  /\ UNCHANGED <<ads, shareVid, lock, launch, stopping, ended, reuses>>

CleanerEnds(a) ==
  /\ cleaner[a].at = "killed"
  /\ IF ProcessAlive(cleaner[a].engine) THEN UNCHANGED <<ads, shareVid>>
     ELSE ads' = ads \ {cleaner[a].engine} /\ shareVid' = NoAttempt
  /\ cleaner' = [cleaner EXCEPT ![a] = NoCleaner]
  /\ UNCHANGED <<proc, lock, launch, stopping, ended, reuses>>

----------------------------------------------------------------------------
(* launch *)

EndLaunch(how) ==
  /\ ended' = [ended EXCEPT ![launch.n] =
                 [how |-> how, tracked |-> launch.tracked]]
  /\ launch' = [NoLaunch EXCEPT !.n = launch.n]
  /\ stopping' = NoStop

\* PendingLaunch::drop: what is tracked goes to the cleanup thread; the child is
\* killed and reaped
DropPending(tracked) ==
  LET termed == IF tracked THEN Termed(launch.engine, launch.launcher) ELSE proc IN
  /\ IF tracked THEN CleanupScheduled(launch.engine, launch.launcher) ELSE UNCHANGED cleaner
  /\ proc' = [termed EXCEPT ![launch.launcher] = NobodyThere]

\* the AVD and its port are free of running instances
SlotTaken == \E p \in ads : ProcessAlive(p)

\* the marker of a snapshot being saved holds as long as its process lives
MarkerHolds == ProcessAlive(lock)

CheckSlot ==
  /\ launch.at = "idle" /\ launch.n < MaxAttempts
  /\ LET refused == SlotTaken \/ MarkerHolds IN
     /\ launch' = [NoLaunch EXCEPT !.n = launch.n + 1, !.at = IF refused THEN "idle" ELSE "checked"]
     /\ lock' = IF refused THEN lock ELSE NoPid
     /\ ended' = IF refused THEN [ended EXCEPT ![launch.n + 1].how = "refused"] ELSE ended
  /\ UNCHANGED <<proc, ads, shareVid, stopping, cleaner, reuses>>

\* the ports are bound to see that they are free, old shared memory is removed;
\* an advertised engine listens on them.  A required microphone may be missing
BindPorts(mic) ==
  /\ launch.at = "checked" /\ ~\E p \in ads : ProcessAlive(p) /\ proc[p].kind = "engine"
  /\ shareVid' = NoAttempt
  /\ launch' = [launch EXCEPT !.at = "bound", !.mic = mic]
  /\ UNCHANGED <<proc, ads, lock, stopping, cleaner, ended, reuses>>

FailEarly ==
  /\ launch.at \in {"checked", "bound"}
  /\ EndLaunch("failed")
  /\ UNCHANGED <<proc, ads, shareVid, lock, cleaner, reuses>>

SpawnLauncher ==
  /\ launch.at = "bound" /\ Fresh # {}
  /\ proc' = [proc EXCEPT ![NewPid] = [kind |-> "launcher", of |-> launch.n, state |-> "alive"]]
  /\ launch' = [launch EXCEPT !.at = "spawned", !.launcher = NewPid]
  /\ UNCHANGED <<ads, shareVid, lock, stopping, cleaner, ended, reuses>>

\* the poll finds the AVD's advertisement at the port, of a process of the SDK
EngineFound(p) ==
  /\ launch.at = "spawned" /\ p \in ads /\ Verified(p)
  /\ launch' = [launch EXCEPT !.at = "verify", !.engine = p, !.tracked = proc[p].of]
  /\ UNCHANGED <<proc, ads, shareVid, lock, stopping, cleaner, ended, reuses>>

\* 30 s without an advertisement, a launcher that exited, a log that cannot be
\* captured, or the future dropped in the poll
PollFails ==
  /\ launch.at = "spawned"
  /\ DropPending(FALSE)
  /\ EndLaunch("failed")
  /\ UNCHANGED <<ads, shareVid, lock, reuses>>

CheckPasses ==
  /\ launch.at = "verify"
  /\ launch' = IF launch.check = Len(Checks)
               THEN [launch EXCEPT !.at = "boot"]
               ELSE [launch EXCEPT !.check = IF Checks[@ + 1] = "mic" /\ ~launch.mic
                                             THEN @ + 2 ELSE @ + 1]
  /\ proc' = IF launch.check = Len(Checks) /\ proc[launch.launcher].state = "zombie"
             THEN [proc EXCEPT ![launch.launcher] = NobodyThere] ELSE proc
  /\ UNCHANGED <<ads, shareVid, lock, stopping, cleaner, ended, reuses>>

StopBegins(at) ==
  /\ launch' = [launch EXCEPT !.at = at]
  /\ stopping' = [at |-> "begin", pid |-> launch.engine, failed |-> FALSE]
  /\ UNCHANGED <<proc, ads, shareVid, lock, cleaner, ended, reuses>>

CheckFails == launch.at = "verify" /\ StopBegins("abort")

\* An abort that forgets the engine before it has stopped it.
DropVerifyingForgets ==
  /\ launch.at \in {"verify", "abort"}
  /\ DropPending(launch.at = "verify")
  /\ EndLaunch("failed")
  /\ UNCHANGED <<ads, shareVid, lock, reuses>>

\* the future is dropped while it verifies or aborts
DropVerifying ==
  /\ launch.at \in {"verify", "abort"}
  /\ DropPending(TRUE)
  /\ EndLaunch("failed")
  /\ UNCHANGED <<ads, shareVid, lock, reuses>>

----------------------------------------------------------------------------
(* launch_and_boot, the commit and stop_managed *)

BootFails == launch.at = "boot" /\ StopBegins("unboot")

\* Drop of a LaunchedInstance that was not committed
DropLaunched ==
  /\ CleanupScheduled(launch.engine, launch.launcher)
  /\ proc' = Termed(launch.engine, launch.launcher)
  /\ EndLaunch("failed")
  /\ UNCHANGED <<ads, shareVid, lock, reuses>>

DropBooting == launch.at \in {"boot", "unboot"} /\ DropLaunched

CommitLaunch ==
  /\ launch.at = "boot"
  /\ launch' = [launch EXCEPT !.at = "running"]
  /\ UNCHANGED <<proc, ads, shareVid, lock, stopping, cleaner, ended, reuses>>

CloseSession == launch.at = "running" /\ StopBegins("closing")

----------------------------------------------------------------------------
(* stop_process_with_timeouts: TERM, wait, KILL, wait *)

\* cleanup_stopped_process: the engine's files go, the launcher has none
Stopped ==
  IF stopping.pid = launch.engine THEN ads' = ads \ {stopping.pid} /\ shareVid' = NoAttempt
  ELSE UNCHANGED <<ads, shareVid>>

\* stop_managed goes on to the launcher whether or not the engine stopped
AfterStop(failed) ==
  LET both == launch.at \in {"unboot", "closing"} IN
  stopping' = IF both /\ stopping.pid = launch.engine /\ launch.launcher # launch.engine
          THEN [at |-> "begin", pid |-> launch.launcher, failed |-> failed]
          ELSE [stopping EXCEPT !.at = "ended", !.failed = failed \/ stopping.failed]

StopFirst ==
  /\ stopping.at = "begin"
  /\ IF ~ProcessAlive(stopping.pid) THEN AfterStop(FALSE) /\ Stopped /\ UNCHANGED proc
     ELSE IF ~Verified(stopping.pid) THEN AfterStop(TRUE) /\ UNCHANGED <<proc, ads, shareVid>>
     ELSE /\ proc' = Signalled(proc, {stopping.pid}, "termed")
          /\ stopping' = [stopping EXCEPT !.at = "termed"]
          /\ UNCHANGED <<ads, shareVid>>
  /\ UNCHANGED <<lock, launch, cleaner, ended, reuses>>

StopSeesDeath ==
  /\ stopping.at \in {"termed", "killed"} /\ ~ProcessAlive(stopping.pid)
  /\ AfterStop(FALSE) /\ Stopped
  /\ UNCHANGED <<proc, lock, launch, cleaner, ended, reuses>>

\* the identity is not verified again
StopKills ==
  /\ stopping.at = "termed"
  /\ proc' = Signalled(proc, {stopping.pid}, "dying")
  /\ stopping' = [stopping EXCEPT !.at = "killed"]
  /\ UNCHANGED <<ads, shareVid, lock, launch, cleaner, ended, reuses>>

StopGivesUp ==
  /\ stopping.at = "killed" /\ ProcessAlive(stopping.pid)
  /\ AfterStop(TRUE)
  /\ UNCHANGED <<proc, ads, shareVid, lock, launch, cleaner, ended, reuses>>

\* the aborted launch reports; what it could not stop goes to the cleanup thread
AbortEnds ==
  /\ launch.at = "abort" /\ stopping.at = "ended"
  /\ DropPending(stopping.failed)
  /\ EndLaunch("failed")
  /\ UNCHANGED <<ads, shareVid, lock, reuses>>

UnbootEnds == launch.at = "unboot" /\ stopping.at = "ended" /\ DropLaunched

\* a session that could not be stopped stays
CloseEnds ==
  /\ launch.at = "closing" /\ stopping.at = "ended"
  /\ IF stopping.failed THEN /\ launch' = [launch EXCEPT !.at = "running"]
                         /\ stopping' = NoStop /\ UNCHANGED ended
                    ELSE EndLaunch("stopped")
  /\ UNCHANGED <<proc, ads, shareVid, lock, cleaner, reuses>>

----------------------------------------------------------------------------

LaunchStep ==
  \/ CheckSlot \/ FailEarly \/ SpawnLauncher \/ PollFails \/ CheckPasses \/ CheckFails \/ DropVerifying
  \/ BootFails \/ DropBooting \/ CommitLaunch \/ CloseSession
  \/ StopFirst \/ StopSeesDeath \/ StopKills \/ StopGivesUp
  \/ AbortEnds \/ UnbootEnds \/ CloseEnds
  \/ \E mic \in BOOLEAN : BindPorts(mic)
  \/ \E p \in Pids : EngineFound(p)

EngineNext ==
  \/ LaunchStep
  \/ \E a \in Attempts : CleanerKills(a) \/ CleanerEnds(a)
  \/ \E p \in Pids : LauncherForks(p) \/ EngineAdvertises(p) \/ PidIsReused(p)
  \/ \E p \in Pids, saving \in BOOLEAN : ProcessEnds(p, saving)

EngineSpec == EngineInit /\ [][EngineNext]_launchVars

----------------------------------------------------------------------------

EngineLives(a) ==
  \E p \in Pids : proc[p].kind = "engine" /\ proc[p].of = a
                 /\ proc[p].state \in {"alive", "termed"}

\* An engine that a launch had found never outlives it: once the launch has
\* failed, aborted, been dropped or not booted, and its cleanup thread is done,
\* the engine is dead or killed, whichever of them was interrupted.
TrackedEnginesEnd ==
  \A a \in Attempts :
    ended[a].how \in {"failed", "stopped"} /\ cleaner[a].at = "none"
      => ~EngineLives(ended[a].tracked)

\* docs/ARCHITECTURE.md:176 says that a pending launch owns the launcher child
\* and that cancelling or failing cleans up engine and launcher: then no engine
\* of a failed launch is left once its cleanup is done.
FailedLaunchLeavesNoEngine ==
  \A a \in Attempts :
    ended[a].how = "failed" /\ cleaner[a].at = "none" => ~EngineLives(a)

=============================================================================
