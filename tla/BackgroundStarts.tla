--------------------------- MODULE BackgroundStarts ---------------------------
(***************************************************************************)
(* start_device and stop_device (src/src/ui/device_list.rs) as tasks of the *)
(* Tokio runtime every UI action is spawned on (src/src/ui/background.rs).  *)
(*                                                                          *)
(* A task needs one of PoolThreads worker threads to run and gives it up    *)
(* at an await.  Waiting for a launch permit is not an await:               *)
(* wait_with_status blocks in a condition variable, so a start that waits   *)
(* in the scheduler's queue keeps its thread.  The scheduler is the module  *)
(* LaunchScheduler, used through the actions of its handles.                *)
(*                                                                          *)
(* Each AVD's start and stop buttons are pressed at most once, there are no *)
(* external instances, and every demand fits, so enqueue is never refused.  *)
(* The engine start and the boot wait are one await, the engine stop        *)
(* another; the registry and the ports are not modelled here.               *)
(***************************************************************************)
EXTENDS LaunchScheduler

CONSTANT PoolThreads  \* worker_threads of the Tokio runtime

ASSUME PoolAssumption == PoolThreads \in Nat \ {0}

VARIABLES
  start,    \* the start_device task of each AVD
  request,  \* the request id its ticket, permit or reservation carries
  stop      \* the stop_device task of each AVD

taskVars == <<start, request, stop>>
poolVars == <<vars, taskVars>>

(***************************************************************************)
(* idle: not clicked.  spawned: ready for its first poll.  running: on a    *)
(* thread, before its await.  awaiting: off the threads.  woken: the await  *)
(* is over, ready to be polled.  resumed: on a thread again.  done.         *)
(***************************************************************************)
TaskStates == {"idle", "spawned", "running", "awaiting", "woken", "resumed", "done"}
OnThread == {"running", "resumed"}

Busy == Cardinality({k \in Keys : start[k] \in OnThread})
      + Cardinality({k \in Keys : stop[k] \in OnThread})

Owner(k) == IF request[k] = 0 THEN "unborn" ELSE owner[request[k]]

StartMoves(k, from, to) == start[k] = from /\ start' = [start EXCEPT ![k] = to]
StopMoves(k, from, to) == stop[k] = from /\ stop' = [stop EXCEPT ![k] = to]

PoolInit ==
  /\ Init
  /\ start = [k \in Keys |-> "idle"]
  /\ request = [k \in Keys |-> 0]
  /\ stop = [k \in Keys |-> "idle"]

-----------------------------------------------------------------------------
(* The runtime: a free thread polls a task that is ready.                   *)
PollStartAnyway(k) ==
  /\ StartMoves(k, "spawned", "running") \/ StartMoves(k, "woken", "resumed")
  /\ UNCHANGED <<vars, request, stop>>
PollStart(k) ==
  /\ Busy < PoolThreads
  /\ StartMoves(k, "spawned", "running") \/ StartMoves(k, "woken", "resumed")
  /\ UNCHANGED <<vars, request, stop>>

PollStop(k) ==
  /\ Busy < PoolThreads
  /\ StopMoves(k, "spawned", "running") \/ StopMoves(k, "woken", "resumed")
  /\ UNCHANGED <<vars, request, start>>

-----------------------------------------------------------------------------
(* start_device.                                                            *)

ClickStart(k) ==
  /\ StartMoves(k, "idle", "spawned")
  /\ UNCHANGED <<vars, request, stop>>

ScheduleStart(k, d) ==
  /\ start[k] = "running" /\ request[k] = 0
  /\ Enqueue(k, d)
  /\ request' = [request EXCEPT ![k] = next_id + 1]
  /\ UNCHANGED <<start, stop>>

(* wait_with_status, on the task's thread.                                  *)
WaitTurn(k) ==
  /\ start[k] = "running" /\ request[k] # 0
  /\ BeginWait(request[k]) \/ WaitCheck(request[k]) \/ OnStatus(request[k])
  /\ UNCHANGED taskVars

Canceled(k) ==
  /\ Owner(k) = "gone"
  /\ StartMoves(k, "running", "done")
  /\ UNCHANGED <<vars, request, stop>>

(* launch(..).await and wait_for_boot(..).await.                            *)
AwaitBoot(k) ==
  /\ Owner(k) = "permit"
  /\ StartMoves(k, "running", "awaiting")
  /\ UNCHANGED <<vars, request, stop>>

(* Booted, failed or timed out.                                             *)
BootAwaited(k) ==
  /\ StartMoves(k, "awaiting", "woken")
  /\ UNCHANGED <<vars, request, stop>>

CompleteStart(k) ==
  /\ StartMoves(k, "resumed", "done")
  /\ IntoReservation(request[k]) \/ DropPermit(request[k])
  /\ UNCHANGED <<request, stop>>

StartStep(k) ==
  \/ \E d \in Demands : ScheduleStart(k, d)
  \/ WaitTurn(k) \/ Canceled(k) \/ AwaitBoot(k) \/ CompleteStart(k)

-----------------------------------------------------------------------------
(* stop_device.  The button is sensitive while the start is queued and when *)
(* the device has a session.                                                *)

ClickStop(k) ==
  /\ Owner(k) \in {"held", "waiting", "reporting", "session"}
  /\ StopMoves(k, "idle", "spawned")
  /\ UNCHANGED <<vars, request, start>>

(* cancel_queued_start succeeds.                                            *)
CancelStart(k) ==
  /\ StopMoves(k, "running", "done")
  /\ Cancel(k)
  /\ UNCHANGED <<request, start>>

(* begin_stop: the device has a session, the engine is asked to exit.       *)
AwaitExit(k) ==
  /\ k \notin QueueKeys /\ Owner(k) = "session"
  /\ StopMoves(k, "running", "awaiting")
  /\ UNCHANGED <<vars, request, start>>

(* begin_stop finds no session: the start got its permit or is over.        *)
NothingToStop(k) ==
  /\ k \notin QueueKeys /\ Owner(k) # "session"
  /\ StopMoves(k, "running", "done")
  /\ UNCHANGED <<vars, request, start>>

ExitAwaited(k) ==
  /\ StopMoves(k, "awaiting", "woken")
  /\ UNCHANGED <<vars, request, start>>

(* complete_stop drops the session; fail_stop keeps it.                     *)
CompleteStop(k) ==
  /\ StopMoves(k, "resumed", "done")
  /\ DropReservation(request[k]) \/ UNCHANGED vars
  /\ UNCHANGED <<request, start>>

StopStep(k) ==
  CancelStart(k) \/ AwaitExit(k) \/ NothingToStop(k) \/ CompleteStop(k)

-----------------------------------------------------------------------------
PoolNext ==
  \/ \E k \in Keys :
       \/ ClickStart(k) \/ PollStart(k) \/ StartStep(k) \/ BootAwaited(k)
       \/ ClickStop(k) \/ PollStop(k) \/ StopStep(k) \/ ExitAwaited(k)
  \/ \E i \in Ids : SpuriousWake(i) /\ UNCHANGED taskVars

(* The runtime polls every ready task when a thread is free, a task on a    *)
(* thread that is not parked runs on, and the awaited I/O has time limits.  *)
PoolFairness ==
  \A k \in Keys :
    /\ SF_poolVars(PollStart(k)) /\ SF_poolVars(PollStop(k))
    /\ WF_poolVars(StartStep(k)) /\ WF_poolVars(StopStep(k))
    /\ WF_poolVars(BootAwaited(k)) /\ WF_poolVars(ExitAwaited(k))

PoolSpec == PoolInit /\ [][PoolNext]_poolVars /\ PoolFairness

-----------------------------------------------------------------------------
(* The types, and the one thread per polled task.                           *)
PoolTypeOK ==
  /\ TypeOK
  /\ start \in [Keys -> TaskStates]
  /\ stop \in [Keys -> TaskStates]
  /\ request \in [Keys -> 0..MaxRequests]
  /\ Busy <= PoolThreads

(* A start that was pressed comes to an end (running, failed or cancelled)  *)
(* without anybody pressing anything else, and so does a stop or a cancel.  *)
TasksFinish ==
  \A k \in Keys : /\ start[k] = "spawned" ~> start[k] = "done"
                  /\ stop[k] = "spawned" ~> stop[k] = "done"

(* An engine that finished booting is committed (or cleaned up): its task   *)
(* gets a thread again, as it does when waiters have workers of their own.  *)
BootedStartsFinish == \A k \in Keys : start[k] = "woken" ~> start[k] = "done"
=============================================================================
