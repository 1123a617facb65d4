------------------------------ MODULE MCProgress ------------------------------
(* The components with a promise of progress, side by side: a behaviour is   *)
(* one of a single component, chosen at the start, and the others stay in    *)
(* their initial states.  The components share no variables.                 *)
EXTENDS BackgroundStarts, FrameCapture, AdvertisementMonitor, ProcessLog

VARIABLE component

MCDemands == {[memory_mb |-> 1, gpu_slots |-> 0]}

progressVars == <<component, poolVars, captureVars, monitorVars, logVars>>

ProgressInit ==
  /\ component \in {"scheduler", "runtime", "capture", "monitor", "log"}
  /\ PoolInit /\ CaptureInit /\ MonitorInit /\ LogInit
  \* one initial state is enough for the others
  /\ component # "monitor" => target.dir = Absent

\* a scheduler of its own, without the tasks of the user interface
SchedulerMoves == component = "scheduler" /\ Next /\ UNCHANGED taskVars
RuntimeMoves == component = "runtime" /\ PoolNext

ProgressNext ==
  /\ UNCHANGED component
  /\ \/ /\ SchedulerMoves \/ RuntimeMoves
        /\ UNCHANGED <<captureVars, monitorVars, logVars>>
     \/ /\ component = "capture" /\ CaptureNext
        /\ UNCHANGED <<poolVars, monitorVars, logVars>>
     \/ /\ component = "monitor" /\ MonitorNext
        /\ UNCHANGED <<poolVars, captureVars, logVars>>
     \/ /\ component = "log" /\ LogNext
        /\ UNCHANGED <<poolVars, captureVars, monitorVars>>

\* Each component's own fairness: WaiterFairness and LaunchFairness of a
\* scheduler of its own (on the runtime the tasks' fairness takes their place),
\* PoolFairness, and that of CaptureSpec and LogSpec.
Fairly(action) == component = "scheduler" /\ action
ProgressFairness ==
  /\ \A i \in Ids :
       /\ WF_vars(Fairly(\/ BeginWait(i) \/ DropTicket(i) \/ TryAcquire(i)
                         \/ WaitCheck(i) \/ OnStatus(i)))
       /\ WF_vars(Fairly(IntoReservation(i) \/ DropPermit(i)))
  /\ PoolFairness
  /\ WF_captureVars(CaptureStep) /\ WF_logVars(LogStep)

ProgressSpec == ProgressInit /\ [][ProgressNext]_progressVars /\ ProgressFairness

\* Every component's own types (and one thread per polled task of the runtime).
ProgressTypeOK == PoolTypeOK /\ CaptureTypeOK /\ MonitorTypeOK /\ LogTypeOK
=============================================================================
