------------------------ MODULE AdvertisementMonitor ------------------------
(***************************************************************************)
(* The thread that watches the emulator's advertisement directory          *)
(* (core/advertisement.rs).  File events are hints: they leave one signal, *)
(* and the thread answers a signal with a full scan after binding its      *)
(* watch to the deepest directory that exists.                             *)
(*                                                                         *)
(* The directory has incarnations, because it may be removed and made      *)
(* again; above it there is one parent that always exists.  A watch on the *)
(* parent reports the directory itself and nothing inside it.              *)
(***************************************************************************)
EXTENDS Integers

CONSTANT MaxFileChanges  \* bound: changes of the directory and its files

ASSUME MonitorBounds == MaxFileChanges \in Nat

Absent == 0    \* no directory; as a watch, the parent

VARIABLES
  target,   \* the directory's incarnation, the latest one, changes so far
  watch,    \* where the inotify watch is; removed incarnations report nothing
  signal,   \* whether the channel of capacity one is full
  monitor,  \* where the thread is, and the directory it found
  closing,  \* the stop flag
  reported  \* history: an event was reported and no scan has begun since

monitorVars == <<target, watch, signal, monitor, closing, reported>>

MonitorTypeOK ==
  /\ target \in [dir : 0 .. MaxFileChanges, made : 0 .. MaxFileChanges,
                 changes : 0 .. MaxFileChanges]
  /\ watch \in -1 .. MaxFileChanges
  /\ signal \in BOOLEAN /\ closing \in BOOLEAN /\ reported \in BOOLEAN
  /\ monitor \in [at : {"probe", "bind", "scan", "receive", "settle", "ended"},
                  found : 0 .. MaxFileChanges]

MonitorInit ==
  /\ \E dir \in {Absent, 1} \cap 0 .. MaxFileChanges :
       target = [dir |-> dir, made |-> dir, changes |-> 0]
  /\ watch = -1                              \* none yet
  /\ signal = FALSE
  /\ monitor = [at |-> "probe", found |-> Absent]
  /\ closing = FALSE /\ reported = FALSE

----------------------------------------------------------------------------
(* The file system and the watcher's callback *)

Report(visible) ==
  /\ signal' = (signal \/ visible)
  /\ reported' = (reported \/ visible)

FileSystem(changed, visible) ==
  /\ target.changes < MaxFileChanges
  /\ target' = [changed EXCEPT !.changes = @ + 1]
  /\ Report(visible)
  /\ UNCHANGED <<watch, monitor, closing>>

MakeDirectory ==
  /\ target.dir = Absent /\ target.made < MaxFileChanges
  /\ FileSystem([target EXCEPT !.dir = target.made + 1, !.made = @ + 1], watch = Absent)

RemoveDirectory ==
  /\ target.dir # Absent
  /\ FileSystem([target EXCEPT !.dir = Absent], watch \in {Absent, target.dir})

\* An advertisement is written, renamed or removed.
ChangeFile == target.dir # Absent /\ FileSystem(target, watch = target.dir)

\* An inotify overflow is reported like a change.
WatcherError == watch # -1 /\ ~closing /\ Report(TRUE)
                /\ UNCHANGED <<target, watch, monitor, closing>>

----------------------------------------------------------------------------
(* The thread *)

Thread(from, to) == monitor.at = from /\ monitor' = [monitor EXCEPT !.at = to]

\* deepest_existing_directory
Probe ==
  /\ monitor.at = "probe"
  /\ monitor' = [at |-> "bind", found |-> target.dir]
  /\ UNCHANGED <<target, watch, signal, closing, reported>>

\* bind_deepest_existing: nothing to do when the path found is the path watched;
\* a watch that fails on a directory gone meanwhile leaves the old one, or ends
\* a thread that has none.
SamePath == (watch = Absent) = (monitor.found = Absent) /\ watch # -1
BindWatch ==
  /\ monitor.at = "bind"
  /\ watch' = IF SamePath THEN watch
              ELSE IF monitor.found = Absent THEN Absent
              ELSE IF target.dir # Absent THEN target.dir ELSE watch
  /\ monitor' = [monitor EXCEPT !.at = IF watch' = -1 THEN "ended" ELSE "scan"]
  /\ UNCHANGED <<target, signal, closing, reported>>

\* A thread that drains the channel once its scan is done.
ScanThenDrains ==
  /\ Thread("scan", "receive") /\ reported' = FALSE /\ signal' = FALSE
  /\ UNCHANGED <<target, watch, closing>>

\* on_rescan reads the directory.
ScanDirectory ==
  /\ Thread("scan", "receive") /\ reported' = FALSE
  /\ UNCHANGED <<target, watch, signal, closing>>

\* recv and the first drain: one signal or many are the same.
ReceiveSignal ==
  /\ monitor.at = "receive" /\ signal /\ signal' = FALSE
  /\ monitor' = [monitor EXCEPT !.at = IF closing THEN "ended" ELSE "settle"]
  /\ UNCHANGED <<target, watch, closing, reported>>

\* 50 ms later the channel is drained again.
DrainSignals ==
  /\ monitor.at = "settle" /\ signal' = FALSE
  /\ monitor' = [monitor EXCEPT !.at = IF closing THEN "ended" ELSE "probe"]
  /\ UNCHANGED <<target, watch, closing, reported>>

\* request_rescan
RequestRescan == ~closing /\ watch # -1 /\ Report(TRUE)
                 /\ UNCHANGED <<target, watch, monitor, closing>>

\* The handle is dropped: the flag, then a signal if there is room.
SetStop ==
  /\ ~closing /\ watch # -1
  /\ closing' = TRUE /\ signal' = TRUE
  /\ UNCHANGED <<target, watch, monitor, reported>>

MonitorNext ==
  \/ MakeDirectory \/ RemoveDirectory \/ ChangeFile \/ WatcherError
  \/ Probe \/ BindWatch \/ ScanDirectory \/ ReceiveSignal \/ DrainSignals
  \/ RequestRescan \/ SetStop

MonitorSpec == MonitorInit /\ [][MonitorNext]_monitorVars

----------------------------------------------------------------------------
(* Properties *)

\* The thread never sleeps on an event that was reported after its last scan
\* began, nor on a stop: coalescing signals loses no scan and blocks no join.
NoReportIsForgotten == reported \/ closing => signal \/ monitor.at # "receive"
=============================================================================
