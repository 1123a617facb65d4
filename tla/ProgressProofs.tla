---------------------------- MODULE ProgressProofs ----------------------------
(***************************************************************************)
(* Theorems about the components that MCProgress puts side by side: the    *)
(* advertisement monitor, the logs of the engines, the capture of frames   *)
(* and the runtime on which starts wait, which is shown to use the         *)
(* scheduler as its clients may.  Their promises of progress are checked   *)
(* by TLC; what is proved here is what must always hold of them.           *)
(***************************************************************************)
EXTENDS MCProgress, LaunchSchedulerProofs, SequenceTheorems

-----------------------------------------------------------------------------
(* The advertisement monitor: NoReportIsForgotten for any number of        *)
(* changes.  It is not inductive: a stop may arrive while the thread       *)
(* scans, so its signal must be kept wherever the thread is.               *)

\* A stop has its signal until the thread ends.
StopIsSignalled == closing => signal \/ monitor.at = "ended"

\* A report has its signal until the thread is on its way to a scan.
ReportIsSignalled == reported => signal \/ monitor.at # "receive"

Targets ==
  [dir : 0 .. MaxFileChanges, made : 0 .. MaxFileChanges, changes : 0 .. MaxFileChanges]

MonitorInv == MonitorTypeOK /\ StopIsSignalled /\ ReportIsSignalled

----------------------------------------------------------------------------

LEMMA MonitorInitInv == MonitorInit => MonitorInv
<1> SUFFICES ASSUME MonitorInit PROVE MonitorInv
  OBVIOUS
<1>1. PICK dir \in {Absent, 1} \cap 0 .. MaxFileChanges :
        target = [dir |-> dir, made |-> dir, changes |-> 0]
  BY DEF MonitorInit
<1>2. target \in Targets
  BY <1>1, MonitorBounds DEF Targets
<1>3. MonitorTypeOK
  <2>1. /\ watch = -1 /\ monitor = [at |-> "probe", found |-> 0]
        /\ signal = FALSE /\ closing = FALSE /\ reported = FALSE
    BY DEF MonitorInit, Absent
  <2>2. -1 \in -1 .. MaxFileChanges /\ 0 \in 0 .. MaxFileChanges
    BY MonitorBounds
  <2> QED
    BY <1>2, <2>1, <2>2 DEF MonitorTypeOK, Targets
<1> QED
  BY <1>3 DEF MonitorInit, MonitorInv, StopIsSignalled, ReportIsSignalled

\* Whatever happens in the file system leaves the thread where it is.
LEMMA FileSystemKeeps ==
  ASSUME MonitorInv, MakeDirectory \/ RemoveDirectory \/ ChangeFile
  PROVE  MonitorInv'
<1> USE DEF MonitorInv, MonitorTypeOK
<1>1. PICK visible \in BOOLEAN :
        signal' = (signal \/ visible) /\ reported' = (reported \/ visible)
  <2>1. CASE MakeDirectory
    BY <2>1 DEF MakeDirectory, FileSystem, Report
  <2>2. CASE RemoveDirectory
    BY <2>2 DEF RemoveDirectory, FileSystem, Report
  <2>3. CASE ChangeFile
    BY <2>3 DEF ChangeFile, FileSystem, Report
  <2> QED
    BY <2>1, <2>2, <2>3
<1>2. UNCHANGED <<watch, monitor, closing>>
  BY DEF MakeDirectory, RemoveDirectory, ChangeFile, FileSystem
<1>3. target' \in Targets
  <2>1. target \in Targets /\ Absent \in 0 .. MaxFileChanges
    BY MonitorBounds DEF Targets, Absent
  <2>2. CASE MakeDirectory
    <3>1. /\ target' = [dir |-> target.made + 1, made |-> target.made + 1,
                        changes |-> target.changes + 1]
          /\ target.made < MaxFileChanges /\ target.changes < MaxFileChanges
      BY <2>1, <2>2 DEF MakeDirectory, FileSystem, Targets
    <3> QED
      BY <2>1, <3>1, MonitorBounds DEF Targets
  <2>3. CASE RemoveDirectory
    <3>1. /\ target' = [dir |-> Absent, made |-> target.made, changes |-> target.changes + 1]
          /\ target.changes < MaxFileChanges
      BY <2>1, <2>3 DEF RemoveDirectory, FileSystem, Targets
    <3> QED
      BY <2>1, <3>1, MonitorBounds DEF Targets
  <2>4. CASE ChangeFile
    <3>1. /\ target' = [target EXCEPT !.changes = @ + 1]
          /\ target.changes < MaxFileChanges
      BY <2>4 DEF ChangeFile, FileSystem
    <3> QED
      BY <2>1, <3>1, MonitorBounds DEF Targets
  <2> QED
    BY <2>2, <2>3, <2>4
<1>4. MonitorTypeOK'
  BY <1>1, <1>2, <1>3 DEF Targets
<1>5. StopIsSignalled' /\ ReportIsSignalled'
  BY <1>1, <1>2 DEF StopIsSignalled, ReportIsSignalled
<1> QED
  BY <1>4, <1>5

\* A request, an error of the watcher or a stop leaves a signal.
LEMMA SignalKeeps ==
  ASSUME MonitorInv, WatcherError \/ RequestRescan \/ SetStop
  PROVE  MonitorInv'
<1>1. UNCHANGED <<target, watch, monitor>> /\ signal' = TRUE
  BY DEF WatcherError, RequestRescan, SetStop, Report, MonitorInv, MonitorTypeOK
<1>2. closing' \in BOOLEAN /\ reported' \in BOOLEAN
  BY DEF WatcherError, RequestRescan, SetStop, Report, MonitorInv, MonitorTypeOK
<1> QED
  BY <1>1, <1>2 DEF MonitorInv, MonitorTypeOK, StopIsSignalled, ReportIsSignalled

\* The thread takes a signal only on its way to a scan or to its end.
LEMMA ThreadKeeps ==
  ASSUME MonitorInv, Probe \/ BindWatch \/ ScanDirectory \/ ReceiveSignal \/ DrainSignals
  PROVE  MonitorInv'
<1> USE DEF MonitorInv, MonitorTypeOK, StopIsSignalled, ReportIsSignalled
<1>1. CASE Probe
  BY <1>1 DEF Probe
<1>2. CASE BindWatch
  <2>1. watch' \in -1 .. MaxFileChanges
    BY <1>2, MonitorBounds DEF BindWatch, Absent
  <2>2. PICK at \in {"ended", "scan"} : monitor' = [monitor EXCEPT !.at = at]
    BY <1>2 DEF BindWatch
  <2>3. UNCHANGED <<target, signal, closing, reported>> /\ monitor.at = "bind"
    BY <1>2 DEF BindWatch
  <2> QED
    BY <2>1, <2>2, <2>3
<1>3. CASE ScanDirectory
  BY <1>3 DEF ScanDirectory, Thread
<1>4. CASE ReceiveSignal
  BY <1>4 DEF ReceiveSignal
<1>5. CASE DrainSignals
  BY <1>5 DEF DrainSignals
<1> QED
  BY <1>1, <1>2, <1>3, <1>4, <1>5

LEMMA MonitorStepInv == MonitorInv /\ [MonitorNext]_monitorVars => MonitorInv'
<1> SUFFICES ASSUME MonitorInv, [MonitorNext]_monitorVars PROVE MonitorInv'
  OBVIOUS
<1>1. CASE UNCHANGED monitorVars
  BY <1>1 DEF monitorVars, MonitorInv, MonitorTypeOK, StopIsSignalled, ReportIsSignalled
<1> QED
  BY <1>1, FileSystemKeeps, SignalKeeps, ThreadKeeps DEF MonitorNext

----------------------------------------------------------------------------

\* The thread never sleeps on an event reported after its last scan began, nor
\* on a stop, for any number of changes (core/advertisement.rs).
THEOREM NoReportIsForgottenCorrect == MonitorSpec => []NoReportIsForgotten
<1>1. MonitorInv => NoReportIsForgotten
  BY DEF MonitorInv, StopIsSignalled, ReportIsSignalled, NoReportIsForgotten
<1>2. MonitorSpec => []MonitorInv
  BY MonitorInitInv, MonitorStepInv, PTL DEF MonitorSpec
<1> QED
  BY <1>1, <1>2, PTL

-----------------------------------------------------------------------------
(* The logs of the engines: NothingIsShownTwice.  A chunk passes its pipe,  *)
(* its thread, the channel, the writer, the current file and the older      *)
(* one, and is at one of these stations only.  What a reading has when it   *)
(* turns to the current file comes from the last station, also when the     *)
(* file it was read from has been replaced meanwhile.                       *)

Pieces == [n : Nat, size : Nat]
LogEntries == [n : Nat, end : Nat]
Numbers(s) == {s[i].n : i \in 1 .. Len(s)}
Distinct(s) == \A i, j \in 1 .. Len(s) : i # j => s[i].n # s[j].n

LogTypes ==
  /\ pipe \in [Pipes -> Seq(Pieces)] /\ held \in [Pipes -> Seq(Pieces)]
  /\ channel \in Seq(Pieces)
  /\ writer \in [at : {"receive", "remove", "rename", "create", "append", "closed"},
                 chunk : Seq(Pieces)]
  /\ logFile \in Seq(LogEntries) /\ oldFile \in Seq(LogEntries) /\ written \in Nat
  /\ reading \in [at : {"none", "current", "shown"}, text : Seq(LogEntries)]

\* What a reading that goes on to the current file has or may get of the older one.
Older == Numbers(PreviousText) \cup (IF reading.at = "current" THEN Numbers(reading.text) ELSE {})

\* The stations a chunk passes, in the order in which it passes them, have no
\* chunk in common, and every chunk there was written.
Coming(p) == Numbers(pipe[p]) \cup Numbers(held[p])
Logged == Numbers(writer.chunk) \cup Numbers(Current) \cup Older
StationsApart ==
  /\ \A p \in Pipes : /\ Numbers(pipe[p]) \cap Numbers(held[p]) = {}
                      /\ Coming(p) \cap (Numbers(channel) \cup Logged) = {}
                      /\ Coming(p) \subseteq 1 .. written
  /\ \A p, q \in Pipes : p # q => Coming(p) \cap Coming(q) = {}
  /\ Numbers(channel) \cap Logged = {}
  /\ Numbers(writer.chunk) \cap (Numbers(Current) \cup Older) = {}
  /\ Numbers(Current) \cap Older = {}
  /\ Numbers(channel) \cup Logged \subseteq 1 .. written

EachDistinct ==
  /\ \A p \in Pipes : Distinct(pipe[p]) /\ Len(held[p]) =< 1
  /\ Distinct(channel) /\ Distinct(Current) /\ Distinct(PreviousText) /\ Distinct(reading.text)

\* The chunk in hand fits into the file it is to be appended to.
ChunkFits ==
  /\ FileSize(Current) =< LogFileLimit /\ FileSize(oldFile) =< LogFileLimit
  /\ writer.at \in {"receive", "closed"} => writer.chunk = <<>>
  /\ writer.at \in {"remove", "rename", "create", "append"} =>
       Len(writer.chunk) = 1 /\ writer.chunk[1].size < LogFileLimit
  /\ writer.at = "create" => logFile = Missing
  /\ writer.at = "append" => Entry(Head(writer.chunk)).end =< LogFileLimit

LogInv == LogTypes /\ StationsApart /\ EachDistinct /\ ChunkFits

-----------------------------------------------------------------------------
(* The numbers of a sequence.                                               *)

LEMMA NumbersFew ==
  /\ Numbers(<<>>) = {} /\ Distinct(<<>>)
  /\ \A x : Numbers(<<x>>) = {x.n} /\ Distinct(<<x>>)
<1>1. Len(<<>>) = 0 /\ \A x : Len(<<x>>) = 1 /\ <<x>>[1] = x
  OBVIOUS
<1> QED
  BY <1>1 DEF Numbers, Distinct

LEMMA NumbersTail ==
  ASSUME NEW R, NEW s \in Seq(R), s # <<>>
  PROVE  /\ Head(s) \in R /\ Tail(s) \in Seq(R)
         /\ Numbers(s) = {Head(s).n} \cup Numbers(Tail(s))
         /\ Distinct(s) => Distinct(Tail(s)) /\ Head(s).n \notin Numbers(Tail(s))
<1>1. /\ Head(s) = s[1] /\ Tail(s) \in Seq(R) /\ Len(s) \in Nat \ {0} /\ Len(Tail(s)) = Len(s) - 1
      /\ \A i \in 1 .. Len(s) - 1 : Tail(s)[i] = s[i + 1]
  OBVIOUS
<1>2. Head(s) \in R
  OBVIOUS
<1>3. ASSUME NEW i \in 1 .. Len(s)
      PROVE  s[i].n \in {Head(s).n} \cup Numbers(Tail(s))
  <2>1. CASE i = 1
    BY <1>1, <2>1
  <2>2. CASE i # 1
    <3>1. i - 1 \in 1 .. Len(Tail(s)) /\ Tail(s)[i - 1] = s[i]
      BY <1>1, <2>2
    <3> QED
      BY <3>1 DEF Numbers
  <2> QED
    BY <2>1, <2>2
<1>4. ASSUME NEW i \in 1 .. Len(Tail(s))
      PROVE  i + 1 \in 1 .. Len(s) /\ Tail(s)[i] = s[i + 1]
  BY <1>1
<1>5. Numbers(s) = {Head(s).n} \cup Numbers(Tail(s))
  <2>1. 1 \in 1 .. Len(s)
    BY <1>1
  <2> QED
    BY <1>1, <1>3, <1>4, <2>1 DEF Numbers
<1>6. ASSUME Distinct(s)
      PROVE  Distinct(Tail(s)) /\ Head(s).n \notin Numbers(Tail(s))
  <2>1. ASSUME NEW i \in 1 .. Len(Tail(s)), NEW j \in 1 .. Len(Tail(s)), i # j
        PROVE  Tail(s)[i].n # Tail(s)[j].n
    <3>1. i + 1 # j + 1
      BY <2>1, <1>1
    <3> QED
      BY <3>1, <1>4, <1>6 DEF Distinct
  <2>2. ASSUME NEW i \in 1 .. Len(Tail(s))
        PROVE  Tail(s)[i].n # Head(s).n
    <3>1. i + 1 # 1 /\ 1 \in 1 .. Len(s)
      BY <2>2, <1>1
    <3> QED
      BY <3>1, <1>1, <1>4, <1>6 DEF Distinct
  <2> QED
    BY <2>1, <2>2 DEF Distinct, Numbers
<1> QED
  BY <1>1, <1>2, <1>5, <1>6

LEMMA NumbersAppend ==
  ASSUME NEW R, NEW s \in Seq(R), NEW x \in R
  PROVE  /\ Append(s, x) \in Seq(R)
         /\ Numbers(Append(s, x)) = Numbers(s) \cup {x.n}
         /\ Distinct(s) /\ x.n \notin Numbers(s) => Distinct(Append(s, x))
<1> DEFINE t == Append(s, x)
<1>1. /\ t \in Seq(R) /\ Len(s) \in Nat /\ Len(t) = Len(s) + 1
      /\ \A i \in 1 .. Len(s) : t[i] = s[i]
      /\ t[Len(s) + 1] = x
  OBVIOUS
<1> HIDE DEF t
<1>2. 1 .. Len(t) = (1 .. Len(s)) \cup {Len(s) + 1}
  BY <1>1
<1>3. Numbers(t) = Numbers(s) \cup {x.n}
  BY <1>1, <1>2 DEF Numbers
<1>4. ASSUME Distinct(s), x.n \notin Numbers(s), NEW i \in 1 .. Len(t), NEW j \in 1 .. Len(t), i # j
      PROVE  t[i].n # t[j].n
  BY <1>1, <1>2, <1>4 DEF Numbers, Distinct
<1> QED
  BY <1>1, <1>3, <1>4 DEF t, Distinct

LEMMA NumbersConcat ==
  ASSUME NEW R, NEW s \in Seq(R), NEW t \in Seq(R)
  PROVE  /\ s \o t \in Seq(R)
         /\ Numbers(s \o t) = Numbers(s) \cup Numbers(t)
         /\ Distinct(s) /\ Distinct(t) /\ Numbers(s) \cap Numbers(t) = {} => Distinct(s \o t)
<1> DEFINE u == s \o t
<1>1. /\ u \in Seq(R) /\ Len(s) \in Nat /\ Len(t) \in Nat /\ Len(u) = Len(s) + Len(t)
      /\ \A i \in 1 .. Len(s) + Len(t) : u[i] = IF i =< Len(s) THEN s[i] ELSE t[i - Len(s)]
  OBVIOUS
<1> HIDE DEF u
<1>2. \A i \in 1 .. Len(s) : i \in 1 .. Len(u) /\ u[i] = s[i]
  BY <1>1
<1>3. \A i \in 1 .. Len(t) : i + Len(s) \in 1 .. Len(u) /\ u[i + Len(s)] = t[i]
  <2> SUFFICES ASSUME NEW i \in 1 .. Len(t)
               PROVE  i + Len(s) \in 1 .. Len(u) /\ u[i + Len(s)] = t[i]
    OBVIOUS
  <2>1. i + Len(s) \in 1 .. Len(s) + Len(t) /\ ~(i + Len(s) =< Len(s)) /\ (i + Len(s)) - Len(s) = i
    BY <1>1
  <2> QED
    BY <1>1, <2>1
<1>4. ASSUME NEW i \in 1 .. Len(u)
      PROVE  \/ i \in 1 .. Len(s) /\ u[i] = s[i]
             \/ i - Len(s) \in 1 .. Len(t) /\ u[i] = t[i - Len(s)]
  BY <1>1
<1>5. Numbers(u) = Numbers(s) \cup Numbers(t)
  <2>1. Numbers(u) \subseteq Numbers(s) \cup Numbers(t)
    BY <1>4 DEF Numbers
  <2>2. Numbers(s) \subseteq Numbers(u)
    BY <1>2 DEF Numbers
  <2>3. Numbers(t) \subseteq Numbers(u)
    BY <1>3 DEF Numbers
  <2> QED
    BY <2>1, <2>2, <2>3
<1>6. ASSUME Distinct(s), Distinct(t), Numbers(s) \cap Numbers(t) = {},
             NEW i \in 1 .. Len(u), NEW j \in 1 .. Len(u), i # j
      PROVE  u[i].n # u[j].n
  <2>1. \A k \in 1 .. Len(s), l \in 1 .. Len(t) : s[k].n # t[l].n
    BY <1>6 DEF Numbers
  <2>2. i - Len(s) # j - Len(s)
    BY <1>1, <1>6
  <2> QED
    BY <1>4, <1>6, <2>1, <2>2 DEF Distinct
<1> QED
  BY <1>1, <1>5, <1>6 DEF u, Distinct

-----------------------------------------------------------------------------
(* The steps.                                                               *)

LEMMA FileIs ==
  ASSUME LogTypes
  PROVE  /\ Current \in Seq(LogEntries) /\ PreviousText \in Seq(LogEntries)
         /\ FileSize(Current) \in Nat /\ (Current = <<>> => FileSize(Current) = 0)
         /\ Numbers(Missing) = {0} /\ FileSize(Missing) = 0 /\ Missing \in Seq(LogEntries)
<1>1. /\ [n |-> 0, end |-> 0] \in LogEntries /\ <<>> \in Seq(LogEntries) /\ Missing \in Seq(LogEntries)
  BY DEF LogEntries, Missing
<1>2. Current \in Seq(LogEntries) /\ PreviousText \in Seq(LogEntries)
  BY <1>1 DEF LogTypes, Current, PreviousText
<1>3. \A f \in Seq(LogEntries) : f # <<>> => Last(f) \in LogEntries
  BY DEF Last
<1>4. FileSize(Current) \in Nat
  BY <1>2, <1>3 DEF FileSize, LogEntries
<1>5. FileSize(Missing) = 0
  BY DEF FileSize, Missing, Last
<1> QED
  BY <1>1, <1>2, <1>4, <1>5, NumbersFew DEF FileSize, Missing

\* What the threads do leaves the files as they are.
LEMMA FilesStay ==
  ASSUME ChunkFits, UNCHANGED <<writer, logFile, oldFile>>
  PROVE  ChunkFits' /\ Current' = Current /\ PreviousText' = PreviousText
<1>1. Current' = Current /\ PreviousText' = PreviousText
  BY DEF Current, PreviousText
<1> QED
  BY <1>1 DEF ChunkFits, Entry

LEMMA ProcessWritesKeeps ==
  ASSUME LogInv, NEW p \in Pipes, NEW size \in ChunkSizes, ProcessWrites(p, size)
  PROVE  LogInv'
<1> DEFINE c == [n |-> written + 1, size |-> size]
<1>1. /\ LogTypes /\ c \in Pieces /\ c.n = written + 1 /\ pipe[p] \in Seq(Pieces) /\ written \in Nat
  BY LogAssumption DEF LogInv, LogTypes, Pieces
<1>2. /\ pipe' = [pipe EXCEPT ![p] = Append(pipe[p], c)] /\ written' = written + 1
      /\ UNCHANGED <<held, channel, writer, logFile, oldFile, reading>>
  BY DEF ProcessWrites
<1> HIDE DEF c
<1>3. \A q \in Pipes : pipe'[q] = IF q = p THEN Append(pipe[p], c) ELSE pipe[q]
  BY <1>1, <1>2 DEF LogTypes
<1>4. /\ Append(pipe[p], c) \in Seq(Pieces)
      /\ Numbers(Append(pipe[p], c)) = Numbers(pipe[p]) \cup {written + 1}
      /\ Distinct(pipe[p]) /\ written + 1 \notin Numbers(pipe[p]) => Distinct(Append(pipe[p], c))
  BY <1>1, NumbersAppend
<1>5. LogTypes'
  BY <1>1, <1>2, <1>4 DEF LogTypes
<1>6. ChunkFits' /\ Current' = Current /\ PreviousText' = PreviousText /\ Older' = Older
  BY <1>2, FilesStay DEF LogInv, Older
<1>7. written + 1 \notin Numbers(pipe[p])
  BY <1>1 DEF LogInv, StationsApart, Coming, Logged
<1>8. EachDistinct'
  BY <1>2, <1>3, <1>4, <1>6, <1>7 DEF LogInv, EachDistinct
<1>9. /\ Numbers(pipe'[p]) = Numbers(pipe[p]) \cup {written + 1}
      /\ \A q \in Pipes : /\ q # p => Numbers(pipe'[q]) = Numbers(pipe[q])
                          /\ Numbers(held'[q]) = Numbers(held[q])
  BY <1>2, <1>3, <1>4
<1>10. StationsApart'
  <2>1. 1 .. written' = (1 .. written) \cup {written + 1} /\ written + 1 \notin 1 .. written
    BY <1>1, <1>2
  <2>2. Numbers(channel)' = Numbers(channel) /\ Numbers(writer.chunk)' = Numbers(writer.chunk)
        /\ Numbers(Current)' = Numbers(Current) /\ Older' = Older
    BY <1>2, <1>6
  <2>3. written + 1 \notin Numbers(channel) \cup Logged /\ \A q \in Pipes : written + 1 \notin Coming(q)
    BY <2>1 DEF LogInv, StationsApart
  <2> QED
    BY <2>1, <2>2, <2>3, <1>9 DEF LogInv, StationsApart, Coming, Logged
<1> QED
  BY <1>5, <1>6, <1>8, <1>10 DEF LogInv

LEMMA ThreadReadsKeeps ==
  ASSUME LogInv, NEW p \in Pipes, ThreadReads(p)
  PROVE  LogInv'
<1>1. /\ LogTypes /\ pipe[p] \in Seq(Pieces) /\ pipe[p] # <<>> /\ held[p] = <<>>
      /\ pipe' = [pipe EXCEPT ![p] = Tail(pipe[p])] /\ held' = [held EXCEPT ![p] = <<Head(pipe[p])>>]
      /\ UNCHANGED <<channel, writer, logFile, oldFile, written, reading>>
  BY DEF LogInv, LogTypes, ThreadReads
<1> DEFINE c == Head(pipe[p])
<1>2. /\ c \in Pieces /\ Tail(pipe[p]) \in Seq(Pieces)
      /\ Numbers(pipe[p]) = {c.n} \cup Numbers(Tail(pipe[p]))
      /\ Distinct(pipe[p]) => Distinct(Tail(pipe[p])) /\ c.n \notin Numbers(Tail(pipe[p]))
  BY <1>1, NumbersTail
<1>3. \A q \in Pipes : /\ pipe'[q] = IF q = p THEN Tail(pipe[p]) ELSE pipe[q]
                       /\ held'[q] = IF q = p THEN <<c>> ELSE held[q]
  BY <1>1 DEF LogTypes
<1> HIDE DEF c
<1>4. <<c>> \in Seq(Pieces) /\ Len(<<c>>) = 1 /\ Numbers(<<c>>) = {c.n} /\ Numbers(<<>>) = {}
  BY <1>2, NumbersFew
<1>5. LogTypes'
  <2>1. held' \in [Pipes -> Seq(Pieces)]
    BY <1>1, <1>4 DEF LogTypes, c
  <2> QED
    BY <1>1, <1>2, <2>1 DEF LogTypes
<1>6. ChunkFits' /\ Current' = Current /\ PreviousText' = PreviousText /\ Older' = Older
  BY <1>1, FilesStay DEF LogInv, Older
<1>7. EachDistinct'
  BY <1>1, <1>2, <1>3, <1>4, <1>6 DEF LogInv, EachDistinct
<1>8. StationsApart'
  <2>1. Numbers(channel)' = Numbers(channel) /\ Numbers(writer.chunk)' = Numbers(writer.chunk)
        /\ Numbers(Current)' = Numbers(Current) /\ Older' = Older /\ written' = written
    BY <1>1, <1>6
  <2>2. \A q \in Pipes : /\ q # p => Numbers(pipe'[q]) = Numbers(pipe[q]) /\ Numbers(held'[q]) = Numbers(held[q])
                         /\ q = p => /\ Numbers(pipe[q]) = {c.n} \cup Numbers(pipe'[q]) /\ Numbers(held'[q]) = {c.n}
                                     /\ c.n \notin Numbers(pipe'[q])
    BY <1>1, <1>2, <1>3, <1>4 DEF LogInv, EachDistinct
  <2>3. \A q \in Pipes : Coming(q)' = Coming(q) /\ Numbers(pipe'[q]) \cap Numbers(held'[q]) = {}
    <3>1. Numbers(held[p]) = {}
      BY <1>1, NumbersFew
    <3> QED
      BY <2>2, <3>1 DEF LogInv, StationsApart, Coming
  <2>4. Logged' = Logged
    BY <2>1 DEF Logged
  <2> HIDE DEF Logged
  <2> QED
    BY <2>1, <2>3, <2>4 DEF LogInv, StationsApart
<1> QED
  BY <1>5, <1>6, <1>7, <1>8 DEF LogInv

LEMMA ThreadSendsKeeps ==
  ASSUME LogInv, NEW p \in Pipes, ThreadSends(p)
  PROVE  LogInv'
<1>1. /\ LogTypes /\ held[p] \in Seq(Pieces) /\ channel \in Seq(Pieces) /\ held[p] # <<>>
      /\ channel' = channel \o held[p] /\ held' = [held EXCEPT ![p] = <<>>]
      /\ UNCHANGED <<pipe, writer, logFile, oldFile, written, reading>>
  BY DEF LogInv, LogTypes, ThreadSends
<1>2. /\ channel' \in Seq(Pieces) /\ Numbers(channel') = Numbers(channel) \cup Numbers(held[p])
      /\ Distinct(channel) /\ Distinct(held[p]) /\ Numbers(channel) \cap Numbers(held[p]) = {} => Distinct(channel')
  BY <1>1, NumbersConcat
<1>3. \A q \in Pipes : held'[q] = IF q = p THEN <<>> ELSE held[q]
  BY <1>1 DEF LogTypes
<1>4. LogTypes'
  <2>1. <<>> \in Seq(Pieces)
    OBVIOUS
  <2> QED
    BY <1>1, <1>2, <2>1 DEF LogTypes
<1>5. ChunkFits' /\ Current' = Current /\ PreviousText' = PreviousText /\ Older' = Older
  BY <1>1, FilesStay DEF LogInv, Older
<1>6. Distinct(held[p])
  <2>1. \A i, j \in 1 .. Len(held[p]) : i = j
    BY <1>1 DEF LogInv, EachDistinct
  <2> QED
    BY <2>1 DEF Distinct
<1>7. Numbers(channel) \cap Numbers(held[p]) = {}
  BY DEF LogInv, StationsApart, Coming, Logged
<1>8. EachDistinct'
  BY <1>1, <1>2, <1>3, <1>5, <1>6, <1>7 DEF LogInv, EachDistinct
<1>9. StationsApart'
  <2>1. Numbers(channel)' = Numbers(channel) \cup Numbers(held[p]) /\ Numbers(writer.chunk)' = Numbers(writer.chunk)
        /\ Numbers(Current)' = Numbers(Current) /\ Older' = Older /\ written' = written
    BY <1>1, <1>2, <1>5
  <2>2. /\ Numbers(held'[p]) = {}
        /\ \A q \in Pipes : /\ Numbers(pipe'[q]) = Numbers(pipe[q])
                            /\ q # p => Numbers(held'[q]) = Numbers(held[q])
    BY <1>1, <1>3, NumbersFew
  <2> QED
    BY <2>1, <2>2 DEF LogInv, StationsApart, Coming, Logged
<1> QED
  BY <1>4, <1>5, <1>8, <1>9 DEF LogInv

LEMMA ThreadEndsKeeps ==
  ASSUME LogInv, NEW p \in Pipes, ThreadEnds(p)
  PROVE  LogInv'
<1>1. /\ LogTypes
      /\ pipe' = [pipe EXCEPT ![p] = <<>>] /\ held' = [held EXCEPT ![p] = <<>>]
      /\ UNCHANGED <<channel, writer, logFile, oldFile, written, reading>>
  BY DEF LogInv, ThreadEnds
<1>2. \A q \in Pipes : /\ pipe'[q] = IF q = p THEN <<>> ELSE pipe[q]
                       /\ held'[q] = IF q = p THEN <<>> ELSE held[q]
  BY <1>1 DEF LogTypes
<1>3. LogTypes'
  <2>1. <<>> \in Seq(Pieces)
    OBVIOUS
  <2> QED
    BY <1>1, <2>1 DEF LogTypes
<1>4. ChunkFits' /\ Current' = Current /\ PreviousText' = PreviousText /\ Older' = Older
  BY <1>1, FilesStay DEF LogInv, Older
<1>5. EachDistinct'
  BY <1>1, <1>2, <1>4, NumbersFew DEF LogInv, EachDistinct
<1>6. StationsApart'
  <2>1. Numbers(channel)' = Numbers(channel) /\ Numbers(writer.chunk)' = Numbers(writer.chunk)
        /\ Numbers(Current)' = Numbers(Current) /\ Older' = Older /\ written' = written
    BY <1>1, <1>4
  <2>2. /\ Numbers(held'[p]) = {} /\ Numbers(pipe'[p]) = {}
        /\ \A q \in Pipes : q # p => /\ Numbers(pipe'[q]) = Numbers(pipe[q])
                                     /\ Numbers(held'[q]) = Numbers(held[q])
    BY <1>1, <1>2, NumbersFew
  <2> QED
    BY <2>1, <2>2 DEF LogInv, StationsApart, Coming, Logged
<1> QED
  BY <1>3, <1>4, <1>5, <1>6 DEF LogInv

LEMMA WriterReceivesKeeps ==
  ASSUME LogInv, WriterReceives
  PROVE  LogInv'
<1> DEFINE c == Head(channel)
           rotates == Current # <<>> /\ FileSize(Current) + EntrySize(c) > LogFileLimit
           at == IF rotates THEN "remove" ELSE "append"
<1>1. /\ LogTypes /\ channel \in Seq(Pieces) /\ channel # <<>>
      /\ channel' = Tail(channel) /\ writer.at = "receive"
      /\ UNCHANGED <<pipe, held, logFile, oldFile, written, reading>>
  BY DEF LogInv, LogTypes, WriterReceives
<1>2. writer' = [chunk |-> <<Bounded(c)>>, at |-> at]
  BY DEF WriterReceives
<1>3. /\ c \in Pieces /\ channel' \in Seq(Pieces)
      /\ Numbers(channel) = {c.n} \cup Numbers(channel')
      /\ Distinct(channel) => Distinct(channel') /\ c.n \notin Numbers(channel')
  BY <1>1, NumbersTail
<1>4. /\ Bounded(c) \in Pieces /\ Bounded(c).n = c.n /\ Bounded(c).size < LogFileLimit
  BY <1>3, LogAssumption DEF Pieces, Bounded
<1> DEFINE b == Bounded(c)
<1>5. at \in {"remove", "append"}
  OBVIOUS
<1>6. /\ Current \in Seq(LogEntries) /\ FileSize(Current) \in Nat
      /\ Current = <<>> => FileSize(Current) = 0
  BY <1>1, FileIs
<1>7. at = "append" => Entry(b).end =< LogFileLimit
  <2>1. Entry(b).end = FileSize(Current) + (IF Current = <<>> THEN 0 ELSE 1) + 1 + b.size
    BY DEF Entry
  <2>2. EntrySize(c) = b.size + 1 + (IF Current = <<>> THEN 0 ELSE 1)
    BY DEF EntrySize
  <2>3. b.size \in Nat /\ LogFileLimit \in Nat
    BY <1>4, LogAssumption DEF Pieces
  <2>4. at = "append" => Current = <<>> \/ FileSize(Current) + EntrySize(c) =< LogFileLimit
    <3>1. EntrySize(c) \in Nat
      BY <2>2, <2>3
    <3> QED
      BY <3>1, <1>6, <2>3
  <2> HIDE DEF at, b, c
  <2>5. CASE Current = <<>>
    <3>1. b.size + 1 =< LogFileLimit
      BY <2>3, <1>4, LogAssumption DEF b
    <3>2. Entry(b).end = 0 + 0 + 1 + b.size
      BY <2>1, <2>5, <1>6
    <3> QED
      BY <2>3, <3>1, <3>2
  <2>6. CASE Current # <<>>
    BY <2>1, <2>2, <2>3, <2>4, <2>6, <1>6
  <2> QED
    BY <2>5, <2>6
<1> HIDE DEF at, b, rotates
<1>8. /\ writer'.at = at /\ writer'.chunk = <<b>> /\ Len(<<b>>) = 1 /\ <<b>>[1] = b /\ Head(<<b>>) = b
      /\ <<b>> \in Seq(Pieces)
  BY <1>2, <1>4 DEF b
<1>9. LogTypes'
  BY <1>1, <1>2, <1>3, <1>5, <1>8 DEF LogTypes, b
<1>10. Current' = Current /\ PreviousText' = PreviousText /\ Older' = Older
  BY <1>1 DEF Current, PreviousText, Older
<1>11. ChunkFits'
  <2>1. (Entry(b).end)' = Entry(b').end
    BY <1>10, <1>1 DEF Entry
  <2> QED
  BY <1>1, <1>4, <1>5, <1>7, <1>8, <1>10 DEF LogInv, ChunkFits, b, Entry
<1>12. EachDistinct'
  BY <1>1, <1>3, <1>10 DEF LogInv, EachDistinct
<1>13. StationsApart'
  <2>1. /\ Numbers(channel) = {c.n} \cup Numbers(channel') /\ c.n \notin Numbers(channel')
        /\ Numbers(writer.chunk)' = {c.n}
        /\ Numbers(Current)' = Numbers(Current) /\ Older' = Older /\ written' = written
    BY <1>1, <1>3, <1>4, <1>8, <1>10, NumbersFew DEF LogInv, EachDistinct, b
  <2>2. \A q \in Pipes : Numbers(pipe'[q]) = Numbers(pipe[q]) /\ Numbers(held'[q]) = Numbers(held[q])
    BY <1>1
  <2> QED
    BY <2>1, <2>2 DEF LogInv, StationsApart, Coming, Logged
<1> QED
  BY <1>9, <1>11, <1>12, <1>13 DEF LogInv

\* A step after the channel moves chunks on, or forgets some.
LEMMA LaterStations ==
  ASSUME LogInv, UNCHANGED <<pipe, held, written>>,
         Numbers(channel') \subseteq Numbers(channel), Logged' \subseteq Logged,
         Numbers(writer.chunk)' \cap (Numbers(Current)' \cup Older') = {},
         Numbers(Current)' \cap Older' = {}
  PROVE  StationsApart'
<1>1. \A q \in Pipes : /\ Numbers(pipe'[q]) = Numbers(pipe[q]) /\ Numbers(held'[q]) = Numbers(held[q])
                       /\ Coming(q)' = Coming(q)
  BY DEF Coming
<1> QED
  BY <1>1 DEF LogInv, StationsApart

LEMMA RemoveKeeps ==
  ASSUME LogInv, RemovePrevious
  PROVE  LogInv'
<1>1. /\ LogTypes /\ oldFile' = Missing /\ writer.at = "remove"
      /\ writer' = [writer EXCEPT !.at = "rename"]
      /\ UNCHANGED <<pipe, held, channel, logFile, written, reading>>
  BY DEF LogInv, RemovePrevious
<1>2. writer'.at = "rename" /\ writer'.chunk = writer.chunk
  BY <1>1 DEF LogTypes
<1>3. LogTypes'
  BY <1>1, FileIs DEF LogTypes
<1>4. Current' = Current /\ PreviousText' = <<>> /\ Numbers(PreviousText)' = {}
  BY <1>1, NumbersFew DEF Current, PreviousText
<1>5. Older' \subseteq Older
  BY <1>1, <1>4 DEF Older
<1>6. ChunkFits'
  BY <1>1, <1>2, <1>4, FileIs, LogAssumption DEF LogInv, ChunkFits
<1>7. EachDistinct'
  BY <1>1, <1>4, NumbersFew DEF LogInv, EachDistinct
<1>8. /\ Numbers(channel') \subseteq Numbers(channel) /\ Logged' \subseteq Logged
      /\ Numbers(writer.chunk)' \cap (Numbers(Current)' \cup Older') = {}
      /\ Numbers(Current)' \cap Older' = {}
  <2>1. Numbers(writer.chunk)' = Numbers(writer.chunk) /\ Numbers(Current)' = Numbers(Current)
    BY <1>2, <1>4
  <2> QED
    BY <1>1, <1>5, <2>1 DEF LogInv, StationsApart, Logged
<1>9. StationsApart'
  BY <1>1, <1>8, LaterStations
<1> QED
  BY <1>3, <1>6, <1>7, <1>9 DEF LogInv

LEMMA RenameKeeps ==
  ASSUME LogInv, RenameCurrent
  PROVE  LogInv'
<1>1. /\ LogTypes /\ oldFile' = logFile /\ logFile' = Missing /\ writer.at = "rename"
      /\ writer' = [writer EXCEPT !.at = "create"]
      /\ UNCHANGED <<pipe, held, channel, written, reading>>
  BY DEF LogInv, RenameCurrent
<1>2. writer'.at = "create" /\ writer'.chunk = writer.chunk
  BY <1>1 DEF LogTypes
<1>3. LogTypes'
  BY <1>1, FileIs DEF LogTypes
<1>4. Current' = <<>> /\ PreviousText' = Current /\ Numbers(Current)' = {}
  BY <1>1, NumbersFew DEF Current, PreviousText
<1>5. Older' \subseteq Older \cup Numbers(Current)
  BY <1>1, <1>4 DEF Older
<1>6. ChunkFits'
  <2>1. FileSize(oldFile)' =< LogFileLimit
    <3>1. logFile = Missing \/ logFile = Current
      BY DEF Current
    <3> QED
      BY <1>1, <3>1, FileIs, LogAssumption DEF LogInv, ChunkFits
  <2>2. FileSize(Current)' = 0
    BY <1>4 DEF FileSize
  <2> QED
    BY <1>1, <1>2, <2>1, <2>2, LogAssumption DEF LogInv, ChunkFits
<1>7. EachDistinct'
  BY <1>1, <1>4, NumbersFew DEF LogInv, EachDistinct
<1>8. /\ Numbers(channel') \subseteq Numbers(channel) /\ Logged' \subseteq Logged
      /\ Numbers(writer.chunk)' \cap (Numbers(Current)' \cup Older') = {}
      /\ Numbers(Current)' \cap Older' = {}
  <2>1. Numbers(writer.chunk)' = Numbers(writer.chunk)
    BY <1>2
  <2> QED
    BY <1>1, <1>4, <1>5, <2>1 DEF LogInv, StationsApart, Logged
<1>9. StationsApart'
  BY <1>1, <1>8, LaterStations
<1> QED
  BY <1>3, <1>6, <1>7, <1>9 DEF LogInv

LEMMA CreateKeeps ==
  ASSUME LogInv, CreateCurrent
  PROVE  LogInv'
<1>1. /\ LogTypes /\ logFile' = <<>> /\ writer.at = "create" /\ logFile = Missing
      /\ writer' = [writer EXCEPT !.at = "append"]
      /\ UNCHANGED <<pipe, held, channel, oldFile, written, reading>>
  BY DEF LogInv, CreateCurrent, ChunkFits
<1>2. writer'.at = "append" /\ writer'.chunk = writer.chunk
  BY <1>1 DEF LogTypes
<1>3. LogTypes'
  <2>1. <<>> \in Seq(LogEntries)
    OBVIOUS
  <2> QED
    BY <1>1, <2>1 DEF LogTypes
<1>4. Current' = <<>> /\ Current = <<>> /\ PreviousText' = PreviousText /\ Older' = Older
  BY <1>1 DEF Current, PreviousText, Older
<1>5. ChunkFits'
  <2>1. Len(writer.chunk) = 1 /\ writer.chunk[1].size < LogFileLimit /\ writer.chunk \in Seq(Pieces)
    BY <1>1 DEF LogInv, ChunkFits, LogTypes
  <2>2. Head(writer.chunk) = writer.chunk[1] /\ writer.chunk[1].size \in Nat
    <3>1. writer.chunk[1] \in Pieces /\ Head(writer.chunk) = writer.chunk[1]
      BY <2>1
    <3> QED
      BY <3>1 DEF Pieces
  <2>3. FileSize(Current)' = 0
    BY <1>4 DEF FileSize
  <2>4. Entry(Head(writer.chunk))'.end = 0 + 0 + 1 + writer.chunk[1].size
    BY <1>2, <1>4, <2>2, <2>3 DEF Entry
  <2>5. Entry(Head(writer.chunk))'.end =< LogFileLimit
    BY <2>1, <2>2, <2>4, LogAssumption
  <2> QED
    BY <1>1, <1>2, <2>1, <2>3, <2>5, LogAssumption DEF LogInv, ChunkFits
<1>6. EachDistinct'
  BY <1>1, <1>4 DEF LogInv, EachDistinct
<1>7. StationsApart'
  <2>1. /\ Numbers(writer.chunk)' = Numbers(writer.chunk) /\ Numbers(Current)' = Numbers(Current)
        /\ Numbers(channel)' = Numbers(channel) /\ Logged' = Logged
    BY <1>1, <1>2, <1>4 DEF Logged
  <2> QED
    BY <1>1, <1>4, <2>1, LaterStations DEF LogInv, StationsApart
<1> QED
  BY <1>3, <1>5, <1>6, <1>7 DEF LogInv

LEMMA AppendKeeps ==
  ASSUME LogInv, AppendEntry
  PROVE  LogInv'
<1> DEFINE c == Head(writer.chunk)
           e == Entry(c)
<1>1. /\ LogTypes /\ logFile' = Append(Current, e) /\ writer.at = "append"
      /\ writer' = [at |-> "receive", chunk |-> <<>>]
      /\ UNCHANGED <<pipe, held, channel, oldFile, written, reading>>
  BY DEF LogInv, AppendEntry
<1>2. writer.chunk \in Seq(Pieces) /\ Len(writer.chunk) = 1 /\ e.end =< LogFileLimit
  BY <1>1 DEF LogInv, LogTypes, ChunkFits
<1>3. c = writer.chunk[1] /\ c \in Pieces /\ writer.chunk = <<c>>
  BY <1>2
<1>4. Numbers(writer.chunk) = {c.n}
  BY <1>3, NumbersFew
<1>5. e \in LogEntries /\ e.n = c.n
  <2>1. c.n \in Nat /\ c.size \in Nat
    BY <1>3 DEF Pieces
  <2>2. FileSize(Current) \in Nat
    BY <1>1, FileIs
  <2>3. e.n = c.n /\ e.end = FileSize(Current) + (IF Current = <<>> THEN 0 ELSE 1) + 1 + c.size
        /\ e = [n |-> e.n, end |-> e.end]
    BY DEF Entry
  <2>4. e.end \in Nat
    BY <2>1, <2>2, <2>3
  <2> HIDE DEF e, c
  <2> QED
    BY <2>1, <2>3, <2>4 DEF LogEntries
<1> HIDE DEF c, e
<1>6. /\ logFile' \in Seq(LogEntries) /\ Numbers(logFile') = Numbers(Current) \cup {c.n}
      /\ Distinct(Current) /\ c.n \notin Numbers(Current) => Distinct(logFile')
  BY <1>1, <1>5, FileIs, NumbersAppend
<1>7. c.n \in 1 .. written /\ c.n \notin Numbers(Current) \cup Older
  BY <1>4 DEF LogInv, StationsApart, Logged
<1>8. logFile' # Missing /\ Current' = logFile'
  <2>1. logFile' # Missing
    <3>1. c.n \in Numbers(logFile') /\ c.n # 0
      BY <1>1, <1>6, <1>7 DEF LogTypes
    <3>2. Numbers(Missing) = {0}
      BY <1>1, FileIs
    <3> QED
      BY <3>1, <3>2
  <2> QED
    BY <2>1 DEF Current
<1>9. FileSize(logFile') = e.end
  <2>1. Append(Current, e) # <<>> /\ Append(Current, e)[Len(Append(Current, e))] = e
    <3>1. Current \in Seq(LogEntries)
      BY <1>1, FileIs
    <3> QED
      BY <1>5, <3>1
  <2> QED
    BY <1>1, <2>1 DEF FileSize, Last
<1>10. LogTypes'
  <2>1. <<>> \in Seq(Pieces)
    OBVIOUS
  <2> QED
    BY <1>1, <1>6, <2>1 DEF LogTypes
<1>11. PreviousText' = PreviousText /\ Older' = Older
  BY <1>1 DEF PreviousText, Older
<1>12. writer'.at = "receive" /\ writer'.chunk = <<>> /\ Numbers(writer.chunk)' = {}
  BY <1>1, NumbersFew
<1>13. ChunkFits'
  BY <1>1, <1>2, <1>8, <1>9, <1>12 DEF LogInv, ChunkFits
<1>14. EachDistinct'
  BY <1>1, <1>6, <1>7, <1>8, <1>11 DEF LogInv, EachDistinct
<1>15. StationsApart'
  <2>1. Numbers(Current)' = Numbers(Current) \cup {c.n} /\ Numbers(channel)' = Numbers(channel)
    BY <1>1, <1>6, <1>8
  <2>2. Logged' = Logged
    BY <1>4, <1>11, <1>12, <2>1 DEF Logged
  <2>3. Numbers(Current) \cap Older = {}
    BY DEF LogInv, StationsApart
  <2> QED
    BY <1>1, <1>7, <1>11, <1>12, <2>1, <2>2, <2>3, LaterStations
<1> QED
  BY <1>10, <1>13, <1>14, <1>15 DEF LogInv

LEMMA WriterFailsKeeps ==
  ASSUME LogInv, WriterFails
  PROVE  LogInv'
<1>1. /\ LogTypes /\ writer' = [at |-> "closed", chunk |-> <<>>] /\ channel' = <<>>
      /\ UNCHANGED <<pipe, held, logFile, oldFile, written, reading>>
  BY DEF LogInv, WriterFails
<1>2. writer'.at = "closed" /\ writer'.chunk = <<>> /\ Numbers(writer.chunk)' = {} /\ Numbers(channel') = {}
  BY <1>1, NumbersFew
<1>3. LogTypes'
  <2>1. <<>> \in Seq(Pieces)
    OBVIOUS
  <2> QED
    BY <1>1, <2>1 DEF LogTypes
<1>4. Current' = Current /\ PreviousText' = PreviousText /\ Older' = Older
  BY <1>1 DEF Current, PreviousText, Older
<1>5. ChunkFits'
  BY <1>1, <1>2, <1>4 DEF LogInv, ChunkFits
<1>6. EachDistinct'
  BY <1>1, <1>4, NumbersFew DEF LogInv, EachDistinct
<1>7. StationsApart'
  <2>1. Numbers(Current)' = Numbers(Current) /\ Logged' \subseteq Logged
    BY <1>2, <1>4 DEF Logged
  <2>2. Numbers(Current) \cap Older = {}
    BY DEF LogInv, StationsApart
  <2> QED
    BY <1>1, <1>2, <1>4, <2>1, <2>2, LaterStations
<1> QED
  BY <1>3, <1>5, <1>6, <1>7 DEF LogInv

\* What a reading does: it has part of the older entries, or is done.
LEMMA ReadingKeeps ==
  ASSUME LogInv, ReadPrevious \/ ReadCurrent \/ CloseReading \/ ExportLog
  PROVE  LogInv'
<1>1. /\ LogTypes /\ UNCHANGED <<pipe, held, channel, writer, logFile, oldFile, written>>
  BY DEF LogInv, ReadPrevious, ReadCurrent, CloseReading, ExportLog
<1>2. ChunkFits' /\ Current' = Current /\ PreviousText' = PreviousText
  BY <1>1, FilesStay DEF LogInv
<1>3. ASSUME NEW at \in {"none", "current", "shown"}, NEW text \in Seq(LogEntries), Distinct(text),
             reading' = [at |-> at, text |-> text],
             at = "current" => text = PreviousText
      PROVE  LogInv'
  <2>1. LogTypes'
    BY <1>1, <1>3 DEF LogTypes
  <2>2. reading'.at = at /\ reading'.text = text
    BY <1>3
  <2>3. Older' \subseteq Older
    BY <1>2, <1>3, <2>2 DEF Older
  <2>4. EachDistinct'
    BY <1>1, <1>2, <1>3, <2>2 DEF LogInv, EachDistinct
  <2>5. StationsApart'
    <3>1. /\ Numbers(writer.chunk)' = Numbers(writer.chunk) /\ Numbers(Current)' = Numbers(Current)
          /\ Numbers(channel)' = Numbers(channel) /\ Logged' \subseteq Logged
      BY <1>1, <1>2, <2>3 DEF Logged
    <3>2. /\ Numbers(writer.chunk) \cap (Numbers(Current) \cup Older) = {}
          /\ Numbers(Current) \cap Older = {}
      BY DEF LogInv, StationsApart
    <3> QED
      BY <1>1, <2>3, <3>1, <3>2, LaterStations
  <2> QED
    BY <1>2, <2>1, <2>4, <2>5 DEF LogInv
<1>4. PreviousText \in Seq(LogEntries) /\ Distinct(PreviousText)
  BY <1>1, FileIs DEF LogInv, EachDistinct
<1>5. CASE ReadPrevious \/ ExportLog
  BY <1>3, <1>4, <1>5 DEF ReadPrevious, ExportLog
<1>6. NoReading = [at |-> "none", text |-> <<>>] /\ <<>> \in Seq(LogEntries)
  BY DEF NoReading
<1>7. CASE reading' = NoReading
  BY <1>3, <1>6, <1>7, NumbersFew
<1>8. CASE reading.at = "current" /\ logFile # Missing /\ reading' = [at |-> "shown", text |-> reading.text \o logFile]
  <2>1. Current = logFile
    BY <1>8 DEF Current
  <2>2. reading.text \in Seq(LogEntries) /\ logFile \in Seq(LogEntries) /\ Distinct(reading.text) /\ Distinct(logFile)
    BY <1>1, <2>1 DEF LogInv, EachDistinct, LogTypes
  <2>3. Numbers(reading.text) \cap Numbers(logFile) = {}
    BY <1>8, <2>1 DEF LogInv, StationsApart, Older
  <2>4. reading.text \o logFile \in Seq(LogEntries) /\ Distinct(reading.text \o logFile)
    BY <2>2, <2>3, NumbersConcat
  <2> QED
    BY <1>3, <1>8, <2>4
<1> QED
  BY <1>5, <1>7, <1>8 DEF ReadCurrent, CloseReading

LEMMA LogInitInv == LogInit => LogInv
<1> SUFFICES ASSUME LogInit PROVE LogInv
  OBVIOUS
<1>1. /\ pipe = [p \in Pipes |-> <<>>] /\ held = [p \in Pipes |-> <<>>] /\ channel = <<>>
      /\ writer.at = "receive" /\ writer.chunk = <<>> /\ logFile = <<>> /\ oldFile = Missing
      /\ written = 0 /\ reading.at = "none" /\ reading.text = <<>>
  BY DEF LogInit, NoReading
<1>2. LogTypes
  <2>1. <<>> \in Seq(Pieces) /\ <<>> \in Seq(LogEntries) /\ Missing \in Seq(LogEntries)
    BY DEF Missing, LogEntries
  <2>2. [p \in Pipes |-> <<>>] \in [Pipes -> Seq(Pieces)]
    BY <2>1
  <2> QED
    BY <1>1, <2>1, <2>2 DEF LogTypes, LogInit, NoReading
<1>3. Current = <<>> /\ PreviousText = <<>> /\ Older = {}
  BY <1>1, NumbersFew DEF Current, PreviousText, Older
<1>4. StationsApart
  BY <1>1, <1>3, NumbersFew DEF StationsApart, Coming, Logged
<1>5. EachDistinct
  BY <1>1, <1>3, NumbersFew DEF EachDistinct
<1>6. ChunkFits
  BY <1>1, <1>2, <1>3, FileIs, LogAssumption DEF ChunkFits
<1> QED
  BY <1>2, <1>4, <1>5, <1>6 DEF LogInv

LEMMA LogStepInv == LogInv /\ [LogNext]_logVars => LogInv'
<1> SUFFICES ASSUME LogInv, [LogNext]_logVars PROVE LogInv'
  OBVIOUS
<1>1. CASE UNCHANGED logVars
  BY <1>1 DEF logVars, LogInv, LogTypes, StationsApart, EachDistinct, ChunkFits, Coming, Logged,
     Older, Current, PreviousText, Entry
<1>2. ASSUME NEW p \in Pipes, ThreadReads(p) \/ ThreadSends(p) \/ ThreadEnds(p)
      PROVE  LogInv'
  BY <1>2, ThreadReadsKeeps, ThreadSendsKeeps, ThreadEndsKeeps
<1>3. ASSUME NEW p \in Pipes, NEW size \in ChunkSizes, ProcessWrites(p, size)
      PROVE  LogInv'
  BY <1>3, ProcessWritesKeeps
<1>4. CASE WriterReceives \/ RemovePrevious \/ RenameCurrent \/ CreateCurrent \/ AppendEntry \/ WriterFails
  BY <1>4, WriterReceivesKeeps, RemoveKeeps, RenameKeeps, CreateKeeps, AppendKeeps, WriterFailsKeeps
<1>5. CASE ReadPrevious \/ ReadCurrent \/ CloseReading \/ ExportLog
  BY <1>5, ReadingKeeps
<1> QED
  BY <1>1, <1>2, <1>3, <1>4, <1>5 DEF LogNext, LogStep

LEMMA LogShowsOnce == LogInv => NothingIsShownTwice
<1> SUFFICES ASSUME LogInv PROVE NothingIsShownTwice
  OBVIOUS
<1>1. \A f \in {Current, oldFile} : FileSize(f) =< LogFileLimit
  BY DEF LogInv, ChunkFits
<1>2. \A i, j \in 1 .. Len(reading.text) : i # j => reading.text[i].n # reading.text[j].n
  BY DEF LogInv, EachDistinct, Distinct
<1> QED
  BY <1>1, <1>2 DEF NothingIsShownTwice

\* However the two files are rotated while the page reads them, it shows no entry
\* twice, and no file grows past the limit: for every number of pipes, chunks and
\* places in the channel.
THEOREM NothingIsShownTwiceCorrect == LogSpec => []NothingIsShownTwice
BY LogShowsOnce, LogInitInv, LogStepInv, PTL DEF LogSpec

-----------------------------------------------------------------------------
(* The types of the log's chunks, and the limit of its channel.             *)

LogFits ==
  /\ pipe \in [Pipes -> Seq(Chunks)] /\ held \in [Pipes -> Seq(Chunks)]
  /\ channel \in Seq(Chunks) /\ Len(channel) =< ChannelCapacity /\ written \in 0 .. MaxChunks

LEMMA LogFitsStep == LogInv /\ LogFits /\ [LogNext]_logVars => LogFits'
<1> SUFFICES ASSUME LogInv, LogFits, [LogNext]_logVars PROVE LogFits'
  OBVIOUS
<1>1. /\ \A p \in Pipes : pipe[p] \in Seq(Chunks) /\ held[p] \in Seq(Chunks) /\ Len(held[p]) =< 1
      /\ <<>> \in Seq(Chunks) /\ Len(channel) \in Nat /\ MaxChunks \in Nat /\ ChannelCapacity \in Nat
      /\ pipe \in [Pipes -> Seq(Chunks)] /\ held \in [Pipes -> Seq(Chunks)]
      /\ channel \in Seq(Chunks) /\ Len(channel) =< ChannelCapacity /\ written \in 0 .. MaxChunks
  BY LogAssumption DEF LogFits, LogInv, EachDistinct
<1>2. ASSUME NEW p \in Pipes, ThreadReads(p) PROVE LogFits'
  <2>1. PICK c : c = Head(pipe[p])
    OBVIOUS
  <2>2. c \in Chunks /\ Tail(pipe[p]) \in Seq(Chunks) /\ <<c>> \in Seq(Chunks)
    BY <1>1, <1>2, <2>1 DEF ThreadReads
  <2>3. /\ pipe' = [pipe EXCEPT ![p] = Tail(pipe[p])] /\ held' = [held EXCEPT ![p] = <<c>>]
        /\ UNCHANGED <<channel, written>>
    BY <1>1, <1>2, <2>1 DEF ThreadReads
  <2> QED
    BY <1>1, <2>2, <2>3 DEF LogFits
<1>3. ASSUME NEW p \in Pipes, ThreadSends(p) PROVE LogFits'
  <2>1. PICK h : h = held[p]
    OBVIOUS
  <2>2. h \in Seq(Chunks) /\ Len(h) \in Nat /\ Len(h) =< 1 /\ Len(channel) < ChannelCapacity
    BY <1>1, <1>3, <2>1 DEF ThreadSends
  <2>3. channel \o h \in Seq(Chunks) /\ Len(channel \o h) = Len(channel) + Len(h)
    BY <1>1, <2>2
  <2>4. Len(channel \o h) =< ChannelCapacity
    BY <1>1, <2>2, <2>3
  <2>5. /\ channel' = channel \o h /\ held' = [held EXCEPT ![p] = <<>>] /\ UNCHANGED <<pipe, written>>
    BY <1>3, <2>1 DEF ThreadSends
  <2> QED
    BY <1>1, <2>3, <2>4, <2>5 DEF LogFits
<1>4. ASSUME NEW p \in Pipes, ThreadEnds(p) PROVE LogFits'
  BY <1>1, <1>4 DEF ThreadEnds, LogFits
<1>5. CASE WriterReceives
  <2>1. channel # <<>> /\ channel' = Tail(channel) /\ UNCHANGED <<pipe, held, written>>
    BY <1>5 DEF WriterReceives
  <2>2. Tail(channel) \in Seq(Chunks) /\ Len(Tail(channel)) = Len(channel) - 1
    BY <1>1, <2>1
  <2>3. Len(channel') =< ChannelCapacity
    BY <1>1, <2>1, <2>2
  <2> QED
    BY <1>1, <2>1, <2>2, <2>3 DEF LogFits
<1>6. CASE WriterFails
  <2>1. channel' = <<>> /\ UNCHANGED <<pipe, held, written>>
    BY <1>6 DEF WriterFails
  <2>2. <<>> \in Seq(Chunks) /\ Len(<<>>) =< ChannelCapacity
    BY <1>1
  <2> QED
    BY <1>1, <2>1, <2>2 DEF LogFits
<1>7. CASE \/ RemovePrevious \/ RenameCurrent \/ CreateCurrent \/ AppendEntry
           \/ ReadPrevious \/ ReadCurrent \/ CloseReading \/ ExportLog \/ UNCHANGED logVars
  <2>1. UNCHANGED <<pipe, held, channel, written>>
    BY <1>7 DEF RemovePrevious, RenameCurrent, CreateCurrent, AppendEntry, ReadPrevious,
                ReadCurrent, CloseReading, ExportLog, logVars
  <2> QED
    BY <2>1 DEF LogFits
<1>8. ASSUME NEW p \in Pipes, NEW size \in ChunkSizes, ProcessWrites(p, size) PROVE LogFits'
  <2>1. PICK c : c = [n |-> written + 1, size |-> size]
    OBVIOUS
  <2>2. written + 1 \in 1 .. MaxChunks /\ written' = written + 1 /\ UNCHANGED <<held, channel>>
    BY <1>1, <1>8 DEF ProcessWrites
  <2>3. c \in Chunks
    BY <2>1, <2>2 DEF Chunks
  <2>4. Append(pipe[p], c) \in Seq(Chunks)
    BY <1>1, <2>3
  <2>5. pipe' = [pipe EXCEPT ![p] = Append(pipe[p], c)]
    BY <1>8, <2>1 DEF ProcessWrites
  <2> QED
    BY <1>1, <2>2, <2>4, <2>5 DEF LogFits
<1> QED
  BY <1>2, <1>3, <1>4, <1>5, <1>6, <1>7, <1>8 DEF LogNext, LogStep

\* The types of what passes from the pipes to the files (core/process_log.rs).
LEMMA LogTypeInv ==
  /\ LogInit => LogInv /\ LogFits
  /\ LogInv /\ LogFits /\ [LogNext]_logVars => LogInv' /\ LogFits'
  /\ LogInv /\ LogFits => LogTypeOK
<1>1. LogInit => LogFits
  <2>1. <<>> \in Seq(Chunks) /\ Len(<<>>) = 0
    OBVIOUS
  <2> QED
    BY <2>1, LogAssumption DEF LogInit, LogFits
<1>2. LogInv /\ LogFits => LogTypeOK
  BY DEF LogInv, LogTypes, LogFits, LogTypeOK
<1> QED
  BY <1>1, <1>2, LogInitInv, LogStepInv, LogFitsStep

-----------------------------------------------------------------------------
(* The capture of frames.  What a viewport has seen was observed, and what  *)
(* was observed or dropped was published, because each frame is numbered    *)
(* by the one before it and the latest one is all a viewport takes.         *)

Shares == [path : Files \cup {NoShare}, length : [Files -> Nat], header : [Files -> Headers],
           created : 0 .. MaxFiles]
Readers == [at : {"attach", "refresh", "before", "after", "closed"}, map : Files \cup {NoShare},
            last : Headers, before : Headers, attempt : 0 .. Attempts]
Slots == [file : Files \cup {NoShare}, header : Headers, sequence : Nat, observed : Nat,
          dropped : Nat, closed : BOOLEAN]

CaptureInv ==
  /\ shared \in Shares /\ reader \in Readers /\ slot \in Slots
  /\ seen \in [Viewports -> Nat] /\ stopping \in BOOLEAN
  /\ reader.at \in {"before", "after"} => reader.map \in Files
  /\ slot.dropped =< slot.sequence /\ slot.observed =< slot.sequence
  /\ \A v \in Viewports : seen[v] =< slot.observed

LEMMA EngineStepKeeps == CaptureInv /\ EngineStep => CaptureInv'
<1> SUFFICES ASSUME CaptureInv, EngineStep PROVE CaptureInv'
  OBVIOUS
<1>1. shared \in Shares /\ UNCHANGED <<reader, slot, seen, stopping>>
  BY DEF CaptureInv, EngineStep, CreateFile, WriteFrame, RemoveFile, Engine
<1>2. SUFFICES shared' \in Shares
  BY <1>1 DEF CaptureInv
<1>3. ASSUME NEW size \in FrameSizes, CreateFile(size) PROVE shared' \in Shares
  <2>1. PICK f : f = shared.created + 1
    OBVIOUS
  <2>2. /\ shared.created < MaxFiles
        /\ shared' = [shared EXCEPT !.path = f, !.created = f, !.length = [shared.length EXCEPT ![f] = size]]
    BY <1>1, <1>3, <2>1 DEF CreateFile, Engine, Shares
  <2>3. f \in Files /\ f \in 0 .. MaxFiles
    BY <1>1, <2>1, <2>2, CaptureBounds DEF Shares, Files
  <2>4. [shared.length EXCEPT ![f] = size] \in [Files -> Nat]
    BY <1>1, <2>3, CaptureBounds DEF Shares
  <2> QED
    BY <1>1, <2>2, <2>3, <2>4 DEF Shares
<1>4. ASSUME NEW size \in FrameSizes, WriteFrame(size) PROVE shared' \in Shares
  <2>1. PICK f : f = shared.path
    OBVIOUS
  <2>2. PICK h : h = [size |-> size, counter |-> shared.header[f].counter + 1]
    OBVIOUS
  <2>3. /\ f \in Files /\ shared.header[f] \in Headers /\ shared.header[f].counter < MaxFrames
        /\ shared' = [shared EXCEPT !.header = [shared.header EXCEPT ![f] = h]]
    BY <1>1, <1>4, <2>1, <2>2 DEF WriteFrame, Engine, Shares
  <2>4. h \in Headers
    BY <2>2, <2>3, CaptureBounds DEF Headers
  <2>5. [shared.header EXCEPT ![f] = h] \in [Files -> Headers]
    BY <1>1, <2>3, <2>4 DEF Shares
  <2> QED
    BY <1>1, <2>3, <2>5 DEF Shares
<1>5. CASE RemoveFile
  <2>1. shared' = [shared EXCEPT !.path = NoShare]
    BY <1>5 DEF RemoveFile, Engine
  <2> QED
    BY <1>1, <2>1 DEF Shares
<1> QED
  BY <1>3, <1>4, <1>5 DEF EngineStep

\* A step of the reader that publishes nothing.
LEMMA ReaderKeeps ==
  ASSUME CaptureInv, reader' \in Readers, reader'.at \in {"before", "after"} => reader'.map \in Files,
         UNCHANGED <<shared, slot, seen, stopping>>
  PROVE  CaptureInv'
BY DEF CaptureInv

LEMMA CaptureStepKeeps == CaptureInv /\ CaptureStep => CaptureInv'
<1> SUFFICES ASSUME CaptureInv, CaptureStep PROVE CaptureInv'
  OBVIOUS
<1>1. shared \in Shares /\ reader \in Readers /\ slot \in Slots
  BY DEF CaptureInv
<1>2. NoHeader \in Headers /\ NoShare \in Files \cup {NoShare} /\ 1 \in 0 .. Attempts
  BY CaptureBounds DEF NoHeader, Headers
<1>3. /\ Detached \in Readers /\ Detached.at = "attach"
  BY <1>1, <1>2 DEF Detached, Readers
<1>4. CASE Attach
  <2>1. /\ reader' = [reader EXCEPT !.at = "refresh", !.map = shared.path]
        /\ UNCHANGED <<shared, slot, seen, stopping>>
    BY <1>4 DEF Attach, ReaderStep
  <2>2. reader' \in Readers /\ reader'.at = "refresh"
    BY <1>1, <2>1 DEF Readers, Shares
  <2> QED
    BY <2>1, <2>2, ReaderKeeps
<1>5. CASE Refresh
  <2>1. PICK last \in {reader.last, NoHeader} :
          reader' = IF shared.path = NoShare THEN Detached
                    ELSE [reader EXCEPT !.at = "before", !.map = shared.path, !.attempt = 1,
                                        !.last = last]
    BY <1>1, <1>5 DEF Refresh, ReaderStep, Readers
  <2>2. UNCHANGED <<shared, slot, seen, stopping>>
    BY <1>5 DEF Refresh, ReaderStep
  <2>3. CASE shared.path = NoShare
    BY <1>3, <2>1, <2>2, <2>3, ReaderKeeps
  <2>4. CASE shared.path # NoShare
    <3>1. shared.path \in Files /\ last \in Headers
      BY <1>1, <1>2, <2>4 DEF Shares, Readers
    <3>2. reader' = [reader EXCEPT !.at = "before", !.map = shared.path, !.attempt = 1, !.last = last]
      BY <2>1, <2>4
    <3>3. reader' \in Readers /\ reader'.map = shared.path
      BY <1>1, <1>2, <3>1, <3>2 DEF Readers
    <3> QED
      BY <2>2, <3>1, <3>3, ReaderKeeps
  <2> QED
    BY <2>3, <2>4
<1>6. reader.at \in {"before", "after"} => Mapped \in Headers
  BY <1>1 DEF Mapped, Shares, CaptureInv
<1>7. CASE ReadBefore
  <2>1. /\ reader.at = "before" /\ reader.map \in Files /\ Mapped \in Headers
        /\ UNCHANGED <<shared, slot, seen, stopping>>
    BY <1>6, <1>7 DEF ReadBefore, ReaderStep, CaptureInv
  <2>2. PICK m : m = Mapped
    OBVIOUS
  <2>3. reader' \in {[reader EXCEPT !.at = "refresh"], Detached,
                     [reader EXCEPT !.at = "after", !.before = m]}
    BY <1>7, <2>2 DEF ReadBefore, ReaderStep
  <2>4. /\ [reader EXCEPT !.at = "refresh"] \in Readers
        /\ [reader EXCEPT !.at = "refresh"].at = "refresh"
        /\ [reader EXCEPT !.at = "after", !.before = m] \in Readers
        /\ [reader EXCEPT !.at = "after", !.before = m].map = reader.map
    BY <1>1, <2>1, <2>2 DEF Readers
  <2> QED
    BY <1>3, <2>1, <2>3, <2>4, ReaderKeeps
<1>8. CASE ReadAfter
  <2>1. /\ reader.at = "after" /\ reader.map \in Files /\ Mapped \in Headers
    BY <1>6, <1>8 DEF ReadAfter, CaptureInv
  <2>2. PICK m : m = Mapped
    OBVIOUS
  <2>3. CASE Mapped = reader.before
    <3>1. /\ reader' = [reader EXCEPT !.at = "refresh", !.last = m]
          /\ UNCHANGED <<shared, seen, stopping>> /\ Publish(reader.map, m)
      BY <1>8, <2>2, <2>3 DEF ReadAfter, ReaderStep
    <3>2. reader' \in Readers /\ reader'.at = "refresh"
      BY <1>1, <2>1, <2>2, <3>1 DEF Readers
    <3>3. PICK d \in {slot.dropped, slot.dropped + 1} :
            slot' = [slot EXCEPT !.file = reader.map, !.header = m, !.sequence = slot.sequence + 1,
                                 !.dropped = d]
      BY <1>1, <3>1 DEF Publish, Slots
    <3>4. /\ slot.dropped \in Nat /\ slot.sequence \in Nat /\ slot.observed \in Nat
          /\ slot.dropped =< slot.sequence /\ slot.observed =< slot.sequence
      BY <1>1 DEF Slots, CaptureInv
    <3>5. d \in Nat /\ d =< slot.sequence + 1 /\ slot.observed =< slot.sequence + 1
          /\ slot.sequence + 1 \in Nat
      BY <3>4
    <3>6. /\ slot' \in Slots /\ slot'.dropped = d /\ slot'.sequence = slot.sequence + 1
          /\ slot'.observed = slot.observed
      BY <1>1, <2>1, <2>2, <3>3, <3>5 DEF Slots
    <3> QED
      BY <3>1, <3>2, <3>5, <3>6 DEF CaptureInv
  <2>4. CASE Mapped # reader.before
    <3>1. /\ UNCHANGED <<shared, slot, seen, stopping>>
          /\ reader' = IF reader.attempt < Attempts
                       THEN [reader EXCEPT !.at = "before", !.attempt = reader.attempt + 1]
                       ELSE [reader EXCEPT !.at = "refresh"]
      BY <1>1, <1>8, <2>4 DEF ReadAfter, ReaderStep, Readers
    <3>2. CASE reader.attempt < Attempts
      <4>1. reader.attempt + 1 \in 0 .. Attempts
        BY <1>1, <3>2, CaptureBounds DEF Readers
      <4>2. reader' \in Readers /\ reader'.map = reader.map
        BY <1>1, <3>1, <3>2, <4>1 DEF Readers
      <4> QED
        BY <2>1, <3>1, <4>2, ReaderKeeps
    <3>3. CASE ~(reader.attempt < Attempts)
      <4>1. reader' \in Readers /\ reader'.at = "refresh"
        BY <1>1, <3>1, <3>3 DEF Readers
      <4> QED
        BY <3>1, <4>1, ReaderKeeps
    <3> QED
      BY <3>2, <3>3
  <2> QED
    BY <2>3, <2>4
<1>9. CASE CloseSlot
  <2>1. /\ reader' = [reader EXCEPT !.at = "closed"] /\ slot' = [slot EXCEPT !.closed = TRUE]
        /\ UNCHANGED <<shared, seen, stopping>>
    BY <1>9 DEF CloseSlot, ReaderStep
  <2>2. reader' \in Readers /\ reader'.at = "closed"
    BY <1>1, <2>1 DEF Readers
  <2>3. /\ slot' \in Slots /\ slot'.dropped = slot.dropped /\ slot'.sequence = slot.sequence
        /\ slot'.observed = slot.observed
    BY <1>1, <2>1 DEF Slots
  <2> QED
    BY <2>1, <2>2, <2>3 DEF CaptureInv
<1> QED
  BY <1>4, <1>5, <1>7, <1>8, <1>9 DEF CaptureStep

LEMMA LaterOfTwo ==
  ASSUME NEW a \in Nat, NEW b \in Nat, a =< b
  PROVE  Max({a, b}) = b
<1>1. b \in {a, b} /\ \A y \in {a, b} : b >= y
  OBVIOUS
<1>2. Max({a, b}) \in {a, b} /\ \A y \in {a, b} : Max({a, b}) >= y
  BY <1>1 DEF Max
<1> HIDE DEF Max
<1> QED
  BY <1>2

LEMMA TakeLatestKeeps ==
  ASSUME CaptureInv, NEW v \in Viewports, TakeLatest(v)
  PROVE  CaptureInv'
<1>1. /\ slot \in Slots /\ slot.sequence \in Nat /\ slot.observed \in Nat
      /\ slot.observed =< slot.sequence /\ seen \in [Viewports -> Nat]
  BY DEF CaptureInv, Slots
<1>2. Max({slot.observed, slot.sequence}) = slot.sequence
  BY <1>1, LaterOfTwo
<1>3. /\ seen' = [seen EXCEPT ![v] = slot.sequence]
      /\ slot' = [slot EXCEPT !.observed = slot.sequence] /\ UNCHANGED <<shared, reader, stopping>>
  BY <1>1, <1>2 DEF TakeLatest, Slots
<1>4. /\ slot' \in Slots /\ slot'.observed = slot.sequence /\ slot'.sequence = slot.sequence
      /\ slot'.dropped = slot.dropped
  BY <1>1, <1>3 DEF Slots
<1>5. seen' \in [Viewports -> Nat] /\ \A w \in Viewports : seen'[w] \in {seen[w], slot.sequence}
  BY <1>1, <1>3
<1>6. \A w \in Viewports : seen'[w] =< slot.sequence
  BY <1>1, <1>5 DEF CaptureInv
<1> QED
  BY <1>1, <1>3, <1>4, <1>5, <1>6 DEF CaptureInv

\* The types of the capture, and the order of its counters (core/stream.rs).
LEMMA CaptureTypeInv ==
  /\ CaptureInit => CaptureInv
  /\ CaptureInv /\ [CaptureNext]_captureVars => CaptureInv'
  /\ CaptureInv => CaptureTypeOK
<1>1. CaptureInit => CaptureInv
  <2> SUFFICES ASSUME CaptureInit PROVE CaptureInv
    OBVIOUS
  <2>1. NoHeader \in Headers /\ NoShare \in Files \cup {NoShare} /\ 0 \in 0 .. Attempts
        /\ 0 \in 0 .. MaxFiles
    BY CaptureBounds DEF NoHeader, Headers
  <2>2. shared \in Shares
    BY <2>1 DEF CaptureInit, Shares
  <2>3. reader \in Readers /\ reader.at = "attach"
    BY <2>1 DEF CaptureInit, Readers
  <2>4. slot \in Slots /\ slot.dropped = 0 /\ slot.sequence = 0 /\ slot.observed = 0
    BY <2>1 DEF CaptureInit, Slots
  <2>5. seen \in [Viewports -> Nat] /\ stopping \in BOOLEAN /\ \A v \in Viewports : seen[v] = 0
    BY DEF CaptureInit
  <2> QED
    BY <2>2, <2>3, <2>4, <2>5 DEF CaptureInv
<1>2. CaptureInv /\ [CaptureNext]_captureVars => CaptureInv'
  <2> SUFFICES ASSUME CaptureInv, [CaptureNext]_captureVars PROVE CaptureInv'
    OBVIOUS
  <2>1. CASE DropHandle
    BY <2>1 DEF DropHandle, CaptureInv
  <2>2. CASE UNCHANGED captureVars
    BY <2>2 DEF captureVars, CaptureInv
  <2> QED
    BY <2>1, <2>2, EngineStepKeeps, CaptureStepKeeps, TakeLatestKeeps DEF CaptureNext
<1>3. CaptureInv => CaptureTypeOK
  BY DEF CaptureInv, CaptureTypeOK, Shares, Readers, Slots
<1> QED
  BY <1>1, <1>2, <1>3

-----------------------------------------------------------------------------
(* The runtime on which starts wait: it uses the scheduler only through     *)
(* what its clients may do, so what is proved of the scheduler holds there, *)
(* and no more tasks are polled than it has threads.  A task that awaits    *)
(* has a request, because it got its permit or its session from one.        *)

Polled(f) == {k \in Keys : f[k] \in OnThread}
Beyond == {"awaiting", "woken", "resumed"}

TasksInv ==
  /\ start \in [Keys -> TaskStates] /\ stop \in [Keys -> TaskStates]
  /\ request \in [Keys -> 0 .. MaxRequests]
  /\ \A k \in Keys : start[k] \in Beyond \/ stop[k] \in Beyond => request[k] # 0
  /\ Busy =< PoolThreads
PoolInv == TypeOK /\ TasksInv

LEMMA PolledFinite ==
  ASSUME NEW f
  PROVE  IsFiniteSet(Polled(f)) /\ Cardinality(Polled(f)) \in Nat
<1>1. Polled(f) \in SUBSET Keys
  BY DEF Polled
<1> QED
  BY <1>1, KeyAssumption, FS_Subset, FS_CardinalityType

\* A task that moves takes at most one thread, and none if it had one or needs none.
LEMMA TaskMoves ==
  ASSUME NEW f \in [Keys -> TaskStates], NEW k \in Keys, NEW to \in TaskStates,
         NEW g, g = [f EXCEPT ![k] = to]
  PROVE  /\ g \in [Keys -> TaskStates] /\ g[k] = to /\ \A l \in Keys : l # k => g[l] = f[l]
         /\ Cardinality(Polled(g)) =< Cardinality(Polled(f)) + 1
         /\ to \notin OnThread \/ f[k] \in OnThread =>
              Cardinality(Polled(g)) =< Cardinality(Polled(f))
<1>1. g \in [Keys -> TaskStates] /\ g[k] = to /\ \A l \in Keys : l # k => g[l] = f[l]
  OBVIOUS
<1>2. /\ IsFiniteSet(Polled(f)) /\ IsFiniteSet(Polled(g))
      /\ Cardinality(Polled(f)) \in Nat /\ Cardinality(Polled(g)) \in Nat
  BY PolledFinite
<1>3. Polled(g) \subseteq Polled(f) \cup {k}
  BY <1>1 DEF Polled
<1>4. /\ IsFiniteSet(Polled(f) \cup {k})
      /\ Cardinality(Polled(f) \cup {k}) = IF k \in Polled(f) THEN Cardinality(Polled(f))
                                           ELSE Cardinality(Polled(f)) + 1
  BY <1>2, FS_AddElement
<1>5. Cardinality(Polled(g)) =< Cardinality(Polled(f) \cup {k})
  BY <1>3, <1>4, FS_Subset
<1>6. ASSUME to \notin OnThread \/ f[k] \in OnThread
      PROVE  Cardinality(Polled(g)) =< Cardinality(Polled(f))
  <2>1. Polled(g) \subseteq Polled(f)
    BY <1>1, <1>6 DEF Polled
  <2> QED
    BY <1>2, <2>1, FS_Subset
<1> QED
  BY <1>1, <1>2, <1>4, <1>5, <1>6

LEMMA BusyIs ==
  /\ Busy = Cardinality(Polled(start)) + Cardinality(Polled(stop))
  /\ Busy' = Cardinality(Polled(start')) + Cardinality(Polled(stop'))
  /\ Cardinality(Polled(start)) \in Nat /\ Cardinality(Polled(stop)) \in Nat
  /\ Cardinality(Polled(start')) \in Nat /\ Cardinality(Polled(stop')) \in Nat
<1>1. /\ Cardinality(Polled(start)) \in Nat /\ Cardinality(Polled(stop)) \in Nat
      /\ Cardinality(Polled(start')) \in Nat /\ Cardinality(Polled(stop')) \in Nat
  BY PolledFinite
<1>2. Busy = Cardinality(Polled(start)) + Cardinality(Polled(stop))
  BY DEF Busy, Polled
<1>3. Busy' = Cardinality(Polled(start')) + Cardinality(Polled(stop'))
  BY DEF Busy, Polled
<1> QED
  BY <1>1, <1>2, <1>3

\* The start of k moves; a task that goes beyond its first await has a request.
LEMMA StartMovesKeeps ==
  ASSUME TasksInv, NEW k \in Keys, NEW from, NEW to \in TaskStates, StartMoves(k, from, to),
         UNCHANGED <<request, stop>>,
         to \in Beyond => from \in Beyond \/ request[k] # 0,
         Busy < PoolThreads \/ to \notin OnThread \/ from \in OnThread
  PROVE  TasksInv'
<1>1. start[k] = from /\ start' = [start EXCEPT ![k] = to]
  BY DEF StartMoves
<1>2. /\ start' \in [Keys -> TaskStates] /\ start'[k] = to /\ \A l \in Keys : l # k => start'[l] = start[l]
      /\ Cardinality(Polled(start')) =< Cardinality(Polled(start)) + 1
      /\ to \notin OnThread \/ start[k] \in OnThread =>
           Cardinality(Polled(start')) =< Cardinality(Polled(start))
  BY <1>1, TaskMoves DEF TasksInv
<1>3. Busy' =< PoolThreads
  <2>1. Polled(stop') = Polled(stop) /\ Busy =< PoolThreads
    BY DEF TasksInv
  <2> QED
    BY <1>1, <1>2, <2>1, BusyIs, PoolAssumption
<1> QED
  BY <1>1, <1>2, <1>3 DEF TasksInv

\* The stop of k moves.
LEMMA StopMovesKeeps ==
  ASSUME TasksInv, NEW k \in Keys, NEW from, NEW to \in TaskStates, StopMoves(k, from, to),
         UNCHANGED <<request, start>>,
         to \in Beyond => from \in Beyond \/ request[k] # 0,
         Busy < PoolThreads \/ to \notin OnThread \/ from \in OnThread
  PROVE  TasksInv'
<1>1. stop[k] = from /\ stop' = [stop EXCEPT ![k] = to]
  BY DEF StopMoves
<1>2. /\ stop' \in [Keys -> TaskStates] /\ stop'[k] = to /\ \A l \in Keys : l # k => stop'[l] = stop[l]
      /\ Cardinality(Polled(stop')) =< Cardinality(Polled(stop)) + 1
      /\ to \notin OnThread \/ stop[k] \in OnThread =>
           Cardinality(Polled(stop')) =< Cardinality(Polled(stop))
  BY <1>1, TaskMoves DEF TasksInv
<1>3. Busy' =< PoolThreads
  <2>1. Polled(start') = Polled(start) /\ Busy =< PoolThreads
    BY DEF TasksInv
  <2> QED
    BY <1>1, <1>2, <2>1, BusyIs, PoolAssumption
<1> QED
  BY <1>1, <1>2, <1>3 DEF TasksInv

LEMMA TasksStay ==
  ASSUME TasksInv, UNCHANGED taskVars
  PROVE  TasksInv'
BY DEF TasksInv, taskVars, Busy

LEMMA RequestIs ==
  ASSUME TasksInv, NEW k \in Keys
  PROVE  /\ request[k] \in 0 .. MaxRequests /\ (request[k] # 0 => request[k] \in Ids)
         /\ \A state : Owner(k) = state /\ state # "unborn" => request[k] # 0
BY RequestsAssumption DEF TasksInv, Ids, Owner

\* What a task does of the scheduler is what a client may do.
LEMMA PoolStep ==
  ASSUME PoolInv, PoolNext
  PROVE  [Next]_vars /\ TasksInv'
<1>1. TypeOK /\ TasksInv
  BY DEF PoolInv
<1>2. /\ \A s \in {"idle", "spawned", "running", "awaiting", "woken", "resumed", "done"} : s \in TaskStates
      /\ \A s \in {"idle", "spawned", "awaiting", "woken", "done"} : s \notin OnThread
      /\ \A s \in {"running", "resumed"} : s \in OnThread
      /\ \A s \in {"idle", "spawned", "running", "done"} : s \notin Beyond
      /\ \A s \in {"awaiting", "woken", "resumed"} : s \in Beyond
  BY DEF TaskStates, OnThread, Beyond
<1> HIDE DEF TaskStates, OnThread, Beyond
<1>3. ASSUME NEW k \in Keys, ClickStart(k) \/ PollStart(k) \/ BootAwaited(k) \/ Canceled(k)
      PROVE  [Next]_vars /\ TasksInv'
  <2>1. UNCHANGED <<vars, request, stop>>
    BY <1>3 DEF ClickStart, PollStart, BootAwaited, Canceled
  <2>2. \/ StartMoves(k, "idle", "spawned")
        \/ Busy < PoolThreads /\ StartMoves(k, "spawned", "running")
        \/ Busy < PoolThreads /\ StartMoves(k, "woken", "resumed")
        \/ StartMoves(k, "awaiting", "woken")
        \/ StartMoves(k, "running", "done")
    BY <1>3 DEF ClickStart, PollStart, BootAwaited, Canceled
  <2> QED
    BY <1>1, <1>2, <2>1, <2>2, StartMovesKeeps
<1>4. ASSUME NEW k \in Keys, AwaitBoot(k)
      PROVE  [Next]_vars /\ TasksInv'
  <2>1. UNCHANGED <<vars, request, stop>> /\ StartMoves(k, "running", "awaiting") /\ request[k] # 0
    BY <1>1, <1>4, RequestIs DEF AwaitBoot
  <2> QED
    BY <1>1, <1>2, <2>1, StartMovesKeeps
<1>5. ASSUME NEW k \in Keys, NEW d \in Demands, ScheduleStart(k, d)
      PROVE  [Next]_vars /\ TasksInv'
  <2>1. Enqueue(k, d) /\ next_id < MaxRequests /\ UNCHANGED <<start, stop>>
    BY <1>5 DEF ScheduleStart, Enqueue
  <2>2. next_id + 1 \in 0 .. MaxRequests /\ next_id + 1 # 0
    BY <1>1, <2>1, RequestsAssumption DEF TypeOK
  <2>3. request' = [request EXCEPT ![k] = next_id + 1]
    BY <1>5 DEF ScheduleStart
  <2>4. /\ request' \in [Keys -> 0 .. MaxRequests]
        /\ \A l \in Keys : request[l] # 0 => request'[l] # 0
    BY <1>1, <2>2, <2>3 DEF TasksInv
  <2>5. TasksInv'
    BY <1>1, <2>1, <2>4 DEF TasksInv, Busy
  <2> QED
    BY <2>1, <2>5 DEF Next
<1>6. ASSUME NEW k \in Keys, WaitTurn(k)
      PROVE  [Next]_vars /\ TasksInv'
  <2>1. request[k] \in Ids /\ UNCHANGED taskVars
    BY <1>1, <1>6, RequestIs DEF WaitTurn
  <2>2. BeginWait(request[k]) \/ WaitCheck(request[k]) \/ OnStatus(request[k])
    BY <1>6 DEF WaitTurn
  <2> QED
    BY <1>1, <2>1, <2>2, TasksStay DEF Next
<1>7. ASSUME NEW k \in Keys, CompleteStart(k)
      PROVE  [Next]_vars /\ TasksInv'
  <2>1. /\ StartMoves(k, "resumed", "done") /\ UNCHANGED <<request, stop>>
        /\ IntoReservation(request[k]) \/ DropPermit(request[k])
    BY <1>7 DEF CompleteStart
  <2>2. request[k] \in Ids
    <3>1. start[k] \in Beyond
      BY <1>2, <2>1 DEF StartMoves
    <3> QED
      BY <1>1, <3>1, RequestIs DEF TasksInv
  <2>3. TasksInv'
    BY <1>1, <1>2, <2>1, StartMovesKeeps
  <2> QED
    BY <2>1, <2>2, <2>3 DEF Next
<1>8. ASSUME NEW k \in Keys, ClickStop(k) \/ PollStop(k) \/ ExitAwaited(k) \/ NothingToStop(k)
      PROVE  [Next]_vars /\ TasksInv'
  <2>1. UNCHANGED <<vars, request, start>>
    BY <1>8 DEF ClickStop, PollStop, ExitAwaited, NothingToStop
  <2>2. \/ StopMoves(k, "idle", "spawned")
        \/ Busy < PoolThreads /\ StopMoves(k, "spawned", "running")
        \/ Busy < PoolThreads /\ StopMoves(k, "woken", "resumed")
        \/ StopMoves(k, "awaiting", "woken")
        \/ StopMoves(k, "running", "done")
    BY <1>8 DEF ClickStop, PollStop, ExitAwaited, NothingToStop
  <2> QED
    BY <1>1, <1>2, <2>1, <2>2, StopMovesKeeps
<1>9. ASSUME NEW k \in Keys, AwaitExit(k)
      PROVE  [Next]_vars /\ TasksInv'
  <2>1. UNCHANGED <<vars, request, start>> /\ StopMoves(k, "running", "awaiting") /\ request[k] # 0
    BY <1>1, <1>9, RequestIs DEF AwaitExit
  <2> QED
    BY <1>1, <1>2, <2>1, StopMovesKeeps
<1>10. ASSUME NEW k \in Keys, CancelStart(k)
       PROVE  [Next]_vars /\ TasksInv'
  <2>1. Cancel(k) /\ StopMoves(k, "running", "done") /\ UNCHANGED <<request, start>>
    BY <1>10 DEF CancelStart
  <2>2. TasksInv'
    BY <1>1, <1>2, <2>1, StopMovesKeeps
  <2> QED
    BY <2>1, <2>2 DEF Next
<1>11. ASSUME NEW k \in Keys, CompleteStop(k)
       PROVE  [Next]_vars /\ TasksInv'
  <2>1. /\ StopMoves(k, "resumed", "done") /\ UNCHANGED <<request, start>>
        /\ DropReservation(request[k]) \/ UNCHANGED vars
    BY <1>11 DEF CompleteStop
  <2>2. request[k] \in Ids
    <3>1. stop[k] \in Beyond
      BY <1>2, <2>1 DEF StopMoves
    <3> QED
      BY <1>1, <3>1, RequestIs DEF TasksInv
  <2>3. TasksInv'
    BY <1>1, <1>2, <2>1, StopMovesKeeps
  <2> QED
    BY <2>1, <2>2, <2>3 DEF Next
<1>12. ASSUME NEW i \in Ids, SpuriousWake(i) /\ UNCHANGED taskVars
       PROVE  [Next]_vars /\ TasksInv'
  BY <1>1, <1>12, TasksStay DEF Next
<1> QED
  BY <1>3, <1>4, <1>5, <1>6, <1>7, <1>8, <1>9, <1>10, <1>11, <1>12
     DEF PoolNext, StartStep, StopStep

LEMMA PoolInitInv == PoolInit => PoolInv
<1> SUFFICES ASSUME PoolInit PROVE PoolInv
  OBVIOUS
<1>1. TypeOK
  BY InitType DEF PoolInit
<1>2. /\ start \in [Keys -> TaskStates] /\ stop \in [Keys -> TaskStates]
      /\ request \in [Keys -> 0 .. MaxRequests]
  BY RequestsAssumption DEF PoolInit, TaskStates
<1>3. \A k \in Keys : ~(start[k] \in Beyond \/ stop[k] \in Beyond)
  BY DEF PoolInit, Beyond
<1>4. Polled(start) = {} /\ Polled(stop) = {}
  BY DEF PoolInit, Polled, OnThread
<1>5. Busy =< PoolThreads
  BY <1>4, BusyIs, FS_EmptySet, PoolAssumption
<1> QED
  BY <1>1, <1>2, <1>3, <1>5 DEF PoolInv, TasksInv

\* start_device and stop_device use the scheduler as its clients may, whatever
\* their tasks do on the runtime's threads: the queue, the start limit and the
\* budget hold for them (ui/device_list.rs, ui/background.rs).
THEOREM TasksUseTheScheduler == PoolSpec => Spec
<1>1. PoolInv /\ [PoolNext]_poolVars => PoolInv' /\ [Next]_vars
  <2> SUFFICES ASSUME PoolInv, [PoolNext]_poolVars PROVE PoolInv' /\ [Next]_vars
    OBVIOUS
  <2>1. [Next]_vars /\ TasksInv'
    <3>1. CASE UNCHANGED poolVars
      BY <3>1, TasksStay DEF poolVars, PoolInv
    <3> QED
      BY <3>1, PoolStep
  <2> QED
    BY <2>1, NextType DEF PoolInv
<1>2. PoolInit => Init
  BY DEF PoolInit
<1> QED
  BY <1>1, <1>2, PoolInitInv, PTL DEF PoolSpec, Spec

-----------------------------------------------------------------------------
(* Side by side.                                                            *)

ProgressInv == PoolInv /\ CaptureInv /\ MonitorInv /\ LogInv /\ LogFits

LEMMA ProgressStep ==
  ASSUME ProgressInv, [ProgressNext]_progressVars
  PROVE  ProgressInv' /\ [Next]_vars
<1>1. /\ [CaptureNext]_captureVars /\ [MonitorNext]_monitorVars /\ [LogNext]_logVars
      /\ SchedulerMoves \/ PoolNext \/ UNCHANGED poolVars
  BY DEF ProgressNext, progressVars, RuntimeMoves
<1>2. TasksInv' /\ [Next]_vars
  <2>1. CASE SchedulerMoves
    BY <2>1, TasksStay DEF SchedulerMoves, ProgressInv, PoolInv
  <2>2. CASE UNCHANGED poolVars
    BY <2>2, TasksStay DEF poolVars, ProgressInv, PoolInv
  <2> QED
    BY <1>1, <2>1, <2>2, PoolStep DEF ProgressInv
<1>3. PoolInv'
  BY <1>2, NextType DEF ProgressInv, PoolInv
<1> QED
  BY <1>1, <1>2, <1>3, CaptureTypeInv, MonitorStepInv, LogTypeInv DEF ProgressInv

LEMMA ProgressInitInv == ProgressInit => ProgressInv /\ Init
BY PoolInitInv, CaptureTypeInv, MonitorInitInv, LogTypeInv DEF ProgressInit, ProgressInv, PoolInit

\* The types of the runtime, the capture, the monitor and the logs: no more tasks
\* are polled than the runtime has threads (ui/background.rs), no viewport has
\* seen a frame that was not published (core/stream.rs) and the channel to the
\* writer is bounded (core/process_log.rs).
THEOREM ProgressTypeCorrect == ProgressSpec => []ProgressTypeOK
<1>1. ProgressInv => ProgressTypeOK
  <2>1. ProgressInv => PoolTypeOK
    BY DEF ProgressInv, PoolInv, TasksInv, PoolTypeOK
  <2> QED
    BY <2>1, CaptureTypeInv, LogTypeInv DEF ProgressInv, MonitorInv, ProgressTypeOK
<1>2. ProgressInv /\ [ProgressNext]_progressVars => ProgressInv'
  BY ProgressStep
<1> QED
  BY <1>1, <1>2, ProgressInitInv, PTL DEF ProgressSpec

\* Side by side, the monitor forgets no report, the logs show nothing twice, and
\* the starts of the runtime get their permits in the order of their requests.
THEOREM ProgressKeepsPromises ==
  ProgressSpec => []NoReportIsForgotten /\ []NothingIsShownTwice /\ ImplementsFifo
<1>1. ProgressSpec => MonitorSpec
  <2>1. ProgressInit => MonitorInit
    BY DEF ProgressInit
  <2>2. [ProgressNext]_progressVars => [MonitorNext]_monitorVars
    BY DEF ProgressNext, progressVars
  <2> QED
    BY <2>1, <2>2, PTL DEF ProgressSpec, MonitorSpec
<1>2. ProgressSpec => []NothingIsShownTwice
  <2>1. ProgressInv /\ [ProgressNext]_progressVars => ProgressInv'
    BY ProgressStep
  <2>2. ProgressInv => NothingIsShownTwice
    BY LogShowsOnce DEF ProgressInv
  <2> QED
    BY <2>1, <2>2, ProgressInitInv, PTL DEF ProgressSpec
<1>3. ProgressSpec => Spec
  <2>1. ProgressInv /\ [ProgressNext]_progressVars => ProgressInv' /\ [Next]_vars
    BY ProgressStep
  <2> QED
    BY <2>1, ProgressInitInv, PTL DEF ProgressSpec, Spec
<1> QED
  BY <1>1, <1>2, <1>3, NoReportIsForgottenCorrect, FifoRefinement, PTL

===============================================================================
