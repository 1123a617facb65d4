------------------------------ MODULE ProcessLog ------------------------------
(***************************************************************************)
(* The log of an emulator process (core/process_log.rs): a thread per pipe *)
(* sends what it reads over a bounded channel to the writer thread, which  *)
(* appends it to the current file and rotates that file to the previous    *)
(* one before it would grow past the limit.  The session page reads both   *)
(* files, and exports what it shows, while the writer goes on.             *)
(*                                                                         *)
(* A file is the sequence of its entries, an entry the number of its chunk *)
(* and where it ends in the file; the stream's prefix and the separator    *)
(* have size one.                                                          *)
(***************************************************************************)
EXTENDS Integers, Sequences, SequencesExt

CONSTANTS Pipes,             \* stdout and stderr
          ChunkSizes, LogFileLimit, ChannelCapacity,
          MaxChunks          \* bound: chunks the process writes

ASSUME LogAssumption ==
  /\ ChunkSizes \subseteq Nat \ {0} /\ LogFileLimit \in Nat /\ LogFileLimit > 1
  /\ ChannelCapacity \in Nat \ {0} /\ MaxChunks \in Nat

Missing == <<[n |-> 0, end |-> 0]>>      \* no such file
NoReading == [at |-> "none", text |-> <<>>]
Chunks == [n : 1 .. MaxChunks, size : ChunkSizes]

VARIABLES
  pipe,      \* what the process wrote and no thread has read, of each pipe
  held,      \* the chunk each thread has read and not sent; none: <<>>
  channel,   \* what the writer has not received
  writer,    \* where it is in append_bounded, or "closed"; the chunk it has
  logFile, oldFile,
  written,   \* chunks the process wrote
  reading    \* the page's or the export's reading: where it is, and what it has

logVars == <<pipe, held, channel, writer, logFile, oldFile, written, reading>>

FileSize(file) == IF file = <<>> THEN 0 ELSE Last(file).end

LogTypeOK ==
  /\ pipe \in [Pipes -> Seq(Chunks)] /\ held \in [Pipes -> Seq(Chunks)]
  /\ channel \in Seq(Chunks) /\ Len(channel) =< ChannelCapacity
  /\ writer.at \in {"receive", "remove", "rename", "create", "append", "closed"}
  /\ reading.at \in {"none", "current", "shown"}

LogInit ==
  /\ pipe = [p \in Pipes |-> <<>>] /\ held = [p \in Pipes |-> <<>>]
  /\ channel = <<>> /\ writer = [at |-> "receive", chunk |-> <<>>] /\ logFile = <<>> /\ oldFile = Missing
  /\ written = 0 /\ reading = NoReading

----------------------------------------------------------------------------

ProcessWrites(p, size) ==
  /\ written < MaxChunks
  /\ written' = written + 1
  /\ pipe' = [pipe EXCEPT ![p] = Append(@, [n |-> written + 1, size |-> size])]
  /\ UNCHANGED <<held, channel, writer, logFile, oldFile, reading>>

\* spawn_reader: one read, then a send that waits while the channel is full
ThreadReads(p) ==
  /\ pipe[p] # <<>> /\ held[p] = <<>>
  /\ pipe' = [pipe EXCEPT ![p] = Tail(@)]
  /\ held' = [held EXCEPT ![p] = <<Head(pipe[p])>>]
  /\ UNCHANGED <<channel, writer, logFile, oldFile, written, reading>>

ThreadSends(p) ==
  /\ held[p] # <<>> /\ writer.at # "closed" /\ Len(channel) < ChannelCapacity
  /\ channel' = channel \o held[p]
  /\ held' = [held EXCEPT ![p] = <<>>]
  /\ UNCHANGED <<pipe, writer, logFile, oldFile, written, reading>>

\* A thread that tries again to send to a writer that is gone.
ThreadRetries(p) ==
  /\ writer.at = "closed" /\ held[p] # <<>>
  /\ UNCHANGED logVars

\* the writer is gone: the thread ends and closes its end of the pipe, so that
\* the process fails to write instead of waiting
ThreadEnds(p) ==
  /\ writer.at = "closed" /\ held[p] # <<>>
  /\ pipe' = [pipe EXCEPT ![p] = <<>>] /\ held' = [held EXCEPT ![p] = <<>>]
  /\ UNCHANGED <<channel, writer, logFile, oldFile, written, reading>>

----------------------------------------------------------------------------
(* append_bounded *)

\* a chunk larger than the file may be loses its beginning
Bounded(chunk) == [chunk EXCEPT !.size = IF @ > LogFileLimit - 1 THEN LogFileLimit - 1 ELSE @]
Current == IF logFile = Missing THEN <<>> ELSE logFile
\* An entry whose separator is not counted.
EntrySizeUnseparated(chunk) == Bounded(chunk).size + 1

EntrySize(chunk) == Bounded(chunk).size + 1 + (IF Current = <<>> THEN 0 ELSE 1)

WriterReceives ==
  /\ writer.at = "receive" /\ channel # <<>>
  /\ channel' = Tail(channel)
  /\ writer' = [chunk |-> <<Bounded(Head(channel))>>, at |->
       IF Current # <<>> /\ FileSize(Current) + EntrySize(Head(channel)) > LogFileLimit
       THEN "remove" ELSE "append"]
  /\ UNCHANGED <<pipe, held, logFile, oldFile, written, reading>>

RemovePrevious ==
  /\ writer.at = "remove"
  /\ oldFile' = Missing /\ writer' = [writer EXCEPT !.at = "rename"]
  /\ UNCHANGED <<pipe, held, channel, logFile, written, reading>>

RenameCurrent ==
  /\ writer.at = "rename"
  /\ oldFile' = logFile /\ logFile' = Missing /\ writer' = [writer EXCEPT !.at = "create"]
  /\ UNCHANGED <<pipe, held, channel, written, reading>>

CreateCurrent ==
  /\ writer.at = "create"
  /\ logFile' = <<>> /\ writer' = [writer EXCEPT !.at = "append"]
  /\ UNCHANGED <<pipe, held, channel, oldFile, written, reading>>

\* the separator if the file has something by now, the prefix, the chunk
Entry(chunk) ==
  [n |-> chunk.n, end |-> FileSize(Current) + (IF Current = <<>> THEN 0 ELSE 1) + 1 + chunk.size]

AppendEntry ==
  /\ writer.at = "append"
  /\ logFile' = Append(Current, Entry(Head(writer.chunk)))
  /\ writer' = [at |-> "receive", chunk |-> <<>>]
  /\ UNCHANGED <<pipe, held, channel, oldFile, written, reading>>

\* a step fails: the writer ends, and with it the channel
WriterFails ==
  /\ writer.at \in {"rename", "create", "append"}
  /\ writer' = [at |-> "closed", chunk |-> <<>>] /\ channel' = <<>>
  /\ UNCHANGED <<pipe, held, logFile, oldFile, written, reading>>

----------------------------------------------------------------------------
(* The session page: it reads the two files to show them, and again to    *)
(* export them                                                             *)

PreviousText == IF oldFile = Missing THEN <<>> ELSE oldFile

ReadPrevious ==
  /\ reading.at = "none"
  /\ reading' = [at |-> "current", text |-> PreviousText]
  /\ UNCHANGED <<pipe, held, channel, writer, logFile, oldFile, written>>

\* the current file may just have been renamed: the page shows the error
ReadCurrent ==
  /\ reading.at = "current"
  /\ reading' = IF logFile = Missing THEN NoReading
                ELSE [at |-> "shown", text |-> reading.text \o logFile]
  /\ UNCHANGED <<pipe, held, channel, writer, logFile, oldFile, written>>

CloseReading ==
  /\ reading.at = "shown"
  /\ reading' = NoReading
  /\ UNCHANGED <<pipe, held, channel, writer, logFile, oldFile, written>>

\* the export reads both files anew, and links a temporary file to a destination
\* that must not exist
ExportLog ==
  /\ reading.at = "shown"
  /\ reading' = [at |-> "current", text |-> PreviousText]
  /\ UNCHANGED <<pipe, held, channel, writer, logFile, oldFile, written>>

----------------------------------------------------------------------------

LogStep ==
  \/ \E p \in Pipes : ThreadReads(p) \/ ThreadSends(p) \/ ThreadEnds(p)
  \/ WriterReceives \/ RemovePrevious \/ RenameCurrent \/ CreateCurrent \/ AppendEntry

LogNext ==
  \/ LogStep \/ WriterFails
  \/ ReadPrevious \/ ReadCurrent \/ CloseReading \/ ExportLog
  \/ \E p \in Pipes, size \in ChunkSizes : ProcessWrites(p, size)

LogSpec == LogInit /\ [][LogNext]_logVars /\ WF_logVars(LogStep)

----------------------------------------------------------------------------

\* The page never shows an entry twice, however the files are rotated while it
\* reads them, and neither file is ever longer than the limit above which a
\* reading is refused (read_bounded_file).
NothingIsShownTwice ==
  /\ \A f \in {Current, oldFile} : FileSize(f) =< LogFileLimit
  /\ \A i, j \in 1 .. Len(reading.text) : i # j => reading.text[i].n # reading.text[j].n

\* The emulator is never kept waiting by its log: what it writes is read, or the
\* pipe closed, also when the writer cannot go on.
OutputIsTaken == \A p \in Pipes : pipe[p] # <<>> ~> pipe[p] = <<>>

=============================================================================
