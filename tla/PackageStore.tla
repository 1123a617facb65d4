----------------------------- MODULE PackageStore -----------------------------
(***************************************************************************)
(* Components of the SDK (core/package_service.rs, core/download.rs,       *)
(* core/install.rs, ui/images_page.rs): a task asks for the licence, takes *)
(* the locks of the download cache, makes room by pruning old entries,     *)
(* resumes or starts the download, checks it and, the locks released,      *)
(* unpacks and swaps the component, keeping the old one until the new one  *)
(* is verified.                                                            *)
(*                                                                         *)
(* An archive is a sequence of blocks, a block the generation of the       *)
(* server's file it comes from; the repository describes generation 1.     *)
(* The repository announces the size of that one, and the server's file of *)
(* another generation may be shorter or longer: nothing compares what is   *)
(* streamed with the repository's size before the download is over.        *)
(* A cache entry's age is its place in cacheOrder.  A crash ends all tasks *)
(* and leaves the files; a tombstone of a pruned entry is not kept.  The   *)
(* archives all have the same announced size.                              *)
(***************************************************************************)
EXTENDS Integers, Sequences, FiniteSets, SequencesExt

CONSTANTS PackageTasks, Packages, NoTask,
          Summed,           \* packages the repository gives a checksum for
          Blocks,           \* the size the repository announces
          Length,           \* the size of the server's file, by its generation
          LongestFile, CacheLimit, RetryAttempts,
          MaxServerChanges, MaxCrashes, MaxClicks    \* bounds

ASSUME PackageAssumption ==
  /\ Summed \subseteq Packages /\ PackageTasks \subseteq Nat /\ NoTask \notin PackageTasks
  /\ Blocks \in Nat \ {0} /\ CacheLimit \in Nat /\ RetryAttempts \in Nat \ {0}
  /\ MaxServerChanges \in Nat
  /\ IsFiniteSet(Packages)

Generations == 1 .. MaxServerChanges + 1

ASSUME LengthAssumption ==
  /\ LongestFile \in Nat
  /\ Length \in [Generations -> 1 .. LongestFile] /\ Length[1] = Blocks

NoFile == <<>>       \* an empty file counts as none
Expected == [i \in 1 .. Blocks |-> 1]

VARIABLES
  server,      \* the generation the server has of each package
  licensed,    \* whether the packages' common licence is accepted
  archive,     \* the cached archive of each package
  part,        \* its partial download
  cacheOrder,  \* the entries by their age, the oldest first
  quotaLock,   \* the task that has the cache
  installLock, \* the task that has each component's lock
  installed,   \* what is at each component's place
  backups,     \* what was moved away from it and is still there
  packageTask, \* each task
  changes, crashes, clicks

packageVars == <<server, licensed, archive, part, cacheOrder, quotaLock, installLock,
                 installed, backups, packageTask, changes, crashes, clicks>>

\* until, total: the size of the file that is sent, and the size the answer
\* announces, which is checked at the end unless it is 0
\* a component: where its blocks come from and whether its structure is whole
Nothing == [blocks |-> NoFile, whole |-> FALSE]
Resting == [at |-> "idle", package |-> CHOOSE p \in Packages : TRUE, attempt |-> 1,
            restarts |-> 0, until |-> 0, total |-> 0, staged |-> Nothing, had |-> Nothing]

PackageTypeOK ==
  /\ server \in [Packages -> Generations] /\ licensed \in BOOLEAN
  /\ quotaLock \in PackageTasks \cup {NoTask}
  /\ installLock \in [Packages -> PackageTasks \cup {NoTask}]
  /\ \A p \in Packages : /\ Len(archive[p]) =< LongestFile /\ Len(part[p]) =< LongestFile
                         /\ ToSet(archive[p]) \cup ToSet(part[p]) \subseteq Generations
  /\ \A t \in PackageTasks :
       packageTask[t].at \in {"idle", "dialog", "cache", "request", "stream", "cached", "unpack",
                       "backup", "swap", "verify", "remove", "restore", "uninstall"}

PackageInit ==
  /\ server = [p \in Packages |-> 1] /\ licensed = FALSE
  /\ archive = [p \in Packages |-> NoFile] /\ part = archive /\ cacheOrder = <<>>
  /\ quotaLock = NoTask /\ installLock = [p \in Packages |-> NoTask]
  /\ installed = [p \in Packages |-> Nothing] /\ backups = [p \in Packages |-> {}]
  /\ packageTask = [t \in PackageTasks |-> Resting] /\ changes = 0 /\ crashes = 0 /\ clicks = 0

----------------------------------------------------------------------------
(* The page, the licence *)

TaskGoes(t, at) == packageTask' = [packageTask EXCEPT ![t].at = at]
TaskEnds(t) == packageTask' = [packageTask EXCEPT ![t] = Resting]
Of(t) == packageTask[t].package

\* tasks are alike: a new one is the first that rests
IsNext(t) == /\ packageTask[t].at = "idle"
             /\ \A u \in PackageTasks : u < t => packageTask[u].at # "idle"

\* a row that was drawn anew has a button again: two tasks may be at one package
ClickDownload(t, p) ==
  /\ IsNext(t) /\ clicks < MaxClicks /\ clicks' = clicks + 1
  /\ packageTask' = [packageTask EXCEPT ![t] =
       [Resting EXCEPT !.at = IF licensed THEN "cache" ELSE "dialog", !.package = p]]
  /\ UNCHANGED <<server, licensed, archive, part, cacheOrder, quotaLock, installLock,
                 installed, backups, changes, crashes>>

AcceptLicense(t) ==
  /\ packageTask[t].at = "dialog" /\ TaskGoes(t, "cache")
  /\ licensed' = TRUE
  /\ UNCHANGED <<server, archive, part, cacheOrder, quotaLock, installLock, installed,
                 backups, changes, crashes, clicks>>

DeclineLicense(t) ==
  /\ packageTask[t].at = "dialog" /\ TaskEnds(t)
  /\ UNCHANGED <<server, licensed, archive, part, cacheOrder, quotaLock, installLock,
                 installed, backups, changes, crashes, clicks>>

----------------------------------------------------------------------------
(* The cache *)

Payload(p) == Len(archive[p]) + Len(part[p])
Others(t) == {p \in Packages : p # Of(t)}

\* the blocks that entries take up
Stored(ps) == {b \in ps \X (1 .. 2 * LongestFile) : b[2] =< Payload(b[1])}
UsedBy(ps) == Cardinality(Stored(ps))

OlderThan(p) ==
  {q \in Packages : \E i \in 1 .. Len(cacheOrder) :
     cacheOrder[i] = q /\ \A j \in 1 .. Len(cacheOrder) : cacheOrder[j] = p => i < j}

\* A measure of the entries that leaves out the parts of failed downloads.
PrunedByArchives(t, size) ==
  {p \in Others(t) :
     Cardinality({b \in (Others(t) \ OlderThan(p)) \X (1 .. LongestFile) : b[2] =< Len(archive[b[1]])})
       + size > CacheLimit}

\* ensure_cache_capacity: the entries that go, the oldest first and no more than
\* needed: one goes when what is not older than it leaves too little room
Pruned(t, size) == {p \in Others(t) : UsedBy(Others(t) \ OlderThan(p)) + size > CacheLimit}

Fits(t, size) == size =< CacheLimit

\* the entry's directory changes, it is the newest now
EntryChanges(p) == cacheOrder' = Append(SelectSeq(cacheOrder, LAMBDA q : q # p), p)

\* the entries that are left, and p's directory, which is made when it is not there
CacheOrderAfter(gone, p) ==
  LET left == SelectSeq(cacheOrder, LAMBDA q : q \notin gone)
  IN IF p \in ToSet(left) THEN left ELSE Append(left, p)

\* the lease of the whole cache and the entry's lock; the archive there may do,
\* which leaves the entry as old as it is, or else is removed
TakeCache(t) ==
  /\ packageTask[t].at = "cache"
  /\ IF quotaLock # NoTask \/ ~Fits(t, Blocks)
     THEN TaskEnds(t) /\ UNCHANGED <<archive, part, cacheOrder, quotaLock>>
     ELSE LET gone == Pruned(t, Blocks)
              usable == /\ Len(archive[Of(t)]) = Blocks
                        /\ Of(t) \in Summed => archive[Of(t)] = Expected
          IN /\ quotaLock' = t
             /\ archive' = [p \in Packages |->
                              IF p \in gone \/ (p = Of(t) /\ ~usable) THEN NoFile ELSE archive[p]]
             /\ part' = [p \in Packages |-> IF p \in gone THEN NoFile ELSE part[p]]
             /\ cacheOrder' = IF usable \/ archive[Of(t)] = NoFile THEN CacheOrderAfter(gone, Of(t))
                              ELSE CacheOrderAfter(gone \cup {Of(t)}, Of(t))
             /\ TaskGoes(t, IF usable THEN "cached" ELSE "request")
  /\ UNCHANGED <<server, licensed, installLock, installed, backups, changes, crashes, clicks>>

\* what was downloaded is measured again, then the locks go
LeaveCache(t) ==
  /\ packageTask[t].at = "cached" /\ TaskGoes(t, "unpack")
  /\ quotaLock' = NoTask
  /\ UNCHANGED <<server, licensed, archive, part, cacheOrder, installLock, installed,
                 backups, changes, crashes, clicks>>

----------------------------------------------------------------------------
(* The download *)

ServerChanges(p) ==
  /\ changes < MaxServerChanges
  /\ server' = [server EXCEPT ![p] = @ + 1] /\ changes' = changes + 1
  /\ UNCHANGED <<licensed, archive, part, cacheOrder, quotaLock, installLock, installed,
                 backups, packageTask, crashes, clicks>>

\* The rest of the part is sent, or the whole, with its size or without: the rest
\* of an unknown size makes the part's own size the total.
ServerAnswers(t, resume, announced) ==
  LET p == Of(t)
      had == Len(part[p])
      size == Length[server[p]]
  IN /\ packageTask[t].at = "request"
     /\ resume => 0 < had /\ had < size
     /\ packageTask' = [packageTask EXCEPT ![t].at = "stream", ![t].until = size,
          ![t].total = IF announced THEN size ELSE IF resume THEN had ELSE 0]
     /\ part' = IF resume THEN part ELSE [part EXCEPT ![p] = NoFile]
     /\ IF part[p] = NoFile THEN EntryChanges(p) ELSE UNCHANGED cacheOrder
     /\ UNCHANGED <<server, licensed, archive, quotaLock, installLock, installed, backups,
                    changes, crashes, clicks>>

\* an error of the network or of the size leaves the part to the next attempt
RetryOrFail(t) ==
  IF packageTask[t].attempt < RetryAttempts
  THEN /\ packageTask' = [packageTask EXCEPT ![t].at = "request", ![t].attempt = @ + 1,
                                             ![t].restarts = 0]
       /\ UNCHANGED quotaLock
  ELSE TaskEnds(t) /\ quotaLock' = NoTask

\* the range is refused or is not the one asked for: from the start, once
RangeRefused(t) ==
  /\ packageTask[t].at = "request" /\ part[Of(t)] # NoFile
  /\ part' = [part EXCEPT ![Of(t)] = NoFile] /\ EntryChanges(Of(t))
  /\ IF packageTask[t].restarts = 0
     THEN packageTask' = [packageTask EXCEPT ![t].restarts = 1] /\ UNCHANGED quotaLock
     ELSE RetryOrFail(t)
  /\ UNCHANGED <<server, licensed, archive, installLock, installed, backups,
                 changes, crashes, clicks>>

HttpFails(t) ==
  /\ packageTask[t].at = "request" /\ TaskEnds(t)
  /\ quotaLock' = NoTask /\ part' = [part EXCEPT ![Of(t)] = NoFile]
  /\ IF part[Of(t)] = NoFile THEN UNCHANGED cacheOrder ELSE EntryChanges(Of(t))
  /\ UNCHANGED <<server, licensed, archive, installLock, installed, backups,
                 changes, crashes, clicks>>

BlockArrives(t) ==
  /\ packageTask[t].at = "stream" /\ Len(part[Of(t)]) < packageTask[t].until
  /\ part' = [part EXCEPT ![Of(t)] = Append(@, server[Of(t)])]
  /\ UNCHANGED <<server, licensed, archive, cacheOrder, quotaLock, installLock, installed,
                 backups, packageTask, changes, crashes, clicks>>

\* no connection, a broken one, an end before the announced size; or the part
\* cannot be written or renamed
NetworkFails(t) ==
  /\ packageTask[t].at \in {"request", "stream"} /\ RetryOrFail(t)
  /\ UNCHANGED <<server, licensed, archive, part, cacheOrder, installLock, installed,
                 backups, changes, crashes, clicks>>

\* all has come, or as much as an answer that announces no size sends
StreamIsOver(t) ==
  /\ packageTask[t].at = "stream"
  /\ Len(part[Of(t)]) = packageTask[t].until \/ packageTask[t].total # packageTask[t].until

\* the whole of what the server announced, if it announced anything
SizeAgrees(t) == packageTask[t].total \in {0, Len(part[Of(t)])}

\* the part becomes the archive; one of another size stays there, and fails the task
Rename(t) ==
  /\ part' = [part EXCEPT ![Of(t)] = NoFile] /\ EntryChanges(Of(t))
  /\ archive' = [archive EXCEPT ![Of(t)] = part[Of(t)]]
  /\ IF Len(part[Of(t)]) = Blocks THEN TaskGoes(t, "cached") /\ UNCHANGED quotaLock
     ELSE TaskEnds(t) /\ quotaLock' = NoTask

\* A download accepted for its size alone.
StreamEndsUnchecked(t) ==
  /\ StreamIsOver(t) /\ SizeAgrees(t) /\ Rename(t)
  /\ UNCHANGED <<server, licensed, installLock, installed, backups, changes, crashes, clicks>>

\* The size is the server's; the checksum is over what was there and what arrived.
\* Then the file is renamed, and only then compared with the repository's size.
StreamEnds(t) ==
  /\ StreamIsOver(t)
  /\ \/ ~SizeAgrees(t) /\ RetryOrFail(t) /\ UNCHANGED <<archive, part, cacheOrder>>
     \/ /\ SizeAgrees(t) /\ Of(t) \in Summed /\ part[Of(t)] # Expected
        /\ part' = [part EXCEPT ![Of(t)] = NoFile] /\ EntryChanges(Of(t))
        /\ TaskEnds(t) /\ quotaLock' = NoTask /\ UNCHANGED archive
     \/ SizeAgrees(t) /\ (Of(t) \in Summed => part[Of(t)] = Expected) /\ Rename(t)
  /\ UNCHANGED <<server, licensed, installLock, installed, backups, changes, crashes, clicks>>

----------------------------------------------------------------------------
(* install_component, uninstall_component *)

Unlocked(t) == installLock' = [installLock EXCEPT ![Of(t)] = NoTask]

Unpack(t, whole) ==
  /\ packageTask[t].at = "unpack" /\ installLock[Of(t)] = NoTask /\ archive[Of(t)] # NoFile
  /\ installLock' = [installLock EXCEPT ![Of(t)] = t]
  /\ packageTask' = [packageTask EXCEPT ![t].at = "backup", ![t].staged =
                       [blocks |-> archive[Of(t)], whole |-> whole]]
  /\ UNCHANGED <<server, licensed, archive, part, cacheOrder, quotaLock, installed, backups,
                 changes, crashes, clicks>>

\* another task has the component or pruned the archive, it is no zip, or the old
\* version cannot be moved
InstallFails(t) ==
  /\ packageTask[t].at \in {"unpack", "backup"} /\ TaskEnds(t)
  /\ installLock' = [p \in Packages |-> IF installLock[p] = t THEN NoTask ELSE installLock[p]]
  /\ UNCHANGED <<server, licensed, archive, part, cacheOrder, quotaLock, installed, backups,
                 changes, crashes, clicks>>

\* An installation that deletes the old copy to make room for the new one.
DeleteOld(t) ==
  /\ packageTask[t].at = "backup" /\ TaskGoes(t, "swap")
  /\ installed' = [installed EXCEPT ![Of(t)] = Nothing]
  /\ UNCHANGED <<server, licensed, archive, part, cacheOrder, quotaLock, installLock, backups,
                 changes, crashes, clicks>>

MoveOldAway(t) ==
  /\ packageTask[t].at = "backup"
  /\ packageTask' = [packageTask EXCEPT ![t].at = "swap", ![t].had = installed[Of(t)]]
  /\ backups' = IF installed[Of(t)] = Nothing THEN backups
                ELSE [backups EXCEPT ![Of(t)] = @ \cup {installed[Of(t)]}]
  /\ installed' = [installed EXCEPT ![Of(t)] = Nothing]
  /\ UNCHANGED <<server, licensed, archive, part, cacheOrder, quotaLock, installLock,
                 changes, crashes, clicks>>

MoveNewIn(t) ==
  /\ packageTask[t].at = "swap" /\ TaskGoes(t, "verify")
  /\ installed' = [installed EXCEPT ![Of(t)] = packageTask[t].staged]
  /\ UNCHANGED <<server, licensed, archive, part, cacheOrder, quotaLock, installLock,
                 backups, changes, crashes, clicks>>

\* the directory around the component cannot be made: an early return, with the
\* old version moved away
PlaceUnavailable(t) ==
  /\ packageTask[t].at = "swap" /\ Unlocked(t) /\ TaskEnds(t)
  /\ UNCHANGED <<server, licensed, archive, part, cacheOrder, quotaLock, installed, backups,
                 changes, crashes, clicks>>

CommitInstall(t) ==
  /\ packageTask[t].at = "verify" /\ installed[Of(t)].whole
  /\ backups' = [backups EXCEPT ![Of(t)] = @ \ {packageTask[t].had}]
  /\ Unlocked(t) /\ TaskEnds(t)
  /\ UNCHANGED <<server, licensed, archive, part, cacheOrder, quotaLock, installed,
                 changes, crashes, clicks>>

\* the new version could not be moved in, or is not whole
RollBack(t) ==
  /\ packageTask[t].at \in {"swap", "verify"} /\ ~installed[Of(t)].whole
  /\ TaskGoes(t, "restore")
  /\ installed' = [installed EXCEPT ![Of(t)] = Nothing]
  /\ UNCHANGED <<server, licensed, archive, part, cacheOrder, quotaLock, installLock,
                 backups, changes, crashes, clicks>>

\* the old version is moved back; when that fails it stays where it was moved
RestoreOld(t, restored) ==
  /\ packageTask[t].at = "restore"
  /\ IF restored
     THEN /\ installed' = [installed EXCEPT ![Of(t)] = packageTask[t].had]
          /\ backups' = [backups EXCEPT ![Of(t)] = @ \ {packageTask[t].had}]
     ELSE UNCHANGED <<installed, backups>>
  /\ Unlocked(t) /\ TaskEnds(t)
  /\ UNCHANGED <<server, licensed, archive, part, cacheOrder, quotaLock, changes, crashes, clicks>>

\* the lock, the component's presence; a process that runs from it keeps it
Uninstall(t, p) ==
  /\ IsNext(t) /\ clicks < MaxClicks /\ clicks' = clicks + 1
  /\ installLock[p] = NoTask /\ installed[p] # Nothing
  /\ installLock' = [installLock EXCEPT ![p] = t]
  /\ installed' = [installed EXCEPT ![p].whole = FALSE]
  /\ packageTask' = [packageTask EXCEPT ![t] = [Resting EXCEPT !.at = "uninstall", !.package = p]]
  /\ UNCHANGED <<server, licensed, archive, part, cacheOrder, quotaLock, backups, changes, crashes>>

UninstallEnds(t) ==
  /\ packageTask[t].at = "uninstall"
  /\ installed' = [installed EXCEPT ![Of(t)] = Nothing]
  /\ Unlocked(t) /\ TaskEnds(t)
  /\ UNCHANGED <<server, licensed, archive, part, cacheOrder, quotaLock, backups, changes, crashes, clicks>>

PackageCrash ==
  /\ crashes < MaxCrashes /\ crashes' = crashes + 1
  /\ packageTask' = [t \in PackageTasks |-> Resting]
  /\ quotaLock' = NoTask /\ installLock' = [p \in Packages |-> NoTask]
  /\ UNCHANGED <<server, licensed, archive, part, cacheOrder, installed, backups, changes, clicks>>

----------------------------------------------------------------------------

PackageNext ==
  \/ \E p \in Packages : ServerChanges(p)
  \/ PackageCrash
  \/ \E t \in PackageTasks :
       \/ AcceptLicense(t) \/ DeclineLicense(t)
       \/ TakeCache(t) \/ LeaveCache(t)
       \/ RangeRefused(t) \/ HttpFails(t) \/ BlockArrives(t) \/ NetworkFails(t) \/ StreamEnds(t)
       \/ MoveOldAway(t) \/ MoveNewIn(t) \/ CommitInstall(t) \/ RollBack(t)
       \/ PlaceUnavailable(t)
       \/ InstallFails(t)
       \/ UninstallEnds(t)
       \/ \E resume, announced \in BOOLEAN : ServerAnswers(t, resume, announced)
       \/ \E restored \in BOOLEAN : RestoreOld(t, restored)
       \/ \E whole \in BOOLEAN : Unpack(t, whole)
       \/ \E p \in Packages : ClickDownload(t, p) \/ Uninstall(t, p)

PackageSpec == PackageInit /\ [][PackageNext]_packageVars

----------------------------------------------------------------------------

\* What is unpacked is what the repository describes, where it gives a checksum:
\* no resumed download that mixes two files of the server, no archive an earlier
\* task or an earlier process left, is installed.
InstallsWhatWasChecked ==
  \A p \in Summed : installed[p] # Nothing => installed[p].blocks = Expected

\* Whenever no task is in the cache, there is an entry such that the others, the
\* parts of failed downloads among them, leave the room its archive is announced
\* to need: the limit is kept but for what the last download received beyond the
\* announced size (ensure_cache_capacity, under the cache's lease).  Oversized
\* entries do not add up: the next download makes room for itself beside them.
CacheKeepsItsLimit ==
  quotaLock = NoTask =>
    \/ UsedBy(Packages) = 0
    \/ \E p \in Packages : UsedBy(Packages \ {p}) + Blocks =< CacheLimit

\* No step of an installation leaves a component with no whole copy, in place or
\* moved away, if it had one: only the user's uninstall removes the last.
HasWhole(p) == installed[p].whole \/ \E b \in backups[p] : b.whole
WholeCopyIsKept ==
  [][\A p \in Packages : HasWhole(p) /\ ~HasWhole(p)' =>
       \E t \in PackageTasks : packageTask'[t].at = "uninstall" /\ packageTask[t].at = "idle"]_packageVars

=============================================================================
