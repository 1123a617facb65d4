----------------------------- MODULE RecoveryLease -----------------------------
(***************************************************************************)
(* The gRPC identity of a managed engine and its virtual microphone        *)
(* (core/grpc_auth.rs, the endpoint of core/microphone.rs): the private    *)
(* directory named for the process that made it, the key and the record    *)
(* another process recovers the session from, the lease that keeps two     *)
(* processes from doing so, and the modules loaded into the sound server.  *)
(*                                                                         *)
(* A process ends at any step, with its window or by a crash: either way   *)
(* what it registered is left as it is (InstanceRegistry::drop preserves   *)
(* what the registry has).  The next process is another one.               *)
(***************************************************************************)
EXTENDS Integers, FiniteSets

CONSTANTS Processes,    \* liteavd's processes in the order of their starts
          Keys,         \* identities in the order of the launches
          NoProcess, NoKey,
          MaxRunning,   \* bound: processes that run at the same time
          MaxFaults     \* bound: times the sound server or a FIFO fails liteavd

ASSUME RecoveryAssumption ==
  /\ Processes \subseteq Nat /\ Keys \subseteq Nat
  /\ NoProcess \notin Processes /\ NoKey \notin Keys
  /\ MaxRunning \in Nat /\ MaxFaults \in Nat

VARIABLES
  up,         \* processes that run
  past,       \* processes that have ended
  dir,        \* the session directory of each identity: owner, and what is in it
  lease,      \* who holds the lock of each identity's recovery.lock
  modules,    \* its modules in the sound server
  jwk,        \* identities whose public key is in the engine's directory
  engines,    \* the engine of each identity
  auth,       \* the identities each process has in memory
  endpoint,   \* the microphone endpoints each process has in memory
  cleaning,   \* the endpoints whose cleanup thread runs in a process
  jobs,        \* what each process is doing: a launch, a recovery
  used,       \* identities that have been made
  faults      \* times pactl or a FIFO has failed where no retry follows

recoveryVars == <<up, past, dir, lease, modules, jwk, engines, auth, endpoint, cleaning, jobs, used,
                  faults>>

NoDir == [owner |-> NoProcess, key |-> FALSE, record |-> FALSE, metadata |-> FALSE]
Idle == [at |-> "none", key |-> NoKey]

RecoveryTypeOK ==
  /\ up \subseteq Processes /\ past \subseteq Processes /\ up \cap past = {}
  /\ \A k \in Keys : dir[k].owner \in Processes \cup {NoProcess}
  /\ lease \in [Keys -> Processes \cup {NoProcess}]
  /\ modules \in [Keys -> SUBSET {"sink", "source"}]
  /\ engines \in [Keys -> {"none", "alive", "dead"}]
  /\ auth \in [Processes -> SUBSET Keys] /\ endpoint \in [Processes -> SUBSET Keys]
  /\ cleaning \in [Processes -> SUBSET Keys]
  /\ faults \in 0 .. MaxFaults

RecoveryInit ==
  /\ up = {} /\ past = {} /\ dir = [k \in Keys |-> NoDir]
  /\ lease = [k \in Keys |-> NoProcess] /\ modules = [k \in Keys |-> {}] /\ jwk = {}
  /\ engines = [k \in Keys |-> "none"]
  /\ auth = [p \in Processes |-> {}] /\ endpoint = [p \in Processes |-> {}]
  /\ cleaning = [p \in Processes |-> {}] /\ jobs = [p \in Processes |-> Idle]
  /\ used = {} /\ faults = 0

----------------------------------------------------------------------------

ProcessStarts(p) ==
  /\ p \notin up \cup past /\ Cardinality(up) < MaxRunning
  /\ \A q \in Processes : q < p => q \in up \cup past
  /\ up' = up \cup {p}
  /\ UNCHANGED <<past, dir, lease, modules, jwk, engines, auth, endpoint, cleaning, jobs, used, faults>>

ProcessExits(p) ==
  /\ p \in up
  /\ up' = up \ {p} /\ past' = past \cup {p}
  /\ lease' = [k \in Keys |-> IF lease[k] = p THEN NoProcess ELSE lease[k]]
  /\ auth' = [auth EXCEPT ![p] = {}] /\ endpoint' = [endpoint EXCEPT ![p] = {}]
  /\ cleaning' = [cleaning EXCEPT ![p] = {}] /\ jobs' = [jobs EXCEPT ![p] = Idle]
  /\ UNCHANGED <<dir, modules, jwk, engines, used, faults>>

EngineDies(k) ==
  /\ engines[k] = "alive"
  /\ engines' = [engines EXCEPT ![k] = "dead"]
  /\ UNCHANGED <<up, past, dir, lease, modules, jwk, auth, endpoint, cleaning, jobs, used, faults>>

JobAt(p, at, k) == p \in up /\ jobs[p] = [at |-> at, key |-> k]
JobGoes(p, at) == jobs' = [jobs EXCEPT ![p].at = at]
Ends(p) == jobs' = [jobs EXCEPT ![p] = Idle]

\* A call of the sound server that fails is not made again.
Fault == faults < MaxFaults /\ faults' = faults + 1

\* unload_module ignores the failure of pactl: what is left of what was loaded.
Unload(left) == IF left = {} THEN UNCHANGED faults ELSE Fault

----------------------------------------------------------------------------
(* A new identity, and what is stale *)

\* Staleness by the owner alone, as if its engine had ended with it.
StaleByOwner(k) == dir[k].owner \in Processes \ up

\* cleanup_stale_session_dirs: the record's engine is gone, or there is no
\* record, and the process that made the directory is gone
Stale(k) ==
  /\ dir[k].owner \in Processes \ up
  /\ dir[k].record => engines[k] # "alive"

\* cleanup_stale_auth_dir unloads the modules the metadata names, if pactl can
\* list and unload them; the directory goes either way
NewIdentity(p, k) ==
  /\ p \in up /\ jobs[p] = Idle
  /\ dir[k].owner = NoProcess /\ k \notin used /\ \A l \in Keys : l < k => l \in used
  /\ used' = used \cup {k}
  /\ dir' = [l \in Keys |-> IF l = k THEN [NoDir EXCEPT !.owner = p]
                            ELSE IF Stale(l) THEN NoDir ELSE dir[l]]
  /\ \E kept \in SUBSET {l \in Keys : Stale(l) /\ dir[l].metadata /\ modules[l] # {}} :
       /\ modules' = [l \in Keys |-> IF Stale(l) /\ dir[l].metadata /\ l \notin kept
                                    THEN {} ELSE modules[l]]
       /\ Unload(kept)
  /\ auth' = [auth EXCEPT ![p] = @ \cup {k}]
  /\ jobs' = [jobs EXCEPT ![p] = [at |-> "created", key |-> k]]
  /\ UNCHANGED <<up, past, lease, jwk, engines, endpoint, cleaning>>

----------------------------------------------------------------------------
(* The microphone's endpoint: sink, source, metadata *)

LoadSink(p, k) ==
  /\ JobAt(p, "created", k) /\ JobGoes(p, "sink")
  /\ modules' = [modules EXCEPT ![k] = {"sink"}]
  /\ UNCHANGED <<up, past, dir, lease, jwk, engines, auth, endpoint, cleaning, used, faults>>

LoadSource(p, k) ==
  /\ JobAt(p, "sink", k) /\ JobGoes(p, "source")
  /\ modules' = [modules EXCEPT ![k] = @ \cup {"source"}]
  /\ UNCHANGED <<up, past, dir, lease, jwk, engines, auth, endpoint, cleaning, used, faults>>

WriteMetadata(p, k) ==
  /\ JobAt(p, "source", k) /\ JobGoes(p, "audio")
  /\ dir' = [dir EXCEPT ![k].metadata = TRUE]
  /\ endpoint' = [endpoint EXCEPT ![p] = @ \cup {k}]
  /\ UNCHANGED <<up, past, lease, modules, jwk, engines, auth, cleaning, used, faults>>

\* A failure that forgets the sink loaded before the source.
EndpointFailsKeepsSink(p, k) ==
  /\ \E at \in {"created", "sink", "source"} : JobAt(p, at, k)
  /\ JobGoes(p, "audio")
  /\ UNCHANGED <<up, past, dir, lease, modules, jwk, engines, auth, endpoint, cleaning, used, faults>>

\* what was loaded is unloaded, if pactl can; a launch that does not need it goes
\* on without
EndpointFails(p, k) ==
  /\ \E at \in {"created", "sink", "source"} : JobAt(p, at, k)
  /\ JobGoes(p, "audio")
  /\ \E left \in SUBSET modules[k] : modules' = [modules EXCEPT ![k] = left] /\ Unload(left)
  /\ UNCHANGED <<up, past, dir, lease, jwk, engines, auth, endpoint, cleaning, used>>

----------------------------------------------------------------------------
(* The engine starts, its key is installed, its identity bound *)

EngineStarts(p, k) ==
  /\ JobAt(p, "audio", k) /\ JobGoes(p, "engine")
  /\ engines' = [engines EXCEPT ![k] = "alive"]
  /\ UNCHANGED <<up, past, dir, lease, modules, jwk, auth, endpoint, cleaning, used, faults>>

InstallKey(p, k) ==
  /\ JobAt(p, "engine", k) /\ JobGoes(p, "key")
  /\ jwk' = jwk \cup {k}
  /\ UNCHANGED <<up, past, dir, lease, modules, engines, auth, endpoint, cleaning, used, faults>>

TakeLease(p, k) ==
  /\ JobAt(p, "key", k) /\ lease[k] = NoProcess /\ dir[k] # NoDir /\ JobGoes(p, "lease")
  /\ lease' = [lease EXCEPT ![k] = p]
  /\ UNCHANGED <<up, past, dir, modules, jwk, engines, auth, endpoint, cleaning, used, faults>>

WritePrivateKey(p, k) ==
  /\ JobAt(p, "lease", k) /\ JobGoes(p, "private")
  /\ dir' = [dir EXCEPT ![k].key = TRUE]
  /\ UNCHANGED <<up, past, lease, modules, jwk, engines, auth, endpoint, cleaning, used, faults>>

\* the record is last: without it no process recovers the directory
WriteRecord(p, k) ==
  /\ JobAt(p, "private", k) /\ Ends(p)
  /\ dir' = [dir EXCEPT ![k].record = TRUE]
  /\ UNCHANGED <<up, past, lease, modules, jwk, engines, auth, endpoint, cleaning, used, faults>>

----------------------------------------------------------------------------
(* Dropping what a process has of an identity *)

\* GrpcJwtAuth::drop without preservation, PulseMicrophoneEndpoint::drop
Dropped(p, k, deadEngine) ==
  /\ jwk' = jwk \ {k}
  /\ dir' = [dir EXCEPT ![k] = NoDir]
  /\ lease' = [lease EXCEPT ![k] = IF @ = p THEN NoProcess ELSE @]
  /\ auth' = [auth EXCEPT ![p] = @ \ {k}]
  /\ endpoint' = [endpoint EXCEPT ![p] = @ \ {k}]
  /\ cleaning' = IF k \in endpoint[p] THEN [cleaning EXCEPT ![p] = @ \cup {k}] ELSE cleaning
  /\ engines' = [engines EXCEPT ![k] = deadEngine]

LaunchFails(p, k) ==
  /\ \E at \in {"audio", "engine", "key", "lease", "private"} : JobAt(p, at, k)
  /\ Ends(p) /\ Dropped(p, k, IF engines[k] = "none" THEN "none" ELSE "dead")
  /\ UNCHANGED <<up, past, modules, used, faults>>

\* the device is stopped, or its engine is gone at the next scan
SessionEnds(p, k) ==
  /\ p \in up /\ k \in auth[p] /\ jobs[p].key # k
  /\ Dropped(p, k, "dead")
  /\ UNCHANGED <<up, past, modules, jobs, used, faults>>

\* cleanup_endpoint, in a thread of its own: the metadata goes whether or not
\* pactl could unload the modules
CleanEndpoint(p, k) ==
  /\ p \in up /\ k \in cleaning[p]
  /\ \E left \in SUBSET modules[k] : modules' = [modules EXCEPT ![k] = left] /\ Unload(left)
  /\ dir' = [dir EXCEPT ![k].metadata = FALSE]
  /\ cleaning' = [cleaning EXCEPT ![p] = @ \ {k}]
  /\ UNCHANGED <<up, past, lease, jwk, engines, auth, endpoint, jobs, used>>

----------------------------------------------------------------------------
(* recover_session_resources: a scan found the engine *)

RecordMatches(p, k) ==
  /\ p \in up /\ jobs[p] = Idle /\ engines[k] = "alive" /\ dir[k].record
  /\ k \notin auth[p]
  /\ jobs' = [jobs EXCEPT ![p] = [at |-> "matched", key |-> k]]
  /\ UNCHANGED <<up, past, dir, lease, modules, jwk, engines, auth, endpoint, cleaning, used, faults>>

\* the lock is taken, or held by another process, or its directory is gone
RecoverLease(p, k) ==
  /\ JobAt(p, "matched", k)
  /\ IF lease[k] = NoProcess /\ dir[k] # NoDir
     THEN lease' = [lease EXCEPT ![k] = p] /\ JobGoes(p, "leased")
     ELSE Ends(p) /\ UNCHANGED lease
  /\ UNCHANGED <<up, past, dir, modules, jwk, engines, auth, endpoint, cleaning, used, faults>>

\* key, active JWK and allowlist are there, or the lease is let go
RecoverAuth(p, k) ==
  /\ JobAt(p, "leased", k)
  /\ IF dir[k].key /\ k \in jwk
     THEN auth' = [auth EXCEPT ![p] = @ \cup {k}] /\ JobGoes(p, "recovered") /\ UNCHANGED lease
     ELSE Ends(p) /\ lease' = [lease EXCEPT ![k] = NoProcess] /\ UNCHANGED auth
  /\ UNCHANGED <<up, past, dir, modules, jwk, engines, endpoint, cleaning, used, faults>>

\* the endpoint of the metadata, if its modules are still there; when they cannot be
\* listed, or the FIFO is no longer sound, the session goes on without the endpoint
RecoverEndpoint(p, k) ==
  /\ JobAt(p, "recovered", k) /\ JobGoes(p, "capture")
  /\ \/ /\ endpoint' = IF dir[k].metadata /\ modules[k] = {"sink", "source"}
                        THEN [endpoint EXCEPT ![p] = @ \cup {k}] ELSE endpoint
        /\ UNCHANGED faults
     \/ dir[k].metadata /\ Fault /\ UNCHANGED endpoint
  /\ UNCHANGED <<up, past, dir, lease, modules, jwk, engines, auth, cleaning, used>>

CaptureStarts(p, k) ==
  /\ JobAt(p, "capture", k) /\ Ends(p)
  /\ UNCHANGED <<up, past, dir, lease, modules, jwk, engines, auth, endpoint, cleaning, used, faults>>

\* the client or the capture fails: the identity is preserved, the endpoint is not
RecoveryFails(p, k) ==
  /\ \E at \in {"recovered", "capture"} : JobAt(p, at, k)
  /\ Ends(p)
  /\ lease' = [lease EXCEPT ![k] = NoProcess]
  /\ auth' = [auth EXCEPT ![p] = @ \ {k}]
  /\ endpoint' = [endpoint EXCEPT ![p] = @ \ {k}]
  /\ cleaning' = IF k \in endpoint[p] THEN [cleaning EXCEPT ![p] = @ \cup {k}] ELSE cleaning
  /\ UNCHANGED <<up, past, dir, modules, jwk, engines, used, faults>>

----------------------------------------------------------------------------

RecoveryNext ==
  \/ \E p \in Processes : ProcessStarts(p)
  \/ \E k \in Keys : EngineDies(k)
  \/ \E p \in up : ProcessExits(p)
  \/ \E p \in up, k \in Keys :
       \/ NewIdentity(p, k) \/ SessionEnds(p, k) \/ CleanEndpoint(p, k) \/ RecordMatches(p, k)
  \/ \E p \in up : \E k \in {jobs[p].key} \ {NoKey} :
       \/ LoadSink(p, k) \/ LoadSource(p, k) \/ WriteMetadata(p, k) \/ EndpointFails(p, k)
       \/ EngineStarts(p, k) \/ InstallKey(p, k) \/ TakeLease(p, k)
       \/ WritePrivateKey(p, k) \/ WriteRecord(p, k) \/ LaunchFails(p, k)
       \/ RecoverLease(p, k) \/ RecoverAuth(p, k) \/ RecoverEndpoint(p, k)
       \/ CaptureStarts(p, k) \/ RecoveryFails(p, k)

RecoverySpec == RecoveryInit /\ [][RecoveryNext]_recoveryVars

----------------------------------------------------------------------------

InSession(p, k) == k \in auth[p] /\ jobs[p].key # k

\* A session's credentials are not taken from under it: while a process drives a
\* live engine, it alone has the lease and the engine's key, and the directory is
\* complete for the process after it, whatever other processes start, recover,
\* clean up or fail meanwhile.
SessionKeepsItsIdentity ==
  \A p \in up, k \in Keys :
    InSession(p, k) /\ engines[k] = "alive"
      => /\ lease[k] = p /\ k \in jwk
         /\ dir[k].key /\ dir[k].record
         /\ \A q \in up \ {p} : k \notin auth[q]

\* The sound server's modules are known to someone who will unload them: a
\* process that has the endpoint, makes it or cleans it, or the metadata.
Leaked(k) ==
  /\ modules[k] # {} /\ ~dir[k].metadata
  /\ \A p \in up : /\ k \notin endpoint[p] \cup cleaning[p]
                  /\ jobs[p] \notin [at : {"sink", "source"}, key : {k}]

\* A running process lets a session go that it went on with without its endpoint:
\* the sound server or the FIFO has failed a recovery.
EndpointGivenUp(k) ==
  faults # 0 /\ \E p \in up : InSession(p, k) /\ k \notin endpoint[p] /\ k \notin auth'[p]

\* No step of a running process loses track of loaded modules while the sound
\* server does what it is asked: only a process that ends in the middle of making
\* or of unloading them does, a call of pactl that fails in that very step, and
\* the end of a session whose endpoint could not be recovered.  The last two break
\* "Pulse resources ... are released after engine exit" (docs/en/ARCHITECTURE.md:134).
OnlyAnExitLeaks ==
  [][\A k \in Keys : ~Leaked(k) /\ Leaked(k)'
       => up' # up \/ faults' # faults \/ EndpointGivenUp(k)]_recoveryVars

=============================================================================
