------------------------------ MODULE Workspace ------------------------------
(***************************************************************************)
(* Focus and selection of the workspace (core/workspace.rs), how they      *)
(* follow the registry (DeviceRuntime in core/instance.rs) and how they    *)
(* outlive the application (core/recovery.rs, ui/main_window.rs).          *)
(*                                                                         *)
(* The registry is reduced to the current session of each AVD.  A task     *)
(* that changed it, or scanned, reads its routes under the registry's lock *)
(* and applies them under the workspace's; other tasks may come between.   *)
(* Focus and selection read the registry and then change the workspace, on *)
(* the main thread; a change between the two only makes them fail, as they *)
(* may for other reasons, so each is one step.                             *)
(***************************************************************************)
EXTENDS Integers, FiniteSets

CONSTANTS WorkspaceAvds, NoAvd, Syncers,
          MaxSessions,   \* bound: sessions ever made
          MaxGestures,   \* bound: focus and selection gestures
          MaxRestarts    \* bound: restarts of the application

ASSUME WorkspaceAssumption ==
  /\ NoAvd \notin WorkspaceAvds
  /\ MaxSessions \in Nat /\ MaxGestures \in Nat /\ MaxRestarts \in Nat

NoSession == 0
NoRoute == [avd |-> NoAvd, session |-> NoSession]
Routes == [avd : WorkspaceAvds, session : 1 .. MaxSessions]
Listings == [WorkspaceAvds -> 0 .. MaxSessions]
Intents == [focused : WorkspaceAvds \cup {NoAvd}, selected : SUBSET WorkspaceAvds]
NoIntent == [focused |-> NoAvd, selected |-> {}]

VARIABLES
  registry,   \* the current session of each AVD, and the latest session made
  syncer,     \* what each task is about to do, and the routes it has read
  routes,     \* WorkspaceState
  focused,
  selected,
  pending,    \* pending_restore; NoIntent when there is none
  saved,      \* the state file, and last_persisted
  app,        \* whether the application runs, how often it was restarted
  gestures,   \* gestures of all processes; history: those of this process
  chosen,     \* history: AVDs that this process focused or selected
  started     \* history: AVDs that this process had a session of

workspaceVars == <<registry, syncer, routes, focused, selected, pending, saved,
                   app, gestures, chosen, started>>
choiceVars == <<focused, selected, pending>>

WorkspaceTypeOK ==
  /\ registry \in [current : Listings, latest : 0 .. MaxSessions]
  /\ syncer \in [Syncers -> [at : {"idle", "due", "read"}, listing : Listings]]
  /\ routes \in Listings
  /\ focused \in Routes \cup {NoRoute}
  /\ selected \in SUBSET Routes
  /\ pending \in Intents
  /\ saved \in [file : Intents, last : Intents]
  /\ app \in [up : BOOLEAN, restarts : 0 .. MaxRestarts]
  /\ gestures \in [all : 0 .. MaxGestures, here : BOOLEAN]
  /\ chosen \in SUBSET WorkspaceAvds
  /\ started \in SUBSET WorkspaceAvds

NothingListed == [a \in WorkspaceAvds |-> NoSession]
IdleSyncers == [t \in Syncers |-> [at |-> "idle", listing |-> NothingListed]]

WorkspaceInit ==
  /\ registry = [current |-> NothingListed, latest |-> 0]
  /\ syncer = IdleSyncers
  /\ routes = NothingListed
  /\ focused = NoRoute /\ selected = {} /\ pending = NoIntent
  /\ saved = [file |-> NoIntent, last |-> NoIntent]
  /\ app = [up |-> TRUE, restarts |-> 0]
  /\ gestures = [all |-> 0, here |-> FALSE]
  /\ chosen = {} /\ started = {}

----------------------------------------------------------------------------
(* WorkspaceState *)

Listed(listing, r) == r # NoRoute /\ listing[r.avd] = r.session
Live(listing) == {a \in WorkspaceAvds : listing[a] # NoSession}
RouteOf(listing, a) == [avd |-> a, session |-> listing[a]]

\* reconcile: what the new routes no longer hold is dropped, then the pending
\* intent is bound to the routes that are there now
KeptFocus(listing) == IF Listed(listing, focused) THEN focused ELSE NoRoute
KeptSelection(listing) == {r \in selected : Listed(listing, r)}

\* apply_pending_restore
RestoredFocus(listing) ==
  IF pending.focused \in Live(listing)
  THEN RouteOf(listing, pending.focused) ELSE KeptFocus(listing)
RestoredSelection(listing) ==
  KeptSelection(listing) \cup {RouteOf(listing, a) : a \in pending.selected \cap Live(listing)}
StillPending(listing) ==
  [focused |-> IF pending.focused \in Live(listing) THEN NoAvd ELSE pending.focused,
   selected |-> pending.selected \ Live(listing)]

\* intent(): what is bound, and what still waits for its AVD
Intent ==
  [focused |-> IF focused # NoRoute THEN focused.avd ELSE pending.focused,
   selected |-> {r.avd : r \in selected} \cup pending.selected]

Chosen(r, rs) == {q.avd : q \in (rs \cup {r}) \ {NoRoute}}

----------------------------------------------------------------------------
(* The registry and the tasks that follow it *)

Change(a, s) == [registry EXCEPT !.current[a] = s,
                                 !.latest = IF s = NoSession THEN @ ELSE s]

\* complete_start and complete_stop change the registry and then call
\* sync_workspace
SessionChanges(t, a) ==
  /\ app.up /\ syncer[t].at = "idle"
  /\ \E s \in {NoSession, registry.latest + 1} \cap 0 .. MaxSessions :
       /\ (registry.current[a] = NoSession) # (s = NoSession)
       /\ registry' = Change(a, s)
       /\ started' = started \cup Live(registry'.current)
  /\ syncer' = [syncer EXCEPT ![t].at = "due"]
  /\ UNCHANGED <<routes, choiceVars, saved, app, gestures, chosen>>

ReadRoutes(t) ==
  /\ syncer[t].at = "due"
  /\ syncer' = [syncer EXCEPT ![t] = [at |-> "read", listing |-> registry.current]]
  /\ UNCHANGED <<registry, routes, choiceVars, saved, app, gestures, chosen, started>>

\* a scan may adopt, replace or drop a session, and reads the routes before it
\* gives the registry's lock back
Scan(t, a) ==
  /\ app.up /\ syncer[t].at = "idle"
  /\ \E s \in {registry.current[a], NoSession, registry.latest + 1} \cap 0 .. MaxSessions :
       registry' = IF s = registry.current[a] THEN registry ELSE Change(a, s)
  /\ started' = started \cup Live(registry'.current)
  /\ syncer' = [syncer EXCEPT ![t] = [at |-> "read", listing |-> registry'.current]]
  /\ UNCHANGED <<routes, choiceVars, saved, app, gestures, chosen>>

Reconcile(t) ==
  /\ syncer[t].at = "read"
  /\ LET listing == syncer[t].listing IN
       /\ routes' = listing
       /\ focused' = RestoredFocus(listing)
       /\ selected' = RestoredSelection(listing)
       /\ pending' = StillPending(listing)
       /\ chosen' = chosen \cup Chosen(focused', selected')
  /\ syncer' = [syncer EXCEPT ![t] = [at |-> "idle", listing |-> NothingListed]]
  /\ UNCHANGED <<registry, saved, app, gestures, started>>

----------------------------------------------------------------------------
(* The user *)

Gesture ==
  /\ app.up /\ gestures.all < MaxGestures
  /\ gestures' = [all |-> gestures.all + 1, here |-> TRUE]
  /\ chosen' = chosen \cup Chosen(focused', selected')
  /\ UNCHANGED <<registry, syncer, routes, saved, app, started>>

\* A focus that leaves the intent of the last process pending.
FocusKeepsPending(a) ==
  /\ registry.current[a] # NoSession /\ routes[a] = registry.current[a]
  /\ focused' = RouteOf(routes, a)
  /\ UNCHANGED <<pending, selected>>
  /\ Gesture

\* focus_session from a card, a shortcut or the screenshot button, and
\* InputRouteGuard.focus from a viewport: the route is the registry's, and the
\* workspace refuses it while it does not list it
FocusSession(a) ==
  /\ registry.current[a] # NoSession /\ routes[a] = registry.current[a]
  /\ focused' = RouteOf(routes, a)
  /\ pending' = NoIntent
  /\ UNCHANGED selected
  /\ Gesture

ToggleSelected(a) ==
  /\ registry.current[a] # NoSession /\ routes[a] = registry.current[a]
  /\ LET r == RouteOf(routes, a) IN
       selected' = IF r \in selected THEN selected \ {r} ELSE selected \cup {r}
  /\ pending' = NoIntent
  /\ UNCHANGED focused
  /\ Gesture

----------------------------------------------------------------------------
(* The state file *)

\* the one-second timer: save_workspace replaces the file by a rename, so that
\* a failure before it leaves the old one, and is tried again
SaveIntent ==
  /\ app.up /\ Intent # saved.last
  /\ saved' = [file |-> Intent, last |-> Intent]
  /\ UNCHANGED <<registry, syncer, routes, choiceVars, app, gestures, chosen, started>>

\* closing the window saves too, as far as the file system lets it; a crash
\* saves nothing
EndProcess ==
  /\ app.up /\ app.restarts < MaxRestarts
  /\ saved' \in {saved, [file |-> Intent, last |-> Intent]}
  /\ app' = [app EXCEPT !.up = FALSE]
  /\ UNCHANGED <<registry, syncer, routes, choiceVars, gestures, chosen, started>>

\* build: nothing of a session is read from the file, only names
Restart ==
  /\ ~app.up
  /\ app' = [up |-> TRUE, restarts |-> app.restarts + 1]
  /\ registry' = [registry EXCEPT !.current = NothingListed]
  /\ syncer' = IdleSyncers
  /\ routes' = NothingListed
  /\ focused' = NoRoute /\ selected' = {}
  /\ pending' = saved.file
  /\ saved' = [saved EXCEPT !.last = saved.file]
  /\ gestures' = [gestures EXCEPT !.here = FALSE]
  /\ chosen' = {} /\ started' = {}

WorkspaceNext ==
  \/ \E t \in Syncers :
       \/ ReadRoutes(t) \/ Reconcile(t)
       \/ \E a \in WorkspaceAvds : SessionChanges(t, a) \/ Scan(t, a)
  \/ \E a \in WorkspaceAvds : FocusSession(a) \/ ToggleSelected(a)
  \/ SaveIntent \/ EndProcess \/ Restart

WorkspaceSpec == WorkspaceInit /\ [][WorkspaceNext]_workspaceVars

----------------------------------------------------------------------------
(* Properties *)

\* A session comes into focus or selection by itself only while the user has
\* done nothing in this process, only for an AVD this process never chose
\* before, and only if the file asked for it: a restarted AVD inherits nothing
\* (workspace.rs:3), and a late scan never overrides the user.
ChoicesAreTheUsers ==
  [][ \A r \in (selected' \cup {focused'}) \ (selected \cup {focused, NoRoute}) :
        \/ gestures'.all # gestures.all
        \/ /\ ~gestures.here /\ r.avd \notin chosen
           /\ r.avd \in pending.selected \cup {pending.focused}
    ]_workspaceVars

\* An AVD that the last process left focused or selected and that has not run
\* since stays in the state file until the user chooses otherwise, however
\* often the application saves, ends and starts in between.
AbsentAvdsStayWanted ==
  [][ (app.up /\ ~gestures'.here)
      => /\ saved.file.selected \ started' \subseteq saved'.file.selected
         /\ saved.file.focused \notin started' => saved'.file.focused = saved.file.focused
    ]_workspaceVars

\* Both: the workspace follows the user, in this process and the next.
ChoicesAreKept == ChoicesAreTheUsers /\ AbsentAvdsStayWanted
=============================================================================
