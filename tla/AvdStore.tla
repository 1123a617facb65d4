------------------------------ MODULE AvdStore ------------------------------
(***************************************************************************)
(* Creating AVDs (core/avd.rs, ui/create_wizard.rs): under a lock of the   *)
(* name, a staged directory and a temporary ini file are written and then  *)
(* published by renames that replace nothing, the directory first; the     *)
(* guard CreationRollback removes what a failed creation has made.         *)
(*                                                                         *)
(* The creators are liteavd's processes (the wizard creates on the main    *)
(* thread, one AVD at a time); another tool that knows nothing of the lock *)
(* makes AVDs at any moment.  Names of staged files are unique, so what a  *)
(* crash leaves of them is never met again.  Nothing in the application    *)
(* deletes an AVD (delete_avd has no caller).                              *)
(***************************************************************************)
EXTENDS Integers, FiniteSets

CONSTANTS AvdNames, AvdCreators, OtherTool, Nobody,
          MaxToolSteps, MaxAvdCrashes   \* bounds

ASSUME AvdAssumption ==
  /\ OtherTool \notin AvdCreators /\ Nobody \notin AvdCreators /\ OtherTool # Nobody
  /\ AvdNames # {} /\ MaxToolSteps \in Nat /\ MaxAvdCrashes \in Nat

Makers == AvdCreators \cup {OtherTool}

VARIABLES
  avdLock,    \* who has the lock of each name
  avdDir,     \* each name's directory: whose, and whether config.ini is in it
  avdIni,     \* whose ini file there is
  creation,   \* what each creator is doing
  reported,   \* history: names whose creation was reported as done
  toolSteps, avdCrashes

avdVars == <<avdLock, avdDir, avdIni, creation, reported, toolSteps, avdCrashes>>

NoAvdDir == [by |-> Nobody, config |-> FALSE]
Creating(c, at) == creation[c].at = at
NewName(c) == creation[c].name
AtRest == [at |-> "rest", name |-> CHOOSE n \in AvdNames : TRUE]

CreationSteps == {"rest", "staged", "configured", "described", "published", "linked",
                  "undo", "undo config", "undo dir"}

AvdTypeOK ==
  /\ avdLock \in [AvdNames -> AvdCreators \cup {Nobody}]
  /\ avdDir \in [AvdNames -> [by : Makers \cup {Nobody}, config : BOOLEAN]]
  /\ avdIni \in [AvdNames -> Makers \cup {Nobody}]
  /\ creation \in [AvdCreators -> [at : CreationSteps, name : AvdNames]]
  /\ reported \subseteq AvdNames

AvdInit ==
  /\ avdLock = [n \in AvdNames |-> Nobody] /\ avdDir = [n \in AvdNames |-> NoAvdDir]
  /\ avdIni = [n \in AvdNames |-> Nobody] /\ creation = [c \in AvdCreators |-> AtRest]
  /\ reported = {} /\ toolSteps = 0 /\ avdCrashes = 0

----------------------------------------------------------------------------
(* create_avd *)

StepsTo(c, at) == creation' = [creation EXCEPT ![c].at = at]
Unlocks(c) == /\ creation' = [creation EXCEPT ![c] = AtRest]
              /\ avdLock' = [avdLock EXCEPT ![NewName(c)] = Nobody]

NameIsFree(n) == avdDir[n] = NoAvdDir /\ avdIni[n] = Nobody

\* A creation that does not wait for the name's lock.
StartUnlocked(c, n) ==
  /\ Creating(c, "rest") /\ NameIsFree(n)
  /\ avdLock' = [avdLock EXCEPT ![n] = c]
  /\ creation' = [creation EXCEPT ![c] = [at |-> "staged", name |-> n]]
  /\ UNCHANGED <<avdDir, avdIni, reported, toolSteps, avdCrashes>>

\* the lock is taken or the creation refused; the name must be free under it
StartCreation(c, n) ==
  /\ Creating(c, "rest") /\ avdLock[n] = Nobody /\ NameIsFree(n)
  /\ avdLock' = [avdLock EXCEPT ![n] = c]
  /\ creation' = [creation EXCEPT ![c] = [at |-> "staged", name |-> n]]
  /\ UNCHANGED <<avdDir, avdIni, reported, toolSteps, avdCrashes>>

\* config.ini, then the temporary ini file, each written and synced
WriteStaged(c) ==
  /\ \/ Creating(c, "staged") /\ StepsTo(c, "configured")
     \/ Creating(c, "configured") /\ StepsTo(c, "described")
  /\ UNCHANGED <<avdLock, avdDir, avdIni, reported, toolSteps, avdCrashes>>

PublishDir(c) ==
  /\ Creating(c, "described") /\ avdDir[NewName(c)] = NoAvdDir /\ StepsTo(c, "published")
  /\ avdDir' = [avdDir EXCEPT ![NewName(c)] = [by |-> c, config |-> TRUE]]
  /\ UNCHANGED <<avdLock, avdIni, reported, toolSteps, avdCrashes>>

PublishIni(c) ==
  /\ Creating(c, "published") /\ avdIni[NewName(c)] = Nobody /\ StepsTo(c, "linked")
  /\ avdIni' = [avdIni EXCEPT ![NewName(c)] = c]
  /\ UNCHANGED <<avdLock, avdDir, reported, toolSteps, avdCrashes>>

CommitCreation(c) ==
  /\ Creating(c, "linked") /\ Unlocks(c)
  /\ reported' = reported \cup {NewName(c)}
  /\ UNCHANGED <<avdDir, avdIni, toolSteps, avdCrashes>>

\* any step fails: a write, a rename that would replace something, the last sync
CreationFails(c) ==
  /\ creation[c].at \in {"staged", "configured", "described", "published", "linked"}
  /\ StepsTo(c, "undo")
  /\ UNCHANGED <<avdLock, avdDir, avdIni, reported, toolSteps, avdCrashes>>

\* CreationRollback: the ini file and then the directory, whoever made them
UndoIni(c) ==
  /\ Creating(c, "undo") /\ StepsTo(c, "undo config")
  /\ avdIni' = [avdIni EXCEPT ![NewName(c)] = Nobody]
  /\ UNCHANGED <<avdLock, avdDir, reported, toolSteps, avdCrashes>>

UndoConfig(c) ==
  /\ Creating(c, "undo config") /\ StepsTo(c, "undo dir")
  /\ avdDir' = [avdDir EXCEPT ![NewName(c)].config = FALSE]
  /\ UNCHANGED <<avdLock, avdIni, reported, toolSteps, avdCrashes>>

\* a directory that got its config.ini meanwhile is not empty and stays
UndoDir(c) ==
  /\ Creating(c, "undo dir") /\ Unlocks(c)
  /\ avdDir' = [avdDir EXCEPT ![NewName(c)] = IF @.config THEN @ ELSE NoAvdDir]
  /\ UNCHANGED <<avdIni, reported, toolSteps, avdCrashes>>

\* the process ends anywhere; the system gives its lock back
CreatorCrashes(c) ==
  /\ ~Creating(c, "rest") /\ Unlocks(c)
  /\ avdCrashes < MaxAvdCrashes /\ avdCrashes' = avdCrashes + 1
  /\ UNCHANGED <<avdDir, avdIni, reported, toolSteps>>

----------------------------------------------------------------------------
(* The other tool *)

ToolStep == toolSteps < MaxToolSteps /\ toolSteps' = toolSteps + 1

ToolMakesDir(n) ==
  /\ avdDir[n] = NoAvdDir /\ ToolStep
  /\ avdDir' = [avdDir EXCEPT ![n] = [by |-> OtherTool, config |-> TRUE]]
  /\ UNCHANGED <<avdLock, avdIni, creation, reported, avdCrashes>>

ToolMakesIni(n) ==
  /\ avdIni[n] = Nobody /\ ToolStep
  /\ avdIni' = [avdIni EXCEPT ![n] = OtherTool]
  /\ UNCHANGED <<avdLock, avdDir, creation, reported, avdCrashes>>

----------------------------------------------------------------------------

AvdNext ==
  \/ \E c \in AvdCreators :
       \/ \E n \in AvdNames : StartCreation(c, n)
       \/ WriteStaged(c) \/ PublishDir(c) \/ PublishIni(c) \/ CommitCreation(c)
       \/ CreationFails(c) \/ UndoIni(c) \/ UndoConfig(c) \/ UndoDir(c) \/ CreatorCrashes(c)
  \/ \E n \in AvdNames : ToolMakesDir(n) \/ ToolMakesIni(n)

AvdSpec == AvdInit /\ [][AvdNext]_avdVars

----------------------------------------------------------------------------

\* list_avds: the names that have an ini file and a readable config.ini
ListedAvds == {n \in AvdNames : avdIni[n] # Nobody /\ avdDir[n].config}

\* An AVD that liteavd makes appears whole: once its ini file is there, its
\* directory is the one of the same creation and complete, wherever another
\* creation fails or a process ends; and an AVD reported as created stays.
AvdsAreWhole ==
  /\ \A n \in AvdNames :
       avdIni[n] \in AvdCreators => avdDir[n] = [by |-> avdIni[n], config |-> TRUE]
  /\ \A n \in reported : n \in ListedAvds /\ avdIni[n] \in AvdCreators

=============================================================================
