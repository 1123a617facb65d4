------------------------------ MODULE MCServices ------------------------------
(* The components around the devices' phases, side by side: a behaviour is   *)
(* one of a single component, chosen at the start, and the others stay in    *)
(* their initial states.  The components share no variables.                 *)
EXTENDS InputQueue, Microphone, MicrophoneSources, AudioOutput, Workspace, OperationBatch,
        EngineLaunch, RecoveryLease, PackageStore, AvdStore

VARIABLE component

\* The server's first file has the announced size, the second one is longer.
ServerLengths == <<2, 3>>

uiVars == <<inputVars, micVars, sourceVars, audioVars>>
coreVars == <<workspaceVars, operationVars, launchVars, recoveryVars, packageVars, avdVars>>
servicesVars == <<component, uiVars, coreVars>>

ServicesInit ==
  /\ component \in {"input", "microphone", "sources", "audio", "workspace", "operation",
                    "launch", "recovery", "packages", "avds"}
  /\ InputInit /\ MicInit /\ SourceInit /\ AudioInit /\ WorkspaceInit /\ OperationInit
  /\ EngineInit /\ RecoveryInit /\ PackageInit /\ AvdInit
  \* one initial state is enough of those that stay in it
  /\ component # "sources" => producer = "host"
  /\ component # "operation" =>
       \A t \in Targets, i \in 1 .. Items : guestFiles[t][i].file = "none"

UiMoves ==
  \/ /\ component = "input"
     /\ UNCHANGED <<micVars, sourceVars, audioVars, coreVars>>
     /\ InputNext
  \/ /\ component = "microphone"
     /\ UNCHANGED <<inputVars, sourceVars, audioVars, coreVars>>
     /\ MicNext
  \/ /\ component = "sources"
     /\ UNCHANGED <<inputVars, micVars, audioVars, coreVars>>
     /\ SourceNext
  \/ /\ component = "audio"
     /\ UNCHANGED <<inputVars, micVars, sourceVars, coreVars>>
     /\ AudioNext

CoreMoves ==
  \/ /\ component = "workspace"
     /\ UNCHANGED <<operationVars, launchVars, recoveryVars, packageVars, avdVars, uiVars>>
     /\ WorkspaceNext
  \/ /\ component = "operation"
     /\ UNCHANGED <<workspaceVars, launchVars, recoveryVars, packageVars, avdVars, uiVars>>
     /\ OperationNext
  \/ /\ component = "launch"
     /\ UNCHANGED <<workspaceVars, operationVars, recoveryVars, packageVars, avdVars, uiVars>>
     /\ EngineNext
  \/ /\ component = "recovery"
     /\ UNCHANGED <<workspaceVars, operationVars, launchVars, packageVars, avdVars, uiVars>>
     /\ RecoveryNext
  \/ /\ component = "packages"
     /\ UNCHANGED <<workspaceVars, operationVars, launchVars, recoveryVars, avdVars, uiVars>>
     /\ PackageNext
  \/ /\ component = "avds"
     /\ UNCHANGED <<workspaceVars, operationVars, launchVars, recoveryVars, packageVars, uiVars>>
     /\ AvdNext

ServicesNext == UNCHANGED component /\ (UiMoves \/ CoreMoves)

ServicesSpec == ServicesInit /\ [][ServicesNext]_servicesVars

\* Two states are the same when the moving component's are: the others never move.
ServicesView ==
  <<component,
    CASE component = "input" -> inputVars
      [] component = "microphone" -> micVars
      [] component = "sources" -> sourceVars
      [] component = "audio" -> audioVars
      [] component = "workspace" -> workspaceVars
      [] component = "operation" -> operationVars
      [] component = "launch" -> launchVars
      [] component = "recovery" -> recoveryVars
      [] component = "packages" -> packageVars
      [] component = "avds" -> avdVars>>

\* The types of the component that moves; the others are as they were initially.
ServicesTypeOK ==
  /\ component = "input" => InputTypeOK
  /\ component = "microphone" => MicTypeOK
  /\ component = "sources" => SourceTypeOK
  /\ component = "audio" => AudioTypeOK
  /\ component = "workspace" => WorkspaceTypeOK
  /\ component = "operation" => OperationTypeOK
  /\ component = "launch" => EngineTypeOK
  /\ component = "recovery" => RecoveryTypeOK
  /\ component = "packages" => PackageTypeOK
  /\ component = "avds" => AvdTypeOK
=============================================================================
