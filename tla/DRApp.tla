------------------------------- MODULE DRApp -------------------------------
(***************************************************************************)
(* A disaster-recovery event of an application, from the start of the Job  *)
(* to its verdict.  A backup ensures that the DR volume exists, runs the   *)
(* remote stage, and snapshots the DR volume if the stage returned no      *)
(* error.  A restore is the stage alone.  The four applications differ in  *)
(* the actions they register and in nothing else that is modelled; the     *)
(* Generic application registers any configuration in a fixed kind order.  *)
(* The run's context may be cancelled at any time: by SIGTERM, or when     *)
(* --timeout, which by default is none, has passed.                        *)
(***************************************************************************)
EXTENDS RemoteStage

VARIABLES
  appPhase,   \* "volume", "stage", "snapshot" or "done"
  published,  \* has the snapshot of the DR volume been created?
  outcome,    \* "running", "succeeded" or "failed"
  cancelled   \* has the run's context been cancelled?

appVars == <<appPhase, published, outcome, cancelled>>
vars == <<stageVars, appVars>>

\* n actions of one kind.
Repeat(n, kind) == [i \in 1..n |-> kind]

\* The order in which GenericApp registers a configuration's sources, given how
\* many it has of each kind.
BackupActions(config) ==
  Repeat(config.postgres, "cnpgBackup") \o Repeat(config.files, "filesBackup")
    \o Repeat(config.fileGroups, "groupBackup") \o Repeat(config.s3, "s3Download")

RestoreActions(config) ==
  Repeat(config.postgres, "cnpgRestore") \o Repeat(config.files, "filesRestore")
    \o Repeat(config.fileGroups, "groupRestore") \o Repeat(config.s3, "s3Upload")

\* The other applications register the sources that they have in the same order:
\* Vaultwarden its database and its data volume, ...
VaultwardenBackup == <<"cnpgBackup", "filesBackup">>
VaultwardenRestore == <<"cnpgRestore", "filesRestore">>

\* ... Teleport a database or two, and a bucket if session logs are kept in one, ...
TeleportBackup(auditCluster, sessionLogs) ==
  Repeat(IF auditCluster THEN 2 ELSE 1, "cnpgBackup")
    \o Repeat(IF sessionLogs THEN 1 ELSE 0, "s3Download")

TeleportRestore(auditCluster, sessionLogs) ==
  Repeat(IF auditCluster THEN 2 ELSE 1, "cnpgRestore")
    \o Repeat(IF sessionLogs THEN 1 ELSE 0, "s3Upload")

\* ... Authentik its database and the bucket of its media.
AuthentikBackup == <<"cnpgBackup", "s3Download">>
AuthentikRestore == <<"cnpgRestore", "s3Upload">>

\* An event is a backup if its actions capture; applications never mix the two.
direction == IF actions[1] \in BackupKinds THEN "backup" ELSE "restore"

AppInit ==
  /\ Init
  /\ appPhase = IF direction = "backup" THEN "volume" ELSE "stage"
  /\ published = FALSE
  /\ outcome = "running"
  /\ cancelled = FALSE

Verdict(v) == appPhase' = "done" /\ outcome' = v

\* The DR volume is sized and its PVC is created, or found to exist.
EnsureVolume ==
  /\ appPhase = "volume"
  /\ \/ appPhase' = "stage" /\ UNCHANGED outcome
     \/ Verdict("failed")
  /\ UNCHANGED <<stageVars, published, cancelled>>

RunStage ==
  /\ appPhase = "stage"
  /\ StageNext
  /\ UNCHANGED appVars

\* Mutant: the error Run returns is dropped.
StageReturnsUnchecked ==
  /\ appPhase = "stage"
  /\ phase = "returned"
  /\ \/ direction = "restore" /\ Verdict("succeeded")
     \/ direction = "backup" /\ appPhase' = "snapshot" /\ UNCHANGED outcome
  /\ UNCHANGED <<stageVars, published, cancelled>>

\* Run has returned.
StageReturns ==
  /\ appPhase = "stage"
  /\ phase = "returned"
  /\ \/ err # {} /\ Verdict("failed")
     \/ err = {} /\ direction = "restore" /\ Verdict("succeeded")
     \/ err = {} /\ direction = "backup" /\ appPhase' = "snapshot" /\ UNCHANGED outcome
  /\ UNCHANGED <<stageVars, published, cancelled>>

\* The snapshot of the DR volume is created and waited for.  One that never
\* becomes ready fails the backup and stays.
SnapshotVolume ==
  /\ appPhase = "snapshot"
  /\ ~published
  /\ \/ published' = TRUE /\ UNCHANGED <<appPhase, outcome>>
     \/ Verdict("failed") /\ UNCHANGED published
  /\ UNCHANGED <<stageVars, cancelled>>

WaitReadySnapshot ==
  /\ appPhase = "snapshot"
  /\ published
  /\ \E v \in {"succeeded", "failed"} : Verdict(v)
  /\ UNCHANGED <<stageVars, published, cancelled>>

\* What the program itself does.
ProgramStep ==
  \/ EnsureVolume
  \/ RunStage
  \/ StageReturns
  \/ SnapshotVolume
  \/ WaitReadySnapshot

\* What happens to it.
RunTool == ToolNext /\ UNCHANGED appVars

Cancel ==
  /\ outcome = "running"
  /\ ~cancelled
  /\ cancelled' = TRUE
  /\ UNCHANGED <<stageVars, appPhase, published, outcome>>

Next == ProgramStep \/ RunTool \/ Cancel

Spec == AppInit /\ [][Next]_vars

\* A call whose context has been cancelled returns.
CutWhenCancelled == cancelled /\ appPhase = "stage" /\ Cut /\ UNCHANGED appVars

\* The program goes on, except while it awaits the tool pod's answer: waits for
\* the API server are bounded by timeouts, calls to the tool pod by nothing but
\* the run's context.  Nothing is assumed of the tool pod.
FairSpec == Spec /\ WF_vars(phase # "await" /\ ProgramStep) /\ WF_vars(CutWhenCancelled)

------------------------------------------------------------------------------

\* The values the variables take.
AppTypeOK ==
  /\ TypeOK
  /\ appPhase \in {"volume", "stage", "snapshot", "done"}
  /\ published \in BOOLEAN
  /\ outcome \in {"running", "succeeded", "failed"}
  /\ cancelled \in BOOLEAN

\* Every base backup has ended by the consistency point its clone recovers to,
\* in the whole seconds both are recorded in: a clone can only recover forward.
BaseBackupsPrecedePoint ==
  \A a \in Actions :
    point[a] # NoInstant => Trunc(baseEnd[a]) <= Trunc(point[a])

\* No consumer is handed a point later than an instant some capture has pinned,
\* and unless nothing pinned one, the point is one of those instants; so all of
\* the event's consumers align to the same capture.
PointIsEarliestPin ==
  \A a \in Actions : point[a] # NoInstant =>
    LET pins == {pinned[b] : b \in Actions} \ {NoInstant} IN
    pins # {} => /\ point[a] \in pins
                 /\ \A p \in pins : point[a] <= p

\* Run tears down everything that was created, however it ended: what is still
\* in the cluster when it returns is what the API server refused to delete, and
\* the tool pod's deletion has been issued, or was refused too.
OnlyRefusedRemain == phase = "returned" => exists \subseteq refused /\ pod # "running"

\* The error Run returns aggregates every failure of the event, including those
\* of the teardown; only the two deferred calls of execute lose theirs.
StageFailuresReported ==
  phase = "returned" => failed \subseteq err \cup {"closeClient", "deleteTool"}

\* No volume, secret or cluster that the tool pod was given is deleted before the
\* pod's own deletion has been issued; and none is taken from a handler that still
\* serves a call, except in an event that has given the call up and reports it.
ResourcesOutliveCalls ==
  /\ pod = "running" => owned \subseteq exists
  /\ serving # NoAction => owned \subseteq exists \/ "execute" \in err

\* A base backup outlives the clone recovering from it: its volume snapshots are
\* owned by it and go with it.
BaseBackupOutlivesClone ==
  \A a \in Actions :
    <<a, "clone">> \in exists \ refused => <<a, "baseBackup">> \in exists

\* When the DR volume is snapshotted, and when an event reports success, nothing
\* the stage created is left but perhaps the tool pod, and no handler in that is
\* still writing: every call the event made has been answered.
DoneWhenQuiet ==
  published \/ outcome = "succeeded" => exists = {} /\ serving = NoAction

\* The event is an event as DREvent promises it.
Abstract ==
  INSTANCE DREvent WITH
    sources <- Actions,
    captured <- {a \in Actions : "executed" \in done[a]}

ImplementsDREvent == Abstract!Spec

\* A cancelled event ends with a verdict, whatever fails on the way and whatever
\* the tool pod does.  One that is not cancelled ends too, or awaits an answer
\* of the tool pod for ever.
EventEnds ==
  /\ cancelled ~> outcome # "running"
  /\ <>(outcome # "running") \/ <>[](phase = "await")

\* What the comment of Run says ("Handles all cleanup"): after a success,
\* nothing is left behind.  The tool pod can be.
SuccessLeavesNothing == outcome = "succeeded" => exists = {} /\ pod # "left"

=============================================================================
