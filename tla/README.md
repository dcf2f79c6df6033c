# A TLA+ verification of backup-tool

`backup-tool` takes consistent backups of applications in a Kubernetes cluster
and restores them. A backup captures CloudNativePG databases, volumes and S3
buckets into one *DR volume* so that all of them reflect one instant, the
*consistency point*, and then snapshots that volume. The program has no
long-lived process: each backup or restore, a *disaster-recovery event*, is one
Job whose orchestrator creates temporary cluster resources, drives a temporary
*tool pod* that has everything mounted, and removes all of it again.

What makes such a program right is hard to test. Dozens of resources are created
in an order, any call may fail half-way, all of it must come down in an order
that pulls nothing from under its users, and meanwhile the application writes,
the snapshot controller snapshots, PostgreSQL archives, and clocks are cut to
whole seconds. These modules are about that.

## Inventory

| Component (under `src/`) | State | Operations | Modelled in |
|---|---|---|---|
| Remote stage, `pkg/disasterrecovery/actions/remote/remotestage.go`, `pkg/cleanup` | registered actions, the phase of `Run`, the point so far, the aggregate error | `Validate`, the three phases of `setup`, `execute` with its deferred calls, cleanup | `RemoteStage` |
| Remote actions, `actions/remote/{cnpg,files,s3sync}` | lifecycle flags (`isValidated`, `isCloned`, ...), what each created | `Configure`, `Validate`, `BeforeConsistencyPoint`, `SetConsistencyPoint`, `Setup`, `Execute`, `Cleanup` | `RemoteStage`, details in `Recovery`, `S3Sync`, `FilesSync` |
| Applications, `pkg/disasterrecovery/{generic,vaultwarden,teleport,authentik}.go` | one event | `Backup`, `Restore` | `DRApp`, promise in `DREvent` |
| DR volume, `composite/drvolume` | PVC, its content, snapshots | `NewDRVolume`, `SnapshotAndWaitReady` | `DRApp`, `DRJobs` |
| Volume cloning, `composite/clonepvc`, `primatives/externalsnapshotter` | snapshot, clones, bind pod, deferred calls | `ClonePVC`, `ClonePVCGroup` | `VolumeClone` |
| Cloned cluster, `composite/{clonedcluster,clusterusercert,createcrpforcertificate}` | issuers, certificates, policies, the cluster | `CreateClusterBackup`, `CloneClusterFromBackup`, `Delete` | `ClonedCluster`, `Recovery` |
| WAL fence, `pkg/postgres/walarchive.go`, `cnpg/backup/sourcewalarchive.go` | the segment the fence is in | `ForceWALArchive` | `Recovery` |
| S3 transfer, `pkg/s3/transfer.go` | a directory, a bucket | `Sync` | `S3Sync` |
| File transfer, `pkg/files`, group layout on the DR volume | two directory trees | `SyncFiles`, `ListDirectory`, group backup and restore | `FilesSync` |
| Tool pod instance, `composite/backuptoolinstance` | the pod | create, connect, delete | `RemoteStage`, `DRJobs` |
| Jobs: the chart's Job, `GenericApp` event after event | what one event leaves to the next | attempt, retry, kill | `DRJobs` |
| Postgres dump and restore, `pkg/postgres/{dump,restore,command}.go` | a child process, a file | `DumpAll`, `Restore` | `ToolCall` |
| gRPC transport, `pkg/grpc/{clients,servers}`, `pkg/contexts` | a call, its context, the server's life | `StartServer`, the clients' and servers' methods | `ToolCall` |
| Waits, `kubecluster/helpers` and the `WaitFor...` of `primatives` | an informer's store and events | `WaitForResourceCondition`, ...`ByLabel`, `WaitForResourceDeletion` | `ResourceWait` |
| Commands, configuration, logging | none that outlives a call | | what a valid configuration is, in `DRJobs`; see below |

How they interact: an application registers actions with one stage. The stage
calls each action's methods, in registration order, once per phase. Backup
actions clone volumes (`VolumeClone`) and databases (`Recovery`,
`ClonedCluster`), report the instants their captures are pinned to, are handed
the consistency point, and have the tool pod mount what they cloned. `Execute`
sends requests to the tool pod, which dumps, syncs and downloads onto the DR
volume. Errors come back through returned values and through the original error
a cleanup is given (`WithOriginalErr`).

What is hard, component by component, and the properties that make it correct:

* **Stage.** One action fails and others have already created things: everything
  recorded is deleted (`OnlyRefusedRemain`), and a base backup after the clone that
  recovers from it (`BaseBackupOutlivesClone`). The tool pod's deletion comes first, but
  is only issued: the pod's handlers may go on in its grace period while the volumes,
  certificates and clusters they use are deleted. That may happen to a handler whose
  call was given up, in an event that fails, and to no other (`ResourcesOutliveCalls`).
  The returned error tells of everything that failed (`StageFailuresReported`).
* **Consistency point.** Base backups end before it, no frozen volume is pinned
  earlier than it, and all consumers share it (`BaseBackupsPrecedePoint`,
  `PointIsEarliestPin`).
* **Application.** Success means that every source was captured and then
  published, in this order (`ImplementsDREvent`); what is published is not still being
  written (`DoneWhenQuiet`). Calls to the tool pod have no deadline, so an event comes
  to a verdict unless it waits for an answer for ever, and one that is cancelled comes
  to a verdict in any case (`EventEnds`).
* **Volume cloning.** A group changes while it is snapshotted; a snapshot may not
  go before its clones are bound; deferred deletions fail independently.
* **Cloned cluster.** A certificate is denied until its policy is ready, so it
  must be reissued or it is waited for in vain; the fallback reuses a cluster's
  name; a chain of ten resources comes down in reverse.
* **WAL fence and recovery.** The target must be reachable even when the source
  is idle, while the source writes, switches segments and fails to archive.
* **S3.** The bucket is written while it is listed and fetched, with one-second
  timestamps; a retry meets the files of a sync that was cut short.
* **Files.** A sync deletes before it copies and may fail anywhere in between; the
  next one meets what that left, and what earlier ones copied under other filters,
  of other members, and of paths that were of another type
  (`BackupIsFilteredView`, `RestoreIsExact`, `NeverDeletesWhatItCopies`). A group
  that is restored is restored as a whole (`RestoreIsExact`).
* **Jobs.** A failed or killed attempt is retried on the DR volume that it left,
  beside a tool pod that may still be writing to it, and the next Job may bring
  another configuration, or find other PVCs in its groups. What is published is of its
  own event (`PublishedIsOwnCapture`), what is restored is what was published but for
  what the restore passed over (`RestoredIsPublished`), an ordinary failure leaves
  nothing in a retry's way (`RetriesAbsorbFailures`, `DeletesOnlyItsOwn`).
* **Dump and restore.** The dump passes from one process through a pipe, a filter
  and a buffer to a file, and any of them may end early; a dump that the caller was
  told of is whole (`DumpIsComplete`). What drops, makes or describes the roles that
  the operator manages is commented out, each prefix once, and nothing else is
  (`RestoreIsExact`): no restore replaces those roles, but what is set for them and
  granted to them passes the filter and is restored (`OthersAreSpared`).
* **gRPC.** A call has three ends: the caller's context, the pod and the process.
  Whichever comes first, the others follow (`CallsEnd`).
* **Waits.** A status may last for a moment, between a list, the check of the
  store and a watch that may expire (`NothingIsMissed`, `SettledIsNoticed`), and
  no verdict may be invented (`VerdictIsTrue`).

`PROJECT.json` lists every hazard at its line with the properties that watch it.

## Modules

### RemoteStage and DRApp (run `dr_event`)

`RemoteStage` is `RemoteStage.Run`. `phase` is the place in `Run`, `setup` or
`execute`, `next` the index of the loop that is running there. `Validate`,
`BeforeConsistencyPoint`, `Setup`, `Execute` and `CleanUpOne` are one call of the
method of that name on action `next`, `Skip` is the `continue` of a loop on an
action without the capability, `LoopDone` the end of a loop. `Stamp` is phase 2
of `setup`. `CreateTool`, `Connect`, `CloseClient` and `DeleteTool` are the calls
of `execute` and its two deferred functions.

The tool pod has a state of its own (`pod`), and `serving` is the action whose call a
handler there has taken up. `Execute` sends the call and Run awaits the answer;
`Answered` is the answer, `Cut` a call that ends without one, because the connection
breaks or the run's context has been cancelled. A handler that was cut off goes on:
`HandlerEnds` is its end, at any time or never. `DeleteTool` is the deletion, which
`core.DeletePod` issues and does not wait for, so that the pod is `terminating` while the
cleanup goes on; `PodEnds` is the end of the pod, whether its server stopped gracefully
or the kubelet killed it, and takes the handler with it. A deletion that is refused
leaves the pod (`left`).

The eight action types are the eight *kinds*. What distinguishes them, which
capability interfaces they implement, what they create and record
(`CreatedBefore`, `CreatedInSetup`), which flags they insist on (`Required`),
and in which order their `Cleanup` deletes (`DeletionRank`), are operators on the
kind. `owned` is what an action's fields record, `exists` what is in the cluster,
`refused` what could not be deleted; `failed` is every place something failed,
`err` what the returned aggregate tells of. A method that fails has already
tried to undo what it did (that is what `VolumeClone` and `ClonedCluster` are
about); what it could not delete is in `refused`, and the action has not
recorded it (`AbandonsLeaving`).

The clock counts ticks, `Granule` to the second; `Trunc` is what the API server
and RFC 3339 do to a time. An action's `pinned` instant is what
`BeforeConsistencyPoint` returned.

`DRApp` adds the application's frame: DR volume, stage, snapshot, verdict, and the
cancellation of the run's context (`Cancel`), by SIGTERM or by `--timeout`. It
differs between applications only in the actions registered, so an application
is the sequence of their kinds: `BackupActions` and `RestoreActions` for any
configuration of `GenericApp`, `VaultwardenBackup` and so on for the other three.

`DREvent` is the abstract specification: sources are captured one at a time, a
backup is published only when all are, success needs both. `DRApp` implements it
under the mapping `captured <- {a : "executed" \in done[a]}`.

### VolumeClone (`volume_clone`)

`ClonePVC` and `ClonePVCGroup`, step by step, with the Go `defer` stack as the
sequence `deferred`; the snapshot controller (`Capture`, `MemberBecomesReady`),
the provisioner (`Bind`) and whoever labels volumes (`Relabel`) take steps of
their own. Both callers of these functions set `ForceBind`, so the model does.

### Recovery (`recovery`)

A database's capture: base backup, consistency point, fence (`WriteFence`,
`CaptureSegment`, `SwitchWAL`, `AwaitArchive` are the statements of
`ForceWALArchive`), the clone and its recovery Job, and the fallback. The
source's write-ahead log is a sequence of records with a time and a segment; the
source commits, fills segments and archives them between any two steps; `at` is
the statement the operation is at, and the names of the module's specification
begin with its own (`RecoverySpec`), as its proofs are kept beside those of the
cloned cluster. What
PostgreSQL does with `recovery_target_time` (replay up to the first commit
later than it, fail if there is none) is external and stated in `PastTarget` and
`TargetIsReachable`.

### ClonedCluster (`cloned_cluster`)

`CloneClusterFromBackup` creates the seven `Units` in order, each certificate
with its request policy, waits for each, and handles the recovery Job's failure;
`Delete` goes through `DeleteOrder`. `recorded` is what the `ClonedCluster`
struct holds. cert-manager, approver-policy and the operator are the environment.
Where approver-policy enforces, a request made before its policy is ready is
denied and stays so.

### S3Sync (`s3_sync`)

`LocalRuntime.Sync`. The bucket is a `log` of versions and delete markers; the
listing proceeds key by key, so that the application's writes fall between
pages; parallel transfers are one step per object in any order. A `file` has a
content (the version it came from), a size and a modification time, because the
code compares the last two; a transfer cut short leaves a shorter file. Several
downloads and uploads follow each other on the same directory, as successive
events on one DR volume do.

Keys are paths: `Above` says which keys' paths another's passes through, as `a` is
above `a/b`. S3 holds both, a file system does not. `dirs` are the keys with a
subdirectory at their path, made with the first file below it and never removed
(`removeExtraneousLocalFiles` removes files only). `os.Stat` succeeds on a directory
as it does on a file, so `downloadObject` takes it for the object and succeeds without
it (`IsThere`); `PinnedDownloadIsExact` excepts such keys. Below a file it fails, and
nothing can be made there (`HasRoom`). A later restore then deletes the object from the
bucket, as it has no file.

### FilesSync (`files_sync`)

Group backups and restores on one DR volume, one event after the other. `volume`
is the group's directory there, a tree for each member directory; `pvcs` are the
trees of the event's members, which are a backup's frozen clones or a restore's
targets. A *tree* is a function from paths to what is at each: nothing, a
directory, a file's content, or a file cut short.

`StartBackup` and `StartRestore` begin the `Execute` of an event whose set-up has
resolved its members; `VerifyOneToOneMapping` is the check of the same name, on
what `ListDirectory` lists. For each member, `StartSync`, `WalkRoot`, `DeleteMissing`,
`Pruned`, `Copy` and `Copied` are `SyncFiles`: the walk over the destination in
`deleteMissingFiles`, one visited path per step, then the walk over the source in
`copyFiles`. `Permits` is `shouldTransfer`; which paths a pattern matches is a
parameter, so a filter is a set of excluded and one of included paths.
`LookupFails` and `Clashes` are what the file system refuses: looking up a path
below a file is not "does not exist" but an error, and neither a directory nor a
file can be made in the place of the other. Both make every later sync of a member
fail, loudly, until somebody clears the directory, when a path has changed between
file and directory. `DeletionFails` and `Fails` end a sync anywhere, and `Return`
ends the event, which keeps only the DR volume.

The root of the destination is a path of its own (`Root`). `deleteMissingFiles` asks the
filter about it as about any other, under the name `.`, and the patterns `*`, `?`, `.*`
and `**/.*` match that; `copyFiles` exempts it. A backup that excludes all hidden files
with `.*` therefore removes the member's whole directory first and copies everything
again (`WalkRoot`), and one that is interrupted in between has lost the earlier copy of
files that it would keep. Symbolic links to files are not modelled.

`BackupIsFilteredView` has one exception, which is the code's: a directory that has
become a file the filter keeps out stays behind, empty. `NeverDeletesWhatItCopies` has
another, that first step under a filter that excludes `.`. A restore's targets start
with whatever tree they have, one that an earlier restore has cut short included.

### DRJobs (`dr_jobs`, `slot_collision`)

Jobs one after another on one DR volume, each a backup or a restore of
`GenericApp`, each attempt an event with a number. `pc` is where the orchestrator
is; the stage is reduced to what its events leave to each other, which is three
things: the content of the DR volume and the snapshots of it, tool pods and the
handlers that run in them, and user certificates, whose names depend on the
cluster alone. `StartJob` is `Validate` and the registration of the sources in the
order of their kinds; `Execute` and `Answer` are a call to the tool pod, whose
`Handle` transfers in two steps: `SyncFiles` deletes and then copies, a download or
upload copies and then deletes, a dump truncates its file first. Between Jobs the
application writes (`ApplicationWrites`), so that its data is newer than any backup.

A group of PVCs is copied PVC by PVC, each to a directory of its own. In a registered
configuration it is therefore one source for each PVC that its selector matches now, and
an attempt asks anew (`StartJob`, `Retry`, `SameButMembers`). No sync deletes the
directory of another PVC. That of a PVC which has left the group stays on the DR volume
and in its backups, beside what `PublishedIsOwnCapture` promises; `Captured` has it when
a restore compares what was captured with the PVCs there are, and the restore is refused
(`IsRefused`, `GroupIsRefused`), unless the PVC has come back, when it is restored from
that directory.

A restore passes over what it cannot or need not do and succeeds all the same
(`PassesOver`): `psql` goes on after a statement that the server refuses, and an upload
skips an object of the file's size that is not older. `spared` has the sources this has
happened to in the Job's last restore of them, and `RestoredIsPublished` says less of
them (`Holds`): nothing of a database, and of a bucket that it has an object just where
the backup has.

The fault model: calls fail (`SetupFails`, `CallFails`, ...), are cut
(`CallIsCut`), a creation's response is lost or its undoing refused
(`CreateUserCertFails`, `CreateToolFails`), and the orchestrator is killed
(`Kill`). After a cut, `AfterCut` says what may become of the handler: a file sync
never looks at its context and goes on. `leaving` records that a fault has left
something behind of which the event does not know; `disturbed`, that a handler of
an earlier event wrote during this one. `PublishedIsOwnCapture` leaves out the
events that were disturbed: the code has nothing to hold such a handler back but
the DR volume's access mode, and that binds a volume to a node and not to a pod
(`VolumeIsTaken`).

### ToolCall (`tool_call`)

Calls to the server of a tool pod. `Call` is the client's method, `Arrive` the
server's handler, which gets the context of the call (`Notice` is that context's
end, through `WrapHandlerContext`); `Terminate`, `Stop` and `KillPod` are
SIGTERM, `GracefulStop` and the end of the pod's grace period. `StartDump`,
`CopyLine`, `CopyEnds`, `WaitEnds` and `Close` are `DumpAll`, with the buffer
between the filter and the file, its flush in a deferred call, and the process's
exit status; `StartRestore` and `WaitEnds` are `Restore`. The processes take steps
of their own: they write into a pipe of bounded size, fail, hang, are killed when
the context ends, and `pg_dumpall` may leave behind a `pg_dump` that keeps the pipe
open.

A line is what it is about, its kind, and the verb and name that its text begins
with. `Matches` is the filter, with what it has found
already; `HasPrefix` is `strings.HasPrefix`, for which one role's name may be the
beginning of another's. `Script` is what `pg_dumpall --clean --if-exists` writes,
block by block in the order in which it does: everything is dropped, then come the
roles in the order of their names (`RoleLines`), then the settings and memberships of
roles (`Configurations`; the test data `pgdump_stdout` shows where they come), then each
database with its rows (`DatabaseLines`). An `ALTER ROLE ... SET` begins like the
statement with the role's attributes, but comes when that entry has been found, so that
it stays in the dump; a `GRANT` begins like no entry. Both do as much for a managed
role, of which `pgdump_stdout_expected` keeps a membership too. `ToolExecutes` is what
`psql` makes of the lines, and `Without` what dropping a role takes from the others: it
is then no longer a member of any, which a dump that lacks those others does not bring
back. `SourcesAssumption`
says what is taken for granted of a cluster: its roles are in the order of their
names, so that none comes after one whose name begins with its own; it has the
managed roles; and what follows the verb in a statement about a database never
begins like a role's. `Restored` is what a restore is to bring back, all but the
managed roles. Of what is not restored, a managed role among it, nothing may go but such
a membership, and nothing may be added but the dump's settings and memberships
(`OthersAreSpared`).

### ResourceWait (`resource_wait`)

`WaitForResourceCondition`, the same by label, and `WaitForResourceDeletion`,
beside controllers that create, change and delete. The twelve kinds of wait differ
in what they look for: `PodIsReady` to `PolicyIsReady`, and the three verdicts of
a Job and of a base backup. `List`, `Deliver` and `Expire` are client-go's
informer, `CheckCondition`, `CheckMembers` and `CheckDeletion` the precondition on
the store, `ProcessCondition`, `ProcessMember` and `ProcessDeletion` the condition
on an event. The other modules take a wait as one step that succeeds, fails or
times out: this one is about whether it may.

## Runs

| Run | Question | Bounds | States |
|---|---|---|---|
| `dr_event` | point, teardown, verdict, refinement, termination | ten events, the clock from 2 to 5, 2 ticks per second | 689 k |
| `dr_jobs` | what events leave to each other; kills, cuts, retries | 2 Jobs of 2 attempts, 2 faults, 4 configurations, a group of 1 or 2 PVCs | 1.6 M |
| `tool_call` | calls, dumps and restores; early ends of each | 3 calls, 2 faults, 3 sources, pipe of 2 lines, buffer of 1 | 396 k |
| `resource_wait` | each kind of wait beside its controllers | 2 resources, 2 changes, 1 expiry | 164 k |
| `volume_clone` | a group that changes, failing clones | 3 volumes, both binding modes | 25 k |
| `recovery` | fence and recovery beside a busy source | 2 commits, 6 ticks of 2 per second | 565 k |
| `cloned_cluster` | creation, fallback, deletion | none needed: the units are fixed | 109 k |
| `s3_sync` | repeated downloads, uploads | 3 keys, one of them above another, 1 size, 3 writes, 3 seconds | 5.4 M |
| `files_sync` | group backups and restores, one after the other | 2 volumes, 2 paths and the root, 2 contents, every filter, any number of events | 1.2 M |
| `tool_pod_leak`, `s3_stale_file`, `slot_collision` | one statement of the code each, found not to hold | as above; `slot_collision` one Job without faults | |

Each module's `TypeOK` says what its variables hold; the runs check those of the
two modules at the top, `RemoteStage` with `DRApp`, and `DRJobs`, and the proofs
that of every module they are about.

Why these bounds are enough. A `Granule` of 2 is the least for which truncation
loses something. The clock goes from 2 to 5, that is through two whole seconds, so a base
backup, a freeze and a stamp are in one second, in different order within it, or on
either side of its end; what three seconds would add is a third moment that differs
from both, and no comparison is between more than two. The ten events include every kind, two of one
kind (Teleport's two clusters), events without consumers, without pins, and of
one action. Two Jobs are a backup and its restore, or two backups of which the
second meets what the first has left, with another configuration or the same; two
attempts of each with two faults let the retry meet what a kill left, and fail
itself. Two configurations use the same name for sources of different kinds,
one of each way to transfer; the other two are one group, which has a PVC or two, so that it
can grow and shrink from one attempt to the next. Three calls are a dump, a dump over it, and a restore;
the three sources have, between them, a comment on the managed role, on one whose name
begins like its, or on neither, a setting of the managed role, memberships either way or
none, rows or none, and a row that reads like a comment; a pipe of two and a buffer of one are
the least with which each of them can be empty, full and lost. Two resources and two
changes are a member that becomes ready while another no longer is, and something
that changes and goes, or goes and comes back, with the watch expiring in between.
Three volumes let a group both shrink and grow between its listing and its snapshot.
Three keys let a write fall between the listing of one and that of another, and one of
them above another lets each be listed alone, both at once or one after the other; with
one size every object is overwritten by one of its own, while a file cut short has
another (two sizes make more than 20 million states); three writes
are create, overwrite and delete of one key. Two commits fall on either side of a
target or both within its second. Two volumes let a group gain and lose a member,
and a path below another lets either be a file on one side and a directory on the
other; with all filters over them, every case of `Permits`, `LookupFails` and
`Clashes` occurs, and nothing bounds the number of events (a third path makes more
than 13 million states and no case that is new).

**Fairness.** Waits for the API server have timeouts in the code, and a timeout is one of
the outcomes of the step that models the wait, so such a step ends once it has begun. The
calls to the tool pod have none: they end with their answer or with the run's context,
`--timeout` is none by default, the chart's arguments give none and its Job has no
deadline (deletions in the teardown run under contexts of their own, with timeouts).
`FairSpec` of `DRApp` is therefore weak fairness of the program while it does not await
an answer, and of `Cut` once the context has been cancelled; nothing is assumed of the
tool pod, and `EventEnds` says that an event ends if it is cancelled, and otherwise ends
or awaits an answer for ever. `DRJobs` likewise assumes that the orchestrator of an
attempt that has begun proceeds except at `"await"`; no handler has to get any further or
end, no pod has to end, and no Job has to start; `EveryJobEnds` excepts a Job that waits
for an answer for ever. `FairSpec` of `VolumeClone` is weak fairness of the operation
only, all of whose waits have timeouts: a snapshot that never becomes ready is a
behaviour. `ToolCall` assumes that the server and its handlers run, that the
kubelet ends a deleted pod, and that a killed process dies; not that `pg_dumpall` or
`psql` ever get any further by themselves. An orphaned `pg_dump` gets to the end of
its database. `ResourceWait` assumes that the API server lists and delivers and that
the wait runs; not that its time is ever up, since the properties are about noticing
in time. The remaining runs check safety and assume no fairness.

**Deadlock checking is off** wherever an operation returns and then has no next
step; the cfgs say so. `EventEnds` and `Returns` show that nothing stops earlier.
`DRJobs`, `ToolCall` and `ResourceWait` are checked for deadlock, their ends being
`Done`.

**Assumptions about the world.** Clocks agree (the code says so of S3's). The
fence's commit is later than the consistency point that was read before it. The
application is quiet while it is restored. One Job runs at a time on a DR volume
(the chart's pod is not parallel; whether one schedule may overtake the other is
left to the chart's library), although handlers of an earlier one may. An S3 listing
as of the point begins in a later second than the point, since the tool pod has been
created in between. A Job may fail for reasons of its own.

Three details of the world are simpler in the models. `WaitForReadyEndpoint` looks for an
EndpointSlice by the Service's name (`endpoint.go:45`); `ResourceWait` takes what a wait
looks for as given. Up to PostgreSQL 16 `pg_walfile_name` of the first byte of a segment
names the segment before it, which `CaptureSegment` follows; later versions name the segment
itself, and `FenceMakesTargetReachable` holds for them too, as a segment no earlier is
waited for. In `ClonedCluster` a request is denied or granted when it is made (`Request`),
and `Reissue` makes a new one; in cert-manager it sets a condition, which does nothing while
a first request is still undecided.

### Findings

The three runs that end in a violation check what the code says of itself.

* `tool_pod_leak`: `execute` has an unnamed result, so the errors its two
  deferred calls aggregate into `err` are lost. An event can succeed and leave
  its tool pod running, and nothing says so. (`Run` itself names its result.)
* `s3_stale_file`: in `downloadObject`, a file that exists but is *not* up to
  date falls into the branch `!os.IsNotExist(err)` with a nil `err`, which
  returns success without fetching. A changed object is never refreshed on a DR
  volume that holds an older copy, and a file cut short by a failed sync stays. (A
  directory at an object's path counts as found in the same way, see above.)
* `slot_collision`: a name that two sources share is refused because it "collides on
  the on-disk subdir", but only among sources of one kind. A files and an s3 source
  of one name share a directory; the download, which comes last, deletes the files
  there, and the backup is published without them.

What else came up while modelling, for which there is no run:

* The instant of a filesystem is the creation time of its clone, which comes after
  its snapshot was ready, not "the moment the filesystem was frozen"
  (`filesbackup.go:108-110`). Databases and buckets can be captured later than the
  freeze. A group reports the freeze itself.
* The directories on the DR volume are not "the member directories the backup
  captured" (`filesgrouprestore.go:155`): that of a volume which has left the group
  stays, and every later restore of the group is refused for want of a target for
  it, or, if a volume of that name is back in the group, gives it the content of an
  earlier event than the others. (A group that *grows* between being listed and being frozen is cloned in
  part; that is the one way a successful clone is partial, which
  `PartialOnlyIfGrown` checks.)
* The fallback need not be "data-identical" (`clonedcluster.go:334-337`): the
  recovery Job can fail although the source was busy, or because the truncated
  target precedes the end of the base backup.
* A `CertificateRequestPolicy` that does not become ready in time is returned to
  nobody and never deleted (`createcrpforcertificate.go:134`,
  `clonedcluster.go:368-370`); `OnlyRefusedOrPolicyRemains` has it as its exception.
* Of the entries of `ignoreLines` the one for the comment on `postgres` need not
  be used up by it, as a role without a comment has no such statement. It is
  then used up by the first one that begins alike, `COMMENT ON ROLE
  postgres_exporter`, say, and that comment is lost. A row of data that begins like such
  a statement and ends in a semicolon is commented out too. `MCSources` has a source
  with each, and `DumpIsComplete` and `RestoreIsExact` have `IsMistaken` as their
  exception.
* `psql` runs without `ON_ERROR_STOP`, so a restore in which the server refused
  statements succeeds. `RestoreIsExact` of `ToolCall` has that as its exception, and so
  has `RestoredIsPublished` of `DRJobs`.
* An event whose `pg_dumpall` or `psql` hangs does not end until it is cancelled: nothing
  on the way to them has a deadline, and `--timeout` is none by default and in the chart.
* Two postgres sources of one cluster make a valid configuration whose restores
  always fail, as both create the user certificate of the same name.
* The waits take a deletion's last state for a state: a wait can succeed on account
  of something that is gone, and a group member that was ready when it was deleted
  still counts. `VerdictIsTrue` therefore says that what is returned *was* so.
* That a failed Job cannot be missed (`job.go:31-32`) holds only while the watch
  does not expire; `NothingIsMissed` has that as its exception.
* `NewClient` does not close its connection when `verifyConnection` fails, the
  logging interceptors of the server assign to a variable that concurrent calls
  share (only what is logged is affected), and `ConvertSingleContainerVolumes`
  keeps one of two volumes whose secret and claim have the same name.

## Theorems

What the runs show on small instances, the theorems show for all values of the
constants, from the named assumptions on them. Those say no more than what the
constants are, except `EventsAssumption` (an event registers databases before
filesystems, as the four applications do) and `SourcesAssumption` (what a cluster
has and how `pg_dumpall` orders it, see ToolCall above); `PathsDiffer` and
`TargetsDiffer` are hypotheses of the three theorems that need them.

| Module | Theorem | Statement |
|---|---|---|
| `DRAppProofs` | `TypeCorrect` | `Spec => []AppTypeOK` |
| | `BackupsPrecedePoint` | `Spec => []BaseBackupsPrecedePoint` |
| | `PointIsEarliestPinned` | `Spec => []PointIsEarliestPin` |
| | `NothingElseRemains` | `Spec => []OnlyRefusedRemain` |
| | `MountsOutliveCalls` | `Spec => []ResourcesOutliveCalls` |
| | `RefinesDREvent` | `Spec => ImplementsDREvent` |
| | `FailuresAreReported` | `Spec => []StageFailuresReported` |
| | `QuietWhenDone` | `Spec => []DoneWhenQuiet` |
| | `BaseBackupsOutlive` | `Spec => []BaseBackupOutlivesClone` |
| | `EventsAdvance` | `Spec => [][(Advances \/ ProgramWaits) /\ ...]_vars` |
| `DRJobsProofs` | `TypeCorrectness` | `Spec => []TypeOK` |
| | `OthersKeepTheirs` | `Spec => DeletesOnlyItsOwn` |
| | `BackupsAreOwnCaptures` | `PathsDiffer`: `Spec => []PublishedIsOwnCapture` |
| | `RetriesSuffice` | `TargetsDiffer`: `Spec => []RetriesAbsorbFailures` |
| | `RestoresAreOfBackups` | `TargetsDiffer`: `Spec => []RestoredIsPublished` |
| | `JobsAdvance`, `NobodyWaitsInVain` | `Spec => [][... => JobAdvances /\ ...]_vars`, `[](pc = "await" => ...)` |
| `VolumeCloneProofs` | `CloneTypes`, `FailuresLeaveOnlyRefused`, `OnlyGrownIsPartial` | `Spec => []TypeOK`, `[]FailureLeavesOnlyRefused`, `[]PartialOnlyIfGrown` |
| | `SnapshotsOutliveBinding` | `Spec => SnapshotOutlivesBinding` |
| | `ClonesAdvance` | `Spec => [][Operation => Advances /\ ...]_vars` |
| `DatabaseCloneProofs` | `RecoveryTypes`, `FenceSuffices` | `RecoverySpec => []RecoveryTypeOK`, `[]FenceMakesTargetReachable` |
| | `ClonesAreAtPoint` | `RecoverySpec => []CloneIsAtPoint` |
| | `CloneTypes`, `NoWaitIsVain`, `NameIsFree` | `Spec => []TypeOK`, `[]WaitsCanEnd`, `[]ClusterNameIsFree` |
| | `UsersGoFirst`, `OnlyTheseRemain` | `Spec => []NeededOutlivesUser`, `[]OnlyRefusedOrPolicyRemains` |
| `ResourceWaitProofs` | `WaitTypes`, `VerdictsAreTrue` | `Spec => []TypeOK`, `[]VerdictIsTrue` |
| `S3SyncProofs` | `TypeCorrectness`, `FailuresRemoveNothing` | `Spec => []TypeOK`, `[]FailedDownloadKeepsFiles` |
| | `AsOfIsRight`, `PinnedDownloadsAreExact` | `Spec => []AsOfIsWhatWasHeld`, `[]PinnedDownloadIsExact` |
| | `RestoresAreExact` | `Spec => []RestoreIsExact` |
| `FilesSyncProofs` | `TypeCorrectness` | `Spec => []TypeOK` |
| | `BackupsAreFilteredViews`, `RestoresAreExact` | `Spec => []BackupIsFilteredView`, `[]RestoreIsExact` |
| | `FilesAreKept` | `Spec => NeverDeletesWhatItCopies` |
| `ToolCallProofs` | `TypeCorrectness`, `DumpsAreComplete` | `Spec => []TypeOK`, `[]DumpIsComplete` |
| | `RestoresAreExact`, `ManagedRolesAreSpared` | `Spec => []RestoreIsExact`, `Spec => OthersAreSpared` |
| | `CallsAdvance`, `ProcessesAreThere` | `Spec => [][... => CallAdvances /\ ...]_vars`, `[]Awaited` |

Each follows from an inductive invariant: what the property leaves unsaid and the
next step relies on.

**The event** (`DRAppProofs`) has five, each with the types
where it needs them.

* `PointInv`. That base backups end by the point is not inductive: nothing in
  the state says why a base backup could not follow the point. The missing facts
  are that the stage's `earliest` is the least pin so far, that it is a truncated
  time no earlier than any base backup's end, that once there is one no database
  remains in the first loop (this is where the registration order enters), that
  the clock has passed every base backup, and that no point was handed out before
  the second phase. `Trunc` needs four lemmas: it is a time, no later, a multiple
  of the granule, monotone and idempotent.
* `TeardownInv`. That only refused resources remain needs: whatever is in the
  cluster is recorded or refused; whatever is recorded belongs to an
  action whose `Cleanup` will delete it (a database restore only cleans up once
  set up, and records nothing earlier); the tool pod's deletion is still to be issued
  in five phases only; nothing recorded goes before the cleanup; and behind the cleanup
  loop nothing is left but what was refused.
* `CaptureInv`. That success implies everything captured needs: behind the
  executing loop everything is captured, and after it everything is, unless `err`
  says otherwise. This is what the lost errors of the deferred calls do *not*
  break: those calls run when everything has been captured.
* `ReportInv`. That failures are reported must hold at every step, not only at the
  return; an error-free return must mean that no deletion but the tool pod's was
  refused; and a handler that serves a call which is not awaited serves one that was cut,
  of which `err` tells (`CutsInErr`). With `TeardownInv` (what is left was refused) these
  give `QuietWhenDone`, as a backup publishes only after an error-free return, and
  `MountsOutliveCalls`, as before the cleanup nothing is deleted.
* `OwnershipInv`. A prepared database has recorded its base backup, and a recorded
  clone has a recorded base backup of a database backup's action. Before the cleanup
  `BaseBackupsOutlive` then follows from `TeardownInv` (what is recorded stays); in
  the cleanup it is inductive, as the clone's deletion comes first in the order.

**Event after event** (`DRJobsProofs`). `TypeInv` has, beside the types, that an
attempt has a number of its own. `RecordedInv`, that an attempt records only user
certificates which are its own, gives `OthersKeepTheirs`.

* `BackupInv`. A backup is published by the last step of many. `CaptureInv` says
  how far it is at each: behind `next` every path holds the event's capture, and at
  `next` as much of it as the handler's step says (a file sync that has deleted, a
  dump that has truncated its file). A group's PVCs are sources of their own here, and the
  invariant speaks of those in the configuration alone: of the directories of PVCs that
  have left a group nothing is known. `StepInv` says that the handler which is awaited
  is the one of the source at `next`. Here `PathsDiffer` enters, that no two sources
  of a valid configuration are kept at one path: it is what keeps the next transfer
  from undoing an earlier one, and exactly what `slot_collision` shows the code's
  validation does not ensure.
* `RetryInv`. That an ordinary failure stands in no retry's way needs: while nothing
  was left behind, a user certificate is recorded by the attempt (`CertsKnown`) and a
  running tool pod is the attempt's (`PodsKnown`); so each attempt that fails has had
  a fault of its own (`FaultsPay`), the refusal of a group whose PVCs are not those
  captured among them. `TargetsDiffer`, that no two sources of one
  configuration are the same cluster, is needed because a valid configuration with two
  fails every restore (see Findings).
* `RestoreAllInv`. A file transfer that nobody waits for any more may go on during
  the next attempt, and write after it has succeeded. The invariant has that every
  handler alive during a restore is a restore's, of the same backup (`HandlersInv`),
  that the DR volume stays what it was hydrated with (`HydratedInv`), and, as for
  backups, what each target holds behind `next` and at `next` (`RestoreInv`). Only file
  transfers outlive their attempt, and one from the same backup leaves a target that is
  restored as it is. They pass nothing over, so `spared` changes only for the source whose
  call is awaited, and an upload that skips objects still ends with exactly the keys of
  the backup, since what is missing is copied and what is extraneous deleted.

**Volume cloning** (`VolumeCloneProofs`): the stack of deferred calls is one of four,
given by the place of the operation (`DeferredInv`); what is there has its deletion on
the stack, or was refused, or is the caller's (`ExistsInv`, `ClonesInv`); and as many
members are chosen as volumes were listed (`ChosenInv`), from which
`OnlyGrownIsPartial` follows by counting.

**Recovery** (`DatabaseCloneProofs`): the log is in the order of times and of segments
(`LogInv`), and from the fence on it has a fence record later than the point, in a
segment no later than the one that is waited for (`FenceInv`). This is why it is
enough to archive the segment the fence's *query* names, whatever the source has
written in between. A clone keeps what it has, and later commits are later than its
target (`CloneInv`).

**Cloned cluster** (`DatabaseCloneProofs`, `ClusterInv`): what precedes the unit at hand is ready
and stays so (`EarlierReady`), no unit that is waited for is denied (`UnitInv`), the
cluster's name is in use only while something uses it (`NameInv`), what exists is
recorded or a policy, and what the deletion has passed is gone, refused or unknown
(`RecordInv`).

**Waits** (`ResourceWaitProofs`): the store, the undelivered and the unprocessed
events have in them only what was so at some time since the wait began (`HistoryInv`),
and the members found ready are among that and too few (`MembersInv`).

**S3** (`S3SyncProofs`): versions are in the order of their times, none in the future
(`LogInv`). `AsOfIsRight` is a fact about such logs alone, and so is that the selection
as of a past instant does not change with what is written later (`AsOfStays`), on which
`PinnedDownloadsAreExact` rests: the listing is the selection over the keys behind it,
and what has been transferred is on the volume, or a directory is at its path
(`PinnedInv`). `RestoreInv` says of each
key that it is as it was listed while its turn has not come, and exact afterwards
unless a transfer failed. That a nonempty set of versions has a last one (`MaxExists`)
rests on the library's theorem that the finite subsets of a set are well-founded under
inclusion, as induction is out of the prover's reach.

**Files** (`FilesSyncProofs`), for trees of any depth and any filter: `SyncInv` says
how far the sync of a member is. Behind the walk over the destination nothing is left
that should have been pruned; behind the walk over the source there is what should
have been copied, and everything above a path that the walk has yet to reach is a
directory by now, so that what is copied there is in a tree. When both are over the
destination is the source's view, but for the empty directories that the property
names (`CopiedHolds`). `SyncedInv` keeps this of the members behind the loop: a sync
sets no destination but its own. `FilesAreKept` rests on the order of the tests in
`deleteMissingFiles`: had the walk pruned a directory above a file that is to be
copied, or the file, the source would lack it there or the filter refuse it, and
neither can be when the file is in the source's view (`CopiesAreNotPruned`). The step that
removes the root under a filter that excludes `.` is excepted in its statement, not in
`BackupsAreFilteredViews`, which needs no exception for it. That paths
are ordered by what is above and below them is proved from prefixes of sequences.

**Dump and restore** (`ToolCallProofs`), for any roles and databases, any contents and
any size of pipe and buffer. It has a part about the text and one about the steps.

* *What a script is.* `Script` flattens `Blocks`, which is a fold, and what a fold
  computes is out of the prover's reach by induction. `Flatten` shows instead, from
  the fold's defining equation, that the flattened sequence is its blocks one after
  another (`Flat`: each line is at a place of a block, in order, and no place is left
  out). Induction over lengths is replaced by the least counterexample of a finite set
  (`LeastExists`, `UpTo`), which rests on the library's theorem that the finite subsets
  of a set are well-founded under inclusion. `BlocksLayout` gives the order of the
  blocks, and `ScriptFacts` what follows for the lines: everything is created once, all
  drops before and its contents behind that, and no line before the statement about a
  managed role matches that statement's entry, a setting of it coming later. The last is where the order of the roles
  enters, since `postgres_exporter` begins with `postgres`.
* *What the filter makes of it.* The filter has a memory, `found`. A line is ignored
  exactly when it is the first of the script to match some entry (`Ignored`), and with
  that the dump is a function of the script (`Copied`). By `FlagFacts` all statements that
  drop, make or describe managed roles are ignored, other lines only by mistake, and the
  creation of what is restored never is.
* *The steps.* `Copying` says that the file and the buffer, in this order, are
  `Copied` up to the last line that was read, and that `found` is what those lines
  match. `Progress` and `Phases` say that an exit status of success means that all has
  been written, and that the handler waits for the status only when it has read all of
  that: without the wait, a dump cut short would pass for a whole one. `Restoring`
  says of everything that the restore has created that the target has of it exactly
  the lines since then that are not ignored (`Kept`), as long as nothing was refused;
  since all drops come first, no membership goes again.
  `ManagedRolesAreSpared` needs no more than that what is executed is the dump's, no
  line of which is about something else than what the source has, and that what is not
  ignored of a managed role is neither a drop nor anything `psql` makes of its statements.

**Termination.** That something ends (`EventEnds`, `EveryJobEnds`, `Returns`,
`CallsEnd`) needs fairness and ENABLED, which TLAPS does not support; the part of it
that is about steps is proved. `EventsAdvance`, `JobsAdvance`, `ClonesAdvance` and
`CallsAdvance` give each operation a place in a finite order and show that every step
goes on in it: to a later phase, to the next action, source or clone, to the next line
of a dump, or to fewer of finitely many resources that are left to delete. So no
operation goes round in circles, whatever fails and whatever the API server refuses: a
refused deletion, for one, is not tried again. What goes on beside it (tool pods, the
cluster, the child process) never takes it back. The one step that does go back, a
Job's retry, uses up one of its bounded number of attempts. Where an operation depends
on the steps of another, `NobodyWaitsInVain` and `ProcessesAreThere` say who is to take
them: the tool pod of an attempt that waits runs, with a handler of the very
call that it waits for, and a handler that reads or waits has a process whose end it
would see. Whether that handler and that process ever get there the code does not
decide (see Fairness).

Only model-checked: liveness, that is what fairness adds to these (`EventEnds`,
`EveryJobEnds`, `Returns`, `CallsEnd`), and `NothingIsMissed` and `SettledIsNoticed` as
a whole. Every invariant and every action property of a passing run has its theorem.

## Not modelled

More than half of the code under `src/pkg` by lines is generated: protocol buffers,
clientsets and mocks of the interfaces that these modules model. Commands, schemas
and the parsing of configurations have no state of the event, except that a valid
configuration is one `Validate` accepts, and that the command's timeout and SIGTERM
cancel contexts, which is one of the ways a call fails or is cut. The size of the DR
volume is a sum; too small a volume is a transfer that fails. How a cluster's WAL
source is resolved from the plugin's parameters, the objects that the primitives
build from their options, pod exec's streams, logging and stopwatches are left out,
and so are the end-to-end tests. How glob patterns match is a parameter of
`FilesSync`.

## Plan

1. Compose `VolumeClone` with `FilesSync`: the members a group backup syncs are those
   that one freeze captured, also when the group changes between events.
2. Two orchestrators at once on one DR volume, a backup's and a restore's.
3. `SyncFiles` as an abstract specification (a failed sync leaves any mixture that
   lacks nothing of the source, a successful one the view), implemented by
   `FilesSync`, and `DRJobs` built upon it.
