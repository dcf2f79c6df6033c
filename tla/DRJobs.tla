------------------------------- MODULE DRJobs -------------------------------
(***************************************************************************)
(* DR events one after another, as Jobs run them: every attempt of a Job   *)
(* is an event of GenericApp on the same DR volume, a failed attempt is    *)
(* retried, and an orchestrator may be killed, cut off from its tool pod   *)
(* or told of a failure that did not happen.                               *)
(*                                                                         *)
(* RemoteStage is about one event, in which nothing else goes on; here the *)
(* stage is reduced to what one event leaves to the next: the content of   *)
(* the DR volume, tool pods whose handlers still run, and user             *)
(* certificates, whose names do not depend on the event.  The snapshots of *)
(* the DR volume are the backups.                                          *)
(*                                                                         *)
(* A source's data is one item per capture, named after the source and the *)
(* event, as if it were one file (object, database) that every event finds *)
(* changed.  What a transfer does file by file is in FilesSync and S3Sync. *)
(*                                                                         *)
(* A group of PVCs is copied PVC by PVC, each to a directory of its own;   *)
(* in a configuration it is one source for every PVC that its selector     *)
(* matches, which may be other PVCs each time that an attempt asks.        *)
(***************************************************************************)
EXTENDS Naturals, Sequences, SequencesExt

CONSTANTS
  Configs,       \* configurations: sequences of [kind, name, of] sources, where
                 \* "of" is the PVC, cluster or bucket that is backed up
  BackoffLimit,  \* how many times a Job retries its pod
  MaxJobs,       \* bound on the number of Jobs
  MaxFaults      \* bound on the number of faults

Kinds == <<"postgres", "files", "fileGroups", "s3">>
Source == [kind : Range(Kinds), name : STRING, of : STRING]

ASSUME JobsAssumption ==
  /\ Configs \subseteq Seq(Source)
  /\ BackoffLimit \in Nat /\ MaxJobs \in Nat /\ MaxFaults \in Nat

Sources == UNION {Range(config) : config \in Configs}
Clusters == {s.of : s \in {r \in Sources : r.kind = "postgres"}}
Events == 1..MaxJobs * (1 + BackoffLimit)

NoEvent == 0
NoSource == [kind |-> "none", name |-> "none", of |-> "none"]
Foreign == [source |-> NoSource, event |-> NoEvent]  \* what no backup has
Live(s) == [source |-> s, event |-> NoEvent]         \* what the application itself wrote last
Item == [source : Sources, event : Events \cup {NoEvent}] \cup {Foreign}

NoCall == [step |-> 0]
Call == [source : Sources, direction : {"backup", "restore"}, step : 1..3]

VARIABLES
  pc,         \* where the orchestrator is, "idle" when there is none
  job,        \* the number of Jobs so far
  direction,  \* of the current Job: "backup" or "restore"
  config,     \* its configuration
  tries,      \* the attempts of the current Job so far
  event,      \* the event of the current attempt
  next,       \* the index of the source it is at
  recorded,   \* the clusters whose user certificate its actions recorded
  failed,     \* has the attempt failed?
  outcome,    \* of the Job: "none", "succeeded" or "failed"
  faults,     \* the number of faults in every Job, refused groups among them
  volume,     \* the content of the DR volume, by path
  target,     \* the live content of what the sources name
  spared,     \* the sources of which the Job's last restore passed something over
  hydrated,   \* the event whose snapshot the DR volume was hydrated from
  snapshots,  \* the snapshots of the DR volume, by event
  pods,       \* the state of the tool pod of every event
  calls,      \* the call that each tool pod's server is handling
  certs,      \* the event that created each cluster's user certificate
  disturbed,  \* the events during which a handler of an earlier one wrote
  leaving     \* has a fault left something behind that its event does not know of?

jobVars == <<job, direction, config, tries, outcome>>
stageVars == <<event, next, recorded, failed>>
dataVars == <<volume, target, spared, hydrated, snapshots, disturbed>>
toolVars == <<pods, calls>>
faultVars == <<faults, leaving>>
vars == <<pc, jobVars, stageVars, faultVars, dataVars, toolVars, certs>>

\* Where a source's capture is kept on the DR volume.
Path(s) ==
  CASE s.kind = "postgres"   -> <<s.name, "sql">>
    [] s.kind = "fileGroups" -> <<"fileGroups", s.name, s.of>>
    [] OTHER                 -> <<s.name>>

Paths == {Path(s) : s \in Sources}
Target(s) == <<s.kind, s.of>>
Targets == {Target(s) : s \in Sources}

\* What a target holds when the application has written all of it.
AppData(t) == {Foreign} \cup {Live(s) : s \in {r \in Sources : Target(r) = t}}

\* The cross-source rules of both configs: names must differ within a kind.  The
\* PVCs of a group share its name.
Validate(c) ==
  /\ c # <<>>
  /\ \A i, j \in DOMAIN c : i # j /\ c[i].kind = c[j].kind =>
       IF c[i].kind = "fileGroups" THEN c[i].of # c[j].of ELSE c[i].name # c[j].name
  /\ \A i \in DOMAIN c : c[i].name # "fileGroups"

\* The sources in the order in which the stage's actions are registered.
Registered(c) ==
  FlattenSeq([k \in DOMAIN Kinds |-> SelectSeq(c, LAMBDA s : s.kind = Kinds[k])])

Grouped(c) == {s \in Range(c) : s.kind = "fileGroups"}
Single(c) == Range(c) \ Grouped(c)

\* Is it one configuration, but for the PVCs that its groups' selectors match?
SameButMembers(c, d) ==
  /\ Single(c) = Single(d)
  /\ {s.name : s \in Grouped(c)} = {s.name : s \in Grouped(d)}

\* Only sources are registered.
ASSUME RegistrationAssumption == \A c \in Configs : Registered(c) \in Seq(Sources)

NoSnapshot == [config |-> <<>>]
SnapshotOf == [config : Seq(Sources), content : [Paths -> SUBSET Item]]

TypeOK ==
  /\ pc \in {"idle", "setup", "tool", "call", "await", "delete", "cleanup", "publish", "end"}
  /\ job \in 0..MaxJobs
  /\ direction \in {"backup", "restore"}
  /\ config \in Seq(Sources)
  /\ tries \in 0..1 + BackoffLimit
  /\ event \in Events \cup {NoEvent}
  /\ next \in Nat
  /\ recorded \subseteq Clusters
  /\ failed \in BOOLEAN
  /\ outcome \in {"none", "succeeded", "failed"}
  /\ faults \in [1..MaxJobs -> Nat]
  /\ volume \in [Paths -> SUBSET Item]
  /\ target \in [Targets -> SUBSET Item]
  /\ spared \subseteq {s \in Sources : s.kind \in {"postgres", "s3"}}
  /\ hydrated \in Events \cup {NoEvent}
  /\ snapshots \in [Events -> SnapshotOf \cup {NoSnapshot}]
  /\ pods \in [Events -> {"none", "running", "terminating"}]
  /\ calls \in [Events -> Call \cup {NoCall}]
  /\ certs \in [Clusters -> Events \cup {NoEvent}]
  /\ disturbed \subseteq Events
  /\ leaving \in BOOLEAN

-----------------------------------------------------------------------------
\* One transfer, in two steps of its handler.

SameFile(x, y) == x.source = y.source
Missing(dst, src) == {y \in src : \A x \in dst : ~SameFile(x, y)}
Prune(dst, src) == {x \in dst : \E y \in src : SameFile(x, y)}
Replace(dst, src) == {x \in dst : \A y \in src : ~SameFile(x, y)} \cup src

\* Mutant: what the source lacks is not deleted.
SyncFilesCopying(step, dst, src) == IF step = 1 THEN dst ELSE Replace(dst, src)

\* SyncFiles deletes what the source lacks, then copies.
SyncFiles(step, dst, src) == IF step = 1 THEN Prune(dst, src) ELSE Replace(dst, src)

\* Mutant: what the source lacks is not deleted at the end.
SyncS3Copying(step, dir, dst, src) ==
  IF step = 2 THEN dst
  ELSE IF dir = "backup" THEN dst \cup Missing(dst, src) ELSE Replace(dst, src)

\* A download fetches what is missing, and keeps the files that are there; an
\* upload replaces objects.  Both delete the rest at the end.
SyncS3(step, dir, dst, src) ==
  IF step = 2 THEN Prune(dst, src)
  ELSE IF dir = "backup" THEN dst \cup Missing(dst, src) ELSE Replace(dst, src)

\* A dump truncates its file; a restore drops the databases it is to create, and
\* fills them.
TransferPostgres(step, dir, dst, src) ==
  IF dir = "backup"
  THEN IF step = 1 THEN {} ELSE Replace(dst, src)
  ELSE IF step = 1 THEN dst \ Prune(dst, src) ELSE dst \cup src

Transfer(call, dst, src) ==
  CASE call.source.kind = "postgres" -> TransferPostgres(call.step, call.direction, dst, src)
    [] call.source.kind = "s3"       -> SyncS3(call.step, call.direction, dst, src)
    [] OTHER                         -> SyncFiles(call.step, dst, src)

\* A restore passes over what it cannot or need not do, without an error: psql goes
\* on after a statement that the server refuses, and an upload skips an object of
\* the file's size that is not older, as what the application wrote since is not.
PassesOver(call) ==
  /\ call.direction = "restore"
  /\ call.source.kind = "postgres" \/ (call.source.kind = "s3" /\ call.step = 1)

TransferLess(call, dst, src) ==
  IF call.source.kind = "s3" THEN dst \cup Missing(dst, src) ELSE dst

-----------------------------------------------------------------------------
\* Jobs and their attempts.

Init ==
  /\ pc = "idle" /\ job = 0 /\ direction = "backup" /\ config = <<>>
  /\ tries = 0 /\ event = NoEvent /\ next = 1
  /\ recorded = {} /\ failed = FALSE /\ outcome = "none"
  /\ faults = [j \in 1..MaxJobs |-> 0]
  /\ volume = [p \in Paths |-> {}]
  /\ target = [t \in Targets |-> AppData(t)]
  /\ spared = {}
  /\ hydrated = NoEvent
  /\ snapshots = [e \in Events |-> NoSnapshot]
  /\ pods = [e \in Events |-> "none"]
  /\ calls = [e \in Events |-> NoCall]
  /\ certs = [c \in Clusters |-> NoEvent]
  /\ disturbed = {} /\ leaving = FALSE

TotalFaults == FoldFunction(LAMBDA a, b : a + b, 0, faults)

\* Something goes wrong that the code does not cause.  Some faults leave things
\* behind that the attempt will not delete.
Fault(leaves) ==
  /\ TotalFaults < MaxFaults
  /\ faults' = [faults EXCEPT ![job] = @ + 1]
  /\ leaving' = (leaving \/ leaves)

\* The state in which an attempt begins, the first of its Job or a retry.
BeginAttempt(n, c) ==
  /\ event' = event + 1
  /\ tries' = n
  /\ next' = 1 /\ recorded' = {} /\ failed' = FALSE
  /\ pc' = "setup"
  /\ config' = c

\* A Job starts: a backup with any valid configuration, or a restore of the
\* event that the DR volume was hydrated from, with its configuration, whatever
\* PVCs are in its groups by now.
StartJob ==
  /\ pc = "idle" /\ job < MaxJobs
  /\ job' = job + 1
  /\ outcome' = "none"
  /\ \/ /\ direction' = "backup"
        /\ hydrated' = NoEvent
        /\ \E c \in Configs : Validate(c) /\ BeginAttempt(1, Registered(c))
     \/ /\ direction' = "restore"
        /\ hydrated # NoEvent /\ UNCHANGED hydrated
        /\ \E c \in Configs :
             /\ Validate(c) /\ SameButMembers(Registered(c), snapshots[hydrated].config)
             /\ BeginAttempt(1, Registered(c))
  /\ spared' = {}
  /\ UNCHANGED <<faultVars, volume, target, snapshots, disturbed, toolVars, certs>>

\* Out-of-band, the DR volume is replaced by a new one with a snapshot's
\* content.  A volume in use by a pod cannot go.
Hydrate ==
  /\ pc = "idle" /\ job < MaxJobs
  /\ \A e \in Events : pods[e] = "none"
  /\ \E e \in Events :
       /\ snapshots[e] # NoSnapshot
       /\ volume' = snapshots[e].content
       /\ hydrated' = e
  /\ outcome' = "none"
  /\ UNCHANGED <<pc, job, direction, config, tries, stageVars, faultVars, target, spared, snapshots, disturbed, toolVars, certs>>

\* Between Jobs the application goes on and writes: its data is newer than every
\* backup again.
ApplicationWrites ==
  /\ pc = "idle" /\ job < MaxJobs
  /\ \E t \in Targets : target' = [target EXCEPT ![t] = AppData(t)]
  /\ outcome' = "none"
  /\ UNCHANGED <<pc, job, direction, config, tries, stageVars, faultVars, volume, spared, hydrated, snapshots, disturbed, toolVars, certs>>

\* A retry asks anew which PVCs are in the groups.
Retry ==
  \E c \in Configs : /\ Validate(c) /\ SameButMembers(Registered(c), config)
                     /\ BeginAttempt(tries + 1, Registered(c))

\* Mutant: one more retry than the limit allows.
EndOneLater ==
  /\ pc = "end"
  /\ \/ /\ failed /\ tries <= BackoffLimit + 1
        /\ Retry
        /\ UNCHANGED outcome
     \/ /\ failed => tries > BackoffLimit + 1
        /\ pc' = "idle"
        /\ outcome' = IF failed THEN "failed" ELSE "succeeded"
        /\ UNCHANGED <<stageVars, tries, config>>
  /\ UNCHANGED <<job, direction, faultVars, dataVars, toolVars, certs>>

\* The attempt ends as a success, is retried, or fails the Job for good.
End ==
  /\ pc = "end"
  /\ \/ /\ failed /\ tries <= BackoffLimit
        /\ Retry
        /\ UNCHANGED outcome
     \/ /\ failed => tries > BackoffLimit
        /\ pc' = "idle"
        /\ outcome' = IF failed THEN "failed" ELSE "succeeded"
        /\ UNCHANGED <<stageVars, tries, config>>
  /\ UNCHANGED <<job, direction, faultVars, dataVars, toolVars, certs>>

-----------------------------------------------------------------------------
\* One attempt: the stage's setup, execution and teardown, then the snapshot.

Proceed(to) == pc' = to /\ UNCHANGED <<event, recorded, failed>>
FailTo(to) == pc' = to /\ failed' = TRUE /\ UNCHANGED <<event, next, recorded>>
AtEnd == next > Len(config)
Current == config[next]

MintsCertificate == direction = "restore" /\ Current.kind = "postgres"

\* The setup of an action creates nothing another event could meet, but for a
\* restore's user certificate.
SetupOne ==
  /\ pc = "setup" /\ ~AtEnd /\ ~MintsCertificate
  /\ Proceed("setup") /\ next' = next + 1
  /\ UNCHANGED <<jobVars, faultVars, dataVars, toolVars, certs>>

\* NewClusterUserCert: the certificate is created under a name that only the
\* cluster determines.  It is recorded when the call returns.
CreateUserCert ==
  /\ pc = "setup" /\ ~AtEnd /\ MintsCertificate
  /\ IF certs[Current.of] = NoEvent
     THEN /\ certs' = [certs EXCEPT ![Current.of] = event]
          /\ recorded' = recorded \cup {Current.of}
          /\ next' = next + 1
          /\ UNCHANGED <<pc, event, failed>>
     ELSE FailTo("cleanup") /\ UNCHANGED certs
  /\ UNCHANGED <<jobVars, faultVars, dataVars, toolVars>>

\* Creation or a later step of it fails.  NewClusterUserCert deletes only what
\* the creation returned: when the response was lost, or when the deletion is
\* refused too, the certificate stays.
CreateUserCertFails ==
  /\ pc = "setup" /\ ~AtEnd /\ MintsCertificate
  /\ \/ Fault(FALSE) /\ UNCHANGED certs
     \/ /\ Fault(TRUE)
        /\ certs[Current.of] = NoEvent
        /\ certs' = [certs EXCEPT ![Current.of] = event]
  /\ FailTo("cleanup")
  /\ UNCHANGED <<jobVars, dataVars, toolVars>>

\* Mutant: the actions that were set up before are not cleaned up.
SetupFailsAbruptly ==
  /\ pc = "setup" /\ ~AtEnd /\ ~MintsCertificate
  /\ Fault(FALSE)
  /\ FailTo("end")
  /\ UNCHANGED <<jobVars, dataVars, toolVars, certs>>

\* A call of another action's setup fails.
SetupFails ==
  /\ pc = "setup" /\ ~AtEnd /\ ~MintsCertificate
  /\ Fault(FALSE)
  /\ FailTo("cleanup")
  /\ UNCHANGED <<jobVars, dataVars, toolVars, certs>>

SetupDone ==
  /\ pc = "setup" /\ AtEnd
  /\ Proceed("tool") /\ UNCHANGED next
  /\ UNCHANGED <<jobVars, faultVars, dataVars, toolVars, certs>>

\* CreateBackupToolInstance, whose pod gets a generated name.
CreateTool ==
  /\ pc = "tool"
  /\ pods' = [pods EXCEPT ![event] = "running"]
  /\ Proceed("call") /\ next' = 1
  /\ UNCHANGED <<jobVars, faultVars, dataVars, calls, certs>>

\* The DR volume can be attached to one node at a time: while the pod of an
\* earlier event runs on another node, the new one does not become ready.
VolumeIsTaken == \E e \in Events \ {event} : pods[e] = "running"

ToolIsNotReady ==
  /\ pc = "tool" /\ VolumeIsTaken
  /\ FailTo("cleanup")
  /\ UNCHANGED <<jobVars, faultVars, dataVars, toolVars, certs>>

\* The pod is not created or deleted again, or it is created unknown to the caller.
CreateToolFails ==
  /\ pc = "tool"
  /\ \E state \in {"none", "running"} :
       /\ Fault(state = "running")
       /\ pods' = [pods EXCEPT ![event] = state]
  /\ FailTo("cleanup")
  /\ UNCHANGED <<jobVars, dataVars, calls, certs>>

\* The PVCs that a group's backup has a directory for: those of the event and any
\* that earlier ones left, for no sync deletes the directory of another PVC.
Captured(group) ==
  {s \in Sources : s.kind = "fileGroups" /\ s.name = group /\ volume[Path(s)] # {}}

\* A group is restored only if it has the PVCs that were captured.
IsRefused(s) ==
  /\ direction = "restore" /\ s.kind = "fileGroups"
  /\ Captured(s.name) # {r \in Grouped(config) : r.name = s.name}

\* Execute of the next source: a request to the tool pod, answered at the end.
Execute ==
  /\ pc = "call" /\ ~AtEnd /\ ~IsRefused(Current)
  /\ calls' = [calls EXCEPT ![event] = [source |-> Current, direction |-> direction, step |-> 1]]
  /\ spared' = spared \ {Current}
  /\ Proceed("await") /\ UNCHANGED next
  /\ UNCHANGED <<jobVars, faultVars, volume, target, hydrated, snapshots, disturbed, pods, certs>>

\* The members do not match, which counts as one of the Job's faults.
GroupIsRefused ==
  /\ pc = "call" /\ ~AtEnd /\ IsRefused(Current)
  /\ faults' = [faults EXCEPT ![job] = @ + 1] /\ UNCHANGED leaving
  /\ FailTo("delete")
  /\ UNCHANGED <<jobVars, dataVars, toolVars, certs>>

Answer ==
  /\ pc = "await" /\ calls[event].step = 3
  /\ calls' = [calls EXCEPT ![event] = NoCall]
  /\ Proceed("call") /\ next' = next + 1
  /\ UNCHANGED <<jobVars, faultVars, dataVars, pods, certs>>

\* The handler fails, and so does the call.
CallFails ==
  /\ pc = "await"
  /\ Fault(FALSE)
  /\ calls' = [calls EXCEPT ![event] = NoCall]
  /\ FailTo("delete")
  /\ UNCHANGED <<jobVars, dataVars, pods, certs>>

\* What may become of the handler of a call that nobody waits for any longer: S3
\* requests and psql end with the call's context, a pg_dump may outlive its
\* pg_dumpall (see ToolCall), and a file sync never looks at the context.
AfterCut(call) ==
  IF call = NoCall THEN {NoCall} ELSE
    CASE call.source.kind = "s3"       -> {NoCall}
      [] call.source.kind = "postgres" ->
           {NoCall} \cup (IF call.direction = "backup" /\ call.step = 2 THEN {call} ELSE {})
      [] OTHER                         -> {call}

CutOff == calls' \in {[calls EXCEPT ![event] = c] : c \in AfterCut(calls[event])}

\* The orchestrator's context is cancelled, or the connection breaks.
CallIsCut ==
  /\ pc = "await"
  /\ Fault(FALSE)
  /\ CutOff
  /\ FailTo("delete")
  /\ UNCHANGED <<jobVars, dataVars, pods, certs>>

ExecuteDone ==
  /\ pc = "call" /\ AtEnd
  /\ Proceed("delete") /\ UNCHANGED next
  /\ UNCHANGED <<jobVars, faultVars, dataVars, toolVars, certs>>

\* What becomes of a pod that is deleted: its server stops when no handler runs any
\* longer, at once if none does.
Deleted(e) == IF calls[e] = NoCall THEN "none" ELSE "terminating"

\* Mutant: the deletion waits for the pod to end.
DeleteToolAndWait ==
  /\ pc = "delete"
  /\ \/ /\ pods[event] = "running"
        /\ pods' = [pods EXCEPT ![event] = Deleted(event)]
        /\ UNCHANGED <<pc, stageVars>>
     \/ /\ pods[event] = "none"
        /\ Proceed("cleanup") /\ UNCHANGED <<next, pods>>
  /\ UNCHANGED <<jobVars, faultVars, dataVars, calls, certs>>

\* The deferred deletion of the tool pod does not wait for the pod to end.  A
\* refusal is not reported.
DeleteTool ==
  /\ pc = "delete"
  /\ \/ pods' = [pods EXCEPT ![event] = Deleted(event)] /\ UNCHANGED faultVars
     \/ Fault(TRUE) /\ UNCHANGED pods
  /\ Proceed("cleanup") /\ UNCHANGED next
  /\ UNCHANGED <<jobVars, dataVars, calls, certs>>

\* Mutant: a restore deletes its clusters' certificates by their names.
DeletableByName(e, c) ==
  direction = "restore" /\ c \in {s.of : s \in Range(config)} /\ certs[c] # NoEvent

\* The cleanup of the actions: only what they recorded is deleted.
DeletableBy(e, c) == c \in recorded

CleanUpOne ==
  /\ pc = "cleanup"
  /\ \E c \in Clusters :
       /\ DeletableBy(event, c)
       /\ recorded' = recorded \ {c}
       /\ \/ certs' = [certs EXCEPT ![c] = NoEvent] /\ UNCHANGED <<faultVars, failed>>
          \/ Fault(TRUE) /\ failed' = TRUE /\ UNCHANGED certs
  /\ UNCHANGED <<pc, event, next, jobVars, dataVars, toolVars>>

CleanUpDone ==
  /\ pc = "cleanup" /\ recorded = {}
  /\ Proceed(IF failed \/ direction = "restore" THEN "end" ELSE "publish")
  /\ UNCHANGED next
  /\ UNCHANGED <<jobVars, faultVars, dataVars, toolVars, certs>>

\* The DR volume's snapshot, named after the event.
Snapshot == [config |-> config, content |-> volume]

Publish ==
  /\ pc = "publish"
  /\ snapshots' = [snapshots EXCEPT ![event] = Snapshot]
  /\ Proceed("end") /\ UNCHANGED next
  /\ UNCHANGED <<jobVars, faultVars, volume, target, spared, hydrated, disturbed, toolVars, certs>>

\* It fails, or does not become ready in time, in which case it stays.
PublishFails ==
  /\ pc = "publish"
  /\ Fault(FALSE)
  /\ \E taken \in BOOLEAN :
       snapshots' = IF taken THEN [snapshots EXCEPT ![event] = Snapshot] ELSE snapshots
  /\ FailTo("end")
  /\ UNCHANGED <<jobVars, volume, target, spared, hydrated, disturbed, toolVars, certs>>

\* The orchestrator is killed: nothing is torn down, and its call is cut.
Kill ==
  /\ pc \notin {"idle", "end"}
  /\ Fault(TRUE)
  /\ CutOff
  /\ FailTo("end")
  /\ UNCHANGED <<jobVars, dataVars, pods, certs>>

-----------------------------------------------------------------------------
\* Tool pods: their handlers write to the volumes, whatever became of the caller.

Handle(e) ==
  /\ calls[e] # NoCall /\ calls[e].step < 3
  /\ LET s == calls[e].source
     IN  \/ /\ calls[e].direction = "backup"
            /\ volume' = [volume EXCEPT ![Path(s)] =
                            Transfer(calls[e], @, {[source |-> s, event |-> e]})]
            /\ UNCHANGED <<target, spared>>
         \/ /\ calls[e].direction = "restore"
            /\ target' = [target EXCEPT ![Target(s)] = Transfer(calls[e], @, volume[Path(s)])]
            /\ UNCHANGED <<volume, spared>>
         \/ /\ PassesOver(calls[e])
            /\ target' = [target EXCEPT ![Target(s)] = TransferLess(calls[e], @, volume[Path(s)])]
            /\ spared' = spared \cup {s}
            /\ UNCHANGED volume
  /\ calls' = [calls EXCEPT ![e].step = @ + 1]
  /\ disturbed' = IF e # event /\ pc \notin {"idle", "end"}
                  THEN disturbed \cup {event} ELSE disturbed
  /\ UNCHANGED <<pc, jobVars, stageVars, faultVars, hydrated, snapshots, pods, certs>>

\* The handler of a call that was cut ends without anyone to answer.
Forget(e) ==
  /\ calls[e] # NoCall /\ calls[e].step = 3
  /\ e # event \/ pc # "await"
  /\ calls' = [calls EXCEPT ![e] = NoCall]
  /\ UNCHANGED <<pc, jobVars, stageVars, faultVars, dataVars, pods, certs>>

\* A deleted pod ends, gracefully or at the end of its grace period.
PodEnds(e) ==
  /\ pods[e] = "terminating"
  /\ pods' = [pods EXCEPT ![e] = "none"]
  /\ calls' = [calls EXCEPT ![e] = NoCall]
  /\ UNCHANGED <<pc, jobVars, stageVars, faultVars, dataVars, certs>>

Orchestrator ==
  \/ StartJob \/ End
  \/ SetupOne \/ CreateUserCert \/ CreateUserCertFails \/ SetupFails \/ SetupDone
  \/ CreateTool \/ ToolIsNotReady \/ CreateToolFails
  \/ Execute \/ GroupIsRefused \/ Answer \/ CallFails \/ CallIsCut \/ ExecuteDone
  \/ DeleteTool \/ CleanUpOne \/ CleanUpDone
  \/ Publish \/ PublishFails
  \/ Kill

ToolPods == \E e \in Events : Handle(e) \/ Forget(e) \/ PodEnds(e)

\* Every Job that the bound allows has run.
Done == pc = "idle" /\ job = MaxJobs /\ UNCHANGED vars

Next == Orchestrator \/ Hydrate \/ ApplicationWrites \/ ToolPods \/ Done

\* An attempt that has begun proceeds, but for the answers that it waits for: a call
\* has no deadline, its handler may hang, and nothing tells that the peer is gone.
Fairness == WF_vars(pc \notin {"idle", "await"} /\ Orchestrator)

Spec == Init /\ [][Next]_vars /\ Fairness

-----------------------------------------------------------------------------
\* Properties.

\* Does a path hold what a source's capture by an event leaves there?  Files of
\* earlier downloads of a bucket stay (see S3Sync), those of other sources do not.
HoldsCapture(content, s, e) ==
  IF s.kind = "s3"
  THEN content # {} /\ \A x \in content : x.source = s
  ELSE content = {[source |-> s, event |-> e]}

\* A published backup holds every source's capture by its own event, a group's for
\* every PVC that it then had, and nothing of failed attempts, of earlier events or
\* of sources that used their paths under other configurations; unless a handler
\* that an earlier attempt was cut off from was still writing to the DR volume.
\* Beside them a group keeps the directories of PVCs that have left it.
PublishedIsOwnCapture ==
  \A e \in Events :
    snapshots[e] # NoSnapshot /\ e \notin disturbed =>
      \A s \in Range(snapshots[e].config) : HoldsCapture(snapshots[e].content[Path(s)], s, e)

\* Does a target hold what the backup has of a source?  A database that the backup
\* has not stays.  If the restore passed something over, objects of a bucket may be
\* the application's, but there are none that the backup has not; of the databases
\* that were restored nothing is known.
Holds(live, published, s) ==
  /\ s \notin spared =>
       published = (IF s.kind = "postgres" THEN Prune(live, published) ELSE live)
  /\ s.kind = "s3" => {x.source : x \in live} = {x.source : x \in published}

\* A Job that succeeds in restoring leaves every source with what the backup
\* published, whatever the application wrote before it and whatever earlier
\* attempts did or are still doing; except for what the restore passed over.
RestoredIsPublished ==
  direction = "restore" /\ outcome = "succeeded" =>
    \A s \in Range(config) :
      Holds(target[Target(s)], snapshots[hydrated].content[Path(s)], s)

\* An ordinary failure leaves nothing that could stand in the way of a retry: as
\* long as nobody was killed, no response lost and no deletion refused, a Job
\* fails only after more faults than it has retries.
RetriesAbsorbFailures ==
  outcome = "failed" /\ ~leaving => faults[job] > BackoffLimit

\* No attempt deletes a user certificate that it did not create, even though all
\* use the same name.
DeletesOnlyItsOwn ==
  [][\A c \in Clusters : certs'[c] # certs[c] => certs[c] \in {NoEvent, event}]_vars

\* Every Job comes to an end, unless one waits for an answer for ever.
EveryJobEnds == []<>(pc = "idle") \/ <>[](pc = "await")

=============================================================================
