----------------------------- MODULE VolumeClone -----------------------------
(***************************************************************************)
(* Cloning volumes from snapshots: ClonePVC, for one volume, and           *)
(* ClonePVCGroup, for every volume a label selector matches.               *)
(*                                                                         *)
(* Both snapshot, wait, create volumes from the snapshots and force the    *)
(* volumes to bind by mounting them into a short-lived pod.  What they     *)
(* create along the way they delete in deferred calls, last deferred       *)
(* first; each of those deletions may be refused.  ClonePVC always deletes *)
(* its snapshot, ClonePVCGroup hands its snapshot to the caller.           *)
(*                                                                         *)
(* The snapshot controller, the volume provisioner and whoever labels      *)
(* volumes run beside the operation.  Every wait of the operation may time *)
(* out, and every call may fail.  Both callers set ForceBind.              *)
(***************************************************************************)
EXTENDS Naturals, Sequences, FiniteSets

CONSTANT PVCs    \* the volumes that the selector may match

ASSUME PVCsAssumption == IsFiniteSet(PVCs)

VARIABLES
  kind,      \* "single" or "group"
  binding,   \* the binding mode of the clones' storage class
  pc,        \* where the operation is
  selected,  \* the volumes the selector matches at present
  listed,    \* the volumes it matched when the operation listed them
  members,   \* the volumes the snapshot captured, {} until it has been taken
  ready,     \* the ones whose snapshot is ready to use
  chosen,    \* the ones the operation goes on to clone
  result,    \* the sources of the clones it has recorded ({} is nil)
  clones,    \* the sources of the clones that are in the cluster
  bound,     \* the sources of the clones that are bound
  exists,    \* which of the snapshot and the pod are in the cluster
  refused,   \* what could not be deleted
  deferred,  \* the deferred calls, the last one to run first
  err        \* will an error be returned?

inputs == <<kind, binding>>
captureVars == <<selected, members, ready>>
vars == <<kind, binding, pc, selected, listed, members, ready, chosen, result,
          clones, bound, exists, refused, deferred, err>>

Init ==
  /\ kind \in {"single", "group"}
  /\ binding \in {"Immediate", "WaitForFirstConsumer"}
  /\ pc = IF kind = "single" THEN "snapshot" ELSE "list"
  /\ selected \in SUBSET PVCs
  /\ kind = "single" => Cardinality(selected) = 1
  /\ listed = IF kind = "single" THEN selected ELSE {}
  /\ members = {}
  /\ ready = {}
  /\ chosen = {}
  /\ result = {}
  /\ clones = {}
  /\ bound = {}
  /\ exists = {}
  /\ refused = {}
  /\ deferred = <<>>
  /\ err = FALSE

\* The operation is at place p and goes on at place q.
Goto(p, q) == pc = p /\ pc' = q

\* The call at place p fails, or its wait times out: the deferred calls run.
Fails(p) ==
  /\ Goto(p, "unwind")
  /\ err' = TRUE
  /\ UNCHANGED <<inputs, captureVars, listed, chosen, result, clones, bound,
                 exists, refused, deferred>>

Defer(call) == deferred' = Append(deferred, call)

------------------------------------------------------------------------------

\* ListPVCs: the matched volumes are counted.  Matching none is an error.
List ==
  \/ /\ Goto("list", "snapshot")
     /\ selected # {}
     /\ listed' = selected
     /\ UNCHANGED <<inputs, captureVars, chosen, result, clones, bound, exists,
                    refused, deferred, err>>
  \/ Fails("list")

\* SnapshotVolume, or GroupSnapshotVolumes.
CreateSnapshot ==
  \/ /\ Goto("snapshot", "waitReady")
     /\ exists' = exists \cup {"snapshot"}
     /\ Defer("deleteSnapshot")
     /\ UNCHANGED <<inputs, captureVars, listed, chosen, result, clones, bound,
                    refused, err>>
  \/ Fails("snapshot")

\* WaitForReadySnapshot, or WaitForReadyGroupSnapshot: a group snapshot says that
\* it is ready once it has been taken, before its members are.
WaitReady ==
  \/ /\ Goto("waitReady", IF kind = "single" THEN "clone" ELSE "waitMembers")
     /\ members # {}
     /\ kind = "single" => ready = members
     /\ chosen' = IF kind = "single" THEN members ELSE {}
     /\ UNCHANGED <<inputs, captureVars, listed, result, clones, bound, exists,
                    refused, deferred, err>>
  \/ Fails("waitReady")

\* Mutant: waits for one ready member only.
AwaitAnyMember(S) == S # {}

\* As many ready members are awaited as volumes were listed.
Awaited(S) == Cardinality(S) = Cardinality(listed)

\* Mutant: the members are waited for without a timeout.
WaitMembersForever ==
  /\ Goto("waitMembers", "clone")
  /\ \E S \in SUBSET ready : Awaited(S) /\ chosen' = S
  /\ Defer("deleteClones")
  /\ UNCHANGED <<inputs, captureVars, listed, result, clones, bound, exists,
                 refused, err>>

\* WaitForReadyGroupSnapshotMembers: members are collected as they turn up ready
\* until there are as many as volumes were listed.
WaitMembers ==
  \/ /\ Goto("waitMembers", "clone")
     /\ \E S \in SUBSET ready : Awaited(S) /\ chosen' = S
     /\ Defer("deleteClones")
     /\ UNCHANGED <<inputs, captureVars, listed, result, clones, bound, exists,
                    refused, err>>
  \/ Fails("waitMembers")

\* createPVCFromSnapshot for a chosen volume that has no clone yet, in any order.
CreateClone ==
  \/ /\ Goto("clone", "clone")
     /\ \E m \in chosen \ result :
          /\ clones' = clones \cup {m}
          /\ result' = result \cup {m}
     /\ IF kind = "single" THEN Defer("deleteClones") ELSE UNCHANGED deferred
     /\ UNCHANGED <<inputs, captureVars, listed, chosen, bound, exists, refused, err>>
  \/ chosen # result /\ Fails("clone")

ClonesCreated ==
  /\ Goto("clone", "bindPod")
  /\ chosen = result
  /\ UNCHANGED <<inputs, captureVars, listed, chosen, result, clones, bound,
                 exists, refused, deferred, err>>

\* forceBindVolumes: one pod mounts every clone.
CreateBindPod ==
  \/ /\ Goto("bindPod", "waitBound")
     /\ exists' = exists \cup {"pod"}
     /\ Defer("deletePod")
     /\ UNCHANGED <<inputs, captureVars, listed, chosen, result, clones, bound,
                    refused, err>>
  \/ Fails("bindPod")

\* Mutant: the pod is not waited for.
WaitBoundSkipped ==
  \/ /\ Goto("waitBound", "unwind")
     /\ UNCHANGED <<inputs, captureVars, listed, chosen, result, clones, bound,
                    exists, refused, deferred, err>>
  \/ Fails("waitBound")

\* The pod becomes ready only with all its volumes mounted, hence bound.
WaitBound ==
  \/ /\ Goto("waitBound", "unwind")
     /\ result \subseteq bound
     /\ UNCHANGED <<inputs, captureVars, listed, chosen, result, clones, bound,
                    exists, refused, deferred, err>>
  \/ Fails("waitBound")

------------------------------------------------------------------------------
(* The deferred calls.                                                      *)

\* The next deferred call is this one.
Unwinding(call) ==
  /\ pc = "unwind"
  /\ deferred # <<>>
  /\ deferred[Len(deferred)] = call
  /\ deferred' = SubSeq(deferred, 1, Len(deferred) - 1)
  /\ UNCHANGED <<inputs, pc, captureVars, listed, chosen, bound>>

\* A resource is deleted, or its deletion is refused and becomes an error.
Delete(r) ==
  \/ exists' = exists \ {r} /\ UNCHANGED <<refused, err>>
  \/ refused' = refused \cup {r} /\ err' = TRUE /\ UNCHANGED exists

DeletePod ==
  /\ Unwinding("deletePod")
  /\ Delete("pod")
  /\ UNCHANGED <<result, clones>>

\* Mutant: the first refusal ends the deletions, and the result survives.
DeleteClonesUpToError ==
  /\ Unwinding("deleteClones")
  /\ \/ ~err /\ UNCHANGED <<result, clones, refused>>
     \/ /\ err
        /\ \E left \in SUBSET result : \E tried \in SUBSET left :
             /\ Cardinality(tried) = IF left = {} THEN 0 ELSE 1
             /\ clones' = clones \ (result \ left)
             /\ refused' = refused \cup tried
        /\ UNCHANGED result
  /\ UNCHANGED <<exists, err>>

\* After an error every recorded clone is deleted, or refused, and no result is
\* returned.  Without one the clones stay.
DeleteClones ==
  /\ Unwinding("deleteClones")
  /\ \/ ~err /\ UNCHANGED <<result, clones, refused>>
     \/ /\ err
        /\ \E left \in SUBSET result :
             /\ clones' = clones \ (result \ left)
             /\ refused' = refused \cup left
        /\ result' = {}
  /\ UNCHANGED <<exists, err>>

\* The snapshot is deleted, but that of a group only after an error: deleting it
\* is up to the caller otherwise.
DeleteSnapshot ==
  /\ Unwinding("deleteSnapshot")
  /\ \/ kind = "group" /\ ~err /\ UNCHANGED <<exists, refused, err>>
     \/ ~(kind = "group" /\ ~err) /\ Delete("snapshot")
  /\ UNCHANGED <<result, clones>>

Return ==
  /\ Goto("unwind", "returned")
  /\ deferred = <<>>
  /\ UNCHANGED <<inputs, captureVars, listed, chosen, result, clones, bound,
                 exists, refused, deferred, err>>

Operation ==
  \/ List
  \/ CreateSnapshot
  \/ WaitReady
  \/ WaitMembers
  \/ CreateClone
  \/ ClonesCreated
  \/ CreateBindPod
  \/ WaitBound
  \/ DeletePod
  \/ DeleteClones
  \/ DeleteSnapshot
  \/ Return

------------------------------------------------------------------------------
(* What runs beside the operation.                                          *)

cluster == <<inputs, pc, listed, chosen, result, clones, exists, refused, deferred, err>>

\* A volume is created or deleted, or gets or loses the label that is selected.
Relabel ==
  /\ kind = "group"
  /\ members = {}
  /\ \E p \in PVCs : selected' \in {selected \cup {p}, selected \ {p}}
  /\ UNCHANGED <<members, ready, bound, cluster>>

\* The snapshot controller takes the snapshot: one member for each volume that
\* the selector matches by then.
Capture ==
  /\ "snapshot" \in exists
  /\ members = {}
  /\ members' = selected
  /\ UNCHANGED <<selected, ready, bound, cluster>>

MemberBecomesReady ==
  /\ "snapshot" \in exists
  /\ \E m \in members \ ready : ready' = ready \cup {m}
  /\ UNCHANGED <<selected, members, bound, cluster>>

\* A volume is provisioned from its snapshot, while the snapshot is there: at
\* once, or as soon as a pod mounts the clone.
Bind ==
  /\ "snapshot" \in exists
  /\ binding = "WaitForFirstConsumer" => "pod" \in exists
  /\ \E c \in clones \ bound : bound' = bound \cup {c}
  /\ UNCHANGED <<captureVars, cluster>>

Environment == Relabel \/ Capture \/ MemberBecomesReady \/ Bind

Next == Operation \/ Environment

Spec == Init /\ [][Next]_vars

\* The operation's waits all have timeouts, so it never stops for good; nothing
\* is assumed of the environment.
FairSpec == Spec /\ WF_vars(Operation)

------------------------------------------------------------------------------

Places == {"list", "snapshot", "waitReady", "waitMembers", "clone", "bindPod",
           "waitBound", "unwind", "returned"}

Calls == <<"deleteSnapshot", "deleteClones", "deletePod">>
Stack(n) == SubSeq(Calls, 1, n)

\* The values the variables take; a clone is recorded as soon as it exists, and
\* the deferred calls are those of what has been created, in that order.
TypeOK ==
  /\ kind \in {"single", "group"}
  /\ binding \in {"Immediate", "WaitForFirstConsumer"}
  /\ pc \in Places
  /\ {selected, listed, members} \subseteq SUBSET PVCs
  /\ ready \subseteq members
  /\ chosen \subseteq ready
  /\ result \subseteq chosen
  /\ clones \subseteq chosen
  /\ bound \subseteq chosen
  /\ exists \subseteq {"snapshot", "pod"}
  /\ refused \subseteq {"snapshot", "pod"} \cup PVCs
  /\ deferred \in {Stack(n) : n \in 0..3}
  /\ err \in BOOLEAN

Succeeded == pc = "returned" /\ ~err
FailedClone == pc = "returned" /\ err

\* A clone that fails leaves nothing but what the API server refused to delete,
\* and returns no clone; only ClonePVC, when deleting its snapshot is the failure,
\* keeps the clone that it was to return.
FailureLeavesOnlyRefused ==
  FailedClone =>
    /\ exists \subseteq refused
    /\ kind = "group" \/ "snapshot" \notin refused =>
         clones \subseteq refused /\ result = {}

\* A snapshot never goes before the clones made from it are bound or given up.
SnapshotOutlivesBinding ==
  [][("snapshot" \in exists /\ "snapshot" \notin exists')
       => clones \subseteq bound \cup refused]_vars

\* A group's clones are all of its members unless the group grew between being
\* listed and being snapshotted; one that shrank is never taken for complete.
PartialOnlyIfGrown ==
  Succeeded /\ result # members => Cardinality(members) > Cardinality(listed)

\* The operation returns, whatever the cluster does.
Returns == <>(pc = "returned")

=============================================================================
