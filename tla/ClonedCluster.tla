---------------------------- MODULE ClonedCluster ----------------------------
(***************************************************************************)
(* The resources of a cloned database cluster: CloneClusterFromBackup      *)
(* creates two issuers, four certificates and the cluster, one after the   *)
(* other, each certificate with a policy of its own where approver-policy  *)
(* is enforcing; ClonedCluster.Delete removes them, after a failure or at  *)
(* the end of the event.                                                   *)
(*                                                                         *)
(* A resource is recorded as soon as it has been created, a policy only    *)
(* once it is ready; Delete deletes what has been recorded.  A user        *)
(* certificate has a Delete of its own, which runs when creating it fails; *)
(* it is then the first thing that ClonedCluster.Delete would delete, so   *)
(* the two are one here.  How far the cluster recovers is the subject of   *)
(* module Recovery: here its recovery Job completes or fails.              *)
(*                                                                         *)
(* cert-manager, approver-policy and the database operator run beside the  *)
(* operation.  Every call may fail and every wait may time out.            *)
(***************************************************************************)
EXTENDS Naturals, Sequences, FiniteSets, SequencesExt

\* What is created, in order.
Units == <<"selfSignedIssuer", "servingCert", "clientCACert", "clientCAIssuer",
           "postgresCert", "replicaCert", "cluster">>

Policy == [servingCert |-> "servingPolicy", clientCACert |-> "clientCAPolicy",
           postgresCert |-> "postgresPolicy", replicaCert |-> "replicaPolicy"]

Certs == DOMAIN Policy
Policies == {Policy[cert] : cert \in Certs}
Resources == ToSet(Units) \cup Policies

\* What a resource cannot do without: a certificate its issuer, the issuer of the
\* client certificates its CA, the cluster every certificate it is given.
Needs(x) ==
  CASE x \in {"servingCert", "clientCACert"} -> {"selfSignedIssuer"}
    [] x = "clientCAIssuer" -> {"clientCACert"}
    [] x \in {"postgresCert", "replicaCert"} -> {"clientCAIssuer"}
    [] x = "cluster" -> {"servingCert", "clientCACert", "replicaCert"}
    [] OTHER -> {}

\* Mutant: the issuers go before what they signed.
DeleteIssuersFirst ==
  <<"selfSignedIssuer", "clientCAIssuer", "cluster", "replicaPolicy", "replicaCert",
    "postgresPolicy", "postgresCert", "clientCACert", "servingCert",
    "servingPolicy", "clientCAPolicy">>

\* The order of ClonedCluster.Delete.
DeleteOrder ==
  <<"cluster", "replicaPolicy", "replicaCert", "postgresPolicy", "postgresCert",
    "clientCAIssuer", "clientCACert", "servingCert", "servingPolicy",
    "clientCAPolicy", "selfSignedIssuer">>

VARIABLES
  enforced,     \* is approver-policy enforcing approval in the cluster?
  targeted,     \* does the cluster recover to a target time?
  pc,           \* where the operation is
  next,         \* the place in Units or in DeleteOrder that it is at
  recorded,     \* what the operation knows to have created
  exists,       \* what is in the cluster and not being deleted
  ready,        \* what of it is ready
  denied,       \* the certificates whose latest request has been denied
  job,          \* the recovery Job: "none", "running", "complete" or "failed"
  terminating,  \* is a deleted cluster still going away?
  refused       \* what could not be deleted

progress == <<pc, next, recorded>>
cluster == <<exists, ready, denied, job, terminating>>
vars == <<enforced, targeted, pc, next, recorded, exists, ready, denied, job,
          terminating, refused>>

Init ==
  /\ enforced \in BOOLEAN
  /\ targeted \in BOOLEAN
  /\ pc = "create"
  /\ next = 1
  /\ recorded = {}
  /\ exists = {}
  /\ ready = {}
  /\ denied = {}
  /\ job = "none"
  /\ terminating = FALSE
  /\ refused = {}

unit == Units[next]
Goto(p, q) == pc = p /\ pc' = q

\* The call at hand fails, or its wait times out: what is recorded is deleted.
Fails ==
  /\ pc \in {"create", "available", "policy", "waitPolicy", "reissue", "wait",
             "waitJob", "deleteOld", "awaitDeleted", "waitReady"}
  /\ pc' = "delete"
  /\ next' = 1
  /\ UNCHANGED <<enforced, targeted, recorded, cluster, refused>>

------------------------------------------------------------------------------

\* A request for the certificate is denied for want of a policy that is ready;
\* another policy of the cluster may happen to allow it.
Request(cert) ==
  \/ denied' = denied \ {cert}
  \/ enforced /\ Policy[cert] \notin ready /\ denied' = denied \cup {cert}

\* CreateIssuer, CreateCertificate or CreateCluster, for the next unit.
Create ==
  /\ Goto("create", CASE unit \in Certs -> "available"
                      [] unit = "cluster" -> IF targeted THEN "waitJob" ELSE "waitReady"
                      [] OTHER -> "wait")
  /\ recorded' = recorded \cup {unit}
  /\ exists' = exists \cup {unit}
  /\ IF unit \in Certs THEN Request(unit) ELSE UNCHANGED denied
  /\ job' = IF unit = "cluster" THEN "running" ELSE job
  /\ UNCHANGED <<enforced, targeted, next, ready, terminating, refused>>

\* IsAvailable: only an enforcing approver-policy needs a policy.
CheckAvailable ==
  /\ Goto("available", IF enforced THEN "policy" ELSE "wait")
  /\ UNCHANGED <<enforced, targeted, next, recorded, cluster, refused>>

\* CreateCRPForCertificate creates the policy ...
CreatePolicy ==
  /\ Goto("policy", "waitPolicy")
  /\ exists' = exists \cup {Policy[unit]}
  /\ UNCHANGED <<enforced, targeted, next, recorded, ready, denied, job,
                 terminating, refused>>

\* Mutant: the certificate that was denied is not reissued.
WaitPolicyOnly ==
  /\ Goto("waitPolicy", "wait")
  /\ Policy[unit] \in ready
  /\ recorded' = recorded \cup {Policy[unit]}
  /\ UNCHANGED <<enforced, targeted, next, cluster, refused>>

\* ... and waits for it; only then is the policy recorded.
WaitPolicy ==
  /\ Goto("waitPolicy", "reissue")
  /\ Policy[unit] \in ready
  /\ recorded' = recorded \cup {Policy[unit]}
  /\ UNCHANGED <<enforced, targeted, next, cluster, refused>>

\* ReissueCertificate: the first request was likely denied.
Reissue ==
  /\ Goto("reissue", "wait")
  /\ Request(unit)
  /\ ready' = ready \ {unit}
  /\ UNCHANGED <<enforced, targeted, next, recorded, exists, job, terminating, refused>>

\* WaitForReadyIssuer or WaitForReadyCertificate: on to the next unit.
Wait ==
  /\ Goto("wait", "create")
  /\ unit \in ready
  /\ next' = next + 1
  /\ UNCHANGED <<enforced, targeted, recorded, cluster, refused>>

------------------------------------------------------------------------------

\* waitForCloneRecovery: a failed Job means the fallback.
WaitJob ==
  /\ \/ Goto("waitJob", "waitReady") /\ job = "complete"
     \/ Goto("waitJob", "deleteOld") /\ job = "failed"
  /\ UNCHANGED <<enforced, targeted, next, recorded, cluster, refused>>

\* Mutant: the cluster's name is taken again without waiting for it.
DeleteOldOnly ==
  /\ Goto("deleteOld", "create")
  /\ targeted' = FALSE
  /\ exists' = exists \ {"cluster"}
  /\ ready' = ready \ {"cluster"}
  /\ job' = "none"
  /\ terminating' = TRUE
  /\ UNCHANGED <<enforced, next, recorded, denied, refused>>

\* DeleteCluster before the fallback: the API server starts the deletion.
DeleteOld ==
  /\ Goto("deleteOld", "awaitDeleted")
  /\ exists' = exists \ {"cluster"}
  /\ ready' = ready \ {"cluster"}
  /\ job' = "none"
  /\ terminating' = TRUE
  /\ UNCHANGED <<enforced, targeted, next, recorded, denied, refused>>

\* WaitForClusterDeleted: the cluster is created again, without a target.
AwaitDeleted ==
  /\ Goto("awaitDeleted", "create")
  /\ ~terminating
  /\ targeted' = FALSE
  /\ UNCHANGED <<enforced, next, recorded, cluster, refused>>

\* WaitForReadyCluster, the last wait.
WaitReady ==
  /\ Goto("waitReady", "returned")
  /\ "cluster" \in ready
  /\ UNCHANGED <<enforced, targeted, next, recorded, cluster, refused>>

------------------------------------------------------------------------------

\* The event ends, and the caller deletes the cloned cluster.
Teardown ==
  /\ Goto("returned", "delete")
  /\ next' = 1
  /\ UNCHANGED <<enforced, targeted, recorded, cluster, refused>>

\* Mutant: the first deletion that fails is the last that is tried.
DeleteUpToError ==
  /\ pc = "delete"
  /\ next <= Len(DeleteOrder)
  /\ LET x == DeleteOrder[next] IN
       IF x \in recorded \cap exists
         THEN \/ /\ exists' = exists \ {x}
                 /\ ready' = ready \ {x}
                 /\ next' = next + 1
                 /\ UNCHANGED refused
              \/ /\ refused' = refused \cup {x}
                 /\ next' = Len(DeleteOrder) + 1
                 /\ UNCHANGED <<exists, ready>>
         ELSE next' = next + 1 /\ UNCHANGED <<exists, ready, refused>>
  /\ UNCHANGED <<enforced, targeted, pc, recorded, denied, job, terminating>>

\* ClonedCluster.Delete: what is recorded is deleted or refused, and a refusal
\* never keeps the rest from being tried.  A recorded cluster may be gone already.
Delete ==
  /\ pc = "delete"
  /\ next <= Len(DeleteOrder)
  /\ LET x == DeleteOrder[next] IN
       \/ x \in recorded /\ exists' = exists \ {x} /\ ready' = ready \ {x} /\ UNCHANGED refused
       \/ x \in recorded \cap exists /\ refused' = refused \cup {x} /\ UNCHANGED <<exists, ready>>
       \/ x \notin recorded /\ UNCHANGED <<exists, ready, refused>>
  /\ next' = next + 1
  /\ UNCHANGED <<enforced, targeted, pc, recorded, denied, job, terminating>>

Deleted ==
  /\ Goto("delete", "deleted")
  /\ next > Len(DeleteOrder)
  /\ UNCHANGED <<enforced, targeted, next, recorded, cluster, refused>>

------------------------------------------------------------------------------

\* What can become ready as things are.
CanBecomeReady(x) ==
  /\ x \in exists
  /\ Needs(x) \subseteq ready
  /\ x \notin denied
  /\ x = "cluster" => job = "complete"

BecomeReady ==
  /\ \E x \in exists \ ready : CanBecomeReady(x) /\ ready' = ready \cup {x}
  /\ UNCHANGED <<enforced, targeted, progress, exists, denied, job, terminating, refused>>

\* The recovery Job completes or gives up.
JobEnds ==
  /\ job = "running"
  /\ job' \in {"complete", "failed"}
  /\ UNCHANGED <<enforced, targeted, progress, exists, ready, denied, terminating, refused>>

\* A cluster that has been deleted is gone.
ClusterGone ==
  /\ terminating
  /\ terminating' = FALSE
  /\ UNCHANGED <<enforced, targeted, progress, exists, ready, denied, job, refused>>

Next ==
  \/ Fails
  \/ Create \/ CheckAvailable \/ CreatePolicy \/ WaitPolicy \/ Reissue \/ Wait
  \/ WaitJob \/ DeleteOld \/ AwaitDeleted \/ WaitReady
  \/ Teardown \/ Delete \/ Deleted
  \/ BecomeReady \/ JobEnds \/ ClusterGone

Spec == Init /\ [][Next]_vars

------------------------------------------------------------------------------

TypeOK ==
  /\ enforced \in BOOLEAN
  /\ targeted \in BOOLEAN
  /\ pc \in {"create", "available", "policy", "waitPolicy", "reissue", "wait",
             "waitJob", "deleteOld", "awaitDeleted", "waitReady", "returned",
             "delete", "deleted"}
  /\ next \in 1..IF pc \in {"delete", "deleted"} THEN Len(DeleteOrder) + 1 ELSE Len(Units)
  /\ recorded \subseteq Resources
  /\ exists \subseteq Resources
  /\ ready \subseteq exists
  /\ denied \subseteq Certs
  /\ job \in {"none", "running", "complete", "failed"}
  /\ terminating \in BOOLEAN
  /\ refused \subseteq exists

\* No issuer or certificate is waited for in vain: what it is issued from is
\* ready, and its latest request came after the policy that allows it.
WaitsCanEnd == pc = "wait" => CanBecomeReady(unit)

\* A cluster is created only when its name is free: the operator would otherwise
\* hand back the one that the fallback is replacing.
ClusterNameIsFree == pc = "create" /\ unit = "cluster" => "cluster" \notin exists /\ ~terminating

\* Whatever Delete was able to remove, nothing that remains for it to remove has
\* lost what it depends on: a cluster its certificates, a certificate its issuer.
NeededOutlivesUser ==
  \A x \in exists \ refused : Needs(x) \subseteq exists

\* What remains after Delete could not be deleted, or is a policy that was never
\* seen to be ready.
OnlyRefusedOrPolicyRemains ==
  pc = "deleted" => exists \ refused \subseteq Policies \ recorded

=============================================================================
