------------------------ MODULE DatabaseCloneProofs ------------------------
(***************************************************************************)
(* Proofs about the two halves of a database's clone.  Its resources       *)
(* (module ClonedCluster) are created and deleted in an order in which     *)
(* nothing lacks what it depends on, and no wait is in vain.  The data     *)
(* (module Recovery): the fence makes the recovery target reachable, and a *)
(* clone that recovers forward holds the commits up to it and no others,   *)
(* for any clock, any number of commits and any segments.                  *)
(***************************************************************************)
EXTENDS ClonedCluster, Recovery, Integers, TLAPS

-----------------------------------------------------------------------------
\* The resources.

\* Until the deletion begins the operation creates, or has returned.
Creating == pc \notin {"delete", "deleted"}

\* A unit is at a step that is one of its own: only certificates have policies, only
\* the cluster has a recovery and a fallback.
StepsFit ==
  /\ pc \in {"available", "policy", "waitPolicy", "reissue"} => unit \in Certs
  /\ pc = "wait" => unit # "cluster"
  /\ pc \in {"waitJob", "deleteOld", "awaitDeleted", "waitReady", "returned"} => unit = "cluster"

\* Everything before the unit at hand has become ready and stays so.
EarlierReady ==
  Creating => \A i \in 1..Len(Units) : i < next => Units[i] \in ready

\* The unit at hand: there from its creation on, and once it is waited for not denied.
UnitInv ==
  /\ pc \in {"available", "policy", "waitPolicy", "reissue", "wait"} => unit \in exists
  /\ pc = "reissue" => Policy[unit] \in ready
  /\ pc = "available" /\ ~enforced => unit \notin denied
  /\ pc = "wait" => unit \notin denied

\* The name of the cluster is in use only while there is something that uses it.
NameInv ==
  /\ pc \in {"create", "available", "policy", "waitPolicy", "reissue", "wait", "awaitDeleted"}
       => "cluster" \notin exists
  /\ terminating => pc \in {"awaitDeleted", "delete", "deleted"}

\* What exists is known, or a policy; what has been passed over in the deletion has been
\* deleted, refused, or was never known, and what is yet to come has not been refused.
RecordInv ==
  /\ exists \subseteq recorded \cup Policies
  /\ Creating => refused = {}
  /\ ~Creating => \A j \in 1..Len(DeleteOrder) :
       j < next /\ DeleteOrder[j] \in recorded \cap exists => DeleteOrder[j] \in refused
  /\ ~Creating => \A j \in 1..Len(DeleteOrder) : j >= next => DeleteOrder[j] \notin refused
  /\ pc = "deleted" => next = Len(DeleteOrder) + 1

ClusterInv ==
  /\ TypeOK
  /\ StepsFit
  /\ EarlierReady
  /\ UnitInv
  /\ NameInv
  /\ RecordInv
  /\ NeededOutlivesUser

-----------------------------------------------------------------------------
\* The names, spelled out.

LEMMA CertNames ==
  /\ Certs = {"servingCert", "clientCACert", "postgresCert", "replicaCert"}
  /\ Policies = {"servingPolicy", "clientCAPolicy", "postgresPolicy", "replicaPolicy"}
  /\ Certs \cap Policies = {}
  /\ \A cert \in Certs : Policy[cert] \in Policies
  BY DEF Certs, Policies, Policy

LEMMA UnitNames ==
  /\ Len(Units) = 7
  /\ Units[1] = "selfSignedIssuer" /\ Units[2] = "servingCert" /\ Units[3] = "clientCACert"
  /\ Units[4] = "clientCAIssuer" /\ Units[5] = "postgresCert" /\ Units[6] = "replicaCert"
  /\ Units[7] = "cluster"
  BY DEF Units

LEMMA DeleteNames ==
  /\ Len(DeleteOrder) = 11
  /\ DeleteOrder[1] = "cluster" /\ DeleteOrder[2] = "replicaPolicy"
  /\ DeleteOrder[3] = "replicaCert" /\ DeleteOrder[4] = "postgresPolicy"
  /\ DeleteOrder[5] = "postgresCert" /\ DeleteOrder[6] = "clientCAIssuer"
  /\ DeleteOrder[7] = "clientCACert" /\ DeleteOrder[8] = "servingCert"
  /\ DeleteOrder[9] = "servingPolicy" /\ DeleteOrder[10] = "clientCAPolicy"
  /\ DeleteOrder[11] = "selfSignedIssuer"
  BY DEF DeleteOrder

LEMMA ResourceNames ==
  Resources = {"selfSignedIssuer", "servingCert", "clientCACert", "clientCAIssuer",
               "postgresCert", "replicaCert", "cluster"} \cup Policies
  <1>1. DOMAIN Units = 1..7
    BY DEF Units
  <1>2. ToSet(Units) = {Units[i] : i \in 1..7}
    BY <1>1 DEF ToSet
  <1> QED
    BY <1>2, UnitNames DEF Resources

\* Every unit is a resource, and what it needs is created before it.
LEMMA UnitsInOrder ==
  ASSUME NEW n \in 1..Len(Units)
  PROVE  /\ Units[n] \in Resources \ Policies
         /\ Units[n] = "cluster" <=> n = Len(Units)
         /\ \A y \in Needs(Units[n]) : \E i \in 1..Len(Units) : i < n /\ Units[i] = y
  BY UnitNames, ResourceNames, CertNames DEF Needs

\* What needs a resource is deleted before it, and is no policy.
LEMMA DeletedInOrder ==
  ASSUME NEW n \in 1..Len(DeleteOrder), NEW x \in Resources, DeleteOrder[n] \in Needs(x)
  PROVE  x \notin Policies /\ \E j \in 1..Len(DeleteOrder) : j < n /\ DeleteOrder[j] = x
  BY DeleteNames, ResourceNames, CertNames DEF Needs

\* Every resource has its place in the deletion.
LEMMA AllAreDeleted ==
  /\ \A x \in Resources : \E j \in 1..Len(DeleteOrder) : DeleteOrder[j] = x
  /\ \A j \in 1..Len(DeleteOrder) : DeleteOrder[j] \in Resources
  BY DeleteNames, ResourceNames, CertNames

\* Nothing is deleted twice.
LEMMA DeletedOnce ==
  ASSUME NEW i \in 1..Len(DeleteOrder), NEW j \in 1..Len(DeleteOrder),
         DeleteOrder[i] = DeleteOrder[j]
  PROVE  i = j
  BY DeleteNames

\* Nothing needs the cluster or a policy.
LEMMA NotNeeded ==
  ASSUME NEW x
  PROVE  Needs(x) \subseteq Resources \ (Policies \cup {"cluster"})
  BY ResourceNames, CertNames DEF Needs

\* The unit at hand, as long as the operation creates.
LEMMA UnitAtHand ==
  ASSUME TypeOK, Creating
  PROVE  /\ next \in 1..Len(Units)
         /\ unit \in Resources \ Policies
         /\ unit = "cluster" <=> next = Len(Units)
  BY UnitsInOrder DEF TypeOK, Creating, unit

\* What is deleted next.
LEMMA DeletedNext ==
  ASSUME TypeOK, pc = "delete", next <= Len(DeleteOrder)
  PROVE  next \in 1..Len(DeleteOrder) /\ DeleteOrder[next] \in Resources
  <1>1. next \in 1..Len(DeleteOrder)
    BY DeleteNames DEF TypeOK
  <1> QED
    BY <1>1, AllAreDeleted

-----------------------------------------------------------------------------
\* The invariant.

LEMMA StepCluster == ClusterInv /\ [Next]_vars => ClusterInv'
  <1> SUFFICES ASSUME ClusterInv, [Next]_vars PROVE ClusterInv'
    OBVIOUS
  <1> USE UnitsInOrder, UnitNames, DeleteNames, CertNames DEF ClusterInv, TypeOK, unit, Goto, cluster, progress, Creating
  <1>1. CASE Fails
    BY <1>1 DEF Fails, StepsFit, EarlierReady, UnitInv, NameInv, RecordInv, NeededOutlivesUser
  <1>2. CASE Create
    <2> USE <1>2 DEF Create
    <2>1. TypeOK'
      <3>1. pc' \in {"available", "wait", "waitJob", "waitReady"}
        OBVIOUS
      <3>2. denied' \subseteq Certs
        BY DEF Request
      <3>3. next' \in 1..Len(Units)
        BY UnitAtHand
      <3>4. unit \in Resources /\ job' \in {"none", "running", "complete", "failed"}
        BY UnitAtHand
      <3> QED
        BY <3>1, <3>2, <3>3, <3>4
    <2>2. StepsFit'
      BY DEF StepsFit
    <2>3. EarlierReady'
      BY DEF EarlierReady
    <2>4. UnitInv'
      <3>1. unit' = unit /\ unit \in exists'
        OBVIOUS
      <3>2. pc' \in {"available", "wait", "waitJob", "waitReady"} /\ (pc' = "wait" => unit \notin Certs)
        OBVIOUS
      <3>3. pc' = "available" /\ ~enforced => unit \notin denied'
        <4>1. pc' = "available" => unit \in Certs
          OBVIOUS
        <4> QED
          BY <4>1 DEF Request
      <3>4. unit \notin Certs => denied' = denied
        OBVIOUS
      <3> QED
        BY <3>1, <3>2, <3>3, <3>4 DEF UnitInv
    <2>5. NameInv'
      BY DEF NameInv
    <2>6. RecordInv'
      BY DEF RecordInv
    <2>7. NeededOutlivesUser'
      <3>1. Needs(unit) \subseteq exists
        BY UnitAtHand, UnitsInOrder DEF EarlierReady
      <3> QED
        BY <3>1 DEF NeededOutlivesUser
    <2> QED
      BY <2>1, <2>2, <2>3, <2>4, <2>5, <2>6, <2>7
  <1>3. CASE CheckAvailable
    BY <1>3 DEF CheckAvailable, StepsFit, EarlierReady, UnitInv, NameInv, RecordInv, NeededOutlivesUser
  <1>4. CASE CreatePolicy
    <2> USE <1>4 DEF CreatePolicy
    <2>1. TypeOK'
      <3>1. Policy[unit] \in Resources
        BY ResourceNames DEF StepsFit
      <3> QED
        BY <3>1
    <2>2. StepsFit'
      BY DEF StepsFit
    <2>3. EarlierReady'
      BY DEF EarlierReady
    <2>4. UnitInv'
      BY DEF UnitInv
    <2>5. NameInv'
      <3>1. Policy[unit] # "cluster"
        BY DEF StepsFit
      <3> QED
        BY <3>1 DEF NameInv
    <2>6. RecordInv'
      <3>1. Policy[unit] \in Policies
        BY DEF StepsFit
      <3> QED
        BY <3>1 DEF RecordInv
    <2>7. NeededOutlivesUser'
      <3>1. Needs(Policy[unit]) = {}
        BY ResourceNames DEF StepsFit, Needs
      <3> QED
        BY <3>1 DEF NeededOutlivesUser
    <2> QED
      BY <2>1, <2>2, <2>3, <2>4, <2>5, <2>6, <2>7
  <1>5. CASE WaitPolicy
    BY <1>5 DEF WaitPolicy, StepsFit, EarlierReady, UnitInv, NameInv, RecordInv, NeededOutlivesUser
  <1>6. CASE Reissue
    <2> USE <1>6 DEF Reissue
    <2>1. TypeOK'
      <3>1. denied' \subseteq Certs
        BY DEF Request, StepsFit
      <3> QED
        BY <3>1
    <2>2. StepsFit'
      BY DEF StepsFit
    <2>3. EarlierReady'
      BY DEF EarlierReady
    <2>4. UnitInv'
      <3>1. unit \notin denied'
        BY DEF UnitInv, Request
      <3> QED
        BY <3>1 DEF UnitInv
    <2>5. NameInv'
      BY DEF NameInv
    <2>6. RecordInv'
      BY DEF RecordInv
    <2>7. NeededOutlivesUser'
      BY DEF NeededOutlivesUser
    <2> QED
      BY <2>1, <2>2, <2>3, <2>4, <2>5, <2>6, <2>7
  <1>7. CASE Wait
    <2> USE <1>7 DEF Wait
    <2>1. TypeOK'
      <3>1. next + 1 \in 1..Len(Units)
        BY UnitAtHand DEF StepsFit
      <3> QED
        BY <3>1
    <2>2. StepsFit'
      BY DEF StepsFit
    <2>3. EarlierReady'
      BY DEF EarlierReady
    <2>4. UnitInv'
      BY DEF UnitInv
    <2>5. NameInv'
      BY DEF NameInv
    <2>6. RecordInv'
      BY DEF RecordInv
    <2>7. NeededOutlivesUser'
      BY DEF NeededOutlivesUser
    <2> QED
      BY <2>1, <2>2, <2>3, <2>4, <2>5, <2>6, <2>7
  <1>8. CASE WaitJob
    BY <1>8 DEF WaitJob, StepsFit, EarlierReady, UnitInv, NameInv, RecordInv, NeededOutlivesUser
  <1>9. CASE DeleteOld
    <2> USE <1>9 DEF DeleteOld
    <2>1. TypeOK'
      <3>1. refused = {}
        BY DEF RecordInv
      <3> QED
        BY <3>1
    <2>2. StepsFit'
      BY DEF StepsFit
    <2>3. EarlierReady'
      BY DEF EarlierReady
    <2>4. UnitInv'
      BY DEF UnitInv
    <2>5. NameInv'
      BY DEF NameInv
    <2>6. RecordInv'
      BY DEF RecordInv
    <2>7. NeededOutlivesUser'
      BY NotNeeded DEF NeededOutlivesUser
    <2> QED
      BY <2>1, <2>2, <2>3, <2>4, <2>5, <2>6, <2>7
  <1>10. CASE AwaitDeleted
    BY <1>10 DEF AwaitDeleted, StepsFit, EarlierReady, UnitInv, NameInv, RecordInv, NeededOutlivesUser
  <1>11. CASE WaitReady
    BY <1>11 DEF WaitReady, StepsFit, EarlierReady, UnitInv, NameInv, RecordInv, NeededOutlivesUser
  <1>12. CASE Teardown
    BY <1>12 DEF Teardown, StepsFit, EarlierReady, UnitInv, NameInv, RecordInv, NeededOutlivesUser
  <1>13. CASE Delete
    <2> USE <1>13 DEF Delete
    <2>1. TypeOK'
      <3>1. next' \in 1..Len(DeleteOrder) + 1
        BY DeletedNext
      <3>2. DeleteOrder[next] \in Resources
        BY DeletedNext
      <3>3. /\ exists' \subseteq exists /\ refused' \subseteq exists'
            /\ ready' \subseteq exists'
        BY DeletedNext DEF RecordInv
      <3> QED
        BY <3>1, <3>2, <3>3
    <2>2. StepsFit'
      BY DEF StepsFit
    <2>3. EarlierReady'
      BY DEF EarlierReady
    <2>4. UnitInv'
      BY DEF UnitInv
    <2>5. NameInv'
      BY DEF NameInv
    <2>6. RecordInv'
      <3> SUFFICES ASSUME NEW j \in 1..Len(DeleteOrder)
                   PROVE  /\ j < next' /\ DeleteOrder[j] \in recorded' \cap exists'
                               => DeleteOrder[j] \in refused'
                          /\ j >= next' => DeleteOrder[j] \notin refused'
        BY DEF RecordInv
      <3>1. j = next \/ DeleteOrder[j] # DeleteOrder[next]
        BY DeletedNext, DeletedOnce
      <3> QED
        BY <3>1, DeletedNext DEF RecordInv
    <2>7. NeededOutlivesUser'
      <3> SUFFICES ASSUME NEW x \in exists' \ refused', NEW y \in Needs(x)
                   PROVE  y \in exists'
        BY DEF NeededOutlivesUser
      <3>1. x \in exists \ refused /\ x \in Resources
        OBVIOUS
      <3>2. y \in exists
        BY <3>1 DEF NeededOutlivesUser
      <3>3. y # DeleteOrder[next]
        <4> SUFFICES ASSUME y = DeleteOrder[next] PROVE FALSE
          OBVIOUS
        <4>1. PICK j \in 1..Len(DeleteOrder) : j < next /\ DeleteOrder[j] = x
          BY <3>1, DeletedNext, DeletedInOrder
        <4>2. x \in recorded
          BY <3>1, DeletedNext, DeletedInOrder DEF RecordInv
        <4> QED
          BY <3>1, <4>1, <4>2 DEF RecordInv
      <3> QED
        BY <3>2, <3>3
    <2> QED
      BY <2>1, <2>2, <2>3, <2>4, <2>5, <2>6, <2>7
  <1>14. CASE Deleted
    BY <1>14 DEF Deleted, StepsFit, EarlierReady, UnitInv, NameInv, RecordInv, NeededOutlivesUser
  <1>15. CASE BecomeReady
    BY <1>15 DEF BecomeReady, StepsFit, EarlierReady, UnitInv, NameInv, RecordInv, NeededOutlivesUser
  <1>16. CASE JobEnds
    BY <1>16 DEF JobEnds, StepsFit, EarlierReady, UnitInv, NameInv, RecordInv, NeededOutlivesUser
  <1>17. CASE ClusterGone
    BY <1>17 DEF ClusterGone, StepsFit, EarlierReady, UnitInv, NameInv, RecordInv, NeededOutlivesUser
  <1>18. CASE UNCHANGED vars
    BY <1>18 DEF vars, StepsFit, EarlierReady, UnitInv, NameInv, RecordInv, NeededOutlivesUser
  <1> QED
    BY <1>1, <1>2, <1>3, <1>4, <1>5, <1>6, <1>7, <1>8, <1>9, <1>10, <1>11, <1>12, <1>13, <1>14, <1>15, <1>16, <1>17, <1>18 DEF Next

LEMMA InitCluster == Init => ClusterInv
  <1> SUFFICES ASSUME Init PROVE ClusterInv
    OBVIOUS
  <1>1. next \in 1..Len(Units)
    BY UnitNames DEF Init
  <1>2. TypeOK
    BY <1>1 DEF Init, TypeOK
  <1>3. EarlierReady
    BY DEF Init, EarlierReady
  <1>4. StepsFit /\ UnitInv /\ NameInv /\ RecordInv /\ NeededOutlivesUser
    BY DEF Init, StepsFit, UnitInv, NameInv, RecordInv, NeededOutlivesUser, Creating
  <1> QED
    BY <1>2, <1>3, <1>4 DEF ClusterInv

LEMMA ClusterInvariant == Spec => []ClusterInv
  BY InitCluster, StepCluster, PTL DEF Spec

-----------------------------------------------------------------------------
\* The theorems.

\* The variables of a cloned cluster have their types, whatever fails.
THEOREM CloneTypes == Spec => []TypeOK
  BY ClusterInvariant, PTL DEF ClusterInv

\* No issuer or certificate is waited for in vain: what it is issued from is ready, and
\* the request came after the policy that allows it.
THEOREM NoWaitIsVain == Spec => []WaitsCanEnd
  <1>1. ClusterInv => WaitsCanEnd
    <2> SUFFICES ASSUME ClusterInv, pc = "wait" PROVE CanBecomeReady(unit)
      BY DEF WaitsCanEnd
    <2>1. unit \in exists /\ unit \notin denied /\ unit # "cluster"
      BY DEF ClusterInv, UnitInv, StepsFit
    <2>2. Needs(unit) \subseteq ready
      BY UnitAtHand, UnitsInOrder DEF ClusterInv, EarlierReady, Creating, unit
    <2> QED
      BY <2>1, <2>2 DEF CanBecomeReady
  <1> QED
    BY <1>1, ClusterInvariant, PTL

\* The fallback takes the name of the cluster only when the operator has let go of it.
THEOREM NameIsFree == Spec => []ClusterNameIsFree
  <1>1. ClusterInv => ClusterNameIsFree
    BY DEF ClusterInv, NameInv, ClusterNameIsFree
  <1> QED
    BY <1>1, ClusterInvariant, PTL

\* Nothing that is still to be deleted has lost what it depends on.
THEOREM UsersGoFirst == Spec => []NeededOutlivesUser
  <1>1. ClusterInv => NeededOutlivesUser
    BY DEF ClusterInv
  <1> QED
    BY <1>1, ClusterInvariant, PTL

\* What remains of a cloned cluster was refused, or is a policy that never became ready.
THEOREM OnlyTheseRemain == Spec => []OnlyRefusedOrPolicyRemains
  <1>1. ClusterInv => OnlyRefusedOrPolicyRemains
    <2> SUFFICES ASSUME ClusterInv, pc = "deleted", NEW x \in exists \ refused
                 PROVE  x \in Policies \ recorded
      BY DEF OnlyRefusedOrPolicyRemains
    <2>1. PICK j \in 1..Len(DeleteOrder) : DeleteOrder[j] = x
      BY AllAreDeleted DEF ClusterInv, TypeOK
    <2>2. j < next
      BY <2>1, DeleteNames DEF ClusterInv, RecordInv
    <2> QED
      BY <2>1, <2>2 DEF ClusterInv, RecordInv, Creating
  <1> QED
    BY <1>1, ClusterInvariant, PTL

-----------------------------------------------------------------------------
\* The data.

Records == [kind : {"commit", "backupEnd", "fence"}, time : Nat, seg : Nat]

\* The log is in the order of time and of segments, neither of them in the future.
LogInv ==
  /\ wal \in Seq(Records)
  /\ seg \in Nat \ {0} /\ archived \in Nat /\ archived < seg
  /\ now \in Granule..MaxTime
  /\ \A i \in 1..Len(wal) :
       wal[i].time \in Granule..now /\ wal[i].seg \in 1..seg
  /\ \A i, j \in 1..Len(wal) :
       i <= j => wal[i].time <= wal[j].time /\ wal[i].seg <= wal[j].seg

\* The base backup has an end in the log, and no time is in the future.
BaseInv ==
  /\ base \in 0..Len(wal) /\ {point, target} \subseteq 0..now
  /\ fenceSeg \in 0..seg /\ clone \in 0..Len(wal)
  /\ at \in Places
  /\ at \notin {"backup", "failed"} => base \in 1..Len(wal) /\ wal[base].kind = "backupEnd"

\* From the fence on there is a fence in the log: later than the point, in a segment no
\* later than the one that is waited for.
FenceIsAt(f) ==
  /\ wal[f].kind = "fence" /\ wal[f].time > point
  /\ at \in {"switch", "await"} => wal[f].seg <= fenceSeg
  /\ at \in {"create", "recover"} => wal[f].seg <= archived

FenceInv ==
  /\ at \in {"segment", "switch", "await", "create", "recover"} =>
       target = Trunc(point) /\ \E f \in 1..Len(wal) : FenceIsAt(f)
  /\ at = "switch" /\ fenceSeg = seg => SegmentInUse
  /\ at = "await" => fenceSeg < seg

\* A clone that has recovered forward keeps what it has, and what is committed since is
\* later than the target.
CloneInv ==
  at \in {"waitReady", "cloned"} /\ target # NoTarget =>
    /\ target = Trunc(point) /\ target < now
    /\ \A i \in 1..Len(wal) :
         wal[i].kind = "commit" => (i <= clone <=> wal[i].time <= target)

RecoveryInv == LogInv /\ BaseInv /\ FenceInv /\ CloneInv

-----------------------------------------------------------------------------

\* A truncated time is a time, and no later.
LEMMA TruncIsNoLater ==
  ASSUME NEW t \in Nat
  PROVE  Trunc(t) \in Nat /\ Trunc(t) <= t
  <1>1. Granule \in Nat /\ Granule > 0
    BY RecoveryAssumption
  <1> DEFINE q == t \div Granule
             r == t % Granule
  <1>2. q \in Int /\ r \in Int /\ r >= 0 /\ r < Granule /\ t = Granule * q + r
    BY <1>1
  <1>3. r <= t
    <2>1. q >= 0
      <3> SUFFICES ASSUME q <= 0 - 1 PROVE FALSE
        BY <1>2
      <3>1. Granule * q <= Granule * (0 - 1)
        BY <1>1, <1>2
      <3> QED
        BY <1>1, <1>2, <3>1
    <2>2. Granule * q >= 0
      BY <1>1, <1>2, <2>1
    <2> QED
      BY <1>1, <1>2, <2>2
  <1> QED
    BY <1>2, <1>3 DEF Trunc

\* Times and segments are numbers.
LEMMA LogTypes ==
  ASSUME LogInv
  PROVE  /\ Granule \in Nat /\ MaxTime \in Nat /\ now \in Nat /\ Len(wal) \in Nat
         /\ seg \in Nat /\ archived \in Nat
         /\ \A i \in 1..Len(wal) :
              wal[i] \in Records /\ wal[i].time \in Nat /\ wal[i].seg \in Nat
  <1>1. \A i \in 1..Len(wal) : wal[i] \in Records
    BY DEF LogInv
  <1> QED
    BY <1>1, RecoveryAssumption DEF LogInv, Records

\* A sequence is one of what its elements are.
LEMMA SeqOfElements ==
  ASSUME NEW S, NEW T, NEW s \in Seq(S), \A i \in 1..Len(s) : s[i] \in T
  PROVE  s \in Seq(T)
  OBVIOUS

\* What the log has stays where it is when a record is written.
LEMMA LogAppend ==
  ASSUME LogInv, NEW what \in {"commit", "backupEnd", "fence"},
         wal' = Append(wal, Record(what)), UNCHANGED <<seg, archived, now>>
  PROVE  /\ LogInv'
         /\ Len(wal') = Len(wal) + 1
         /\ \A i \in 1..Len(wal) : wal'[i] = wal[i]
         /\ wal'[Len(wal) + 1] = Record(what)
  <1>1. Record(what) \in Records
    BY LogTypes DEF Record, Records
  <1>2. /\ wal' \in Seq(Records) /\ Len(wal') = Len(wal) + 1
        /\ \A i \in 1..Len(wal) : wal'[i] = wal[i]
        /\ wal'[Len(wal) + 1] = Record(what)
    BY <1>1 DEF LogInv
  <1>3. Record(what).time = now /\ Record(what).seg = seg
    BY DEF Record
  <1>4. \A i \in 1..Len(wal') : i = Len(wal) + 1 \/ i \in 1..Len(wal)
    BY <1>2 DEF LogInv
  <1>5. LogInv'
    BY <1>2, <1>3, <1>4, LogTypes DEF LogInv
  <1> QED
    BY <1>2, <1>5

LEMMA InitRecovery == RecoveryInit => RecoveryInv
  <1> SUFFICES ASSUME RecoveryInit PROVE RecoveryInv
    OBVIOUS
  <1>1. now \in Granule..MaxTime /\ 0 \in 0..now
    BY RecoveryAssumption DEF RecoveryInit
  <1>2. wal = <<>> /\ Len(wal) = 0
    BY DEF RecoveryInit
  <1>3. LogInv
    BY <1>1, <1>2 DEF RecoveryInit, LogInv
  <1>4. BaseInv /\ FenceInv /\ CloneInv
    BY <1>1, <1>2 DEF RecoveryInit, BaseInv, FenceInv, CloneInv, Places, NoTarget
  <1> QED
    BY <1>3, <1>4 DEF RecoveryInv

\* What the source does to its log, its segments and the archive keeps all of it.
LEMMA SourceStep == RecoveryInv /\ Source => RecoveryInv'
  <1> SUFFICES ASSUME RecoveryInv, Source PROVE RecoveryInv'
    OBVIOUS
  <1> USE DEF RecoveryInv, actionVars
  <1> USE LogTypes
  <1>1. CASE Tick
    <2> USE <1>1 DEF Tick
    <2>1. LogInv'
      BY DEF LogInv
    <2>2. BaseInv'
      BY DEF LogInv, BaseInv
    <2>3. FenceInv' /\ CloneInv'
      BY DEF LogInv, BaseInv, FenceInv, FenceIsAt, CloneInv, SegmentInUse
    <2> QED
      BY <2>1, <2>2, <2>3
  <1>2. CASE Commit
    <2> USE <1>2 DEF Commit
    <2>1. /\ LogInv' /\ Len(wal') = Len(wal) + 1 /\ Len(wal) \in Nat
          /\ \A i \in 1..Len(wal) : wal'[i] = wal[i]
          /\ wal'[Len(wal) + 1] = Record("commit")
      BY LogAppend DEF LogInv
    <2>2. BaseInv'
      BY <2>1 DEF BaseInv
    <2>3. FenceInv'
      <3>1. SegmentInUse => SegmentInUse'
        BY <2>1 DEF SegmentInUse
      <3>2. \A f \in 1..Len(wal) : FenceIsAt(f) => f \in 1..Len(wal') /\ FenceIsAt(f)'
        BY <2>1 DEF FenceIsAt
      <3> QED
        BY <3>1, <3>2 DEF FenceInv
    <2>4. CloneInv'
      <3> SUFFICES ASSUME at \in {"waitReady", "cloned"}, target # NoTarget
                   PROVE  /\ target = Trunc(point) /\ target < now
                          /\ \A i \in 1..Len(wal') : wal'[i].kind = "commit"
                               => (i <= clone <=> wal'[i].time <= target)
        BY DEF CloneInv
      <3>1. \A i \in 1..Len(wal') : i \in 1..Len(wal) \/ i = Len(wal) + 1
        BY <2>1
      <3>2. clone < Len(wal) + 1 /\ Record("commit").time = now
        BY <2>1 DEF BaseInv, Record
      <3> QED
        BY <2>1, <3>1, <3>2 DEF CloneInv, LogInv, BaseInv
    <2> QED
      BY <2>1, <2>2, <2>3, <2>4
  <1>3. CASE FillSegment
    <2> USE <1>3 DEF FillSegment
    <2>1. LogInv'
      BY DEF LogInv
    <2>2. BaseInv'
      BY DEF LogInv, BaseInv
    <2>3. FenceInv' /\ CloneInv'
      BY DEF LogInv, BaseInv, FenceInv, FenceIsAt, CloneInv, SegmentInUse
    <2> QED
      BY <2>1, <2>2, <2>3
  <1>4. CASE Archive
    <2> USE <1>4 DEF Archive
    <2>1. LogInv'
      BY DEF LogInv
    <2>2. BaseInv'
      BY DEF LogInv, BaseInv
    <2>3. FenceInv' /\ CloneInv'
      BY DEF LogInv, BaseInv, FenceInv, FenceIsAt, CloneInv, SegmentInUse
    <2> QED
      BY <2>1, <2>2, <2>3
  <1> QED
    BY <1>1, <1>2, <1>3, <1>4 DEF Source

\* A failure stops the action and changes nothing else.
LEMMA FailsStep ==
  ASSUME RecoveryInv, NEW p, FailsAt(p)
  PROVE  RecoveryInv'
  BY DEF RecoveryInv, FailsAt, Goes, sourceVars, LogInv, BaseInv, FenceInv, CloneInv, Places

LEMMA ActionStep == RecoveryInv /\ Action => RecoveryInv'
  <1> SUFFICES ASSUME RecoveryInv, Action PROVE RecoveryInv'
    OBVIOUS
  <1> USE DEF RecoveryInv, sourceVars, Goes
  <1> USE LogTypes
  <1>0. CASE \E p \in Places : FailsAt(p)
    BY <1>0, FailsStep
  <1>1. CASE TakeBaseBackup /\ ~FailsAt("backup")
    <2> USE <1>1 DEF TakeBaseBackup
    <2>1. /\ LogInv' /\ Len(wal') = Len(wal) + 1 /\ Len(wal) \in Nat
          /\ wal'[Len(wal) + 1] = Record("backupEnd")
      BY LogAppend DEF LogInv
    <2>2. BaseInv'
      BY <2>1 DEF BaseInv, Record, Places
    <2>3. FenceInv' /\ CloneInv'
      BY DEF FenceInv, CloneInv
    <2> QED
      BY <2>1, <2>2, <2>3
  <1>2. CASE SetConsistencyPoint
    <2> USE <1>2 DEF SetConsistencyPoint
    <2>1. point' \in 0..now
      <3>1. wal[base].time \in Nat /\ now \in Nat
        BY DEF LogInv, BaseInv, Records
      <3>2. \A t \in wal[base].time..now : t \in Nat /\ t <= now
        BY <3>1
      <3>3. PICK t \in wal[base].time..now : point' \in {now, Trunc(t)}
        OBVIOUS
      <3>4. Trunc(t) \in Nat /\ Trunc(t) <= t
        BY <3>2, TruncIsNoLater
      <3> QED
        BY <3>1, <3>2, <3>3, <3>4
    <2>2. BaseInv'
      BY <2>1 DEF BaseInv, Places
    <2> QED
      BY <2>2 DEF LogInv, FenceInv, CloneInv
  <1>3. CASE WriteFence /\ ~FailsAt("fence")
    <2> USE <1>3 DEF WriteFence
    <2>1. /\ LogInv' /\ Len(wal') = Len(wal) + 1 /\ Len(wal) \in Nat
          /\ \A i \in 1..Len(wal) : wal'[i] = wal[i]
          /\ wal'[Len(wal) + 1] = Record("fence")
      BY LogAppend DEF LogInv
    <2>2. target' = Trunc(point) /\ target' \in 0..now
      <3>1. point \in Nat /\ point <= now /\ now \in Nat
        BY DEF BaseInv
      <3>2. Trunc(point) \in Nat /\ Trunc(point) <= point
        BY <3>1, TruncIsNoLater
      <3> QED
        BY <3>1, <3>2 DEF RecoveryTarget
    <2>3. BaseInv'
      BY <2>1, <2>2 DEF BaseInv, Places
    <2>4. PICK f \in 1..Len(wal') : f = Len(wal) + 1
      BY <2>1
    <2>5. FenceIsAt(f)'
      BY <2>1, <2>4 DEF FenceIsAt, Record
    <2>6. FenceInv' /\ CloneInv'
      BY <2>2, <2>5 DEF FenceInv, CloneInv
    <2> QED
      BY <2>1, <2>3, <2>6
  <1>4. CASE CaptureSegment /\ ~FailsAt("segment")
    <2> USE <1>4 DEF CaptureSegment
    <2>1. fenceSeg' \in 0..seg
      BY DEF LogInv
    <2>2. PICK f \in 1..Len(wal) : FenceIsAt(f)
      BY DEF FenceInv
    <2>3. wal[f].seg <= fenceSeg'
      BY DEF SegmentInUse, LogInv, Records
    <2>4. FenceIsAt(f)' /\ target' = Trunc(point') /\ f \in 1..Len(wal')
      BY <2>2, <2>3 DEF FenceInv, FenceIsAt
    <2>5. fenceSeg' = seg => SegmentInUse'
      BY DEF SegmentInUse
    <2>6. FenceInv'
      BY <2>4, <2>5 DEF FenceInv
    <2> QED
      BY <2>1, <2>6 DEF LogInv, BaseInv, CloneInv, Places
  <1>5. CASE SwitchWAL /\ ~FailsAt("switch")
    <2> USE <1>5 DEF SwitchWAL
    <2>1. seg' \in Nat \ {0} /\ seg' >= seg /\ fenceSeg < seg'
      BY DEF LogInv, BaseInv, FenceInv
    <2>2. LogInv'
      BY <2>1 DEF LogInv
    <2>3. BaseInv'
      BY <2>1 DEF LogInv, BaseInv, Places
    <2>4. FenceInv'
      BY <2>1 DEF FenceInv, FenceIsAt
    <2> QED
      BY <2>2, <2>3, <2>4 DEF CloneInv
  <1>6. CASE AwaitArchive /\ ~FailsAt("await")
    <2> USE <1>6 DEF AwaitArchive
    <2>1. PICK f \in 1..Len(wal) : FenceIsAt(f)
      BY DEF FenceInv
    <2>2. wal[f].seg <= archived
      BY <2>1 DEF FenceIsAt, LogInv, BaseInv, Records
    <2>3. FenceInv'
      BY <2>1, <2>2 DEF FenceInv, FenceIsAt
    <2> QED
      BY <2>3 DEF LogInv, BaseInv, CloneInv, Places
  <1>7. CASE CreateClone /\ ~FailsAt("create")
    <2> USE <1>7 DEF CreateClone
    <2>1. FenceInv'
      BY DEF FenceInv, FenceIsAt
    <2> QED
      BY <2>1 DEF LogInv, BaseInv, CloneInv, Places
  <1>8. CASE JobCompletes
    <2>1. PICK first \in PastTarget :
            (\A i \in PastTarget : first <= i) /\ clone' = first - 1
      BY <1>8 DEF JobCompletes
    <2>2. /\ at' = "waitReady" /\ UNCHANGED <<wal, seg, archived, now, base, point, target, fenceSeg>>
          /\ target = Trunc(point)
      BY <1>8 DEF JobCompletes, FenceInv
    <2>3. /\ first \in 1..Len(wal) /\ Len(wal) \in Nat
          /\ wal[first].seg <= archived /\ wal[first].time > target
      BY DEF PastTarget, LogInv
    <2>4. target \in Nat /\ target < now
      BY <2>3 DEF LogInv, BaseInv, Records
    <2>5. ASSUME NEW i \in 1..Len(wal), wal[i].kind = "commit"
          PROVE  i <= clone' <=> wal[i].time <= target
      <3>1. wal[i] \in Records /\ wal[first] \in Records /\ archived \in Nat
        BY <2>3 DEF LogInv
      <3>2. CASE i >= first
        <4>1. wal[i].time >= wal[first].time
          BY <2>3, <3>2 DEF LogInv
        <4> QED
          BY <2>1, <2>3, <2>4, <3>1, <3>2, <4>1 DEF Records
      <3>3. CASE i < first
        <4>1. wal[i].seg <= wal[first].seg
          BY <2>3, <3>3 DEF LogInv
        <4>2. wal[i].seg <= archived
          BY <2>3, <3>1, <4>1 DEF Records
        <4>3. ~(wal[i].time > target)
          BY <2>1, <2>3, <2>5, <3>3, <4>2 DEF PastTarget, LogInv
        <4> QED
          BY <2>1, <2>3, <2>4, <3>1, <3>3, <4>3 DEF Records
      <3> QED
        BY <2>3, <3>2, <3>3
    <2>6. CloneInv'
      BY <2>2, <2>4, <2>5 DEF CloneInv
    <2>7. BaseInv'
      BY <1>8, <2>1, <2>2, <2>3 DEF JobCompletes, BaseInv, Places
    <2>8. LogInv' /\ FenceInv'
      BY <2>2 DEF LogInv, FenceInv
    <2> QED
      BY <2>6, <2>7, <2>8
  <1>9. CASE (JobFails \/ DeleteClone \/ WaitForClusterDeleted) /\ \A p \in Places : ~FailsAt(p)
    <2>1. /\ UNCHANGED <<sourceVars, base, point, target, fenceSeg, clone>>
          /\ at \in {"recover", "deleteClone", "awaitDeleted"}
          /\ at' \in {"deleteClone", "awaitDeleted", "recreate"}
      BY <1>9 DEF JobFails, DeleteClone, WaitForClusterDeleted, Places
    <2> QED
      BY <2>1 DEF LogInv, BaseInv, FenceInv, CloneInv, Places
  <1>10. CASE RecreateClone /\ ~FailsAt("recreate")
    <2> USE <1>10 DEF RecreateClone
    <2>1. BaseInv'
      BY DEF LogInv, BaseInv, Places, NoTarget
    <2> QED
      BY <2>1 DEF LogInv, FenceInv, CloneInv
  <1>11. CASE WaitForReadyCluster /\ ~FailsAt("waitReady")
    BY <1>11 DEF WaitForReadyCluster, LogInv, BaseInv, FenceInv, CloneInv, Places
  <1> QED
    BY <1>0, <1>1, <1>2, <1>3, <1>4, <1>5, <1>6, <1>7, <1>8, <1>9, <1>10, <1>11
       DEF Action, Places

LEMMA RecoveryInvariant == RecoverySpec => []RecoveryInv
  <1>1. RecoveryInv /\ [RecoveryNext]_recoveryVars => RecoveryInv'
    <2> SUFFICES ASSUME RecoveryInv, UNCHANGED recoveryVars PROVE RecoveryInv'
      BY SourceStep, ActionStep DEF RecoveryNext
    <2> QED
      BY DEF recoveryVars, RecoveryInv, LogInv, BaseInv, FenceInv, FenceIsAt, CloneInv, SegmentInUse
  <1> QED
    BY <1>1, InitRecovery, PTL DEF RecoverySpec

-----------------------------------------------------------------------------
\* The theorems.

\* The variables of a recovery have their types.
THEOREM RecoveryTypes == RecoverySpec => []RecoveryTypeOK
  <1>1. RecoveryInv => RecoveryTypeOK
    <2> SUFFICES ASSUME RecoveryInv PROVE RecoveryTypeOK
      OBVIOUS
    <2> DEFINE R == [kind : {"commit", "backupEnd", "fence"}, time : Granule..MaxTime, seg : 1..seg]
    <2>1. \A i \in 1..Len(wal) : wal[i] \in R
      BY LogTypes DEF RecoveryInv, LogInv, Records
    <2>2. wal \in Seq(R)
      BY <2>1, SeqOfElements DEF RecoveryInv, LogInv
    <2> QED
      BY <2>2, LogTypes DEF RecoveryInv, LogInv, BaseInv, FenceInv, RecoveryTypeOK
  <1> QED
    BY <1>1, RecoveryInvariant, PTL

\* Once the fence has been archived, recovery can reach the target, unless the target
\* precedes the end of the base backup.
THEOREM FenceSuffices == RecoverySpec => []FenceMakesTargetReachable
  <1>1. RecoveryInv => FenceMakesTargetReachable
    <2> SUFFICES ASSUME RecoveryInv, at = "recover", target >= wal[base].time
                 PROVE  TargetIsReachable
      BY DEF FenceMakesTargetReachable
    <2> USE LogTypes DEF RecoveryInv
    <2>1. PICK f \in 1..Len(wal) : FenceIsAt(f)
      BY DEF FenceInv
    <2>2. target <= point /\ target \in Nat /\ point \in Nat /\ base \in 1..Len(wal)
      BY TruncIsNoLater DEF FenceInv, BaseInv, LogInv
    <2>3. f \in PastTarget
      <3>1. f \in DOMAIN wal /\ wal[f].time \in Nat
        BY DEF LogInv
      <3>2. wal[f].kind = "fence" /\ wal[f].time > point /\ wal[f].seg <= archived
        BY <2>1 DEF FenceIsAt
      <3> QED
        BY <2>2, <3>1, <3>2 DEF PastTarget
    <2>4. ASSUME NEW i \in PastTarget PROVE i > base
      <3>1. i \in 1..Len(wal) /\ wal[i].time > target /\ wal[i] \in Records /\ wal[base] \in Records
        BY <2>2 DEF PastTarget, LogInv
      <3>2. i <= base => wal[i].time <= wal[base].time
        BY <2>2, <3>1 DEF LogInv
      <3> QED
        BY <2>2, <3>1, <3>2 DEF Records
    <2> QED
      BY <2>3, <2>4 DEF TargetIsReachable
  <1> QED
    BY <1>1, RecoveryInvariant, PTL

\* A clone that recovered forward holds the commits up to the second of the point, and
\* no others.
THEOREM ClonesAreAtPoint == RecoverySpec => []CloneIsAtPoint
  <1>1. RecoveryInv => CloneIsAtPoint
    BY DEF RecoveryInv, CloneInv, CloneIsAtPoint, Commits, LogInv
  <1> QED
    BY <1>1, RecoveryInvariant, PTL

=============================================================================
