------------------------------ MODULE Recovery ------------------------------
(***************************************************************************)
(* How a database's clone reaches the consistency point: the base backup   *)
(* of the source, the recovery fence that is committed and archived once   *)
(* the point is known, the clone recovering forward to the point from the  *)
(* archived write-ahead log, and the fallback to the end of the base       *)
(* backup when its recovery Job fails.                                     *)
(*                                                                         *)
(* The source goes on committing, filling segments and archiving them, or  *)
(* failing to, all the while.  What the recovering server and its Job do   *)
(* is CloudNativePG's and PostgreSQL's: the server replays the archived    *)
(* records up to the first commit later than the target, which it must not *)
(* meet before the end of the base backup.  A Job can fail for reasons of  *)
(* its own.  Clocks are taken to agree, and commits to be logged in the    *)
(* order of their timestamps.                                              *)
(***************************************************************************)
EXTENDS Naturals, Sequences, FiniteSets

CONSTANTS
  Granule,     \* clock ticks per second
  MaxTime,     \* bound on the clock
  MaxCommits   \* bound on the application's commits

ASSUME RecoveryAssumption ==
  /\ Granule \in Nat \ {0}
  /\ MaxTime \in Nat /\ MaxTime >= Granule
  /\ MaxCommits \in Nat

VARIABLES
  wal,       \* the source's log: commits, the end of the base backup, the fence
  seg,       \* the segment that is being written
  archived,  \* the last segment in the object store
  now,       \* the clock
  at,        \* where the action is
  base,      \* the position at which the base backup is consistent
  point,     \* the consistency point
  target,    \* the recovery target, NoTarget for the end of the base backup
  fenceSeg,  \* the segment the fence is taken to be in
  clone      \* the position the clone has recovered to

sourceVars == <<wal, seg, archived, now>>
recoveryVars == <<wal, seg, archived, now, at, base, point, target, fenceSeg, clone>>

NoTarget == 0
Trunc(t) == t - (t % Granule)

Record(what) == [kind |-> what, time |-> now, seg |-> seg]
Commits == {i \in DOMAIN wal : wal[i].kind = "commit"}
SegmentInUse == \E i \in DOMAIN wal : wal[i].seg = seg

RecoveryInit ==
  /\ wal = <<>>
  /\ seg = 1
  /\ archived = 0
  /\ now = Granule
  /\ at = "backup"
  /\ base = 0
  /\ point = NoTarget
  /\ target = NoTarget
  /\ fenceSeg = 0
  /\ clone = 0

------------------------------------------------------------------------------
(* The source.                                                              *)

actionVars == <<at, base, point, target, fenceSeg, clone>>

Tick ==
  /\ now < MaxTime
  /\ now' = now + 1
  /\ UNCHANGED <<wal, seg, archived, actionVars>>

Commit ==
  /\ Cardinality(Commits) < MaxCommits
  /\ wal' = Append(wal, Record("commit"))
  /\ UNCHANGED <<seg, archived, now, actionVars>>

\* The segment is full, or archive_timeout has passed.
FillSegment ==
  /\ SegmentInUse
  /\ seg' = seg + 1
  /\ UNCHANGED <<wal, archived, now, actionVars>>

\* A completed segment reaches the object store; until it does, archiving it may
\* be failing, which is all that archiving failures amount to.
Archive ==
  /\ archived + 1 < seg
  /\ archived' = archived + 1
  /\ UNCHANGED <<wal, seg, now, actionVars>>

------------------------------------------------------------------------------
(* The action.                                                              *)

Goes(p, q) == at = p /\ at' = q

\* The call at p fails or times out, and the stage tears the action down.
FailsAt(p) ==
  /\ Goes(p, "failed")
  /\ UNCHANGED <<sourceVars, base, point, target, fenceSeg, clone>>

\* BeforeConsistencyPoint: the base backup ends, and its end is logged.
TakeBaseBackup ==
  \/ /\ Goes("backup", "stamp")
     /\ wal' = Append(wal, Record("backupEnd"))
     /\ base' = Len(wal')
     /\ UNCHANGED <<seg, archived, now, point, target, fenceSeg, clone>>
  \/ FailsAt("backup")

\* SetConsistencyPoint: the current time, or an instant that another action has
\* pinned since the base backup, which the API server gives in whole seconds.
SetConsistencyPoint ==
  /\ Goes("stamp", "fence")
  /\ \E t \in wal[base].time..now : point' \in {now, Trunc(t)}
  /\ UNCHANGED <<sourceVars, base, target, fenceSeg, clone>>

\* Mutant: the target is the next whole second.
TargetRoundedUp == Trunc(point + Granule - 1)

\* The recovery target: the point as RFC 3339 prints it, in whole seconds.
RecoveryTarget == Trunc(point)

\* Setup fixes the target, and a transaction that changes nothing is committed on
\* the source, later than the point.
WriteFence ==
  \/ /\ Goes("fence", "segment")
     /\ now > point
     /\ wal' = Append(wal, Record("fence"))
     /\ target' = RecoveryTarget
     /\ UNCHANGED <<seg, archived, now, base, point, fenceSeg, clone>>
  \/ FailsAt("fence")

\* The segment of the current position is asked for in a statement of its own, by
\* when the source may be past the fence's.  At the very beginning of a segment,
\* PostgreSQL names the one before.
CaptureSegment ==
  \/ /\ Goes("segment", "switch")
     /\ fenceSeg' = IF SegmentInUse THEN seg ELSE seg - 1
     /\ UNCHANGED <<sourceVars, base, point, target, clone>>
  \/ FailsAt("segment")

\* pg_switch_wal, which leaves an unused segment alone.
SwitchWAL ==
  \/ /\ Goes("switch", "await")
     /\ seg' = IF SegmentInUse THEN seg + 1 ELSE seg
     /\ UNCHANGED <<wal, archived, now, base, point, target, fenceSeg, clone>>
  \/ FailsAt("switch")

\* Mutant: the switch is not waited for.
ArchiveAssumed ==
  \/ /\ Goes("await", "create")
     /\ UNCHANGED <<sourceVars, base, point, target, fenceSeg, clone>>
  \/ FailsAt("await")

\* waitForWALArchive: until the segment, or a later one, has been archived.
AwaitArchive ==
  \/ /\ Goes("await", "create")
     /\ archived >= fenceSeg
     /\ UNCHANGED <<sourceVars, base, point, target, fenceSeg, clone>>
  \/ FailsAt("await")

CreateClone ==
  \/ /\ Goes("create", "recover")
     /\ UNCHANGED <<sourceVars, base, point, target, fenceSeg, clone>>
  \/ FailsAt("create")

\* The records in the archive that tell the recovering server that it has passed the
\* target.
PastTarget ==
  {i \in DOMAIN wal :
     /\ wal[i].kind \in {"commit", "fence"}
     /\ wal[i].seg <= archived
     /\ wal[i].time > target}

\* Replaying ends at the first of them, which must be after the end of the base backup.
TargetIsReachable == PastTarget # {} /\ \A i \in PastTarget : i > base

\* The recovery Job completes, after however many attempts.
JobCompletes ==
  /\ Goes("recover", "waitReady")
  /\ TargetIsReachable
  /\ \E first \in PastTarget : (\A i \in PastTarget : first <= i) /\ clone' = first - 1
  /\ UNCHANGED <<sourceVars, base, point, target, fenceSeg>>

\* The recovery Job has used up its attempts.  That is taken to mean that the
\* source has logged nothing since the target; waiting for it may time out too.
JobFails ==
  \/ /\ Goes("recover", "deleteClone")
     /\ UNCHANGED <<sourceVars, base, point, target, fenceSeg, clone>>
  \/ FailsAt("recover")

DeleteClone ==
  \/ /\ Goes("deleteClone", "awaitDeleted")
     /\ UNCHANGED <<sourceVars, base, point, target, fenceSeg, clone>>
  \/ FailsAt("deleteClone")

WaitForClusterDeleted ==
  \/ /\ Goes("awaitDeleted", "recreate")
     /\ UNCHANGED <<sourceVars, base, point, target, fenceSeg, clone>>
  \/ FailsAt("awaitDeleted")

\* The clone is created anew, without a target: it recovers as far as the end of
\* the base backup.
RecreateClone ==
  \/ /\ Goes("recreate", "waitReady")
     /\ target' = NoTarget
     /\ clone' = base
     /\ UNCHANGED <<sourceVars, base, point, fenceSeg>>
  \/ FailsAt("recreate")

WaitForReadyCluster ==
  \/ /\ Goes("waitReady", "cloned")
     /\ UNCHANGED <<sourceVars, base, point, target, fenceSeg, clone>>
  \/ FailsAt("waitReady")

Source == Tick \/ Commit \/ FillSegment \/ Archive

Action ==
  \/ TakeBaseBackup
  \/ SetConsistencyPoint
  \/ WriteFence
  \/ CaptureSegment
  \/ SwitchWAL
  \/ AwaitArchive
  \/ CreateClone
  \/ JobCompletes
  \/ JobFails
  \/ DeleteClone
  \/ WaitForClusterDeleted
  \/ RecreateClone
  \/ WaitForReadyCluster

RecoveryNext == Source \/ Action

RecoverySpec == RecoveryInit /\ [][RecoveryNext]_recoveryVars

------------------------------------------------------------------------------

Places == {"backup", "stamp", "fence", "segment", "switch", "await", "create",
           "recover", "deleteClone", "awaitDeleted", "recreate", "waitReady",
           "cloned", "failed"}

\* The values the variables take; only completed segments are in the archive, and
\* the segment that is waited for has been completed by the time it is.
RecoveryTypeOK ==
  /\ wal \in Seq([kind : {"commit", "backupEnd", "fence"}, time : Granule..MaxTime, seg : 1..seg])
  /\ seg \in Nat \ {0}
  /\ archived \in Nat /\ archived < seg
  /\ now \in Granule..MaxTime
  /\ at \in Places
  /\ base \in 0..Len(wal)
  /\ {point, target} \subseteq 0..MaxTime
  /\ fenceSeg \in 0..seg
  /\ at = "await" => fenceSeg < seg
  /\ clone \in 0..Len(wal)

\* Once the fence has been archived, recovery can reach the target, idle source or
\* not, unless the target precedes the end of the base backup, which truncating
\* the point to a whole second can make it do.
FenceMakesTargetReachable ==
  at = "recover" /\ target >= wal[base].time => TargetIsReachable

\* A clone that recovered forward holds exactly the commits of the source up to the
\* second of the consistency point.
CloneIsAtPoint ==
  at = "cloned" /\ target # NoTarget =>
    \A i \in Commits : i <= clone <=> wal[i].time <= Trunc(point)

=============================================================================
