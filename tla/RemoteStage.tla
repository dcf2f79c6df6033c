----------------------------- MODULE RemoteStage -----------------------------
(***************************************************************************)
(* The remote stage: the object that drives one disaster-recovery event.   *)
(*                                                                         *)
(* RemoteStage.Run validates every registered action, sets the event up in *)
(* three phases around a shared consistency point, creates the tool pod,   *)
(* executes every action through it, and tears everything down again, on   *)
(* success and on failure alike.  The actions are of eight kinds; what a   *)
(* method of a kind creates, records and requires is given by the          *)
(* operators below, and the stage calls the methods in registration order. *)
(*                                                                         *)
(* Any call to the API server or the tool pod may fail: it is refused, it  *)
(* times out, or the run's context has been cancelled.  A call to the tool *)
(* pod is served by a handler there, which goes on when the call is cut.   *)
(* The pod's deletion is not waited for: handlers may go on until the pod  *)
(* has terminated.  Time is counted in ticks, Granule of them to the       *)
(* second, because the API server truncates the timestamps it hands out to *)
(* whole seconds.                                                          *)
(***************************************************************************)
EXTENDS Naturals, Sequences, FiniteSets

CONSTANTS
  Events,    \* the sequences of action kinds an application may register
  Granule,   \* clock ticks per second
  MaxTime    \* bound on the clock (names the end of the modelled history)

\* What an action does before the consistency point: a backup of a database, a
\* filesystem or a group of filesystems has work there, the others have none.
PreKinds == {"cnpgBackup", "filesBackup", "groupBackup"}
\* The kinds that are handed the consistency point.
ConsumerKinds == {"cnpgBackup", "s3Download", "s3Upload"}
\* The kinds with a Cleanup method.
CleanupKinds == {"cnpgBackup", "filesBackup", "groupBackup", "cnpgRestore"}
BackupKinds == PreKinds \cup {"s3Download"}
RestoreKinds == {"cnpgRestore", "filesRestore", "groupRestore", "s3Upload"}
Kinds == BackupKinds \cup RestoreKinds

\* Databases are registered before the filesystems whose freezes fix the point.
DatabasesFirst(event) ==
  \A i, j \in DOMAIN event :
    event[i] = "cnpgBackup" /\ event[j] \in {"filesBackup", "groupBackup"} => i < j

ASSUME EventsAssumption ==
  /\ Events \subseteq Seq(Kinds)
  /\ \A event \in Events : Len(event) > 0 /\ DatabasesFirst(event)

ASSUME TimeAssumption ==
  /\ Granule \in Nat \ {0}
  /\ MaxTime \in Nat
  /\ MaxTime >= Granule

VARIABLES
  actions,   \* the kinds of the registered actions, in order
  phase,     \* where Run is
  next,      \* the action the current loop of Run is at
  done,      \* for each action, the lifecycle steps it has completed
  owned,     \* <<action, resource>> for each resource an action has recorded
  exists,    \* <<action, resource>> for each of them that is in the cluster
  refused,   \* the ones left there: deleting them failed, or their creator did
  pod,       \* the tool pod, a resource of the stage itself
  serving,   \* the action whose call a handler in the tool pod is serving
  now,       \* the clock
  baseEnd,   \* when an action's base backup ended (NoInstant if none)
  pinned,    \* the instant an action reported having pinned
  earliest,  \* the stage's consistency point so far: the earliest pinned
  point,     \* the consistency point each action has been handed
  failed,    \* the places at which something failed
  err        \* the failures the returned error is an aggregate of

clockVars == <<now, baseEnd, pinned, earliest, point>>
resourceVars == <<owned, exists, refused>>
toolVars == <<pod, serving>>
stageVars == <<actions, phase, next, done, owned, exists, refused, pod, serving, now,
               baseEnd, pinned, earliest, point, failed, err>>

Actions == DOMAIN actions
Instants == 0..MaxTime
NoInstant == 0            \* Go's zero time: nothing pinned, no point handed over
\* A timestamp as the API server stores it, and as RFC 3339 formatting leaves it.
Trunc(t) == t - (t % Granule)

Phases == {"validate", "before", "stamp", "setup", "createTool", "connect",
           "execute", "await", "closeClient", "deleteTool", "cleanup", "returned"}
Steps == {"validated", "prepared", "setup", "executed"}
FailurePoints == {"validate", "before", "setup", "createTool", "connect",
                  "execute", "closeClient", "deleteTool", "cleanup"}

\* The tool pod is being deleted ("terminating") from the call that deletes it until its
\* processes have ended; one whose deletion was refused is "left".
PodStates == {"none", "running", "terminating", "left"}
NoAction == 0

\* What a successful BeforeConsistencyPoint leaves in the cluster and records.
CreatedBefore ==
  [cnpgBackup |-> {"baseBackup"}, filesBackup |-> {"clonedPVC"},
   groupBackup |-> {"clones", "groupSnapshot"}]

\* What a successful Setup leaves in the cluster and records.
CreatedInSetup(kind) ==
  CASE kind = "cnpgBackup" -> {"clone"}
    [] kind = "cnpgRestore" -> {"userCert"}
    [] OTHER -> {}

ResourceNames == {"baseBackup", "clone", "clonedPVC", "clones",
                  "groupSnapshot", "userCert"}

\* Mutant: the base backup is deleted before the clone that recovers from it.
BaseBackupFirst ==
  [clone |-> 2, baseBackup |-> 1, clones |-> 1, groupSnapshot |-> 2,
   clonedPVC |-> 1, userCert |-> 1]

\* The order in which one action's Cleanup deletes what it recorded.
DeletionRank ==
  [clone |-> 1, baseBackup |-> 2, clones |-> 1, groupSnapshot |-> 2,
   clonedPVC |-> 1, userCert |-> 1]

\* The steps an action's method insists on having completed before.
Required(kind, step) ==
  CASE step = "prepared" -> {"validated"}
    [] step = "setup" -> IF kind \in PreKinds THEN {"prepared"} ELSE {"validated"}
    [] step = "executed" -> {"setup"}
    [] OTHER -> {}

\* An action's own state allows the call: what it requires is done, and the
\* step itself is not ("attempted to setup multiple times").
Ready(a, step) ==
  /\ Required(actions[a], step) \subseteq done[a]
  /\ step = "validated" \/ step = "executed" \/ step \notin done[a]

------------------------------------------------------------------------------

Init ==
  /\ actions \in Events
  /\ phase = "validate"
  /\ next = 1
  /\ done = [a \in Actions |-> {}]
  /\ owned = {}
  /\ exists = {}
  /\ refused = {}
  /\ pod = "none"
  /\ serving = NoAction
  /\ now = Granule
  /\ baseEnd = [a \in Actions |-> NoInstant]
  /\ pinned = [a \in Actions |-> NoInstant]
  /\ earliest = NoInstant
  /\ point = [a \in Actions |-> NoInstant]
  /\ failed = {}
  /\ err = {}

\* Run is in phase p, and its loop is at an action.
At(p) == phase = p /\ next \in Actions

\* The loop of phase p has passed the last action.
LoopEnds(p) == phase = p /\ next \notin Actions

Enter(p) == phase' = p /\ next' = 1

\* Something failed at place f, and the returned error tells of it.
Reported(f) == failed' = failed \cup {f} /\ err' = err \cup {f}

\* The action's method completes the given step; the loop of phase p moves on.
CompletesIn(p, step) ==
  /\ Ready(next, step)
  /\ done' = [done EXCEPT ![next] = @ \cup {step}]
  /\ next' = next + 1
  /\ phase' = p
  /\ UNCHANGED <<failed, err>>

Completes(step) == CompletesIn(phase, step)

\* The action's method returns an error at place f, having been unable to remove
\* some of the resources it may have created by then; the action has recorded
\* none of them.  Run abandons the loop and goes on at phase p.
AbandonsLeaving(resources, f, p) ==
  /\ Enter(p)
  /\ Reported(f)
  /\ \E left \in SUBSET {<<next, r>> : r \in resources} :
       /\ exists' = exists \cup left
       /\ refused' = refused \cup left
  /\ UNCHANGED <<done, owned, clockVars>>

\* The same of a method that creates nothing.
Abandons(f, p) == AbandonsLeaving({}, f, p)

------------------------------------------------------------------------------

\* validate: every action in order, up to the first error.
Validate ==
  /\ At("validate")
  /\ UNCHANGED <<actions, toolVars>>
  /\ \/ Completes("validated") /\ UNCHANGED <<resourceVars, clockVars>>
     \/ Abandons("validate", "cleanup")

\* What BeforeConsistencyPoint records on success.
Acquires(resources) ==
  /\ owned' = owned \cup {<<next, r>> : r \in resources}
  /\ exists' = exists \cup {<<next, r>> : r \in resources}
  /\ UNCHANGED refused

\* Mutant: the stage keeps the latest instant instead.
TrackLatest(instant) == earliest' = IF instant > earliest THEN instant ELSE earliest

\* The stage keeps the earliest non-zero instant it has been told.
TrackEarliest(instant) ==
  earliest' = IF instant # NoInstant /\ (earliest = NoInstant \/ instant < earliest)
                THEN instant ELSE earliest

\* A base backup is taken and waited for.  It pins nothing.
TakeBaseBackup ==
  /\ actions[next] = "cnpgBackup"
  /\ Completes("prepared")
  /\ Acquires(CreatedBefore.cnpgBackup)
  /\ \E end \in now..MaxTime :
       /\ now' = end
       /\ baseEnd' = [baseEnd EXCEPT ![next] = end]
  /\ UNCHANGED <<pinned, earliest, point>>

\* A filesystem is snapshotted, and a volume is created from the snapshot once
\* that is ready.  The instant reported is the volume's creation timestamp.
CloneFilesystem ==
  /\ actions[next] = "filesBackup"
  /\ Completes("prepared")
  /\ Acquires(CreatedBefore.filesBackup)
  /\ \E created \in now..MaxTime :
       /\ now' = created
       /\ pinned' = [pinned EXCEPT ![next] = Trunc(created)]
       /\ TrackEarliest(Trunc(created))
  /\ UNCHANGED <<baseEnd, point>>

\* A group of filesystems is snapshotted at one instant.  The instant reported
\* is that freeze if the snapshot's status has it, else the creation timestamp
\* of the snapshot object, which precedes the freeze.
CloneFilesystemGroup ==
  /\ actions[next] = "groupBackup"
  /\ Completes("prepared")
  /\ Acquires(CreatedBefore.groupBackup)
  /\ \E created \in now..MaxTime : \E freeze \in created..MaxTime :
       /\ now' = freeze
       /\ \E instant \in {Trunc(created), Trunc(freeze)} :
            /\ pinned' = [pinned EXCEPT ![next] = instant]
            /\ TrackEarliest(instant)
  /\ UNCHANGED <<baseEnd, point>>

\* setup, phase 1: every action with work before the consistency point.
BeforeConsistencyPoint ==
  /\ At("before")
  /\ UNCHANGED <<actions, toolVars>>
  /\ \/ TakeBaseBackup
     \/ CloneFilesystem
     \/ CloneFilesystemGroup
     \/ /\ actions[next] \in PreKinds
        /\ AbandonsLeaving(CreatedBefore[actions[next]], "before", "cleanup")

\* Mutant: the current time is read when the setup begins, before phase 1.
StampWithStart ==
  /\ phase = "stamp"
  /\ LET consistencyPoint == IF earliest = NoInstant THEN Granule ELSE earliest IN
       point' = [a \in Actions |-> IF actions[a] \in ConsumerKinds
                                     THEN consistencyPoint ELSE point[a]]
  /\ Enter("setup")
  /\ UNCHANGED <<actions, done, resourceVars, toolVars, now, baseEnd, pinned,
                 earliest, failed, err>>

\* setup, phase 2: the point is the earliest pinned instant, or the current time
\* if nothing was pinned, and every consumer is handed it.
Stamp ==
  /\ phase = "stamp"
  /\ \E t \in now..MaxTime :
       LET consistencyPoint == IF earliest = NoInstant THEN t ELSE earliest IN
       /\ now' = t
       /\ point' = [a \in Actions |-> IF actions[a] \in ConsumerKinds
                                        THEN consistencyPoint ELSE point[a]]
  /\ Enter("setup")
  /\ UNCHANGED <<actions, done, resourceVars, toolVars, baseEnd, pinned, earliest,
                 failed, err>>

\* setup, phase 3: every action contributes its volumes; a database backup
\* creates its clone and a database restore its user certificate.
Setup ==
  /\ At("setup")
  /\ UNCHANGED <<actions, toolVars>>
  /\ \/ /\ Completes("setup")
        /\ Acquires(CreatedInSetup(actions[next]))
        /\ UNCHANGED clockVars
     \/ AbandonsLeaving(CreatedInSetup(actions[next]), "setup", "cleanup")

\* Mutant: a skipped action is looked at again.
SkipInPlace ==
  /\ \/ At("before") /\ actions[next] \notin PreKinds
     \/ At("cleanup") /\ actions[next] \notin CleanupKinds
  /\ UNCHANGED stageVars

\* A loop skips an action that lacks the capability it is about.
Skip ==
  /\ \/ At("before") /\ actions[next] \notin PreKinds
     \/ At("cleanup") /\ actions[next] \notin CleanupKinds
  /\ next' = next + 1
  /\ UNCHANGED <<actions, phase, done, resourceVars, toolVars, clockVars, failed, err>>

\* The loops of Run, in order, and what follows each.
LoopDone ==
  /\ \/ LoopEnds("validate") /\ Enter("before")
     \/ LoopEnds("before") /\ Enter("stamp")
     \/ LoopEnds("setup") /\ Enter("createTool")
     \/ LoopEnds("execute") /\ Enter("closeClient")
     \/ LoopEnds("cleanup") /\ Enter("returned")
  /\ UNCHANGED <<actions, done, resourceVars, toolVars, clockVars, failed, err>>

------------------------------------------------------------------------------

\* The tool pod is created and waited for.  When the wait fails the pod is
\* deleted on the spot, and that deletion may be refused too.
CreateTool ==
  /\ phase = "createTool"
  /\ UNCHANGED <<actions, done, resourceVars, clockVars, serving>>
  /\ \/ Enter("connect") /\ pod' = "running" /\ UNCHANGED <<failed, err>>
     \/ /\ Enter("cleanup")
        /\ Reported("createTool")
        /\ pod' \in {"none", "terminating", "left"}

\* The client is connected to the pod's address.
Connect ==
  /\ phase = "connect"
  /\ UNCHANGED <<actions, toolVars>>
  /\ \/ /\ Enter("execute")
        /\ UNCHANGED <<done, resourceVars, clockVars, failed, err>>
     \/ Abandons("connect", "deleteTool")

\* execute, every action in order: its call is sent to the tool pod, where a
\* handler takes it up, or fails before it is.
Execute ==
  /\ At("execute")
  /\ UNCHANGED <<actions, pod>>
  /\ \/ /\ Ready(next, "executed")
        /\ phase' = "await"
        /\ serving' = next
        /\ UNCHANGED <<next, done, resourceVars, clockVars, failed, err>>
     \/ Abandons("execute", "closeClient") /\ UNCHANGED serving

\* The handler ends and its answer arrives.  The first error ends the loop.
Answered ==
  /\ phase = "await"
  /\ serving = next
  /\ serving' = NoAction
  /\ UNCHANGED <<actions, pod>>
  /\ \/ CompletesIn("execute", "executed") /\ UNCHANGED <<resourceVars, clockVars>>
     \/ Abandons("execute", "closeClient")

\* Mutant: a call that was cut is taken for one that was answered.
CutUnreported ==
  /\ phase = "await"
  /\ CompletesIn("execute", "executed")
  /\ UNCHANGED <<actions, resourceVars, toolVars, clockVars>>

\* Mutant: a call that fails ends the stage without the deferred calls.
CutWithoutDefers ==
  /\ phase = "await"
  /\ Abandons("execute", "cleanup")
  /\ UNCHANGED <<actions, toolVars>>

\* The call ends without an answer: the connection breaks, or the run's context
\* has been cancelled.  The handler, if it still runs, is not waited for.
Cut ==
  /\ phase = "await"
  /\ Abandons("execute", "closeClient")
  /\ UNCHANGED <<actions, toolVars>>

\* Mutant: a failure of Close is reported whether or not Close failed.
CloseClientReported ==
  /\ phase = "closeClient"
  /\ Enter("deleteTool")
  /\ failed' \in {failed, failed \cup {"closeClient"}}
  /\ err' = err \cup {"closeClient"}
  /\ UNCHANGED <<actions, done, resourceVars, toolVars, clockVars>>

\* The deferred Close of the client.  Its error is stored in execute's local
\* err, which is no longer what execute returns.
CloseClient ==
  /\ phase = "closeClient"
  /\ Enter("deleteTool")
  /\ failed' \in {failed, failed \cup {"closeClient"}}
  /\ UNCHANGED <<actions, done, resourceVars, toolVars, clockVars, err>>

\* The deferred deletion of the tool pod, whose error is lost in the same way.
\* It is issued, not waited for.
DeleteTool ==
  /\ phase = "deleteTool"
  /\ Enter("cleanup")
  /\ \/ pod' = "terminating" /\ UNCHANGED failed
     \/ pod' = "left" /\ failed' = failed \cup {"deleteTool"}
  /\ UNCHANGED <<actions, done, resourceVars, serving, clockVars, err>>

\* Mutant: no action cleans up before its setup is complete.
ToDeleteOnceSetUp(a) ==
  {x \in owned \ refused : x[1] = a /\ x \in exists /\ "setup" \in done[a]}

\* What action a's Cleanup still has to delete.  A database restore only cleans
\* up a completed setup; the others delete whatever they have recorded.
ToDelete(a) ==
  {x \in owned \ refused :
     /\ x[1] = a
     /\ x \in exists
     /\ actions[a] = "cnpgRestore" => "setup" \in done[a]}

\* Mutant: a refused deletion is not reported.
CleanUpOneQuietly ==
  /\ At("cleanup")
  /\ actions[next] \in CleanupKinds
  /\ \E x \in ToDelete(next) :
       /\ \A y \in ToDelete(next) : DeletionRank[x[2]] <= DeletionRank[y[2]]
       /\ \/ exists' = exists \ {x} /\ UNCHANGED <<refused, failed>>
          \/ /\ refused' = refused \cup {x}
             /\ failed' = failed \cup {"cleanup"}
             /\ UNCHANGED exists
  /\ UNCHANGED <<actions, phase, next, done, owned, toolVars, clockVars, err>>

\* cleanup of the action the loop is at: its resources in order, each deleted
\* or refused, a refusal never keeping the next from being tried.
CleanUpOne ==
  /\ At("cleanup")
  /\ actions[next] \in CleanupKinds
  /\ \E x \in ToDelete(next) :
       /\ \A y \in ToDelete(next) : DeletionRank[x[2]] <= DeletionRank[y[2]]
       /\ \/ exists' = exists \ {x} /\ UNCHANGED <<refused, failed, err>>
          \/ refused' = refused \cup {x} /\ Reported("cleanup") /\ UNCHANGED exists
  /\ UNCHANGED <<actions, phase, next, done, owned, toolVars, clockVars>>

\* The action has nothing left to delete: on to the next one.
CleanUpDone ==
  /\ At("cleanup")
  /\ actions[next] \in CleanupKinds
  /\ ToDelete(next) = {}
  /\ next' = next + 1
  /\ UNCHANGED <<actions, phase, done, resourceVars, toolVars, clockVars, failed, err>>

CleanUp == CleanUpOne \/ CleanUpDone

------------------------------------------------------------------------------
\* The tool pod, on its own.

\* A handler ends without an answer that Run gets: its call was cut, or its
\* process is lost.
HandlerEnds ==
  /\ serving # NoAction
  /\ serving' = NoAction
  /\ UNCHANGED pod

\* A pod that is being deleted ends, and its handlers with it.
PodEnds ==
  /\ pod = "terminating"
  /\ pod' = "none"
  /\ serving' = NoAction

ToolNext ==
  /\ HandlerEnds \/ PodEnds
  /\ UNCHANGED <<actions, phase, next, done, resourceVars, clockVars, failed, err>>

StageNext ==
  \/ Validate
  \/ BeforeConsistencyPoint
  \/ Stamp
  \/ Setup
  \/ Skip
  \/ LoopDone
  \/ CreateTool
  \/ Connect
  \/ Execute
  \/ Answered
  \/ Cut
  \/ CloseClient
  \/ DeleteTool
  \/ CleanUp

StageSpec == Init /\ [][StageNext \/ ToolNext]_stageVars

------------------------------------------------------------------------------

TypeOK ==
  /\ actions \in Events
  /\ phase \in Phases
  /\ next \in 1..(Len(actions) + 1)
  /\ done \in [Actions -> SUBSET Steps]
  /\ owned \in SUBSET (Actions \X ResourceNames)
  /\ exists \in SUBSET (Actions \X ResourceNames)
  /\ refused \in SUBSET (Actions \X ResourceNames)
  /\ pod \in PodStates
  /\ serving \in Actions \cup {NoAction}
  /\ now \in Granule..MaxTime
  /\ baseEnd \in [Actions -> Instants]
  /\ pinned \in [Actions -> Instants]
  /\ earliest \in Instants
  /\ point \in [Actions -> Instants]
  /\ failed \in SUBSET FailurePoints
  /\ err \in SUBSET failed

=============================================================================
