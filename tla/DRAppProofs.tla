---------------------------- MODULE DRAppProofs ----------------------------
(***************************************************************************)
(* Theorems about an event, for every set of events and every clock.       *)
(*                                                                         *)
(*   TypeCorrect            the variables keep their types                 *)
(*   BackupsPrecedePoint    base backups end by the consistency point      *)
(*   PointIsEarliestPinned  the point is the earliest instant pinned       *)
(*   NothingElseRemains     the teardown removes all that can be removed   *)
(*   MountsOutliveCalls     nothing is deleted under a call still awaited  *)
(*   RefinesDREvent         an event is what DREvent promises              *)
(*   FailuresAreReported    the returned error tells of every failure      *)
(*   QuietWhenDone          success comes after the teardown and all calls *)
(*   BaseBackupsOutlive     a base backup goes after its clone             *)
(*   EventsAdvance          no event goes on for ever                      *)
(*                                                                         *)
(* Five inductive invariants carry them, each on top of the types:         *)
(* PointInv for the second and third, TeardownInv for the fourth and       *)
(* fifth, CaptureInv for the refinement, ReportInv for the fifth and the   *)
(* next two, OwnershipInv for the last.  A step of the application other   *)
(* than the stage's leaves the stage alone, and a step of the tool pod all *)
(* but the pod and its handler, so the work is in the lemmas about         *)
(* StageNext, which have one case per action.                              *)
(***************************************************************************)
EXTENDS DRApp, Integers, FiniteSetTheorems, TLAPS

\* A truncated time is a time, and not a later one.
LEMMA TruncBounds ==
  ASSUME NEW t \in Nat
  PROVE  /\ Trunc(t) \in Nat
         /\ Trunc(t) <= t
<1>1. Granule \in Nat /\ Granule > 0
  BY TimeAssumption
<1> DEFINE q == t \div Granule
           r == t % Granule
<1>2. q \in Int /\ r \in Int /\ r >= 0 /\ r < Granule /\ t = Granule * q + r
  BY <1>1
<1>3. q >= 0
  <2> SUFFICES ASSUME q <= -1 PROVE FALSE
    BY <1>2
  <2>1. Granule * q <= Granule * (-1)
    BY <1>1, <1>2
  <2> QED
    BY <1>1, <1>2, <2>1
<1>4. Granule * q >= 0
  BY <1>1, <1>2, <1>3
<1> QED
  BY <1>1, <1>2, <1>4 DEF Trunc

\* A truncated time is a whole number of granules.
LEMMA TruncIsMultiple ==
  ASSUME NEW t \in Nat
  PROVE  Trunc(t) = Granule * (t \div Granule)
<1>1. Granule \in Nat /\ Granule > 0
  BY TimeAssumption
<1> DEFINE q == t \div Granule
           r == t % Granule
<1>2. q \in Int /\ r \in Int /\ t = Granule * q + r
  BY <1>1
<1>3. Granule * q \in Int
  BY <1>1, <1>2
<1> QED
  BY <1>2, <1>3 DEF Trunc

\* Truncation keeps the order of times.
LEMMA TruncMonotone ==
  ASSUME NEW s \in Nat, NEW t \in Nat, s <= t
  PROVE  Trunc(s) <= Trunc(t)
<1>1. Granule \in Nat /\ Granule > 0
  BY TimeAssumption
<1> DEFINE q == s \div Granule
           p == t \div Granule
           r == s % Granule
           u == t % Granule
<1>2. /\ q \in Int /\ r \in Int /\ r >= 0 /\ r < Granule /\ s = Granule * q + r
      /\ p \in Int /\ u \in Int /\ u >= 0 /\ u < Granule /\ t = Granule * p + u
  BY <1>1
<1> HIDE DEF q, p, r, u
<1>3. q <= p
  <2> SUFFICES ASSUME p + 1 <= q PROVE FALSE
    BY <1>2
  <2>1. Granule * (p + 1) <= Granule * q
    BY <1>1, <1>2
  <2>2. Granule * (p + 1) = Granule * p + Granule
    BY <1>1, <1>2
  <2> QED
    BY <1>1, <1>2, <2>1, <2>2
<1>4. Granule * q <= Granule * p
  BY <1>1, <1>2, <1>3
<1> QED
  BY <1>4, TruncIsMultiple DEF q, p

\* Truncating a truncated time changes nothing.
LEMMA TruncIdempotent ==
  ASSUME NEW t \in Nat
  PROVE  Trunc(Trunc(t)) = Trunc(t)
<1>1. Granule \in Nat /\ Granule > 0
  BY TimeAssumption
<1> DEFINE q == t \div Granule
           m == Granule * q
<1>2. Trunc(t) = m /\ m \in Nat /\ q \in Int
  BY <1>1, TruncIsMultiple, TruncBounds
<1> HIDE DEF q
<1>3. m % Granule = 0
  <2> DEFINE p == m \div Granule
             r == m % Granule
  <2>1. p \in Int /\ r \in Int /\ r >= 0 /\ r < Granule /\ m = Granule * p + r
    BY <1>1, <1>2
  <2> HIDE DEF p, r
  <2>2. r = Granule * (q - p)
    BY <1>1, <1>2, <2>1
  <2>3. q - p < 1
    <3> SUFFICES ASSUME q - p >= 1 PROVE FALSE
      BY <1>2, <2>1
    <3>1. Granule * (q - p) >= Granule * 1
      BY <1>1, <1>2, <2>1
    <3> QED
      BY <1>1, <2>1, <2>2, <3>1
  <2>4. q - p > -1
    <3> SUFFICES ASSUME q - p <= -1 PROVE FALSE
      BY <1>2, <2>1
    <3>1. Granule * (q - p) <= Granule * (-1)
      BY <1>1, <1>2, <2>1
    <3> QED
      BY <1>1, <2>1, <2>2, <3>1
  <2>5. q - p = 0
    BY <1>2, <2>1, <2>3, <2>4
  <2> QED
    BY <1>1, <2>1, <2>2, <2>5 DEF r
<1> QED
  BY <1>1, <1>2, <1>3 DEF Trunc

------------------------------------------------------------------------------
\* Type correctness.

\* The steps that are neither the stage's nor the tool pod's.
AppStep ==
  \/ EnsureVolume
  \/ StageReturns
  \/ SnapshotVolume
  \/ WaitReadySnapshot
  \/ Cancel
  \/ UNCHANGED vars

\* They leave the stage alone.
LEMMA AppStepsKeepStage == AppStep => UNCHANGED stageVars
  BY DEF AppStep, EnsureVolume, StageReturns, SnapshotVolume, WaitReadySnapshot, Cancel, vars

\* A step is one of these, the stage's, or the tool pod's, which changes the pod alone.
LEMMA StepKinds ==
  ASSUME [Next]_vars
  PROVE  \/ RunStage
         \/ AppStep
         \/ /\ RunTool
            /\ UNCHANGED <<actions, phase, next, done, resourceVars, clockVars, failed, err,
                           appVars>>
  BY DEF Next, ProgramStep, RunTool, ToolNext, AppStep

\* What the type of actions says, in the form the provers use it.
LEMMA ActionsType ==
  ASSUME TypeOK
  PROVE  /\ Len(actions) \in Nat
         /\ Len(actions) > 0
         /\ Actions = 1..Len(actions)
         /\ \A a \in Actions : actions[a] \in Kinds
         /\ DatabasesFirst(actions)
<1>1. actions \in Seq(Kinds) /\ Len(actions) > 0 /\ DatabasesFirst(actions)
  BY EventsAssumption DEF TypeOK
<1> QED
  BY <1>1 DEF Actions

\* The initial values have the types.
LEMMA InitType == AppInit => AppTypeOK
<1> SUFFICES ASSUME AppInit PROVE AppTypeOK
  OBVIOUS
<1>1. actions \in Seq(Kinds) /\ Len(actions) > 0
  BY EventsAssumption DEF AppInit, Init
<1>2. next \in 1..(Len(actions) + 1)
  BY <1>1 DEF AppInit, Init
<1>3. now \in Granule..MaxTime /\ NoInstant \in Instants
  BY TimeAssumption DEF AppInit, Init, Instants, NoInstant
<1>4. TypeOK
  BY <1>1, <1>2, <1>3 DEF AppInit, Init, TypeOK, Phases, PodStates
<1> QED
  BY <1>4 DEF AppInit, AppTypeOK

\* One method of one action, when it succeeds.
LEMMA CompletesType ==
  ASSUME TypeOK, next \in Actions, actions' = actions,
         NEW step \in Steps, Completes(step)
  PROVE  /\ done' \in [Actions -> SUBSET Steps]
         /\ next' \in 1..(Len(actions) + 1)
         /\ phase' \in Phases
         /\ failed' \in SUBSET FailurePoints
         /\ err' \in SUBSET failed'
  BY ActionsType DEF TypeOK, Completes, CompletesIn

\* And when it fails.
LEMMA AbandonsType ==
  ASSUME TypeOK, next \in Actions, actions' = actions,
         NEW resources \in SUBSET ResourceNames,
         NEW f \in FailurePoints, NEW p \in Phases,
         AbandonsLeaving(resources, f, p),
         pod' \in PodStates, serving' \in Actions \cup {NoAction}
  PROVE  TypeOK'
<1>1. PICK left \in SUBSET {<<next, r>> : r \in resources} :
        exists' = exists \cup left /\ refused' = refused \cup left
  BY DEF AbandonsLeaving
<1>2. left \subseteq Actions \X ResourceNames
  OBVIOUS
<1>3. /\ exists' \in SUBSET (Actions \X ResourceNames)
      /\ refused' \in SUBSET (Actions \X ResourceNames)
  BY <1>1, <1>2 DEF TypeOK
<1>4. /\ next' \in 1..(Len(actions) + 1)
      /\ phase' \in Phases
      /\ failed' \in SUBSET FailurePoints
      /\ err' \in SUBSET failed'
  BY ActionsType DEF TypeOK, AbandonsLeaving, Enter, Reported
<1> QED
  BY <1>3, <1>4 DEF TypeOK, AbandonsLeaving, clockVars, Actions

\* What a method records, and what is then in the cluster, has the types.
LEMMA ResourcesType ==
  ASSUME TypeOK, next \in Actions,
         NEW resources \in SUBSET ResourceNames, Acquires(resources)
  PROVE  /\ owned' \in SUBSET (Actions \X ResourceNames)
         /\ exists' \in SUBSET (Actions \X ResourceNames)
         /\ refused' \in SUBSET (Actions \X ResourceNames)
<1>1. {<<next, r>> : r \in resources} \subseteq Actions \X ResourceNames
  OBVIOUS
<1> QED
  BY <1>1 DEF TypeOK, Acquires

\* A step of the stage keeps the tool pod and what it serves in their types, and
\* the actions as they are.
LEMMA ToolStepType ==
  ASSUME TypeOK, StageNext
  PROVE  /\ actions' = actions
         /\ pod' \in PodStates
         /\ serving' \in Actions \cup {NoAction}
<1>1. CASE UNCHANGED <<actions, toolVars>>
  BY <1>1 DEF TypeOK, toolVars
<1>2. CASE Validate \/ BeforeConsistencyPoint \/ Stamp \/ Setup \/ Skip \/ LoopDone \/ Connect
  BY <1>1, <1>2
  DEF Validate, BeforeConsistencyPoint, Stamp, Setup, Skip, LoopDone, Connect, toolVars
<1>3. CASE CreateTool
  BY <1>3 DEF CreateTool, TypeOK, PodStates
<1>4. CASE Execute
  BY <1>4 DEF Execute, At, TypeOK
<1>5. CASE Answered
  BY <1>5 DEF Answered, TypeOK
<1>6. CASE Cut \/ CloseClient \/ CleanUp
  BY <1>1, <1>6 DEF Cut, CloseClient, CleanUp, CleanUpOne, CleanUpDone, toolVars
<1>7. CASE DeleteTool
  BY <1>7 DEF DeleteTool, TypeOK, PodStates
<1> QED
  BY <1>2, <1>3, <1>4, <1>5, <1>6, <1>7 DEF StageNext

\* A step of the stage keeps every variable in its type.
LEMMA StageStepType ==
  ASSUME TypeOK, StageNext
  PROVE  TypeOK'
<1>a. /\ Len(actions) \in Nat
      /\ Actions = 1..Len(actions)
  BY ActionsType
<1>b. /\ Granule \in Nat /\ Granule > 0 /\ MaxTime \in Nat
      /\ now \in Nat /\ Granule <= now /\ now <= MaxTime
  BY TimeAssumption DEF TypeOK
<1>c. /\ actions' = actions
      /\ pod' \in PodStates
      /\ serving' \in Actions \cup {NoAction}
  BY ToolStepType
<1>1. CASE Validate
  <2>1. next \in Actions /\ actions' = actions
    BY <1>1 DEF Validate, At
  <2>2. CASE Completes("validated") /\ UNCHANGED <<resourceVars, clockVars>>
    BY <1>c, <2>1, <2>2, CompletesType DEF TypeOK, Steps, resourceVars, clockVars, Actions
  <2>3. CASE Abandons("validate", "cleanup")
    BY <1>c, <2>1, <2>3, AbandonsType DEF Abandons, FailurePoints, Phases
  <2> QED
    BY <1>1, <2>2, <2>3 DEF Validate
<1>2. CASE BeforeConsistencyPoint
  <2>1. next \in Actions /\ actions' = actions
    BY <1>2 DEF BeforeConsistencyPoint, At
  <2>2. CASE TakeBaseBackup
    <3>1. Completes("prepared") /\ Acquires(CreatedBefore.cnpgBackup)
      BY <2>2 DEF TakeBaseBackup
    <3>2. PICK end \in now..MaxTime : now' = end /\ baseEnd' = [baseEnd EXCEPT ![next] = end]
      BY <2>2 DEF TakeBaseBackup
    <3>4. end \in Granule..MaxTime /\ end \in Instants
      BY <1>b, <3>2 DEF Instants
    <3>5. now' \in Granule..MaxTime /\ baseEnd' \in [Actions -> Instants]
      BY <3>2, <3>4 DEF TypeOK
    <3>3. CreatedBefore.cnpgBackup \in SUBSET ResourceNames
      BY DEF CreatedBefore, ResourceNames
    <3> QED
      BY <1>c, <2>1, <2>2, <3>1, <3>3, <3>5, CompletesType, ResourcesType
      DEF TypeOK, TakeBaseBackup, Steps, Actions
  <2>3. CASE CloneFilesystem
    <3>1. Completes("prepared") /\ Acquires(CreatedBefore.filesBackup)
      BY <2>3 DEF CloneFilesystem
    <3>2. PICK created \in now..MaxTime :
            /\ now' = created
            /\ pinned' = [pinned EXCEPT ![next] = Trunc(created)]
            /\ TrackEarliest(Trunc(created))
      BY <2>3 DEF CloneFilesystem
    <3>4. created \in Granule..MaxTime /\ created \in Nat /\ created <= MaxTime
      BY <1>b, <3>2
    <3>5. Trunc(created) \in Instants
      BY <1>b, <3>4, TruncBounds DEF Instants
    <3>6. /\ now' \in Granule..MaxTime
          /\ pinned' \in [Actions -> Instants]
          /\ earliest' \in Instants
      <4>2. now' \in Granule..MaxTime
        BY <3>2, <3>4
      <4>3. pinned' \in [Actions -> Instants]
        BY <3>2, <3>5 DEF TypeOK
      <4>4. earliest' \in Instants
        BY <3>2, <3>5 DEF TypeOK, TrackEarliest
      <4> QED
        BY <4>2, <4>3, <4>4
    <3>7. CreatedBefore.filesBackup \in SUBSET ResourceNames
      BY DEF CreatedBefore, ResourceNames
    <3> QED
      BY <1>c, <2>1, <2>3, <3>1, <3>6, <3>7, CompletesType, ResourcesType
      DEF TypeOK, CloneFilesystem, Steps, Actions
  <2>4. CASE CloneFilesystemGroup
    <3>1. Completes("prepared") /\ Acquires(CreatedBefore.groupBackup)
      BY <2>4 DEF CloneFilesystemGroup
    <3>2. PICK created \in now..MaxTime : \E freeze \in created..MaxTime :
            /\ now' = freeze
            /\ \E instant \in {Trunc(created), Trunc(freeze)} :
                 /\ pinned' = [pinned EXCEPT ![next] = instant]
                 /\ TrackEarliest(instant)
      BY <2>4 DEF CloneFilesystemGroup
    <3>3. PICK freeze \in created..MaxTime :
            /\ now' = freeze
            /\ \E instant \in {Trunc(created), Trunc(freeze)} :
                 /\ pinned' = [pinned EXCEPT ![next] = instant]
                 /\ TrackEarliest(instant)
      BY <3>2
    <3>4. /\ freeze \in Granule..MaxTime /\ created \in Granule..MaxTime
          /\ freeze \in Nat /\ created \in Nat /\ freeze <= MaxTime /\ created <= MaxTime
      BY <1>b, <3>2, <3>3
    <3>5. Trunc(created) \in Instants /\ Trunc(freeze) \in Instants
      BY <1>b, <3>4, TruncBounds DEF Instants
    <3>6. /\ now' \in Granule..MaxTime
          /\ pinned' \in [Actions -> Instants]
          /\ earliest' \in Instants
      <4>2. now' \in Granule..MaxTime
        BY <3>2, <3>3, <3>4
      <4>3. PICK instant \in Instants : pinned' = [pinned EXCEPT ![next] = instant]
        BY <3>3, <3>5
      <4>4. pinned' \in [Actions -> Instants]
        BY <4>3 DEF TypeOK
      <4>5. earliest' \in Instants
        BY <3>3, <3>5 DEF TypeOK, TrackEarliest
      <4> QED
        BY <4>2, <4>3, <4>4, <4>5
    <3>7. CreatedBefore.groupBackup \in SUBSET ResourceNames
      BY DEF CreatedBefore, ResourceNames
    <3> QED
      BY <1>c, <2>1, <2>4, <3>1, <3>6, <3>7, CompletesType, ResourcesType
      DEF TypeOK, CloneFilesystemGroup, Steps, Actions
  <2>5. CASE /\ actions[next] \in PreKinds
             /\ AbandonsLeaving(CreatedBefore[actions[next]], "before", "cleanup")
    <3>1. CreatedBefore[actions[next]] \in SUBSET ResourceNames
      BY <2>5 DEF CreatedBefore, ResourceNames, PreKinds
    <3> QED
      BY <1>c, <2>1, <2>5, <3>1, AbandonsType DEF FailurePoints, Phases
  <2> QED
    BY <1>2, <2>2, <2>3, <2>4, <2>5 DEF BeforeConsistencyPoint
<1>3. CASE Stamp
  <2>1. PICK t \in now..MaxTime :
          LET consistencyPoint == IF earliest = NoInstant THEN t ELSE earliest IN
          /\ now' = t
          /\ point' = [a \in Actions |-> IF actions[a] \in ConsumerKinds
                                           THEN consistencyPoint ELSE point[a]]
    BY <1>3 DEF Stamp
  <2>2. now' \in Granule..MaxTime /\ point' \in [Actions -> Instants]
    BY <1>b, <2>1 DEF TypeOK, Instants
  <2> QED
    BY <1>a, <1>c, <1>3, <2>2 DEF Stamp, Enter, TypeOK, Phases, resourceVars, Actions
<1>4. CASE Setup
  <2>1. next \in Actions /\ actions' = actions
    BY <1>4 DEF Setup, At
  <2>2. CreatedInSetup(actions[next]) \in SUBSET ResourceNames
    BY DEF CreatedInSetup, ResourceNames
  <2>3. CASE /\ Completes("setup")
             /\ Acquires(CreatedInSetup(actions[next]))
             /\ UNCHANGED clockVars
    BY <1>c, <2>1, <2>2, <2>3, CompletesType, ResourcesType DEF TypeOK, Steps, clockVars, Actions
  <2>4. CASE AbandonsLeaving(CreatedInSetup(actions[next]), "setup", "cleanup")
    BY <1>c, <2>1, <2>2, <2>4, AbandonsType DEF FailurePoints, Phases
  <2> QED
    BY <1>4, <2>3, <2>4 DEF Setup
<1>5. CASE Skip
  <2>1. next \in Actions
    BY <1>5 DEF Skip, At
  <2> QED
    BY <1>a, <1>c, <1>5, <2>1 DEF Skip, TypeOK, resourceVars, clockVars, Actions
<1>6. CASE LoopDone
  BY <1>a, <1>c, <1>6 DEF LoopDone, LoopEnds, Enter, TypeOK, Phases, resourceVars, clockVars, Actions
<1>7. CASE CreateTool
  <2>1. /\ phase' \in Phases /\ next' = 1
        /\ failed' \in SUBSET FailurePoints /\ err' \in SUBSET failed'
    BY <1>7 DEF CreateTool, Enter, Reported, TypeOK, Phases, FailurePoints
  <2> QED
    BY <1>a, <1>c, <1>7, <2>1 DEF CreateTool, TypeOK, resourceVars, clockVars, Actions
<1>8. CASE Connect
  <2>1. CASE /\ Enter("execute")
             /\ UNCHANGED <<done, resourceVars, clockVars, failed, err>>
    BY <1>a, <1>c, <1>8, <2>1 DEF Connect, Enter, TypeOK, Phases, resourceVars, clockVars, Actions
  <2>2. CASE Abandons("connect", "deleteTool")
    BY <1>a, <1>c, <1>8, <2>2 DEF Connect, Abandons, AbandonsLeaving, Enter, Reported, TypeOK,
                                  Phases, FailurePoints, clockVars, Actions
  <2> QED
    BY <1>8, <2>1, <2>2 DEF Connect
<1>9. CASE Execute \/ Answered \/ Cut
  <2>1. CASE Abandons("execute", "closeClient")
    BY <1>a, <1>c, <2>1 DEF Abandons, AbandonsLeaving, Enter, Reported, TypeOK, Phases,
                            FailurePoints, clockVars, Actions
  <2>2. CASE phase' = "await" /\ UNCHANGED <<next, done, resourceVars, clockVars, failed, err>>
    BY <1>c, <2>2 DEF TypeOK, Phases, resourceVars, clockVars, Actions
  <2>3. CASE /\ serving \in Actions /\ serving = next
             /\ CompletesIn("execute", "executed") /\ UNCHANGED <<resourceVars, clockVars>>
    BY <1>a, <1>c, <2>3 DEF CompletesIn, TypeOK, Phases, Steps, resourceVars, clockVars, Actions
  <2>4. serving = next => serving \in Actions
    BY <1>a DEF TypeOK, NoAction
  <2> QED
    BY <1>9, <2>1, <2>2, <2>3, <2>4 DEF Execute, Answered, Cut
<1>10. CASE CloseClient
  BY <1>a, <1>c, <1>10 DEF CloseClient, Enter, TypeOK, Phases, FailurePoints, resourceVars,
                           clockVars, Actions
<1>11. CASE DeleteTool
  <2>1. /\ phase' \in Phases /\ next' = 1
        /\ failed' \in SUBSET FailurePoints /\ err' \in SUBSET failed'
    BY <1>11 DEF DeleteTool, Enter, TypeOK, Phases, FailurePoints
  <2> QED
    BY <1>a, <1>c, <1>11, <2>1 DEF DeleteTool, TypeOK, resourceVars, clockVars, Actions
<1>12. CASE CleanUp
  <2>1. CASE CleanUpOne
    BY <1>a, <1>c, <2>1 DEF CleanUpOne, ToDelete, Reported, TypeOK, FailurePoints, clockVars, Actions
  <2>2. CASE CleanUpDone
    BY <1>a, <1>c, <2>2 DEF CleanUpDone, At, TypeOK, resourceVars, clockVars, Actions
  <2> QED
    BY <1>12, <2>1, <2>2 DEF CleanUp
<1> QED
  BY <1>1, <1>2, <1>3, <1>4, <1>5, <1>6, <1>7, <1>8, <1>9, <1>10, <1>11, <1>12
  DEF StageNext

\* The values of every variable stay in their types (RemoteStage.Run and the
\* Backup and Restore methods around it).
THEOREM TypeCorrect == Spec => []AppTypeOK
<1>1. AppTypeOK /\ [Next]_vars => AppTypeOK'
  <2> SUFFICES ASSUME AppTypeOK, [Next]_vars PROVE AppTypeOK'
    OBVIOUS
  <2>1. CASE RunStage
    BY <2>1, StageStepType DEF RunStage, AppTypeOK, appVars
  <2>2. CASE AppStep
    <3>1. UNCHANGED stageVars
      BY <2>2, AppStepsKeepStage
    <3>2. TypeOK'
      BY <3>1 DEF AppTypeOK, TypeOK, stageVars, Actions
    <3>3. /\ appPhase' \in {"volume", "stage", "snapshot", "done"}
          /\ outcome' \in {"running", "succeeded", "failed"}
      BY <2>2 DEF AppStep, AppTypeOK, EnsureVolume, StageReturns, SnapshotVolume,
                  WaitReadySnapshot, Cancel, Verdict, vars, appVars
    <3>4. published' \in BOOLEAN /\ cancelled' \in BOOLEAN
      BY <2>2 DEF AppStep, AppTypeOK, EnsureVolume, StageReturns, SnapshotVolume,
                  WaitReadySnapshot, Cancel, vars, appVars
    <3> QED
      BY <3>2, <3>3, <3>4 DEF AppTypeOK
  <2>3. CASE RunTool
    BY <2>3 DEF RunTool, ToolNext, HandlerEnds, PodEnds, AppTypeOK, TypeOK, PodStates, appVars,
                resourceVars, clockVars, Actions
  <2> QED
    BY <2>1, <2>2, <2>3, StepKinds
<1> QED
  BY <1>1, InitType, PTL DEF Spec

------------------------------------------------------------------------------
\* The consistency point.

\* Phases in which the point has not been handed over yet.
BeforePoint == {"validate", "before", "stamp"}

\* Nothing has been pinned by an action the first loop has yet to reach.
PinsFollowLoop ==
  /\ phase = "validate" => /\ earliest = NoInstant
                           /\ \A b \in Actions : pinned[b] = NoInstant
  /\ phase = "before" => \A b \in Actions : b >= next => pinned[b] = NoInstant

\* The stage's point so far is the least instant pinned so far.
EarliestIsLeastPin ==
  /\ earliest = NoInstant => \A b \in Actions : pinned[b] = NoInstant
  /\ earliest # NoInstant =>
       /\ \E b \in Actions : pinned[b] = earliest
       /\ \A b \in Actions : pinned[b] # NoInstant => earliest <= pinned[b]

\* It is a truncated time, no earlier than the end of any base backup, and once
\* there is one no further base backup will be taken.
EarliestFollowsBackups ==
  earliest # NoInstant =>
    /\ Trunc(earliest) = earliest
    /\ \A a \in Actions : Trunc(baseEnd[a]) <= earliest
    /\ phase = "before" => \A j \in Actions : j >= next => actions[j] # "cnpgBackup"

\* The clock has passed the end of every base backup.
BackupsHaveEnded == \A a \in Actions : baseEnd[a] <= now

\* No consumer has been handed a point before the second phase has.
NoPointYet == phase \in BeforePoint => \A a \in Actions : point[a] = NoInstant

\* A point that was handed over is the stage's point, if anything was pinned.
PointIsEarliest ==
  \A a \in Actions : point[a] # NoInstant /\ earliest # NoInstant => point[a] = earliest

\* Inductive with the types.
PointInv ==
  /\ PinsFollowLoop
  /\ EarliestIsLeastPin
  /\ EarliestFollowsBackups
  /\ BackupsHaveEnded
  /\ NoPointYet
  /\ PointIsEarliest
  /\ BaseBackupsPrecedePoint

\* What a step outside the first two phases leaves alone, it preserves.
LEMMA PointInvKept ==
  ASSUME TypeOK, PointInv, UNCHANGED <<actions, clockVars>>,
         \/ phase' = phase /\ (phase = "before" => next' \in Nat /\ next' >= next)
         \/ phase' \notin BeforePoint
         \/ phase = "validate" /\ phase' = "before"
         \/ phase = "before" /\ phase' = "stamp"
  PROVE  PointInv'
<1>1. next \in Nat /\ Actions \subseteq Nat
  BY ActionsType DEF TypeOK
<1>2. PinsFollowLoop'
  BY <1>1 DEF PointInv, PinsFollowLoop, clockVars, Actions, BeforePoint
<1>3. EarliestIsLeastPin' /\ BackupsHaveEnded' /\ PointIsEarliest'
  BY DEF PointInv, EarliestIsLeastPin, BackupsHaveEnded, PointIsEarliest, clockVars, Actions
<1>4. EarliestFollowsBackups'
  BY <1>1 DEF PointInv, PinsFollowLoop, EarliestFollowsBackups, clockVars, Actions, BeforePoint
<1>5. NoPointYet'
  BY DEF PointInv, NoPointYet, BeforePoint, clockVars, Actions
<1>6. BaseBackupsPrecedePoint'
  BY DEF PointInv, BaseBackupsPrecedePoint, clockVars, Actions
<1> QED
  BY <1>2, <1>3, <1>4, <1>5, <1>6 DEF PointInv

\* An action of the first loop that pins the instant at time t.
LEMMA PinStep ==
  ASSUME TypeOK, PointInv, phase = "before", next \in Actions, actions' = actions,
         actions[next] \in {"filesBackup", "groupBackup"}, Completes("prepared"),
         NEW t \in Nat, now <= t, now' \in Nat, t <= now',
         pinned' = [pinned EXCEPT ![next] = Trunc(t)], TrackEarliest(Trunc(t)),
         UNCHANGED <<baseEnd, point>>
  PROVE  PointInv'
<1>1. /\ next \in Nat /\ next' = next + 1 /\ phase' = phase
      /\ Actions \subseteq Nat /\ Actions' = Actions
  BY ActionsType DEF TypeOK, Completes, CompletesIn, Actions
<1>2. /\ Trunc(t) \in Nat /\ earliest \in Nat /\ now \in Nat
      /\ \A a \in Actions : pinned[a] \in Nat /\ baseEnd[a] \in Nat
  BY TruncBounds, TimeAssumption DEF TypeOK, Instants
<1>3. \A a \in Actions : pinned'[a] = IF a = next THEN Trunc(t) ELSE pinned[a]
  BY DEF TypeOK
<1>4. pinned[next] = NoInstant
  BY <1>1 DEF PointInv, PinsFollowLoop
<1>5. PinsFollowLoop'
  <2>1. \A b \in Actions : b >= next' => b # next /\ b >= next
    BY <1>1
  <2>2. \A b \in Actions : b >= next' => pinned'[b] = NoInstant
    BY <1>3, <2>1 DEF PointInv, PinsFollowLoop
  <2> QED
    BY <1>1, <2>2 DEF PinsFollowLoop
<1>6. EarliestIsLeastPin'
  <2>1. CASE Trunc(t) # NoInstant /\ (earliest = NoInstant \/ Trunc(t) < earliest)
    <3>1. earliest' = Trunc(t)
      BY <2>1 DEF TrackEarliest
    <3>2. \A b \in Actions : pinned'[b] # NoInstant => earliest' <= pinned'[b]
      BY <1>2, <1>3, <2>1, <3>1 DEF PointInv, EarliestIsLeastPin
    <3> QED
      BY <1>1, <1>3, <2>1, <3>1, <3>2 DEF EarliestIsLeastPin
  <2>2. CASE ~(Trunc(t) # NoInstant /\ (earliest = NoInstant \/ Trunc(t) < earliest))
    <3>1. earliest' = earliest
      BY <2>2 DEF TrackEarliest
    <3>2. CASE earliest = NoInstant
      BY <1>1, <1>3, <2>2, <3>1, <3>2 DEF PointInv, EarliestIsLeastPin
    <3>3. CASE earliest # NoInstant
      <4>1. PICK b \in Actions : pinned[b] = earliest
        BY <3>3 DEF PointInv, EarliestIsLeastPin
      <4>2. pinned'[b] = earliest'
        BY <1>3, <1>4, <3>1, <3>3, <4>1
      <4>3. \A c \in Actions : pinned'[c] # NoInstant => earliest' <= pinned'[c]
        BY <1>2, <1>3, <2>2, <3>1, <3>3 DEF PointInv, EarliestIsLeastPin
      <4> QED
        BY <1>1, <3>1, <3>3, <4>2, <4>3 DEF EarliestIsLeastPin
    <3> QED
      BY <3>2, <3>3
  <2> QED
    BY <2>1, <2>2
<1>7. EarliestFollowsBackups'
  <2>1. \A a \in Actions : Trunc(baseEnd[a]) <= Trunc(t)
    <3> SUFFICES ASSUME NEW a \in Actions PROVE Trunc(baseEnd[a]) <= Trunc(t)
      OBVIOUS
    <3>1. baseEnd[a] <= t
      BY <1>2 DEF PointInv, BackupsHaveEnded
    <3> QED
      BY <1>2, <3>1, TruncMonotone
  <2>2. \A j \in Actions : j >= next + 1 => actions[j] # "cnpgBackup"
    BY <1>1, ActionsType DEF DatabasesFirst, Actions
  <2>3. earliest' = Trunc(t) \/ earliest' = earliest
    BY DEF TrackEarliest
  <2>4. Trunc(Trunc(t)) = Trunc(t)
    BY TruncIdempotent
  <2>5. CASE earliest' = Trunc(t)
    BY <1>1, <2>1, <2>2, <2>4, <2>5 DEF EarliestFollowsBackups, Trunc
  <2>6. CASE earliest' = earliest
    BY <1>1, <2>2, <2>6 DEF PointInv, EarliestFollowsBackups, Trunc
  <2> QED
    BY <2>3, <2>5, <2>6
<1>8. BackupsHaveEnded'
  BY <1>1, <1>2 DEF PointInv, BackupsHaveEnded
<1>9. NoPointYet' /\ PointIsEarliest' /\ BaseBackupsPrecedePoint'
  BY <1>1 DEF PointInv, NoPointYet, BeforePoint, PointIsEarliest, BaseBackupsPrecedePoint
<1> QED
  BY <1>5, <1>6, <1>7, <1>8, <1>9 DEF PointInv

\* PointInv holds initially: nothing is pinned and no backup has ended.
LEMMA PointInit == AppInit => PointInv
<1> SUFFICES ASSUME AppInit PROVE PointInv
  OBVIOUS
<1>1. /\ phase = "validate" /\ earliest = NoInstant /\ now = Granule
      /\ \A a \in Actions : baseEnd[a] = 0 /\ pinned[a] = NoInstant /\ point[a] = NoInstant
  BY DEF AppInit, Init, NoInstant
<1>2. BackupsHaveEnded
  BY <1>1, TimeAssumption DEF BackupsHaveEnded
<1>3. PinsFollowLoop /\ EarliestIsLeastPin /\ EarliestFollowsBackups
  BY <1>1 DEF PinsFollowLoop, EarliestIsLeastPin, EarliestFollowsBackups
<1>4. NoPointYet /\ PointIsEarliest /\ BaseBackupsPrecedePoint
  BY <1>1 DEF NoPointYet, PointIsEarliest, BaseBackupsPrecedePoint
<1> QED
  BY <1>2, <1>3, <1>4 DEF PointInv

\* A base backup pins nothing, and nothing is pinned before it: databases are
\* registered first.
LEMMA BaseBackupStep ==
  ASSUME TypeOK, PointInv, phase = "before", next \in Actions, actions' = actions,
         TakeBaseBackup
  PROVE  PointInv'
<1>1. /\ next \in Nat /\ next' = next + 1 /\ phase' = phase
      /\ Actions \subseteq Nat /\ Actions' = Actions
  BY ActionsType DEF TypeOK, TakeBaseBackup, Completes, CompletesIn, Actions
<1>2. PICK end \in now..MaxTime : now' = end /\ baseEnd' = [baseEnd EXCEPT ![next] = end]
  BY DEF TakeBaseBackup
<1>3. UNCHANGED <<pinned, earliest, point>>
  BY DEF TakeBaseBackup
<1>4. now \in Nat /\ end \in Nat /\ now <= end /\ \A a \in Actions : baseEnd[a] \in Nat
  BY <1>2, TimeAssumption DEF TypeOK, Instants
<1>5. earliest = NoInstant
  BY <1>1 DEF PointInv, EarliestFollowsBackups, TakeBaseBackup
<1>6. \A a \in Actions : baseEnd'[a] \in Nat /\ baseEnd'[a] <= now'
  BY <1>2, <1>4 DEF PointInv, BackupsHaveEnded, TypeOK
<1>7. PinsFollowLoop' /\ EarliestIsLeastPin' /\ EarliestFollowsBackups'
  BY <1>1, <1>3, <1>5 DEF PointInv, PinsFollowLoop, EarliestIsLeastPin, EarliestFollowsBackups
<1>8. NoPointYet' /\ PointIsEarliest' /\ BaseBackupsPrecedePoint'
  BY <1>1, <1>3 DEF PointInv, NoPointYet, BeforePoint, PointIsEarliest,
                    BaseBackupsPrecedePoint
<1> QED
  BY <1>1, <1>6, <1>7, <1>8 DEF PointInv, BackupsHaveEnded

\* The second phase hands over the earliest instant pinned, or a time at which
\* every base backup has ended.
LEMMA StampStep ==
  ASSUME TypeOK, PointInv, Stamp
  PROVE  PointInv'
<1>1. PICK t \in now..MaxTime :
        LET consistencyPoint == IF earliest = NoInstant THEN t ELSE earliest IN
        /\ now' = t
        /\ point' = [a \in Actions |-> IF actions[a] \in ConsumerKinds
                                         THEN consistencyPoint ELSE point[a]]
  BY DEF Stamp
<1>2. /\ now \in Nat /\ t \in Nat /\ now <= t /\ earliest \in Nat
      /\ \A a \in Actions : baseEnd[a] \in Nat
  BY <1>1, TimeAssumption DEF TypeOK, Instants
<1>3. /\ phase = "stamp" /\ phase' = "setup" /\ Actions' = Actions
      /\ UNCHANGED <<actions, baseEnd, pinned, earliest>>
  BY DEF Stamp, Enter, Actions
<1>4. \A a \in Actions : point[a] = NoInstant
  BY <1>3 DEF PointInv, NoPointYet, BeforePoint
<1>5. \A a \in Actions : point'[a] # NoInstant =>
                           point'[a] = IF earliest = NoInstant THEN t ELSE earliest
  BY <1>1, <1>4
<1>6. BaseBackupsPrecedePoint'
  <2> SUFFICES ASSUME NEW a \in Actions, point'[a] # NoInstant
               PROVE  Trunc(baseEnd[a]) <= Trunc(point'[a])
    BY <1>3 DEF BaseBackupsPrecedePoint, Trunc
  <2>1. CASE earliest = NoInstant
    <3>1. point'[a] = t /\ baseEnd[a] <= t
      BY <1>2, <1>5, <2>1 DEF PointInv, BackupsHaveEnded
    <3> QED
      BY <1>2, <3>1, TruncMonotone
  <2>2. CASE earliest # NoInstant
    BY <1>5, <2>2 DEF PointInv, EarliestFollowsBackups
  <2> QED
    BY <2>1, <2>2
<1>7. PinsFollowLoop' /\ EarliestIsLeastPin' /\ EarliestFollowsBackups'
  BY <1>3 DEF PointInv, PinsFollowLoop, EarliestIsLeastPin, EarliestFollowsBackups, Trunc
<1>8. BackupsHaveEnded'
  BY <1>1, <1>2, <1>3 DEF PointInv, BackupsHaveEnded
<1>9. NoPointYet' /\ PointIsEarliest'
  BY <1>3, <1>5 DEF NoPointYet, BeforePoint, PointIsEarliest
<1> QED
  BY <1>6, <1>7, <1>8, <1>9 DEF PointInv

\* A step of the stage preserves PointInv.
LEMMA PointStageStep ==
  ASSUME TypeOK, PointInv, StageNext
  PROVE  PointInv'
<1>1. Actions \subseteq Nat /\ next \in Nat
  BY ActionsType DEF TypeOK
<1>2. CASE BeforeConsistencyPoint
  <2>1. phase = "before" /\ next \in Actions /\ actions' = actions
    BY <1>2 DEF BeforeConsistencyPoint, At
  <2>2. now \in Nat /\ Granule \in Nat /\ MaxTime \in Nat
    BY TimeAssumption DEF TypeOK
  <2>3. CASE TakeBaseBackup
    BY <2>1, <2>3, BaseBackupStep
  <2>4. CASE CloneFilesystem
    <3>2. PICK created \in now..MaxTime :
            /\ now' = created
            /\ pinned' = [pinned EXCEPT ![next] = Trunc(created)]
            /\ TrackEarliest(Trunc(created))
      BY <2>4 DEF CloneFilesystem
    <3>3. created \in Nat /\ now <= created /\ now' \in Nat /\ created <= now'
      BY <2>2, <3>2
    <3> QED
      BY <2>1, <2>4, <3>2, <3>3, PinStep DEF CloneFilesystem
  <2>5. CASE CloneFilesystemGroup
    <3>1. PICK created \in now..MaxTime : \E freeze \in created..MaxTime :
            /\ now' = freeze
            /\ \E instant \in {Trunc(created), Trunc(freeze)} :
                 /\ pinned' = [pinned EXCEPT ![next] = instant]
                 /\ TrackEarliest(instant)
      BY <2>5 DEF CloneFilesystemGroup
    <3>2. PICK freeze \in created..MaxTime :
            /\ now' = freeze
            /\ \E instant \in {Trunc(created), Trunc(freeze)} :
                 /\ pinned' = [pinned EXCEPT ![next] = instant]
                 /\ TrackEarliest(instant)
      BY <3>1
    <3>3. PICK t \in {created, freeze} : /\ pinned' = [pinned EXCEPT ![next] = Trunc(t)]
                                         /\ TrackEarliest(Trunc(t))
      BY <3>2
    <3>4. t \in Nat /\ now <= t /\ now' \in Nat /\ t <= now'
      BY <2>2, <3>1, <3>2, <3>3
    <3> QED
      BY <2>1, <2>5, <3>3, <3>4, PinStep DEF CloneFilesystemGroup
  <2>6. CASE /\ actions[next] \in PreKinds
             /\ AbandonsLeaving(CreatedBefore[actions[next]], "before", "cleanup")
    BY <2>1, <2>6, PointInvKept DEF AbandonsLeaving, Enter, BeforePoint
  <2> QED
    BY <1>2, <2>3, <2>4, <2>5, <2>6 DEF BeforeConsistencyPoint
<1>3. CASE Stamp
  BY <1>3, StampStep
<1>4. CASE Validate
  BY <1>1, <1>4, PointInvKept
  DEF Validate, At, Completes, CompletesIn, Abandons, AbandonsLeaving, Enter, BeforePoint
<1>5. CASE Setup
  BY <1>1, <1>5, PointInvKept
  DEF Setup, At, Completes, CompletesIn, AbandonsLeaving, Enter, BeforePoint
<1>6. CASE Skip
  BY <1>1, <1>6, PointInvKept DEF Skip, At
<1>7. CASE LoopDone
  BY <1>7, PointInvKept DEF LoopDone, LoopEnds, Enter, BeforePoint
<1>8. CASE CreateTool \/ CloseClient \/ DeleteTool
  BY <1>8, PointInvKept DEF CreateTool, CloseClient, DeleteTool, Enter, BeforePoint
<1>9. CASE Connect
  BY <1>9, PointInvKept DEF Connect, Abandons, AbandonsLeaving, Enter, BeforePoint
<1>10. CASE Execute \/ Answered \/ Cut
  <2>1. actions' = actions
    BY <1>10 DEF Execute, Answered, Cut
  <2>2. UNCHANGED clockVars /\ phase' \notin BeforePoint
    BY <1>10 DEF Execute, Answered, Cut, CompletesIn, Abandons, AbandonsLeaving, Enter, BeforePoint
  <2> QED
    BY <2>1, <2>2, PointInvKept
<1>11. CASE CleanUp
  BY <1>1, <1>11, PointInvKept DEF CleanUp, CleanUpOne, CleanUpDone, At
<1> QED
  BY <1>2, <1>3, <1>4, <1>5, <1>6, <1>7, <1>8, <1>9, <1>10, <1>11 DEF StageNext

\* PointInv holds throughout an event (RemoteStage.setup).
LEMMA PointInvariant == Spec => []PointInv
<1>1. AppTypeOK /\ PointInv /\ [Next]_vars => PointInv'
  <2> SUFFICES ASSUME AppTypeOK, PointInv, [Next]_vars PROVE PointInv'
    OBVIOUS
  <2>1. CASE RunStage
    BY <2>1, PointStageStep DEF RunStage, AppTypeOK
  <2>2. CASE AppStep
    <3>1. UNCHANGED stageVars
      BY <2>2, AppStepsKeepStage
    <3>2. UNCHANGED <<actions, clockVars>> /\ phase' = phase /\ next' = next
      BY <3>1 DEF stageVars, clockVars
    <3>3. next \in Nat
      BY ActionsType DEF AppTypeOK, TypeOK
    <3> QED
      BY <3>2, <3>3, PointInvKept DEF AppTypeOK
  <2>3. CASE UNCHANGED <<actions, phase, next, clockVars>>
    <3>1. next \in Nat
      BY ActionsType DEF AppTypeOK, TypeOK
    <3> QED
      BY <2>3, <3>1, PointInvKept DEF AppTypeOK
  <2> QED
    BY <2>1, <2>2, <2>3, StepKinds
<1> QED
  BY <1>1, PointInit, TypeCorrect, PTL DEF Spec

\* Every base backup has ended by the point its clone recovers to
\* (RemoteStage.setup, and the order in which an application registers actions).
THEOREM BackupsPrecedePoint == Spec => []BaseBackupsPrecedePoint
<1>1. PointInv => BaseBackupsPrecedePoint
  BY DEF PointInv
<1> QED
  BY <1>1, PointInvariant, PTL

\* The point is the earliest instant pinned, the same for every consumer.
THEOREM PointIsEarliestPinned == Spec => []PointIsEarliestPin
<1>1. PointInv => PointIsEarliestPin
  BY DEF PointInv, EarliestIsLeastPin, PointIsEarliest, PointIsEarliestPin
<1> QED
  BY <1>1, PointInvariant, PTL

------------------------------------------------------------------------------
\* The teardown.

\* Everything there is was recorded by an action or was left.
OwnedOrLeft == exists \subseteq owned \cup refused

\* Whatever an action has recorded, its Cleanup method will delete.
OwnersCleanUp ==
  \A x \in owned : /\ actions[x[1]] \in CleanupKinds
                   /\ actions[x[1]] = "cnpgRestore" => "setup" \in done[x[1]]

\* The tool pod runs only between its creation and the call that deletes it, and an answer is
\* awaited for an action.
ToolPhases == {"connect", "execute", "await", "closeClient", "deleteTool"}
ToolInItsPhases ==
  /\ pod = "running" => phase \in ToolPhases
  /\ phase = "await" => next \in Actions

\* Nothing recorded is deleted before the cleanup.
KeptUntilCleanup == phase \notin {"cleanup", "returned"} => owned \subseteq exists

\* What the cleanup loop has passed is gone, or was refused.
CleanedBehindLoop ==
  /\ phase = "cleanup" => \A x \in exists \ refused : x[1] >= next
  /\ phase = "returned" => exists \subseteq refused

\* Inductive with the types.
TeardownInv ==
  /\ OwnedOrLeft
  /\ OwnersCleanUp
  /\ ToolInItsPhases
  /\ KeptUntilCleanup
  /\ CleanedBehindLoop

\* TeardownInv holds initially: nothing has been created.
LEMMA TeardownInit == AppInit => TeardownInv
  BY DEF AppInit, Init, TeardownInv, OwnedOrLeft, OwnersCleanUp, ToolInItsPhases,
         KeptUntilCleanup, CleanedBehindLoop

\* A method that creates the given resources and records them.
LEMMA AcquiresStep ==
  ASSUME TypeOK, TeardownInv, next \in Actions, actions' = actions,
         phase \in {"before", "setup"}, UNCHANGED toolVars, NEW step \in Steps, Completes(step),
         NEW resources \in SUBSET ResourceNames, Acquires(resources),
         resources # {} => /\ actions[next] \in CleanupKinds
                           /\ actions[next] = "cnpgRestore" => step = "setup"
  PROVE  TeardownInv'
<1>1. /\ phase' = phase /\ Actions' = Actions /\ UNCHANGED refused
      /\ owned' = owned \cup {<<next, r>> : r \in resources}
      /\ exists' = exists \cup {<<next, r>> : r \in resources}
      /\ owned \in SUBSET (Actions \X ResourceNames)
  BY DEF Completes, CompletesIn, Acquires, Actions, TypeOK
<1>3. \A a \in Actions : done[a] \subseteq done'[a]
  BY DEF Completes, CompletesIn, TypeOK
<1>4. step \in done'[next]
  BY DEF Completes, CompletesIn, TypeOK
<1>5. OwnersCleanUp'
  <2> SUFFICES ASSUME NEW x \in owned'
               PROVE  /\ actions[x[1]] \in CleanupKinds
                      /\ actions[x[1]] = "cnpgRestore" => "setup" \in done'[x[1]]
    BY DEF OwnersCleanUp
  <2>1. CASE x \in owned
    BY <1>1, <1>3, <2>1 DEF TeardownInv, OwnersCleanUp
  <2>2. CASE x \in {<<next, r>> : r \in resources}
    BY <1>4, <2>2
  <2> QED
    BY <1>1, <2>1, <2>2
<1>6. OwnedOrLeft' /\ KeptUntilCleanup'
  BY <1>1 DEF TeardownInv, OwnedOrLeft, KeptUntilCleanup
<1>7. ToolInItsPhases' /\ CleanedBehindLoop'
  BY <1>1 DEF TeardownInv, ToolInItsPhases, CleanedBehindLoop, toolVars
<1> QED
  BY <1>5, <1>6, <1>7 DEF TeardownInv

\* A method that fails, on the way to the cleanup or to a deferred call.
LEMMA AbandonsStep ==
  ASSUME TypeOK, TeardownInv, next \in Actions, actions' = actions,
         NEW resources \in SUBSET ResourceNames, NEW f, NEW p,
         AbandonsLeaving(resources, f, p), UNCHANGED pod,
         \/ p = "cleanup" /\ phase \in {"validate", "before", "setup"}
         \/ p = "closeClient" /\ phase \in {"execute", "await"}
  PROVE  TeardownInv'
<1>1. PICK left \in SUBSET {<<next, r>> : r \in resources} :
        exists' = exists \cup left /\ refused' = refused \cup left
  BY DEF AbandonsLeaving
<1>2. /\ phase' = p /\ next' = 1 /\ Actions' = Actions /\ UNCHANGED <<owned, done>>
      /\ owned \in SUBSET (Actions \X ResourceNames) /\ Actions \subseteq Nat \ {0}
  BY ActionsType DEF AbandonsLeaving, Enter, Actions, TypeOK
<1>4. exists' \ refused' = (exists \ refused) \ left
  BY <1>1
<1>5. OwnedOrLeft' /\ OwnersCleanUp' /\ KeptUntilCleanup'
  BY <1>1, <1>2 DEF TeardownInv, OwnedOrLeft, OwnersCleanUp, KeptUntilCleanup
<1>6. ToolInItsPhases'
  BY <1>2 DEF TeardownInv, ToolInItsPhases, ToolPhases
<1>7. CleanedBehindLoop'
  <2> SUFFICES ASSUME p = "cleanup", NEW x \in exists' \ refused' PROVE x[1] >= 1
    BY <1>2 DEF CleanedBehindLoop
  <2>1. x \in owned
    BY <1>2, <1>4 DEF TeardownInv, OwnedOrLeft
  <2>2. x[1] \in Actions
    BY <1>2, <2>1
  <2>3. x[1] \in Nat /\ x[1] # 0
    BY <1>2, <2>2
  <2> QED
    BY <2>3
<1> QED
  BY <1>5, <1>6, <1>7 DEF TeardownInv

\* A step that touches no resource and stays out of the cleanup.
LEMMA ResourcesKept ==
  ASSUME TeardownInv, UNCHANGED <<actions, resourceVars, pod>>,
         \A a \in Actions : done[a] \subseteq done'[a],
         owned \in SUBSET (Actions \X ResourceNames),
         phase' \notin {"cleanup", "returned"}, phase \notin {"cleanup", "returned"},
         phase' = "await" => next' \in Actions,
         \/ phase' = phase
         \/ phase \notin ToolPhases
         \/ phase' \in ToolPhases
  PROVE  TeardownInv'
<1>1. OwnersCleanUp'
  <2> SUFFICES ASSUME NEW x \in owned
               PROVE  /\ actions[x[1]] \in CleanupKinds
                      /\ actions[x[1]] = "cnpgRestore" => "setup" \in done'[x[1]]
    BY DEF OwnersCleanUp, resourceVars
  <2>1. x[1] \in Actions
    OBVIOUS
  <2> QED
    BY <2>1 DEF TeardownInv, OwnersCleanUp
<1>2. OwnedOrLeft' /\ KeptUntilCleanup'
  BY DEF TeardownInv, OwnedOrLeft, KeptUntilCleanup, resourceVars
<1>3. ToolInItsPhases' /\ CleanedBehindLoop'
  BY DEF TeardownInv, ToolInItsPhases, ToolPhases, CleanedBehindLoop, resourceVars, Actions
<1> QED
  BY <1>1, <1>2, <1>3 DEF TeardownInv

\* A step that touches no action's resource, and leads to a phase of the tool pod or, the
\* pod not running any more, to the start of the cleanup.
LEMMA OnToTheCleanup ==
  ASSUME TypeOK, TeardownInv, UNCHANGED <<actions, done, resourceVars>>,
         phase \notin {"cleanup", "returned"},
         \/ phase' \in ToolPhases \ {"await"}
         \/ phase' = "cleanup" /\ next' = 1 /\ pod' # "running"
  PROVE  TeardownInv'
<1>1. owned \in SUBSET (Actions \X ResourceNames) /\ Actions = 1..Len(actions) /\ Len(actions) \in Nat
  BY ActionsType DEF TypeOK
<1>2. \A x \in exists \ refused : x[1] >= 1
  <2> SUFFICES ASSUME NEW x \in exists \ refused PROVE x[1] >= 1
    OBVIOUS
  <2>1. x \in owned
    BY DEF TeardownInv, OwnedOrLeft
  <2>2. x[1] \in 1..Len(actions)
    BY <1>1, <2>1
  <2> QED
    BY <1>1, <2>2
<1>3. OwnedOrLeft' /\ OwnersCleanUp' /\ KeptUntilCleanup'
  BY DEF TeardownInv, OwnedOrLeft, OwnersCleanUp, KeptUntilCleanup, resourceVars
<1>4. ToolInItsPhases'
  BY DEF ToolInItsPhases
<1>5. CleanedBehindLoop'
  BY <1>2 DEF CleanedBehindLoop, ToolPhases, resourceVars
<1> QED
  BY <1>3, <1>4, <1>5 DEF TeardownInv

\* A step of the cleanup loop leaves nothing deletable behind it.
LEMMA CleanUpStep ==
  ASSUME TypeOK, TeardownInv, CleanUp
  PROVE  TeardownInv'
<1>a. /\ Actions \subseteq Nat
      /\ owned \in SUBSET (Actions \X ResourceNames)
  BY ActionsType DEF TypeOK
<1>b. /\ phase = "cleanup" /\ phase' = "cleanup" /\ next \in Actions
      /\ actions' = actions /\ UNCHANGED <<done, owned>> /\ actions[next] \in CleanupKinds
      /\ pod' = pod
  BY DEF CleanUp, CleanUpOne, CleanUpDone, At, resourceVars, toolVars
<1>1. /\ phase = "cleanup" /\ phase' = "cleanup" /\ next \in Actions
      /\ actions' = actions /\ UNCHANGED <<done, owned>> /\ actions[next] \in CleanupKinds
      /\ next \in Nat /\ owned \in SUBSET (Actions \X ResourceNames)
      /\ Actions \subseteq Nat /\ pod' = pod
  BY <1>a, <1>b
<1>2. CASE CleanUpOne
  <2>1. PICK x \in ToDelete(next) :
          \/ exists' = exists \ {x} /\ UNCHANGED refused
          \/ refused' = refused \cup {x} /\ UNCHANGED exists
    BY <1>2 DEF CleanUpOne
  <2>2. next' = next
    BY <1>2 DEF CleanUpOne
  <2>3. exists' \subseteq exists /\ refused \subseteq refused'
    BY <2>1
  <2> QED
    BY <1>1, <2>1, <2>2, <2>3 DEF TeardownInv, OwnedOrLeft, OwnersCleanUp, ToolInItsPhases,
                                  KeptUntilCleanup, CleanedBehindLoop
<1>3. CASE CleanUpDone
  <2>1. next' = next + 1 /\ UNCHANGED resourceVars /\ ToDelete(next) = {}
    BY <1>3 DEF CleanUpDone
  <2>2. \A x \in exists \ refused : x[1] >= next + 1
    <3> SUFFICES ASSUME NEW x \in exists \ refused PROVE x[1] >= next + 1
      OBVIOUS
    <3>1. x \in owned /\ x[1] >= next /\ x[1] \in Nat
      BY <1>1 DEF TeardownInv, OwnedOrLeft, CleanedBehindLoop
    <3>2. x[1] # next
      BY <1>1, <2>1, <3>1 DEF ToDelete, TeardownInv, OwnersCleanUp
    <3> QED
      BY <1>1, <3>1, <3>2
  <2> QED
    BY <1>1, <2>1, <2>2 DEF TeardownInv, OwnedOrLeft, OwnersCleanUp, ToolInItsPhases,
                            KeptUntilCleanup, CleanedBehindLoop, resourceVars
<1> QED
  BY <1>2, <1>3 DEF CleanUp

\* A step of the stage preserves TeardownInv.
LEMMA TeardownStageStep ==
  ASSUME TypeOK, TeardownInv, StageNext
  PROVE  TeardownInv'
<1>a. /\ Actions \subseteq Nat
      /\ owned \in SUBSET (Actions \X ResourceNames)
      /\ done \in [Actions -> SUBSET Steps]
  BY ActionsType DEF TypeOK
<1>1. CASE Validate \/ Execute \/ Answered \/ Cut
  <2>1. /\ next \in Actions /\ actions' = actions /\ pod' = pod
        /\ phase \in {"validate", "execute", "await"}
    BY <1>1 DEF Validate, Execute, Answered, Cut, At, toolVars, TeardownInv, ToolInItsPhases
  <2>2. CASE \E step \in {"validated", "executed"} : \E p \in {"validate", "execute"} :
               /\ CompletesIn(p, step) /\ UNCHANGED <<resourceVars, clockVars>>
               /\ phase = "validate" <=> p = "validate"
    <3>1. /\ phase' = phase \/ phase' \in ToolPhases
          /\ phase' \notin {"cleanup", "returned"}
          /\ phase' # "await" /\ \A a \in Actions : done[a] \subseteq done'[a]
      BY <1>a, <2>1, <2>2 DEF CompletesIn, ToolPhases
    <3> QED
      BY <1>a, <2>1, <2>2, <3>1, ResourcesKept
  <2>3. CASE \/ Abandons("validate", "cleanup") /\ phase = "validate"
             \/ Abandons("execute", "closeClient") /\ phase \in {"execute", "await"}
    BY <2>1, <2>3, AbandonsStep DEF Abandons
  <2>4. CASE phase = "execute" /\ phase' = "await" /\ UNCHANGED <<next, done, resourceVars>>
    BY <1>a, <2>1, <2>4, ResourcesKept DEF ToolPhases
  <2>5. \/ /\ phase = "validate"
           /\ \/ CompletesIn("validate", "validated") /\ UNCHANGED <<resourceVars, clockVars>>
              \/ Abandons("validate", "cleanup")
        \/ /\ phase = "execute" /\ phase' = "await" /\ UNCHANGED <<next, done, resourceVars>>
        \/ /\ phase = "await"
           /\ CompletesIn("execute", "executed") /\ UNCHANGED <<resourceVars, clockVars>>
        \/ /\ phase \in {"execute", "await"} /\ Abandons("execute", "closeClient")
    BY <1>1 DEF Validate, Execute, Answered, Cut, At, Completes
  <2> QED
    BY <2>2, <2>3, <2>4, <2>5
<1>2. CASE BeforeConsistencyPoint
  <2>1. phase = "before" /\ next \in Actions /\ actions' = actions /\ UNCHANGED toolVars
    BY <1>2 DEF BeforeConsistencyPoint, At
  <2>2. CASE TakeBaseBackup \/ CloneFilesystem \/ CloneFilesystemGroup
    <3>1. PICK resources \in SUBSET ResourceNames :
            Completes("prepared") /\ Acquires(resources)
      BY <2>2 DEF TakeBaseBackup, CloneFilesystem, CloneFilesystemGroup, CreatedBefore,
                  ResourceNames
    <3>2. actions[next] \in CleanupKinds /\ actions[next] # "cnpgRestore"
      BY <2>2 DEF TakeBaseBackup, CloneFilesystem, CloneFilesystemGroup, CleanupKinds
    <3> QED
      BY <2>1, <3>1, <3>2, AcquiresStep DEF Steps
  <2>3. CASE /\ actions[next] \in PreKinds
             /\ AbandonsLeaving(CreatedBefore[actions[next]], "before", "cleanup")
    <3>1. CreatedBefore[actions[next]] \in SUBSET ResourceNames
      BY <2>3 DEF CreatedBefore, ResourceNames, PreKinds
    <3> QED
      BY <2>1, <2>3, <3>1, AbandonsStep DEF toolVars
  <2> QED
    BY <1>2, <2>2, <2>3 DEF BeforeConsistencyPoint
<1>3. CASE Stamp
  BY <1>a, <1>3, ResourcesKept DEF Stamp, Enter, ToolPhases, toolVars
<1>4. CASE Setup
  <2>1. /\ next \in Actions /\ actions' = actions /\ phase = "setup" /\ UNCHANGED toolVars
        /\ CreatedInSetup(actions[next]) \in SUBSET ResourceNames
        /\ CreatedInSetup(actions[next]) # {} => actions[next] \in CleanupKinds
    BY <1>4 DEF Setup, At, CreatedInSetup, ResourceNames, CleanupKinds
  <2>2. CASE Completes("setup") /\ Acquires(CreatedInSetup(actions[next]))
    BY <2>1, <2>2, AcquiresStep DEF Steps
  <2>3. CASE AbandonsLeaving(CreatedInSetup(actions[next]), "setup", "cleanup")
    BY <2>1, <2>3, AbandonsStep DEF toolVars
  <2> QED
    BY <1>4, <2>2, <2>3 DEF Setup
<1>5. CASE Skip
  <2>1. CASE phase = "before"
    BY <1>a, <1>5, <2>1, ResourcesKept DEF Skip, toolVars
  <2>2. CASE phase = "cleanup"
    <3>1. /\ phase' = phase /\ next' = next + 1 /\ next \in Actions /\ next \in Nat
          /\ UNCHANGED <<actions, done, resourceVars, pod>>
          /\ actions[next] \notin CleanupKinds
      BY <1>a, <1>5, <2>2 DEF Skip, At, toolVars
    <3>2. \A x \in exists \ refused : x[1] >= next + 1
      <4> SUFFICES ASSUME NEW x \in exists \ refused PROVE x[1] >= next + 1
        OBVIOUS
      <4>1. x \in owned /\ x[1] >= next /\ x[1] \in Nat
        BY <1>a, <2>2 DEF TeardownInv, OwnedOrLeft, CleanedBehindLoop
      <4>2. x[1] # next
        BY <3>1, <4>1 DEF TeardownInv, OwnersCleanUp
      <4> QED
        BY <3>1, <4>1, <4>2
    <3> QED
      BY <2>2, <3>1, <3>2 DEF TeardownInv, OwnedOrLeft, OwnersCleanUp, ToolInItsPhases,
                              KeptUntilCleanup, CleanedBehindLoop, resourceVars
  <2> QED
    BY <1>5, <2>1, <2>2 DEF Skip, At
<1>6. CASE LoopDone
  <2>1. UNCHANGED <<actions, done, resourceVars, pod>>
    BY <1>6 DEF LoopDone, toolVars
  <2>2. CASE phase = "cleanup"
    <3>1. phase' = "returned" /\ next \notin Actions
      BY <1>6, <2>2 DEF LoopDone, LoopEnds, Enter
    <3>2. exists \subseteq refused
      <4> SUFFICES ASSUME NEW x \in exists \ refused PROVE FALSE
        OBVIOUS
      <4>1. x \in owned /\ x[1] >= next
        BY <2>2 DEF TeardownInv, OwnedOrLeft, CleanedBehindLoop
      <4>2. x[1] \in Actions
        BY <1>a, <4>1
      <4>3. Actions = 1..Len(actions) /\ Len(actions) \in Nat /\ next \in 1..(Len(actions) + 1)
        BY ActionsType DEF TypeOK
      <4>4. next = Len(actions) + 1
        BY <3>1, <4>3
      <4> QED
        BY <4>1, <4>2, <4>3, <4>4
    <3> QED
      BY <2>1, <2>2, <3>1, <3>2 DEF TeardownInv, OwnedOrLeft, OwnersCleanUp, ToolInItsPhases,
                                    ToolPhases, KeptUntilCleanup, CleanedBehindLoop, resourceVars
  <2>3. CASE phase # "cleanup"
    <3>1. \/ phase \in {"validate", "before", "setup"}
             /\ phase' \in {"before", "stamp", "createTool"}
          \/ phase = "execute" /\ phase' = "closeClient"
      BY <1>6, <2>3 DEF LoopDone, LoopEnds, Enter
    <3> QED
      BY <1>a, <2>1, <3>1, ResourcesKept DEF ToolPhases
  <2> QED
    BY <2>2, <2>3
<1>7. CASE CreateTool
  <2>1. /\ phase = "createTool" /\ UNCHANGED <<actions, done, resourceVars>>
        /\ \/ phase' = "connect"
           \/ phase' = "cleanup" /\ next' = 1 /\ pod' # "running"
    BY <1>7 DEF CreateTool, Enter
  <2> QED
    BY <1>a, <2>1, OnToTheCleanup DEF ToolPhases
<1>8. CASE Connect
  <2>1. /\ phase = "connect" /\ phase' \in {"execute", "deleteTool"} /\ pod' = pod
        /\ UNCHANGED <<actions, done, owned>> /\ exists' = exists /\ refused' = refused
    BY <1>8 DEF Connect, Abandons, AbandonsLeaving, Enter, resourceVars, toolVars
  <2> QED
    BY <1>a, <2>1, ResourcesKept DEF resourceVars, ToolPhases
<1>9. CASE CloseClient
  BY <1>a, <1>9, ResourcesKept DEF CloseClient, Enter, ToolPhases, toolVars
<1>10. CASE DeleteTool
  <2>1. /\ phase = "deleteTool" /\ UNCHANGED <<actions, done, resourceVars>>
        /\ phase' = "cleanup" /\ next' = 1 /\ pod' # "running"
    BY <1>10 DEF DeleteTool, Enter
  <2> QED
    BY <1>a, <2>1, OnToTheCleanup
<1>11. CASE CleanUp
  BY <1>11, CleanUpStep
<1> QED
  BY <1>1, <1>2, <1>3, <1>4, <1>5, <1>6, <1>7, <1>8, <1>9, <1>10, <1>11 DEF StageNext

\* TeardownInv holds throughout an event (RemoteStage.Run and cleanupFunc).
LEMMA TeardownInvariant == Spec => []TeardownInv
<1>1. AppTypeOK /\ TeardownInv /\ [Next]_vars => TeardownInv'
  <2> SUFFICES ASSUME AppTypeOK, TeardownInv, [Next]_vars PROVE TeardownInv'
    OBVIOUS
  <2>1. CASE RunStage
    BY <2>1, TeardownStageStep DEF RunStage, AppTypeOK
  <2>2. CASE AppStep
    <3>1. UNCHANGED stageVars
      BY <2>2, AppStepsKeepStage
    <3> QED
      BY <3>1 DEF stageVars, TeardownInv, OwnedOrLeft, ToolInItsPhases, Actions, KeptUntilCleanup,
                  OwnersCleanUp, CleanedBehindLoop
  <2>3. CASE RunTool /\ UNCHANGED <<actions, phase, next, done, resourceVars>>
    <3>1. pod' = "running" => pod = "running"
      BY <2>3 DEF RunTool, ToolNext, HandlerEnds, PodEnds
    <3> QED
      BY <2>3, <3>1 DEF resourceVars, TeardownInv, OwnedOrLeft, ToolInItsPhases,
                        KeptUntilCleanup, OwnersCleanUp, CleanedBehindLoop, Actions
  <2> QED
    BY <2>1, <2>2, <2>3, StepKinds
<1> QED
  BY <1>1, TeardownInit, TypeCorrect, PTL DEF Spec

\* What is left when Run returns is what could not be deleted (RemoteStage.Run,
\* cleanupFunc and the Cleanup methods).
THEOREM NothingElseRemains == Spec => []OnlyRefusedRemain
<1>1. TeardownInv => OnlyRefusedRemain
  BY DEF TeardownInv, CleanedBehindLoop, ToolInItsPhases, ToolPhases, OnlyRefusedRemain
<1> QED
  BY <1>1, TeardownInvariant, PTL

------------------------------------------------------------------------------
\* The event implements DREvent.

\* The sources whose action has executed.
Captured == {a \in Actions : "executed" \in done[a]}

\* Behind the executing loop everything is captured; and after it, unless the
\* error Run will return says otherwise.
CapturedUnlessErr ==
  /\ phase \in {"execute", "await"} => \A a \in Actions : a < next => a \in Captured
  /\ phase \in {"closeClient", "deleteTool", "cleanup", "returned"} /\ err = {} =>
       Captured = Actions

\* The application's own variables follow the stage's.
AppInv ==
  /\ appPhase \in {"volume", "stage"} => ~published /\ outcome = "running"
  /\ appPhase = "snapshot" =>
       outcome = "running" /\ direction = "backup" /\ Captured = Actions

\* Inductive with the types.
CaptureInv == CapturedUnlessErr /\ AppInv

\* A step of the stage captures at most one source, and keeps account of it.
LEMMA CapturedStageStep ==
  ASSUME TypeOK, CapturedUnlessErr, StageNext
  PROVE  /\ CapturedUnlessErr'
         /\ Captured' = Captured \/ \E s \in Actions : Captured' = Captured \cup {s}
         /\ actions' = actions
<1>a. /\ Actions = 1..Len(actions) /\ Len(actions) \in Nat /\ next \in Nat
      /\ done \in [Actions -> SUBSET Steps]
  BY ActionsType DEF TypeOK
<1>1. CASE UNCHANGED <<actions, done>>
           /\ \/ err' # {} /\ phase' \notin {"execute", "await"}
              \/ phase' \notin {"execute", "await", "closeClient", "deleteTool", "cleanup",
                               "returned"}
  BY <1>1 DEF CapturedUnlessErr, Captured, Actions
<1>2. CASE UNCHANGED <<actions, done>>
           /\ phase \in {"closeClient", "deleteTool", "cleanup", "returned"}
           /\ phase' \in {"closeClient", "deleteTool", "cleanup", "returned"}
           /\ (err' = {} => err = {})
  BY <1>2 DEF CapturedUnlessErr, Captured, Actions
<1>3. CASE \E step \in Steps : Completes(step) /\ At(phase) /\ actions' = actions
           /\ phase \notin {"execute", "await"} /\ step # "executed"
           /\ phase \notin {"closeClient", "deleteTool", "cleanup", "returned"}
  <2>1. PICK step \in Steps : Completes(step) /\ step # "executed"
    BY <1>3
  <2>2. phase' = phase /\ actions' = actions
        /\ phase \notin {"execute", "await", "closeClient", "deleteTool", "cleanup", "returned"}
    BY <1>3 DEF Completes, CompletesIn
  <2>3. \A a \in Actions : "executed" \in done'[a] <=> "executed" \in done[a]
    BY <1>a, <2>1 DEF Completes, CompletesIn
  <2> QED
    BY <2>2, <2>3 DEF CapturedUnlessErr, Captured, Actions
<1>4. CASE Execute \/ Answered \/ Cut
  <2>1. CASE CompletesIn("execute", "executed") /\ phase = "await"
    <3>1. /\ phase' = "execute" /\ actions' = actions /\ next' = next + 1
          /\ serving \in Actions /\ serving = next
      BY <1>a, <1>4, <2>1 DEF Execute, At, Answered, Cut, CompletesIn, Abandons, AbandonsLeaving,
                              Enter, TypeOK, NoAction
    <3>2. Captured' = Captured \cup {next}
      BY <1>a, <2>1, <3>1 DEF CompletesIn, Captured, Actions
    <3>3. \A a \in Actions : a < next + 1 => a < next \/ a = next
      BY <1>a
    <3> QED
      BY <2>1, <3>1, <3>2, <3>3 DEF CapturedUnlessErr, Actions
  <2>2. CASE Abandons("execute", "closeClient")
    BY <1>1, <1>4, <2>2 DEF Execute, Answered, Cut, Abandons, AbandonsLeaving, Enter, Reported
  <2>3. CASE phase = "execute" /\ phase' = "await" /\ UNCHANGED <<actions, next, done, err>>
    BY <2>3 DEF CapturedUnlessErr, Captured, Actions
  <2> QED
    BY <1>4, <2>1, <2>2, <2>3 DEF Execute, At, Answered, Cut
<1>5. CASE Validate \/ BeforeConsistencyPoint \/ Setup
  <2>1. CASE \E step \in {"validated", "prepared", "setup"} : Completes(step)
    BY <1>3, <1>5, <2>1 DEF Validate, BeforeConsistencyPoint, Setup, At, Steps
  <2>2. CASE \E resources, f : AbandonsLeaving(resources, f, "cleanup")
    BY <1>1, <1>5, <2>2 DEF Validate, BeforeConsistencyPoint, Setup, AbandonsLeaving, Enter,
                            Reported
  <2> QED
    BY <1>5, <2>1, <2>2 DEF Validate, BeforeConsistencyPoint, Setup, TakeBaseBackup,
                            CloneFilesystem, CloneFilesystemGroup, Abandons
<1>6. CASE Stamp
  BY <1>1, <1>6 DEF Stamp, Enter
<1>7. CASE Skip
  BY <1>1, <1>2, <1>7 DEF Skip, At
<1>8. CASE LoopDone
  <2>1. CASE phase = "execute"
    <3>1. phase' = "closeClient" /\ next \notin Actions /\ UNCHANGED <<actions, done>>
      BY <1>8, <2>1 DEF LoopDone, LoopEnds, Enter
    <3>2. \A a \in Actions : a < next
      <4> next \in 1..(Len(actions) + 1)
        BY DEF TypeOK
      <4> QED
        BY <1>a, <3>1
    <3>3. Captured = Actions
      BY <2>1, <3>2 DEF CapturedUnlessErr, Captured
    <3> QED
      BY <3>1, <3>3 DEF CapturedUnlessErr, Captured, Actions
  <2>2. CASE phase # "execute"
    BY <1>1, <1>2, <1>8, <2>2 DEF LoopDone, LoopEnds, Enter
  <2> QED
    BY <2>1, <2>2
<1>9. CASE CreateTool
  BY <1>1, <1>9 DEF CreateTool, Enter, Reported
<1>10. CASE Connect
  <2>1. CASE Enter("execute") /\ UNCHANGED <<done, resourceVars, clockVars, failed, err>>
    <3>1. phase' = "execute" /\ next' = 1 /\ UNCHANGED <<actions, done>>
      BY <1>10, <2>1 DEF Connect, Enter
    <3>2. \A a \in Actions : ~(a < 1)
      BY <1>a
    <3> QED
      BY <3>1, <3>2 DEF CapturedUnlessErr, Captured, Actions
  <2>2. CASE Abandons("connect", "deleteTool")
    BY <1>1, <1>10, <2>2 DEF Connect, Abandons, AbandonsLeaving, Enter, Reported
  <2> QED
    BY <1>10, <2>1, <2>2 DEF Connect
<1>11. CASE CloseClient
  BY <1>2, <1>11 DEF CloseClient, Enter
<1>12. CASE DeleteTool
  BY <1>2, <1>12 DEF DeleteTool, Enter
<1>13. CASE CleanUp
  <2>1. err' = {} => err = {}
    BY <1>13 DEF CleanUp, CleanUpOne, CleanUpDone, Reported
  <2>2. phase = "cleanup" /\ phase' = "cleanup" /\ UNCHANGED <<actions, done>>
    BY <1>13 DEF CleanUp, CleanUpOne, CleanUpDone, At
  <2> QED
    BY <1>2, <2>1, <2>2
<1> QED
  BY <1>4, <1>5, <1>6, <1>7, <1>8, <1>9, <1>10, <1>11, <1>12, <1>13 DEF StageNext

\* CaptureInv holds initially: nothing is captured.
LEMMA CaptureInit == AppInit => CaptureInv
  BY DEF AppInit, Init, CaptureInv, CapturedUnlessErr, AppInv

\* A step of an event preserves CaptureInv and is a step of DREvent, or none.
LEMMA CaptureStep ==
  ASSUME AppTypeOK, CaptureInv, [Next]_vars
  PROVE  CaptureInv' /\ [Abstract!Next]_(Abstract!eventVars)
<1> USE DEF CaptureInv
<1>a. Captured \subseteq Actions
  BY DEF Captured
<1>1. CASE RunStage
  <2>1. /\ CapturedUnlessErr' /\ actions' = actions /\ UNCHANGED appVars /\ appPhase = "stage"
        /\ Captured' = Captured \/ \E s \in Actions : Captured' = Captured \cup {s}
    BY <1>1, CapturedStageStep DEF RunStage, AppTypeOK
  <2>2. AppInv'
    BY <2>1 DEF AppInv, appVars
  <2>3. UNCHANGED <<Actions, direction, published, outcome>> /\ outcome = "running" /\ ~published
    BY <2>1 DEF AppInv, appVars, Actions, direction
  <2>4. CASE Captured' = Captured
    BY <2>1, <2>2, <2>3, <2>4 DEF Abstract!eventVars, Captured
  <2>5. CASE \E s \in Actions \ Captured : Captured' = Captured \cup {s}
    <3>1. published = FALSE
      BY <2>3 DEF AppTypeOK
    <3>2. Abstract!Capture
      BY <2>3, <2>5, <3>1 DEF Abstract!Capture, Captured
    <3> QED
      BY <2>1, <2>2, <3>2 DEF Abstract!Next
  <2> QED
    BY <2>1, <2>4, <2>5
<1>2. CASE AppStep /\ UNCHANGED stageVars
  <2>1. /\ CapturedUnlessErr' /\ Captured' = Captured
        /\ UNCHANGED <<actions, Actions, direction, phase, err>>
    BY <1>2 DEF stageVars, CapturedUnlessErr, Captured, Actions, direction
  <2>2. CASE EnsureVolume
    <3>1. AppInv'
      BY <2>1, <2>2 DEF EnsureVolume, Verdict, AppInv
    <3>2. Abstract!Fail \/ UNCHANGED Abstract!eventVars
      BY <2>1, <2>2 DEF EnsureVolume, Verdict, AppInv, Abstract!Fail, Abstract!eventVars,
                        Captured
    <3> QED
      BY <2>1, <3>1, <3>2 DEF Abstract!Next
  <2>3. CASE StageReturns
    <3>1. outcome = "running" /\ ~published /\ (err = {} => Captured = Actions)
      BY <2>3 DEF StageReturns, AppInv, CapturedUnlessErr
    <3>2. AppInv'
      BY <2>1, <2>3, <3>1 DEF StageReturns, Verdict, AppInv
    <3>3. Abstract!Fail \/ Abstract!Succeed \/ UNCHANGED Abstract!eventVars
      BY <2>1, <2>3, <3>1 DEF StageReturns, Verdict, Abstract!Fail, Abstract!Succeed,
                              Abstract!eventVars, Captured
    <3> QED
      BY <2>1, <3>2, <3>3 DEF Abstract!Next
  <2>4. CASE SnapshotVolume
    <3>1. outcome = "running" /\ direction = "backup" /\ Captured = Actions
      BY <2>4 DEF SnapshotVolume, AppInv
    <3>2. AppInv'
      BY <2>1, <2>4, <3>1 DEF SnapshotVolume, Verdict, AppInv
    <3>3. Abstract!Fail \/ Abstract!Publish
      BY <2>1, <2>4, <3>1 DEF SnapshotVolume, Verdict, Abstract!Fail, Abstract!Publish, Captured
    <3> QED
      BY <2>1, <3>2, <3>3 DEF Abstract!Next
  <2>5. CASE WaitReadySnapshot
    <3>1. outcome = "running" /\ direction = "backup" /\ Captured = Actions
      BY <2>5 DEF WaitReadySnapshot, AppInv
    <3>2. AppInv'
      BY <2>1, <2>5, <3>1 DEF WaitReadySnapshot, Verdict, AppInv
    <3>3. Abstract!Fail \/ Abstract!Succeed
      BY <2>1, <2>5, <3>1 DEF WaitReadySnapshot, Verdict, Abstract!Fail, Abstract!Succeed,
                              Captured
    <3> QED
      BY <2>1, <3>2, <3>3 DEF Abstract!Next
  <2>6. CASE Cancel \/ UNCHANGED vars
    BY <2>1, <2>6 DEF Cancel, vars, appVars, AppInv, Abstract!eventVars, Captured
  <2> QED
    BY <2>2, <2>3, <2>4, <2>5, <2>6, <1>2 DEF AppStep
<1>3. CASE RunTool /\ UNCHANGED <<actions, phase, next, done, err, appVars>>
  BY <1>3 DEF CapturedUnlessErr, Captured, AppInv, Actions, direction, appVars,
              Abstract!eventVars
<1> QED
  BY <1>1, <1>2, <1>3, StepKinds, AppStepsKeepStage

\* An event's sources are finitely many, and none is captured at the start.
LEMMA AbstractInit == AppInit => Abstract!Init
<1> SUFFICES ASSUME AppInit PROVE Abstract!Init
  OBVIOUS
<1>1. /\ Actions = 1..Len(actions) /\ Len(actions) \in Nat /\ Len(actions) > 0
  BY InitType, ActionsType DEF AppTypeOK
<1>2. Actions \subseteq Nat /\ Actions # {}
  BY <1>1
<1>3. {a \in Actions : "executed" \in done[a]} = {}
  BY DEF AppInit, Init
<1>4. direction \in {"backup", "restore"} /\ published = FALSE /\ outcome = "running"
  BY DEF AppInit, direction
<1> QED
  BY <1>2, <1>3, <1>4 DEF Abstract!Init

\* The applications and the stage implement the abstract event: no success and
\* no published snapshot without every source (GenericApp.Backup and Restore).
THEOREM RefinesDREvent == Spec => ImplementsDREvent
<1>1. AppTypeOK /\ CaptureInv /\ [Next]_vars => CaptureInv'
  BY CaptureStep
<1>2. AppTypeOK /\ CaptureInv /\ [Next]_vars => [Abstract!Next]_(Abstract!eventVars)
  BY CaptureStep
<1> QED
  BY <1>1, <1>2, CaptureInit, AbstractInit, TypeCorrect, PTL
  DEF Spec, ImplementsDREvent, Abstract!Spec

------------------------------------------------------------------------------
\* What the returned error tells.

\* Only the two deferred calls of execute lose their errors.
FailuresInErr == failed \subseteq err \cup {"closeClient", "deleteTool"}

\* What could not be deleted is in the error.
RefusalsInErr == err = {} => refused = {}

\* A handler whose answer is no longer awaited served a call that was cut, and the error
\* tells of that.
CutsInErr == serving # NoAction => phase = "await" \/ "execute" \in err

\* The DR volume is snapshotted, and success reported, once Run has returned without an error.
PublishedAtTheEnd ==
  /\ published => appPhase \in {"snapshot", "done"}
  /\ outcome = "succeeded" => appPhase = "done"
  /\ appPhase = "snapshot" \/ published \/ outcome = "succeeded" => phase = "returned" /\ err = {}

\* Inductive by itself.
ReportInv == FailuresInErr /\ RefusalsInErr /\ CutsInErr /\ PublishedAtTheEnd

\* ReportInv holds initially: nothing has failed.
LEMMA ReportInit == AppInit => ReportInv
  BY DEF AppInit, Init, ReportInv, FailuresInErr, RefusalsInErr, CutsInErr, PublishedAtTheEnd

\* A method of an action that fails reports it, and what it left.
LEMMA AbandonsReports ==
  ASSUME FailuresInErr, NEW resources, NEW f, NEW p, AbandonsLeaving(resources, f, p)
  PROVE  FailuresInErr' /\ RefusalsInErr'
<1>1. failed' = failed \cup {f} /\ err' = err \cup {f}
  BY DEF AbandonsLeaving, Reported
<1> QED
  BY <1>1 DEF FailuresInErr, RefusalsInErr

\* A step of the stage loses no failure but those of the two deferred calls.
LEMMA ReportStageStep ==
  ASSUME FailuresInErr, RefusalsInErr, StageNext
  PROVE  FailuresInErr' /\ RefusalsInErr'
<1>1. CASE UNCHANGED <<failed, err, refused>>
  BY <1>1 DEF FailuresInErr, RefusalsInErr
<1>2. CASE Validate \/ Execute \/ Answered \/ Cut
  BY <1>1, <1>2, AbandonsReports
  DEF Validate, Execute, Answered, Cut, Completes, CompletesIn, Abandons, resourceVars
<1>3. CASE BeforeConsistencyPoint
  BY <1>1, <1>3, AbandonsReports
  DEF BeforeConsistencyPoint, TakeBaseBackup, CloneFilesystem, CloneFilesystemGroup,
      Completes, CompletesIn, Acquires
<1>4. CASE Setup
  BY <1>1, <1>4, AbandonsReports DEF Setup, Completes, CompletesIn, Acquires
<1>5. CASE Stamp \/ Skip \/ LoopDone
  BY <1>1, <1>5 DEF Stamp, Skip, LoopDone, resourceVars
<1>6. CASE CreateTool
  BY <1>6 DEF CreateTool, Reported, FailuresInErr, RefusalsInErr, resourceVars
<1>7. CASE Connect
  BY <1>1, <1>7, AbandonsReports DEF Connect, Abandons, resourceVars
<1>8. CASE CloseClient
  BY <1>8 DEF CloseClient, resourceVars, FailuresInErr, RefusalsInErr
<1>9. CASE DeleteTool
  BY <1>9 DEF DeleteTool, FailuresInErr, RefusalsInErr, resourceVars
<1>10. CASE CleanUpOne
  BY <1>10 DEF CleanUpOne, Reported, FailuresInErr, RefusalsInErr
<1>11. CASE CleanUpDone
  BY <1>1, <1>11 DEF CleanUpDone, resourceVars
<1> QED
  BY <1>2, <1>3, <1>4, <1>5, <1>6, <1>7, <1>8, <1>9, <1>10, <1>11 DEF StageNext, CleanUp

\* A step of the stage reports a call before it stops awaiting the answer.
LEMMA CutsStageStep ==
  ASSUME CutsInErr, StageNext
  PROVE  CutsInErr'
<1>1. CASE Execute \/ Answered \/ Cut
  BY <1>1 DEF Execute, At, Answered, Cut, Abandons, AbandonsLeaving, Enter, Reported, CompletesIn,
              CutsInErr, toolVars
<1>2. CASE ~(Execute \/ Answered \/ Cut)
  <2>1. UNCHANGED serving
    BY <1>2 DEF StageNext, Validate, BeforeConsistencyPoint, Stamp, Setup, Skip, LoopDone,
                CreateTool, Connect, CloseClient, DeleteTool, CleanUp, CleanUpOne, CleanUpDone,
                toolVars
  <2>2. phase # "await"
    BY <1>2 DEF StageNext, Validate, BeforeConsistencyPoint, Stamp, Setup, Skip, LoopDone,
                LoopEnds, CreateTool, Connect, CloseClient, DeleteTool, CleanUp, CleanUpOne,
                CleanUpDone, At
  <2>3. err \subseteq err'
    BY <1>2 DEF StageNext, Validate, BeforeConsistencyPoint, TakeBaseBackup, CloneFilesystem,
                CloneFilesystemGroup, Stamp, Setup, Skip, LoopDone, CreateTool, Connect,
                CloseClient, DeleteTool, CleanUp, CleanUpOne, CleanUpDone, Completes, CompletesIn,
                Abandons, AbandonsLeaving, Reported
  <2> QED
    BY <2>1, <2>2, <2>3 DEF CutsInErr
<1> QED
  BY <1>1, <1>2

\* ReportInv holds throughout an event (RemoteStage.Run and its callers).
LEMMA ReportInvariant == Spec => []ReportInv
<1>1. ReportInv /\ [Next]_vars => ReportInv'
  <2> SUFFICES ASSUME ReportInv, [Next]_vars PROVE ReportInv'
    OBVIOUS
  <2>1. CASE RunStage
    <3>1. appPhase = "stage" /\ UNCHANGED appVars /\ StageNext
      BY <2>1 DEF RunStage
    <3>2. PublishedAtTheEnd'
      BY <3>1 DEF ReportInv, PublishedAtTheEnd, appVars
    <3> QED
      BY <3>1, <3>2, ReportStageStep, CutsStageStep DEF ReportInv
  <2>2. CASE AppStep
    <3>1. UNCHANGED stageVars
      BY <2>2, AppStepsKeepStage
    <3>2. FailuresInErr' /\ RefusalsInErr' /\ CutsInErr'
      BY <3>1 DEF stageVars, ReportInv, FailuresInErr, RefusalsInErr, CutsInErr
    <3>3. PublishedAtTheEnd'
      BY <2>2, <3>1 DEF AppStep, EnsureVolume, StageReturns, SnapshotVolume, WaitReadySnapshot,
                        Cancel, Verdict, vars, appVars, stageVars, ReportInv, PublishedAtTheEnd
    <3> QED
      BY <3>2, <3>3 DEF ReportInv
  <2>3. CASE RunTool /\ UNCHANGED <<phase, resourceVars, failed, err, appVars>>
    <3>1. serving' = serving \/ serving' = NoAction
      BY <2>3 DEF RunTool, ToolNext, HandlerEnds, PodEnds
    <3> QED
      BY <2>3, <3>1 DEF ReportInv, FailuresInErr, RefusalsInErr, CutsInErr, PublishedAtTheEnd,
                        resourceVars, appVars
  <2> QED
    BY <2>1, <2>2, <2>3, StepKinds
<1> QED
  BY <1>1, ReportInit, PTL DEF Spec

\* What Run returns tells of every failure, those of the teardown included, and
\* except those of the two deferred calls of execute (RemoteStage.Run, cleanupFunc).
THEOREM FailuresAreReported == Spec => []StageFailuresReported
<1>1. ReportInv => StageFailuresReported
  BY DEF ReportInv, FailuresInErr, StageFailuresReported
<1> QED
  BY <1>1, ReportInvariant, PTL

\* What the tool pod was given is deleted after the pod's own deletion was issued, and under a
\* handler only if its call was given up and the error tells of it (RemoteStage.execute).
THEOREM MountsOutliveCalls == Spec => []ResourcesOutliveCalls
<1>1. TeardownInv /\ ReportInv => ResourcesOutliveCalls
  BY DEF TeardownInv, ToolInItsPhases, ToolPhases, KeptUntilCleanup, ReportInv, CutsInErr,
         ResourcesOutliveCalls
<1> QED
  BY <1>1, TeardownInvariant, ReportInvariant, PTL

\* The DR volume is snapshotted, and success reported, when all that the event created is
\* gone, except perhaps the tool pod, and every call it made has been answered
\* (GenericApp.Backup and SnapshotAndWaitReady).
THEOREM QuietWhenDone == Spec => []DoneWhenQuiet
<1>1. TeardownInv /\ ReportInv => DoneWhenQuiet
  BY DEF TeardownInv, CleanedBehindLoop, ReportInv, PublishedAtTheEnd, RefusalsInErr, CutsInErr,
         DoneWhenQuiet
<1> QED
  BY <1>1, TeardownInvariant, ReportInvariant, PTL

------------------------------------------------------------------------------
\* Base backups and the clones that recover from them.

\* A database's base backup is recorded once taken.
PreparedOwnsBackup ==
  \A a \in Actions :
    actions[a] = "cnpgBackup" /\ "prepared" \in done[a] => <<a, "baseBackup">> \in owned

\* A recorded clone has a recorded base backup, which its action took.
CloneOwnsBackup ==
  \A a \in Actions :
    <<a, "clone">> \in owned => actions[a] = "cnpgBackup" /\ <<a, "baseBackup">> \in owned

\* Inductive with the types.
OwnershipInv == PreparedOwnsBackup /\ CloneOwnsBackup

\* Nothing is recorded at the start.
LEMMA OwnershipInit == AppInit => OwnershipInv
  BY DEF AppInit, Init, OwnershipInv, PreparedOwnsBackup, CloneOwnsBackup, Actions

\* A step that records nothing and prepares no action.
LEMMA OwnershipKept ==
  ASSUME OwnershipInv, UNCHANGED <<actions, owned>>,
         \A a \in Actions : "prepared" \in done'[a] => "prepared" \in done[a]
  PROVE  OwnershipInv'
  BY DEF OwnershipInv, PreparedOwnsBackup, CloneOwnsBackup, Actions

\* A step of the stage preserves OwnershipInv.
LEMMA OwnershipStageStep ==
  ASSUME TypeOK, OwnershipInv, StageNext
  PROVE  OwnershipInv'
<1>a. done \in [Actions -> SUBSET Steps] /\ owned \in SUBSET (Actions \X ResourceNames)
  BY DEF TypeOK
<1>1. CASE UNCHANGED <<actions, owned, done>>
  BY <1>1, OwnershipKept
<1>2. CASE Validate \/ Execute \/ Answered \/ Cut
  <2>1. CASE Completes("validated") \/ CompletesIn("execute", "executed")
    <3>1. \A a \in Actions : "prepared" \in done'[a] => "prepared" \in done[a]
      BY <1>a, <2>1 DEF Completes, CompletesIn
    <3>2. UNCHANGED <<actions, owned>>
      BY <1>2, <2>1
      DEF Validate, Execute, Answered, Cut, Abandons, AbandonsLeaving, resourceVars
    <3> QED
      BY <3>1, <3>2, OwnershipKept
  <2> QED
    BY <1>1, <1>2, <2>1
    DEF Validate, Execute, Answered, Cut, Abandons, AbandonsLeaving, resourceVars
<1>3. CASE BeforeConsistencyPoint
  <2>1. next \in Actions /\ actions' = actions
    BY <1>3 DEF BeforeConsistencyPoint, At
  <2>2. CASE TakeBaseBackup
    <3>1. /\ owned' = owned \cup {<<next, "baseBackup">>}
          /\ done' = [done EXCEPT ![next] = @ \cup {"prepared"}]
      BY <2>2 DEF TakeBaseBackup, Acquires, Completes, CompletesIn, CreatedBefore
    <3>2. \A a \in Actions : "prepared" \in done'[a] => "prepared" \in done[a] \/ a = next
      BY <1>a, <3>1
    <3> QED
      BY <2>1, <3>1, <3>2 DEF OwnershipInv, PreparedOwnsBackup, CloneOwnsBackup, Actions
  <2>3. CASE CloneFilesystem \/ CloneFilesystemGroup
    <3>1. PICK resources \in {{"clonedPVC"}, {"clones", "groupSnapshot"}} :
            Acquires(resources) /\ Completes("prepared") /\ actions[next] # "cnpgBackup"
      BY <2>3 DEF CloneFilesystem, CloneFilesystemGroup, CreatedBefore
    <3>2. owned' = owned \cup {<<next, r>> : r \in resources}
      BY <3>1 DEF Acquires
    <3>3. \A a \in Actions : "prepared" \in done'[a] => "prepared" \in done[a] \/ a = next
      BY <1>a, <3>1 DEF Completes, CompletesIn
    <3>4. \A a \in Actions : <<a, "clone">> \in owned' => <<a, "clone">> \in owned
      BY <3>1, <3>2
    <3> QED
      BY <2>1, <3>1, <3>2, <3>3, <3>4
      DEF OwnershipInv, PreparedOwnsBackup, CloneOwnsBackup, Actions
  <2>4. CASE AbandonsLeaving(CreatedBefore[actions[next]], "before", "cleanup")
    BY <1>1, <2>1, <2>4 DEF AbandonsLeaving
  <2> QED
    BY <1>3, <2>2, <2>3, <2>4 DEF BeforeConsistencyPoint
<1>4. CASE Setup
  <2>1. next \in Actions /\ actions' = actions
    BY <1>4 DEF Setup, At
  <2>2. CASE Completes("setup") /\ Acquires(CreatedInSetup(actions[next]))
    <3>1. owned' = owned \cup {<<next, r>> : r \in CreatedInSetup(actions[next])}
      BY <2>2 DEF Acquires
    <3>2. \A a \in Actions : "prepared" \in done'[a] <=> "prepared" \in done[a]
      BY <1>a, <2>2 DEF Completes, CompletesIn
    <3>3. actions[next] = "cnpgBackup" => <<next, "baseBackup">> \in owned
      <4> SUFFICES ASSUME actions[next] = "cnpgBackup" PROVE "prepared" \in done[next]
        BY <2>1 DEF OwnershipInv, PreparedOwnsBackup
      <4> QED
        BY <2>2 DEF Completes, CompletesIn, Ready, Required, PreKinds
    <3>4. \A a \in Actions : <<a, "clone">> \in owned' =>
            \/ <<a, "clone">> \in owned
            \/ a = next /\ actions[next] = "cnpgBackup"
      BY <3>1 DEF CreatedInSetup
    <3> QED
      BY <2>1, <3>1, <3>2, <3>3, <3>4
      DEF OwnershipInv, PreparedOwnsBackup, CloneOwnsBackup, Actions
  <2>3. CASE AbandonsLeaving(CreatedInSetup(actions[next]), "setup", "cleanup")
    BY <1>1, <2>1, <2>3 DEF AbandonsLeaving
  <2> QED
    BY <1>4, <2>2, <2>3 DEF Setup
<1>5. CASE Stamp \/ Skip \/ LoopDone \/ CreateTool \/ Connect
  BY <1>1, <1>5
  DEF Stamp, Skip, LoopDone, CreateTool, Connect, Abandons, AbandonsLeaving, resourceVars
<1>6. CASE CloseClient \/ DeleteTool \/ CleanUp
  BY <1>1, <1>6 DEF CloseClient, DeleteTool, CleanUp, CleanUpOne, CleanUpDone, resourceVars
<1> QED
  BY <1>2, <1>3, <1>4, <1>5, <1>6 DEF StageNext

\* OwnershipInv holds throughout an event (CNPGBackup's lifecycle methods).
LEMMA OwnershipInvariant == Spec => []OwnershipInv
<1>1. AppTypeOK /\ OwnershipInv /\ [Next]_vars => OwnershipInv'
  <2> SUFFICES ASSUME AppTypeOK, OwnershipInv, [Next]_vars PROVE OwnershipInv'
    OBVIOUS
  <2>1. CASE RunStage
    BY <2>1, OwnershipStageStep DEF RunStage, AppTypeOK
  <2>2. CASE AppStep
    <3>1. UNCHANGED stageVars
      BY <2>2, AppStepsKeepStage
    <3> QED
      BY <3>1, OwnershipKept DEF stageVars
  <2>3. CASE UNCHANGED <<actions, done, resourceVars>>
    BY <2>3, OwnershipKept DEF resourceVars
  <2> QED
    BY <2>1, <2>2, <2>3, StepKinds
<1> QED
  BY <1>1, OwnershipInit, TypeCorrect, PTL DEF Spec

\* Until the cleanup deletes, every recorded resource stays.
LEMMA OutlivesUntilDeleted ==
  ASSUME TypeOK, TeardownInv, TeardownInv', OwnershipInv', BaseBackupOutlivesClone,
         StageNext, ~CleanUpOne
  PROVE  BaseBackupOutlivesClone'
<1>a. /\ Actions \subseteq Nat \ {0}
      /\ Actions' = Actions
  <2>1. actions' = actions
    BY ToolStepType
  <2> QED
    BY <2>1, ActionsType DEF Actions
<1>1. CASE UNCHANGED <<exists, refused>>
  BY <1>a, <1>1 DEF BaseBackupOutlivesClone
<1>2. CASE owned' \subseteq exists'
  <2> SUFFICES ASSUME NEW a \in Actions, <<a, "clone">> \in exists' \ refused'
               PROVE  <<a, "baseBackup">> \in exists'
    BY <1>a DEF BaseBackupOutlivesClone
  <2>1. <<a, "clone">> \in owned'
    BY DEF TeardownInv, OwnedOrLeft
  <2> QED
    BY <1>a, <1>2, <2>1 DEF OwnershipInv, CloneOwnsBackup
<1>3. CASE \E resources, f, p : AbandonsLeaving(resources, f, p) /\ owned \subseteq exists
  BY <1>2, <1>3 DEF AbandonsLeaving
<1>4. CASE Validate \/ Execute \/ Answered \/ Cut \/ Connect
  BY <1>1, <1>3, <1>4
  DEF Validate, Execute, Answered, Cut, Connect, Abandons, resourceVars, At, TeardownInv,
      KeptUntilCleanup
<1>5. CASE BeforeConsistencyPoint \/ Setup
  <2>1. owned \subseteq exists
    BY <1>5 DEF BeforeConsistencyPoint, Setup, At, TeardownInv, KeptUntilCleanup
  <2>2. CASE \E resources : Acquires(resources)
    BY <1>2, <2>1, <2>2 DEF Acquires
  <2>3. CASE \E resources, f, p : AbandonsLeaving(resources, f, p)
    BY <1>3, <2>1, <2>3
  <2> QED
    BY <1>5, <2>2, <2>3
    DEF BeforeConsistencyPoint, Setup, TakeBaseBackup, CloneFilesystem, CloneFilesystemGroup
<1>6. CASE Stamp \/ Skip \/ LoopDone \/ CloseClient \/ CleanUpDone
  BY <1>1, <1>6 DEF Stamp, Skip, LoopDone, CloseClient, CleanUpDone, resourceVars
<1>7. CASE CreateTool \/ DeleteTool
  BY <1>1, <1>7 DEF CreateTool, DeleteTool, resourceVars
<1> QED
  BY <1>4, <1>5, <1>6, <1>7 DEF StageNext, CleanUp

\* The cleanup deletes the clone of a database before its base backup.
LEMMA OutlivesDeletion ==
  ASSUME TypeOK, TeardownInv, OwnershipInv, BaseBackupOutlivesClone, CleanUpOne
  PROVE  BaseBackupOutlivesClone'
<1>1. PICK x \in ToDelete(next) :
        /\ \A y \in ToDelete(next) : DeletionRank[x[2]] <= DeletionRank[y[2]]
        /\ \/ exists' = exists \ {x} /\ UNCHANGED refused
           \/ refused' = refused \cup {x} /\ UNCHANGED exists
  BY DEF CleanUpOne
<1>2. Actions' = Actions /\ Actions \subseteq Nat \ {0}
  BY ActionsType DEF CleanUpOne, Actions
<1> SUFFICES ASSUME NEW a \in Actions, <<a, "clone">> \in exists' \ refused',
                    <<a, "baseBackup">> \notin exists'
             PROVE  FALSE
  BY <1>2 DEF BaseBackupOutlivesClone
<1>3. <<a, "clone">> \in exists \ refused /\ <<a, "baseBackup">> \in exists
  BY <1>1 DEF BaseBackupOutlivesClone
<1>4. x = <<a, "baseBackup">> /\ a = next
  BY <1>1, <1>3 DEF ToDelete
<1>5. <<a, "clone">> \in owned /\ actions[a] = "cnpgBackup"
  BY <1>2, <1>3 DEF TeardownInv, OwnedOrLeft, OwnershipInv, CloneOwnsBackup
<1>6. <<a, "clone">> \in ToDelete(next)
  BY <1>3, <1>4, <1>5 DEF ToDelete
<1>7. DeletionRank["baseBackup"] <= DeletionRank["clone"]
  BY <1>1, <1>4, <1>6
<1> QED
  BY <1>7 DEF DeletionRank

\* The base backup is there as long as the clone that recovers from it, through
\* the whole of the cleanup (CNPGBackup.Cleanup).
THEOREM BaseBackupsOutlive == Spec => []BaseBackupOutlivesClone
<1>1. AppInit => BaseBackupOutlivesClone
  BY DEF AppInit, Init, BaseBackupOutlivesClone
<1>2. /\ AppTypeOK /\ TeardownInv /\ TeardownInv' /\ OwnershipInv /\ OwnershipInv'
      /\ BaseBackupOutlivesClone /\ [Next]_vars
      => BaseBackupOutlivesClone'
  <2> SUFFICES ASSUME AppTypeOK, TeardownInv, TeardownInv', OwnershipInv, OwnershipInv',
                      BaseBackupOutlivesClone, [Next]_vars
               PROVE  BaseBackupOutlivesClone'
    OBVIOUS
  <2>1. CASE RunStage
    BY <2>1, OutlivesUntilDeleted, OutlivesDeletion DEF RunStage, AppTypeOK
  <2>2. CASE AppStep
    <3>1. UNCHANGED stageVars
      BY <2>2, AppStepsKeepStage
    <3> QED
      BY <3>1 DEF stageVars, BaseBackupOutlivesClone, Actions
  <2>3. CASE UNCHANGED <<actions, resourceVars>>
    BY <2>3 DEF BaseBackupOutlivesClone, resourceVars, Actions
  <2> QED
    BY <2>1, <2>2, <2>3, StepKinds
<1> QED
  BY <1>1, <1>2, TypeCorrect, TeardownInvariant, OwnershipInvariant, PTL DEF Spec

------------------------------------------------------------------------------
\* That an event ends is a property of FairSpec, which is for TLC; that it cannot go on for
\* ever is one of its steps alone.

AppRank == [volume |-> 1, stage |-> 2, snapshot |-> 3, done |-> 4]
PhaseRank ==
  [validate |-> 1, before |-> 2, stamp |-> 3, setup |-> 4, createTool |-> 5, connect |-> 6,
   execute |-> 7, await |-> 7, closeClient |-> 8, deleteTool |-> 9, cleanup |-> 10, returned |-> 11]

\* The stage goes on to a later phase, to a later action, from an action's call to the wait
\* for the answer, or has less to delete.
StageAdvances ==
  \/ PhaseRank[phase] < PhaseRank[phase']
  \/ PhaseRank[phase] = PhaseRank[phase'] /\ next < next'
  \/ phase = "execute" /\ phase' = "await" /\ next' = next
  \/ /\ phase' = phase /\ next' = next
     /\ ToDelete(next)' \subseteq ToDelete(next) /\ ToDelete(next)' # ToDelete(next)

\* The event goes on to a later phase of its own, publishes, or runs its stage.
Advances ==
  \/ AppRank[appPhase] < AppRank[appPhase']
  \/ appPhase' = appPhase /\ ~published /\ published'
  \/ appPhase' = appPhase /\ published' = published /\ StageAdvances

\* The program's state is what it was: the tool pod has changed, or the run was cancelled.
ProgramWaits ==
  UNCHANGED <<actions, phase, next, done, resourceVars, clockVars, failed, err, appPhase,
              published, outcome>>

\* An action has finitely many resources to delete.
LEMMA ToDeleteIsFinite ==
  ASSUME NEW a, owned \in SUBSET (Actions \X ResourceNames)
  PROVE  IsFiniteSet(ToDelete(a))
<1>1. IsFiniteSet(ResourceNames)
  <2>1. IsFiniteSet({"baseBackup"} \cup {"clone"} \cup {"clonedPVC"} \cup {"clones"}
                      \cup {"groupSnapshot"} \cup {"userCert"})
    BY FS_Singleton, FS_Union
  <2>2. ResourceNames = {"baseBackup"} \cup {"clone"} \cup {"clonedPVC"} \cup {"clones"}
                          \cup {"groupSnapshot"} \cup {"userCert"}
    BY DEF ResourceNames
  <2> QED
    BY <2>1, <2>2
<1>2. IsFiniteSet({a} \X ResourceNames)
  BY <1>1, FS_Singleton, FS_Product
<1>3. ToDelete(a) \subseteq {a} \X ResourceNames
  BY DEF ToDelete
<1> QED
  BY <1>2, <1>3, FS_Subset

\* Every step of the stage is on the way to its end.
LEMMA StageStepAdvances ==
  ASSUME TypeOK, StageNext
  PROVE  StageAdvances
<1>1. next \in Nat
  BY ActionsType DEF TypeOK
<1>2. CASE \E f, p : Abandons(f, p) /\ PhaseRank[phase] < PhaseRank[p]
  BY <1>2 DEF Abandons, AbandonsLeaving, Enter, StageAdvances
<1>3. CASE \E step : Completes(step)
  BY <1>1, <1>3 DEF Completes, CompletesIn, StageAdvances
<1>4. CASE Validate \/ Execute \/ Answered \/ Cut \/ Connect
  <2>1. CASE Validate
    BY <1>2, <1>3, <2>1 DEF Validate, At, PhaseRank
  <2>2. CASE Execute
    BY <1>2, <2>2 DEF Execute, At, PhaseRank, StageAdvances
  <2>3. CASE Answered
    BY <1>1, <1>2, <2>3 DEF Answered, CompletesIn, PhaseRank, StageAdvances
  <2>4. CASE Cut
    BY <1>2, <2>4 DEF Cut, PhaseRank
  <2>5. CASE Connect
    BY <1>2, <2>5 DEF Connect, Enter, PhaseRank, StageAdvances
  <2> QED
    BY <1>4, <2>1, <2>2, <2>3, <2>4, <2>5
<1>5. CASE BeforeConsistencyPoint \/ Setup
  <2>1. CASE \E resources, f : AbandonsLeaving(resources, f, "cleanup")
    <3>1. phase \in {"before", "setup"} /\ phase' = "cleanup"
      BY <1>5, <2>1 DEF BeforeConsistencyPoint, Setup, At, AbandonsLeaving, Enter
    <3> QED
      BY <3>1 DEF PhaseRank, StageAdvances
  <2> QED
    BY <1>3, <1>5, <2>1
    DEF BeforeConsistencyPoint, Setup, TakeBaseBackup, CloneFilesystem, CloneFilesystemGroup
<1>6. CASE Skip \/ CleanUpDone
  BY <1>1, <1>6 DEF Skip, CleanUpDone, StageAdvances
<1>7. CASE LoopDone
  BY <1>7 DEF LoopDone, LoopEnds, Enter, PhaseRank, StageAdvances
<1>8. CASE Stamp \/ CreateTool \/ CloseClient \/ DeleteTool
  BY <1>8 DEF Stamp, CreateTool, CloseClient, DeleteTool, Enter, PhaseRank, StageAdvances
<1>9. CASE CleanUpOne
  <2>1. PICK x \in ToDelete(next) :
          \/ exists' = exists \ {x} /\ UNCHANGED refused
          \/ refused' = refused \cup {x} /\ UNCHANGED exists
    BY <1>9 DEF CleanUpOne
  <2>2. UNCHANGED <<actions, phase, next, done, owned>>
    BY <1>9 DEF CleanUpOne
  <2>3. ToDelete(next)' = ToDelete(next) \ {x}
    BY <2>1, <2>2 DEF ToDelete
  <2> QED
    BY <2>1, <2>2, <2>3 DEF StageAdvances
<1> QED
  BY <1>4, <1>5, <1>6, <1>7, <1>8, <1>9 DEF StageNext, CleanUp

\* No event goes on for ever by itself: each step of the program takes it to a later phase, or
\* within one to a later action or to the wait for its answer, or leaves that action less to
\* delete of the finitely many resources that it has; phases and actions are bounded by their
\* types.  Every other step leaves the program where it is.  So no failure, and no refused
\* deletion, makes RemoteStage.Run try anything without end.
THEOREM EventsAdvance ==
  Spec => [][/\ Advances \/ ProgramWaits
             /\ IsFiniteSet(ToDelete(next)) /\ next \in 1..(Len(actions) + 1)]_vars
<1>1. AppTypeOK /\ [Next]_vars =>
        [/\ Advances \/ ProgramWaits
         /\ IsFiniteSet(ToDelete(next)) /\ next \in 1..(Len(actions) + 1)]_vars
  <2> SUFFICES ASSUME AppTypeOK, Next
               PROVE  /\ Advances \/ ProgramWaits
                      /\ IsFiniteSet(ToDelete(next)) /\ next \in 1..(Len(actions) + 1)
    OBVIOUS
  <2>1. IsFiniteSet(ToDelete(next)) /\ next \in 1..(Len(actions) + 1)
    BY ToDeleteIsFinite DEF AppTypeOK, TypeOK
  <2>2. Advances \/ ProgramWaits
    <3>1. CASE RunStage
      BY <3>1, StageStepAdvances DEF RunStage, AppTypeOK, Advances, appVars
    <3>2. CASE EnsureVolume \/ StageReturns
      BY <3>2 DEF EnsureVolume, StageReturns, Verdict, AppRank, Advances
    <3>3. CASE SnapshotVolume
      BY <3>3 DEF SnapshotVolume, Verdict, AppRank, Advances
    <3>4. CASE WaitReadySnapshot
      BY <3>4 DEF WaitReadySnapshot, Verdict, AppRank, Advances
    <3>5. CASE RunTool
      BY <3>5 DEF RunTool, ToolNext, appVars, ProgramWaits
    <3>6. CASE Cancel
      BY <3>6 DEF Cancel, stageVars, resourceVars, clockVars, ProgramWaits
    <3> QED
      BY <3>1, <3>2, <3>3, <3>4, <3>5, <3>6 DEF Next, ProgramStep
  <2> QED
    BY <2>1, <2>2
<1> QED
  BY <1>1, TypeCorrect, PTL DEF Spec

=============================================================================
