---------------------------- MODULE DRJobsProofs ----------------------------
(***************************************************************************)
(* Proofs about the Jobs of DRJobs, for every set of configurations, every *)
(* retry limit and any number of Jobs and faults.                          *)
(***************************************************************************)
EXTENDS DRJobs, FiniteSetTheorems, TLAPS

-----------------------------------------------------------------------------
\* Types.

\* The most attempts that a number of Jobs make.
Attempts(j) == j * (1 + BackoffLimit)

LEMMA AttemptsGrow ==
  ASSUME NEW j \in Nat
  PROVE  /\ Attempts(j) \in Nat
         /\ Attempts(j + 1) = Attempts(j) + 1 + BackoffLimit
         /\ j <= MaxJobs => Attempts(j) <= Attempts(MaxJobs)
<1>1. BackoffLimit \in Nat /\ MaxJobs \in Nat
  BY JobsAssumption
<1>2. ASSUME j <= MaxJobs
      PROVE  Attempts(j) <= Attempts(MaxJobs)
  <2>1. PICK d \in Nat : MaxJobs = j + d
    BY <1>1, <1>2
  <2>2. MaxJobs * (1 + BackoffLimit) = j * (1 + BackoffLimit) + d * (1 + BackoffLimit)
    BY <1>1, <2>1
  <2>3. d * (1 + BackoffLimit) \in Nat /\ j * (1 + BackoffLimit) \in Nat
    BY <1>1
  <2> QED BY <2>2, <2>3 DEF Attempts
<1> QED BY <1>1, <1>2 DEF Attempts

\* The current event is among those that the Jobs so far may have: a Job has
\* no more attempts than its limit.
EventInv ==
  /\ event <= Attempts(job)
  /\ pc # "idle" =>
       event + 1 + BackoffLimit <= Attempts(job) + tries /\ event >= 1 /\ job >= 1

\* The types, by the variables that change together.
StageTypes ==
  /\ pc \in {"idle", "setup", "tool", "call", "await", "delete", "cleanup", "publish", "end"}
  /\ event \in Events \cup {NoEvent} /\ next \in Nat /\ next >= 1
  /\ recorded \subseteq Clusters /\ failed \in BOOLEAN
  /\ EventInv

JobTypes ==
  /\ job \in 0..MaxJobs /\ direction \in {"backup", "restore"} /\ config \in Seq(Sources)
  /\ tries \in 0..1 + BackoffLimit /\ outcome \in {"none", "succeeded", "failed"}
  /\ faults \in [1..MaxJobs -> Nat] /\ leaving \in BOOLEAN

DataTypes ==
  /\ volume \in [Paths -> SUBSET Item] /\ target \in [Targets -> SUBSET Item]
  /\ hydrated \in Events \cup {NoEvent} /\ disturbed \subseteq Events
  /\ spared \subseteq {s \in Sources : s.kind \in {"postgres", "s3"}}
  /\ snapshots \in [Events -> SnapshotOf \cup {NoSnapshot}]

ToolTypes ==
  /\ pods \in [Events -> {"none", "running", "terminating"}]
  /\ calls \in [Events -> Call \cup {NoCall}]
  /\ certs \in [Clusters -> Events \cup {NoEvent}]

TypeInv == StageTypes /\ JobTypes /\ DataTypes /\ ToolTypes

LEMMA TypesAreRight == TypeInv => TypeOK
  BY DEF TypeInv, TypeOK, StageTypes, JobTypes, DataTypes, ToolTypes

\* A fault is counted, and may leave something behind.
LEMMA FaultTypes ==
  ASSUME JobTypes, NEW leaves \in BOOLEAN, Fault(leaves)
  PROVE  faults' \in [1..MaxJobs -> Nat] /\ leaving' \in BOOLEAN
  <1>1. faults' \in [1..MaxJobs -> Nat]
    <2> DEFINE n == faults[job] + 1
    <2>1. job \in 1..MaxJobs => n \in Nat
      BY DEF JobTypes
    <2>2. faults' = [faults EXCEPT ![job] = n]
      BY DEF Fault
    <2> HIDE DEF n
    <2> QED
      BY <2>1, <2>2 DEF JobTypes
  <1>2. leaving' \in BOOLEAN
    BY Zenon DEF Fault, JobTypes
  <1> QED
    BY <1>1, <1>2

LEMMA EventsAre ==
  ASSUME NEW e \in Nat, NEW j \in 0..MaxJobs, e >= 1, e <= Attempts(j)
  PROVE  e \in Events
<1>1. Attempts(j) <= Attempts(MaxJobs) /\ Attempts(j) \in Nat /\ Attempts(MaxJobs) \in Nat
  BY AttemptsGrow, JobsAssumption
<1> QED BY <1>1 DEF Events, Attempts

LEMMA SourceIs ==
  ASSUME NEW s \in Sources
  PROVE  /\ s = [kind |-> s.kind, name |-> s.name, of |-> s.of]
         /\ Path(s) \in Paths
         /\ Target(s) \in Targets
         /\ s.kind = "postgres" => s.of \in Clusters
<1>1. PICK c \in Configs : s \in Range(c)
  BY DEF Sources
<1>2. c \in Seq(Source)
  BY JobsAssumption
<1>3. s \in Source
  BY <1>1, <1>2 DEF Range
<1> QED BY <1>3 DEF Source, Paths, Targets, Clusters

\* The source that the stage is at is one of the configurations'.
LEMMA CurrentIsSource ==
  ASSUME TypeInv, ~AtEnd
  PROVE  Current \in Sources /\ next \in 1..Len(config)
BY DEF TypeInv, StageTypes, JobTypes, DataTypes, ToolTypes, AtEnd, Current

\* What the application writes are items, its own.
LEMMA AppDataType == \A u \in Targets : AppData(u) \in SUBSET Item
BY DEF AppData, Live, Item

LEMMA NoCallIsNone == \A c \in Call : c # NoCall
BY DEF Call, NoCall

\* What a step of a transfer makes of captures are captures.
LEMMA TransferType ==
  ASSUME NEW call, NEW dst \in SUBSET Item, NEW src \in SUBSET Item
  PROVE  Transfer(call, dst, src) \in SUBSET Item
<1>1. /\ Prune(dst, src) \in SUBSET Item
      /\ Replace(dst, src) \in SUBSET Item
      /\ dst \cup Missing(dst, src) \in SUBSET Item /\ dst \cup src \in SUBSET Item
      /\ dst \ Prune(dst, src) \in SUBSET Item
  BY DEF Prune, Replace, Missing
<1>2. SyncFiles(call.step, dst, src) \in SUBSET Item
  BY <1>1 DEF SyncFiles
<1>3. SyncS3(call.step, call.direction, dst, src) \in SUBSET Item
  BY <1>1, Zenon DEF SyncS3
<1>4. TransferPostgres(call.step, call.direction, dst, src) \in SUBSET Item
  BY <1>1, Zenon DEF TransferPostgres
<1> QED BY <1>2, <1>3, <1>4, Zenon DEF Transfer

LEMMA LessType ==
  ASSUME NEW call, NEW dst \in SUBSET Item, NEW src \in SUBSET Item
  PROVE  TransferLess(call, dst, src) \in SUBSET Item
BY DEF TransferLess, Missing

\* A call that was cut is gone or goes on as it was.
LEMMA CutCalls ==
  ASSUME NEW call
  PROVE  AfterCut(call) \subseteq {NoCall, call}
<1>1. {NoCall} \cup (IF call.direction = "backup" /\ call.step = 2 THEN {call} ELSE {})
        \subseteq {NoCall, call}
  OBVIOUS
<1> QED BY <1>1, Zenon DEF AfterCut

LEMMA CutOffType ==
  ASSUME TypeInv, CutOff
  PROVE  /\ calls' \in [Events -> Call \cup {NoCall}]
         /\ \A e \in Events : e # event => calls'[e] = calls[e]
<1>1. PICK c \in AfterCut(calls[event]) : calls' = [calls EXCEPT ![event] = c]
  BY DEF CutOff
<1>2. c \in {NoCall, calls[event]}
  BY <1>1, CutCalls
<1> QED BY <1>1, <1>2 DEF TypeInv, StageTypes, JobTypes, DataTypes, ToolTypes

-----------------------------------------------------------------------------
\* The steps that change no more than the stage's position keep the types.

LEMMA AttemptType ==
  ASSUME TypeInv, NEW n, NEW c \in Seq(Sources), NEW j \in 0..MaxJobs,
         BeginAttempt(n, c), job' = j, n \in 1..1 + BackoffLimit,
         event + 2 + BackoffLimit <= Attempts(j) + n, j >= 1
  PROVE  /\ event' \in Events /\ tries' \in 0..1 + BackoffLimit
         /\ next' \in Nat /\ next' >= 1
         /\ recorded' \subseteq Clusters /\ failed' \in BOOLEAN
         /\ pc' = "setup" /\ config' \in Seq(Sources)
         /\ EventInv'
  <1>1. BackoffLimit \in Nat /\ Attempts(j) \in Nat /\ event \in Nat
    BY AttemptsGrow, JobsAssumption DEF TypeInv, StageTypes, JobTypes, DataTypes, ToolTypes, Events, NoEvent
  <1>2. event' = event + 1 /\ event' <= Attempts(j)
    BY <1>1 DEF BeginAttempt
  <1>3. event' \in Events
    BY <1>1, <1>2, EventsAre
  <1>4. EventInv'
    BY <1>1, <1>2 DEF BeginAttempt, EventInv
  <1>5. recorded' = {} /\ failed' = FALSE /\ next' = 1
    BY DEF BeginAttempt
  <1>6. pc' = "setup" /\ config' \in Seq(Sources)
    BY DEF BeginAttempt
  <1>7. tries' \in 0..1 + BackoffLimit
    BY <1>1 DEF BeginAttempt
  <1>8. next' \in Nat /\ next' >= 1 /\ recorded' \subseteq Clusters
    BY <1>5
  <1>9. failed' \in BOOLEAN
    BY <1>5
  <1> QED
    BY <1>3, <1>4, <1>6, <1>7, <1>8, <1>9

LEMMA TypesAtStart == TypeInv /\ StartJob => TypeInv'
  <1> SUFFICES ASSUME TypeInv, StartJob PROVE TypeInv'
    OBVIOUS
  <1>1. /\ job \in Nat /\ job + 1 \in 0..MaxJobs /\ job' = job + 1 /\ MaxJobs \in Nat
        /\ BackoffLimit \in Nat /\ event \in Nat
    BY JobsAssumption DEF StartJob, TypeInv, StageTypes, JobTypes, DataTypes, ToolTypes, Events, NoEvent
  <1>2. event + 2 + BackoffLimit <= Attempts(job + 1) + 1
    BY <1>1, AttemptsGrow DEF TypeInv, StageTypes, EventInv
  <1>3. \E c \in Seq(Sources) : BeginAttempt(1, c)
    BY RegistrationAssumption DEF StartJob
  <1>4. PICK c \in Seq(Sources) : BeginAttempt(1, c)
    BY <1>3
  <1>5. /\ event' \in Events /\ tries' \in 0..1 + BackoffLimit
        /\ next' \in Nat /\ next' >= 1
        /\ recorded' \subseteq Clusters /\ failed' \in BOOLEAN
        /\ pc' = "setup" /\ config' \in Seq(Sources)
        /\ EventInv'
    BY <1>1, <1>2, <1>4, AttemptType
  <1> QED
    BY <1>1, <1>5 DEF StartJob, TypeInv, StageTypes, JobTypes, DataTypes, ToolTypes, faultVars, toolVars, NoEvent

LEMMA TypesAtEnd == TypeInv /\ End => TypeInv'
  <1> SUFFICES ASSUME TypeInv, End PROVE TypeInv'
    OBVIOUS
  <1>1. BackoffLimit \in Nat /\ job \in 0..MaxJobs /\ tries \in 0..1 + BackoffLimit /\ event \in Nat
    BY JobsAssumption DEF TypeInv, StageTypes, JobTypes, DataTypes, ToolTypes, Events, NoEvent
  <1>2. CASE failed /\ tries <= BackoffLimit /\ Retry /\ UNCHANGED outcome
    <2>1. Attempts(job) \in Nat
      BY <1>1, AttemptsGrow, JobsAssumption
    <2>2. event + 2 + BackoffLimit <= Attempts(job) + (tries + 1) /\ job >= 1
      BY <1>1, <2>1 DEF End, TypeInv, StageTypes, EventInv
    <2>3. job' = job
      BY DEF End
    <2>5. PICK c \in Seq(Sources) : BeginAttempt(tries + 1, c)
      BY <1>2, RegistrationAssumption DEF Retry
    <2>4. /\ event' \in Events /\ tries' \in 0..1 + BackoffLimit
          /\ next' \in Nat /\ next' >= 1
          /\ recorded' \subseteq Clusters /\ failed' \in BOOLEAN
          /\ pc' = "setup" /\ config' \in Seq(Sources)
          /\ EventInv'
      BY <1>1, <1>2, <2>2, <2>3, <2>5, AttemptType DEF TypeInv, StageTypes, JobTypes, DataTypes, ToolTypes
    <2> QED
      BY <1>2, <2>4 DEF End, TypeInv, StageTypes, JobTypes, DataTypes, ToolTypes, dataVars, faultVars, toolVars
  <1>3. CASE pc' = "idle" /\ outcome' = (IF failed THEN "failed" ELSE "succeeded")
               /\ UNCHANGED <<stageVars, tries, config>>
    BY <1>3 DEF End, TypeInv, StageTypes, JobTypes, DataTypes, ToolTypes, EventInv, dataVars, faultVars, toolVars, stageVars, Attempts
  <1> QED
    BY <1>2, <1>3 DEF End

LEMMA TypesInHandler == ASSUME NEW e \in Events PROVE TypeInv /\ Handle(e) => TypeInv'
  <1> SUFFICES ASSUME TypeInv, Handle(e) PROVE TypeInv'
    OBVIOUS
  <1> DEFINE s == calls[e].source
  <1>1. calls[e] \in Call /\ calls[e].step \in {1, 2}
    BY DEF Handle, TypeInv, StageTypes, JobTypes, DataTypes, ToolTypes, Call
  <1>2. s \in Sources
    BY <1>1 DEF Call
  <1>3. calls' \in [Events -> Call \cup {NoCall}]
    <2>1. [calls[e] EXCEPT !.step = @ + 1] \in Call
      BY <1>1 DEF Call
    <2> QED
      BY <2>1 DEF Handle, TypeInv, StageTypes, JobTypes, DataTypes, ToolTypes
  <1>4. Path(s) \in Paths /\ Target(s) \in Targets
    BY <1>2, SourceIs
  <1>5. [source |-> s, event |-> e] \in Item
    BY <1>2 DEF Item
  <1>6. volume' \in [Paths -> SUBSET Item] /\ target' \in [Targets -> SUBSET Item]
    <2>1. volume[Path(s)] \in SUBSET Item /\ target[Target(s)] \in SUBSET Item
      BY <1>4 DEF TypeInv, StageTypes, JobTypes, DataTypes, ToolTypes
    <2>2. CASE volume' = [volume EXCEPT ![Path(s)] =
                            Transfer(calls[e], @, {[source |-> s, event |-> e]})]
               /\ UNCHANGED target
      <3>1. Transfer(calls[e], volume[Path(s)], {[source |-> s, event |-> e]}) \in SUBSET Item
        BY <1>5, <2>1, TransferType
      <3> QED
        BY <2>2, <3>1 DEF TypeInv, DataTypes
    <2>3. CASE target' = [target EXCEPT ![Target(s)] = Transfer(calls[e], @, volume[Path(s)])]
               /\ UNCHANGED volume
      <3>1. Transfer(calls[e], target[Target(s)], volume[Path(s)]) \in SUBSET Item
        BY <2>1, TransferType
      <3> QED
        BY <2>3, <3>1 DEF TypeInv, DataTypes
    <2>4. CASE target' = [target EXCEPT ![Target(s)] = TransferLess(calls[e], @, volume[Path(s)])]
               /\ UNCHANGED volume
      <3>1. TransferLess(calls[e], target[Target(s)], volume[Path(s)]) \in SUBSET Item
        BY <2>1, LessType
      <3> QED
        BY <2>4, <3>1 DEF TypeInv, DataTypes
    <2> QED
      BY <2>2, <2>3, <2>4 DEF Handle
  <1>8. spared' \subseteq {r \in Sources : r.kind \in {"postgres", "s3"}}
    <2>1. PassesOver(calls[e]) => s.kind \in {"postgres", "s3"}
      BY DEF PassesOver
    <2>2. spared' = spared \/ (PassesOver(calls[e]) /\ spared' = spared \cup {s})
      BY DEF Handle
    <2> QED
      BY <1>2, <2>1, <2>2 DEF TypeInv, DataTypes
  <1>7. disturbed' \subseteq Events
    BY DEF Handle, TypeInv, StageTypes, JobTypes, DataTypes, ToolTypes, EventInv, NoEvent, Events
  <1> QED
    BY <1>3, <1>6, <1>7, <1>8 DEF Handle, TypeInv, StageTypes, JobTypes, DataTypes, ToolTypes, EventInv, jobVars, stageVars, faultVars

\* Every step keeps the types.
LEMMA TypesStep == TypeInv /\ [Next]_vars => TypeInv'
  <1> SUFFICES ASSUME TypeInv, [Next]_vars PROVE TypeInv'
    OBVIOUS
  <1>0. /\ StageTypes /\ JobTypes /\ DataTypes /\ ToolTypes
        /\ BackoffLimit \in Nat /\ MaxJobs \in Nat
    BY JobsAssumption DEF TypeInv
  <1>1. CASE StartJob
    BY <1>1, TypesAtStart
  <1>2. CASE End
    BY <1>2, TypesAtEnd
  <1>3. CASE SetupOne
    <2>1. StageTypes'
      BY <1>0, <1>3 DEF SetupOne, Proceed, StageTypes, EventInv, JobTypes, jobVars
    <2>2. JobTypes'
      BY <1>0, <1>3 DEF SetupOne, JobTypes, jobVars, faultVars
    <2>3. DataTypes'
      BY <1>0, <1>3 DEF SetupOne, DataTypes, dataVars
    <2>4. ToolTypes'
      BY <1>0, <1>3 DEF SetupOne, ToolTypes, toolVars
    <2> QED
      BY <2>1, <2>2, <2>3, <2>4 DEF TypeInv
  <1>4. CASE CreateUserCert
    <2>1. Current \in Sources /\ Current.of \in Clusters /\ event \in Events
      BY <1>4, CurrentIsSource, SourceIs DEF CreateUserCert, MintsCertificate, TypeInv, StageTypes, JobTypes, DataTypes, ToolTypes, EventInv, NoEvent
    <2>2. StageTypes'
      <3>1. CASE certs[Current.of] = NoEvent
        BY <1>0, <1>4, <2>1, <3>1 DEF CreateUserCert, StageTypes, EventInv, JobTypes, jobVars
      <3>2. CASE certs[Current.of] # NoEvent
        BY <1>0, <1>4, <3>2 DEF CreateUserCert, FailTo, StageTypes, EventInv, JobTypes, jobVars
      <3> QED
        BY <3>1, <3>2
    <2>3. JobTypes'
      BY <1>0, <1>4 DEF CreateUserCert, JobTypes, jobVars, faultVars
    <2>4. DataTypes'
      BY <1>0, <1>4 DEF CreateUserCert, DataTypes, dataVars
    <2>5. ToolTypes'
      BY <1>0, <1>4, <2>1 DEF CreateUserCert, ToolTypes, toolVars
    <2> QED
      BY <2>2, <2>3, <2>4, <2>5 DEF TypeInv
  <1>5. CASE CreateUserCertFails
    <2>1. Current \in Sources /\ Current.of \in Clusters /\ event \in Events
      BY <1>5, CurrentIsSource, SourceIs DEF CreateUserCertFails, MintsCertificate, TypeInv, StageTypes, JobTypes, DataTypes, ToolTypes, EventInv, NoEvent
    <2>2. StageTypes'
      BY <1>0, <1>5 DEF CreateUserCertFails, FailTo, StageTypes, EventInv, JobTypes, jobVars
    <2>3. JobTypes'
      <3>1. \E leaves \in BOOLEAN : Fault(leaves)
        BY <1>5 DEF CreateUserCertFails
      <3>2. faults' \in [1..MaxJobs -> Nat] /\ leaving' \in BOOLEAN
        BY <1>0, <3>1, FaultTypes DEF JobTypes, faultVars
      <3> QED
        BY <1>0, <1>5, <3>2 DEF CreateUserCertFails, JobTypes, jobVars
    <2>4. DataTypes'
      BY <1>0, <1>5 DEF CreateUserCertFails, DataTypes, dataVars
    <2>5. ToolTypes'
      BY <1>0, <1>5, <2>1 DEF CreateUserCertFails, ToolTypes, toolVars
    <2> QED
      BY <2>2, <2>3, <2>4, <2>5 DEF TypeInv
  <1>6. CASE SetupFails
    <2>1. StageTypes'
      BY <1>0, <1>6 DEF SetupFails, FailTo, StageTypes, EventInv, JobTypes, jobVars
    <2>2. JobTypes'
      <3>1. \E leaves \in BOOLEAN : Fault(leaves)
        BY <1>6 DEF SetupFails
      <3>2. faults' \in [1..MaxJobs -> Nat] /\ leaving' \in BOOLEAN
        BY <1>0, <3>1, FaultTypes DEF JobTypes, faultVars
      <3> QED
        BY <1>0, <1>6, <3>2 DEF SetupFails, JobTypes, jobVars
    <2>3. DataTypes'
      BY <1>0, <1>6 DEF SetupFails, DataTypes, dataVars
    <2>4. ToolTypes'
      BY <1>0, <1>6 DEF SetupFails, ToolTypes, toolVars
    <2> QED
      BY <2>1, <2>2, <2>3, <2>4 DEF TypeInv
  <1>7. CASE SetupDone
    <2>1. StageTypes'
      BY <1>0, <1>7 DEF SetupDone, Proceed, StageTypes, EventInv, JobTypes, jobVars
    <2>2. JobTypes'
      BY <1>0, <1>7 DEF SetupDone, JobTypes, jobVars, faultVars
    <2>3. DataTypes'
      BY <1>0, <1>7 DEF SetupDone, DataTypes, dataVars
    <2>4. ToolTypes'
      BY <1>0, <1>7 DEF SetupDone, ToolTypes, toolVars
    <2> QED
      BY <2>1, <2>2, <2>3, <2>4 DEF TypeInv
  <1>8. CASE CreateTool
    <2>1. StageTypes'
      BY <1>0, <1>8 DEF CreateTool, Proceed, StageTypes, EventInv, JobTypes, jobVars
    <2>2. JobTypes'
      BY <1>0, <1>8 DEF CreateTool, JobTypes, jobVars, faultVars
    <2>3. DataTypes'
      BY <1>0, <1>8 DEF CreateTool, DataTypes, dataVars
    <2>4. ToolTypes'
      BY <1>0, <1>8 DEF CreateTool, ToolTypes
    <2> QED
      BY <2>1, <2>2, <2>3, <2>4 DEF TypeInv
  <1>9. CASE ToolIsNotReady
    <2>1. StageTypes'
      BY <1>0, <1>9 DEF ToolIsNotReady, FailTo, StageTypes, EventInv, JobTypes, jobVars
    <2>2. JobTypes'
      BY <1>0, <1>9 DEF ToolIsNotReady, JobTypes, jobVars, faultVars
    <2>3. DataTypes'
      BY <1>0, <1>9 DEF ToolIsNotReady, DataTypes, dataVars
    <2>4. ToolTypes'
      BY <1>0, <1>9 DEF ToolIsNotReady, ToolTypes, toolVars
    <2> QED
      BY <2>1, <2>2, <2>3, <2>4 DEF TypeInv
  <1>10. CASE CreateToolFails
    <2>1. StageTypes'
      BY <1>0, <1>10 DEF CreateToolFails, FailTo, StageTypes, EventInv, JobTypes, jobVars
    <2>2. JobTypes'
      <3>1. \E leaves \in BOOLEAN : Fault(leaves)
        BY <1>10 DEF CreateToolFails
      <3>2. faults' \in [1..MaxJobs -> Nat] /\ leaving' \in BOOLEAN
        BY <1>0, <3>1, FaultTypes DEF JobTypes, faultVars
      <3> QED
        BY <1>0, <1>10, <3>2 DEF CreateToolFails, JobTypes, jobVars
    <2>3. DataTypes'
      BY <1>0, <1>10 DEF CreateToolFails, DataTypes, dataVars
    <2>4. ToolTypes'
      BY <1>0, <1>10 DEF CreateToolFails, ToolTypes
    <2> QED
      BY <2>1, <2>2, <2>3, <2>4 DEF TypeInv
  <1>11. CASE Execute
    <2>1. [source |-> Current, direction |-> direction, step |-> 1] \in Call
      BY <1>11, CurrentIsSource DEF Execute, TypeInv, StageTypes, JobTypes, DataTypes, ToolTypes, Call
    <2>2. StageTypes'
      BY <1>0, <1>11 DEF Execute, Proceed, StageTypes, EventInv, JobTypes, jobVars
    <2>3. JobTypes'
      BY <1>0, <1>11 DEF Execute, JobTypes, jobVars, faultVars
    <2>4. DataTypes'
      BY <1>0, <1>11 DEF Execute, DataTypes, dataVars
    <2>5. ToolTypes'
      BY <1>0, <1>11, <2>1 DEF Execute, ToolTypes
    <2> QED
      BY <2>2, <2>3, <2>4, <2>5 DEF TypeInv
  <1>12. CASE Answer
    <2>1. StageTypes'
      BY <1>0, <1>12 DEF Answer, Proceed, StageTypes, EventInv, JobTypes, jobVars
    <2>2. JobTypes'
      BY <1>0, <1>12 DEF Answer, JobTypes, jobVars, faultVars
    <2>3. DataTypes'
      BY <1>0, <1>12 DEF Answer, DataTypes, dataVars
    <2>4. ToolTypes'
      BY <1>0, <1>12 DEF Answer, ToolTypes
    <2> QED
      BY <2>1, <2>2, <2>3, <2>4 DEF TypeInv
  <1>13. CASE CallFails
    <2>1. StageTypes'
      BY <1>0, <1>13 DEF CallFails, FailTo, StageTypes, EventInv, JobTypes, jobVars
    <2>2. JobTypes'
      <3>1. \E leaves \in BOOLEAN : Fault(leaves)
        BY <1>13 DEF CallFails
      <3>2. faults' \in [1..MaxJobs -> Nat] /\ leaving' \in BOOLEAN
        BY <1>0, <3>1, FaultTypes DEF JobTypes, faultVars
      <3> QED
        BY <1>0, <1>13, <3>2 DEF CallFails, JobTypes, jobVars
    <2>3. DataTypes'
      BY <1>0, <1>13 DEF CallFails, DataTypes, dataVars
    <2>4. ToolTypes'
      BY <1>0, <1>13 DEF CallFails, ToolTypes
    <2> QED
      BY <2>1, <2>2, <2>3, <2>4 DEF TypeInv
  <1>14. CASE CallIsCut
    <2>1. calls' \in [Events -> Call \cup {NoCall}]
      BY <1>14, CutOffType DEF CallIsCut
    <2>2. StageTypes'
      BY <1>0, <1>14 DEF CallIsCut, FailTo, StageTypes, EventInv, JobTypes, jobVars
    <2>3. JobTypes'
      <3>1. \E leaves \in BOOLEAN : Fault(leaves)
        BY <1>14 DEF CallIsCut
      <3>2. faults' \in [1..MaxJobs -> Nat] /\ leaving' \in BOOLEAN
        BY <1>0, <3>1, FaultTypes DEF JobTypes, faultVars
      <3> QED
        BY <1>0, <1>14, <3>2 DEF CallIsCut, JobTypes, jobVars
    <2>4. DataTypes'
      BY <1>0, <1>14 DEF CallIsCut, DataTypes, dataVars
    <2>5. ToolTypes'
      BY <1>0, <1>14, <2>1 DEF CallIsCut, ToolTypes
    <2> QED
      BY <2>2, <2>3, <2>4, <2>5 DEF TypeInv
  <1>15. CASE ExecuteDone
    <2>1. StageTypes'
      BY <1>0, <1>15 DEF ExecuteDone, Proceed, StageTypes, EventInv, JobTypes, jobVars
    <2>2. JobTypes'
      BY <1>0, <1>15 DEF ExecuteDone, JobTypes, jobVars, faultVars
    <2>3. DataTypes'
      BY <1>0, <1>15 DEF ExecuteDone, DataTypes, dataVars
    <2>4. ToolTypes'
      BY <1>0, <1>15 DEF ExecuteDone, ToolTypes, toolVars
    <2> QED
      BY <2>1, <2>2, <2>3, <2>4 DEF TypeInv
  <1>16. CASE DeleteTool
    <2>1. StageTypes'
      BY <1>0, <1>16 DEF DeleteTool, Proceed, StageTypes, EventInv, JobTypes, jobVars
    <2>2. JobTypes'
      <3>1. (\E leaves \in BOOLEAN : Fault(leaves)) \/ UNCHANGED faultVars
        BY <1>16 DEF DeleteTool
      <3>2. faults' \in [1..MaxJobs -> Nat] /\ leaving' \in BOOLEAN
        BY <1>0, <3>1, FaultTypes DEF JobTypes, faultVars
      <3> QED
        BY <1>0, <1>16, <3>2 DEF DeleteTool, JobTypes, jobVars
    <2>3. DataTypes'
      BY <1>0, <1>16 DEF DeleteTool, DataTypes, dataVars
    <2>4. ToolTypes'
      BY <1>0, <1>16 DEF DeleteTool, Deleted, ToolTypes
    <2> QED
      BY <2>1, <2>2, <2>3, <2>4 DEF TypeInv
  <1>17. CASE CleanUpOne
    <2>1. StageTypes'
      BY <1>0, <1>17 DEF CleanUpOne, StageTypes, EventInv, JobTypes, jobVars
    <2>2. JobTypes'
      <3>1. (\E leaves \in BOOLEAN : Fault(leaves)) \/ UNCHANGED faultVars
        BY <1>17 DEF CleanUpOne
      <3>2. faults' \in [1..MaxJobs -> Nat] /\ leaving' \in BOOLEAN
        BY <1>0, <3>1, FaultTypes DEF JobTypes, faultVars
      <3> QED
        BY <1>0, <1>17, <3>2 DEF CleanUpOne, JobTypes, jobVars
    <2>3. DataTypes'
      BY <1>0, <1>17 DEF CleanUpOne, DataTypes, dataVars
    <2>4. ToolTypes'
      BY <1>0, <1>17 DEF CleanUpOne, ToolTypes, toolVars
    <2> QED
      BY <2>1, <2>2, <2>3, <2>4 DEF TypeInv
  <1>18. CASE CleanUpDone
    <2>1. StageTypes'
      BY <1>0, <1>18 DEF CleanUpDone, Proceed, StageTypes, EventInv, JobTypes, jobVars
    <2>2. JobTypes'
      BY <1>0, <1>18 DEF CleanUpDone, JobTypes, jobVars, faultVars
    <2>3. DataTypes'
      BY <1>0, <1>18 DEF CleanUpDone, DataTypes, dataVars
    <2>4. ToolTypes'
      BY <1>0, <1>18 DEF CleanUpDone, ToolTypes, toolVars
    <2> QED
      BY <2>1, <2>2, <2>3, <2>4 DEF TypeInv
  <1>19. CASE Publish
    <2>1. Snapshot \in SnapshotOf
      BY <1>19 DEF Publish, Snapshot, SnapshotOf, TypeInv, StageTypes, JobTypes, DataTypes, ToolTypes
    <2>2. StageTypes'
      BY <1>0, <1>19 DEF Publish, Proceed, StageTypes, EventInv, JobTypes, jobVars
    <2>3. JobTypes'
      BY <1>0, <1>19 DEF Publish, JobTypes, jobVars, faultVars
    <2>4. DataTypes'
      BY <1>0, <1>19, <2>1 DEF Publish, DataTypes
    <2>5. ToolTypes'
      BY <1>0, <1>19 DEF Publish, ToolTypes, toolVars
    <2> QED
      BY <2>2, <2>3, <2>4, <2>5 DEF TypeInv
  <1>20. CASE PublishFails
    <2>1. Snapshot \in SnapshotOf
      BY <1>20 DEF PublishFails, Snapshot, SnapshotOf, TypeInv, StageTypes, JobTypes, DataTypes, ToolTypes
    <2>2. StageTypes'
      BY <1>0, <1>20 DEF PublishFails, FailTo, StageTypes, EventInv, JobTypes, jobVars
    <2>3. JobTypes'
      <3>1. \E leaves \in BOOLEAN : Fault(leaves)
        BY <1>20 DEF PublishFails
      <3>2. faults' \in [1..MaxJobs -> Nat] /\ leaving' \in BOOLEAN
        BY <1>0, <3>1, FaultTypes DEF JobTypes, faultVars
      <3> QED
        BY <1>0, <1>20, <3>2 DEF PublishFails, JobTypes, jobVars
    <2>4. DataTypes'
      BY <1>0, <1>20, <2>1 DEF PublishFails, DataTypes
    <2>5. ToolTypes'
      BY <1>0, <1>20 DEF PublishFails, ToolTypes, toolVars
    <2> QED
      BY <2>2, <2>3, <2>4, <2>5 DEF TypeInv
  <1>21. CASE Kill
    <2>1. calls' \in [Events -> Call \cup {NoCall}]
      BY <1>21, CutOffType DEF Kill
    <2>2. StageTypes'
      BY <1>0, <1>21 DEF Kill, FailTo, StageTypes, EventInv, JobTypes, jobVars
    <2>3. JobTypes'
      <3>1. \E leaves \in BOOLEAN : Fault(leaves)
        BY <1>21 DEF Kill
      <3>2. faults' \in [1..MaxJobs -> Nat] /\ leaving' \in BOOLEAN
        BY <1>0, <3>1, FaultTypes DEF JobTypes, faultVars
      <3> QED
        BY <1>0, <1>21, <3>2 DEF Kill, JobTypes, jobVars
    <2>4. DataTypes'
      BY <1>0, <1>21 DEF Kill, DataTypes, dataVars
    <2>5. ToolTypes'
      BY <1>0, <1>21, <2>1 DEF Kill, ToolTypes
    <2> QED
      BY <2>2, <2>3, <2>4, <2>5 DEF TypeInv
  <1>22. CASE Hydrate
    <2>1. StageTypes'
      BY <1>0, <1>22 DEF Hydrate, StageTypes, EventInv, JobTypes, stageVars, NoEvent
    <2>2. JobTypes'
      BY <1>0, <1>22 DEF Hydrate, JobTypes, faultVars, NoEvent
    <2>3. DataTypes'
      <3>1. PICK e \in Events :
              snapshots[e] # NoSnapshot /\ volume' = snapshots[e].content /\ hydrated' = e
        BY <1>22 DEF Hydrate
      <3>2. snapshots[e] \in SnapshotOf
        BY <1>0, <3>1 DEF DataTypes
      <3>3. snapshots[e].content \in [Paths -> SUBSET Item]
        BY <3>2 DEF SnapshotOf
      <3> QED
        BY <1>0, <1>22, <3>1, <3>3 DEF Hydrate, DataTypes
    <2>4. ToolTypes'
      BY <1>0, <1>22 DEF Hydrate, ToolTypes, toolVars, NoEvent
    <2> QED
      BY <2>1, <2>2, <2>3, <2>4 DEF TypeInv
  <1>25. CASE GroupIsRefused
    <2>1. StageTypes'
      BY <1>0, <1>25 DEF GroupIsRefused, FailTo, StageTypes, EventInv, JobTypes, jobVars
    <2>2. faults' \in [1..MaxJobs -> Nat]
      <3> DEFINE n == faults[job] + 1
      <3>1. job \in 1..MaxJobs => n \in Nat
        BY <1>0 DEF JobTypes
      <3>2. faults' = [faults EXCEPT ![job] = n]
        BY <1>25 DEF GroupIsRefused
      <3> HIDE DEF n
      <3> QED
        BY <1>0, <3>1, <3>2 DEF JobTypes
    <2>3. JobTypes'
      BY <1>0, <1>25, <2>2 DEF GroupIsRefused, JobTypes, jobVars
    <2>4. DataTypes'
      BY <1>0, <1>25 DEF GroupIsRefused, DataTypes, dataVars
    <2>5. ToolTypes'
      BY <1>0, <1>25 DEF GroupIsRefused, ToolTypes, toolVars
    <2> QED
      BY <2>1, <2>3, <2>4, <2>5 DEF TypeInv
  <1>26. CASE ApplicationWrites
    <2>1. StageTypes'
      BY <1>0, <1>26 DEF ApplicationWrites, StageTypes, EventInv, JobTypes, stageVars
    <2>2. JobTypes'
      BY <1>0, <1>26 DEF ApplicationWrites, JobTypes, faultVars
    <2>3. DataTypes'
      BY <1>0, <1>26, AppDataType DEF ApplicationWrites, DataTypes
    <2>4. ToolTypes'
      BY <1>0, <1>26 DEF ApplicationWrites, ToolTypes, toolVars
    <2> QED
      BY <2>1, <2>2, <2>3, <2>4 DEF TypeInv
  <1>23. CASE UNCHANGED vars
    BY <1>23 DEF TypeInv, StageTypes, JobTypes, DataTypes, ToolTypes, EventInv, vars, jobVars, stageVars, faultVars, dataVars, toolVars
  <1>24. CASE ToolPods
    <2>1. PICK e \in Events : Handle(e) \/ Forget(e) \/ PodEnds(e)
      BY <1>24 DEF ToolPods
    <2>2. CASE Handle(e)
      BY <2>2, TypesInHandler
    <2>3. CASE Forget(e) \/ PodEnds(e)
      BY <2>3 DEF Forget, PodEnds, TypeInv, StageTypes, JobTypes, DataTypes, ToolTypes, EventInv, jobVars, stageVars, faultVars, dataVars
    <2> QED
      BY <2>1, <2>2, <2>3
  <1> QED
    BY <1>1, <1>2, <1>3, <1>4, <1>5, <1>6, <1>7, <1>8, <1>9, <1>10, <1>11, <1>12, <1>13, <1>14, <1>15, <1>16, <1>17, <1>18, <1>19, <1>20, <1>21, <1>22, <1>23, <1>24, <1>25, <1>26 DEF Next, Orchestrator, Done

LEMMA TypesAtInit == Init => TypeInv
  <1> SUFFICES ASSUME Init PROVE TypeInv
    OBVIOUS
  <1>1. Attempts(0) = 0 /\ BackoffLimit \in Nat /\ MaxJobs \in Nat
    BY JobsAssumption DEF Attempts
  <1>3. StageTypes
    <2>1. pc = "idle" /\ event = 0 /\ next = 1 /\ recorded = {} /\ failed = FALSE /\ job = 0
      BY DEF Init, NoEvent
    <2>2. EventInv
      BY <1>1, <2>1 DEF EventInv
    <2>3. failed \in BOOLEAN /\ recorded \subseteq Clusters
      BY <2>1
    <2>4. event \in Events \cup {NoEvent} /\ next \in Nat /\ next >= 1
      BY <2>1 DEF NoEvent
    <2> QED
      BY <2>1, <2>2, <2>3, <2>4 DEF StageTypes
  <1>4. JobTypes
    <2>1. job = 0 /\ direction = "backup" /\ config = <<>> /\ tries = 0 /\ outcome = "none"
      BY DEF Init
    <2>2. faults \in [1..MaxJobs -> Nat] /\ leaving = FALSE
      BY DEF Init
    <2>3. job \in 0..MaxJobs /\ tries \in 0..1 + BackoffLimit /\ config \in Seq(Sources)
      BY <1>1, <2>1
    <2>4. leaving \in BOOLEAN
      BY <2>2
    <2> QED
      BY <2>1, <2>2, <2>3, <2>4 DEF JobTypes
  <1>5. DataTypes /\ ToolTypes
    BY AppDataType DEF Init, DataTypes, ToolTypes, NoEvent
  <1> QED
    BY <1>3, <1>4, <1>5 DEF TypeInv

\* The state of the Jobs is what it should be, and no Job has more attempts than its limit.
THEOREM TypeCorrectness == Spec => []TypeOK
  <1> QED
    BY TypesAreRight, TypesAtInit, TypesStep, PTL DEF Spec

-----------------------------------------------------------------------------
\* User certificates.

\* What an attempt has recorded is its own.
RecordedInv == \A c \in recorded : certs[c] = event

\* What the steps that touch no user certificate leave alone.
LEMMA CertsAreKept ==
  ASSUME \/ SetupOne \/ SetupFails \/ SetupDone \/ CreateTool \/ ToolIsNotReady \/ CreateToolFails
         \/ Execute \/ Answer \/ CallFails \/ CallIsCut \/ ExecuteDone \/ DeleteTool \/ CleanUpDone
         \/ Publish \/ PublishFails \/ Kill \/ Hydrate \/ ToolPods
         \/ GroupIsRefused \/ ApplicationWrites
  PROVE  UNCHANGED <<event, recorded, certs>>
  <1>1. CASE SetupOne \/ SetupFails \/ SetupDone \/ CleanUpDone \/ ExecuteDone
    BY <1>1 DEF SetupOne, SetupFails, SetupDone, CleanUpDone, ExecuteDone, Proceed, FailTo
  <1>2. CASE CreateTool \/ ToolIsNotReady \/ CreateToolFails \/ DeleteTool
    BY <1>2 DEF CreateTool, ToolIsNotReady, CreateToolFails, DeleteTool, Proceed, FailTo
  <1>3. CASE Execute \/ GroupIsRefused \/ Answer \/ CallFails \/ CallIsCut \/ Kill
    BY <1>3 DEF Execute, GroupIsRefused, Answer, CallFails, CallIsCut, Kill, Proceed, FailTo
  <1>4. CASE Publish \/ PublishFails \/ Hydrate \/ ApplicationWrites
    BY <1>4 DEF Publish, PublishFails, Hydrate, ApplicationWrites, Proceed, FailTo, stageVars
  <1>5. CASE ToolPods
    BY <1>5 DEF ToolPods, Handle, Forget, PodEnds, stageVars
  <1> QED
    BY <1>1, <1>2, <1>3, <1>4, <1>5

LEMMA RecordedStep == TypeInv /\ RecordedInv /\ [Next]_vars => RecordedInv'
  <1> SUFFICES ASSUME TypeInv, RecordedInv, [Next]_vars PROVE RecordedInv'
    OBVIOUS
  <1>0. recorded \subseteq Clusters /\ certs \in [Clusters -> Events \cup {NoEvent}]
    BY DEF TypeInv, StageTypes, ToolTypes
  <1>1. CASE StartJob
    BY <1>1 DEF StartJob, BeginAttempt, RecordedInv
  <1>2. CASE End
    BY <1>2 DEF End, Retry, BeginAttempt, RecordedInv, stageVars
  <1>3. CASE CreateUserCert
    <2>1. Current.of \in Clusters
      BY <1>3, CurrentIsSource, SourceIs DEF CreateUserCert, MintsCertificate
    <2>2. CASE certs[Current.of] = NoEvent
      BY <1>0, <1>3, <2>1, <2>2 DEF CreateUserCert, RecordedInv
    <2>3. CASE certs[Current.of] # NoEvent
      BY <1>3, <2>3 DEF CreateUserCert, FailTo, RecordedInv
    <2> QED
      BY <2>2, <2>3
  <1>4. CASE CreateUserCertFails
    <2>1. event # NoEvent
      BY <1>4 DEF CreateUserCertFails, TypeInv, StageTypes, EventInv, NoEvent
    <2>2. UNCHANGED <<event, recorded>>
      BY <1>4 DEF CreateUserCertFails, FailTo
    <2>3. CASE UNCHANGED certs
      BY <2>2, <2>3 DEF RecordedInv
    <2>4. CASE certs[Current.of] = NoEvent /\ certs' = [certs EXCEPT ![Current.of] = event]
      BY <1>0, <2>1, <2>2, <2>4 DEF RecordedInv
    <2> QED
      BY <1>4, <2>3, <2>4 DEF CreateUserCertFails
  <1>5. CASE CleanUpOne
    BY <1>0, <1>5 DEF CleanUpOne, RecordedInv
  <1>6. CASE \/ SetupOne \/ SetupFails \/ SetupDone \/ CreateTool \/ ToolIsNotReady \/ CreateToolFails
             \/ Execute \/ Answer \/ CallFails \/ CallIsCut \/ ExecuteDone \/ DeleteTool \/ CleanUpDone
             \/ Publish \/ PublishFails \/ Kill \/ Hydrate \/ ToolPods
             \/ GroupIsRefused \/ ApplicationWrites
    BY <1>6, CertsAreKept DEF RecordedInv
  <1>7. CASE UNCHANGED vars
    BY <1>7 DEF RecordedInv, vars, stageVars
  <1> QED
    BY <1>1, <1>2, <1>3, <1>4, <1>5, <1>6, <1>7 DEF Next, Orchestrator, Done

LEMMA RecordedAlways == Spec => [](TypeInv /\ RecordedInv)
  <1>1. Init => RecordedInv
    BY DEF Init, RecordedInv
  <1> QED
    BY <1>1, TypesAtInit, TypesStep, RecordedStep, PTL DEF Spec

\* No attempt of any Job deletes a user certificate that another one created, though all use
\* the same name.
THEOREM OthersKeepTheirs == Spec => DeletesOnlyItsOwn
  <1> DEFINE OwnOnly == \A c \in Clusters : certs'[c] # certs[c] => certs[c] \in {NoEvent, event}
  <1>1. TypeInv /\ RecordedInv /\ [Next]_vars => [OwnOnly]_vars
    <2> SUFFICES ASSUME TypeInv, RecordedInv, Next PROVE OwnOnly
      OBVIOUS
    <2>0. recorded \subseteq Clusters /\ certs \in [Clusters -> Events \cup {NoEvent}]
      BY DEF TypeInv, StageTypes, ToolTypes
    <2>1. CASE CreateUserCert
      BY <2>0, <2>1 DEF CreateUserCert
    <2>2. CASE CreateUserCertFails
      BY <2>0, <2>2 DEF CreateUserCertFails
    <2>3. CASE CleanUpOne
      BY <2>0, <2>3 DEF CleanUpOne, DeletableBy, RecordedInv
    <2>4. CASE StartJob \/ End \/ Done
      BY <2>4 DEF StartJob, End, Done, vars
    <2>5. CASE \/ SetupOne \/ SetupFails \/ SetupDone \/ CreateTool \/ ToolIsNotReady \/ CreateToolFails
               \/ Execute \/ Answer \/ CallFails \/ CallIsCut \/ ExecuteDone \/ DeleteTool \/ CleanUpDone
               \/ Publish \/ PublishFails \/ Kill \/ Hydrate \/ ToolPods
             \/ GroupIsRefused \/ ApplicationWrites
      BY <2>5, CertsAreKept
    <2> QED
      BY <2>1, <2>2, <2>3, <2>4, <2>5 DEF Next, Orchestrator
  <1> QED
    BY <1>1, RecordedAlways, PTL DEF Spec, DeletesOnlyItsOwn

-----------------------------------------------------------------------------
\* Backups.

\* No two sources of a configuration are kept at the same path.
Separate(c) == \A i, j \in 1..Len(c) : i # j => Path(c[i]) # Path(c[j])

PathsDiffer == \A c \in Configs : Validate(c) => Separate(Registered(c))

ConfigInv == direction = "backup" => Separate(config)

\* Whom the orchestrator waits for: the handler of the source that it is at, and no one else
\* while nothing has failed.
StepInv ==
  /\ \A e \in Events : e > event => calls[e] = NoCall
  /\ pc \in {"call", "await"} => pods[event] = "running"
  /\ pc \in {"setup", "tool", "call", "await", "publish"} => ~failed
  /\ pc = "await" =>
       /\ next <= Len(config)
       /\ calls[event] \in Call
       /\ calls[event].source = config[next] /\ calls[event].direction = direction
  /\ ~failed /\ event # NoEvent /\ pc # "await" => calls[event] = NoCall
  /\ ~failed /\ pc \in {"delete", "cleanup", "publish"} => next > Len(config)
  /\ pc = "publish" => direction = "backup"

\* What a path holds when its capture has come half way.
PartlyWritten(content, s) ==
  IF s.kind = "postgres" THEN content = {}
  ELSE IF s.kind = "s3" THEN \E x \in content : x.source = s
       ELSE \A x \in content : x.source = s

Progress(content, s, e, step) ==
  /\ step = 2 => PartlyWritten(content, s)
  /\ step = 3 => HoldsCapture(content, s, e)

\* The event's backup so far.
CaptureInv ==
  direction = "backup" /\ ~failed /\ event \notin disturbed =>
    /\ pc \in {"call", "await", "delete", "cleanup", "publish"} =>
         \A i \in 1..Len(config) :
           i < next => HoldsCapture(volume[Path(config[i])], config[i], event)
    /\ pc = "await" =>
         Progress(volume[Path(config[next])], config[next], event, calls[event].step)

BackupInv == ConfigInv /\ StepInv /\ CaptureInv /\ PublishedIsOwnCapture

\* Each step of a backup's handler brings its path nearer to the capture.
LEMMA CaptureProgresses ==
  ASSUME NEW s \in Sources, NEW e \in Events, NEW call \in Call, NEW dst \in SUBSET Item,
         call.source = s, call.direction = "backup", call.step \in {1, 2},
         Progress(dst, s, e, call.step)
  PROVE  Progress(Transfer(call, dst, {[source |-> s, event |-> e]}), s, e, call.step + 1)
  <1> DEFINE item == [source |-> s, event |-> e]
             result == Transfer(call, dst, {item})
  <1>0. item.source = s
    OBVIOUS
  <1>1. CASE s.kind = "postgres"
    <2>1. result = TransferPostgres(call.step, call.direction, dst, {item})
      BY <1>1, Zenon DEF Transfer
    <2>2. ASSUME call.step = 1 PROVE result = {}
      BY <2>1, <2>2 DEF TransferPostgres
    <2>3. ASSUME call.step = 2 PROVE result = {item}
      <3>1. dst = {}
        BY <1>1, <2>3 DEF Progress, PartlyWritten
      <3> QED
        BY <2>1, <2>3, <3>1 DEF TransferPostgres, Replace
    <2> QED
      BY <1>1, <2>2, <2>3 DEF Progress, PartlyWritten, HoldsCapture
  <1>2. CASE s.kind = "s3"
    <2>1. result = SyncS3(call.step, call.direction, dst, {item})
      BY <1>2, Zenon DEF Transfer
    <2>2. ASSUME call.step = 1 PROVE \E x \in result : x.source = s
      <3>1. result = dst \cup Missing(dst, {item})
        BY <2>1, <2>2 DEF SyncS3
      <3> HIDE DEF result
      <3> QED
        BY <1>0, <3>1 DEF Missing, SameFile
    <2>3. ASSUME call.step = 2 PROVE result # {} /\ \A x \in result : x.source = s
      <3>1. PICK x \in dst : x.source = s
        BY <1>2, <2>3 DEF Progress, PartlyWritten
      <3>2. result = Prune(dst, {item})
        BY <2>1, <2>3 DEF SyncS3
      <3> HIDE DEF result
      <3> QED
        BY <1>0, <3>1, <3>2 DEF Prune, SameFile
    <2> QED
      BY <1>2, <2>2, <2>3 DEF Progress, PartlyWritten, HoldsCapture
  <1>3. CASE s.kind \notin {"postgres", "s3"}
    <2>1. result = SyncFiles(call.step, dst, {item})
      BY <1>3, Zenon DEF Transfer
    <2>2. ASSUME call.step = 1 PROVE \A x \in result : x.source = s
      BY <1>0, <2>1, <2>2 DEF SyncFiles, Prune, SameFile
    <2>3. ASSUME call.step = 2 PROVE result = {item}
      <3>1. \A x \in dst : x.source = s
        BY <1>3, <2>3 DEF Progress, PartlyWritten
      <3> QED
        BY <1>0, <2>1, <2>3, <3>1 DEF SyncFiles, Replace, SameFile
    <2> QED
      BY <1>3, <2>2, <2>3 DEF Progress, PartlyWritten, HoldsCapture
  <1> QED
    BY <1>1, <1>2, <1>3

LEMMA ConfigStep == PathsDiffer /\ TypeInv /\ ConfigInv /\ [Next]_vars => ConfigInv'
  <1> SUFFICES ASSUME PathsDiffer, TypeInv, ConfigInv, [Next]_vars PROVE ConfigInv'
    OBVIOUS
  <1>1. CASE StartJob
    BY <1>1 DEF StartJob, BeginAttempt, ConfigInv, PathsDiffer
  <1>2. CASE End
    BY <1>2 DEF End, Retry, BeginAttempt, ConfigInv, PathsDiffer
  <1>3. CASE ~StartJob /\ ~End
    <2>1. UNCHANGED <<direction, config>>
      BY <1>3 DEF Next, Orchestrator, ToolPods, vars, jobVars, Done,
        SetupOne, CreateUserCert, CreateUserCertFails, SetupFails, SetupDone, CreateTool,
        ToolIsNotReady, CreateToolFails, Execute, Answer, CallFails, CallIsCut,
        ExecuteDone, DeleteTool, CleanUpOne, CleanUpDone, Publish, PublishFails, Kill,
        Hydrate, GroupIsRefused,
        ApplicationWrites, Handle, Forget, PodEnds
    <2> QED
      BY <2>1 DEF ConfigInv
  <1> QED
    BY <1>1, <1>2, <1>3

LEMMA StepInvStep == TypeInv /\ StepInv /\ [Next]_vars => StepInv'
  <1> SUFFICES ASSUME TypeInv, StepInv, [Next]_vars PROVE StepInv'
    OBVIOUS
  <1>0. /\ event \in Nat /\ event \in Events \cup {NoEvent} /\ next \in Nat /\ next >= 1
        /\ pc # "idle" => event \in Events
        /\ direction \in {"backup", "restore"}
        /\ pods \in [Events -> {"none", "running", "terminating"}]
        /\ calls \in [Events -> Call \cup {NoCall}]
    BY DEF TypeInv, StageTypes, JobTypes, ToolTypes, EventInv, Events, NoEvent
  <1>1. CASE StartJob \/ End
    <2>1. CASE event' = event + 1 /\ pc' = "setup" /\ failed' = FALSE
      BY <1>0, <1>1, <2>1, TypesStep DEF StartJob, End, StepInv, toolVars, TypeInv, StageTypes, NoEvent
    <2>2. CASE pc' = "idle" /\ UNCHANGED <<event, next, failed>>
      BY <1>1, <2>2 DEF StartJob, End, Retry, BeginAttempt, StepInv, toolVars, stageVars
    <2> QED
      BY <1>1, <2>1, <2>2 DEF StartJob, End, Retry, BeginAttempt, stageVars
  <1>2. CASE SetupOne
    BY <1>0, <1>2 DEF SetupOne, Proceed, StepInv, jobVars, toolVars
  <1>3. CASE CreateUserCert
    BY <1>0, <1>3 DEF CreateUserCert, FailTo, StepInv, jobVars, toolVars
  <1>4. CASE CreateUserCertFails
    BY <1>0, <1>4 DEF CreateUserCertFails, FailTo, StepInv, jobVars, toolVars
  <1>5. CASE SetupFails
    BY <1>0, <1>5 DEF SetupFails, FailTo, StepInv, jobVars, toolVars
  <1>6. CASE SetupDone
    BY <1>0, <1>6 DEF SetupDone, Proceed, AtEnd, StepInv, jobVars, toolVars
  <1>7. CASE CreateTool
    BY <1>0, <1>7 DEF CreateTool, Proceed, StepInv, jobVars
  <1>8. CASE ToolIsNotReady
    BY <1>0, <1>8 DEF ToolIsNotReady, FailTo, StepInv, jobVars, toolVars
  <1>9. CASE CreateToolFails
    BY <1>0, <1>9 DEF CreateToolFails, FailTo, StepInv, jobVars
  <1>10. CASE Execute
    <2>1. [source |-> Current, direction |-> direction, step |-> 1] \in Call
      BY <1>0, <1>10, CurrentIsSource DEF Execute, Call
    <2> QED
      BY <1>0, <1>10, <2>1 DEF Execute, Proceed, AtEnd, Current, StepInv, jobVars
  <1>11. CASE Answer
    BY <1>0, <1>11 DEF Answer, Proceed, StepInv, jobVars
  <1>12. CASE CallFails
    BY <1>0, <1>12 DEF CallFails, FailTo, StepInv, jobVars
  <1>13. CASE CallIsCut
    <2>1. \A e \in Events : e # event => calls'[e] = calls[e]
      BY <1>13, CutOffType DEF CallIsCut
    <2> QED
      BY <1>0, <1>13, <2>1 DEF CallIsCut, FailTo, StepInv, jobVars
  <1>14. CASE ExecuteDone
    BY <1>0, <1>14 DEF ExecuteDone, Proceed, AtEnd, StepInv, jobVars, toolVars
  <1>15. CASE DeleteTool
    BY <1>0, <1>15 DEF DeleteTool, Proceed, StepInv, jobVars
  <1>16. CASE CleanUpOne
    <2>1. pc = "cleanup" /\ UNCHANGED <<pc, event, next, config, direction, pods, calls>>
      BY <1>16 DEF CleanUpOne, jobVars, toolVars
    <2>2. CASE UNCHANGED failed
      BY <2>1, <2>2 DEF StepInv
    <2>3. CASE failed'
      BY <2>1, <2>3 DEF StepInv
    <2> QED
      BY <1>16, <2>2, <2>3 DEF CleanUpOne
  <1>17. CASE CleanUpDone
    BY <1>0, <1>17 DEF CleanUpDone, Proceed, StepInv, jobVars, toolVars
  <1>18. CASE Publish
    BY <1>0, <1>18 DEF Publish, Proceed, StepInv, jobVars, toolVars
  <1>19. CASE PublishFails
    BY <1>0, <1>19 DEF PublishFails, FailTo, StepInv, jobVars, toolVars
  <1>20. CASE Kill
    <2>1. \A e \in Events : e # event => calls'[e] = calls[e]
      BY <1>20, CutOffType DEF Kill
    <2> QED
      BY <1>0, <1>20, <2>1 DEF Kill, FailTo, StepInv, jobVars
  <1>21. CASE Hydrate
    BY <1>0, <1>21 DEF Hydrate, StepInv, stageVars, toolVars
  <1>24. CASE ApplicationWrites
    BY <1>0, <1>24 DEF ApplicationWrites, StepInv, stageVars, toolVars
  <1>25. CASE GroupIsRefused
    BY <1>0, <1>25 DEF GroupIsRefused, FailTo, StepInv, jobVars, toolVars
  <1>22. CASE ToolPods
    <2>1. PICK e \in Events : Handle(e) \/ Forget(e) \/ PodEnds(e)
      BY <1>22 DEF ToolPods
    <2>2. UNCHANGED <<pc, event, next, failed, config, direction>>
      BY <2>1 DEF Handle, Forget, PodEnds, stageVars, jobVars
    <2>3. CASE Handle(e)
      <3>1. calls[e] \in Call /\ calls[e] # NoCall /\ calls[e].step \in {1, 2} /\ UNCHANGED pods
        BY <1>0, <2>3 DEF Handle, Call
      <3> DEFINE c == [calls[e] EXCEPT !.step = @ + 1]
      <3>2. calls' = [calls EXCEPT ![e] = c]
        BY <2>3 DEF Handle
      <3>3. c \in Call /\ c.source = calls[e].source /\ c.direction = calls[e].direction
        BY <3>1 DEF Call
      <3> HIDE DEF c
      <3>4. e <= event /\ (e = event => pc = "await" \/ failed)
        BY <1>0, <3>1 DEF StepInv, Events, NoEvent
      <3> QED
        BY <1>0, <2>2, <3>1, <3>2, <3>3, <3>4 DEF StepInv, Events
    <2>4. CASE Forget(e)
      BY <1>0, <2>2, <2>4 DEF Forget, StepInv
    <2>5. CASE PodEnds(e)
      BY <1>0, <2>2, <2>5 DEF PodEnds, StepInv
    <2> QED
      BY <2>1, <2>3, <2>4, <2>5
  <1>23. CASE UNCHANGED vars
    BY <1>23 DEF StepInv, vars, jobVars, stageVars, toolVars
  <1> QED
    BY <1>1, <1>2, <1>3, <1>4, <1>5, <1>6, <1>7, <1>8, <1>9, <1>10, <1>11, <1>12, <1>13, <1>14, <1>15, <1>16, <1>17, <1>18, <1>19, <1>20, <1>21, <1>22, <1>23, <1>24, <1>25 DEF Next, Orchestrator, Done

LEMMA CaptureInHandler ==
  ASSUME NEW e \in Events, TypeInv, ConfigInv, StepInv, CaptureInv, Handle(e)
  PROVE  CaptureInv'
  <1>1. /\ UNCHANGED <<pc, event, next, failed, config, direction>>
        /\ disturbed \subseteq disturbed'
    BY DEF Handle, stageVars, jobVars
  <1>2. CASE failed \/ direction # "backup" \/ pc \in {"idle", "end"} \/ event \in disturbed'
    BY <1>1, <1>2 DEF CaptureInv
  <1>3. CASE ~failed /\ direction = "backup" /\ pc \notin {"idle", "end"} /\ event \notin disturbed'
    <2>1. e = event /\ event \notin disturbed
      BY <1>1, <1>3 DEF Handle
    <2> DEFINE s == config[next]
               c == calls[event]
    <2>2. c # NoCall /\ c.step < 3
      BY <2>1 DEF Handle
    <2>3. pc = "await" /\ next \in 1..Len(config) /\ c \in Call /\ c.source = s /\ c.direction = "backup"
      BY <1>3, <2>1, <2>2 DEF StepInv, TypeInv, StageTypes, Events, NoEvent
    <2>4. s \in Sources /\ config \in Seq(Sources) /\ c.step \in {1, 2}
      BY <2>2, <2>3 DEF TypeInv, JobTypes, Call
    <2> DEFINE new == Transfer(c, volume[Path(s)], {[source |-> s, event |-> event]})
    <2>5. volume' = [volume EXCEPT ![Path(s)] = new]
      BY <2>1, <2>3 DEF Handle, PassesOver
    <2>6. calls'[event].step = c.step + 1
      BY <2>1, <2>2, <2>3 DEF Handle, TypeInv, ToolTypes, Call
    <2>7. Path(s) \in Paths /\ volume \in [Paths -> SUBSET Item]
      BY <2>4, SourceIs DEF TypeInv, DataTypes
    <2>8. Progress(new, s, event, c.step + 1)
      <3>1. Progress(volume[Path(s)], s, event, c.step)
        BY <1>3, <2>1, <2>3 DEF CaptureInv
      <3> QED
        BY <2>1, <2>3, <2>4, <2>7, <3>1, CaptureProgresses
    <2> HIDE DEF new
    <2>9. ASSUME NEW i \in 1..Len(config), i < next
          PROVE  HoldsCapture(volume'[Path(config[i])], config[i], event)
      <3>1. Path(config[i]) # Path(s)
        BY <1>3, <2>3, <2>9 DEF ConfigInv, Separate
      <3>2. config[i] \in Sources
        BY <2>4
      <3>3. Path(config[i]) \in Paths
        BY <3>2, SourceIs
      <3>4. HoldsCapture(volume[Path(config[i])], config[i], event)
        BY <1>3, <2>1, <2>3, <2>9 DEF CaptureInv
      <3>5. volume'[Path(config[i])] = volume[Path(config[i])]
        BY <2>5, <2>7, <3>1, <3>3
      <3> QED
        BY <3>4, <3>5
    <2>10. volume'[Path(s)] = new
      BY <2>5, <2>7
    <2>11. Progress(volume'[Path(s)], s, event, calls'[event].step)
      BY <2>6, <2>8, <2>10
    <2> QED
      BY <1>1, <2>9, <2>11 DEF CaptureInv
  <1> QED
    BY <1>2, <1>3 DEF TypeInv, JobTypes

LEMMA CaptureStep ==
  TypeInv /\ ConfigInv /\ StepInv /\ CaptureInv /\ [Next]_vars => CaptureInv'
  <1> SUFFICES ASSUME TypeInv, ConfigInv, StepInv, CaptureInv, [Next]_vars PROVE CaptureInv'
    OBVIOUS
  <1>1. CASE StartJob \/ End \/ SetupOne \/ CreateUserCert \/ SetupDone
    <2>1. pc' \in {"setup", "tool", "idle"} \/ failed'
      BY <1>1 DEF StartJob, End, Retry, BeginAttempt, SetupOne, CreateUserCert, SetupDone, Proceed, FailTo
    <2> QED
      BY <2>1 DEF CaptureInv
  <1>2. CASE Publish \/ Hydrate \/ ApplicationWrites
    <2>1. pc' \in {"end", "idle"}
      BY <1>2 DEF Publish, Hydrate, ApplicationWrites, Proceed
    <2> QED
      BY <2>1 DEF CaptureInv
  <1>3. CASE \/ CreateUserCertFails \/ SetupFails \/ ToolIsNotReady \/ CreateToolFails
             \/ GroupIsRefused \/ CallFails \/ CallIsCut \/ PublishFails \/ Kill
    <2>1. failed'
      BY <1>3 DEF GroupIsRefused, CreateUserCertFails, SetupFails, ToolIsNotReady, CreateToolFails, CallFails,
        CallIsCut, PublishFails, Kill, FailTo
    <2> QED
      BY <2>1 DEF CaptureInv
  <1>4. CASE CreateTool
    BY <1>4 DEF CreateTool, Proceed, CaptureInv, jobVars, dataVars
  <1>5. CASE Execute
    <2>1. event \in Events /\ calls \in [Events -> Call \cup {NoCall}]
      BY <1>5 DEF Execute, TypeInv, StageTypes, ToolTypes, EventInv, NoEvent
    <2>2. calls'[event].step = 1
      BY <1>5, <2>1 DEF Execute
    <2> QED
      BY <1>5, <2>2 DEF Execute, Proceed, CaptureInv, Progress, jobVars, dataVars
  <1>6. CASE Answer
    <2>1. next \in Nat /\ pc = "await" /\ calls[event].step = 3 /\ next' = next + 1 /\ pc' = "call"
      BY <1>6 DEF Answer, Proceed, TypeInv, StageTypes
    <2>2. UNCHANGED <<event, failed, direction, config, volume, disturbed>>
      BY <1>6 DEF Answer, Proceed, jobVars, dataVars
    <2> QED
      BY <2>1, <2>2 DEF CaptureInv, Progress
  <1>7. CASE ExecuteDone \/ DeleteTool \/ CleanUpOne \/ CleanUpDone
    <2>1. /\ UNCHANGED <<event, next, direction, config, volume, disturbed>>
          /\ pc' # "await" /\ pc \in {"call", "delete", "cleanup"}
      BY <1>7 DEF ExecuteDone, DeleteTool, CleanUpOne, CleanUpDone, Proceed, jobVars, dataVars
    <2>2. failed' \/ UNCHANGED failed
      BY <1>7 DEF ExecuteDone, DeleteTool, CleanUpOne, CleanUpDone, Proceed
    <2> QED
      BY <2>1, <2>2 DEF CaptureInv
  <1>8. CASE ToolPods
    <2>1. PICK e \in Events : Handle(e) \/ Forget(e) \/ PodEnds(e)
      BY <1>8 DEF ToolPods
    <2>2. CASE Handle(e)
      BY <2>2, CaptureInHandler
    <2>3. CASE Forget(e) \/ PodEnds(e)
      <3>1. UNCHANGED <<pc, event, next, failed, direction, config, volume, disturbed>>
        BY <2>3 DEF Forget, PodEnds, stageVars, jobVars, dataVars
      <3>2. pc = "await" => calls'[event] = calls[event]
        BY <2>3 DEF Forget, PodEnds, StepInv, TypeInv, StageTypes, ToolTypes, EventInv, NoEvent
      <3> QED
        BY <3>1, <3>2 DEF CaptureInv
    <2> QED
      BY <2>1, <2>2, <2>3
  <1>9. CASE UNCHANGED vars
    BY <1>9 DEF CaptureInv, vars, jobVars, stageVars, dataVars, toolVars
  <1> QED
    BY <1>1, <1>2, <1>3, <1>4, <1>5, <1>6, <1>7, <1>8, <1>9 DEF Next, Orchestrator, Done

LEMMA PublishedStep ==
  TypeInv /\ StepInv /\ CaptureInv /\ PublishedIsOwnCapture /\ [Next]_vars
    => PublishedIsOwnCapture'
  <1> SUFFICES ASSUME TypeInv, StepInv, CaptureInv, PublishedIsOwnCapture, [Next]_vars
               PROVE  PublishedIsOwnCapture'
    OBVIOUS
  <1>1. CASE Publish \/ PublishFails
    <2>1. /\ pc = "publish" /\ UNCHANGED disturbed
          /\ snapshots' = [snapshots EXCEPT ![event] = Snapshot] \/ UNCHANGED snapshots
      BY <1>1 DEF Publish, PublishFails
    <2>2. event \in Events /\ snapshots \in [Events -> SnapshotOf \cup {NoSnapshot}]
      BY <2>1 DEF TypeInv, StageTypes, DataTypes, EventInv, NoEvent
    <2>3. ASSUME event \notin disturbed, NEW s \in Range(config)
          PROVE  HoldsCapture(volume[Path(s)], s, event)
      <3>1. PICK i \in 1..Len(config) : s = config[i]
        BY DEF Range, TypeInv, JobTypes
      <3>2. i < next
        BY <2>1 DEF StepInv, TypeInv, StageTypes, JobTypes
      <3> QED
        BY <2>1, <2>3, <3>1, <3>2 DEF CaptureInv, StepInv
    <2>4. Snapshot.config = config /\ Snapshot.content = volume
      BY DEF Snapshot
    <2>5. ASSUME NEW e \in Events, snapshots'[e] # NoSnapshot, e \notin disturbed,
                 NEW s \in Range(snapshots'[e].config)
          PROVE  HoldsCapture(snapshots'[e].content[Path(s)], s, e)
      <3>1. CASE snapshots'[e] = snapshots[e]
        BY <2>5, <3>1 DEF PublishedIsOwnCapture
      <3>2. CASE e = event /\ snapshots'[e] = Snapshot
        BY <2>3, <2>4, <2>5, <3>2
      <3> QED
        BY <2>1, <2>2, <3>1, <3>2
    <2> QED
      BY <2>1, <2>5 DEF PublishedIsOwnCapture
  <1>2. CASE ~Publish /\ ~PublishFails
    <2>1. UNCHANGED snapshots /\ disturbed \subseteq disturbed'
      BY <1>2 DEF Next, Orchestrator, ToolPods, Done, vars, dataVars, StartJob, End,
        SetupOne, CreateUserCert, CreateUserCertFails, SetupFails, SetupDone, CreateTool,
        ToolIsNotReady, CreateToolFails, Execute, Answer, CallFails, CallIsCut, ExecuteDone,
        DeleteTool, CleanUpOne, CleanUpDone, Kill, Hydrate, GroupIsRefused,
        ApplicationWrites, Handle, Forget, PodEnds
    <2> QED
      BY <2>1 DEF PublishedIsOwnCapture
  <1> QED
    BY <1>1, <1>2

LEMMA BackupAlways ==
  ASSUME PathsDiffer
  PROVE  Spec => [](TypeInv /\ BackupInv)
  <1>1. Init => BackupInv
    <2>1. Init => ConfigInv
      BY DEF Init, ConfigInv, Separate
    <2>2. Init => StepInv /\ CaptureInv /\ PublishedIsOwnCapture
      BY DEF Init, StepInv, CaptureInv, PublishedIsOwnCapture
    <2> QED
      BY <2>1, <2>2 DEF BackupInv
  <1>2. TypeInv /\ BackupInv /\ [Next]_vars => BackupInv'
    BY ConfigStep, StepInvStep, CaptureStep, PublishedStep DEF BackupInv
  <1> QED
    BY <1>1, <1>2, TypesAtInit, TypesStep, PTL DEF Spec

\* If no two sources of a configuration are kept at one path, every published backup that no
\* handler of an earlier attempt disturbed holds every source's capture by its own event.
THEOREM BackupsAreOwnCaptures ==
  ASSUME PathsDiffer
  PROVE  Spec => []PublishedIsOwnCapture
  <1>1. BackupInv => PublishedIsOwnCapture
    BY DEF BackupInv
  <1> QED
    BY <1>1, BackupAlways, PTL

-----------------------------------------------------------------------------
\* Retries.

\* No two sources of a configuration are the same cluster, PVC or bucket, and no PVC is in two
\* groups.
Distinct(c) == \A i, j \in 1..Len(c) : i # j => Target(c[i]) # Target(c[j])

TargetsDiffer ==
  /\ \A c \in Configs : Validate(c) => Distinct(Registered(c))
  /\ \A s, r \in Sources : s.kind = "fileGroups" /\ Target(s) = Target(r) => s = r

DistinctInv == Distinct(config)

\* A Job that has failed has used up its retries.
OutcomeInv ==
  outcome = "failed" => pc = "idle" /\ failed /\ tries > BackoffLimit /\ job >= 1

\* While nothing is left behind, a user certificate is the attempt's own and recorded, for a
\* source that it is past; none outlives its attempt.
CertsKnown ==
  ~leaving =>
    /\ \A c \in Clusters : certs[c] # NoEvent => c \in recorded
    /\ pc \in {"idle", "publish", "end"} => recorded = {}
    /\ pc = "setup" => \A c \in recorded : \E i \in 1..Len(config) :
                         i < next /\ config[i].kind = "postgres" /\ config[i].of = c

\* Nor does a tool pod run that is not the attempt's own.
PodsKnown ==
  ~leaving => \A e \in Events :
    pods[e] = "running" => e = event /\ pc \in {"call", "await", "delete"}

\* Every attempt that failed had a fault of its own.
FaultsPay ==
  ~leaving /\ job >= 1 =>
    faults[job] + 1 >= tries /\ (failed => faults[job] >= tries)

RetryInv == DistinctInv /\ OutcomeInv /\ CertsKnown /\ PodsKnown /\ FaultsPay

LEMMA FaultIsCounted ==
  ASSUME JobTypes, job >= 1, NEW leaves \in BOOLEAN, Fault(leaves)
  PROVE  faults'[job] = faults[job] + 1 /\ (leaving \/ leaves => leaving')
  <1>1. leaving' = (leaving \/ leaves) /\ faults' = [faults EXCEPT ![job] = @ + 1]
    BY DEF Fault
  <1>2. leaving \/ leaves => leaving'
    BY <1>1, Zenon
  <1>3. job \in 1..MaxJobs /\ faults \in [1..MaxJobs -> Nat]
    BY DEF JobTypes
  <1>4. faults'[job] = faults[job] + 1
    BY <1>1, <1>3
  <1> QED
    BY <1>2, <1>4

LEMMA DistinctStep == TargetsDiffer /\ DistinctInv /\ [Next]_vars => DistinctInv'
  <1> SUFFICES ASSUME TargetsDiffer, DistinctInv, [Next]_vars PROVE DistinctInv'
    OBVIOUS
  <1>1. CASE StartJob
    BY <1>1 DEF StartJob, BeginAttempt, DistinctInv, Distinct, TargetsDiffer
  <1>2. CASE End
    BY <1>2 DEF End, Retry, BeginAttempt, DistinctInv, Distinct, TargetsDiffer
  <1>3. CASE ~StartJob /\ ~End
    <2>1. UNCHANGED config
      BY <1>3 DEF Next, Orchestrator, ToolPods, vars, jobVars, Done,
        SetupOne, CreateUserCert, CreateUserCertFails, SetupFails, SetupDone, CreateTool,
        ToolIsNotReady, CreateToolFails, Execute, GroupIsRefused, Answer, CallFails, CallIsCut,
        ExecuteDone, DeleteTool, CleanUpOne, CleanUpDone, Publish, PublishFails, Kill,
        Hydrate, ApplicationWrites, Handle, Forget, PodEnds
    <2> QED
      BY <2>1 DEF DistinctInv, Distinct
  <1> QED
    BY <1>1, <1>2, <1>3

LEMMA DistinctAtInit == Init => DistinctInv
  <1>1. Init => config = <<>>
    BY DEF Init
  <1> QED
    BY <1>1 DEF DistinctInv, Distinct

LEMMA OutcomeStep == TypeInv /\ OutcomeInv /\ [Next]_vars => OutcomeInv'
  <1> SUFFICES ASSUME TypeInv, OutcomeInv, [Next]_vars PROVE OutcomeInv'
    OBVIOUS
  <1>1. CASE StartJob \/ Hydrate \/ ApplicationWrites
    <2>1. outcome' = "none"
      BY <1>1 DEF StartJob, Hydrate, ApplicationWrites
    <2> QED
      BY <2>1 DEF OutcomeInv
  <1>2. CASE End
    <2>1. CASE UNCHANGED outcome /\ pc = "end"
      BY <2>1 DEF OutcomeInv
    <2>2. CASE /\ failed => tries > BackoffLimit
               /\ pc' = "idle" /\ outcome' = (IF failed THEN "failed" ELSE "succeeded")
               /\ UNCHANGED <<failed, tries, job>> /\ job >= 1
      BY <2>2 DEF OutcomeInv
    <2> QED
      BY <1>2, <2>1, <2>2 DEF End, stageVars, TypeInv, StageTypes, EventInv
  <1>3. CASE ToolPods
    BY <1>3 DEF ToolPods, Handle, Forget, PodEnds, OutcomeInv, jobVars, stageVars
  <1>4. CASE Orchestrator /\ ~StartJob /\ ~End
    <2>1. pc # "idle" /\ UNCHANGED outcome
      BY <1>4 DEF Orchestrator, jobVars,
        SetupOne, CreateUserCert, CreateUserCertFails, SetupFails, SetupDone, CreateTool,
        ToolIsNotReady, CreateToolFails, Execute, GroupIsRefused, Answer, CallFails, CallIsCut,
        ExecuteDone, DeleteTool, CleanUpOne, CleanUpDone, Publish, PublishFails, Kill
    <2> QED
      BY <2>1 DEF OutcomeInv
  <1>5. CASE UNCHANGED vars
    BY <1>5 DEF OutcomeInv, vars, jobVars, stageVars
  <1> QED
    BY <1>1, <1>2, <1>3, <1>4, <1>5 DEF Next, Done

\* What was left behind stays.
LEMMA LeavingStays == Next => (leaving => leaving')
  <1> SUFFICES ASSUME Next PROVE leaving => leaving'
    OBVIOUS
  <1>1. (\E leaves \in BOOLEAN : Fault(leaves)) \/ UNCHANGED leaving
    <2>1. CASE \/ CreateUserCertFails \/ SetupFails \/ CreateToolFails \/ CallFails \/ CallIsCut
               \/ DeleteTool \/ CleanUpOne \/ PublishFails \/ Kill
      BY <2>1 DEF CreateUserCertFails, SetupFails, CreateToolFails, CallFails, CallIsCut,
        DeleteTool, CleanUpOne, PublishFails, Kill, faultVars
    <2>2. CASE \/ StartJob \/ End \/ SetupOne \/ CreateUserCert \/ SetupDone \/ CreateTool
               \/ ToolIsNotReady \/ Execute \/ GroupIsRefused \/ Answer \/ ExecuteDone
               \/ CleanUpDone \/ Publish
      BY <2>2 DEF StartJob, End, SetupOne, CreateUserCert, SetupDone, CreateTool,
        ToolIsNotReady, Execute, GroupIsRefused, Answer, ExecuteDone, CleanUpDone, Publish,
        faultVars
    <2>3. CASE Hydrate \/ ApplicationWrites \/ ToolPods \/ Done
      BY <2>3 DEF Hydrate, ApplicationWrites, ToolPods, Handle, Forget, PodEnds, Done, vars, faultVars
    <2> QED
      BY <2>1, <2>2, <2>3 DEF Next, Orchestrator
  <1>2. ASSUME NEW leaves \in BOOLEAN, Fault(leaves) PROVE leaving => leaving'
    BY <1>2, Zenon DEF Fault
  <1> QED
    BY <1>1, <1>2

\* A fault that leaves something behind is remembered.
LEMMA LeavesIsRemembered == Fault(TRUE) => leaving'
  BY Zenon DEF Fault

\* Then the name of the next user certificate is not taken.
LEMMA NameIsAvailable ==
  ASSUME TypeInv, DistinctInv, CertsKnown, ~leaving, pc = "setup", ~AtEnd,
         Current.kind = "postgres"
  PROVE  certs[Current.of] = NoEvent
  <1>1. Current \in Sources /\ Current.of \in Clusters /\ next \in 1..Len(config)
    BY CurrentIsSource, SourceIs
  <1> SUFFICES ASSUME certs[Current.of] # NoEvent PROVE FALSE
    OBVIOUS
  <1>2. PICK i \in 1..Len(config) :
          i < next /\ config[i].kind = "postgres" /\ config[i].of = Current.of
    BY <1>1 DEF CertsKnown
  <1> QED
    BY <1>1, <1>2 DEF DistinctInv, Distinct, Target, Current

LEMMA CertsKnownStep ==
  TypeInv /\ DistinctInv /\ CertsKnown /\ [Next]_vars => CertsKnown'
  <1> SUFFICES ASSUME TypeInv, DistinctInv, CertsKnown, [Next]_vars, ~leaving'
               PROVE  CertsKnown'
    BY DEF CertsKnown
  <1>0. /\ recorded \subseteq Clusters /\ certs \in [Clusters -> Events \cup {NoEvent}]
        /\ next \in Nat /\ next >= 1 /\ config \in Seq(Sources)
    BY DEF TypeInv, StageTypes, JobTypes, ToolTypes
  <1>1. CASE UNCHANGED vars
    BY <1>1 DEF CertsKnown, vars, jobVars, stageVars, faultVars
  <1>2. CASE Next
    <2>0. ~leaving
      BY <1>2, LeavingStays
    <2>1. CASE StartJob \/ End
      <3>1. pc \in {"idle", "end"} /\ UNCHANGED certs
        BY <2>1 DEF StartJob, End
      <3>2. recorded = {} /\ \A c \in Clusters : certs[c] = NoEvent
        BY <2>0, <3>1 DEF CertsKnown
      <3>3. recorded' = {} \/ UNCHANGED recorded
        BY <2>1 DEF StartJob, End, Retry, BeginAttempt, stageVars
      <3> QED
        BY <3>1, <3>2, <3>3 DEF CertsKnown
    <2>2. CASE SetupOne
      BY <1>0, <2>0, <2>2 DEF SetupOne, Proceed, CertsKnown, jobVars
    <2>3. CASE CreateUserCert
      <3>1. /\ pc = "setup" /\ Current \in Sources /\ Current.of \in Clusters
            /\ Current.kind = "postgres" /\ next \in 1..Len(config)
        BY <2>3, CurrentIsSource, SourceIs DEF CreateUserCert, MintsCertificate
      <3>2. certs[Current.of] = NoEvent
        BY <2>0, <2>3, <3>1, NameIsAvailable DEF CreateUserCert
      <3>3. /\ certs' = [certs EXCEPT ![Current.of] = event] /\ UNCHANGED <<pc, config>>
            /\ recorded' = recorded \cup {Current.of} /\ next' = next + 1
        BY <2>3, <3>2 DEF CreateUserCert, jobVars
      <3>4. \A c \in Clusters : certs'[c] # NoEvent => c \in recorded'
        BY <1>0, <2>0, <3>1, <3>3 DEF CertsKnown
      <3>5. \A c \in recorded' : \E i \in 1..Len(config) :
              i < next' /\ config[i].kind = "postgres" /\ config[i].of = c
        BY <1>0, <2>0, <3>1, <3>3 DEF CertsKnown, Current
      <3> QED
        BY <3>1, <3>3, <3>4, <3>5 DEF CertsKnown
    <2>4. CASE CreateUserCertFails \/ SetupFails \/ ToolIsNotReady \/ CreateToolFails
      <3>1. UNCHANGED certs
        BY <2>4, LeavesIsRemembered DEF CreateUserCertFails, SetupFails, ToolIsNotReady, CreateToolFails
      <3>2. pc' = "cleanup" /\ UNCHANGED recorded
        BY <2>4 DEF CreateUserCertFails, SetupFails, ToolIsNotReady, CreateToolFails, FailTo
      <3> QED
        BY <2>0, <3>1, <3>2 DEF CertsKnown
    <2>5. CASE CleanUpOne
      <3>1. /\ pc = "cleanup" /\ UNCHANGED pc
            /\ \E c \in Clusters : /\ recorded' = recorded \ {c}
                                   /\ certs' = [certs EXCEPT ![c] = NoEvent]
        BY <2>5, LeavesIsRemembered DEF CleanUpOne
      <3> QED
        BY <1>0, <2>0, <3>1 DEF CertsKnown
    <2>6. CASE CleanUpDone
      BY <2>0, <2>6 DEF CleanUpDone, Proceed, CertsKnown
    <2>7. CASE \/ SetupDone \/ CreateTool \/ Execute \/ Answer \/ CallFails \/ CallIsCut
               \/ ExecuteDone \/ DeleteTool \/ GroupIsRefused
      <3>1. pc' \in {"tool", "call", "await", "delete", "cleanup"} /\ UNCHANGED <<recorded, certs>>
        BY <2>7 DEF SetupDone, CreateTool, Execute, GroupIsRefused, Answer, CallFails, CallIsCut, ExecuteDone,
          DeleteTool, Proceed, FailTo
      <3> QED
        BY <2>0, <3>1 DEF CertsKnown
    <2>8. CASE Publish \/ PublishFails
      <3>1. pc = "publish" /\ pc' = "end" /\ UNCHANGED <<recorded, certs>>
        BY <2>8 DEF Publish, PublishFails, Proceed, FailTo
      <3> QED
        BY <2>0, <3>1 DEF CertsKnown
    <2>9. CASE Kill
      BY <2>9, LeavesIsRemembered DEF Kill
    <2>10. CASE Hydrate \/ ApplicationWrites \/ ToolPods \/ Done
      <3>1. UNCHANGED <<pc, next, config, recorded, certs>>
        BY <2>10 DEF Hydrate, ApplicationWrites, ToolPods, Handle, Forget, PodEnds, Done, vars, stageVars, jobVars
      <3> QED
        BY <2>0, <3>1 DEF CertsKnown
    <2> QED
      BY <1>2, <2>1, <2>2, <2>3, <2>4, <2>5, <2>6, <2>7, <2>8, <2>9, <2>10 DEF Next, Orchestrator
  <1> QED
    BY <1>1, <1>2

LEMMA PodsKnownStep == TypeInv /\ PodsKnown /\ [Next]_vars => PodsKnown'
  <1> SUFFICES ASSUME TypeInv, PodsKnown, [Next]_vars, ~leaving'
               PROVE  PodsKnown'
    BY DEF PodsKnown
  <1>0. pods \in [Events -> {"none", "running", "terminating"}]
    BY DEF TypeInv, ToolTypes
  <1>1. CASE UNCHANGED vars
    BY <1>1 DEF PodsKnown, vars, stageVars, toolVars, faultVars
  <1>2. CASE Next
    <2>0. ~leaving
      BY <1>2, LeavingStays
    <2>1. CASE StartJob \/ End
      BY <2>0, <2>1 DEF StartJob, End, PodsKnown, toolVars
    <2>2. CASE SetupOne \/ CreateUserCert \/ CreateUserCertFails \/ SetupFails \/ SetupDone
      <3>1. pc = "setup" /\ UNCHANGED pods
        BY <2>2 DEF SetupOne, CreateUserCert, CreateUserCertFails, SetupFails, SetupDone, toolVars
      <3> QED
        BY <2>0, <3>1 DEF PodsKnown
    <2>3. CASE CreateTool
      BY <1>0, <2>0, <2>3 DEF CreateTool, Proceed, PodsKnown
    <2>4. CASE ToolIsNotReady
      BY <2>0, <2>4 DEF ToolIsNotReady, VolumeIsTaken, PodsKnown
    <2>5. CASE CreateToolFails
      <3>1. PICK state \in {"none", "running"} :
              Fault(state = "running") /\ pods' = [pods EXCEPT ![event] = state]
        BY <2>5 DEF CreateToolFails
      <3>2. CASE state = "running"
        <4>1. (state = "running") = TRUE
          BY <3>2
        <4> QED
          BY <3>1, <4>1, LeavesIsRemembered
      <3>3. CASE state # "running"
        BY <1>0, <2>0, <2>5, <3>1, <3>3 DEF CreateToolFails, PodsKnown
      <3> QED
        BY <3>2, <3>3
    <2>6. CASE Execute \/ GroupIsRefused \/ Answer \/ CallFails \/ CallIsCut \/ ExecuteDone
      <3>1. pc' \in {"call", "await", "delete"} /\ UNCHANGED <<event, pods>>
        BY <2>6 DEF Execute, GroupIsRefused, Answer, CallFails, CallIsCut, ExecuteDone, Proceed, FailTo, toolVars
      <3> QED
        BY <2>0, <3>1 DEF PodsKnown
    <2>7. CASE DeleteTool
      <3>1. \E state \in {"none", "terminating"} : pods' = [pods EXCEPT ![event] = state]
        BY <2>7, LeavesIsRemembered DEF DeleteTool, Deleted
      <3> QED
        BY <1>0, <2>0, <3>1 DEF PodsKnown
    <2>8. CASE CleanUpOne \/ CleanUpDone \/ Publish \/ PublishFails
      <3>1. pc \in {"cleanup", "publish"} /\ UNCHANGED pods
        BY <2>8 DEF CleanUpOne, CleanUpDone, Publish, PublishFails, toolVars
      <3> QED
        BY <2>0, <3>1 DEF PodsKnown
    <2>9. CASE Kill
      BY <2>9, LeavesIsRemembered DEF Kill
    <2>10. CASE ToolPods
      <3>1. UNCHANGED <<pc, event>>
        BY <2>10 DEF ToolPods, Handle, Forget, PodEnds, stageVars
      <3>2. \A e \in Events : pods'[e] = "running" => pods[e] = "running"
        BY <1>0, <2>10 DEF ToolPods, Handle, Forget, PodEnds
      <3> QED
        BY <2>0, <3>1, <3>2 DEF PodsKnown
    <2>11. CASE Hydrate \/ ApplicationWrites \/ Done
      BY <2>0, <2>11 DEF Hydrate, ApplicationWrites, Done, PodsKnown, vars, stageVars, toolVars
    <2> QED
      BY <1>2, <2>1, <2>2, <2>3, <2>4, <2>5, <2>6, <2>7, <2>8, <2>9, <2>10, <2>11
      DEF Next, Orchestrator
  <1> QED
    BY <1>1, <1>2

LEMMA FaultsPayStep ==
  TypeInv /\ DistinctInv /\ CertsKnown /\ PodsKnown /\ FaultsPay /\ [Next]_vars => FaultsPay'
  <1> SUFFICES ASSUME TypeInv, DistinctInv, CertsKnown, PodsKnown, FaultsPay, [Next]_vars,
                      ~leaving'
               PROVE  FaultsPay'
    BY DEF FaultsPay
  <1>0. /\ job \in 0..MaxJobs /\ MaxJobs \in Nat /\ tries \in Nat
        /\ faults \in [1..MaxJobs -> Nat] /\ (pc # "idle" => job >= 1)
    BY JobsAssumption DEF TypeInv, StageTypes, JobTypes, EventInv
  <1>1. CASE UNCHANGED vars
    BY <1>1 DEF FaultsPay, vars, jobVars, stageVars, faultVars
  <1>2. CASE Next
    <2>0. ~leaving
      BY <1>2, LeavingStays
    <2>1. CASE StartJob
      <3>1. job' = job + 1 /\ job' \in 1..MaxJobs /\ tries' = 1 /\ ~failed' /\ UNCHANGED faults
        BY <1>0, <2>1 DEF StartJob, BeginAttempt, faultVars
      <3>2. faults[job'] \in Nat
        BY <1>0, <3>1
      <3> QED
        BY <3>1, <3>2 DEF FaultsPay
    <2>2. CASE End
      <3>1. UNCHANGED <<job, faults>> /\ job \in 1..MaxJobs
        BY <1>0, <2>2 DEF End, faultVars
      <3>2. faults[job] \in Nat
        BY <1>0, <3>1
      <3>3. CASE failed /\ tries' = tries + 1 /\ ~failed'
        BY <1>0, <2>0, <3>1, <3>2, <3>3 DEF FaultsPay
      <3>4. CASE UNCHANGED <<failed, tries>>
        BY <2>0, <3>1, <3>4 DEF FaultsPay
      <3> QED
        BY <2>2, <3>3, <3>4 DEF End, Retry, BeginAttempt, stageVars
    <2>3. CASE CreateUserCert \/ ToolIsNotReady
      <3>1. CASE ToolIsNotReady
        BY <2>0, <3>1 DEF ToolIsNotReady, VolumeIsTaken, PodsKnown
      <3>2. CASE CreateUserCert
        <4>1. certs[Current.of] = NoEvent
          BY <2>0, <3>2, NameIsAvailable DEF CreateUserCert, MintsCertificate
        <4>2. UNCHANGED <<job, tries, failed, faults>>
          BY <3>2, <4>1 DEF CreateUserCert, jobVars, faultVars
        <4> QED
          BY <2>0, <4>2 DEF FaultsPay
      <3> QED
        BY <2>3, <3>1, <3>2
    <2>4. CASE \/ CreateUserCertFails \/ SetupFails \/ CreateToolFails \/ CallFails \/ CallIsCut
               \/ PublishFails
      <3>1. \E leaves \in BOOLEAN : Fault(leaves)
        BY <2>4 DEF CreateUserCertFails, SetupFails, CreateToolFails, CallFails, CallIsCut,
          PublishFails
      <3>2. UNCHANGED <<job, tries>> /\ pc # "idle"
        BY <2>4 DEF CreateUserCertFails, SetupFails, CreateToolFails, CallFails, CallIsCut,
          PublishFails, jobVars
      <3>3. faults'[job] = faults[job] + 1 /\ faults[job] \in Nat
        BY <1>0, <3>1, <3>2, FaultIsCounted DEF TypeInv
      <3> QED
        BY <1>0, <2>0, <3>2, <3>3 DEF FaultsPay
    <2>5. CASE DeleteTool \/ CleanUpOne
      <3>1. UNCHANGED <<job, tries, failed, faults>>
        BY <2>5, LeavesIsRemembered DEF DeleteTool, CleanUpOne, Proceed, jobVars, faultVars
      <3> QED
        BY <2>0, <3>1 DEF FaultsPay
    <2>6. CASE \/ SetupOne \/ SetupDone \/ CreateTool \/ Execute \/ Answer \/ ExecuteDone
               \/ CleanUpDone \/ Publish
      <3>1. UNCHANGED <<job, tries, failed, faults>>
        BY <2>6 DEF SetupOne, SetupDone, CreateTool, Execute, Answer, ExecuteDone, CleanUpDone,
          Publish, Proceed, jobVars, faultVars
      <3> QED
        BY <2>0, <3>1 DEF FaultsPay
    <2>7. CASE Kill
      BY <2>7, LeavesIsRemembered DEF Kill
    <2>9. CASE GroupIsRefused
      <3>1. faults' = [faults EXCEPT ![job] = @ + 1] /\ UNCHANGED <<job, tries>> /\ pc # "idle"
        BY <2>9 DEF GroupIsRefused, jobVars
      <3>2. job \in 1..MaxJobs
        BY <1>0, <3>1
      <3>3. faults'[job] = faults[job] + 1 /\ faults[job] \in Nat
        BY <1>0, <3>1, <3>2
      <3> QED
        BY <1>0, <2>0, <3>1, <3>3 DEF FaultsPay
    <2>8. CASE Hydrate \/ ApplicationWrites \/ ToolPods \/ Done
      <3>1. UNCHANGED <<job, tries, failed, faults>>
        BY <2>8 DEF Hydrate, ApplicationWrites, ToolPods, Handle, Forget, PodEnds, Done, vars, jobVars, stageVars,
          faultVars
      <3> QED
        BY <2>0, <3>1 DEF FaultsPay
    <2> QED
      BY <1>2, <2>1, <2>2, <2>3, <2>4, <2>5, <2>6, <2>7, <2>8, <2>9 DEF Next, Orchestrator
  <1> QED
    BY <1>1, <1>2

LEMMA RetryAlways ==
  ASSUME TargetsDiffer
  PROVE  Spec => [](TypeInv /\ RetryInv)
  <1>1. Init => RetryInv
    <2> SUFFICES ASSUME Init PROVE RetryInv
      OBVIOUS
    <2>1. DistinctInv
      BY DistinctAtInit
    <2>2. OutcomeInv /\ CertsKnown /\ PodsKnown /\ FaultsPay
      BY DEF Init, OutcomeInv, CertsKnown, PodsKnown, FaultsPay
    <2> QED
      BY <2>1, <2>2 DEF RetryInv
  <1>2. TypeInv /\ RetryInv /\ [Next]_vars => RetryInv'
    BY TargetsDiffer, DistinctStep, OutcomeStep, CertsKnownStep, PodsKnownStep, FaultsPayStep
    DEF RetryInv
  <1> QED
    BY <1>1, <1>2, TypesAtInit, TypesStep, PTL DEF Spec

\* If no two sources of a configuration are the same, then as long as nothing
\* is left behind a Job fails only after more faults than it has retries: the clean-up of a
\* failed attempt leaves nothing that the next one could stumble over.
THEOREM RetriesSuffice ==
  ASSUME TargetsDiffer
  PROVE  Spec => []RetriesAbsorbFailures
  <1>1. TypeInv /\ RetryInv => RetriesAbsorbFailures
    <2> SUFFICES ASSUME TypeInv, RetryInv, outcome = "failed", ~leaving
                 PROVE  faults[job] > BackoffLimit
      BY DEF RetriesAbsorbFailures
    <2>1. failed /\ tries > BackoffLimit /\ BackoffLimit \in Nat /\ tries \in Nat
      BY JobsAssumption DEF RetryInv, OutcomeInv, TypeInv, JobTypes
    <2>2. job \in 1..MaxJobs
      BY <2>1 DEF RetryInv, OutcomeInv, TypeInv, JobTypes
    <2>3. faults[job] \in Nat /\ faults[job] >= tries
      BY <2>1, <2>2 DEF RetryInv, FaultsPay, TypeInv, JobTypes
    <2> QED
      BY <2>1, <2>3
  <1> QED
    BY <1>1, RetryAlways, PTL

-----------------------------------------------------------------------------
\* Restores.

\* A restore is of the event that the DR volume was hydrated from, of which it holds the backup,
\* and of the same sources, but for the PVCs of groups.
HydratedInv ==
  /\ direction = "backup" /\ pc # "idle" => hydrated = NoEvent
  /\ outcome = "succeeded" => pc = "idle" /\ ~failed
  /\ direction = "restore" /\ (pc # "idle" \/ outcome = "succeeded") =>
       hydrated # NoEvent /\ SameButMembers(config, snapshots[hydrated].config)
  /\ hydrated # NoEvent => volume = snapshots[hydrated].content

\* The handlers that run are those of restores of that event.  Those that nobody waits for are
\* file transfers.
IsAwaited(e) == e = event /\ pc = "await"

HandlersInv ==
  \A e \in Events : calls[e] # NoCall =>
    /\ pods[e] \in {"running", "terminating"}
    /\ hydrated # NoEvent =>
         /\ calls[e].direction = "restore"
         /\ \/ calls[e].source.kind = "fileGroups"
            \/ calls[e].source \in Single(snapshots[hydrated].config)
         /\ calls[e].source.kind \in {"postgres", "s3"} => IsAwaited(e)

\* The event that the DR volume was hydrated from is kept.
LEMMA HydratedStep == TypeInv /\ StepInv /\ HandlersInv /\ HydratedInv /\ [Next]_vars => HydratedInv'
  <1> SUFFICES ASSUME TypeInv, StepInv, HandlersInv, HydratedInv, [Next]_vars
               PROVE  HydratedInv'
    OBVIOUS
  <1>0. snapshots \in [Events -> SnapshotOf \cup {NoSnapshot}] /\ hydrated \in Events \cup {NoEvent}
    BY DEF TypeInv, DataTypes
  <1>1. CASE StartJob
    <2>1. /\ pc = "idle" /\ pc' = "setup" /\ outcome' = "none" /\ UNCHANGED <<volume, snapshots>>
          /\ \/ direction' = "backup" /\ hydrated' = NoEvent
             \/ /\ direction' = "restore" /\ hydrated # NoEvent /\ UNCHANGED hydrated
                /\ SameButMembers(config', snapshots[hydrated].config)
      BY <1>1 DEF StartJob, BeginAttempt
    <2> QED
      BY <2>1 DEF HydratedInv
  <1>2. CASE End
    <2>1. UNCHANGED <<direction, hydrated, volume, snapshots>> /\ pc = "end"
      BY <1>2 DEF End, dataVars
    <2>2. CASE pc' = "setup" /\ UNCHANGED outcome /\ SameButMembers(config', config)
      <3>1. \A d : SameButMembers(config, d) => SameButMembers(config', d)
        BY <2>2 DEF SameButMembers
      <3> QED
        BY <2>1, <2>2, <3>1 DEF HydratedInv
    <2>3. CASE /\ pc' = "idle" /\ UNCHANGED <<failed, config>>
               /\ outcome' = (IF failed THEN "failed" ELSE "succeeded")
      BY <2>1, <2>3 DEF HydratedInv
    <2> QED
      BY <1>2, <2>2, <2>3 DEF End, Retry, BeginAttempt, stageVars
  <1>3. CASE Hydrate
    BY <1>0, <1>3 DEF Hydrate, HydratedInv, NoEvent, Events
  <1>8. CASE ApplicationWrites
    BY <1>8 DEF ApplicationWrites, HydratedInv
  <1>4. CASE Publish \/ PublishFails
    <2>1. pc = "publish" /\ pc' = "end" /\ UNCHANGED <<direction, outcome, hydrated>>
      BY <1>4 DEF Publish, PublishFails, Proceed, FailTo, jobVars
    <2> QED
      BY <2>1 DEF HydratedInv, StepInv
  <1>5. CASE ToolPods
    <2>1. PICK e \in Events : Handle(e) \/ Forget(e) \/ PodEnds(e)
      BY <1>5 DEF ToolPods
    <2>2. UNCHANGED <<pc, failed, outcome, direction, config, hydrated, snapshots>>
      BY <2>1 DEF Handle, Forget, PodEnds, stageVars, jobVars, dataVars
    <2>3. hydrated # NoEvent => UNCHANGED volume
      BY <2>1 DEF Handle, Forget, PodEnds, HandlersInv, dataVars
    <2> QED
      BY <2>2, <2>3 DEF HydratedInv
  <1>6. CASE \/ SetupOne \/ CreateUserCert \/ CreateUserCertFails \/ SetupFails \/ SetupDone
             \/ CreateTool \/ ToolIsNotReady \/ CreateToolFails
             \/ Execute \/ GroupIsRefused \/ Answer \/ CallFails \/ CallIsCut \/ ExecuteDone
             \/ DeleteTool \/ CleanUpOne \/ CleanUpDone \/ Kill
    <2>1. pc # "idle" /\ UNCHANGED <<outcome, direction, config, hydrated, snapshots, volume>>
      BY <1>6 DEF SetupOne, CreateUserCert, CreateUserCertFails, SetupFails, SetupDone,
        CreateTool, ToolIsNotReady, CreateToolFails, Execute, GroupIsRefused, Answer, CallFails,
        CallIsCut, ExecuteDone, DeleteTool, CleanUpOne, CleanUpDone, Kill, jobVars, dataVars
    <2> QED
      BY <2>1 DEF HydratedInv
  <1>7. CASE UNCHANGED vars
    BY <1>7 DEF HydratedInv, vars, jobVars, stageVars, dataVars
  <1> QED
    BY <1>1, <1>2, <1>3, <1>4, <1>5, <1>6, <1>7, <1>8 DEF Next, Orchestrator, Done

\* A restore's call that was cut leaves a handler behind only if it transfers files.
LEMMA CutRestores ==
  ASSUME NEW call, call.direction = "restore", call.source.kind \in {"postgres", "s3"}
  PROVE  AfterCut(call) = {NoCall}
  <1>1. CASE call.source.kind = "postgres"
    <2>1. call.direction # "backup"
      OBVIOUS
    <2>2. {NoCall} \cup (IF call.direction = "backup" /\ call.step = 2 THEN {call} ELSE {}) = {NoCall}
      BY <2>1
    <2> QED
      BY <1>1, <2>2, Zenon DEF AfterCut
  <1>2. CASE call.source.kind = "s3"
    BY <1>2, Zenon DEF AfterCut
  <1> QED
    BY <1>1, <1>2

LEMMA HandlersStep ==
  TypeInv /\ StepInv /\ HydratedInv /\ HandlersInv /\ [Next]_vars => HandlersInv'
  <1> SUFFICES ASSUME TypeInv, StepInv, HydratedInv, HandlersInv, [Next]_vars
               PROVE  HandlersInv'
    OBVIOUS
  <1>0. /\ pods \in [Events -> {"none", "running", "terminating"}]
        /\ calls \in [Events -> Call \cup {NoCall}]
        /\ pc # "idle" => event \in Events /\ event # NoEvent
        /\ snapshots \in [Events -> SnapshotOf \cup {NoSnapshot}]
        /\ hydrated \in Events \cup {NoEvent} /\ direction \in {"backup", "restore"}
    BY DEF TypeInv, StageTypes, JobTypes, DataTypes, ToolTypes, EventInv, NoEvent
  <1>1. CASE StartJob \/ End
    <2>1. pc # "await" /\ pc' # "await" /\ UNCHANGED <<pods, calls, snapshots>>
          /\ (hydrated' = NoEvent \/ UNCHANGED hydrated)
      BY <1>1 DEF StartJob, End, Retry, BeginAttempt, toolVars, dataVars
    <2> QED
      BY <2>1 DEF HandlersInv, IsAwaited
  <1>2. CASE Hydrate
    <2>1. \A e \in Events : calls[e] = NoCall
      BY <1>2 DEF Hydrate, HandlersInv
    <2> QED
      BY <1>2, <2>1 DEF Hydrate, HandlersInv, toolVars
  <1>3. CASE SetupOne \/ CreateUserCert \/ CreateUserCertFails \/ SetupFails \/ SetupDone
    <2>1. pc # "await" /\ UNCHANGED <<pods, calls, snapshots, hydrated>>
      BY <1>3 DEF SetupOne, CreateUserCert, CreateUserCertFails, SetupFails, SetupDone,
        toolVars, dataVars
    <2> QED
      BY <2>1 DEF HandlersInv, IsAwaited
  <1>4. CASE CreateTool \/ ToolIsNotReady \/ CreateToolFails
    <2>1. /\ pc = "tool" /\ UNCHANGED <<calls, snapshots, hydrated>>
          /\ UNCHANGED pods \/ \E state \in {"none", "running"} : pods' = [pods EXCEPT ![event] = state]
      BY <1>4 DEF CreateTool, ToolIsNotReady, CreateToolFails, dataVars, toolVars
    <2>2. calls[event] = NoCall
      BY <1>0, <2>1 DEF StepInv
    <2> QED
      BY <1>0, <2>1, <2>2 DEF HandlersInv, IsAwaited
  <1>5. CASE Execute
    <2> DEFINE c == [source |-> Current, direction |-> direction, step |-> 1]
    <2>1. /\ pc = "call" /\ pc' = "await" /\ UNCHANGED <<event, pods, snapshots, hydrated>>
          /\ calls' = [calls EXCEPT ![event] = c]
      BY <1>5 DEF Execute, Proceed
    <2>2. pods[event] = "running"
      BY <2>1 DEF StepInv
    <2>3. c.direction = direction /\ c.source = Current
      OBVIOUS
    <2>4. Current \in Range(config)
      BY <1>5, CurrentIsSource DEF Execute, Current, Range, TypeInv, JobTypes
    <2>5. hydrated # NoEvent => direction = "restore" /\ Single(config) = Single(snapshots[hydrated].config)
      BY <1>0, <2>1 DEF HydratedInv, SameButMembers
    <2>6. Current.kind # "fileGroups" => Current \in Single(config)
      BY <2>4 DEF Single, Grouped
    <2> HIDE DEF c
    <2> QED
      BY <1>0, <2>1, <2>2, <2>3, <2>5, <2>6 DEF HandlersInv, IsAwaited
  <1>6. CASE Answer \/ CallFails
    <2>1. /\ pc = "await" /\ UNCHANGED <<event, pods, snapshots, hydrated>>
          /\ calls' = [calls EXCEPT ![event] = NoCall]
      BY <1>6 DEF Answer, CallFails, Proceed, FailTo, dataVars
    <2> QED
      BY <1>0, <2>1 DEF HandlersInv, IsAwaited
  <1>7. CASE CallIsCut \/ Kill
    <2>1. /\ pc # "idle" /\ pc' # "await" /\ UNCHANGED <<event, pods, snapshots, hydrated>> /\ CutOff
      <3>1. CASE CallIsCut
        BY <3>1 DEF CallIsCut, FailTo, dataVars
      <3>2. CASE Kill
        BY <3>2 DEF Kill, FailTo, dataVars
      <3> QED
        BY <1>7, <3>1, <3>2
    <2>2. PICK c \in AfterCut(calls[event]) : calls' = [calls EXCEPT ![event] = c]
      BY <2>1 DEF CutOff
    <2>3. c = NoCall \/ c = calls[event]
      BY <2>2, CutCalls
    <2>4. /\ \A e \in Events : calls'[e] # NoCall => calls'[e] = calls[e]
          /\ calls'[event] = c
      BY <1>0, <2>1, <2>2, <2>3
    <2>5. c # NoCall /\ hydrated # NoEvent => c.source.kind \notin {"postgres", "s3"}
      <3> SUFFICES ASSUME c # NoCall, hydrated # NoEvent, c.source.kind \in {"postgres", "s3"}
                   PROVE  FALSE
        OBVIOUS
      <3>1. calls[event].direction = "restore" /\ calls[event].source.kind \in {"postgres", "s3"}
        BY <1>0, <2>1, <2>3 DEF HandlersInv
      <3>2. AfterCut(calls[event]) = {NoCall}
        BY <3>1, CutRestores
      <3> QED
        BY <2>2, <3>2
    <2> QED
      BY <1>0, <2>1, <2>4, <2>5 DEF HandlersInv, IsAwaited
  <1>8. CASE ExecuteDone \/ DeleteTool \/ CleanUpOne \/ CleanUpDone
    <2>1. pc # "await" /\ UNCHANGED <<event, calls, snapshots, hydrated>>
      BY <1>8 DEF ExecuteDone, DeleteTool, CleanUpOne, CleanUpDone, Proceed, toolVars, dataVars
    <2>2. \/ UNCHANGED pods
          \/ pods' = [pods EXCEPT ![event] = "terminating"]
          \/ pods' = [pods EXCEPT ![event] = "none"] /\ calls[event] = NoCall
      BY <1>8 DEF ExecuteDone, DeleteTool, Deleted, CleanUpOne, CleanUpDone, toolVars
    <2> QED
      BY <1>0, <2>1, <2>2 DEF HandlersInv, IsAwaited
  <1>9. CASE Publish \/ PublishFails
    <2>1. pc = "publish" /\ UNCHANGED <<pods, calls, hydrated>>
      BY <1>9 DEF Publish, PublishFails, toolVars
    <2>2. hydrated = NoEvent
      BY <2>1 DEF StepInv, HydratedInv
    <2> QED
      BY <2>1, <2>2 DEF HandlersInv
  <1>10. CASE ToolPods
    <2>1. PICK e \in Events : Handle(e) \/ Forget(e) \/ PodEnds(e)
      BY <1>10 DEF ToolPods
    <2>2. UNCHANGED <<pc, event, hydrated, snapshots>>
      BY <2>1 DEF Handle, Forget, PodEnds, stageVars, dataVars
    <2>3. CASE Handle(e)
      <3> DEFINE c == [calls[e] EXCEPT !.step = @ + 1]
      <3>1. calls' = [calls EXCEPT ![e] = c] /\ UNCHANGED pods /\ calls[e] # NoCall
        BY <2>3 DEF Handle
      <3>2. calls[e] \in Call
        BY <1>0, <3>1
      <3>3. c.source = calls[e].source /\ c.direction = calls[e].direction
        BY <3>2 DEF Call
      <3> HIDE DEF c
      <3> QED
        BY <1>0, <2>2, <3>1, <3>3 DEF HandlersInv, IsAwaited
    <2>4. CASE Forget(e)
      BY <1>0, <2>2, <2>4 DEF Forget, HandlersInv, IsAwaited
    <2>5. CASE PodEnds(e)
      BY <1>0, <2>2, <2>5 DEF PodEnds, HandlersInv, IsAwaited
    <2> QED
      BY <2>1, <2>3, <2>4, <2>5
  <1>11. CASE UNCHANGED vars
    BY <1>11 DEF HandlersInv, IsAwaited, vars, stageVars, dataVars, toolVars
  <1>12. CASE ApplicationWrites \/ GroupIsRefused
    <2>1. pc # "await" /\ pc' # "await" /\ UNCHANGED <<pods, calls, snapshots, hydrated>>
      BY <1>12 DEF ApplicationWrites, GroupIsRefused, FailTo, toolVars, dataVars
    <2> QED
      BY <2>1 DEF HandlersInv, IsAwaited
  <1> QED
    BY <1>1, <1>2, <1>3, <1>4, <1>5, <1>6, <1>7, <1>8, <1>9, <1>10, <1>11, <1>12 DEF Next, Orchestrator, Done

\* What a target holds of what a path holds, when the transfer to it has ended, and half way;
\* less is known of the sources of which it passed something over.
Restored(s, src, dst, less) ==
  /\ s \notin less => src = (IF s.kind = "postgres" THEN Prune(dst, src) ELSE dst)
  /\ s.kind = "s3" => {x.source : x \in dst} = {x.source : x \in src}

PartlyRestored(s, src, dst, less) ==
  IF s.kind = "postgres" THEN s \notin less => Prune(dst, src) = {}
  ELSE IF s.kind = "s3"
       THEN /\ s \notin less =>
                 src \subseteq dst /\ \A x \in dst : x \in src \/ \A y \in src : ~SameFile(x, y)
            /\ \A y \in src : \E x \in dst : SameFile(x, y)
       ELSE \A x \in dst : \E y \in src : SameFile(x, y)

Restoring(s, src, dst, less, step) ==
  /\ step = 2 => PartlyRestored(s, src, dst, less)
  /\ step = 3 => Restored(s, src, dst, less)

\* The restore so far.
RestoreInv ==
  direction = "restore" /\ ~failed =>
    /\ pc \in {"call", "await", "delete", "cleanup"} =>
         \A i \in 1..Len(config) : i < next =>
           Restored(config[i], volume[Path(config[i])], target[Target(config[i])], spared)
    /\ pc = "await" =>
         Restoring(config[next], volume[Path(config[next])], target[Target(config[next])], spared,
                   calls[event].step)
    /\ pc = "end" \/ outcome = "succeeded" =>
         \A i \in 1..Len(config) :
           Restored(config[i], volume[Path(config[i])], target[Target(config[i])], spared)

\* Each step of a restore's handler brings its target nearer to the backup.
LEMMA RestoreProgresses ==
  ASSUME NEW s \in Sources, NEW call \in Call, NEW dst \in SUBSET Item, NEW src \in SUBSET Item,
         NEW less \in SUBSET Sources,
         call.source = s, call.direction = "restore", call.step \in {1, 2},
         Restoring(s, src, dst, less, call.step)
  PROVE  Restoring(s, src, Transfer(call, dst, src), less, call.step + 1)
  <1> DEFINE result == Transfer(call, dst, src)
  <1>0. call.direction # "backup"
    OBVIOUS
  <1>1. CASE s.kind = "postgres"
    <2>1. result = TransferPostgres(call.step, call.direction, dst, src)
      BY <1>1, Zenon DEF Transfer
    <2>2. ASSUME call.step = 1 PROVE Prune(result, src) = {}
      <3>1. result = dst \ Prune(dst, src)
        BY <1>0, <2>1, <2>2 DEF TransferPostgres
      <3> HIDE DEF result
      <3> QED
        BY <3>1 DEF Prune
    <2>3. ASSUME call.step = 2, s \notin less PROVE src = Prune(result, src)
      <3>1. result = dst \cup src
        BY <1>0, <2>1, <2>3 DEF TransferPostgres
      <3>2. Prune(dst, src) = {}
        BY <1>1, <2>3 DEF Restoring, PartlyRestored
      <3> HIDE DEF result
      <3> QED
        BY <3>1, <3>2 DEF Prune, SameFile
    <2> QED
      BY <1>1, <2>2, <2>3 DEF Restoring, PartlyRestored, Restored
  <1>2. CASE s.kind = "s3"
    <2>1. result = SyncS3(call.step, call.direction, dst, src)
      BY <1>2, Zenon DEF Transfer
    <2>2. ASSUME call.step = 1 PROVE PartlyRestored(s, src, result, less)
      <3>1. result = Replace(dst, src)
        BY <1>0, <2>1, <2>2 DEF SyncS3
      <3> HIDE DEF result
      <3>2. /\ src \subseteq result
            /\ \A x \in result : x \in src \/ \A y \in src : ~SameFile(x, y)
            /\ \A y \in src : \E x \in result : SameFile(x, y)
        BY <3>1 DEF Replace, SameFile
      <3> QED
        BY <1>2, <3>2 DEF PartlyRestored
    <2>3. ASSUME call.step = 2 PROVE Restored(s, src, result, less)
      <3>1. /\ s \notin less =>
                 src \subseteq dst /\ \A x \in dst : x \in src \/ \A y \in src : ~SameFile(x, y)
            /\ \A y \in src : \E x \in dst : SameFile(x, y)
        BY <1>2, <2>3 DEF Restoring, PartlyRestored
      <3>2. result = Prune(dst, src)
        BY <2>1, <2>3 DEF SyncS3
      <3> HIDE DEF result
      <3>3. s \notin less => src = result
        BY <3>1, <3>2 DEF Prune, SameFile
      <3>4. {x.source : x \in result} = {x.source : x \in src}
        BY <3>1, <3>2 DEF Prune, SameFile
      <3> QED
        BY <1>2, <3>3, <3>4 DEF Restored
    <2> QED
      BY <2>2, <2>3 DEF Restoring
  <1>3. CASE s.kind \notin {"postgres", "s3"}
    <2>1. result = SyncFiles(call.step, dst, src)
      BY <1>3, Zenon DEF Transfer
    <2>2. ASSUME call.step = 1 PROVE PartlyRestored(s, src, result, less)
      BY <1>3, <2>1, <2>2 DEF SyncFiles, Prune, PartlyRestored
    <2>3. ASSUME call.step = 2 PROVE src = result
      <3>1. \A x \in dst : \E y \in src : SameFile(x, y)
        BY <1>3, <2>3 DEF Restoring, PartlyRestored
      <3> QED
        BY <2>1, <2>3, <3>1 DEF SyncFiles, Replace
    <2> QED
      BY <1>3, <2>2, <2>3 DEF Restoring, Restored
  <1> QED
    BY <1>1, <1>2, <1>3

\* So does one that passes something over, of whose source less is known from then on.
LEMMA LessProgresses ==
  ASSUME NEW s \in Sources, NEW call \in Call, NEW dst \in SUBSET Item, NEW src \in SUBSET Item,
         NEW less \in SUBSET Sources, call.source = s, PassesOver(call), call.step \in {1, 2}
  PROVE  Restoring(s, src, TransferLess(call, dst, src), less \cup {s}, call.step + 1)
  <1> DEFINE result == TransferLess(call, dst, src)
  <1>1. s \in less \cup {s}
    OBVIOUS
  <1>2. CASE s.kind = "postgres"
    BY <1>1, <1>2 DEF Restoring, PartlyRestored, Restored
  <1>3. CASE s.kind = "s3"
    <2>1. call.step = 1 /\ result = dst \cup Missing(dst, src)
      BY <1>3 DEF PassesOver, TransferLess
    <2> HIDE DEF result
    <2>2. \A y \in src : \E x \in result : SameFile(x, y)
      BY <2>1 DEF Missing, SameFile
    <2>3. PartlyRestored(s, src, result, less \cup {s})
      BY <1>1, <1>3, <2>2 DEF PartlyRestored
    <2> QED
      BY <2>1, <2>3 DEF Restoring, result
  <1> QED
    BY <1>2, <1>3 DEF PassesOver

\* A file transfer that an earlier attempt left behind undoes nothing of a later one's.
LEMMA RestoreIsStable ==
  ASSUME NEW s \in Sources, NEW call \in Call, NEW dst \in SUBSET Item, NEW src \in SUBSET Item,
         NEW less \in SUBSET Sources,
         call.source = s, s.kind \notin {"postgres", "s3"}
  PROVE  /\ Restored(s, src, dst, less) => Restored(s, src, Transfer(call, dst, src), less)
         /\ \A step \in {1, 2, 3} : Restoring(s, src, dst, less, step) =>
              Restoring(s, src, Transfer(call, dst, src), less, step)
  <1> DEFINE result == Transfer(call, dst, src)
  <1>1. result = SyncFiles(call.step, dst, src)
    BY Zenon DEF Transfer
  <1>2. result = Prune(dst, src) \/ result = Replace(dst, src)
    BY <1>1 DEF SyncFiles
  <1>3. ASSUME src = dst PROVE src = result
    BY <1>2, <1>3 DEF Prune, Replace, SameFile
  <1>4. ASSUME \A x \in dst : \E y \in src : SameFile(x, y)
        PROVE  \A x \in result : \E y \in src : SameFile(x, y)
    BY <1>2, <1>4 DEF Prune, Replace, SameFile
  <1>5. Restored(s, src, dst, less) => Restored(s, src, result, less)
    <2> HIDE DEF result
    <2> QED
      BY <1>3 DEF Restored
  <1>6. PartlyRestored(s, src, dst, less) => PartlyRestored(s, src, result, less)
    <2> HIDE DEF result
    <2> QED
      BY <1>4 DEF PartlyRestored
  <1> QED
    BY <1>5, <1>6 DEF Restoring

\* A handler writes to the target of the source that it transfers, and to no other.
LEMMA HandlerWrites ==
  ASSUME NEW e \in Events, TypeInv, Handle(e), calls[e].direction = "restore"
  PROVE  LET c == calls[e]
             s == c.source
             old == target[Target(s)]
             src == volume[Path(s)]
         IN  /\ UNCHANGED volume
             /\ \/ /\ target'[Target(s)] = Transfer(c, old, src)
                   /\ spared' = spared
                \/ /\ PassesOver(c)
                   /\ target'[Target(s)] = TransferLess(c, old, src)
                   /\ spared' = spared \cup {s}
             /\ \A u \in Targets : u # Target(s) => target'[u] = target[u]
  <1> DEFINE c == calls[e]
             s == c.source
             full == Transfer(c, target[Target(s)], volume[Path(s)])
             part == TransferLess(c, target[Target(s)], volume[Path(s)])
  <1>1. c \in Call /\ s \in Sources
    BY DEF Handle, TypeInv, ToolTypes, Call
  <1>2. Target(s) \in Targets
    BY <1>1, SourceIs
  <1>3. target \in [Targets -> SUBSET Item]
    BY DEF TypeInv, DataTypes
  <1>4. /\ UNCHANGED volume
        /\ \/ target' = [target EXCEPT ![Target(s)] = full] /\ spared' = spared
           \/ /\ PassesOver(c) /\ spared' = spared \cup {s}
              /\ target' = [target EXCEPT ![Target(s)] = part]
    BY DEF Handle
  <1> HIDE DEF full, part
  <1>5. CASE target' = [target EXCEPT ![Target(s)] = full] /\ spared' = spared
    BY <1>2, <1>3, <1>4, <1>5 DEF full
  <1>6. CASE /\ PassesOver(c) /\ spared' = spared \cup {s}
             /\ target' = [target EXCEPT ![Target(s)] = part]
    BY <1>2, <1>3, <1>4, <1>6 DEF part
  <1> QED
    BY <1>4, <1>5, <1>6

LEMMA RestoreInHandler ==
  ASSUME NEW e \in Events, TargetsDiffer, TypeInv, DistinctInv, StepInv, HydratedInv, HandlersInv,
         RestoreInv, Handle(e)
  PROVE  RestoreInv'
  <1>1. UNCHANGED <<pc, event, next, failed, outcome, config, direction>>
    BY DEF Handle, stageVars, jobVars
  <1>2. CASE failed \/ direction # "restore" \/ (pc = "idle" /\ outcome # "succeeded")
    BY <1>1, <1>2 DEF RestoreInv
  <1>3. CASE ~failed /\ direction = "restore" /\ (pc # "idle" \/ outcome = "succeeded")
    <2> DEFINE c == calls[e]
               s == c.source
    <2>1. hydrated # NoEvent /\ Single(config) = Single(snapshots[hydrated].config)
      BY <1>3 DEF HydratedInv, SameButMembers
    <2>2. c \in Call /\ c # NoCall /\ c.step \in {1, 2} /\ s \in Sources
      BY DEF Handle, TypeInv, ToolTypes, Call
    <2>3. /\ c.direction = "restore"
          /\ s.kind = "fileGroups" \/ s \in Single(config)
          /\ s.kind \in {"postgres", "s3"} => IsAwaited(e)
      BY <2>1, <2>2 DEF HandlersInv
    <2>5. \A i \in 1..Len(config) : config[i] \in Sources
      BY DEF TypeInv, JobTypes
    <2>6. \A i \in 1..Len(config) : Path(config[i]) \in Paths /\ Target(config[i]) \in Targets
      BY <2>5, SourceIs
    <2>7. /\ target[Target(s)] \in SUBSET Item /\ volume[Path(s)] \in SUBSET Item
          /\ spared \in SUBSET Sources
      BY <2>2, SourceIs DEF TypeInv, DataTypes
    <2>8. /\ UNCHANGED volume
          /\ \/ /\ target'[Target(s)] = Transfer(c, target[Target(s)], volume[Path(s)])
                /\ spared' = spared
             \/ /\ PassesOver(c)
                /\ target'[Target(s)] = TransferLess(c, target[Target(s)], volume[Path(s)])
                /\ spared' = spared \cup {s}
          /\ \A u \in Targets : u # Target(s) => target'[u] = target[u]
      BY <2>3, HandlerWrites
    <2>10. calls'[e].step = c.step + 1 /\ \A f \in Events : f # e => calls'[f] = calls[f]
      BY <2>2 DEF Handle, TypeInv, ToolTypes, Call
    <2>11. ASSUME NEW i \in 1..Len(config), config[i] # s
           PROVE  Target(config[i]) # Target(s)
      <3>1. CASE s.kind = "fileGroups"
        BY <2>2, <2>5, <2>11, <3>1 DEF TargetsDiffer
      <3>2. CASE s \in Single(config)
        <4>1. PICK j \in 1..Len(config) : s = config[j]
          BY <3>2 DEF Single, Range, TypeInv, JobTypes
        <4> QED
          BY <2>11, <4>1 DEF DistinctInv, Distinct
      <3> QED
        BY <2>3, <3>1, <3>2
    <2>12. ASSUME NEW i \in 1..Len(config), config[i] # s
           PROVE  /\ target'[Target(config[i])] = target[Target(config[i])]
                  /\ config[i] \in spared' <=> config[i] \in spared
      <3>1. target'[Target(config[i])] = target[Target(config[i])]
        BY <2>6, <2>8, <2>11, <2>12
      <3>2. config[i] \in spared' <=> config[i] \in spared
        BY <2>8, <2>12
      <3> QED
        BY <3>1, <3>2
    <2>13. ASSUME NEW i \in 1..Len(config), config[i] # s,
                  Restored(config[i], volume[Path(config[i])], target[Target(config[i])], spared)
           PROVE  Restored(config[i], volume'[Path(config[i])], target'[Target(config[i])], spared')
      <3>1. \A src, dst : Restored(config[i], src, dst, spared) => Restored(config[i], src, dst, spared')
        BY <2>12, <2>13, Zenon DEF Restored
      <3> QED
        BY <2>8, <2>12, <2>13, <3>1
    <2>14. CASE IsAwaited(e)
      <3>1. e = event /\ pc = "await" /\ next \in 1..Len(config) /\ s = config[next]
        BY <2>14 DEF IsAwaited, StepInv, TypeInv, StageTypes
      <3>2. Restoring(s, volume[Path(s)], target[Target(s)], spared, c.step)
        BY <1>3, <3>1 DEF RestoreInv
      <3>3. Restoring(s, volume'[Path(s)], target'[Target(s)], spared', c.step + 1)
        <4>1. Restoring(s, volume[Path(s)], Transfer(c, target[Target(s)], volume[Path(s)]), spared,
                        c.step + 1)
          BY <2>2, <2>3, <2>7, <3>2, RestoreProgresses
        <4>2. ASSUME PassesOver(c)
              PROVE  Restoring(s, volume[Path(s)],
                               TransferLess(c, target[Target(s)], volume[Path(s)]),
                               spared \cup {s}, c.step + 1)
          BY <2>2, <2>7, <4>2, LessProgresses
        <4> QED
          BY <2>8, <4>1, <4>2
      <3>4. outcome # "succeeded"
        BY <3>1 DEF HydratedInv
      <3>5. ASSUME NEW i \in 1..Len(config), i < next
            PROVE  Restored(config[i], volume'[Path(config[i])], target'[Target(config[i])], spared')
        <4>1. config[i] # s
          BY <3>1, <3>5 DEF DistinctInv, Distinct
        <4>2. Restored(config[i], volume[Path(config[i])], target[Target(config[i])], spared)
          BY <1>3, <3>1, <3>5 DEF RestoreInv
        <4> QED
          BY <2>13, <4>1, <4>2
      <3> QED
        BY <1>1, <2>10, <3>1, <3>3, <3>4, <3>5 DEF RestoreInv
    <2>15. CASE ~IsAwaited(e)
      <3>1. s.kind \notin {"postgres", "s3"}
        BY <2>3, <2>15
      <3>2. /\ target'[Target(s)] = Transfer(c, target[Target(s)], volume[Path(s)])
            /\ spared' = spared
        BY <2>8, <3>1 DEF PassesOver
      <3>3. /\ Restored(s, volume[Path(s)], target[Target(s)], spared) =>
                 Restored(s, volume'[Path(s)], target'[Target(s)], spared')
            /\ \A step \in {1, 2, 3} :
                 Restoring(s, volume[Path(s)], target[Target(s)], spared, step) =>
                   Restoring(s, volume'[Path(s)], target'[Target(s)], spared', step)
        BY <2>2, <2>7, <2>8, <3>1, <3>2, RestoreIsStable
      <3>4. ASSUME NEW i \in 1..Len(config),
                   Restored(config[i], volume[Path(config[i])], target[Target(config[i])], spared)
            PROVE  Restored(config[i], volume'[Path(config[i])], target'[Target(config[i])], spared')
        BY <2>13, <3>3, <3>4
      <3>5. ASSUME pc = "await"
            PROVE  Restoring(config[next], volume'[Path(config[next])],
                             target'[Target(config[next])], spared', calls'[event].step)
        <4>1. e # event /\ event \in Events
          BY <2>15, <3>5 DEF IsAwaited, TypeInv, StageTypes, EventInv, NoEvent
        <4>2. calls'[event] = calls[event] /\ calls[event].step \in {1, 2, 3}
          BY <2>10, <3>5, <4>1 DEF StepInv, Call
        <4>3. next \in 1..Len(config)
          BY <3>5 DEF StepInv, TypeInv, StageTypes
        <4>4. Restoring(config[next], volume[Path(config[next])], target[Target(config[next])],
                        spared, calls[event].step)
          BY <1>3, <3>5 DEF RestoreInv
        <4>5. CASE config[next] = s
          BY <3>3, <4>2, <4>4, <4>5
        <4>6. CASE config[next] # s
          BY <2>8, <2>12, <3>2, <4>2, <4>3, <4>4, <4>6
        <4> QED
          BY <4>5, <4>6
      <3> QED
        BY <1>1, <1>3, <3>4, <3>5 DEF RestoreInv
    <2> QED
      BY <2>14, <2>15
  <1> QED
    BY <1>2, <1>3

LEMMA RestoreStep ==
  TargetsDiffer /\ TypeInv /\ DistinctInv /\ StepInv /\ HydratedInv /\ HandlersInv /\ RestoreInv /\ [Next]_vars
    => RestoreInv'
  <1> SUFFICES ASSUME TargetsDiffer, TypeInv, DistinctInv, StepInv, HydratedInv, HandlersInv,
                      RestoreInv, [Next]_vars
               PROVE  RestoreInv'
    OBVIOUS
  <1>1. CASE StartJob \/ Hydrate \/ ApplicationWrites
    <2>1. outcome' = "none" /\ pc' \in {"setup", "idle"}
      BY <1>1 DEF StartJob, Hydrate, ApplicationWrites, BeginAttempt
    <2> QED
      BY <2>1 DEF RestoreInv
  <1>2. CASE End
    <2>1. pc = "end" /\ UNCHANGED <<direction, volume, target, spared>>
      BY <1>2 DEF End, dataVars
    <2>2. CASE pc' = "setup" /\ UNCHANGED outcome
      BY <2>1, <2>2 DEF RestoreInv, HydratedInv
    <2>3. CASE pc' = "idle" /\ UNCHANGED <<failed, config>>
      BY <2>1, <2>3 DEF RestoreInv
    <2> QED
      BY <1>2, <2>2, <2>3 DEF End, Retry, BeginAttempt, stageVars
  <1>3. CASE \/ CreateUserCertFails \/ SetupFails \/ ToolIsNotReady \/ CreateToolFails
             \/ GroupIsRefused \/ CallFails \/ CallIsCut \/ PublishFails \/ Kill
    <2>1. failed'
      BY <1>3 DEF GroupIsRefused, CreateUserCertFails, SetupFails, ToolIsNotReady, CreateToolFails, CallFails,
        CallIsCut, PublishFails, Kill, FailTo
    <2> QED
      BY <2>1 DEF RestoreInv
  <1>4. CASE SetupOne \/ CreateUserCert \/ SetupDone
    <2>1. pc = "setup" /\ UNCHANGED outcome /\ (pc' \in {"setup", "tool"} \/ failed')
      BY <1>4 DEF SetupOne, CreateUserCert, SetupDone, Proceed, FailTo, jobVars
    <2> QED
      BY <2>1 DEF RestoreInv, HydratedInv
  <1>5. CASE CreateTool
    <2>1. pc = "tool" /\ pc' = "call" /\ next' = 1 /\ UNCHANGED <<outcome, config>>
      BY <1>5 DEF CreateTool, Proceed, jobVars
    <2> QED
      BY <2>1 DEF RestoreInv, HydratedInv
  <1>6. CASE Execute
    <2>1. event \in Events /\ calls \in [Events -> Call \cup {NoCall}]
      BY <1>6 DEF Execute, TypeInv, StageTypes, ToolTypes, EventInv, NoEvent
    <2>2. calls'[event].step = 1 /\ pc = "call" /\ pc' = "await"
      BY <1>6, <2>1 DEF Execute, Proceed
    <2>3. UNCHANGED <<event, next, failed, outcome, direction, config, volume, target>>
      BY <1>6 DEF Execute, Proceed, jobVars
    <2>4. spared' = spared \ {config[next]} /\ next \in 1..Len(config)
      BY <1>6, CurrentIsSource DEF Execute, Current
    <2>5. ASSUME NEW i \in 1..Len(config), i < next, NEW src, NEW dst,
                 Restored(config[i], src, dst, spared)
          PROVE  Restored(config[i], src, dst, spared')
      <3>1. config[i] # config[next]
        BY <2>4, <2>5 DEF DistinctInv, Distinct, TypeInv, StageTypes
      <3> QED
        BY <2>4, <2>5, <3>1, Zenon DEF Restored
    <2>6. outcome # "succeeded"
      BY <2>2 DEF HydratedInv
    <2>7. \A s, src, dst : Restoring(s, src, dst, spared', 1)
      BY DEF Restoring
    <2> QED
      BY <2>2, <2>3, <2>5, <2>6, <2>7 DEF RestoreInv
  <1>7. CASE Answer
    <2>1. next \in Nat /\ pc = "await" /\ calls[event].step = 3 /\ next' = next + 1 /\ pc' = "call"
      BY <1>7 DEF Answer, Proceed, TypeInv, StageTypes
    <2>2. UNCHANGED <<event, failed, outcome, direction, config, volume, target, spared>>
      BY <1>7 DEF Answer, Proceed, jobVars, dataVars
    <2> QED
      BY <2>1, <2>2 DEF RestoreInv, Restoring, HydratedInv
  <1>8. CASE ExecuteDone \/ DeleteTool \/ CleanUpOne
    <2>1. /\ UNCHANGED <<event, next, outcome, direction, config, volume, target, spared>>
          /\ pc \in {"call", "delete", "cleanup"} /\ pc' \in {"delete", "cleanup"}
      BY <1>8 DEF ExecuteDone, DeleteTool, CleanUpOne, Proceed, jobVars, dataVars
    <2>2. failed' \/ UNCHANGED failed
      BY <1>8 DEF ExecuteDone, DeleteTool, CleanUpOne, Proceed
    <2> QED
      BY <2>1, <2>2 DEF RestoreInv, HydratedInv
  <1>9. CASE CleanUpDone
    <2>1. /\ UNCHANGED <<next, failed, outcome, direction, config, volume, target, spared>>
          /\ pc = "cleanup" /\ pc' \in {"end", "publish"}
      BY <1>9 DEF CleanUpDone, Proceed, jobVars, dataVars
    <2>2. ~failed => next > Len(config) /\ next \in Nat
      BY <2>1 DEF StepInv, TypeInv, StageTypes
    <2>3. \A i \in 1..Len(config) : ~failed => i < next
      BY <2>2 DEF TypeInv, JobTypes
    <2> QED
      BY <2>1, <2>3 DEF RestoreInv, HydratedInv
  <1>10. CASE Publish
    <2>1. pc = "publish" /\ UNCHANGED direction
      BY <1>10 DEF Publish, jobVars
    <2> QED
      BY <2>1 DEF RestoreInv, StepInv
  <1>11. CASE ToolPods
    <2>1. PICK e \in Events : Handle(e) \/ Forget(e) \/ PodEnds(e)
      BY <1>11 DEF ToolPods
    <2>2. CASE Handle(e)
      BY <2>2, RestoreInHandler
    <2>3. CASE Forget(e) \/ PodEnds(e)
      <3>1. UNCHANGED <<pc, event, next, failed, outcome, direction, config, volume, target, spared>>
        BY <2>3 DEF Forget, PodEnds, stageVars, jobVars, dataVars
      <3>2. pc = "await" => calls'[event] = calls[event]
        BY <2>3 DEF Forget, PodEnds, StepInv, TypeInv, StageTypes, ToolTypes, EventInv, NoEvent
      <3> QED
        BY <3>1, <3>2 DEF RestoreInv
    <2> QED
      BY <2>1, <2>2, <2>3
  <1>12. CASE UNCHANGED vars
    BY <1>12 DEF RestoreInv, vars, jobVars, stageVars, dataVars, toolVars
  <1> QED
    BY <1>1, <1>2, <1>3, <1>4, <1>5, <1>6, <1>7, <1>8, <1>9, <1>10, <1>11, <1>12
    DEF Next, Orchestrator, Done

RestoreAllInv == DistinctInv /\ StepInv /\ HydratedInv /\ HandlersInv /\ RestoreInv

LEMMA RestoreAlways ==
  ASSUME TargetsDiffer
  PROVE  Spec => [](TypeInv /\ RestoreAllInv)
  <1>1. Init => RestoreAllInv
    <2> SUFFICES ASSUME Init PROVE RestoreAllInv
      OBVIOUS
    <2>1. DistinctInv
      BY DistinctAtInit
    <2>2. StepInv /\ HydratedInv /\ HandlersInv /\ RestoreInv
      BY DEF Init, StepInv, HydratedInv, HandlersInv, RestoreInv
    <2> QED
      BY <2>1, <2>2 DEF RestoreAllInv
  <1>2. TypeInv /\ RestoreAllInv /\ [Next]_vars => RestoreAllInv'
    BY TargetsDiffer, DistinctStep, StepInvStep, HydratedStep, HandlersStep, RestoreStep
    DEF RestoreAllInv
  <1> QED
    BY <1>1, <1>2, TypesAtInit, TypesStep, PTL DEF Spec

\* If no two sources of a configuration are the same, a Job that succeeds in restoring leaves
\* every source with what the backup published, whatever earlier attempts did or still do,
\* except for what psql was refused and the objects that an upload skipped.
THEOREM RestoresAreOfBackups ==
  ASSUME TargetsDiffer
  PROVE  Spec => []RestoredIsPublished
  <1>1. TypeInv /\ RestoreAllInv => RestoredIsPublished
    <2> SUFFICES ASSUME TypeInv, RestoreAllInv, direction = "restore", outcome = "succeeded",
                        NEW s \in Range(config)
                 PROVE  Holds(target[Target(s)], snapshots[hydrated].content[Path(s)], s)
      BY DEF RestoredIsPublished
    <2>1. ~failed /\ hydrated # NoEvent /\ volume = snapshots[hydrated].content
      BY DEF RestoreAllInv, HydratedInv
    <2>2. PICK i \in 1..Len(config) : s = config[i]
      BY DEF Range, TypeInv, JobTypes
    <2>3. Restored(s, volume[Path(s)], target[Target(s)], spared)
      BY <2>1, <2>2 DEF RestoreAllInv, RestoreInv
    <2> QED
      BY <2>1, <2>3 DEF Restored, Holds
  <1> QED
    BY <1>1, RestoreAlways, PTL

-----------------------------------------------------------------------------
\* That a Job ends is a property under fairness, which is for TLC.  What it rests on are
\* facts about steps and states.

PlaceRank ==
  [setup |-> 1, tool |-> 2, call |-> 3, await |-> 3, delete |-> 4, cleanup |-> 5, publish |-> 6,
   end |-> 7, idle |-> 8]

\* The attempt goes on to a later place, to the source's transfer, to the next source, or has
\* less to delete.
AttemptAdvances ==
  \/ PlaceRank[pc] < PlaceRank[pc']
  \/ pc = "call" /\ pc' = "await" /\ next' = next
  \/ /\ <<pc, pc'>> \in {<<"setup", "setup">>, <<"await", "call">>}
     /\ next < next' /\ next' <= Len(config) + 1
  \/ pc = "cleanup" /\ pc' = pc /\ recorded' \subseteq recorded /\ recorded' # recorded

\* The Job goes on to its next attempt, or the attempt advances.
JobAdvances ==
  \/ pc = "end" /\ tries' = tries + 1 /\ tries' <= 1 + BackoffLimit
  \/ AttemptAdvances /\ UNCHANGED <<tries, config>>

\* What a Job does, one step after another.
LEMMA OrchestratorAdvances ==
  ASSUME TypeInv, StepInv, pc # "idle", Orchestrator
  PROVE  JobAdvances
  <1>0. /\ next \in Nat /\ Len(config) \in Nat /\ tries \in 0..1 + BackoffLimit /\ BackoffLimit \in Nat
        /\ pc \in {"setup", "tool", "call", "await", "delete", "cleanup", "publish", "end"}
    BY JobsAssumption DEF TypeInv, StageTypes, JobTypes
  <1>1. CASE \E to \in {"cleanup", "delete", "end"} :
               FailTo(to) /\ PlaceRank[pc] < PlaceRank[to] /\ UNCHANGED <<tries, config>>
    BY <1>1 DEF FailTo, JobAdvances, AttemptAdvances
  <1>2. CASE End
    BY <1>0, <1>2 DEF End, Retry, BeginAttempt, JobAdvances, AttemptAdvances, PlaceRank
  <1>3. CASE SetupOne \/ CreateUserCert
    <2>1. UNCHANGED <<tries, config>> /\ pc = "setup" /\ next < next + 1 /\ next + 1 <= Len(config) + 1
      BY <1>0, <1>3 DEF SetupOne, CreateUserCert, jobVars, AtEnd
    <2> QED
      BY <1>1, <1>3, <2>1 DEF SetupOne, CreateUserCert, Proceed, JobAdvances, AttemptAdvances, PlaceRank
  <1>4. CASE CreateUserCertFails \/ SetupFails \/ ToolIsNotReady \/ CreateToolFails
    <2>1. pc \in {"setup", "tool"} /\ FailTo("cleanup") /\ UNCHANGED <<tries, config>>
      BY <1>4 DEF CreateUserCertFails, SetupFails, ToolIsNotReady, CreateToolFails, jobVars
    <2> QED
      BY <1>1, <2>1 DEF PlaceRank
  <1>5. CASE CallFails \/ CallIsCut \/ PublishFails
    <2>1. UNCHANGED <<tries, config>>
      BY <1>5 DEF CallFails, CallIsCut, PublishFails, jobVars
    <2>2. \/ pc = "await" /\ FailTo("delete")
          \/ pc = "publish" /\ FailTo("end")
      BY <1>5 DEF CallFails, CallIsCut, PublishFails
    <2> QED
      BY <1>1, <2>1, <2>2 DEF PlaceRank
  <1>6. CASE Kill
    <2>1. PlaceRank[pc] < PlaceRank["end"]
      BY <1>0, <1>6 DEF Kill, PlaceRank
    <2> QED
      BY <1>1, <1>6, <2>1 DEF Kill, jobVars
  <1>7. CASE SetupDone \/ CreateTool \/ ExecuteDone \/ DeleteTool \/ Publish
    <2>1. UNCHANGED <<tries, config>>
      BY <1>7 DEF SetupDone, CreateTool, ExecuteDone, DeleteTool, Publish, jobVars
    <2>2. <<pc, pc'>> \in {<<"setup", "tool">>, <<"tool", "call">>, <<"call", "delete">>,
                           <<"delete", "cleanup">>, <<"publish", "end">>}
      BY <1>7 DEF SetupDone, CreateTool, ExecuteDone, DeleteTool, Publish, Proceed
    <2>3. PlaceRank[pc] < PlaceRank[pc']
      BY <2>2 DEF PlaceRank
    <2> QED
      BY <2>1, <2>3 DEF JobAdvances, AttemptAdvances
  <1>8. CASE CleanUpDone
    BY <1>8 DEF CleanUpDone, Proceed, jobVars, JobAdvances, AttemptAdvances, PlaceRank
  <1>11. CASE GroupIsRefused
    <2>1. pc = "call" /\ FailTo("delete") /\ UNCHANGED <<tries, config>>
      BY <1>11 DEF GroupIsRefused, jobVars
    <2> QED
      BY <1>1, <2>1 DEF PlaceRank
  <1>9. CASE Execute \/ Answer
    <2>1. UNCHANGED <<tries, config>> /\ (pc = "await" => next <= Len(config))
      BY <1>9 DEF Execute, Answer, jobVars, StepInv
    <2>2. CASE Execute
      BY <2>1, <2>2 DEF Execute, Proceed, JobAdvances, AttemptAdvances
    <2>3. CASE Answer
      BY <1>0, <2>1, <2>3 DEF Answer, Proceed, JobAdvances, AttemptAdvances
    <2> QED
      BY <1>9, <2>2, <2>3
  <1>10. CASE CleanUpOne
    <2>1. PICK c \in recorded : recorded' = recorded \ {c}
      BY <1>10 DEF CleanUpOne, DeletableBy
    <2> QED
      BY <1>10, <2>1 DEF CleanUpOne, jobVars, JobAdvances, AttemptAdvances
  <1> QED
    BY <1>2, <1>3, <1>4, <1>5, <1>6, <1>7, <1>8, <1>9, <1>10, <1>11 DEF Orchestrator, StartJob

FiniteInv == IsFiniteSet(recorded)

LEMMA FiniteStep == FiniteInv /\ [Next]_vars => FiniteInv'
  <1> SUFFICES ASSUME IsFiniteSet(recorded), [Next]_vars PROVE IsFiniteSet(recorded')
    BY DEF FiniteInv
  <1>1. CASE StartJob \/ End
    BY <1>1, FS_EmptySet DEF StartJob, End, Retry, BeginAttempt, stageVars
  <1>2. CASE CreateUserCert
    BY <1>2, FS_AddElement DEF CreateUserCert, FailTo
  <1>3. CASE CleanUpOne
    <2>1. recorded' \subseteq recorded
      BY <1>3 DEF CleanUpOne
    <2> QED
      BY <2>1, FS_Subset
  <1>4. CASE UNCHANGED recorded
    BY <1>4
  <1> QED
    BY <1>1, <1>2, <1>3, <1>4, CertsAreKept
    DEF Next, Orchestrator, Done, vars, stageVars, CreateUserCertFails, FailTo

LEMMA StepsAlways == Spec => [](TypeInv /\ StepInv /\ FiniteInv)
  <1>1. Init => StepInv
    BY DEF Init, StepInv
  <1>2. Init => FiniteInv
    BY FS_EmptySet DEF Init, FiniteInv
  <1> QED
    BY <1>1, <1>2, TypesAtInit, TypesStep, StepInvStep, FiniteStep, PTL DEF Spec

\* No Job goes on for ever: each step of an attempt takes it to a later place, to the transfer
\* of the source it is at or to the next of them, or leaves it less of the finitely many
\* certificates to delete, or it is a retry, of which there are only so many; and nothing that
\* tool pods do meanwhile takes it back.
THEOREM JobsAdvance ==
  Spec => [][/\ pc # "idle" /\ Orchestrator => JobAdvances
             /\ ToolPods => UNCHANGED <<pc, tries, config, next, recorded>>
             /\ IsFiniteSet(recorded)]_vars
  <1>1. TypeInv /\ StepInv /\ FiniteInv =>
          [/\ pc # "idle" /\ Orchestrator => JobAdvances
           /\ ToolPods => UNCHANGED <<pc, tries, config, next, recorded>>
           /\ IsFiniteSet(recorded)]_vars
    <2>1. ToolPods => UNCHANGED <<pc, tries, config, next, recorded>>
      BY DEF ToolPods, Handle, Forget, PodEnds, jobVars, stageVars
    <2> QED
      BY <2>1, OrchestratorAdvances DEF FiniteInv
  <1> QED
    BY <1>1, StepsAlways, PTL

\* No attempt waits for an answer that cannot come: while it waits its tool pod runs, with a
\* handler of its call that has a step to take or has come to its end.
THEOREM NobodyWaitsInVain ==
  Spec => [](pc = "await" =>
               /\ pods[event] = "running"
               /\ calls[event].step \in 1..3
               /\ calls[event].source = config[next] /\ calls[event].direction = direction)
  <1>1. StepInv => (pc = "await" =>
                      /\ pods[event] = "running"
                      /\ calls[event].step \in 1..3
                      /\ calls[event].source = config[next] /\ calls[event].direction = direction)
    BY DEF StepInv, Call
  <1> QED
    BY <1>1, StepsAlways, PTL

=============================================================================
