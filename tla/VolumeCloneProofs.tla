-------------------------- MODULE VolumeCloneProofs --------------------------
(***************************************************************************)
(* That a clone that fails leaves only what could not be deleted, that a   *)
(* snapshot never goes before the clones made from it are bound, and that  *)
(* only a group that grew is cloned in part, for any set of volumes.       *)
(***************************************************************************)
EXTENDS VolumeClone, FiniteSetTheorems, TLAPS

CallSet == {"deleteSnapshot", "deleteClones", "deletePod"}

Unwound == pc \in {"unwind", "returned"}
Forward == Places \ {"unwind", "returned"}

\* What has been deferred, by the place of the operation; some are a group's only.
DeferredInv ==
  /\ pc \in {"list", "waitMembers"} => kind = "group"
  /\ pc \in {"list", "snapshot"} => deferred = Stack(0) /\ exists = {}
  /\ pc \in {"waitReady", "waitMembers"} => deferred = Stack(1)
  /\ pc = "clone" => deferred = IF kind = "single" /\ result = {} THEN Stack(1) ELSE Stack(2)
  /\ pc = "bindPod" => deferred = Stack(2)
  /\ pc = "waitBound" => deferred = Stack(3)
  /\ pc = "returned" => deferred = Stack(0)

\* What is there is yet to be deleted, was refused, or is the caller's.
ExistsInv ==
  /\ "snapshot" \in exists =>
       deferred # Stack(0) \/ "snapshot" \in refused \/ (kind = "group" /\ ~err)
  /\ "pod" \in exists => deferred = Stack(3) \/ "pod" \in refused
  /\ ~Unwound => ~err /\ refused = {}

\* Clones are recorded until they are given up, which an error before the snapshot's turn
\* makes them be.  Without an error they are bound before anything is deleted.
ClonesInv ==
  /\ clones \subseteq result \cup refused
  /\ Unwound /\ ~err => result \subseteq bound
  /\ Unwound /\ deferred = Stack(1) /\ err => result = {}
  /\ Unwound /\ deferred = Stack(0) /\ err =>
       result = {} \/ (kind = "single" /\ "snapshot" \in refused)

\* What is cloned: the one volume, or as many members as volumes were listed.
ChosenInv ==
  /\ kind = "single" => \E p \in PVCs : selected = {p} /\ members \subseteq {p}
  /\ pc \in {"list", "snapshot", "waitReady", "waitMembers"} => chosen = {}
  /\ pc \in {"clone", "bindPod", "waitBound"} \/ (Unwound /\ ~err) =>
       IF kind = "single"
       THEN chosen = members /\ members # {}
       ELSE Cardinality(chosen) = Cardinality(listed)
  /\ pc \in {"bindPod", "waitBound"} \/ (Unwound /\ ~err) => result = chosen

CloneInv == TypeOK /\ DeferredInv /\ ExistsInv /\ ClonesInv /\ ChosenInv

-----------------------------------------------------------------------------
\* The stack of deferred calls.

LEMMA SameSequence ==
  ASSUME NEW S, NEW s \in Seq(S), NEW t \in Seq(S), Len(s) = Len(t),
         \A i \in 1..Len(s) : s[i] = t[i]
  PROVE  s = t
  OBVIOUS

LEMMA StackIs ==
  ASSUME NEW n \in 0..3
  PROVE  /\ Stack(n) \in Seq(CallSet)
         /\ Len(Stack(n)) = n
         /\ \A i \in 1..n : Stack(n)[i] = Calls[i]
  <1>1. Calls \in Seq(CallSet) /\ Len(Calls) = 3
    BY DEF Calls, CallSet
  <1>2. n \in Nat /\ n <= 3
    OBVIOUS
  <1>3. Len(Stack(n)) = n
    BY <1>1, <1>2 DEF Stack
  <1>4. Stack(n) \in Seq(CallSet)
    BY <1>1, <1>2 DEF Stack
  <1>5. \A i \in 1..n : Stack(n)[i] = Calls[i]
    BY <1>1, <1>2 DEF Stack
  <1> QED
    BY <1>3, <1>4, <1>5

LEMMA Deferring ==
  ASSUME NEW n \in 0..2
  PROVE  Append(Stack(n), Calls[n + 1]) = Stack(n + 1)
  <1>1. Calls[n + 1] \in CallSet
    BY DEF Calls, CallSet
  <1>2. n \in 0..3 /\ n + 1 \in 0..3
    OBVIOUS
  <1>3. /\ Append(Stack(n), Calls[n + 1]) \in Seq(CallSet)
        /\ Len(Append(Stack(n), Calls[n + 1])) = n + 1
        /\ \A i \in 1..n + 1 : Append(Stack(n), Calls[n + 1])[i] = Calls[i]
    BY <1>1, <1>2, StackIs
  <1>4. /\ Stack(n + 1) \in Seq(CallSet)
        /\ Len(Stack(n + 1)) = n + 1
        /\ \A i \in 1..n + 1 : Stack(n + 1)[i] = Calls[i]
    BY <1>2, StackIs, Zenon
  <1> QED
    BY <1>3, <1>4, SameSequence

LEMMA Running ==
  ASSUME NEW n \in 1..3
  PROVE  /\ Stack(n) # <<>> /\ Stack(n)[Len(Stack(n))] = Calls[n]
         /\ SubSeq(Stack(n), 1, Len(Stack(n)) - 1) = Stack(n - 1)
  <1>1. n \in 0..3 /\ n - 1 \in 0..3
    OBVIOUS
  <1>2. /\ Stack(n) \in Seq(CallSet)
        /\ Len(Stack(n)) = n
        /\ \A i \in 1..n : Stack(n)[i] = Calls[i]
    BY <1>1, StackIs, Zenon
  <1>3. /\ Stack(n - 1) \in Seq(CallSet)
        /\ Len(Stack(n - 1)) = n - 1
        /\ \A i \in 1..n - 1 : Stack(n - 1)[i] = Calls[i]
    BY <1>1, StackIs, Zenon
  <1>4. /\ SubSeq(Stack(n), 1, n - 1) \in Seq(CallSet)
        /\ Len(SubSeq(Stack(n), 1, n - 1)) = n - 1
        /\ \A i \in 1..n - 1 : SubSeq(Stack(n), 1, n - 1)[i] = Calls[i]
    BY <1>2
  <1>5. SubSeq(Stack(n), 1, n - 1) = Stack(n - 1)
    BY <1>3, <1>4, SameSequence
  <1> QED
    BY <1>2, <1>5

LEMMA CallNames ==
  Calls[1] = "deleteSnapshot" /\ Calls[2] = "deleteClones" /\ Calls[3] = "deletePod"
  BY DEF Calls

LEMMA NoCalls == Stack(0) = <<>>
  BY StackIs

LEMMA StackTypes == \A n \in {0, 1, 2, 3} : Stack(n) \in {Stack(m) : m \in 0..3}
  OBVIOUS

LEMMA StacksDiffer ==
  /\ Stack(0) # Stack(1) /\ Stack(0) # Stack(2) /\ Stack(0) # Stack(3)
  /\ Stack(1) # Stack(2) /\ Stack(1) # Stack(3) /\ Stack(2) # Stack(3)
  <1>1. ASSUME NEW m \in 0..3, NEW n \in 0..3, m # n
        PROVE  Stack(m) # Stack(n)
    <2>1. Len(Stack(m)) = m /\ Len(Stack(n)) = n
      BY StackIs, Zenon
    <2> QED
      BY <1>1, <2>1, Zenon
  <1> QED
    BY <1>1

LEMMA DeferringEach ==
  /\ Append(Stack(0), "deleteSnapshot") = Stack(1)
  /\ Append(Stack(1), "deleteClones") = Stack(2)
  /\ Append(Stack(2), "deletePod") = Stack(3)
  <1>1. \A n \in 0..2 : Append(Stack(n), Calls[n + 1]) = Stack(n + 1)
    BY Deferring, Zenon
  <1> QED
    BY <1>1, CallNames

\* The call that is run is the last of the stack.
LEMMA UnwindingEach ==
  ASSUME TypeOK, NEW call, Unwinding(call)
  PROVE  /\ call = "deleteSnapshot" => deferred = Stack(1) /\ deferred' = Stack(0)
         /\ call = "deleteClones" => deferred = Stack(2) /\ deferred' = Stack(1)
         /\ call = "deletePod" => deferred = Stack(3) /\ deferred' = Stack(2)
  <1>1. PICK n \in 0..3 : deferred = Stack(n)
    BY DEF TypeOK, Stack, Calls
  <1>2. n # 0
    BY <1>1, NoCalls DEF Unwinding
  <1>3. n \in 1..3
    BY <1>2
  <1>4. call = Calls[n] /\ deferred' = Stack(n - 1)
    BY <1>1, <1>3, Running DEF Unwinding
  <1> QED
    BY <1>1, <1>3, <1>4, CallNames

-----------------------------------------------------------------------------
\* The invariant.

LEMMA InitClone == Init => CloneInv
  <1> SUFFICES ASSUME Init PROVE CloneInv
    OBVIOUS
  <1>1. deferred = Stack(0)
    BY NoCalls DEF Init
  <1>2. TypeOK
    <2>1. deferred \in {Stack(n) : n \in 0..3}
      BY <1>1
    <2> QED
      BY <2>1 DEF Init, TypeOK, Places
  <1>3. DeferredInv /\ ExistsInv
    BY <1>1 DEF Init, DeferredInv, ExistsInv, Unwound
  <1>4. ClonesInv
    BY DEF Init, ClonesInv, Unwound
  <1>5. kind = "single" => \E p \in PVCs : selected = {p} /\ members \subseteq {p}
    <2> SUFFICES ASSUME kind = "single" PROVE \E p \in PVCs : selected = {p}
      BY DEF Init
    <2>1. selected \in SUBSET PVCs /\ Cardinality(selected) = 1
      BY DEF Init
    <2>2. IsFiniteSet(selected)
      BY <2>1, PVCsAssumption, FS_Subset
    <2> QED
      BY <2>1, <2>2, FS_Singleton
  <1>6. ChosenInv
    BY <1>5 DEF Init, ChosenInv, Unwound
  <1> QED
    BY <1>2, <1>3, <1>4, <1>6 DEF CloneInv

LEMMA FailsStep ==
  ASSUME CloneInv, NEW p \in Forward, Fails(p)
  PROVE  CloneInv'
  <1> USE DEF CloneInv, Fails, Goto, inputs, captureVars, Unwound, Places, Forward
  <1>1. TypeOK'
    BY DEF TypeOK
  <1>2. DeferredInv' /\ ChosenInv'
    BY DEF DeferredInv, ChosenInv
  <1>3. ExistsInv'
    BY StacksDiffer DEF DeferredInv, ExistsInv
  <1>4. ClonesInv'
    BY StacksDiffer DEF TypeOK, DeferredInv, ChosenInv, ClonesInv
  <1> QED
    BY <1>1, <1>2, <1>3, <1>4

\* Up to the deferred calls.
LEMMA ForwardStep ==
  ASSUME CloneInv, \A p \in Forward : ~Fails(p),
         \/ List \/ CreateSnapshot \/ WaitReady \/ WaitMembers \/ CreateClone
         \/ ClonesCreated \/ CreateBindPod \/ WaitBound
  PROVE  CloneInv'
  <1> USE StackTypes, StacksDiffer, DeferringEach
      DEF CloneInv, TypeOK, Goto, inputs, captureVars, Unwound, Places, Forward, Defer
  <1>1. CASE List
    <2> USE <1>1 DEF List
    <2>1. TypeOK'
      BY DEF DeferredInv, ExistsInv, ClonesInv, ChosenInv
    <2>2. DeferredInv'
      BY DEF DeferredInv, ExistsInv, ClonesInv, ChosenInv
    <2>3. ExistsInv'
      BY DEF DeferredInv, ExistsInv, ClonesInv, ChosenInv
    <2>4. ClonesInv'
      BY DEF DeferredInv, ExistsInv, ClonesInv, ChosenInv
    <2>5. ChosenInv'
      BY DEF DeferredInv, ExistsInv, ClonesInv, ChosenInv
    <2> QED
      BY <2>1, <2>2, <2>3, <2>4, <2>5
  <1>2. CASE CreateSnapshot
    <2> USE <1>2 DEF CreateSnapshot
    <2>1. TypeOK'
      BY DEF DeferredInv, ExistsInv, ClonesInv, ChosenInv
    <2>2. DeferredInv'
      BY DEF DeferredInv, ExistsInv, ClonesInv, ChosenInv
    <2>3. ExistsInv'
      BY DEF DeferredInv, ExistsInv, ClonesInv, ChosenInv
    <2>4. ClonesInv'
      BY DEF DeferredInv, ExistsInv, ClonesInv, ChosenInv
    <2>5. ChosenInv'
      BY DEF DeferredInv, ExistsInv, ClonesInv, ChosenInv
    <2> QED
      BY <2>1, <2>2, <2>3, <2>4, <2>5
  <1>3. CASE WaitReady
    <2> USE <1>3 DEF WaitReady
    <2>1. TypeOK'
      BY DEF DeferredInv, ExistsInv, ClonesInv, ChosenInv
    <2>2. DeferredInv'
      BY DEF DeferredInv, ExistsInv, ClonesInv, ChosenInv
    <2>3. ExistsInv'
      BY DEF DeferredInv, ExistsInv, ClonesInv, ChosenInv
    <2>4. ClonesInv'
      BY DEF DeferredInv, ExistsInv, ClonesInv, ChosenInv
    <2>5. ChosenInv'
      BY DEF DeferredInv, ExistsInv, ClonesInv, ChosenInv
    <2> QED
      BY <2>1, <2>2, <2>3, <2>4, <2>5
  <1>4. CASE WaitMembers
    <2> USE <1>4 DEF WaitMembers, Awaited
    <2>1. TypeOK'
      BY DEF DeferredInv, ExistsInv, ClonesInv, ChosenInv
    <2>2. DeferredInv'
      BY DEF DeferredInv, ExistsInv, ClonesInv, ChosenInv
    <2>3. ExistsInv'
      BY DEF DeferredInv, ExistsInv, ClonesInv, ChosenInv
    <2>4. ClonesInv'
      BY DEF DeferredInv, ExistsInv, ClonesInv, ChosenInv
    <2>5. ChosenInv'
      BY DEF DeferredInv, ExistsInv, ClonesInv, ChosenInv
    <2> QED
      BY <2>1, <2>2, <2>3, <2>4, <2>5
  <1>5. CASE CreateClone
    <2> USE <1>5 DEF CreateClone
    <2>1. PICK m \in chosen \ result :
            clones' = clones \cup {m} /\ result' = result \cup {m} /\ pc = "clone" /\ pc' = "clone"
      OBVIOUS
    <2>2. kind = "single" => result = {} /\ deferred = Stack(1) /\ deferred' = Stack(2)
      BY <2>1 DEF DeferredInv, ChosenInv
    <2>3. kind = "group" => deferred = Stack(2) /\ deferred' = Stack(2)
      BY <2>1 DEF DeferredInv
    <2>4. deferred' = Stack(2) /\ deferred \in {Stack(1), Stack(2)}
      BY <2>2, <2>3
    <2>5. UNCHANGED <<inputs, captureVars, listed, chosen, bound, exists, refused, err>>
      OBVIOUS
    <2>6. TypeOK'
      BY <2>1, <2>4, <2>5
    <2>7. DeferredInv'
      BY <2>1, <2>4, <2>5 DEF DeferredInv
    <2>8. ExistsInv'
      BY <2>1, <2>4, <2>5 DEF ExistsInv
    <2>9. ClonesInv'
      BY <2>1, <2>5 DEF ClonesInv
    <2>10. ChosenInv'
      BY <2>1, <2>5 DEF ChosenInv
    <2> QED
      BY <2>6, <2>7, <2>8, <2>9, <2>10
  <1>6. CASE ClonesCreated
    <2> USE <1>6 DEF ClonesCreated
    <2>1. TypeOK'
      BY DEF DeferredInv, ExistsInv, ClonesInv, ChosenInv
    <2>2. DeferredInv'
      BY DEF DeferredInv, ExistsInv, ClonesInv, ChosenInv
    <2>3. ExistsInv'
      BY DEF DeferredInv, ExistsInv, ClonesInv, ChosenInv
    <2>4. ClonesInv'
      BY DEF DeferredInv, ExistsInv, ClonesInv, ChosenInv
    <2>5. ChosenInv'
      BY DEF DeferredInv, ExistsInv, ClonesInv, ChosenInv
    <2> QED
      BY <2>1, <2>2, <2>3, <2>4, <2>5
  <1>7. CASE CreateBindPod
    <2> USE <1>7 DEF CreateBindPod
    <2>0. deferred' = Stack(3) /\ pc' = "waitBound" /\ exists' = exists \cup {"pod"}
      BY DEF DeferredInv
    <2>1. TypeOK'
      BY DEF DeferredInv, ExistsInv, ClonesInv, ChosenInv
    <2>2. DeferredInv'
      BY DEF DeferredInv, ExistsInv, ClonesInv, ChosenInv
    <2>3. ExistsInv'
      BY <2>0 DEF ExistsInv
    <2>4. ClonesInv'
      BY DEF DeferredInv, ExistsInv, ClonesInv, ChosenInv
    <2>5. ChosenInv'
      BY DEF DeferredInv, ExistsInv, ClonesInv, ChosenInv
    <2> QED
      BY <2>1, <2>2, <2>3, <2>4, <2>5
  <1>8. CASE WaitBound
    <2> USE <1>8 DEF WaitBound
    <2>1. TypeOK'
      BY DEF DeferredInv, ExistsInv, ClonesInv, ChosenInv
    <2>2. DeferredInv'
      BY DEF DeferredInv, ExistsInv, ClonesInv, ChosenInv
    <2>3. ExistsInv'
      BY DEF DeferredInv, ExistsInv, ClonesInv, ChosenInv
    <2>4. ClonesInv'
      BY DEF DeferredInv, ExistsInv, ClonesInv, ChosenInv
    <2>5. ChosenInv'
      BY DEF DeferredInv, ExistsInv, ClonesInv, ChosenInv
    <2> QED
      BY <2>1, <2>2, <2>3, <2>4, <2>5
  <1> QED
    BY <1>1, <1>2, <1>3, <1>4, <1>5, <1>6, <1>7, <1>8

\* The deferred calls, and the return.
LEMMA UnwindStep ==
  ASSUME CloneInv, DeletePod \/ DeleteClones \/ DeleteSnapshot \/ Return
  PROVE  CloneInv'
  <1> USE StackTypes, StacksDiffer, NoCalls
      DEF CloneInv, TypeOK, Goto, inputs, captureVars, Unwound, Places, Forward
  <1>1. CASE DeletePod
    <2>0. deferred = Stack(3) /\ deferred' = Stack(2)
      BY <1>1, UnwindingEach DEF DeletePod
    <2> USE <1>1, <2>0 DEF DeletePod, Delete, Unwinding
    <2>1. TypeOK'
      BY DEF DeferredInv, ExistsInv, ClonesInv, ChosenInv
    <2>2. DeferredInv'
      BY DEF DeferredInv, ExistsInv, ClonesInv, ChosenInv
    <2>3. ExistsInv'
      BY DEF DeferredInv, ExistsInv, ClonesInv, ChosenInv
    <2>4. ClonesInv'
      BY DEF DeferredInv, ExistsInv, ClonesInv, ChosenInv
    <2>5. ChosenInv'
      BY DEF DeferredInv, ExistsInv, ClonesInv, ChosenInv
    <2> QED
      BY <2>1, <2>2, <2>3, <2>4, <2>5
  <1>2. CASE DeleteClones
    <2>0. deferred = Stack(2) /\ deferred' = Stack(1)
      BY <1>2, UnwindingEach DEF DeleteClones
    <2> USE <1>2, <2>0 DEF DeleteClones, Unwinding
    <2>1. TypeOK'
      BY DEF DeferredInv, ExistsInv, ClonesInv, ChosenInv
    <2>2. DeferredInv'
      BY DEF DeferredInv, ExistsInv, ClonesInv, ChosenInv
    <2>3. ExistsInv'
      BY DEF DeferredInv, ExistsInv, ClonesInv, ChosenInv
    <2>4. ClonesInv'
      BY DEF DeferredInv, ExistsInv, ClonesInv, ChosenInv
    <2>5. ChosenInv'
      BY DEF DeferredInv, ExistsInv, ClonesInv, ChosenInv
    <2> QED
      BY <2>1, <2>2, <2>3, <2>4, <2>5
  <1>3. CASE DeleteSnapshot
    <2>0. deferred = Stack(1) /\ deferred' = Stack(0)
      BY <1>3, UnwindingEach DEF DeleteSnapshot
    <2> USE <1>3, <2>0 DEF DeleteSnapshot, Delete, Unwinding
    <2>1. TypeOK'
      BY DEF DeferredInv, ExistsInv, ClonesInv, ChosenInv
    <2>2. DeferredInv'
      BY DEF DeferredInv, ExistsInv, ClonesInv, ChosenInv
    <2>3. ExistsInv'
      BY DEF DeferredInv, ExistsInv, ClonesInv, ChosenInv
    <2>4. ClonesInv'
      BY DEF DeferredInv, ExistsInv, ClonesInv, ChosenInv
    <2>5. ChosenInv'
      BY DEF DeferredInv, ExistsInv, ClonesInv, ChosenInv
    <2> QED
      BY <2>1, <2>2, <2>3, <2>4, <2>5
  <1>4. CASE Return
    BY <1>4 DEF Return, DeferredInv, ExistsInv, ClonesInv, ChosenInv
  <1> QED
    BY <1>1, <1>2, <1>3, <1>4

LEMMA EnvironmentStep ==
  ASSUME CloneInv, Environment
  PROVE  CloneInv'
  <1> USE DEF CloneInv, TypeOK, cluster, inputs, captureVars, Unwound
  <1>1. CASE Relabel
    BY <1>1 DEF Relabel, DeferredInv, ExistsInv, ClonesInv, ChosenInv
  <1>2. CASE Capture
    BY <1>2 DEF Capture, DeferredInv, ExistsInv, ClonesInv, ChosenInv
  <1>3. CASE MemberBecomesReady
    BY <1>3 DEF MemberBecomesReady, DeferredInv, ExistsInv, ClonesInv, ChosenInv
  <1>4. CASE Bind
    BY <1>4 DEF Bind, DeferredInv, ExistsInv, ClonesInv, ChosenInv
  <1> QED
    BY <1>1, <1>2, <1>3, <1>4 DEF Environment

LEMMA CloneStep == CloneInv /\ [Next]_vars => CloneInv'
  <1> SUFFICES ASSUME CloneInv, [Next]_vars PROVE CloneInv'
    OBVIOUS
  <1>1. CASE UNCHANGED vars
    BY <1>1 DEF vars, CloneInv, TypeOK, DeferredInv, ExistsInv, ClonesInv, ChosenInv, Unwound
  <1>2. CASE \E p \in Forward : Fails(p)
    BY <1>2, FailsStep DEF Forward
  <1>3. CASE Next /\ \A p \in Forward : ~Fails(p)
    BY <1>3, ForwardStep, UnwindStep, EnvironmentStep DEF Next, Operation
  <1> QED
    BY <1>1, <1>2, <1>3

LEMMA CloneInvariant == Spec => []CloneInv
  BY InitClone, CloneStep, PTL DEF Spec

-----------------------------------------------------------------------------
\* The theorems.

\* The variables of a clone have their types, and the deferred calls are those of what has
\* been created.
THEOREM CloneTypes == Spec => []TypeOK
  <1>1. CloneInv => TypeOK
    BY DEF CloneInv
  <1> QED
    BY <1>1, CloneInvariant, PTL

\* A clone that fails leaves nothing but what could not be deleted, and returns nothing.
THEOREM FailuresLeaveOnlyRefused == Spec => []FailureLeavesOnlyRefused
  <1>1. CloneInv => FailureLeavesOnlyRefused
    BY StacksDiffer DEF CloneInv, TypeOK, DeferredInv, ExistsInv, ClonesInv, Unwound,
                        FailureLeavesOnlyRefused, FailedClone
  <1> QED
    BY <1>1, CloneInvariant, PTL

\* Only a group that grew between its listing and its snapshot is cloned in part.
THEOREM OnlyGrownIsPartial == Spec => []PartialOnlyIfGrown
  <1>1. CloneInv => PartialOnlyIfGrown
    <2> SUFFICES ASSUME CloneInv, Succeeded, result # members
                 PROVE  Cardinality(members) > Cardinality(listed)
      BY DEF PartialOnlyIfGrown
    <2>1. result = chosen /\ kind # "single" /\ Cardinality(chosen) = Cardinality(listed)
      BY DEF CloneInv, ChosenInv, Succeeded, Unwound
    <2>2. chosen \in SUBSET members /\ members \in SUBSET PVCs
      BY DEF CloneInv, TypeOK
    <2>3. IsFiniteSet(members) /\ Cardinality(members) \in Nat
      BY <2>2, PVCsAssumption, FS_Subset, FS_CardinalityType
    <2>4. Cardinality(chosen) <= Cardinality(members) /\ Cardinality(chosen) # Cardinality(members)
      BY <2>1, <2>2, <2>3, FS_Subset
    <2>5. Cardinality(chosen) \in Nat
      BY <2>2, <2>3, FS_Subset, FS_CardinalityType
    <2> QED
      BY <2>1, <2>3, <2>4, <2>5
  <1> QED
    BY <1>1, CloneInvariant, PTL

\* A snapshot never goes before the clones made from it are bound or given up.
THEOREM SnapshotsOutliveBinding == Spec => SnapshotOutlivesBinding
  <1> DEFINE Kept == "snapshot" \in exists /\ "snapshot" \notin exists'
                       => clones \subseteq bound \cup refused
  <1>1. CloneInv /\ [Next]_vars => [Kept]_vars
    <2> SUFFICES ASSUME CloneInv, Next, "snapshot" \in exists, "snapshot" \notin exists'
                 PROVE  clones \subseteq bound \cup refused
      OBVIOUS
    <2>1. DeleteSnapshot
      BY DEF Next, Operation, Environment, List, CreateSnapshot, WaitReady, WaitMembers,
             CreateClone, ClonesCreated, CreateBindPod, WaitBound, DeletePod, DeleteClones,
             Return, Fails, Relabel, Capture, MemberBecomesReady, Bind, Delete, cluster
    <2>2. deferred = Stack(1) /\ pc = "unwind"
      BY <2>1, UnwindingEach DEF DeleteSnapshot, Unwinding, CloneInv
    <2> QED
      BY <2>2 DEF CloneInv, ClonesInv, Unwound
  <1> QED
    BY <1>1, CloneInvariant, PTL DEF Spec, SnapshotOutlivesBinding

-----------------------------------------------------------------------------
\* That the operation returns is a property of FairSpec, which is for TLC; that it cannot go
\* on for ever is one of its steps alone.

PlaceRank ==
  [list |-> 1, snapshot |-> 2, waitReady |-> 3, waitMembers |-> 4, clone |-> 5, bindPod |-> 6,
   waitBound |-> 7, unwind |-> 8, returned |-> 9]

\* The operation goes on to a later place, makes another of the clones it has to make, or runs
\* another of the deferred calls.
Advances ==
  \/ PlaceRank[pc] < PlaceRank[pc']
  \/ /\ pc = "clone" /\ pc' = pc /\ chosen' = chosen
     /\ result \subseteq result' /\ result' # result /\ result' \subseteq chosen
  \/ pc = "unwind" /\ pc' = pc /\ Len(deferred') < Len(deferred)

LEMMA OperationAdvances ==
  ASSUME TypeOK, Operation
  PROVE  Advances
  <1>1. CASE \E p \in Forward : Fails(p)
    BY <1>1 DEF Fails, Goto, Forward, Places, PlaceRank, Advances
  <1>2. CASE List \/ CreateSnapshot \/ WaitReady \/ WaitMembers \/ ClonesCreated
               \/ CreateBindPod \/ WaitBound \/ Return
    BY <1>1, <1>2 DEF List, CreateSnapshot, WaitReady, WaitMembers, ClonesCreated, CreateBindPod,
                      WaitBound, Return, Goto, Forward, Places, PlaceRank, Advances
  <1>3. CASE CreateClone
    <2>1. CASE \E m \in chosen \ result : result' = result \cup {m} /\ Goto("clone", "clone")
                                          /\ chosen' = chosen
      <3>1. result \subseteq chosen
        BY DEF TypeOK
      <3> QED
        BY <2>1, <3>1 DEF Goto, Advances
    <2> QED
      BY <1>1, <1>3, <2>1 DEF CreateClone, Forward, Places
  <1>4. CASE DeletePod \/ DeleteClones \/ DeleteSnapshot
    <2>1. PICK call \in CallSet : Unwinding(call)
      BY <1>4 DEF DeletePod, DeleteClones, DeleteSnapshot, CallSet
    <2>2. PICK m \in 0..3, n \in 0..3 : deferred = Stack(m) /\ deferred' = Stack(n) /\ n < m
      BY <2>1, UnwindingEach DEF CallSet
    <2>3. Len(deferred') < Len(deferred)
      BY <2>2, StackIs, Zenon
    <2> QED
      BY <2>1, <2>3 DEF Unwinding, Advances
  <1> QED
    BY <1>2, <1>3, <1>4 DEF Operation

\* No clone operation goes on for ever: each of its steps takes it to a later place, makes one
\* more of the finitely many clones that it has chosen, or runs one more deferred call, and
\* nothing that the cluster does meanwhile takes it back.  So no failure, and no refused
\* deletion, makes ClonePVC or ClonePVCGroup try anything without end.
THEOREM ClonesAdvance ==
  Spec => [][/\ Operation => Advances
             /\ Environment => UNCHANGED <<pc, chosen, result, deferred>>
             /\ IsFiniteSet(chosen)]_vars
  <1>1. TypeOK /\ [Next]_vars => [/\ Operation => Advances
                                  /\ Environment => UNCHANGED <<pc, chosen, result, deferred>>
                                  /\ IsFiniteSet(chosen)]_vars
    <2> SUFFICES ASSUME TypeOK, Next
                 PROVE  /\ Operation => Advances
                        /\ Environment => UNCHANGED <<pc, chosen, result, deferred>>
                        /\ IsFiniteSet(chosen)
      OBVIOUS
    <2>1. Environment => UNCHANGED <<pc, chosen, result, deferred>>
      BY DEF Environment, Relabel, Capture, MemberBecomesReady, Bind, cluster
    <2>2. chosen \subseteq PVCs
      BY DEF TypeOK
    <2> QED
      BY <2>1, <2>2, OperationAdvances, PVCsAssumption, FS_Subset
  <1> QED
    BY <1>1, CloneTypes, PTL DEF Spec

=============================================================================
