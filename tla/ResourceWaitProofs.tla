------------------------- MODULE ResourceWaitProofs -------------------------
(***************************************************************************)
(* That a wait invents no verdict, for any number of resources, changes    *)
(* and expiries: what the wait looks at, in the store and in the events,   *)
(* has been in the cluster since it began.                                 *)
(***************************************************************************)
EXTENDS ResourceWait, FiniteSetTheorems, TLAPS

\* The events that show something that was there.  One of the deletion that is waited
\* for comes when there is nothing left.
TrueEvents ==
  {e \in Events : /\ <<e.name, e.object>> \in seen
                  /\ e.type = "deleted" /\ wait.kind = "deletion" => gone}

\* Only what may be selected is there.
SelectedOnly ==
  \A n \in Names \ Selected : objects[n] = Absent /\ store[n] = Absent

\* Once it has begun, the history has the cluster and the store in it, and the events.
HistoryInv ==
  /\ pc = "list" => seen = {} /\ unseen = <<>>
  /\ Items(store) \subseteq seen
  /\ pc \in {"check", "watch"} => Items(objects) \subseteq seen
  /\ pc \in {"check", "watch"} /\ Present(objects) = {} => gone
  /\ wait.kind = "deletion" /\ pc \in {"check", "watch"} /\ Present(store) = {} => gone
  /\ unseen \in Seq(TrueEvents)
  /\ events \in Seq(TrueEvents)

\* The members that have been found are ready ones, and too few to stop.
MembersInv ==
  /\ Items(ready) \subseteq seen
  /\ \A n \in Present(ready) : IsReadyGroupMember(ready[n].status)
  /\ wait.kind = "members" /\ pc # "done" => Cardinality(Present(ready)) < wait.count

WaitInv == TypeOK /\ SelectedOnly /\ HistoryInv /\ MembersInv /\ VerdictIsTrue

-----------------------------------------------------------------------------
\* Sequences and views.

LEMMA SeqOfMore ==
  ASSUME NEW S, NEW T, S \subseteq T, NEW s \in Seq(S)
  PROVE  s \in Seq(T)
  OBVIOUS

\* A sequence made of a finite set consists of its elements.
LEMMA SetToSeqType ==
  ASSUME NEW S, IsFiniteSet(S)
  PROVE  SetToSeq(S) \in Seq(S)
  <1>1. Cardinality(S) \in Nat /\ ExistsBijection(1..Cardinality(S), S)
    BY FS_CardinalityType
  <1>2. \E f \in [1..Cardinality(S) -> S] : IsInjective(f)
    BY <1>1 DEF ExistsBijection, Bijection, Injection, IsInjective
  <1>3. SetToSeq(S) \in [1..Cardinality(S) -> S]
    BY <1>2 DEF SetToSeq
  <1> QED
    BY <1>1, <1>3

LEMMA PresentFinite ==
  ASSUME NEW view
  PROVE  /\ Present(view) \subseteq Names
         /\ IsFiniteSet(Present(view)) /\ Cardinality(Present(view)) \in Nat
  <1>1. Present(view) \in SUBSET Names
    BY DEF Present
  <1> QED
    BY <1>1, WaitAssumption, FS_Subset, FS_CardinalityType

\* The names of what a view holds are those that it has something for.
LEMMA ItemNames ==
  ASSUME NEW view
  PROVE  {item[1] : item \in Items(view)} = Present(view)
  <1>1. \A item \in Items(view) : item[1] \in Present(view)
    BY DEF Items
  <1>2. \A n \in Present(view) : <<n, view[n]>> \in Items(view) /\ <<n, view[n]>>[1] = n
    BY DEF Items
  <1> QED
    BY <1>1, <1>2

LEMMA ItemsType ==
  ASSUME NEW view \in [Names -> Object]
  PROVE  Items(view) \subseteq Names \X Object
  BY PresentFinite DEF Items

\* Changing a view in one place adds at most one item.
LEMMA ItemsExcept ==
  ASSUME NEW view \in [Names -> Object], NEW n \in Names, NEW object
  PROVE  /\ Items([view EXCEPT ![n] = object]) \subseteq Items(view) \cup {<<n, object>>}
         /\ object # Absent => <<n, object>> \in Items([view EXCEPT ![n] = object])
         /\ object = Absent => Items([view EXCEPT ![n] = object]) \subseteq Items(view)
  BY DEF Items, Present

\* One name has one item.
LEMMA SingleName ==
  ASSUME NEW n, NEW x
  PROVE  Cardinality({item[1] : item \in {<<n, x>>}}) = 1
  <1>1. {item[1] : item \in {<<n, x>>}} = {n}
    OBVIOUS
  <1> QED
    BY <1>1, FS_Singleton

\* Some resource is waited for, the only one unless the wait is by label.
LEMMA SelectedNames ==
  /\ Selected \subseteq Names
  /\ wait.kind = "deletion" => \E n \in Names : Selected = {n}
  BY WaitAssumption DEF Selected

LEMMA AbsentIsObject == Absent \in Object
  BY WaitAssumption DEF Absent, Object

LEMMA Verdicts ==
  ASSUME NEW kind, NEW status
  PROVE  Verdict(kind, status) \in {"met", "failed", "wait"}
  BY DEF Verdict, JobVerdict, BackupVerdict

LEMMA MembersVerdict ==
  ASSUME NEW status
  PROVE  Verdict("members", status) = "met" <=> IsReadyGroupMember(status)
  BY DEF Verdict, IsMet

LEMMA WaitType ==
  ASSUME wait \in Waits
  PROVE  /\ wait.kind \in Kinds /\ wait.count \in Nat \ {0}
         /\ wait.kind # "members" => wait.count = 1
  BY WaitAssumption

-----------------------------------------------------------------------------
\* Events.

\* The events for some of what a view holds.
LEMMA EventsOfView ==
  ASSUME NEW view \in [Names -> Object], NEW S \in SUBSET Present(view), S \subseteq Selected,
         NEW type \in {"added", "modified", "deleted"},
         NEW order, order = SetToSeq(S)
  PROVE  [i \in DOMAIN order |-> Event(type, order[i], view[order[i]])]
           \in Seq({e \in Events : e.type = type /\ e.name \in S /\ e.object = view[e.name]})
  <1>1. IsFiniteSet(S)
    BY PresentFinite, FS_Subset
  <1>2. order \in Seq(S)
    BY <1>1, SetToSeqType
  <1>3. \A n \in S : Event(type, n, view[n])
           \in {e \in Events : e.type = type /\ e.name \in S /\ e.object = view[e.name]}
    BY PresentFinite DEF Event, Events, Present
  <1> QED
    BY <1>2, <1>3

\* What was a true event remains one.
LEMMA EventsStayTrue ==
  ASSUME wait' = wait, seen \subseteq seen', gone => gone'
  PROVE  TrueEvents \subseteq TrueEvents'
  BY DEF TrueEvents, Events, Selected, Object

-----------------------------------------------------------------------------
\* The invariant, action by action.

LEMMA InitWait == Init => WaitInv
  <1> SUFFICES ASSUME Init PROVE WaitInv
    OBVIOUS
  <1>1. wait \in Waits /\ wait.count \in Nat \ {0}
    BY WaitType DEF Init
  <1>2. Absent \in Object
    BY AbsentIsObject
  <1>3. objects \in [Names -> Object]
    <2>1. [uid : {1}, status : Statuses(wait.kind)] \subseteq Object
      BY WaitAssumption DEF Object
    <2> QED
      BY <1>2, <2>1 DEF Init
  <1>4. TypeOK
    <2>1. changes \in 0..MaxChanges /\ expiries \in 0..MaxExpiries
      BY WaitAssumption DEF Init
    <2>2. {objects, store, ready} \subseteq [Names -> Object]
      BY <1>2, <1>3 DEF Init
    <2>3. {unseen, events} \subseteq Seq(Events)
      BY DEF Init
    <2>4. pc = "list" /\ outcome = "none" /\ result = {} /\ seen = {} /\ gone = FALSE
      BY DEF Init
    <2> QED
      BY <1>1, <2>1, <2>2, <2>3, <2>4 DEF TypeOK
  <1>5. SelectedOnly
    BY DEF Init, SelectedOnly
  <1>6. Items(store) = {} /\ Items(ready) = {} /\ Present(ready) = {}
    BY DEF Init, Items, Present
  <1>7. HistoryInv
    BY <1>6 DEF Init, HistoryInv
  <1>8. MembersInv
    BY <1>1, <1>6, FS_EmptySet DEF Init, MembersInv
  <1>9. VerdictIsTrue
    BY DEF Init, VerdictIsTrue
  <1> QED
    BY <1>4, <1>5, <1>7, <1>8, <1>9 DEF WaitInv

LEMMA StepChange == WaitInv /\ Change => WaitInv'
  <1> SUFFICES ASSUME WaitInv, Change PROVE WaitInv'
    OBVIOUS
  <1> USE DEF WaitInv, TypeOK
  <1>1. PICK n \in Selected, status \in Statuses(wait.kind) :
          LET old == objects[n]
              new == [uid |-> IF old = Absent THEN changes + 2 ELSE old.uid, status |-> status]
          IN  \E object \in IF old = Absent THEN {new} ELSE {new, Absent} :
                /\ object # old
                /\ objects' = [objects EXCEPT ![n] = object]
                /\ unseen' = IF pc = "list" THEN unseen
                             ELSE Append(unseen,
                                    CASE old = Absent    -> Event("added", n, object)
                                      [] object = Absent -> Event("deleted", n, old)
                                      [] OTHER           -> Event("modified", n, object))
    BY DEF Change
  <1> DEFINE old == objects[n]
             new == [uid |-> IF old = Absent THEN changes + 2 ELSE old.uid, status |-> status]
             event(object) == CASE old = Absent    -> Event("added", n, object)
                                [] object = Absent -> Event("deleted", n, old)
                                [] OTHER           -> Event("modified", n, object)
  <1>2. PICK object \in IF old = Absent THEN {new} ELSE {new, Absent} :
          /\ object # old
          /\ objects' = [objects EXCEPT ![n] = object]
          /\ unseen' = IF pc = "list" THEN unseen ELSE Append(unseen, event(object))
    BY <1>1
  <1>3. n \in Names /\ old \in Object
    BY SelectedNames
  <1>4. new \in Object /\ object \in Object
    <2>1. changes + 2 \in 0..MaxChanges + 1 /\ old.uid \in 0..MaxChanges + 1
      BY <1>3, WaitAssumption DEF Change, Object
    <2>2. new \in Object
      BY <2>1 DEF Object
    <2> QED
      BY <2>2, AbsentIsObject
  <1> HIDE DEF old, new
  <1>5. /\ wait' = wait /\ store' = store /\ ready' = ready /\ pc' = pc /\ outcome' = outcome
        /\ result' = result /\ events' = events /\ expiries' = expiries
        /\ changes' = changes + 1 /\ changes' \in 0..MaxChanges /\ pc # "done"
        /\ seen' = IF pc = "list" THEN seen ELSE seen \cup Items(objects')
        /\ gone' = (gone \/ (pc # "list" /\ Present(objects') = {}))
    BY WaitAssumption DEF Change
  <1>6. objects' \in [Names -> Object] /\ Items(objects') \subseteq Names \X Object
    BY <1>2, <1>3, <1>4, ItemsType
  <1>7. TrueEvents \subseteq TrueEvents'
    BY <1>5, EventsStayTrue
  <1>8. pc # "list" => event(object) \in TrueEvents'
    <2> SUFFICES ASSUME pc # "list" PROVE event(object) \in TrueEvents'
      OBVIOUS
    <2>1. Events' = Events /\ pc \in {"check", "watch"}
      BY <1>5 DEF Events, Selected, Object
    <2>2. CASE object = Absent
      <3>1. event(object) = Event("deleted", n, old) /\ old # Absent
        BY <1>2, <2>2
      <3>2. <<n, old>> \in seen
        BY <1>3, <2>1, <3>1 DEF HistoryInv, Items, Present, old
      <3>3. wait.kind = "deletion" => Present(objects') = {}
        BY <1>2, <1>3, <2>2, SelectedNames DEF SelectedOnly, Present
      <3>4. Event("deleted", n, old) \in Events
        BY <1>3, <3>1 DEF Event, Events
      <3> QED
        BY <1>5, <2>1, <3>1, <3>2, <3>3, <3>4 DEF TrueEvents, Event
    <2>3. CASE object # Absent
      <3>1. event(object) \in {Event("added", n, object), Event("modified", n, object)}
        BY <2>3
      <3>2. <<n, object>> \in seen'
        BY <1>2, <1>3, <1>5, <2>3, ItemsExcept
      <3>3. \A type \in {"added", "modified"} : Event(type, n, object) \in Events
        BY <1>4, <2>3 DEF Event, Events
      <3> QED
        BY <2>1, <3>1, <3>2, <3>3 DEF TrueEvents, Event
    <2> QED
      BY <2>2, <2>3
  <1> HIDE DEF event
  <1>9. unseen' \in Seq(TrueEvents') /\ events' \in Seq(TrueEvents')
    <2>1. unseen \in Seq(TrueEvents') /\ events \in Seq(TrueEvents')
      BY <1>7, SeqOfMore DEF HistoryInv
    <2> QED
      BY <1>2, <1>5, <1>8, <2>1
  <1>10. HistoryInv'
    <2>1. Items(store') \subseteq seen'
      BY <1>5 DEF HistoryInv
    <2>2. (pc \in {"check", "watch"} => Items(objects) \subseteq seen)'
      BY <1>5
    <2>3. (pc \in {"check", "watch"} /\ Present(objects) = {} => gone)'
      BY <1>5
    <2>4. (wait.kind = "deletion" /\ pc \in {"check", "watch"} /\ Present(store) = {} => gone)'
      BY <1>5 DEF HistoryInv, Present
    <2>5. (pc = "list" => seen = {} /\ unseen = <<>>)'
      BY <1>2, <1>5 DEF HistoryInv
    <2> QED
      BY <1>9, <2>1, <2>2, <2>3, <2>4, <2>5 DEF HistoryInv
  <1>11. TypeOK'
    <2>1. Object' = Object /\ Events' = Events
      BY <1>5 DEF Events, Selected, Object
    <2>2. {unseen', events'} \subseteq Seq(Events)
      BY <1>9, <2>1, SeqOfMore DEF TrueEvents
    <2>3. seen' \subseteq Names \X Object /\ gone' \in BOOLEAN
      BY <1>5, <1>6
    <2>4. {objects', store', ready'} \subseteq [Names -> Object]
      BY <1>5, <1>6
    <2> QED
      BY <1>5, <2>1, <2>2, <2>3, <2>4
  <1>12. SelectedOnly'
    BY <1>2, <1>3, <1>5 DEF SelectedOnly, Selected
  <1>13. MembersInv'
    BY <1>5 DEF MembersInv, Items, Present
  <1>14. VerdictIsTrue'
    BY <1>5 DEF VerdictIsTrue
  <1> QED
    BY <1>10, <1>11, <1>12, <1>13, <1>14 DEF WaitInv

LEMMA StepList == WaitInv /\ List => WaitInv'
  <1> SUFFICES ASSUME WaitInv, List PROVE WaitInv'
    OBVIOUS
  <1> USE DEF WaitInv, TypeOK
  <1>1. /\ wait' = wait /\ objects' = objects /\ changes' = changes /\ unseen' = unseen
        /\ expiries' = expiries /\ ready' = ready /\ outcome' = outcome /\ result' = result
        /\ store' = objects /\ events' = Listed("added") /\ seen' = Items(objects)
        /\ gone' = (Present(objects) = {}) /\ pc' = "check" /\ pc = "list"
    BY DEF List, world
  <1>2. Object' = Object /\ Events' = Events /\ Selected' = Selected
    BY <1>1 DEF Events, Selected, Object
  <1>3. Present(objects) \subseteq Selected
    BY SelectedNames DEF SelectedOnly, Present
  <1>4. events' \in Seq(TrueEvents')
    <2> DEFINE listed == {e \in Events : /\ e.type = "added" /\ e.name \in Present(objects)
                                         /\ e.object = objects[e.name]}
    <2>1. events' \in Seq(listed)
      BY <1>1, <1>3, EventsOfView DEF Listed
    <2>2. listed \subseteq TrueEvents'
      BY <1>1, <1>2 DEF TrueEvents, Items
    <2> QED
      BY <2>1, <2>2, SeqOfMore
  <1>5. unseen' = <<>> /\ unseen' \in Seq(TrueEvents') /\ Items(ready) = {}
    BY <1>1 DEF HistoryInv, MembersInv
  <1>6. HistoryInv'
    BY <1>1, <1>4, <1>5 DEF HistoryInv
  <1>7. TypeOK'
    <2>1. {unseen', events'} \subseteq Seq(Events)
      <3>1. TrueEvents' \subseteq Events
        BY <1>2 DEF TrueEvents
      <3> QED
        BY <1>4, <1>5, <3>1, SeqOfMore
    <2>2. seen' \subseteq Names \X Object /\ gone' \in BOOLEAN
      BY <1>1, ItemsType
    <2> QED
      BY <1>1, <1>2, <2>1, <2>2
  <1>8. SelectedOnly'
    BY <1>1, <1>2 DEF SelectedOnly
  <1>9. MembersInv'
    BY <1>1, <1>5 DEF MembersInv, Items, Present
  <1>10. VerdictIsTrue'
    BY <1>1 DEF VerdictIsTrue
  <1> QED
    BY <1>6, <1>7, <1>8, <1>9, <1>10 DEF WaitInv

\* Where only the events and the store change, the rest stays as it is.
LEMMA StepInformer ==
  ASSUME WaitInv, UNCHANGED <<wait, world, ready, pc, outcome, result, history>>,
         pc \in {"check", "watch"}, expiries' \in 0..MaxExpiries,
         store' \in [Names -> Object], Items(store') \subseteq seen,
         \A n \in Names \ Selected : store'[n] = Absent,
         wait.kind = "deletion" /\ Present(store') = {} => gone,
         unseen' \in Seq(TrueEvents), events' \in Seq(TrueEvents)
  PROVE  WaitInv'
  <1> USE DEF WaitInv, TypeOK, world, history
  <1>1. TrueEvents' = TrueEvents /\ Object' = Object /\ Events' = Events /\ Selected' = Selected
    BY DEF TrueEvents, Events, Selected, Object
  <1>2. HistoryInv'
    BY <1>1 DEF HistoryInv
  <1>3. TypeOK'
    <2>1. {unseen', events'} \subseteq Seq(Events)
      BY SeqOfMore DEF TrueEvents
    <2> QED
      BY <1>1, <2>1
  <1>4. SelectedOnly' /\ MembersInv' /\ VerdictIsTrue'
    BY <1>1 DEF SelectedOnly, MembersInv, VerdictIsTrue
  <1> QED
    BY <1>2, <1>3, <1>4

LEMMA StepDeliver == WaitInv /\ Deliver => WaitInv'
  <1> SUFFICES ASSUME WaitInv, Deliver PROVE WaitInv'
    OBVIOUS
  <1> DEFINE e == Head(unseen)
             object == IF e.type = "deleted" THEN Absent ELSE e.object
  <1>1. e \in TrueEvents /\ unseen' \in Seq(TrueEvents)
    BY DEF WaitInv, HistoryInv, Deliver
  <1>2. store' = [store EXCEPT ![e.name] = object] /\ events' = Append(events, e)
    BY DEF Deliver
  <1>3. e.name \in Selected /\ e.name \in Names /\ object \in Object
    BY <1>1, SelectedNames, AbsentIsObject DEF TrueEvents, Events
  <1>4. events' \in Seq(TrueEvents)
    BY <1>1, <1>2 DEF WaitInv, HistoryInv
  <1>5. store' \in [Names -> Object]
    BY <1>2, <1>3 DEF WaitInv, TypeOK
  <1>6. Items(store') \subseteq seen
    BY <1>1, <1>2, <1>3, ItemsExcept DEF WaitInv, TypeOK, HistoryInv, TrueEvents
  <1>7. \A n \in Names \ Selected : store'[n] = Absent
    BY <1>2, <1>3 DEF WaitInv, TypeOK, SelectedOnly
  <1>8. wait.kind = "deletion" /\ Present(store') = {} => gone
    <2> SUFFICES ASSUME wait.kind = "deletion", Present(store') = {} PROVE gone
      OBVIOUS
    <2>1. e.type = "deleted" \/ e.object \notin Object \ {Absent}
      BY <1>2, <1>3 DEF Present, WaitInv, TypeOK
    <2> QED
      BY <1>1, <2>1 DEF TrueEvents, Events
  <1> QED
    BY <1>1, <1>4, <1>5, <1>6, <1>7, <1>8, StepInformer DEF Deliver, WaitInv, TypeOK

LEMMA StepExpire == WaitInv /\ Expire => WaitInv'
  <1> SUFFICES ASSUME WaitInv, Expire PROVE WaitInv'
    OBVIOUS
  <1> DEFINE order == SetToSeq(Present(store) \ Present(objects))
             lost == [i \in DOMAIN order |-> Event("deleted", order[i], store[order[i]])]
  <1>1. events' = events \o Listed("modified") \o lost /\ store' = objects /\ unseen' = <<>>
    BY DEF Expire
  <1>2. Present(objects) \subseteq Selected /\ Present(store) \subseteq Selected
    BY SelectedNames DEF WaitInv, SelectedOnly, Present
  <1> objects \in [Names -> Object] /\ store \in [Names -> Object]
    BY DEF WaitInv, TypeOK
  <1>3. Listed("modified") \in Seq(TrueEvents)
    <2> DEFINE listed == {e \in Events : /\ e.type = "modified" /\ e.name \in Present(objects)
                                         /\ e.object = objects[e.name]}
    <2>1. Listed("modified") \in Seq(listed)
      BY <1>2, EventsOfView DEF Listed
    <2>2. Items(objects) \subseteq seen
      BY DEF Expire, WaitInv, HistoryInv
    <2>3. listed \subseteq TrueEvents
      BY <2>2 DEF TrueEvents, Items
    <2> QED
      BY <2>1, <2>3, SeqOfMore
  <1>4. lost \in Seq(TrueEvents)
    <2> DEFINE those == {e \in Events : /\ e.type = "deleted"
                                        /\ e.name \in Present(store) \ Present(objects)
                                        /\ e.object = store[e.name]}
    <2>1. lost \in Seq(those)
      BY <1>2, EventsOfView
    <2>2. Items(store) \subseteq seen
      BY DEF WaitInv, HistoryInv
    <2>3. those # {} /\ wait.kind = "deletion" => Present(objects) = {}
      BY <1>2, SelectedNames
    <2>4. Present(objects) = {} => gone
      BY DEF Expire, WaitInv, HistoryInv
    <2>5. those \subseteq TrueEvents
      BY <2>2, <2>3, <2>4 DEF TrueEvents, Items
    <2> QED
      BY <2>1, <2>5, SeqOfMore
  <1> HIDE DEF lost
  <1>5. events' \in Seq(TrueEvents) /\ unseen' \in Seq(TrueEvents)
    BY <1>1, <1>3, <1>4 DEF WaitInv, HistoryInv
  <1>6. expiries' \in 0..MaxExpiries
    BY WaitAssumption DEF Expire, WaitInv, TypeOK
  <1>7. Items(store') \subseteq seen /\ (Present(store') = {} => gone)
    BY <1>1 DEF Expire, WaitInv, HistoryInv
  <1> QED
    BY <1>1, <1>5, <1>6, <1>7, StepInformer DEF Expire, WaitInv, SelectedOnly

\* Where only the wait goes on or ends, the cluster and the informer stay as they are.
LEMMA StepWaiter ==
  ASSUME WaitInv, UNCHANGED <<wait, world, informer, history>>,
         events' \in Seq(TrueEvents), ready' \in [Names -> Object],
         \/ pc \in {"check", "watch"} /\ pc' = "watch" /\ UNCHANGED <<outcome, result>>
         \/ pc' = "done" /\ outcome' \in {"met", "failed", "timeout"} /\ result' \subseteq seen,
         MembersInv', VerdictIsTrue'
  PROVE  WaitInv'
  <1> USE DEF world, informer, history
  <1>1. TrueEvents' = TrueEvents /\ Object' = Object /\ Events' = Events /\ Selected' = Selected
    BY DEF TrueEvents, Events, Selected, Object
  <1>2. TypeOK'
    <2>1. {unseen', events'} \subseteq Seq(Events)
      BY SeqOfMore DEF TrueEvents, WaitInv, TypeOK
    <2> QED
      BY <1>1, <2>1 DEF WaitInv, TypeOK
  <1>3. HistoryInv'
    BY <1>1 DEF WaitInv, HistoryInv, TypeOK
  <1>4. SelectedOnly'
    BY <1>1 DEF WaitInv, SelectedOnly
  <1> QED
    BY <1>2, <1>3, <1>4 DEF WaitInv

LEMMA StepTimeout == WaitInv /\ Timeout => WaitInv'
  <1> SUFFICES ASSUME WaitInv, Timeout PROVE WaitInv'
    OBVIOUS
  <1>1. MembersInv' /\ VerdictIsTrue'
    BY DEF WaitInv, Timeout, Finish, MembersInv, VerdictIsTrue, Items, Present, history
  <1> QED
    BY <1>1, StepWaiter DEF Timeout, Finish, WaitInv, HistoryInv, TypeOK

\* A verdict on one resource.
LEMMA OneVerdict ==
  ASSUME WaitInv, wait.kind \notin {"deletion", "members"}, NEW n, NEW object,
         <<n, object>> \in seen, Verdict(wait.kind, object.status) # "wait",
         Finish(Verdict(wait.kind, object.status), {<<n, object>>}),
         UNCHANGED <<wait, world, informer, ready, history>>, events' \in Seq(TrueEvents)
  PROVE  WaitInv'
  <1>1. outcome' \in {"met", "failed"} /\ result' = {<<n, object>>} /\ pc' = "done"
    BY Verdicts DEF Finish
  <1>2. MembersInv'
    BY <1>1 DEF WaitInv, MembersInv, Items, Present, history
  <1>3. Cardinality({item[1] : item \in result'}) = wait.count
    BY <1>1, SingleName, WaitType DEF WaitInv, TypeOK
  <1>4. VerdictIsTrue'
    BY <1>1, <1>3 DEF VerdictIsTrue, Finish, history
  <1> QED
    BY <1>1, <1>2, <1>4, StepWaiter DEF WaitInv, TypeOK

\* The wait goes on.
LEMMA NoVerdict ==
  ASSUME WaitInv, wait.kind # "members", pc \in {"check", "watch"}, pc' = "watch",
         UNCHANGED <<wait, world, informer, ready, outcome, result, history>>,
         events' \in Seq(TrueEvents)
  PROVE  WaitInv'
  <1>1. MembersInv' /\ VerdictIsTrue'
    BY DEF WaitInv, MembersInv, VerdictIsTrue, Items, Present, history
  <1> QED
    BY <1>1, StepWaiter DEF WaitInv, TypeOK

LEMMA StepCheckCondition == WaitInv /\ CheckCondition => WaitInv'
  <1> SUFFICES ASSUME WaitInv, CheckCondition PROVE WaitInv'
    OBVIOUS
  <1>1. events' \in Seq(TrueEvents)
    BY DEF CheckCondition, WaitInv, HistoryInv
  <1>2. CASE \E n \in Present(store) :
               /\ Verdict(wait.kind, store[n].status) # "wait"
               /\ Finish(Verdict(wait.kind, store[n].status), {<<n, store[n]>>})
    <2>1. PICK n \in Present(store) :
               /\ Verdict(wait.kind, store[n].status) # "wait"
               /\ Finish(Verdict(wait.kind, store[n].status), {<<n, store[n]>>})
      BY <1>2
    <2>2. <<n, store[n]>> \in seen
      BY DEF WaitInv, HistoryInv, Items
    <2> QED
      BY <1>1, <2>1, <2>2, OneVerdict DEF CheckCondition
  <1>3. CASE pc' = "watch" /\ UNCHANGED <<outcome, result>>
    BY <1>1, <1>3, NoVerdict DEF CheckCondition
  <1> QED
    BY <1>2, <1>3 DEF CheckCondition

LEMMA StepProcessCondition == WaitInv /\ ProcessCondition => WaitInv'
  <1> SUFFICES ASSUME WaitInv, ProcessCondition PROVE WaitInv'
    OBVIOUS
  <1> DEFINE e == Head(events)
  <1>1. e \in TrueEvents /\ events' \in Seq(TrueEvents)
    BY DEF ProcessCondition, WaitInv, HistoryInv
  <1>2. CASE Verdict(wait.kind, e.object.status) = "wait"
    BY <1>1, <1>2, NoVerdict DEF ProcessCondition
  <1>3. CASE Verdict(wait.kind, e.object.status) # "wait"
    <2>1. <<e.name, e.object>> \in seen
      BY <1>1 DEF TrueEvents
    <2> QED
      BY <1>1, <1>3, <2>1, OneVerdict DEF ProcessCondition
  <1> QED
    BY <1>2, <1>3

\* A deletion that has been seen has taken place.
LEMMA DeletionSeen ==
  ASSUME WaitInv, wait.kind = "deletion", gone, Finish("met", {}),
         UNCHANGED <<wait, world, informer, ready, history>>, events' \in Seq(TrueEvents)
  PROVE  WaitInv'
  <1>1. MembersInv' /\ VerdictIsTrue'
    BY DEF WaitInv, MembersInv, VerdictIsTrue, Finish, Items, Present, history
  <1> QED
    BY <1>1, StepWaiter DEF Finish, WaitInv, TypeOK

LEMMA StepCheckDeletion == WaitInv /\ CheckDeletion => WaitInv'
  <1> SUFFICES ASSUME WaitInv, CheckDeletion PROVE WaitInv'
    OBVIOUS
  <1>1. events' \in Seq(TrueEvents)
    BY DEF CheckDeletion, WaitInv, HistoryInv
  <1>2. CASE Present(store) = {}
    BY <1>1, <1>2, DeletionSeen DEF CheckDeletion, WaitInv, HistoryInv
  <1>3. CASE Present(store) # {}
    BY <1>1, <1>3, NoVerdict DEF CheckDeletion
  <1> QED
    BY <1>2, <1>3

LEMMA StepProcessDeletion == WaitInv /\ ProcessDeletion => WaitInv'
  <1> SUFFICES ASSUME WaitInv, ProcessDeletion PROVE WaitInv'
    OBVIOUS
  <1> DEFINE e == Head(events)
  <1>1. e \in TrueEvents /\ events' \in Seq(TrueEvents)
    BY DEF ProcessDeletion, WaitInv, HistoryInv
  <1>2. CASE e.type = "deleted"
    BY <1>1, <1>2, DeletionSeen DEF ProcessDeletion, TrueEvents
  <1>3. CASE e.type # "deleted"
    BY <1>1, <1>3, NoVerdict DEF ProcessDeletion
  <1> QED
    BY <1>2, <1>3

\* As many members as asked for are a verdict.
LEMMA MembersVerdictHolds ==
  ASSUME WaitInv, wait.kind = "members", ready' \in [Names -> Object],
         Items(ready') \subseteq seen,
         \A n \in Present(ready') : IsReadyGroupMember(ready'[n].status),
         UNCHANGED <<wait, world, informer, history>>, events' \in Seq(TrueEvents),
         \/ /\ pc \in {"check", "watch"} /\ pc' = "watch" /\ UNCHANGED <<outcome, result>>
            /\ Cardinality(Present(ready')) < wait.count
         \/ Cardinality(Present(ready')) = wait.count /\ Finish("met", Items(ready'))
  PROVE  WaitInv'
  <1>1. MembersInv'
    BY DEF MembersInv, Finish, history, Items, Present
  <1>2. VerdictIsTrue'
    <2>1. CASE UNCHANGED <<outcome, result>>
      BY <2>1 DEF WaitInv, VerdictIsTrue, history
    <2>2. CASE Cardinality(Present(ready')) = wait.count /\ Finish("met", Items(ready'))
      <3>1. Cardinality({item[1] : item \in result'}) = wait.count
        BY <2>2, ItemNames DEF Finish
      <3>2. \A item \in result' : Verdict(wait.kind, item[2].status) = "met"
        BY <2>2, MembersVerdict DEF Finish, Items
      <3> QED
        BY <2>2, <3>1, <3>2 DEF VerdictIsTrue, Finish, history
    <2> QED
      BY <2>1, <2>2
  <1> QED
    BY <1>1, <1>2, StepWaiter DEF Finish

LEMMA StepCheckMembers == WaitInv /\ CheckMembers => WaitInv'
  <1> SUFFICES ASSUME WaitInv, CheckMembers PROVE WaitInv'
    OBVIOUS
  <1> DEFINE found == {n \in Present(store) : IsReadyGroupMember(store[n].status)}
             Of(some) == [n \in Names |-> IF n \in some THEN store[n] ELSE Absent]
  <1>1. PICK some \in SUBSET found :
          /\ ready' = Of(some)
          /\ \/ pc' = "watch" /\ UNCHANGED <<outcome, result>> /\ Cardinality(some) < wait.count
             \/ Cardinality(some) = wait.count /\ Finish("met", Items(ready'))
    BY DEF CheckMembers, kSubset
  <1>2. store \in [Names -> Object] /\ Items(store) \subseteq seen
    BY DEF WaitInv, TypeOK, HistoryInv
  <1>3. ready' \in [Names -> Object]
    BY <1>1, <1>2, AbsentIsObject
  <1>4. Present(ready') = some /\ \A n \in some : ready'[n] = store[n]
    BY <1>1 DEF Present
  <1>5. Items(ready') \subseteq seen
    BY <1>2, <1>4 DEF Items
  <1>6. events' \in Seq(TrueEvents)
    BY DEF CheckMembers, WaitInv, HistoryInv
  <1> QED
    BY <1>1, <1>3, <1>4, <1>5, <1>6, MembersVerdictHolds DEF CheckMembers

LEMMA StepProcessMember == WaitInv /\ ProcessMember => WaitInv'
  <1> SUFFICES ASSUME WaitInv, ProcessMember PROVE WaitInv'
    OBVIOUS
  <1> DEFINE e == Head(events)
             kept == IF IsReadyGroupMember(e.object.status) THEN e.object ELSE Absent
  <1>1. e \in TrueEvents /\ events' \in Seq(TrueEvents)
    BY DEF ProcessMember, WaitInv, HistoryInv
  <1>2. e.name \in Names /\ <<e.name, e.object>> \in seen /\ e.object \in Object
    BY <1>1, SelectedNames DEF TrueEvents, Events
  <1>3. ready' = [ready EXCEPT ![e.name] = kept] /\ ready \in [Names -> Object]
    BY DEF ProcessMember, Accumulated, WaitInv, TypeOK
  <1>4. kept \in Object
    BY <1>2, AbsentIsObject
  <1>5. ready' \in [Names -> Object]
    BY <1>3, <1>4
  <1>6. Items(ready') \subseteq seen
    BY <1>2, <1>3, ItemsExcept DEF WaitInv, MembersInv
  <1>7. \A n \in Present(ready') : IsReadyGroupMember(ready'[n].status)
    BY <1>2, <1>3 DEF Present, WaitInv, MembersInv
  <1>8. Cardinality(Present(ready')) <= wait.count
    <2>1. Present(ready') \subseteq Present(ready) \cup {e.name}
      BY <1>2, <1>3 DEF Present
    <2>2. /\ IsFiniteSet(Present(ready)) /\ Cardinality(Present(ready)) \in Nat
          /\ Cardinality(Present(ready')) \in Nat
      BY PresentFinite
    <2>3. /\ IsFiniteSet(Present(ready) \cup {e.name})
          /\ Cardinality(Present(ready) \cup {e.name}) <= Cardinality(Present(ready)) + 1
      BY <2>2, FS_AddElement
    <2>4. Cardinality(Present(ready')) <= Cardinality(Present(ready) \cup {e.name})
      BY <2>1, <2>3, FS_Subset
    <2>5. Cardinality(Present(ready)) < wait.count /\ wait.count \in Nat
      BY WaitType DEF ProcessMember, WaitInv, MembersInv, TypeOK
    <2>6. Cardinality(Present(ready) \cup {e.name}) \in Nat
      BY <2>3, FS_CardinalityType
    <2> QED
      BY <2>2, <2>3, <2>4, <2>5, <2>6
  <1>9. \/ pc' = "watch" /\ UNCHANGED <<outcome, result>> /\ Cardinality(Present(ready')) < wait.count
        \/ Cardinality(Present(ready')) = wait.count /\ Finish("met", Items(ready'))
    BY <1>8, PresentFinite, WaitType DEF ProcessMember, WaitInv, TypeOK
  <1> QED
    BY <1>1, <1>5, <1>6, <1>7, <1>9, MembersVerdictHolds DEF ProcessMember

LEMMA WaitInvariant == Spec => []WaitInv
  <1>1. WaitInv /\ [Next]_vars => WaitInv'
    <2> SUFFICES ASSUME WaitInv, [Next]_vars PROVE WaitInv'
      OBVIOUS
    <2>1. CASE UNCHANGED vars
      BY <2>1 DEF vars, world, informer, history, WaitInv, TypeOK, SelectedOnly, HistoryInv,
                  MembersInv, VerdictIsTrue, TrueEvents, Events, Object, Selected, Items, Present
    <2>2. CASE Check
      BY <2>2, StepCheckCondition, StepCheckMembers, StepCheckDeletion DEF Check
    <2>3. CASE Process
      BY <2>3, StepProcessCondition, StepProcessMember, StepProcessDeletion DEF Process
    <2> QED
      BY <2>1, <2>2, <2>3, StepChange, StepList, StepDeliver, StepExpire, StepTimeout
         DEF Next, Done
  <1> QED
    BY <1>1, InitWait, PTL DEF Spec

-----------------------------------------------------------------------------
\* The theorems.

\* The variables of a wait have their types.
THEOREM WaitTypes == Spec => []TypeOK
  <1>1. WaitInv => TypeOK
    BY DEF WaitInv
  <1> QED
    BY <1>1, WaitInvariant, PTL

\* What a wait returns was so since it began, however often the watch expires.
THEOREM VerdictsAreTrue == Spec => []VerdictIsTrue
  <1>1. WaitInv => VerdictIsTrue
    BY DEF WaitInv
  <1> QED
    BY <1>1, WaitInvariant, PTL

=============================================================================
