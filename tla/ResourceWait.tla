---------------------------- MODULE ResourceWait ----------------------------
(***************************************************************************)
(* Waiting for a resource of the cluster: WaitForResourceCondition, the    *)
(* same by label, and WaitForResourceDeletion, beside controllers that     *)
(* create, change and delete what is waited for.                           *)
(*                                                                         *)
(* UntilWithSync of client-go lists into a store and watches from there;   *)
(* its precondition looks at the store once, then the events are processed *)
(* in the order of the changes.  The initial list is among them.  When a   *)
(* watch has expired, the store is listed again, and the events are the    *)
(* differences: what happened in between is not seen.                      *)
(***************************************************************************)
EXTENDS Naturals, FiniteSets, FiniteSetsExt, Sequences, SequencesExt

CONSTANTS
  Names,       \* of the resources that the selector may match
  Waits,       \* what is waited for: a set of records [kind, count]
  MaxChanges,  \* bound on the changes of the resources
  MaxExpiries  \* bound on the number of times that the watch expires

Kinds == {"pod", "service", "endpoint", "job", "snapshot", "members", "backup",
          "cluster", "certificate", "issuer", "policy", "deletion"}

ASSUME WaitAssumption ==
  /\ Names # {} /\ IsFiniteSet(Names)
  /\ Waits \subseteq [kind : Kinds, count : Nat \ {0}]
  /\ \A w \in Waits : w.kind # "members" => w.count = 1
  /\ MaxChanges \in Nat /\ MaxExpiries \in Nat

VARIABLES
  wait,     \* what is waited for
  objects,  \* the resources in the cluster, by name
  changes,  \* the number of changes so far
  unseen,   \* the events that the watch has yet to deliver
  store,    \* the informer's view of the resources
  events,   \* the events that are yet to be processed
  ready,    \* the members found ready so far, by name
  pc,       \* "list", "check", "watch" or "done"
  outcome,  \* "none", "met", "failed" or "timeout"
  result,   \* what a success returns
  expiries, \* the number of expiries
  seen,     \* what has been in the cluster since the first list
  gone      \* has nothing been there at some time since then?

world == <<objects, changes>>
informer == <<unseen, store, expiries>>
history == <<seen, gone>>
vars == <<wait, world, informer, events, ready, pc, outcome, result, history>>

-----------------------------------------------------------------------------
\* What the waits look at in the status of a resource, and what they make of it:
\* the condition is met, it has failed, or there is nothing to be said yet.

IsTrue(status, condition) == <<condition, "True">> \in status

PodIsReady(status) == IsTrue(status, "Ready")
IsClusterReady(status) == IsTrue(status, "Ready")
IsCertificateReady(status) == IsTrue(status, "Ready")
IsIssuerReady(status) == IsTrue(status, "Ready")
PolicyIsReady(status) == IsTrue(status, "Ready")

\* A load balancer needs an address from outside, another service one of its own.
ServiceIsReady(status) ==
  IF IsTrue(status, "LoadBalancer")
  THEN IsTrue(status, "Ingress")
  ELSE IsTrue(status, "ClusterIP")

EndpointIsReady(status) == IsTrue(status, "Address")
SnapshotIsReady(status) == IsTrue(status, "ReadyToUse")

\* The members of a group are told from other snapshots by their owner.
IsReadyGroupMember(status) ==
  IsTrue(status, "ReadyToUse") /\ IsTrue(status, "RestoreSize") /\ IsTrue(status, "Owned")

JobVerdict(status) ==
  CASE IsTrue(status, "Complete") -> "met"
    [] IsTrue(status, "Failed")   -> "failed"
    [] OTHER                      -> "wait"

BackupVerdict(status) ==
  CASE IsTrue(status, "Completed") -> "met"
    [] IsTrue(status, "Failed") \/ IsTrue(status, "WalArchivingFailing") -> "failed"
    [] OTHER -> "wait"

IsMet(kind, status) ==
  CASE kind = "pod"         -> PodIsReady(status)
    [] kind = "service"     -> ServiceIsReady(status)
    [] kind = "endpoint"    -> EndpointIsReady(status)
    [] kind = "snapshot"    -> SnapshotIsReady(status)
    [] kind = "members"     -> IsReadyGroupMember(status)
    [] kind = "cluster"     -> IsClusterReady(status)
    [] kind = "certificate" -> IsCertificateReady(status)
    [] kind = "issuer"      -> IsIssuerReady(status)
    [] kind = "policy"      -> PolicyIsReady(status)
    [] OTHER                -> FALSE

Verdict(kind, status) ==
  CASE kind = "job"    -> JobVerdict(status)
    [] kind = "backup" -> BackupVerdict(status)
    [] OTHER           -> IF IsMet(kind, status) THEN "met" ELSE "wait"

\* The statuses that controllers give to resources of a kind.
Statuses(kind) ==
  LET Only(cs) == {{}} \cup {{<<c, "True">>} : c \in cs}
  IN  CASE kind = "job"      -> Only({"Complete", "Failed"})
        [] kind = "backup"   -> Only({"Completed", "Failed", "WalArchivingFailing"})
        [] kind = "service"  -> SUBSET {<<"ClusterIP", "True">>}
                                  \cup {{<<"LoadBalancer", "True">>} \cup s :
                                          s \in SUBSET {<<"Ingress", "True">>, <<"ClusterIP", "True">>}}
        [] kind = "endpoint" -> Only({"Address"})
        [] kind = "snapshot" -> Only({"ReadyToUse"})
        [] kind = "members"  -> {{<<"Owned", "True">>},
                                 {<<"Owned", "True">>, <<"ReadyToUse", "True">>},
                                 {<<"Owned", "True">>, <<"ReadyToUse", "True">>, <<"RestoreSize", "True">>}}
        [] kind = "deletion" -> {{}}
        [] OTHER             -> {{}, {<<"Ready", "False">>}, {<<"Ready", "True">>}}

Absent == [uid |-> 0, status |-> {}]

\* By name there is one resource to wait for, by label there may be more.
Selected == IF wait.kind \in {"job", "members"} THEN Names ELSE {CHOOSE n \in Names : TRUE}
Present(view) == {n \in Names : view[n] # Absent}
Items(view) == {<<n, view[n]>> : n \in Present(view)}

Object == [uid : 0..MaxChanges + 1, status : Statuses(wait.kind) \cup {{}}]
Event(type, name, object) == [type |-> type, name |-> name, object |-> object]
Events == [type : {"added", "modified", "deleted"}, name : Selected, object : Object \ {Absent}]

TypeOK ==
  /\ wait \in Waits
  /\ changes \in 0..MaxChanges /\ expiries \in 0..MaxExpiries
  /\ {objects, store, ready} \subseteq [Names -> Object]
  /\ {unseen, events} \subseteq Seq(Events)
  /\ pc \in {"list", "check", "watch", "done"}
  /\ outcome \in {"none", "met", "failed", "timeout"} /\ (outcome # "none" <=> pc = "done")
  /\ result \subseteq Names \X Object
  /\ seen \subseteq Names \X Object
  /\ gone \in BOOLEAN

Init ==
  /\ wait \in Waits
  /\ objects \in [Names -> {Absent} \cup [uid : {1}, status : Statuses(wait.kind)]]
  /\ \A n \in Names \ Selected : objects[n] = Absent
  /\ changes = 0 /\ expiries = 0
  /\ unseen = <<>> /\ events = <<>> /\ store = [n \in Names |-> Absent]
  /\ ready = [n \in Names |-> Absent] /\ pc = "list" /\ outcome = "none" /\ result = {}
  /\ seen = {} /\ gone = FALSE

-----------------------------------------------------------------------------
\* The cluster.

\* Something is created, gets another status, or is deleted.  A deletion's event
\* carries the last state.
Change ==
  /\ changes < MaxChanges /\ pc # "done"
  /\ changes' = changes + 1
  /\ \E n \in Selected, status \in Statuses(wait.kind) :
       LET old == objects[n]
           new == [uid |-> IF old = Absent THEN changes + 2 ELSE old.uid, status |-> status]
       IN  \E object \in IF old = Absent THEN {new} ELSE {new, Absent} :
             /\ object # old
             /\ objects' = [objects EXCEPT ![n] = object]
             /\ unseen' = IF pc = "list" THEN unseen
                          ELSE Append(unseen,
                                 CASE old = Absent    -> Event("added", n, object)
                                   [] object = Absent -> Event("deleted", n, old)
                                   [] OTHER           -> Event("modified", n, object))
  /\ seen' = IF pc = "list" THEN seen ELSE seen \cup Items(objects')
  /\ gone' = (gone \/ (pc # "list" /\ Present(objects') = {}))
  /\ UNCHANGED <<wait, store, expiries, events, ready, pc, outcome, result>>

-----------------------------------------------------------------------------
\* The informer.

Listed(type) == LET order == SetToSeq(Present(objects))
                IN  [i \in DOMAIN order |-> Event(type, order[i], objects[order[i]])]

\* The first list.  What it finds is in the store, and among the events too.
List ==
  /\ pc = "list"
  /\ store' = objects
  /\ events' = Listed("added")
  /\ seen' = Items(objects)
  /\ gone' = (Present(objects) = {})
  /\ pc' = "check"
  /\ UNCHANGED <<wait, world, unseen, expiries, ready, outcome, result>>

\* An event of the watch arrives.
Deliver ==
  /\ pc \in {"check", "watch"} /\ unseen # <<>>
  /\ LET e == Head(unseen)
     IN  /\ store' = [store EXCEPT ![e.name] = IF e.type = "deleted" THEN Absent ELSE e.object]
         /\ events' = Append(events, e)
  /\ unseen' = Tail(unseen)
  /\ UNCHANGED <<wait, world, expiries, ready, pc, outcome, result, history>>

\* The watch breaks for so long that the next cannot start where it ended.  What is
\* no longer there is deleted in its last known state.
Expire ==
  /\ pc \in {"check", "watch"} /\ expiries < MaxExpiries
  /\ expiries' = expiries + 1
  /\ LET order == SetToSeq(Present(store) \ Present(objects))
         lost == [i \in DOMAIN order |-> Event("deleted", order[i], store[order[i]])]
     IN  events' = events \o Listed("modified") \o lost
  /\ store' = objects
  /\ unseen' = <<>>
  /\ UNCHANGED <<wait, world, ready, pc, outcome, result, history>>

-----------------------------------------------------------------------------
\* The wait.

Finish(how, what) == pc' = "done" /\ outcome' = how /\ result' = what

\* WaitForReadyGroupSnapshotMembers keeps the ready ones by name.
Accumulated(found, name, object) ==
  [found EXCEPT ![name] = IF IsReadyGroupMember(object.status) THEN object ELSE Absent]

\* Mutant: the watch begins with the check, not with the list.
CheckThenWatch ==
  /\ pc = "check" /\ wait.kind \notin {"deletion", "members"}
  /\ LET decided == {n \in Present(store) : Verdict(wait.kind, store[n].status) # "wait"}
     IN  \/ \E n \in decided :
              Finish(Verdict(wait.kind, store[n].status), {<<n, store[n]>>})
         \/ decided = {} /\ pc' = "watch" /\ UNCHANGED <<outcome, result>>
  /\ unseen' = <<>> /\ events' = <<>>
  /\ UNCHANGED <<wait, world, store, expiries, ready, history>>

\* The precondition on the store, item by item: the first verdict ends the wait.
CheckCondition ==
  /\ pc = "check" /\ wait.kind \notin {"deletion", "members"}
  /\ LET decided == {n \in Present(store) : Verdict(wait.kind, store[n].status) # "wait"}
     IN  \/ \E n \in decided :
              Finish(Verdict(wait.kind, store[n].status), {<<n, store[n]>>})
         \/ decided = {} /\ pc' = "watch" /\ UNCHANGED <<outcome, result>>
  /\ UNCHANGED <<wait, world, informer, events, ready, history>>

\* The members' precondition stops at the number that is awaited.
CheckMembers ==
  /\ pc = "check" /\ wait.kind = "members"
  /\ LET found == {n \in Present(store) : IsReadyGroupMember(store[n].status)}
     IN  \/ /\ Cardinality(found) < wait.count
            /\ ready' = [n \in Names |-> IF n \in found THEN store[n] ELSE Absent]
            /\ pc' = "watch" /\ UNCHANGED <<outcome, result>>
         \/ /\ Cardinality(found) >= wait.count
            /\ \E some \in kSubset(wait.count, found) :
                 ready' = [n \in Names |-> IF n \in some THEN store[n] ELSE Absent]
            /\ Finish("met", Items(ready'))
  /\ UNCHANGED <<wait, world, informer, events, history>>

\* Mutant: nothing to be seen means that there is something to wait for.
CheckDeletionLater ==
  /\ pc = "check" /\ wait.kind = "deletion"
  /\ pc' = "watch"
  /\ UNCHANGED <<wait, world, informer, events, ready, outcome, result, history>>

CheckDeletion ==
  /\ pc = "check" /\ wait.kind = "deletion"
  /\ IF Present(store) = {}
     THEN Finish("met", {})
     ELSE pc' = "watch" /\ UNCHANGED <<outcome, result>>
  /\ UNCHANGED <<wait, world, informer, events, ready, history>>

\* An event is processed: of a deletion too only the state counts, unless it is the
\* deletion that is waited for.
ProcessCondition ==
  /\ pc = "watch" /\ wait.kind \notin {"deletion", "members"} /\ events # <<>>
  /\ LET object == Head(events).object
         verdict == Verdict(wait.kind, object.status)
     IN  IF verdict = "wait"
         THEN UNCHANGED <<pc, outcome, result>>
         ELSE Finish(verdict, {<<Head(events).name, object>>})
  /\ events' = Tail(events)
  /\ UNCHANGED <<wait, world, informer, ready, history>>

ProcessMember ==
  /\ pc = "watch" /\ wait.kind = "members" /\ events # <<>>
  /\ ready' = Accumulated(ready, Head(events).name, Head(events).object)
  /\ IF Cardinality(Present(ready')) >= wait.count
     THEN Finish("met", Items(ready'))
     ELSE UNCHANGED <<pc, outcome, result>>
  /\ events' = Tail(events)
  /\ UNCHANGED <<wait, world, informer, history>>

\* Mutant: any event ends the wait for a deletion.
ProcessAnyEvent ==
  /\ pc = "watch" /\ wait.kind = "deletion" /\ events # <<>>
  /\ Finish("met", {})
  /\ events' = Tail(events)
  /\ UNCHANGED <<wait, world, informer, ready, history>>

ProcessDeletion ==
  /\ pc = "watch" /\ wait.kind = "deletion" /\ events # <<>>
  /\ IF Head(events).type = "deleted"
     THEN Finish("met", {})
     ELSE UNCHANGED <<pc, outcome, result>>
  /\ events' = Tail(events)
  /\ UNCHANGED <<wait, world, informer, ready, history>>

\* The time is up, or the event's context is cancelled.
Timeout ==
  /\ pc # "done"
  /\ Finish("timeout", {})
  /\ UNCHANGED <<wait, world, informer, events, ready, history>>

Check == CheckCondition \/ CheckMembers \/ CheckDeletion
Process == ProcessCondition \/ ProcessMember \/ ProcessDeletion
Done == pc = "done" /\ UNCHANGED vars

Next == Change \/ List \/ Deliver \/ Expire \/ Check \/ Process \/ Timeout \/ Done

\* The API server answers and the wait runs.  The time need not be up: what is to be
\* noticed must be noticed without that.
Fairness == WF_vars(List) /\ WF_vars(Deliver) /\ WF_vars(Check) /\ WF_vars(Process)

Spec == Init /\ [][Next]_vars /\ Fairness

-----------------------------------------------------------------------------
\* Properties.

\* What a wait returns was so at some time since it began: the resource had that
\* status, as many members of a group as asked for were ready, nothing was there.
VerdictIsTrue ==
  outcome \in {"met", "failed"} =>
    IF wait.kind = "deletion"
    THEN gone
    ELSE /\ result \subseteq seen
         /\ \A item \in result : Verdict(wait.kind, item[2].status) = outcome
         /\ Cardinality({item[1] : item \in result}) = wait.count

\* Has there been, since the wait began, what it is waiting for?
HasBeen ==
  CASE wait.kind = "deletion" -> \E item \in seen : objects[item[1]].uid # item[2].uid
    [] wait.kind = "members"  -> FALSE
    [] OTHER -> \E item \in seen : Verdict(wait.kind, item[2].status) # "wait"

\* Unless the watch has expired, a status that ends the wait is never missed, however
\* short its duration: a Job that fails and is deleted at once has failed.  Nor is the
\* deletion of something that was there.
NothingIsMissed == HasBeen /\ expiries = 0 ~> pc = "done" \/ expiries > 0

\* Is there now what the wait is waiting for?
Holds ==
  CASE wait.kind = "deletion" -> Present(objects) = {}
    [] wait.kind = "members"  ->
         Cardinality({n \in Present(objects) : IsReadyGroupMember(objects[n].status)}) >= wait.count
    [] OTHER -> \E n \in Present(objects) : Verdict(wait.kind, objects[n].status) # "wait"

\* What holds for good is noticed, whether or not the watch expires.
SettledIsNoticed == <>[]Holds => <>(pc = "done")

=============================================================================
