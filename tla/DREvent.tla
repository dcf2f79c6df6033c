------------------------------ MODULE DREvent ------------------------------
(***************************************************************************)
(* What a disaster-recovery event promises, with everything between the    *)
(* start of the Job and its verdict hidden.  An event has a fixed set of   *)
(* sources.  Each is captured (or, on a restore, put back) at most once.   *)
(* A backup publishes a snapshot of the DR volume, and only of a volume    *)
(* that every source has been captured into.  The event then reports       *)
(* success or failure, and success means that the work is complete.        *)
(*                                                                         *)
(* DRApp implements this specification (see DRApp!ImplementsDREvent).      *)
(***************************************************************************)
EXTENDS Naturals

VARIABLES
  sources,    \* the sources the event was configured with, by number
  direction,  \* "backup" or "restore"
  captured,   \* the sources whose data has been transferred
  published,  \* has a snapshot of the DR volume been created?
  outcome     \* "running", "succeeded" or "failed"

eventVars == <<sources, direction, captured, published, outcome>>

Init ==
  /\ sources \subseteq Nat
  /\ sources # {}
  /\ direction \in {"backup", "restore"}
  /\ captured = {}
  /\ published = FALSE
  /\ outcome = "running"

\* One source's data reaches its destination.
Capture ==
  /\ outcome = "running"
  /\ ~published
  /\ \E s \in sources \ captured : captured' = captured \cup {s}
  /\ UNCHANGED <<sources, direction, published, outcome>>

\* A backup's DR volume is snapshotted once it holds every source.
Publish ==
  /\ outcome = "running"
  /\ direction = "backup"
  /\ captured = sources
  /\ ~published
  /\ published' = TRUE
  /\ UNCHANGED <<sources, direction, captured, outcome>>

\* Success is only ever reported for complete work.
Succeed ==
  /\ outcome = "running"
  /\ captured = sources
  /\ direction = "backup" => published
  /\ outcome' = "succeeded"
  /\ UNCHANGED <<sources, direction, captured, published>>

\* Failure may be reported at any time.
Fail ==
  /\ outcome = "running"
  /\ outcome' = "failed"
  /\ UNCHANGED <<sources, direction, captured, published>>

\* A published snapshot does not rule out failure: it may never become ready.
Next == Capture \/ Publish \/ Succeed \/ Fail

Spec == Init /\ [][Next]_eventVars

=============================================================================
