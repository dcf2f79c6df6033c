------------------------------ MODULE MCS3Sync ------------------------------
(***************************************************************************)
(* The instance of S3Sync that TLC checks: two keys one of which is above  *)
(* the other, and a third, so that the listing of one can precede and that *)
(* of another follow a write.  Objects have one size, so that each can be  *)
(* overwritten by one of its own; a file that was cut short has another.   *)
(***************************************************************************)
EXTENDS S3Sync, TLC

CONSTANTS a, a_b, c    \* model values, for keys like a, a/b and c

MCKeys == {a, a_b, c}
MCAbove == [key \in MCKeys |-> IF key = a_b THEN {a} ELSE {}]
MCSizes == {2}

=============================================================================
