---------------------------- MODULE MCVolumeClone ----------------------------
(***************************************************************************)
(* The instance of VolumeClone that TLC checks: three volumes, so that a   *)
(* group can both shrink and grow between its listing and its snapshot.    *)
(***************************************************************************)
EXTENDS VolumeClone

CONSTANTS p1, p2, p3    \* model values

MCPVCs == {p1, p2, p3}

=============================================================================
