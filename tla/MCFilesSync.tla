----------------------------- MODULE MCFilesSync -----------------------------
(***************************************************************************)
(* The instance of FilesSync that TLC checks: two volumes, so that a group *)
(* can gain and lose a member, and a path with another one below it, so    *)
(* that each can be a file on one side and a directory on the other.       *)
(***************************************************************************)
EXTENDS FilesSync, TLC

CONSTANTS v1, v2, old, new    \* model values

MCPVCs == {v1, v2}
MCPaths == {<<"d">>, <<"d", "x">>}
MCContents == {old, new}

PVCSymmetry == Permutations(MCPVCs)

=============================================================================
