------------------------------ MODULE MCDRApp ------------------------------
(***************************************************************************)
(* The instance of DRApp that TLC checks: the backups of the three fixed   *)
(* applications, Generic ones that combine every kind of source, and the   *)
(* restores that mirror them.                                              *)
(***************************************************************************)
EXTENDS DRApp

\* Generic configurations: one filesystem, and one source of each kind.
OneFilesystem == [postgres |-> 0, files |-> 1, fileGroups |-> 0, s3 |-> 0]
OneOfEach == [postgres |-> 1, files |-> 1, fileGroups |-> 1, s3 |-> 1]

MCEvents ==
  {VaultwardenBackup, TeleportBackup(FALSE, FALSE), TeleportBackup(TRUE, TRUE),
   AuthentikBackup, BackupActions(OneFilesystem), BackupActions(OneOfEach),
   VaultwardenRestore, TeleportRestore(TRUE, TRUE), AuthentikRestore,
   RestoreActions(OneOfEach)}

=============================================================================
