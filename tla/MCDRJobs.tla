------------------------------ MODULE MCDRJobs ------------------------------
\* Configurations for DRJobs: two that use the same names for sources of other
\* kinds, one of a group that has one PVC or two, and one in which two kinds
\* share a directory.
EXTENDS DRJobs

Db == [kind |-> "postgres", name |-> "db", of |-> "cluster"]
Media == [kind |-> "files", name |-> "media", of |-> "pvc"]
Bucket == [kind |-> "s3", name |-> "media", of |-> "bucket"]
InGroup(pvc) == [kind |-> "fileGroups", name |-> "media", of |-> pvc]

MCConfigs == {<<Media, Db>>, <<Bucket>>, <<InGroup("one")>>, <<InGroup("one"), InGroup("two")>>}
MCColliding == {<<Bucket, Media>>}

=============================================================================
