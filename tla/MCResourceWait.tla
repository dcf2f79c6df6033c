--------------------------- MODULE MCResourceWait ---------------------------
\* Waits of every kind; a group has two members.
EXTENDS ResourceWait

MCWaits == [kind : Kinds \ {"members"}, count : {1}] \cup {[kind |-> "members", count |-> 2]}

=============================================================================
