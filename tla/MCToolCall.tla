----------------------------- MODULE MCToolCall -----------------------------
\* Sources for ToolCall: the managed role and one whose name begins like its, with or
\* without comments, settings and memberships, and no database, or one with an ordinary row,
\* or with one whose text looks like a comment on the managed role.
EXTENDS ToolCall

Plain == [verb |-> "row", name |-> "row"]
Lookalike == [verb |-> "comment", name |-> "postgres"]

Source(commented, settings, members, databases, rows) ==
  [roles |-> <<"postgres", "postgres_exporter">>, commented |-> commented,
   settings |-> settings, members |-> members, rows |-> [db \in databases |-> rows]]

MCSources ==
  {Source({"postgres"}, <<"postgres">>,
          <<<<"postgres_exporter", "postgres">>>>, {"db"}, <<Plain>>),
   Source({}, <<>>, <<<<"postgres", "postgres_exporter">>>>, {"db"}, <<Lookalike>>),
   Source({"postgres_exporter"}, <<>>, <<>>, {}, <<>>)}

MCManaged == {"postgres"}
MCLonger == {<<"postgres_exporter", "postgres">>}

=============================================================================
