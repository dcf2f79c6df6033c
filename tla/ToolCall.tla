------------------------------ MODULE ToolCall ------------------------------
(***************************************************************************)
(* Calls to the server of a tool pod, one at a time: the client waits for  *)
(* an answer, the handler runs pg_dumpall, psql or a sync, and the context *)
(* of the call, the pod and the processes may each come to an end at any   *)
(* moment.                                                                 *)
(*                                                                         *)
(* A dump passes from pg_dumpall through a pipe, a filter and a buffer to  *)
(* a file of the DR volume.  The filter comments out the statements about  *)
(* the roles that CloudNativePG manages.  A restore runs the file through  *)
(* psql, which carries on when the server refuses a statement.             *)
(*                                                                         *)
(* A line is a record of what it is about ("of"), its kind, and the verb   *)
(* and the name that its text begins with, which is all that the filter    *)
(* sees; a grant's name is the member's.  The name is all that follows the *)
(* verb, so that a role and a database never have one name.                *)
(***************************************************************************)
EXTENDS Naturals, Sequences, SequencesExt, FiniteSets

CONSTANTS
  Sources,    \* what may be dumped: records [roles, commented, settings, members, rows],
              \* where "roles" is a sequence in the order of names, "commented" a set of
              \* them, "settings" the roles that parameters are set for, "members" pairs
              \* of a role and a member of it, and "rows" gives for each database the
              \* texts of its rows
  Managed,    \* the roles that are left to CloudNativePG
  Longer,     \* the pairs <<n, m>> of role names of which n begins with m
  PipeSize,   \* how many lines fit into a pipe
  BufferSize, \* how many lines fit into the writer's buffer
  MaxCalls,   \* bound on the number of calls
  MaxFaults   \* bound on the number of faults

Verbs == {"drop", "create", "alter", "comment"}

Roles(s) == ToSet(s.roles)
Databases(s) == DOMAIN s.rows
Names == UNION {Roles(s) \cup Databases(s) : s \in Sources}

ASSUME ToolCallAssumption ==
  PipeSize \in Nat \ {0} /\ BufferSize \in Nat /\ MaxCalls \in Nat /\ MaxFaults \in Nat

\* A role comes before those whose names begin with its, in the order of names.  Every
\* cluster has the managed roles, and what follows the verb of a database is no role's.
ASSUME SourcesAssumption ==
  \A s \in Sources :
    /\ s.roles \in Seq(Roles(s))
    /\ \A i, j \in DOMAIN s.roles :
         i < j => s.roles[i] # s.roles[j] /\ <<s.roles[i], s.roles[j]>> \notin Longer
    /\ s.settings \in Seq(Roles(s)) /\ s.members \in Seq(Roles(s) \X Roles(s))
    /\ Managed \subseteq Roles(s)
    /\ IsFiniteSet(Databases(s)) /\ Databases(s) \cap Roles(s) = {}
    /\ \A db \in Databases(s) : s.rows[db] \in Seq(ToSet(s.rows[db]))
    /\ \A db \in Databases(s) : \A m \in Managed : <<db, m>> \notin Longer

VARIABLES
  calls,    \* the number of calls so far
  op,       \* what the last one asks for: "none", "dump", "restore" or "sync"
  client,   \* what the caller knows: "idle", "waiting", "ok" or "failed"
  server,   \* "serving", "draining" or "stopped"
  ended,    \* is the context of the call done?
  pc,       \* where the handler is; "sent" before it, "none" when there is none
  err,      \* does it return an error?
  source,   \* what the cluster holds that is dumped
  tool,     \* the child process: "none", "running", "orphan", "exited" or "failed"
  sent,     \* the number of lines it has written, or executed
  read,     \* the number of lines the handler has read
  found,    \* the entries of ignoreLines that have been found
  buffer,   \* lines that are not in the file yet
  file,     \* the dump on the DR volume: lines, and whether they are ignored
  complete, \* has the caller been told that the dump has succeeded?
  target,   \* what the cluster holds into which the dump is restored
  refused,  \* has it refused a statement of this restore?
  faults    \* the number of faults so far

callVars == <<calls, op, client>>
handlerVars == <<pc, err, found, buffer>>
toolVars == <<tool, sent, read>>
dataVars == <<source, target, refused>>
fileVars == <<file, complete>>
vars == <<callVars, server, ended, handlerVars, toolVars, dataVars, fileVars, faults>>

Statement(verb, name) == [kind |-> "statement", of |-> name, verb |-> verb, name |-> name]
Setting(role) == [kind |-> "setting", of |-> role, verb |-> "alter", name |-> role]
Grant(role, member) == [kind |-> "grant", of |-> role, verb |-> "grant", name |-> member]
Row(db, text) == [kind |-> "row", of |-> db, verb |-> text.verb, name |-> text.name]

\* What brings back a role, and a database with its rows.
RoleLines(s, n) ==
  <<Statement("create", n), Statement("alter", n)>>
    \o (IF n \in s.commented THEN <<Statement("comment", n)>> ELSE <<>>)
DatabaseLines(s, n) ==
  <<Statement("create", n)>> \o [i \in DOMAIN s.rows[n] |-> Row(n, s.rows[n][i])]

\* ALTER ROLE ... SET and GRANT ... TO, which are written once there is every role.
Configurations(s) ==
  [i \in DOMAIN s.settings |-> Setting(s.settings[i])]
    \o [i \in DOMAIN s.members |-> Grant(s.members[i][1], s.members[i][2])]

\* What pg_dumpall --clean --if-exists writes: everything is dropped, then come the
\* roles in the order of their names, what is set and granted, and each database with
\* its rows.
Blocks(s) ==
  LET Dbs == SetToSeq(Databases(s))
  IN  [i \in DOMAIN Dbs |-> <<Statement("drop", Dbs[i])>>]
        \o [i \in DOMAIN s.roles |-> <<Statement("drop", s.roles[i])>>]
        \o [i \in DOMAIN s.roles |-> RoleLines(s, s.roles[i])]
        \o <<Configurations(s)>>
        \o [i \in DOMAIN Dbs |-> DatabaseLines(s, Dbs[i])]
Script(s) == FlattenSeq(Blocks(s))

Lines == UNION {ToSet(Script(s)) : s \in Sources}
Absent == {Statement("drop", "")}  \* what stands for something that is not there
Old == {Statement("alter", "")}    \* what the target had before

TypeOK ==
  /\ calls \in 0..MaxCalls
  /\ op \in {"none", "dump", "restore", "sync"}
  /\ client \in {"idle", "waiting", "ok", "failed"}
  /\ server \in {"serving", "draining", "stopped"}
  /\ pc \in {"none", "sent", "begin", "copy", "wait", "close", "reply"}
  /\ tool \in {"none", "running", "orphan", "exited", "failed"}
  /\ ended \in BOOLEAN /\ err \in BOOLEAN /\ complete \in BOOLEAN /\ refused \in BOOLEAN
  /\ source \in Sources
  /\ sent \in Nat /\ read \in Nat /\ sent - read \in 0..PipeSize
  /\ found \subseteq [verb : Verbs, name : Managed]
  /\ Len(buffer) <= BufferSize
  /\ \A e \in ToSet(buffer) \cup ToSet(file) : e.line \in Lines /\ e.ignored \in BOOLEAN
  /\ DOMAIN target = Names
  /\ faults \in 0..MaxFaults

Init ==
  /\ calls = 0 /\ op = "none" /\ client = "idle"
  /\ server = "serving" /\ ended = FALSE
  /\ pc = "none" /\ err = FALSE /\ found = {} /\ buffer = <<>>
  /\ tool = "none" /\ sent = 0 /\ read = 0
  /\ source \in Sources
  /\ target = [n \in Names |-> Old] /\ refused = FALSE
  /\ file = <<>> /\ complete = FALSE
  /\ faults = 0

Fault == faults < MaxFaults /\ faults' = faults + 1

-----------------------------------------------------------------------------
\* The caller and the connection.

\* An event's next call.  After a failure it makes no other; what a dump has left
\* is restored only if the dump succeeded.
Call ==
  /\ client \in {"idle", "ok"} /\ pc = "none" /\ calls < MaxCalls
  /\ calls' = calls + 1
  /\ client' = "waiting"
  /\ op' \in {"dump", "restore", "sync"}
  /\ op' = "restore" => complete
  /\ source' \in IF op' = "dump" THEN Sources ELSE {source}
  /\ complete' = (complete /\ op' # "dump")
  /\ refused' = FALSE
  /\ ended' = FALSE
  /\ pc' = "sent"
  /\ UNCHANGED <<server, err, found, buffer, toolVars, target, file, faults>>

\* The request reaches the server, at most once: nothing sends it again.
Arrive ==
  /\ pc = "sent"
  /\ server = "serving"
  /\ pc' = "begin" /\ err' = FALSE /\ found' = {} /\ buffer' = <<>>
  /\ sent' = 0 /\ read' = 0 /\ tool' = "none"
  /\ UNCHANGED <<callVars, server, ended, dataVars, fileVars, faults>>

\* It does not: there is no server to reach, or nobody waits any longer.
NeverArrives ==
  /\ pc = "sent"
  /\ server # "serving" \/ client = "failed"
  /\ pc' = "none"
  /\ client' = "failed"
  /\ UNCHANGED <<calls, op, server, ended, err, found, buffer, toolVars, dataVars, fileVars, faults>>

\* The caller's context is done (SIGTERM, the command's timeout), or the
\* connection breaks.
Break ==
  /\ client = "waiting"
  /\ Fault
  /\ client' = "failed"
  /\ UNCHANGED <<calls, op, server, ended, handlerVars, toolVars, dataVars, fileVars>>

\* Mutant: handlers are given the context of the server, not that of the call.
NoticeServer ==
  /\ server = "draining" /\ ~ended
  /\ ended' = TRUE
  /\ UNCHANGED <<callVars, server, handlerVars, toolVars, dataVars, fileVars, faults>>

\* The server learns of it, and the context of the call is done.
Notice ==
  /\ client = "failed" /\ ~ended
  /\ ended' = TRUE
  /\ UNCHANGED <<callVars, server, handlerVars, toolVars, dataVars, fileVars, faults>>

\* The handler returns: its error, or the lack of one, is what the client gets.
Reply ==
  /\ pc = "reply"
  /\ pc' = "none"
  /\ client' = IF client # "waiting" THEN client ELSE IF err THEN "failed" ELSE "ok"
  /\ complete' = (complete \/ (op = "dump" /\ client' = "ok"))
  /\ UNCHANGED <<calls, op, server, ended, err, found, buffer, toolVars, dataVars, file, faults>>

-----------------------------------------------------------------------------
\* The pod.

\* It is deleted, and the server is sent SIGTERM: GracefulStop lets handlers go on.
Terminate ==
  /\ server = "serving"
  /\ client # "idle"
  /\ server' = "draining"
  /\ UNCHANGED <<callVars, ended, handlerVars, toolVars, dataVars, fileVars, faults>>

Stop ==
  /\ server = "draining" /\ pc \in {"none", "sent"}
  /\ server' = "stopped"
  /\ UNCHANGED <<callVars, ended, handlerVars, toolVars, dataVars, fileVars, faults>>

\* Its grace period is over: every process of the pod is gone, and the connections.
KillPod ==
  /\ server = "draining"
  /\ server' = "stopped"
  /\ pc' = "none" /\ tool' = "none" /\ buffer' = <<>>
  /\ client' = IF client = "waiting" THEN "failed" ELSE client
  /\ UNCHANGED <<calls, op, ended, err, found, sent, read, dataVars, fileVars, faults>>

\* The next event has a pod of its own.
NewPod ==
  /\ server = "stopped" /\ client # "waiting" /\ pc = "none"
  /\ server' = "serving"
  /\ client' = "idle"
  /\ UNCHANGED <<calls, op, ended, handlerVars, toolVars, dataVars, fileVars, faults>>

-----------------------------------------------------------------------------
\* The filter of the dump.

\* Mutant: ignoreLines has no entry for comments.
EntriesButComments == [verb : Verbs \ {"comment"}, name : Managed]

\* ignoreLines holds these verbs with each of the managed roles.
Entries == [verb : Verbs, name : Managed]

HasPrefix(line, entry) ==
  /\ line.verb = entry.verb
  /\ line.name = entry.name \/ <<line.name, entry.name>> \in Longer

\* Mutant: entries are matched any number of times.
MatchesAgain(line) == {e \in Entries : HasPrefix(line, e)}

\* The entries not found yet that a line matches: each is matched once.
Matches(line) == {e \in Entries \ found : HasPrefix(line, e)}

\* DumpAll of a line that was read.
Filtered(line) == [line |-> line, ignored |-> Matches(line) # {}]

-----------------------------------------------------------------------------
\* DumpAll.

To(next) == pc' = next
FailTo(next) == pc' = next /\ err' = TRUE

\* The file is opened, and truncated; then the process is started, which is refused
\* when the context is done already.
OpenFails ==
  /\ pc = "begin" /\ op = "dump"
  /\ Fault
  /\ FailTo("reply")
  /\ UNCHANGED <<callVars, server, ended, found, buffer, toolVars, dataVars, fileVars>>

StartDump ==
  /\ pc = "begin" /\ op = "dump"
  /\ file' = <<>>
  /\ \/ /\ ~ended
        /\ To("copy") /\ tool' = "running"
        /\ UNCHANGED <<err, faults>>
     \/ /\ IF ended THEN UNCHANGED faults ELSE Fault
        /\ FailTo("close")
        /\ UNCHANGED tool
  /\ UNCHANGED <<callVars, server, ended, found, buffer, sent, read, dataVars, complete>>

\* A line is read, filtered and written to the buffer, which goes to the file when
\* it is full.
CopyLine ==
  /\ pc = "copy" /\ read < sent
  /\ LET line == Script(source)[read + 1]
     IN  /\ found' = found \cup Matches(line)
         /\ IF Len(buffer) < BufferSize
            THEN buffer' = Append(buffer, Filtered(line)) /\ UNCHANGED file
            ELSE buffer' = <<>> /\ file' = file \o Append(buffer, Filtered(line))
  /\ read' = read + 1
  /\ UNCHANGED <<callVars, server, ended, pc, err, tool, sent, dataVars, complete, faults>>

\* Reading or writing fails.  What is in the buffer is lost when it was the writing.
CopyFails ==
  /\ pc = "copy" /\ read < sent
  /\ Fault
  /\ FailTo("close")
  /\ buffer' \in {buffer, <<>>}
  /\ UNCHANGED <<callVars, server, ended, found, toolVars, dataVars, fileVars>>

\* At the end of the output the exit status is awaited.
CopyEnds ==
  /\ pc = "copy" /\ read = sent
  /\ tool \in {"exited", "failed"}
  /\ To("wait")
  /\ UNCHANGED <<callVars, server, ended, err, found, buffer, toolVars, dataVars, fileVars, faults>>

\* Mutant: the exit status of pg_dumpall is lost.
WaitEndsUnheard ==
  /\ pc = "wait"
  /\ tool \in {"exited", "failed"}
  /\ err' = (tool = "failed" /\ op # "dump")
  /\ To(IF op = "dump" THEN "close" ELSE "reply")
  /\ tool' = "none"
  /\ UNCHANGED <<callVars, server, ended, found, buffer, sent, read, dataVars, fileVars, faults>>

\* DumpAll's Wait, and psql's.
WaitEnds ==
  /\ pc = "wait"
  /\ tool \in {"exited", "failed"}
  /\ err' = (tool = "failed")
  /\ To(IF op = "dump" THEN "close" ELSE "reply")
  /\ tool' = "none"
  /\ UNCHANGED <<callVars, server, ended, found, buffer, sent, read, dataVars, fileVars, faults>>

\* The deferred flush and close, then that of the context: it ends the process.
Close ==
  /\ pc = "close"
  /\ \/ file' = file \o buffer /\ UNCHANGED <<err, faults>>
     \/ Fault /\ err' = TRUE /\ UNCHANGED file
  /\ buffer' = <<>>
  /\ tool' = "none"
  /\ To("reply")
  /\ UNCHANGED <<callVars, server, ended, found, sent, read, dataVars, complete>>

-----------------------------------------------------------------------------
\* Restore, and a sync of files or of a bucket.

StartRestore ==
  /\ pc = "begin" /\ op = "restore"
  /\ \/ /\ ~ended
        /\ To("wait") /\ tool' = "running"
        /\ UNCHANGED <<err, faults>>
     \/ /\ IF ended THEN UNCHANGED faults ELSE Fault
        /\ FailTo("reply")
        /\ UNCHANGED tool
  /\ UNCHANGED <<callVars, server, ended, found, buffer, sent, read, dataVars, fileVars>>

\* A sync returns when it is done, with or without an error.
Sync ==
  /\ pc = "begin" /\ op = "sync"
  /\ To("reply")
  /\ err' \in BOOLEAN
  /\ UNCHANGED <<callVars, server, ended, found, buffer, toolVars, dataVars, fileVars, faults>>

-----------------------------------------------------------------------------
\* The processes.

\* pg_dumpall writes a line, unless the pipe is full.  A pg_dump that it has started
\* goes on without it.
ToolWrites ==
  /\ op = "dump" /\ tool \in {"running", "orphan"}
  /\ sent < Len(Script(source)) /\ sent - read < PipeSize
  /\ sent' = sent + 1
  /\ UNCHANGED <<callVars, server, ended, handlerVars, tool, read, dataVars, fileVars, faults>>

Is(line, verb) == line.kind = "statement" /\ line.verb = verb

\* Does a restore of a line change something?
Succeeds(line) ==
  CASE Is(line, "drop")   -> TRUE
    [] Is(line, "create") -> target[line.of] = Absent
    [] OTHER              -> /\ target[line.of] # Absent
                             /\ line.kind = "grant" => target[line.name] # Absent

\* The target without m, which then is no longer a member of roles.
Without(m) == [n \in Names |-> IF n = m THEN Absent ELSE target[n] \ {Grant(n, m)}]

\* What the target holds after a line.
Result(line) ==
  CASE Is(line, "drop")   -> Without(line.of)
    [] Is(line, "create") -> [target EXCEPT ![line.of] = {}]
    [] OTHER              -> [target EXCEPT ![line.of] = @ \cup {line}]

\* psql executes a line.  The server may refuse it, and psql goes on.
ToolExecutes ==
  /\ op = "restore" /\ tool = "running" /\ sent < Len(file)
  /\ LET entry == file[sent + 1]
         line == entry.line
     IN  \/ /\ entry.ignored
            /\ UNCHANGED <<target, refused, faults>>
         \/ /\ ~entry.ignored /\ Succeeds(line)
            /\ target' = Result(line)
            /\ UNCHANGED <<refused, faults>>
         \/ /\ ~entry.ignored
            /\ IF Succeeds(line) THEN Fault ELSE UNCHANGED faults
            /\ refused' = TRUE
            /\ UNCHANGED target
  /\ sent' = sent + 1
  /\ read' = read + 1
  /\ UNCHANGED <<callVars, server, ended, handlerVars, tool, source, fileVars>>

ToolExits ==
  /\ tool = "running"
  /\ sent = Len(IF op = "dump" THEN Script(source) ELSE file)
  /\ tool' = "exited"
  /\ UNCHANGED <<callVars, server, ended, handlerVars, sent, read, dataVars, fileVars, faults>>

ToolFails ==
  /\ tool = "running"
  /\ Fault
  /\ tool' = "failed"
  /\ UNCHANGED <<callVars, server, ended, handlerVars, sent, read, dataVars, fileVars>>

\* exec.CommandContext kills the process when the context of the call is done, and
\* not what the process has started, which keeps the pipe open.
KillTool ==
  /\ ended /\ tool = "running"
  /\ tool' \in IF op = "dump" THEN {"failed", "orphan"} ELSE {"failed"}
  /\ UNCHANGED <<callVars, server, ended, handlerVars, sent, read, dataVars, fileVars, faults>>

OrphanEnds ==
  /\ tool = "orphan"
  /\ tool' = "failed"
  /\ UNCHANGED <<callVars, server, ended, handlerVars, sent, read, dataVars, fileVars, faults>>

Handler ==
  \/ OpenFails \/ StartDump \/ CopyLine \/ CopyFails \/ CopyEnds \/ WaitEnds \/ Close
  \/ StartRestore \/ Sync \/ Reply

Tool == ToolWrites \/ ToolExecutes \/ ToolExits \/ ToolFails \/ KillTool \/ OrphanEnds

\* Every call that the bound allows has been made.
Done == calls = MaxCalls /\ client # "waiting" /\ pc = "none" /\ UNCHANGED vars

Next ==
  \/ Call \/ Arrive \/ NeverArrives \/ Break \/ Notice
  \/ Terminate \/ Stop \/ KillPod \/ NewPod
  \/ Handler \/ Tool \/ Done

\* The server and its handlers run, and the kubelet ends a deleted pod.  Nothing is
\* assumed of pg_dumpall and psql but that they die when killed; a pg_dump that
\* outlives its pg_dumpall gets to the end of its database.
Fairness ==
  /\ WF_vars(Arrive \/ NeverArrives) /\ WF_vars(Notice)
  /\ WF_vars(Handler) /\ WF_vars(Stop \/ KillPod)
  /\ WF_vars(KillTool) /\ WF_vars(OrphanEnds)

Spec == Init /\ [][Next]_vars /\ Fairness

-----------------------------------------------------------------------------
\* Properties.

\* A line that nothing was meant to match, but that begins like a statement about a
\* managed role which this dump lacks: a comment on a role, as not every role has one.
IsMistaken(line) ==
  \E e \in Entries : HasPrefix(line, e) /\ Statement(e.verb, e.name) \notin ToSet(Script(source))

\* The statements that CloudNativePG takes the place of: what drops and makes a managed
\* role, its attributes and its comment, and not what is set for it or granted.
IsLeftOut(line) == line.kind = "statement" /\ line.of \in Managed

\* A dump that the caller was told to have succeeded is the whole output of
\* pg_dumpall, with nothing of an earlier dump.  The statements that drop, make or
\* describe a managed role are commented out, all of these and, but for mistaken ones,
\* only these: its settings and memberships are kept.
DumpIsComplete ==
  complete =>
    /\ [i \in DOMAIN file |-> file[i].line] = Script(source)
    /\ \A i \in DOMAIN file :
         /\ IsLeftOut(file[i].line) => file[i].ignored
         /\ file[i].ignored => IsLeftOut(file[i].line) \/ IsMistaken(file[i].line)

\* What is restored: all that the source has, but the managed roles.
Restored == (Roles(source) \cup Databases(source)) \ Managed

\* What the source holds of a role or a database.
Content(n) ==
  {line \in ToSet(Script(source)) :
     line.of = n /\ (line.kind = "statement" => line.verb \notin {"drop", "create"})}

\* A restore that succeeds, and of which no statement was refused, leaves every role
\* and database that is restored as in the source, but for what was mistaken.
RestoreIsExact ==
  op = "restore" /\ client = "ok" /\ ~refused =>
    \A n \in Restored :
      /\ target[n] \subseteq Content(n)
      /\ \A line \in Content(n) \ target[n] : IsMistaken(line)

\* No restore, however it ends, takes anything from a managed role, or from what the
\* source does not have, but the memberships of roles that are dropped to be restored;
\* nor does it give it anything but the settings and memberships that the source has.
OthersAreSpared ==
  [][\A n \in Names \ Restored :
       /\ target[n] \ target'[n] \subseteq {Grant(n, m) : m \in Restored}
       /\ target'[n] \ target[n] \subseteq {line \in Content(n) : line.kind # "statement"}]_vars

\* When the caller has given up, or the pod is being deleted, the call comes to an
\* end on both sides, even if the process that the handler waits for hangs.
CallsEnd ==
  client = "failed" \/ server = "draining" ~> pc = "none" /\ client # "waiting"

=============================================================================
