------------------------------ MODULE FilesSync ------------------------------
(***************************************************************************)
(* The files of a group of volumes on the DR volume: group backups, which  *)
(* sync each member's frozen clone into the directory of its name, group   *)
(* restores, which sync each directory onto the volume of its name, and    *)
(* LocalRuntime.SyncFiles, which both are made of.  The backup and restore *)
(* of a single volume are those of a group of one, without the check.      *)
(*                                                                         *)
(* SyncFiles first walks the destination and deletes what the source, seen *)
(* through the filter, does not have; then it walks the source and copies. *)
(* A walk visits a directory before what is in it.  Any file operation may *)
(* fail, and the sync with it, leaving the destination as it is then; the  *)
(* next event starts from there.                                           *)
(*                                                                         *)
(* A tree is a function from the relative paths of interest to what is at  *)
(* each.  Clones, and volumes that are being restored, have no other user. *)
(***************************************************************************)
EXTENDS Naturals, Sequences, SequencesExt, FiniteSets

CONSTANTS
  PVCs,      \* the volumes that the group's selector may match
  Paths,     \* paths relative to the root of a sync, as sequences of names
  Contents   \* the contents of files

\* What else there can be at a path; a copy cut short leaves a file of its own.
CONSTANTS Nothing, Directory, CutShort

ASSUME PathsAssumption ==
  /\ Paths \subseteq Seq(STRING) \ {<<>>}
  /\ \A p \in Paths : Len(p) > 1 => Front(p) \in Paths

ASSUME NodesAssumption ==
  /\ Cardinality({Nothing, Directory, CutShort}) = 3
  /\ {Nothing, Directory, CutShort} \cap Contents = {}

VARIABLES
  volume,     \* the group's directory on the DR volume: member directories' trees
  pvcs,       \* the members' trees: a backup's clones, a restore's targets
  direction,  \* of the event: "backup" or "restore"
  filter,     \* the paths the backup's patterns exclude, "." among them, and include
  pc,         \* where the event is
  todo,       \* the members it has yet to sync
  member,     \* the one it is syncing
  unvisited   \* the paths the current walk has yet to reach

vars == <<volume, pvcs, direction, filter, pc, todo, member, unvisited>>

Files == Contents \cup {CutShort}

\* The path of a destination relative to itself: "." to the filter, which matches
\* "*", "?", ".*" and "**/.*".
Root == <<>>

Filters == [exclude : SUBSET (Paths \cup {Root}), include : SUBSET Paths]

Below(p) == {q \in Paths : IsPrefix(p, q)}
Above(p) == {q \in Paths : IsStrictPrefix(q, p)}

Trees ==
  {t \in [Paths -> Files \cup {Nothing, Directory}] :
     \A p \in Paths : t[p] # Nothing => \A q \in Above(p) : t[q] = Directory}

\* Trees of volumes in use, to which no sync has been cut short.
WholeTrees == {t \in Trees : \A p \in Paths : t[p] # CutShort}
EmptyTree == [p \in Paths |-> Nothing]

\* shouldTransfer: an excluded path is not transferred; with a whitelist, a file
\* is only if included, while a directory always is.
Permits(p, isDir) ==
  /\ p \notin filter.exclude
  /\ filter.include = {} \/ isDir \/ p \in filter.include

NoFilter == [exclude |-> {}, include |-> {}]

\* What a filtered copy of a tree into an empty directory holds.
View(t) ==
  [p \in Paths |->
     IF \A q \in Above(p) \cup {p} : Permits(q, t[q] = Directory) THEN t[p] ELSE Nothing]

Members == DOMAIN pvcs
\* The subdirectories of the group's directory.  Listing one that is not there
\* fails; an empty list stands for that, as no restore is without targets.
ListDirectory == DOMAIN volume
IsBackup == direction = "backup"

Source == IF IsBackup THEN pvcs[member] ELSE volume[member]
\* The destination, which a first backup has yet to create.
Exists == ~IsBackup \/ member \in DOMAIN volume
Destination == IF ~IsBackup THEN pvcs[member]
               ELSE IF Exists THEN volume[member] ELSE EmptyTree

SetDestination(t) ==
  IF IsBackup
    THEN /\ volume' = [m \in DOMAIN volume \cup {member} |-> IF m = member THEN t ELSE volume[m]]
         /\ UNCHANGED pvcs
    ELSE pvcs' = [pvcs EXCEPT ![member] = t] /\ UNCHANGED volume

------------------------------------------------------------------------------

Init ==
  /\ volume = <<>>
  /\ pvcs = <<>>
  /\ direction = "backup"
  /\ filter = NoFilter
  /\ pc = "idle"
  /\ todo = {}
  /\ member \in PVCs
  /\ unvisited = {}

\* A group backup has resolved its members and frozen them, and executes.
StartBackup ==
  /\ pc = "idle"
  /\ \E members \in SUBSET PVCs \ {{}} : pvcs' \in [members -> WholeTrees]
  /\ filter' \in Filters
  /\ direction' = "backup"
  /\ todo' = DOMAIN pvcs'
  /\ pc' = "next"
  /\ UNCHANGED <<volume, member, unvisited>>

\* A group restore has resolved its targets, whatever is on them, and executes.
StartRestore ==
  /\ pc = "idle"
  /\ \E targets \in SUBSET PVCs \ {{}} : pvcs' \in [targets -> Trees]
  /\ filter' = NoFilter
  /\ direction' = "restore"
  /\ todo' = DOMAIN pvcs'
  /\ pc' = "verify"
  /\ UNCHANGED <<volume, member, unvisited>>

\* The directories on the DR volume are listed, and must be the targets.
VerifyOneToOneMapping ==
  /\ pc = "verify"
  /\ pc' = IF ListDirectory = Members THEN "next" ELSE "failed"
  /\ UNCHANGED <<volume, pvcs, direction, filter, todo, member, unvisited>>

\* The sync of some member begins.
StartSync ==
  /\ pc = "next"
  /\ member' \in todo
  /\ todo' = todo \ {member'}
  /\ pc' = "root"
  /\ UNCHANGED <<volume, pvcs, direction, filter, unvisited>>

\* The filter governs the root of the first walk as it does any path, though not
\* that of the copy: the whole destination goes, if the filter excludes ".".
RootIsPruned == Exists /\ ~Permits(Root, TRUE)

\* A destination that is there is walked, from its root; removing that may fail
\* half-way.  Only backups have filters.
WalkRoot ==
  /\ pc = "root"
  /\ \/ /\ ~RootIsPruned
        /\ pc' = "prune"
        /\ unvisited' = {p \in Paths : Destination[p] # Nothing}
        /\ UNCHANGED <<volume, pvcs>>
     \/ /\ RootIsPruned
        /\ pc' = "prune"
        /\ unvisited' = {}
        /\ volume' = [m \in DOMAIN volume \ {member} |-> volume[m]]
        /\ UNCHANGED pvcs
     \/ /\ RootIsPruned
        /\ \E gone \in SUBSET Paths :
             /\ \A q \in gone : Below(q) \subseteq gone
             /\ SetDestination([q \in Paths |-> IF q \in gone THEN Nothing ELSE Destination[q]])
        /\ pc' = "failed"
        /\ UNCHANGED unvisited
  /\ UNCHANGED <<direction, filter, todo, member>>

\* The walk is at p.
Visits(p) == p \in unvisited /\ Above(p) \cap unvisited = {}

\* Mutant: what the filter keeps out is looked for in the source only.
PrunesUnfiltered(p) == Source[p] = Nothing

\* Mutant: a file that differs makes room for the source's.
PrunesOutdated(p) == Source[p] # Destination[p] \/ ~Permits(p, Destination[p] = Directory)

\* deleteMissingFiles deletes p.
Prunes(p) == Source[p] = Nothing \/ ~Permits(p, Destination[p] = Directory)

\* What deleting p removes.
Removes(p) == Below(p)

\* Looking p up in the source fails, with an error other than that it does not
\* exist, when what is above it there is a file.
LookupFails(p) == \E q \in Above(p) : Source[q] \in Files

DeleteMissing ==
  /\ pc = "prune"
  /\ \E p \in unvisited :
       /\ Visits(p)
       /\ \/ /\ LookupFails(p)
             /\ pc' = "failed"
             /\ UNCHANGED <<volume, pvcs, unvisited>>
          \/ /\ ~LookupFails(p)
             /\ ~Prunes(p)
             /\ unvisited' = unvisited \ {p}
             /\ UNCHANGED <<volume, pvcs, pc>>
          \/ /\ ~LookupFails(p)
             /\ Prunes(p)
             /\ SetDestination([q \in Paths |-> IF q \in Removes(p) THEN Nothing ELSE Destination[q]])
             /\ unvisited' = unvisited \ Removes(p)
             /\ UNCHANGED pc
  /\ UNCHANGED <<direction, filter, todo, member>>

\* The deletion of a directory fails half-way through what is in it.
DeletionFails ==
  /\ pc = "prune"
  /\ \E p \in unvisited : \E gone \in SUBSET (Below(p) \ {p}) :
       /\ Visits(p)
       /\ ~LookupFails(p)
       /\ Prunes(p)
       /\ \A q \in gone : Below(q) \subseteq gone
       /\ SetDestination([q \in Paths |-> IF q \in gone THEN Nothing ELSE Destination[q]])
  /\ pc' = "failed"
  /\ UNCHANGED <<direction, filter, todo, member, unvisited>>

\* The walk over the destination is over: the copy begins, with the root.
Pruned ==
  /\ pc = "prune"
  /\ unvisited = {}
  /\ pc' = "copy"
  /\ unvisited' = {p \in Paths : Source[p] # Nothing}
  /\ SetDestination(Destination)
  /\ UNCHANGED <<direction, filter, todo, member>>

\* A directory cannot be made where there is a file, nor a file where there is
\* a directory.
Clashes(p) ==
  IF Source[p] = Directory THEN Destination[p] \in Files ELSE Destination[p] = Directory

\* Mutant: a file that is there already is not copied again.
CopyMissing ==
  /\ pc = "copy"
  /\ \E p \in unvisited :
       /\ Visits(p)
       /\ unvisited' = IF Permits(p, Source[p] = Directory) THEN unvisited \ {p}
                                                            ELSE unvisited \ Below(p)
       /\ IF Permits(p, Source[p] = Directory) /\ Destination[p] = Nothing
            THEN SetDestination([Destination EXCEPT ![p] = Source[p]])
            ELSE UNCHANGED <<volume, pvcs>>
  /\ UNCHANGED <<direction, filter, pc, todo, member>>

\* copyFiles is at p: it skips it with all below it, copies it, or fails to.
Copy ==
  /\ pc = "copy"
  /\ \E p \in unvisited :
       /\ Visits(p)
       /\ \/ /\ ~Permits(p, Source[p] = Directory)
             /\ unvisited' = unvisited \ Below(p)
             /\ UNCHANGED <<volume, pvcs, pc>>
          \/ /\ Permits(p, Source[p] = Directory)
             /\ ~Clashes(p)
             /\ SetDestination([Destination EXCEPT ![p] = Source[p]])
             /\ unvisited' = unvisited \ {p}
             /\ UNCHANGED pc
          \/ /\ Permits(p, Source[p] = Directory)
             /\ ~Clashes(p)
             /\ Source[p] \in Files
             /\ SetDestination([Destination EXCEPT ![p] = CutShort])
             /\ pc' = "failed"
             /\ UNCHANGED unvisited
          \/ /\ Permits(p, Source[p] = Directory)
             /\ Clashes(p)
             /\ pc' = "failed"
             /\ UNCHANGED <<volume, pvcs, unvisited>>
  /\ UNCHANGED <<direction, filter, todo, member>>

\* One member is synced: on to the next.
Copied ==
  /\ pc = "copy"
  /\ unvisited = {}
  /\ pc' = "next"
  /\ UNCHANGED <<volume, pvcs, direction, filter, todo, member, unvisited>>

Finish ==
  /\ pc = "next"
  /\ todo = {}
  /\ pc' = "done"
  /\ UNCHANGED <<volume, pvcs, direction, filter, todo, member, unvisited>>

\* Any other failure: a path cannot be read, the tool pod is gone.
Fails ==
  /\ pc \in {"verify", "next", "root", "prune", "copy"}
  /\ pc' = "failed"
  /\ UNCHANGED <<volume, pvcs, direction, filter, todo, member, unvisited>>

\* The event is over, and its clones are gone; the DR volume stays.
Return ==
  /\ pc \in {"done", "failed"}
  /\ pc' = "idle"
  /\ pvcs' = <<>>
  /\ filter' = NoFilter
  /\ todo' = {}
  /\ unvisited' = {}
  /\ direction' = "backup"
  /\ UNCHANGED <<volume, member>>

Next ==
  \/ StartBackup
  \/ StartRestore
  \/ VerifyOneToOneMapping
  \/ StartSync
  \/ WalkRoot
  \/ DeleteMissing
  \/ DeletionFails
  \/ Pruned
  \/ Copy
  \/ Copied
  \/ Finish
  \/ Fails
  \/ Return

Spec == Init /\ [][Next]_vars

------------------------------------------------------------------------------

\* The values the variables take; in particular what is below a path is there
\* only if that path is a directory.
TypeOK ==
  /\ DOMAIN volume \subseteq PVCs /\ \A m \in DOMAIN volume : volume[m] \in Trees
  /\ Members \subseteq PVCs /\ \A m \in Members : pvcs[m] \in Trees
  /\ direction \in {"backup", "restore"}
  /\ filter \in Filters
  /\ pc \in {"idle", "verify", "next", "root", "prune", "copy", "done", "failed"}
  /\ todo \subseteq Members
  /\ pc \in {"root", "prune", "copy"} => member \in Members \ todo
  /\ unvisited \subseteq Paths

\* A successful backup leaves in each member's directory what its filter lets
\* through of that member, whatever earlier backups, other filters and failed
\* syncs had left there; except that a directory which has become a file that
\* is filtered out stays, empty.
BackupIsFilteredView ==
  pc = "done" /\ IsBackup =>
    \A m \in Members : \A p \in Paths :
      \/ volume[m][p] = View(pvcs[m])[p]
      \/ /\ volume[m][p] = Directory
         /\ pvcs[m][p] \in Files
         /\ \A q \in Below(p) \ {p} : volume[m][q] = Nothing

\* A successful restore leaves on each target exactly what was captured of it,
\* whatever the target held, and has put back every captured member.
RestoreIsExact == pc = "done" /\ ~IsBackup => pvcs = volume

\* No sync, one that fails half-way included, deletes a file that it would copy:
\* an interrupted sync loses nothing that the source still has.  The exception is
\* the first step of one whose filter excludes ".": it removes everything that is
\* there, and if it is interrupted, what it has not yet copied again is lost.
NeverDeletesWhatItCopies ==
  [][(pc \in {"root", "prune", "copy"}) =>
       \/ pc = "root" /\ ~Permits(Root, TRUE)
       \/ \A p \in Paths :
            View(Source)[p] \in Files /\ Destination[p] \in Files => Destination'[p] \in Files]_vars

=============================================================================
