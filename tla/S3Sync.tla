------------------------------- MODULE S3Sync -------------------------------
(***************************************************************************)
(* LocalRuntime.Sync: mirroring a bucket's prefix into a directory of the  *)
(* DR volume (a backup), and such a directory into the bucket (a restore). *)
(*                                                                         *)
(* The application keeps writing to the bucket while it is backed up.  The *)
(* directory is that of an earlier backup, so a download meets the files   *)
(* earlier ones left there, whole or not.  When the bucket is versioned    *)
(* and the event has a consistency point, the download reconstructs the    *)
(* bucket as of that point, otherwise it takes what is there.              *)
(*                                                                         *)
(* Objects are listed page by page (here: key by key) and transferred in   *)
(* parallel; every request and every file operation may fail.  The         *)
(* application is quiet during a restore.                                  *)
(***************************************************************************)
EXTENDS Naturals, Sequences, FiniteSets, FiniteSetsExt

CONSTANTS
  Keys,       \* keys under the prefix, directory placeholders left out
  Above,      \* for each, those whose paths its own passes through: a is above a/b
  Sizes,      \* sizes of objects
  MaxTime,    \* bound on the clock, which ticks once per second
  MaxWrites   \* bound on the application's writes

ASSUME SyncAssumption ==
  /\ IsFiniteSet(Keys)
  /\ Above \in [Keys -> SUBSET Keys]
  /\ \A key \in Keys : key \notin Above[key] /\ \A a \in Above[key] : Above[a] \subseteq Above[key]
  /\ Sizes \subseteq Nat \ {0, 1}
  /\ MaxTime \in Nat \ {0} /\ MaxWrites \in Nat

VARIABLES
  log,        \* the bucket's object versions and delete markers, oldest first
  clock,
  versioned,  \* does the bucket report that versioning is enabled?
  files,      \* the directory: a function from the keys that have a file there,
  dirs,       \* and the keys that have a subdirectory at their path
  pc,         \* where the current sync is
  upload,     \* is it an upload?
  pinned,     \* does it reconstruct the bucket as of its consistency point?
  asOf,       \* if so, that point
  before,     \* the keys that had a file when it began
  unlisted,   \* the keys its listing has yet to reach
  objects,    \* the objects it has listed
  todo,       \* the keys it has yet to transfer
  failed      \* has one of its transfers failed?

bucketVars == <<log, clock, versioned>>
localVars == <<files, dirs>>
syncVars == <<pc, upload, asOf, pinned, before, unlisted, objects, todo, failed>>
vars == <<bucketVars, localVars, syncVars>>

NoPoint == 0
Deleted == 0       \* the size recorded for a delete marker
Partial == 0       \* the content of a file whose download was cut short, and
PartialSize == 1   \* its size, which is less than that of any object

File == [content : Nat, size : Nat, mtime : Nat]

\* A version's content is named by its number, unless it was uploaded by a sync.
Entry(key, size, content) == [key |-> key, size |-> size, content |-> content, time |-> clock]
Write(entry) == log' = Append(log, entry)

Entries(key) == {i \in DOMAIN log : log[i].key = key}
IsPresent(key) == Entries(key) # {} /\ log[Max(Entries(key))].size # Deleted

Object(key, id) == [key |-> key, id |-> id, size |-> log[id].size, time |-> log[id].time]

\* What listLatestObjects finds at a key.
LatestObject(key) == IF IsPresent(key) THEN {Object(key, Max(Entries(key)))} ELSE {}

\* Mutant: a version written at the point itself is left out.
EligibleStrictly(key, point) == {i \in Entries(key) : log[i].time < point}

\* The entries that were written by the point.
Eligible(key, point) == {i \in Entries(key) : log[i].time <= point}

\* What selectObjectsAsOf selects at a key: the newest entry by its timestamp, a
\* version before a delete marker with the same one.
ObjectAsOf(key, point) ==
  LET latest == {i \in Eligible(key, point) :
                   \A j \in Eligible(key, point) : log[j].time <= log[i].time}
      versions == {i \in latest : log[i].size # Deleted}
  IN IF versions = {} THEN {} ELSE {Object(key, Max(versions))}

------------------------------------------------------------------------------

Init ==
  /\ log = <<>>
  /\ clock = 1
  /\ versioned \in BOOLEAN
  /\ files = [key \in {} |-> Partial]
  /\ dirs = {}
  /\ pc = "idle"
  /\ upload = FALSE
  /\ asOf = NoPoint
  /\ pinned = FALSE
  /\ before = {}
  /\ unlisted = {}
  /\ objects = {}
  /\ todo = {}
  /\ failed = FALSE

Tick ==
  /\ clock < MaxTime
  /\ clock' = clock + 1
  /\ UNCHANGED <<log, versioned, localVars, syncVars>>

\* The application writes or deletes an object.
AppWrites ==
  /\ ~upload
  /\ Len(log) < MaxWrites
  /\ \E key \in Keys :
       \/ \E size \in Sizes : Write(Entry(key, size, Len(log) + 1))
       \/ IsPresent(key) /\ Write(Entry(key, Deleted, Partial))
  /\ UNCHANGED <<clock, versioned, localVars, syncVars>>

\* Whether a download reconstructs the bucket as of a point: there must be one,
\* and the bucket must say that it is versioned.  Failing to ask counts as a no.
Pins(point) == {FALSE, point # NoPoint /\ versioned}

\* A sync begins.  A download is handed its consistency point some time after
\* the stamp: the tool pod is created in between.
StartDownload ==
  /\ pc \in {"idle", "done", "failed"}
  /\ ~upload
  /\ \E point \in 0..(clock - 1) :
       /\ pinned' \in Pins(point)
       /\ asOf' = IF pinned' THEN point ELSE NoPoint
  /\ pc' = "list"
  /\ before' = DOMAIN files
  /\ unlisted' = Keys
  /\ objects' = {}
  /\ todo' = {}
  /\ failed' = FALSE
  /\ UNCHANGED <<bucketVars, localVars, upload>>

\* An upload takes no consistency point.  The directory is that of a backup.
StartUpload ==
  /\ \/ pc = "done"
     \/ pc = "failed" /\ upload
  /\ upload' = TRUE
  /\ asOf' = NoPoint
  /\ pinned' = FALSE
  /\ pc' = "list"
  /\ before' = DOMAIN files
  /\ unlisted' = Keys
  /\ objects' = {}
  /\ todo' = {}
  /\ failed' = FALSE
  /\ UNCHANGED <<bucketVars, localVars>>

\* The sync gives up with an error.
GivesUp(p) ==
  /\ pc = p
  /\ pc' = "failed"
  /\ unlisted' = {}
  /\ objects' = {}
  /\ UNCHANGED <<bucketVars, localVars, upload, asOf, pinned, before, todo, failed>>

\* One more page of the listing.
ListPage ==
  \/ /\ pc = "list"
     /\ \E key \in unlisted :
          /\ unlisted' = unlisted \ {key}
          /\ objects' = objects \cup (IF pinned THEN ObjectAsOf(key, asOf)
                                                ELSE LatestObject(key))
     /\ UNCHANGED <<bucketVars, localVars, pc, upload, asOf, pinned, before, todo, failed>>
  \/ unlisted # {} /\ GivesUp("list")

ListedKeys == {obj.key : obj \in objects}

\* The listing is complete: the transfers are started.
ListDone ==
  /\ pc = "list"
  /\ unlisted = {}
  /\ pc' = "transfer"
  /\ todo' = IF upload THEN DOMAIN files \cup ListedKeys ELSE ListedKeys
  /\ UNCHANGED <<bucketVars, localVars, upload, asOf, pinned, before, unlisted, objects, failed>>

\* The transfer of one key ends.
Transferred(key) ==
  /\ pc = "transfer"
  /\ todo' = todo \ {key}
  /\ UNCHANGED <<clock, versioned, pc, upload, asOf, pinned, before, unlisted, objects>>

TransferFails(key) == Transferred(key) /\ failed' = TRUE

\* A file is created, after the directories above it.
PutFile(key, f) ==
  /\ files' = [k \in DOMAIN files \cup {key} |-> IF k = key THEN f ELSE files[k]]
  /\ dirs' = dirs \cup Above[key]

\* Mutant: a version's content is fetched by its key alone.
FetchesLatest(obj) == IF IsPresent(obj.key) THEN {Max(Entries(obj.key))} ELSE {}

\* The version GetObject returns: the selected one, or else whichever is current
\* by now, if the object still exists.
Fetches(obj) ==
  IF pinned THEN {obj.id}
  ELSE IF IsPresent(obj.key) THEN {Max(Entries(obj.key))} ELSE {}

\* Whatever is at the key's path is left as it is, a directory too, and that is
\* not an error: it is up to date, or else the error of having found it, which is
\* none, is what is returned.
IsThere(key) == key \in DOMAIN files \cup dirs

\* Nothing can be looked up or made below a file.
HasRoom(key) == ~IsThere(key) /\ Above[key] \cap DOMAIN files = {}

\* downloadObject.
DownloadObject ==
  /\ ~upload
  /\ \E obj \in objects :
       /\ obj.key \in todo
       /\ \/ /\ IsThere(obj.key)
             /\ Transferred(obj.key)
             /\ UNCHANGED <<localVars, failed>>
          \/ /\ HasRoom(obj.key)
             /\ \E id \in Fetches(obj) :
                  PutFile(obj.key, [content |-> log[id].content, size |-> log[id].size,
                                    mtime |-> obj.time])
             /\ Transferred(obj.key)
             /\ UNCHANGED failed
          \/ TransferFails(obj.key) /\ UNCHANGED localVars
          \/ \* Some directories are made, but not the file.
             /\ HasRoom(obj.key)
             /\ TransferFails(obj.key)
             /\ \E made \in SUBSET Above[obj.key] :
                  /\ \A a \in made : Above[a] \subseteq made
                  /\ dirs' = dirs \cup made
             /\ UNCHANGED files
          \/ \* The copy is cut short, or setting the file's time fails.
             /\ HasRoom(obj.key)
             /\ TransferFails(obj.key)
             /\ \E id \in Fetches(obj) :
                  \/ PutFile(obj.key, [content |-> Partial, size |-> PartialSize,
                                       mtime |-> clock])
                  \/ PutFile(obj.key, [content |-> log[id].content, size |-> log[id].size,
                                       mtime |-> clock])
  /\ UNCHANGED log

\* Mutant: the prune follows failed transfers as well.
DownloadsDoneRegardless ==
  /\ pc = "transfer"
  /\ ~upload
  /\ todo = {}
  /\ pc' = "prune"
  /\ UNCHANGED <<bucketVars, localVars, upload, asOf, pinned, before, unlisted, objects, todo, failed>>

\* All transfers have ended; one that failed is the sync's error.
DownloadsDone ==
  /\ pc = "transfer"
  /\ ~upload
  /\ todo = {}
  /\ pc' = IF failed THEN "failed" ELSE "prune"
  /\ UNCHANGED <<bucketVars, localVars, upload, asOf, pinned, before, unlisted, objects, todo, failed>>

\* removeExtraneousLocalFiles: every file that was not listed is removed, and no
\* directory; the first that cannot be ends the sync with an error.
Prune ==
  /\ pc = "prune"
  /\ \E gone \in SUBSET (DOMAIN files \ ListedKeys) :
       /\ files' = [key \in DOMAIN files \ gone |-> files[key]]
       /\ pc' = IF gone = DOMAIN files \ ListedKeys THEN "done" ELSE "failed"
  /\ UNCHANGED <<bucketVars, dirs, upload, asOf, pinned, before, unlisted, objects, todo, failed>>

\* The file is taken to be what the bucket holds already.
UpToDate(key) ==
  \E obj \in objects :
    obj.key = key /\ obj.size = files[key].size /\ files[key].mtime <= obj.time

\* Mutant: objects without a file are left in the bucket.
UploadObjectOnly ==
  /\ upload
  /\ \E key \in todo :
       \/ /\ Transferred(key)
          /\ IF key \in DOMAIN files /\ ~UpToDate(key)
               THEN Write(Entry(key, files[key].size, files[key].content))
               ELSE UNCHANGED log
          /\ UNCHANGED failed
       \/ TransferFails(key) /\ UNCHANGED log
  /\ UNCHANGED localVars

\* upload: each file that is not up to date is uploaded, and each object that has
\* no file is deleted.
UploadObject ==
  /\ upload
  /\ \E key \in todo :
       \/ /\ Transferred(key)
          /\ \/ /\ key \in DOMAIN files
                /\ ~UpToDate(key)
                /\ Write(Entry(key, files[key].size, files[key].content))
             \/ /\ key \in DOMAIN files
                /\ UpToDate(key)
                /\ UNCHANGED log
             \/ /\ key \notin DOMAIN files
                /\ Write(Entry(key, Deleted, Partial))
          /\ UNCHANGED failed
       \/ TransferFails(key) /\ UNCHANGED log
  /\ UNCHANGED localVars

UploadsDone ==
  /\ pc = "transfer"
  /\ upload
  /\ todo = {}
  /\ pc' = IF failed THEN "failed" ELSE "done"
  /\ UNCHANGED <<bucketVars, localVars, upload, asOf, pinned, before, unlisted, objects, todo, failed>>

Next ==
  \/ Tick
  \/ AppWrites
  \/ StartDownload
  \/ StartUpload
  \/ ListPage
  \/ ListDone
  \/ DownloadObject
  \/ DownloadsDone
  \/ Prune
  \/ UploadObject
  \/ UploadsDone

Spec == Init /\ [][Next]_vars

------------------------------------------------------------------------------

\* The values the variables take.  What is still to be transferred is known to
\* one side or the other, and only the application and a restore write versions.
TypeOK ==
  /\ log \in Seq([key : Keys, size : Sizes \cup {Deleted, PartialSize}, content : Nat, time : 1..MaxTime])
  /\ \A i, j \in DOMAIN log : i < j => log[i].time <= log[j].time
  /\ clock \in 1..MaxTime
  /\ versioned \in BOOLEAN /\ upload \in BOOLEAN /\ failed \in BOOLEAN
  /\ DOMAIN files \subseteq Keys /\ dirs \subseteq Keys /\ DOMAIN files \cap dirs = {}
  /\ \A key \in DOMAIN files \cup dirs : Above[key] \subseteq dirs
  /\ \A key \in DOMAIN files : files[key] \in File
  /\ pc \in {"idle", "list", "transfer", "prune", "done", "failed"}
  /\ asOf \in 0..MaxTime
  /\ pinned => versioned /\ asOf # NoPoint /\ asOf < clock
  /\ before \subseteq Keys /\ unlisted \subseteq Keys
  /\ objects \subseteq [key : Keys, id : DOMAIN log, size : Sizes \cup {PartialSize}, time : 1..MaxTime]
  /\ todo \subseteq ListedKeys \cup DOMAIN files

ListedAsOf(key) == ObjectAsOf(key, asOf) # {}

\* What is selected as of a past instant is what the bucket held at the end of
\* that second, except that an object deleted in the very second it was last
\* written in is taken to be there.
AsOfIsWhatWasHeld ==
  \A key \in Keys : \A point \in 1..(clock - 1) :
    LET past == {i \in Entries(key) : log[i].time <= point}
        last == Max(past)
        lastVersion == {i \in past : log[i].size # Deleted /\ log[i].time = log[last].time}
    IN ObjectAsOf(key, point) =
         IF past = {} THEN {}
         ELSE IF log[last].size # Deleted THEN {Object(key, last)}
         ELSE IF lastVersion # {} THEN {Object(key, Max(lastVersion))} ELSE {}

\* A successful download as of a point leaves exactly the files of the objects
\* there were at that point, whatever the application wrote while the bucket was
\* listed and fetched; each file that was not there before has the content its
\* object had at that point.  The exception: an object has no file if there is a
\* directory at its path, made for a key below it by this download or an earlier.
PinnedDownloadIsExact ==
  pc = "done" /\ ~upload /\ pinned =>
    /\ DOMAIN files = {key \in Keys : ListedAsOf(key)} \ dirs
    /\ \A key \in DOMAIN files \ before :
         \E obj \in ObjectAsOf(key, asOf) : files[key].content = log[obj.id].content

\* A download one of whose transfers failed has removed no file of the backup
\* that was on the volume before it.
FailedDownloadKeepsFiles ==
  ~upload /\ failed => before \subseteq DOMAIN files

\* A successful restore leaves exactly the objects that have a file, each with
\* the file's content unless the object was there, of the file's size and no
\* older than it: an object lost or changed in size since the backup comes back.
RestoreIsExact ==
  pc = "done" /\ upload =>
    /\ {key \in Keys : IsPresent(key)} = DOMAIN files
    /\ \A key \in DOMAIN files :
         \/ log[Max(Entries(key))].content = files[key].content
         \/ \E obj \in objects : /\ obj.key = key
                                 /\ obj.size = files[key].size
                                 /\ obj.time >= files[key].mtime

\* What the comment of Sync says of a download: the directory becomes an exact
\* mirror, changed objects being transferred.  A changed object's file is kept.
DownloadIsExactMirror ==
  pc = "done" /\ ~upload /\ pinned =>
    \A key \in DOMAIN files :
      \E obj \in ObjectAsOf(key, asOf) : files[key].content = log[obj.id].content

=============================================================================
