---------------------------- MODULE S3SyncProofs ----------------------------
(***************************************************************************)
(* Proofs about S3Sync, for any keys, sizes, clock and number of writes:   *)
(* what is selected as of a point is what was held, a pinned download has  *)
(* exactly that, a failed one has removed nothing, and a restore is exact. *)
(***************************************************************************)
EXTENDS S3Sync, WellFoundedInduction, FiniteSetTheorems, TLAPS

\* A set of positions in a sequence has a largest.
LEMMA MaxExists ==
  ASSUME NEW n \in Nat, NEW S \in SUBSET (1..n), S # {}
  PROVE  Max(S) \in S /\ \A y \in S : Max(S) >= y
  <1> DEFINE UpTo == {1..k : k \in 0..n}
             Bounds == {B \in UpTo : S \subseteq B}
             Less == StrictSubsetOrdering(Nat)
  <1>1. Bounds \subseteq FiniteSubsetsOf(Nat)
    <2>1. \A k \in 0..n : 1..k \in SUBSET Nat /\ IsFiniteSet(1..k)
      BY FS_Interval
    <2> QED
      BY <2>1 DEF FiniteSubsetsOf
  <1>2. 1..n \in Bounds
    OBVIOUS
  <1>3. PICK B \in Bounds : \A C \in Bounds : <<C, B>> \notin Less
    <2>1. Bounds # {}
      BY <1>2
    <2>2. IsWellFoundedOn(Less, FiniteSubsetsOf(Nat))
      BY FS_StrictSubsetOrderingWellFounded
    <2> HIDE DEF Bounds, Less
    <2> QED
      BY <1>1, <2>1, <2>2, WFMin
  <1>4. PICK k \in 0..n : B = 1..k
    OBVIOUS
  <1>5. S \subseteq 1..k /\ k >= 1
    <2>1. S \subseteq 1..k
      BY <1>3, <1>4
    <2>2. PICK x \in S : x \in 1..k
      BY <2>1
    <2> QED
      BY <2>1, <2>2
  <1>6. k \in S
    <2> SUFFICES ASSUME k \notin S PROVE FALSE
      OBVIOUS
    <2>1. S \subseteq 1..(k - 1) /\ k - 1 \in 0..n
      BY <1>5
    <2>2. 1..(k - 1) \in Bounds
      BY <2>1
    <2>3. <<1..(k - 1), B>> \in Less
      <3>1. 1..(k - 1) \in SUBSET Nat /\ B \in SUBSET Nat
        BY <1>4, <2>1
      <3>2. 1..(k - 1) \subseteq B /\ 1..(k - 1) # B
        BY <1>4, <1>5
      <3> QED
        BY <3>1, <3>2 DEF StrictSubsetOrdering
    <2> QED
      BY <1>3, <2>2, <2>3
  <1>7. \A y \in S : k >= y
    BY <1>5
  <1>8. \E x \in S : \A y \in S : x >= y
    BY <1>6, <1>7
  <1> QED
    BY <1>8, Zenon DEF Max

-----------------------------------------------------------------------------
\* The log.

Versions == [key : Keys, size : Sizes \cup {Deleted, PartialSize}, content : Nat, time : 1..MaxTime]

\* Versions are in the order in which they were written, none of them in the future.
LogInv ==
  /\ log \in Seq(Versions)
  /\ clock \in 1..MaxTime
  /\ \A i, j \in 1..Len(log) : i < j => log[i].time <= log[j].time
  /\ \A i \in 1..Len(log) : log[i].time <= clock

\* The steps that leave the log alone, or add one version to it.
Logs(entry) == entry \in Versions /\ entry.time = clock /\ Write(entry)

LEMMA EntriesAre ==
  ASSUME LogInv, NEW key
  PROVE  /\ Entries(key) = {i \in 1..Len(log) : log[i].key = key}
         /\ Entries(key) # {} =>
              Max(Entries(key)) \in Entries(key) /\ \A i \in Entries(key) : Max(Entries(key)) >= i
  <1>1. Entries(key) = {i \in 1..Len(log) : log[i].key = key} /\ Len(log) \in Nat
    BY DEF Entries, LogInv
  <1> QED
    BY <1>1, MaxExists

\* A version that is written is the last of its key, and the others stay as they are.
LEMMA WrittenIsLast ==
  ASSUME LogInv, NEW entry, Logs(entry)
  PROVE  /\ log' \in Seq(Versions) /\ Len(log') = Len(log) + 1
         /\ \A i \in 1..Len(log) : log'[i] = log[i]
         /\ log'[Len(log) + 1] = entry
         /\ \A key : key # entry.key => Entries(key)' = Entries(key)
         /\ Entries(entry.key)' = Entries(entry.key) \cup {Len(log) + 1}
         /\ Max(Entries(entry.key)') = Len(log) + 1
  <1>1. /\ log' = Append(log, entry) /\ log \in Seq(Versions) /\ Len(log) \in Nat
        /\ entry \in Versions
    BY DEF Logs, Write, LogInv
  <1>2. /\ log' \in Seq(Versions) /\ Len(log') = Len(log) + 1
        /\ \A i \in 1..Len(log) : log'[i] = log[i]
        /\ log'[Len(log) + 1] = entry
    BY <1>1
  <1>3. \A key : /\ Entries(key) = {i \in 1..Len(log) : log[i].key = key}
                 /\ Entries(key)' = {i \in 1..Len(log) + 1 : log'[i].key = key}
    BY <1>1, <1>2 DEF Entries
  <1>4. ASSUME NEW key, key # entry.key
        PROVE  Entries(key)' = Entries(key)
    <2>1. \A i : i \in Entries(key)' <=> i \in Entries(key)
      BY <1>1, <1>2, <1>3, <1>4
    <2> QED
      BY <1>3, <2>1
  <1>5. Entries(entry.key)' = Entries(entry.key) \cup {Len(log) + 1}
    BY <1>1, <1>2, <1>3
  <1>6. Max(Entries(entry.key)') = Len(log) + 1
    <2> DEFINE S == Entries(entry.key)'
               n == Len(log) + 1
    <2>1. n \in Nat /\ S \in SUBSET (1..n) /\ S # {} /\ n \in S
      BY <1>1, <1>3, <1>5
    <2>2. \A y \in S : y \in 1..n
      BY <2>1
    <2> HIDE DEF S, n
    <2>3. Max(S) \in S /\ \A y \in S : Max(S) >= y
      BY <2>1, MaxExists
    <2>4. Max(S) \in 1..n
      BY <2>2, <2>3, Zenon
    <2>5. Max(S) >= n
      BY <2>1, <2>3, Zenon
    <2>6. Max(S) = n
      BY <2>1, <2>4, <2>5
    <2> QED
      BY <2>6 DEF S, n
  <1> QED
    BY <1>2, <1>4, <1>5, <1>6

LEMMA LogStaysInOrder ==
  ASSUME LogInv, NEW entry, Logs(entry), UNCHANGED clock
  PROVE  LogInv'
  <1>1. entry.time = clock /\ Len(log) \in Nat
    BY DEF Logs, LogInv
  <1> QED
    BY <1>1, WrittenIsLast DEF LogInv

\* What is current at a key does not change with a version of another key.
LEMMA OthersStay ==
  ASSUME LogInv, NEW entry, Logs(entry), NEW key, key # entry.key
  PROVE  /\ IsPresent(key)' = IsPresent(key)
         /\ IsPresent(key) => log'[Max(Entries(key)')] = log[Max(Entries(key))]
         /\ LatestObject(key)' = LatestObject(key)
  <1>1. Entries(key)' = Entries(key) /\ \A i \in 1..Len(log) : log'[i] = log[i]
    BY WrittenIsLast
  <1>2. Entries(key) # {} => Max(Entries(key)) \in 1..Len(log)
    BY EntriesAre
  <1>3. Entries(key) # {} => log'[Max(Entries(key)')] = log[Max(Entries(key))]
    BY <1>1, <1>2
  <1>4. IsPresent(key)' = IsPresent(key)
    BY <1>1, <1>3 DEF IsPresent
  <1>5. IsPresent(key) => Object(key, Max(Entries(key)))' = Object(key, Max(Entries(key)))
    BY <1>1, <1>2 DEF IsPresent, Object
  <1> QED
    BY <1>3, <1>4, <1>5 DEF IsPresent, LatestObject

-----------------------------------------------------------------------------
\* Types.

\* The directory: what a file holds, how large it is, and that it is below directories.
FilesInv ==
  /\ DOMAIN files \subseteq Keys /\ dirs \subseteq Keys /\ DOMAIN files \cap dirs = {}
  /\ \A key \in DOMAIN files \cup dirs : Above[key] \subseteq dirs
  /\ \A key \in DOMAIN files : files[key] \in File /\ files[key].size \in Sizes \cup {PartialSize}

\* What was listed is in the log.
Listing == [key : Keys, id : 1..Len(log), size : Sizes \cup {PartialSize}, time : 1..MaxTime]

ObjectsInv ==
  /\ objects \subseteq Listing
  /\ \A obj \in objects : log[obj.id].key = obj.key /\ log[obj.id].size # Deleted

SyncInv ==
  /\ versioned \in BOOLEAN /\ upload \in BOOLEAN /\ failed \in BOOLEAN
  /\ pc \in {"idle", "list", "transfer", "prune", "done", "failed"}
  /\ asOf \in 0..MaxTime
  /\ pinned => versioned /\ asOf # NoPoint /\ asOf < clock
  /\ before \subseteq Keys /\ unlisted \subseteq Keys
  /\ todo \subseteq ListedKeys \cup DOMAIN files
  /\ pc # "transfer" => todo = {}

TypeInv == LogInv /\ FilesInv /\ ObjectsInv /\ SyncInv

LEMMA TypesAreRight == TypeInv => TypeOK
  <1> SUFFICES ASSUME TypeInv PROVE TypeOK
    OBVIOUS
  <1>1. DOMAIN log = 1..Len(log) /\ Len(log) \in Nat
    BY DEF TypeInv, LogInv
  <1>2. objects \subseteq [key : Keys, id : DOMAIN log, size : Sizes \cup {PartialSize}, time : 1..MaxTime]
    BY <1>1 DEF TypeInv, ObjectsInv, Listing
  <1>3. \A i, j \in DOMAIN log : i < j => log[i].time <= log[j].time
    BY <1>1 DEF TypeInv, LogInv
  <1>4. log \in Seq([key : Keys, size : Sizes \cup {Deleted, PartialSize}, content : Nat, time : 1..MaxTime])
    BY DEF TypeInv, LogInv, Versions
  <1>5. /\ DOMAIN files \subseteq Keys /\ \A key \in DOMAIN files : files[key] \in File
        /\ dirs \subseteq Keys /\ DOMAIN files \cap dirs = {}
        /\ \A key \in DOMAIN files \cup dirs : Above[key] \subseteq dirs
    BY DEF TypeInv, FilesInv
  <1> QED
    BY <1>2, <1>3, <1>4, <1>5 DEF TypeOK, TypeInv, LogInv, SyncInv

\* What a listing finds at a key is in the log, is of that key, and is no delete marker.
LEMMA FoundObjects ==
  ASSUME LogInv, NEW key \in Keys, NEW id \in 1..Len(log), log[id].key = key, log[id].size # Deleted
  PROVE  Object(key, id) \in Listing
  <1>1. log[id] \in Versions
    BY DEF LogInv
  <1> QED
    BY <1>1 DEF Versions, Object, Listing

Latest(key, point) ==
  {i \in Eligible(key, point) : \A j \in Eligible(key, point) : log[j].time <= log[i].time}

Candidates(key, point) == {i \in Latest(key, point) : log[i].size # Deleted}

LEMMA CandidatesAre ==
  ASSUME LogInv, NEW key, NEW point
  PROVE  /\ Candidates(key, point) \subseteq Eligible(key, point)
         /\ Eligible(key, point) \subseteq Entries(key)
         /\ Entries(key) \subseteq 1..Len(log)
         /\ Candidates(key, point) # {} =>
              /\ Max(Candidates(key, point)) \in Candidates(key, point)
              /\ \A i \in Candidates(key, point) : Max(Candidates(key, point)) >= i
         /\ ObjectAsOf(key, point) =
              IF Candidates(key, point) = {} THEN {} ELSE {Object(key, Max(Candidates(key, point)))}
  <1>1. /\ Candidates(key, point) \subseteq Eligible(key, point)
        /\ Eligible(key, point) \subseteq Entries(key)
        /\ Entries(key) \subseteq 1..Len(log)
        /\ Len(log) \in Nat
    BY EntriesAre DEF Candidates, Latest, Eligible, LogInv
  <1>2. Candidates(key, point) # {} =>
          /\ Max(Candidates(key, point)) \in Candidates(key, point)
          /\ \A i \in Candidates(key, point) : Max(Candidates(key, point)) >= i
    BY <1>1, MaxExists
  <1>3. ObjectAsOf(key, point) =
          IF Candidates(key, point) = {} THEN {} ELSE {Object(key, Max(Candidates(key, point)))}
    BY DEF ObjectAsOf, Candidates, Latest
  <1> QED
    BY <1>1, <1>2, <1>3

LEMMA FoundAsOf ==
  ASSUME LogInv, NEW key \in Keys, NEW point, NEW obj \in ObjectAsOf(key, point)
  PROVE  obj \in Listing /\ obj.key = key /\ log[obj.id].key = key /\ log[obj.id].size # Deleted
  <1> DEFINE id == Max(Candidates(key, point))
  <1>1. id \in Candidates(key, point) /\ obj = Object(key, id)
    BY CandidatesAre
  <1>2. id \in 1..Len(log) /\ log[id].key = key /\ log[id].size # Deleted
    BY <1>1, CandidatesAre, EntriesAre DEF Candidates
  <1> HIDE DEF id
  <1>3. Object(key, id) \in Listing
    BY <1>2, FoundObjects
  <1>4. obj.key = key /\ obj.id = id
    BY <1>1 DEF Object
  <1> QED
    BY <1>1, <1>2, <1>3, <1>4

LEMMA FoundLatest ==
  ASSUME LogInv, NEW key \in Keys, NEW obj \in LatestObject(key)
  PROVE  obj \in Listing /\ obj.key = key /\ log[obj.id].key = key /\ log[obj.id].size # Deleted
  <1> DEFINE id == Max(Entries(key))
  <1>1. IsPresent(key) /\ obj = Object(key, id)
    BY DEF LatestObject
  <1>2. id \in 1..Len(log) /\ log[id].key = key /\ log[id].size # Deleted
    BY <1>1, EntriesAre DEF IsPresent
  <1> HIDE DEF id
  <1>3. Object(key, id) \in Listing
    BY <1>2, FoundObjects
  <1>4. obj.key = key /\ obj.id = id
    BY <1>1 DEF Object
  <1> QED
    BY <1>1, <1>2, <1>3, <1>4

\* The log changes by a version at the current time, if at all.
LEMMA UploadLogs ==
  ASSUME TypeInv, UploadObject
  PROVE  UNCHANGED log \/ \E entry : Logs(entry)
  <1>1. PICK key \in todo :
          \/ key \in DOMAIN files /\ Write(Entry(key, files[key].size, files[key].content))
          \/ key \notin DOMAIN files /\ Write(Entry(key, Deleted, Partial))
          \/ UNCHANGED log
    BY DEF UploadObject
  <1>2. key \in Keys
    BY DEF TypeInv, SyncInv, ObjectsInv, FilesInv, ListedKeys, Listing
  <1>3. CASE key \in DOMAIN files /\ Write(Entry(key, files[key].size, files[key].content))
    <2>1. files[key].size \in Sizes \cup {PartialSize} /\ files[key].content \in Nat
      BY <1>3 DEF TypeInv, FilesInv, File
    <2>2. Entry(key, files[key].size, files[key].content) \in Versions
      BY <1>2, <2>1 DEF Entry, Versions, TypeInv, LogInv
    <2>3. Entry(key, files[key].size, files[key].content).time = clock
      BY DEF Entry
    <2> QED
      BY <1>3, <2>2, <2>3 DEF Logs
  <1>4. CASE Write(Entry(key, Deleted, Partial))
    <2>1. Entry(key, Deleted, Partial) \in Versions /\ Entry(key, Deleted, Partial).time = clock
      BY <1>2 DEF Entry, Versions, Partial, TypeInv, LogInv
    <2> QED
      BY <1>4, <2>1 DEF Logs
  <1> QED
    BY <1>1, <1>3, <1>4

LEMMA AppLogs ==
  ASSUME TypeInv, AppWrites
  PROVE  \E entry : Logs(entry)
  <1>1. PICK key \in Keys :
          \/ \E size \in Sizes : Write(Entry(key, size, Len(log) + 1))
          \/ Write(Entry(key, Deleted, Partial))
    BY DEF AppWrites
  <1>2. Len(log) + 1 \in Nat
    BY DEF TypeInv, LogInv
  <1>3. ASSUME NEW size \in Sizes
        PROVE  Entry(key, size, Len(log) + 1) \in Versions /\ Entry(key, size, Len(log) + 1).time = clock
    BY <1>2 DEF Entry, Versions, TypeInv, LogInv
  <1>4. Entry(key, Deleted, Partial) \in Versions /\ Entry(key, Deleted, Partial).time = clock
    BY DEF Entry, Versions, Partial, TypeInv, LogInv
  <1> QED
    BY <1>1, <1>3, <1>4 DEF Logs

\* The steps of a sync that leave the bucket alone.
Quiet ==
  \/ StartDownload \/ StartUpload \/ ListPage \/ ListDone \/ DownloadObject \/ DownloadsDone
  \/ Prune \/ UploadsDone

LEMMA QuietSteps == Quiet => UNCHANGED <<log, clock>>
  BY DEF Quiet, StartDownload, StartUpload, ListPage, GivesUp, ListDone, DownloadObject,
    Transferred, TransferFails, DownloadsDone, Prune, UploadsDone, bucketVars, localVars

LEMMA LogSteps ==
  TypeInv /\ [Next]_vars =>
    \/ UNCHANGED <<log, clock>>
    \/ UNCHANGED log /\ clock' = clock + 1 /\ clock < MaxTime
    \/ UNCHANGED clock /\ \E entry : Logs(entry)
  <1> SUFFICES ASSUME TypeInv, [Next]_vars
               PROVE  \/ UNCHANGED <<log, clock>>
                      \/ UNCHANGED log /\ clock' = clock + 1 /\ clock < MaxTime
                      \/ UNCHANGED clock /\ \E entry : Logs(entry)
    OBVIOUS
  <1>1. CASE Tick
    BY <1>1 DEF Tick
  <1>2. CASE AppWrites
    BY <1>2, AppLogs DEF AppWrites
  <1>3. CASE UploadObject
    <2>1. UNCHANGED clock
      BY <1>3 DEF UploadObject, Transferred, TransferFails
    <2> QED
      BY <1>3, <2>1, UploadLogs
  <1>4. CASE Quiet
    BY <1>4, QuietSteps
  <1>5. CASE UNCHANGED vars
    BY <1>5 DEF vars, bucketVars, localVars
  <1> QED
    BY <1>1, <1>2, <1>3, <1>4, <1>5 DEF Next, Quiet

LEMMA LogStep == TypeInv /\ [Next]_vars => LogInv'
  <1> SUFFICES ASSUME TypeInv, [Next]_vars PROVE LogInv'
    OBVIOUS
  <1>1. LogInv
    BY DEF TypeInv
  <1>2. CASE UNCHANGED <<log, clock>>
    BY <1>1, <1>2 DEF LogInv
  <1>3. CASE UNCHANGED log /\ clock' = clock + 1 /\ clock < MaxTime
    <2>1. clock' \in 1..MaxTime /\ clock \in Nat
      BY <1>1, <1>3, SyncAssumption DEF LogInv
    <2>2. \A i \in 1..Len(log) : log[i].time \in Nat
      <3>1. \A i \in 1..Len(log) : log[i] \in Versions
        BY <1>1 DEF LogInv
      <3> QED
        BY <3>1 DEF Versions
    <2> QED
      BY <1>1, <1>3, <2>1, <2>2 DEF LogInv
  <1>4. CASE UNCHANGED clock /\ \E entry : Logs(entry)
    BY <1>1, <1>4, LogStaysInOrder
  <1> QED
    BY <1>2, <1>3, <1>4, LogSteps

\* What was found in the log is still there.
LEMMA LogKeepsEntries ==
  TypeInv /\ [Next]_vars =>
    /\ Len(log') \in Nat /\ Len(log) \in Nat /\ Len(log) <= Len(log')
    /\ \A i \in 1..Len(log) : log'[i] = log[i]
  <1> SUFFICES ASSUME TypeInv, [Next]_vars
               PROVE  /\ Len(log') \in Nat /\ Len(log) \in Nat /\ Len(log) <= Len(log')
                      /\ \A i \in 1..Len(log) : log'[i] = log[i]
    OBVIOUS
  <1>1. LogInv /\ Len(log) \in Nat
    BY DEF TypeInv, LogInv
  <1>2. CASE UNCHANGED log
    BY <1>1, <1>2
  <1>3. CASE \E entry : Logs(entry)
    BY <1>1, <1>3, WrittenIsLast
  <1> QED
    BY <1>2, <1>3, LogSteps

\* A fetched version has a size that a file may have, and its content.
LEMMA FetchedAre ==
  ASSUME TypeInv, NEW obj \in objects, NEW id \in Fetches(obj)
  PROVE  log[id].content \in Nat /\ log[id].size \in Sizes \cup {PartialSize}
  <1>1. id \in 1..Len(log) /\ log[id].size # Deleted
    <2>1. CASE pinned
      BY <2>1 DEF Fetches, TypeInv, ObjectsInv, Listing
    <2>2. CASE ~pinned
      <3>1. IsPresent(obj.key) /\ id = Max(Entries(obj.key))
        BY <2>2 DEF Fetches
      <3> QED
        BY <3>1, EntriesAre DEF IsPresent, TypeInv
    <2> QED
      BY <2>1, <2>2
  <1>2. log[id] \in Versions
    BY <1>1 DEF TypeInv, LogInv
  <1> QED
    BY <1>1, <1>2 DEF Versions

\* What a download puts on the volume: a file where there was nothing, of a listed object;
\* or only directories that are to be above it.
Puts(obj, f) ==
  /\ HasRoom(obj.key) /\ PutFile(obj.key, f)
  /\ f \in File /\ f.size \in Sizes \cup {PartialSize}

Makes(obj, made) ==
  /\ HasRoom(obj.key) /\ made \subseteq Above[obj.key]
  /\ \A a \in made : Above[a] \subseteq made
  /\ dirs' = dirs \cup made
  /\ UNCHANGED files

LEMMA DownloadPuts ==
  ASSUME TypeInv, DownloadObject
  PROVE  \E obj \in objects :
           /\ obj.key \in todo /\ pc = "transfer"
           /\ UNCHANGED localVars \/ (\E f : Puts(obj, f)) \/ \E made : Makes(obj, made)
  <1>1. PICK obj \in objects :
          /\ obj.key \in todo /\ pc = "transfer"
          /\ \/ UNCHANGED localVars
             \/ \E made : Makes(obj, made)
             \/ /\ HasRoom(obj.key)
                /\ \E id \in Fetches(obj) : \E mtime \in {obj.time, clock} :
                     \/ PutFile(obj.key, [content |-> log[id].content, size |-> log[id].size,
                                          mtime |-> mtime])
                     \/ PutFile(obj.key, [content |-> Partial, size |-> PartialSize,
                                          mtime |-> mtime])
    BY DEF DownloadObject, Transferred, TransferFails, Makes
  <1>2. ASSUME NEW id \in Fetches(obj), NEW mtime \in {obj.time, clock}
        PROVE  /\ [content |-> log[id].content, size |-> log[id].size, mtime |-> mtime] \in File
               /\ [content |-> Partial, size |-> PartialSize, mtime |-> mtime] \in File
    <2>1. obj.time \in Nat /\ clock \in Nat
      BY DEF TypeInv, ObjectsInv, Listing, LogInv
    <2>2. log[id].content \in Nat /\ log[id].size \in Nat
      <3>1. log[id].content \in Nat /\ log[id].size \in Sizes \cup {PartialSize}
        BY FetchedAre
      <3>2. Sizes \subseteq Nat /\ PartialSize \in Nat
        BY SyncAssumption DEF PartialSize
      <3> QED
        BY <3>1, <3>2
    <2> QED
      BY <2>1, <2>2 DEF File, Partial, PartialSize
  <1>3. \A id \in Fetches(obj) : log[id].size \in Sizes \cup {PartialSize}
    BY FetchedAre
  <1>4. CASE UNCHANGED localVars \/ \E made : Makes(obj, made)
    BY <1>1, <1>4
  <1>5. ASSUME NEW id \in Fetches(obj), NEW mtime \in {obj.time, clock},
               HasRoom(obj.key),
               PutFile(obj.key, [content |-> log[id].content, size |-> log[id].size,
                                 mtime |-> mtime])
        PROVE  \E f : Puts(obj, f)
    <2> DEFINE f == [content |-> log[id].content, size |-> log[id].size, mtime |-> mtime]
    <2>1. f \in File
      BY <1>2
    <2>2. f.size \in Sizes \cup {PartialSize}
      BY <1>3
    <2>3. HasRoom(obj.key) /\ PutFile(obj.key, f)
      BY <1>5
    <2> HIDE DEF f
    <2> QED
      BY <2>1, <2>2, <2>3 DEF Puts
  <1>6. ASSUME NEW id \in Fetches(obj), NEW mtime \in {obj.time, clock},
               HasRoom(obj.key),
               PutFile(obj.key, [content |-> Partial, size |-> PartialSize, mtime |-> mtime])
        PROVE  \E f : Puts(obj, f)
    <2> DEFINE f == [content |-> Partial, size |-> PartialSize, mtime |-> mtime]
    <2>1. f \in File
      BY <1>2
    <2>2. f.size \in Sizes \cup {PartialSize}
      OBVIOUS
    <2>3. HasRoom(obj.key) /\ PutFile(obj.key, f)
      BY <1>6
    <2> HIDE DEF f
    <2> QED
      BY <2>1, <2>2, <2>3 DEF Puts
  <1> QED
    BY <1>1, <1>4, <1>5, <1>6

\* The steps of a sync that leave the directory alone.
LEMMA FilesSteps ==
  [Next]_vars => DownloadObject \/ Prune \/ UNCHANGED localVars
  BY DEF Next, vars, localVars, Tick, AppWrites, StartDownload, StartUpload, ListPage, GivesUp, ListDone,
    DownloadsDone, UploadObject, UploadsDone

LEMMA FilesStep == TypeInv /\ [Next]_vars => FilesInv'
  <1> SUFFICES ASSUME TypeInv, [Next]_vars PROVE FilesInv'
    OBVIOUS
  <1>0. FilesInv
    BY DEF TypeInv
  <1>1. CASE UNCHANGED localVars
    BY <1>0, <1>1 DEF FilesInv, localVars
  <1>2. CASE DownloadObject
    <2>1. PICK obj \in objects :
            UNCHANGED localVars \/ (\E f : Puts(obj, f)) \/ \E made : Makes(obj, made)
      BY <1>2, DownloadPuts
    <2>2. /\ obj.key \in Keys
          /\ Above[obj.key] \subseteq Keys /\ obj.key \notin Above[obj.key]
          /\ \A a \in Above[obj.key] : Above[a] \subseteq Above[obj.key]
      BY SyncAssumption DEF TypeInv, ObjectsInv, Listing
    <2>3. ASSUME NEW f, Puts(obj, f) PROVE FilesInv'
      <3>1. /\ obj.key \notin DOMAIN files \cup dirs /\ Above[obj.key] \cap DOMAIN files = {}
            /\ DOMAIN files' = DOMAIN files \cup {obj.key}
            /\ files'[obj.key] = f /\ \A key \in DOMAIN files : files'[key] = files[key]
            /\ dirs' = dirs \cup Above[obj.key]
        BY <2>3 DEF Puts, PutFile, HasRoom, IsThere
      <3>2. DOMAIN files' \cap dirs' = {}
        BY <1>0, <2>2, <3>1 DEF FilesInv
      <3>3. \A key \in DOMAIN files' \cup dirs' : Above[key] \subseteq dirs'
        BY <1>0, <2>2, <3>1 DEF FilesInv
      <3> QED
        BY <1>0, <2>2, <2>3, <3>1, <3>2, <3>3 DEF FilesInv, Puts
    <2>4. ASSUME NEW made, Makes(obj, made) PROVE FilesInv'
      <3>1. /\ Above[obj.key] \cap DOMAIN files = {} /\ made \subseteq Above[obj.key]
            /\ \A a \in made : Above[a] \subseteq made
            /\ dirs' = dirs \cup made /\ files' = files
        BY <2>4 DEF Makes, HasRoom
      <3> QED
        BY <1>0, <2>2, <3>1 DEF FilesInv
    <2> QED
      BY <1>1, <2>1, <2>3, <2>4
  <1>3. CASE Prune
    <2>1. PICK gone \in SUBSET (DOMAIN files \ ListedKeys) :
            files' = [key \in DOMAIN files \ gone |-> files[key]]
      BY <1>3 DEF Prune
    <2>2. dirs' = dirs
      BY <1>3 DEF Prune
    <2> QED
      BY <1>0, <2>1, <2>2 DEF FilesInv
  <1> QED
    BY <1>1, <1>2, <1>3, FilesSteps

LEMMA ObjectsSteps ==
  [Next]_vars => ListPage \/ UNCHANGED objects \/ objects' = {}
  BY DEF Next, vars, syncVars, Tick, AppWrites, StartDownload, StartUpload, ListDone,
    DownloadObject, Transferred, TransferFails, DownloadsDone, Prune, UploadObject, UploadsDone

LEMMA ObjectsStep == TypeInv /\ [Next]_vars => ObjectsInv'
  <1> SUFFICES ASSUME TypeInv, [Next]_vars PROVE ObjectsInv'
    OBVIOUS
  <1>0. ObjectsInv /\ LogInv
    BY DEF TypeInv
  <1>1. CASE UNCHANGED objects
    <2>1. Listing \subseteq Listing'
      BY LogKeepsEntries DEF Listing
    <2> QED
      BY <1>0, <1>1, <2>1, LogKeepsEntries DEF ObjectsInv, Listing
  <1>2. CASE objects' = {}
    BY <1>2 DEF ObjectsInv
  <1>3. CASE ListPage
    <2>1. UNCHANGED log
      BY <1>3, QuietSteps DEF Quiet
    <2>2. CASE objects' = {}
      BY <2>2 DEF ObjectsInv
    <2>3. CASE \E key \in unlisted :
                 objects' = objects \cup (IF pinned THEN ObjectAsOf(key, asOf) ELSE LatestObject(key))
      <3>1. PICK key \in unlisted :
              objects' = objects \cup (IF pinned THEN ObjectAsOf(key, asOf) ELSE LatestObject(key))
        BY <2>3
      <3>2. key \in Keys
        BY DEF TypeInv, SyncInv
      <3>3. ASSUME NEW obj \in objects'
            PROVE  obj \in Listing /\ log[obj.id].key = obj.key /\ log[obj.id].size # Deleted
        BY <1>0, <3>1, <3>2, <3>3, FoundAsOf, FoundLatest DEF ObjectsInv
      <3> QED
        BY <2>1, <3>3 DEF ObjectsInv, Listing
    <2> QED
      BY <1>3, <2>2, <2>3 DEF ListPage, GivesUp
  <1> QED
    BY <1>1, <1>2, <1>3, ObjectsSteps

LEMMA SyncStep == TypeInv /\ [Next]_vars => SyncInv'
  <1> SUFFICES ASSUME TypeInv, [Next]_vars PROVE SyncInv'
    OBVIOUS
  <1>0. /\ SyncInv /\ MaxTime \in Nat /\ clock \in 1..MaxTime
        /\ clock' \in 1..MaxTime /\ clock <= clock'
        /\ ListedKeys \subseteq Keys /\ DOMAIN files \subseteq Keys
    <2>1. clock' \in 1..MaxTime
      BY LogStep DEF LogInv
    <2>2. clock \in 1..MaxTime /\ clock <= clock'
      BY LogSteps DEF TypeInv, LogInv
    <2> QED
      BY <2>1, <2>2, SyncAssumption DEF TypeInv, ObjectsInv, FilesInv, ListedKeys, Listing
  <1>1. CASE Tick \/ UNCHANGED vars \/ AppWrites
    BY <1>0, <1>1 DEF Tick, AppWrites, SyncInv, ListedKeys, vars, bucketVars, localVars, syncVars
  <1>2. CASE StartDownload
    <2>1. failed' = FALSE /\ failed' \in BOOLEAN
      BY <1>2, Zenon DEF StartDownload
    <2>2. PICK point \in 0..(clock - 1) :
            pinned' \in Pins(point) /\ asOf' = IF pinned' THEN point ELSE NoPoint
      BY <1>2 DEF StartDownload
    <2>5. UNCHANGED <<clock, versioned, upload>>
      BY <1>2 DEF StartDownload, bucketVars
    <2>6. pinned' => versioned' /\ asOf' # NoPoint /\ asOf' < clock'
      <3>1. pinned' => versioned /\ point # NoPoint
        BY <2>2, Zenon DEF Pins
      <3>2. pinned' => asOf' = point
        BY <2>2
      <3> QED
        BY <1>0, <2>2, <2>5, <3>1, <3>2
    <2>7. asOf' \in {point, NoPoint}
      BY <2>2
    <2>3. versioned' \in BOOLEAN /\ upload' \in BOOLEAN /\ asOf' \in 0..MaxTime
      BY <1>0, <2>2, <2>5, <2>7 DEF SyncInv, NoPoint
    <2>4. before' \subseteq Keys /\ unlisted' \subseteq Keys /\ todo' = {} /\ pc' = "list"
      BY <1>0, <1>2 DEF StartDownload
    <2> QED
      BY <2>1, <2>3, <2>4, <2>6 DEF SyncInv
  <1>3. CASE StartUpload
    <2>1. failed' \in BOOLEAN /\ upload' \in BOOLEAN /\ pinned' = FALSE
      BY <1>3, Zenon DEF StartUpload
    <2>2. versioned' \in BOOLEAN /\ asOf' \in 0..MaxTime
      BY <1>0, <1>3 DEF StartUpload, SyncInv, bucketVars, localVars, NoPoint
    <2>3. before' \subseteq Keys /\ unlisted' \subseteq Keys /\ todo' = {} /\ pc' = "list"
      BY <1>0, <1>3 DEF StartUpload
    <2> QED
      BY <2>1, <2>2, <2>3 DEF SyncInv
  <1>4. CASE ListPage
    BY <1>0, <1>4 DEF ListPage, GivesUp, SyncInv, ListedKeys, bucketVars, localVars
  <1>5. CASE ListDone
    BY <1>0, <1>5 DEF ListDone, SyncInv, ListedKeys, bucketVars, localVars
  <1>6. CASE DownloadObject
    <2>1. DOMAIN files \subseteq DOMAIN files'
      <3>1. UNCHANGED localVars \/ (\E obj, f : Puts(obj, f)) \/ \E obj, made : Makes(obj, made)
        BY <1>6, DownloadPuts
      <3> QED
        BY <3>1 DEF Puts, PutFile, Makes, localVars
    <2>2. /\ UNCHANGED <<clock, versioned, pc, upload, asOf, pinned, before, unlisted, objects>>
          /\ todo' \subseteq todo /\ failed' \in {failed, TRUE} /\ pc = "transfer"
      BY <1>6 DEF DownloadObject, Transferred, TransferFails
    <2>3. todo' \subseteq ListedKeys \cup DOMAIN files' /\ ListedKeys' = ListedKeys
      BY <1>0, <2>1, <2>2 DEF SyncInv, ListedKeys
    <2> QED
      BY <1>0, <2>2, <2>3 DEF SyncInv
  <1>7. CASE DownloadsDone \/ UploadsDone
    BY <1>0, <1>7 DEF DownloadsDone, UploadsDone, SyncInv, ListedKeys, bucketVars, localVars
  <1>8. CASE Prune
    <2>1. todo = {} /\ todo' = {} /\ pc' \in {"done", "failed"}
      BY <1>0, <1>8 DEF Prune, SyncInv
    <2> QED
      BY <1>0, <1>8, <2>1 DEF Prune, SyncInv, bucketVars, localVars
  <1>9. CASE UploadObject
    <2>1. /\ UNCHANGED <<clock, versioned, pc, upload, asOf, pinned, before, unlisted, objects, localVars>>
          /\ todo' \subseteq todo /\ failed' \in {failed, TRUE} /\ pc = "transfer"
      BY <1>9 DEF UploadObject, Transferred, TransferFails
    <2> QED
      BY <1>0, <2>1 DEF SyncInv, ListedKeys, localVars
  <1> QED
    BY <1>1, <1>2, <1>3, <1>4, <1>5, <1>6, <1>7, <1>8, <1>9 DEF Next

LEMMA TypesAtInit == Init => TypeInv
  <1> SUFFICES ASSUME Init PROVE TypeInv
    OBVIOUS
  <1>1. LogInv
    BY SyncAssumption DEF Init, LogInv
  <1>2. FilesInv /\ ObjectsInv
    BY DEF Init, FilesInv, ObjectsInv
  <1>3. SyncInv
    <2>1. versioned \in BOOLEAN /\ upload \in BOOLEAN /\ failed \in BOOLEAN /\ pinned = FALSE
      BY Zenon DEF Init
    <2>2. asOf \in 0..MaxTime
      BY SyncAssumption DEF Init, NoPoint
    <2>3. pc = "idle" /\ before = {} /\ unlisted = {} /\ todo = {}
      BY DEF Init
    <2> QED
      BY <2>1, <2>2, <2>3 DEF SyncInv
  <1> QED
    BY <1>1, <1>2, <1>3 DEF TypeInv

LEMMA TypesAlways == Spec => []TypeInv
  <1>1. TypeInv /\ [Next]_vars => TypeInv'
    BY LogStep, FilesStep, ObjectsStep, SyncStep DEF TypeInv
  <1> QED
    BY <1>1, TypesAtInit, PTL DEF Spec

\* The log, the directory and the sync are what they should be.
THEOREM TypeCorrectness == Spec => []TypeOK
  BY TypesAreRight, TypesAlways, PTL

-----------------------------------------------------------------------------
\* A failed download.

\* Nothing is removed before all transfers have ended well.
KeepInv ==
  ~upload =>
    /\ pc \in {"idle", "list", "transfer"} \/ failed => before \subseteq DOMAIN files
    /\ pc \in {"prune", "done"} => ~failed

LEMMA KeepStep == TypeInv /\ KeepInv /\ [Next]_vars => KeepInv'
  <1> SUFFICES ASSUME TypeInv, KeepInv, [Next]_vars PROVE KeepInv'
    OBVIOUS
  <1>0. failed \in BOOLEAN /\ upload \in BOOLEAN
    BY DEF TypeInv, SyncInv
  <1>1. CASE Tick \/ UNCHANGED vars \/ AppWrites
    BY <1>1 DEF Tick, AppWrites, KeepInv, vars, bucketVars, localVars, syncVars
  <1>2. CASE StartDownload \/ StartUpload
    BY <1>2 DEF StartDownload, StartUpload, KeepInv, bucketVars, localVars
  <1>3. CASE ListPage \/ ListDone
    BY <1>3 DEF ListPage, GivesUp, ListDone, KeepInv, bucketVars, localVars
  <1>4. CASE DownloadObject
    <2>1. UNCHANGED localVars \/ (\E obj, f : Puts(obj, f)) \/ \E obj, made : Makes(obj, made)
      BY <1>4, DownloadPuts
    <2>2. DOMAIN files \subseteq DOMAIN files'
      BY <2>1 DEF Puts, PutFile, Makes, localVars
    <2>3. UNCHANGED <<pc, upload, before>> /\ pc = "transfer"
      BY <1>4 DEF DownloadObject, Transferred, TransferFails
    <2> QED
      BY <2>2, <2>3 DEF KeepInv
  <1>5. CASE DownloadsDone \/ UploadsDone
    BY <1>0, <1>5 DEF DownloadsDone, UploadsDone, KeepInv, bucketVars, localVars
  <1>6. CASE Prune
    BY <1>0, <1>6 DEF Prune, KeepInv, bucketVars, localVars
  <1>7. CASE UploadObject
    BY <1>7 DEF UploadObject, Transferred, TransferFails, KeepInv
  <1> QED
    BY <1>1, <1>2, <1>3, <1>4, <1>5, <1>6, <1>7 DEF Next

\* A download one of whose transfers failed has removed no file that was on the
\* volume before it.
THEOREM FailuresRemoveNothing == Spec => []FailedDownloadKeepsFiles
  <1>1. Init => KeepInv
    BY DEF Init, KeepInv
  <1>2. KeepInv => FailedDownloadKeepsFiles
    BY DEF KeepInv, FailedDownloadKeepsFiles
  <1> QED
    BY <1>1, <1>2, KeepStep, TypesAlways, PTL DEF Spec

-----------------------------------------------------------------------------
\* What is selected as of a point.

\* The entries written by a point of time are the log's first ones.
LEMMA EligibleAre ==
  ASSUME LogInv, NEW key, NEW point \in Nat
  PROVE  /\ Eligible(key, point) = {i \in Entries(key) : log[i].time <= point}
         /\ Eligible(key, point) \subseteq 1..Len(log)
         /\ Eligible(key, point) # {} =>
              /\ Max(Eligible(key, point)) \in Eligible(key, point)
              /\ \A i \in Eligible(key, point) : i <= Max(Eligible(key, point))
  <1>1. Eligible(key, point) \in SUBSET (1..Len(log)) /\ Len(log) \in Nat
    BY EntriesAre DEF Eligible, LogInv
  <1>2. Eligible(key, point) # {} =>
          /\ Max(Eligible(key, point)) \in Eligible(key, point)
          /\ \A i \in Eligible(key, point) : Max(Eligible(key, point)) >= i
    BY <1>1, MaxExists
  <1>3. Eligible(key, point) # {} => Max(Eligible(key, point)) \in 1..Len(log)
    BY <1>1, <1>2
  <1> QED
    BY <1>1, <1>2, <1>3 DEF Eligible

\* The last of them has the newest timestamp.
LEMMA LatestAre ==
  ASSUME LogInv, NEW key, NEW point \in Nat, Eligible(key, point) # {}
  PROVE  LET last == Max(Eligible(key, point))
         IN Latest(key, point) = {i \in Eligible(key, point) : log[i].time = log[last].time}
  <1> DEFINE last == Max(Eligible(key, point))
  <1>1. /\ last \in Eligible(key, point) /\ Eligible(key, point) \subseteq 1..Len(log)
        /\ \A i \in Eligible(key, point) : i <= last
    BY EligibleAre
  <1> HIDE DEF last
  <1>2. \A i \in 1..Len(log) : log[i].time \in Nat
    <2>1. \A i \in 1..Len(log) : log[i] \in Versions
      BY DEF LogInv
    <2> QED
      BY <2>1 DEF Versions
  <1>3. \A i \in Eligible(key, point) : log[i].time <= log[last].time
    <2> TAKE i \in Eligible(key, point)
    <2>1. i \in 1..Len(log) /\ last \in 1..Len(log) /\ i <= last
      BY <1>1
    <2>2. CASE i = last
      BY <1>2, <2>1, <2>2
    <2>3. CASE i < last
      BY <2>1, <2>3 DEF LogInv
    <2> QED
      BY <2>1, <2>2, <2>3
  <1>4. \A i : i \in Latest(key, point)
                 <=> i \in {j \in Eligible(key, point) : log[j].time = log[last].time}
    <2>1. \A i \in Eligible(key, point) : log[i].time \in Nat
      BY <1>1, <1>2
    <2> QED
      BY <1>1, <1>3, <2>1 DEF Latest
  <1>5. Latest(key, point) = {j \in Eligible(key, point) : log[j].time = log[last].time}
    BY <1>4
  <1> QED
    BY <1>5 DEF last

LEMMA SelectsWhatWasHeld == TypeInv => AsOfIsWhatWasHeld
  <1> SUFFICES ASSUME TypeInv, NEW key \in Keys, NEW point \in 1..(clock - 1)
               PROVE  LET past == {i \in Entries(key) : log[i].time <= point}
                          last == Max(past)
                          lastVersion == {i \in past : log[i].size # Deleted
                                                       /\ log[i].time = log[last].time}
                      IN ObjectAsOf(key, point) =
                           IF past = {} THEN {}
                           ELSE IF log[last].size # Deleted THEN {Object(key, last)}
                           ELSE IF lastVersion # {} THEN {Object(key, Max(lastVersion))} ELSE {}
    BY DEF AsOfIsWhatWasHeld
  <1> DEFINE past == {i \in Entries(key) : log[i].time <= point}
             last == Max(past)
             lastVersion == {i \in past : log[i].size # Deleted /\ log[i].time = log[last].time}
  <1>1. LogInv /\ point \in Nat
    BY DEF TypeInv, LogInv
  <1>2. past = Eligible(key, point)
    BY DEF Eligible
  <1> HIDE DEF past
  <1>3. CASE past = {}
    <2>1. Candidates(key, point) = {}
      BY <1>2, <1>3 DEF Candidates, Latest
    <2>2. ObjectAsOf(key, point) = {}
      BY <1>1, <2>1, CandidatesAre
    <2> QED
      BY <1>3, <2>2 DEF past
  <1>4. CASE past # {}
    <2>1. /\ last \in past /\ past \subseteq 1..Len(log)
          /\ \A i \in past : i <= last
      BY <1>1, <1>2, <1>4, EligibleAre
    <2>2. Candidates(key, point) = lastVersion
      <3>1. Latest(key, point) = {i \in past : log[i].time = log[last].time}
        BY <1>1, <1>2, <1>4, LatestAre
      <3> QED
        BY <3>1 DEF Candidates
    <2>3. ObjectAsOf(key, point) =
            IF lastVersion = {} THEN {} ELSE {Object(key, Max(lastVersion))}
      BY <1>1, <2>2, CandidatesAre
    <2>4. ASSUME log[last].size # Deleted
          PROVE  lastVersion # {} /\ Max(lastVersion) = last
      <3>1. last \in lastVersion
        BY <2>1, <2>4
      <3>2. Max(lastVersion) \in lastVersion /\ \A i \in lastVersion : Max(lastVersion) >= i
        BY <1>1, <2>2, <3>1, CandidatesAre
      <3>3. Max(lastVersion) \in past
        BY <3>2
      <3>4. Max(lastVersion) >= last /\ Max(lastVersion) <= last
        BY <2>1, <3>1, <3>2, <3>3
      <3>5. Max(lastVersion) \in 1..Len(log) /\ last \in 1..Len(log)
        BY <2>1, <3>3
      <3> HIDE DEF lastVersion, last
      <3>6. Max(lastVersion) = last
        BY <3>4, <3>5
      <3> QED
        BY <3>1, <3>6
    <2> HIDE DEF lastVersion, last
    <2>5. ObjectAsOf(key, point) =
            IF log[last].size # Deleted THEN {Object(key, last)}
            ELSE IF lastVersion # {} THEN {Object(key, Max(lastVersion))} ELSE {}
      BY <2>3, <2>4
    <2> QED
      BY <1>4, <2>5 DEF past, last, lastVersion
  <1> QED
    BY <1>3, <1>4

\* What is selected as of a past instant is what the bucket held at the end of
\* that second, except for an object deleted in the second it was last written in.
THEOREM AsOfIsRight == Spec => []AsOfIsWhatWasHeld
  BY SelectsWhatWasHeld, TypesAlways, PTL

-----------------------------------------------------------------------------
\* A pinned download.

\* What is selected as of a past instant does not change with what is written later.
LEMMA AsOfStays ==
  ASSUME TypeInv, [Next]_vars, NEW key, NEW point \in Nat, point < clock
  PROVE  ObjectAsOf(key, point)' = ObjectAsOf(key, point)
  <1>0. LogInv /\ Len(log) \in Nat
    BY DEF TypeInv, LogInv
  <1>1. CASE UNCHANGED log
    BY <1>1 DEF ObjectAsOf, Eligible, Entries, Object
  <1>2. CASE \E entry : Logs(entry)
    <2>1. PICK entry : Logs(entry)
      BY <1>2
    <2> DEFINE n == Len(log) + 1
    <2>2. /\ \A i \in 1..Len(log) : log'[i] = log[i]
          /\ log'[n] = entry
          /\ Entries(key)' = Entries(key) \/ Entries(key)' = Entries(key) \cup {n}
      BY <1>0, <2>1, WrittenIsLast
    <2>3. entry.time = clock /\ clock \in Nat
      BY <1>0, <2>1 DEF Logs, LogInv
    <2>4. Entries(key) \subseteq 1..Len(log)
      BY <1>0, EntriesAre
    <2>5. Eligible(key, point)' = Eligible(key, point)
      <3>1. \A i : i \in Eligible(key, point)' <=> i \in Eligible(key, point)
        BY <2>2, <2>3, <2>4 DEF Eligible
      <3> QED
        BY <3>1 DEF Eligible
    <2>6. Eligible(key, point) \subseteq 1..Len(log)
      BY <2>4 DEF Eligible
    <2>7. Latest(key, point)' = Latest(key, point)
      BY <2>2, <2>5, <2>6 DEF Latest
    <2>8. Candidates(key, point)' = Candidates(key, point)
      BY <2>2, <2>6, <2>7 DEF Candidates, Latest
    <2>9. /\ ObjectAsOf(key, point) =
               IF Candidates(key, point) = {} THEN {} ELSE {Object(key, Max(Candidates(key, point)))}
          /\ Candidates(key, point) # {} => Max(Candidates(key, point)) \in 1..Len(log)
      BY <1>0, CandidatesAre
    <2>10. ObjectAsOf(key, point)' =
             IF Candidates(key, point)' = {} THEN {}
             ELSE {Object(key, Max(Candidates(key, point)))'}
      BY <2>8 DEF ObjectAsOf, Candidates, Latest
    <2>11. Candidates(key, point) # {} =>
             Object(key, Max(Candidates(key, point)))' = Object(key, Max(Candidates(key, point)))
      BY <2>2, <2>8, <2>9 DEF Object
    <2> QED
      BY <2>8, <2>9, <2>10, <2>11
  <1> QED
    BY <1>1, <1>2, LogSteps

Selected(keys) == UNION {ObjectAsOf(key, asOf) : key \in keys}

\* What was to be transferred and has been is on the volume, or a directory is in its
\* place; with the content of what was listed if it was not there before.
GotThem ==
  /\ ListedKeys \ todo \subseteq DOMAIN files \cup dirs
  /\ \A key \in DOMAIN files \ before :
       \E obj \in objects : obj.key = key /\ files[key].content = log[obj.id].content

\* How far a pinned download is.
PinnedInv ==
  ~upload /\ pinned =>
    /\ pc \in {"list", "transfer", "prune", "done"} => objects = Selected(Keys \ unlisted)
    /\ pc \in {"transfer", "prune", "done"} => unlisted = {}
    /\ pc = "list" => DOMAIN files = before
    /\ pc = "transfer" /\ ~failed => GotThem
    /\ pc \in {"prune", "done"} => GotThem
    /\ pc = "done" => DOMAIN files \subseteq ListedKeys

LEMMA SelectedStays ==
  ASSUME TypeInv, [Next]_vars, pinned, UNCHANGED asOf, NEW keys
  PROVE  Selected(keys)' = Selected(keys)
  <1>1. asOf \in Nat /\ asOf < clock
    BY DEF TypeInv, SyncInv
  <1>2. \A key : ObjectAsOf(key, asOf)' = ObjectAsOf(key, asOf)
    <2> TAKE key
    <2>1. PICK point \in Nat : point = asOf
      BY <1>1
    <2>2. ObjectAsOf(key, point)' = ObjectAsOf(key, point)
      BY <1>1, <2>1, AsOfStays
    <2>3. point = asOf'
      BY <2>1
    <2> QED
      BY <2>1, <2>2, <2>3
  <1> QED
    BY <1>2 DEF Selected

\* Whatever happens to the bucket, what was fetched is what was listed.
LEMMA GotStays ==
  ASSUME TypeInv, [Next]_vars, GotThem, UNCHANGED <<localVars, before, objects, todo>>
  PROVE  GotThem'
  <1>1. \A obj \in objects : log'[obj.id] = log[obj.id]
    BY LogKeepsEntries DEF TypeInv, ObjectsInv, Listing
  <1>2. ListedKeys' = ListedKeys
    BY DEF ListedKeys
  <1> QED
    BY <1>1, <1>2 DEF GotThem, localVars

\* A step of the bucket.
LEMMA PinnedBucketStep ==
  ASSUME TypeInv, PinnedInv, [Next]_vars, UNCHANGED <<localVars, syncVars>>
  PROVE  PinnedInv'
  <1> SUFFICES ASSUME ~upload, pinned PROVE PinnedInv'
    BY DEF PinnedInv, syncVars
  <1>1. Selected(Keys \ unlisted)' = Selected(Keys \ unlisted)
    <2>1. UNCHANGED <<asOf, unlisted>>
      BY DEF syncVars
    <2>2. PICK keys : keys = Keys \ unlisted
      OBVIOUS
    <2>3. Selected(keys)' = Selected(keys)
      BY <2>1, SelectedStays
    <2> QED
      BY <2>1, <2>2, <2>3
  <1>2. GotThem => GotThem'
    BY GotStays DEF syncVars
  <1> QED
    BY <1>1, <1>2 DEF PinnedInv, ListedKeys, syncVars, localVars

LEMMA PinnedDownloads ==
  ASSUME TypeInv, PinnedInv, DownloadObject
  PROVE  PinnedInv'
  <1> SUFFICES ASSUME ~upload, pinned PROVE PinnedInv'
    BY DEF PinnedInv, DownloadObject, Transferred, TransferFails
  <1>1. PICK obj \in objects :
          /\ obj.key \in todo
          /\ \/ /\ IsThere(obj.key)
                /\ Transferred(obj.key)
                /\ UNCHANGED localVars
             \/ /\ HasRoom(obj.key)
                /\ \E size, mtime : PutFile(obj.key, [content |-> log[obj.id].content, size |-> size,
                                                      mtime |-> mtime])
                /\ Transferred(obj.key)
             \/ failed' = TRUE
    BY DEF DownloadObject, Fetches, TransferFails
  <1>2. /\ pc = "transfer" /\ UNCHANGED <<log, pc, upload, asOf, pinned, before, unlisted, objects>>
        /\ failed' \in {failed, TRUE} /\ failed \in BOOLEAN
    BY DEF DownloadObject, Transferred, TransferFails, TypeInv, SyncInv
  <1>3. ListedKeys' = ListedKeys /\ Selected(Keys \ unlisted)' = Selected(Keys \ unlisted)
    BY <1>2 DEF ListedKeys, Selected, ObjectAsOf, Eligible, Entries, Object
  <1>4. ASSUME ~failed' PROVE GotThem'
    <2>0. ~failed
      BY <1>4, Zenon DEF DownloadObject, Transferred, TransferFails
    <2>1. GotThem
      BY <1>2, <2>0 DEF PinnedInv
    <2>2. todo' = todo \ {obj.key}
      BY <1>1, <1>4 DEF Transferred
    <2>3. CASE IsThere(obj.key) /\ UNCHANGED localVars
      BY <1>2, <1>3, <2>1, <2>2, <2>3 DEF GotThem, IsThere, localVars
    <2>4. CASE /\ HasRoom(obj.key)
               /\ \E size, mtime : PutFile(obj.key, [content |-> log[obj.id].content, size |-> size,
                                                     mtime |-> mtime])
      <3>1. /\ DOMAIN files' = DOMAIN files \cup {obj.key}
            /\ files'[obj.key].content = log[obj.id].content
            /\ \A key \in DOMAIN files : files'[key] = files[key]
            /\ dirs \subseteq dirs'
        BY <2>4 DEF PutFile, HasRoom, IsThere
      <3> QED
        BY <1>2, <1>3, <2>1, <2>2, <3>1 DEF GotThem
    <2> QED
      BY <1>1, <1>4, <2>3, <2>4
  <1> QED
    BY <1>2, <1>3, <1>4 DEF PinnedInv

LEMMA PinnedPrunes ==
  ASSUME TypeInv, PinnedInv, Prune
  PROVE  PinnedInv'
  <1> SUFFICES ASSUME ~upload, pinned PROVE PinnedInv'
    BY DEF PinnedInv, Prune
  <1>1. PICK gone \in SUBSET (DOMAIN files \ ListedKeys) :
          /\ files' = [key \in DOMAIN files \ gone |-> files[key]]
          /\ pc' = IF gone = DOMAIN files \ ListedKeys THEN "done" ELSE "failed"
    BY DEF Prune
  <1>2. /\ pc = "prune"
        /\ UNCHANGED <<log, dirs, upload, asOf, pinned, before, unlisted, objects, todo, failed>>
    BY DEF Prune, bucketVars, localVars
  <1>3. ListedKeys' = ListedKeys /\ Selected(Keys \ unlisted)' = Selected(Keys \ unlisted)
    BY <1>2 DEF ListedKeys, Selected, ObjectAsOf, Eligible, Entries, Object
  <1>4. GotThem
    BY <1>2 DEF PinnedInv
  <1>5. GotThem'
    <2>1. /\ DOMAIN files' = DOMAIN files \ gone
          /\ \A key \in DOMAIN files' : files'[key] = files[key]
      BY <1>1
    <2>2. ListedKeys' \ todo' \subseteq DOMAIN files' \cup dirs'
      BY <1>1, <1>2, <1>3, <1>4, <2>1 DEF GotThem
    <2>3. \A key \in DOMAIN files' \ before :
            \E obj \in objects : obj.key = key /\ files'[key].content = log[obj.id].content
      BY <1>4, <2>1 DEF GotThem
    <2> QED
      BY <1>2, <2>2, <2>3 DEF GotThem
  <1>6. pc' = "done" => DOMAIN files' \subseteq ListedKeys
    BY <1>1
  <1>7. pc' \in {"done", "failed"}
    BY <1>1
  <1> QED
    BY <1>2, <1>3, <1>5, <1>6, <1>7 DEF PinnedInv

LEMMA PinnedStep == TypeInv /\ PinnedInv /\ [Next]_vars => PinnedInv'
  <1> SUFFICES ASSUME TypeInv, PinnedInv, [Next]_vars PROVE PinnedInv'
    OBVIOUS
  <1>0. upload \in BOOLEAN /\ failed \in BOOLEAN
    BY DEF TypeInv, SyncInv
  <1>1. CASE Tick \/ UNCHANGED vars \/ AppWrites
    <2>1. UNCHANGED <<localVars, syncVars>>
      BY <1>1 DEF Tick, AppWrites, vars
    <2> QED
      BY <2>1, PinnedBucketStep
  <1>2. CASE StartDownload
    <2>1. pc' = "list" /\ DOMAIN files' = before' /\ objects' = {} /\ Keys \ unlisted' = {}
      BY <1>2 DEF StartDownload, localVars
    <2>2. Selected(Keys \ unlisted)' = {}
      BY <2>1 DEF Selected
    <2> QED
      BY <2>1, <2>2 DEF PinnedInv
  <1>3. CASE StartUpload \/ UploadObject \/ UploadsDone
    <2>1. upload'
      BY <1>3 DEF StartUpload, UploadObject, UploadsDone, Transferred, TransferFails
    <2> QED
      BY <2>1 DEF PinnedInv
  <1>4. CASE ListPage
    <2>1. CASE GivesUp("list")
      BY <2>1 DEF GivesUp, PinnedInv
    <2>2. ASSUME NEW key \in unlisted, ~upload, pinned,
                 unlisted' = unlisted \ {key},
                 objects' = objects \cup ObjectAsOf(key, asOf),
                 UNCHANGED <<bucketVars, localVars, pc, upload, asOf, pinned, before, todo, failed>>,
                 pc = "list"
          PROVE  PinnedInv'
      <3>1. Keys \ unlisted' = (Keys \ unlisted) \cup {key}
        BY <2>2 DEF TypeInv, SyncInv
      <3>2. Selected(Keys \ unlisted)' = Selected(Keys \ unlisted) \cup ObjectAsOf(key, asOf)
        <4>1. \A k : ObjectAsOf(k, asOf)' = ObjectAsOf(k, asOf)
          BY <2>2 DEF ObjectAsOf, Eligible, Entries, Object, bucketVars, localVars
        <4> QED
          BY <3>1, <4>1 DEF Selected
      <3> QED
        BY <2>2, <3>2 DEF PinnedInv, localVars
    <2> QED
      BY <1>4, <2>1, <2>2 DEF ListPage, PinnedInv, localVars
  <1>5. CASE ListDone
    <2> SUFFICES ASSUME ~upload, pinned PROVE PinnedInv'
      BY <1>5 DEF PinnedInv, ListDone
    <2>1. /\ pc = "list" /\ pc' = "transfer" /\ unlisted = {} /\ todo' = ListedKeys
          /\ UNCHANGED <<log, localVars, upload, asOf, pinned, before, unlisted, objects, failed>>
      BY <1>5 DEF ListDone, bucketVars, localVars
    <2>2. ListedKeys' = ListedKeys /\ Selected(Keys \ unlisted)' = Selected(Keys \ unlisted)
      BY <2>1 DEF ListedKeys, Selected, ObjectAsOf, Eligible, Entries, Object
    <2>3. GotThem'
      BY <2>1, <2>2 DEF GotThem, PinnedInv, localVars
    <2> QED
      BY <2>1, <2>2, <2>3 DEF PinnedInv
  <1>6. CASE DownloadObject
    BY <1>6, PinnedDownloads
  <1>7. CASE DownloadsDone
    <2>1. /\ pc = "transfer" /\ pc' = IF failed THEN "failed" ELSE "prune"
          /\ UNCHANGED <<log, localVars, upload, asOf, pinned, before, unlisted, objects, todo, failed>>
      BY <1>7 DEF DownloadsDone, bucketVars, localVars
    <2>2. /\ ListedKeys' = ListedKeys /\ Selected(Keys \ unlisted)' = Selected(Keys \ unlisted)
          /\ GotThem' = GotThem
      BY <2>1 DEF ListedKeys, Selected, ObjectAsOf, Eligible, Entries, Object, GotThem, localVars
    <2> QED
      BY <1>0, <2>1, <2>2 DEF PinnedInv
  <1>8. CASE Prune
    BY <1>8, PinnedPrunes
  <1> QED
    BY <1>1, <1>2, <1>3, <1>4, <1>5, <1>6, <1>7, <1>8 DEF Next

LEMMA PinnedHasExactly == TypeInv /\ PinnedInv => PinnedDownloadIsExact
  <1> SUFFICES ASSUME TypeInv, PinnedInv, pc = "done", ~upload, pinned
               PROVE  /\ DOMAIN files = {key \in Keys : ListedAsOf(key)} \ dirs
                      /\ \A key \in DOMAIN files \ before :
                           \E obj \in ObjectAsOf(key, asOf) : files[key].content = log[obj.id].content
    BY DEF PinnedDownloadIsExact
  <1>1. objects = Selected(Keys) /\ GotThem /\ DOMAIN files \subseteq ListedKeys /\ todo = {}
    BY DEF PinnedInv, TypeInv, SyncInv
  <1>2. \A key \in Keys : \A obj \in ObjectAsOf(key, asOf) : obj.key = key
    BY FoundAsOf DEF TypeInv
  <1>3. \A obj \in objects : obj.key \in Keys /\ obj \in ObjectAsOf(obj.key, asOf)
    BY <1>1, <1>2 DEF Selected
  <1>4. \A key \in Keys : key \in ListedKeys <=> ListedAsOf(key)
    <2> TAKE key \in Keys
    <2>1. ASSUME ListedAsOf(key) PROVE key \in ListedKeys
      <3>1. PICK obj \in ObjectAsOf(key, asOf) : TRUE
        BY <2>1 DEF ListedAsOf
      <3>2. obj \in objects /\ obj.key = key
        BY <1>1, <1>2 DEF Selected
      <3> QED
        BY <3>2 DEF ListedKeys
    <2>2. ASSUME key \in ListedKeys PROVE ListedAsOf(key)
      BY <1>3, <2>2 DEF ListedKeys, ListedAsOf
    <2> QED
      BY <2>1, <2>2
  <1>5. ListedKeys \subseteq Keys /\ DOMAIN files = ListedKeys \ dirs
    BY <1>1, <1>3 DEF ListedKeys, GotThem, TypeInv, FilesInv
  <1> QED
    BY <1>1, <1>3, <1>4, <1>5 DEF GotThem

\* A successful download as of a point leaves exactly the files of the objects
\* there were at that point, whatever was written while the bucket was listed and
\* fetched, but for those with a directory at their path; each file that was not
\* there before has its object's content then.
THEOREM PinnedDownloadsAreExact == Spec => []PinnedDownloadIsExact
  <1>1. Init => PinnedInv
    BY DEF Init, PinnedInv
  <1> QED
    BY <1>1, PinnedStep, PinnedHasExactly, TypesAlways, PTL DEF Spec

-----------------------------------------------------------------------------
\* A restore.

\* The bucket has at the key what the directory has, or an object no older.
Exact(key) ==
  /\ IsPresent(key) <=> key \in DOMAIN files
  /\ key \in DOMAIN files =>
       \/ log[Max(Entries(key))].content = files[key].content
       \/ \E obj \in objects : /\ obj.key = key
                               /\ obj.size = files[key].size
                               /\ obj.time >= files[key].mtime

\* What was listed at the key is what is there.
AsListed(key) == {obj \in objects : obj.key = key} = LatestObject(key)

\* How far a restore is.  A key whose turn has not come is as it was listed.
RestoreInv ==
  upload =>
    /\ pc # "prune" /\ ~pinned
    /\ pc = "list" => objects = UNION {LatestObject(key) : key \in Keys \ unlisted}
    /\ pc = "transfer" => \A key \in Keys : \/ key \in todo /\ AsListed(key)
                                            \/ key \notin todo /\ (failed \/ Exact(key))
    /\ pc = "done" => \A key \in Keys : Exact(key)

\* The version that a restore writes is one of the log's.
LEMMA EntryLogs ==
  ASSUME TypeInv, NEW key \in Keys, NEW size \in Sizes \cup {Deleted, PartialSize}, NEW content \in Nat,
         Write(Entry(key, size, content))
  PROVE  /\ Logs(Entry(key, size, content))
         /\ IsPresent(key)' <=> size # Deleted
         /\ log'[Max(Entries(key)')].content = content
  <1> DEFINE entry == Entry(key, size, content)
  <1>1. entry \in Versions /\ entry.key = key /\ entry.size = size /\ entry.content = content
        /\ entry.time = clock
    BY DEF Entry, Versions, TypeInv, LogInv
  <1>2. Write(entry)
    OBVIOUS
  <1> HIDE DEF entry
  <1>3. Logs(entry)
    BY <1>1, <1>2 DEF Logs
  <1>4. /\ Entries(key)' = Entries(key) \cup {Len(log) + 1}
        /\ Max(Entries(key)') = Len(log) + 1
        /\ log'[Len(log) + 1] = entry
    BY <1>1, <1>3, WrittenIsLast DEF TypeInv
  <1>5. IsPresent(key)' <=> size # Deleted
    BY <1>1, <1>4 DEF IsPresent
  <1> QED
    BY <1>1, <1>3, <1>4, <1>5 DEF entry

\* A key is not disturbed by the transfer of another.
LEMMA OthersAreExact ==
  ASSUME TypeInv, UNCHANGED <<localVars, objects>>, NEW key,
         UNCHANGED log \/ \E entry : Logs(entry) /\ entry.key # key
  PROVE  (AsListed(key) => AsListed(key)') /\ (Exact(key) => Exact(key)')
  <1>1. /\ IsPresent(key)' = IsPresent(key)
        /\ IsPresent(key) => log'[Max(Entries(key)')] = log[Max(Entries(key))]
        /\ LatestObject(key)' = LatestObject(key)
    <2>1. ASSUME NEW entry, Logs(entry), entry.key # key
          PROVE  /\ IsPresent(key)' = IsPresent(key)
                 /\ IsPresent(key) => log'[Max(Entries(key)')] = log[Max(Entries(key))]
                 /\ LatestObject(key)' = LatestObject(key)
      BY <2>1, OthersStay DEF TypeInv
    <2>2. CASE UNCHANGED log
      BY <2>2 DEF IsPresent, Entries, LatestObject, Object
    <2> QED
      BY <2>1, <2>2
  <1>2. AsListed(key) => AsListed(key)'
    BY <1>1 DEF AsListed
  <1>3. Exact(key) => Exact(key)'
    BY <1>1 DEF Exact, localVars
  <1> QED
    BY <1>2, <1>3

LEMMA UploadsAreExact ==
  ASSUME TypeInv, RestoreInv, UploadObject
  PROVE  RestoreInv'
  <1>0. /\ pc = "transfer" /\ upload /\ failed \in BOOLEAN
        /\ UNCHANGED <<pc, upload, pinned, localVars, objects, clock>>
    BY DEF UploadObject, Transferred, TransferFails, TypeInv, SyncInv
  <1>1. PICK key \in todo :
          /\ todo' = todo \ {key}
          /\ \/ /\ failed' = failed
                /\ \/ /\ key \in DOMAIN files
                      /\ Write(Entry(key, files[key].size, files[key].content))
                   \/ key \in DOMAIN files /\ UpToDate(key) /\ UNCHANGED log
                   \/ key \notin DOMAIN files /\ Write(Entry(key, Deleted, Partial))
             \/ failed' = TRUE /\ UNCHANGED log
    BY DEF UploadObject, Transferred, TransferFails
  <1>2. key \in Keys
    BY DEF TypeInv, SyncInv, ObjectsInv, FilesInv, ListedKeys, Listing
  <1>3. key \in todo /\ AsListed(key)
    BY <1>0, <1>1, <1>2 DEF RestoreInv
  \* The key itself, and what became of the log.
  <1>4. \/ \E entry : Logs(entry) /\ entry.key = key /\ Exact(key)'
        \/ UNCHANGED log /\ (failed' = TRUE \/ Exact(key)')
    <2>1. CASE key \in DOMAIN files /\ Write(Entry(key, files[key].size, files[key].content))
      <3>1. /\ files[key].size \in Sizes \cup {PartialSize} /\ files[key].content \in Nat
            /\ files[key].size # Deleted
        BY <2>1, SyncAssumption DEF TypeInv, FilesInv, File, Deleted, PartialSize
      <3>2. /\ Logs(Entry(key, files[key].size, files[key].content))
            /\ IsPresent(key)' /\ log'[Max(Entries(key)')].content = files[key].content
        BY <1>2, <2>1, <3>1, EntryLogs
      <3>3. Exact(key)'
        BY <1>0, <2>1, <3>2 DEF Exact, localVars
      <3> QED
        BY <3>2, <3>3 DEF Entry
    <2>2. CASE key \in DOMAIN files /\ UpToDate(key) /\ UNCHANGED log
      <3>1. PICK obj \in objects :
              obj.key = key /\ obj.size = files[key].size /\ files[key].mtime <= obj.time
        BY <2>2 DEF UpToDate
      <3>2. obj.time >= files[key].mtime
        BY <2>2, <3>1 DEF TypeInv, ObjectsInv, FilesInv, Listing, File
      <3>3. IsPresent(key)
        BY <1>3, <3>1 DEF AsListed, LatestObject
      <3>4. Exact(key)
        BY <2>2, <3>1, <3>2, <3>3 DEF Exact
      <3>5. Exact(key)'
        BY <1>0, <2>2, <3>4 DEF Exact, IsPresent, Entries, localVars
      <3> QED
        BY <2>2, <3>5
    <2>3. CASE key \notin DOMAIN files /\ Write(Entry(key, Deleted, Partial))
      <3>1. Logs(Entry(key, Deleted, Partial)) /\ ~IsPresent(key)'
        BY <1>2, <2>3, EntryLogs DEF Partial
      <3>2. Exact(key)'
        BY <1>0, <2>3, <3>1 DEF Exact, localVars
      <3> QED
        BY <3>1, <3>2 DEF Entry
    <2> QED
      BY <1>1, <2>1, <2>2, <2>3
  <1>5. ASSUME NEW k \in Keys
        PROVE  \/ k \in todo' /\ AsListed(k)'
               \/ k \notin todo' /\ (failed' \/ Exact(k)')
    <2>1. CASE k = key
      BY <1>1, <1>4, <2>1
    <2>2. CASE k # key
      <3>1. (AsListed(k) => AsListed(k)') /\ (Exact(k) => Exact(k)')
        <4>1. UNCHANGED log \/ \E entry : Logs(entry) /\ entry.key # k
          BY <1>4, <2>2
        <4> QED
          BY <1>0, <4>1, OthersAreExact
      <3>2. \/ k \in todo /\ AsListed(k)
            \/ k \notin todo /\ (failed \/ Exact(k))
        BY <1>0 DEF RestoreInv
      <3>3. failed => failed'
        BY <1>1
      <3>4. k \in todo' <=> k \in todo
        BY <1>1, <2>2
      <3> QED
        BY <3>1, <3>2, <3>3, <3>4
    <2> QED
      BY <2>1, <2>2
  <1> QED
    BY <1>0, <1>5 DEF RestoreInv

LEMMA RestoreStep == TypeInv /\ RestoreInv /\ [Next]_vars => RestoreInv'
  <1> SUFFICES ASSUME TypeInv, RestoreInv, [Next]_vars PROVE RestoreInv'
    OBVIOUS
  <1>0. upload \in BOOLEAN /\ failed \in BOOLEAN
    BY DEF TypeInv, SyncInv
  \* Steps that leave what a key is judged by alone.
  <1>1. ASSUME UNCHANGED <<log, localVars, objects>>
        PROVE  \A key : /\ AsListed(key)' = AsListed(key)
                        /\ Exact(key)' = Exact(key)
                        /\ LatestObject(key)' = LatestObject(key)
    BY <1>1 DEF AsListed, Exact, IsPresent, Entries, LatestObject, Object, localVars
  <1>2. CASE Tick \/ UNCHANGED vars
    <2>1. UNCHANGED <<log, localVars, objects, upload, pinned, pc, unlisted, todo, failed>>
      BY <1>2 DEF Tick, vars, bucketVars, localVars, syncVars
    <2> QED
      BY <1>1, <2>1 DEF RestoreInv
  <1>3. CASE AppWrites \/ StartDownload \/ DownloadObject \/ DownloadsDone
    <2>1. ~upload'
      BY <1>3, Zenon DEF AppWrites, StartDownload, DownloadObject, DownloadsDone, Transferred,
        TransferFails, syncVars
    <2> QED
      BY <2>1 DEF RestoreInv
  <1>4. CASE Prune
    BY <1>4 DEF Prune, RestoreInv
  <1>5. CASE StartUpload
    <2>1. pc' = "list" /\ objects' = {} /\ Keys \ unlisted' = {} /\ ~pinned'
      BY <1>5 DEF StartUpload
    <2>2. UNION {LatestObject(key)' : key \in Keys \ unlisted'} = {}
      BY <2>1
    <2> QED
      BY <2>1, <2>2 DEF RestoreInv
  <1>6. CASE ListPage
    <2> SUFFICES ASSUME upload' PROVE RestoreInv'
      BY DEF RestoreInv
    <2>1. upload /\ pc = "list" /\ UNCHANGED <<log, pinned>> /\ ~pinned
      BY <1>6 DEF ListPage, GivesUp, bucketVars, localVars, RestoreInv
    <2>2. CASE GivesUp("list")
      BY <2>2 DEF GivesUp, RestoreInv
    <2>3. CASE \E key \in unlisted :
                 /\ unlisted' = unlisted \ {key}
                 /\ objects' = objects \cup LatestObject(key)
                 /\ pc' = "list"
      <3>1. PICK key \in unlisted :
              unlisted' = unlisted \ {key} /\ objects' = objects \cup LatestObject(key)
        BY <2>3
      <3>2. Keys \ unlisted' = (Keys \ unlisted) \cup {key}
        BY <3>1 DEF TypeInv, SyncInv
      <3>3. \A k : LatestObject(k)' = LatestObject(k)
        BY <2>1 DEF LatestObject, IsPresent, Entries, Object
      <3>4. objects' = UNION {LatestObject(k)' : k \in Keys \ unlisted'}
        BY <2>1, <3>1, <3>2, <3>3 DEF RestoreInv
      <3> QED
        BY <2>1, <2>3, <3>4 DEF RestoreInv
    <2> QED
      BY <1>6, <2>1, <2>2, <2>3 DEF ListPage
  <1>7. CASE ListDone
    <2> SUFFICES ASSUME upload' PROVE RestoreInv'
      BY DEF RestoreInv
    <2>1. /\ upload /\ pc = "list" /\ pc' = "transfer" /\ unlisted = {}
          /\ todo' = DOMAIN files \cup ListedKeys
          /\ UNCHANGED <<log, localVars, objects, pinned>>
      BY <1>7 DEF ListDone, bucketVars, localVars
    <2>2. objects = UNION {LatestObject(key) : key \in Keys}
      BY <2>1 DEF RestoreInv
    <2>3. \A key \in Keys : \A obj \in LatestObject(key) : obj.key = key
      BY DEF LatestObject, Object
    <2>4. ASSUME NEW key \in Keys PROVE AsListed(key)
      BY <2>2, <2>3 DEF AsListed
    <2>5. ASSUME NEW key \in Keys, key \notin todo' PROVE Exact(key)
      <3>1. key \notin ListedKeys /\ key \notin DOMAIN files
        BY <2>1, <2>5
      <3>2. LatestObject(key) = {}
        BY <2>4, <3>1 DEF AsListed, ListedKeys
      <3>3. ~IsPresent(key)
        BY <3>2 DEF LatestObject
      <3> QED
        BY <3>1, <3>3 DEF Exact
    <2> QED
      BY <1>1, <2>1, <2>4, <2>5 DEF RestoreInv
  <1>8. CASE UploadObject
    BY <1>8, UploadsAreExact
  <1>9. CASE UploadsDone
    <2>1. /\ upload /\ pc = "transfer" /\ todo = {} /\ UNCHANGED <<log, localVars, objects, pinned>>
          /\ pc' = IF failed THEN "failed" ELSE "done"
      BY <1>9 DEF UploadsDone, bucketVars, localVars
    <2>2. ~failed => \A key \in Keys : Exact(key)
      BY <2>1 DEF RestoreInv
    <2> QED
      BY <1>0, <1>1, <2>1, <2>2 DEF RestoreInv
  <1> QED
    BY <1>2, <1>3, <1>4, <1>5, <1>6, <1>7, <1>8, <1>9 DEF Next

LEMMA RestoreHasExactly == TypeInv /\ RestoreInv => RestoreIsExact
  <1> SUFFICES ASSUME TypeInv, RestoreInv, pc = "done", upload
               PROVE  /\ {key \in Keys : IsPresent(key)} = DOMAIN files
                      /\ \A key \in DOMAIN files :
                           \/ log[Max(Entries(key))].content = files[key].content
                           \/ \E obj \in objects : /\ obj.key = key
                                                   /\ obj.size = files[key].size
                                                   /\ obj.time >= files[key].mtime
    BY DEF RestoreIsExact
  <1>1. (\A key \in Keys : Exact(key)) /\ DOMAIN files \subseteq Keys
    BY DEF RestoreInv, TypeInv, FilesInv
  <1> QED
    BY <1>1 DEF Exact

\* A successful restore leaves exactly the objects that have a file, each with the
\* file's content unless there was one of its size that is no older.
THEOREM RestoresAreExact == Spec => []RestoreIsExact
  <1>1. Init => RestoreInv
    BY DEF Init, RestoreInv
  <1> QED
    BY <1>1, RestoreStep, RestoreHasExactly, TypesAlways, PTL DEF Spec

=============================================================================
