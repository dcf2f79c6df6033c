-------------------------- MODULE FilesSyncProofs --------------------------
(***************************************************************************)
(* Proofs about FilesSync, for any volumes, trees of any depth, contents   *)
(* and filters, and any number of events on one DR volume: a successful    *)
(* backup is the filtered view, a successful restore exact, and no sync    *)
(* deletes a file that it would copy.                                      *)
(***************************************************************************)
EXTENDS FilesSync, FiniteSetTheorems, TLAPS

LEMMA SameSequence ==
  ASSUME NEW S, NEW s \in Seq(S), NEW t \in Seq(S), Len(s) = Len(t),
         \A i \in 1..Len(s) : s[i] = t[i]
  PROVE  s = t
  OBVIOUS

\* Prefixes are ordered.
LEMMA PrefixOrder ==
  ASSUME NEW S, NEW s \in Seq(S), NEW t \in Seq(S), NEW u \in Seq(S)
  PROVE  /\ IsPrefix(s, s)
         /\ IsPrefix(s, t) /\ IsPrefix(t, u) => IsPrefix(s, u)
         /\ IsPrefix(s, t) /\ IsPrefix(t, s) => s = t
  <1>1. ASSUME NEW a \in Seq(S), NEW b \in Seq(S)
        PROVE  IsPrefix(a, b) <=> Len(a) <= Len(b) /\ \A i \in 1..Len(a) : a[i] = b[i]
    <2>1. SubSeq(a, 1, Len(a)) \in Seq(S) /\ Len(SubSeq(a, 1, Len(a))) = Len(a)
          /\ \A i \in 1..Len(a) : SubSeq(a, 1, Len(a))[i] = a[i]
      OBVIOUS
    <2>2. ASSUME Len(a) <= Len(b)
          PROVE  /\ SubSeq(b, 1, Len(a)) \in Seq(S) /\ Len(SubSeq(b, 1, Len(a))) = Len(a)
                 /\ \A i \in 1..Len(a) : SubSeq(b, 1, Len(a))[i] = b[i]
      BY <2>2
    <2>3. ASSUME Len(a) <= Len(b), \A i \in 1..Len(a) : a[i] = b[i]
          PROVE  SubSeq(a, 1, Len(a)) = SubSeq(b, 1, Len(a))
      <3> DEFINE x == SubSeq(a, 1, Len(a))
                 y == SubSeq(b, 1, Len(a))
      <3>1. /\ x \in Seq(S) /\ Len(x) = Len(a) /\ \A i \in 1..Len(a) : x[i] = a[i]
            /\ y \in Seq(S) /\ Len(y) = Len(a) /\ \A i \in 1..Len(a) : y[i] = b[i]
        BY <2>1, <2>2, <2>3
      <3> HIDE DEF x, y
      <3>2. x = y
        BY <2>3, <3>1, SameSequence
      <3> QED
        BY <3>2 DEF x, y
    <2> QED
      BY <2>1, <2>2, <2>3 DEF IsPrefix
  <1>2. Len(s) \in Nat /\ Len(t) \in Nat /\ Len(u) \in Nat
    OBVIOUS
  <1>3. IsPrefix(s, s)
    BY <1>1, <1>2
  <1>4. IsPrefix(s, t) /\ IsPrefix(t, u) => IsPrefix(s, u)
    BY <1>1, <1>2
  <1>5. ASSUME IsPrefix(s, t), IsPrefix(t, s) PROVE s = t
    <2>1. Len(s) = Len(t) /\ \A i \in 1..Len(s) : s[i] = t[i]
      BY <1>1, <1>2, <1>5
    <2> QED
      BY <2>1
  <1> QED
    BY <1>3, <1>4, <1>5

\* So are paths, by what is above and below them.
LEMMA PathOrder ==
  ASSUME NEW p \in Paths
  PROVE  /\ p \in Below(p) /\ p \notin Above(p)
         /\ Below(p) \subseteq Paths /\ Above(p) \subseteq Paths
         /\ \A q \in Paths : q \in Above(p) <=> p \in Below(q) /\ p # q
         /\ \A q \in Below(p) : Below(q) \subseteq Below(p)
         /\ \A q \in Below(p) : p \in Below(q) => p = q
  <1>1. Paths \subseteq Seq(STRING)
    BY PathsAssumption
  <1>2. \A s, t, u \in Paths :
          /\ IsPrefix(s, s)
          /\ IsPrefix(s, t) /\ IsPrefix(t, u) => IsPrefix(s, u)
          /\ IsPrefix(s, t) /\ IsPrefix(t, s) => s = t
    BY <1>1, PrefixOrder
  <1> QED
    BY <1>2 DEF Below, Above, IsStrictPrefix

LEMMA NodesDiffer ==
  /\ Nothing # Directory /\ Nothing # CutShort /\ Directory # CutShort
  /\ Nothing \notin Files /\ Directory \notin Files
  <1>1. \A a, b : IsFiniteSet({a, b}) /\ Cardinality({a, b}) \in {1, 2}
    <2> TAKE a, b
    <2>1. IsFiniteSet({a}) /\ Cardinality({a}) = 1
      BY FS_Singleton
    <2>2. IsFiniteSet({a} \cup {b})
      BY <2>1, FS_AddElement
    <2>3. Cardinality({a} \cup {b}) = IF b \in {a} THEN Cardinality({a}) ELSE Cardinality({a}) + 1
      BY <2>1, FS_AddElement
    <2>4. {a} \cup {b} = {a, b}
      OBVIOUS
    <2> QED
      BY <2>1, <2>2, <2>3, <2>4
  <1>2. Cardinality({Nothing, Directory, CutShort}) = 3
    BY NodesAssumption
  <1>3. \A a, b : {Nothing, Directory, CutShort} # {a, b}
    <2> SUFFICES ASSUME NEW a, NEW b, {Nothing, Directory, CutShort} = {a, b} PROVE FALSE
      OBVIOUS
    <2>1. Cardinality({a, b}) = 3
      BY <1>2, Zenon
    <2> QED
      BY <1>1, <2>1
  <1>4. Nothing # Directory
    <2> SUFFICES ASSUME Nothing = Directory PROVE FALSE
      OBVIOUS
    <2>1. {Nothing, Directory, CutShort} = {Nothing, CutShort}
      OBVIOUS
    <2> QED
      BY <1>3, <2>1
  <1>5. Nothing # CutShort
    <2> SUFFICES ASSUME Nothing = CutShort PROVE FALSE
      OBVIOUS
    <2>1. {Nothing, Directory, CutShort} = {Nothing, Directory}
      OBVIOUS
    <2> QED
      BY <1>3, <2>1
  <1>6. Directory # CutShort
    <2> SUFFICES ASSUME Directory = CutShort PROVE FALSE
      OBVIOUS
    <2>1. {Nothing, Directory, CutShort} = {Nothing, Directory}
      OBVIOUS
    <2> QED
      BY <1>3, <2>1
  <1> QED
    BY <1>4, <1>5, <1>6, NodesAssumption DEF Files

-----------------------------------------------------------------------------
\* Trees.

LEMMA TreesAre ==
  ASSUME NEW t \in Trees
  PROVE  /\ t \in [Paths -> Files \cup {Nothing, Directory}]
         /\ \A p \in Paths : t[p] # Nothing => \A q \in Above(p) : t[q] = Directory
         /\ \A p \in Paths : t[p] = Nothing => \A q \in Below(p) : t[q] = Nothing
         /\ \A p \in Paths : t[p] # Directory => \A q \in Below(p) \ {p} : t[q] = Nothing
  <1>1. /\ t \in [Paths -> Files \cup {Nothing, Directory}]
        /\ \A p \in Paths : t[p] # Nothing => \A q \in Above(p) : t[q] = Directory
    BY DEF Trees
  <1>2. ASSUME NEW p \in Paths, NEW q \in Below(p), t[q] # Nothing, p # q
        PROVE  t[p] = Directory
    <2>1. q \in Paths /\ p \in Above(q)
      BY <1>2, PathOrder
    <2> QED
      BY <1>1, <1>2, <2>1
  <1> QED
    BY <1>1, <1>2, NodesDiffer

\* What is removed with all below it leaves a tree.
LEMMA PrunedTree ==
  ASSUME NEW t \in Trees, NEW gone \in SUBSET Paths, \A q \in gone : Below(q) \subseteq gone
  PROVE  [q \in Paths |-> IF q \in gone THEN Nothing ELSE t[q]] \in Trees
  <1> DEFINE u == [q \in Paths |-> IF q \in gone THEN Nothing ELSE t[q]]
  <1>1. u \in [Paths -> Files \cup {Nothing, Directory}]
    BY TreesAre
  <1>2. ASSUME NEW p \in Paths, u[p] # Nothing, NEW q \in Above(p)
        PROVE  u[q] = Directory
    <2>1. q \in Paths /\ p \in Below(q)
      BY PathOrder
    <2>2. p \notin gone /\ t[p] # Nothing
      BY <1>2
    <2>3. q \notin gone
      BY <2>1, <2>2
    <2> QED
      BY <2>1, <2>2, <2>3, TreesAre
  <1> HIDE DEF u
  <1> QED
    BY <1>1, <1>2 DEF u, Trees

\* So does what is put where there are directories above, and nothing below a file.
LEMMA CopiedTree ==
  ASSUME NEW t \in Trees, NEW p \in Paths, NEW node \in Files \cup {Directory},
         \A q \in Above(p) : t[q] = Directory,
         IF node = Directory THEN t[p] \notin Files ELSE t[p] # Directory
  PROVE  [t EXCEPT ![p] = node] \in Trees
  <1> DEFINE u == [t EXCEPT ![p] = node]
  <1>1. /\ u \in [Paths -> Files \cup {Nothing, Directory}]
        /\ t \in [Paths -> Files \cup {Nothing, Directory}]
    BY TreesAre
  <1>2. u[p] = node /\ \A q \in Paths : q # p => u[q] = t[q]
    BY <1>1
  <1> HIDE DEF u
  <1>3. ASSUME NEW r \in Paths, u[r] # Nothing, NEW q \in Above(r)
        PROVE  u[q] = Directory
    <2>1. q \in Paths /\ r \in Below(q) /\ q # r
      BY PathOrder
    <2>2. CASE r = p
      BY <1>2, <2>1, <2>2
    <2>3. CASE r # p /\ q # p
      BY <1>2, <1>3, <2>1, <2>3, TreesAre
    <2>4. CASE q = p
      <3>1. t[r] # Nothing
        BY <1>2, <1>3, <2>1, <2>4
      <3>2. t[p] = Directory
        BY <2>4, <3>1, TreesAre
      <3> QED
        BY <1>2, <2>4, <3>2
    <2> QED
      BY <2>2, <2>3, <2>4
  <1> QED
    BY <1>1, <1>3 DEF u, Trees

LEMMA EmptyIsTree == EmptyTree \in Trees
  BY DEF EmptyTree, Trees

LEMMA ViewIs ==
  ASSUME NEW t \in Trees, NEW p \in Paths
  PROVE  /\ View(t)[p] # Nothing => View(t)[p] = t[p] /\ Permits(p, t[p] = Directory)
                                   /\ \A q \in Above(p) : Permits(q, TRUE)
         /\ View(t)[p] = Nothing /\ t[p] # Nothing =>
              ~Permits(p, t[p] = Directory) \/ \E q \in Above(p) : ~Permits(q, TRUE)
  <1>1. View(t)[p] = IF \A q \in Above(p) \cup {p} : Permits(q, t[q] = Directory)
                       THEN t[p] ELSE Nothing
    BY DEF View
  <1>2. t[p] # Nothing => \A q \in Above(p) : t[q] = Directory
    BY TreesAre
  <1>3. t[p] # Nothing => \A q \in Above(p) : Permits(q, t[q] = Directory) <=> Permits(q, TRUE)
    BY <1>2 DEF Permits
  <1> QED
    BY <1>1, <1>3

-----------------------------------------------------------------------------
\* The invariant.

Working == {"next", "root", "prune", "copy", "done"}

\* A restore is unfiltered, and once verified has the directories for its targets.  Nothing
\* is synced before that, and all is in the end.
EventInv ==
  /\ volume = [m \in DOMAIN volume |-> volume[m]]
  /\ pvcs = [m \in Members |-> pvcs[m]]
  /\ direction = "restore" => filter = NoFilter
  /\ direction = "restore" /\ pc \in Working => DOMAIN volume = Members
  /\ pc = "copy" => Exists
  /\ pc = "verify" => todo = Members
  /\ pc = "done" => todo = {}

\* How far the sync of a member is.  Behind the first walk nothing is left that should be
\* pruned; behind the second there is what should be copied, and directories above what is
\* yet to come.
SyncInv ==
  /\ pc = "prune" =>
       \A p \in Paths : Destination[p] # Nothing /\ p \notin unvisited => ~Prunes(p)
  /\ pc = "copy" =>
       /\ \A p \in Paths : Destination[p] # Nothing => ~Prunes(p)
       /\ \A p \in Paths : View(Source)[p] # Nothing /\ p \notin unvisited =>
                             Destination[p] = Source[p]
       /\ \A p \in unvisited :
            Source[p] # Nothing /\ \A q \in Above(p) \ unvisited : Destination[q] = Directory

\* The destination holds the view of the source, or an empty directory in the place of a file
\* that is filtered out.
Holds(dst, src) ==
  \A p \in Paths :
    \/ dst[p] = View(src)[p]
    \/ /\ dst[p] = Directory
       /\ src[p] \in Files /\ ~Permits(p, FALSE)
       /\ \A q \in Below(p) \ {p} : dst[q] = Nothing

\* The members that have been synced.
Synced == Members \ (todo \cup (IF pc \in {"root", "prune", "copy"} THEN {member} ELSE {}))

SyncedInv ==
  pc \in Working =>
    \A m \in Synced :
      /\ m \in DOMAIN volume
      /\ IF IsBackup THEN Holds(volume[m], pvcs[m]) ELSE Holds(pvcs[m], volume[m])

FilesInv == TypeOK /\ EventInv /\ SyncInv /\ SyncedInv

LEMMA TreesAtHand ==
  ASSUME TypeOK, EventInv, pc \in {"root", "prune", "copy"}
  PROVE  /\ Source \in Trees /\ Destination \in Trees
         /\ member \in Members /\ member \in PVCs
  BY EmptyIsTree DEF TypeOK, EventInv, Working, Source, Destination, Exists, IsBackup

\* What setting the destination changes, and what it does not.
LEMMA SetsDestination ==
  ASSUME TypeOK, EventInv, pc \in {"root", "prune", "copy"}, NEW t \in Trees, SetDestination(t),
         UNCHANGED <<direction, member>>
  PROVE  /\ Destination' = t /\ Source' = Source /\ Exists'
         /\ Members' = Members
         /\ DOMAIN volume' \subseteq PVCs /\ \A m \in DOMAIN volume' : volume'[m] \in Trees
         /\ \A m \in Members' : pvcs'[m] \in Trees
         /\ direction = "restore" => DOMAIN volume' = DOMAIN volume
         /\ volume' = [m \in DOMAIN volume' |-> volume'[m]] /\ pvcs' = [m \in Members' |-> pvcs'[m]]
         /\ \A m \in DOMAIN volume \ {member} : m \in DOMAIN volume' /\ volume'[m] = volume[m]
         /\ \A m \in Members \ {member} : pvcs'[m] = pvcs[m]
  <1>1. member \in Members /\ member \in PVCs
    BY TreesAtHand
  <1>4. volume = [m \in DOMAIN volume |-> volume[m]] /\ pvcs = [m \in DOMAIN pvcs |-> pvcs[m]]
    BY DEF EventInv, Members
  <1>2. CASE IsBackup
    <2>1. /\ volume' = [m \in DOMAIN volume \cup {member} |-> IF m = member THEN t ELSE volume[m]]
          /\ pvcs' = pvcs /\ IsBackup' /\ direction # "restore"
      BY <1>2 DEF SetDestination, IsBackup
    <2>2. DOMAIN volume' = DOMAIN volume \cup {member} /\ volume'[member] = t
      BY <2>1
    <2>3. Destination' = t /\ Exists'
      BY <2>1, <2>2 DEF Destination, Exists
    <2>4. Source' = Source
      BY <1>2, <2>1 DEF Source
    <2>5. volume' = [m \in DOMAIN volume' |-> volume'[m]] /\ pvcs' = [m \in Members' |-> pvcs'[m]]
      BY <1>4, <2>1 DEF Members
    <2> QED
      BY <1>1, <2>1, <2>2, <2>3, <2>4, <2>5 DEF TypeOK, Members
  <1>3. CASE ~IsBackup
    <2>1. pvcs' = [pvcs EXCEPT ![member] = t] /\ volume' = volume /\ ~IsBackup'
      BY <1>3 DEF SetDestination, IsBackup
    <2>2. /\ DOMAIN pvcs' = DOMAIN pvcs /\ pvcs'[member] = t
          /\ \A m \in Members \ {member} : pvcs'[m] = pvcs[m]
      BY <1>1, <2>1 DEF Members
    <2>3. Destination' = t /\ Exists' /\ Source' = Source
      BY <1>3, <2>1, <2>2 DEF Destination, Exists, Source
    <2>4. volume' = [m \in DOMAIN volume' |-> volume'[m]] /\ pvcs' = [m \in Members' |-> pvcs'[m]]
      BY <1>4, <2>1 DEF Members
    <2> QED
      BY <1>1, <2>1, <2>2, <2>3, <2>4 DEF TypeOK, Members
  <1> QED
    BY <1>2, <1>3

\* When both walks are over, the destination holds the source.
LEMMA CopiedHolds ==
  ASSUME TypeOK, EventInv, SyncInv, pc = "copy", unvisited = {}
  PROVE  Holds(Destination, Source)
  <1>1. Source \in Trees /\ Destination \in Trees
    BY TreesAtHand
  <1> DEFINE src == Source
             dst == Destination
  <1>2. /\ \A p \in Paths : dst[p] # Nothing => src[p] # Nothing /\ Permits(p, dst[p] = Directory)
        /\ \A p \in Paths : View(src)[p] # Nothing => dst[p] = src[p]
    BY DEF SyncInv, Prunes
  <1>3. src \in Trees /\ dst \in Trees
    BY <1>1
  <1> HIDE DEF src, dst
  <1>4. ASSUME NEW p \in Paths, dst[p] # View(src)[p]
        PROVE  /\ dst[p] = Directory
               /\ src[p] \in Files /\ ~Permits(p, FALSE)
               /\ \A q \in Below(p) \ {p} : dst[q] = Nothing
    <2>1. View(src)[p] = Nothing /\ dst[p] # Nothing
      BY <1>2, <1>3, <1>4, ViewIs
    <2>2. src[p] # Nothing /\ Permits(p, dst[p] = Directory)
      BY <1>2, <2>1
    <2>3. \A q \in Above(p) : Permits(q, TRUE)
      <3> TAKE q \in Above(p)
      <3>1. q \in Paths /\ dst[q] = Directory
        BY <1>3, <2>1, PathOrder, TreesAre
      <3>2. Permits(q, dst[q] = Directory)
        BY <1>2, <3>1, NodesDiffer
      <3> QED
        BY <3>1, <3>2 DEF Permits
    <2>4. ~Permits(p, src[p] = Directory)
      BY <1>3, <2>1, <2>2, <2>3, ViewIs
    <2>5. dst[p] = Directory /\ src[p] # Directory
      BY <2>2, <2>4 DEF Permits
    <2>6. src[p] \in Files /\ ~Permits(p, FALSE)
      BY <1>3, <2>2, <2>4, <2>5, TreesAre DEF Permits
    <2>7. \A q \in Below(p) \ {p} : dst[q] = Nothing
      <3> TAKE q \in Below(p) \ {p}
      <3>1. q \in Paths /\ src[q] = Nothing
        BY <1>3, <2>5, TreesAre, PathOrder
      <3> QED
        BY <1>2, <3>1
    <2> QED
      BY <2>5, <2>6, <2>7
  <1>5. Holds(dst, src)
    BY <1>4 DEF Holds
  <1> QED
    BY <1>5 DEF src, dst

-----------------------------------------------------------------------------
\* What the steps of a sync leave alone.

LEMMA ViewsStay ==
  ASSUME UNCHANGED filter
  PROVE  /\ \A t : View(t)' = View(t)
         /\ \A p \in Paths : \A isDir \in BOOLEAN : Permits(p, isDir)' <=> Permits(p, isDir)
         /\ \A dst, src : Holds(dst, src)' <=> Holds(dst, src)
  <1>1. \A p \in Paths : \A isDir \in BOOLEAN : Permits(p, isDir)' <=> Permits(p, isDir)
    BY DEF Permits
  <1>2. \A t : View(t)' = View(t)
    BY DEF View, Permits
  <1>3. \A dst, src : Holds(dst, src)' <=> Holds(dst, src)
    BY <1>2 DEF Holds, Permits
  <1> QED
    BY <1>1, <1>2, <1>3

\* All members but the one at hand keep what they have.
OthersKept ==
  /\ Members' = Members
  /\ \A m \in DOMAIN volume \ {member} : m \in DOMAIN volume' /\ volume'[m] = volume[m]
  /\ \A m \in Members \ {member} : pvcs'[m] = pvcs[m]

LEMMA SyncedKept ==
  ASSUME FilesInv, pc \in {"root", "prune", "copy"}, pc' \in {"prune", "copy", "failed"}, OthersKept,
         UNCHANGED <<direction, filter, todo, member>>
  PROVE  SyncedInv'
  <1> SUFFICES ASSUME pc' \in {"prune", "copy"}, NEW m \in Synced'
               PROVE  /\ m \in DOMAIN volume'
                      /\ IF IsBackup' THEN Holds(volume[m], pvcs[m])'
                                     ELSE Holds(pvcs[m], volume[m])'
    BY DEF SyncedInv, Working
  <1>1. m \in Synced /\ m # member /\ m \in Members
    BY DEF Synced, OthersKept
  <1>2. /\ m \in DOMAIN volume
        /\ IF IsBackup THEN Holds(volume[m], pvcs[m]) ELSE Holds(pvcs[m], volume[m])
    BY <1>1 DEF FilesInv, SyncedInv, Working
  <1>3. m \in DOMAIN volume' /\ volume'[m] = volume[m] /\ pvcs'[m] = pvcs[m] /\ IsBackup' = IsBackup
    BY <1>1, <1>2 DEF OthersKept, IsBackup
  <1> QED
    BY <1>2, <1>3, ViewsStay

\* A backup's destination is removed with its root.
ForgetsDestination ==
  /\ direction = "backup"
  /\ volume' = [m \in DOMAIN volume \ {member} |-> volume[m]]
  /\ UNCHANGED pvcs

\* A step of the sync that sets the destination to some tree, or removes it, or neither.
LEMMA SyncStepKeeps ==
  ASSUME FilesInv, pc \in {"root", "prune", "copy"}, pc' \in {"prune", "copy", "failed"},
         UNCHANGED <<direction, filter, todo, member>>, unvisited' \subseteq Paths,
         \/ UNCHANGED <<volume, pvcs>>
         \/ \E t \in Trees : SetDestination(t)
         \/ ForgetsDestination,
         pc' = "copy" => Exists'
  PROVE  TypeOK' /\ EventInv' /\ SyncedInv'
  <1>0. TypeOK /\ EventInv
    BY DEF FilesInv
  <1>1. /\ OthersKept
        /\ DOMAIN volume' \subseteq PVCs /\ \A m \in DOMAIN volume' : volume'[m] \in Trees
        /\ \A m \in Members' : pvcs'[m] \in Trees
        /\ direction = "restore" => DOMAIN volume' = DOMAIN volume
        /\ volume' = [m \in DOMAIN volume' |-> volume'[m]] /\ pvcs' = [m \in Members' |-> pvcs'[m]]
    <2>1. CASE UNCHANGED <<volume, pvcs>>
      <3>1. volume = [m \in DOMAIN volume |-> volume[m]] /\ pvcs = [m \in DOMAIN pvcs |-> pvcs[m]]
        BY <1>0 DEF EventInv, Members
      <3>2. volume' = volume /\ pvcs' = pvcs /\ Members' = Members
        BY <2>1 DEF Members
      <3> QED
        BY <1>0, <3>1, <3>2 DEF TypeOK, OthersKept, Members
    <2>2. CASE \E t \in Trees : SetDestination(t)
      BY <1>0, <2>2, SetsDestination DEF OthersKept
    <2>3. CASE ForgetsDestination
      <3>1. /\ DOMAIN volume' = DOMAIN volume \ {member}
            /\ \A m \in DOMAIN volume' : volume'[m] = volume[m]
            /\ volume' = [m \in DOMAIN volume' |-> volume'[m]]
            /\ direction # "restore"
        BY <2>3 DEF ForgetsDestination
      <3>2. pvcs' = pvcs /\ Members' = Members /\ pvcs = [m \in Members |-> pvcs[m]]
        BY <1>0, <2>3 DEF ForgetsDestination, EventInv, Members
      <3> QED
        BY <1>0, <3>1, <3>2 DEF TypeOK, OthersKept
    <2> QED
      BY <2>1, <2>2, <2>3
  <1>2. TypeOK'
    <2>1. Members' = Members
      BY <1>1 DEF OthersKept
    <2> QED
      BY <1>0, <1>1, <2>1 DEF TypeOK
  <1>3. EventInv'
    <2>1. Members' = Members
      BY <1>1 DEF OthersKept
    <2> QED
      BY <1>0, <1>1, <2>1 DEF EventInv, Working
  <1>4. SyncedInv'
    BY <1>1, SyncedKept
  <1> QED
    BY <1>2, <1>3, <1>4

-----------------------------------------------------------------------------
\* The steps of a sync.

LEMMA NothingMoves ==
  ASSUME UNCHANGED <<volume, pvcs, direction, member>>
  PROVE  Destination' = Destination /\ Source' = Source /\ Exists' = Exists
  BY DEF Destination, Source, Exists, IsBackup

LEMMA RootStep ==
  ASSUME FilesInv, WalkRoot
  PROVE  FilesInv'
  <1>0. /\ TypeOK /\ EventInv /\ pc = "root" /\ pc \in {"root", "prune", "copy"}
        /\ pc' \in {"prune", "failed"}
        /\ UNCHANGED <<direction, filter, todo, member>>
    BY DEF FilesInv, WalkRoot
  <1>1. Destination \in Trees
    BY <1>0, TreesAtHand
  <1>2. \/ /\ pc' = "prune" /\ UNCHANGED <<volume, pvcs>>
           /\ unvisited' = {p \in Paths : Destination[p] # Nothing}
        \/ pc' = "prune" /\ unvisited' = {} /\ ForgetsDestination
        \/ /\ pc' = "failed" /\ unvisited' = unvisited
           /\ \E t \in Trees : SetDestination(t)
    <2>1. RootIsPruned => direction = "backup"
      BY <1>0 DEF RootIsPruned, Permits, EventInv, TypeOK, NoFilter
    <2>2. ASSUME RootIsPruned, pc' = "failed",
                 NEW gone \in SUBSET Paths, \A q \in gone : Below(q) \subseteq gone,
                 SetDestination([q \in Paths |-> IF q \in gone THEN Nothing ELSE Destination[q]])
          PROVE  \E t \in Trees : SetDestination(t)
      <3>1. [q \in Paths |-> IF q \in gone THEN Nothing ELSE Destination[q]] \in Trees
        BY <1>1, <2>2, PrunedTree
      <3> QED
        BY <2>2, <3>1
    <2> QED
      BY <2>1, <2>2 DEF WalkRoot, ForgetsDestination
  <1>3. unvisited' \subseteq Paths
    BY <1>0, <1>2 DEF TypeOK
  <1>4. TypeOK' /\ EventInv' /\ SyncedInv'
    BY <1>0, <1>2, <1>3, SyncStepKeeps
  <1>5. SyncInv'
    <2>1. CASE /\ pc' = "prune" /\ UNCHANGED <<volume, pvcs>>
               /\ unvisited' = {p \in Paths : Destination[p] # Nothing}
      <3>1. Destination' = Destination
        BY <1>0, <2>1, NothingMoves
      <3> QED
        BY <2>1, <3>1 DEF SyncInv
    <2>2. CASE pc' = "prune" /\ unvisited' = {} /\ ForgetsDestination
      <3>1. IsBackup' /\ member \notin DOMAIN volume' /\ member' = member
        BY <1>0, <2>2 DEF ForgetsDestination, IsBackup
      <3>2. Destination' = EmptyTree
        BY <3>1 DEF Destination, Exists
      <3>3. \A p \in Paths : EmptyTree[p] = Nothing
        BY DEF EmptyTree
      <3> QED
        BY <2>2, <3>2, <3>3 DEF SyncInv
    <2>3. CASE pc' = "failed"
      BY <2>3 DEF SyncInv
    <2> QED
      BY <1>2, <2>1, <2>2, <2>3
  <1> QED
    BY <1>4, <1>5 DEF FilesInv

LEMMA DeleteStep ==
  ASSUME FilesInv, DeleteMissing \/ DeletionFails
  PROVE  FilesInv'
  <1>0. /\ TypeOK /\ EventInv /\ SyncInv /\ pc = "prune" /\ pc \in {"root", "prune", "copy"}
        /\ UNCHANGED <<direction, filter, todo, member>>
        /\ pc' \in {"prune", "failed"}
        /\ unvisited' \subseteq unvisited /\ unvisited \subseteq Paths
    BY DEF FilesInv, DeleteMissing, DeletionFails, TypeOK
  <1>1. Source \in Trees /\ Destination \in Trees
    BY <1>0, TreesAtHand
  <1>2. PICK gone \in SUBSET Paths :
          /\ \A q \in gone : Below(q) \subseteq gone
          /\ \/ UNCHANGED <<volume, pvcs>>
             \/ SetDestination([q \in Paths |-> IF q \in gone THEN Nothing ELSE Destination[q]])
          /\ pc' = "prune" =>
               \/ \E p \in unvisited : /\ ~Prunes(p) /\ unvisited' = unvisited \ {p}
                                       /\ UNCHANGED <<volume, pvcs>>
               \/ /\ unvisited' = unvisited \ gone
                  /\ SetDestination([q \in Paths |-> IF q \in gone THEN Nothing ELSE Destination[q]])
    <2>1. CASE DeleteMissing
      <3>1. PICK p \in unvisited :
              \/ pc' = "failed" /\ UNCHANGED <<volume, pvcs>>
              \/ ~Prunes(p) /\ unvisited' = unvisited \ {p} /\ UNCHANGED <<volume, pvcs>>
              \/ /\ SetDestination([q \in Paths |-> IF q \in Below(p) THEN Nothing ELSE Destination[q]])
                 /\ unvisited' = unvisited \ Below(p)
        BY <2>1 DEF DeleteMissing, Removes
      <3>2. Below(p) \in SUBSET Paths /\ \A q \in Below(p) : Below(q) \subseteq Below(p)
        BY <1>0, PathOrder
      <3> QED
        BY <3>1, <3>2
    <2>2. CASE DeletionFails
      <3>1. PICK p \in unvisited : \E gone \in SUBSET (Below(p) \ {p}) :
              /\ \A q \in gone : Below(q) \subseteq gone
              /\ SetDestination([q \in Paths |-> IF q \in gone THEN Nothing ELSE Destination[q]])
        BY <2>2 DEF DeletionFails
      <3>2. Below(p) \subseteq Paths /\ pc' = "failed"
        BY <1>0, <2>2, PathOrder DEF DeletionFails
      <3> QED
        BY <3>1, <3>2
    <2> QED
      BY <2>1, <2>2
  <1> DEFINE t == [q \in Paths |-> IF q \in gone THEN Nothing ELSE Destination[q]]
  <1>3. t \in Trees
    BY <1>1, <1>2, PrunedTree
  <1>4. UNCHANGED <<volume, pvcs>> \/ SetDestination(t)
    BY <1>2
  <1>5. \A q \in Paths : t[q] # Nothing => q \notin gone /\ t[q] = Destination[q]
    OBVIOUS
  <1>6. pc' = "prune" =>
          \/ \E p \in unvisited : /\ ~Prunes(p) /\ unvisited' = unvisited \ {p}
                                  /\ UNCHANGED <<volume, pvcs>>
          \/ unvisited' = unvisited \ gone /\ SetDestination(t)
    BY <1>2
  <1> HIDE DEF t
  <1>7. TypeOK' /\ EventInv' /\ SyncedInv'
    BY <1>0, <1>3, <1>4, SyncStepKeeps
  <1>8. ASSUME pc' = "prune", NEW p \in Paths, Destination'[p] # Nothing, p \notin unvisited'
        PROVE  ~Prunes(p)'
    <2>1. CASE \E q \in unvisited : /\ ~Prunes(q) /\ unvisited' = unvisited \ {q}
                                    /\ UNCHANGED <<volume, pvcs>>
      <3>1. Destination' = Destination /\ Source' = Source
        BY <1>0, <2>1, NothingMoves
      <3>2. ~Prunes(p)
        BY <1>0, <1>8, <2>1, <3>1 DEF SyncInv
      <3> QED
        BY <1>0, <3>1, <3>2 DEF Prunes, Permits
    <2>2. CASE unvisited' = unvisited \ gone /\ SetDestination(t)
      <3>1. Destination' = t /\ Source' = Source
        BY <1>0, <1>3, <2>2, SetsDestination
      <3>2. t[p] = Destination[p] /\ p \notin unvisited /\ ~Prunes(p)
        BY <1>0, <1>5, <1>8, <2>2, <3>1 DEF SyncInv
      <3> QED
        BY <1>0, <3>1, <3>2 DEF Prunes, Permits
    <2> QED
      BY <1>6, <1>8, <2>1, <2>2
  <1>9. SyncInv'
    BY <1>0, <1>8 DEF SyncInv
  <1> QED
    BY <1>7, <1>9 DEF FilesInv

LEMMA PrunedStep ==
  ASSUME FilesInv, Pruned
  PROVE  FilesInv'
  <1>0. /\ TypeOK /\ EventInv /\ SyncInv /\ pc = "prune" /\ pc' = "copy"
        /\ UNCHANGED <<direction, filter, todo, member>> /\ SetDestination(Destination)
        /\ unvisited = {} /\ unvisited' = {p \in Paths : Source[p] # Nothing}
    BY DEF FilesInv, Pruned
  <1>1. Source \in Trees /\ Destination \in Trees
    BY <1>0, TreesAtHand
  <1>2. PICK t \in Trees : t = Destination
    BY <1>1
  <1>3. Destination' = Destination /\ Source' = Source /\ Exists'
    BY <1>0, <1>2, SetsDestination
  <1>4. TypeOK' /\ EventInv' /\ SyncedInv'
    BY <1>0, <1>1, <1>3, SyncStepKeeps
  <1>5. \A p \in Paths : Destination'[p] # Nothing => ~Prunes(p)'
    <2>1. \A p \in Paths : Destination[p] # Nothing => ~Prunes(p)
      BY <1>0 DEF SyncInv
    <2> QED
      BY <1>0, <1>3, <2>1 DEF Prunes, Permits
  <1>6. \A p \in Paths : View(Source)'[p] # Nothing => p \in unvisited'
    <2>1. View(Source)' = View(Source)
      BY <1>0, <1>3 DEF View, Permits
    <2>2. \A p \in Paths : View(Source)[p] # Nothing => Source[p] # Nothing
      BY <1>1, ViewIs
    <2> QED
      BY <1>0, <2>1, <2>2
  <1>7. \A p \in unvisited' : Source'[p] # Nothing /\ Above(p) \ unvisited' = {}
    <2> TAKE p \in unvisited'
    <2>1. \A q \in Above(p) : q \in Paths /\ Source[q] # Nothing
      BY <1>0, <1>1, PathOrder, TreesAre, NodesDiffer
    <2> QED
      BY <1>0, <1>3, <2>1
  <1>8. SyncInv'
    BY <1>0, <1>5, <1>6, <1>7 DEF SyncInv
  <1> QED
    BY <1>4, <1>8 DEF FilesInv

\* What is above the path that the copy is at is a directory by now.
LEMMA CopyHasRoom ==
  ASSUME FilesInv, pc = "copy", NEW p \in unvisited, Visits(p), ~Clashes(p),
         NEW node \in Files \cup {Directory}, node = Directory <=> Source[p] = Directory
  PROVE  [Destination EXCEPT ![p] = node] \in Trees
  <1>1. /\ Source \in Trees /\ Destination \in Trees /\ p \in Paths
        /\ \A q \in Above(p) \ unvisited : Destination[q] = Directory
    BY TreesAtHand DEF FilesInv, SyncInv, TypeOK
  <1>2. \A q \in Above(p) : Destination[q] = Directory
    BY <1>1 DEF Visits
  <1>3. IF node = Directory THEN Destination[p] \notin Files ELSE Destination[p] # Directory
    BY DEF Clashes
  <1> QED
    BY <1>1, <1>2, <1>3, CopiedTree

LEMMA CopyStep ==
  ASSUME FilesInv, Copy
  PROVE  FilesInv'
  <1>0. /\ TypeOK /\ EventInv /\ SyncInv /\ pc = "copy" /\ Exists
        /\ UNCHANGED <<direction, filter, todo, member>> /\ unvisited \subseteq Paths
    BY DEF FilesInv, Copy, TypeOK, EventInv
  <1>1. /\ Source \in Trees /\ Destination \in Trees
        /\ \A p \in Paths : Destination[p] # Nothing => ~Prunes(p)
        /\ \A p \in Paths : View(Source)[p] # Nothing /\ p \notin unvisited =>
                              Destination[p] = Source[p]
        /\ \A p \in unvisited :
             Source[p] # Nothing /\ \A q \in Above(p) \ unvisited : Destination[q] = Directory
    BY <1>0, TreesAtHand DEF SyncInv
  <1>2. PICK p \in unvisited :
          /\ Visits(p)
          /\ \/ /\ ~Permits(p, Source[p] = Directory)
                /\ unvisited' = unvisited \ Below(p)
                /\ UNCHANGED <<volume, pvcs, pc>>
             \/ /\ Permits(p, Source[p] = Directory) /\ ~Clashes(p)
                /\ SetDestination([Destination EXCEPT ![p] = Source[p]])
                /\ unvisited' = unvisited \ {p} /\ pc' = pc
             \/ /\ ~Clashes(p) /\ Source[p] \in Files
                /\ SetDestination([Destination EXCEPT ![p] = CutShort])
                /\ pc' = "failed" /\ UNCHANGED unvisited
             \/ pc' = "failed" /\ UNCHANGED <<volume, pvcs, unvisited>>
    BY DEF Copy
  <1>3. p \in Paths /\ Source[p] \in Files \cup {Directory}
    BY <1>0, <1>1, TreesAre
  <1>4. CASE ~Permits(p, Source[p] = Directory) /\ unvisited' = unvisited \ Below(p)
             /\ UNCHANGED <<volume, pvcs, pc>>
    <2>1. Destination' = Destination /\ Source' = Source /\ Exists' /\ View(Source)' = View(Source)
      BY <1>0, <1>4, NothingMoves DEF View, Permits
    <2>2. TypeOK' /\ EventInv' /\ SyncedInv'
      BY <1>0, <1>4, <2>1, SyncStepKeeps
    <2>3. \A q \in Below(p) : View(Source)[q] = Nothing
      <3> TAKE q \in Below(p)
      <3>1. q \in Paths /\ (p = q \/ p \in Above(q))
        BY <1>3, PathOrder
      <3>2. CASE p = q
        BY <1>1, <1>3, <1>4, <3>2, ViewIs
      <3>3. CASE p \in Above(q)
        <4> SUFFICES ASSUME View(Source)[q] # Nothing PROVE FALSE
          OBVIOUS
        <4>1. Source[q] # Nothing /\ Permits(p, TRUE)
          BY <1>1, <3>1, <3>3, ViewIs
        <4>2. Source[p] = Directory
          BY <1>1, <3>1, <3>3, <4>1, TreesAre
        <4> QED
          BY <1>4, <4>1, <4>2 DEF Permits
      <3> QED
        BY <3>1, <3>2, <3>3
    <2>4. \A q \in unvisited' : \A r \in Above(q) \ unvisited' : r \notin unvisited
      <3> SUFFICES ASSUME NEW q \in unvisited', NEW r \in Above(q), r \in Below(p) PROVE FALSE
        BY <1>4
      <3>1. q \in Paths /\ r \in Paths /\ q \in Below(r)
        BY <1>0, <1>4, PathOrder
      <3>2. q \in Below(p)
        BY <1>3, <3>1, PathOrder
      <3> QED
        BY <1>4, <3>2
    <2>5. \A q \in Paths : Destination'[q] # Nothing => ~Prunes(q)'
      BY <1>0, <1>1, <2>1 DEF Prunes, Permits
    <2>6. SyncInv'
      BY <1>0, <1>1, <1>4, <2>1, <2>3, <2>4, <2>5 DEF SyncInv
    <2> QED
      BY <2>2, <2>6 DEF FilesInv
  <1>5. CASE /\ Permits(p, Source[p] = Directory) /\ ~Clashes(p)
             /\ SetDestination([Destination EXCEPT ![p] = Source[p]])
             /\ unvisited' = unvisited \ {p} /\ pc' = pc
    <2> DEFINE t == [Destination EXCEPT ![p] = Source[p]]
    <2>1. t \in Trees
      BY <1>0, <1>2, <1>3, <1>5, CopyHasRoom
    <2>2. t[p] = Source[p] /\ \A q \in Paths : q # p => t[q] = Destination[q]
      BY <1>1, <1>3, TreesAre
    <2>3. SetDestination(t)
      BY <1>5
    <2> HIDE DEF t
    <2>4. Destination' = t /\ Source' = Source /\ Exists'
      BY <1>0, <2>1, <2>3, SetsDestination
    <2>5. View(Source)' = View(Source)
      BY <1>0, <2>4 DEF View, Permits
    <2>6. TypeOK' /\ EventInv' /\ SyncedInv'
      BY <1>0, <1>5, <2>1, <2>3, <2>4, SyncStepKeeps
    <2>7. \A q \in Paths : Destination'[q] # Nothing => ~Prunes(q)'
      <3> SUFFICES ASSUME NEW q \in Paths, t[q] # Nothing
                   PROVE  Source[q] # Nothing /\ Permits(q, t[q] = Directory)
        BY <1>0, <2>4 DEF Prunes, Permits
      <3>1. CASE q = p
        BY <1>1, <1>5, <2>2, <3>1
      <3>2. CASE q # p
        BY <1>1, <2>2, <3>2 DEF Prunes
      <3> QED
        BY <3>1, <3>2
    <2>8. \A q \in Paths : View(Source)[q] # Nothing /\ q \notin unvisited' => t[q] = Source[q]
      BY <1>1, <1>5, <2>2
    <2>9. \A q \in unvisited' :
            Source[q] # Nothing /\ \A r \in Above(q) \ unvisited' : t[r] = Directory
      <3> TAKE q \in unvisited'
      <3>1. q \in unvisited /\ q \in Paths /\ Source[q] # Nothing
        BY <1>0, <1>1, <1>5
      <3>2. ASSUME NEW r \in Above(q) \ unvisited' PROVE t[r] = Directory
        <4>1. r \in Paths
          BY <3>1, PathOrder
        <4>2. CASE r = p
          BY <1>1, <2>2, <3>1, <4>2, TreesAre
        <4>3. CASE r # p
          BY <1>1, <1>5, <2>2, <3>1, <3>2, <4>1, <4>3
        <4> QED
          BY <4>2, <4>3
      <3> QED
        BY <3>1, <3>2
    <2>10. SyncInv'
      BY <1>0, <1>5, <2>4, <2>5, <2>7, <2>8, <2>9 DEF SyncInv
    <2> QED
      BY <2>6, <2>10 DEF FilesInv
  <1>6. CASE /\ ~Clashes(p) /\ Source[p] \in Files
             /\ SetDestination([Destination EXCEPT ![p] = CutShort])
             /\ pc' = "failed" /\ UNCHANGED unvisited
    <2>1. CutShort \in Files \cup {Directory} /\ (CutShort = Directory <=> Source[p] = Directory)
      BY <1>6, NodesDiffer DEF Files
    <2>2. [Destination EXCEPT ![p] = CutShort] \in Trees
      BY <1>0, <1>2, <1>6, <2>1, CopyHasRoom
    <2>3. TypeOK' /\ EventInv' /\ SyncedInv'
      BY <1>0, <1>6, <2>2, SyncStepKeeps
    <2>4. SyncInv'
      BY <1>6 DEF SyncInv
    <2> QED
      BY <2>3, <2>4 DEF FilesInv
  <1>7. CASE pc' = "failed" /\ UNCHANGED <<volume, pvcs, unvisited>>
    <2>1. TypeOK' /\ EventInv' /\ SyncedInv'
      BY <1>0, <1>7, SyncStepKeeps
    <2>2. SyncInv'
      BY <1>7 DEF SyncInv
    <2> QED
      BY <2>1, <2>2 DEF FilesInv
  <1> QED
    BY <1>2, <1>4, <1>5, <1>6, <1>7

-----------------------------------------------------------------------------
\* The steps of an event.

LEMMA StartStep ==
  ASSUME FilesInv, StartBackup \/ StartRestore
  PROVE  FilesInv'
  <1>1. /\ pvcs' \in UNION {[members -> Trees] : members \in SUBSET PVCs}
        /\ filter' \in Filters
        /\ direction' \in {"backup", "restore"} /\ pc' \in {"next", "verify"}
        /\ direction' = "restore" => filter' = NoFilter /\ pc' = "verify"
        /\ todo' = DOMAIN pvcs' /\ UNCHANGED <<volume, unvisited>>
    <2>1. WholeTrees \subseteq Trees
      BY DEF WholeTrees
    <2>2. CASE StartBackup
      <3>1. PICK members \in SUBSET PVCs : pvcs' \in [members -> WholeTrees]
        BY <2>2 DEF StartBackup
      <3>2. pvcs' \in [members -> Trees]
        BY <2>1, <3>1
      <3> QED
        BY <2>2, <3>2 DEF StartBackup
    <2>3. CASE StartRestore
      <3>1. PICK targets \in SUBSET PVCs : pvcs' \in [targets -> Trees]
        BY <2>3 DEF StartRestore
      <3>2. NoFilter \in Filters
        BY DEF NoFilter, Filters
      <3> QED
        BY <2>3, <3>1, <3>2 DEF StartRestore
    <2> QED
      BY <2>2, <2>3
  <1>2. DOMAIN pvcs' \subseteq PVCs /\ \A m \in DOMAIN pvcs' : pvcs'[m] \in Trees
    BY <1>1
  <1>3. TypeOK'
    BY <1>1, <1>2 DEF FilesInv, TypeOK, Members
  <1>4. EventInv' /\ SyncInv'
    <2>1. volume' = [m \in DOMAIN volume' |-> volume'[m]] /\ pvcs' = [m \in DOMAIN pvcs' |-> pvcs'[m]]
      <3>1. volume = [m \in DOMAIN volume |-> volume[m]] /\ volume' = volume
        BY <1>1 DEF FilesInv, EventInv
      <3>2. PICK members \in SUBSET PVCs : pvcs' \in [members -> Trees]
        BY <1>1
      <3> QED
        BY <3>1, <3>2
    <2> QED
      BY <1>1, <2>1 DEF EventInv, SyncInv, Working, Members
  <1>5. SyncedInv'
    BY <1>1 DEF SyncedInv, Synced, Working, Members
  <1> QED
    BY <1>3, <1>4, <1>5 DEF FilesInv

\* The event goes on without a tree changing.
LEMMA EventStep ==
  ASSUME FilesInv, VerifyOneToOneMapping \/ StartSync \/ Copied \/ Finish \/ Fails
  PROVE  FilesInv'
  <1>1. /\ TypeOK /\ EventInv /\ SyncInv /\ SyncedInv
        /\ UNCHANGED <<volume, pvcs, direction, filter>> /\ Members' = Members
        /\ pc' \in {"next", "root", "done", "failed"}
    BY DEF FilesInv, VerifyOneToOneMapping, StartSync, Copied, Finish, Fails, Members
  <1>2. TypeOK'
    <2>1. CASE StartSync
      BY <1>1, <2>1 DEF StartSync, TypeOK
    <2>2. CASE VerifyOneToOneMapping \/ Copied \/ Finish \/ Fails
      BY <1>1, <2>2 DEF VerifyOneToOneMapping, Copied, Finish, Fails, TypeOK
    <2> QED
      BY <2>1, <2>2
  <1>3. EventInv'
    <2>1. direction = "restore" /\ pc' \in Working => DOMAIN volume = Members
      BY <1>1 DEF VerifyOneToOneMapping, StartSync, Copied, Finish, Fails, EventInv, Working,
                  ListDirectory
    <2>2. pc' = "done" => todo' = {}
      BY <1>1 DEF VerifyOneToOneMapping, StartSync, Copied, Finish, Fails
    <2> QED
      BY <1>1, <2>1, <2>2 DEF EventInv
  <1>4. SyncInv'
    <2>1. CASE StartSync
      BY <1>1, <2>1 DEF StartSync, SyncInv
    <2>2. CASE VerifyOneToOneMapping \/ Copied \/ Finish \/ Fails
      BY <1>1, <2>2 DEF VerifyOneToOneMapping, Copied, Finish, Fails, SyncInv
    <2> QED
      BY <2>1, <2>2
  <1>5. \A dst, src : Holds(dst, src)' <=> Holds(dst, src)
    BY <1>1, ViewsStay
  <1>6. ASSUME pc' \in Working, NEW m \in Synced'
        PROVE  /\ m \in DOMAIN volume
               /\ IF IsBackup THEN Holds(volume[m], pvcs[m]) ELSE Holds(pvcs[m], volume[m])
    <2>1. (pc \in Working /\ m \in Synced) \/ (pc = "copy" /\ unvisited = {} /\ m = member)
      <3>1. m \in Members /\ m \notin todo' /\ (pc' = "root" => m # member')
        BY <1>1, <1>6 DEF Synced
      <3>2. ~Fails
        BY <1>6 DEF Fails, Working
      <3>3. CASE VerifyOneToOneMapping
        BY <1>1, <3>1, <3>3 DEF VerifyOneToOneMapping, EventInv
      <3>4. CASE StartSync
        BY <3>1, <3>4 DEF StartSync, Synced, Working
      <3>5. CASE Copied
        BY <3>1, <3>5 DEF Copied, Synced, Working
      <3>6. CASE Finish
        BY <3>1, <3>6 DEF Finish, Synced, Working
      <3> QED
        BY <3>2, <3>3, <3>4, <3>5, <3>6
    <2>2. CASE pc \in Working /\ m \in Synced
      BY <1>1, <2>2 DEF SyncedInv
    <2>3. CASE pc = "copy" /\ unvisited = {} /\ m = member
      <3>1. Holds(Destination, Source) /\ Exists /\ member \in Members
        BY <1>1, <2>3, CopiedHolds, TreesAtHand DEF EventInv
      <3>2. CASE IsBackup
        BY <2>3, <3>1, <3>2 DEF Destination, Source, Exists
      <3>3. CASE ~IsBackup
        <4>1. DOMAIN volume = Members
          BY <1>1, <2>3, <3>3 DEF EventInv, TypeOK, IsBackup, Working
        <4> QED
          BY <2>3, <3>1, <3>3, <4>1 DEF Destination, Source
      <3> QED
        BY <3>2, <3>3
    <2> QED
      BY <2>1, <2>2, <2>3
  <1>7. SyncedInv'
    <2>1. IsBackup' <=> IsBackup
      BY <1>1 DEF IsBackup
    <2>2. ASSUME pc' \in Working, NEW m \in Synced'
          PROVE  /\ m \in DOMAIN volume'
                 /\ IF IsBackup' THEN Holds(volume[m], pvcs[m])' ELSE Holds(pvcs[m], volume[m])'
      <3>1. PICK v, c : v = volume[m] /\ c = pvcs[m]
        OBVIOUS
      <3> QED
        BY <1>1, <1>5, <1>6, <2>1, <2>2, <3>1 DEF Holds, View, Permits
    <2> QED
      BY <2>2 DEF SyncedInv
  <1> QED
    BY <1>2, <1>3, <1>4, <1>7 DEF FilesInv

\* An event starts with no trees of its own.
LEMMA IdleInv ==
  ASSUME TypeOK, volume = [m \in DOMAIN volume |-> volume[m]],
         pvcs = <<>>, pc = "idle", filter = NoFilter
  PROVE  EventInv /\ SyncInv /\ SyncedInv
  <1>1. DOMAIN pvcs = {} /\ pvcs = [m \in {} |-> pvcs[m]]
    OBVIOUS
  <1> QED
    BY <1>1 DEF TypeOK, EventInv, SyncInv, SyncedInv, Working, Members

LEMMA InitStep == Init => FilesInv
  <1> SUFFICES ASSUME Init PROVE FilesInv
    OBVIOUS
  <1>1. DOMAIN volume = {} /\ DOMAIN pvcs = {} /\ volume = [m \in DOMAIN volume |-> volume[m]]
    BY DEF Init
  <1>2. TypeOK
    BY <1>1 DEF Init, TypeOK, NoFilter, Filters, Members
  <1> QED
    BY <1>1, <1>2, IdleInv DEF Init, FilesInv

LEMMA NextStep ==
  ASSUME FilesInv, [Next]_vars
  PROVE  FilesInv'
  <1>1. CASE StartBackup \/ StartRestore
    BY <1>1, StartStep
  <1>2. CASE DeleteMissing \/ DeletionFails
    BY <1>2, DeleteStep
  <1>8. CASE WalkRoot
    BY <1>8, RootStep
  <1>3. CASE Pruned
    BY <1>3, PrunedStep
  <1>4. CASE Copy
    BY <1>4, CopyStep
  <1>5. CASE VerifyOneToOneMapping \/ StartSync \/ Copied \/ Finish \/ Fails
    BY <1>5, EventStep
  <1>6. CASE Return
    <2>1. /\ volume' = volume /\ pvcs' = <<>> /\ pc' = "idle" /\ filter' = NoFilter /\ todo' = {}
          /\ unvisited' = {} /\ direction' = "backup" /\ DOMAIN pvcs' = {}
          /\ volume = [m \in DOMAIN volume |-> volume[m]]
      BY <1>6 DEF Return, FilesInv, EventInv
    <2>2. TypeOK'
      BY <2>1 DEF FilesInv, TypeOK, NoFilter, Filters, Members
    <2>3. EventInv' /\ SyncInv' /\ SyncedInv'
      BY <2>1 DEF EventInv, SyncInv, SyncedInv, Working, Members
    <2> QED
      BY <2>2, <2>3 DEF FilesInv
  <1>7. CASE UNCHANGED vars
    <2>1. UNCHANGED <<volume, pvcs, direction, filter, pc, todo, member, unvisited>>
      BY <1>7 DEF vars
    <2>2. Destination' = Destination /\ Source' = Source /\ Exists' = Exists /\ Members' = Members
          /\ (IsBackup' <=> IsBackup) /\ Synced' = Synced
      BY <2>1 DEF Destination, Source, Exists, IsBackup, Members, Synced
    <2>3. TypeOK' /\ EventInv'
      BY <2>1, <2>2 DEF FilesInv, TypeOK, EventInv
    <2>4. View(Source)' = View(Source) /\ \A p \in Paths : Prunes(p)' <=> Prunes(p)
      BY <2>1, <2>2 DEF View, Prunes, Permits
    <2>5. SyncInv'
      BY <2>1, <2>2, <2>4 DEF FilesInv, SyncInv
    <2>6. SyncedInv'
      BY <2>1, <2>2 DEF FilesInv, SyncedInv, Holds, View, Permits
    <2> QED
      BY <2>3, <2>5, <2>6 DEF FilesInv
  <1> QED
    BY <1>1, <1>2, <1>3, <1>4, <1>5, <1>6, <1>7, <1>8 DEF Next

LEMMA FilesAlways == Spec => []FilesInv
  <1>1. Init => FilesInv
    BY InitStep
  <1>2. FilesInv /\ [Next]_vars => FilesInv'
    BY NextStep
  <1> QED
    BY <1>1, <1>2, PTL DEF Spec

-----------------------------------------------------------------------------

\* The variables keep their types; in particular no event leaves a file without the
\* directories above it, on the DR volume or on a volume.
THEOREM TypeCorrectness == Spec => []TypeOK
  <1>1. FilesInv => TypeOK
    BY DEF FilesInv
  <1> QED
    BY <1>1, FilesAlways, PTL

\* A successful backup leaves in each member's directory the filtered view of that member,
\* whatever was there before: SyncFiles prunes what copyFiles will not overwrite.
THEOREM BackupsAreFilteredViews == Spec => []BackupIsFilteredView
  <1>1. FilesInv => BackupIsFilteredView
    <2> SUFFICES ASSUME FilesInv, pc = "done", IsBackup, NEW m \in Members, NEW p \in Paths
                 PROVE  \/ volume[m][p] = View(pvcs[m])[p]
                        \/ /\ volume[m][p] = Directory
                           /\ pvcs[m][p] \in Files
                           /\ \A q \in Below(p) \ {p} : volume[m][q] = Nothing
      BY DEF BackupIsFilteredView
    <2>1. m \in Synced /\ pc \in Working
      BY DEF FilesInv, EventInv, Synced, Working
    <2>2. Holds(volume[m], pvcs[m])
      BY <2>1 DEF FilesInv, SyncedInv
    <2> QED
      BY <2>2 DEF Holds
  <1> QED
    BY <1>1, FilesAlways, PTL

\* A successful restore leaves on each target exactly what was captured of it: its sync has
\* no filter, and VerifyOneToOneMapping has refused directories that are no target's.
THEOREM RestoresAreExact == Spec => []RestoreIsExact
  <1>1. FilesInv => RestoreIsExact
    <2> SUFFICES ASSUME FilesInv, pc = "done", ~IsBackup PROVE pvcs = volume
      BY DEF RestoreIsExact
    <2>1. /\ filter = NoFilter /\ DOMAIN volume = DOMAIN pvcs
          /\ volume = [m \in DOMAIN volume |-> volume[m]]
          /\ pvcs = [m \in DOMAIN pvcs |-> pvcs[m]]
      BY DEF FilesInv, TypeOK, EventInv, IsBackup, Working, Members
    <2>2. ASSUME NEW m \in DOMAIN pvcs PROVE pvcs[m] = volume[m]
      <3>1. PICK dst \in Trees, src \in Trees : dst = pvcs[m] /\ src = volume[m]
        BY <2>1, <2>2 DEF FilesInv, TypeOK, Members
      <3>2. Holds(dst, src)
        <4>1. m \in Synced /\ pc \in Working
          BY <2>2 DEF FilesInv, EventInv, Synced, Working, Members
        <4> QED
          BY <3>1, <4>1 DEF FilesInv, SyncedInv
      <3>3. \A p \in Paths : \A isDir : Permits(p, isDir)
        BY <2>1 DEF Permits, NoFilter
      <3>4. \A p \in Paths : View(src)[p] = src[p]
        BY <3>3, PathOrder DEF View
      <3>5. \A p \in Paths : dst[p] = src[p]
        BY <3>2, <3>3, <3>4 DEF Holds
      <3>6. dst \in [Paths -> Files \cup {Nothing, Directory}]
            /\ src \in [Paths -> Files \cup {Nothing, Directory}]
        BY TreesAre
      <3> QED
        BY <3>1, <3>5, <3>6
    <2> QED
      BY <2>1, <2>2
  <1> QED
    BY <1>1, FilesAlways, PTL

\* Nothing above a file that would be copied over another is pruned, nor that file.
LEMMA CopiesAreNotPruned ==
  ASSUME NEW src \in Trees, NEW dst \in Trees, src = Source, dst = Destination,
         NEW p \in Paths, NEW q \in Below(p), View(src)[q] \in Files, dst[q] \in Files
  PROVE  ~Prunes(p)
  <1>1. q \in Paths /\ (p = q \/ p \in Above(q))
    BY PathOrder
  <1>2. src[q] \in Files /\ Permits(q, src[q] = Directory) /\ \A r \in Above(q) : Permits(r, TRUE)
    BY <1>1, ViewIs, NodesDiffer
  <1>3. CASE p = q
    BY <1>2, <1>3, NodesDiffer DEF Prunes, Permits
  <1>4. CASE p \in Above(q)
    <2>1. src[p] = Directory /\ dst[p] = Directory /\ Permits(p, TRUE)
      BY <1>1, <1>2, <1>4, TreesAre, NodesDiffer
    <2> QED
      BY <2>1, NodesDiffer DEF Prunes, Permits
  <1> QED
    BY <1>1, <1>3, <1>4

\* No sync, one that fails half-way included, deletes a file that it would copy, unless its
\* filter excludes the root of the sync itself: deleteMissingFiles looks everything up in the
\* source first, through the filter.
THEOREM FilesAreKept == Spec => NeverDeletesWhatItCopies
  <1>1. ASSUME FilesInv, [Next]_vars, pc \in {"root", "prune", "copy"},
               ~(pc = "root" /\ ~Permits(Root, TRUE)), NEW p \in Paths,
               View(Source)[p] \in Files, Destination[p] \in Files
        PROVE  Destination'[p] \in Files
    <2>1. TypeOK /\ EventInv
      BY <1>1 DEF FilesInv
    <2>2. PICK src \in Trees, dst \in Trees : src = Source /\ dst = Destination
      BY <1>1, <2>1, TreesAtHand
    <2>3. View(src)[p] \in Files /\ dst[p] \in Files
      BY <1>1, <2>2
    <2>4. src[p] \in Files
      BY <2>3, ViewIs, NodesDiffer
    <2>5. \A t \in Trees : SetDestination(t) /\ UNCHANGED <<direction, member>> => Destination' = t
      BY <1>1, <2>1, SetsDestination
    <2>6. ASSUME NEW gone \in SUBSET Paths, NEW q \in Paths, gone \subseteq Below(q), Prunes(q)
          PROVE  p \notin gone
      BY <2>2, <2>3, <2>6, CopiesAreNotPruned
    <2>7. CASE DeleteMissing
      <3>1. PICK q \in unvisited :
              \/ UNCHANGED <<volume, pvcs>>
              \/ /\ Prunes(q)
                 /\ SetDestination([r \in Paths |-> IF r \in Below(q) THEN Nothing ELSE dst[r]])
        BY <2>2, <2>7 DEF DeleteMissing, Removes
      <3>2. q \in Paths /\ UNCHANGED <<direction, member>>
        BY <2>1, <2>7 DEF TypeOK, DeleteMissing
      <3>3. CASE UNCHANGED <<volume, pvcs>>
        BY <1>1, <3>2, <3>3, NothingMoves
      <3>4. CASE /\ Prunes(q)
                 /\ SetDestination([r \in Paths |-> IF r \in Below(q) THEN Nothing ELSE dst[r]])
        <4>1. Below(q) \subseteq Paths /\ \A r \in Below(q) : Below(r) \subseteq Below(q)
          BY <3>2, PathOrder
        <4>2. [r \in Paths |-> IF r \in Below(q) THEN Nothing ELSE dst[r]] \in Trees
          BY <4>1, PrunedTree
        <4>3. p \notin Below(q)
          BY <2>6, <3>2, <3>4, <4>1
        <4>4. Destination' = [r \in Paths |-> IF r \in Below(q) THEN Nothing ELSE dst[r]]
          BY <2>5, <3>2, <3>4, <4>2
        <4> QED
          BY <2>3, <4>3, <4>4
      <3> QED
        BY <3>1, <3>3, <3>4
    <2>8. CASE DeletionFails
      <3>1. PICK q \in unvisited : \E gone \in SUBSET (Below(q) \ {q}) :
              /\ Prunes(q)
              /\ \A r \in gone : Below(r) \subseteq gone
              /\ SetDestination([r \in Paths |-> IF r \in gone THEN Nothing ELSE dst[r]])
        BY <2>2, <2>8 DEF DeletionFails
      <3>2. PICK gone \in SUBSET (Below(q) \ {q}) :
              /\ Prunes(q)
              /\ \A r \in gone : Below(r) \subseteq gone
              /\ SetDestination([r \in Paths |-> IF r \in gone THEN Nothing ELSE dst[r]])
        BY <3>1
      <3>3. q \in Paths /\ UNCHANGED <<direction, member>> /\ gone \in SUBSET Paths
        BY <2>1, <2>8, PathOrder DEF TypeOK, DeletionFails
      <3>4. [r \in Paths |-> IF r \in gone THEN Nothing ELSE dst[r]] \in Trees
        BY <3>2, <3>3, PrunedTree
      <3>5. p \notin gone
        BY <2>6, <3>2, <3>3
      <3>6. Destination' = [r \in Paths |-> IF r \in gone THEN Nothing ELSE dst[r]]
        BY <2>5, <3>2, <3>3, <3>4
      <3> QED
        BY <2>3, <3>5, <3>6
    <2>9. CASE Pruned
      <3>1. SetDestination(dst) /\ UNCHANGED <<direction, member>>
        BY <2>2, <2>9 DEF Pruned
      <3> QED
        BY <2>3, <2>5, <3>1
    <2>10. CASE Copy
      <3>1. PICK q \in unvisited :
              \/ UNCHANGED <<volume, pvcs>>
              \/ \E node \in Files \cup {Directory} :
                   /\ Visits(q) /\ ~Clashes(q)
                   /\ (node = Directory) <=> (src[q] = Directory)
                   /\ SetDestination([dst EXCEPT ![q] = node])
        <4>1. \A q \in unvisited : src[q] \in Files \cup {Directory}
          <5> TAKE q \in unvisited
          <5>1. q \in Paths /\ pc = "copy"
            BY <2>1, <2>10 DEF TypeOK, Copy
          <5>2. src[q] # Nothing
            BY <1>1, <2>2, <5>1 DEF FilesInv, SyncInv
          <5> QED
            BY <5>1, <5>2, TreesAre
        <4>2. \A q \in unvisited : src[q] \in Files => (CutShort = Directory <=> src[q] = Directory)
          BY NodesDiffer
        <4>3. CutShort \in Files
          BY DEF Files
        <4> QED
          BY <2>2, <2>10, <4>1, <4>2, <4>3 DEF Copy
      <3>2. q \in Paths /\ UNCHANGED <<direction, member>> /\ pc = "copy"
        BY <2>1, <2>10 DEF TypeOK, Copy
      <3>3. CASE UNCHANGED <<volume, pvcs>>
        BY <1>1, <3>2, <3>3, NothingMoves
      <3>4. CASE \E node \in Files \cup {Directory} :
                   /\ Visits(q) /\ ~Clashes(q)
                   /\ (node = Directory) <=> (src[q] = Directory)
                   /\ SetDestination([dst EXCEPT ![q] = node])
        <4>1. PICK node \in Files \cup {Directory} :
                /\ Visits(q) /\ ~Clashes(q)
                /\ (node = Directory) <=> (src[q] = Directory)
                /\ SetDestination([dst EXCEPT ![q] = node])
          BY <3>4
        <4>2. [dst EXCEPT ![q] = node] \in Trees
          BY <1>1, <2>2, <3>2, <4>1, CopyHasRoom
        <4>3. Destination' = [dst EXCEPT ![q] = node]
          BY <2>5, <3>2, <4>1, <4>2
        <4>4. dst \in [Paths -> Files \cup {Nothing, Directory}]
          BY TreesAre
        <4>5. q = p => node \in Files
          BY <2>4, <4>1, NodesDiffer
        <4> QED
          BY <2>3, <4>3, <4>4, <4>5
      <3> QED
        BY <3>1, <3>3, <3>4
    <2>14. WalkRoot => UNCHANGED <<volume, pvcs, direction, member>>
      BY <1>1 DEF WalkRoot, RootIsPruned
    <2>11. CASE UNCHANGED <<volume, pvcs, direction, member>>
      BY <1>1, <2>11, NothingMoves
    <2>12. /\ ~StartBackup /\ ~StartRestore /\ ~VerifyOneToOneMapping
           /\ ~StartSync /\ ~Finish /\ ~Return
      BY <1>1 DEF StartBackup, StartRestore, VerifyOneToOneMapping, StartSync, Finish, Return
    <2>13. Copied \/ Fails \/ UNCHANGED vars => UNCHANGED <<volume, pvcs, direction, member>>
      BY DEF Copied, Fails, vars
    <2> QED
      BY <1>1, <2>7, <2>8, <2>9, <2>10, <2>11, <2>12, <2>13, <2>14 DEF Next
  <1>2. FilesInv /\ [Next]_vars =>
          [(pc \in {"root", "prune", "copy"}) =>
             \/ pc = "root" /\ ~Permits(Root, TRUE)
             \/ \A p \in Paths :
                  View(Source)[p] \in Files /\ Destination[p] \in Files =>
                    Destination'[p] \in Files]_vars
    BY <1>1
  <1> QED
    BY <1>2, FilesAlways, PTL DEF Spec, NeverDeletesWhatItCopies

=============================================================================
