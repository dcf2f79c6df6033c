-------------------------- MODULE ToolCallProofs --------------------------
(***************************************************************************)
(* Proofs about ToolCall, for any sources, managed roles, sizes of the     *)
(* pipe and the buffer, and any number of calls and faults: a dump that    *)
(* succeeds is complete, with exactly the statements ignored that are to   *)
(* be, a restore that succeeds is exact, and none replaces anything else.  *)
(***************************************************************************)
EXTENDS ToolCall, FiniteSetTheorems, WellFoundedInduction, TLAPS

LEMMA LeastExists ==
  ASSUME NEW n \in Nat, NEW S \in SUBSET (0..n), S # {}
  PROVE  \E m \in S : \A k \in S : m <= k
  <1> DEFINE Bounds == {0..k : k \in S}
             Less == StrictSubsetOrdering(Nat)
  <1>1. Bounds \subseteq FiniteSubsetsOf(Nat)
    <2>1. \A k \in 0..n : 0..k \in SUBSET Nat /\ IsFiniteSet(0..k)
      BY FS_Interval
    <2> QED
      BY <2>1 DEF FiniteSubsetsOf
  <1>2. PICK B \in Bounds : \A C \in Bounds : <<C, B>> \notin Less
    <2>1. Bounds # {}
      OBVIOUS
    <2>2. IsWellFoundedOn(Less, FiniteSubsetsOf(Nat))
      BY FS_StrictSubsetOrderingWellFounded
    <2> HIDE DEF Bounds, Less
    <2> QED
      BY <1>1, <2>1, <2>2, WFMin
  <1>3. PICK m \in S : B = 0..m
    OBVIOUS
  <1>4. ASSUME NEW k \in S, ~(m <= k) PROVE FALSE
    <2>1. 0..k \in SUBSET Nat /\ B \in SUBSET Nat /\ 0..k \in Bounds
      BY <1>3
    <2>2. 0..k \subseteq B /\ m \in B /\ m \notin 0..k
      BY <1>3, <1>4
    <2>3. <<0..k, B>> \in Less
      BY <2>1, <2>2 DEF StrictSubsetOrdering
    <2> QED
      BY <1>2, <2>1, <2>3
  <1> QED
    BY <1>4

\* What holds of 0, and of i + 1 if of i, holds up to n.
LEMMA UpTo ==
  ASSUME NEW n \in Nat, NEW S, 0 \in S, \A i \in 0..n : i \in S /\ i < n => i + 1 \in S
  PROVE  \A i \in 0..n : i \in S
  <1> SUFFICES ASSUME {i \in 0..n : i \notin S} # {} PROVE FALSE
    OBVIOUS
  <1>1. PICK m \in 0..n : m \notin S /\ \A k \in 0..n : k \notin S => m <= k
    <2> DEFINE T == {i \in 0..n : i \notin S}
    <2>1. T \in SUBSET (0..n) /\ T # {}
      OBVIOUS
    <2>2. PICK m \in T : \A k \in T : m <= k
      <3> HIDE DEF T
      <3> QED
        BY <2>1, LeastExists
    <2> QED
      BY <2>2
  <1>2. m # 0 /\ m - 1 \in 0..n /\ m - 1 \in S
    BY <1>1
  <1> QED
    BY <1>1, <1>2

-----------------------------------------------------------------------------
\* F is the first m of the sequences ss, one after another: blk and pos tell which element
\* of which of them each is.
Flat(F, ss, m) ==
  \E blk, pos \in [1..Len(F) -> Nat] :
    /\ \A k \in 1..Len(F) : /\ blk[k] \in 1..m /\ pos[k] \in 1..Len(ss[blk[k]])
                            /\ F[k] = ss[blk[k]][pos[k]]
    /\ \A k, l \in 1..Len(F) : k < l => blk[k] < blk[l] \/ (blk[k] = blk[l] /\ pos[k] < pos[l])
    /\ \A i \in 1..m : \A j \in 1..Len(ss[i]) : \E k \in 1..Len(F) : blk[k] = i /\ pos[k] = j

LEMMA FlatOne ==
  ASSUME NEW S, NEW ss \in Seq(Seq(S)), ss # <<>>
  PROVE  ss[1] \in Seq(S) /\ Flat(ss[1], ss, 1)
  <1>1. 1 \in 1..Len(ss) /\ ss[1] \in Seq(S)
    OBVIOUS
  <1> DEFINE F == ss[1]
             blk == [k \in 1..Len(F) |-> 1]
             pos == [k \in 1..Len(F) |-> k]
  <1>2. Len(F) \in Nat
    BY <1>1
  <1>3. /\ blk \in [1..Len(F) -> Nat] /\ pos \in [1..Len(F) -> Nat]
        /\ \A k \in 1..Len(F) : blk[k] = 1 /\ pos[k] = k
    BY <1>2
  <1> HIDE DEF blk, pos
  <1>4. /\ \A k \in 1..Len(F) : /\ blk[k] \in 1..1 /\ pos[k] \in 1..Len(ss[blk[k]])
                                /\ F[k] = ss[blk[k]][pos[k]]
        /\ \A k, l \in 1..Len(F) : k < l => blk[k] < blk[l] \/ (blk[k] = blk[l] /\ pos[k] < pos[l])
        /\ \A i \in 1..1 : \A j \in 1..Len(ss[i]) : \E k \in 1..Len(F) : blk[k] = i /\ pos[k] = j
    BY <1>2, <1>3
  <1> HIDE DEF F
  <1>5. Flat(F, ss, 1)
    <2> SUFFICES \E b, p \in [1..Len(F) -> Nat] :
          /\ \A k \in 1..Len(F) : /\ b[k] \in 1..1 /\ p[k] \in 1..Len(ss[b[k]])
                                  /\ F[k] = ss[b[k]][p[k]]
          /\ \A k, l \in 1..Len(F) : k < l => b[k] < b[l] \/ (b[k] = b[l] /\ p[k] < p[l])
          /\ \A i \in 1..1 : \A j \in 1..Len(ss[i]) : \E k \in 1..Len(F) : b[k] = i /\ p[k] = j
      BY DEF Flat
    <2> USE <1>3
    <2> WITNESS blk \in [1..Len(F) -> Nat], pos \in [1..Len(F) -> Nat]
    <2> QED
      BY <1>4
  <1> QED
    BY <1>1, <1>5 DEF F

LEMMA FlatMore ==
  ASSUME NEW S, NEW ss \in Seq(Seq(S)), NEW m \in Nat, m < Len(ss), NEW F \in Seq(S), Flat(F, ss, m)
  PROVE  F \o ss[m + 1] \in Seq(S) /\ Flat(F \o ss[m + 1], ss, m + 1)
  <1>1. PICK blk \in [1..Len(F) -> Nat], pos \in [1..Len(F) -> Nat] :
    /\ \A k \in 1..Len(F) : /\ blk[k] \in 1..m /\ pos[k] \in 1..Len(ss[blk[k]])
                            /\ F[k] = ss[blk[k]][pos[k]]
    /\ \A k, l \in 1..Len(F) : k < l => blk[k] < blk[l] \/ (blk[k] = blk[l] /\ pos[k] < pos[l])
    /\ \A i \in 1..m : \A j \in 1..Len(ss[i]) : \E k \in 1..Len(F) : blk[k] = i /\ pos[k] = j
    BY DEF Flat
  <1>2. m + 1 \in 1..Len(ss) /\ ss[m + 1] \in Seq(S)
    OBVIOUS
  <1> DEFINE G == F \o ss[m + 1]
             n == Len(F)
             newBlk == [k \in 1..Len(G) |-> IF k <= n THEN blk[k] ELSE m + 1]
             newPos == [k \in 1..Len(G) |-> IF k <= n THEN pos[k] ELSE k - n]
  <1>3. /\ G \in Seq(S) /\ n \in Nat /\ Len(ss[m + 1]) \in Nat /\ Len(G) = n + Len(ss[m + 1])
        /\ \A k \in 1..Len(G) : (k <= n => k \in 1..n) /\ (k > n => k - n \in 1..Len(ss[m + 1]))
        /\ \A k \in 1..n : G[k] = F[k]
        /\ \A k \in 1..Len(G) : k > n => G[k] = ss[m + 1][k - n]
    BY <1>2
  <1> HIDE DEF G, n
  <1>4. /\ newBlk \in [1..Len(G) -> Nat] /\ newPos \in [1..Len(G) -> Nat]
        /\ \A k \in 1..n : k \in 1..Len(G) /\ newBlk[k] = blk[k] /\ newPos[k] = pos[k]
        /\ \A k \in 1..Len(G) : k > n => newBlk[k] = m + 1 /\ newPos[k] = k - n
    <2>1. \A k \in 1..Len(G) :
            (IF k <= n THEN blk[k] ELSE m + 1) \in Nat /\ (IF k <= n THEN pos[k] ELSE k - n) \in Nat
      <3> TAKE k \in 1..Len(G)
      <3>1. CASE k <= n
        <4>1. k \in 1..Len(F)
          BY <1>3, <3>1 DEF n
        <4> QED
          BY <3>1, <4>1
      <3>2. CASE ~(k <= n)
        BY <1>3, <3>2
      <3> QED
        BY <3>1, <3>2
    <2>2. newBlk \in [1..Len(G) -> Nat] /\ newPos \in [1..Len(G) -> Nat]
      BY <2>1
    <2>3. \A k \in 1..n : k \in 1..Len(G) /\ newBlk[k] = blk[k] /\ newPos[k] = pos[k]
      BY <1>3
    <2>4. \A k \in 1..Len(G) : k > n => newBlk[k] = m + 1 /\ newPos[k] = k - n
      BY <1>3
    <2> QED
      BY <2>2, <2>3, <2>4
  <1> HIDE DEF newBlk, newPos
  <1>5. \A k \in 1..Len(G) : /\ newBlk[k] \in 1..(m + 1) /\ newPos[k] \in 1..Len(ss[newBlk[k]])
                             /\ G[k] = ss[newBlk[k]][newPos[k]]
    <2> TAKE k \in 1..Len(G)
    <2>1. CASE k <= n
      <3>1. k \in 1..n /\ k \in 1..Len(F)
        BY <1>3, <2>1 DEF n
      <3> QED
        BY <1>1, <1>3, <1>4, <3>1
    <2>2. CASE k > n
      <3>1. newBlk[k] = m + 1 /\ newPos[k] = k - n /\ k - n \in 1..Len(ss[m + 1])
        BY <1>3, <1>4, <2>2
      <3> QED
        BY <1>3, <2>2, <3>1
    <2> QED
      BY <1>3, <2>1, <2>2
  <1>6. \A k, l \in 1..Len(G) : k < l =>
          newBlk[k] < newBlk[l] \/ (newBlk[k] = newBlk[l] /\ newPos[k] < newPos[l])
    <2> SUFFICES ASSUME NEW k \in 1..Len(G), NEW l \in 1..Len(G), k < l
                 PROVE  newBlk[k] < newBlk[l] \/ (newBlk[k] = newBlk[l] /\ newPos[k] < newPos[l])
      OBVIOUS
    <2>1. CASE l <= n
      <3>1. k \in 1..n /\ l \in 1..n
        BY <1>3, <2>1
      <3> QED
        BY <1>1, <1>4, <3>1 DEF n
    <2>2. CASE k <= n /\ l > n
      <3>1. k \in 1..n
        BY <1>3, <2>2
      <3>2. blk[k] \in 1..m
        BY <1>1, <3>1 DEF n
      <3> QED
        BY <1>4, <2>2, <3>1, <3>2
    <2>3. CASE k > n
      <3>1. n \in Nat /\ k \in Nat /\ l \in Nat /\ l > n
        BY <1>3, <2>3
      <3>2. /\ newBlk[k] = m + 1 /\ newPos[k] = k - n
            /\ newBlk[l] = m + 1 /\ newPos[l] = l - n
        BY <1>4, <2>3, <3>1
      <3> QED
        BY <3>1, <3>2
    <2> QED
      BY <1>3, <2>1, <2>2, <2>3
  <1>7. \A i \in 1..(m + 1) : \A j \in 1..Len(ss[i]) : \E k \in 1..Len(G) : newBlk[k] = i /\ newPos[k] = j
    <2> SUFFICES ASSUME NEW i \in 1..(m + 1), NEW j \in 1..Len(ss[i])
                 PROVE  \E k \in 1..Len(G) : newBlk[k] = i /\ newPos[k] = j
      OBVIOUS
    <2>1. CASE i \in 1..m
      <3>1. PICK k \in 1..n : blk[k] = i /\ pos[k] = j
        BY <1>1, <2>1 DEF n
      <3> QED
        BY <1>4, <3>1
    <2>2. CASE i = m + 1
      <3>1. n + j \in 1..Len(G) /\ n + j > n /\ (n + j) - n = j
        BY <1>3, <2>2
      <3> QED
        BY <1>4, <2>2, <3>1
    <2> QED
      BY <2>1, <2>2
  <1>8. Flat(G, ss, m + 1)
    <2> SUFFICES \E b, p \in [1..Len(G) -> Nat] :
          /\ \A k \in 1..Len(G) : /\ b[k] \in 1..(m + 1) /\ p[k] \in 1..Len(ss[b[k]])
                                  /\ G[k] = ss[b[k]][p[k]]
          /\ \A k, l \in 1..Len(G) : k < l => b[k] < b[l] \/ (b[k] = b[l] /\ p[k] < p[l])
          /\ \A i \in 1..(m + 1) : \A j \in 1..Len(ss[i]) :
               \E k \in 1..Len(G) : b[k] = i /\ p[k] = j
      BY DEF Flat
    <2> USE <1>4
    <2> WITNESS newBlk \in [1..Len(G) -> Nat], newPos \in [1..Len(G) -> Nat]
    <2> QED
      BY <1>5, <1>6, <1>7
  <1> QED
    BY <1>3, <1>8 DEF G

LEMMA Flatten ==
  ASSUME NEW S, NEW ss \in Seq(Seq(S))
  PROVE  FlattenSeq(ss) \in Seq(S) /\ Flat(FlattenSeq(ss), ss, Len(ss))
  <1> DEFINE n == Len(ss)
             Sums(f, m) == f = [i \in 1..m |-> IF i = 1 THEN ss[i] ELSE f[i - 1] \o ss[i]]
  <1>1. n \in Nat
    OBVIOUS
  <1>2. CASE n = 0
    <2>1. FlattenSeq(ss) = ss /\ ss = <<>>
      BY <1>2 DEF FlattenSeq
    <2>2. ASSUME NEW F, Len(F) = 0 PROVE Flat(F, ss, 0)
      <3> DEFINE zeros == [k \in 1..Len(F) |-> 0]
      <3> SUFFICES \E b, p \in [1..Len(F) -> Nat] :
            /\ \A k \in 1..Len(F) : b[k] \in 1..0 /\ p[k] \in 1..Len(ss[b[k]]) /\ F[k] = ss[b[k]][p[k]]
            /\ \A k, l \in 1..Len(F) : k < l => b[k] < b[l] \/ (b[k] = b[l] /\ p[k] < p[l])
            /\ \A i \in 1..0 : \A j \in 1..Len(ss[i]) : \E k \in 1..Len(F) : b[k] = i /\ p[k] = j
        BY DEF Flat
      <3>1. zeros \in [1..Len(F) -> Nat]
        OBVIOUS
      <3>2. 1..Len(F) = {} /\ 1..0 = {}
        BY <2>2
      <3> HIDE DEF zeros
      <3> QED
        BY <3>1, <3>2
    <2>3. Len(ss) = 0 /\ ss \in Seq(S)
      BY <1>2, <2>1
    <2> QED
      BY <2>1, <2>2, <2>3
  <1>3. CASE n # 0
    <2>1. \E f : Sums(f, n)
      <3> DEFINE Defined == {m \in 0..n : \E f : Sums(f, m)}
      <3>1. 0 \in Defined
        <4>1. \A f : f = <<>> => f = [i \in 1..0 |-> IF i = 1 THEN ss[i] ELSE f[i - 1] \o ss[i]]
          OBVIOUS
        <4>2. \E f : f = [i \in 1..0 |-> IF i = 1 THEN ss[i] ELSE f[i - 1] \o ss[i]]
          BY <4>1
        <4>3. 0 \in 0..n
          BY <1>1
        <4> HIDE DEF n
        <4> QED
          BY <4>2, <4>3, Zenon
      <3>2. ASSUME NEW m \in 0..n, m \in Defined, m < n PROVE m + 1 \in Defined
        <4>1. PICK f : f = [i \in 1..m |-> IF i = 1 THEN ss[i] ELSE f[i - 1] \o ss[i]]
          BY <3>2
        <4> DEFINE g == [i \in 1..(m + 1) |-> IF i = 1 THEN ss[i] ELSE f[i - 1] \o ss[i]]
        <4>2. \A i \in 1..m : g[i] = f[i]
          <5> TAKE i \in 1..m
          <5>1. f[i] = IF i = 1 THEN ss[i] ELSE f[i - 1] \o ss[i]
            BY <4>1
          <5>2. i \in 1..(m + 1)
            OBVIOUS
          <5> QED
            BY <5>1, <5>2
        <4>3. \A i \in 1..(m + 1) : i # 1 => g[i - 1] = f[i - 1]
          <5> HIDE DEF g
          <5> QED
            BY <4>2
        <4>4. g = [i \in 1..(m + 1) |-> IF i = 1 THEN ss[i] ELSE g[i - 1] \o ss[i]]
          <5>1. \A i \in 1..(m + 1) : (IF i = 1 THEN ss[i] ELSE f[i - 1] \o ss[i])
                                      = (IF i = 1 THEN ss[i] ELSE g[i - 1] \o ss[i])
            <6> HIDE DEF g
            <6> QED
              BY <4>3
          <5>2. DOMAIN g = 1..(m + 1) /\ \A i \in 1..(m + 1) : g[i] = IF i = 1 THEN ss[i] ELSE g[i - 1] \o ss[i]
            BY <5>1
          <5>3. g = [i \in 1..(m + 1) |-> g[i]]
            OBVIOUS
          <5> HIDE DEF g
          <5> QED
            BY <5>2, <5>3
        <4>5. \E h : Sums(h, m + 1)
          <5> HIDE DEF g
          <5> QED
            BY <4>4
        <4>6. m + 1 \in 0..n
          BY <1>1, <3>2
        <4> QED
          BY <4>5, <4>6
      <3>3. n \in Defined
        <4> HIDE DEF Defined, n
        <4>1. \A i \in 0..n : i \in Defined
          BY <1>1, <3>1, <3>2, UpTo
        <4> QED
          BY <1>1, <4>1
      <3> QED
        BY <3>3
    <2> DEFINE sums == CHOOSE f : Sums(f, n)
    <2>2. Sums(sums, n)
      BY <2>1
    <2>3. FlattenSeq(ss) = sums[n]
      BY <1>3 DEF FlattenSeq
    <2>4. sums = [i \in 1..n |-> IF i = 1 THEN ss[i] ELSE sums[i - 1] \o ss[i]]
      BY <2>2
    <2> HIDE DEF sums, Sums
    <2>5. \A i \in 1..n : sums[i] = IF i = 1 THEN ss[i] ELSE sums[i - 1] \o ss[i]
      BY <2>4
    <2>6. n \in {m \in Nat : m >= 1 => sums[m] \in Seq(S) /\ Flat(sums[m], ss, m)}
      <3> DEFINE Good == {m \in Nat : m >= 1 => sums[m] \in Seq(S) /\ Flat(sums[m], ss, m)}
      <3>1. 0 \in Good
        OBVIOUS
      <3>2. ASSUME NEW m \in 0..n, m \in Good, m < n PROVE m + 1 \in Good
        <4>1. m + 1 \in 1..n /\ m + 1 \in Nat
          BY <1>1, <3>2
        <4>2. CASE m = 0
          <5>1. sums[1] = ss[1] /\ ss # <<>>
            BY <1>1, <1>3, <2>5, <4>1, <4>2
          <5>2. ss[1] \in Seq(S) /\ Flat(ss[1], ss, 1)
            BY <5>1, FlatOne
          <5> QED
            BY <4>2, <5>1, <5>2
        <4>3. CASE m # 0
          <5>0. sums[m + 1] = IF m + 1 = 1 THEN ss[m + 1] ELSE sums[(m + 1) - 1] \o ss[m + 1]
            BY <2>5, <4>1
          <5>1. sums[m + 1] = sums[m] \o ss[m + 1]
            <6>1. m + 1 # 1 /\ (m + 1) - 1 = m
              BY <4>1, <4>3
            <6> QED
              BY <5>0, <6>1
          <5>2. m \in Nat /\ sums[m] \in Seq(S) /\ Flat(sums[m], ss, m) /\ m < Len(ss)
            BY <3>2, <4>3
          <5>3. sums[m] \o ss[m + 1] \in Seq(S) /\ Flat(sums[m] \o ss[m + 1], ss, m + 1)
            BY <5>2, FlatMore
          <5> QED
            BY <4>1, <5>1, <5>3
        <4> QED
          BY <4>2, <4>3
      <3> HIDE DEF Good, n
      <3>3. \A i \in 0..n : i \in Good
        BY <1>1, <3>1, <3>2, UpTo
      <3>4. n \in Good
        BY <1>1, <3>3
      <3> QED
        BY <3>4 DEF Good
    <2> QED
      BY <1>1, <1>3, <2>3, <2>6
  <1> QED
    BY <1>2, <1>3

-----------------------------------------------------------------------------
\* The lines of a dump.

Things(s) == Roles(s) \cup Databases(s)
Texts(s) == UNION {ToSet(s.rows[db]) : db \in Databases(s)}
LinesOf(s) ==
  {Statement(verb, n) : verb \in Verbs, n \in Things(s)}
    \cup {Setting(n) : n \in Roles(s)} \cup {Grant(n, m) : n \in Roles(s), m \in Roles(s)}
    \cup {Row(db, text) : db \in Databases(s), text \in Texts(s)}

\* The block that brings back n.
Created(s, n) == IF n \in Roles(s) THEN RoleLines(s, n) ELSE DatabaseLines(s, n)

\* Is a line one that drops or creates what it is about?
Renews(line) == line.kind = "statement" /\ line.verb \in {"drop", "create"}

LEMMA Concatenation ==
  ASSUME NEW S, NEW A \in Seq(S), NEW B \in Seq(S)
  PROVE  /\ A \o B \in Seq(S) /\ Len(A \o B) = Len(A) + Len(B)
         /\ \A i \in 1..Len(A) : (A \o B)[i] = A[i]
         /\ \A i \in 1..Len(B) : (A \o B)[Len(A) + i] = B[i]
  OBVIOUS

LEMMA RoleBlock ==
  ASSUME NEW s \in Sources, NEW n \in Roles(s)
  PROVE  /\ RoleLines(s, n) \in Seq(LinesOf(s)) /\ 1 \in 1..Len(RoleLines(s, n))
         /\ \A p \in 1..Len(RoleLines(s, n)) :
              RoleLines(s, n)[p] = Statement(<<"create", "alter", "comment">>[p], n)
         /\ Len(RoleLines(s, n)) <= 3
  <1>1. \A verb \in Verbs : Statement(verb, n) \in LinesOf(s)
    BY DEF LinesOf, Things
  <1>2. PICK c, a, m : c = Statement("create", n) /\ a = Statement("alter", n) /\ m = Statement("comment", n)
    OBVIOUS
  <1>3. c \in LinesOf(s) /\ a \in LinesOf(s) /\ m \in LinesOf(s)
    BY <1>1, <1>2 DEF Verbs
  <1>4. RoleLines(s, n) = <<c, a>> \o (IF n \in s.commented THEN <<m>> ELSE <<>>)
    BY <1>2 DEF RoleLines
  <1>5. /\ RoleLines(s, n) \in Seq(LinesOf(s)) /\ Len(RoleLines(s, n)) \in {2, 3}
        /\ RoleLines(s, n)[1] = c /\ RoleLines(s, n)[2] = a
        /\ Len(RoleLines(s, n)) = 3 => RoleLines(s, n)[3] = m
    BY <1>3, <1>4
  <1>6. <<"create", "alter", "comment">>[1] = "create" /\ <<"create", "alter", "comment">>[2] = "alter"
        /\ <<"create", "alter", "comment">>[3] = "comment"
    OBVIOUS
  <1>7. \A p \in 1..Len(RoleLines(s, n)) : p = 1 \/ p = 2 \/ (p = 3 /\ Len(RoleLines(s, n)) = 3)
    <2>1. PICK l : l = Len(RoleLines(s, n)) /\ (l = 2 \/ l = 3)
      BY <1>5
    <2>2. \A p \in 1..l : p = 1 \/ p = 2 \/ (p = 3 /\ l = 3)
      BY <2>1
    <2> QED
      BY <2>1, <2>2
  <1> QED
    BY <1>2, <1>5, <1>6, <1>7

LEMMA DatabaseBlock ==
  ASSUME NEW s \in Sources, NEW n \in Databases(s)
  PROVE  /\ DatabaseLines(s, n) \in Seq(LinesOf(s)) /\ 1 \in 1..Len(DatabaseLines(s, n))
         /\ DatabaseLines(s, n)[1] = Statement("create", n)
         /\ \A p \in 1..Len(DatabaseLines(s, n)) :
              p # 1 => DatabaseLines(s, n)[p].kind = "row" /\ DatabaseLines(s, n)[p].of = n
  <1>1. Statement("create", n) \in LinesOf(s)
    BY DEF LinesOf, Things, Verbs
  <1> DEFINE rows == [i \in DOMAIN s.rows[n] |-> Row(n, s.rows[n][i])]
  <1>2. s.rows[n] \in Seq(ToSet(s.rows[n]))
    BY SourcesAssumption
  <1>3. PICK texts : texts = s.rows[n] /\ texts \in Seq(ToSet(texts))
    BY <1>2
  <1>4. \A i \in 1..Len(texts) : Row(n, texts[i]) \in LinesOf(s)
    <2> TAKE i \in 1..Len(texts)
    <2>1. texts[i] \in ToSet(texts)
      BY <1>3
    <2>2. texts[i] \in Texts(s)
      BY <1>3, <2>1 DEF Texts
    <2> QED
      BY <2>2 DEF LinesOf
  <1>5. /\ rows \in Seq(LinesOf(s)) /\ Len(rows) = Len(texts)
        /\ \A i \in 1..Len(texts) : rows[i] = Row(n, texts[i])
    <2>1. rows = [i \in 1..Len(texts) |-> Row(n, texts[i])] /\ Len(texts) \in Nat
      BY <1>3
    <2> QED
      BY <1>4, <2>1
  <1>6. \A i \in 1..Len(rows) : rows[i].kind = "row" /\ rows[i].of = n
    BY <1>5 DEF Row
  <1> HIDE DEF rows
  <1>7. PICK c : c = Statement("create", n)
    OBVIOUS
  <1>8. DatabaseLines(s, n) = <<c>> \o rows
    BY <1>7 DEF DatabaseLines, rows
  <1>9. /\ DatabaseLines(s, n) \in Seq(LinesOf(s)) /\ Len(DatabaseLines(s, n)) = 1 + Len(rows)
        /\ DatabaseLines(s, n)[1] = c
        /\ \A p \in 1..Len(DatabaseLines(s, n)) :
             p # 1 => p - 1 \in 1..Len(rows) /\ DatabaseLines(s, n)[p] = rows[p - 1]
    <2>1. c \in LinesOf(s) /\ rows \in Seq(LinesOf(s))
      BY <1>1, <1>5, <1>7
    <2> QED
      BY <1>8, <2>1
  <1>10. Len(rows) \in Nat
    BY <1>5
  <1> QED
    BY <1>6, <1>7, <1>9, <1>10

\* The settings and the memberships.
LEMMA ConfigurationBlock ==
  ASSUME NEW s \in Sources
  PROVE  /\ Configurations(s) \in Seq(LinesOf(s))
         /\ \A p \in 1..Len(Configurations(s)) :
              /\ Configurations(s)[p].kind \in {"setting", "grant"}
              /\ Configurations(s)[p].of \in Roles(s)
  <1>1. PICK S, M : S = s.settings /\ M = s.members
    OBVIOUS
  <1>2. S \in Seq(Roles(s)) /\ M \in Seq(Roles(s) \X Roles(s))
    BY <1>1, SourcesAssumption
  <1> DEFINE set == [i \in 1..Len(S) |-> Setting(S[i])]
             granted == [i \in 1..Len(M) |-> Grant(M[i][1], M[i][2])]
             Good == {line \in LinesOf(s) : line.kind \in {"setting", "grant"} /\ line.of \in Roles(s)}
  <1>3. \A i \in 1..Len(S) : Setting(S[i]) \in Good
    <2>1. \A n \in Roles(s) : Setting(n) \in LinesOf(s) /\ Setting(n).kind = "setting" /\ Setting(n).of = n
      BY DEF LinesOf, Setting
    <2> QED
      BY <1>2, <2>1
  <1>4. \A i \in 1..Len(M) : Grant(M[i][1], M[i][2]) \in Good
    <2>1. \A n, m \in Roles(s) : Grant(n, m) \in LinesOf(s) /\ Grant(n, m).kind = "grant" /\ Grant(n, m).of = n
      BY DEF LinesOf, Grant
    <2>2. \A i \in 1..Len(M) : M[i][1] \in Roles(s) /\ M[i][2] \in Roles(s)
      BY <1>2
    <2> QED
      BY <2>1, <2>2
  <1>5. Len(S) \in Nat /\ Len(M) \in Nat
    BY <1>2
  <1> HIDE DEF Good
  <1>6. set \in Seq(Good)
    BY <1>3, <1>5
  <1>7. granted \in Seq(Good)
    BY <1>4, <1>5
  <1>8. Configurations(s) = set \o granted
    <2>1. DOMAIN S = 1..Len(S) /\ DOMAIN M = 1..Len(M)
      BY <1>2
    <2> QED
      BY <1>1, <2>1 DEF Configurations
  <1> HIDE DEF set, granted
  <1>12. set \o granted \in Seq(Good)
    BY <1>6, <1>7, Concatenation
  <1>9. PICK C : C = Configurations(s) /\ C \in Seq(Good)
    BY <1>8, <1>12
  <1>10. \A p \in 1..Len(C) : C[p] \in Good
    BY <1>9
  <1>11. C \in Seq(LinesOf(s))
    BY <1>9, <1>10 DEF Good
  <1> QED
    BY <1>9, <1>10, <1>11 DEF Good

LEMMA CreatedLines ==
  ASSUME NEW s \in Sources, NEW n \in Things(s)
  PROVE  /\ Created(s, n) \in Seq(LinesOf(s)) /\ 1 \in 1..Len(Created(s, n))
         /\ Created(s, n)[1] = Statement("create", n)
         /\ \A p \in 1..Len(Created(s, n)) :
              Created(s, n)[p].of = n /\ (p # 1 => ~Renews(Created(s, n)[p]))
         /\ n \in Roles(s) =>
              \A p \in 1..Len(Created(s, n)) :
                p <= 3 /\ Created(s, n)[p] = Statement(<<"create", "alter", "comment">>[p], n)
  <1>1. CASE n \in Roles(s)
    <2>1. Created(s, n) = RoleLines(s, n)
      BY <1>1 DEF Created
    <2>2. <<"create", "alter", "comment">>[1] = "create" /\ <<"create", "alter", "comment">>[2] = "alter"
          /\ <<"create", "alter", "comment">>[3] = "comment"
      OBVIOUS
    <2>3. \A p \in 1..Len(RoleLines(s, n)) : p = 1 \/ p = 2 \/ p = 3
      BY <1>1, RoleBlock
    <2>4. \A p \in 1..Len(RoleLines(s, n)) :
            RoleLines(s, n)[p] = Statement(<<"create", "alter", "comment">>[p], n)
      BY <1>1, RoleBlock
    <2>5. \A p \in 1..Len(RoleLines(s, n)) :
            RoleLines(s, n)[p].of = n /\ (p # 1 => ~Renews(RoleLines(s, n)[p]))
      <3> TAKE p \in 1..Len(RoleLines(s, n))
      <3>1. PICK verb : verb = <<"create", "alter", "comment">>[p] /\ (p # 1 => verb \in {"alter", "comment"})
        BY <2>2, <2>3
      <3>2. RoleLines(s, n)[p] = Statement(verb, n)
        BY <2>4, <3>1
      <3> QED
        BY <3>1, <3>2 DEF Statement, Renews
    <2>6. \A p \in 1..Len(RoleLines(s, n)) : p <= 3
      BY <2>3
    <2>7. /\ RoleLines(s, n) \in Seq(LinesOf(s)) /\ 1 \in 1..Len(RoleLines(s, n))
          /\ RoleLines(s, n)[1] = Statement("create", n)
      BY <1>1, <2>2, RoleBlock
    <2> QED
      BY <2>1, <2>4, <2>5, <2>6, <2>7
  <1>2. CASE n \notin Roles(s)
    <2>1. Created(s, n) = DatabaseLines(s, n) /\ n \in Databases(s)
      BY <1>2 DEF Created, Things
    <2> QED
      BY <1>2, <2>1, DatabaseBlock DEF Statement, Renews
  <1> QED
    BY <1>1, <1>2

\* The databases in some order.
LEMMA DatabasesInOrder ==
  ASSUME NEW s \in Sources
  PROVE  /\ SetToSeq(Databases(s)) \in Seq(Databases(s))
         /\ \A db \in Databases(s) :
              \E i \in 1..Len(SetToSeq(Databases(s))) : SetToSeq(Databases(s))[i] = db
         /\ \A i, j \in 1..Len(SetToSeq(Databases(s))) :
              SetToSeq(Databases(s))[i] = SetToSeq(Databases(s))[j] => i = j
  <1>1. PICK D : D = Databases(s) /\ IsFiniteSet(D)
    BY SourcesAssumption
  <1>2. Cardinality(D) \in Nat /\ ExistsBijection(1..Cardinality(D), D)
    BY <1>1, FS_CardinalityType
  <1>3. \E f \in [1..Cardinality(D) -> D] : IsInjective(f)
    BY <1>2 DEF ExistsBijection, Bijection, Injection
  <1>4. PICK f : f = SetToSeq(D)
    OBVIOUS
  <1>5. f \in [1..Cardinality(D) -> D] /\ IsInjective(f)
    BY <1>3, <1>4 DEF SetToSeq
  <1>6. f \in Surjection(1..Cardinality(D), D)
    <2>1. f \in Injection(1..Cardinality(D), D)
      BY <1>5 DEF Injection
    <2>2. Cardinality(1..Cardinality(D)) = Cardinality(D)
      BY <1>2, FS_Interval
    <2> QED
      BY <1>1, <2>1, <2>2, FS_Injection
  <1>7. f \in Seq(D) /\ Len(f) = Cardinality(D)
    BY <1>2, <1>5
  <1>8. \A db \in D : \E i \in 1..Len(f) : f[i] = db
    BY <1>6, <1>7 DEF Surjection
  <1>9. \A i, j \in 1..Len(f) : f[i] = f[j] => i = j
    BY <1>5, <1>7 DEF IsInjective
  <1> QED
    BY <1>1, <1>4, <1>7, <1>8, <1>9

\* The first blocks drop what is there, the others but the one that configures roles bring
\* it back, each thing in one block: name tells which.  Roles come before those whose names
\* begin with theirs, and when they are brought back before they are configured, and
\* databases after.
Layout(s, first, last, name) ==
  /\ first < last
  /\ \A b \in 1..Len(Blocks(s)) :
       /\ b # last => name[b] \in Things(s)
       /\ b <= first => Blocks(s)[b] = <<Statement("drop", name[b])>>
       /\ b = last => Blocks(s)[b] = Configurations(s)
       /\ b > first /\ b # last => Blocks(s)[b] = Created(s, name[b])
       /\ b > last => name[b] \notin Roles(s)
  /\ \A n \in Things(s) : \E b \in 1..Len(Blocks(s)) : b > first /\ b # last /\ name[b] = n
  /\ \A a, b \in 1..Len(Blocks(s)) :
       a < b /\ a # last /\ b # last /\ (b <= first \/ a > first) =>
         /\ name[a] # name[b]
         /\ name[a] \in Roles(s) /\ name[b] \in Roles(s) => <<name[a], name[b]>> \notin Longer
         /\ a > first /\ name[b] \in Roles(s) => name[a] \in Roles(s)

LEMMA BlocksLayout ==
  ASSUME NEW s \in Sources
  PROVE  /\ Blocks(s) \in Seq(Seq(LinesOf(s)))
         /\ \E first, last \in Nat : \E name : Layout(s, first, last, name)
  <1> DEFINE L == LinesOf(s)
  <1>1. PICK D, R : D = SetToSeq(Databases(s)) /\ R = s.roles
    OBVIOUS
  <1>2. PICK nd, nr : nd = Len(D) /\ nr = Len(R)
    OBVIOUS
  <1>3. /\ D \in Seq(Databases(s)) /\ nd \in Nat
        /\ \A db \in Databases(s) : \E i \in 1..nd : D[i] = db
        /\ \A i, j \in 1..nd : D[i] = D[j] => i = j
    BY <1>1, <1>2, DatabasesInOrder
  <1>4. /\ R \in Seq(Roles(s)) /\ nr \in Nat
        /\ \A n \in Roles(s) : \E i \in 1..nr : R[i] = n
        /\ \A i, j \in 1..nr : i < j => R[i] # R[j] /\ <<R[i], R[j]>> \notin Longer
    <2>0. R \in Seq(Roles(s))
      BY <1>1, SourcesAssumption
    <2>1. R \in Seq(Roles(s)) /\ nr \in Nat /\ DOMAIN R = 1..nr
      BY <1>2, <2>0
    <2>2. \A i, j \in DOMAIN R : i < j => R[i] # R[j] /\ <<R[i], R[j]>> \notin Longer
      BY <1>1, SourcesAssumption
    <2>3. \A n \in Roles(s) : \E i \in 1..nr : R[i] = n
      BY <1>1, <2>1 DEF Roles, ToSet
    <2> QED
      BY <2>1, <2>2, <2>3
  <1>5. Databases(s) \cap Roles(s) = {}
    BY SourcesAssumption
  <1> DEFINE A == [i \in 1..nd |-> <<Statement("drop", D[i])>>]
             B == [i \in 1..nr |-> <<Statement("drop", R[i])>>]
             C == [i \in 1..nr |-> RoleLines(s, R[i])]
             K == <<Configurations(s)>>
             E == [i \in 1..nd |-> DatabaseLines(s, D[i])]
  <1>6. Blocks(s) = A \o B \o C \o K \o E
    <2>1. DOMAIN D = 1..nd /\ DOMAIN R = 1..nr
      BY <1>2, <1>3, <1>4
    <2> QED
      BY <1>1, <2>1 DEF Blocks
  <1>7. /\ A \in Seq(Seq(L)) /\ Len(A) = nd /\ \A i \in 1..nd : A[i] = <<Statement("drop", D[i])>>
        /\ B \in Seq(Seq(L)) /\ Len(B) = nr /\ \A i \in 1..nr : B[i] = <<Statement("drop", R[i])>>
        /\ C \in Seq(Seq(L)) /\ Len(C) = nr /\ \A i \in 1..nr : C[i] = Created(s, R[i])
        /\ K \in Seq(Seq(L)) /\ Len(K) = 1 /\ K[1] = Configurations(s)
        /\ E \in Seq(Seq(L)) /\ Len(E) = nd /\ \A i \in 1..nd : E[i] = Created(s, D[i])
    <2>1. \A n \in Things(s) : Statement("drop", n) \in L
      BY DEF LinesOf, Verbs
    <2>2. \A n \in Things(s) : <<Statement("drop", n)>> \in Seq(L) /\ Created(s, n) \in Seq(L)
      <3> HIDE DEF L
      <3> TAKE n \in Things(s)
      <3>1. PICK d : d = Statement("drop", n) /\ d \in L
        BY <2>1
      <3>2. <<d>> \in Seq(L)
        BY <3>1
      <3>3. Created(s, n) \in Seq(L)
        BY CreatedLines DEF L
      <3> QED
        BY <3>1, <3>2, <3>3
    <2>3. \A i \in 1..nd : D[i] \in Things(s) /\ D[i] \notin Roles(s)
      BY <1>2, <1>3, <1>5 DEF Things
    <2>4. \A i \in 1..nr : R[i] \in Things(s) /\ R[i] \in Roles(s)
      BY <1>2, <1>4 DEF Things
    <2>5. \A i \in 1..nd : DatabaseLines(s, D[i]) = Created(s, D[i])
      BY <2>3 DEF Created
    <2>6. \A i \in 1..nr : RoleLines(s, R[i]) = Created(s, R[i])
      BY <2>4 DEF Created
    <2>7. \A i \in 1..nd : <<Statement("drop", D[i])>> \in Seq(L) /\ DatabaseLines(s, D[i]) \in Seq(L)
      BY <2>2, <2>3, <2>5
    <2>8. \A i \in 1..nr : <<Statement("drop", R[i])>> \in Seq(L) /\ RoleLines(s, R[i]) \in Seq(L)
      BY <2>2, <2>4, <2>6
    <2> HIDE DEF L
    <2>9. A \in Seq(Seq(L)) /\ Len(A) = nd
      BY <1>3, <2>7
    <2>10. B \in Seq(Seq(L)) /\ Len(B) = nr
      BY <1>4, <2>8
    <2>11. C \in Seq(Seq(L)) /\ Len(C) = nr /\ \A i \in 1..nr : C[i] = Created(s, R[i])
      BY <1>4, <2>6, <2>8
    <2>12. E \in Seq(Seq(L)) /\ Len(E) = nd /\ \A i \in 1..nd : E[i] = Created(s, D[i])
      BY <1>3, <2>5, <2>7
    <2>13. K \in Seq(Seq(L)) /\ Len(K) = 1 /\ K[1] = Configurations(s)
      <3>1. PICK conf : conf = Configurations(s) /\ conf \in Seq(L)
        BY ConfigurationBlock DEF L
      <3>2. <<conf>> \in Seq(Seq(L)) /\ Len(<<conf>>) = 1 /\ <<conf>>[1] = conf
        BY <3>1
      <3> QED
        BY <3>1, <3>2
    <2> QED
      BY <2>9, <2>10, <2>11, <2>12, <2>13
  <1> HIDE DEF A, B, C, K, E, L
  <1>8. PICK X : X = Blocks(s)
    OBVIOUS
  <1> DEFINE k1 == nd
             k2 == nd + nr
             k3 == nd + nr + nr
             last == nd + nr + nr + 1
             k4 == nd + nr + nr + 1 + nd
  <1>9. /\ X \in Seq(Seq(L)) /\ Len(X) = k4
        /\ \A b \in 1..k4 : /\ b <= k1 => b \in 1..nd /\ X[b] = A[b]
                            /\ b > k1 /\ b <= k2 => b - k1 \in 1..nr /\ X[b] = B[b - k1]
                            /\ b > k2 /\ b <= k3 => b - k2 \in 1..nr /\ X[b] = C[b - k2]
                            /\ b = last => X[b] = Configurations(s)
                            /\ b > last => b - last \in 1..nd /\ X[b] = E[b - last]
    <2>1. PICK AB : AB = A \o B
      OBVIOUS
    <2>2. PICK ABC : ABC = AB \o C
      OBVIOUS
    <2>3. /\ AB \in Seq(Seq(L)) /\ Len(AB) = k2
          /\ \A i \in 1..nd : AB[i] = A[i]
          /\ \A i \in 1..nr : AB[k1 + i] = B[i]
      <3>1. A \in Seq(Seq(L)) /\ B \in Seq(Seq(L))
        BY <1>7
      <3>2. /\ A \o B \in Seq(Seq(L)) /\ Len(A \o B) = Len(A) + Len(B)
            /\ \A i \in 1..Len(A) : (A \o B)[i] = A[i]
            /\ \A i \in 1..Len(B) : (A \o B)[Len(A) + i] = B[i]
        BY <3>1, Concatenation
      <3> QED
        BY <1>7, <2>1, <3>2
    <2>4. /\ ABC \in Seq(Seq(L)) /\ Len(ABC) = k3
          /\ \A i \in 1..k2 : ABC[i] = AB[i]
          /\ \A i \in 1..nr : ABC[k2 + i] = C[i]
      <3>1. /\ AB \o C \in Seq(Seq(L)) /\ Len(AB \o C) = Len(AB) + Len(C)
            /\ \A i \in 1..Len(AB) : (AB \o C)[i] = AB[i]
            /\ \A i \in 1..Len(C) : (AB \o C)[Len(AB) + i] = C[i]
        <4>1. AB \in Seq(Seq(L)) /\ C \in Seq(Seq(L))
          BY <1>7, <2>3
        <4> QED
          BY <4>1, Concatenation
      <3> QED
        BY <1>7, <2>2, <2>3, <3>1
    <2>5. PICK ABCK : ABCK = ABC \o K
      OBVIOUS
    <2>6. /\ ABCK \in Seq(Seq(L)) /\ Len(ABCK) = last
          /\ \A i \in 1..k3 : ABCK[i] = ABC[i]
          /\ ABCK[last] = Configurations(s)
      <3>1. /\ ABC \o K \in Seq(Seq(L)) /\ Len(ABC \o K) = Len(ABC) + Len(K)
            /\ \A i \in 1..Len(ABC) : (ABC \o K)[i] = ABC[i]
            /\ \A i \in 1..Len(K) : (ABC \o K)[Len(ABC) + i] = K[i]
        <4>1. ABC \in Seq(Seq(L)) /\ K \in Seq(Seq(L))
          BY <1>7, <2>4
        <4> QED
          BY <4>1, Concatenation
      <3>2. ABCK[k3 + 1] = K[1] /\ k3 + 1 = last
        BY <1>7, <2>4, <2>5, <3>1
      <3> QED
        BY <1>7, <2>4, <2>5, <3>1, <3>2
    <2>11. X = ABCK \o E
      BY <1>6, <1>8, <2>1, <2>2, <2>5
    <2>12. /\ X \in Seq(Seq(L)) /\ Len(X) = k4
           /\ \A i \in 1..last : X[i] = ABCK[i]
           /\ \A i \in 1..nd : X[last + i] = E[i]
      <3>1. /\ ABCK \o E \in Seq(Seq(L)) /\ Len(ABCK \o E) = Len(ABCK) + Len(E)
            /\ \A i \in 1..Len(ABCK) : (ABCK \o E)[i] = ABCK[i]
            /\ \A i \in 1..Len(E) : (ABCK \o E)[Len(ABCK) + i] = E[i]
        <4>1. ABCK \in Seq(Seq(L)) /\ E \in Seq(Seq(L))
          BY <1>7, <2>6
        <4> QED
          BY <4>1, Concatenation
      <3> QED
        BY <1>7, <2>6, <2>11, <3>1
    <2>13. \A i \in 1..k3 : X[i] = ABC[i]
      <3> TAKE i \in 1..k3
      <3>1. i \in 1..last
        BY <1>3, <1>4
      <3> QED
        BY <2>6, <2>12, <3>1
    <2> SUFFICES ASSUME NEW b \in 1..k4
                 PROVE  /\ b <= k1 => b \in 1..nd /\ X[b] = A[b]
                        /\ b > k1 /\ b <= k2 => b - k1 \in 1..nr /\ X[b] = B[b - k1]
                        /\ b > k2 /\ b <= k3 => b - k2 \in 1..nr /\ X[b] = C[b - k2]
                        /\ b = last => X[b] = Configurations(s)
                        /\ b > last => b - last \in 1..nd /\ X[b] = E[b - last]
      BY <2>12
    <2>7. ASSUME b <= k1 PROVE b \in 1..nd /\ X[b] = A[b]
      <3>1. b \in 1..nd /\ b \in 1..k2 /\ b \in 1..k3
        BY <1>3, <1>4, <2>7
      <3> QED
        BY <2>3, <2>4, <2>13, <3>1
    <2>8. ASSUME b > k1, b <= k2 PROVE b - k1 \in 1..nr /\ X[b] = B[b - k1]
      <3>1. b - k1 \in 1..nr /\ b \in 1..k2 /\ b \in 1..k3 /\ k1 + (b - k1) = b
        BY <1>3, <1>4, <2>8
      <3>2. AB[k1 + (b - k1)] = B[b - k1]
        BY <2>3, <3>1
      <3> QED
        BY <2>4, <2>13, <3>1, <3>2
    <2>9. ASSUME b > k2, b <= k3 PROVE b - k2 \in 1..nr /\ X[b] = C[b - k2]
      <3>1. b - k2 \in 1..nr /\ b \in 1..k3 /\ k2 + (b - k2) = b
        BY <1>3, <1>4, <2>9
      <3>2. ABC[k2 + (b - k2)] = C[b - k2]
        BY <2>4, <3>1
      <3> QED
        BY <2>13, <3>1, <3>2
    <2>10. ASSUME b > last PROVE b - last \in 1..nd /\ X[b] = E[b - last]
      <3>1. b - last \in 1..nd /\ last + (b - last) = b
        BY <1>3, <1>4, <2>10
      <3>2. X[last + (b - last)] = E[b - last]
        BY <2>12, <3>1
      <3> QED
        BY <3>1, <3>2
    <2>14. ASSUME b = last PROVE X[b] = Configurations(s)
      <3>1. last \in 1..last
        BY <1>3, <1>4
      <3> QED
        BY <2>6, <2>12, <2>14, <3>1
    <2> QED
      BY <2>7, <2>8, <2>9, <2>10, <2>14
  <1> DEFINE name == [b \in 1..k4 |-> IF b <= k1 THEN D[b] ELSE IF b <= k2 THEN R[b - k1]
                                      ELSE IF b <= k3 THEN R[b - k2] ELSE D[b - last]]
  <1>10. \A b \in 1..k4 : /\ b <= k1 => name[b] = D[b]
                          /\ b > k1 /\ b <= k2 => name[b] = R[b - k1]
                          /\ b > k2 /\ b <= k3 => name[b] = R[b - k2]
                          /\ b > last => name[b] = D[b - last]
    BY <1>3, <1>4
  <1>11. \A b \in 1..k4 : /\ b <= k1 \/ b > last => name[b] \in Databases(s)
                          /\ b > k1 /\ b <= k3 => name[b] \in Roles(s)
    <2> HIDE DEF name
    <2>1. \A i \in 1..nd : D[i] \in Databases(s)
      BY <1>2, <1>3
    <2>2. \A i \in 1..nr : R[i] \in Roles(s)
      BY <1>2, <1>4
    <2>3. nd \in Nat /\ nr \in Nat
      BY <1>3, <1>4
    <2> TAKE b \in 1..k4
    <2>4. CASE b <= k1
      <3>1. b \in 1..nd /\ name[b] = D[b] /\ ~(b > k1)
        BY <1>10, <2>3, <2>4
      <3> QED
        BY <2>1, <3>1
    <2>5. CASE b > k1 /\ b <= k2
      <3>1. b - k1 \in 1..nr /\ name[b] = R[b - k1] /\ ~(b <= k1) /\ ~(b > last)
        BY <1>10, <2>3, <2>5
      <3> QED
        BY <2>2, <3>1
    <2>6. CASE b > k2 /\ b <= k3
      <3>1. b - k2 \in 1..nr /\ name[b] = R[b - k2] /\ ~(b <= k1) /\ ~(b > last)
        BY <1>10, <2>3, <2>6
      <3> QED
        BY <2>2, <3>1
    <2>7. CASE b > last
      <3>1. b - last \in 1..nd /\ name[b] = D[b - last] /\ ~(b <= k3)
        BY <1>10, <2>3, <2>7
      <3> QED
        BY <2>1, <3>1
    <2> QED
      BY <2>3, <2>4, <2>5, <2>6, <2>7
  <1>12. \A b \in 1..k4 : b # last => name[b] \in Things(s)
    <2> HIDE DEF name
    <2>1. \A b \in 1..k4 : b # last => b <= k1 \/ (b > k1 /\ b <= k3) \/ b > last
      BY <1>3, <1>4
    <2> QED
      BY <1>11, <2>1 DEF Things
  <1> HIDE DEF name
  <1>13. \A b \in 1..k4 : /\ b <= k2 => X[b] = <<Statement("drop", name[b])>>
                          /\ b = last => X[b] = Configurations(s)
                          /\ b > k2 /\ b # last => X[b] = Created(s, name[b])
                          /\ b > last => name[b] \notin Roles(s)
    <2> TAKE b \in 1..k4
    <2>1. CASE b <= k1
      <3>1. b # last /\ b <= k2 /\ ~(b > k2) /\ ~(b > last)
        BY <1>3, <1>4, <2>1
      <3> QED
        BY <1>7, <1>9, <1>10, <2>1, <3>1
    <2>2. CASE b > k1 /\ b <= k2
      <3>1. b # last /\ ~(b > k2) /\ ~(b > last)
        BY <1>3, <1>4, <2>2
      <3> QED
        BY <1>7, <1>9, <1>10, <2>2, <3>1
    <2>3. CASE b > k2 /\ b <= k3
      <3>1. b # last /\ ~(b <= k2) /\ ~(b > last)
        BY <1>3, <1>4, <2>3
      <3> QED
        BY <1>7, <1>9, <1>10, <2>3, <3>1
    <2>4. CASE b > last
      <3>1. b # last
        BY <1>3, <1>4, <2>4
      <3>2. b - last \in 1..nd /\ X[b] = E[b - last] /\ name[b] = D[b - last]
        BY <1>9, <1>10, <2>4, <3>1
      <3>3. b > k2 /\ ~(b <= k2)
        BY <1>3, <1>4, <2>4
      <3>4. name[b] \notin Roles(s)
        BY <1>5, <1>11, <2>4, <3>1
      <3> QED
        BY <1>7, <3>1, <3>2, <3>3, <3>4
    <2>5. CASE b = last
      <3>1. ~(b <= k2) /\ ~(b > last)
        BY <1>3, <1>4, <2>5
      <3> QED
        BY <1>9, <2>5, <3>1
    <2> QED
      BY <1>3, <1>4, <2>1, <2>2, <2>3, <2>4, <2>5
  <1>14. \A n \in Things(s) : \E b \in 1..k4 : b > k2 /\ b # last /\ name[b] = n
    <2> TAKE n \in Things(s)
    <2>1. CASE n \in Roles(s)
      <3>1. PICK i \in 1..nr : R[i] = n
        BY <1>4, <2>1
      <3>2. k2 + i \in 1..k4 /\ k2 + i # last /\ k2 + i > k2 /\ k2 + i <= k3 /\ (k2 + i) - k2 = i
        BY <1>3, <1>4, <3>1
      <3> QED
        BY <1>10, <3>1, <3>2
    <2>2. CASE n \in Databases(s)
      <3>1. PICK i \in 1..nd : D[i] = n
        BY <1>3, <2>2
      <3>2. last + i \in 1..k4 /\ last + i # last /\ last + i > k2 /\ last + i > last /\ (last + i) - last = i
        BY <1>3, <1>4, <3>1
      <3> QED
        BY <1>10, <3>1, <3>2
    <2> QED
      BY <2>1, <2>2 DEF Things
  <1>15. ASSUME NEW a \in 1..k4, NEW b \in 1..k4, a < b, a # last, b # last, b <= k2 \/ a > k2
         PROVE  /\ name[a] # name[b]
                /\ name[a] \in Roles(s) /\ name[b] \in Roles(s) => <<name[a], name[b]>> \notin Longer
                /\ a > k2 /\ name[b] \in Roles(s) => name[a] \in Roles(s)
    <2>0. nd \in Nat /\ nr \in Nat
      BY <1>3, <1>4
    <2>1. CASE b <= k1
      <3>1. name[a] = D[a] /\ name[b] = D[b] /\ a \in 1..nd /\ b \in 1..nd /\ ~(a > k2)
        BY <1>9, <1>10, <1>15, <2>0, <2>1
      <3>2. name[a] \in Databases(s)
        BY <1>11, <1>15, <2>0, <2>1
      <3> QED
        BY <1>3, <1>5, <1>15, <3>1, <3>2
    <2>2. CASE a <= k1 /\ b > k1
      <3>1. name[a] \in Databases(s) /\ name[b] \in Roles(s) /\ ~(a > k2)
        BY <1>11, <1>15, <2>0, <2>2
      <3> QED
        BY <1>5, <3>1
    <2>3. CASE a > k1 /\ b <= k2
      <3>1. name[a] = R[a - k1] /\ name[b] = R[b - k1] /\ a - k1 \in 1..nr /\ b - k1 \in 1..nr
            /\ a - k1 < b - k1 /\ ~(a > k2)
        BY <1>9, <1>10, <1>15, <2>0, <2>3
      <3> QED
        BY <1>4, <3>1
    <2>4. CASE a > k2 /\ b <= k3
      <3>1. name[a] = R[a - k2] /\ name[b] = R[b - k2] /\ a - k2 \in 1..nr /\ b - k2 \in 1..nr
            /\ a - k2 < b - k2 /\ name[a] \in Roles(s)
        BY <1>9, <1>10, <1>11, <1>15, <2>0, <2>4
      <3> QED
        BY <1>4, <3>1
    <2>5. CASE a > k2 /\ a <= k3 /\ b > last
      <3>1. name[a] \in Roles(s) /\ name[b] \in Databases(s)
        BY <1>11, <1>15, <2>0, <2>5
      <3> QED
        BY <1>5, <3>1
    <2>6. CASE a > last
      <3>1. name[a] = D[a - last] /\ name[b] = D[b - last] /\ a - last \in 1..nd /\ b - last \in 1..nd
            /\ a - last # b - last
        BY <1>9, <1>10, <1>15, <2>0, <2>6
      <3>2. name[b] \in Databases(s)
        BY <1>11, <1>15, <2>0, <2>6
      <3> QED
        BY <1>3, <1>5, <3>1, <3>2
    <2> QED
      BY <1>15, <2>0, <2>1, <2>2, <2>3, <2>4, <2>5, <2>6
  <1>16. k2 \in Nat /\ last \in Nat /\ k2 < last /\ Len(Blocks(s)) = k4
    BY <1>3, <1>4, <1>8, <1>9
  <1>17. Layout(s, k2, last, name)
    <2> HIDE DEF k2, k4, last
    <2> QED
      BY <1>8, <1>12, <1>13, <1>14, <1>15, <1>16 DEF Layout
  <1>18. Blocks(s) \in Seq(Seq(LinesOf(s)))
    BY <1>8, <1>9 DEF L
  <1> HIDE DEF k2, k4, last
  <1> QED
    BY <1>16, <1>17, <1>18

LEMMA Fields ==
  ASSUME NEW verb, NEW n
  PROVE  /\ Statement(verb, n).kind = "statement" /\ Statement(verb, n).of = n
         /\ Statement(verb, n).verb = verb /\ Statement(verb, n).name = n
         /\ Renews(Statement(verb, n)) <=> verb \in {"drop", "create"}
  BY DEF Statement, Renews

\* What a script says of its lines: what each is about, where things are created, and that
\* no line before a statement about a managed role matches the entry for it.
LEMMA ScriptFacts ==
  ASSUME NEW s \in Sources
  PROVE  /\ Script(s) \in Seq(LinesOf(s))
         /\ \A i \in 1..Len(Script(s)) : Script(s)[i].of \in Things(s)
         /\ \A n \in Things(s) : \E c \in 1..Len(Script(s)) : Script(s)[c] = Statement("create", n)
         /\ \A n \in Things(s) : \A c, i \in 1..Len(Script(s)) :
              Script(s)[c] = Statement("create", n) /\ Script(s)[i].of = n =>
                (i > c <=> ~Renews(Script(s)[i]))
         /\ \A n \in Things(s) : \A c, i \in 1..Len(Script(s)) :
              Script(s)[c] = Statement("create", n) /\ Is(Script(s)[i], "drop") => i < c
         /\ \A i \in 1..Len(Script(s)) : IsLeftOut(Script(s)[i]) =>
              \E verb \in Verbs : Script(s)[i] = Statement(verb, Script(s)[i].of)
         /\ \A m \in Managed, verb \in Verbs : \A i, j \in 1..Len(Script(s)) :
              j < i /\ Script(s)[i] = Statement(verb, m) =>
                ~HasPrefix(Script(s)[j], [verb |-> verb, name |-> m])
  <1>1. PICK X, T : X = Blocks(s) /\ T = Script(s)
    OBVIOUS
  <1>2. /\ T \in Seq(LinesOf(s)) /\ X \in Seq(Seq(LinesOf(s))) /\ Flat(T, X, Len(X))
    BY <1>1, BlocksLayout, Flatten DEF Script
  <1>22. PICK first \in Nat, last \in Nat : \E name : Layout(s, first, last, name)
    BY <1>1, BlocksLayout
  <1>3. PICK name : Layout(s, first, last, name)
    BY <1>22
  <1>4. PICK blk, pos \in [1..Len(T) -> Nat] :
    /\ \A k \in 1..Len(T) : /\ blk[k] \in 1..Len(X) /\ pos[k] \in 1..Len(X[blk[k]])
                            /\ T[k] = X[blk[k]][pos[k]]
    /\ \A k, l \in 1..Len(T) : k < l => blk[k] < blk[l] \/ (blk[k] = blk[l] /\ pos[k] < pos[l])
    /\ \A i \in 1..Len(X) : \A j \in 1..Len(X[i]) : \E k \in 1..Len(T) : blk[k] = i /\ pos[k] = j
    BY <1>2 DEF Flat
  <1>5. /\ first < last
        /\ \A b \in 1..Len(X) : /\ b # last => name[b] \in Things(s)
                                /\ b <= first => X[b] = <<Statement("drop", name[b])>>
                                /\ b = last => X[b] = Configurations(s)
                                /\ b > first /\ b # last => X[b] = Created(s, name[b])
                                /\ b > last => name[b] \notin Roles(s)
    BY <1>1, <1>3 DEF Layout
  <1>6. \A k \in 1..Len(T) : blk[k] <= first =>
          /\ pos[k] = 1
          /\ T[k] = Statement("drop", name[blk[k]])
    <2> TAKE k \in 1..Len(T)
    <2> HAVE blk[k] <= first
    <2>1. X[blk[k]] = <<Statement("drop", name[blk[k]])>>
      BY <1>4, <1>5
    <2>2. PICK d : d = Statement("drop", name[blk[k]])
      OBVIOUS
    <2>3. Len(<<d>>) = 1 /\ <<d>>[1] = d
      OBVIOUS
    <2>4. pos[k] \in 1..1 /\ T[k] = <<d>>[pos[k]]
      BY <1>4, <2>1, <2>2, <2>3
    <2> QED
      BY <2>2, <2>3, <2>4
  <1>7. \A k \in 1..Len(T) : blk[k] > first /\ blk[k] # last =>
          /\ pos[k] \in 1..Len(Created(s, name[blk[k]]))
          /\ T[k] = Created(s, name[blk[k]])[pos[k]]
    BY <1>4, <1>5
  <1>20. \A k \in 1..Len(T) : blk[k] = last =>
           /\ T[k].kind \in {"setting", "grant"} /\ T[k].of \in Roles(s) /\ ~Renews(T[k])
    <2> TAKE k \in 1..Len(T)
    <2> HAVE blk[k] = last
    <2>1. pos[k] \in 1..Len(Configurations(s)) /\ T[k] = Configurations(s)[pos[k]]
      BY <1>4, <1>5
    <2> QED
      BY <2>1, ConfigurationBlock DEF Renews
  <1>8. \A k \in 1..Len(T) : blk[k] # last => name[blk[k]] \in Things(s) /\ T[k].of = name[blk[k]]
    <2> TAKE k \in 1..Len(T)
    <2> HAVE blk[k] # last
    <2>1. name[blk[k]] \in Things(s)
      BY <1>4, <1>5
    <2>2. CASE blk[k] <= first
      <3>1. T[k] = Statement("drop", name[blk[k]])
        BY <1>6, <2>2
      <3> QED
        BY <2>1, <3>1, Fields
    <2>3. CASE blk[k] > first
      <3>1. \A p \in 1..Len(Created(s, name[blk[k]])) : Created(s, name[blk[k]])[p].of = name[blk[k]]
        BY <2>1, CreatedLines
      <3>2. /\ pos[k] \in 1..Len(Created(s, name[blk[k]]))
            /\ T[k] = Created(s, name[blk[k]])[pos[k]]
        BY <1>7, <2>3
      <3> QED
        BY <2>1, <3>1, <3>2
    <2> QED
      BY <1>4, <2>2, <2>3
  <1>9. \A k \in 1..Len(T) : blk[k] # last => (Renews(T[k]) <=> pos[k] = 1)
    <2> TAKE k \in 1..Len(T)
    <2> HAVE blk[k] # last
    <2>1. CASE blk[k] <= first
      <3>1. pos[k] = 1 /\ T[k] = Statement("drop", name[blk[k]])
        BY <1>6, <2>1
      <3> QED
        BY <3>1, Fields
    <2>2. CASE blk[k] > first
      <3>1. name[blk[k]] \in Things(s)
        BY <1>8
      <3>2. pos[k] = 1 => Renews(T[k])
        <4>1. Created(s, name[blk[k]])[1] = Statement("create", name[blk[k]])
          BY <3>1, CreatedLines
        <4>2. pos[k] = 1 => T[k] = Statement("create", name[blk[k]])
          BY <1>7, <2>2, <4>1
        <4> QED
          BY <4>2, Fields
      <3>3. pos[k] # 1 => ~Renews(T[k])
        BY <1>7, <2>2, <3>1, CreatedLines
      <3> QED
        BY <3>2, <3>3
    <2> QED
      BY <1>4, <2>1, <2>2
  <1>10. \A n \in Things(s) : \E c \in 1..Len(T) : T[c] = Statement("create", n)
    <2> TAKE n \in Things(s)
    <2>1. PICK b \in 1..Len(X) : b > first /\ b # last /\ name[b] = n
      BY <1>1, <1>3 DEF Layout
    <2>2. X[b] = Created(s, n) /\ 1 \in 1..Len(X[b])
      BY <1>5, <2>1, CreatedLines
    <2>3. PICK c \in 1..Len(T) : blk[c] = b /\ pos[c] = 1
      BY <1>4, <2>2
    <2>4. T[c] = Created(s, n)[1]
      BY <1>4, <2>2, <2>3
    <2> QED
      BY <2>4, CreatedLines
  <1>11. \A a, b \in 1..Len(X) : a < b /\ a # last /\ b # last /\ (b <= first \/ a > first) =>
           /\ name[a] # name[b]
           /\ name[a] \in Roles(s) /\ name[b] \in Roles(s) => <<name[a], name[b]>> \notin Longer
           /\ a > first /\ name[b] \in Roles(s) => name[a] \in Roles(s)
    BY <1>1, <1>3 DEF Layout
  <1>12. \A n \in Things(s) : \A c, i \in 1..Len(T) :
           T[c] = Statement("create", n) /\ T[i].of = n => (i > c <=> ~Renews(T[i]))
    <2> SUFFICES ASSUME NEW n \in Things(s), NEW c \in 1..Len(T), NEW i \in 1..Len(T),
                        T[c] = Statement("create", n), T[i].of = n
                 PROVE  i > c <=> ~Renews(T[i])
      OBVIOUS
    <2>0. Renews(T[c]) /\ T[c].of = n /\ T[c].verb = "create"
      BY DEF Statement, Renews
    <2>1. /\ blk[c] > first /\ blk[c] # last /\ pos[c] = 1 /\ name[blk[c]] = n
          /\ blk[i] # last => name[blk[i]] = n
      <3>1. blk[c] # last
        BY <1>20, <2>0
      <3>2. ~(blk[c] <= first)
        BY <1>6, <2>0, Fields
      <3>3. blk[c] \in Nat
        BY <1>4
      <3> QED
        BY <1>3, <1>8, <1>9, <2>0, <3>1, <3>2, <3>3
    <2>2. blk[c] \in 1..Len(X) /\ blk[i] \in 1..Len(X) /\ pos[i] \in Nat /\ pos[i] >= 1
      <3>1. pos[i] \in 1..Len(X[blk[i]]) /\ pos[i] \in Nat
        BY <1>4
      <3> QED
        BY <1>4, <3>1
    <2>3. /\ i < c => blk[i] < blk[c] \/ (blk[i] = blk[c] /\ pos[i] < pos[c])
          /\ c < i => blk[c] < blk[i] \/ (blk[c] = blk[i] /\ pos[c] < pos[i])
      BY <1>4
    <2>4. CASE blk[i] <= first
      <3>1. blk[i] # last
        BY <1>3, <1>5, <2>2, <2>4
      <3> QED
        BY <1>6, <1>9, <2>1, <2>2, <2>3, <2>4, <3>1
    <2>6. CASE blk[i] = last
      <3>1. ~Renews(T[i]) /\ n \in Roles(s)
        BY <1>20, <2>6
      <3>2. blk[c] < blk[i]
        BY <1>3, <1>5, <2>1, <2>2, <2>6, <3>1
      <3> QED
        BY <2>2, <2>3, <3>1, <3>2
    <2>5. CASE blk[i] > first /\ blk[i] # last
      <3>1. blk[i] = blk[c]
        <4>1. /\ blk[i] < blk[c] => name[blk[i]] # name[blk[c]]
              /\ blk[c] < blk[i] => name[blk[c]] # name[blk[i]]
          BY <1>11, <2>1, <2>2, <2>5
        <4> QED
          BY <2>1, <2>2, <2>5, <4>1
      <3>2. Renews(T[i]) <=> pos[i] = 1
        BY <1>9, <2>5
      <3> QED
        BY <2>1, <2>2, <2>3, <3>1, <3>2
    <2> QED
      BY <2>2, <2>4, <2>5, <2>6
  <1>21. \A n \in Things(s) : \A c, i \in 1..Len(T) :
           T[c] = Statement("create", n) /\ Is(T[i], "drop") => i < c
    <2> SUFFICES ASSUME NEW n \in Things(s), NEW c \in 1..Len(T), NEW i \in 1..Len(T),
                        T[c] = Statement("create", n), Is(T[i], "drop")
                 PROVE  i < c
      OBVIOUS
    <2>1. T[c].verb = "create" /\ T[i].kind = "statement" /\ T[i].verb = "drop" /\ Renews(T[i])
      BY Fields DEF Is, Renews
    <2>2. blk[c] \in Nat /\ blk[i] \in Nat
      BY <1>4
    <2>3. ~(blk[c] <= first)
      BY <1>6, <2>1, Fields
    <2>4. blk[i] # last
      BY <1>20, <2>1
    <2>5. blk[i] <= first
      <3> SUFFICES ASSUME blk[i] > first PROVE FALSE
        BY <2>2
      <3>1. name[blk[i]] \in Things(s) /\ pos[i] = 1
        BY <1>8, <1>9, <2>1, <2>4
      <3>2. Created(s, name[blk[i]])[1] = Statement("create", name[blk[i]])
        BY <3>1, CreatedLines
      <3>3. T[i] = Statement("create", name[blk[i]])
        BY <1>7, <2>4, <3>1, <3>2
      <3> QED
        BY <2>1, <3>3, Fields
    <2>6. ~(c < i)
      <3>1. c < i => blk[c] < blk[i] \/ blk[c] = blk[i]
        BY <1>4
      <3> QED
        BY <2>2, <2>3, <2>5, <3>1
    <2>7. c # i
      BY <2>1
    <2> QED
      BY <2>6, <2>7
  <1>13. Managed \subseteq Roles(s) /\ Roles(s) \subseteq Things(s)
    BY SourcesAssumption DEF Things
  <1>14. \A k \in 1..Len(T) : blk[k] > first /\ blk[k] # last /\ name[blk[k]] \in Roles(s) =>
           pos[k] \in 1..3 /\ T[k] = Statement(<<"create", "alter", "comment">>[pos[k]], name[blk[k]])
    <2> TAKE k \in 1..Len(T)
    <2> HAVE blk[k] > first /\ blk[k] # last /\ name[blk[k]] \in Roles(s)
    <2>1. pos[k] \in 1..Len(Created(s, name[blk[k]])) /\ T[k] = Created(s, name[blk[k]])[pos[k]]
      BY <1>7
    <2>2. pos[k] <= 3 /\ T[k] = Statement(<<"create", "alter", "comment">>[pos[k]], name[blk[k]])
      BY <1>8, <2>1, CreatedLines
    <2> QED
      BY <2>1, <2>2
  <1>15. <<"create", "alter", "comment">>[1] = "create" /\ <<"create", "alter", "comment">>[2] = "alter"
         /\ <<"create", "alter", "comment">>[3] = "comment"
    OBVIOUS
  <1>16. \A i \in 1..Len(T) : IsLeftOut(T[i]) =>
           \E verb \in Verbs : T[i] = Statement(verb, T[i].of)
    <2> TAKE i \in 1..Len(T)
    <2> HAVE IsLeftOut(T[i])
    <2>0. T[i].of \in Managed /\ blk[i] # last
      BY <1>20 DEF IsLeftOut
    <2>1. name[blk[i]] \in Roles(s) /\ T[i].of = name[blk[i]]
      BY <1>8, <1>13, <2>0
    <2>2. CASE blk[i] <= first
      BY <1>6, <2>1, <2>2 DEF Verbs
    <2>3. CASE blk[i] > first
      <3>1. pos[i] \in 1..3 /\ T[i] = Statement(<<"create", "alter", "comment">>[pos[i]], T[i].of)
        BY <1>14, <2>0, <2>1, <2>3
      <3>2. <<"create", "alter", "comment">>[pos[i]] \in Verbs
        <4>1. pos[i] = 1 \/ pos[i] = 2 \/ pos[i] = 3
          BY <3>1
        <4> QED
          BY <1>15, <4>1 DEF Verbs
      <3> QED
        BY <3>1, <3>2
    <2> QED
      BY <1>4, <2>2, <2>3
  <1>17. ASSUME NEW m \in Managed, NEW verb \in Verbs, NEW i \in 1..Len(T), NEW j \in 1..Len(T),
                j < i, T[i] = Statement(verb, m), HasPrefix(T[j], [verb |-> verb, name |-> m])
         PROVE  FALSE
    <2>1. /\ T[i].of = m /\ T[i].verb = verb /\ T[i].name = m
          /\ T[j].verb = verb /\ (T[j].name = m \/ <<T[j].name, m>> \in Longer)
      BY <1>17 DEF Statement, HasPrefix
    <2>0. blk[i] # last
      BY <1>17, <1>20, Fields
    <2>2. m \in Roles(s) /\ name[blk[i]] = m
      BY <1>8, <1>13, <2>0, <2>1
    <2>3. blk[j] < blk[i] \/ (blk[j] = blk[i] /\ pos[j] < pos[i])
      BY <1>4, <1>17
    <2>4. blk[i] \in 1..Len(X) /\ blk[j] \in 1..Len(X)
      BY <1>4
    <2>7. blk[j] # last
      BY <1>3, <1>5, <2>0, <2>2, <2>3, <2>4
    <2>5. CASE blk[i] <= first
      <3>1. blk[j] <= first /\ pos[i] = 1 /\ pos[j] = 1
        BY <1>6, <2>3, <2>4, <2>5
      <3>2. blk[j] < blk[i]
        BY <2>3, <3>1
      <3>3. name[blk[j]] # m /\ (name[blk[j]] \in Roles(s) => <<name[blk[j]], m>> \notin Longer)
        BY <1>11, <2>0, <2>2, <2>4, <2>5, <2>7, <3>2
      <3>4. T[j].name = name[blk[j]] /\ name[blk[j]] \in Things(s)
        <4>1. T[j] = Statement("drop", name[blk[j]])
          BY <1>6, <3>1
        <4> QED
          BY <1>8, <2>7, <4>1, Fields
      <3>5. name[blk[j]] \in Databases(s) => <<name[blk[j]], m>> \notin Longer
        BY SourcesAssumption
      <3> QED
        BY <2>1, <3>3, <3>4, <3>5 DEF Things
    <2>6. CASE blk[i] > first
      <3>1. pos[i] \in 1..3 /\ T[i] = Statement(<<"create", "alter", "comment">>[pos[i]], m)
        BY <1>14, <2>0, <2>2, <2>6
      <3>2. verb = <<"create", "alter", "comment">>[pos[i]]
        BY <1>17, <3>1 DEF Statement
      <3>3. pos[i] = 1 \/ pos[i] = 2 \/ pos[i] = 3
        BY <3>1
      <3>4. CASE blk[j] <= first
        <4>1. T[j].verb = "drop"
          <5>1. T[j] = Statement("drop", name[blk[j]])
            BY <1>6, <3>4
          <5> QED
            BY <5>1, Fields
        <4> QED
          BY <1>15, <2>1, <3>2, <3>3, <4>1
      <3>5. CASE blk[j] > first /\ blk[j] = blk[i]
        <4>1. pos[j] \in 1..3 /\ T[j] = Statement(<<"create", "alter", "comment">>[pos[j]], m) /\ pos[j] < pos[i]
          BY <1>14, <2>0, <2>2, <2>3, <3>5
        <4>2. verb = <<"create", "alter", "comment">>[pos[j]]
          BY <2>1, <4>1 DEF Statement
        <4>3. (pos[j] = 1 /\ (pos[i] = 2 \/ pos[i] = 3)) \/ (pos[j] = 2 /\ pos[i] = 3)
          BY <3>1, <4>1
        <4> QED
          BY <1>15, <3>2, <4>2, <4>3
      <3>6. CASE blk[j] > first /\ blk[j] < blk[i]
        <4>1. /\ name[blk[j]] # m /\ name[blk[j]] \in Roles(s) /\ <<name[blk[j]], m>> \notin Longer
          BY <1>11, <2>0, <2>2, <2>4, <2>7, <3>6
        <4>2. T[j].name = name[blk[j]]
          <5>1. T[j] = Statement(<<"create", "alter", "comment">>[pos[j]], name[blk[j]])
            BY <1>14, <2>7, <3>6, <4>1
          <5> QED
            BY <5>1, Fields
        <4> QED
          BY <2>1, <4>1, <4>2
      <3> QED
        BY <2>3, <2>4, <3>4, <3>5, <3>6
    <2> QED
      BY <2>4, <2>5, <2>6
  <1>18. \A i \in 1..Len(T) : T[i].of \in Things(s)
    BY <1>8, <1>13, <1>20
  <1> QED
    BY <1>1, <1>2, <1>10, <1>12, <1>16, <1>17, <1>18, <1>21

-----------------------------------------------------------------------------
\* What the filter makes of a script.

\* The k-th line of a script is ignored when it is the first that matches some entry.
Ignored(s, k) ==
  \E e \in Entries : /\ HasPrefix(Script(s)[k], e)
                     /\ \A j \in 1..(k - 1) : ~HasPrefix(Script(s)[j], e)

\* The first k lines as they are to be in the dump, and the entries they match.
Copied(s, k) == [i \in 1..k |-> [line |-> Script(s)[i], ignored |-> Ignored(s, i)]]
FoundBy(s, k) == {e \in Entries : \E j \in 1..k : HasPrefix(Script(s)[j], e)}

\* Every line that is to be left out is ignored, and any other only by mistake; what creates
\* a thing that is restored never is.
LEMMA FlagFacts ==
  ASSUME NEW s \in Sources, NEW k \in 1..Len(Script(s))
  PROVE  /\ IsLeftOut(Script(s)[k]) => Ignored(s, k)
         /\ Ignored(s, k) /\ ~IsLeftOut(Script(s)[k]) =>
              \E e \in Entries : /\ HasPrefix(Script(s)[k], e)
                                 /\ Statement(e.verb, e.name) \notin ToSet(Script(s))
         /\ \A n \in Things(s) \ Managed : Script(s)[k] = Statement("create", n) => ~Ignored(s, k)
  <1>1. PICK T : T = Script(s) /\ T \in Seq(LinesOf(s)) /\ k \in 1..Len(T)
    BY ScriptFacts
  <1>2. \A m \in Managed, verb \in Verbs : \A i, j \in 1..Len(T) :
          j < i /\ T[i] = Statement(verb, m) => ~HasPrefix(T[j], [verb |-> verb, name |-> m])
    BY <1>1, ScriptFacts
  <1>3. \A e \in Entries : e.verb \in Verbs /\ e.name \in Managed /\ e = [verb |-> e.verb, name |-> e.name]
    BY DEF Entries
  <1>4. ASSUME IsLeftOut(T[k]) PROVE Ignored(s, k)
    <2>1. PICK m, verb : m = T[k].of /\ verb \in Verbs /\ T[k] = Statement(verb, m)
      BY <1>1, <1>4, ScriptFacts
    <2>2. PICK e : e = [verb |-> verb, name |-> m]
      OBVIOUS
    <2>3. e \in Entries /\ e.verb = verb /\ e.name = m
      BY <1>4, <2>1, <2>2 DEF Entries, IsLeftOut
    <2>4. HasPrefix(T[k], e)
      BY <2>1, <2>3, Fields DEF HasPrefix
    <2>5. \A j \in 1..(k - 1) : ~HasPrefix(T[j], e)
      <3> TAKE j \in 1..(k - 1)
      <3>1. j \in 1..Len(T) /\ j < k
        BY <1>1
      <3> QED
        BY <1>1, <1>2, <1>4, <2>1, <2>2, <3>1 DEF IsLeftOut
    <2> QED
      BY <1>1, <2>3, <2>4, <2>5 DEF Ignored
  <1>5. ASSUME NEW e \in Entries, HasPrefix(T[k], e), \A j \in 1..(k - 1) : ~HasPrefix(T[j], e),
               ~IsLeftOut(T[k]), Statement(e.verb, e.name) \in ToSet(T)
        PROVE  FALSE
    <2>1. PICK i \in 1..Len(T) : T[i] = Statement(e.verb, e.name)
      BY <1>1, <1>5 DEF ToSet
    <2>2. i # k
      BY <1>3, <1>5, <2>1, Fields DEF IsLeftOut
    <2>3. HasPrefix(T[i], e)
      BY <2>1, Fields DEF HasPrefix
    <2>4. CASE i < k
      <3>1. i \in 1..(k - 1)
        BY <1>1, <2>4
      <3> QED
        BY <1>5, <2>3, <3>1
    <2>5. CASE k < i
      <3>1. PICK verb \in Verbs, m \in Managed : e = [verb |-> verb, name |-> m] /\ T[i] = Statement(verb, m)
        BY <1>3, <2>1
      <3> QED
        BY <1>1, <1>2, <1>5, <2>5, <3>1
    <2> QED
      BY <1>1, <2>2, <2>4, <2>5
  <1>6. Ignored(s, k) /\ ~IsLeftOut(T[k]) =>
          \E e \in Entries : HasPrefix(T[k], e) /\ Statement(e.verb, e.name) \notin ToSet(T)
    BY <1>1, <1>5 DEF Ignored
  <1>7. ASSUME NEW n \in Things(s) \ Managed, T[k] = Statement("create", n), Ignored(s, k)
        PROVE  FALSE
    <2>1. PICK e \in Entries : HasPrefix(T[k], e) /\ Statement(e.verb, e.name) \notin ToSet(T)
      BY <1>6, <1>7, Fields DEF IsLeftOut
    <2>2. e.verb = "create" /\ e.name \in Managed
      BY <1>3, <1>7, <2>1, Fields DEF HasPrefix
    <2>3. e.name \in Things(s)
      BY <2>2, SourcesAssumption DEF Things
    <2>4. PICK c \in 1..Len(T) : T[c] = Statement("create", e.name)
      BY <1>1, <2>3, ScriptFacts
    <2> QED
      BY <1>1, <2>1, <2>2, <2>4 DEF ToSet
  <1> QED
    BY <1>1, <1>4, <1>6, <1>7

\* An entry of the file.
Copies == [line : Lines, ignored : BOOLEAN]

LEMMA CopiedFacts ==
  ASSUME NEW s \in Sources, NEW k \in 0..Len(Script(s))
  PROVE  /\ Copied(s, k) \in Seq(Copies) /\ Len(Copied(s, k)) = k
         /\ \A i \in 1..k : /\ Copied(s, k)[i].line = Script(s)[i]
                            /\ Copied(s, k)[i].ignored = Ignored(s, i)
         /\ k < Len(Script(s)) =>
              /\ Script(s)[k + 1] \in Lines
              /\ Copied(s, k + 1) =
                   Append(Copied(s, k), [line |-> Script(s)[k + 1], ignored |-> Ignored(s, k + 1)])
  <1>1. PICK T : T = Script(s) /\ T \in Seq(LinesOf(s)) /\ k \in Nat /\ k <= Len(T)
    BY ScriptFacts
  <1> DEFINE c(i) == [line |-> T[i], ignored |-> Ignored(s, i)]
  <1>2. \A i \in 1..Len(T) : T[i] \in Lines
    BY <1>1 DEF Lines, ToSet
  <1>3. \A i \in 1..Len(T) : c(i) \in Copies
    <2> TAKE i \in 1..Len(T)
    <2>1. Ignored(s, i) \in BOOLEAN
      BY DEF Ignored
    <2>2. T[i] \in Lines
      BY <1>2
    <2> QED
      BY <2>1, <2>2 DEF Copies
  <1>4. \A i : c(i).line = T[i] /\ c(i).ignored = Ignored(s, i)
    OBVIOUS
  <1>5. \A j \in 0..Len(T) : Copied(s, j) = [i \in 1..j |-> c(i)]
    BY <1>1 DEF Copied
  <1> HIDE DEF c
  <1>6. \A j \in 0..Len(T) : /\ Copied(s, j) \in Seq(Copies) /\ Len(Copied(s, j)) = j
                             /\ \A i \in 1..j : Copied(s, j)[i] = c(i)
    <2> TAKE j \in 0..Len(T)
    <2>1. PICK f : f = [i \in 1..j |-> c(i)]
      OBVIOUS
    <2>2. j \in Nat /\ \A i \in 1..j : c(i) \in Copies
      BY <1>1, <1>3
    <2>3. f \in Seq(Copies) /\ Len(f) = j /\ \A i \in 1..j : f[i] = c(i)
      BY <2>1, <2>2
    <2> QED
      BY <1>5, <2>1, <2>3
  <1>7. ASSUME k < Len(T) PROVE Copied(s, k + 1) = Append(Copied(s, k), c(k + 1))
    <2>1. PICK f, g, x : f = Copied(s, k) /\ g = Copied(s, k + 1) /\ x = c(k + 1)
      OBVIOUS
    <2>2. k \in 0..Len(T) /\ k + 1 \in 0..Len(T) /\ k + 1 \in 1..Len(T)
      BY <1>1, <1>7
    <2>3. /\ f \in Seq(Copies) /\ Len(f) = k /\ \A i \in 1..k : f[i] = c(i)
          /\ g \in Seq(Copies) /\ Len(g) = k + 1 /\ \A i \in 1..(k + 1) : g[i] = c(i)
          /\ x \in Copies
      BY <1>3, <1>6, <2>1, <2>2
    <2>4. /\ Append(f, x) \in Seq(Copies) /\ Len(Append(f, x)) = k + 1
          /\ \A i \in 1..k : Append(f, x)[i] = f[i]
          /\ Append(f, x)[k + 1] = x
      BY <2>3
    <2>5. \A i \in 1..(k + 1) : g[i] = Append(f, x)[i]
      <3> TAKE i \in 1..(k + 1)
      <3>1. i \in 1..k \/ i = k + 1
        BY <1>1
      <3> QED
        BY <2>1, <2>2, <2>3, <2>4, <3>1
    <2>6. g = Append(f, x)
      BY <2>3, <2>4, <2>5
    <2> QED
      BY <2>1, <2>6
  <1>8. k \in 0..Len(T)
    BY <1>1
  <1>9. k < Len(T) => k + 1 \in 1..Len(T)
    BY <1>1
  <1>10. \A i \in 1..k : Copied(s, k)[i].line = T[i] /\ Copied(s, k)[i].ignored = Ignored(s, i)
    BY <1>4, <1>6, <1>8
  <1>11. k < Len(T) => T[k + 1] \in Lines /\ Copied(s, k + 1) =
           Append(Copied(s, k), [line |-> T[k + 1], ignored |-> Ignored(s, k + 1)])
    BY <1>2, <1>7, <1>9 DEF c
  <1> QED
    BY <1>1, <1>6, <1>8, <1>10, <1>11

\* What the filter does to the next line, once it has found what the first k match.
LEMMA FilterStep ==
  ASSUME NEW s \in Sources, NEW k \in Nat, found = FoundBy(s, k)
  PROVE  /\ found \cup Matches(Script(s)[k + 1]) = FoundBy(s, k + 1)
         /\ (Matches(Script(s)[k + 1]) # {}) = Ignored(s, k + 1)
  <1>1. \A i \in 1..(k + 1) : i \in 1..k \/ i = k + 1
    OBVIOUS
  <1>2. 1..k \subseteq 1..(k + 1) /\ k + 1 \in 1..(k + 1) /\ (k + 1) - 1 = k
    OBVIOUS
  <1>3. found \cup Matches(Script(s)[k + 1]) = FoundBy(s, k + 1)
    BY <1>1, <1>2 DEF FoundBy, Matches
  <1>4. Matches(Script(s)[k + 1]) # {} <=> Ignored(s, k + 1)
    BY <1>2 DEF FoundBy, Matches, Ignored
  <1>5. Ignored(s, k + 1) \in BOOLEAN
    BY DEF Ignored
  <1> QED
    BY <1>3, <1>4, <1>5

-----------------------------------------------------------------------------
\* The inductive invariant.

Ranges ==
  /\ calls \in 0..MaxCalls /\ faults \in 0..MaxFaults
  /\ op \in {"none", "dump", "restore", "sync"}
  /\ client \in {"idle", "waiting", "ok", "failed"}
  /\ server \in {"serving", "draining", "stopped"}
  /\ pc \in {"none", "sent", "begin", "copy", "wait", "close", "reply"}
  /\ tool \in {"none", "running", "orphan", "exited", "failed"}
  /\ ended \in BOOLEAN /\ err \in BOOLEAN /\ complete \in BOOLEAN /\ refused \in BOOLEAN
  /\ source \in Sources
  /\ sent \in Nat /\ read \in Nat /\ sent - read \in 0..PipeSize
  /\ DOMAIN target = Names

Typed ==
  /\ Ranges
  /\ found \subseteq Entries
  /\ buffer \in Seq(Copies) /\ Len(buffer) <= BufferSize
  /\ file \in Seq(Copies)

\* Where a handler, its process and what the caller knows can be together.
Phases ==
  /\ tool # "none" => pc \in {"copy", "wait", "close"}
  /\ tool = "orphan" => op = "dump"
  /\ pc \in {"copy", "close"} => op = "dump"
  /\ pc = "wait" => op \in {"dump", "restore"}
  /\ pc = "wait" /\ op = "dump" => tool \in {"exited", "failed"}
  /\ op = "dump" /\ complete => pc = "none"
  /\ op = "restore" => complete
  /\ client = "ok" => pc = "none"
  /\ pc = "begin" => found = {} /\ buffer = <<>> /\ sent = 0 /\ read = 0

\* How far the process is.
Progress ==
  /\ op = "dump" /\ pc \in {"copy", "wait", "close"} =>
       sent <= Len(Script(source)) /\ (tool = "exited" => sent = Len(Script(source)))
  /\ op = "dump" /\ pc = "wait" => read = sent
  /\ op = "restore" /\ pc = "wait" => sent <= Len(file) /\ (tool = "exited" => sent = Len(file))

\* What has been read is in the file and the buffer, as it is to be in the dump.
Copying ==
  /\ op = "dump" /\ pc \in {"copy", "wait"} => file \o buffer = Copied(source, read)
  /\ pc = "copy" => found = FoundBy(source, read)
  /\ pc = "close" /\ ~err => file \o buffer = Copied(source, Len(Script(source)))
  /\ op = "dump" /\ pc = "reply" /\ ~err => file = Copied(source, Len(Script(source)))
  /\ complete => file = Copied(source, Len(Script(source)))

\* The lines about n after the c-th, up to the k-th, that are not ignored.
Kept(s, n, c, k) ==
  {Script(s)[i] : i \in {j \in (c + 1)..k : Script(s)[j].of = n /\ ~Ignored(s, j)}}

\* What a restore has created is as its lines, up to the last one executed, say.
Restoring ==
  op = "restore" /\ ~refused /\ (pc = "wait" \/ (pc = "reply" /\ ~err) \/ client = "ok") =>
    /\ pc # "wait" => sent = Len(file)
    /\ \A n \in Restored : \A c \in 1..sent :
         Script(source)[c] = Statement("create", n) => target[n] = Kept(source, n, c, sent)

ToolCallInv == Typed /\ Phases /\ Progress /\ Copying /\ Restoring
LEMMA TypedIsTypeOK ==
  ASSUME Typed
  PROVE  TypeOK
  <1>1. \A q \in Seq(Copies) : \A e \in ToSet(q) : e.line \in Lines /\ e.ignored \in BOOLEAN
    <2> SUFFICES ASSUME NEW q \in Seq(Copies), NEW e \in ToSet(q) PROVE e \in Copies
      BY DEF Copies
    <2> QED
      BY DEF ToSet
  <1>2. \A e \in ToSet(buffer) \cup ToSet(file) : e.line \in Lines /\ e.ignored \in BOOLEAN
    BY <1>1 DEF Typed
  <1> QED
    BY <1>2, Zenon DEF Typed, Ranges, TypeOK, Entries

-----------------------------------------------------------------------------
\* What steps leave alone.

Surroundings == Break \/ Notice \/ Terminate \/ Stop \/ NewPod \/ Done \/ UNCHANGED vars
Processes == ToolWrites \/ ToolExits \/ ToolFails \/ KillTool \/ OrphanEnds

LEMMA OfSurroundings ==
  ASSUME Surroundings
  PROVE  /\ UNCHANGED <<op, pc, err, found, buffer, source, tool, sent, read>>
         /\ UNCHANGED <<file, complete, target, refused>>
         /\ client' = client \/ client' \in {"failed", "idle"}
  BY DEF Surroundings, Break, Notice, Terminate, Stop, NewPod, Done, vars, callVars, handlerVars,
         toolVars, dataVars, fileVars

LEMMA OfProcesses ==
  ASSUME Processes
  PROVE  /\ UNCHANGED <<op, client, pc, err, found, buffer, source, read>>
         /\ UNCHANGED <<file, complete, target, refused>>
  BY DEF Processes, ToolWrites, ToolExits, ToolFails, KillTool, OrphanEnds, callVars, handlerVars,
         dataVars, fileVars

LEMMA Kinds ==
  ASSUME [Next]_vars
  PROVE  \/ Surroundings \/ Processes \/ ToolExecutes
         \/ Call \/ Arrive \/ NeverArrives \/ Reply \/ KillPod
         \/ OpenFails \/ StartDump \/ CopyLine \/ CopyFails \/ CopyEnds \/ WaitEnds \/ Close
         \/ StartRestore \/ Sync
  BY DEF Next, Handler, Tool, Surroundings, Processes

\* Which steps change what.
LEMMA Changes ==
  ASSUME [Next]_vars
  PROVE  /\ UNCHANGED <<calls, source>> \/ Call
         /\ UNCHANGED faults \/ Fault
         /\ UNCHANGED found \/ Arrive \/ CopyLine
         /\ UNCHANGED buffer \/ Arrive \/ CopyLine \/ buffer' = <<>>
         /\ UNCHANGED file \/ StartDump \/ CopyLine \/ Close
         /\ UNCHANGED <<sent, read>> \/ Arrive \/ CopyLine \/ ToolWrites \/ ToolExecutes
         /\ UNCHANGED target \/ ToolExecutes
  <1>1. UNCHANGED <<calls, source, faults, found, buffer, file, sent, read, target>>
          \/ Call \/ Arrive \/ Break \/ KillPod \/ OpenFails \/ StartDump \/ CopyLine \/ CopyFails
          \/ Close \/ StartRestore \/ ToolWrites \/ ToolExecutes \/ ToolFails
    BY DEF Next, Handler, Tool, vars, callVars, handlerVars, toolVars, dataVars, fileVars,
           NeverArrives, Notice, Reply, Terminate, Stop, NewPod, CopyEnds, WaitEnds, Sync,
           ToolExits, KillTool, OrphanEnds, Done
  <1>2. CASE Call \/ Break \/ KillPod \/ OpenFails \/ StartRestore \/ ToolFails
    BY <1>2 DEF Call, Break, KillPod, OpenFails, StartRestore, ToolFails, callVars, handlerVars,
                toolVars, dataVars, fileVars
  <1>3. CASE Arrive \/ StartDump \/ CopyLine \/ CopyFails \/ Close \/ ToolWrites \/ ToolExecutes
    BY <1>3 DEF Arrive, StartDump, CopyLine, CopyFails, Close, ToolWrites, ToolExecutes, callVars,
                handlerVars, toolVars, dataVars, fileVars
  <1> QED
    BY <1>1, <1>2, <1>3

-----------------------------------------------------------------------------
\* Each part of the invariant is kept.

LEMMA PhasesStep ==
  ASSUME Typed, Phases, [Next]_vars
  PROVE  Phases'
  <1>1. CASE Surroundings
    BY <1>1, OfSurroundings DEF Phases
  <1>2. CASE Processes
    <2>1. /\ tool \in {"running", "orphan"} /\ tool' \in {tool, "exited", "failed", "orphan"}
          /\ tool' = "orphan" => op = "dump"
      BY <1>2 DEF Processes, ToolWrites, ToolExits, ToolFails, KillTool, OrphanEnds, Phases
    <2>2. pc # "begin"
      BY <2>1 DEF Phases
    <2> QED
      BY <1>2, <2>1, <2>2, OfProcesses DEF Phases
  <1>3. CASE ToolExecutes
    BY <1>3 DEF ToolExecutes, callVars, handlerVars, fileVars, Phases
  <1>4. CASE Call
    BY <1>4, Zenon DEF Call, toolVars, Phases
  <1>5. CASE Arrive \/ NeverArrives \/ KillPod
    BY <1>5 DEF Arrive, NeverArrives, KillPod, callVars, toolVars, fileVars, Phases
  <1>6. CASE Reply
    <2>1. pc = "reply" /\ pc' = "none" /\ op' = op /\ tool' = tool
      BY <1>6 DEF Reply, toolVars
    <2>2. complete => complete'
      BY <1>6, Zenon DEF Reply
    <2> QED
      BY <2>1, <2>2 DEF Phases
  <1>7. CASE OpenFails \/ StartDump \/ CopyFails \/ Close
    BY <1>7 DEF OpenFails, StartDump, CopyFails, Close, FailTo, To, callVars, toolVars, fileVars,
                Phases
  <1>8. CASE CopyLine \/ CopyEnds \/ WaitEnds
    BY <1>8 DEF CopyLine, CopyEnds, WaitEnds, To, callVars, toolVars, fileVars, Phases
  <1>9. CASE StartRestore \/ Sync
    BY <1>9 DEF StartRestore, Sync, FailTo, To, callVars, toolVars, fileVars, Phases
  <1> QED
    BY <1>1, <1>2, <1>3, <1>4, <1>5, <1>6, <1>7, <1>8, <1>9, Kinds

LEMMA ProgressStep ==
  ASSUME Typed, Phases, Progress, [Next]_vars
  PROVE  Progress'
  <1>0. sent \in Nat /\ read \in Nat /\ Len(Script(source)) \in Nat /\ Len(file) \in Nat
    BY ScriptFacts DEF Typed, Ranges
  <1>1. CASE Surroundings
    BY <1>1, OfSurroundings DEF Progress
  <1>2. CASE Processes
    <2>1. tool \in {"running", "orphan"}
      BY <1>2 DEF Processes, ToolWrites, ToolExits, ToolFails, KillTool, OrphanEnds
    <2>2. \/ ToolWrites
          \/ sent' = sent /\ (tool' = "exited" =>
               sent = Len(IF op = "dump" THEN Script(source) ELSE file))
      BY <1>2 DEF Processes, ToolExits, ToolFails, KillTool, OrphanEnds
    <2> QED
      BY <1>0, <1>2, <2>1, <2>2, OfProcesses DEF ToolWrites, Phases, Progress
  <1>3. CASE ToolExecutes
    BY <1>0, <1>3 DEF ToolExecutes, callVars, handlerVars, fileVars, Progress
  <1>4. CASE Call \/ Arrive \/ NeverArrives \/ Reply \/ KillPod
    BY <1>4 DEF Call, Arrive, NeverArrives, Reply, KillPod, Progress
  <1>5. CASE OpenFails \/ Close \/ Sync
    BY <1>5 DEF OpenFails, Close, Sync, FailTo, To, callVars, toolVars, dataVars, Phases, Progress
  <1>6. CASE StartDump \/ StartRestore
    BY <1>0, <1>6 DEF StartDump, StartRestore, FailTo, To, callVars, toolVars, dataVars, fileVars,
                      Phases, Progress
  <1>7. CASE CopyLine \/ CopyFails \/ CopyEnds
    BY <1>7 DEF CopyLine, CopyFails, CopyEnds, FailTo, To, callVars, toolVars, dataVars, Phases,
                Progress
  <1>8. CASE WaitEnds
    BY <1>8 DEF WaitEnds, To, callVars, dataVars, Progress
  <1> QED
    BY <1>1, <1>2, <1>3, <1>4, <1>5, <1>6, <1>7, <1>8, Kinds

LEMMA ResultDomain ==
  ASSUME NEW line, DOMAIN target = Names
  PROVE  DOMAIN Result(line) = Names
  <1>1. CASE Is(line, "drop")
    <2>1. Result(line) = Without(line.of)
      BY <1>1 DEF Result, Is
    <2> QED
      BY <2>1 DEF Without
  <1>2. CASE Is(line, "create")
    <2>1. Result(line) = [target EXCEPT ![line.of] = {}]
      BY <1>2 DEF Result, Is
    <2> QED
      BY <2>1
  <1>3. CASE ~Is(line, "drop") /\ ~Is(line, "create")
    <2>1. Result(line) = [target EXCEPT ![line.of] = @ \cup {line}]
      BY <1>3 DEF Result
    <2> QED
      BY <2>1
  <1> QED
    BY <1>1, <1>2, <1>3

LEMMA TypedStep ==
  ASSUME Typed, Phases, Progress, Copying, [Next]_vars
  PROVE  Typed'
  <1>1. calls' \in 0..MaxCalls /\ faults' \in 0..MaxFaults
    <2>1. calls' = calls \/ (calls < MaxCalls /\ calls' = calls + 1)
      BY Changes DEF Call
    <2>2. faults' = faults \/ (faults < MaxFaults /\ faults' = faults + 1)
      BY Changes DEF Fault
    <2> QED
      BY <2>1, <2>2, ToolCallAssumption DEF Typed, Ranges
  <1>2. /\ op' \in {"none", "dump", "restore", "sync"}
        /\ client' \in {"idle", "waiting", "ok", "failed"}
        /\ server' \in {"serving", "draining", "stopped"}
        /\ pc' \in {"none", "sent", "begin", "copy", "wait", "close", "reply"}
        /\ tool' \in {"none", "running", "orphan", "exited", "failed"}
    <2>1. CASE Surroundings
      BY <2>1 DEF Surroundings, Break, Notice, Terminate, Stop, NewPod, Done, vars, callVars,
                  handlerVars, toolVars, Typed, Ranges
    <2>2. CASE Processes
      BY <2>2 DEF Processes, ToolWrites, ToolExits, ToolFails, KillTool, OrphanEnds, callVars,
                  handlerVars, Typed, Ranges
    <2>3. CASE Call \/ Arrive \/ NeverArrives \/ Reply \/ KillPod
      BY <2>3 DEF Call, Arrive, NeverArrives, Reply, KillPod, callVars, handlerVars, toolVars,
                  Typed, Ranges
    <2>4. CASE OpenFails \/ StartDump \/ CopyFails \/ CopyEnds \/ WaitEnds \/ Close
      BY <2>4 DEF OpenFails, StartDump, CopyFails, CopyEnds, WaitEnds, Close, FailTo, To,
                  callVars, toolVars, Typed, Ranges
    <2>5. CASE CopyLine \/ StartRestore \/ Sync \/ ToolExecutes
      BY <2>5 DEF CopyLine, StartRestore, Sync, ToolExecutes, FailTo, To, callVars, handlerVars,
                  toolVars, Typed, Ranges
    <2> QED
      BY <2>1, <2>2, <2>3, <2>4, <2>5, Kinds
  <1>3. ended' \in BOOLEAN /\ err' \in BOOLEAN /\ complete' \in BOOLEAN /\ refused' \in BOOLEAN
    <2> USE DEF Typed, Ranges
    <2>1. CASE Surroundings
      BY <2>1, Zenon DEF Surroundings, Break, Notice, Terminate, Stop, NewPod, Done, vars,
                         handlerVars, dataVars, fileVars
    <2>2. CASE Processes
      BY <2>2, Zenon DEF Processes, ToolWrites, ToolExits, ToolFails, KillTool, OrphanEnds,
                         handlerVars, dataVars, fileVars
    <2>3. CASE Call \/ Arrive \/ NeverArrives \/ Reply \/ KillPod
      BY <2>3, Zenon DEF Call, Arrive, NeverArrives, Reply, KillPod, dataVars, fileVars
    <2>4. CASE OpenFails \/ StartDump \/ CopyFails \/ CopyEnds \/ WaitEnds \/ Close
      BY <2>4, Zenon DEF OpenFails, StartDump, CopyFails, CopyEnds, WaitEnds, Close, FailTo, To,
                         dataVars, fileVars
    <2>5. CASE CopyLine \/ StartRestore \/ Sync \/ ToolExecutes
      BY <2>5, Zenon DEF CopyLine, StartRestore, Sync, ToolExecutes, FailTo, To, handlerVars,
                         dataVars, fileVars
    <2> QED
      BY <2>1, <2>2, <2>3, <2>4, <2>5, Kinds
  <1>4. source' \in Sources
    <2>1. CASE Call
      BY <2>1 DEF Call, Typed, Ranges
    <2> QED
      BY <2>1, Changes DEF Typed, Ranges
  <1>5. sent' \in Nat /\ read' \in Nat /\ sent' - read' \in 0..PipeSize
    <2>1. \/ sent' = sent /\ read' = read
          \/ sent' = 0 /\ read' = 0
          \/ sent' = sent /\ read' = read + 1 /\ read < sent
          \/ sent' = sent + 1 /\ read' = read /\ sent - read < PipeSize
          \/ sent' = sent + 1 /\ read' = read + 1
      BY Changes DEF Arrive, CopyLine, ToolWrites, ToolExecutes
    <2> QED
      BY <2>1, ToolCallAssumption DEF Typed, Ranges
  <1>6. DOMAIN target' = Names
    <2>1. \A line : DOMAIN target = Names => DOMAIN Result(line) = Names
      BY ResultDomain
    <2> QED
      BY <2>1, Changes DEF ToolExecutes, Typed, Ranges
  <1>7. found' \subseteq Entries
    BY Changes DEF Arrive, CopyLine, Matches, Typed
  <1>8. CopyLine => Filtered(Script(source)[read + 1]) \in Copies
    <2> HAVE CopyLine
    <2>1. source \in Sources /\ read \in Nat /\ read < sent /\ sent <= Len(Script(source)) /\ sent \in Nat
      BY DEF CopyLine, Phases, Progress, Typed, Ranges
    <2>2. read \in 0..Len(Script(source)) /\ read < Len(Script(source))
      BY <2>1, ScriptFacts
    <2>3. Script(source)[read + 1] \in Lines
      BY <2>1, <2>2, CopiedFacts
    <2> QED
      BY <2>3 DEF Filtered, Copies
  <1>9. /\ buffer' \in Seq(Copies) /\ Len(buffer') <= BufferSize
        /\ file' \in Seq(Copies)
    <2>1. file \o buffer \in Seq(Copies) /\ \A q : q = <<>> => q \in Seq(Copies) /\ Len(q) <= BufferSize
      <3>1. \A q : q = <<>> => q \in Seq(Copies) /\ Len(q) <= BufferSize
        BY ToolCallAssumption
      <3>2. file \o buffer \in Seq(Copies)
        BY DEF Typed
      <3> QED
        BY <3>1, <3>2
    <2>2. CASE CopyLine
      <3>1. PICK x : x = Filtered(Script(source)[read + 1])
        OBVIOUS
      <3>2. /\ Append(buffer, x) \in Seq(Copies) /\ Len(Append(buffer, x)) = Len(buffer) + 1
            /\ file \o Append(buffer, x) \in Seq(Copies)
        BY <1>8, <2>2, <3>1 DEF Typed
      <3>3. \/ Len(buffer) < BufferSize /\ buffer' = Append(buffer, x) /\ file' = file
            \/ buffer' = <<>> /\ file' = file \o Append(buffer, x)
        BY <2>2, <3>1 DEF CopyLine
      <3>4. CASE Len(buffer) < BufferSize /\ buffer' = Append(buffer, x) /\ file' = file
        BY <3>2, <3>4, ToolCallAssumption DEF Typed
      <3>5. CASE buffer' = <<>> /\ file' = file \o Append(buffer, x)
        BY <2>1, <3>2, <3>5
      <3> QED
        BY <3>3, <3>4, <3>5
    <2>3. CASE ~CopyLine
      <3>1. buffer' = buffer \/ buffer' = <<>>
        BY <2>3, Changes DEF Arrive
      <3>2. file' = file \/ file' = <<>> \/ file' = file \o buffer
        BY <2>3, Changes DEF StartDump, Close
      <3>3. buffer' \in Seq(Copies) /\ Len(buffer') <= BufferSize
        BY <2>1, <3>1 DEF Typed
      <3>4. file' \in Seq(Copies)
        BY <2>1, <3>2 DEF Typed
      <3> QED
        BY <3>3, <3>4
    <2> QED
      BY <2>2, <2>3
  <1> QED
    BY <1>1, <1>2, <1>3, <1>4, <1>5, <1>6, <1>7, <1>9 DEF Typed, Ranges

LEMMA CopiedNone ==
  ASSUME NEW s
  PROVE  Copied(s, 0) = <<>> /\ FoundBy(s, 0) = {}
  BY DEF Copied, FoundBy

LEMMA CopyingBegins ==
  ASSUME NEW s, NEW f, NEW b, f = <<>>, b = <<>>
  PROVE  f \o b = Copied(s, 0)
  <1>1. <<>> \o <<>> = <<>>
    OBVIOUS
  <1> QED
    BY <1>1, CopiedNone

LEMMA AppendLast ==
  ASSUME NEW S, NEW f \in Seq(S), NEW b \in Seq(S), NEW x \in S
  PROVE  f \o Append(b, x) = Append(f \o b, x) /\ Append(f \o b, x) \o <<>> = Append(f \o b, x)
  OBVIOUS

LEMMA CopyingStep ==
  ASSUME Typed, Phases, Progress, Copying, [Next]_vars
  PROVE  Copying'
  <1>1. CASE Surroundings \/ Processes
    <2>1. UNCHANGED <<op, pc, err, found, buffer, source, read, file, complete>>
      BY <1>1, OfSurroundings, OfProcesses
    <2> QED
      BY <2>1 DEF Copying
  <1>2. CASE Call \/ Arrive \/ NeverArrives \/ KillPod
    <2>1. pc' \in {"none", "sent", "begin"} /\ file' = file
      BY <1>2 DEF Call, Arrive, NeverArrives, KillPod, fileVars
    <2>2. complete' => complete /\ source' = source
      <3>1. CASE Call
        <4>1. complete' => complete /\ op' # "dump"
          BY <3>1, Zenon DEF Call
        <4>2. op' # "dump" => source' = source
          BY <3>1 DEF Call
        <4> QED
          BY <4>1, <4>2
      <3>2. CASE Arrive \/ NeverArrives \/ KillPod
        BY <3>2 DEF Arrive, NeverArrives, KillPod, dataVars, fileVars
      <3> QED
        BY <1>2, <3>1, <3>2
    <2> QED
      BY <2>1, <2>2 DEF Copying
  <1>3. CASE Reply
    <2>1. file' = file /\ source' = source /\ pc' = "none" /\ op' = op /\ pc = "reply"
      BY <1>3 DEF Reply, dataVars
    <2>2. complete' => complete \/ (op = "dump" /\ client' = "ok")
      BY <1>3, Zenon DEF Reply
    <2>3. client' = "ok" => ~err
      BY <1>3, <2>1 DEF Reply, Phases
    <2> QED
      BY <2>1, <2>2, <2>3 DEF Copying
  <1>4. CASE StartDump
    <2>1. op = "dump" /\ complete' = complete /\ complete = FALSE /\ source' = source
      BY <1>4, Zenon DEF StartDump, dataVars, Phases, Typed, Ranges
    <2>2. \/ pc' = "copy" /\ err' = err
          \/ pc' = "close" /\ err' = TRUE
      BY <1>4 DEF StartDump, To, FailTo
    <2>3. op' = op /\ file' = <<>> /\ buffer' = <<>> /\ found' = {} /\ read' = 0
      BY <1>4 DEF StartDump, callVars, Phases
    <2>4. file' \o buffer' = Copied(source, 0) /\ FoundBy(source, 0) = {}
      BY <2>3, CopyingBegins, CopiedNone
    <2> QED
      BY <2>1, <2>2, <2>3, <2>4 DEF Copying
  <1>5. CASE CopyLine
    <2>1. /\ op = "dump" /\ pc = "copy" /\ pc' = pc /\ op' = op /\ complete' = complete /\ complete = FALSE
          /\ source' = source /\ source \in Sources /\ read' = read + 1
      BY <1>5 DEF CopyLine, callVars, dataVars, Phases, Typed, Ranges
    <2>2. read \in Nat /\ read \in 0..Len(Script(source)) /\ read < Len(Script(source))
      <3>1. read \in Nat /\ read < sent /\ sent \in Nat /\ sent <= Len(Script(source))
        BY <1>5, <2>1 DEF CopyLine, Typed, Ranges, Progress
      <3>2. Len(Script(source)) \in Nat
        BY <2>1, ScriptFacts
      <3> QED
        BY <3>1, <3>2
    <2>3. found = FoundBy(source, read) /\ file \o buffer = Copied(source, read)
      BY <2>1 DEF Copying
    <2>4. PICK line, x : line = Script(source)[read + 1] /\ x = Filtered(line)
      OBVIOUS
    <2>5. found \cup Matches(line) = FoundBy(source, read + 1)
          /\ (Matches(line) # {}) = Ignored(source, read + 1)
      BY <2>1, <2>2, <2>3, <2>4, FilterStep
    <2>6. x = [line |-> line, ignored |-> Ignored(source, read + 1)]
      BY <2>4, <2>5 DEF Filtered
    <2>7. line \in Lines /\ Copied(source, read + 1) = Append(Copied(source, read), x)
      BY <2>1, <2>2, <2>4, <2>6, CopiedFacts
    <2>8. x \in Copies
      <3>1. Ignored(source, read + 1) \in BOOLEAN
        BY DEF Ignored
      <3> QED
        BY <2>6, <2>7, <3>1 DEF Copies
    <2>9. /\ file \o Append(buffer, x) = Append(file \o buffer, x)
          /\ Append(file \o buffer, x) \o <<>> = Append(file \o buffer, x)
      BY <2>8, AppendLast DEF Typed
    <2>10. \/ buffer' = Append(buffer, x) /\ file' = file
           \/ buffer' = <<>> /\ file' = file \o Append(buffer, x)
      BY <1>5, <2>4 DEF CopyLine
    <2>11. file' \o buffer' = Append(file \o buffer, x)
      BY <2>9, <2>10
    <2>12. file' \o buffer' = Copied(source, read + 1)
      BY <2>3, <2>7, <2>11
    <2>13. found' = FoundBy(source, read + 1)
      BY <1>5, <2>4, <2>5 DEF CopyLine
    <2> QED
      BY <2>1, <2>12, <2>13 DEF Copying
  <1>6. CASE WaitEnds
    <2>1. /\ file' = file /\ buffer' = buffer /\ source' = source /\ op' = op /\ read' = read
          /\ complete' = complete /\ pc = "wait" /\ pc' \in {"close", "reply"}
          /\ pc' = (IF op = "dump" THEN "close" ELSE "reply")
      BY <1>6 DEF WaitEnds, callVars, dataVars, fileVars, To
    <2>2. ~err' /\ op = "dump" => read = Len(Script(source))
      BY <1>6 DEF WaitEnds, Progress
    <2> QED
      BY <2>1, <2>2 DEF Copying
  <1>7. CASE Close
    <2>1. /\ source' = source /\ op' = op /\ op = "dump" /\ complete' = complete /\ complete = FALSE
          /\ pc = "close" /\ pc' = "reply"
      BY <1>7 DEF Close, callVars, dataVars, To, Phases, Typed, Ranges
    <2>2. ~err' => ~err /\ file' = file \o buffer
      BY <1>7 DEF Close
    <2> QED
      BY <2>1, <2>2 DEF Copying
  <1>8. CASE OpenFails \/ CopyFails
    BY <1>8 DEF OpenFails, CopyFails, FailTo, callVars, dataVars, fileVars, Phases, Copying
  <1>9. CASE CopyEnds
    BY <1>9 DEF CopyEnds, To, callVars, toolVars, dataVars, fileVars, Copying
  <1>10. CASE StartRestore \/ Sync \/ ToolExecutes
    BY <1>10 DEF StartRestore, Sync, ToolExecutes, To, FailTo, callVars, handlerVars, toolVars,
                 dataVars, fileVars, Phases, Copying
  <1> QED
    BY <1>1, <1>2, <1>3, <1>4, <1>5, <1>6, <1>7, <1>8, <1>9, <1>10, Kinds

LEMMA KeptStep ==
  ASSUME NEW s, NEW n, NEW c \in Nat, NEW k \in Nat
  PROVE  /\ c <= k /\ Script(s)[k + 1].of = n /\ ~Ignored(s, k + 1) =>
              Kept(s, n, c, k + 1) = Kept(s, n, c, k) \cup {Script(s)[k + 1]}
         /\ c <= k /\ ~(Script(s)[k + 1].of = n /\ ~Ignored(s, k + 1)) =>
              Kept(s, n, c, k + 1) = Kept(s, n, c, k)
         /\ Kept(s, n, k, k) = {}
  <1>1. ASSUME c <= k
        PROVE  \A j : j \in (c + 1)..(k + 1) <=> j \in (c + 1)..k \/ j = k + 1
    BY <1>1
  <1>2. (k + 1)..k = {}
    OBVIOUS
  <1>3. ASSUME c <= k
        PROVE  Kept(s, n, c, k + 1) =
              Kept(s, n, c, k) \cup (IF Script(s)[k + 1].of = n /\ ~Ignored(s, k + 1)
                                     THEN {Script(s)[k + 1]} ELSE {})
    <2> DEFINE on(j) == Script(s)[j].of = n /\ ~Ignored(s, j)
    <2>1. \A x : x \in Kept(s, n, c, k + 1) <=> \E j \in (c + 1)..(k + 1) : on(j) /\ x = Script(s)[j]
      BY DEF Kept
    <2>2. \A x : x \in Kept(s, n, c, k) <=> \E j \in (c + 1)..k : on(j) /\ x = Script(s)[j]
      BY DEF Kept
    <2>3. \A x : x \in (IF on(k + 1) THEN {Script(s)[k + 1]} ELSE {}) <=> on(k + 1) /\ x = Script(s)[k + 1]
      OBVIOUS
    <2> HIDE DEF on
    <2>4. \A x : x \in Kept(s, n, c, k + 1) <=>
                 x \in Kept(s, n, c, k) \/ (on(k + 1) /\ x = Script(s)[k + 1])
      <3>1. \A j : j \in (c + 1)..(k + 1) <=> j \in (c + 1)..k \/ j = k + 1
        BY <1>1, <1>3
      <3> QED
        BY <2>1, <2>2, <3>1, Zenon
    <2>5. Kept(s, n, c, k + 1) = Kept(s, n, c, k) \cup (IF on(k + 1) THEN {Script(s)[k + 1]} ELSE {})
      BY <2>3, <2>4, Zenon
    <2> QED
      BY <2>5 DEF on
  <1>4. Kept(s, n, k, k) = {}
    BY <1>2 DEF Kept
  <1> QED
    BY <1>3, <1>4

\* The file of a restore is the whole dump of the source.
LEMMA FileOfRestore ==
  ASSUME Typed, Phases, Copying, op = "restore"
  PROVE  /\ source \in Sources /\ complete
         /\ file = Copied(source, Len(Script(source))) /\ Len(file) = Len(Script(source))
         /\ Len(Script(source)) \in Nat
         /\ \A i \in 1..Len(file) : /\ file[i].line = Script(source)[i]
                                    /\ file[i].ignored = Ignored(source, i)
  <1>1. source \in Sources /\ complete /\ file = Copied(source, Len(Script(source)))
    BY DEF Typed, Ranges, Phases, Copying
  <1>2. Len(Script(source)) \in Nat
    BY <1>1, ScriptFacts
  <1>3. Len(Script(source)) \in 0..Len(Script(source))
    BY <1>2
  <1> QED
    BY <1>1, <1>2, <1>3, CopiedFacts

\* What becomes of n when psql executes a line with success.
LEMMA Results ==
  ASSUME DOMAIN target = Names, NEW line, line.of \in Names, NEW n \in Names
  PROVE  /\ line.of = n /\ Is(line, "create") => Result(line)[n] = {}
         /\ line.of = n /\ ~Renews(line) => Result(line)[n] = target[n] \cup {line}
         /\ line.of # n /\ ~Is(line, "drop") => Result(line)[n] = target[n]
         /\ line.of # n /\ Is(line, "drop") => Result(line)[n] = target[n] \ {Grant(n, line.of)}
  <1>1. CASE Is(line, "drop")
    <2>1. Renews(line) /\ ~Is(line, "create")
      BY <1>1 DEF Is, Renews
    <2>2. Result(line) = Without(line.of)
      BY <1>1 DEF Result, Is
    <2> QED
      BY <1>1, <2>1, <2>2 DEF Without
  <1>2. CASE Is(line, "create")
    <2>1. Renews(line) /\ ~Is(line, "drop")
      BY <1>2 DEF Is, Renews
    <2>2. Result(line) = [target EXCEPT ![line.of] = {}]
      BY <1>2, <2>1 DEF Result
    <2> QED
      BY <1>2, <2>1, <2>2
  <1>3. CASE ~Is(line, "drop") /\ ~Is(line, "create")
    <2>1. Result(line) = [target EXCEPT ![line.of] = @ \cup {line}]
      BY <1>3 DEF Result
    <2> QED
      BY <1>3, <2>1
  <1> QED
    BY <1>1, <1>2, <1>3

\* What a step may do to n when it is not restored.
Spares(n) ==
  /\ target[n] \ target'[n] \subseteq {Grant(n, m) : m \in Restored}
  /\ target'[n] \ target[n] \subseteq {line \in Content(n) : line.kind # "statement"}

\* What psql does to what it restores, and to the rest.
LEMMA Execution ==
  ASSUME Typed, Phases, Copying, ToolExecutes
  PROVE  /\ \A n \in Names \ Restored : Spares(n)
         /\ sent + 1 \in 1..Len(Script(source))
         /\ ~refused' =>
              /\ ~refused
              /\ \A n \in Names :
                   target'[n] = IF ~Ignored(source, sent + 1) THEN Result(Script(source)[sent + 1])[n]
                                ELSE target[n]
  <1>1. /\ source \in Sources /\ Len(file) = Len(Script(source)) /\ Len(Script(source)) \in Nat
        /\ \A i \in 1..Len(file) : /\ file[i].line = Script(source)[i]
                                   /\ file[i].ignored = Ignored(source, i)
    BY FileOfRestore DEF ToolExecutes
  <1>2. sent + 1 \in 1..Len(Script(source)) /\ sent + 1 \in 1..Len(file)
    BY <1>1 DEF ToolExecutes, Typed, Ranges
  <1>3. PICK line, ignored : line = Script(source)[sent + 1] /\ ignored = Ignored(source, sent + 1)
    OBVIOUS
  <1>4. file[sent + 1].line = line /\ file[sent + 1].ignored = ignored /\ ignored \in BOOLEAN
    <2>1. Ignored(source, sent + 1) \in BOOLEAN
      BY DEF Ignored
    <2> QED
      BY <1>1, <1>2, <1>3, <2>1
  <1>5. \/ ignored /\ target' = target /\ refused' = refused
        \/ ~ignored /\ target' = Result(line) /\ refused' = refused
        \/ refused' = TRUE /\ target' = target
    BY <1>4, Zenon DEF ToolExecutes
  <1>6. DOMAIN target = Names /\ refused \in BOOLEAN
    BY DEF Typed, Ranges
  <1>7. /\ line \in ToSet(Script(source)) /\ line.of \in Things(source) /\ line.of \in Names
        /\ IsLeftOut(line) => ignored
    <2>1. Script(source) \in Seq(LinesOf(source)) /\ line.of \in Things(source)
      BY <1>1, <1>2, <1>3, ScriptFacts
    <2>2. line \in ToSet(Script(source))
      BY <1>2, <1>3, <2>1 DEF ToSet
    <2>3. IsLeftOut(line) => ignored
      BY <1>1, <1>2, <1>3, FlagFacts
    <2> QED
      BY <1>1, <2>1, <2>2, <2>3 DEF Names, Things
  <1>8. ASSUME NEW n \in Names \ Restored PROVE Spares(n)
    <2>1. CASE target' = target
      BY <2>1 DEF Spares
    <2>2. CASE ~ignored /\ target' = Result(line)
      <3>1. CASE line.of = n
        <4>1. line.kind # "statement"
          BY <1>7, <1>8, <2>2, <3>1 DEF IsLeftOut, Restored, Things
        <4>2. target'[n] = target[n] \cup {line}
          <5>1. ~Renews(line)
            BY <4>1 DEF Renews
          <5> QED
            BY <1>6, <1>7, <2>2, <3>1, <5>1, Results
        <4>3. line \in Content(n)
          BY <1>7, <3>1, <4>1 DEF Content
        <4> QED
          BY <4>1, <4>2, <4>3 DEF Spares
      <3>2. CASE line.of # n /\ Is(line, "drop")
        <4>1. line.of \in Restored
          BY <1>7, <2>2, <3>2 DEF IsLeftOut, Is, Restored, Things
        <4>2. target'[n] = target[n] \ {Grant(n, line.of)}
          BY <1>6, <1>7, <2>2, <3>2, Results
        <4> QED
          BY <4>1, <4>2 DEF Spares
      <3>3. CASE line.of # n /\ ~Is(line, "drop")
        <4>1. target'[n] = target[n]
          BY <1>6, <1>7, <2>2, <3>3, Results
        <4> QED
          BY <4>1 DEF Spares
      <3> QED
        BY <3>1, <3>2, <3>3
    <2> QED
      BY <1>5, <2>1, <2>2
  <1>9. ASSUME ~refused'
        PROVE  ~refused /\ \A n \in Names : target'[n] = IF ~ignored THEN Result(line)[n] ELSE target[n]
    BY <1>4, <1>5, <1>6, <1>9
  <1> QED
    BY <1>2, <1>3, <1>8, <1>9

LEMMA RestoringStep ==
  ASSUME Typed, Phases, Progress, Copying, Restoring, [Next]_vars
  PROVE  Restoring'
  <1>1. CASE op' = op /\ op # "restore"
    BY <1>1 DEF Restoring
  <1>2. CASE Surroundings
    BY <1>2, OfSurroundings DEF Restoring, Restored
  <1>3. CASE Processes
    <2>1. op = "restore" => sent' = sent
      BY <1>3 DEF Processes, ToolWrites, ToolExits, ToolFails, KillTool, OrphanEnds
    <2> QED
      BY <1>1, <1>3, <2>1, OfProcesses DEF Restoring, Restored
  <1>4. CASE Call \/ Arrive \/ NeverArrives
    BY <1>4 DEF Call, Arrive, NeverArrives, callVars, Phases, Restoring
  <1>5. CASE KillPod
    BY <1>5 DEF KillPod, dataVars, fileVars, Phases, Restoring, Restored
  <1>6. CASE Reply
    <2>1. /\ file' = file /\ source' = source /\ op' = op /\ sent' = sent /\ target' = target
          /\ refused' = refused /\ pc = "reply" /\ pc' = "none"
      BY <1>6 DEF Reply, toolVars, dataVars
    <2>2. client' = "ok" => ~err
      BY <1>6, <2>1 DEF Reply, Phases
    <2>3. Restored' = Restored
      BY <2>1 DEF Restored
    <2> QED
      BY <2>1, <2>2, <2>3 DEF Restoring
  <1>7. CASE WaitEnds
    <2>1. CASE op = "restore"
      <3>1. /\ file' = file /\ source' = source /\ op' = op /\ sent' = sent /\ target' = target
            /\ refused' = refused /\ pc = "wait" /\ pc' = "reply" /\ client' = client
        BY <1>7, <2>1 DEF WaitEnds, callVars, dataVars, fileVars, To
      <3>2. ~err' => sent = Len(file)
        BY <1>7, <2>1 DEF WaitEnds, Progress
      <3>3. client' # "ok"
        BY <3>1 DEF Phases
      <3>4. Restored' = Restored
        BY <3>1 DEF Restored, Roles, Databases
      <3> QED
        BY <2>1, <3>1, <3>2, <3>3, <3>4 DEF Restoring
    <2>2. CASE op # "restore"
      BY <1>7, <2>2 DEF WaitEnds, callVars, Restoring
    <2> QED
      BY <2>1, <2>2
  <1>8. CASE StartRestore
    <2>1. \/ pc' = "wait" /\ sent' = 0
          \/ pc' = "reply" /\ err' = TRUE
      BY <1>8 DEF StartRestore, To, FailTo, Phases
    <2>2. client' # "ok"
      BY <1>8 DEF StartRestore, callVars, Phases
    <2>3. 1..0 = {}
      OBVIOUS
    <2> QED
      BY <2>1, <2>2, <2>3 DEF Restoring
  <1>9. CASE ToolExecutes
    <2>1. /\ op = "restore" /\ pc = "wait" /\ file' = file /\ source' = source /\ op' = op /\ pc' = pc
          /\ sent' = sent + 1 /\ sent \in Nat /\ client' = client /\ client # "ok"
      BY <1>9 DEF ToolExecutes, callVars, handlerVars, fileVars, Phases, Typed, Ranges
    <2>2. Restored' = Restored
      BY <2>1 DEF Restored
    <2> SUFFICES ASSUME ~refused', NEW n \in Restored, NEW c \in 1..(sent + 1),
                        Script(source)[c] = Statement("create", n)
                 PROVE  target'[n] = Kept(source, n, c, sent + 1)
      BY <2>1, <2>2 DEF Restoring
    <2>3. PICK line, ignored : line = Script(source)[sent + 1] /\ ignored = Ignored(source, sent + 1)
      OBVIOUS
    <2>4. source \in Sources /\ n \in Things(source) \ Managed /\ n \in Names
      BY DEF Typed, Ranges, Restored, Things, Names
    <2>5. sent + 1 \in 1..Len(Script(source)) /\ c \in 1..Len(Script(source)) /\ c \in Nat
      BY <1>9, <2>1, <2>4, ScriptFacts, Execution
    <2>6. ~refused /\ target'[n] = IF ~ignored THEN Result(line)[n] ELSE target[n]
      BY <1>9, <2>3, <2>4, Execution
    <2>9. DOMAIN target = Names /\ line.of \in Names
      <3>1. line.of \in Things(source)
        BY <2>3, <2>4, <2>5, ScriptFacts
      <3> QED
        BY <2>4, <3>1 DEF Typed, Ranges, Names, Things
    <2>7. CASE c <= sent
      <3>1. target[n] = Kept(source, n, c, sent)
        <4>1. c \in 1..sent
          BY <2>1, <2>7
        <4> QED
          BY <2>1, <2>6, <4>1 DEF Restoring
      <3>2. Kept(source, n, c, sent + 1) =
              Kept(source, n, c, sent) \cup (IF line.of = n /\ ~ignored THEN {line} ELSE {})
        <4>1. PICK s, k : s = source /\ k = sent /\ k \in Nat
          BY <2>1
        <4>2. c <= k /\ c \in Nat
          BY <2>5, <2>7, <4>1
        <4>3. /\ Script(s)[k + 1].of = n /\ ~Ignored(s, k + 1) =>
                   Kept(s, n, c, k + 1) = Kept(s, n, c, k) \cup {Script(s)[k + 1]}
              /\ ~(Script(s)[k + 1].of = n /\ ~Ignored(s, k + 1)) =>
                   Kept(s, n, c, k + 1) = Kept(s, n, c, k)
          BY <4>1, <4>2, KeptStep
        <4> QED
          BY <2>3, <4>1, <4>3
      <3>3. Result(line)[n] = target[n] \cup (IF line.of = n THEN {line} ELSE {})
        <4>1. sent + 1 > c /\ ~(sent + 1 < c)
          BY <2>1, <2>5, <2>7
        <4>2. line.of = n => ~Renews(line)
          BY <2>3, <2>4, <2>5, <4>1, ScriptFacts
        <4>3. ~Is(line, "drop")
          BY <2>3, <2>4, <2>5, <4>1, ScriptFacts
        <4> QED
          BY <2>4, <2>9, <4>2, <4>3, Results
      <3> QED
        BY <2>6, <3>1, <3>2, <3>3
    <2>8. CASE c = sent + 1
      <3>1. line = Statement("create", n) /\ line.of = n
        BY <2>3, <2>8, Fields
      <3>2. ~ignored
        BY <2>3, <2>4, <2>5, <3>1, FlagFacts
      <3>3. Result(line)[n] = {}
        <4>1. Is(line, "create")
          BY <3>1, Fields DEF Is
        <4> QED
          BY <2>4, <2>9, <3>1, <4>1, Results
      <3>4. Kept(source, n, c, sent + 1) = {}
        <4>1. \A k \in Nat : Kept(source, n, k, k) = {}
          BY KeptStep
        <4> QED
          BY <2>5, <2>8, <4>1
      <3> QED
        BY <2>6, <3>1, <3>2, <3>3, <3>4
    <2> QED
      BY <2>1, <2>5, <2>7, <2>8
  <1>10. CASE OpenFails \/ StartDump \/ CopyLine \/ CopyFails \/ CopyEnds \/ Close \/ Sync
    <2>1. op' = op /\ op # "restore"
      BY <1>10 DEF OpenFails, StartDump, CopyLine, CopyFails, CopyEnds, Close, Sync, callVars, Phases
    <2> QED
      BY <1>1, <2>1
  <1> QED
    BY <1>2, <1>3, <1>4, <1>5, <1>6, <1>7, <1>8, <1>9, <1>10, Kinds

-----------------------------------------------------------------------------
\* The theorems.

LEMMA InvInit ==
  ASSUME Init
  PROVE  ToolCallInv
  <1>1. Ranges
    <2>1. calls \in 0..MaxCalls /\ faults \in 0..MaxFaults
      BY ToolCallAssumption DEF Init
    <2>2. sent \in Nat /\ read \in Nat /\ sent - read \in 0..PipeSize /\ DOMAIN target = Names
      BY ToolCallAssumption DEF Init
    <2>3. ended \in BOOLEAN /\ err \in BOOLEAN /\ complete \in BOOLEAN /\ refused \in BOOLEAN
      BY Zenon DEF Init
    <2> QED
      BY <2>1, <2>2, <2>3, Zenon DEF Init, Ranges
  <1>2. \A q : q = <<>> => q \in Seq(Copies) /\ Len(q) <= BufferSize
    BY ToolCallAssumption
  <1>3. Typed
    BY <1>1, <1>2 DEF Init, Typed
  <1>4. Phases /\ Progress /\ Copying /\ Restoring
    BY DEF Init, Phases, Progress, Copying, Restoring
  <1> QED
    BY <1>3, <1>4 DEF ToolCallInv

LEMMA InvNext ==
  ASSUME ToolCallInv, [Next]_vars
  PROVE  ToolCallInv'
  BY TypedStep, PhasesStep, ProgressStep, CopyingStep, RestoringStep DEF ToolCallInv

LEMMA Invariance == Spec => []ToolCallInv
  <1>1. Init => ToolCallInv
    BY InvInit
  <1>2. ToolCallInv /\ [Next]_vars => ToolCallInv'
    BY InvNext
  <1> QED
    BY <1>1, <1>2, PTL DEF Spec

\* A call of the tool pod never leaves the types of its state, whatever is dumped.
THEOREM TypeCorrectness == Spec => []TypeOK
  <1>1. ToolCallInv => TypeOK
    BY TypedIsTypeOK DEF ToolCallInv
  <1> QED
    BY <1>1, Invariance, PTL DEF Spec

LEMMA CopiesAreComplete ==
  ASSUME ToolCallInv
  PROVE  DumpIsComplete
  <1> SUFFICES ASSUME complete
               PROVE  /\ [i \in DOMAIN file |-> file[i].line] = Script(source)
                      /\ \A i \in DOMAIN file :
                           /\ IsLeftOut(file[i].line) => file[i].ignored
                           /\ file[i].ignored => IsLeftOut(file[i].line) \/ IsMistaken(file[i].line)
    BY DEF DumpIsComplete
  <1>1. source \in Sources /\ file = Copied(source, Len(Script(source)))
    BY DEF ToolCallInv, Typed, Ranges, Copying
  <1>2. PICK T : T = Script(source) /\ T \in Seq(LinesOf(source)) /\ Len(T) \in 0..Len(T)
    BY <1>1, ScriptFacts
  <1>3. /\ file \in Seq(Copies) /\ Len(file) = Len(T)
        /\ \A i \in 1..Len(T) : file[i].line = T[i] /\ file[i].ignored = Ignored(source, i)
    BY <1>1, <1>2, CopiedFacts
  <1>4. DOMAIN file = 1..Len(T)
    BY <1>3
  <1>5. [i \in DOMAIN file |-> file[i].line] = T
    <2>1. T = [i \in 1..Len(T) |-> T[i]]
      BY <1>2
    <2> QED
      BY <1>3, <1>4, <2>1
  <1>6. ASSUME NEW i \in 1..Len(T)
        PROVE  /\ IsLeftOut(T[i]) => Ignored(source, i)
               /\ Ignored(source, i) => IsLeftOut(T[i]) \/ IsMistaken(T[i])
    BY <1>1, <1>2, FlagFacts DEF IsMistaken
  <1> QED
    BY <1>2, <1>3, <1>4, <1>5, <1>6

\* A dump of which the caller was told that it succeeded is all that pg_dumpall has
\* written, with the statements that drop, make or describe managed roles ignored and their
\* settings and memberships kept (DumpAll, DumpIsComplete).
THEOREM DumpsAreComplete == Spec => []DumpIsComplete
  <1>1. ToolCallInv => DumpIsComplete
    BY CopiesAreComplete
  <1> QED
    BY <1>1, Invariance, PTL DEF Spec

LEMMA RestoredIsExact ==
  ASSUME ToolCallInv
  PROVE  RestoreIsExact
  <1> SUFFICES ASSUME op = "restore", client = "ok", ~refused, NEW n \in Restored
               PROVE  /\ target[n] \subseteq Content(n)
                      /\ \A line \in Content(n) \ target[n] : IsMistaken(line)
    BY DEF RestoreIsExact
  <1>1. /\ source \in Sources /\ Len(file) = Len(Script(source)) /\ sent = Len(file)
        /\ \A m \in Restored : \A c \in 1..sent :
             Script(source)[c] = Statement("create", m) => target[m] = Kept(source, m, c, sent)
    <2>1. pc = "none"
      BY DEF ToolCallInv, Phases
    <2> QED
      BY <2>1, FileOfRestore DEF ToolCallInv, Restoring
  <1>2. PICK T : T = Script(source) /\ T \in Seq(LinesOf(source)) /\ sent = Len(T)
    BY <1>1, ScriptFacts
  <1>3. n \in Things(source) \ Managed
    BY DEF Restored, Things
  <1>4. PICK c \in 1..Len(T) : T[c] = Statement("create", n)
    BY <1>1, <1>2, <1>3, ScriptFacts
  <1>5. \A i \in 1..Len(T) : T[i].of = n => (i > c <=> ~Renews(T[i]))
    BY <1>1, <1>2, <1>3, <1>4, ScriptFacts
  <1>6. target[n] = {T[i] : i \in {j \in (c + 1)..Len(T) : T[j].of = n /\ ~Ignored(source, j)}}
    BY <1>1, <1>2, <1>4 DEF Kept
  <1>7. Content(n) = {line \in ToSet(T) : line.of = n /\ ~Renews(line)}
    BY <1>2 DEF Content, Renews
  <1>8. target[n] \subseteq Content(n)
    <2> SUFFICES ASSUME NEW i \in (c + 1)..Len(T), T[i].of = n PROVE T[i] \in Content(n)
      BY <1>6
    <2>1. i \in 1..Len(T) /\ i > c
      BY <1>2, <1>4
    <2>2. T[i] \in ToSet(T) /\ ~Renews(T[i])
      BY <1>2, <1>5, <2>1 DEF ToSet
    <2> QED
      BY <1>7, <2>2
  <1>9. ASSUME NEW line \in Content(n) \ target[n] PROVE IsMistaken(line)
    <2>1. PICK i \in 1..Len(T) : line = T[i]
      BY <1>2, <1>7, <1>9 DEF ToSet
    <2>2. T[i].of = n /\ ~Renews(T[i])
      BY <1>7, <1>9, <2>1
    <2>3. i \in (c + 1)..Len(T)
      <3>1. i > c
        BY <1>5, <2>2
      <3> QED
        BY <1>2, <1>4, <3>1
    <2>4. Ignored(source, i)
      BY <1>6, <1>9, <2>1, <2>2, <2>3
    <2>5. ~IsLeftOut(T[i])
      BY <1>3, <2>2 DEF IsLeftOut
    <2> QED
      BY <1>1, <1>2, <2>1, <2>4, <2>5, FlagFacts DEF IsMistaken
  <1> QED
    BY <1>8, <1>9

\* A restore that succeeds without a refused statement leaves each role and database that
\* is restored as it is in the source (Restore, RestoreIsExact).
THEOREM RestoresAreExact == Spec => []RestoreIsExact
  <1>1. ToolCallInv => RestoreIsExact
    BY RestoredIsExact
  <1> QED
    BY <1>1, Invariance, PTL DEF Spec

\* No step, of a restore or another, takes anything from a managed role or from what the
\* source lacks, but the memberships of roles that are restored, or gives it anything but the
\* settings and memberships in the dump (DumpAll, Restore, OthersAreSpared).
THEOREM ManagedRolesAreSpared == Spec => OthersAreSpared
  <1>1. ToolCallInv /\ [Next]_vars => [\A n \in Names \ Restored : Spares(n)]_vars
    <2> SUFFICES ASSUME ToolCallInv, [Next]_vars
                 PROVE  \A n \in Names \ Restored : Spares(n)
      OBVIOUS
    <2>1. CASE target' = target
      BY <2>1 DEF Spares
    <2>2. CASE ToolExecutes
      BY <2>2, Execution DEF ToolCallInv
    <2> QED
      BY <2>1, <2>2, Changes
  <1> QED
    BY <1>1, Invariance, PTL DEF Spec, OthersAreSpared, Spares

-----------------------------------------------------------------------------
\* That calls end is a property of fairness, which is for TLC; that they go on and have
\* somebody to wait for is one of the steps.

CallRank ==
  [sent |-> 1, begin |-> 2, copy |-> 3, wait |-> 4, close |-> 5, reply |-> 6, none |-> 7]

\* The call goes on to a later place, or copies another of the lines that there are.
CallAdvances ==
  \/ CallRank[pc] < CallRank[pc']
  \/ pc = "copy" /\ pc' = pc /\ read' = read + 1 /\ read' <= Len(Script(source))

\* A handler that copies or waits has a process to do so from.
Awaited == pc \in {"copy", "wait"} => tool # "none"

LEMMA CallStepAdvances ==
  ASSUME ToolCallInv, Arrive \/ NeverArrives \/ Handler
  PROVE  CallAdvances
  <1>1. CASE CopyLine
    <2>1. /\ read \in Nat /\ sent \in Nat /\ Len(Script(source)) \in Nat
          /\ read < sent /\ sent <= Len(Script(source))
      BY <1>1, ScriptFacts DEF CopyLine, ToolCallInv, Typed, Ranges, Phases, Progress
    <2> QED
      BY <1>1, <2>1 DEF CopyLine, CallAdvances
  <1>2. CASE WaitEnds
    BY <1>2 DEF WaitEnds, To, CallAdvances, CallRank
  <1>3. CASE Arrive \/ NeverArrives \/ Reply \/ OpenFails \/ CopyFails \/ CopyEnds \/ Close \/ Sync
    BY <1>3 DEF Arrive, NeverArrives, Reply, OpenFails, CopyFails, CopyEnds, Close, Sync, To, FailTo,
                CallAdvances, CallRank
  <1>4. CASE StartDump \/ StartRestore
    BY <1>4 DEF StartDump, StartRestore, To, FailTo, CallAdvances, CallRank
  <1> QED
    BY <1>1, <1>2, <1>3, <1>4 DEF Handler

\* No call goes on for ever: each step of it takes it to a later place, or copies one more of
\* the lines that pg_dumpall writes, and neither the processes nor what is around the handler
\* takes it back.  So a handler that does not return is one that waits for its process.
THEOREM CallsAdvance ==
  Spec => [][/\ Arrive \/ NeverArrives \/ Handler => CallAdvances
             /\ Surroundings \/ Tool => UNCHANGED <<pc, source>>
             /\ pc = "copy" /\ (Surroundings \/ Tool) => read' = read]_vars
  <1>1. ToolCallInv /\ [Next]_vars =>
          [/\ Arrive \/ NeverArrives \/ Handler => CallAdvances
           /\ Surroundings \/ Tool => UNCHANGED <<pc, source>>
           /\ pc = "copy" /\ (Surroundings \/ Tool) => read' = read]_vars
    <2> SUFFICES ASSUME ToolCallInv, Surroundings \/ Tool
                 PROVE  UNCHANGED <<pc, source>> /\ (pc = "copy" => read' = read)
      BY CallStepAdvances
    <2>1. CASE Surroundings \/ Processes
      BY <2>1, OfSurroundings, OfProcesses
    <2>2. CASE ToolExecutes
      BY <2>2 DEF ToolExecutes, handlerVars, ToolCallInv, Phases
    <2> QED
      BY <2>1, <2>2 DEF Tool, Processes
  <1> QED
    BY <1>1, Invariance, PTL DEF Spec

\* No handler waits for a process that is not there: whatever ends the call, kills the process
\* or leaves a pg_dump without its pg_dumpall, there is one whose end the handler will see.
THEOREM ProcessesAreThere == Spec => []Awaited
  <1>1. Init => Awaited
    BY DEF Init, Awaited
  <1>2. Awaited /\ [Next]_vars => Awaited'
    <2> SUFFICES ASSUME Awaited, [Next]_vars PROVE Awaited'
      OBVIOUS
    <2>1. CASE Surroundings
      BY <2>1, OfSurroundings DEF Awaited
    <2>2. CASE Processes
      <3>1. tool' # "none"
        BY <2>2 DEF Processes, ToolWrites, ToolExits, ToolFails, KillTool, OrphanEnds
      <3> QED
        BY <3>1 DEF Awaited
    <2>3. CASE Call \/ Arrive \/ NeverArrives \/ Reply \/ KillPod
      BY <2>3 DEF Call, Arrive, NeverArrives, Reply, KillPod, Awaited
    <2>4. CASE OpenFails \/ StartDump \/ CopyLine \/ CopyFails \/ CopyEnds
      BY <2>4 DEF OpenFails, StartDump, CopyLine, CopyFails, CopyEnds, To, FailTo, toolVars, Awaited
    <2>5. CASE WaitEnds \/ Close \/ StartRestore \/ Sync \/ ToolExecutes
      BY <2>5 DEF WaitEnds, Close, StartRestore, Sync, ToolExecutes, To, FailTo, handlerVars, Awaited
    <2> QED
      BY <2>1, <2>2, <2>3, <2>4, <2>5, Kinds
  <1> QED
    BY <1>1, <1>2, PTL DEF Spec

=============================================================================
