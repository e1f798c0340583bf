--------------------------- MODULE PlainStoreProofs ---------------------------
(***************************************************************************)
(* Theorems about PlainStore, for any number of processes on one file:     *)
(* what serves is migrated, a reported id never names another memory, and  *)
(* a client that follows next_offset to the end misses no more of what it  *)
(* is owed than was deleted before its offsets or stored between the count *)
(* and the rows of its last page, and gets nothing twice.                  *)
(***************************************************************************)
EXTENDS PlainStore, FiniteSetTheorems, TLAPS

-----------------------------------------------------------------------------
(* Ranks in the order of Recency *)

UniqueIds(M) == \A a, b \in M : a.id = b.id => a = b

LEMMA RowNumbers == \A m \in Row : m.created \in Int /\ m.id \in Int
<1>. SUFFICES ASSUME NEW m \in Row PROVE m.created \in Int /\ m.id \in Int
  OBVIOUS
<1>1. m.created \in Time /\ m.id \in 1..MaxId
  BY DEF Row
<1>2. m.created \in Int
  BY <1>1, NumberAssumption, Zenon
<1>3. m.id \in Int
  BY <1>1
<1>. QED  BY <1>2, <1>3

LEMMA RankType ==
  ASSUME NEW M, IsFiniteSet(M), NEW m
  PROVE  Rank(M, m) \in Nat
BY FS_Subset, FS_CardinalityType DEF Rank

LEMMA RankBelow ==
  ASSUME NEW M \in SUBSET Row, IsFiniteSet(M), NEW m \in M
  PROVE  Rank(M, m) < Cardinality(M)
<1>. DEFINE A == {n \in M : Newer(n, m)}
<1>1. m.created \in Int /\ m.id \in Int
  BY RowNumbers
<1>2. m \notin A
  BY <1>1 DEF Newer
<1>3. IsFiniteSet(A) /\ Cardinality(A) <= Cardinality(M) /\ Cardinality(A) # Cardinality(M)
  BY <1>2, FS_Subset
<1>4. Cardinality(A) \in Nat /\ Cardinality(M) \in Nat
  BY <1>3, FS_CardinalityType
<1>. QED  BY <1>3, <1>4 DEF Rank

LEMMA RankGrows ==
  ASSUME NEW N, IsFiniteSet(N), NEW M \in SUBSET N, NEW m
  PROVE  Rank(M, m) <= Rank(N, m)
<1>. DEFINE A == {n \in M : Newer(n, m)}
            B == {n \in N : Newer(n, m)}
<1>1. IsFiniteSet(B)
  BY FS_Subset
<1>2. A \in SUBSET B
  OBVIOUS
<1>. HIDE DEF A, B
<1>3. Cardinality(A) <= Cardinality(B)
  BY <1>1, <1>2, FS_Subset
<1>. QED  BY <1>3 DEF Rank, A, B

\* A row that comes before another has the smaller rank.
LEMMA RankOrder ==
  ASSUME NEW M \in SUBSET Row, IsFiniteSet(M), NEW a \in M, NEW b \in M, Newer(a, b)
  PROVE  Rank(M, a) < Rank(M, b)
<1>. DEFINE A == {n \in M : Newer(n, a)}
            B == {n \in M : Newer(n, b)}
<1>1. \A n \in M : n.created \in Int /\ n.id \in Int
  BY RowNumbers
<1>2. A \in SUBSET B /\ a \in B /\ a \notin A
  BY <1>1 DEF Newer
<1>3. IsFiniteSet(A) /\ IsFiniteSet(B)
  BY FS_Subset
<1>. HIDE DEF A, B
<1>4. Cardinality(A) <= Cardinality(B) /\ Cardinality(A) # Cardinality(B)
  BY <1>2, <1>3, FS_Subset
<1>5. Cardinality(A) \in Nat /\ Cardinality(B) \in Nat
  BY <1>3, FS_CardinalityType
<1>. QED  BY <1>4, <1>5 DEF Rank, A, B

\* No two rows have the same rank.
LEMMA RanksDiffer ==
  ASSUME NEW M \in SUBSET Row, IsFiniteSet(M), UniqueIds(M)
  PROVE  \A a, b \in M : a # b => Rank(M, a) # Rank(M, b)
<1>1. \A a, b \in M : a # b => Newer(a, b) \/ Newer(b, a)
  BY RowNumbers DEF UniqueIds, Newer
<1>. SUFFICES ASSUME NEW a \in M, NEW b \in M, a # b PROVE Rank(M, a) # Rank(M, b)
  OBVIOUS
<1>2. Rank(M, a) \in Nat /\ Rank(M, b) \in Nat
  BY RankType
<1>3. Rank(M, a) < Rank(M, b) \/ Rank(M, b) < Rank(M, a)
  BY <1>1, RankOrder
<1>. QED  BY <1>2, <1>3

\* A page holds no more rows than its size, because no two rows share a rank.
LEMMA WindowSize ==
  ASSUME NEW M \in SUBSET Row, IsFiniteSet(M), UniqueIds(M), NEW o \in Nat, NEW l \in Nat
  PROVE  LET W == {m \in M : Rank(M, m) \in o .. o + l - 1}
         IN  Cardinality(W) \in Nat /\ Cardinality(W) <= l
<1>. DEFINE W == {m \in M : Rank(M, m) \in o .. o + l - 1}
            f == [m \in W |-> Rank(M, m)]
<1>1. \A a, b \in M : a # b => Rank(M, a) # Rank(M, b)
  BY RanksDiffer
<1>2. f \in Injection(W, o .. o + l - 1)
  BY <1>1 DEF Injection, IsInjective
<1>3. IsFiniteSet(o .. o + l - 1) /\ Cardinality(o .. o + l - 1) = l
  BY FS_Interval
<1>4. IsFiniteSet(W)
  BY FS_Subset
<1>. HIDE DEF W, f
<1>5. Cardinality(W) <= l
  BY <1>2, <1>3, FS_Injection
<1>. QED  BY <1>4, <1>5, FS_CardinalityType DEF W

\* The ranks of a finite set of rows leave no gap.
LEMMA RanksAreDense ==
  ASSUME NEW M \in SUBSET Row, IsFiniteSet(M), UniqueIds(M), NEW r \in 0 .. Cardinality(M) - 1
  PROVE  \E m \in M : Rank(M, m) = r
<1>. DEFINE f == [m \in M |-> Rank(M, m)]
            N == 0 .. Cardinality(M) - 1
            I == {Rank(M, m) : m \in M}
<1>1. Cardinality(M) \in Nat
  BY FS_CardinalityType
<1>2. \A m \in M : Rank(M, m) \in N
  BY <1>1, RankType, RankBelow
<1>3. \A a, b \in M : Rank(M, a) = Rank(M, b) => a = b
  BY RanksDiffer
<1>4. f \in Bijection(M, I)
  BY <1>3 DEF Bijection, Injection, Surjection, IsInjective
<1>5. IsFiniteSet(I) /\ Cardinality(I) = Cardinality(M)
  BY <1>4, FS_Bijection DEF ExistsBijection
<1>6. IsFiniteSet(N) /\ Cardinality(N) = Cardinality(M)
  BY <1>1, FS_Interval
<1>7. I \in SUBSET N
  BY <1>2
<1>. HIDE DEF I, N, f
<1>8. I = N
  BY <1>5, <1>6, <1>7, FS_Subset
<1>. QED BY <1>8 DEF I, N

\* A page takes the next ranks, as many as it has rows.
LEMMA WindowRanks ==
  ASSUME NEW M \in SUBSET Row, IsFiniteSet(M), UniqueIds(M), NEW o \in Nat, NEW l \in Nat
  PROVE  LET W == {m \in M : Rank(M, m) \in o .. o + l - 1}
         IN  \A m \in W : Rank(M, m) < o + Cardinality(W)
<1>. DEFINE W == {m \in M : Rank(M, m) \in o .. o + l - 1}
<1>. SUFFICES ASSUME NEW m \in W PROVE Rank(M, m) < o + Cardinality(W)
  OBVIOUS
<1>. DEFINE r == Rank(M, m)
            g == [x \in W |-> Rank(M, x)]
            J == {Rank(M, x) : x \in W}
<1>1. IsFiniteSet(W) /\ Cardinality(W) \in Nat
  BY FS_Subset, FS_CardinalityType
<1>2. m \in M /\ r \in Nat /\ o <= r /\ r <= o + l - 1 /\ Cardinality(M) \in Nat
      /\ r < Cardinality(M)
  BY RankType, RankBelow, FS_CardinalityType
<1>3. o .. r \subseteq J
  <2>. SUFFICES ASSUME NEW x \in o .. r PROVE x \in J
    OBVIOUS
  <2>1. x \in 0 .. Cardinality(M) - 1 /\ x \in o .. o + l - 1
    BY <1>2
  <2>2. PICK y \in M : Rank(M, y) = x
    BY <2>1, RanksAreDense
  <2>. QED BY <2>1, <2>2
<1>4. g \in Surjection(W, J)
  BY DEF Surjection
<1>. HIDE DEF W, J, g, r
<1>5. IsFiniteSet(J) /\ Cardinality(J) <= Cardinality(W)
  BY <1>1, <1>4, FS_Surjection
<1>6. IsFiniteSet(o .. r) /\ Cardinality(o .. r) = r - o + 1
  <2>1. o \in Int /\ r \in Int /\ ~(o > r)
    BY <1>2
  <2>. QED BY <2>1, FS_Interval
<1>7. Cardinality(o .. r) <= Cardinality(J) /\ Cardinality(J) \in Nat
  BY <1>3, <1>5, FS_Subset, FS_CardinalityType
<1>8. r < o + Cardinality(W)
  BY <1>1, <1>2, <1>5, <1>6, <1>7
<1>. QED BY <1>8 DEF W, r

\* The rows of S that rank before o in M.
Passed(S, M, o) == {m \in S : Rank(M, m) < o}

LEMMA PassedAreFinite ==
  ASSUME NEW M, IsFiniteSet(M), NEW S \in SUBSET M, NEW N, NEW o
  PROVE  IsFiniteSet(Passed(S, N, o)) /\ Cardinality(Passed(S, N, o)) \in Nat
<1>1. IsFiniteSet(Passed(S, N, o))
  BY FS_Subset DEF Passed
<1>. QED BY <1>1, FS_CardinalityType

\* At most o rows rank before o.
LEMMA PassedAtMost ==
  ASSUME NEW M \in SUBSET Row, IsFiniteSet(M), UniqueIds(M), NEW o \in Nat
  PROVE  Cardinality(Passed(M, M, o)) <= o
<1>. DEFINE A == Passed(M, M, o)
            f == [m \in A |-> Rank(M, m)]
<1>1. \A m \in A : m \in M /\ Rank(M, m) \in 0 .. o - 1
  BY RankType DEF Passed
<1>2. f \in Injection(A, 0 .. o - 1)
  BY <1>1, RanksDiffer DEF Injection, IsInjective
<1>3. IsFiniteSet(0 .. o - 1) /\ Cardinality(0 .. o - 1) = o
  BY FS_Interval
<1>. HIDE DEF A, f
<1>. QED BY <1>2, <1>3, FS_Injection DEF A

\* No more rows rank at or past o than there are beyond o.
LEMMA PastAtMost ==
  ASSUME NEW M \in SUBSET Row, IsFiniteSet(M), UniqueIds(M), NEW A \in SUBSET M,
         NEW o \in Nat, o <= Cardinality(M), \A m \in A : ~(Rank(M, m) < o)
  PROVE  Cardinality(A) <= Cardinality(M) - o
<1>. DEFINE c == Cardinality(M)
            f == [m \in A |-> Rank(M, m)]
<1>1. c \in Nat
  BY FS_CardinalityType
<1>2. \A m \in A : Rank(M, m) \in o .. c - 1
  <2>. SUFFICES ASSUME NEW m \in A PROVE Rank(M, m) \in o .. c - 1
    OBVIOUS
  <2>1. Rank(M, m) \in Nat /\ Rank(M, m) < c /\ ~(Rank(M, m) < o)
    BY RankType, RankBelow
  <2>. HIDE DEF c
  <2>. QED  BY <1>1, <2>1
<1>3. \A a, b \in A : Rank(M, a) = Rank(M, b) => a = b
  BY RanksDiffer
<1>4. f \in Injection(A, o .. c - 1)
  BY <1>2, <1>3 DEF Injection, IsInjective
<1>. HIDE DEF c, f
<1>5. IsFiniteSet(o .. c - 1) /\ Cardinality(o .. c - 1) = c - o
  <2>1. o \in Int /\ c - 1 \in Int
    BY <1>1
  <2>2. /\ IsFiniteSet(o .. c - 1)
        /\ Cardinality(o .. c - 1) = IF o > c - 1 THEN 0 ELSE c - 1 - o + 1
    BY <2>1, FS_Interval, Zenon
  <2>3. o <= c
    BY DEF c
  <2>. QED  BY <1>1, <2>2, <2>3
<1>. QED  BY <1>4, <1>5, FS_Injection DEF c

\* Exactly o rows rank before o if another row does not.
LEMMA PassedAtLeast ==
  ASSUME NEW M \in SUBSET Row, IsFiniteSet(M), UniqueIds(M), NEW o \in Nat,
         NEW x \in M, ~(Rank(M, x) < o)
  PROVE  o <= Cardinality(Passed(M, M, o))
<1>. DEFINE B == Passed(M, M, o)
            J == {Rank(M, m) : m \in B}
            g == [m \in B |-> Rank(M, m)]
<1>1. Cardinality(M) \in Nat /\ o <= Cardinality(M)
  <2>1. Rank(M, x) \in Nat /\ Rank(M, x) < Cardinality(M) /\ Cardinality(M) \in Nat
    BY RankType, RankBelow, FS_CardinalityType
  <2>. QED BY <2>1
<1>2. 0 .. o - 1 \subseteq J
  <2>. SUFFICES ASSUME NEW k \in 0 .. o - 1 PROVE k \in J
    OBVIOUS
  <2>1. k \in 0 .. Cardinality(M) - 1 /\ k < o
    BY <1>1
  <2>2. PICK m \in M : Rank(M, m) = k
    BY <2>1, RanksAreDense
  <2>. QED BY <2>1, <2>2 DEF Passed
<1>3. g \in Surjection(B, J)
  BY DEF Surjection
<1>4. IsFiniteSet(B) /\ Cardinality(B) \in Nat
  BY PassedAreFinite
<1>. HIDE DEF B, J, g
<1>5. IsFiniteSet(0 .. o - 1) /\ Cardinality(0 .. o - 1) = o
  <2>1. IsFiniteSet(0 .. o - 1) /\ Cardinality(0 .. o - 1) = IF 0 > o - 1 THEN 0 ELSE o - 1 - 0 + 1
    <3>1. 0 \in Int /\ o - 1 \in Int
      OBVIOUS
    <3>. QED  BY <3>1, FS_Interval, Zenon
  <2>. QED  BY <2>1
<1>6. IsFiniteSet(J) /\ Cardinality(J) <= Cardinality(B)
  BY <1>3, <1>4, FS_Surjection
<1>7. o <= Cardinality(J) /\ Cardinality(J) \in Nat
  BY <1>2, <1>5, <1>6, FS_Subset, FS_CardinalityType
<1>8. o <= Cardinality(B)
  BY <1>4, <1>6, <1>7
<1>. QED BY <1>8 DEF B

\* Deleting D lets no more of the other rows rank before o than it takes from there.
LEMMA MovedUp ==
  ASSUME NEW M \in SUBSET Row, IsFiniteSet(M), UniqueIds(M), NEW D, NEW o \in Nat
  PROVE  LET A == Passed(M \ D, M \ D, o)
             B == Passed(M, M, o)
         IN  Cardinality(A \ B) <= Cardinality(D \cap B)
<1>. DEFINE A == Passed(M \ D, M \ D, o)
            B == Passed(M, M, o)
            C == B \ D
            k == Cardinality(D \cap B)
<1>1. /\ IsFiniteSet(M \ D) /\ M \ D \in SUBSET Row /\ UniqueIds(M \ D)
      /\ M \ D \in SUBSET M
  BY FS_Subset DEF UniqueIds
<1>2. IsFiniteSet(A) /\ IsFiniteSet(B) /\ Cardinality(A) \in Nat /\ Cardinality(B) \in Nat
  BY <1>1, PassedAreFinite
<1>3. C \in SUBSET A
  <2>. SUFFICES ASSUME NEW m \in C PROVE m \in A
    OBVIOUS
  <2>1. m \in M \ D /\ Rank(M, m) < o
    BY DEF Passed
  <2>2. Rank(M \ D, m) \in Nat /\ Rank(M, m) \in Nat /\ Rank(M \ D, m) <= Rank(M, m)
    BY <1>1, RankType, RankGrows
  <2>. QED BY <2>1, <2>2 DEF Passed
<1>4. Cardinality(A) <= o
  BY <1>1, PassedAtMost
<1>5. A \ B # {} => o <= Cardinality(B)
  <2>. SUFFICES ASSUME NEW x \in A \ B PROVE o <= Cardinality(B)
    OBVIOUS
  <2>1. x \in M /\ ~(Rank(M, x) < o)
    BY DEF Passed
  <2>. QED BY <2>1, PassedAtLeast
<1>. HIDE DEF A, B
<1>6. /\ IsFiniteSet(C) /\ Cardinality(C) \in Nat
      /\ Cardinality(C) = Cardinality(B) - Cardinality(B \cap D)
  BY <1>2, FS_Difference, FS_CardinalityType
<1>7. B \cap D = D \cap B /\ k \in Nat
  BY <1>2, FS_Intersection, FS_CardinalityType
<1>8. Cardinality(A \ C) = Cardinality(A) - Cardinality(C) /\ IsFiniteSet(A \ C)
  <2>1. A \cap C = C
    BY <1>3
  <2>. HIDE DEF C
  <2>. QED BY <1>2, <2>1, FS_Difference
<1>9. Cardinality(A \ B) <= Cardinality(A \ C) /\ Cardinality(A \ B) \in Nat
  <2>1. A \ B \in SUBSET (A \ C)
    OBVIOUS
  <2>2. IsFiniteSet(A \ B)
    BY <1>2, FS_Difference
  <2>. HIDE DEF C
  <2>. QED BY <1>8, <2>1, <2>2, FS_Subset, FS_CardinalityType
<1>10. CASE A \ B = {}
  BY <1>7, <1>10, FS_EmptySet DEF A, B
<1>11. CASE A \ B # {}
  <2>1. o <= Cardinality(B)
    BY <1>5, <1>11
  <2>2. Cardinality(C) = Cardinality(B) - k
    BY <1>6, <1>7
  <2>. DEFINE a == Cardinality(A)
              b == Cardinality(B)
              c == Cardinality(C)
              d == Cardinality(A \ B)
              e == Cardinality(A \ C)
  <2>3. a \in Nat /\ b \in Nat /\ c \in Nat /\ d \in Nat /\ k \in Nat
    BY <1>2, <1>6, <1>7, <1>9
  <2>4. a <= o /\ o <= b /\ c = b - k /\ e = a - c /\ d <= e
    BY <1>4, <1>8, <1>9, <2>1, <2>2
  <2>. HIDE DEF a, b, c, d, e, k
  <2>5. d <= k
    BY <2>3, <2>4
  <2>. QED BY <2>5 DEF d, k, A, B
<1>. QED BY <1>10, <1>11

LEMMA DeletePassed ==
  ASSUME NEW M \in SUBSET Row, IsFiniteSet(M), UniqueIds(M), NEW D, NEW o \in Nat,
         NEW S \in SUBSET M
  PROVE  Cardinality(Passed(S \ D, M \ D, o))
           <= Cardinality(Passed(S, M, o)) + Cardinality(D \cap Passed(M, M, o))
<1>. DEFINE A == Passed(M \ D, M \ D, o)
            B == Passed(M, M, o)
            P == Passed(S, M, o)
            Q == Passed(S \ D, M \ D, o)
<1>1. Cardinality(A \ B) <= Cardinality(D \cap B)
  BY MovedUp
<1>2. Q \subseteq P \cup (A \ B)
  BY DEF Passed
<1>3. IsFiniteSet(P) /\ IsFiniteSet(B)
  BY PassedAreFinite
<1>4. IsFiniteSet(A)
  <2>1. IsFiniteSet(M \ D)
    BY FS_Difference
  <2>. QED BY <2>1, PassedAreFinite
<1>. HIDE DEF A, B, P, Q
<1>5. IsFiniteSet(A \ B) /\ IsFiniteSet(D \cap B)
  BY <1>3, <1>4, FS_Difference, FS_Intersection
<1>. DEFINE E == A \ B
            F == D \cap B
            U == P \cup E
<1>6. /\ IsFiniteSet(U) /\ IsFiniteSet(P \cap E)
      /\ Cardinality(U) = Cardinality(P) + Cardinality(E) - Cardinality(P \cap E)
  BY <1>3, <1>5, FS_Union, FS_Intersection
<1>7. Cardinality(Q) <= Cardinality(U) /\ IsFiniteSet(Q)
  BY <1>2, <1>6, FS_Subset
<1>8. /\ Cardinality(P) \in Nat /\ Cardinality(E) \in Nat /\ Cardinality(F) \in Nat
      /\ Cardinality(U) \in Nat /\ Cardinality(P \cap E) \in Nat /\ Cardinality(Q) \in Nat
  BY <1>3, <1>5, <1>6, <1>7, FS_CardinalityType
<1>9. Cardinality(E) <= Cardinality(F)
  BY <1>1 DEF A, B
<1>. HIDE DEF E, F, U
<1>10. Cardinality(Q) <= Cardinality(P) + Cardinality(F)
  BY <1>6, <1>7, <1>8, <1>9
<1>. QED BY <1>10 DEF P, Q, F, B

-----------------------------------------------------------------------------
(* Types *)

Finite == IsFiniteSet(memory)

LEMMA MatchesAreFinite ==
  ASSUME Finite, NEW pg
  PROVE  /\ IsFiniteSet(Matching(pg)) /\ Cardinality(Matching(pg)) \in Nat
         /\ Cardinality(Window(pg)) \in Nat
<1>1. IsFiniteSet(Matching(pg))
  BY FS_Subset DEF Finite, Matching
<1>2. IsFiniteSet(Window(pg))
  BY <1>1, FS_Subset DEF Window
<1>. QED  BY <1>1, <1>2, FS_CardinalityType

LEMMA DeletedAreFinite ==
  ASSUME Finite, NEW D, NEW pg, NEW o
  PROVE  Cardinality(D \cap Passed(Matching(pg), Matching(pg), o)) \in Nat
<1>1. IsFiniteSet(Passed(Matching(pg), Matching(pg), o))
  BY MatchesAreFinite, PassedAreFinite
<1>. QED  BY <1>1, FS_Intersection, FS_CardinalityType

LEMMA AfterDeletePassed ==
  ASSUME NEW D, NEW r \in Process
  PROVE  AfterDelete(D)[r] = [sweep[r] EXCEPT
           !.owed = @ \ D, !.got = @ \ D,
           !.lost = @ + Cardinality(D \cap Passed(Matching(page[r]), Matching(page[r]),
                                                  page[r].offset))]
<1>. DEFINE B == {m \in D \cap Matching(page[r]) :
                    Rank(Matching(page[r]), m) < page[r].offset}
            P == Passed(Matching(page[r]), Matching(page[r]), page[r].offset)
<1>1. B = D \cap P
  BY DEF Passed
<1>2. AfterDelete(D)[r] = [sweep[r] EXCEPT
        !.owed = @ \ D, !.got = @ \ D, !.lost = @ + Cardinality(B)]
  BY DEF AfterDelete
<1>. QED  BY <1>1, <1>2

\* The rows of an old file once the scope column is there.
Migrated == {[m EXCEPT !.scope = DefaultScope] : m \in memory}

LEMMA MigratedRows ==
  ASSUME TypeOK, Finite
  PROVE  Migrated \subseteq Row /\ IsFiniteSet(Migrated)
<1>1. Migrated \subseteq Row
  BY ScopeAssumption DEF TypeOK, Migrated, Row
<1>. DEFINE f == [m \in memory |-> [m EXCEPT !.scope = DefaultScope]]
<1>2. f \in Surjection(memory, Migrated)
  BY DEF Migrated, Surjection
<1>. HIDE DEF f
<1>. QED  BY <1>1, <1>2, FS_Surjection DEF Finite

LEMMA TypeInit == Init => TypeOK /\ Finite
<1>. SUFFICES ASSUME Init PROVE TypeOK /\ Finite
  OBVIOUS
<1>1. NoPage \in Page /\ NoSweep \in Sweep
  BY DEF NoPage, Page, NoSweep, Sweep
<1>2. memory \subseteq Row /\ Finite
  <2>1. CASE memory = {}
    BY <2>1, FS_EmptySet DEF Finite
  <2>2. ASSUME NEW m \in Unscoped, memory = {m} PROVE memory \subseteq Row /\ Finite
    <3>1. Unscoped \subseteq Row
      BY DEF Unscoped, Row
    <3>. QED  BY <2>2, <3>1, FS_Singleton DEF Finite
  <2>. QED  BY <2>1, <2>2 DEF Init
<1>. QED  BY <1>1, <1>2, NumberAssumption DEF Init, TypeOK

LEMMA CountPageTypes ==
  ASSUME TypeOK, Finite, NEW p \in Process, NEW pg \in Page, CountPage(p, pg),
         sweep' \in [Process -> Sweep]
  PROVE  TypeOK' /\ Finite'
<1>. DEFINE counted == [pg EXCEPT !.total = Cardinality(Matching(pg))]
<1>1. counted \in Page
  BY MatchesAreFinite DEF Page
<1>2. page' = [page EXCEPT ![p] = counted]
  BY DEF CountPage
<1>. HIDE DEF counted
<1>. QED  BY <1>1, <1>2 DEF CountPage, TypeOK, Finite

LEMMA TypeStep == TypeOK /\ Finite /\ [Next]_vars => TypeOK' /\ Finite'
<1>. SUFFICES ASSUME TypeOK, Finite, [Next]_vars PROVE TypeOK' /\ Finite'
  OBVIOUS
<1>1. ASSUME NEW p \in Process, Connect(p) \/ ReadColumns(p) PROVE TypeOK' /\ Finite'
  BY <1>1 DEF Connect, ReadColumns, TypeOK, Finite
<1>2. ASSUME NEW p \in Process, AddScopeColumn(p) PROVE TypeOK' /\ Finite'
  <2>1. memory' = Migrated \/ memory' = memory
    BY <1>2 DEF AddScopeColumn, Migrated
  <2>2. memory' \subseteq Row /\ Finite'
    BY <2>1, MigratedRows DEF TypeOK, Finite
  <2>. QED  BY <1>2, <2>2 DEF AddScopeColumn, TypeOK
<1>3. ASSUME NEW p \in Process, NEW c \in Content, NEW l \in StoreLabel, NEW w \in Time,
             Store(p, c, l, w)
      PROVE  TypeOK' /\ Finite'
  <2>. DEFINE m == [id |-> sequence + 1, content |-> c, scope |-> NormalizeScope(l),
                    created |-> w]
  <2>1. m \in Row
    <3>1. NormalizeScope(l) \in Scope
      BY ScopeAssumption, LabelAssumption DEF NormalizeScope
    <3>2. sequence + 1 \in 1..MaxId
      BY <1>3, NumberAssumption DEF Store, TypeOK
    <3>. QED  BY <3>1, <3>2 DEF Row
  <2>. HIDE DEF m
  <2>2. /\ memory' = memory \cup {m} /\ told' = told \cup {m}
        /\ sequence' = sequence + 1 /\ sequence < MaxId
        /\ sweep' = AfterStore(m)
        /\ UNCHANGED <<schema, at, page>>
    BY <1>3 DEF Store, NextRowid, m
  <2>3. sweep' \in [Process -> Sweep]
    <3>. DEFINE late(r) == IF at[r] = "selectPage" /\ Matches(m, page[r])
                             THEN sweep[r].late + 1 ELSE sweep[r].late
                got(r) == IF Matches(m, page[r]) /\ \E g \in sweep[r].got : Newer(m, g)
                            THEN {} ELSE sweep[r].got
    <3>1. sweep' = [r \in Process |-> [sweep[r] EXCEPT !.late = late(r), !.got = got(r)]]
      BY <2>2 DEF AfterStore
    <3>2. ASSUME NEW r \in Process
          PROVE  sweep[r] \in Sweep /\ late(r) \in Nat /\ got(r) \in SUBSET Row
      <4>1. sweep[r] \in Sweep /\ sweep[r].late \in Nat /\ sweep[r].got \in SUBSET Row
        BY DEF TypeOK, Sweep
      <4>. QED  BY <4>1
    <3>. HIDE DEF late, got
    <3>3. ASSUME NEW r \in Process
          PROVE  [sweep[r] EXCEPT !.late = late(r), !.got = got(r)] \in Sweep
      BY <3>2 DEF Sweep
    <3>. QED  BY <3>1, <3>3
  <2>4. Finite'
    BY <2>2, FS_AddElement DEF Finite
  <2>. QED  BY <2>1, <2>2, <2>3, <2>4, NumberAssumption DEF TypeOK
<1>4. ASSUME NEW p \in Process, NEW q \in Query, NEW labels \in Filter, NEW n \in Limit,
             FirstPage(p, q, labels, n)
      PROVE  TypeOK' /\ Finite'
  <2>. DEFINE pg == [query |-> q, scopes |-> NormalizeScopes(labels), limit |-> n,
                     offset |-> 0, total |-> 0]
              w == [NoSweep EXCEPT !.owed = Matching(pg)]
  <2>1. pg \in Page
    BY LabelAssumption DEF Page, NormalizeScopes
  <2>2. w \in Sweep
    BY DEF NoSweep, Sweep, Matching, TypeOK
  <2>3. CountPage(p, pg) /\ sweep' = [sweep EXCEPT ![p] = w]
    BY <1>4 DEF FirstPage
  <2>. HIDE DEF pg, w
  <2>4. sweep' \in [Process -> Sweep]
    BY <2>2, <2>3 DEF TypeOK
  <2>. QED  BY <2>1, <2>3, <2>4, CountPageTypes
<1>5. ASSUME NEW p \in Process, NextPage(p) PROVE TypeOK' /\ Finite'
  <2>1. page[p] \in Page /\ sweep' \in [Process -> Sweep] /\ CountPage(p, page[p])
    <3>1. sweep' = [sweep EXCEPT ![p].late = 0] /\ CountPage(p, page[p])
      BY <1>5 DEF NextPage
    <3>2. sweep[p] \in Sweep /\ [sweep[p] EXCEPT !.late = 0] \in Sweep
      BY DEF TypeOK, Sweep
    <3>. QED  BY <3>1, <3>2 DEF TypeOK
  <2>. QED  BY <2>1, CountPageTypes
<1>6. ASSUME NEW p \in Process, SelectPage(p) PROVE TypeOK' /\ Finite'
  <2>. DEFINE rows == Window(page[p])
              next == page[p].offset + Cardinality(rows)
              more == next < page[p].total
              pg == IF more THEN [page[p] EXCEPT !.offset = next, !.total = 0] ELSE NoPage
              w == [owed |-> sweep[p].owed \ rows,
                    got |-> IF more THEN sweep[p].got \cup rows ELSE {},
                    lost |-> sweep[p].lost, late |-> sweep[p].late, more |-> more]
  <2>1. next \in Nat
    BY MatchesAreFinite DEF TypeOK, Page
  <2>. HIDE DEF next, rows
  <2>0. more \in BOOLEAN
    BY SMT
  <2>4. page' = [page EXCEPT ![p] = pg] /\ sweep' = [sweep EXCEPT ![p] = w]
    BY <1>6 DEF SelectPage, HasMore, next, rows
  <2>. HIDE DEF more
  <2>2. pg \in Page
    BY <2>1 DEF TypeOK, Page, NoPage
  <2>3. w \in Sweep
    <3>1. rows \subseteq Row
      BY DEF rows, Window, Matching, TypeOK
    <3>. QED  BY <2>0, <3>1 DEF TypeOK, Sweep
  <2>. HIDE DEF pg, w
  <2>5. page' \in [Process -> Page] /\ sweep' \in [Process -> Sweep]
    BY <2>2, <2>3, <2>4 DEF TypeOK
  <2>. QED  BY <1>6, <2>5 DEF SelectPage, TypeOK, Finite
<1>7. ASSUME NEW D, Delete(D) PROVE TypeOK' /\ Finite'
  <2>1. memory' \subseteq memory /\ Finite'
    BY <1>7, FS_Subset DEF Delete, Finite
  <2>2. sweep' \in [Process -> Sweep]
    <3>. SUFFICES ASSUME NEW r \in Process PROVE AfterDelete(D)[r] \in Sweep
      BY <1>7 DEF Delete, AfterDelete
    <3>. DEFINE k == Cardinality(D \cap Passed(Matching(page[r]), Matching(page[r]),
                                               page[r].offset))
    <3>1. k \in Nat
      BY DeletedAreFinite
    <3>2. AfterDelete(D)[r] = [sweep[r] EXCEPT !.owed = @ \ D, !.got = @ \ D, !.lost = @ + k]
      BY AfterDeletePassed
    <3>3. sweep[r] \in Sweep
      BY DEF TypeOK
    <3>. DEFINE s == sweep[r]
                j == s.lost + k
    <3>. HIDE DEF k
    <3>4. [sweep[r] EXCEPT !.owed = @ \ D, !.got = @ \ D, !.lost = @ + k] \in Sweep
      <4>1. /\ sweep[r].owed \ D \in SUBSET Row /\ sweep[r].got \ D \in SUBSET Row
            /\ sweep[r].lost + k \in Nat /\ sweep[r].more \in BOOLEAN
        BY <3>1, <3>3 DEF Sweep
      <4>2. s \in Sweep /\ j \in Nat
        BY <3>3, <4>1
      <4>. HIDE DEF s, j
      <4>3. [s EXCEPT !.owed = s.owed \ D, !.got = s.got \ D, !.lost = j] \in Sweep
        BY <4>2 DEF Sweep
      <4>. QED  BY <4>3 DEF s, j
    <3>. QED  BY <3>2, <3>4
  <2>. QED  BY <1>7, <2>1, <2>2 DEF Delete, TypeOK
<1>8. ASSUME NEW p \in Process, PageFails(p) \/ Stop(p) PROVE TypeOK' /\ Finite'
  <2>1. NoPage \in Page /\ NoSweep \in Sweep
    BY DEF NoPage, Page, NoSweep, Sweep
  <2>2. page' \in [Process -> Page] /\ sweep' \in [Process -> Sweep]
    BY <1>8, <2>1 DEF PageFails, Stop, TypeOK
  <2>. QED  BY <1>8, <2>2 DEF PageFails, Stop, TypeOK, Finite
<1>9. CASE UNCHANGED vars
  BY <1>9 DEF vars, TypeOK, Finite
<1>. QED  BY <1>1, <1>2, <1>3, <1>4, <1>5, <1>6, <1>7, <1>8, <1>9
          DEF Next, Start, Request, Forget, PurgeScope

\* Every reachable state is well typed.
THEOREM TypeCorrect == Spec => []TypeOK
BY TypeInit, TypeStep, PTL DEF Spec

-----------------------------------------------------------------------------
(* Migration and ids *)

\* Until the file is migrated nobody serves, so nothing is stored and nothing reported.
OldFile ==
  /\ schema = "none" => memory = {}
  /\ schema # "scoped" => told = {}

IdsIssued ==
  /\ UniqueIds(memory)
  /\ \A m \in memory \cup told : m.id <= sequence

FileInv == TypeOK /\ Finite /\ ServingIsMigrated /\ OldFile /\ IdsIssued
             /\ ToldIdsNameTheirMemory

\* The part of FileInv that is not about types.
FileFacts == ServingIsMigrated /\ OldFile /\ IdsIssued /\ ToldIdsNameTheirMemory

LEMMA FileInit == Init => FileInv
<1>. SUFFICES ASSUME Init PROVE FileFacts
  BY TypeInit DEF FileInv, FileFacts
<1>1. CASE memory = {} /\ sequence = 0
  BY <1>1 DEF Init, FileFacts, ServingIsMigrated, OldFile, IdsIssued, UniqueIds,
              ToldIdsNameTheirMemory
<1>2. ASSUME NEW m \in Unscoped, m.id = 1, memory = {m}, sequence = 1, schema = "unscoped"
      PROVE  FileFacts
  BY <1>2 DEF Init, FileFacts, ServingIsMigrated, OldFile, IdsIssued, UniqueIds,
              ToldIdsNameTheirMemory
<1>. QED  BY <1>1, <1>2 DEF Init

LEMMA FileStep == FileInv /\ [Next]_vars => FileInv'
<1>. SUFFICES ASSUME FileInv, [Next]_vars PROVE FileFacts'
  BY TypeStep DEF FileInv, FileFacts
<1>. USE DEF FileInv, FileFacts
<1>1. ASSUME NEW p \in Process, Connect(p) PROVE FileFacts'
  BY <1>1 DEF Connect, ServingIsMigrated, OldFile, IdsIssued, ToldIdsNameTheirMemory, TypeOK
<1>2. ASSUME NEW p \in Process, ReadColumns(p) PROVE FileFacts'
  BY <1>2 DEF ReadColumns, HasScope, ServingIsMigrated, OldFile, IdsIssued, ToldIdsNameTheirMemory,
              TypeOK
<1>3. ASSUME NEW p \in Process, AddScopeColumn(p) PROVE FileFacts'
  <2>1. CASE schema = "unscoped"
    <3>1. /\ schema' = "scoped" /\ memory' = Migrated /\ told = {}
          /\ UNCHANGED <<sequence, told>>
      BY <1>3, <2>1 DEF AddScopeColumn, Migrated, OldFile
    <3>2. \A m \in memory : m \in Row
      BY DEF TypeOK
    <3>3. \A n \in Migrated : n.scope \in Scope /\ \E m \in memory :
            n = [m EXCEPT !.scope = DefaultScope] /\ n.id = m.id
      BY <3>2, ScopeAssumption DEF Migrated, Row
    <3>4. UniqueIds(Migrated)
      BY <3>3 DEF UniqueIds, IdsIssued
    <3>5. \A n \in Migrated : n.id <= sequence
      BY <3>3 DEF IdsIssued
    <3>6. ServingIsMigrated'
      BY <3>1, <3>3 DEF ServingIsMigrated
    <3>. QED  BY <3>1, <3>4, <3>5, <3>6 DEF OldFile, IdsIssued, ToldIdsNameTheirMemory
  <2>2. CASE schema = "scoped"
    BY <1>3, <2>2 DEF AddScopeColumn, ServingIsMigrated, OldFile, IdsIssued,
                      ToldIdsNameTheirMemory, TypeOK
  <2>. QED  BY <1>3, <2>1, <2>2 DEF AddScopeColumn
<1>4. ASSUME NEW p \in Process, NEW c \in Content, NEW l \in StoreLabel, NEW w \in Time,
             Store(p, c, l, w)
      PROVE  FileFacts'
  <2>. DEFINE m == [id |-> sequence + 1, content |-> c, scope |-> NormalizeScope(l),
                    created |-> w]
  <2>1. m.id = sequence + 1 /\ m.scope \in Scope
    BY ScopeAssumption, LabelAssumption DEF NormalizeScope
  <2>. HIDE DEF m
  <2>2. /\ memory' = memory \cup {m} /\ told' = told \cup {m}
        /\ sequence' = sequence + 1
        /\ schema = "scoped" /\ UNCHANGED <<schema, at>>
    BY <1>4 DEF Store, NextRowid, ServingIsMigrated, m
  <2>3. sequence \in Int /\ \A n \in memory \cup told : n.id \in Int /\ n.id <= sequence
    BY RowNumbers DEF IdsIssued, TypeOK
  <2>4. IdsIssued'
    BY <2>1, <2>2, <2>3 DEF IdsIssued, UniqueIds
  <2>5. ToldIdsNameTheirMemory'
    BY <2>1, <2>2, <2>3 DEF ToldIdsNameTheirMemory
  <2>6. ServingIsMigrated' /\ OldFile'
    BY <2>1, <2>2 DEF ServingIsMigrated, OldFile
  <2>. QED  BY <2>4, <2>5, <2>6
<1>5. ASSUME NEW p \in Process, NEW pg, at[p] = "serving", CountPage(p, pg)
      PROVE  FileFacts'
  BY <1>5 DEF CountPage, ServingIsMigrated, OldFile, IdsIssued, ToldIdsNameTheirMemory,
              TypeOK
<1>6. ASSUME NEW p \in Process, SelectPage(p) \/ PageFails(p) \/ Stop(p) PROVE FileFacts'
  BY <1>6 DEF SelectPage, PageFails, Stop, ServingIsMigrated, OldFile, IdsIssued,
              ToldIdsNameTheirMemory, TypeOK
<1>7. ASSUME NEW D, Delete(D) PROVE FileFacts'
  BY <1>7 DEF Delete, ServingIsMigrated, OldFile, IdsIssued, UniqueIds,
              ToldIdsNameTheirMemory
<1>8. CASE UNCHANGED vars
  BY <1>8 DEF vars, ServingIsMigrated, OldFile, IdsIssued, ToldIdsNameTheirMemory
<1>. QED  BY <1>1, <1>2, <1>3, <1>4, <1>5, <1>6, <1>7, <1>8
          DEF Next, Start, Request, Forget, PurgeScope, FirstPage, NextPage

\* However many processes start on an old file at once, and wherever they stop, none
\* serves it before it is migrated, and then every memory is in some scope.
THEOREM Migration == Spec => []ServingIsMigrated
<1>1. FileInv => ServingIsMigrated
  BY DEF FileInv
<1>. QED  BY <1>1, FileInit, FileStep, PTL DEF Spec

\* Ids that any process reported stay with their memories, whatever the others do.
THEOREM ToldIds == Spec => []ToldIdsNameTheirMemory
<1>1. FileInv => ToldIdsNameTheirMemory
  BY DEF FileInv
<1>. QED  BY <1>1, FileInit, FileStep, PTL DEF Spec

-----------------------------------------------------------------------------
(* Paging *)

Asking(p) == at[p] = "selectPage" \/ sweep[p].more

\* While a client goes on asking, what it is owed ranks at or past its next offset, but
\* for as many matches as it has lost, and the count of a page in progress is too small
\* by no more than came late; afterwards it is owed no more than that makes together.
Paging(p) ==
  sweep[p].owed # {} =>
    /\ at[p] \in {"serving", "selectPage"}
    /\ IsFiniteSet(sweep[p].owed)
    /\ Asking(p) =>
         /\ sweep[p].owed \subseteq Matching(page[p])
         /\ Cardinality(Passed(sweep[p].owed, Matching(page[p]), page[p].offset))
              <= sweep[p].lost
    /\ at[p] = "selectPage" =>
         Cardinality(Matching(page[p])) <= page[p].total + sweep[p].late
    /\ at[p] = "serving" /\ ~sweep[p].more =>
         Cardinality(sweep[p].owed) <= sweep[p].lost + sweep[p].late

PagingInv == \A p \in Process : Paging(p)

LEMMA MatchingFacts ==
  ASSUME FileInv, NEW pg
  PROVE  /\ Matching(pg) \in SUBSET Row /\ IsFiniteSet(Matching(pg))
         /\ UniqueIds(Matching(pg)) /\ Cardinality(Matching(pg)) \in Nat
BY MatchesAreFinite DEF FileInv, Matching, TypeOK, IdsIssued, UniqueIds

LEMMA PageNumbers ==
  ASSUME FileInv, NEW p \in Process
  PROVE  /\ page[p] \in Page /\ page[p].offset \in Nat /\ page[p].limit \in Nat
         /\ page[p].total \in Nat /\ sweep[p] \in Sweep /\ sweep[p].lost \in Nat
         /\ sweep[p].late \in Nat
<1>1. /\ page[p] \in Page /\ page[p].offset \in Nat /\ page[p].total \in Nat
      /\ sweep[p] \in Sweep /\ sweep[p].lost \in Nat /\ sweep[p].late \in Nat
  BY DEF FileInv, TypeOK, Page, Sweep
<1>2. page[p].limit \in Limit \cup {0}
  BY <1>1 DEF Page
<1>3. Limit \cup {0} \subseteq Nat
  BY NumberAssumption
<1>4. page[p].limit \in Nat
  BY <1>2, <1>3, Zenon
<1>. QED  BY <1>1, <1>4

\* A step keeps Paging for a process if it leaves alone where the process is and what
\* its page matches.
LEMMA PagingKept ==
  ASSUME NEW p \in Process, Paging(p), UNCHANGED <<at[p], page[p], Matching(page[p])>>,
         \/ UNCHANGED <<sweep[p].owed, sweep[p].lost, sweep[p].late, sweep[p].more>>
         \/ sweep'[p].owed = {}
  PROVE  Paging(p)'
BY DEF Paging, Asking, Passed, Rank

LEMMA StorePaging ==
  ASSUME FileInv, PagingInv, NEW p \in Process, NEW c \in Content, NEW l \in StoreLabel,
         NEW w \in Time, Store(p, c, l, w), FileInv', NEW r \in Process
  PROVE  Paging(r)'
<1>. DEFINE m == [id |-> sequence + 1, content |-> c, scope |-> NormalizeScope(l),
                  created |-> w]
            M == Matching(page[r])
            S == sweep[r].owed
            o == page[r].offset
<1>1. memory' = memory \cup {m} /\ sweep' = AfterStore(m) /\ UNCHANGED <<at, page>>
  BY DEF Store, NextRowid
<1>. HIDE DEF m
<1>. PICK N : N = Matching(page[r])'
  OBVIOUS
<1>2. N = IF Matches(m, page[r]) THEN M \cup {m} ELSE M
  BY <1>1 DEF Matching, Matches
<1>3. /\ sweep'[r].more = sweep[r].more /\ sweep'[r].lost = sweep[r].lost
      /\ sweep'[r].owed = S
      /\ sweep'[r].late = IF at[r] = "selectPage" /\ Matches(m, page[r])
                            THEN sweep[r].late + 1 ELSE sweep[r].late
  BY <1>1 DEF AfterStore, FileInv, TypeOK, Sweep
<1>4. /\ Paging(r) /\ o \in Nat /\ sweep[r].lost \in Nat /\ sweep[r].late \in Nat
      /\ page[r].total \in Nat
  BY PageNumbers DEF PagingInv
<1>5. CASE ~Matches(m, page[r])
  <2>1. UNCHANGED Matching(page[r])
    BY <1>2, <1>5
  <2>. QED  BY <1>1, <1>3, <1>4, <1>5, <2>1, PagingKept
<1>6. CASE Matches(m, page[r]) /\ ~Asking(r)
  BY <1>1, <1>3, <1>4, <1>6 DEF Paging, Asking
<1>7. CASE Matches(m, page[r]) /\ Asking(r)
  <2>. SUFFICES ASSUME S # {} PROVE Paging(r)'
    BY <1>3 DEF Paging
  <2>1. /\ IsFiniteSet(M) /\ M \subseteq N /\ S \subseteq M /\ IsFiniteSet(N)
        /\ Cardinality(Passed(S, M, o)) <= sweep[r].lost
    BY <1>2, <1>4, <1>7, MatchingFacts, FS_AddElement DEF Paging
  <2>2. Passed(S, N, o) \subseteq Passed(S, M, o)
    <3>. SUFFICES ASSUME NEW x \in S, Rank(N, x) < o PROVE Rank(M, x) < o
      BY DEF Passed
    <3>1. Rank(M, x) \in Nat /\ Rank(N, x) \in Nat /\ Rank(M, x) <= Rank(N, x)
      BY <2>1, RankType, RankGrows
    <3>. QED  BY <1>4, <3>1
  <2>3. /\ IsFiniteSet(Passed(S, M, o)) /\ Cardinality(Passed(S, M, o)) \in Nat
        /\ Cardinality(Passed(S, N, o)) \in Nat
    BY <2>1, PassedAreFinite
  <2>4. Cardinality(Passed(S, N, o)) <= Cardinality(Passed(S, M, o))
    BY <2>2, <2>3, FS_Subset
  <2>5. Cardinality(Passed(S, N, o)) <= sweep[r].lost
    BY <1>4, <2>1, <2>3, <2>4
  <2>6. at[r] = "selectPage" => Cardinality(N) <= page[r].total + sweep'[r].late
    <3>1. Cardinality(M) \in Nat /\ Cardinality(N) \in Nat
      BY <2>1, FS_CardinalityType
    <3>2. Cardinality(N) <= Cardinality(M) + 1
      BY <1>2, <2>1, <3>1, FS_AddElement
    <3>3. at[r] = "selectPage" => Cardinality(M) <= page[r].total + sweep[r].late
      BY <1>4 DEF Paging
    <3>. HIDE DEF M
    <3>. QED  BY <1>3, <1>4, <1>7, <3>1, <3>2, <3>3
  <2>7. Passed(sweep[r].owed, Matching(page[r]), page[r].offset)' = Passed(S, N, o)
    BY <1>1, <1>3 DEF Passed, Rank
  <2>8. Asking(r)'
    BY <1>1, <1>3, <1>7 DEF Asking
  <2>9. at[r] \in {"serving", "selectPage"} /\ IsFiniteSet(S)
    BY <1>4 DEF Paging
  <2>. HIDE DEF M, S
  <2>. QED  BY <1>1, <1>3, <2>1, <2>5, <2>6, <2>7, <2>8, <2>9 DEF Paging, Asking
<1>. QED  BY <1>5, <1>6, <1>7

LEMMA CountPaging ==
  ASSUME FileInv, FileInv', NEW p \in Process, NEW pg \in Page, CountPage(p, pg),
         sweep'[p].owed \subseteq Matching(pg), sweep'[p].late = 0,
         Cardinality(Passed(sweep'[p].owed, Matching(pg), pg.offset)) <= sweep'[p].lost
  PROVE  Paging(p)'
<1>. DEFINE M == Matching(pg)
            counted == [pg EXCEPT !.total = Cardinality(M)]
<1>1. page'[p] = counted /\ at'[p] = "selectPage" /\ memory' = memory
  BY DEF CountPage, FileInv, TypeOK
<1>2. /\ counted.total = Cardinality(M) /\ counted.offset = pg.offset
      /\ counted.query = pg.query /\ counted.scopes = pg.scopes
  BY DEF Page
<1>. HIDE DEF counted
<1>3. Matching(page[p])' = M
  BY <1>1, <1>2 DEF Matching, Matches
<1>4. Cardinality(M) \in Nat /\ IsFiniteSet(sweep'[p].owed)
  BY MatchingFacts, FS_Subset
<1>5. Cardinality(Matching(page[p])') <= page'[p].total + sweep'[p].late
  BY <1>1, <1>2, <1>3, <1>4
<1>6. Passed(sweep[p].owed, Matching(page[p]), page[p].offset)'
        = Passed(sweep'[p].owed, M, pg.offset)
  BY <1>1, <1>2, <1>3 DEF Passed, Rank
<1>. HIDE DEF M
<1>. QED  BY <1>1, <1>3, <1>4, <1>5, <1>6 DEF Paging, M

\* The page takes what is owed between its offset and the next; once that is as large as
\* the count, nothing ranks past it.
LEMMA SelectPaging ==
  ASSUME FileInv, FileInv', NEW p \in Process, Paging(p), SelectPage(p)
  PROVE  Paging(p)'
<1>. DEFINE M == Matching(page[p])
            W == Window(page[p])
            S == sweep[p].owed
            o == page[p].offset
            n == page[p].limit
            t == page[p].total
            lost == sweep[p].lost
            late == sweep[p].late
            next == o + Cardinality(W)
            more == next < t
            got == IF more THEN sweep[p].got \cup W ELSE {}
<1>1. /\ page[p] \in Page /\ o \in Nat /\ n \in Nat /\ t \in Nat
      /\ lost \in Nat /\ late \in Nat
  BY PageNumbers
<1>2. /\ page'[p] = IF more THEN [page[p] EXCEPT !.offset = next, !.total = 0] ELSE NoPage
      /\ sweep'[p] = [owed |-> S \ W, got |-> got, lost |-> lost, late |-> late,
                      more |-> more]
      /\ at[p] = "selectPage" /\ at'[p] = "serving" /\ memory' = memory
  BY DEF SelectPage, HasMore, FileInv, TypeOK
<1>3. more => /\ page'[p].offset = next /\ page'[p].query = page[p].query
              /\ page'[p].scopes = page[p].scopes
  BY <1>1, <1>2 DEF Page
<1>4. more => Matching(page[p])' = M
  BY <1>2, <1>3 DEF Matching, Matches
<1>5. M \in SUBSET Row /\ IsFiniteSet(M) /\ UniqueIds(M) /\ Cardinality(M) \in Nat
  BY MatchingFacts
<1>6. W = {m \in M : Rank(M, m) \in o .. o + n - 1}
  BY DEF Window
<1>7. S # {} => /\ S \subseteq M /\ IsFiniteSet(S)
                /\ Cardinality(Passed(S, M, o)) <= lost /\ Cardinality(M) <= t + late
  BY <1>2 DEF Paging, Asking
<1>8. /\ sweep'[p].owed = S \ W /\ sweep'[p].lost = lost /\ sweep'[p].late = late
      /\ sweep'[p].more <=> more
  <2>1. more \in BOOLEAN
    BY SMT
  <2>. HIDE DEF more, got, W, S, lost, late
  <2>2. /\ sweep'[p].owed = S \ W /\ sweep'[p].lost = lost /\ sweep'[p].late = late
        /\ sweep'[p].more = more
    BY <1>2, <2>1
  <2>. QED  BY <2>2, Zenon
<1>. HIDE DEF M, W, S, o, n, t, lost, late
<1>. SUFFICES ASSUME S \ W # {} PROVE Paging(p)'
  BY <1>8 DEF Paging
<1>9. Cardinality(W) \in Nat /\ Cardinality(W) <= n
  BY <1>1, <1>5, <1>6, WindowSize
<1>10. Passed(S \ W, M, next) \subseteq Passed(S, M, o)
  <2>. SUFFICES ASSUME NEW m \in S \ W, Rank(M, m) < next PROVE Rank(M, m) < o
    BY DEF Passed
  <2>1. m \in M /\ Rank(M, m) \in Nat
    BY <1>5, <1>7, RankType
  <2>2. ~(Rank(M, m) \in o .. o + n - 1)
    BY <1>6, <2>1
  <2>. QED  BY <1>1, <1>9, <2>1, <2>2
<1>11. Cardinality(Passed(S \ W, M, next)) <= lost
  <2>1. /\ IsFiniteSet(Passed(S, M, o)) /\ Cardinality(Passed(S, M, o)) \in Nat
        /\ Cardinality(Passed(S \ W, M, next)) \in Nat
    <3>1. S \in SUBSET M /\ S \ W \in SUBSET M
      BY <1>7
    <3>. HIDE DEF next
    <3>. QED  BY <1>5, <3>1, PassedAreFinite
  <2>2. Cardinality(Passed(S \ W, M, next)) <= Cardinality(Passed(S, M, o))
    BY <1>10, <2>1, FS_Subset
  <2>. QED  BY <1>1, <1>7, <2>1, <2>2
<1>12. ASSUME ~more PROVE Cardinality(S \ W) <= lost + late
  <2>. DEFINE B == Passed(S \ W, M, next)
              A == (S \ W) \ B
  <2>1. S \ W \subseteq M /\ IsFiniteSet(S \ W) /\ B \subseteq S \ W
    BY <1>7, FS_Difference DEF Passed
  <2>2. \A m \in A : m \in M /\ ~(Rank(M, m) < next)
    BY <2>1 DEF Passed
  <2>3. next \in Nat /\ t <= next
    BY <1>1, <1>9, <1>12
  <2>. HIDE DEF next, B
  <2>4. IsFiniteSet(A) /\ IsFiniteSet(B)
    BY <2>1, FS_Subset
  <2>5. Cardinality(A) \in Nat /\ Cardinality(B) \in Nat
    BY <2>4, FS_CardinalityType
  <2>6. next < Cardinality(M) => Cardinality(A) <= Cardinality(M) - next
    <3>. DEFINE c == Cardinality(M)
    <3>1. A \in SUBSET M /\ \A m \in A : ~(Rank(M, m) < next)
      BY <2>2
    <3>2. c \in Nat /\ (next < c => next <= c)
      BY <1>5, <2>3
    <3>. HIDE DEF A
    <3>. QED  BY <1>5, <2>3, <3>1, <3>2, PastAtMost
  <2>7. A = {} \/ next < Cardinality(M)
    <3>1. \A m \in A : Rank(M, m) \in Nat /\ Rank(M, m) < Cardinality(M)
      BY <1>5, <2>2, RankType, RankBelow
    <3>. QED  BY <1>5, <2>2, <2>3, <3>1
  <2>8. Cardinality(A) <= late
    <3>1. CASE A = {}
      BY <1>1, <3>1, FS_EmptySet
    <3>2. CASE next < Cardinality(M)
      <4>1. Cardinality(A) <= Cardinality(M) - next /\ Cardinality(M) <= t + late
        BY <1>7, <2>6, <3>2
      <4>. HIDE DEF A
      <4>. QED  BY <1>1, <1>5, <2>3, <2>5, <4>1
    <3>. QED  BY <2>7, <3>1, <3>2
  <2>9. Cardinality(S \ W) = Cardinality(A) + Cardinality(B)
    <3>1. (S \ W) \cap B = B /\ Cardinality(S \ W) \in Nat
      BY <2>1, FS_CardinalityType
    <3>2. Cardinality(A) = Cardinality(S \ W) - Cardinality((S \ W) \cap B)
      BY <2>1, FS_Difference
    <3>3. Cardinality((S \ W) \cap B) = Cardinality(B)
      BY <3>1
    <3>. DEFINE x == Cardinality(S \ W)
                y == Cardinality(A)
                z == Cardinality(B)
    <3>4. x \in Nat /\ y \in Nat /\ z \in Nat /\ y = x - z
      BY <2>5, <3>1, <3>2, <3>3
    <3>. HIDE DEF x, y, z
    <3>5. x = y + z
      BY <3>4
    <3>. QED  BY <3>5 DEF x, y, z
  <2>10. Cardinality(B) <= lost
    BY <1>11 DEF B
  <2>. HIDE DEF A
  <2>. QED  BY <1>1, <2>5, <2>8, <2>9, <2>10
<1>13. IsFiniteSet(S \ W)
  BY <1>7, FS_Difference
<1>. HIDE DEF next, more
<1>14. more => Passed(sweep[p].owed, Matching(page[p]), page[p].offset)'
                 = Passed(S \ W, M, next)
  BY <1>3, <1>4, <1>8 DEF Passed, Rank
<1>. QED  BY <1>2, <1>4, <1>7, <1>8, <1>11, <1>12, <1>13, <1>14 DEF Paging, Asking

\* A deletion takes away what was owed, and lets as many matches more slip past the
\* offset as it adds to what is lost.
LEMMA DeletePaging ==
  ASSUME FileInv, NEW D, Delete(D), NEW r \in Process, Paging(r)
  PROVE  Paging(r)'
<1>. DEFINE M == Matching(page[r])
            S == sweep[r].owed
            o == page[r].offset
            k == Cardinality(D \cap Passed(M, M, o))
            lost == sweep[r].lost
            late == sweep[r].late
<1>1. memory' = memory \ D /\ sweep' = AfterDelete(D) /\ UNCHANGED <<at, page>>
  BY DEF Delete
<1>2. /\ M \in SUBSET Row /\ IsFiniteSet(M) /\ UniqueIds(M) /\ Cardinality(M) \in Nat
      /\ k \in Nat /\ o \in Nat /\ page[r].total \in Nat /\ lost \in Nat /\ late \in Nat
      /\ sweep[r] \in Sweep
  BY MatchingFacts, DeletedAreFinite, PageNumbers DEF FileInv
<1>3. Matching(page[r])' = M \ D
  BY <1>1 DEF Matching, Matches
<1>4. /\ sweep'[r].owed = S \ D /\ sweep'[r].lost = lost + k
      /\ sweep'[r].more = sweep[r].more /\ sweep'[r].late = late
  <2>1. sweep'[r] = [sweep[r] EXCEPT !.owed = @ \ D, !.got = @ \ D, !.lost = @ + k]
    BY <1>1, AfterDeletePassed
  <2>. HIDE DEF k
  <2>. QED  BY <1>2, <2>1 DEF Sweep
<1>5. S # {} =>
        /\ at[r] \in {"serving", "selectPage"} /\ IsFiniteSet(S)
        /\ Asking(r) => S \subseteq M /\ Cardinality(Passed(S, M, o)) <= lost
        /\ at[r] = "selectPage" => Cardinality(M) <= page[r].total + late
        /\ at[r] = "serving" /\ ~sweep[r].more => Cardinality(S) <= lost + late
  BY DEF Paging
<1>. SUFFICES ASSUME S # {} PROVE Paging(r)'
  BY <1>4 DEF Paging
<1>. HIDE DEF M, S, o, lost, late
<1>6. IsFiniteSet(S) /\ IsFiniteSet(S \ D) /\ IsFiniteSet(M \ D)
  BY <1>2, <1>5, FS_Difference
<1>7. ASSUME Asking(r) PROVE Cardinality(Passed(S \ D, M \ D, o)) <= lost + k
  <2>0. S \in SUBSET M /\ Cardinality(Passed(S, M, o)) <= lost
    BY <1>5, <1>7
  <2>1. Cardinality(Passed(S \ D, M \ D, o)) <= Cardinality(Passed(S, M, o)) + k
    BY <1>2, <2>0, DeletePassed
  <2>2. Cardinality(Passed(S, M, o)) \in Nat
    BY <1>2, <2>0, PassedAreFinite
  <2>3. Cardinality(Passed(S \ D, M \ D, o)) \in Nat
    <3>1. S \ D \in SUBSET (M \ D)
      BY <2>0
    <3>. QED  BY <1>6, <3>1, PassedAreFinite
  <2>. HIDE DEF k
  <2>. QED  BY <1>2, <2>0, <2>1, <2>2, <2>3
<1>8. at[r] = "selectPage" => Cardinality(M \ D) <= page[r].total + late
  <2>1. Cardinality(M \ D) <= Cardinality(M) /\ Cardinality(M \ D) \in Nat
    BY <1>2, <1>6, FS_Subset, FS_CardinalityType
  <2>. QED  BY <1>2, <1>5, <2>1
<1>9. at[r] = "serving" /\ ~sweep[r].more => Cardinality(S \ D) <= lost + k + late
  <2>1. Cardinality(S \ D) <= Cardinality(S) /\ Cardinality(S \ D) \in Nat
        /\ Cardinality(S) \in Nat
    BY <1>6, FS_Subset, FS_CardinalityType
  <2>. HIDE DEF k
  <2>. QED  BY <1>2, <1>5, <2>1
<1>10. Asking(r) => S \ D \subseteq M \ D
  BY <1>5
<1>11. Passed(sweep[r].owed, Matching(page[r]), page[r].offset)' = Passed(S \ D, M \ D, o)
  BY <1>1, <1>3, <1>4 DEF Passed, Rank, o
<1>. HIDE DEF k
<1>12. Asking(r)' <=> Asking(r)
  BY <1>1, <1>4 DEF Asking
<1>. QED  BY <1>1, <1>3, <1>4, <1>5, <1>6, <1>7, <1>8, <1>9, <1>10, <1>11, <1>12 DEF Paging

LEMMA PagingInit == Init => PagingInv
BY DEF Init, NoSweep, PagingInv, Paging

LEMMA PagingStep ==
  ASSUME FileInv, PagingInv, FileInv', [Next]_vars
  PROVE  PagingInv'
<1>. SUFFICES ASSUME NEW r \in Process PROVE Paging(r)'
  BY DEF PagingInv
<1>. USE DEF PagingInv
<1>1. ASSUME NEW p \in Process, Connect(p) \/ ReadColumns(p) PROVE Paging(r)'
  <2>1. memory' = memory /\ UNCHANGED <<page, sweep>>
    BY <1>1 DEF Connect, ReadColumns
  <2>2. CASE r = p
    BY <1>1, <2>1, <2>2 DEF Connect, ReadColumns, Paging
  <2>3. CASE r # p
    <3>1. UNCHANGED at[r]
      BY <1>1, <2>3 DEF Connect, ReadColumns, FileInv, TypeOK
    <3>. QED  BY <2>1, <3>1, PagingKept DEF Matching
  <2>. QED  BY <2>2, <2>3
<1>2. ASSUME NEW p \in Process, AddScopeColumn(p) PROVE Paging(r)'
  <2>1. CASE schema = "unscoped"
    <3>1. sweep[r].owed = {}
      BY <2>1 DEF FileInv, ServingIsMigrated, Paging
    <3>. QED  BY <1>2, <3>1 DEF AddScopeColumn, Paging
  <2>2. CASE schema = "scoped"
    <3>1. UNCHANGED <<memory, page, sweep>>
      BY <1>2, <2>2 DEF AddScopeColumn
    <3>2. CASE r = p
      BY <1>2, <3>1, <3>2 DEF AddScopeColumn, Paging
    <3>3. CASE r # p
      <4>1. UNCHANGED at[r]
        BY <1>2, <2>2, <3>3 DEF AddScopeColumn, FileInv, TypeOK
      <4>. QED  BY <3>1, <4>1, PagingKept DEF Matching
    <3>. QED  BY <3>2, <3>3
  <2>. QED  BY <1>2, <2>1, <2>2 DEF AddScopeColumn
<1>3. ASSUME NEW p \in Process, NEW c \in Content, NEW l \in StoreLabel, NEW w \in Time,
             Store(p, c, l, w)
      PROVE  Paging(r)'
  BY <1>3, StorePaging
<1>4. ASSUME NEW p \in Process, NEW pg, CountPage(p, pg), r # p,
             sweep'[r] = sweep[r]
      PROVE  Paging(r)'
  <2>1. UNCHANGED <<memory, at[r], page[r]>>
    BY <1>4 DEF CountPage, FileInv, TypeOK
  <2>. QED  BY <1>4, <2>1, PagingKept DEF Matching
<1>5. ASSUME NEW p \in Process, NEW q \in Query, NEW labels \in Filter, NEW n \in Limit,
             FirstPage(p, q, labels, n)
      PROVE  Paging(r)'
  <2>. DEFINE pg == [query |-> q, scopes |-> NormalizeScopes(labels), limit |-> n,
                     offset |-> 0, total |-> 0]
              w == [NoSweep EXCEPT !.owed = Matching(pg)]
  <2>1. pg \in Page /\ pg.offset = 0
    BY LabelAssumption DEF Page, NormalizeScopes
  <2>2. w.owed = Matching(pg) /\ w.lost = 0 /\ w.late = 0
    BY DEF NoSweep
  <2>3. CountPage(p, pg) /\ sweep' = [sweep EXCEPT ![p] = w]
    BY <1>5 DEF FirstPage
  <2>. HIDE DEF pg, w
  <2>4. CASE r # p
    <3>1. sweep'[r] = sweep[r]
      BY <2>3, <2>4 DEF FileInv, TypeOK
    <3>. QED  BY <1>4, <2>3, <2>4, <3>1
  <2>5. CASE r = p
    <3>1. sweep'[p].owed = Matching(pg) /\ sweep'[p].lost = 0 /\ sweep'[p].late = 0
      BY <2>2, <2>3 DEF FileInv, TypeOK
    <3>2. \A m : Rank(Matching(pg), m) \in Nat
      BY MatchesAreFinite, RankType DEF FileInv
    <3>3. Passed(Matching(pg), Matching(pg), 0) = {}
      BY <3>2 DEF Passed
    <3>4. Cardinality(Passed(sweep'[p].owed, Matching(pg), pg.offset)) <= sweep'[p].lost
      BY <2>1, <3>1, <3>3, FS_EmptySet
    <3>. QED  BY <2>1, <2>3, <2>5, <3>1, <3>4, CountPaging
  <2>. QED  BY <2>4, <2>5
<1>6. ASSUME NEW p \in Process, NextPage(p) PROVE Paging(r)'
  <2>1. CountPage(p, page[p]) /\ sweep' = [sweep EXCEPT ![p].late = 0]
    BY <1>6 DEF NextPage
  <2>2. CASE r # p
    <3>1. sweep'[r] = sweep[r]
      BY <2>1, <2>2 DEF FileInv, TypeOK
    <3>. QED  BY <1>4, <2>1, <2>2, <3>1
  <2>3. CASE r = p
    <3>1. page[p] \in Page
      BY DEF FileInv, TypeOK
    <3>0. sweep'[p].owed = sweep[p].owed /\ sweep'[p].lost = sweep[p].lost
          /\ sweep'[p].late = 0
      BY <2>1 DEF FileInv, TypeOK, Sweep
    <3>2. /\ sweep[p].owed \subseteq Matching(page[p])
          /\ Cardinality(Passed(sweep[p].owed, Matching(page[p]), page[p].offset))
               <= sweep[p].lost
      <4>1. CASE sweep[p].owed = {}
        <5>1. Passed(sweep[p].owed, Matching(page[p]), page[p].offset) = {}
          BY <4>1 DEF Passed
        <5>2. Cardinality(Passed(sweep[p].owed, Matching(page[p]), page[p].offset)) = 0
          BY <5>1, FS_EmptySet
        <5>3. sweep[p].lost \in Nat
          BY PageNumbers
        <5>. QED  BY <4>1, <5>2, <5>3
      <4>2. CASE sweep[p].owed # {}
        BY <1>6, <4>2 DEF Paging, Asking, NextPage
      <4>. QED  BY <4>1, <4>2
    <3>. QED  BY <2>1, <2>3, <3>0, <3>1, <3>2, CountPaging
  <2>. QED  BY <2>2, <2>3
<1>7. ASSUME NEW p \in Process, SelectPage(p) PROVE Paging(r)'
  <2>1. CASE r = p
    BY <1>7, <2>1, SelectPaging
  <2>2. CASE r # p
    <3>1. UNCHANGED <<memory, at[r], page[r], sweep[r]>>
      BY <1>7, <2>2 DEF SelectPage, FileInv, TypeOK
    <3>. QED  BY <3>1, PagingKept DEF Matching
  <2>. QED  BY <2>1, <2>2
<1>8. ASSUME NEW D, Delete(D) PROVE Paging(r)'
  BY <1>8, DeletePaging
<1>9. ASSUME NEW p \in Process, PageFails(p) \/ Stop(p) PROVE Paging(r)'
  <2>1. CASE r = p
    <3>1. sweep'[r].owed = {}
      BY <1>9, <2>1 DEF PageFails, Stop, NoSweep, FileInv, TypeOK
    <3>. QED  BY <3>1 DEF Paging
  <2>2. CASE r # p
    <3>1. UNCHANGED <<memory, at[r], page[r], sweep[r]>>
      BY <1>9, <2>2 DEF PageFails, Stop, FileInv, TypeOK
    <3>. QED  BY <3>1, PagingKept DEF Matching
  <2>. QED  BY <2>1, <2>2
<1>10. CASE UNCHANGED vars
  BY <1>10, PagingKept DEF vars, Matching
<1>. QED  BY <1>1, <1>2, <1>3, <1>5, <1>6, <1>7, <1>8, <1>9, <1>10
          DEF Next, Start, Request, Forget, PurgeScope

\* A client that pages to the end of a query misses no more of what it is owed than was
\* deleted before its offsets and stored between the statements of its last page,
\* however many others store, page and restart meanwhile.
THEOREM PagesMissFew == Spec => []SweepMissesFew
<1>1. Init => FileInv /\ PagingInv
  BY FileInit, PagingInit
<1>2. FileInv /\ PagingInv /\ [Next]_vars => FileInv' /\ PagingInv'
  BY FileStep, PagingStep
<1>3. FileInv /\ PagingInv => SweepMissesFew
  <2>. SUFFICES ASSUME FileInv, PagingInv, NEW p \in Process,
                       at[p] = "serving" /\ ~sweep[p].more
                PROVE  Cardinality(sweep[p].owed) <= sweep[p].lost + sweep[p].late
    BY DEF SweepMissesFew
  <2>1. CASE sweep[p].owed = {}
    BY <2>1, FS_EmptySet, PageNumbers
  <2>2. CASE sweep[p].owed # {}
    BY <2>2 DEF PagingInv, Paging
  <2>. QED  BY <2>1, <2>2
<1>. QED  BY <1>1, <1>2, <1>3, PTL DEF Spec

-----------------------------------------------------------------------------
(* Nothing twice *)

\* What a client got ranks before its next offset.
Behind(p) ==
  /\ sweep[p].got \subseteq Matching(page[p])
  /\ \A m \in sweep[p].got : Rank(Matching(page[p]), m) < page[p].offset
  /\ sweep[p].got # {} => at[p] \in {"serving", "selectPage"}

BehindInv == \A p \in Process : Behind(p)

LEMMA BehindInit == Init => BehindInv
BY DEF Init, NoSweep, BehindInv, Behind

\* A step keeps Behind for a process if it leaves alone where the process is, and what
\* its page matches but for what the process has not got.
LEMMA BehindKept ==
  ASSUME FileInv, NEW r \in Process, Behind(r), UNCHANGED <<at[r], page[r]>>,
         NEW M, M = Matching(page[r])', M \subseteq Matching(page[r]),
         sweep'[r].got = sweep[r].got \cap M
  PROVE  Behind(r)'
<1>. DEFINE N == Matching(page[r])
<1>1. IsFiniteSet(N) /\ IsFiniteSet(M)
  <2>1. IsFiniteSet(N)
    BY MatchesAreFinite DEF FileInv
  <2>. QED BY <2>1, FS_Subset
<1>. HIDE DEF N
<1>2. \A m : Rank(N, m) \in Nat /\ Rank(M, m) \in Nat /\ Rank(M, m) <= Rank(N, m)
  BY <1>1, RankType, RankGrows DEF N
<1>3. page[r].offset \in Nat
  BY DEF FileInv, TypeOK, Page
<1>4. \A m \in sweep[r].got : Rank(N, m) < page[r].offset
  BY DEF Behind, N
<1>5. \A m \in sweep'[r].got : Rank(M, m) < page'[r].offset
  BY <1>2, <1>3, <1>4
<1>6. /\ sweep'[r].got \subseteq M
      /\ sweep'[r].got # {} => at'[r] \in {"serving", "selectPage"}
  BY DEF Behind
<1>. QED BY <1>5, <1>6 DEF Behind, Rank

\* A stored match that comes before nothing the client got leaves the ranks of that alone.
LEMMA StoreBehind ==
  ASSUME FileInv, BehindInv, NEW p \in Process, NEW c \in Content, NEW l \in StoreLabel,
         NEW w \in Time, Store(p, c, l, w), NEW r \in Process
  PROVE  Behind(r)'
<1>. DEFINE m == [id |-> sequence + 1, content |-> c, scope |-> NormalizeScope(l),
                  created |-> w]
            M == Matching(page[r])
<1>1. memory' = memory \cup {m} /\ sweep' = AfterStore(m) /\ UNCHANGED <<at, page>>
  BY DEF Store, NextRowid
<1>. HIDE DEF m
<1>2. M' = IF Matches(m, page[r]) THEN M \cup {m} ELSE M
  BY <1>1 DEF Matching, Matches
<1>3. sweep'[r].got = IF Matches(m, page[r]) /\ \E g \in sweep[r].got : Newer(m, g) THEN {}
                      ELSE sweep[r].got
  BY <1>1 DEF AfterStore, FileInv, TypeOK, Sweep
<1>4. Behind(r)
  BY DEF BehindInv
<1>5. CASE Matches(m, page[r]) /\ \E g \in sweep[r].got : Newer(m, g)
  BY <1>3, <1>5 DEF Behind
<1>6. CASE ~Matches(m, page[r])
  BY <1>1, <1>2, <1>3, <1>4, <1>6 DEF Behind, Rank
<1>7. CASE Matches(m, page[r]) /\ \A g \in sweep[r].got : ~Newer(m, g)
  <2>1. M' = M \cup {m} /\ sweep'[r].got = sweep[r].got
    BY <1>2, <1>3, <1>7
  <2>2. ASSUME NEW g \in sweep[r].got PROVE Rank(M \cup {m}, g) = Rank(M, g)
    <3>1. {n \in M \cup {m} : Newer(n, g)} = {n \in M : Newer(n, g)}
      BY <1>7
    <3>. QED BY <3>1 DEF Rank
  <2>3. \A g \in sweep'[r].got : Rank(M', g) < page'[r].offset
    <3>1. \A g \in sweep[r].got : Rank(M, g) < page[r].offset
      BY <1>4 DEF Behind
    <3>. QED BY <1>1, <2>1, <2>2, <3>1
  <2>. QED BY <1>1, <1>4, <2>1, <2>3 DEF Behind
<1>. QED BY <1>5, <1>6, <1>7

\* A page adds to what the client got the ranks from its offset to the next.
LEMMA SelectBehind ==
  ASSUME FileInv, NEW p \in Process, Behind(p), SelectPage(p)
  PROVE  Behind(p)'
<1>. DEFINE M == Matching(page[p])
            W == Window(page[p])
            o == page[p].offset
            n == page[p].limit
            next == o + Cardinality(W)
            more == next < page[p].total
<1>1. page[p] \in Page /\ o \in Nat /\ n \in Nat
  <2>1. page[p] \in Page /\ o \in Nat
    BY DEF FileInv, TypeOK, Page
  <2>2. n \in Limit \cup {0}
    BY <2>1 DEF Page
  <2>3. Limit \cup {0} \subseteq Nat
    BY NumberAssumption
  <2>. QED  BY <2>1, <2>2, <2>3, Zenon
<1>2. /\ page'[p] = IF more THEN [page[p] EXCEPT !.offset = next, !.total = 0] ELSE NoPage
      /\ sweep'[p].got = IF more THEN sweep[p].got \cup W ELSE {}
      /\ at'[p] = "serving" /\ memory' = memory
  BY DEF SelectPage, HasMore, FileInv, TypeOK
<1>. SUFFICES ASSUME more PROVE Behind(p)'
  BY <1>2 DEF Behind
<1>. HIDE DEF more
<1>3. /\ page'[p].offset = next /\ page'[p].query = page[p].query
      /\ page'[p].scopes = page[p].scopes
  BY <1>1, <1>2 DEF Page
<1>4. Matching(page[p])' = M
  BY <1>2, <1>3 DEF Matching, Matches
<1>5. M \in SUBSET Row /\ IsFiniteSet(M) /\ UniqueIds(M)
  BY MatchesAreFinite DEF FileInv, Matching, TypeOK, IdsIssued, UniqueIds
<1>6. W = {m \in M : Rank(M, m) \in o .. o + n - 1}
  BY DEF Window, Rank
<1>7. sweep[p].got \subseteq M /\ \A m \in sweep[p].got : Rank(M, m) < o
  BY DEF Behind
<1>. HIDE DEF M, W, o, n
<1>8. Cardinality(W) \in Nat /\ \A m \in W : Rank(M, m) < next
  BY <1>1, <1>5, <1>6, WindowSize, WindowRanks
<1>9. \A m \in M : Rank(M, m) \in Nat
  BY <1>5, RankType
<1>10. ASSUME NEW m \in sweep[p].got PROVE Rank(M, m) < next
  <2>1. Rank(M, m) \in Nat /\ Rank(M, m) < o
    BY <1>7, <1>9
  <2>. QED BY <1>1, <1>8, <2>1
<1>. HIDE DEF next
<1>11. \A m \in sweep'[p].got : m \in M /\ Rank(M, m) < page'[p].offset
  BY <1>2, <1>3, <1>6, <1>7, <1>8, <1>10
<1>12. \A m : Rank(Matching(page[p])', m) = Rank(M, m)
  BY <1>4
<1>. QED BY <1>2, <1>4, <1>11, <1>12 DEF Behind, Rank

LEMMA BehindStep ==
  ASSUME FileInv, BehindInv, [Next]_vars
  PROVE  BehindInv'
<1>. SUFFICES ASSUME NEW r \in Process PROVE Behind(r)'
  BY DEF BehindInv
<1>0. Behind(r) /\ sweep[r].got \subseteq Matching(page[r])
  BY DEF BehindInv, Behind
<1>1. ASSUME sweep'[r].got = {} PROVE Behind(r)'
  BY <1>1 DEF Behind
<1>2. ASSUME UNCHANGED <<at[r], page[r], sweep[r], memory>> PROVE Behind(r)'
  <2>1. Matching(page[r])' = Matching(page[r])
    BY <1>2 DEF Matching
  <2>. QED BY <1>0, <1>2, <2>1, BehindKept
<1>3. ASSUME NEW p \in Process, Start(p) PROVE Behind(r)'
  <2>1. CASE at[r] \notin {"serving", "selectPage"}
    <3>1. sweep'[r].got = {}
      BY <1>0, <1>3, <2>1 DEF Behind, Start, Connect, ReadColumns, AddScopeColumn
    <3>. QED BY <1>1, <3>1
  <2>2. CASE at[r] \in {"serving", "selectPage"}
    <3>1. schema = "scoped" /\ r # p
      BY <1>3, <2>2 DEF FileInv, ServingIsMigrated, Start, Connect, ReadColumns, AddScopeColumn
    <3>2. UNCHANGED <<at[r], page[r], sweep[r], memory>>
      BY <1>3, <3>1 DEF Start, Connect, ReadColumns, AddScopeColumn, FileInv, TypeOK
    <3>. QED BY <1>2, <3>2
  <2>. QED BY <2>1, <2>2
<1>4. ASSUME NEW p \in Process, NEW c \in Content, NEW l \in StoreLabel, NEW w \in Time,
             Store(p, c, l, w)
      PROVE  Behind(r)'
  BY <1>4, StoreBehind
<1>5. ASSUME NEW p \in Process, NEW q \in Query, NEW labels \in Filter, NEW n \in Limit,
             FirstPage(p, q, labels, n)
      PROVE  Behind(r)'
  <2>1. CASE r = p
    <3>1. sweep'[r].got = {}
      BY <1>5, <2>1 DEF FirstPage, NoSweep, FileInv, TypeOK
    <3>. QED BY <1>1, <3>1
  <2>2. CASE r # p
    <3>1. UNCHANGED <<at[r], page[r], sweep[r], memory>>
      BY <1>5, <2>2 DEF FirstPage, CountPage, FileInv, TypeOK
    <3>. QED BY <1>2, <3>1
  <2>. QED BY <2>1, <2>2
<1>6. ASSUME NEW p \in Process, NextPage(p) PROVE Behind(r)'
  <2>1. CASE r = p
    <3>. PICK N : N = Cardinality(Matching(page[p]))
      OBVIOUS
    <3>1. /\ page' = [page EXCEPT ![p] = [page[p] EXCEPT !.total = N]]
          /\ at' = [at EXCEPT ![p] = "selectPage"] /\ memory' = memory
          /\ sweep' = [sweep EXCEPT ![p].late = 0]
      BY <1>6 DEF NextPage, CountPage
    <3>5. sweep'[p].got = sweep[p].got /\ sweep'[p].more = sweep[p].more
      BY <3>1 DEF FileInv, TypeOK, Sweep
    <3>2. page \in [Process -> Page] /\ page[p] \in Page /\ at'[p] = "selectPage"
      BY <3>1 DEF FileInv, TypeOK
    <3>3. /\ page'[p].offset = page[p].offset /\ page'[p].query = page[p].query
          /\ page'[p].scopes = page[p].scopes
      BY <3>1, <3>2 DEF Page
    <3>4. Matching(page[p])' = Matching(page[p])
      BY <3>1, <3>3 DEF Matching, Matches
    <3>. QED BY <1>0, <2>1, <3>1, <3>2, <3>3, <3>4, <3>5 DEF Behind, Rank
  <2>2. CASE r # p
    <3>1. UNCHANGED <<at[r], page[r], sweep[r], memory>>
      BY <1>6, <2>2 DEF NextPage, CountPage, FileInv, TypeOK
    <3>. QED BY <1>2, <3>1
  <2>. QED BY <2>1, <2>2
<1>7. ASSUME NEW p \in Process, SelectPage(p) PROVE Behind(r)'
  <2>1. CASE r = p
    BY <1>0, <1>7, <2>1, SelectBehind
  <2>2. CASE r # p
    <3>1. UNCHANGED <<at[r], page[r], sweep[r], memory>>
      BY <1>7, <2>2 DEF SelectPage, FileInv, TypeOK
    <3>. QED BY <1>2, <3>1
  <2>. QED BY <2>1, <2>2
<1>8. ASSUME NEW D, Delete(D) PROVE Behind(r)'
  <2>1. memory' = memory \ D /\ sweep' = AfterDelete(D) /\ UNCHANGED <<at, page>>
    BY <1>8 DEF Delete
  <2>. PICK M : M = Matching(page[r])'
    OBVIOUS
  <2>2. M = Matching(page[r]) \ D
    BY <2>1 DEF Matching, Matches
  <2>3. sweep'[r].got = sweep[r].got \ D
    BY <2>1 DEF AfterDelete, FileInv, TypeOK, Sweep
  <2>4. sweep'[r].got = sweep[r].got \cap M
    BY <1>0, <2>2, <2>3
  <2>. QED BY <1>0, <2>1, <2>2, <2>4, BehindKept
<1>9. ASSUME NEW p \in Process, PageFails(p) \/ Stop(p) PROVE Behind(r)'
  <2>1. CASE r = p
    <3>1. sweep'[r].got = {}
      BY <1>9, <2>1 DEF PageFails, Stop, NoSweep, FileInv, TypeOK
    <3>. QED BY <1>1, <3>1
  <2>2. CASE r # p
    <3>1. UNCHANGED <<at[r], page[r], sweep[r], memory>>
      BY <1>9, <2>2 DEF PageFails, Stop, FileInv, TypeOK
    <3>. QED BY <1>2, <3>1
  <2>. QED BY <2>1, <2>2
<1>10. CASE UNCHANGED vars
  BY <1>2, <1>10 DEF vars
<1>. QED BY <1>3, <1>4, <1>5, <1>6, <1>7, <1>8, <1>9, <1>10
         DEF Next, Request, Forget, PurgeScope

\* A client that pages through a query gets no memory twice, as long as no match is stored
\* before one that it got, whatever is stored elsewhere, forgotten and purged meanwhile.
THEOREM PagesDontRepeat == Spec => []NoMemoryTwice
<1>1. ASSUME FileInv, BehindInv, NEW p \in Process, at[p] = "selectPage",
             NEW m \in Window(page[p]) \cap sweep[p].got
      PROVE  FALSE
  <2>. DEFINE k == Rank(Matching(page[p]), m)
              o == page[p].offset
  <2>1. k \in o .. o + page[p].limit - 1
    BY <1>1 DEF Window, Rank
  <2>2. k < o
    BY <1>1 DEF BehindInv, Behind
  <2>3. k \in Nat
    BY <1>1, MatchesAreFinite, RankType DEF FileInv
  <2>4. o \in Nat
    BY <1>1 DEF FileInv, TypeOK, Page
  <2>. HIDE DEF k, o
  <2>. QED BY <2>1, <2>2, <2>3, <2>4
<1>2. FileInv /\ BehindInv => NoMemoryTwice
  BY <1>1 DEF NoMemoryTwice
<1>3. Init => FileInv /\ BehindInv
  BY FileInit, BehindInit
<1>4. FileInv /\ BehindInv /\ [Next]_vars => FileInv' /\ BehindInv'
  BY FileStep, BehindStep
<1>. QED BY <1>2, <1>3, <1>4, PTL DEF Spec

=============================================================================
