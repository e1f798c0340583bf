--------------------------- MODULE TextMatchProofs ---------------------------
(***************************************************************************)
(* Theorems about TextMatch: a search finds every memory that says what    *)
(* was asked for and no other, for texts of every length over any          *)
(* alphabet, but for the exceptions the properties name.                   *)
(*                                                                         *)
(* What the recursive functions of the model compute is proved by          *)
(* induction in the form of a least counterexample: a non-empty set of     *)
(* naturals has a least element, because < is well founded.                *)
(***************************************************************************)
EXTENDS TextMatch, SequenceTheorems, WellFoundedInduction, TLAPS

-----------------------------------------------------------------------------
(* Induction and recursion over the naturals *)

\* A set of naturals has a least member, unless it is empty.
LEMMA NatMin ==
  ASSUME NEW T, T \subseteq Nat, T # {}
  PROVE  \E x \in T : \A y \in T : x <= y
<1>. DEFINE R == {ss \in Nat \X Nat : ss[1] < ss[2]}
<1>1. IsWellFoundedOn(R, Nat)
  BY NatLessThanWellFounded DEF OpToRel
<1>2. PICK x \in T : \A y \in T : ~(<<y, x>> \in R)
  <2>. HIDE DEF R
  <2>. QED BY <1>1, WFMin
<1>3. ASSUME NEW y \in T PROVE x <= y
  <2>1. x \in Nat /\ y \in Nat /\ <<y, x>> \in Nat \X Nat
    OBVIOUS
  <2>2. ~(<<y, x>>[1] < <<y, x>>[2])
    BY <1>2, <2>1
  <2>. QED BY <2>1, <2>2
<1>. QED BY <1>3

\* A bounded set of naturals has a greatest member, unless it is empty.
LEMMA NatMax ==
  ASSUME NEW T, T \subseteq Nat, T # {}, NEW n \in Nat, \A x \in T : x <= n
  PROVE  \E x \in T : \A y \in T : y <= x
<1>. DEFINE B == {b \in Nat : \A x \in T : x <= b}
<1>1. PICK b \in B : \A c \in B : b <= c
  <2>1. B \subseteq Nat /\ B # {}
    OBVIOUS
  <2>. HIDE DEF B
  <2>. QED BY <2>1, NatMin
<1>2. CASE b \in T
  BY <1>2
<1>3. CASE b \notin T
  <2>1. PICK x \in T : TRUE
    OBVIOUS
  <2>2. b - 1 \in B
    BY <1>3, <2>1
  <2>. QED BY <1>1, <2>2
<1>. QED BY <1>2, <1>3

\* Induction up to n: what holds of 0 and of i + 1 when of i holds up to n.
LEMMA SetInduction ==
  ASSUME NEW n \in Nat, NEW T, 0 \in T, \A i \in 0..(n - 1) : i \in T => i + 1 \in T
  PROVE  0..n \subseteq T
<1>. SUFFICES ASSUME ~(0..n \subseteq T) PROVE FALSE
  OBVIOUS
<1>. DEFINE B == {i \in 0..n : i \notin T}
<1>1. PICK x \in B : \A y \in B : x <= y
  <2>1. B \subseteq Nat /\ B # {}
    OBVIOUS
  <2>. HIDE DEF B
  <2>. QED BY <2>1, NatMin
<1>2. x - 1 \in 0..(n - 1) /\ x - 1 \in T
  BY <1>1
<1>. QED BY <1>1, <1>2

\* f begins with a, and F leads from each of its values to the next.
Iterates(f, n, V, a, F) ==
  f \in [0..n -> V] /\ f[0] = a /\ \A i \in 1..n : f[i] = F[i][f[i - 1]]

\* There is a function that begins with a and goes on as F says, if F stays within V.
LEMMA RecursiveFunction ==
  ASSUME NEW n \in Nat, NEW V, NEW a \in V, NEW F \in [Nat -> [V -> V]]
  PROVE  \E f : Iterates(f, n, V, a, F)
<1>. DEFINE T == {m \in Nat : \E f : Iterates(f, m, V, a, F)}
<1>1. 0 \in T
  <2>. DEFINE f == [i \in 0..0 |-> a]
  <2>1. Iterates(f, 0, V, a, F)
    BY DEF Iterates
  <2>. QED BY <2>1
<1>2. ASSUME NEW k \in Nat, k \in T PROVE k + 1 \in T
  <2>1. PICK f : Iterates(f, k, V, a, F)
    BY <1>2
  <2>. USE DEF Iterates
  <2>. DEFINE g == [i \in 0..(k + 1) |-> IF i = k + 1 THEN F[k + 1][f[k]] ELSE f[i]]
  <2>2. g \in [0..(k + 1) -> V]
    <3>1. F[k + 1][f[k]] \in V
      BY <2>1
    <3>. QED BY <2>1, <3>1
  <2>3. ASSUME NEW i \in 1..(k + 1) PROVE g[i] = F[i][g[i - 1]]
    <3>1. CASE i = k + 1
      BY <3>1
    <3>2. CASE i # k + 1
      BY <3>2, <2>1
    <3>. QED BY <3>1, <3>2
  <2>4. g[0] = a
    BY <2>1
  <2>. HIDE DEF g
  <2>5. Iterates(g, k + 1, V, a, F)
    BY <2>2, <2>3, <2>4
  <2>. QED BY <2>5
<1>. HIDE DEF T
<1>3. 0..n \subseteq T
  BY <1>1, <1>2, SetInduction
<1>. QED BY <1>3 DEF T

-----------------------------------------------------------------------------
(* Sequences of sequences, put one after the other *)

\* How FlattenSeq comes to its result, one sequence after the other.
LEMMA FlattenSteps ==
  ASSUME NEW C, NEW ss \in Seq(Seq(C)), ss # <<>>
  PROVE  \E f \in [1..Len(ss) -> Seq(C)] :
           /\ f[1] = ss[1]
           /\ \A i \in 2..Len(ss) : f[i] = f[i - 1] \o ss[i]
           /\ FlattenSeq(ss) = f[Len(ss)]
<1>. DEFINE n == Len(ss)
            Is(f) == f = [i \in 1..n |-> IF i = 1 THEN ss[i] ELSE f[i - 1] \o ss[i]]
            g == CHOOSE f : Is(f)
<1>1. n \in Nat /\ n > 0 /\ 1 \in 1..n /\ \A i \in 1..n : ss[i] \in Seq(C)
  OBVIOUS
<1>2. FlattenSeq(ss) = g[n]
  BY <1>1 DEF FlattenSeq
<1>. HIDE DEF n
<1>3. Is(g)
  <2>. DEFINE F == [i \in Nat |-> [s \in Seq(C) |-> IF i \in 1..n THEN s \o ss[i] ELSE s]]
  <2>1. F \in [Nat -> [Seq(C) -> Seq(C)]]
    <3>1. ASSUME NEW i \in Nat, NEW s \in Seq(C)
          PROVE  (IF i \in 1..n THEN s \o ss[i] ELSE s) \in Seq(C)
      BY <1>1
    <3>. QED BY <3>1
  <2>2. ASSUME NEW i \in 1..n, NEW s \in Seq(C) PROVE F[i][s] = s \o ss[i]
    <3>1. F[i] = [r \in Seq(C) |-> IF i \in 1..n THEN r \o ss[i] ELSE r]
      BY <1>1
    <3>. HIDE DEF F
    <3>. QED BY <3>1
  <2>. HIDE DEF F
  <2>3. PICK h : Iterates(h, n, Seq(C), <<>>, F)
    <3>1. <<>> \in Seq(C)
      OBVIOUS
    <3>. QED BY <1>1, <2>1, <3>1, RecursiveFunction
  <2>. USE DEF Iterates
  <2>4. ASSUME NEW i \in 1..n PROVE h[i] = h[i - 1] \o ss[i]
    <3>1. i - 1 \in 0..n
      BY <1>1
    <3>2. h[i - 1] \in Seq(C)
      BY <2>3, <3>1
    <3>. QED BY <2>2, <2>3, <3>2
  <2>5. h[1] = ss[1]
    <3>1. h[1] = h[1 - 1] \o ss[1]
      BY <1>1, <2>4
    <3>2. 1 - 1 = 0 /\ h[0] = <<>> /\ ss[1] \in Seq(C)
      BY <1>1, <2>3
    <3>3. h[1] = <<>> \o ss[1]
      BY <3>1, <3>2
    <3>. QED BY <3>2, <3>3, ConcatEmptySeq
  <2>. DEFINE f == [i \in 1..n |-> h[i]]
  <2>6. ASSUME NEW i \in 1..n
        PROVE  f[i] = IF i = 1 THEN ss[i] ELSE f[i - 1] \o ss[i]
    <3>1. CASE i = 1
      BY <2>5, <3>1
    <3>2. CASE i # 1
      <4>1. i - 1 \in 1..n
        BY <1>1, <3>2
      <4>. QED BY <4>1, <2>4, <3>2
    <3>. QED BY <3>1, <3>2
  <2>7. Is(f)
    BY <2>6
  <2>. HIDE DEF Is, f
  <2>. QED BY <2>7
<1>4. g[1] = ss[1] /\ \A i \in 2..n : g[i] = g[i - 1] \o ss[i]
  <2>. HIDE DEF g
  <2>1. g = [i \in 1..n |-> IF i = 1 THEN ss[i] ELSE g[i - 1] \o ss[i]]
    BY <1>3
  <2>2. \A i \in 2..n : i \in 1..n /\ i # 1
    BY <1>1
  <2>. QED BY <1>1, <2>1, <2>2
<1>. HIDE DEF Is, g
<1>5. \A i \in 1..n : g[i] \in Seq(C)
  <2>. DEFINE T == {i \in Nat : i + 1 <= n => g[i + 1] \in Seq(C)}
  <2>1. 0 \in T
    BY <1>1, <1>4
  <2>2. ASSUME NEW i \in 0..(n - 1), i \in T PROVE i + 1 \in T
    <3>1. i + 1 \in Nat
      BY <1>1
    <3>2. ASSUME i + 1 + 1 <= n PROVE g[i + 1 + 1] \in Seq(C)
      <4>1. g[i + 1] \in Seq(C) /\ i + 1 + 1 \in 2..n /\ (i + 1 + 1) - 1 = i + 1
        BY <1>1, <2>2, <3>2
      <4>2. g[i + 1 + 1] = g[i + 1] \o ss[i + 1 + 1]
        BY <1>4, <4>1
      <4>. QED BY <1>1, <4>1, <4>2
    <3>. QED BY <3>1, <3>2
  <2>3. 0..n \subseteq T
    <3>. HIDE DEF T
    <3>. QED BY <1>1, <2>1, <2>2, SetInduction
  <2>4. ASSUME NEW i \in 1..n PROVE g[i] \in Seq(C)
    <3>1. i - 1 \in 0..n /\ (i - 1) + 1 = i /\ i <= n
      BY <1>1
    <3>. QED BY <2>3, <3>1
  <2>. QED BY <2>4
<1>6. g \in [1..n -> Seq(C)]
  BY <1>3, <1>5 DEF Is
<1>. QED BY <1>2, <1>4, <1>6 DEF n

\* f[i] consists of the first i pieces, of which the j-th ends at off[j].
Consists(i, off, len, f, piece) ==
  /\ \A j \in 1..i : off[j] <= off[i]
  /\ \A j \in 1..i : \A m \in 1..len[j] : f[i][off[j - 1] + m] = piece[j][m]
  /\ \A x \in 1..off[i] : \E j \in 1..i : \E m \in 1..len[j] : x = off[j - 1] + m

\* f[i] is f[i - 1] and the i-th piece.
Extends(i, off, len, f, piece) ==
  /\ off[i] = off[i - 1] + len[i]
  /\ \A x \in 1..off[i] :
       f[i][x] = IF x <= off[i - 1] THEN f[i - 1][x] ELSE piece[i][x - off[i - 1]]

LEMMA Pieces ==
  ASSUME NEW n \in Nat, NEW off \in [0..n -> Nat], NEW len \in [1..n -> Nat],
         NEW f, NEW piece, off[0] = 0,
         \A i \in 1..n : Extends(i, off, len, f, piece)
  PROVE  Consists(n, off, len, f, piece)
<1>. DEFINE Right(i) == Consists(i, off, len, f, piece)
            T == {i \in Nat : i \in 0..n => Right(i)}
<1>1. 0 \in T
  BY DEF Consists
<1>2. ASSUME NEW i \in 0..(n - 1), i \in T PROVE i + 1 \in T
  <2>0. /\ i \in Nat /\ i \in 0..n
        /\ i + 1 \in 1..n /\ (i + 1) - 1 = i
    OBVIOUS
  <2>1. /\ off[i] \in Nat /\ off[i + 1] \in Nat /\ len[i + 1] \in Nat
        /\ off[i + 1] = off[i] + len[i + 1]
    BY <2>0 DEF Extends
  <2>2. Right(i)
    BY <1>2, <2>0
  <2>3. \A x \in 1..off[i + 1] :
          f[i + 1][x] = IF x <= off[i] THEN f[i][x] ELSE piece[i + 1][x - off[i]]
    BY <2>0 DEF Extends
  <2>. HIDE DEF Right
  <2>4. ASSUME NEW j \in 1..(i + 1) PROVE off[j] <= off[i + 1]
    <3>1. CASE j = i + 1
      BY <2>1, <3>1
    <3>2. CASE j # i + 1
      <4>1. j \in 1..i /\ j \in 0..n
        BY <2>0, <3>2
      <4>2. off[j] <= off[i] /\ off[j] \in Nat
        BY <2>2, <4>1 DEF Right, Consists
      <4>. QED BY <2>1, <4>2
    <3>. QED BY <3>1, <3>2
  <2>5. ASSUME NEW j, NEW m, j \in 1..(i + 1), m \in 1..len[j]
        PROVE  f[i + 1][off[j - 1] + m] = piece[j][m]
    <3>1. CASE j = i + 1
      <4>1. m \in 1..len[i + 1]
        BY <2>5, <3>1
      <4>2. off[i] + m \in 1..off[i + 1] /\ ~(off[i] + m <= off[i]) /\ (off[i] + m) - off[i] = m
        BY <2>1, <4>1
      <4>. QED BY <2>0, <2>3, <3>1, <4>2
    <3>2. CASE j # i + 1
      <4>1. j \in 1..i /\ j \in 1..n /\ j - 1 \in 0..n
        BY <2>0, <2>5, <3>2
      <4>2. off[j] <= off[i] /\ f[i][off[j - 1] + m] = piece[j][m]
        BY <2>2, <2>5, <4>1 DEF Right, Consists
      <4>3. off[j - 1] + len[j] <= off[i] /\ len[j] \in Nat /\ off[j - 1] \in Nat
        BY <4>1, <4>2 DEF Extends
      <4>4. off[j - 1] + m \in 1..off[i + 1] /\ off[j - 1] + m <= off[i]
        <5>1. m \in Nat /\ 1 <= m /\ m <= len[j]
          BY <2>5, <4>3
        <5>2. off[j - 1] + m <= off[j - 1] + len[j] /\ 1 <= off[j - 1] + m /\ off[j - 1] + m \in Nat
          BY <4>3, <5>1, SMTT(30)
        <5>3. off[j - 1] + len[j] \in Nat
          BY <4>3, SMTT(30)
        <5>4. off[j - 1] + m <= off[i]
          BY <2>1, <4>3, <5>2, <5>3
        <5>5. off[j - 1] + m <= off[i + 1]
          BY <2>1, <5>2, <5>4
        <5>. QED BY <2>1, <5>2, <5>4, <5>5
      <4>. QED BY <2>3, <4>2, <4>4
    <3>. QED BY <3>1, <3>2
  <2>6. ASSUME NEW x \in 1..off[i + 1]
        PROVE  \E j \in 1..(i + 1) : \E m \in 1..len[j] : x = off[j - 1] + m
    <3>1. CASE x <= off[i]
      <4>1. x \in 1..off[i]
        BY <2>1, <3>1
      <4>2. PICK j \in 1..i : \E m \in 1..len[j] : x = off[j - 1] + m
        BY <2>2, <4>1 DEF Right, Consists
      <4>3. j \in 1..(i + 1)
        OBVIOUS
      <4>. QED BY <4>2, <4>3
    <3>2. CASE x > off[i]
      <4>1. x - off[i] \in 1..len[i + 1] /\ x = off[i] + (x - off[i])
        BY <2>1, <3>2
      <4>2. i + 1 \in 1..(i + 1) /\ (i + 1) - 1 = i
        BY <2>0
      <4>. QED BY <4>1, <4>2
    <3>. QED BY <2>1, <3>1, <3>2
  <2>7. Right(i + 1)
    BY <2>4, <2>5, <2>6 DEF Right, Consists
  <2>. QED BY <2>7
<1>. HIDE DEF T
<1>3. 0..n \subseteq T
  BY <1>1, <1>2, SetInduction
<1>. QED BY <1>3 DEF T

\* off[i] is where the i-th of the sequences ends in all of them put together.
Offsets(off, ss, flat) ==
  LET n == Len(ss) IN
  /\ off \in [0..n -> Nat] /\ off[0] = 0 /\ off[n] = Len(flat)
  /\ \A i \in 1..n : off[i] = off[i - 1] + Len(ss[i]) /\ off[i] <= Len(flat)
  /\ \A i \in 1..n : \A m \in 1..Len(ss[i]) : flat[off[i - 1] + m] = ss[i][m]
  /\ \A x \in 1..Len(flat) : \E i \in 1..n : \E m \in 1..Len(ss[i]) : x = off[i - 1] + m

\* What is put together are the sequences, and nothing else.
LEMMA FlattenOffsets ==
  ASSUME NEW C, NEW ss \in Seq(Seq(C))
  PROVE  FlattenSeq(ss) \in Seq(C) /\ \E off : Offsets(off, ss, FlattenSeq(ss))
<1>1. CASE ss = <<>>
  <2>1. FlattenSeq(ss) = <<>>
    BY <1>1 DEF FlattenSeq
  <2>2. Offsets([i \in 0..0 |-> 0], ss, <<>>)
    BY <1>1 DEF Offsets
  <2>. QED BY <2>1, <2>2
<1>2. CASE ss # <<>>
  <2>. DEFINE n == Len(ss)
  <2>1. n \in Nat /\ n > 0 /\ \A i \in 1..n : ss[i] \in Seq(C) /\ Len(ss[i]) \in Nat
    BY <1>2
  <2>2. PICK f \in [1..n -> Seq(C)] :
          /\ f[1] = ss[1]
          /\ \A i \in 2..n : f[i] = f[i - 1] \o ss[i]
          /\ FlattenSeq(ss) = f[n]
    BY <1>2, FlattenSteps
  <2>. HIDE DEF n
  <2>. DEFINE off == [i \in 0..n |-> IF i = 0 THEN 0 ELSE Len(f[i])]
  <2>3. /\ off \in [0..n -> Nat] /\ off[0] = 0
        /\ \A i \in 1..n : f[i] \in Seq(C) /\ off[i] = Len(f[i])
    BY <2>1, <2>2
  <2>. HIDE DEF off
  <2>4. ASSUME NEW i \in 1..n
        PROVE  /\ off[i] = off[i - 1] + Len(ss[i])
               /\ \A x \in 1..Len(f[i]) :
                    f[i][x] = IF x <= off[i - 1] THEN f[i - 1][x] ELSE ss[i][x - off[i - 1]]
    <3>1. CASE i = 1
      <4>1. i - 1 = 0 /\ off[0] = 0 /\ f[i] = ss[i]
        BY <2>2, <2>3, <3>1
      <4>2. off[i] = off[i - 1] + Len(ss[i])
        BY <2>1, <2>3, <4>1
      <4>3. \A x \in 1..Len(f[i]) : ~(x <= off[i - 1]) /\ x - off[i - 1] = x
        BY <2>1, <4>1
      <4>. QED BY <4>1, <4>2, <4>3
    <3>2. CASE i # 1
      <4>1. i - 1 \in 1..n /\ i \in 2..n
        BY <2>1, <3>2
      <4>2. f[i] = f[i - 1] \o ss[i] /\ f[i - 1] \in Seq(C) /\ ss[i] \in Seq(C)
        BY <2>1, <2>2, <4>1
      <4>3. off[i - 1] = Len(f[i - 1]) /\ off[i] = Len(f[i])
        BY <2>3, <4>1
      <4>4. Len(f[i]) = Len(f[i - 1]) + Len(ss[i])
        BY <4>2
      <4>5. ASSUME NEW x \in 1..Len(f[i])
            PROVE  f[i][x] = IF x <= Len(f[i - 1]) THEN f[i - 1][x]
                             ELSE ss[i][x - Len(f[i - 1])]
        BY <4>2, <4>4
      <4>. QED BY <4>3, <4>4, <4>5
    <3>. QED BY <3>1, <3>2
  <2>. DEFINE len == [i \in 1..n |-> Len(ss[i])]
  <2>5. len \in [1..n -> Nat] /\ \A i \in 1..n : len[i] = Len(ss[i])
    BY <2>1
  <2>. HIDE DEF len
  <2>6. ASSUME NEW i \in 1..n
        PROVE  Extends(i, off, len, f, ss)
    BY <2>3, <2>4, <2>5 DEF Extends
  <2>7. Consists(n, off, len, f, ss)
    BY <2>1, <2>3, <2>5, <2>6, Pieces
  <2>8. /\ \A j \in 1..n : off[j] <= off[n]
        /\ \A j \in 1..n : \A m \in 1..Len(ss[j]) : f[n][off[j - 1] + m] = ss[j][m]
        /\ \A x \in 1..off[n] : \E j \in 1..n : \E m \in 1..Len(ss[j]) : x = off[j - 1] + m
    BY <2>5, <2>7 DEF Consists
  <2>9. Offsets(off, ss, FlattenSeq(ss))
    <3>1. off[n] = Len(FlattenSeq(ss))
      BY <2>1, <2>2, <2>3
    <3>. QED BY <2>2, <2>3, <2>4, <2>8, <3>1 DEF Offsets, n
  <2>. QED BY <2>1, <2>2, <2>9
<1>. QED BY <1>1, <1>2

\* A character put before a text.
LEMMA Prefixing ==
  ASSUME NEW C, NEW a \in C, NEW s \in Seq(C)
  PROVE  /\ <<a>> \o s \in Seq(C) /\ Len(<<a>> \o s) = 1 + Len(s)
         /\ (<<a>> \o s)[1] = a
         /\ \A m \in 1..Len(s) : (<<a>> \o s)[1 + m] = s[m]
<1>. DEFINE n == Len(s)
            w == <<a>> \o s
<1>1. n \in Nat
  OBVIOUS
<1>2. <<a>> \in Seq(C) /\ Len(<<a>>) = 1 /\ <<a>>[1] = a
  OBVIOUS
<1>3. /\ w \in Seq(C) /\ Len(w) = 1 + n
      /\ \A i \in 1..(1 + n) : w[i] = IF i <= 1 THEN <<a>>[i] ELSE s[i - 1]
  BY <1>2, ConcatProperties
<1>. HIDE DEF w, n
<1>4. w[1] = a
  <2>1. 1 \in 1..(1 + n) /\ 1 <= 1
    BY <1>1
  <2>. QED BY <1>2, <1>3, <2>1
<1>5. ASSUME NEW m \in 1..n PROVE w[1 + m] = s[m]
  <2>1. 1 + m \in 1..(1 + n) /\ ~(1 + m <= 1) /\ (1 + m) - 1 = m
    BY <1>1
  <2>. QED BY <1>3, <2>1
<1>. QED BY <1>3, <1>4, <1>5 DEF w, n

\* u is the sequence s over C between a and b.
Encloses(u, a, s, b, C) ==
  /\ u \in Seq(C) /\ Len(u) = Len(s) + 2
  /\ u[1] = a /\ u[Len(s) + 2] = b
  /\ \A i \in 1..Len(s) : u[i + 1] = s[i]

\* A text put between two characters.
LEMMA Enclosing ==
  ASSUME NEW C, NEW a \in C, NEW b \in C, NEW s \in Seq(C)
  PROVE  Encloses(<<a>> \o s \o <<b>>, a, s, b, C)
<1>. DEFINE n == Len(s)
            w == <<a>> \o s
            u == w \o <<b>>
<1>1. n \in Nat
  OBVIOUS
<1>2. /\ <<a>> \in Seq(C) /\ Len(<<a>>) = 1 /\ <<a>>[1] = a
      /\ <<b>> \in Seq(C) /\ Len(<<b>>) = 1 /\ <<b>>[1] = b
  OBVIOUS
<1>3. /\ w \in Seq(C) /\ Len(w) = n + 1
      /\ \A i \in 1..(n + 1) : w[i] = IF i <= 1 THEN <<a>>[i] ELSE s[i - 1]
  BY <1>2, ConcatProperties
<1>. HIDE DEF w, n
<1>4. /\ u \in Seq(C) /\ Len(u) = n + 2
      /\ \A i \in 1..(n + 2) : u[i] = IF i <= n + 1 THEN w[i] ELSE <<b>>[i - (n + 1)]
  BY <1>1, <1>2, <1>3, ConcatProperties
<1>. HIDE DEF u
<1>5. u[1] = a
  <2>1. 1 \in 1..(n + 2) /\ 1 <= n + 1 /\ 1 \in 1..(n + 1) /\ 1 <= 1
    BY <1>1
  <2>2. u[1] = w[1] /\ w[1] = <<a>>[1]
    BY <1>3, <1>4, <2>1
  <2>. QED BY <1>2, <2>2
<1>6. u[n + 2] = b
  <2>1. n + 2 \in 1..(n + 2) /\ ~(n + 2 <= n + 1) /\ (n + 2) - (n + 1) = 1
    BY <1>1
  <2>. QED BY <1>2, <1>4, <2>1
<1>7. ASSUME NEW i \in 1..n PROVE u[i + 1] = s[i]
  <2>1. i + 1 \in 1..(n + 2) /\ i + 1 <= n + 1 /\ i + 1 \in 1..(n + 1) /\ ~(i + 1 <= 1)
        /\ (i + 1) - 1 = i
    BY <1>1
  <2>. QED BY <1>3, <1>4, <2>1
<1>. QED BY <1>4, <1>5, <1>6, <1>7 DEF Encloses, u, w, n

-----------------------------------------------------------------------------
(* SQLite's LIKE *)

LEMMA OnwardType ==
  ASSUME NEW t \in Seq(Char), NEW c, NEW before
  PROVE  Onward(t, c, before) \in SUBSET (0..Len(t))
BY DEF Onward

\* How Like comes to its result, one character of the pattern after the other.
LEMMA LikeSteps ==
  ASSUME NEW t \in Seq(Char), NEW p \in Seq(Char)
  PROVE  \E reach :
           /\ reach[0] = {0}
           /\ \A i \in 1..Len(p) : reach[i] = Onward(t, p[i], reach[i - 1])
           /\ Like(t, p) <=> Len(t) \in reach[Len(p)]
<1>. DEFINE n == Len(p)
            Is(f) == f = [i \in 0..n |-> IF i = 0 THEN {0} ELSE Onward(t, p[i], f[i - 1])]
            g == CHOOSE f : Is(f)
<1>1. n \in Nat /\ Len(t) \in Nat
  OBVIOUS
<1>2. Like(t, p) <=> Len(t) \in g[n]
  BY DEF Like
<1>. HIDE DEF n
<1>3. Is(g)
  <2>. DEFINE V == SUBSET (0..Len(t))
              F == [i \in Nat |-> [b \in V |-> Onward(t, p[i], b)]]
  <2>1. {0} \in V /\ F \in [Nat -> [V -> V]]
    BY <1>1, OnwardType
  <2>2. ASSUME NEW i \in Nat, NEW b \in V PROVE F[i][b] = Onward(t, p[i], b)
    OBVIOUS
  <2>. HIDE DEF F, V
  <2>3. PICK f : Iterates(f, n, V, {0}, F)
    BY <1>1, <2>1, RecursiveFunction
  <2>4. ASSUME NEW i \in 0..n
        PROVE  f[i] = IF i = 0 THEN {0} ELSE Onward(t, p[i], f[i - 1])
    <3>1. CASE i = 0
      BY <2>3, <3>1 DEF Iterates
    <3>2. CASE i # 0
      <4>1. i \in 1..n /\ i \in Nat /\ i - 1 \in 0..n
        BY <1>1, <3>2
      <4>2. f[i] = F[i][f[i - 1]] /\ f[i - 1] \in V
        BY <2>3, <4>1 DEF Iterates
      <4>. QED BY <2>2, <3>2, <4>1, <4>2
    <3>. QED BY <3>1, <3>2
  <2>5. f = [i \in 0..n |-> f[i]]
    BY <2>3 DEF Iterates
  <2>6. Is(f)
    BY <2>4, <2>5
  <2>. HIDE DEF Is
  <2>. QED BY <2>6
<1>4. g[0] = {0} /\ \A i \in 1..n : g[i] = Onward(t, p[i], g[i - 1])
  <2>. HIDE DEF g
  <2>1. g = [i \in 0..n |-> IF i = 0 THEN {0} ELSE Onward(t, p[i], g[i - 1])]
    BY <1>3
  <2>2. 0 \in 0..n /\ \A i \in 1..n : i \in 0..n /\ i # 0
    BY <1>1
  <2>. QED BY <2>1, <2>2
<1>. QED BY <1>2, <1>4 DEF n

\* A letter as SQLite's LOWER leaves it.
Sql(c) == IF c \in Ascii THEN ToLower[c] ELSE c

\* How the two ways of folding case meet.
LEMMA Letters ==
  ASSUME NEW c \in Char
  PROVE  /\ ToLower[c] \in Char /\ Sql(c) \in Char
         /\ Sql(Sql(c)) = Sql(c) /\ Sql(ToLower[c]) = ToLower[c]
         /\ ToLower[Sql(c)] = ToLower[c] /\ ToLower[ToLower[c]] = ToLower[c]
         /\ c \notin ForeignCapitals => Sql(c) = ToLower[c]
BY CharAssumption DEF Sql, ForeignCapitals

\* Punctuation has no case, and its characters are different ones.
LEMMA Marks ==
  /\ \A c \in Char : \A d \in Punctuation : ToLower[c] = d <=> c = d
  /\ {Percent, Underscore, Quote, Backslash, Comma, Open, Close} \subseteq Punctuation
  /\ Punctuation \subseteq Char \ ForeignCapitals
  /\ Quote \notin {Percent, Underscore, Backslash, Comma, Open, Close}
  /\ Backslash \notin {Percent, Underscore, Comma}
<1>1. \A c \in Char : \A d \in Punctuation : ToLower[c] = d <=> c = d
  BY CharAssumption
<1>2. Punctuation \subseteq Char \ ForeignCapitals
  BY CharAssumption DEF ForeignCapitals
<1>. DEFINE mark == <<Blank, Percent, Underscore, Quote, Backslash, Comma, Open, Close>>
<1>3. \A i, j \in 1..8 : mark[i] = mark[j] => i = j
  <2>1. DOMAIN mark = 1..8 /\ IsInjective(mark)
    BY CharAssumption
  <2>. HIDE DEF mark
  <2>. QED BY <2>1 DEF IsInjective
<1>4. /\ mark[2] = Percent /\ mark[3] = Underscore /\ mark[4] = Quote /\ mark[5] = Backslash
      /\ mark[6] = Comma /\ mark[7] = Open /\ mark[8] = Close
  OBVIOUS
<1>. HIDE DEF mark
<1>5. /\ Quote \notin {Percent, Underscore, Backslash, Comma, Open, Close}
      /\ Backslash \notin {Percent, Underscore, Comma}
  BY <1>3, <1>4
<1>. QED BY <1>1, <1>2, <1>5 DEF Punctuation

LEMMA SqlLetter ==
  ASSUME NEW c, NEW d
  PROVE  SqlLower(<<c>>) = SqlLower(<<d>>) <=> Sql(c) = Sql(d)
<1>1. SqlLower(<<c>>) = [i \in 1..1 |-> Sql(c)] /\ SqlLower(<<d>>) = [i \in 1..1 |-> Sql(d)]
  BY DEF SqlLower, Sql
<1>. QED BY <1>1

\* A letter asked for, in lower case, matches a letter of a column, after LOWER.
LEMMA LetterMatch ==
  ASSUME NEW c \in Char, NEW d \in Char
  PROVE  /\ SqlLower(<<ToLower[c]>>) = SqlLower(<<Sql(d)>>) => ToLower[c] = ToLower[d]
         /\ d \notin ForeignCapitals /\ ToLower[c] = ToLower[d]
              => SqlLower(<<ToLower[c]>>) = SqlLower(<<Sql(d)>>)
BY SqlLetter, Letters

LEMMA LowerCaseText ==
  ASSUME NEW t \in Seq(Char)
  PROVE  /\ LowerCase(t) \in Seq(Char) /\ Len(LowerCase(t)) = Len(t)
         /\ \A i \in 1..Len(t) : LowerCase(t)[i] = ToLower[t[i]]
         /\ SqlLower(t) \in Seq(Char) /\ Len(SqlLower(t)) = Len(t)
         /\ \A i \in 1..Len(t) : SqlLower(t)[i] = Sql(t[i])
<1>1. \A i \in 1..Len(t) : ToLower[t[i]] \in Char /\ Sql(t[i]) \in Char
  BY Letters
<1>. QED BY <1>1 DEF LowerCase, SqlLower, Sql

\* Two texts are the same when their letters are, one by one, but for their case.
LEMMA SameTextMeans ==
  ASSUME NEW s \in Seq(Char), NEW t \in Seq(Char)
  PROVE  SameText(s, t)
           <=> Len(s) = Len(t) /\ \A i \in 1..Len(s) : ToLower[s[i]] = ToLower[t[i]]
<1>1. SameText(s, t) => Len(s) = Len(t)
  BY LowerCaseText DEF SameText
<1>2. SameText(s, t) => \A i \in 1..Len(s) : ToLower[s[i]] = ToLower[t[i]]
  BY <1>1, LowerCaseText DEF SameText
<1>3. ASSUME Len(s) = Len(t), \A i \in 1..Len(s) : ToLower[s[i]] = ToLower[t[i]]
      PROVE  SameText(s, t)
  <2>1. LowerCase(s) = [i \in 1..Len(s) |-> ToLower[s[i]]]
        /\ LowerCase(t) = [i \in 1..Len(t) |-> ToLower[t[i]]]
    BY DEF LowerCase
  <2>. QED BY <1>3, <2>1 DEF SameText
<1>. QED BY <1>1, <1>2, <1>3

\* A text says a part when that stands after its k-th character, but for the case.
LEMMA SaysMeans ==
  ASSUME NEW t \in Seq(Char), NEW part \in Seq(Char)
  PROVE  Says(t, part)
           <=> \E k \in 0..(Len(t) - Len(part)) :
                 \A m \in 1..Len(part) : ToLower[t[k + m]] = ToLower[part[m]]
<1>. SUFFICES ASSUME NEW k \in 0..(Len(t) - Len(part))
              PROVE  SameText(SubSeq(t, k + 1, k + Len(part)), part)
                       <=> \A m \in 1..Len(part) : ToLower[t[k + m]] = ToLower[part[m]]
  BY DEF Says
<1>. DEFINE s == SubSeq(t, k + 1, k + Len(part))
<1>1. s \in Seq(Char) /\ Len(s) = Len(part) /\ \A m \in 1..Len(part) : s[m] = t[k + m]
  <2>1. \A i \in (k + 1)..(k + Len(part)) : t[i] \in Char
    OBVIOUS
  <2>2. k + 1 \in Int /\ k + Len(part) \in Int
    OBVIOUS
  <2>. QED BY <2>1, <2>2, SubSeqProperties
<1>. HIDE DEF s
<1>2. SameText(s, part) <=> \A m \in 1..Len(part) : ToLower[s[m]] = ToLower[part[m]]
  BY <1>1, SameTextMeans
<1>. QED BY <1>1, <1>2 DEF s

\* The pattern of ColumnHas, character by character.
LEMMA PatternOf ==
  ASSUME NEW part \in Seq(Char)
  PROVE  LET p == <<Percent>> \o LowerCase(part) \o <<Percent>>
             n == Len(part)
         IN /\ p \in Seq(Char) /\ Len(p) = n + 2
            /\ p[1] = Percent /\ p[n + 2] = Percent
            /\ \A i \in 1..n : p[i + 1] = ToLower[part[i]]
<1>1. /\ LowerCase(part) \in Seq(Char) /\ Len(LowerCase(part)) = Len(part)
      /\ \A i \in 1..Len(part) : LowerCase(part)[i] = ToLower[part[i]]
  BY LowerCaseText
<1>2. Percent \in Char
  BY Marks
<1>3. Encloses(<<Percent>> \o LowerCase(part) \o <<Percent>>, Percent, LowerCase(part), Percent, Char)
  BY <1>1, <1>2, Enclosing
<1>. QED BY <1>1, <1>3 DEF Encloses

\* What a column says is found in it, wildcards in the part or not.
LEMMA ColumnHasFinds ==
  ASSUME NEW column \in Seq(Char), NEW part \in Seq(Char),
         \A j \in 1..Len(column) : column[j] \notin ForeignCapitals,
         Says(column, part)
  PROVE  ColumnHas(column, part)
<1>. DEFINE n == Len(part)
            t == SqlLower(column)
            p == <<Percent>> \o LowerCase(part) \o <<Percent>>
<1>1. PICK k \in 0..(Len(column) - n) :
        \A m \in 1..n : ToLower[column[k + m]] = ToLower[part[m]]
  BY SaysMeans
<1>2. /\ t \in Seq(Char) /\ Len(t) = Len(column) /\ Len(t) \in Nat
      /\ \A j \in 1..Len(t) : t[j] = Sql(column[j])
  BY LowerCaseText
<1>3. /\ p \in Seq(Char) /\ Len(p) = n + 2 /\ n \in Nat
      /\ p[1] = Percent /\ p[n + 2] = Percent
      /\ \A i \in 1..n : p[i + 1] = ToLower[part[i]]
  BY PatternOf
<1>. HIDE DEF t, p, n
<1>4. PICK reach :
        /\ reach[0] = {0}
        /\ \A i \in 1..Len(p) : reach[i] = Onward(t, p[i], reach[i - 1])
        /\ Like(t, p) <=> Len(t) \in reach[Len(p)]
  BY <1>2, <1>3, LikeSteps
<1>5. /\ reach[1] = Onward(t, Percent, {0})
      /\ \A i \in 1..n : reach[i + 1] = Onward(t, ToLower[part[i]], reach[i])
      /\ reach[n + 2] = Onward(t, Percent, reach[n + 1])
  <2>1. 1 \in 1..Len(p) /\ n + 2 \in 1..Len(p) /\ 1 - 1 = 0 /\ (n + 2) - 1 = n + 1
    BY <1>3
  <2>2. \A i \in 1..n : i + 1 \in 1..Len(p) /\ (i + 1) - 1 = i
    BY <1>3
  <2>3. reach[1] = Onward(t, p[1], reach[1 - 1])
    BY <1>4, <2>1
  <2>4. reach[n + 2] = Onward(t, p[n + 2], reach[(n + 2) - 1])
    BY <1>4, <2>1
  <2>5. \A i \in 1..n : reach[i + 1] = Onward(t, p[i + 1], reach[(i + 1) - 1])
    BY <1>4, <2>2
  <2>6. reach[1] = Onward(t, Percent, {0})
    BY <1>3, <1>4, <2>1, <2>3
  <2>7. reach[n + 2] = Onward(t, Percent, reach[n + 1])
    BY <1>3, <2>1, <2>4
  <2>8. ASSUME NEW i \in 1..n PROVE reach[i + 1] = Onward(t, ToLower[part[i]], reach[i])
    BY <1>3, <2>2, <2>5
  <2>. QED BY <2>6, <2>7, <2>8
<1>. DEFINE T == {i \in Nat : i <= n => k + i \in reach[i + 1]}
<1>6. 0 \in T
  <2>1. k + 0 = k /\ 0 + 1 = 1 /\ k \in 0..Len(t) /\ 0 <= k
    BY <1>1, <1>2, <1>3
  <2>2. k \in reach[1]
    BY <1>5, <2>1 DEF Onward
  <2>. QED BY <2>1, <2>2
<1>7. ASSUME NEW i \in 0..(n - 1), i \in T PROVE i + 1 \in T
  <2>1. i \in Nat /\ i + 1 \in 1..n /\ k + i \in reach[i + 1]
        /\ k \in Nat /\ k + (i + 1) \in 1..Len(t) /\ (k + (i + 1)) - 1 = k + i
    BY <1>1, <1>2, <1>3, <1>7
  <2>. DEFINE c == ToLower[part[i + 1]]
  <2>2. reach[(i + 1) + 1] = Onward(t, c, reach[i + 1])
    BY <1>5, <2>1
  <2>3. c # Percent => SqlLower(<<c>>) = SqlLower(<<t[k + (i + 1)]>>)
    <3>1. part[i + 1] \in Char /\ column[k + (i + 1)] \in Char
          /\ column[k + (i + 1)] \notin ForeignCapitals
      BY <1>2, <2>1 DEF n
    <3>2. ToLower[column[k + (i + 1)]] = ToLower[part[i + 1]]
      BY <1>1, <2>1
    <3>3. t[k + (i + 1)] = Sql(column[k + (i + 1)])
      BY <1>2, <2>1
    <3>4. SqlLower(<<ToLower[part[i + 1]]>>) = SqlLower(<<Sql(column[k + (i + 1)])>>)
      BY <3>1, <3>2, LetterMatch, Zenon
    <3>. QED BY <3>3, <3>4, Zenon
  <2>. HIDE DEF c
  <2>4. k + (i + 1) \in Onward(t, c, reach[i + 1])
    <3>1. CASE c = Percent
      <4>1. k + i <= k + (i + 1) /\ k + (i + 1) \in 0..Len(t)
        BY <2>1
      <4>. QED BY <2>1, <3>1, <4>1 DEF Onward
    <3>2. CASE c # Percent
      <4>1. k + (i + 1) \in 0..Len(t)
        BY <2>1
      <4>. QED BY <2>1, <2>3, <3>2, <4>1 DEF Onward
    <3>. QED BY <3>1, <3>2
  <2>. QED BY <2>1, <2>2, <2>4
<1>. HIDE DEF T
<1>8. 0..n \subseteq T
  BY <1>3, <1>6, <1>7, SetInduction
<1>9. Len(t) \in reach[n + 2]
  <2>1. k + n \in reach[n + 1]
    BY <1>3, <1>8 DEF T
  <2>2. k + n <= Len(t) /\ Len(t) \in 0..Len(t)
    BY <1>1, <1>2, <1>3
  <2>. QED BY <1>5, <2>1, <2>2 DEF Onward
<1>. QED BY <1>3, <1>4, <1>9 DEF ColumnHas, t, p

\* What is found in a column without wildcards is said there.
LEMMA ColumnHasOnly ==
  ASSUME NEW column \in Seq(Char), NEW part \in Seq(Char),
         \A i \in 1..Len(part) : part[i] \notin {Percent, Underscore},
         ColumnHas(column, part)
  PROVE  Says(column, part)
<1>. DEFINE n == Len(part)
            t == SqlLower(column)
            p == <<Percent>> \o LowerCase(part) \o <<Percent>>
<1>1. \A i \in 1..n : /\ part[i] \in Char
                      /\ ToLower[part[i]] # Percent /\ ToLower[part[i]] # Underscore
  <2>1. ASSUME NEW i \in 1..n
        PROVE  part[i] \in Char /\ ToLower[part[i]] # Percent /\ ToLower[part[i]] # Underscore
    <3>1. part[i] \in Char /\ part[i] # Percent /\ part[i] # Underscore
      OBVIOUS
    <3>. QED BY <3>1, Marks
  <2>. QED BY <2>1
<1>2. /\ t \in Seq(Char) /\ Len(t) = Len(column) /\ Len(t) \in Nat
      /\ \A j \in 1..Len(t) : t[j] = Sql(column[j]) /\ column[j] \in Char
  BY LowerCaseText
<1>3. /\ p \in Seq(Char) /\ Len(p) = n + 2 /\ n \in Nat
      /\ p[1] = Percent /\ p[n + 2] = Percent
      /\ \A i \in 1..n : p[i + 1] = ToLower[part[i]]
  BY PatternOf
<1>4. Like(t, p)
  BY DEF ColumnHas
<1>. HIDE DEF t, p, n
<1>5. PICK reach :
        /\ reach[0] = {0}
        /\ \A i \in 1..Len(p) : reach[i] = Onward(t, p[i], reach[i - 1])
        /\ Len(t) \in reach[Len(p)]
  BY <1>2, <1>3, <1>4, LikeSteps
<1>6. /\ reach[1] \subseteq 0..Len(t)
      /\ \A i \in 1..n : reach[i + 1] = Onward(t, ToLower[part[i]], reach[i])
      /\ reach[n + 2] = Onward(t, Percent, reach[n + 1])
  <2>1. 1 \in 1..Len(p) /\ n + 2 \in 1..Len(p) /\ (n + 2) - 1 = n + 1
    BY <1>3
  <2>2. \A i \in 1..n : i + 1 \in 1..Len(p) /\ (i + 1) - 1 = i
    BY <1>3
  <2>3. reach[1] \subseteq 0..Len(t)
    BY <1>2, <1>5, <2>1, OnwardType
  <2>4. reach[n + 2] = Onward(t, p[n + 2], reach[(n + 2) - 1])
    BY <1>5, <2>1
  <2>5. \A i \in 1..n : reach[i + 1] = Onward(t, p[i + 1], reach[(i + 1) - 1])
    BY <1>5, <2>2
  <2>6. reach[n + 2] = Onward(t, Percent, reach[n + 1])
    BY <1>3, <2>1, <2>4
  <2>7. ASSUME NEW i \in 1..n PROVE reach[i + 1] = Onward(t, ToLower[part[i]], reach[i])
    BY <1>3, <2>2, <2>5
  <2>. QED BY <2>3, <2>6, <2>7
\* The first i characters of the part stand before j.
<1>. DEFINE Stands(i, j) ==
              /\ j \in i..Len(t)
              /\ \A m \in 1..i : ToLower[part[m]] = ToLower[column[(j - i) + m]]
            T == {i \in Nat : i <= n => \A j \in reach[i + 1] : Stands(i, j)}
<1>7. 0 \in T
  BY <1>2, <1>6
<1>8. ASSUME NEW i \in 0..(n - 1), i \in T PROVE i + 1 \in T
  <2>1. i \in Nat /\ i + 1 \in 1..n
        /\ \A j \in reach[i + 1] : Stands(i, j)
    BY <1>3, <1>8
  <2>2. ASSUME NEW j \in reach[(i + 1) + 1] PROVE Stands(i + 1, j)
    <3>. DEFINE c == ToLower[part[i + 1]]
    <3>1. j \in Onward(t, c, reach[i + 1]) /\ c # Percent /\ c # Underscore
      BY <1>1, <1>6, <2>1
    <3>2. j \in 0..Len(t) /\ j - 1 \in reach[i + 1] /\ SqlLower(<<c>>) = SqlLower(<<t[j]>>)
      BY <3>1 DEF Onward
    <3>3. Stands(i, j - 1)
      BY <2>1, <3>2
    <3>4. j \in (i + 1)..Len(t) /\ j \in 1..Len(t)
      BY <2>1, <3>2, <3>3
    <3>5. c = ToLower[column[j]]
      <4>1. t[j] = Sql(column[j]) /\ column[j] \in Char /\ part[i + 1] \in Char
        BY <1>1, <1>2, <2>1, <3>4
      <4>2. SqlLower(<<ToLower[part[i + 1]]>>) = SqlLower(<<Sql(column[j])>>)
        BY <3>2, <4>1
      <4>. QED BY <4>1, <4>2, LetterMatch
    <3>6. ASSUME NEW m \in 1..(i + 1)
          PROVE  ToLower[part[m]] = ToLower[column[(j - (i + 1)) + m]]
      <4>1. CASE m = i + 1
        <5>1. (j - (i + 1)) + m = j
          BY <2>1, <3>4, <4>1
        <5>. QED BY <3>5, <4>1, <5>1
      <4>2. CASE m # i + 1
        <5>1. m \in 1..i /\ (j - (i + 1)) + m = ((j - 1) - i) + m
          BY <2>1, <3>4, <4>2
        <5>2. ToLower[part[m]] = ToLower[column[((j - 1) - i) + m]]
          BY <3>3, <5>1
        <5>. QED BY <5>1, <5>2
      <4>. QED BY <4>1, <4>2
    <3>. QED BY <3>4, <3>6
  <2>. HIDE DEF Stands
  <2>. QED BY <2>1, <2>2
<1>. HIDE DEF T
<1>9. 0..n \subseteq T
  BY <1>3, <1>7, <1>8, SetInduction
<1>10. PICK j \in reach[n + 1] : j <= Len(t)
  BY <1>3, <1>5, <1>6 DEF Onward
<1>11. Stands(n, j)
  <2>1. n \in T /\ n <= n
    BY <1>3, <1>9
  <2>. HIDE DEF Stands
  <2>. QED BY <2>1, <1>10 DEF T
<1>12. j - n \in 0..(Len(column) - n)
  BY <1>2, <1>3, <1>11
<1>. QED BY <1>11, <1>12, SaysMeans, ZenonT(30) DEF n

-----------------------------------------------------------------------------
(* Tags *)

\* Trimming keeps characters of the text only.
LEMMA TrimText ==
  ASSUME NEW t \in Seq(Char)
  PROVE  /\ Trim(t) \in Seq(Char)
         /\ \A i \in 1..Len(Trim(t)) : \E x \in 1..Len(t) : Trim(t)[i] = t[x]
<1>. DEFINE ink == {i \in DOMAIN t : t[i] # Blank}
<1>1. CASE ink = {}
  BY <1>1 DEF Trim
<1>2. CASE ink # {}
  <2>1. ink \subseteq 1..Len(t) /\ Len(t) \in Nat /\ ink \subseteq Nat
    OBVIOUS
  <2>2. Trim(t) = SubSeq(t, Min(ink), Max(ink))
    BY <1>2 DEF Trim
  <2>. HIDE DEF ink
  <2>3. PICK a \in ink : \A y \in ink : a <= y
    BY <1>2, <2>1, NatMin
  <2>4. PICK b \in ink : \A y \in ink : y <= b
    <3>1. \A x \in ink : x <= Len(t)
      BY <2>1
    <3>. QED BY <1>2, <2>1, <3>1, NatMax
  <2>5. Min(ink) \in ink
    BY <2>3 DEF Min
  <2>6. Max(ink) \in ink
    <3>1. \A y \in ink : b >= y
      BY <2>1, <2>4
    <3>. QED BY <3>1 DEF Max
  <2>. DEFINE lo == Min(ink)
              hi == Max(ink)
  <2>7. lo \in 1..Len(t) /\ hi \in 1..Len(t)
    BY <2>1, <2>5, <2>6
  <2>. HIDE DEF lo, hi
  <2>8. /\ SubSeq(t, lo, hi) \in Seq(Char)
        /\ Len(SubSeq(t, lo, hi)) = IF lo <= hi THEN hi - lo + 1 ELSE 0
        /\ \A i \in 1..(hi - lo + 1) : SubSeq(t, lo, hi)[i] = t[lo + i - 1]
    <3>1. lo \in Int /\ hi \in Int /\ \A i \in lo..hi : t[i] \in Char
      BY <2>1, <2>7
    <3>. QED BY <3>1, SubSeqProperties
  <2>9. ASSUME NEW i \in 1..Len(SubSeq(t, lo, hi))
        PROVE  \E x \in 1..Len(t) : SubSeq(t, lo, hi)[i] = t[x]
    <3>1. i \in 1..(hi - lo + 1) /\ lo + i - 1 \in 1..Len(t)
      BY <2>1, <2>7, <2>8
    <3>. QED BY <2>8, <3>1
  <2>. QED BY <2>2, <2>8, <2>9 DEF lo, hi
<1>. QED BY <1>1, <1>2

\* The normalized tags are tags, without the blanks around them; every tag is among them,
\* in some case.
LEMMA NormalizeTagsText ==
  ASSUME NEW tags \in Seq(Seq(Char))
  PROVE  LET kept == NormalizeTags(tags) IN
         /\ kept \in Seq(Seq(Char))
         /\ \A i \in 1..Len(kept) :
              kept[i] # <<>> /\ \E x \in 1..Len(tags) : kept[i] = Trim(tags[x])
         /\ \A x \in 1..Len(tags) :
              Trim(tags[x]) # <<>> => \E i \in 1..Len(kept) : SameText(kept[i], Trim(tags[x]))
<1>. DEFINE n == Len(tags)
            kept == NormalizeTags(tags)
            ss == [i \in 1..n |-> IF FirstOfItsKind(tags, i) THEN <<Trim(tags[i])>> ELSE <<>>]
<1>1. n \in Nat /\ \A i \in 1..n : tags[i] \in Seq(Char) /\ Trim(tags[i]) \in Seq(Char)
  BY TrimText
<1>2. ss \in Seq(Seq(Seq(Char))) /\ Len(ss) = n
  <2>1. \A i \in 1..n :
          (IF FirstOfItsKind(tags, i) THEN <<Trim(tags[i])>> ELSE <<>>) \in Seq(Seq(Char))
    BY <1>1
  <2>. HIDE DEF n
  <2>. QED BY <1>1, <2>1
<1>3. kept = FlattenSeq(ss)
  <2>1. DOMAIN tags = 1..n
    OBVIOUS
  <2>. QED BY <2>1, Zenon DEF NormalizeTags
<1>4. /\ \A i \in 1..n : FirstOfItsKind(tags, i) => Len(ss[i]) = 1 /\ ss[i][1] = Trim(tags[i])
      /\ \A i \in 1..n : ~FirstOfItsKind(tags, i) => Len(ss[i]) = 0
  OBVIOUS
<1>. HIDE DEF n, kept, ss
<1>5. kept \in Seq(Seq(Char)) /\ \E off : Offsets(off, ss, kept)
  BY <1>2, <1>3, FlattenOffsets
<1>6. PICK off : Offsets(off, ss, kept)
  BY <1>5
<1>7. ASSUME NEW i \in 1..Len(kept)
      PROVE  kept[i] # <<>> /\ \E x \in 1..n : kept[i] = Trim(tags[x])
  <2>1. PICK x \in 1..n : \E m \in 1..Len(ss[x]) : i = off[x - 1] + m
    BY <1>2, <1>6 DEF Offsets
  <2>2. PICK m \in 1..Len(ss[x]) : i = off[x - 1] + m
    BY <2>1
  <2>3. FirstOfItsKind(tags, x) /\ m = 1
    <3>1. FirstOfItsKind(tags, x)
      BY <1>4, <2>2
    <3>2. Len(ss[x]) = 1
      BY <1>4, <3>1
    <3>. QED BY <2>2, <3>1, <3>2
  <2>4. kept[i] = ss[x][m]
    BY <1>2, <1>6, <2>2 DEF Offsets
  <2>5. kept[i] = Trim(tags[x]) /\ Trim(tags[x]) # <<>>
    BY <1>4, <2>3, <2>4 DEF FirstOfItsKind
  <2>. QED BY <2>5
<1>8. ASSUME NEW x \in 1..n, Trim(tags[x]) # <<>>
      PROVE  \E i \in 1..Len(kept) : SameText(kept[i], Trim(tags[x]))
  <2>. DEFINE B == {y \in 1..n : LowerCase(Trim(tags[y])) = LowerCase(Trim(tags[x]))}
  <2>1. PICK y \in B : \A z \in B : y <= z
    <3>1. B \subseteq Nat /\ x \in B
      OBVIOUS
    <3>. HIDE DEF B
    <3>. QED BY <3>1, NatMin
  <2>2. y \in 1..n /\ LowerCase(Trim(tags[y])) = LowerCase(Trim(tags[x]))
    BY <2>1
  <2>3. Trim(tags[y]) # <<>>
    <3>1. Len(Trim(tags[y])) = Len(Trim(tags[x]))
      BY <1>1, <2>2, LowerCaseText
    <3>. QED BY <1>1, <1>8, <2>2, <3>1
  <2>4. FirstOfItsKind(tags, y)
    <3>1. ASSUME NEW j \in 1..(y - 1)
          PROVE  LowerCase(Trim(tags[j])) # LowerCase(Trim(tags[y]))
      <4>1. j \in 1..n /\ ~(y <= j)
        BY <1>1, <2>2
      <4>. QED BY <2>1, <2>2, <4>1
    <3>. QED BY <2>3, <3>1 DEF FirstOfItsKind
  <2>5. kept[off[y - 1] + 1] = Trim(tags[y])
    BY <1>2, <1>4, <1>6, <2>2, <2>4 DEF Offsets
  <2>6. off[y - 1] + 1 \in 1..Len(kept)
    <3>1. off[y - 1] \in Nat /\ off[y] = off[y - 1] + Len(ss[y]) /\ off[y] <= Len(kept)
      <4>1. y - 1 \in 0..n
        BY <1>1
      <4>. QED BY <1>2, <1>6, <2>2, <4>1 DEF Offsets
    <3>2. Len(ss[y]) = 1
      BY <1>4, <2>2, <2>4
    <3>3. Len(kept) \in Nat
      BY <1>5
    <3>. QED BY <3>1, <3>2, <3>3
  <2>. QED BY <2>2, <2>5, <2>6 DEF SameText
<1>. QED BY <1>5, <1>7, <1>8 DEF n, kept

Escaped == {Quote, Backslash}

\* The i-th character of t, and a backslash before it if it is escaped, ends at
\* off[i] + 1 in the token u.
Spells(u, t, off, i) ==
  /\ off[i] <= off[Len(t)]
  /\ t[i] \in Escaped =>
       /\ off[i] = off[i - 1] + 2
       /\ u[off[i - 1] + 2] = Backslash /\ u[off[i - 1] + 3] = t[i]
  /\ t[i] \notin Escaped => off[i] = off[i - 1] + 1 /\ u[off[i - 1] + 2] = t[i]

\* A character of the token u that belongs to the i-th of t.
Within(x, t, off, i) ==
  x = off[i - 1] + 2 \/ (t[i] \in Escaped /\ x = off[i - 1] + 3)

IsToken(u, t, off) ==
  /\ off \in [0..Len(t) -> Nat] /\ off[0] = 0 /\ Len(u) = off[Len(t)] + 2
  /\ u[1] = Quote /\ u[Len(u)] = Quote
  /\ \A i \in 1..Len(t) : Spells(u, t, off, i)
  /\ \A x \in 1..Len(u) : x = 1 \/ x = Len(u) \/ \E i \in 1..Len(t) : Within(x, t, off, i)

\* The JSON of a text is a token: its characters, some escaped, between quotes.
LEMMA JsonToken ==
  ASSUME NEW C, Quote \in C, Backslash \in C, NEW t \in Seq(C)
  PROVE  Json(t) \in Seq(C) /\ \E off : IsToken(Json(t), t, off)
<1>. DEFINE n == Len(t)
            ss == [i \in 1..n |-> IF t[i] \in {Quote, Backslash} THEN <<Backslash, t[i]>> ELSE <<t[i]>>]
            flat == FlattenSeq(ss)
            u == Json(t)
<1>1. n \in Nat /\ DOMAIN t = 1..n /\ \A i \in 1..n : t[i] \in C
  OBVIOUS
<1>2. ss \in Seq(Seq(C)) /\ Len(ss) = n
  <2>1. \A i \in 1..n :
          (IF t[i] \in {Quote, Backslash} THEN <<Backslash, t[i]>> ELSE <<t[i]>>) \in Seq(C)
    BY <1>1
  <2>. HIDE DEF n
  <2>. QED BY <1>1, <2>1
<1>3. u = <<Quote>> \o flat \o <<Quote>>
  BY <1>1, Zenon DEF Json
<1>4. ASSUME NEW i \in 1..n
      PROVE  /\ t[i] \in Escaped =>
                  Len(ss[i]) = 2 /\ ss[i][1] = Backslash /\ ss[i][2] = t[i]
             /\ t[i] \notin Escaped => Len(ss[i]) = 1 /\ ss[i][1] = t[i]
  BY DEF Escaped
<1>. HIDE DEF ss
<1>5. flat \in Seq(C) /\ \E off : Offsets(off, ss, flat)
  BY <1>2, FlattenOffsets
<1>6. PICK off : Offsets(off, ss, flat)
  BY <1>5
<1>. HIDE DEF flat
<1>7. Encloses(u, Quote, flat, Quote, C)
  BY <1>3, <1>5, Enclosing
<1>. HIDE DEF u, n
<1>8. /\ off \in [0..n -> Nat] /\ off[0] = 0 /\ off[n] = Len(flat) /\ Len(flat) \in Nat
      /\ Len(u) = off[n] + 2 /\ u[1] = Quote /\ u[Len(u)] = Quote /\ u \in Seq(C)
      /\ \A x \in 1..Len(flat) : u[x + 1] = flat[x]
  BY <1>2, <1>5, <1>6, <1>7 DEF Offsets, Encloses
<1>9. ASSUME NEW i \in 1..n PROVE Spells(u, t, off, i)
  <2>1. /\ off[i - 1] \in Nat /\ off[i] = off[i - 1] + Len(ss[i]) /\ off[i] <= off[n]
        /\ \A m \in 1..Len(ss[i]) : flat[off[i - 1] + m] = ss[i][m]
    <3>1. i - 1 \in 0..n
      BY <1>1
    <3>. QED BY <1>2, <1>6, <1>8, <3>1 DEF Offsets
  <2>2. CASE t[i] \in Escaped
    <3>1. /\ off[i - 1] + 1 \in 1..Len(flat) /\ off[i - 1] + 2 \in 1..Len(flat)
          /\ (off[i - 1] + 1) + 1 = off[i - 1] + 2 /\ (off[i - 1] + 2) + 1 = off[i - 1] + 3
      <4>1. /\ off[i - 1] \in Nat /\ Len(flat) \in Nat
            /\ off[i] = off[i - 1] + 2 /\ off[i] <= Len(flat)
        BY <1>4, <1>8, <2>1, <2>2
      <4>. QED BY <4>1, SMTT(30)
    <3>2. flat[off[i - 1] + 1] = Backslash /\ flat[off[i - 1] + 2] = t[i]
      BY <1>4, <2>1, <2>2, SMTT(30)
    <3>3. u[off[i - 1] + 2] = Backslash /\ u[off[i - 1] + 3] = t[i]
      BY <1>8, <3>1, <3>2
    <3>. QED BY <1>4, <2>1, <2>2, <3>3 DEF Spells, n
  <2>3. CASE t[i] \notin Escaped
    <3>1. off[i - 1] + 1 \in 1..Len(flat) /\ (off[i - 1] + 1) + 1 = off[i - 1] + 2
      <4>1. /\ off[i - 1] \in Nat /\ Len(flat) \in Nat
            /\ off[i] = off[i - 1] + 1 /\ off[i] <= Len(flat)
        BY <1>4, <1>8, <2>1, <2>3
      <4>. QED BY <4>1
    <3>2. flat[off[i - 1] + 1] = t[i]
      BY <1>4, <2>1, <2>3
    <3>3. u[off[i - 1] + 2] = t[i]
      BY <1>8, <3>1, <3>2
    <3>. QED BY <1>4, <2>1, <2>3, <3>3 DEF Spells, n
  <2>. QED BY <2>2, <2>3
<1>10. ASSUME NEW x \in 1..Len(u), x # 1, x # Len(u)
       PROVE  \E i \in 1..n : Within(x, t, off, i)
  <2>1. x - 1 \in 1..Len(flat)
    BY <1>8, <1>10
  <2>2. PICK i \in 1..n : \E m \in 1..Len(ss[i]) : x - 1 = off[i - 1] + m
    BY <1>2, <1>6, <2>1 DEF Offsets
  <2>3. PICK m \in 1..Len(ss[i]) : x - 1 = off[i - 1] + m
    BY <2>2
  <2>4. off[i - 1] \in Nat /\ x \in Nat
    <3>1. i - 1 \in 0..n
      BY <1>1
    <3>. QED BY <1>8, <3>1
  <2>5. m = 1 \/ (t[i] \in Escaped /\ m = 2)
    <3>1. (t[i] \in Escaped /\ Len(ss[i]) = 2) \/ Len(ss[i]) = 1
      BY <1>4
    <3>2. CASE t[i] \in Escaped /\ Len(ss[i]) = 2
      BY <3>2
    <3>3. CASE Len(ss[i]) = 1
      BY <3>3
    <3>. QED BY <3>1, <3>2, <3>3
  <2>6. Within(x, t, off, i)
    BY <2>3, <2>4, <2>5, SMTT(30) DEF Within
  <2>. QED BY <2>6
<1>11. IsToken(u, t, off)
  BY <1>8, <1>9, <1>10 DEF IsToken, n
<1>. QED BY <1>8, <1>11 DEF u

\* The character of a token after the first i of its text.
LEMMA TokenNext ==
  ASSUME NEW t \in Seq(Char), NEW u, NEW off, IsToken(u, t, off), NEW i \in 0..(Len(t) - 1)
  PROVE  /\ i + 1 \in 1..Len(t) /\ t[i + 1] \in Char /\ off[i] \in Nat /\ Len(u) \in Nat
         /\ t[i + 1] \in Escaped =>
              /\ off[i + 1] = off[i] + 2 /\ off[i] + 3 < Len(u)
              /\ u[off[i] + 2] = Backslash /\ u[off[i] + 3] = t[i + 1]
         /\ t[i + 1] \notin Escaped => off[i + 1] = off[i] + 1 /\ u[off[i] + 2] = t[i + 1]
         /\ off[i] + 2 < Len(u) /\ u[off[i] + 2] # Quote
<1>1. i + 1 \in 1..Len(t) /\ t[i + 1] \in Char /\ i \in 0..Len(t) /\ (i + 1) - 1 = i
      /\ Len(t) \in 0..Len(t)
  OBVIOUS
<1>2. off[i] \in Nat /\ off[Len(t)] \in Nat /\ Len(u) = off[Len(t)] + 2
  BY <1>1 DEF IsToken
<1>3. Spells(u, t, off, i + 1)
  BY <1>1 DEF IsToken
<1>4. /\ off[i + 1] <= off[Len(t)]
      /\ t[i + 1] \in Escaped =>
           /\ off[i + 1] = off[i] + 2
           /\ u[off[i] + 2] = Backslash /\ u[off[i] + 3] = t[i + 1]
      /\ t[i + 1] \notin Escaped => off[i + 1] = off[i] + 1 /\ u[off[i] + 2] = t[i + 1]
  BY <1>1, <1>3 DEF Spells
<1>5. u[off[i] + 2] # Quote
  BY <1>4, Marks DEF Escaped
<1>6. t[i + 1] \in Escaped => off[i] + 3 < Len(u)
  BY <1>2, <1>4, SMTT(30)
<1>7. off[i] + 2 < Len(u)
  <2>1. off[i + 1] = off[i] + 1 \/ off[i + 1] = off[i] + 2
    BY <1>4
  <2>2. off[i] + 1 <= off[Len(t)]
    BY <1>2, <1>4, <2>1
  <2>. QED BY <1>2, <2>2
<1>8. Len(u) \in Nat
  BY <1>2
<1>. QED BY <1>1, <1>2, <1>4, <1>5, <1>6, <1>7, <1>8

\* No token but that of the same text begins like a token.
LEMMA TokenPrefix ==
  ASSUME NEW q \in Seq(Char), NEW t \in Seq(Char), NEW u, NEW v, NEW offq, NEW offt,
         IsToken(u, q, offq), IsToken(v, t, offt),
         \A x \in 1..Len(u) : x <= Len(v) => ToLower[u[x]] = ToLower[v[x]]
  PROVE  SameText(t, q)
<1>. DEFINE P(i) ==
              /\ i <= Len(t) /\ offq[i] = offt[i]
              /\ \A x \in 1..i : ToLower[q[x]] = ToLower[t[x]]
            T == {i \in Nat : i <= Len(q) => P(i)}
<1>1. 0 \in T
  BY DEF IsToken
<1>2. ASSUME NEW i \in 0..(Len(q) - 1), i \in T PROVE i + 1 \in T
  <2>1. i \in Nat /\ P(i)
    BY <1>2
  <2>. DEFINE o == offq[i]
  <2>2. /\ i + 1 \in 1..Len(q) /\ q[i + 1] \in Char /\ o \in Nat /\ Len(u) \in Nat
        /\ q[i + 1] \in Escaped =>
             /\ offq[i + 1] = o + 2 /\ o + 3 < Len(u)
             /\ u[o + 2] = Backslash /\ u[o + 3] = q[i + 1]
        /\ q[i + 1] \notin Escaped => offq[i + 1] = o + 1 /\ u[o + 2] = q[i + 1]
        /\ o + 2 < Len(u) /\ u[o + 2] # Quote
    BY TokenNext
  <2>3. u[o + 2] \in Char
    BY <2>2, Marks
  <2>4. i # Len(t)
    <3>1. SUFFICES ASSUME i = Len(t) PROVE FALSE
      OBVIOUS
    <3>2. Len(v) = o + 2 /\ v[o + 2] = Quote
      BY <2>1, <3>1 DEF IsToken
    <3>3. o + 2 \in 1..Len(u) /\ o + 2 <= Len(v)
      BY <2>2, <3>2
    <3>4. ToLower[u[o + 2]] = ToLower[Quote]
      BY <3>2, <3>3
    <3>. QED BY <2>2, <2>3, <3>4, Marks
  <2>5. i \in 0..(Len(t) - 1) /\ o = offt[i]
    BY <2>1, <2>4
  <2>6. /\ i + 1 \in 1..Len(t) /\ t[i + 1] \in Char /\ Len(v) \in Nat
        /\ t[i + 1] \in Escaped =>
             /\ offt[i + 1] = o + 2 /\ o + 3 < Len(v)
             /\ v[o + 2] = Backslash /\ v[o + 3] = t[i + 1]
        /\ t[i + 1] \notin Escaped => offt[i + 1] = o + 1 /\ v[o + 2] = t[i + 1]
        /\ o + 2 < Len(v)
    BY <2>5, TokenNext
  <2>. HIDE DEF o
  <2>7. ToLower[u[o + 2]] = ToLower[v[o + 2]]
    <3>1. o + 2 \in 1..Len(u) /\ o + 2 <= Len(v)
      BY <2>2, <2>6
    <3>. QED BY <3>1
  <2>8. o + 3 < Len(u) /\ o + 3 < Len(v) => ToLower[u[o + 3]] = ToLower[v[o + 3]]
    <3>1. o + 3 < Len(u) /\ o + 3 < Len(v) => o + 3 \in 1..Len(u) /\ o + 3 <= Len(v)
      BY <2>2, <2>6
    <3>. QED BY <3>1
  <2>9. /\ ToLower[q[i + 1]] = ToLower[t[i + 1]]
        /\ offq[i + 1] = offt[i + 1]
    <3>1. CASE q[i + 1] \in Escaped
      <4>1. t[i + 1] \in Escaped
        <5>1. SUFFICES ASSUME t[i + 1] \notin Escaped PROVE FALSE
          OBVIOUS
        <5>2. ToLower[t[i + 1]] = ToLower[Backslash]
          BY <2>2, <2>6, <2>7, <3>1, <5>1
        <5>3. t[i + 1] = Backslash
          BY <2>6, <5>2, Marks
        <5>. QED BY <5>1, <5>3 DEF Escaped
      <4>. QED BY <2>2, <2>6, <2>8, <3>1, <4>1
    <3>2. CASE q[i + 1] \notin Escaped
      <4>1. t[i + 1] \notin Escaped
        <5>1. SUFFICES ASSUME t[i + 1] \in Escaped PROVE FALSE
          OBVIOUS
        <5>2. ToLower[q[i + 1]] = ToLower[Backslash]
          BY <2>2, <2>6, <2>7, <3>2, <5>1
        <5>3. q[i + 1] = Backslash
          BY <2>2, <5>2, Marks
        <5>. QED BY <3>2, <5>3 DEF Escaped
      <4>. QED BY <2>2, <2>6, <2>7, <3>2, <4>1
    <3>. QED BY <3>1, <3>2
  <2>10. \A x \in 1..(i + 1) : ToLower[q[x]] = ToLower[t[x]]
    <3>1. \A x \in 1..(i + 1) : x = i + 1 \/ x \in 1..i
      BY <2>1
    <3>. QED BY <2>1, <2>9, <3>1
  <2>11. P(i + 1)
    BY <2>6, <2>9, <2>10
  <2>. HIDE DEF P
  <2>. QED BY <2>1, <2>11
<1>. HIDE DEF T
<1>3. P(Len(q))
  <2>1. Len(q) \in Nat /\ Len(q) \in 0..Len(q) /\ Len(q) <= Len(q)
    OBVIOUS
  <2>2. Len(q) \in T
    BY <1>1, <1>2, <2>1, SetInduction
  <2>. HIDE DEF P
  <2>. QED BY <2>1, <2>2 DEF T
<1>4. Len(q) = Len(t)
  <2>1. SUFFICES ASSUME Len(q) # Len(t) PROVE FALSE
    OBVIOUS
  <2>2. Len(q) \in 0..(Len(t) - 1)
    BY <1>3, <2>1
  <2>. DEFINE o == offt[Len(q)]
  <2>3. /\ o \in Nat /\ Len(v) \in Nat /\ o + 2 < Len(v) /\ v[o + 2] # Quote
        /\ v[o + 2] \in Char
    <3>. DEFINE i == Len(q)
    <3>1. i \in 0..(Len(t) - 1)
      BY <2>2
    <3>. HIDE DEF i
    <3>2. /\ t[i + 1] \in Char /\ offt[i] \in Nat /\ Len(v) \in Nat
          /\ t[i + 1] \in Escaped => v[offt[i] + 2] = Backslash
          /\ t[i + 1] \notin Escaped => v[offt[i] + 2] = t[i + 1]
          /\ offt[i] + 2 < Len(v) /\ v[offt[i] + 2] # Quote
      BY <3>1, TokenNext
    <3>3. v[offt[i] + 2] \in Char
      BY <3>2, Marks
    <3>. QED BY <3>2, <3>3 DEF i
  <2>4. Len(u) = o + 2 /\ u[o + 2] = Quote
    BY <1>3 DEF IsToken
  <2>5. ToLower[v[o + 2]] = ToLower[Quote]
    <3>1. o + 2 \in 1..Len(u) /\ o + 2 <= Len(v)
      BY <2>3, <2>4
    <3>. QED BY <2>4, <3>1
  <2>. QED BY <2>3, <2>5, Marks
<1>. QED BY <1>3, <1>4, SameTextMeans

\* Texts that differ by case only have tokens that differ by case only.
LEMMA TokenSame ==
  ASSUME NEW q \in Seq(Char), NEW t \in Seq(Char), NEW u \in Seq(Char), NEW v \in Seq(Char),
         NEW offq, NEW offt, IsToken(u, q, offq), IsToken(v, t, offt), SameText(t, q)
  PROVE  SameText(v, u)
<1>1. Len(q) = Len(t) /\ Len(q) \in Nat /\ \A i \in 1..Len(q) : ToLower[q[i]] = ToLower[t[i]]
  BY SameTextMeans
<1>2. ASSUME NEW i \in 1..Len(q) PROVE q[i] \in Escaped <=> t[i] \in Escaped
  <2>1. q[i] \in Char /\ t[i] \in Char /\ ToLower[q[i]] = ToLower[t[i]]
    BY <1>1
  <2>. QED BY <2>1, Marks DEF Escaped
<1>3. \A i \in 0..Len(q) : offq[i] = offt[i]
  <2>. DEFINE T == {i \in Nat : i <= Len(q) => offq[i] = offt[i]}
  <2>1. 0 \in T
    BY DEF IsToken
  <2>2. ASSUME NEW i \in 0..(Len(q) - 1), i \in T PROVE i + 1 \in T
    <3>1. i \in Nat /\ i + 1 \in 1..Len(q) /\ i \in 0..(Len(t) - 1) /\ offq[i] = offt[i]
      BY <1>1, <2>2
    <3>2. /\ q[i + 1] \in Escaped => offq[i + 1] = offq[i] + 2
          /\ q[i + 1] \notin Escaped => offq[i + 1] = offq[i] + 1
      BY TokenNext
    <3>3. /\ t[i + 1] \in Escaped => offt[i + 1] = offt[i] + 2
          /\ t[i + 1] \notin Escaped => offt[i + 1] = offt[i] + 1
      BY <3>1, TokenNext
    <3>. QED BY <1>2, <3>1, <3>2, <3>3
  <2>. HIDE DEF T
  <2>3. 0..Len(q) \subseteq T
    BY <1>1, <2>1, <2>2, SetInduction
  <2>. QED BY <2>3, <1>1 DEF T
<1>4. Len(u) = Len(v)
  <2>1. Len(q) \in 0..Len(q)
    BY <1>1
  <2>. QED BY <1>1, <1>3, <2>1 DEF IsToken
<1>5. ASSUME NEW x \in 1..Len(u) PROVE ToLower[u[x]] = ToLower[v[x]]
  <2>1. CASE x = 1 \/ x = Len(u)
    BY <1>4, <2>1 DEF IsToken
  <2>2. CASE x # 1 /\ x # Len(u)
    <3>1. PICK i \in 1..Len(q) : Within(x, q, offq, i)
      BY <2>2 DEF IsToken
    <3>2. i - 1 \in 0..(Len(q) - 1) /\ i - 1 \in 0..(Len(t) - 1) /\ (i - 1) + 1 = i
          /\ i - 1 \in 0..Len(q)
      BY <1>1
    <3>3. /\ q[i] \in Escaped => u[offq[i - 1] + 2] = Backslash /\ u[offq[i - 1] + 3] = q[i]
          /\ q[i] \notin Escaped => u[offq[i - 1] + 2] = q[i]
      BY DEF IsToken, Spells
    <3>4. /\ t[i] \in Escaped => v[offt[i - 1] + 2] = Backslash /\ v[offt[i - 1] + 3] = t[i]
          /\ t[i] \notin Escaped => v[offt[i - 1] + 2] = t[i]
      BY <1>1 DEF IsToken, Spells
    <3>5. offq[i - 1] = offt[i - 1] /\ ToLower[q[i]] = ToLower[t[i]]
          /\ (q[i] \in Escaped <=> t[i] \in Escaped)
      BY <1>1, <1>2, <1>3, <3>2
    <3>6. x = offq[i - 1] + 2 \/ (q[i] \in Escaped /\ x = offq[i - 1] + 3)
      BY <3>1 DEF Within
    <3>. QED BY <3>3, <3>4, <3>5, <3>6
  <2>. QED BY <2>1, <2>2
<1>. QED BY <1>4, <1>5, SameTextMeans

\* The i-th token of an array stands after at[i], and a comma after it unless it is the
\* last; nothing else stands in an array.
IsArray(arr, tok, n, at) ==
  /\ at \in [1..n -> Nat]
  /\ \A i \in 1..n :
       /\ at[i] + Len(tok[i]) < Len(arr)
       /\ i = n => at[i] + Len(tok[i]) + 1 = Len(arr)
       /\ i < n => at[i + 1] = at[i] + Len(tok[i]) + 1 /\ arr[at[i + 1]] = Comma
  /\ \A i \in 1..n : \A m \in 1..Len(tok[i]) : arr[at[i] + m] = tok[i][m]
  /\ \A x \in 1..Len(arr) :
       \/ arr[x] \in {Open, Comma, Close}
       \/ \E i \in 1..n : \E m \in 1..Len(tok[i]) : x = at[i] + m

\* The m-th of the l places after a + d is the (d + m)-th after a, and the other way round.
LEMMA Places ==
  ASSUME NEW a \in Nat, NEW d \in Nat, NEW l \in Nat, NEW m \in Nat
  PROVE  /\ 1 <= m /\ m <= l =>
              /\ a + (d + m) \in Nat /\ 1 <= a + (d + m) /\ a + (d + m) <= a + (d + l)
              /\ (a + d + 1) + m = (a + (d + m)) + 1 /\ d + m \in 1..(d + l)
         /\ d <= 1 /\ (m # 1 \/ d = 0) /\ 1 <= m /\ m <= d + l =>
              /\ m - d \in 1..l /\ (a + m) + 1 = (a + d + 1) + (m - d)
OBVIOUS

\* The JSON of a list of texts is an array of their tokens.
LEMMA JsonArrayTokens ==
  ASSUME NEW C, {Quote, Backslash, Comma, Open, Close} \subseteq C, NEW tags \in Seq(Seq(C))
  PROVE  /\ JsonArray(tags) \in Seq(C)
         /\ \E at : IsArray(JsonArray(tags), [i \in 1..Len(tags) |-> Json(tags[i])], Len(tags), at)
<1>. DEFINE n == Len(tags)
            tok == [i \in 1..n |-> Json(tags[i])]
            ss == [i \in 1..n |-> IF i = 1 THEN Json(tags[i]) ELSE <<Comma>> \o Json(tags[i])]
            flat == FlattenSeq(ss)
            arr == JsonArray(tags)
            d == [i \in 1..n |-> IF i = 1 THEN 0 ELSE 1]
<1>1. n \in Nat /\ DOMAIN tags = 1..n
  OBVIOUS
<1>2. ASSUME NEW i \in 1..n PROVE Json(tags[i]) \in Seq(C)
  <2>1. tags[i] \in Seq(C) /\ Quote \in C /\ Backslash \in C
    OBVIOUS
  <2>. QED BY <2>1, JsonToken
<1>3. \A i \in 1..n : tok[i] \in Seq(C) /\ Len(tok[i]) \in Nat /\ d[i] \in {0, 1}
                      /\ (i = 1 => d[i] = 0) /\ (i # 1 => d[i] = 1)
  BY <1>2
<1>4. arr = <<Open>> \o flat \o <<Close>>
  BY <1>1, Zenon DEF JsonArray
<1>5. ASSUME NEW i \in 1..n
      PROVE  /\ ss[i] \in Seq(C) /\ Len(ss[i]) = d[i] + Len(tok[i])
             /\ i # 1 => ss[i][1] = Comma
             /\ \A m \in 1..Len(tok[i]) : ss[i][d[i] + m] = tok[i][m]
  <2>1. CASE i = 1
    BY <1>3, <2>1
  <2>2. CASE i # 1
    <3>1. tok[i] \in Seq(C) /\ d[i] = 1 /\ Comma \in C
      BY <1>3, <2>2
    <3>2. ss[i] = <<Comma>> \o tok[i]
      BY <2>2
    <3>. HIDE DEF ss, tok, d
    <3>. QED BY <3>1, <3>2, Prefixing
  <2>. QED BY <2>1, <2>2
<1>6. ss \in Seq(Seq(C)) /\ Len(ss) = n
  <2>1. \A i \in 1..n : (IF i = 1 THEN Json(tags[i]) ELSE <<Comma>> \o Json(tags[i])) \in Seq(C)
    BY <1>5
  <2>. HIDE DEF n
  <2>. QED BY <1>1, <2>1
<1>. HIDE DEF ss, tok, d
<1>7. flat \in Seq(C) /\ \E off : Offsets(off, ss, flat)
  BY <1>6, FlattenOffsets
<1>8. PICK off : Offsets(off, ss, flat)
  BY <1>7
<1>. HIDE DEF flat, arr, n
<1>9. Encloses(arr, Open, flat, Close, C)
  BY <1>4, <1>7, Enclosing
<1>10. /\ off \in [0..n -> Nat] /\ off[n] = Len(flat) /\ Len(flat) \in Nat
       /\ Len(arr) = off[n] + 2 /\ arr[1] = Open /\ arr[Len(arr)] = Close /\ arr \in Seq(C)
       /\ \A x \in 1..Len(flat) : arr[x + 1] = flat[x]
  BY <1>6, <1>7, <1>8, <1>9 DEF Offsets, Encloses
<1>11. ASSUME NEW i \in 1..n
       PROVE  /\ off[i - 1] \in Nat /\ off[i] \in Nat /\ off[i] <= off[n]
              /\ off[i] = off[i - 1] + (d[i] + Len(tok[i])) /\ Len(tok[i]) \in Nat
              /\ \A m \in 1..Len(ss[i]) : flat[off[i - 1] + m] = ss[i][m]
  <2>1. i - 1 \in 0..n /\ i \in 0..n
    BY <1>1
  <2>. QED BY <1>3, <1>5, <1>6, <1>8, <1>10, <2>1 DEF Offsets
<1>. DEFINE at == [i \in 1..n |-> off[i - 1] + d[i] + 1]
<1>12. at \in [1..n -> Nat] /\ \A i \in 1..n : at[i] = off[i - 1] + d[i] + 1
  BY <1>3, <1>11
<1>. HIDE DEF at
<1>13. ASSUME NEW i \in 1..n
       PROVE  at[i] + Len(tok[i]) = off[i] + 1
  <2>1. /\ at[i] = off[i - 1] + d[i] + 1 /\ d[i] \in Nat /\ off[i - 1] \in Nat
        /\ Len(tok[i]) \in Nat /\ off[i] = off[i - 1] + (d[i] + Len(tok[i]))
    BY <1>3, <1>11, <1>12
  <2>. QED BY <2>1
<1>14. ASSUME NEW i \in 1..n, NEW m, m \in 1..Len(tok[i]) PROVE arr[at[i] + m] = tok[i][m]
  <2>1. /\ d[i] \in {0, 1} /\ Len(tok[i]) \in Nat /\ off[i - 1] \in Nat
        /\ off[i] = off[i - 1] + (d[i] + Len(tok[i])) /\ off[i] <= Len(flat)
        /\ at[i] = off[i - 1] + d[i] + 1
    BY <1>3, <1>10, <1>11, <1>12
  <2>2. m \in Nat /\ 1 <= m /\ m <= Len(tok[i])
    BY <1>14, <2>1
  <2>. DEFINE x == off[i - 1] + (d[i] + m)
  <2>3. x \in 1..Len(flat) /\ at[i] + m = x + 1 /\ d[i] + m \in 1..(d[i] + Len(tok[i]))
    <3>. DEFINE dd == d[i] ll == Len(tok[i]) oo == off[i - 1]
    <3>0. /\ x \in Nat /\ 1 <= x /\ x <= oo + (dd + ll) /\ dd + m \in 1..(dd + ll)
          /\ (oo + dd + 1) + m = x + 1
      <4>1. dd \in Nat /\ ll \in Nat /\ oo \in Nat
        BY <2>1
      <4>. HIDE DEF dd, ll, oo
      <4>2. x = oo + (dd + m)
        BY DEF oo, dd
      <4>. HIDE DEF x
      <4>. QED BY <2>2, <4>1, <4>2, Places DEF ll
    <3>1. x \in Nat /\ 1 <= x /\ x <= off[i] /\ Len(flat) \in Nat
      BY <1>10, <2>1, <3>0, Zenon
    <3>2. x <= Len(flat)
      BY <1>11, <2>1, <3>1
    <3>3. at[i] + m = x + 1 /\ d[i] + m \in 1..(d[i] + Len(tok[i]))
      BY <2>1, <3>0, Zenon
    <3>. QED BY <3>1, <3>2, <3>3
  <2>4. flat[x] = ss[i][d[i] + m]
    BY <1>5, <1>11, <2>3
  <2>5. ss[i][d[i] + m] = tok[i][m]
    BY <1>5, <1>14
  <2>6. arr[x + 1] = flat[x]
    BY <1>10, <2>3
  <2>. QED BY <2>3, <2>4, <2>5, <2>6
<1>15. ASSUME NEW i \in 1..n, i < n
       PROVE  at[i + 1] = off[i] + 2 /\ arr[at[i + 1]] = Comma
  <2>1. i + 1 \in 1..n /\ (i + 1) - 1 = i /\ i + 1 # 1
    BY <1>1, <1>15
  <2>2. at[i + 1] = off[i] + 2
    <3>1. at[i + 1] = off[(i + 1) - 1] + d[i + 1] + 1 /\ d[i + 1] = 1
      BY <1>3, <1>12, <2>1
    <3>2. off[i] \in Nat
      BY <1>11
    <3>. QED BY <2>1, <3>1, <3>2
  <2>3. /\ Len(ss[i + 1]) = 1 + Len(tok[i + 1]) /\ Len(tok[i + 1]) \in Nat
        /\ ss[i + 1][1] = Comma
    BY <1>3, <1>5, <2>1
  <2>4. flat[off[i] + 1] = ss[i + 1][1]
    <3>1. \A m \in 1..Len(ss[i + 1]) : flat[off[(i + 1) - 1] + m] = ss[i + 1][m]
      BY <1>11, <2>1
    <3>2. 1 \in 1..Len(ss[i + 1])
      BY <2>3
    <3>. QED BY <2>1, <3>1, <3>2
  <2>5. off[i] + 1 \in 1..Len(flat) /\ (off[i] + 1) + 1 = off[i] + 2
    <3>1. off[i] \in Nat /\ off[i + 1] = off[i] + Len(ss[i + 1]) /\ off[i + 1] <= Len(flat)
      BY <1>10, <1>11, <2>1, <1>5
    <3>. QED BY <1>10, <2>3, <3>1, SMTT(30)
  <2>6. arr[(off[i] + 1) + 1] = flat[off[i] + 1]
    BY <1>10, <2>5
  <2>. QED BY <2>2, <2>3, <2>4, <2>5, <2>6
<1>16. ASSUME NEW x \in 1..Len(arr), arr[x] \notin {Open, Comma, Close}
       PROVE  \E i \in 1..n : \E m \in 1..Len(tok[i]) : x = at[i] + m
  <2>1. x - 1 \in 1..Len(flat) /\ (x - 1) + 1 = x
    BY <1>10, <1>16
  <2>2. PICK i \in 1..n : \E m \in 1..Len(ss[i]) : x - 1 = off[i - 1] + m
    BY <1>6, <1>8, <2>1 DEF Offsets
  <2>3. PICK m : m \in 1..Len(ss[i]) /\ x - 1 = off[i - 1] + m
    BY <2>2
  <2>4. arr[x] = ss[i][m]
    <3>1. flat[x - 1] = ss[i][m]
      BY <1>11, <2>3
    <3>. QED BY <1>10, <2>1, <3>1
  <2>5. /\ d[i] \in {0, 1} /\ Len(tok[i]) \in Nat /\ off[i - 1] \in Nat
        /\ at[i] = off[i - 1] + d[i] + 1 /\ Len(ss[i]) = d[i] + Len(tok[i])
    BY <1>3, <1>5, <1>11, <1>12
  <2>6. m # 1 \/ d[i] = 0
    BY <1>3, <1>5, <1>16, <2>4
  <2>7. m - d[i] \in 1..Len(tok[i]) /\ x = at[i] + (m - d[i])
    <3>1. m \in Nat /\ 1 <= m /\ m <= d[i] + Len(tok[i]) /\ x \in Int
      BY <2>3, <2>5
    <3>. DEFINE dd == d[i] ll == Len(tok[i]) oo == off[i - 1]
    <3>2. m - dd \in 1..ll /\ (oo + m) + 1 = (oo + dd + 1) + (m - dd)
      <4>1. dd \in Nat /\ dd <= 1 /\ ll \in Nat /\ oo \in Nat /\ (m # 1 \/ dd = 0)
            /\ m <= dd + ll
        BY <2>5, <2>6, <3>1
      <4>. HIDE DEF dd, ll, oo
      <4>. QED BY <3>1, <4>1, Places
    <3>3. x = (oo + m) + 1
      BY <2>1, <2>3
    <3>. QED BY <2>5, <3>2, <3>3, Zenon
  <2>. QED BY <2>7
<1>17. IsArray(arr, tok, n, at)
  <2>1. ASSUME NEW i \in 1..n
        PROVE  /\ at[i] + Len(tok[i]) < Len(arr)
               /\ i = n => at[i] + Len(tok[i]) + 1 = Len(arr)
               /\ i < n => at[i + 1] = at[i] + Len(tok[i]) + 1 /\ arr[at[i + 1]] = Comma
    <3>1. /\ at[i] + Len(tok[i]) = off[i] + 1 /\ off[i] \in Nat /\ off[n] \in Nat
          /\ off[i] <= off[n] /\ Len(arr) = off[n] + 2
          /\ at[i] \in Nat /\ Len(tok[i]) \in Nat
      BY <1>10, <1>11, <1>12, <1>13
    <3>2. at[i] + Len(tok[i]) < Len(arr)
      BY <3>1
    <3>3. at[i] + Len(tok[i]) + 1 = off[i] + 2
      BY <3>1
    <3>. QED BY <1>15, <3>1, <3>2, <3>3
  <2>. QED BY <1>12, <1>14, <1>16, <2>1 DEF IsArray
<1>. QED BY <1>10, <1>17 DEF arr, tok, n

\* The token of a tag is found in the array of any tags of which one is the same text,
\* unless these have capital letters outside ASCII.
LEMMA TagFound ==
  ASSUME NEW tags \in Seq(Seq(Char \ ForeignCapitals)), NEW q \in Seq(Char),
         NEW i \in 1..Len(tags), SameText(tags[i], q)
  PROVE  ColumnHas(JsonArray(tags), Json(q))
<1>. DEFINE C == Char \ ForeignCapitals
            n == Len(tags)
            tok == [j \in 1..n |-> Json(tags[j])]
            arr == JsonArray(tags)
            u == Json(q)
            v == Json(tags[i])
<1>1. /\ {Quote, Backslash, Comma, Open, Close} \subseteq C
      /\ {Quote, Backslash} \subseteq Char /\ tags[i] \in Seq(C)
  BY Marks
<1>2. tags[i] \in Seq(Char)
  BY <1>1
<1>3. tok[i] = v
  OBVIOUS
<1>. HIDE DEF C
<1>4. arr \in Seq(C) /\ \E at : IsArray(arr, tok, n, at)
  <2>1. tags \in Seq(Seq(C))
    BY DEF C
  <2>. QED BY <1>1, <2>1, JsonArrayTokens
<1>5. PICK at : IsArray(arr, tok, n, at)
  BY <1>4
<1>6. u \in Seq(Char) /\ \E off : IsToken(u, q, off)
  BY <1>1, JsonToken
<1>7. v \in Seq(Char) /\ \E off : IsToken(v, tags[i], off)
  BY <1>1, <1>2, JsonToken
<1>. HIDE DEF arr, u, v, tok, n
<1>8. SameText(v, u)
  <2>1. PICK offq : IsToken(u, q, offq)
    BY <1>6
  <2>2. PICK offt : IsToken(v, tags[i], offt)
    BY <1>7
  <2>. QED BY <1>2, <1>6, <1>7, <2>1, <2>2, TokenSame
<1>9. Len(v) = Len(u) /\ \A m \in 1..Len(v) : ToLower[v[m]] = ToLower[u[m]]
  BY <1>6, <1>7, <1>8, SameTextMeans
<1>10. /\ at[i] \in Nat /\ at[i] + Len(v) < Len(arr)
       /\ \A m \in 1..Len(v) : arr[at[i] + m] = v[m]
  <2>1. i \in 1..n
    BY DEF n
  <2>. QED BY <1>3, <1>5, <2>1 DEF IsArray
<1>11. arr \in Seq(Char) /\ \A j \in 1..Len(arr) : arr[j] \notin ForeignCapitals
  BY <1>4 DEF C
<1>12. Says(arr, u)
  <2>1. at[i] \in 0..(Len(arr) - Len(u))
    <3>1. Len(arr) \in Nat /\ Len(u) \in Nat
      BY <1>6, <1>11
    <3>. QED BY <1>9, <1>10, <3>1
  <2>2. \A m \in 1..Len(u) : ToLower[arr[at[i] + m]] = ToLower[u[m]]
    BY <1>9, <1>10
  <2>. QED BY <1>6, <1>11, <2>1, <2>2, SaysMeans
<1>13. ColumnHas(arr, u)
  BY <1>6, <1>11, <1>12, ColumnHasFinds
<1>. QED BY <1>13 DEF arr, u

\* In the array of tags without quotes, the token of a tag is found only where one of them
\* is the same text: what stands between the quotes of two tags is a comma.
LEMMA TagOnly ==
  ASSUME NEW tags \in Seq(Seq(Char)), NEW q \in Seq(Char),
         \A j \in 1..Len(tags) : \A m \in 1..Len(tags[j]) : tags[j][m] # Quote,
         \A m \in 1..Len(q) : q[m] \notin {Percent, Underscore},
         q # <<>>, q # <<Comma>>,
         ColumnHas(JsonArray(tags), Json(q))
  PROVE  \E i \in 1..Len(tags) : SameText(tags[i], q)
<1>. DEFINE n == Len(tags)
            tok == [j \in 1..n |-> Json(tags[j])]
            arr == JsonArray(tags)
            u == Json(q)
<1>1. /\ {Quote, Backslash, Comma, Open, Close} \subseteq Char
      /\ {Quote, Backslash, Comma} \subseteq Punctuation
      /\ Quote \notin {Open, Comma, Close, Backslash, Percent, Underscore}
      /\ Backslash \notin {Percent, Underscore, Comma}
  BY Marks
<1>2. arr \in Seq(Char) /\ \E at : IsArray(arr, tok, n, at)
  BY <1>1, JsonArrayTokens
<1>3. PICK at : IsArray(arr, tok, n, at)
  BY <1>2
<1>4. u \in Seq(Char) /\ \E off : IsToken(u, q, off)
  BY <1>1, JsonToken
<1>5. PICK offq : IsToken(u, q, offq)
  BY <1>4
<1>6. ASSUME NEW i \in 1..n
      PROVE  /\ tags[i] \in Seq(Char) /\ tok[i] \in Seq(Char) /\ Len(tok[i]) \in Nat
             /\ \E off : IsToken(tok[i], tags[i], off)
  <2>1. tags[i] \in Seq(Char) /\ tok[i] = Json(tags[i])
    OBVIOUS
  <2>2. Json(tags[i]) \in Seq(Char) /\ \E off : IsToken(Json(tags[i]), tags[i], off)
    BY <1>1, <2>1, JsonToken
  <2>. QED BY <2>1, <2>2
<1>. HIDE DEF arr, u, tok
<1>7. \A x \in 1..Len(u) : u[x] \notin {Percent, Underscore}
  <2>. SUFFICES ASSUME NEW x \in 1..Len(u), u[x] \in {Percent, Underscore} PROVE FALSE
    OBVIOUS
  <2>1. x # 1 /\ x # Len(u)
    BY <1>1, <1>5 DEF IsToken
  <2>2. PICK i \in 1..Len(q) : Within(x, q, offq, i) /\ Spells(u, q, offq, i)
    BY <1>5, <2>1 DEF IsToken
  <2>3. u[x] \in {Backslash, q[i]}
    BY <2>2 DEF Within, Spells
  <2>. QED BY <1>1, <2>3
<1>8. Says(arr, u)
  BY <1>2, <1>4, <1>7, ColumnHasOnly DEF arr, u
<1>9. PICK k \in 0..(Len(arr) - Len(u)) :
        \A m \in 1..Len(u) : ToLower[arr[k + m]] = ToLower[u[m]]
  BY <1>2, <1>4, <1>8, SaysMeans
<1>10. k \in Nat /\ Len(u) \in Nat /\ Len(arr) \in Nat /\ k + Len(u) <= Len(arr)
  BY <1>2, <1>4, <1>9
<1>11. ASSUME NEW m, m \in 1..Len(u), NEW c \in Punctuation
       PROVE  arr[k + m] = c <=> u[m] = c
  <2>1. k + m \in 1..Len(arr)
    BY <1>10, <1>11
  <2>2. arr[k + m] \in Char /\ u[m] \in Char
    BY <1>2, <1>4, <1>11, <2>1
  <2>3. ToLower[arr[k + m]] = ToLower[u[m]]
    BY <1>9, <1>11
  <2>. QED BY <2>2, <2>3, Marks
<1>12. offq[0] = 0 /\ u[1] = Quote /\ 0 \in 0..(Len(q) - 1)
  BY <1>5 DEF IsToken
<1>13. 2 < Len(u) /\ (q[1] \in Escaped => u[2] = Backslash)
       /\ (q[1] \notin Escaped => offq[1] = 1 /\ u[2] = q[1])
  BY <1>5, <1>12, TokenNext
<1>14. Len(q) \in Nat /\ {1, 2, 3} \subseteq 1..Len(u)
  BY <1>10, <1>13
<1>15. arr[k + 1] = Quote
  <2>1. 1 \in 1..Len(u) /\ Quote \in Punctuation
    BY <1>1, <1>14
  <2>2. arr[k + 1] = Quote <=> u[1] = Quote
    BY <1>11, <2>1
  <2>. QED BY <1>12, <2>2
<1>16. PICK i \in 1..n : \E m \in 1..Len(tok[i]) : k + 1 = at[i] + m
  <2>1. k + 1 \in 1..Len(arr)
    BY <1>10, <1>13
  <2>. QED BY <1>1, <1>3, <1>15, <2>1 DEF IsArray
<1>17. PICK m : m \in 1..Len(tok[i]) /\ k + 1 = at[i] + m
  BY <1>16
<1>18. tok[i][m] = Quote
  BY <1>3, <1>15, <1>16, <1>17 DEF IsArray
<1>19. PICK offt : IsToken(tok[i], tags[i], offt)
  BY <1>6
<1>20. m = 1 \/ m = Len(tok[i])
  <2>. SUFFICES ASSUME m # 1, m # Len(tok[i]) PROVE FALSE
    OBVIOUS
  <2>1. PICK j \in 1..Len(tags[i]) : Within(m, tags[i], offt, j) /\ Spells(tok[i], tags[i], offt, j)
    BY <1>17, <1>19 DEF IsToken
  <2>2. tok[i][m] \in {Backslash, tags[i][j]}
    BY <2>1 DEF Within, Spells
  <2>. QED BY <1>1, <1>18, <2>2
<1>21. at[i] \in Nat /\ Len(tok[i]) \in Nat
  BY <1>3, <1>6 DEF IsArray
<1>22. CASE m = 1
  <2>1. k = at[i]
    BY <1>10, <1>17, <1>21, <1>22, SMTT(30)
  <2>2. ASSUME NEW x, x \in 1..Len(u), x <= Len(tok[i])
        PROVE  ToLower[u[x]] = ToLower[tok[i][x]]
    <3>1. x \in 1..Len(tok[i])
      BY <1>10, <1>21, <2>2
    <3>2. arr[k + x] = tok[i][x]
      BY <1>3, <2>1, <3>1 DEF IsArray
    <3>. QED BY <1>9, <2>2, <3>2
  <2>3. SameText(tags[i], q)
    BY <1>5, <1>6, <1>19, <2>2, TokenPrefix
  <2>. QED BY <2>3
<1>23. CASE m = Len(tok[i])
  <2>1. i < n /\ at[i + 1] = k + 2 /\ arr[k + 2] = Comma
    <3>1. k + 2 = at[i] + Len(tok[i]) + 1 /\ k + 3 <= Len(arr)
      BY <1>10, <1>13, <1>17, <1>21, <1>23, SMTT(30)
    <3>2. /\ i = n => at[i] + Len(tok[i]) + 1 = Len(arr)
          /\ i < n => at[i + 1] = at[i] + Len(tok[i]) + 1 /\ arr[at[i + 1]] = Comma
      BY <1>3 DEF IsArray
    <3>3. i # n
      BY <1>10, <3>1, <3>2
    <3>. QED BY <3>1, <3>2, <3>3
  <2>2. q[1] = Comma /\ offq[1] = 1
    <3>1. u[2] = Comma
      <4>1. 2 \in 1..Len(u) /\ Comma \in Punctuation
        BY <1>1, <1>14
      <4>2. arr[k + 2] = Comma <=> u[2] = Comma
        BY <1>11, <4>1
      <4>. QED BY <2>1, <4>2
    <3>. QED BY <1>1, <1>13, <3>1
  <2>3. arr[k + 3] = Quote
    <3>1. i + 1 \in 1..n
      BY <2>1
    <3>2. PICK off : IsToken(tok[i + 1], tags[i + 1], off)
      BY <1>6, <3>1
    <3>3. 1 \in 1..Len(tok[i + 1]) /\ tok[i + 1][1] = Quote
      <4>1. tags[i + 1] \in Seq(Char)
        BY <1>6, <3>1
      <4>2. Len(tags[i + 1]) \in 0..Len(tags[i + 1])
        BY <4>1
      <4>3. off[Len(tags[i + 1])] \in Nat
        BY <3>2, <4>2 DEF IsToken
      <4>4. Len(tok[i + 1]) = off[Len(tags[i + 1])] + 2 /\ tok[i + 1][1] = Quote
        BY <3>2, Zenon DEF IsToken
      <4>. DEFINE l == Len(tok[i + 1]) o == off[Len(tags[i + 1])]
      <4>. HIDE DEF l, o
      <4>5. 1 \in 1..l
        <5>1. o \in Nat /\ l = o + 2
          BY <4>3, <4>4, Zenon DEF l, o
        <5>. QED BY <5>1
      <4>. QED BY <4>4, <4>5, Zenon DEF l
    <3>4. arr[at[i + 1] + 1] = tok[i + 1][1]
      BY <1>3, <3>1, <3>3 DEF IsArray
    <3>. QED BY <1>10, <2>1, <3>3, <3>4
  <2>4. u[3] = Quote
    <3>1. 3 \in 1..Len(u) /\ Quote \in Punctuation
      BY <1>1, <1>14
    <3>2. arr[k + 3] = Quote <=> u[3] = Quote
      BY <1>11, <3>1
    <3>. QED BY <2>3, <3>2
  <2>5. Len(q) = 1
    <3>. SUFFICES ASSUME Len(q) # 1 PROVE FALSE
      OBVIOUS
    <3>1. 1 \in 0..(Len(q) - 1)
      <4>. DEFINE l == Len(q)
      <4>1. l \in Nat /\ 0 \in 0..(l - 1) /\ l # 1
        BY <1>12, <1>14
      <4>. HIDE DEF l
      <4>2. 1 \in 0..(l - 1)
        BY <4>1
      <4>. QED BY <4>2 DEF l
    <3>2. u[offq[1] + 2] # Quote
      BY <1>5, <3>1, TokenNext
    <3>. QED BY <2>2, <2>4, <3>2
  <2>. QED BY <2>2, <2>5
<1>. QED BY <1>20, <1>22, <1>23

-----------------------------------------------------------------------------

\* The places i to j of the query hold no blank.
Solid(q, i, j) == i <= j /\ \A k \in i..j : q[k] # Blank

\* A term is a part of the query without a blank.
LEMMA TermIsSolid ==
  ASSUME NEW q \in Seq(Char), NEW t \in Terms(q)
  PROVE  \E i, j \in 1..Len(q) : Solid(q, i, j) /\ t = SubSeq(q, i, j)
BY Zenon DEF Terms, Solid

\* Every part of the query without a blank is a part of a term.
LEMMA TermsCover ==
  ASSUME NEW q \in Seq(Char), NEW i \in 1..Len(q), NEW j \in 1..Len(q), Solid(q, i, j)
  PROVE  \E a \in 1..i : \E b \in j..Len(q) : SubSeq(q, a, b) \in Terms(q)
<1>. DEFINE n == Len(q)
            T == {x \in 1..i : Solid(q, x, j)}
<1>1. n \in Nat /\ DOMAIN q = 1..n
  OBVIOUS
<1>. HIDE DEF n
<1>2. i \in 1..n /\ j \in 1..n /\ i <= j
  BY DEF n, Solid
<1>3. PICK a \in T : \A y \in T : a <= y
  <2>1. i \in T /\ T \subseteq Nat
    BY <1>1, <1>2
  <2>. QED BY <2>1, NatMin
<1>4. a \in 1..i /\ Solid(q, a, j)
  BY <1>3
<1>5. ASSUME a - 1 \in 1..n PROVE q[a - 1] = Blank
  <2>. SUFFICES ASSUME q[a - 1] # Blank PROVE FALSE
    OBVIOUS
  <2>1. Solid(q, a - 1, j)
    BY <1>1, <1>2, <1>4, <1>5 DEF Solid
  <2>2. a - 1 \in T
    BY <1>2, <1>4, <1>5, <2>1
  <2>. QED BY <1>2, <1>3, <1>4, <2>2
<1>. DEFINE U == {y \in j..n : Solid(q, a, y)}
<1>6. PICK b \in U : \A y \in U : y <= b
  <2>1. j \in U /\ U \subseteq Nat /\ \A y \in U : y <= n
    BY <1>1, <1>2, <1>4
  <2>. HIDE DEF U
  <2>. QED BY <1>1, <2>1, NatMax
<1>7. b \in j..n /\ Solid(q, a, b)
  BY <1>6
<1>8. ASSUME b + 1 \in 1..n PROVE q[b + 1] = Blank
  <2>. SUFFICES ASSUME q[b + 1] # Blank PROVE FALSE
    OBVIOUS
  <2>1. Solid(q, a, b + 1)
    BY <1>1, <1>2, <1>4, <1>7, <1>8 DEF Solid
  <2>2. b + 1 \in U
    BY <1>1, <1>2, <1>7, <1>8, <2>1
  <2>. QED BY <1>1, <1>2, <1>6, <1>7, <2>2
<1>9. SubSeq(q, a, b) \in Terms(q)
  <2>. DEFINE e == <<a, b>>
  <2>1. e \in (1..n) \X (1..n) /\ e[1] = a /\ e[2] = b
    BY <1>1, <1>2, <1>4, <1>7
  <2>2. \A x \in {e[1] - 1, e[2] + 1} : x \in DOMAIN q => q[x] = Blank
    BY <1>1, <1>5, <1>8, <2>1
  <2>. HIDE DEF e
  <2>3. e[1] <= e[2] /\ \A x \in e[1]..e[2] : q[x] # Blank
    BY <1>7, <2>1 DEF Solid
  <2>. QED BY <2>1, <2>2, <2>3, Zenon DEF Terms, n
<1>. QED BY <1>4, <1>7, <1>9 DEF n

\* A text that says a part of the query says every part of that.
LEMMA SaysPart ==
  ASSUME NEW t \in Seq(Char), NEW q \in Seq(Char),
         NEW b \in 1..Len(q), NEW a \in 1..b, NEW i \in a..b, NEW j \in i..b,
         Says(t, SubSeq(q, a, b))
  PROVE  Says(t, SubSeq(q, i, j))
<1>. DEFINE u == SubSeq(q, a, b)
            v == SubSeq(q, i, j)
            n == Len(t)
<1>1. /\ a \in Nat /\ b \in Nat /\ i \in Nat /\ j \in Nat /\ n \in Nat
      /\ 1 <= a /\ a <= i /\ i <= j /\ j <= b /\ b <= Len(q) /\ Len(q) \in Nat
  OBVIOUS
<1>2. /\ u \in Seq(Char) /\ Len(u) = b - a + 1
      /\ \A m \in 1..(b - a + 1) : u[m] = q[a + m - 1]
  BY <1>1
<1>3. /\ v \in Seq(Char) /\ Len(v) = j - i + 1
      /\ \A m \in 1..(j - i + 1) : v[m] = q[i + m - 1]
  BY <1>1
<1>. HIDE DEF u, v, n
<1>4. PICK k \in 0..(n - Len(u)) : \A m \in 1..Len(u) : ToLower[t[k + m]] = ToLower[u[m]]
  BY <1>2, SaysMeans DEF u, n
<1>5. k \in Nat /\ k + (b - a + 1) <= n
  BY <1>1, <1>2, <1>4
<1>. DEFINE l == k + (i - a)
<1>6. l \in 0..(n - Len(v))
  BY <1>1, <1>3, <1>5
<1>7. ASSUME NEW m, m \in 1..Len(v) PROVE ToLower[t[l + m]] = ToLower[v[m]]
  <2>. DEFINE x == (i - a) + m
  <2>1. m \in Nat /\ 1 <= m /\ m <= j - i + 1
    BY <1>1, <1>3, <1>7
  <2>2. x \in 1..(b - a + 1) /\ l + m = k + x /\ a + x - 1 = i + m - 1
    BY <1>1, <1>5, <2>1
  <2>. HIDE DEF x, l
  <2>3. ToLower[t[k + x]] = ToLower[u[x]] /\ u[x] = q[a + x - 1]
    BY <1>2, <1>4, <2>2
  <2>4. v[m] = q[i + m - 1]
    BY <1>3, <1>7
  <2>. QED BY <2>2, <2>3, <2>4
<1>. HIDE DEF l
<1>8. Says(t, v)
  <2>1. \E o \in 0..(Len(t) - Len(v)) : \A m \in 1..Len(v) : ToLower[t[o + m]] = ToLower[v[m]]
    BY <1>6, <1>7, Zenon DEF n
  <2>. QED BY <1>3, <2>1, SaysMeans
<1>. QED BY <1>8 DEF v

\* The characters of normalized tags are characters of the tags.
LEMMA KeptCharacters ==
  ASSUME NEW tags \in Seq(Seq(Char)), NEW i \in 1..Len(NormalizeTags(tags)),
         NEW m \in 1..Len(NormalizeTags(tags)[i])
  PROVE  \E x \in 1..Len(tags) : \E y \in 1..Len(tags[x]) : NormalizeTags(tags)[i][m] = tags[x][y]
<1>1. PICK x \in 1..Len(tags) : NormalizeTags(tags)[i] = Trim(tags[x])
  BY NormalizeTagsText
<1>2. tags[x] \in Seq(Char)
  OBVIOUS
<1>3. \E y \in 1..Len(tags[x]) : Trim(tags[x])[m] = tags[x][y]
  BY <1>1, <1>2, TrimText
<1>. QED BY <1>1, <1>3

-----------------------------------------------------------------------------

\* What the memory's row holds is what was given, and the answer is what the row and the
\* question make it.
MatchInv ==
  /\ given \in Given \cup {Nothing} /\ asked \in Asked \cup {Nothing}
  /\ given # Nothing =>
       row = [content |-> given.content, tags |-> JsonArray(NormalizeTags(given.tags))]
  /\ asked # Nothing => given # Nothing /\ found = Matches(row, asked)

\* Once a search was answered, all texts are sequences of characters.
LEMMA MatchTypes ==
  ASSUME MatchInv, asked # Nothing
  PROVE  /\ given.content \in Seq(Char) /\ given.tags \in Seq(Seq(Char))
         /\ asked.query \in Seq(Char) /\ asked.tags \in Seq(Seq(Char))
         /\ row.content = given.content /\ row.tags = JsonArray(NormalizeTags(given.tags))
BY TextAssumption DEF MatchInv

\* MatchInv is an inductive invariant.
LEMMA MatchStep ==
  /\ Init => MatchInv
  /\ MatchInv /\ [Next]_vars => MatchInv'
<1>1. Init => MatchInv
  BY DEF Init, MatchInv
<1>2. ASSUME MatchInv, [Next]_vars PROVE MatchInv'
  <2>1. CASE \E g \in Given : Store(g)
    BY <1>2, <2>1, TextAssumption DEF MatchInv, Store
  <2>2. CASE \E a \in Asked : Search(a)
    BY <1>2, <2>2, Zenon DEF MatchInv, Search
  <2>3. CASE Forget
    BY <1>2, <2>3 DEF MatchInv, Forget
  <2>4. CASE UNCHANGED vars
    BY <1>2, <2>4, Zenon DEF MatchInv, vars
  <2>. QED BY <1>2, <2>1, <2>2, <2>3, <2>4 DEF Next
<1>. QED BY <1>1, <1>2

LEMMA SeqOver ==
  ASSUME NEW S, NEW C, NEW s \in Seq(S), \A i \in 1..Len(s) : s[i] \in C
  PROVE  s \in Seq(C)
<1>1. s \in [1..Len(s) -> C] /\ Len(s) \in Nat
  BY LenProperties
<1>. QED BY <1>1, SeqDef, ZenonT(30)

\* The tags of a memory without foreign capitals are kept without them.
LEMMA KeptAreNative ==
  ASSUME NEW tags \in Seq(Seq(Char)), ~Uses(Range(tags), ForeignCapitals)
  PROVE  NormalizeTags(tags) \in Seq(Seq(Char \ ForeignCapitals))
<1>. DEFINE kept == NormalizeTags(tags)
            C == Char \ ForeignCapitals
<1>1. kept \in Seq(Seq(Char))
  BY NormalizeTagsText
<1>2. ASSUME NEW i \in 1..Len(kept), NEW m \in 1..Len(kept[i]) PROVE kept[i][m] \in C
  <2>1. PICK x \in 1..Len(tags) : \E y \in 1..Len(tags[x]) : kept[i][m] = tags[x][y]
    BY KeptCharacters
  <2>2. PICK y \in 1..Len(tags[x]) : kept[i][m] = tags[x][y]
    BY <2>1
  <2>3. tags[x] \in Range(tags) /\ tags[x] \in Seq(Char) /\ y \in DOMAIN tags[x]
    BY DEF Range
  <2>4. tags[x][y] \in Char /\ tags[x][y] \notin ForeignCapitals
    BY <2>3 DEF Uses
  <2>. QED BY <2>2, <2>4
<1>. HIDE DEF kept, C
<1>3. ASSUME NEW i \in 1..Len(kept) PROVE kept[i] \in Seq(C)
  <2>1. kept[i] \in Seq(Char)
    BY <1>1
  <2>. QED BY <1>2, <2>1, SeqOver
<1>4. kept \in Seq(Seq(C))
  BY <1>1, <1>3, SeqOver
<1>. QED BY <1>4 DEF kept, C

\* A content that says every part of the query without a blank has its terms.
LEMMA TermsFound ==
  ASSUME MatchInv, asked # Nothing, Deserved, ~Uses(GivenTexts, ForeignCapitals)
  PROVE  \A t \in Terms(asked.query) : ColumnHas(row.content, t)
<1>. SUFFICES ASSUME NEW t \in Terms(asked.query) PROVE ColumnHas(row.content, t)
  OBVIOUS
<1>. DEFINE q == asked.query
            c == given.content
<1>1. c \in Seq(Char) /\ q \in Seq(Char) /\ row.content = c
  BY MatchTypes
<1>2. PICK i \in 1..Len(q), j \in 1..Len(q) : Solid(q, i, j) /\ t = SubSeq(q, i, j)
  BY <1>1, TermIsSolid
<1>3. t \in Seq(Char)
  BY <1>1, <1>2
<1>4. Says(c, t)
  <2>1. i \in DOMAIN q /\ j \in DOMAIN q
    BY <1>1
  <2>. QED BY <1>2, <2>1, Zenon DEF Deserved, Solid
<1>5. \A m \in 1..Len(c) : c[m] \notin ForeignCapitals
  <2>1. c \in GivenTexts /\ DOMAIN c = 1..Len(c)
    BY <1>1 DEF GivenTexts
  <2>. QED BY <2>1, Zenon DEF Uses
<1>. HIDE DEF c, q
<1>. QED BY <1>1, <1>3, <1>4, <1>5, ColumnHasFinds

\* A memory that carries every tag of the filter is found by their tokens.
LEMMA TagsFound ==
  ASSUME MatchInv, asked # Nothing, Deserved, ~Uses(GivenTexts, ForeignCapitals)
  PROVE  \A i \in DOMAIN NormalizeTags(asked.tags) :
           ColumnHas(row.tags, Json(NormalizeTags(asked.tags)[i]))
<1>. DEFINE want == NormalizeTags(asked.tags)
            kept == NormalizeTags(given.tags)
<1>1. /\ given.tags \in Seq(Seq(Char)) /\ asked.tags \in Seq(Seq(Char))
      /\ row.tags = JsonArray(kept)
  BY MatchTypes
<1>2. ~Uses(Range(given.tags), ForeignCapitals)
  BY DEF Uses, GivenTexts
<1>3. kept \in Seq(Seq(Char \ ForeignCapitals)) /\ kept \in Seq(Seq(Char))
  BY <1>1, <1>2, KeptAreNative, NormalizeTagsText
<1>4. want \in Seq(Seq(Char)) /\ DOMAIN want = 1..Len(want)
  BY <1>1, NormalizeTagsText
<1>5. ASSUME NEW i \in 1..Len(want) PROVE ColumnHas(row.tags, Json(want[i]))
  <2>1. PICK x \in 1..Len(asked.tags) : want[i] # <<>> /\ want[i] = Trim(asked.tags[x])
    BY <1>1, NormalizeTagsText
  <2>2. PICK y \in DOMAIN given.tags : SameText(Trim(given.tags[y]), want[i])
    <3>1. x \in DOMAIN asked.tags
      BY <1>1
    <3>. QED BY <2>1, <3>1, Zenon DEF Deserved
  <2>3. y \in 1..Len(given.tags) /\ given.tags[y] \in Seq(Char) /\ want[i] \in Seq(Char)
    BY <1>1, <1>4, SMTT(30)
  <2>4. Trim(given.tags[y]) \in Seq(Char)
    BY <2>3, TrimText
  <2>5. Trim(given.tags[y]) # <<>>
    BY <2>1, <2>2, <2>3, <2>4, SameTextMeans
  <2>6. PICK z \in 1..Len(kept) : SameText(kept[z], Trim(given.tags[y]))
    BY <1>1, <2>3, <2>5, NormalizeTagsText
  <2>7. SameText(kept[z], want[i])
    BY <2>2, <2>6 DEF SameText
  <2>. HIDE DEF kept, want
  <2>8. ColumnHas(JsonArray(kept), Json(want[i]))
    BY <1>3, <2>3, <2>7, TagFound
  <2>. QED BY <1>1, <2>8
<1>. QED BY <1>4, <1>5

\* A search misses no memory that says every term and carries every tag, if SQLite knows
\* the case of its letters: for contents, queries and tags of any length.
THEOREM EveryMatchIsFound == Spec => []FindsEveryMatch
<1>1. MatchInv => FindsEveryMatch
  <2>. SUFFICES ASSUME MatchInv, asked # Nothing, Deserved, ~Uses(GivenTexts, ForeignCapitals)
                PROVE  found
    BY DEF FindsEveryMatch
  <2>1. Matches(row, asked)
    BY TermsFound, TagsFound DEF Matches
  <2>. QED BY <2>1 DEF MatchInv
<1>. QED BY <1>1, MatchStep, PTL DEF Spec

\* Normalized tags have no character that the tags do not have.
LEMMA KeptWithout ==
  ASSUME NEW tags \in Seq(Seq(Char)), NEW chars, ~Uses(Range(tags), chars),
         NEW i \in 1..Len(NormalizeTags(tags)), NEW m \in 1..Len(NormalizeTags(tags)[i])
  PROVE  NormalizeTags(tags)[i][m] \notin chars
<1>1. PICK x \in 1..Len(tags) : \E y \in 1..Len(tags[x]) : NormalizeTags(tags)[i][m] = tags[x][y]
  BY KeptCharacters
<1>2. PICK y \in 1..Len(tags[x]) : NormalizeTags(tags)[i][m] = tags[x][y]
  BY <1>1
<1>3. tags[x] \in Range(tags) /\ y \in DOMAIN tags[x]
  BY DEF Range
<1>. QED BY <1>2, <1>3, Zenon DEF Uses

\* An answer says every part of the query without a blank.
LEMMA OnlyTerms ==
  ASSUME MatchInv, asked # Nothing, found, ~Uses(AskedTexts, {Percent, Underscore})
  PROVE  \A i, j \in DOMAIN asked.query :
           Solid(asked.query, i, j) => Says(given.content, SubSeq(asked.query, i, j))
<1>. DEFINE q == asked.query
            c == given.content
<1>1. c \in Seq(Char) /\ q \in Seq(Char) /\ row.content = c
  BY MatchTypes
<1>2. Matches(row, asked) /\ \A m \in DOMAIN q : q[m] \notin {Percent, Underscore}
  <2>1. q \in AskedTexts
    BY DEF AskedTexts
  <2>. QED BY <2>1, Zenon DEF MatchInv, Uses
<1>3. \A t \in Terms(q) : ColumnHas(c, t)
  BY <1>1, <1>2, Zenon DEF Matches
<1>. HIDE DEF q, c
<1>4. ASSUME NEW i \in DOMAIN q, NEW j \in DOMAIN q, Solid(q, i, j)
      PROVE  Says(c, SubSeq(q, i, j))
  <2>1. i \in 1..Len(q) /\ j \in 1..Len(q) /\ i <= j
    BY <1>1, <1>4 DEF Solid
  <2>2. PICK a \in 1..i : \E b \in j..Len(q) : SubSeq(q, a, b) \in Terms(q)
    BY <1>1, <1>4, <2>1, TermsCover
  <2>3. PICK b \in j..Len(q) : SubSeq(q, a, b) \in Terms(q)
    BY <2>2
  <2>4. /\ b \in 1..Len(q) /\ a \in 1..b /\ i \in a..b /\ j \in i..b
    BY <2>1
  <2>5. SubSeq(q, a, b) \in Seq(Char)
    BY <1>1, <2>4
  <2>6. \A m \in 1..Len(SubSeq(q, a, b)) : SubSeq(q, a, b)[m] \notin {Percent, Underscore}
    <3>. TAKE m \in 1..Len(SubSeq(q, a, b))
    <3>1. SubSeq(q, a, b)[m] = q[a + m - 1] /\ a + m - 1 \in DOMAIN q
      BY <1>1, <2>4
    <3>. QED BY <1>2, <3>1 DEF q
  <2>7. Says(c, SubSeq(q, a, b))
    BY <1>1, <1>3, <2>3, <2>5, <2>6, ColumnHasOnly
  <2>. QED BY <1>1, <2>4, <2>7, SaysPart
<1>. QED BY <1>4 DEF q, c

\* An answer carries every tag of the filter.
LEMMA OnlyTags ==
  ASSUME MatchInv, asked # Nothing, found, ~Uses(AskedTexts, {Percent, Underscore}),
         <<Comma>> \notin {Trim(t) : t \in Range(asked.tags)}, ~Uses(Range(given.tags), {Quote}),
         NEW i \in DOMAIN asked.tags, Trim(asked.tags[i]) # <<>>
  PROVE  \E j \in DOMAIN given.tags : SameText(Trim(given.tags[j]), Trim(asked.tags[i]))
<1>. DEFINE want == NormalizeTags(asked.tags)
            kept == NormalizeTags(given.tags)
<1>1. /\ given.tags \in Seq(Seq(Char)) /\ asked.tags \in Seq(Seq(Char))
      /\ row.tags = JsonArray(kept)
  BY MatchTypes
<1>2. want \in Seq(Seq(Char)) /\ kept \in Seq(Seq(Char)) /\ DOMAIN want = 1..Len(want)
  BY <1>1, NormalizeTagsText
<1>3. PICK k \in 1..Len(want) : SameText(want[k], Trim(asked.tags[i]))
  <2>1. i \in 1..Len(asked.tags)
    BY <1>1
  <2>. QED BY <1>1, <2>1, NormalizeTagsText
<1>4. want[k] # <<>> /\ want[k] # <<Comma>>
  <2>1. PICK x \in 1..Len(asked.tags) : want[k] # <<>> /\ want[k] = Trim(asked.tags[x])
    BY <1>1, NormalizeTagsText
  <2>2. asked.tags[x] \in Range(asked.tags)
    BY <1>1 DEF Range
  <2>. QED BY <2>1, <2>2, Zenon
<1>5. \A m \in 1..Len(want[k]) : want[k][m] \notin {Percent, Underscore}
  <2>1. ~Uses(Range(asked.tags), {Percent, Underscore})
    BY Zenon DEF Uses, AskedTexts
  <2>. QED BY <1>1, <2>1, KeptWithout
<1>6. \A z \in 1..Len(kept) : \A m \in 1..Len(kept[z]) : kept[z][m] # Quote
  BY <1>1, KeptWithout
<1>7. ColumnHas(JsonArray(kept), Json(want[k]))
  BY <1>1, <1>2, <1>3, Zenon DEF MatchInv, Matches
<1>8. \A z \in 1..Len(kept) :
        \E x \in 1..Len(given.tags) : kept[z] = Trim(given.tags[x])
  BY <1>1, NormalizeTagsText
<1>. HIDE DEF kept, want
<1>9. PICK z \in 1..Len(kept) : SameText(kept[z], want[k])
  <2>1. want[k] \in Seq(Char)
    BY <1>2
  <2>. QED BY <1>2, <1>4, <1>5, <1>6, <1>7, <2>1, TagOnly
<1>10. PICK j \in 1..Len(given.tags) : kept[z] = Trim(given.tags[j])
  BY <1>8
<1>11. j \in DOMAIN given.tags
  BY <1>1
<1>. QED BY <1>3, <1>9, <1>10, <1>11, Zenon DEF SameText

\* A search answers no memory that does not say every term and carry every tag, unless a
\* wildcard or the tag "," is asked for or a tag of the memory has a quote: for contents,
\* queries and tags of any length.
THEOREM OnlyMatchesAreFound == Spec => []FindsOnlyMatches
<1>1. MatchInv => FindsOnlyMatches
  <2>. SUFFICES ASSUME MatchInv, asked # Nothing, found,
                       ~Uses(AskedTexts, {Percent, Underscore}),
                       <<Comma>> \notin {Trim(t) : t \in Range(asked.tags)},
                       ~Uses(Range(given.tags), {Quote})
                PROVE  Deserved
    BY DEF FindsOnlyMatches
  <2>1. \A i, j \in DOMAIN asked.query :
          i <= j /\ (\A k \in i..j : asked.query[k] # Blank)
            => Says(given.content, SubSeq(asked.query, i, j))
    BY OnlyTerms, Zenon DEF Solid
  <2>2. \A i \in DOMAIN asked.tags :
          LET tag == Trim(asked.tags[i]) IN
          tag # <<>> => \E j \in DOMAIN given.tags : SameText(Trim(given.tags[j]), tag)
    BY OnlyTags
  <2>. QED BY <2>1, <2>2, Zenon DEF Deserved
<1>. QED BY <1>1, MatchStep, PTL DEF Spec

=============================================================================
