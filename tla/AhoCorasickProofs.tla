------------------------- MODULE AhoCorasickProofs -------------------------
(***************************************************************************)
(* Proofs about AhoCorasick for any runes, dictionary and texts.           *)
(***************************************************************************)
EXTENDS AhoCorasick, FiniteSetTheorems, SequenceTheorems, TLAPS

-----------------------------------------------------------------------------
(***************************************************************************)
(* Suffixes.                                                               *)
(***************************************************************************)
\* A suffix, rune by rune
LEMMA SuffixByRune ==
  ASSUME NEW s \in Seq(Runes), NEW t \in Seq(Runes)
  PROVE  IsSuffix(s, t) <=> /\ Len(s) <= Len(t)
                            /\ \A k \in 1..Len(s) : s[k] = t[(Len(t) - Len(s)) + k]
<1> DEFINE m == Len(s)
           n == Len(t)
           rs == Reverse(s)
           rt == Reverse(t)
<1>1. m \in Nat /\ n \in Nat
  OBVIOUS
<1>2. /\ rs \in Seq(Runes) /\ Len(rs) = m /\ \A k \in 1..m : rs[k] = s[(m - k) + 1]
      /\ rt \in Seq(Runes) /\ Len(rt) = n /\ \A k \in 1..n : rt[k] = t[(n - k) + 1]
  <2>1. \A k \in 1..m : s[(m - k) + 1] \in Runes
    OBVIOUS
  <2>2. \A k \in 1..n : t[(n - k) + 1] \in Runes
    OBVIOUS
  <2> QED  BY <1>1, <2>1, <2>2 DEF Reverse
<1> HIDE DEF rs, rt
<1>3. SubSeq(rs, 1, m) = rs
  BY <1>2, SubSeqFull
<1>4. CASE m <= n
  <2> DEFINE p == SubSeq(rt, 1, m)
  <2>1. p \in Seq(Runes) /\ Len(p) = m /\ \A k \in 1..m : p[k] = rt[k]
    BY <1>1, <1>2, <1>4
  <2> HIDE DEF p
  <2>2. rs = p <=> \A k \in 1..m : rs[k] = p[k]
    BY <1>2, <2>1, SeqEqual
  <2>3. (\A k \in 1..m : rs[k] = p[k]) <=> (\A k \in 1..m : s[(m - k) + 1] = t[(n - k) + 1])
    <3>1. \A k \in 1..m : k \in 1..n
      BY <1>1, <1>4
    <3> QED  BY <1>2, <2>1, <3>1
  <2>4. (\A k \in 1..m : s[(m - k) + 1] = t[(n - k) + 1])
          <=> (\A k \in 1..m : s[k] = t[(n - m) + k])
    <3>1. ASSUME \A k \in 1..m : s[(m - k) + 1] = t[(n - k) + 1], NEW k \in 1..m
          PROVE  s[k] = t[(n - m) + k]
      <4> DEFINE j == (m - k) + 1
      <4>1. j \in 1..m /\ (m - j) + 1 = k /\ (n - j) + 1 = (n - m) + k
        BY <1>1
      <4> HIDE DEF j
      <4> QED  BY <3>1, <4>1
    <3>2. ASSUME \A k \in 1..m : s[k] = t[(n - m) + k], NEW k \in 1..m
          PROVE  s[(m - k) + 1] = t[(n - k) + 1]
      <4> DEFINE j == (m - k) + 1
      <4>1. j \in 1..m /\ (n - m) + j = (n - k) + 1
        BY <1>1
      <4> HIDE DEF j
      <4>2. s[j] = t[(n - m) + j]
        BY <3>2, <4>1
      <4> QED  BY <4>1, <4>2 DEF j
    <3> QED  BY <3>1, <3>2
  <2>5. IsSuffix(s, t) <=> rs = p
    BY <1>2, <1>3, <1>4 DEF IsSuffix, IsPrefix, rs, rt, p
  <2> QED  BY <1>4, <2>2, <2>3, <2>4, <2>5
<1>5. CASE ~(m <= n)
  <2>1. ~IsSuffix(s, t)
    BY <1>2, <1>5 DEF IsSuffix, IsPrefix, rs, rt
  <2> QED  BY <1>5, <2>1
<1> QED  BY <1>4, <1>5

\* The suffixes of a text are ordered by their length.
LEMMA SuffixOrder ==
  ASSUME NEW a \in Seq(Runes), NEW b \in Seq(Runes), NEW n \in Seq(Runes)
  PROVE  /\ IsSuffix(a, b) => Len(a) <= Len(b)
         /\ IsSuffix(a, a) /\ IsSuffix(<<>>, a)
         /\ IsSuffix(a, b) /\ IsSuffix(b, n) => IsSuffix(a, n)
         /\ IsSuffix(a, n) /\ IsSuffix(b, n) /\ Len(a) <= Len(b) => IsSuffix(a, b)
         /\ IsSuffix(a, b) /\ Len(a) = Len(b) => a = b
         /\ IsSuffix(a, b) /\ Len(b) <= Len(a) => a = b
<1>1. IsSuffix(a, b) => Len(a) <= Len(b)
  BY SuffixByRune
<1>2. IsSuffix(a, a)
  BY SuffixByRune
<1>3. IsSuffix(<<>>, a)
  <2>1. <<>> \in Seq(Runes) /\ Len(<<>>) = 0 /\ Len(a) \in Nat
    OBVIOUS
  <2>2. ASSUME NEW e \in Seq(Runes), Len(e) = 0 PROVE IsSuffix(e, a)
    <3>1. Len(e) <= Len(a) /\ \A k \in 1..Len(e) : e[k] = a[(Len(a) - Len(e)) + k]
      BY <2>1, <2>2
    <3> QED  BY <3>1, SuffixByRune, Zenon
  <2> QED  BY <2>1, <2>2
<1>4. ASSUME IsSuffix(a, b), IsSuffix(b, n) PROVE IsSuffix(a, n)
  <2>1. /\ Len(a) <= Len(b) /\ \A k \in 1..Len(a) : a[k] = b[(Len(b) - Len(a)) + k]
        /\ Len(b) <= Len(n) /\ \A k \in 1..Len(b) : b[k] = n[(Len(n) - Len(b)) + k]
    BY <1>4, SuffixByRune
  <2>2. Len(a) \in Nat /\ Len(b) \in Nat /\ Len(n) \in Nat
    OBVIOUS
  <2>3. ASSUME NEW k \in 1..Len(a) PROVE a[k] = n[(Len(n) - Len(a)) + k]
    <3> DEFINE j == (Len(b) - Len(a)) + k
    <3>1. j \in 1..Len(b) /\ (Len(n) - Len(b)) + j = (Len(n) - Len(a)) + k
      BY <2>1, <2>2
    <3>2. a[k] = b[j]
      BY <2>1
    <3> HIDE DEF j
    <3>3. b[j] = n[(Len(n) - Len(b)) + j]
      BY <2>1, <3>1
    <3> QED  BY <3>1, <3>2, <3>3
  <2>4. Len(a) <= Len(n)
    BY <2>1, <2>2
  <2> QED  BY <2>3, <2>4, SuffixByRune
<1>5. ASSUME IsSuffix(a, n), IsSuffix(b, n), Len(a) <= Len(b) PROVE IsSuffix(a, b)
  <2>1. /\ Len(a) <= Len(n) /\ \A k \in 1..Len(a) : a[k] = n[(Len(n) - Len(a)) + k]
        /\ Len(b) <= Len(n) /\ \A k \in 1..Len(b) : b[k] = n[(Len(n) - Len(b)) + k]
    BY <1>5, SuffixByRune
  <2>2. Len(a) \in Nat /\ Len(b) \in Nat /\ Len(n) \in Nat
    OBVIOUS
  <2>3. ASSUME NEW k \in 1..Len(a) PROVE a[k] = b[(Len(b) - Len(a)) + k]
    <3> DEFINE j == (Len(b) - Len(a)) + k
    <3>1. j \in 1..Len(b) /\ (Len(n) - Len(b)) + j = (Len(n) - Len(a)) + k
      BY <1>5, <2>1, <2>2
    <3> HIDE DEF j
    <3>2. b[j] = n[(Len(n) - Len(b)) + j]
      BY <2>1, <3>1
    <3>3. a[k] = b[j]
      BY <2>1, <3>1, <3>2
    <3> QED  BY <3>3 DEF j
  <2> QED  BY <1>5, <2>3, SuffixByRune
<1>6. ASSUME IsSuffix(a, b), Len(a) = Len(b) PROVE a = b
  <2>1. \A k \in 1..Len(a) : a[k] = b[(Len(b) - Len(a)) + k]
    BY <1>6, SuffixByRune
  <2>2. \A k \in 1..Len(a) : a[k] = b[k]
    BY <1>6, <2>1
  <2> QED  BY <1>6, <2>2, SeqEqual
<1>7. ASSUME IsSuffix(a, b), Len(b) <= Len(a) PROVE a = b
  <2>1. Len(a) = Len(b)
    <3>1. Len(a) \in Nat /\ Len(b) \in Nat
      OBVIOUS
    <3> QED  BY <1>1, <1>7, <3>1
  <2> QED  BY <1>6, <1>7, <2>1
<1> QED  BY <1>1, <1>2, <1>3, <1>4, <1>5, <1>6, <1>7

\* Suffixes and the last rune
LEMMA SuffixAppend ==
  ASSUME NEW s \in Seq(Runes), NEW t \in Seq(Runes), NEW q \in Runes, NEW r \in Runes
  PROVE  IsSuffix(Append(s, q), Append(t, r)) <=> IsSuffix(s, t) /\ q = r
<1> DEFINE S == Append(s, q)
           T == Append(t, r)
           m == Len(s)
           n == Len(t)
<1>1. /\ S \in Seq(Runes) /\ Len(S) = m + 1 /\ S[m + 1] = q /\ \A k \in 1..m : S[k] = s[k]
      /\ T \in Seq(Runes) /\ Len(T) = n + 1 /\ T[n + 1] = r /\ \A k \in 1..n : T[k] = t[k]
      /\ m \in Nat /\ n \in Nat
  OBVIOUS
<1> HIDE DEF S, T
<1>2. IsSuffix(S, T) <=> m + 1 <= n + 1 /\ \A k \in 1..(m + 1) : S[k] = T[((n + 1) - (m + 1)) + k]
  <2>1. S \in Seq(Runes) /\ T \in Seq(Runes)
    BY <1>1
  <2>2. IsSuffix(S, T) <=> /\ Len(S) <= Len(T)
                           /\ \A k \in 1..Len(S) : S[k] = T[(Len(T) - Len(S)) + k]
    BY <2>1, SuffixByRune
  <2> QED  BY <1>1, <2>2
<1>3. IsSuffix(s, t) <=> m <= n /\ \A k \in 1..m : s[k] = t[(n - m) + k]
  BY SuffixByRune
<1>4. ASSUME m <= n, NEW k \in 1..m
      PROVE  /\ k \in 1..(m + 1) /\ (n - m) + k \in 1..n
             /\ ((n + 1) - (m + 1)) + k = (n - m) + k
  BY <1>1, <1>4
<1>5. m + 1 \in 1..(m + 1) /\ ((n + 1) - (m + 1)) + (m + 1) = n + 1
  BY <1>1
<1>6. ASSUME IsSuffix(S, T) PROVE IsSuffix(s, t) /\ q = r
  <2>1. m <= n
    BY <1>1, <1>2, <1>6
  <2>2. q = r
    BY <1>1, <1>2, <1>5, <1>6
  <2>3. ASSUME NEW k \in 1..m PROVE s[k] = t[(n - m) + k]
    <3>1. S[k] = T[((n + 1) - (m + 1)) + k]
      BY <1>2, <1>4, <1>6, <2>1
    <3> QED  BY <1>1, <1>4, <2>1, <3>1
  <2> QED  BY <1>3, <2>1, <2>2, <2>3
<1>7. ASSUME IsSuffix(s, t), q = r PROVE IsSuffix(S, T)
  <2>1. m <= n /\ m + 1 <= n + 1
    BY <1>1, <1>3, <1>7
  <2>2. ASSUME NEW k \in 1..(m + 1) PROVE S[k] = T[((n + 1) - (m + 1)) + k]
    <3>1. CASE k = m + 1
      BY <1>1, <1>5, <1>7, <3>1
    <3>2. CASE k # m + 1
      <4>1. k \in 1..m
        BY <1>1, <3>2
      <4>2. s[k] = t[(n - m) + k]
        BY <1>3, <1>7, <4>1
      <4> QED  BY <1>1, <1>4, <2>1, <4>1, <4>2
    <3> QED  BY <3>1, <3>2
  <2> QED  BY <1>2, <2>1, <2>2
<1> QED  BY <1>6, <1>7 DEF S, T

\* A text that is not empty is its front and its last rune.
LEMMA FrontLast ==
  ASSUME NEW S, NEW s \in Seq(S)
  PROVE  /\ s # <<>> => /\ Front(s) \in Seq(S) /\ Last(s) \in S
                        /\ s = Append(Front(s), Last(s))
                        /\ Len(Front(s)) = Len(s) - 1 /\ Len(s) > 0
         /\ \A r \in S : Front(Append(s, r)) = s /\ Last(Append(s, r)) = r
<1>1. ASSUME s # <<>>
      PROVE  /\ Front(s) \in Seq(S) /\ Last(s) \in S
             /\ s = Append(Front(s), Last(s))
             /\ Len(Front(s)) = Len(s) - 1 /\ Len(s) > 0
  <2> DEFINE n == Len(s)
             f == Front(s)
  <2>1. n \in Nat /\ n > 0 /\ n \in 1..n
    BY <1>1
  <2>2. f \in Seq(S) /\ Len(f) = n - 1 /\ \A k \in 1..(n - 1) : f[k] = s[k]
    <3>1. \A k \in 1..(n - 1) : s[k] \in S
      BY <2>1
    <3>2. f = SubSeq(s, 1, n - 1)
      BY DEF Front
    <3> DEFINE j == n - 1
    <3>3. j \in Nat /\ j \in 0..n /\ j + 1 = n
      BY <2>1
    <3> HIDE DEF j, f
    <3>4. /\ SubSeq(s, 1, j) \in Seq(S) /\ Len(SubSeq(s, 1, j)) = j
          /\ \A k \in 1..j : SubSeq(s, 1, j)[k] = s[k]
      BY <3>3
    <3> QED  BY <3>2, <3>4 DEF j
  <2>3. Last(s) = s[n] /\ Last(s) \in S
    BY <2>1 DEF Last
  <2> HIDE DEF f
  <2> DEFINE a == Append(f, Last(s))
  <2>4. /\ a \in Seq(S) /\ Len(a) = n /\ \A k \in 1..(n - 1) : a[k] = f[k]
        /\ a[n] = Last(s)
    BY <2>1, <2>2, <2>3
  <2> HIDE DEF a
  <2>5. \A k \in 1..n : s[k] = a[k]
    BY <2>1, <2>2, <2>3, <2>4
  <2>6. s = a
    BY <2>4, <2>5, SeqEqual
  <2> QED  BY <2>1, <2>2, <2>3, <2>6 DEF a, f
<1>2. ASSUME NEW r \in S PROVE Front(Append(s, r)) = s /\ Last(Append(s, r)) = r
  <2> DEFINE a == Append(s, r)
             n == Len(s)
             f == SubSeq(a, 1, n)
  <2>1. a \in Seq(S) /\ Len(a) = n + 1 /\ a[n + 1] = r /\ n \in Nat
        /\ \A k \in 1..n : a[k] = s[k]
    OBVIOUS
  <2> HIDE DEF a
  <2>2. f \in Seq(S) /\ Len(f) = n /\ \A k \in 1..n : f[k] = a[k]
    BY <2>1
  <2>3. Front(a) = f /\ Last(a) = r
    <3>1. (n + 1) - 1 = n
      BY <2>1
    <3> QED  BY <2>1, <3>1 DEF Front, Last
  <2> HIDE DEF f
  <2>4. \A k \in 1..n : f[k] = s[k]
    BY <2>1, <2>2
  <2>5. f = s
    BY <2>2, <2>4, SeqEqual
  <2> QED  BY <2>3, <2>5 DEF a
<1> QED  BY <1>1, <1>2

-----------------------------------------------------------------------------
(***************************************************************************)
(* Walks along the fail pointers.                                          *)
(***************************************************************************)
\* Every set of numbers has a least one.
LEMMA LeastNumber ==
  ASSUME NEW B \in SUBSET Nat, B # {}
  PROVE  \E n \in B : \A k \in B : n <= k
<1> DEFINE T == {1..n : n \in B}
<1>1. IsWellFoundedOn(StrictSubsetOrdering(Nat), FiniteSubsetsOf(Nat))
  BY FS_StrictSubsetOrderingWellFounded
<1>2. T \subseteq FiniteSubsetsOf(Nat) /\ T # {}
  <2>1. ASSUME NEW n \in B PROVE IsFiniteSet(1..n) /\ 1..n \in SUBSET Nat
    BY FS_Interval
  <2> QED  BY <2>1 DEF FiniteSubsetsOf
<1>3. \E x \in T : \A y \in T : ~(<<y, x>> \in StrictSubsetOrdering(Nat))
  <2> HIDE DEF T
  <2> QED  BY <1>1, <1>2, WFMin
<1>4. PICK n \in B : \A k \in B : ~(<<1..k, 1..n>> \in StrictSubsetOrdering(Nat))
  BY <1>3
<1>5. ASSUME NEW k \in B, k < n PROVE FALSE
  <2>1. 1..k \subseteq 1..n /\ n \in 1..n /\ n \notin 1..k
    BY <1>5
  <2>2. <<1..k, 1..n>> \in (SUBSET Nat) \X (SUBSET Nat)
    OBVIOUS
  <2>3. 1..k # 1..n
    BY <2>1
  <2> DEFINE A == 1..k
             C == 1..n
  <2>4. <<A, C>> \in StrictSubsetOrdering(Nat)
    <3> HIDE DEF A, C
    <3>1. A \in SUBSET Nat /\ C \in SUBSET Nat /\ A \subseteq C /\ A # C
      BY <2>1, <2>2, <2>3 DEF A, C
    <3> QED  BY <3>1 DEF StrictSubsetOrdering
  <2> QED  BY <1>4, <2>4
<1> QED  BY <1>5

\* A set of numbers with a bound has a greatest one.
LEMMA GreatestNumber ==
  ASSUME NEW B \in SUBSET Nat, B # {}, NEW n \in Nat, \A k \in B : k <= n
  PROVE  \E m \in B : \A k \in B : k <= m
<1> DEFINE C == {k \in Nat : n - k \in B}
<1>1. C \in SUBSET Nat /\ C # {}
  <2>1. PICK b \in B : TRUE
    OBVIOUS
  <2>2. n - b \in Nat /\ n - (n - b) = b
    BY <2>1
  <2>3. n - b \in C
    BY <2>1, <2>2
  <2> QED  BY <2>3
<1>2. PICK c \in C : \A k \in C : c <= k
  <2> HIDE DEF C
  <2> QED  BY <1>1, LeastNumber
<1>3. c \in Nat /\ n - c \in B
  BY <1>2
<1>4. ASSUME NEW k \in B PROVE k <= n - c
  <2>1. k \in Nat /\ k <= n
    OBVIOUS
  <2>2. n - k \in Nat /\ n - (n - k) = k
    BY <2>1
  <2>3. n - k \in C
    BY <2>2
  <2>4. c <= n - k
    BY <1>2, <2>3
  <2> QED  BY <1>3, <2>1, <2>4
<1> QED  BY <1>3, <1>4

\* w walks along F until it comes to Stop.
IsWalk(w, D, Stop, F) ==
  \A m \in D : w[m] = IF m \in Stop THEN m ELSE w[F[m]]

\* The steps of a walk lead to ever smaller ranks.
Descends(D, Stop, F, rank) ==
  /\ \A m \in D : rank[m] \in Nat
  /\ \A m \in D : m \notin Stop => F[m] \in D /\ rank[F[m]] < rank[m]

\* What such a walk returns is determined by its equation.
LEMMA WalkUnique ==
  ASSUME NEW D, NEW Stop, NEW F, NEW rank, NEW w, NEW g,
         Descends(D, Stop, F, rank), IsWalk(w, D, Stop, F), IsWalk(g, D, Stop, F)
  PROVE  \A m \in D : w[m] = g[m]
<1> USE DEF IsWalk, Descends
<1> DEFINE Bad == {m \in D : w[m] # g[m]}
           R == {rank[m] : m \in Bad}
<1> SUFFICES ASSUME Bad # {} PROVE FALSE
  OBVIOUS
<1>1. R \in SUBSET Nat /\ R # {}
  OBVIOUS
<1>2. PICK k \in R : \A j \in R : k <= j
  <2> HIDE DEF R
  <2> QED  BY <1>1, LeastNumber
<1>3. PICK m \in Bad : k = rank[m]
  BY <1>2
<1>4. m \in D /\ m \notin Stop
  BY <1>3
<1>5. F[m] \in D /\ rank[F[m]] < rank[m] /\ rank[F[m]] \in Nat /\ rank[m] \in Nat
  BY <1>4
<1>6. F[m] \notin Bad
  <2>1. ~(k <= rank[F[m]])
    BY <1>3, <1>5
  <2> QED  BY <1>2, <2>1
<1>7. w[m] = w[F[m]] /\ g[m] = g[F[m]]
  BY <1>4
<1> QED  BY <1>3, <1>5, <1>6, <1>7

\* Nodes are sequences of runes.
LEMMA NodeFacts ==
  /\ AllNodes \subseteq Seq(Runes) /\ Root \in AllNodes /\ Dictionary \subseteq AllNodes
  /\ Nil \notin AllNodes /\ Nil # Root /\ Len(Root) = 0 /\ Root \in Seq(Runes)
  /\ \A n \in AllNodes : Len(n) \in Nat /\ (n # Root => Len(n) > 0)
<1>1. Root \in AllNodes /\ Root \in Seq(Runes) /\ Len(Root) = 0
  BY DEF AllNodes, Root
<1>2. ASSUME NEW w \in Dictionary PROVE Path(w) \subseteq Seq(Runes) /\ w \in Path(w)
  <2>1. w \in Seq(Runes)
    BY AutomatonAssumption
  <2>2. Len(w) \in 0..Len(w) /\ SubSeq(w, 1, Len(w)) = w
    BY <2>1, SubSeqFull
  <2>3. w \in Path(w)
    BY <2>2 DEF Path
  <2>4. ASSUME NEW k \in 0..Len(w) PROVE SubSeq(w, 1, k) \in Seq(Runes)
    BY <2>1
  <2> QED  BY <2>3, <2>4 DEF Path
<1>3. AllNodes \subseteq Seq(Runes) /\ Dictionary \subseteq AllNodes
  BY <1>1, <1>2 DEF AllNodes
<1>4. Nil \notin Seq(Runes) /\ Nil # Root
  <2>1. ASSUME Nil \in Seq(Runes) PROVE FALSE
    <3>1. 1 \in 1..Len(Nil) /\ Nil[1] = 0
      BY DEF Nil
    <3>2. Nil[1] \in Runes
      BY <2>1, <3>1, ElementOfSeq
    <3> QED  BY <3>1, <3>2, AutomatonAssumption
  <2> QED  BY <1>1, <2>1
<1>5. ASSUME NEW n \in AllNodes PROVE Len(n) \in Nat /\ (n # Root => Len(n) > 0)
  <2>1. n \in Seq(Runes)
    BY <1>3
  <2> QED  BY <2>1 DEF Root
<1> QED  BY <1>1, <1>3, <1>4, <1>5

\* a is the longest node that n ends with and that has a child for r, or nil
\* when there is none.
IsFirst(a, n, r) ==
  \/ a = Nil /\ \A x \in nodes : IsSuffix(x, n) => ~HasChild(x, r)
  \/ /\ a \in nodes /\ IsSuffix(a, n) /\ HasChild(a, r)
     /\ \A x \in nodes : IsSuffix(x, n) /\ HasChild(x, r) => Len(x) <= Len(a)

Best(n, r) == CHOOSE a \in nodes \cup {Nil} : IsFirst(a, n, r)

\* There is one such node.
LEMMA BestExists ==
  ASSUME TypeOK, NEW n \in nodes, NEW r \in Runes
  PROVE  \E a \in nodes \cup {Nil} : IsFirst(a, n, r)
<1> DEFINE X == {x \in nodes : IsSuffix(x, n) /\ HasChild(x, r)}
           L == {Len(x) : x \in X}
<1>1. nodes \subseteq Seq(Runes) /\ \A x \in nodes : Len(x) \in Nat
  BY NodeFacts DEF TypeOK
<1>2. CASE X = {}
  BY <1>2 DEF IsFirst
<1>3. CASE X # {}
  <2>1. L \in SUBSET Nat /\ L # {}
    BY <1>1, <1>3
  <2>2. Len(n) \in Nat /\ \A k \in L : k <= Len(n)
    BY <1>1, SuffixOrder
  <2>3. PICK k \in L : \A j \in L : j <= k
    <3> HIDE DEF L
    <3> QED  BY <2>1, <2>2, GreatestNumber
  <2>4. PICK a \in X : k = Len(a)
    BY <2>3
  <2>5. IsFirst(a, n, r)
    BY <2>3, <2>4 DEF IsFirst
  <2> QED  BY <2>4, <2>5
<1> QED  BY <1>2, <1>3

\* There are no two.
LEMMA BestUnique ==
  ASSUME TypeOK, NEW n \in nodes, NEW r \in Runes, NEW a, NEW b,
         IsFirst(a, n, r), IsFirst(b, n, r)
  PROVE  a = b
<1>1. nodes \subseteq Seq(Runes) /\ \A x \in nodes : Len(x) \in Nat
  BY NodeFacts DEF TypeOK
<1>2. CASE a = Nil \/ b = Nil
  <2>1. Nil \notin nodes
    BY NodeFacts DEF TypeOK
  <2> QED  BY <1>2, <2>1 DEF IsFirst
<1>3. CASE a # Nil /\ b # Nil
  <2>1. /\ a \in nodes /\ IsSuffix(a, n) /\ HasChild(a, r)
        /\ b \in nodes /\ IsSuffix(b, n) /\ HasChild(b, r)
        /\ Len(a) <= Len(b) /\ Len(b) <= Len(a)
    BY <1>3 DEF IsFirst
  <2>2. IsSuffix(a, b)
    BY <1>1, <2>1, SuffixOrder
  <2> QED  BY <1>1, <2>1, <2>2, SuffixOrder
<1> QED  BY <1>2, <1>3

\* It is found along the fail pointers.
LEMMA BestStep ==
  ASSUME TypeOK, TrieInv, LinkInv, NEW n \in nodes, NEW r \in Runes
  PROVE  /\ IsFirst(Best(n, r), n, r) /\ Best(n, r) \in nodes \cup {Nil}
         /\ HasChild(n, r) => Best(n, r) = n
         /\ n = Root /\ ~HasChild(n, r) => Best(n, r) = Nil
         /\ Linked(n) /\ ~HasChild(n, r) => fail[n] \in nodes /\ Best(n, r) = Best(fail[n], r)
<1>1. nodes \subseteq Seq(Runes) /\ nodes \subseteq AllNodes /\ \A x \in nodes : Len(x) \in Nat
  BY NodeFacts DEF TypeOK
<1>2. \A m \in nodes : IsFirst(Best(m, r), m, r) /\ Best(m, r) \in nodes \cup {Nil}
  BY BestExists DEF Best
<1>3. ASSUME HasChild(n, r) PROVE Best(n, r) = n
  <2>1. IsFirst(n, n, r)
    BY <1>1, <1>3, SuffixOrder DEF IsFirst
  <2> QED  BY <1>2, <2>1, BestUnique
<1>4. ASSUME n = Root, ~HasChild(n, r) PROVE Best(n, r) = Nil
  <2>1. ASSUME NEW x \in nodes, IsSuffix(x, n) PROVE x = n
    <3>1. x \in Seq(Runes) /\ n \in Seq(Runes) /\ Len(n) = 0 /\ Len(x) \in Nat
      BY <1>1, <1>4, NodeFacts
    <3>2. Len(n) <= Len(x)
      BY <3>1
    <3> QED  BY <2>1, <3>1, <3>2, SuffixOrder
  <2>2. IsFirst(Nil, n, r)
    BY <1>4, <2>1 DEF IsFirst
  <2> QED  BY <1>2, <2>2, BestUnique
<1>5. ASSUME Linked(n), ~HasChild(n, r)
      PROVE  fail[n] \in nodes /\ Best(n, r) = Best(fail[n], r)
  <2> DEFINE f == fail[n]
  <2>1. /\ f \in nodes /\ Len(f) < Len(n) /\ IsSuffix(f, n)
        /\ \A x \in nodes : Len(x) < Len(n) /\ IsSuffix(x, n) => Len(x) <= Len(f)
    BY <1>1, <1>5 DEF LinkInv, IsLongest
  <2> HIDE DEF f
  <2>2. ASSUME NEW x \in nodes, IsSuffix(x, f) PROVE IsSuffix(x, n)
    BY <1>1, <2>1, <2>2, SuffixOrder
  <2>3. ASSUME NEW x \in nodes, IsSuffix(x, n), HasChild(x, r) PROVE IsSuffix(x, f)
    <3>1. x # n
      BY <1>5, <2>3
    <3>2. x \in Seq(Runes) /\ n \in Seq(Runes) /\ Len(x) \in Nat /\ Len(n) \in Nat
      BY <1>1
    <3>3. ~(Len(n) <= Len(x))
      BY <2>3, <3>1, <3>2, SuffixOrder
    <3>4. Len(x) <= Len(f)
      BY <2>1, <2>3, <3>2, <3>3
    <3> QED  BY <1>1, <2>1, <2>3, <3>4, SuffixOrder
  <2>4. IsFirst(Best(f, r), f, r)
    BY <1>2, <2>1
  <2>5. IsFirst(Best(f, r), n, r)
    BY <2>2, <2>3, <2>4 DEF IsFirst
  <2>6. Best(n, r) = Best(f, r)
    BY <1>2, <2>5, BestUnique
  <2> QED  BY <2>1, <2>6 DEF f
<1> QED  BY <1>2, <1>3, <1>4, <1>5

\* FirstAccepting finds it from a node that is linked, whatever is not linked
\* yet.
LEMMA FirstAcceptingIsFirst ==
  ASSUME TypeOK, TrieInv, LinkInv, NEW n \in nodes, NEW r \in Runes, n = Root \/ Linked(n)
  PROVE  IsFirst(FirstAccepting(n, r), n, r)
<1> DEFINE D == nodes \cup {Nil}
           Stop == {m \in D : m = Nil \/ HasChild(m, r)}
           Def(w) == [m \in D |-> IF m = Nil \/ HasChild(m, r) THEN m ELSE w[fail[m]]]
           walk == CHOOSE w : w = Def(w)
           g == [m \in D |-> IF m = Nil THEN Nil
                             ELSE IF m # Root /\ ~Linked(m)
                                  THEN IF HasChild(m, r) THEN m ELSE Nil
                                  ELSE Best(m, r)]
           rank == [m \in D |-> IF m = Nil THEN 0 ELSE Len(m) + 1]
<1>1. FirstAccepting(n, r) = walk[n]
  BY DEF FirstAccepting
<1>2. /\ nodes \subseteq Seq(Runes) /\ nodes \subseteq AllNodes
      /\ \A x \in nodes : Len(x) \in Nat /\ x # Nil
      /\ Nil \in D /\ Root \in nodes
  BY NodeFacts DEF TypeOK, TrieInv
<1>3. ASSUME NEW m \in nodes
      PROVE  /\ ~Linked(m) \/ m = Root => fail[m] = Nil
             /\ Linked(m) => /\ fail[m] \in nodes /\ Len(fail[m]) < Len(m)
                             /\ fail[m] = Root \/ Linked(fail[m])
  BY <1>2 DEF LinkInv, IsLongest, Linked
<1>4. \A w : DOMAIN Def(w) = D
             /\ \A m \in D : Def(w)[m] = IF m = Nil \/ HasChild(m, r) THEN m ELSE w[fail[m]]
  OBVIOUS
<1>5. \A m \in D : g[m] = IF m = Nil \/ HasChild(m, r) THEN m ELSE g[fail[m]]
  <2> SUFFICES ASSUME NEW m \in D
               PROVE  g[m] = IF m = Nil \/ HasChild(m, r) THEN m ELSE g[fail[m]]
    OBVIOUS
  <2>0. g[Nil] = Nil /\ \A x \in nodes : x = Root \/ Linked(x) => g[x] = Best(x, r)
    BY <1>2
  <2>1. CASE m = Nil
    BY <2>0, <2>1
  <2>2. CASE m \in nodes /\ HasChild(m, r)
    <3>1. Best(m, r) = m
      BY <2>2, BestStep
    <3> QED  BY <1>2, <2>2, <3>1
  <2>3. CASE m \in nodes /\ ~HasChild(m, r) /\ (m = Root \/ ~Linked(m))
    <3>1. fail[m] = Nil
      BY <1>3, <2>3
    <3>2. m = Root => Best(m, r) = Nil
      BY <2>3, BestStep
    <3>3. g[m] = Nil
      BY <1>2, <2>3, <3>2
    <3>4. g[m] = g[fail[m]]
      BY <2>0, <3>1, <3>3
    <3> HIDE DEF g
    <3> QED  BY <1>2, <2>3, <3>4
  <2>4. CASE m \in nodes /\ ~HasChild(m, r) /\ Linked(m)
    <3>1. fail[m] \in nodes /\ Best(m, r) = Best(fail[m], r)
      BY <2>4, BestStep
    <3>2. fail[m] = Root \/ Linked(fail[m])
      BY <1>3, <2>4
    <3>3. g[m] = g[fail[m]]
      <4> HIDE DEF g
      <4> QED  BY <2>0, <2>4, <3>1, <3>2
    <3> HIDE DEF g
    <3> QED  BY <1>2, <2>4, <3>3
  <2> QED  BY <2>1, <2>2, <2>3, <2>4
<1>6. DOMAIN g = D /\ g = [m \in D |-> g[m]] /\ g[n] = Best(n, r)
  BY <1>2
<1> HIDE DEF g
<1>7. g = Def(g)
  BY <1>5, <1>6
<1> HIDE DEF Def
<1>8. walk = Def(walk)
  BY <1>7
<1> HIDE DEF walk
<1>9. \A m \in D : walk[m] = IF m = Nil \/ HasChild(m, r) THEN m ELSE walk[fail[m]]
  BY <1>4, <1>8
<1>10. /\ \A m \in D : rank[m] \in Nat
       /\ \A m \in D : m \notin Stop => fail[m] \in D /\ rank[fail[m]] < rank[m]
  <2>1. rank[Nil] = 0 /\ \A m \in nodes : rank[m] = Len(m) + 1 /\ rank[m] \in Nat
    BY <1>2
  <2> HIDE DEF rank
  <2>2. ASSUME NEW m \in D, m \notin Stop PROVE fail[m] \in D /\ rank[fail[m]] < rank[m]
    <3>1. m \in nodes
      BY <2>2
    <3>2. CASE ~Linked(m)
      <4>1. fail[m] = Nil
        BY <1>3, <3>1, <3>2
      <4> QED  BY <1>2, <2>1, <3>1, <4>1
    <3>3. CASE Linked(m)
      <4>1. fail[m] \in nodes /\ Len(fail[m]) < Len(m)
        BY <1>3, <3>1, <3>3
      <4> QED  BY <1>2, <2>1, <3>1, <4>1
    <3> QED  BY <3>2, <3>3
  <2> QED  BY <2>1, <2>2
<1>11. \A m \in D : /\ walk[m] = IF m \in Stop THEN m ELSE walk[fail[m]]
                    /\ g[m] = IF m \in Stop THEN m ELSE g[fail[m]]
  BY <1>5, <1>9
<1> HIDE DEF D, Stop, rank
<1>12. \A m \in D : walk[m] = g[m]
  <2>1. /\ Descends(D, Stop, fail, rank)
        /\ IsWalk(walk, D, Stop, fail) /\ IsWalk(g, D, Stop, fail)
    BY <1>10, <1>11 DEF Descends, IsWalk
  <2> QED  BY <2>1, WalkUnique
<1>13. FirstAccepting(n, r) = Best(n, r)
  BY <1>1, <1>6, <1>12 DEF D
<1> QED  BY <1>13, BestStep

\* Accepting finds it, or else the root, when every node is linked.
LEMMA AcceptingIsFirst ==
  ASSUME TypeOK, TrieInv, LinkInv, \A m \in nodes \ {Root} : Linked(m),
         NEW n \in nodes, NEW r \in Runes
  PROVE  \E a : /\ IsFirst(a, n, r)
                /\ Accepting(n, r) = IF a = Nil THEN Root ELSE a
<1> DEFINE Stop == {m \in nodes : m = Root \/ HasChild(m, r)}
           Def(w) == [m \in nodes |-> IF m = Root \/ HasChild(m, r) THEN m ELSE w[fail[m]]]
           walk == CHOOSE w : w = Def(w)
           g == [m \in nodes |-> IF Best(m, r) = Nil THEN Root ELSE Best(m, r)]
           rank == [m \in nodes |-> Len(m)]
<1>1. Accepting(n, r) = walk[n]
  BY DEF Accepting
<1>2. /\ nodes \subseteq Seq(Runes) /\ nodes \subseteq AllNodes
      /\ \A x \in nodes : Len(x) \in Nat /\ x # Nil
      /\ Root \in nodes
  BY NodeFacts DEF TypeOK, TrieInv
<1>3. ASSUME NEW m \in nodes, m # Root PROVE fail[m] \in nodes /\ Len(fail[m]) < Len(m)
  BY <1>2, <1>3 DEF LinkInv, IsLongest
<1>4. \A w : DOMAIN Def(w) = nodes
             /\ \A m \in nodes :
                  Def(w)[m] = IF m = Root \/ HasChild(m, r) THEN m ELSE w[fail[m]]
  OBVIOUS
<1>5. ASSUME NEW m \in nodes
      PROVE  g[m] = IF m = Root \/ HasChild(m, r) THEN m ELSE g[fail[m]]
  <2>1. \A x \in nodes : g[x] = IF Best(x, r) = Nil THEN Root ELSE Best(x, r)
    OBVIOUS
  <2> HIDE DEF g
  <2>2. CASE HasChild(m, r)
    <3>1. Best(m, r) = m
      BY <2>2, BestStep
    <3> QED  BY <1>2, <2>1, <2>2, <3>1
  <2>3. CASE m = Root /\ ~HasChild(m, r)
    <3>1. Best(m, r) = Nil
      BY <2>3, BestStep
    <3> QED  BY <1>2, <2>1, <2>3, <3>1
  <2>4. CASE m # Root /\ ~HasChild(m, r)
    <3>1. fail[m] \in nodes /\ Best(m, r) = Best(fail[m], r)
      BY <2>4, BestStep
    <3> QED  BY <2>1, <2>4, <3>1
  <2> QED  BY <2>2, <2>3, <2>4
<1>6. DOMAIN g = nodes /\ g = [m \in nodes |-> g[m]]
      /\ g[n] = IF Best(n, r) = Nil THEN Root ELSE Best(n, r)
  OBVIOUS
<1> HIDE DEF g
<1>7. g = Def(g)
  BY <1>5, <1>6
<1> HIDE DEF Def
<1>8. walk = Def(walk)
  BY <1>7
<1> HIDE DEF walk
<1>9. \A m \in nodes : walk[m] = IF m = Root \/ HasChild(m, r) THEN m ELSE walk[fail[m]]
  BY <1>4, <1>8
<1>10. /\ \A m \in nodes : rank[m] \in Nat
       /\ \A m \in nodes : m \notin Stop => fail[m] \in nodes /\ rank[fail[m]] < rank[m]
  BY <1>2, <1>3
<1>11. \A m \in nodes : /\ walk[m] = IF m \in Stop THEN m ELSE walk[fail[m]]
                        /\ g[m] = IF m \in Stop THEN m ELSE g[fail[m]]
  BY <1>5, <1>9
<1> HIDE DEF Stop, rank
<1>12. \A m \in nodes : walk[m] = g[m]
  <2>1. /\ Descends(nodes, Stop, fail, rank)
        /\ IsWalk(walk, nodes, Stop, fail) /\ IsWalk(g, nodes, Stop, fail)
    BY <1>10, <1>11 DEF Descends, IsWalk
  <2> QED  BY <2>1, WalkUnique
<1>13. Accepting(n, r) = IF Best(n, r) = Nil THEN Root ELSE Best(n, r)
  BY <1>1, <1>6, <1>12
<1> QED  BY <1>13, BestStep

-----------------------------------------------------------------------------
(***************************************************************************)
(* The children of a node.                                                 *)
(***************************************************************************)
\* The children of n are the nodes with n as their front.
LEMMA ChildFacts ==
  ASSUME TypeOK, NEW n \in Seq(Runes)
  PROVE  /\ \A x \in Children(n) : /\ x \in nodes /\ x # Root /\ Front(x) = n
                                   /\ Last(x) \in Runes /\ x = Append(n, Last(x))
                                   /\ HasChild(n, Last(x)) /\ Len(x) = Len(n) + 1
         /\ \A x \in nodes : x # Root /\ Front(x) = n => x \in Children(n)
         /\ IsFiniteSet(Children(n))
<1>1. nodes \subseteq Seq(Runes)
  BY NodeFacts DEF TypeOK
<1>2. ASSUME NEW x \in Children(n)
      PROVE  /\ x \in nodes /\ x # Root /\ Front(x) = n
             /\ Last(x) \in Runes /\ x = Append(n, Last(x))
             /\ HasChild(n, Last(x)) /\ Len(x) = Len(n) + 1
  <2>1. PICK r \in Runes : HasChild(n, r) /\ x = Append(n, r)
    BY DEF Children
  <2>2. Front(x) = n /\ Last(x) = r
    BY <2>1, FrontLast
  <2>3. x # Root /\ Len(x) = Len(n) + 1
    BY <2>1, AppendProperties DEF Root
  <2> QED  BY <2>1, <2>2, <2>3 DEF HasChild
<1>3. ASSUME NEW x \in nodes, x # Root, Front(x) = n PROVE x \in Children(n)
  <2>1. Last(x) \in Runes /\ x = Append(n, Last(x))
    BY <1>1, <1>3, FrontLast DEF Root
  <2> QED  BY <2>1 DEF Children, HasChild
<1>4. IsFiniteSet(Children(n))
  <2> DEFINE R == {r \in Runes : HasChild(n, r)}
             f == [r \in R |-> Append(n, r)]
             C == Children(n)
  <2>1. IsFiniteSet(R)
    <3>1. R \in SUBSET Runes /\ IsFiniteSet(Runes)
      BY AutomatonAssumption
    <3> HIDE DEF R
    <3> QED  BY <3>1, FS_Subset
  <2>2. C = {Append(n, r) : r \in R}
    BY DEF Children
  <2>3. f \in Surjection(R, C)
    <3> HIDE DEF R, C
    <3> QED  BY <2>2 DEF Surjection
  <2> HIDE DEF R, C, f
  <2>4. IsFiniteSet(C)
    BY <2>1, <2>3, FS_Surjection
  <2> QED  BY <2>4 DEF C
<1> QED  BY <1>2, <1>3, <1>4

\* An order of a finite set has each of its elements once.
LEMMA OrderFacts ==
  ASSUME NEW S, IsFiniteSet(S), NEW order \in SetToSeqs(S)
  PROVE  /\ order \in Seq(S) /\ IsInjective(order) /\ ToSet(order) = S
         /\ DOMAIN order = 1..Len(order)
<1> DEFINE N == Cardinality(S)
           D == 1..N
<1>1. N \in Nat
  BY FS_CardinalityType
<1>2. order \in [D -> S] /\ \A i, j \in D : i # j => order[i] # order[j]
  BY DEF SetToSeqs
<1>3. order \in Seq(S) /\ DOMAIN order = 1..Len(order)
  BY <1>1, <1>2
<1>4. IsInjective(order)
  BY <1>2 DEF IsInjective
<1>5. order \in Injection(D, S)
  BY <1>2, <1>4 DEF Injection
<1>6. Cardinality(D) = Cardinality(S)
  <2>1. 1 \in Int /\ N \in Int
    BY <1>1
  <2>2. Cardinality(1..N) = IF 1 > N THEN 0 ELSE N - 1 + 1
    BY <2>1, FS_Interval
  <2> QED  BY <1>1, <2>2
<1>7. order \in Surjection(D, S)
  <2> HIDE DEF D
  <2> QED  BY <1>5, <1>6, FS_Injection
<1>8. ToSet(order) = S
  <2>1. \A x \in S : \E i \in D : order[i] = x
    BY <1>7 DEF Surjection
  <2> HIDE DEF D
  <2> QED  BY <1>2, <2>1 DEF ToSet
<1> QED  BY <1>3, <1>4, <1>8

\* Two sequences one after the other have the elements of both; each once when
\* they share none.
LEMMA ConcatOnce ==
  ASSUME NEW S, NEW p \in Seq(S), NEW q \in Seq(S), NEW o, o = p \o q
  PROVE  /\ o \in Seq(S) /\ ToSet(o) = ToSet(p) \cup ToSet(q)
         /\ IsInjective(p) /\ IsInjective(q) /\ ToSet(p) \cap ToSet(q) = {} => IsInjective(o)
<1> DEFINE m == Len(p)
           n == Len(q)
<1>1. /\ o \in Seq(S) /\ Len(o) = m + n /\ m \in Nat /\ n \in Nat
      /\ \A k \in 1..(m + n) : o[k] = IF k <= m THEN p[k] ELSE q[k - m]
  <2>1. m \in Nat /\ n \in Nat
    OBVIOUS
  <2> QED  BY <2>1, ConcatProperties
<1>2. DOMAIN o = 1..(m + n) /\ DOMAIN p = 1..m /\ DOMAIN q = 1..n
  BY <1>1
<1> HIDE DEF m, n
<1>3. ASSUME NEW k \in DOMAIN p PROVE k \in DOMAIN o /\ o[k] = p[k]
  <2>1. k \in 1..(m + n) /\ k <= m
    BY <1>1, <1>2
  <2> QED  BY <1>1, <1>2, <2>1
<1>4. ASSUME NEW k \in DOMAIN q PROVE m + k \in DOMAIN o /\ o[m + k] = q[k]
  <2>1. m + k \in 1..(m + n) /\ ~(m + k <= m) /\ (m + k) - m = k
    BY <1>1, <1>2
  <2> QED  BY <1>1, <1>2, <2>1
<1>5. ASSUME NEW k \in DOMAIN o
      PROVE  \/ k \in DOMAIN p /\ o[k] = p[k] /\ k <= m
             \/ k - m \in DOMAIN q /\ o[k] = q[k - m] /\ ~(k <= m)
  <2>1. k \in 1..(m + n) /\ (k <= m => k \in 1..m) /\ (~(k <= m) => k - m \in 1..n)
    BY <1>1, <1>2
  <2> QED  BY <1>1, <1>2, <2>1
<1>6. ToSet(o) = ToSet(p) \cup ToSet(q)
  <2>1. ToSet(o) \subseteq ToSet(p) \cup ToSet(q)
    BY <1>5 DEF ToSet
  <2>2. ToSet(p) \subseteq ToSet(o)
    BY <1>3 DEF ToSet
  <2>3. ToSet(q) \subseteq ToSet(o)
    BY <1>4 DEF ToSet
  <2> QED  BY <2>1, <2>2, <2>3
<1>7. ASSUME IsInjective(p), IsInjective(q), ToSet(p) \cap ToSet(q) = {},
             NEW i \in DOMAIN o, NEW j \in DOMAIN o, o[i] = o[j]
      PROVE  i = j
  <2>1. \A a \in DOMAIN p : \A b \in DOMAIN q : p[a] # q[b]
    BY <1>7 DEF ToSet
  <2>2. CASE i <= m /\ j <= m
    BY <1>5, <1>7, <2>2 DEF IsInjective
  <2>3. CASE ~(i <= m) /\ ~(j <= m)
    <3>1. i - m \in DOMAIN q /\ j - m \in DOMAIN q /\ q[i - m] = q[j - m]
      BY <1>5, <1>7, <2>3
    <3>2. i - m = j - m
      BY <1>7, <3>1 DEF IsInjective
    <3>3. i \in Nat /\ j \in Nat
      BY <1>1, <1>2
    <3> QED  BY <1>1, <3>2, <3>3
  <2>4. CASE ~(i <= m <=> j <= m)
    BY <1>5, <1>7, <2>1, <2>4
  <2> QED  BY <2>2, <2>3, <2>4
<1> QED  BY <1>1, <1>6, <1>7 DEF IsInjective

\* Short sequences have each of their elements once.
LEMMA SmallOnce ==
  /\ ToSet(<<>>) = {} /\ IsInjective(<<>>)
  /\ \A x : ToSet(<<x>>) = {x} /\ IsInjective(<<x>>)
<1>1. ToSet(<<>>) = {} /\ IsInjective(<<>>)
  BY DEF ToSet, IsInjective
<1>2. ASSUME NEW x PROVE ToSet(<<x>>) = {x} /\ IsInjective(<<x>>)
  <2> DEFINE p == <<x>>
  <2>1. DOMAIN p = {1} /\ p[1] = x
    OBVIOUS
  <2> HIDE DEF p
  <2>2. ToSet(p) = {x} /\ IsInjective(p)
    BY <2>1 DEF ToSet, IsInjective
  <2> QED  BY <2>2 DEF p
<1> QED  BY <1>1, <1>2

-----------------------------------------------------------------------------
(***************************************************************************)
(* Longest nodes.                                                          *)
(***************************************************************************)
\* Reading r: the child of the first node with one, on the way from the
\* longest node, is the longest node of the longer text.
LEMMA LongestStep ==
  ASSUME TypeOK, TrieInv, NEW t \in Seq(Runes), NEW r \in Runes, NEW c \in nodes,
         NEW k \in Nat, IsLongest(c, t, k), NEW a, IsFirst(a, c, r)
  PROVE  IsLongest(IF a = Nil THEN Root ELSE Append(a, r), Append(t, r), k + 1)
<1> DEFINE z == IF a = Nil THEN Root ELSE Append(a, r)
           tr == Append(t, r)
<1>1. /\ nodes \subseteq Seq(Runes) /\ \A x \in nodes : Len(x) \in Nat /\ x # Nil
      /\ Root \in nodes /\ Len(Root) = 0
  BY NodeFacts DEF TypeOK, TrieInv
<1>2. /\ Len(c) < k /\ IsSuffix(c, t) /\ tr \in Seq(Runes)
      /\ \A x \in nodes : Len(x) < k /\ IsSuffix(x, t) => Len(x) <= Len(c)
  BY AppendProperties DEF IsLongest
<1>3. ASSUME NEW x \in nodes, x # Root, Len(x) < k + 1, IsSuffix(x, tr)
      PROVE  /\ Front(x) \in nodes /\ IsSuffix(Front(x), c) /\ HasChild(Front(x), r)
             /\ Len(x) = Len(Front(x)) + 1
  <2> DEFINE y == Front(x)
             q == Last(x)
  <2>1. /\ x \in Seq(Runes) /\ y \in Seq(Runes) /\ q \in Runes /\ x = Append(y, q)
        /\ Len(y) = Len(x) - 1 /\ Len(x) \in Nat
    BY <1>1, <1>3, FrontLast DEF Root
  <2>2. y \in nodes
    BY <1>3 DEF TrieInv
  <2> HIDE DEF y, q
  <2>3. IsSuffix(y, t) /\ q = r
    BY <1>3, <2>1, SuffixAppend
  <2>4. Len(y) < k
    BY <1>3, <2>1
  <2>5. Len(y) <= Len(c)
    BY <1>2, <2>2, <2>3, <2>4
  <2>6. IsSuffix(y, c)
    BY <1>1, <1>2, <2>1, <2>3, <2>5, SuffixOrder
  <2>7. HasChild(y, r)
    BY <1>3, <2>1, <2>3 DEF HasChild
  <2>8. Len(x) = Len(y) + 1
    BY <2>1
  <2> QED  BY <2>2, <2>6, <2>7, <2>8 DEF y
<1>4. CASE a = Nil
  <2>1. z = Root /\ IsSuffix(Root, tr)
    BY <1>2, <1>4, SuffixOrder DEF Root
  <2>2. ASSUME NEW x \in nodes, Len(x) < k + 1, IsSuffix(x, tr) PROVE x = Root
    <3>1. \A y \in nodes : IsSuffix(y, c) => ~HasChild(y, r)
      BY <1>1, <1>4 DEF IsFirst
    <3> QED  BY <1>3, <2>2, <3>1
  <2>3. Len(Root) < k + 1
    BY <1>1
  <2>4. \A x \in nodes : Len(x) < k + 1 /\ IsSuffix(x, tr) => Len(x) <= Len(Root)
    BY <1>1, <2>2
  <2> HIDE DEF z, tr
  <2>5. IsLongest(z, tr, k + 1)
    BY <1>1, <2>1, <2>3, <2>4 DEF IsLongest
  <2> QED  BY <2>5 DEF z, tr
<1>5. CASE a # Nil
  <2>1. /\ a \in nodes /\ IsSuffix(a, c) /\ HasChild(a, r)
        /\ \A x \in nodes : IsSuffix(x, c) /\ HasChild(x, r) => Len(x) <= Len(a)
    BY <1>5 DEF IsFirst
  <2>2. z = Append(a, r) /\ z \in nodes /\ Len(z) = Len(a) + 1 /\ Len(a) \in Nat
    <3>1. a \in Seq(Runes)
      BY <1>1, <2>1
    <3> QED  BY <1>5, <2>1, <3>1, AppendProperties DEF HasChild
  <2>3. IsSuffix(a, t) /\ Len(a) <= Len(c)
    BY <1>1, <1>2, <2>1, SuffixOrder
  <2>4. IsSuffix(z, tr)
    BY <1>1, <2>1, <2>2, <2>3, SuffixAppend
  <2>5. Len(z) < k + 1
    BY <1>1, <1>2, <2>2, <2>3
  <2>6. ASSUME NEW x \in nodes, Len(x) < k + 1, IsSuffix(x, tr) PROVE Len(x) <= Len(z)
    <3>1. CASE x = Root
      BY <1>1, <2>2, <3>1
    <3>2. CASE x # Root
      <4>1. /\ Front(x) \in nodes /\ IsSuffix(Front(x), c) /\ HasChild(Front(x), r)
            /\ Len(x) = Len(Front(x)) + 1
        BY <1>3, <2>6, <3>2
      <4>2. Len(Front(x)) <= Len(a) /\ Len(Front(x)) \in Nat
        BY <1>1, <2>1, <4>1
      <4> QED  BY <2>2, <4>1, <4>2
    <3> QED  BY <3>1, <3>2
  <2> HIDE DEF z
  <2>7. IsLongest(z, tr, k + 1)
    BY <2>2, <2>4, <2>5, <2>6 DEF IsLongest
  <2> QED  BY <2>7 DEF z
<1> QED  BY <1>4, <1>5

\* The words that a text ends with are those that its longest node ends with.
LEMMA EndingOfLongest ==
  ASSUME TypeOK, words \ {<<>>} \subseteq nodes, NEW t \in Seq(Runes), NEW k \in Nat,
         NEW z \in nodes, IsLongest(z, t, k)
  PROVE  \A w \in words \ {<<>>} : Len(w) < k => (IsSuffix(w, t) <=> w \in Ending(z))
<1>1. nodes \subseteq Seq(Runes)
  BY NodeFacts DEF TypeOK
<1>2. TAKE w \in words \ {<<>>}
<1>3. HAVE Len(w) < k
<1>4. w \in Seq(Runes) /\ w \in nodes /\ z \in Seq(Runes)
  BY <1>1
<1>5. ASSUME IsSuffix(w, t) PROVE w \in Ending(z)
  <2>1. Len(w) <= Len(z) /\ IsSuffix(z, t)
    BY <1>3, <1>4, <1>5 DEF IsLongest
  <2> QED  BY <1>4, <1>5, <2>1, SuffixOrder DEF Ending
<1>6. ASSUME w \in Ending(z) PROVE IsSuffix(w, t)
  <2>1. IsSuffix(w, z) /\ IsSuffix(z, t)
    BY <1>6 DEF IsLongest, Ending
  <2> QED  BY <1>4, <2>1, SuffixOrder
<1> QED  BY <1>5, <1>6

\* The output of the root, and of each node that is linked, is complete.
LEMMA OutputOfLinked ==
  ASSUME TypeOK, OwnInv, LinkInv, phase # "insert", NEW n \in nodes, n = Root \/ Linked(n)
  PROVE  output[n] \in Seq(Dictionary) /\ ToSet(output[n]) = Ending(n) /\ IsInjective(output[n])
<1>1. n \in AllNodes /\ output[n] \in Seq(Dictionary) /\ words \subseteq Seq(Runes)
  BY AutomatonAssumption DEF TypeOK
<1>2. CASE Linked(n)
  BY <1>1, <1>2 DEF LinkInv
<1>3. CASE n = Root /\ ~Linked(n)
  <2>1. output[n] = <<>>
    BY <1>1, <1>3 DEF OwnInv, Root
  <2>2. Ending(n) = {}
    <3>1. ASSUME NEW w \in words \ {<<>>}, IsSuffix(w, n) PROVE FALSE
      <4>1. w \in Seq(Runes) /\ n \in Seq(Runes) /\ Len(n) = 0 /\ Len(w) \in Nat /\ w # n
        BY <1>1, <1>3, NodeFacts DEF Root
      <4>2. Len(n) <= Len(w)
        BY <4>1
      <4> QED  BY <3>1, <4>1, <4>2, SuffixOrder
    <3> QED  BY <3>1 DEF Ending
  <2> QED  BY <1>1, <2>1, <2>2, SmallOnce
<1> QED  BY <1>2, <1>3

-----------------------------------------------------------------------------
(***************************************************************************)
(* Building the fail pointers.                                             *)
(***************************************************************************)
Inv == /\ TypeOK /\ TrieInv /\ OwnInv /\ InsertInv /\ LinkInv
       /\ QueueInv /\ ReadyInv /\ SearchInv /\ SearchExact

\* The head of the queue
LEMMA HeadFacts ==
  ASSUME Inv, phase = "fail", queue # <<>>, NEW c, c = Head(queue)
  PROVE  /\ c = queue[1] /\ c \in nodes \ {Root} /\ c \in Seq(Runes) /\ c \in AllNodes
         /\ Linked(c) /\ Len(c) \in Nat /\ Len(c) > 0
         /\ \A n \in Children(c) : ~Linked(n) /\ n \in AllNodes
         /\ \A n \in nodes \ {Root} : Len(n) <= Len(c) => Linked(n)
<1>1. queue \in Seq(AllNodes) /\ 1 \in DOMAIN queue /\ c = queue[1] /\ nodes \subseteq AllNodes
  BY DEF Inv, TypeOK
<1>2. c \in nodes /\ Linked(c) /\ \A n \in Children(c) : ~Linked(n)
  BY <1>1 DEF Inv, QueueInv
<1>3. c \in AllNodes /\ c # Root
  BY <1>1, <1>2 DEF Inv, LinkInv
<1>4. c \in Seq(Runes) /\ Len(c) \in Nat /\ Len(c) > 0
  BY <1>3, NodeFacts
<1>5. \A n \in Children(c) : n \in AllNodes
  BY <1>1, <1>4, ChildFacts DEF Inv
<1>6. \A n \in nodes \ {Root} : Len(n) <= Len(c) => Linked(n)
  BY <1>1 DEF Inv, QueueInv
<1> QED  BY <1>1, <1>2, <1>3, <1>4, <1>5, <1>6

\* The child n of the queue's head fails to its longest proper suffix, which
\* is linked already.
LEMMA FailTargetFacts ==
  ASSUME Inv, phase = "fail", queue # <<>>, NEW c, c = Head(queue),
         NEW n \in Children(c), NEW t, t = FailTarget(c, Last(n))
  PROVE  /\ IsLongest(t, n, Len(n)) /\ t \in AllNodes /\ t # Nil
         /\ t = Root \/ Linked(t)
         /\ t \notin Children(c)
<1> DEFINE r == Last(n)
           f == fail[c]
           a == FirstAccepting(f, r)
<1>1. /\ c \in nodes \ {Root} /\ c \in Seq(Runes) /\ c \in AllNodes
      /\ Linked(c) /\ Len(c) \in Nat /\ Len(c) > 0
      /\ \A x \in nodes \ {Root} : Len(x) <= Len(c) => Linked(x)
  BY HeadFacts
<1>2. /\ n \in nodes /\ r \in Runes /\ n = Append(c, r) /\ HasChild(c, r) /\ Len(n) = Len(c) + 1
  BY <1>1, ChildFacts DEF Inv
<1>3. nodes \subseteq Seq(Runes) /\ nodes \subseteq AllNodes /\ \A x \in nodes : Len(x) \in Nat
  BY NodeFacts DEF Inv, TypeOK
<1>4. IsLongest(f, c, Len(c)) /\ f \in nodes /\ Len(f) < Len(c) /\ (f = Root \/ Linked(f))
  BY <1>1 DEF Inv, LinkInv, IsLongest
<1> HIDE DEF r, f
<1>5. IsFirst(a, f, r)
  BY <1>2, <1>4, FirstAcceptingIsFirst DEF Inv
<1> HIDE DEF a
<1>6. a # Nil => Append(a, r) # Append(c, r)
  <2>1. ASSUME a # Nil PROVE a \in Seq(Runes) /\ a # c
    <3>1. a \in nodes /\ IsSuffix(a, f)
      BY <1>5, <2>1 DEF IsFirst
    <3>2. Len(a) <= Len(f)
      BY <1>3, <1>4, <3>1, SuffixOrder
    <3> QED  BY <1>1, <1>3, <1>4, <3>1, <3>2
  <2>2. ASSUME a # Nil, Append(a, r) = Append(c, r) PROVE FALSE
    <3>1. a \in Seq(Runes) /\ c \in Seq(Runes) /\ r \in Runes
      BY <1>1, <1>2, <2>1, <2>2
    <3>2. Front(Append(a, r)) = a /\ Front(Append(c, r)) = c
      BY <3>1, FrontLast
    <3> QED  BY <2>1, <2>2, <3>2
  <2> QED  BY <2>2
<1>7. t = IF a = Nil THEN Root ELSE Append(a, r)
  BY <1>6 DEF FailTarget, a, f, r
<1>8. IsLongest(t, n, Len(n))
  BY <1>1, <1>2, <1>4, <1>5, <1>7, LongestStep DEF Inv
<1>9. t \in nodes /\ Len(t) < Len(c) + 1 /\ t \in AllNodes /\ t # Nil /\ Len(t) \in Nat
  BY <1>2, <1>3, <1>8, NodeFacts DEF IsLongest
<1>10. t = Root \/ Linked(t)
  BY <1>1, <1>9
<1>11. t \notin Children(c)
  <2>1. \A x \in Children(c) : Len(x) = Len(c) + 1
    BY <1>1, ChildFacts DEF Inv
  <2> QED  BY <1>1, <1>9, <2>1
<1> QED  BY <1>8, <1>9, <1>10, <1>11

\* A round sets the fail pointers and the outputs of the head's children.
LEMMA FailStepFacts ==
  ASSUME Inv, FailStep, NEW c, c = Head(queue)
  PROVE  /\ \A n \in Children(c) :
              /\ IsLongest(fail'[n], n, Len(n)) /\ fail'[n] \in AllNodes /\ fail'[n] # Nil
              /\ fail'[n] = Root \/ Linked(fail'[n])
              /\ fail'[n] \notin Children(c)
              /\ output'[n] = output[n] \o output[fail'[n]]
         /\ \A n \in AllNodes \ Children(c) : fail'[n] = fail[n] /\ output'[n] = output[n]
         /\ DOMAIN fail' = AllNodes /\ DOMAIN output' = AllNodes
<1> DEFINE target == [n \in Children(c) |-> FailTarget(c, Last(n))]
<1>1. phase = "fail" /\ queue # <<>>
  BY DEF FailStep
<1>2. /\ fail' = [n \in AllNodes |-> IF n \in Children(c) THEN target[n] ELSE fail[n]]
      /\ output' = [n \in AllNodes |->
                      IF n \in Children(c) THEN Merged(n, target[n]) ELSE output[n]]
  BY DEF FailStep
<1>3. \A n \in Children(c) : n \in AllNodes
  BY <1>1, HeadFacts
<1>4. ASSUME NEW n \in Children(c)
      PROVE  /\ IsLongest(fail'[n], n, Len(n)) /\ fail'[n] \in AllNodes /\ fail'[n] # Nil
             /\ fail'[n] = Root \/ Linked(fail'[n])
             /\ fail'[n] \notin Children(c)
             /\ output'[n] = output[n] \o output[fail'[n]]
  <2> DEFINE t == FailTarget(c, Last(n))
  <2>1. fail'[n] = t /\ output'[n] = output[n] \o output[t]
    BY <1>2, <1>3 DEF Merged
  <2> HIDE DEF t
  <2>2. /\ IsLongest(t, n, Len(n)) /\ t \in AllNodes /\ t # Nil
        /\ t = Root \/ Linked(t)
        /\ t \notin Children(c)
    BY <1>1, FailTargetFacts DEF t
  <2> QED  BY <2>1, <2>2
<1>5. \A n \in AllNodes \ Children(c) : fail'[n] = fail[n] /\ output'[n] = output[n]
  BY <1>2
<1>6. DOMAIN fail' = AllNodes /\ DOMAIN output' = AllNodes
  BY <1>2
<1> QED  BY <1>4, <1>5, <1>6

\* A node's own word and the words of its longest proper suffix are all the
\* words that end there, each once.
LEMMA MergedOutput ==
  ASSUME Inv, phase # "insert", NEW n \in nodes \ {Root}, ~Linked(n),
         NEW t, IsLongest(t, n, Len(n)), t = Root \/ Linked(t),
         NEW o, o = output[n] \o output[t]
  PROVE  o \in Seq(Dictionary) /\ ToSet(o) = Ending(n) /\ IsInjective(o)
<1> DEFINE p == output[n]
           q == output[t]
<1>1. /\ n \in AllNodes /\ n \in Seq(Runes) /\ Len(n) \in Nat /\ n # <<>>
      /\ t \in nodes /\ t \in Seq(Runes) /\ Len(t) < Len(n) /\ Len(t) \in Nat
      /\ words \subseteq Dictionary /\ words \subseteq Seq(Runes)
      /\ words \ {<<>>} \subseteq nodes
  BY AutomatonAssumption, NodeFacts DEF Inv, TypeOK, TrieInv, IsLongest, Root
<1>2. /\ q \in Seq(Dictionary) /\ ToSet(q) = Ending(t) /\ IsInjective(q)
  BY <1>1, OutputOfLinked DEF Inv
<1>3. \/ p = <<>> /\ n \notin words
      \/ p = <<n>> /\ n \in words
  BY <1>1 DEF Inv, OwnInv
<1>4. n \notin Ending(t)
  <2>1. ASSUME IsSuffix(n, t) PROVE FALSE
    <3>1. Len(n) <= Len(t)
      BY <1>1, <2>1, SuffixOrder
    <3> QED  BY <1>1, <3>1
  <2> QED  BY <2>1 DEF Ending
<1>5. Ending(n) = Ending(t) \cup ({n} \cap words)
  <2>1. ASSUME NEW w \in words \ {<<>>}, w # n PROVE w \in Ending(n) <=> w \in Ending(t)
    <3>1. w \in Seq(Runes) /\ Len(w) \in Nat
      BY <1>1
    <3>2. Len(w) < Len(n) => (IsSuffix(w, n) <=> w \in Ending(t))
      BY <1>1, EndingOfLongest DEF Inv
    <3>3. ~(Len(w) < Len(n)) => ~IsSuffix(w, n) /\ ~IsSuffix(w, t)
      <4>1. ~(Len(w) < Len(n)) => Len(n) <= Len(w) /\ ~(Len(w) <= Len(t))
        BY <1>1, <3>1
      <4> QED  BY <1>1, <2>1, <3>1, <4>1, SuffixOrder
    <3> QED  BY <3>2, <3>3 DEF Ending
  <2>2. n \in words => n \in Ending(n)
    BY <1>1, SuffixOrder DEF Ending
  <2>3. Ending(n) \subseteq words \ {<<>>} /\ Ending(t) \subseteq words \ {<<>>}
    BY DEF Ending
  <2> QED  BY <1>1, <1>4, <2>1, <2>2, <2>3
<1>6. o = p \o q
  OBVIOUS
<1> HIDE DEF p, q
<1>7. CASE p = <<>> /\ n \notin words
  <2>1. o = q
    BY <1>2, <1>6, <1>7
  <2> QED  BY <1>2, <1>5, <1>7, <2>1
<1>8. CASE p = <<n>> /\ n \in words
  <2>1. n \in Dictionary /\ Len(p) = 1 /\ p \in Seq(Dictionary) /\ p[1] = n
    BY <1>1, <1>8
  <2>2. ToSet(p) = {n} /\ IsInjective(p)
    BY <1>8, SmallOnce
  <2>3. ToSet(p) \cap ToSet(q) = {}
    BY <1>2, <1>4, <2>2
  <2>4. o \in Seq(Dictionary) /\ ToSet(o) = ToSet(p) \cup ToSet(q) /\ IsInjective(o)
    <3>1. p \in Seq(Dictionary) /\ q \in Seq(Dictionary)
      BY <1>2, <2>1
    <3>2. /\ o \in Seq(Dictionary) /\ ToSet(o) = ToSet(p) \cup ToSet(q)
          /\ IsInjective(p) /\ IsInjective(q) /\ ToSet(p) \cap ToSet(q) = {} => IsInjective(o)
      BY <1>6, <3>1, ConcatOnce
    <3> QED  BY <1>2, <2>2, <2>3, <3>2
  <2> QED  BY <1>2, <1>5, <1>8, <2>2, <2>4
<1> QED  BY <1>3, <1>7, <1>8

\* What is linked stays linked, and the head's children are linked too.
LEMMA FailStepLinked ==
  ASSUME Inv, FailStep, NEW c, c = Head(queue)
  PROVE  /\ \A n \in AllNodes : Linked(n)' <=> Linked(n) \/ n \in Children(c)
         /\ \A n \in Children(c) :
              /\ output'[n] \in Seq(Dictionary) /\ ToSet(output'[n]) = Ending(n)
              /\ IsInjective(output'[n])
         /\ \A n \in nodes : Children(n)' = Children(n)
<1>1. phase = "fail" /\ queue # <<>> /\ nodes' = nodes
  BY DEF FailStep
<1>2. /\ c \in Seq(Runes) /\ \A n \in Children(c) : ~Linked(n) /\ n \in AllNodes
  BY <1>1, HeadFacts
<1>3. /\ \A n \in Children(c) :
           /\ IsLongest(fail'[n], n, Len(n)) /\ fail'[n] # Nil
           /\ fail'[n] = Root \/ Linked(fail'[n])
           /\ output'[n] = output[n] \o output[fail'[n]]
      /\ \A n \in AllNodes \ Children(c) : fail'[n] = fail[n]
  BY FailStepFacts
<1>4. \A n \in AllNodes : Linked(n)' <=> Linked(n) \/ n \in Children(c)
  BY <1>3 DEF Linked
<1>5. ASSUME NEW n \in Children(c)
      PROVE  /\ output'[n] \in Seq(Dictionary) /\ ToSet(output'[n]) = Ending(n)
             /\ IsInjective(output'[n])
  <2>1. n \in nodes \ {Root} /\ ~Linked(n)
    BY <1>2, ChildFacts DEF Inv
  <2> DEFINE t == fail'[n]
             o == output'[n]
  <2>2. IsLongest(t, n, Len(n)) /\ (t = Root \/ Linked(t)) /\ o = output[n] \o output[t]
    BY <1>3
  <2> HIDE DEF t, o
  <2>3. o \in Seq(Dictionary) /\ ToSet(o) = Ending(n) /\ IsInjective(o)
    BY <1>1, <2>1, <2>2, MergedOutput
  <2> QED  BY <2>3 DEF o
<1>6. \A n \in nodes : Children(n)' = Children(n)
  BY <1>1 DEF Children, HasChild
<1> QED  BY <1>4, <1>5, <1>6

\* A round keeps the types, the trie and what is not linked.
LEMMA FailStepType ==
  ASSUME Inv, FailStep
  PROVE  TypeOK' /\ TrieInv' /\ OwnInv' /\ InsertInv' /\ ReadyInv' /\ SearchInv' /\ SearchExact'
<1> DEFINE c == Head(queue)
<1>1. /\ phase = "fail" /\ queue # <<>> /\ phase' = phase /\ nodes' = nodes /\ words' = words
      /\ text' = text /\ pos' = pos /\ curr' = curr /\ results' = results
  BY DEF FailStep, searchVars
<1>2. /\ c \in Seq(Runes) /\ \A n \in Children(c) : ~Linked(n) /\ n \in AllNodes
      /\ IsFiniteSet(Children(c))
  BY <1>1, HeadFacts, ChildFacts DEF Inv
<1>3. /\ \A n \in Children(c) : fail'[n] \in AllNodes
      /\ \A n \in AllNodes \ Children(c) : fail'[n] = fail[n] /\ output'[n] = output[n]
      /\ DOMAIN fail' = AllNodes /\ DOMAIN output' = AllNodes
  BY FailStepFacts
<1>4. /\ \A n \in AllNodes : Linked(n)' <=> Linked(n) \/ n \in Children(c)
      /\ \A n \in Children(c) : output'[n] \in Seq(Dictionary)
  BY FailStepLinked
<1>5. PICK order \in SetToSeqs(Children(c)) : queue' = Tail(queue) \o order
  BY DEF FailStep, Enqueue
<1>6. TypeOK'
  <2>1. fail \in [AllNodes -> AllNodes \cup {Nil}] /\ output \in [AllNodes -> Seq(Dictionary)]
        /\ queue \in Seq(AllNodes)
    BY DEF Inv, TypeOK
  <2>2. fail' = [n \in AllNodes |-> fail'[n]] /\ output' = [n \in AllNodes |-> output'[n]]
    BY <1>3 DEF FailStep
  <2>3. \A n \in AllNodes : fail'[n] \in AllNodes \cup {Nil} /\ output'[n] \in Seq(Dictionary)
    BY <1>3, <1>4, <2>1
  <2>4. fail' \in [AllNodes -> AllNodes \cup {Nil}] /\ output' \in [AllNodes -> Seq(Dictionary)]
    BY <2>2, <2>3
  <2>5. order \in Seq(Children(c))
    BY <1>2, OrderFacts
  <2>6. order \in Seq(AllNodes)
    BY <1>2, <2>5, SeqMonotonic
  <2>7. Tail(queue) \in Seq(AllNodes)
    BY <1>1, <2>1
  <2>8. queue' \in Seq(AllNodes)
    BY <1>5, <2>6, <2>7
  <2> QED  BY <1>1, <2>4, <2>8 DEF Inv, TypeOK
<1>7. TrieInv'
  BY <1>1 DEF Inv, TrieInv
<1>8. OwnInv'
  <2> SUFFICES ASSUME NEW n \in AllNodes, ~Linked(n)'
               PROVE  \/ output'[n] = <<>> /\ (phase' = "insert" \/ n \notin words' \ {<<>>})
                      \/ output'[n] = <<n>> /\ n \in (nodes' \cap words') \ {<<>>}
    BY DEF OwnInv
  <2>1. ~Linked(n) /\ n \notin Children(c)
    BY <1>4
  <2>2. output'[n] = output[n]
    BY <1>3, <2>1
  <2> QED  BY <1>1, <2>1, <2>2 DEF Inv, OwnInv
<1>9. InsertInv' /\ ReadyInv'
  BY <1>1 DEF InsertInv, ReadyInv, Built
<1>10. SearchInv' /\ SearchExact'
  BY <1>1 DEF Inv, SearchInv, SearchExact
<1> QED  BY <1>6, <1>7, <1>8, <1>9, <1>10

\* A round keeps the linked nodes correct and links the children correctly.
LEMMA FailStepLink ==
  ASSUME Inv, FailStep
  PROVE  LinkInv'
<1> DEFINE c == Head(queue)
<1>1. phase = "fail" /\ queue # <<>> /\ nodes' = nodes /\ words' = words
  BY DEF FailStep
<1>2. /\ c \in nodes /\ c \in Seq(Runes) /\ c \in AllNodes /\ Linked(c)
      /\ \A n \in Children(c) : n \in AllNodes
  BY <1>1, HeadFacts
<1>3. /\ \A n \in Children(c) :
           /\ IsLongest(fail'[n], n, Len(n)) /\ fail'[n] \in AllNodes
           /\ fail'[n] = Root \/ Linked(fail'[n])
      /\ \A n \in AllNodes \ Children(c) : fail'[n] = fail[n] /\ output'[n] = output[n]
  BY FailStepFacts
<1>4. /\ \A n \in AllNodes : Linked(n)' <=> Linked(n) \/ n \in Children(c)
      /\ \A n \in Children(c) : ToSet(output'[n]) = Ending(n) /\ IsInjective(output'[n])
  BY FailStepLinked
<1>5. \A n \in AllNodes : Ending(n)' = Ending(n)
  BY <1>1 DEF Ending
<1>6. \A m, n, k : IsLongest(m, n, k) =>
        /\ m \in nodes' /\ Len(m) < k /\ IsSuffix(m, n)
        /\ \A x \in nodes' : Len(x) < k /\ IsSuffix(x, n) => Len(x) <= Len(m)
  BY <1>1 DEF IsLongest
<1>7. \A m \in AllNodes : Linked(m) => fail'[m] # Nil
  BY <1>4 DEF Linked
<1> SUFFICES ASSUME NEW n \in AllNodes, fail'[n] # Nil
             PROVE  /\ n \in nodes \ {Root}
                    /\ IsLongest(fail'[n], n, Len(n))
                    /\ fail'[n] = Root \/ fail'[fail'[n]] # Nil
                    /\ Front(n) = Root \/ fail'[Front(n)] # Nil
                    /\ ToSet(output'[n]) = Ending(n) /\ IsInjective(output'[n])
  BY <1>1, <1>5, <1>6 DEF LinkInv, Linked, IsLongest
<1>8. CASE n \in Children(c)
  <2>1. n \in nodes \ {Root} /\ Front(n) = c
    BY <1>2, <1>8, ChildFacts DEF Inv
  <2>2. fail'[n] = Root \/ fail'[fail'[n]] # Nil
    BY <1>3, <1>7, <1>8
  <2> QED  BY <1>2, <1>3, <1>4, <1>7, <1>8, <2>1, <2>2
<1>9. CASE n \notin Children(c)
  <2>1. fail'[n] = fail[n] /\ output'[n] = output[n] /\ Linked(n)
    BY <1>3, <1>9 DEF Linked
  <2>2. /\ n \in nodes \ {Root}
        /\ IsLongest(fail[n], n, Len(n))
        /\ fail[n] = Root \/ Linked(fail[n])
        /\ Front(n) = Root \/ Linked(Front(n))
        /\ ToSet(output[n]) = Ending(n) /\ IsInjective(output[n])
    BY <2>1 DEF Inv, LinkInv
  <2>3. fail[n] \in AllNodes /\ Front(n) \in AllNodes
    BY <2>2 DEF Inv, TypeOK, TrieInv, IsLongest
  <2> QED  BY <1>7, <2>1, <2>2, <2>3
<1> QED  BY <1>8, <1>9

\* After a round the queue is the rest of the old one and the head's children.
LEMMA FailStepElements ==
  ASSUME Inv, FailStep, NEW c, c = Head(queue)
  PROVE  /\ ToSet(queue') = ToSet(Tail(queue)) \cup Children(c)
         /\ IsInjective(queue') /\ DOMAIN queue' = 1..Len(queue') /\ Len(queue') \in Nat
         /\ ToSet(queue) = ToSet(Tail(queue)) \cup {c} /\ c \notin ToSet(Tail(queue))
         /\ Len(queue) \in Nat /\ Len(queue) > 0
         /\ \A i \in 1..(Len(queue) - 1) : i \in 1..Len(queue') /\ queue'[i] = queue[i + 1]
         /\ \A i \in 1..Len(queue') : ~(i <= Len(queue) - 1) => queue'[i] \in Children(c)
<1> DEFINE T == Tail(queue)
           n == Len(queue)
<1>1. phase = "fail" /\ queue # <<>>
  BY DEF FailStep
<1>2. /\ c = queue[1] /\ c \in Seq(Runes)
      /\ \A x \in Children(c) : ~Linked(x) /\ x \in AllNodes
      /\ IsFiniteSet(Children(c))
  BY <1>1, HeadFacts, ChildFacts DEF Inv
<1>3. PICK order \in SetToSeqs(Children(c)) : queue' = T \o order
  BY DEF FailStep, Enqueue
<1>4. /\ order \in Seq(Children(c)) /\ IsInjective(order) /\ ToSet(order) = Children(c)
  BY <1>2, OrderFacts
<1>5. order \in Seq(AllNodes)
  BY <1>2, <1>4, SeqMonotonic
<1>6. queue \in Seq(AllNodes) /\ IsInjective(queue) /\ \A x \in ToSet(queue) : Linked(x)
  BY <1>1 DEF Inv, TypeOK, QueueInv, ToSet
<1>7. /\ n \in Nat /\ n > 0 /\ T \in Seq(AllNodes) /\ Len(T) = n - 1 /\ DOMAIN queue = 1..n
      /\ DOMAIN T = 1..(n - 1) /\ \A i \in 1..(n - 1) : T[i] = queue[i + 1]
  BY <1>1, <1>6
<1> HIDE DEF T, n
<1>8. \A i \in 1..(n - 1) : i + 1 \in 1..n /\ i + 1 # 1
  BY <1>7
<1>9. IsInjective(T)
  <2> SUFFICES ASSUME NEW i \in DOMAIN T, NEW j \in DOMAIN T, T[i] = T[j] PROVE i = j
    BY DEF IsInjective
  <2>1. i + 1 = j + 1
    BY <1>6, <1>7, <1>8 DEF IsInjective
  <2> QED  BY <1>7, <2>1
<1>10. ToSet(queue) = ToSet(T) \cup {c} /\ c \notin ToSet(T)
  <2>1. \A k \in 1..n : k = 1 \/ (k - 1 \in 1..(n - 1) /\ (k - 1) + 1 = k)
    BY <1>7
  <2>2. ASSUME NEW k \in 1..n PROVE queue[k] = c \/ queue[k] \in ToSet(T)
    <3>1. k # 1 => T[k - 1] = queue[k] /\ k - 1 \in DOMAIN T
      BY <1>7, <2>1
    <3> QED  BY <1>2, <3>1 DEF ToSet
  <2>3. 1 \in 1..n
    BY <1>7
  <2>4. ToSet(T) \subseteq ToSet(queue) /\ c \in ToSet(queue)
    BY <1>2, <1>7, <1>8, <2>3 DEF ToSet
  <2>5. ToSet(queue) \subseteq ToSet(T) \cup {c}
    BY <1>7, <2>2 DEF ToSet
  <2>6. ASSUME NEW i \in DOMAIN T, T[i] = c PROVE FALSE
    <3>1. queue[i + 1] = queue[1] /\ i + 1 \in DOMAIN queue /\ 1 \in DOMAIN queue
      BY <1>2, <1>7, <1>8, <2>3, <2>6
    <3>2. i + 1 = 1
      BY <1>6, <3>1 DEF IsInjective
    <3> QED  BY <1>7, <1>8, <3>2
  <2> QED  BY <2>4, <2>5, <2>6 DEF ToSet
<1>11. ToSet(T) \cap ToSet(order) = {}
  BY <1>2, <1>4, <1>6, <1>10
<1> DEFINE o == T \o order
<1>12. /\ o \in Seq(AllNodes) /\ ToSet(o) = ToSet(T) \cup ToSet(order)
       /\ IsInjective(T) /\ IsInjective(order) /\ ToSet(T) \cap ToSet(order) = {} => IsInjective(o)
  BY <1>5, <1>7, ConcatOnce
<1>13. /\ Len(o) = (n - 1) + Len(order) /\ Len(order) \in Nat
       /\ \A i \in 1..((n - 1) + Len(order)) :
            o[i] = IF i <= n - 1 THEN T[i] ELSE order[i - (n - 1)]
  <2>1. Len(order) \in Nat
    BY <1>5
  <2>2. /\ Len(T \o order) = Len(T) + Len(order)
        /\ \A i \in 1..(Len(T) + Len(order)) :
             (T \o order)[i] = IF i <= Len(T) THEN T[i] ELSE order[i - Len(T)]
    BY <1>5, <1>7, ConcatProperties
  <2> QED  BY <1>7, <2>1, <2>2
<1>14. \A i \in 1..(n - 1) : i \in 1..Len(o) /\ o[i] = queue[i + 1]
  <2>1. \A i \in 1..(n - 1) : i \in 1..((n - 1) + Len(order)) /\ i <= n - 1
    BY <1>7, <1>13
  <2> QED  BY <1>7, <1>13, <2>1
<1>15. ASSUME NEW i \in 1..Len(o), ~(i <= n - 1) PROVE o[i] \in Children(c)
  <2>1. i - (n - 1) \in 1..Len(order) /\ i \in 1..((n - 1) + Len(order))
    BY <1>7, <1>13, <1>15
  <2>2. o[i] = order[i - (n - 1)]
    BY <1>13, <1>15, <2>1
  <2> QED  BY <1>4, <2>1, <2>2, ElementOfSeq
<1>16. DOMAIN o = 1..Len(o) /\ Len(o) \in Nat
  BY <1>12
<1> HIDE DEF o
<1>17. queue' = o
  BY <1>3 DEF o
<1> QED  BY <1>4, <1>7, <1>9, <1>10, <1>11, <1>12, <1>14, <1>15, <1>16, <1>17 DEF T, n

\* A round keeps the queue breadth first and complete.
LEMMA FailStepQueue ==
  ASSUME Inv, FailStep
  PROVE  QueueInv'
<1> DEFINE c == Head(queue)
           n == Len(queue)
           q == queue'
<1>1. phase = "fail" /\ queue # <<>> /\ nodes' = nodes
  BY DEF FailStep
<1>2. /\ c = queue[1] /\ c \in nodes \ {Root} /\ c \in Seq(Runes) /\ c \in AllNodes
      /\ Linked(c) /\ Len(c) \in Nat /\ Len(c) > 0
      /\ \A x \in Children(c) : ~Linked(x) /\ x \in AllNodes
      /\ \A x \in nodes \ {Root} : Len(x) <= Len(c) => Linked(x)
  BY <1>1, HeadFacts
<1>3. /\ \A x \in AllNodes : Linked(x)' <=> Linked(x) \/ x \in Children(c)
      /\ \A x \in nodes : Children(x)' = Children(x)
  BY FailStepLinked
<1>4. /\ ToSet(q) = ToSet(Tail(queue)) \cup Children(c)
      /\ IsInjective(q) /\ DOMAIN q = 1..Len(q) /\ Len(q) \in Nat
      /\ ToSet(queue) = ToSet(Tail(queue)) \cup {c} /\ c \notin ToSet(Tail(queue))
      /\ n \in Nat /\ n > 0
      /\ \A i \in 1..(n - 1) : i \in 1..Len(q) /\ q[i] = queue[i + 1]
      /\ \A i \in 1..Len(q) : ~(i <= n - 1) => q[i] \in Children(c)
  BY FailStepElements
<1>5. nodes \subseteq AllNodes /\ nodes \subseteq Seq(Runes) /\ Root \in nodes
      /\ \A x \in nodes : Len(x) \in Nat
  BY NodeFacts DEF Inv, TypeOK, TrieInv
<1>6. \A x \in Children(c) : x \in nodes /\ x # Root /\ Front(x) = c /\ Len(x) = Len(c) + 1
  BY <1>2, ChildFacts DEF Inv
<1>7. /\ \A x \in Children(Root) : Linked(x)
      /\ \A x \in nodes \ {Root} : Linked(x) /\ x \notin ToSet(queue) =>
           \A y \in Children(x) : Linked(y)
      /\ IsInjective(queue) /\ DOMAIN queue = 1..n
      /\ \A i \in 1..n :
           /\ queue[i] \in nodes /\ Linked(queue[i])
           /\ \A x \in Children(queue[i]) : ~Linked(x)
           /\ \A j \in i..n :
                Len(queue[i]) <= Len(queue[j]) /\ Len(queue[j]) <= Len(queue[i]) + 1
  <2>1. queue \in Seq(AllNodes)
    BY DEF Inv, TypeOK
  <2>2. DOMAIN queue = 1..n
    BY <2>1
  <2> QED  BY <1>1, <2>2 DEF Inv, QueueInv
<1>8. \A x \in nodes : \A y \in Children(x) :
        y \in nodes /\ y \in AllNodes /\ y # Root /\ Front(y) = x /\ Len(y) = Len(x) + 1
  BY <1>5, ChildFacts DEF Inv
<1> HIDE DEF c, n, q
\* the children of the root
<1>9. \A x \in Children(Root) : Linked(x)'
  BY <1>3, <1>5, <1>7, <1>8
\* the linked nodes that are not queued
<1>10. ASSUME NEW x \in nodes \ {Root}, Linked(x)', x \notin ToSet(q), NEW y \in Children(x)
       PROVE  Linked(y)'
  <2>1. Linked(x) /\ x \notin ToSet(Tail(queue)) /\ y \in AllNodes
    BY <1>3, <1>4, <1>5, <1>8, <1>10
  <2>2. CASE x = c
    BY <1>3, <1>10, <2>1, <2>2
  <2>3. CASE x # c
    BY <1>3, <1>4, <1>7, <1>10, <2>1, <2>3
  <2> QED  BY <2>2, <2>3
\* an element of the queue
<1>11. ASSUME NEW x \in ToSet(q)
       PROVE  x \in nodes /\ Linked(x)' /\ \A y \in Children(x) : ~Linked(y)'
  <2>1. CASE x \in Children(c)
    <3>1. x \in nodes /\ Linked(x)' /\ x # Root /\ Len(x) = Len(c) + 1 /\ ~Linked(x)
      BY <1>2, <1>3, <1>6, <2>1
    <3>2. ASSUME NEW y \in Children(x) PROVE ~Linked(y)'
      <4>1. y \in AllNodes /\ Front(y) = x /\ Len(y) = Len(x) + 1
        BY <1>8, <3>1
      <4>2. ~Linked(y)
        BY <3>1, <4>1 DEF Inv, LinkInv
      <4>3. y \notin Children(c)
        BY <1>2, <1>6, <3>1, <4>1
      <4> QED  BY <1>3, <4>1, <4>2, <4>3
    <3> QED  BY <3>1, <3>2
  <2>2. CASE x \in ToSet(Tail(queue))
    <3>1. x \in ToSet(queue) /\ x # c
      BY <1>4, <2>2
    <3>2. PICK i \in 1..n : x = queue[i]
      BY <1>7, <3>1 DEF ToSet
    <3>3. x \in nodes /\ Linked(x) /\ \A y \in Children(x) : ~Linked(y)
      BY <1>7, <3>2
    <3>4. ASSUME NEW y \in Children(x) PROVE y \notin Children(c)
      BY <1>6, <1>8, <3>1, <3>3
    <3> QED  BY <1>3, <1>5, <1>8, <3>3, <3>4
  <2> QED  BY <1>4, <2>1, <2>2
\* the order of the queue
<1>12. ASSUME NEW i \in 1..Len(q)
       PROVE  /\ Len(q[i]) \in Nat /\ Len(c) <= Len(q[i]) /\ Len(q[i]) <= Len(c) + 1
              /\ ~(i <= n - 1) => Len(q[i]) = Len(c) + 1
  <2>1. CASE i <= n - 1
    <3>1. i \in 1..(n - 1) /\ i + 1 \in 1..n /\ 1 \in 1..n /\ i + 1 \in 1..n
      BY <1>4, <2>1
    <3>2. q[i] = queue[i + 1] /\ queue[i + 1] \in nodes
      BY <1>4, <1>7, <3>1
    <3>3. Len(queue[1]) <= Len(queue[i + 1]) /\ Len(queue[i + 1]) <= Len(queue[1]) + 1
      BY <1>7, <3>1
    <3> QED  BY <1>2, <1>5, <2>1, <3>2, <3>3
  <2>2. CASE ~(i <= n - 1)
    <3>1. q[i] \in Children(c)
      BY <1>4, <2>2
    <3>2. Len(q[i]) = Len(c) + 1
      BY <1>6, <3>1
    <3> QED  BY <1>2, <3>2
  <2> QED  BY <2>1, <2>2
<1>13. ASSUME NEW i \in 1..Len(q), NEW j \in i..Len(q)
       PROVE  Len(q[i]) <= Len(q[j]) /\ Len(q[j]) <= Len(q[i]) + 1
  <2>1. j \in 1..Len(q) /\ i <= j
    BY <1>4
  <2>2. CASE j <= n - 1
    <3>1. /\ i \in 1..(n - 1) /\ j \in 1..(n - 1) /\ i + 1 \in 1..n /\ j + 1 \in (i + 1)..n
      BY <1>4, <2>1, <2>2
    <3>2. q[i] = queue[i + 1] /\ q[j] = queue[j + 1]
      BY <1>4, <3>1
    <3> QED  BY <1>7, <3>1, <3>2
  <2>3. CASE ~(j <= n - 1)
    <3>1. Len(q[j]) = Len(c) + 1
      BY <1>12, <2>1, <2>3
    <3>2. Len(q[i]) \in Nat /\ Len(c) <= Len(q[i]) /\ Len(q[i]) <= Len(c) + 1
      BY <1>12
    <3> QED  BY <1>2, <3>1, <3>2
  <2> QED  BY <2>2, <2>3
\* what is not longer than the next head
<1>14. ASSUME q # <<>>, NEW x \in nodes \ {Root}, Len(x) <= Len(q[1]) PROVE Linked(x)'
  <2>1. 1 \in 1..Len(q) /\ Len(q) > 0
    <3>1. Len(q) # 0
      <4>1. queue' \in Seq(AllNodes)
        BY FailStepType DEF TypeOK
      <4> QED  BY <1>14, <4>1 DEF q
    <3> QED  BY <1>4, <3>1
  <2>2. CASE Len(x) <= Len(c)
    BY <1>2, <1>3, <1>5, <2>2
  <2>3. CASE ~(Len(x) <= Len(c))
    <3>1. Len(q[1]) \in Nat /\ Len(q[1]) <= Len(c) + 1
      BY <1>12, <2>1
    <3>2. Len(x) = Len(c) + 1 /\ Len(q[1]) = Len(c) + 1
      BY <1>2, <1>5, <1>14, <2>3, <3>1
    <3> DEFINE p == Front(x)
    <3>3. p \in nodes /\ Len(p) = Len(x) - 1 /\ x \in Seq(Runes)
      BY <1>5, FrontLast DEF Inv, TrieInv, Root
    <3> HIDE DEF p
    <3>4. Len(p) = Len(c) /\ p # Root
      BY <1>2, <3>2, <3>3, NodeFacts
    <3>5. Linked(p)
      BY <1>2, <3>3, <3>4
    <3>6. x \in Children(p)
      <4>1. p \in Seq(Runes)
        BY <1>5, <3>3
      <4> QED  BY <4>1, ChildFacts DEF Inv, p
    <3>7. CASE p = c
      BY <1>3, <1>5, <3>6, <3>7
    <3>8. CASE p # c /\ p \notin ToSet(queue)
      BY <1>3, <1>5, <1>7, <3>3, <3>4, <3>5, <3>6, <3>8
    <3>9. CASE p # c /\ p \in ToSet(queue)
      <4>1. PICK k \in 1..n : p = queue[k]
        BY <1>7, <3>9 DEF ToSet
      <4>2. k # 1
        BY <1>2, <3>9, <4>1
      <4>3. 1 \in 1..(n - 1) /\ 2 \in 1..n /\ k \in 2..n /\ 1 + 1 = 2
        BY <1>4, <4>1, <4>2
      <4>4. q[1] = queue[2]
        BY <1>4, <4>3
      <4>5. Len(queue[2]) <= Len(queue[k])
        BY <1>7, <4>3
      <4> QED  BY <1>2, <3>2, <3>4, <4>1, <4>4, <4>5
    <3> QED  BY <3>7, <3>8, <3>9
  <2> QED  BY <2>2, <2>3
<1>15. \A i \in DOMAIN q : q[i] \in ToSet(q)
  BY DEF ToSet
<1>16. \A z : {Append(z, r) : r \in {r \in Runes : Append(z, r) \in nodes'}} = Children(z)
  BY <1>1 DEF Children, HasChild
<1>17. ASSUME NEW i \in DOMAIN q
       PROVE  q[i] \in nodes /\ fail'[q[i]] # Nil /\ \A y \in Children(q[i]) : fail'[y] = Nil
  <2>1. \A x \in ToSet(q) : x \in nodes /\ fail'[x] # Nil /\ \A y \in Children(x) : fail'[y] = Nil
    BY <1>11 DEF Linked
  <2> QED  BY <1>15, <2>1
<1>18. /\ \A x \in Children(Root) : fail'[x] # Nil
       /\ \A x \in nodes \ {Root} : fail'[x] # Nil /\ x \notin ToSet(q) =>
            \A y \in Children(x) : fail'[y] # Nil
       /\ q # <<>> => \A x \in nodes \ {Root} : Len(x) <= Len(q[1]) => fail'[x] # Nil
  BY <1>9, <1>10, <1>14 DEF Linked
<1> QED
  BY <1>1, <1>4, <1>13, <1>16, <1>17, <1>18 DEF QueueInv, Linked, Children, HasChild, q

\* The words are inserted one by one.
LEMMA InsertStep ==
  ASSUME Inv, NEW w \in words, Insert(w)
  PROVE  Inv'
<1>1. /\ phase = "insert" /\ w \in words /\ output[w] = <<>> /\ w # <<>>
      /\ nodes' = nodes \cup Path(w) /\ output' = [output EXCEPT ![w] = Append(@, w)]
      /\ words' = words /\ phase' = phase /\ fail' = fail /\ queue' = queue
      /\ text' = text /\ pos' = pos /\ curr' = curr /\ results' = results
  BY DEF Insert, Inserted, searchVars
<1>2. w \in Dictionary /\ w \in AllNodes /\ w \in Seq(Runes) /\ Path(w) \subseteq AllNodes
  BY <1>1, NodeFacts DEF Inv, TypeOK, AllNodes
<1>3. output \in [AllNodes -> Seq(Dictionary)] /\ nodes \subseteq AllNodes
  BY DEF Inv, TypeOK
<1>4. output' = [output EXCEPT ![w] = <<w>>] /\ <<w>> \in Seq(Dictionary)
  <2>1. Append(output[w], w) = <<w>>
    BY <1>1
  <2> QED  BY <1>1, <1>2, <2>1
<1>5. /\ output' \in [AllNodes -> Seq(Dictionary)] /\ output'[w] = <<w>>
      /\ \A n \in AllNodes : n # w => output'[n] = output[n]
  BY <1>2, <1>3, <1>4
<1>6. TypeOK'
  BY <1>1, <1>2, <1>3, <1>5 DEF Inv, TypeOK
<1>7. w \in nodes'
  <2>1. Len(w) \in 0..Len(w) /\ SubSeq(w, 1, Len(w)) = w
    BY <1>2, SubSeqFull
  <2> QED  BY <1>1, <2>1 DEF Path
<1>8. TrieInv'
  <2>1. Root \in nodes'
    BY <1>1 DEF Inv, TrieInv
  <2>2. ASSUME NEW n \in nodes' \ {Root} PROVE Front(n) \in nodes'
    <3>1. CASE n \in nodes
      BY <1>1, <3>1 DEF Inv, TrieInv
    <3>2. CASE n \in Path(w)
      <4>1. PICK k \in 0..Len(w) : n = SubSeq(w, 1, k)
        BY <3>2 DEF Path
      <4>2. Len(w) \in Nat /\ n \in Seq(Runes) /\ Len(n) = k /\ \A i \in 1..k : n[i] = w[i]
        BY <1>2, <4>1
      <4>3. k > 0 /\ k - 1 \in 0..Len(w)
        <5>1. n # <<>>
          BY DEF Root
        <5> QED  BY <4>2, <5>1
      <4> DEFINE f == Front(n)
                 j == k - 1
                 g == SubSeq(w, 1, j)
      <4>4. f \in Seq(Runes) /\ Len(f) = j /\ \A i \in 1..j : f[i] = n[i]
        <5>1. n = Append(f, Last(n)) /\ f \in Seq(Runes) /\ Len(f) = j /\ Last(n) \in Runes
          BY <4>2, FrontLast DEF Root
        <5> HIDE DEF f, j
        <5>2. \A i \in 1..j : Append(f, Last(n))[i] = f[i]
          BY <5>1
        <5> QED  BY <5>1, <5>2
      <4>5. j \in 0..Len(w) /\ \A i \in 1..j : i \in 1..k
        BY <4>3
      <4>6. g \in Seq(Runes) /\ Len(g) = j /\ \A i \in 1..j : g[i] = w[i]
        <5> HIDE DEF j
        <5> QED  BY <1>2, <4>5
      <4> HIDE DEF f, g, j
      <4>7. f = g
        BY <4>2, <4>4, <4>5, <4>6, SeqEqual
      <4>8. g \in Path(w)
        BY <4>5 DEF g, Path
      <4> QED  BY <1>1, <4>7, <4>8 DEF f
    <3> QED  BY <1>1, <3>1, <3>2
  <2> QED  BY <1>1, <2>1, <2>2 DEF TrieInv
<1>9. \A n \in AllNodes : fail[n] = Nil
  BY <1>1 DEF Inv, InsertInv, Linked
<1>10. OwnInv'
  <2> SUFFICES ASSUME NEW n \in AllNodes
               PROVE  \/ output'[n] = <<>> /\ phase' = "insert"
                      \/ output'[n] = <<n>> /\ n \in (nodes' \cap words') \ {<<>>}
    BY DEF OwnInv
  <2>1. CASE n = w
    BY <1>1, <1>5, <1>7, <2>1
  <2>2. CASE n # w
    <3>1. \/ output[n] = <<>>
          \/ output[n] = <<n>> /\ n \in (nodes \cap words) \ {<<>>}
      BY <1>9 DEF Inv, OwnInv, Linked
    <3> QED  BY <1>1, <1>5, <2>2, <3>1
  <2> QED  BY <2>1, <2>2
<1>11. InsertInv' /\ LinkInv' /\ QueueInv' /\ ReadyInv'
  BY <1>1, <1>9 DEF Inv, InsertInv, LinkInv, QueueInv, ReadyInv, Built, Linked
<1>12. SearchInv' /\ SearchExact'
  BY <1>1 DEF Inv, SearchInv, SearchExact
<1> QED  BY <1>6, <1>8, <1>10, <1>11, <1>12 DEF Inv

\* The root's children fail to the root and are queued.
LEMMA QueueRootStep ==
  ASSUME Inv, QueueRoot
  PROVE  Inv'
<1> DEFINE C == Children(Root)
<1>1. /\ phase = "insert" /\ words \ Inserted \subseteq {<<>>}
      /\ fail' = [n \in AllNodes |-> IF n \in C THEN Root ELSE fail[n]]
      /\ queue' \in SetToSeqs(C) /\ phase' = "fail"
      /\ words' = words /\ nodes' = nodes /\ output' = output
      /\ text' = text /\ pos' = pos /\ curr' = curr /\ results' = results
  BY DEF QueueRoot, searchVars
<1>2. /\ Root \in Seq(Runes) /\ Len(Root) = 0 /\ Root \in AllNodes /\ Root \in nodes /\ Root # Nil
      /\ nodes \subseteq AllNodes /\ nodes \subseteq Seq(Runes)
      /\ \A n \in nodes : Len(n) \in Nat /\ (n # Root => Len(n) > 0)
  BY NodeFacts DEF Inv, TypeOK, TrieInv
<1>3. /\ IsFiniteSet(C)
      /\ \A n \in C : n \in nodes /\ n # Root /\ Front(n) = Root /\ Len(n) = 1
      /\ \A n \in nodes : n # Root /\ Front(n) = Root => n \in C
  <2>1. /\ IsFiniteSet(C)
        /\ \A n \in C : n \in nodes /\ n # Root /\ Front(n) = Root /\ Len(n) = Len(Root) + 1
        /\ \A n \in nodes : n # Root /\ Front(n) = Root => n \in C
    BY <1>2, ChildFacts DEF Inv
  <2>2. Len(Root) + 1 = 1
    BY <1>2
  <2> HIDE DEF C
  <2> QED  BY <2>1, <2>2
<1> HIDE DEF C
<1>4. \A n \in AllNodes : fail[n] = Nil
  BY <1>1 DEF Inv, InsertInv, Linked
<1>5. /\ fail' \in [AllNodes -> AllNodes \cup {Nil}]
      /\ \A n \in AllNodes : fail'[n] = IF n \in C THEN Root ELSE Nil
  BY <1>1, <1>2, <1>4
<1>6. /\ queue' \in Seq(C) /\ IsInjective(queue') /\ ToSet(queue') = C
      /\ DOMAIN queue' = 1..Len(queue')
  BY <1>1, <1>3, OrderFacts
<1>7. queue' \in Seq(AllNodes) /\ \A i \in DOMAIN queue' : queue'[i] \in C
  <2>1. C \subseteq AllNodes
    BY <1>2, <1>3
  <2> QED  BY <1>6, <2>1, SeqMonotonic, ElementOfSeq
<1>8. TypeOK'
  BY <1>1, <1>5, <1>7 DEF Inv, TypeOK
<1>9. words \subseteq AllNodes /\ words \subseteq Seq(Runes)
  BY NodeFacts DEF Inv, TypeOK
<1>10. ASSUME NEW w \in words \ {<<>>} PROVE output[w] = <<w>> /\ w \in nodes
  <2>1. output[w] # <<>>
    BY <1>1 DEF Inserted
  <2> QED  BY <1>4, <1>9, <2>1 DEF Inv, OwnInv, Linked
<1>11. TrieInv'
  BY <1>1, <1>10 DEF Inv, TrieInv
<1>12. \A n \in AllNodes : \/ output[n] = <<>> /\ n \notin words \ {<<>>}
                           \/ output[n] = <<n>> /\ n \in (nodes \cap words) \ {<<>>}
  <2>1. \A w : <<w>> # <<>>
    OBVIOUS
  <2>2. ASSUME NEW n \in AllNodes
        PROVE  \/ output[n] = <<>>
               \/ output[n] = <<n>> /\ n \in (nodes \cap words) \ {<<>>}
    BY <1>4 DEF Inv, OwnInv, Linked
  <2>3. \A n \in words \ {<<>>} : output[n] # <<>>
    BY <1>10, <2>1
  <2> QED  BY <2>2, <2>3
<1>13. OwnInv'
  BY <1>1, <1>12 DEF OwnInv
<1>14. InsertInv' /\ ReadyInv'
  BY <1>1 DEF InsertInv, ReadyInv, Built
<1>15. ASSUME NEW n \in C
       PROVE  /\ IsLongest(Root, n, Len(n))
              /\ ToSet(output[n]) = Ending(n) /\ IsInjective(output[n])
  <2>1. n \in nodes /\ n \in Seq(Runes) /\ Len(n) = 1 /\ n # <<>> /\ n \in AllNodes
    BY <1>2, <1>3 DEF Root
  <2>2. IsSuffix(Root, n) /\ IsSuffix(n, n)
    BY <2>1, SuffixOrder DEF Root
  <2>3. IsLongest(Root, n, Len(n))
    <3>1. \A x \in nodes : Len(x) < 1 => Len(x) <= 0
      BY <1>2
    <3> QED  BY <1>2, <2>1, <2>2, <3>1 DEF IsLongest
  <2>4. ASSUME NEW w \in words \ {<<>>}, IsSuffix(w, n) PROVE w = n
    <3>1. w \in Seq(Runes) /\ Len(w) \in Nat /\ Len(w) # 0
      BY <1>9
    <3>2. Len(n) <= Len(w)
      BY <2>1, <3>1
    <3> QED  BY <2>1, <2>4, <3>1, <3>2, SuffixOrder
  <2>5. Ending(n) = {n} \cap words
    BY <2>1, <2>2, <2>4 DEF Ending
  <2>6. CASE output[n] = <<>> /\ n \notin words
    BY <2>3, <2>5, <2>6, SmallOnce
  <2>7. CASE output[n] = <<n>> /\ n \in words
    BY <2>3, <2>5, <2>7, SmallOnce
  <2> QED  BY <1>12, <2>1, <2>3, <2>6, <2>7
<1>16. LinkInv'
  <2> SUFFICES ASSUME NEW n \in AllNodes, fail'[n] # Nil
               PROVE  /\ n \in nodes \ {Root}
                      /\ IsLongest(Root, n, Len(n)) /\ fail'[n] = Root /\ Front(n) = Root
                      /\ ToSet(output[n]) = Ending(n) /\ IsInjective(output[n])
    BY <1>1 DEF LinkInv, Linked, IsLongest, Ending
  <2>1. n \in C /\ fail'[n] = Root
    BY <1>5
  <2> QED  BY <1>3, <1>15, <2>1
<1>17. \A z : {Append(z, r) : r \in {r \in Runes : Append(z, r) \in nodes'}} = Children(z)
  BY <1>1 DEF Children, HasChild
<1>18. ASSUME NEW x \in nodes, NEW y \in Children(x)
       PROVE  y \in AllNodes /\ (y \in C => x = Root)
  <2>1. y \in nodes /\ Front(y) = x
    BY <1>2, ChildFacts DEF Inv
  <2> QED  BY <1>2, <1>3, <2>1
<1>19. /\ \A x \in Children(Root) : fail'[x] # Nil
       /\ \A x \in nodes \ {Root} : fail'[x] # Nil /\ x \notin ToSet(queue') =>
            \A y \in Children(x) : fail'[y] # Nil
  <2>1. \A x \in C : fail'[x] # Nil
    BY <1>2, <1>3, <1>5
  <2>2. ASSUME NEW x \in nodes \ {Root}, fail'[x] # Nil, x \notin ToSet(queue') PROVE FALSE
    BY <1>2, <1>5, <1>6, <2>2
  <2> QED  BY <2>1, <2>2 DEF C
<1>20. ASSUME NEW i \in DOMAIN queue'
       PROVE  /\ queue'[i] \in nodes /\ fail'[queue'[i]] # Nil
              /\ \A x \in Children(queue'[i]) : fail'[x] = Nil
              /\ \A j \in i..Len(queue') : /\ Len(queue'[i]) <= Len(queue'[j])
                                           /\ Len(queue'[j]) <= Len(queue'[i]) + 1
  <2>1. \A z \in C : /\ z \in nodes /\ fail'[z] # Nil
                     /\ \A x \in Children(z) : fail'[x] = Nil
    BY <1>2, <1>3, <1>5, <1>18
  <2>2. \A j \in DOMAIN queue' : Len(queue'[j]) = 1
    BY <1>3, <1>7
  <2>3. \A j \in i..Len(queue') : j \in DOMAIN queue'
    BY <1>6
  <2>4. \A j \in i..Len(queue') : /\ Len(queue'[i]) <= Len(queue'[j])
                                  /\ Len(queue'[j]) <= Len(queue'[i]) + 1
    BY <2>2, <2>3
  <2> QED  BY <1>7, <2>1, <2>4
<1>21. ASSUME queue' # <<>>, NEW x \in nodes \ {Root}, Len(x) <= Len(queue'[1])
       PROVE  fail'[x] # Nil
  <2>1. Len(queue'[1]) = 1
    <3>1. 1 \in DOMAIN queue'
      BY <1>7, <1>21
    <3> QED  BY <1>3, <1>7, <3>1
  <2>2. x \in Seq(Runes) /\ x # <<>> /\ Len(x) \in Nat
    BY <1>2 DEF Root
  <2>3. Front(x) \in Seq(Runes) /\ Len(Front(x)) = Len(x) - 1 /\ Len(x) > 0
    BY <2>2, FrontLast
  <2>4. Len(Front(x)) = 0
    BY <1>21, <2>1, <2>2, <2>3
  <2>5. Front(x) = Root
    BY <2>3, <2>4 DEF Root
  <2> QED  BY <1>2, <1>3, <1>5, <2>5
<1>22. QueueInv'
  <2>1. nodes' = nodes /\ phase' = "fail" /\ IsInjective(queue')
    BY <1>1, <1>6
  <2>2. queue' # <<>> => \A x \in nodes \ {Root} : Len(x) <= Len(queue'[1]) => fail'[x] # Nil
    BY <1>21
  <2> QED
    BY <1>17, <1>19, <1>20, <2>1, <2>2 DEF QueueInv, Linked, Children, HasChild
<1>23. SearchInv' /\ SearchExact'
  BY <1>1 DEF Inv, SearchInv, SearchExact
<1> QED  BY <1>8, <1>11, <1>13, <1>14, <1>16, <1>22, <1>23 DEF Inv

\* When the queue is empty every node is linked.
LEMMA AllLinked ==
  ASSUME Inv, phase # "insert", queue = <<>>
  PROVE  \A n \in nodes \ {Root} : Linked(n)
<1> DEFINE U == {n \in nodes \ {Root} : ~Linked(n)}
           L == {Len(n) : n \in U}
<1> SUFFICES ASSUME U # {} PROVE FALSE
  OBVIOUS
<1>1. /\ nodes \subseteq Seq(Runes) /\ \A n \in nodes : Len(n) \in Nat /\ Front(Root) \in nodes
      /\ Root \in nodes /\ Root \in Seq(Runes)
  <2>1. Front(Root) = Root
    BY DEF Front, Root
  <2> QED  BY <2>1, NodeFacts DEF Inv, TypeOK, TrieInv
<1>2. L \in SUBSET Nat /\ L # {}
  BY <1>1
<1>3. PICK k \in L : \A j \in L : k <= j
  <2> HIDE DEF L
  <2> QED  BY <1>2, LeastNumber
<1>4. PICK n \in U : k = Len(n)
  BY <1>3
<1> DEFINE p == Front(n)
<1>5. n \in nodes \ {Root} /\ ~Linked(n) /\ n \in Seq(Runes) /\ n # <<>> /\ Len(n) \in Nat
  BY <1>1, <1>4 DEF Root
<1>6. p \in nodes /\ p \in Seq(Runes) /\ Len(p) = Len(n) - 1 /\ Len(p) \in Nat
  BY <1>1, <1>5, FrontLast DEF Inv, TrieInv
<1>7. n \in Children(p)
  BY <1>5, <1>6, ChildFacts DEF Inv
<1> HIDE DEF p
<1>8. CASE p = Root
  BY <1>5, <1>7, <1>8 DEF Inv, QueueInv
<1>9. CASE p # Root
  <2>1. Linked(p)
    <3>1. ~(k <= Len(p))
      BY <1>4, <1>5, <1>6
    <3>2. Len(p) \notin L
      BY <1>3, <3>1
    <3> QED  BY <1>6, <1>9, <3>2
  <2>2. p \notin ToSet(queue)
    BY SmallOnce
  <2> QED  BY <1>5, <1>6, <1>7, <1>9, <2>1, <2>2 DEF Inv, QueueInv
<1> QED  BY <1>8, <1>9

\* The end of buildFailPointers keeps the invariant.
LEMMA FailDoneStep ==
  ASSUME Inv, FailDone
  PROVE  Inv'
<1>1. /\ phase = "fail" /\ queue = <<>> /\ phase' = "ready"
      /\ words' = words /\ nodes' = nodes /\ fail' = fail /\ output' = output /\ queue' = queue
      /\ text' = text /\ pos' = pos /\ curr' = curr /\ results' = results
  BY DEF FailDone, searchVars
<1>2. TypeOK'
  BY <1>1 DEF Inv, TypeOK
<1>3. TrieInv' /\ OwnInv' /\ InsertInv'
  BY <1>1 DEF Inv, TrieInv, OwnInv, InsertInv, Linked
<1>4. LinkInv'
  BY <1>1 DEF Inv, LinkInv, Linked, IsLongest, Ending
<1>5. QueueInv'
  BY <1>1 DEF Inv, QueueInv, Linked, Children, HasChild
<1>6. ReadyInv' /\ SearchInv' /\ SearchExact'
  BY <1>1 DEF Inv, ReadyInv, SearchInv, SearchExact
<1> QED  BY <1>2, <1>3, <1>4, <1>5, <1>6 DEF Inv

-----------------------------------------------------------------------------
(***************************************************************************)
(* Searching a text.                                                       *)
(***************************************************************************)
\* A search leaves the automaton alone.
LEMMA AutomatonKept ==
  ASSUME Inv, Built, Built', words' = words, nodes' = nodes, fail' = fail, output' = output,
         queue' = queue
  PROVE  TrieInv' /\ OwnInv' /\ InsertInv' /\ LinkInv' /\ QueueInv' /\ ReadyInv'
<1>1. phase # "insert" /\ phase' # "insert" /\ queue = <<>>
  BY DEF Built, Inv, ReadyInv
<1>2. TrieInv' /\ OwnInv' /\ InsertInv'
  BY <1>1 DEF Inv, TrieInv, OwnInv, InsertInv, Linked
<1>3. LinkInv'
  BY DEF Inv, LinkInv, Linked, IsLongest, Ending
<1>4. QueueInv'
  BY <1>1 DEF Inv, QueueInv, Linked, Children, HasChild
<1>5. ReadyInv'
  BY <1>1 DEF ReadyInv
<1> QED  BY <1>2, <1>3, <1>4, <1>5

\* A search begins at the root without matches, and an automaton without words
\* has none to report.
LEMMA SearchBeginStep ==
  ASSUME Inv, NEW t \in SearchTexts, SearchBegin(t)
  PROVE  Inv'
<1>1. /\ phase = "ready" /\ phase' = "search" /\ text' = t /\ curr' = Root /\ results' = <<>>
      /\ pos' = (IF words \subseteq {<<>>} THEN Len(t) ELSE 0)
      /\ words' = words /\ nodes' = nodes /\ fail' = fail /\ output' = output /\ queue' = queue
  BY DEF SearchBegin
<1>2. TrieInv' /\ OwnInv' /\ InsertInv' /\ LinkInv' /\ QueueInv' /\ ReadyInv'
  BY <1>1, AutomatonKept DEF Built
<1>3. t \in Seq(Runes) /\ Len(t) \in Nat /\ pos' \in 0..Len(t)
  BY <1>1, AutomatonAssumption
<1>4. TypeOK'
  <2>1. results' \in Seq(Matches)
    BY <1>1
  <2>2. Root \in AllNodes
    BY NodeFacts
  <2> QED  BY <1>1, <1>3, <2>1, <2>2 DEF Inv, TypeOK
<1>5. /\ nodes \subseteq Seq(Runes) /\ Root \in nodes /\ Len(Root) = 0
      /\ \A x \in nodes : Len(x) \in Nat
  BY NodeFacts DEF Inv, TypeOK, TrieInv
<1>6. SearchInv'
  <2> DEFINE T == SubSeq(t, 1, pos')
  <2>1. T \in Seq(Runes) /\ Len(T) = pos' /\ pos' \in Nat
    <3>1. \A k \in 0..Len(t) : SubSeq(t, 1, k) \in Seq(Runes) /\ Len(SubSeq(t, 1, k)) = k
      BY <1>3
    <3>2. \A k \in 0..Len(t) : k \in Nat
      BY <1>3
    <3> QED  BY <1>3, <3>1, <3>2
  <2>2. ASSUME NEW x \in nodes, IsSuffix(x, T) PROVE Len(x) <= 0
    <3>1. CASE words \subseteq {<<>>}
      BY <1>5, <3>1 DEF Inv, TrieInv
    <3>2. CASE ~(words \subseteq {<<>>})
      <4>1. Len(T) = 0
        BY <1>1, <2>1, <3>2
      <4> HIDE DEF T
      <4>2. Len(x) <= Len(T)
        BY <1>5, <2>1, <2>2, SuffixOrder
      <4> QED  BY <4>1, <4>2
    <3> QED  BY <3>1, <3>2
  <2>3. IsSuffix(Root, T)
    <3> HIDE DEF T
    <3> QED  BY <2>1, SuffixOrder DEF Root
  <2>4. 0 < pos' + 1
    <3> HIDE DEF T
    <3>1. \A k \in Nat : 0 < k + 1
      OBVIOUS
    <3> QED  BY <2>1, <3>1
  <2>5. IsLongest(Root, T, pos' + 1)
    <3>1. Len(Root) < pos' + 1 /\ \A x \in nodes : IsSuffix(x, T) => Len(x) <= Len(Root)
      BY <1>5, <2>2, <2>4
    <3> HIDE DEF T
    <3> QED  BY <1>5, <2>3, <3>1 DEF IsLongest
  <2> QED  BY <1>1, <2>5 DEF SearchInv, IsLongest
<1>7. SearchExact'
  <2>1. ToSet(results') = {} /\ IsInjective(results')
    BY <1>1, SmallOnce
  <2>2. CASE words \subseteq {<<>>}
    <3>1. words \ {<<>>} = {}
      BY <2>2
    <3>2. Occurrences(pos)' = {}
      BY <1>1, <3>1 DEF Occurrences
    <3> QED  BY <2>1, <3>2 DEF SearchExact
  <2>3. CASE ~(words \subseteq {<<>>})
    <3>1. pos' = 0
      BY <1>1, <2>3
    <3>2. 1..pos' = {}
      BY <3>1
    <3>3. Occurrences(pos)' = {}
      BY <3>2 DEF Occurrences
    <3> QED  BY <2>1, <3>3 DEF SearchExact
  <2> QED  BY <2>2, <2>3
<1> QED  BY <1>2, <1>4, <1>6, <1>7 DEF Inv

\* The node after a rune is the longest one that the runes read end with.
LEMMA FollowLongest ==
  ASSUME Inv, phase = "search", pos < Len(text), NEW r, r = text[pos + 1],
         NEW z, z = Follow(curr, r)
  PROVE  /\ IsLongest(z, SubSeq(text, 1, pos + 1), pos + 2)
         /\ SubSeq(text, 1, pos + 1) \in Seq(Runes) /\ Len(SubSeq(text, 1, pos + 1)) = pos + 1
         /\ z \in nodes /\ (z = Root \/ Linked(z))
         /\ text \in Seq(Runes) /\ pos \in Nat
<1> DEFINE t == SubSeq(text, 1, pos)
           u == SubSeq(text, 1, pos + 1)
<1>1. text \in Seq(Runes) /\ pos \in Nat /\ pos + 1 \in 1..Len(text) /\ Len(text) \in Nat
  <2>1. text \in SearchTexts \cup {<<>>} /\ pos \in 0..Len(text)
    BY DEF Inv, TypeOK
  <2>2. text \in Seq(Runes)
    BY <2>1, AutomatonAssumption
  <2> QED  BY <2>1, <2>2
<1>2. r \in Runes
  BY <1>1, ElementOfSeq
<1>3. /\ t \in Seq(Runes) /\ Len(t) = pos
      /\ u \in Seq(Runes) /\ Len(u) = pos + 1
  BY <1>1
<1>4. u = Append(t, r)
  <2>1. u = t \o <<text[pos + 1]>>
    <3>1. 1 \in 1..Len(text) /\ pos + 1 \in 1..Len(text) /\ (pos + 1) - 1 = pos
      BY <1>1
    <3> QED  BY <1>1, <3>1, SubSeqRecursiveSecond
  <2> HIDE DEF t, u
  <2> QED  BY <1>2, <1>3, <2>1, AppendIsConcat
<1> HIDE DEF t, u
<1>5. curr \in nodes /\ IsLongest(curr, t, pos + 1)
  BY DEF Inv, SearchInv, IsLongest, t
<1>6. queue = <<>> /\ \A n \in nodes \ {Root} : Linked(n)
  BY AllLinked DEF Inv, ReadyInv, Built
<1>7. PICK a : /\ IsFirst(a, curr, r)
               /\ Accepting(curr, r) = IF a = Nil THEN Root ELSE a
  BY <1>2, <1>5, <1>6, AcceptingIsFirst DEF Inv
<1>8. z = IF a = Nil THEN Root ELSE Append(a, r)
  <2>0. nodes \subseteq Seq(Runes) /\ Root \in nodes /\ Nil \notin nodes
    BY NodeFacts DEF Inv, TypeOK, TrieInv
  <2>1. CASE a = Nil
    <3>1. IsSuffix(Root, curr)
      BY <1>5, <2>0, SuffixOrder DEF Root
    <3>2. ~HasChild(Root, r)
      BY <1>7, <2>0, <2>1, <3>1 DEF IsFirst
    <3> QED  BY <1>7, <2>1, <3>2 DEF Follow
  <2>2. CASE a # Nil
    <3>1. HasChild(a, r)
      BY <1>7, <2>2 DEF IsFirst
    <3> QED  BY <1>7, <2>2, <3>1 DEF Follow
  <2> QED  BY <2>1, <2>2
<1>9. IsLongest(z, u, (pos + 1) + 1)
  <2>1. pos + 1 \in Nat
    BY <1>1
  <2> QED  BY <1>2, <1>3, <1>4, <1>5, <1>7, <1>8, <2>1, LongestStep DEF Inv
<1>10. (pos + 1) + 1 = pos + 2
  BY <1>1
<1>11. z \in nodes
  BY <1>9 DEF IsLongest
<1> QED  BY <1>1, <1>3, <1>6, <1>9, <1>10, <1>11 DEF u

\* The occurrences that end at e
OccurrencesAt(e) ==
  {[word |-> w, position |-> e - Len(w), endPos |-> e] :
     w \in {w \in words \ {<<>>} : IsSuffix(w, SubSeq(text, 1, e))}}

\* The next rune adds the occurrences that end with it; the others end earlier.
LEMMA OneMoreRune ==
  ASSUME NEW k \in Nat
  PROVE  /\ Occurrences(k + 1) = Occurrences(k) \cup OccurrencesAt(k + 1)
         /\ \A m \in Occurrences(k) : m.endPos # k + 1
<1>1. \A j : Occurrences(j) = UNION {OccurrencesAt(e) : e \in 1..j}
  BY DEF Occurrences, OccurrencesAt
<1>2. 1..(k + 1) = (1..k) \cup {k + 1} /\ \A e \in 1..k : e # k + 1
  OBVIOUS
<1>3. Occurrences(k + 1) = Occurrences(k) \cup OccurrencesAt(k + 1)
  BY <1>1, <1>2
<1>4. \A e : \A m \in OccurrencesAt(e) : m.endPos = e
  BY DEF OccurrencesAt
<1> QED  BY <1>1, <1>2, <1>3, <1>4

\* The matches of one rune are the occurrences that end with it, each once.
LEMMA NewMatches ==
  ASSUME Inv, phase = "search", pos < Len(text),
         NEW z, z = Follow(curr, text[pos + 1]),
         NEW new, new = [k \in DOMAIN output[z] |-> MatchAt(output[z][k], pos)]
  PROVE  new \in Seq(Matches) /\ ToSet(new) = OccurrencesAt(pos + 1) /\ IsInjective(new)
<1> DEFINE o == output[z]
           u == SubSeq(text, 1, pos + 1)
<1>1. /\ IsLongest(z, u, pos + 2) /\ u \in Seq(Runes) /\ Len(u) = pos + 1
      /\ z \in nodes /\ (z = Root \/ Linked(z)) /\ pos \in Nat
  BY FollowLongest
<1>2. o \in Seq(Dictionary) /\ ToSet(o) = Ending(z) /\ IsInjective(o)
  BY <1>1, OutputOfLinked DEF Inv
<1>3. words \subseteq Dictionary /\ words \subseteq Seq(Runes) /\ words \ {<<>>} \subseteq nodes
  BY AutomatonAssumption DEF Inv, TypeOK, TrieInv
<1>4. u = SubSeq(text, 1, pos + 1) /\ new = [k \in DOMAIN o |-> MatchAt(o[k], pos)]
  OBVIOUS
<1> HIDE DEF o, u
<1>5. ASSUME NEW w \in words \ {<<>>} PROVE /\ IsSuffix(w, u) <=> w \in Ending(z)
                                            /\ IsSuffix(w, u) => Len(w) <= pos + 1
  <2>1. w \in Seq(Runes) /\ Len(w) \in Nat
    BY <1>3
  <2>2. IsSuffix(w, u) => Len(w) <= pos + 1
    BY <1>1, <2>1, SuffixOrder
  <2>3. Len(w) <= pos + 1 => Len(w) < pos + 2
    BY <1>1, <2>1
  <2>4. pos + 2 \in Nat
    BY <1>1
  <2>5. Len(w) < pos + 2 => (IsSuffix(w, u) <=> w \in Ending(z))
    BY <1>1, <1>3, <2>4, EndingOfLongest DEF Inv
  <2>6. w \in Ending(z) => Len(w) < pos + 2
    <3>1. ASSUME w \in Ending(z) PROVE Len(w) <= Len(z)
      <4>1. z \in Seq(Runes)
        BY <1>1, NodeFacts DEF Inv, TypeOK
      <4> QED  BY <2>1, <3>1, <4>1, SuffixOrder DEF Ending
    <3>2. Len(z) < pos + 2 /\ Len(z) \in Nat
      BY <1>1, NodeFacts DEF Inv, TypeOK, IsLongest
    <3> QED  BY <1>1, <2>1, <3>1, <3>2
  <2> QED  BY <2>2, <2>3, <2>5, <2>6
<1>6. Ending(z) = {w \in words \ {<<>>} : IsSuffix(w, u)}
  <2>1. Ending(z) \subseteq words \ {<<>>}
    BY DEF Ending
  <2> QED  BY <1>5, <2>1
<1>7. OccurrencesAt(pos + 1) = {MatchAt(w, pos) : w \in Ending(z)}
  BY <1>4, <1>6 DEF OccurrencesAt, MatchAt
<1>8. \A w \in Ending(z) : MatchAt(w, pos) \in Matches
  <2>1. ASSUME NEW w \in Ending(z) PROVE MatchAt(w, pos) \in Matches
    <3>1. w \in words \ {<<>>} /\ Len(w) <= pos + 1
      BY <1>5, <1>6
    <3>2. w \in Dictionary /\ Len(w) \in Nat
      BY <1>3, <3>1
    <3>3. (pos + 1) - Len(w) \in Nat /\ pos + 1 \in Nat
      BY <1>1, <3>1, <3>2
    <3> QED  BY <3>2, <3>3 DEF MatchAt, Matches
  <2> QED  BY <2>1
<1>9. \A k \in DOMAIN o : o[k] \in Ending(z) /\ new[k] = MatchAt(o[k], pos)
  BY <1>2, <1>4 DEF ToSet
<1>10. DOMAIN new = DOMAIN o /\ DOMAIN o = 1..Len(o) /\ Len(o) \in Nat
  BY <1>2, <1>4
<1>11. new \in Seq(Matches)
  <2>1. \A k \in 1..Len(o) : MatchAt(o[k], pos) \in Matches
    BY <1>8, <1>9, <1>10
  <2>2. new \in [1..Len(o) -> Matches]
    BY <1>4, <1>10, <2>1
  <2> QED  BY <1>10, <2>2
<1>12. ToSet(new) = OccurrencesAt(pos + 1)
  <2>1. \A w \in Ending(z) : \E k \in DOMAIN o : w = o[k]
    BY <1>2 DEF ToSet
  <2>2. \A k \in DOMAIN new : new[k] \in OccurrencesAt(pos + 1)
    BY <1>7, <1>9, <1>10
  <2>3. ASSUME NEW w \in Ending(z) PROVE MatchAt(w, pos) \in ToSet(new)
    <3>1. PICK k \in DOMAIN o : w = o[k]
      BY <2>1
    <3>2. k \in DOMAIN new /\ new[k] = MatchAt(w, pos)
      BY <1>9, <1>10, <3>1
    <3> QED  BY <3>2 DEF ToSet
  <2>4. ToSet(new) \subseteq OccurrencesAt(pos + 1)
    BY <2>2 DEF ToSet
  <2> QED  BY <1>7, <2>3, <2>4
<1>13. IsInjective(new)
  <2> SUFFICES ASSUME NEW i \in DOMAIN o, NEW j \in DOMAIN o, new[i] = new[j] PROVE i = j
    BY <1>10 DEF IsInjective
  <2>1. \A k \in DOMAIN o : new[k].word = o[k]
    <3>1. \A w : MatchAt(w, pos).word = w
      BY DEF MatchAt
    <3>2. ASSUME NEW k \in DOMAIN o PROVE new[k].word = o[k]
      <4>1. new[k] = MatchAt(o[k], pos)
        BY <1>9
      <4>2. MatchAt(o[k], pos).word = o[k]
        BY <3>1
      <4> QED  BY <4>1, <4>2, Zenon
    <3> QED  BY <3>2
  <2>2. o[i] = o[j]
    BY <2>1
  <2> QED  BY <1>2, <2>2 DEF IsInjective
<1> QED  BY <1>11, <1>12, <1>13

\* A rune of a search keeps the invariant.
LEMMA SearchStepStep ==
  ASSUME Inv, SearchStep
  PROVE  Inv'
<1> DEFINE z == Follow(curr, text[pos + 1])
           new == [k \in DOMAIN output[z] |-> MatchAt(output[z][k], pos)]
<1>1. /\ phase = "search" /\ pos < Len(text) /\ curr' = z /\ results' = results \o new
      /\ pos' = pos + 1 /\ words' = words /\ phase' = phase /\ nodes' = nodes /\ fail' = fail
      /\ output' = output /\ queue' = queue /\ text' = text
  BY DEF SearchStep
<1>2. TrieInv' /\ OwnInv' /\ InsertInv' /\ LinkInv' /\ QueueInv' /\ ReadyInv'
  BY <1>1, AutomatonKept DEF Built
<1>3. /\ IsLongest(z, SubSeq(text, 1, pos + 1), pos + 2) /\ z \in nodes
      /\ text \in Seq(Runes) /\ pos \in Nat
  BY <1>1, FollowLongest
<1>4. new \in Seq(Matches) /\ ToSet(new) = OccurrencesAt(pos + 1) /\ IsInjective(new)
  BY <1>1, NewMatches
<1> HIDE DEF z, new
<1>5. results \in Seq(Matches) /\ ToSet(results) = Occurrences(pos) /\ IsInjective(results)
  BY <1>1 DEF Inv, TypeOK, SearchExact
<1>6. ToSet(results) \cap ToSet(new) = {}
  <2>1. \A m \in Occurrences(pos) : m.endPos # pos + 1
    BY <1>3, OneMoreRune
  <2>2. \A m \in OccurrencesAt(pos + 1) : m.endPos = pos + 1
    BY DEF OccurrencesAt
  <2> QED  BY <1>4, <1>5, <2>1, <2>2
<1> DEFINE all == results \o new
<1>7. /\ all \in Seq(Matches) /\ ToSet(all) = ToSet(results) \cup ToSet(new)
      /\ IsInjective(results) /\ IsInjective(new) /\ ToSet(results) \cap ToSet(new) = {} =>
           IsInjective(all)
  BY <1>4, <1>5, ConcatOnce
<1>8. results' = all
  BY <1>1
<1> HIDE DEF all
<1>9. TypeOK'
  <2>1. pos' \in 0..Len(text)
    BY <1>1, <1>3
  <2>2. z \in AllNodes
    BY <1>3 DEF Inv, TypeOK
  <2> QED  BY <1>1, <1>7, <1>8, <2>1, <2>2 DEF Inv, TypeOK
<1>10. SearchInv'
  <2>1. pos + 2 = pos' + 1
    BY <1>1, <1>3
  <2>2. IsLongest(z, SubSeq(text, 1, pos'), pos' + 1)
    BY <1>1, <1>3, <2>1
  <2> QED  BY <1>1, <2>2 DEF SearchInv, IsLongest
<1>11. SearchExact'
  <2>1. Occurrences(pos)' = Occurrences(pos + 1)
    BY <1>1 DEF Occurrences
  <2>2. Occurrences(pos + 1) = Occurrences(pos) \cup OccurrencesAt(pos + 1)
    BY <1>3, OneMoreRune
  <2> QED  BY <1>4, <1>5, <1>6, <1>7, <1>8, <2>1, <2>2 DEF SearchExact
<1> QED  BY <1>2, <1>9, <1>10, <1>11 DEF Inv

\* The end of a search keeps the invariant.
LEMMA SearchEndStep ==
  ASSUME Inv, SearchEnd
  PROVE  Inv'
<1>1. /\ phase = "search" /\ phase' = "ready"
      /\ text' = <<>> /\ pos' = 0 /\ curr' = Root /\ results' = <<>>
      /\ words' = words /\ nodes' = nodes /\ fail' = fail /\ output' = output /\ queue' = queue
  BY DEF SearchEnd
<1>2. TrieInv' /\ OwnInv' /\ InsertInv' /\ LinkInv' /\ QueueInv' /\ ReadyInv'
  BY <1>1, AutomatonKept DEF Built
<1>3. TypeOK'
  <2>1. pos' \in 0..Len(text') /\ results' \in Seq(Matches) /\ Root \in AllNodes
    BY <1>1, NodeFacts
  <2> QED  BY <1>1, <2>1 DEF Inv, TypeOK
<1>4. SearchInv' /\ SearchExact'
  BY <1>1 DEF SearchInv, SearchExact
<1> QED  BY <1>2, <1>3, <1>4 DEF Inv

-----------------------------------------------------------------------------
(***************************************************************************)
(* The theorems.                                                           *)
(***************************************************************************)
\* A new automaton has the root and no words.
LEMMA InvInit ==
  ASSUME Init
  PROVE  Inv
<1>1. /\ words \subseteq Dictionary /\ phase = "insert" /\ nodes = {Root}
      /\ fail = [n \in AllNodes |-> Nil] /\ output = [n \in AllNodes |-> <<>>]
      /\ queue = <<>> /\ text = <<>> /\ pos = 0 /\ curr = Root /\ results = <<>>
  BY DEF Init
<1>2. Root \in AllNodes
  BY NodeFacts
<1>3. TypeOK
  <2>1. <<>> \in Seq(Dictionary) /\ queue \in Seq(AllNodes) /\ results \in Seq(Matches)
        /\ pos \in 0..Len(text)
    BY <1>1
  <2>2. fail \in [AllNodes -> AllNodes \cup {Nil}] /\ output \in [AllNodes -> Seq(Dictionary)]
    BY <1>1, <2>1
  <2> QED  BY <1>1, <1>2, <2>1, <2>2 DEF TypeOK
<1>4. \A n \in AllNodes : fail[n] = Nil /\ output[n] = <<>>
  BY <1>1
<1>5. TrieInv /\ OwnInv /\ InsertInv /\ LinkInv
  BY <1>1, <1>4 DEF TrieInv, OwnInv, InsertInv, LinkInv, Linked
<1>6. QueueInv /\ ReadyInv /\ SearchInv /\ SearchExact
  BY <1>1 DEF QueueInv, ReadyInv, Built, SearchInv, SearchExact
<1> QED  BY <1>3, <1>5, <1>6 DEF Inv

\* Every step keeps the invariant.
LEMMA InvStep ==
  ASSUME Inv, [Next]_vars
  PROVE  Inv'
<1>1. CASE \E w \in words : Insert(w)
  BY <1>1, InsertStep
<1>2. CASE QueueRoot
  BY <1>2, QueueRootStep
<1>3. CASE FailStep
  BY <1>3, FailStepType, FailStepLink, FailStepQueue DEF Inv
<1>4. CASE FailDone
  BY <1>4, FailDoneStep
<1>5. CASE \E t \in SearchTexts : SearchBegin(t)
  BY <1>5, SearchBeginStep
<1>6. CASE SearchStep
  BY <1>6, SearchStepStep
<1>7. CASE SearchEnd
  BY <1>7, SearchEndStep
<1>8. CASE UNCHANGED vars
  <2>1. /\ words' = words /\ phase' = phase /\ nodes' = nodes /\ fail' = fail
        /\ output' = output /\ queue' = queue /\ text' = text /\ pos' = pos
        /\ curr' = curr /\ results' = results
    BY <1>8 DEF vars
  <2>2. TypeOK' /\ TrieInv' /\ OwnInv' /\ InsertInv' /\ ReadyInv'
    BY <2>1 DEF Inv, TypeOK, TrieInv, OwnInv, InsertInv, ReadyInv, Built, Linked
  <2>3. LinkInv'
    BY <2>1 DEF Inv, LinkInv, Linked, IsLongest, Ending
  <2>4. QueueInv'
    BY <2>1 DEF Inv, QueueInv, Linked, Children, HasChild
  <2>5. SearchInv' /\ SearchExact'
    BY <2>1 DEF Inv, SearchInv, IsLongest, SearchExact, Occurrences
  <2> QED  BY <2>2, <2>3, <2>4, <2>5 DEF Inv
<1> QED  BY <1>1, <1>2, <1>3, <1>4, <1>5, <1>6, <1>7, <1>8 DEF Next

\* The inductive invariant holds.
LEMMA Invariant == Spec => []Inv
<1>1. Init => Inv
  BY InvInit
<1>2. Inv /\ [Next]_vars => Inv'
  BY InvStep
<1> QED  BY <1>1, <1>2, PTL DEF Spec

\* Words, nodes, fail pointers, output tables, the queue and the matches keep
\* their types.
THEOREM TypeCorrect == Spec => []TypeOK
<1>1. Inv => TypeOK
  BY DEF Inv
<1> QED  BY <1>1, Invariant, PTL

\* buildFailPointers links every node to its longest proper suffix in the trie.
THEOREM FailCorrect == Spec => []FailIsLongestSuffix
<1>1. Inv => FailIsLongestSuffix
  <2> SUFFICES ASSUME Inv, Built, NEW n \in nodes \ {Root} PROVE IsLongest(fail[n], n, Len(n))
    BY DEF FailIsLongestSuffix, IsLongest
  <2>1. Linked(n)
    BY AllLinked DEF Inv, ReadyInv, Built
  <2>2. n \in AllNodes
    BY DEF Inv, TypeOK
  <2> QED  BY <2>1, <2>2 DEF Inv, LinkInv
<1> QED  BY <1>1, Invariant, PTL

\* The merged output table of every node has each word that ends there, once.
THEOREM OutputCorrect == Spec => []OutputComplete
<1>1. Inv => OutputComplete
  <2> SUFFICES ASSUME Inv, Built, NEW n \in nodes
               PROVE  ToSet(output[n]) = Ending(n) /\ IsInjective(output[n])
    BY DEF OutputComplete, Ending
  <2>1. n = Root \/ Linked(n)
    BY AllLinked DEF Inv, ReadyInv, Built
  <2> QED  BY <2>1, OutputOfLinked DEF Inv, Built
<1> QED  BY <1>1, Invariant, PTL

\* A search reports every occurrence of every word in the runes read so far,
\* each once and at its position.
THEOREM SearchCorrect == Spec => []SearchExact
<1>1. Inv => SearchExact
  BY DEF Inv
<1> QED  BY <1>1, Invariant, PTL
=============================================================================
