-------------------------- MODULE StrategiesProofs --------------------------
(***************************************************************************)
(* Proofs about Strategies for any runes, normalisation, texts and words.  *)
(***************************************************************************)
EXTENDS Strategies, FiniteSetTheorems, SequenceTheorems, TLAPS

-----------------------------------------------------------------------------
(***************************************************************************)
(* Texts and spans.                                                        *)
(***************************************************************************)
\* The texts are sequences of runes; the one that is shown is as long as the
\* normalised one.
LEMMA Texts ==
  ASSUME TypeOK
  PROVE  /\ original \in Seq(Runes) /\ normalized \in Seq(Runes)
         /\ Len(original) \in Nat /\ Len(normalized) \in Nat
         /\ Target \in Seq(Runes) /\ Len(Target) = Len(normalized)
         /\ words \subseteq Seq(Runes) \ {<<>>}
<1>1. original \in Seq(Runes) /\ normalized \in Seq(Runes)
  BY StrategiesAssumption DEF TypeOK
<1>2. words \subseteq Seq(Runes) \ {<<>>}
  BY StrategiesAssumption DEF TypeOK
<1> QED  BY <1>1, <1>2 DEF Target

\* An occurrence is a part of the text, and not an empty one.
LEMMA OccurrenceSpan ==
  ASSUME TypeOK, NEW S, NEW t \in Seq(S), NEW m \in Occurrences(t)
  PROVE  /\ m \in Spans /\ m.Position \in Nat /\ m.EndPos \in Nat
         /\ m.Position < m.EndPos /\ m.EndPos <= Len(t)
         /\ SubSeq(t, m.Position + 1, m.EndPos) \in words
<1>1. /\ m \in [Position : 0..Len(t), EndPos : 1..Len(t)]
      /\ SubSeq(t, m.Position + 1, m.EndPos) \in words
  BY DEF Occurrences
<1>2. m \in Spans /\ m.Position \in 0..Len(t) /\ m.EndPos \in 1..Len(t) /\ Len(t) \in Nat
  BY <1>1 DEF Spans
<1>3. SubSeq(t, m.Position + 1, m.EndPos) # <<>>
  BY <1>1, Texts
<1>4. m.Position < m.EndPos
  BY <1>2, <1>3
<1> QED  BY <1>1, <1>2, <1>4

\* The runes from..to-1 of the target, in order
LEMMA PartOfTarget ==
  ASSUME TypeOK, NEW from \in Nat, NEW to \in Nat, from <= to, to <= Len(Target)
  PROVE  /\ Part(from, to) \in Seq(Runes) /\ Len(Part(from, to)) = to - from
         /\ \A k \in 1..(to - from) : Part(from, to)[k] = Target[from + k]
<1>1. Target \in Seq(Runes) /\ Len(Target) \in Nat
  BY Texts
<1>2. Part(from, to) = SubSeq(Target, from + 1, to)
  BY <1>1 DEF Part
<1> QED  BY <1>1, <1>2

\* A text with the same mark on every rune
LEMMA MarkedText ==
  ASSUME NEW t \in Seq(Runes), NEW n \in Nat
  PROVE  /\ Marked(t, n) \in Seq(Shown) /\ Len(Marked(t, n)) = Len(t)
         /\ \A k \in 1..Len(t) : Marked(t, n)[k].rune = t[k] /\ Marked(t, n)[k].mark = n
<1>1. \A k \in 1..Len(t) : [rune |-> t[k], mark |-> n] \in Shown
  BY DEF Shown
<1>2. Marked(t, n) = [k \in 1..Len(t) |-> [rune |-> t[k], mark |-> n]]
  BY DEF Marked
<1>3. Marked(t, n) \in Seq(Shown) /\ Len(Marked(t, n)) = Len(t)
  BY <1>1, <1>2
<1> QED  BY <1>2, <1>3

\* A text without marks
LEMMA PlainText ==
  ASSUME NEW t \in Seq(Runes)
  PROVE  /\ Plain(t) \in Seq(Shown) /\ Len(Plain(t)) = Len(t)
         /\ \A k \in 1..Len(t) : Plain(t)[k].rune = t[k] /\ Plain(t)[k].mark = 0
<1>1. Plain(t) = Marked(t, 0)
  BY DEF Plain, Marked
<1> QED  BY <1>1, MarkedText

\* A round of mergeIntervals either extends the last interval or adds one.
IsMerged(ivs, m, new) ==
  \/ /\ ivs # <<>> /\ m.Position <= Last(ivs).EndPos
     /\ Len(new) = Len(ivs)
     /\ \A k \in 1..(Len(ivs) - 1) : new[k] = ivs[k]
     /\ new[Len(ivs)].Position = Last(ivs).Position
     /\ new[Len(ivs)].EndPos =
          IF m.EndPos > Last(ivs).EndPos THEN m.EndPos ELSE Last(ivs).EndPos
  \/ /\ ivs # <<>> => m.Position > Last(ivs).EndPos
     /\ Len(new) = Len(ivs) + 1
     /\ \A k \in 1..Len(ivs) : new[k] = ivs[k]
     /\ new[Len(ivs) + 1] = m

\* mergeIntervals does one of the two.
LEMMA MergedIntervals ==
  ASSUME NEW ivs \in Seq(Spans), NEW m \in Spans, NEW new, new = Merged(ivs, m)
  PROVE  new \in Seq(Spans) /\ IsMerged(ivs, m, new)
<1> USE DEF IsMerged
<1> DEFINE n == Len(ivs)
<1>0. n \in Nat /\ m.Position \in Nat /\ m.EndPos \in Nat
      /\ \A k \in 1..n : /\ ivs[k] \in Spans /\ ivs[k].Position \in Nat /\ ivs[k].EndPos \in Nat
  <2>1. \A x \in Spans : x.Position \in Nat /\ x.EndPos \in Nat
    BY DEF Spans
  <2>2. \A k \in 1..n : ivs[k] \in Spans
    OBVIOUS
  <2> QED  BY <2>1, <2>2
<1>1. CASE ivs # <<>> /\ m.Position <= Last(ivs).EndPos
  <2>1. n \in 1..n /\ Last(ivs) = ivs[n] /\ n > 0
    BY <1>1 DEF Last
  <2>2. CASE m.EndPos > Last(ivs).EndPos
    <3>1. new = [ivs EXCEPT ![n].EndPos = m.EndPos]
      BY <1>1, <2>2 DEF Merged
    <3> DEFINE iv == [ivs[n] EXCEPT !.EndPos = m.EndPos]
    <3>2. iv \in Spans /\ iv.Position = ivs[n].Position /\ iv.EndPos = m.EndPos
      BY <1>0, <2>1 DEF Spans
    <3>3. new = [ivs EXCEPT ![n] = iv]
      BY <3>1
    <3> HIDE DEF iv
    <3>4. new \in Seq(Spans) /\ Len(new) = n /\ new[n] = iv
          /\ \A k \in 1..(n - 1) : new[k] = ivs[k]
      BY <1>0, <2>1, <3>2, <3>3
    <3> QED  BY <1>1, <2>1, <2>2, <3>2, <3>4
  <2>3. CASE ~(m.EndPos > Last(ivs).EndPos)
    BY <1>1, <2>1, <2>3 DEF Merged
  <2> QED  BY <2>2, <2>3
<1>2. CASE ~(ivs # <<>> /\ m.Position <= Last(ivs).EndPos)
  <2>1. new = Append(ivs, m)
    BY <1>2 DEF Merged
  <2>2. ivs # <<>> => m.Position > Last(ivs).EndPos
    BY <1>0, <1>2 DEF Last
  <2> QED  BY <2>1, <2>2
<1> QED  BY <1>1, <1>2

-----------------------------------------------------------------------------
(***************************************************************************)
(* Types.                                                                  *)
(***************************************************************************)
Inv == /\ TypeOK /\ NormalizeInv /\ PhaseInv /\ MaskInv
       /\ OrderInv /\ MergeInv /\ WriteInv

\* The interval Highlight writes next lies between what is written and the end
\* of the target.
LEMMA NextInterval ==
  ASSUME Inv, pc = "write", strategy = "highlight", intervals # <<>>, NEW iv, iv = intervals[1]
  PROVE  /\ iv \in Spans /\ iv.Position \in Nat /\ iv.EndPos \in Nat
         /\ idx <= iv.Position /\ iv.Position < iv.EndPos /\ iv.EndPos <= Len(Target)
         /\ Head(intervals) = iv /\ Tail(intervals) \in Seq(Spans)
         /\ Len(Tail(intervals)) = Len(intervals) - 1
         /\ \A k \in 1..(Len(intervals) - 1) : Tail(intervals)[k] = intervals[k + 1]
<1>1. intervals \in Seq(Spans) /\ idx \in Nat /\ Len(Target) = Len(normalized)
  BY Texts DEF Inv, TypeOK
<1>2. /\ 1 \in DOMAIN intervals /\ iv \in Spans
      /\ Head(intervals) = iv /\ Tail(intervals) \in Seq(Spans)
      /\ Len(Tail(intervals)) = Len(intervals) - 1
      /\ \A k \in 1..(Len(intervals) - 1) : Tail(intervals)[k] = intervals[k + 1]
  BY <1>1
<1>3. iv.Position \in Nat /\ iv.EndPos \in Nat
  BY <1>2 DEF Spans
<1>4. iv.Position < iv.EndPos /\ iv.EndPos <= Len(normalized)
  BY <1>2 DEF Inv, OrderInv
<1>5. idx <= iv.Position
  BY <1>1, <1>2, <1>3 DEF Inv, WriteInv
<1> QED  BY <1>1, <1>2, <1>3, <1>4, <1>5

\* Highlight writes the runes before the interval without a mark and those of
\* the interval with its mark.
LEMMA IntervalWritten ==
  ASSUME Inv, WriteInterval, NEW iv, iv = intervals[1]
  PROVE  /\ filtered' \in Seq(Shown) /\ Len(filtered') = iv.EndPos /\ idx' = iv.EndPos
         /\ \A k \in 1..idx : filtered'[k] = filtered[k]
         /\ \A k \in (idx + 1)..iv.Position :
              filtered'[k].rune = Target[k] /\ filtered'[k].mark = 0
         /\ \A k \in (iv.Position + 1)..iv.EndPos :
              filtered'[k].rune = Target[k] /\ filtered'[k].mark = iv.EndPos
<1>1. /\ iv.Position \in Nat /\ iv.EndPos \in Nat /\ idx \in Nat
      /\ idx <= iv.Position /\ iv.Position < iv.EndPos /\ iv.EndPos <= Len(Target)
      /\ Head(intervals) = iv /\ filtered \in Seq(Shown) /\ Len(filtered) = idx
      /\ Len(Target) \in Nat
  <2>1. pc = "write" /\ strategy = "highlight" /\ intervals # <<>>
    BY DEF WriteInterval
  <2>2. idx \in Nat /\ filtered \in Seq(Shown) /\ Len(filtered) = idx /\ Len(Target) \in Nat
    BY <2>1, Texts DEF Inv, TypeOK, WriteInv
  <2> QED  BY <2>1, <2>2, NextInterval
<1> DEFINE p == Part(idx, iv.Position)
           q == Part(iv.Position, iv.EndPos)
           P == Plain(p)
           Q == Marked(q, iv.EndPos)
<1>2. filtered' = (filtered \o P) \o Q /\ idx' = iv.EndPos
  BY <1>1 DEF WriteInterval
<1>3. /\ p \in Seq(Runes) /\ Len(p) = iv.Position - idx
      /\ \A k \in 1..(iv.Position - idx) : p[k] = Target[idx + k]
  <2>1. iv.Position <= Len(Target)
    BY <1>1
  <2> QED  BY <1>1, <2>1, PartOfTarget DEF Inv
<1>4. /\ q \in Seq(Runes) /\ Len(q) = iv.EndPos - iv.Position
      /\ \A k \in 1..(iv.EndPos - iv.Position) : q[k] = Target[iv.Position + k]
  <2>1. iv.Position <= iv.EndPos
    BY <1>1
  <2> QED  BY <1>1, <2>1, PartOfTarget DEF Inv
<1> HIDE DEF p, q
<1>5. /\ P \in Seq(Shown) /\ Len(P) = iv.Position - idx
      /\ \A k \in 1..(iv.Position - idx) : P[k].rune = Target[idx + k] /\ P[k].mark = 0
  BY <1>3, PlainText
<1>6. /\ Q \in Seq(Shown) /\ Len(Q) = iv.EndPos - iv.Position
      /\ \A k \in 1..(iv.EndPos - iv.Position) :
           Q[k].rune = Target[iv.Position + k] /\ Q[k].mark = iv.EndPos
  BY <1>1, <1>4, MarkedText
<1> HIDE DEF P, Q
<1> DEFINE a == iv.Position
           b == iv.EndPos
<1> HIDE DEF a, b
<1>7. /\ a \in Nat /\ b \in Nat /\ idx <= a /\ a < b
      /\ Len(P) = a - idx /\ Len(Q) = b - a
  BY <1>1, <1>5, <1>6 DEF a, b
<1>8. /\ filtered' \in Seq(Shown) /\ Len(filtered') = b
      /\ \A k \in 1..idx : filtered'[k] = filtered[k]
      /\ \A k \in (idx + 1)..a : filtered'[k] = P[k - idx] /\ k - idx \in 1..(a - idx)
      /\ \A k \in (a + 1)..b : filtered'[k] = Q[k - a] /\ k - a \in 1..(b - a)
  <2> DEFINE f == filtered \o P
  <2>1. /\ f \in Seq(Shown) /\ Len(f) = a
        /\ \A k \in 1..a : f[k] = IF k <= idx THEN filtered[k] ELSE P[k - idx]
    <3>1. /\ f \in Seq(Shown) /\ Len(f) = Len(filtered) + Len(P)
          /\ \A k \in 1..(Len(filtered) + Len(P)) :
               f[k] = IF k <= Len(filtered) THEN filtered[k] ELSE P[k - Len(filtered)]
      BY <1>1, <1>5, ConcatProperties
    <3>2. Len(filtered) = idx /\ Len(filtered) + Len(P) = a
      BY <1>1, <1>7
    <3> QED  BY <3>1, <3>2
  <2>2. filtered' = f \o Q
    BY <1>2
  <2> HIDE DEF f
  <2>3. /\ filtered' \in Seq(Shown) /\ Len(filtered') = b
        /\ \A k \in 1..b : filtered'[k] = IF k <= a THEN f[k] ELSE Q[k - a]
    <3>1. /\ f \o Q \in Seq(Shown) /\ Len(f \o Q) = Len(f) + Len(Q)
          /\ \A k \in 1..(Len(f) + Len(Q)) :
               (f \o Q)[k] = IF k <= Len(f) THEN f[k] ELSE Q[k - Len(f)]
      BY <1>6, <2>1, ConcatProperties
    <3>2. Len(f) = a /\ Len(f) + Len(Q) = b
      BY <1>7, <2>1
    <3> QED  BY <2>2, <3>1, <3>2
  <2>4. /\ \A k \in 1..idx : k \in 1..a /\ k \in 1..b /\ k <= a /\ k <= idx
        /\ \A k \in (idx + 1)..a : /\ k \in 1..a /\ k \in 1..b /\ k <= a /\ ~(k <= idx)
                                   /\ k - idx \in 1..(a - idx)
        /\ \A k \in (a + 1)..b : k \in 1..b /\ ~(k <= a) /\ k - a \in 1..(b - a)
    BY <1>1, <1>7
  <2> QED  BY <2>1, <2>3, <2>4
<1>9. \A k \in (idx + 1)..a : filtered'[k].rune = Target[k] /\ filtered'[k].mark = 0
  <2> SUFFICES ASSUME NEW k \in (idx + 1)..a
               PROVE  filtered'[k].rune = Target[k] /\ filtered'[k].mark = 0
    OBVIOUS
  <2>1. P[k - idx].rune = Target[idx + (k - idx)] /\ P[k - idx].mark = 0
    BY <1>5, <1>8 DEF a
  <2>2. idx + (k - idx) = k
    BY <1>1, <1>7
  <2> QED  BY <1>8, <2>1, <2>2
<1>10. \A k \in (a + 1)..b : filtered'[k].rune = Target[k] /\ filtered'[k].mark = iv.EndPos
  <2> SUFFICES ASSUME NEW k \in (a + 1)..b
               PROVE  filtered'[k].rune = Target[k] /\ filtered'[k].mark = iv.EndPos
    OBVIOUS
  <2>1. Q[k - a].rune = Target[a + (k - a)] /\ Q[k - a].mark = iv.EndPos
    BY <1>6, <1>8 DEF a, b
  <2>2. a + (k - a) = k
    BY <1>7
  <2> QED  BY <1>8, <2>1, <2>2
<1> QED  BY <1>2, <1>8, <1>9, <1>10 DEF a, b

\* The rest is written without marks.
LEMMA RestWritten ==
  ASSUME Inv, WriteRest
  PROVE  /\ filtered' \in Seq(Shown) /\ Len(filtered') = Len(Target)
         /\ idx \in Nat /\ idx <= Len(Target)
         /\ \A k \in 1..idx : filtered'[k] = filtered[k]
         /\ \A k \in (idx + 1)..Len(Target) :
              filtered'[k].rune = Target[k] /\ filtered'[k].mark = 0
<1> DEFINE n == Len(Target)
           p == Part(idx, n)
           P == Plain(p)
<1>1. /\ idx \in Nat /\ idx <= n /\ n \in Nat /\ filtered \in Seq(Shown) /\ Len(filtered) = idx
  BY Texts DEF Inv, TypeOK, WriteRest, WriteInv, PhaseInv
<1>2. p \in Seq(Runes) /\ Len(p) = n - idx /\ \A k \in 1..(n - idx) : p[k] = Target[idx + k]
  <2>1. n <= Len(Target) /\ TypeOK
    BY <1>1 DEF Inv
  <2> HIDE DEF n
  <2> QED  BY <1>1, <2>1, PartOfTarget
<1>3. filtered' = filtered \o P
  BY DEF WriteRest
<1> HIDE DEF n, p
<1>4. /\ P \in Seq(Shown) /\ Len(P) = n - idx
      /\ \A k \in 1..(n - idx) : P[k].rune = Target[idx + k] /\ P[k].mark = 0
  BY <1>2, PlainText
<1> HIDE DEF P
<1>5. /\ filtered' \in Seq(Shown) /\ Len(filtered') = n
      /\ \A k \in 1..idx : filtered'[k] = filtered[k]
      /\ \A k \in (idx + 1)..n : filtered'[k] = P[k - idx] /\ k - idx \in 1..(n - idx)
  <2>1. /\ filtered' \in Seq(Shown) /\ Len(filtered') = Len(filtered) + Len(P)
        /\ \A k \in 1..(Len(filtered) + Len(P)) :
             filtered'[k] = IF k <= Len(filtered) THEN filtered[k] ELSE P[k - Len(filtered)]
    BY <1>1, <1>3, <1>4, ConcatProperties
  <2>2. Len(filtered) = idx /\ Len(filtered) + Len(P) = n
    BY <1>1, <1>4 DEF n
  <2>3. /\ \A k \in 1..idx : k \in 1..n /\ k <= idx
        /\ \A k \in (idx + 1)..n : k \in 1..n /\ ~(k <= idx) /\ k - idx \in 1..(n - idx)
    BY <1>1 DEF n
  <2> QED  BY <2>1, <2>2, <2>3
<1>6. \A k \in (idx + 1)..n : filtered'[k].rune = Target[k] /\ filtered'[k].mark = 0
  <2> SUFFICES ASSUME NEW k \in (idx + 1)..n
               PROVE  filtered'[k].rune = Target[k] /\ filtered'[k].mark = 0
    OBVIOUS
  <2>1. P[k - idx].rune = Target[idx + (k - idx)] /\ P[k - idx].mark = 0
    BY <1>4, <1>5
  <2>2. idx + (k - idx) = k
    BY <1>1
  <2> QED  BY <1>5, <2>1, <2>2
<1> QED  BY <1>1, <1>5, <1>6 DEF n

\* Each step keeps the types; an interval ends within the text.
LEMMA TypeStep ==
  ASSUME Inv, [Next]_vars
  PROVE  TypeOK'
<1>0. TypeOK
  BY DEF Inv
<1>1. /\ original \in Seq(Runes) /\ normalized \in Seq(Runes)
      /\ Len(original) \in Nat /\ Len(normalized) \in Nat
      /\ idx \in Nat /\ idx <= Len(original) + Len(normalized)
      /\ intervals \in Seq(Spans) /\ filtered \in Seq(Shown)
  BY <1>0, Texts DEF TypeOK
<1> USE DEF input
<1>2. CASE NormalizeRune
  <2>1. idx + 1 \in 1..Len(original)
    BY <1>1, <1>2 DEF NormalizeRune
  <2>2. Becomes[original[idx + 1]] \in Seq(Runes)
    BY <1>1, <2>1, StrategiesAssumption
  <2>3. normalized' \in Seq(Runes) /\ Len(normalized') >= Len(normalized)
    BY <1>1, <1>2, <2>2 DEF NormalizeRune
  <2>4. idx' \in 0..(Len(original) + Len(normalized'))
    BY <1>1, <1>2, <2>1, <2>3 DEF NormalizeRune
  <2>5. masked' = {}
    BY <1>2 DEF NormalizeRune, Inv, PhaseInv
  <2> QED  BY <1>0, <1>2, <2>3, <2>4, <2>5 DEF NormalizeRune, TypeOK
<1>3. CASE NormalizeDone
  BY <1>0, <1>1, <1>3 DEF NormalizeDone, TypeOK
<1>4. CASE Match
  <2>1. matches' \subseteq Spans /\ sorted' \subseteq matches'
    <3>1. Occurrences(normalized) \subseteq Spans
      BY <1>0, <1>1, OccurrenceSpan
    <3>2. sorted = {}
      BY <1>4 DEF Match, Inv, PhaseInv, TypeOK
    <3> QED  BY <1>4, <3>1, <3>2 DEF Match
  <2>2. filtered' \in Seq(Shown)
    BY <1>1, <1>4, PlainText DEF Match
  <2>3. pc' \in {"done", "mask", "merge"}
    BY <1>4 DEF Match
  <2> QED  BY <1>0, <1>4, <2>1, <2>2, <2>3 DEF Match, TypeOK
<1>5. ASSUME NEW m \in sorted, MaskNext(m)
      PROVE  TypeOK'
  <2>1. m.Position \in Nat /\ m.EndPos \in Nat
    BY <1>0 DEF TypeOK, Spans
  <2>2. Positions(m) \subseteq 0..(Len(normalized) - 1)
    BY <1>1, <2>1 DEF Positions
  <2> QED  BY <1>0, <1>5, <2>2 DEF MaskNext, TypeOK
<1>6. ASSUME NEW m \in sorted, MergeNext(m)
      PROVE  TypeOK'
  <2>1. m \in Spans
    BY <1>0 DEF TypeOK
  <2>2. intervals' \in Seq(Spans)
    BY <1>1, <1>6, <2>1, MergedIntervals DEF MergeNext
  <2> QED  BY <1>0, <1>6, <2>2 DEF MergeNext, TypeOK
<1>7. CASE LoopDone
  BY <1>0, <1>7 DEF LoopDone, TypeOK
<1>8. CASE WriteMasked
  <2>1. Target \in Seq(Runes)
    BY <1>0, Texts
  <2> DEFINE shown(k) == [rune |-> IF k - 1 \in masked THEN Mask ELSE Target[k], mark |-> 0]
  <2>2. \A k \in 1..Len(Target) : shown(k) \in Shown
    BY <2>1 DEF Shown
  <2>3. filtered' = [k \in 1..Len(Target) |-> shown(k)]
    BY <1>8, <2>1 DEF WriteMasked
  <2> HIDE DEF shown
  <2>4. filtered' \in Seq(Shown)
    BY <2>1, <2>2, <2>3
  <2> QED  BY <1>0, <1>8, <2>4 DEF WriteMasked, TypeOK
<1>9. CASE WriteInterval
  <2> DEFINE iv == intervals[1]
  <2>1. iv.EndPos \in Nat /\ iv.EndPos <= Len(normalized) /\ intervals' \in Seq(Spans)
    BY <1>0, <1>9, NextInterval, Texts DEF WriteInterval
  <2>2. filtered' \in Seq(Shown) /\ idx' = iv.EndPos
    BY <1>9, IntervalWritten
  <2>3. idx' \in 0..(Len(original) + Len(normalized))
    BY <1>1, <2>1, <2>2
  <2> QED  BY <1>0, <1>9, <2>1, <2>2, <2>3 DEF WriteInterval, TypeOK
<1>10. CASE WriteRest
  BY <1>0, <1>10, RestWritten DEF WriteRest, TypeOK
<1>11. CASE UNCHANGED vars
  BY <1>0, <1>11 DEF vars, TypeOK
<1> QED  BY <1>2, <1>3, <1>4, <1>5, <1>6, <1>7, <1>8, <1>9, <1>10, <1>11 DEF Next

-----------------------------------------------------------------------------
(***************************************************************************)
(* Normalisation and the phases.                                           *)
(***************************************************************************)
\* After the normalisation the texts and the words stay as they are.
LEMMA InputKept ==
  ASSUME [Next]_vars
  PROVE  /\ UNCHANGED <<strategy, words, original>>
         /\ ~NormalizeRune => normalized' = normalized
         /\ ~NormalizeRune /\ ~NormalizeDone => (pc = "normalize" <=> pc' = "normalize")
         /\ pc # "normalize" => ~NormalizeRune /\ ~NormalizeDone
<1> USE DEF input
<1>1. UNCHANGED <<strategy, words, original>>
  BY DEF Next, vars, NormalizeRune, NormalizeDone, Match, MaskNext, MergeNext, LoopDone,
     WriteMasked, WriteInterval, WriteRest
<1>2. ~NormalizeRune => normalized' = normalized
  BY DEF Next, vars, NormalizeDone, Match, MaskNext, MergeNext, LoopDone, WriteMasked,
     WriteInterval, WriteRest
<1>3. ~NormalizeRune /\ ~NormalizeDone => (pc = "normalize" <=> pc' = "normalize")
  BY DEF Next, vars, Match, MaskNext, MergeNext, LoopDone, WriteMasked, WriteInterval,
     WriteRest
<1>4. pc # "normalize" => ~NormalizeRune /\ ~NormalizeDone
  BY DEF NormalizeRune, NormalizeDone
<1> QED  BY <1>1, <1>2, <1>3, <1>4

\* Every step keeps what is known of the normalised text.
LEMMA NormalizeStep ==
  ASSUME Inv, [Next]_vars
  PROVE  NormalizeInv'
<1>0. /\ normalized \in Seq(Runes) /\ original \in Seq(Runes) /\ idx \in Nat
      /\ Len(normalized) \in Nat /\ Len(original) \in Nat /\ original' = original
  BY Texts, InputKept DEF Inv, TypeOK
<1>1. CASE NormalizeRune
  <2> DEFINE B == Becomes[original[idx + 1]]
             n == Len(normalized)
  <2>1. idx + 1 \in 1..Len(original) /\ original[idx + 1] \in Runes /\ pc' = pc /\ pc = "normalize"
        /\ idx' = idx + 1
    BY <1>0, <1>1 DEF NormalizeRune
  <2>2. B \in Seq(Runes) /\ \A k \in 1..Len(B) : Becomes[B[k]] = <<B[k]>>
    BY <2>1, StrategiesAssumption
  <2>3. normalized' = normalized \o B
    BY <1>1 DEF NormalizeRune
  <2> HIDE DEF B
  <2>4. /\ normalized' \in Seq(Runes) /\ Len(normalized') = n + Len(B)
        /\ \A k \in 1..(n + Len(B)) :
             normalized'[k] = IF k <= n THEN normalized[k] ELSE B[k - n]
    BY <1>0, <2>2, <2>3, ConcatProperties
  <2>5. \A k \in DOMAIN normalized' : Becomes[normalized'[k]] = <<normalized'[k]>>
    <3> SUFFICES ASSUME NEW k \in 1..(n + Len(B))
                 PROVE  Becomes[normalized'[k]] = <<normalized'[k]>>
      BY <2>4
    <3>1. CASE k <= n
      <4>1. k \in DOMAIN normalized /\ normalized'[k] = normalized[k]
        BY <1>0, <2>4, <3>1
      <4> QED  BY <4>1 DEF Inv, NormalizeInv
    <3>2. CASE ~(k <= n)
      <4>1. k - n \in 1..Len(B) /\ normalized'[k] = B[k - n]
        BY <1>0, <2>2, <2>4, <3>2
      <4> QED  BY <2>2, <4>1
    <3> QED  BY <3>1, <3>2
  <2>6. ASSUME \A k \in DOMAIN original : Len(Becomes[original[k]]) = 1
        PROVE  /\ Len(normalized') = idx + 1
               /\ \A k \in DOMAIN normalized' : <<normalized'[k]>> = Becomes[original[k]]
    <3>1. Len(B) = 1 /\ n = idx
          /\ \A k \in DOMAIN normalized : <<normalized[k]>> = Becomes[original[k]]
      BY <1>0, <2>1, <2>6 DEF B, Inv, NormalizeInv
    <3>2. Len(normalized') = idx + 1 /\ DOMAIN normalized' = 1..(idx + 1)
      BY <1>0, <2>4, <3>1
    <3>3. normalized'[idx + 1] = B[1]
      BY <1>0, <2>4, <3>1
    <3>4. <<B[1]>> = B
      BY <2>2, <3>1
    <3>5. \A k \in 1..idx : normalized'[k] = normalized[k] /\ k \in DOMAIN normalized
      BY <1>0, <2>4, <3>1
    <3>6. \A k \in 1..(idx + 1) : k \in 1..idx \/ k = idx + 1
      BY <1>0
    <3> QED  BY <3>1, <3>2, <3>3, <3>4, <3>5, <3>6 DEF B
  <2> QED  BY <1>0, <2>1, <2>5, <2>6 DEF NormalizeInv
<1>2. CASE NormalizeDone
  <2>1. normalized' = normalized /\ pc = "normalize" /\ pc' = "match" /\ idx = Len(original)
    BY <1>2 DEF NormalizeDone
  <2> QED  BY <1>0, <2>1 DEF Inv, NormalizeInv
<1>3. CASE ~NormalizeRune /\ ~NormalizeDone
  <2>1. normalized' = normalized /\ (pc = "normalize" <=> pc' = "normalize")
    BY <1>3, InputKept
  <2>2. pc = "normalize" => idx' = idx
    BY <1>3 DEF Next, vars, Match, MaskNext, MergeNext, LoopDone, WriteMasked, WriteInterval,
       WriteRest
  <2> QED  BY <1>0, <2>1, <2>2 DEF Inv, NormalizeInv
<1> QED  BY <1>1, <1>2, <1>3

\* Every step keeps what is set in which state.
LEMMA PhaseStep ==
  ASSUME Inv, [Next]_vars
  PROVE  PhaseInv'
<1>0. /\ UNCHANGED <<strategy, words, original>>
      /\ pc # "normalize" => normalized' = normalized
      /\ TypeOK /\ PhaseInv /\ Len(original) \in Nat /\ Len(normalized) \in Nat /\ idx \in Nat
  BY InputKept, Texts DEF Inv, TypeOK
<1>1. pc # "normalize" => Occurrences(normalized)' = Occurrences(normalized)
  BY <1>0 DEF Occurrences
<1>2. CASE NormalizeRune
  <2>1. UNCHANGED <<pc, matches, masked, intervals, filtered>> /\ pc = "normalize"
        /\ idx' = idx + 1 /\ idx < Len(original)
    BY <1>2 DEF NormalizeRune
  <2> QED  BY <1>0, <2>1 DEF PhaseInv
<1>3. CASE NormalizeDone
  <2>1. UNCHANGED <<matches, masked, intervals, filtered, normalized>> /\ pc = "normalize"
        /\ idx' = 0 /\ pc' = "match"
    BY <1>3 DEF NormalizeDone
  <2> QED  BY <1>0, <2>1 DEF PhaseInv
<1>4. CASE Match
  <2>1. pc = "match" /\ matches' = Occurrences(normalized) /\ idx' = idx
    BY <1>4 DEF Match
  <2>2. normalized' = normalized /\ idx = 0 /\ filtered = <<>>
    BY <1>0, <2>1 DEF PhaseInv
  <2>3. matches' = Occurrences(normalized)'
    BY <1>1, <2>1
  <2>4. CASE pc' = "done"
    BY <1>0, <2>1, <2>2, <2>3, <2>4 DEF PhaseInv
  <2>5. CASE pc' # "done"
    <3>1. filtered' = filtered /\ strategy \in {"replace", "highlight"}
          /\ pc' = IF strategy = "replace" THEN "mask" ELSE "merge"
      BY <1>0, <1>4, <2>5 DEF Match, TypeOK
    <3>2. CASE strategy = "replace"
      BY <1>0, <2>1, <2>2, <2>3, <3>1, <3>2 DEF PhaseInv
    <3>3. CASE strategy = "highlight"
      BY <1>0, <2>1, <2>2, <2>3, <3>1, <3>3 DEF PhaseInv
    <3> QED  BY <3>1, <3>2, <3>3
  <2> QED  BY <2>4, <2>5
<1>5. ASSUME NEW m \in sorted, MaskNext(m) \/ MergeNext(m)
      PROVE  PhaseInv'
  <2>1. UNCHANGED <<pc, idx, matches, filtered>> /\ pc \in {"mask", "merge"}
    BY <1>5 DEF MaskNext, MergeNext
  <2> QED  BY <1>0, <1>1, <2>1 DEF PhaseInv
<1>6. CASE LoopDone
  <2>1. UNCHANGED <<idx, matches, filtered, sorted>> /\ pc \in {"mask", "merge"} /\ pc' = "write"
        /\ sorted = {}
    BY <1>6 DEF LoopDone
  <2> QED  BY <1>0, <1>1, <2>1 DEF PhaseInv
<1>7. CASE WriteMasked \/ WriteRest
  <2>1. UNCHANGED <<idx, matches>> /\ pc = "write" /\ pc' = "done"
    BY <1>7 DEF WriteMasked, WriteRest
  <2> QED  BY <1>0, <1>1, <2>1 DEF PhaseInv
<1>8. CASE WriteInterval
  <2>1. UNCHANGED <<pc, matches, sorted>> /\ pc = "write" /\ strategy = "highlight"
        /\ intervals # <<>>
    BY <1>8 DEF WriteInterval
  <2>2. idx' <= Len(normalized)
    BY <1>0, <1>8, <2>1, NextInterval, IntervalWritten, Texts
  <2> QED  BY <1>0, <1>1, <2>1, <2>2 DEF PhaseInv
<1>9. CASE UNCHANGED vars
  BY <1>0, <1>1, <1>9 DEF vars, PhaseInv, Occurrences
<1> QED  BY <1>2, <1>3, <1>4, <1>5, <1>6, <1>7, <1>8, <1>9 DEF Next

\* The marked positions are those of the visited matches.
LEMMA MaskStep ==
  ASSUME Inv, [Next]_vars
  PROVE  MaskInv'
<1>0. /\ UNCHANGED <<strategy, words, original>>
      /\ pc # "normalize" => normalized' = normalized
      /\ TypeOK /\ PhaseInv /\ MaskInv /\ Len(normalized) \in Nat
  BY InputKept, Texts DEF Inv
<1>1. SUFFICES ASSUME pc' \in {"mask", "write"}, strategy = "replace"
               PROVE  masked' = {i \in 0..(Len(normalized') - 1) :
                                   \E m \in matches' \ sorted' : Within(i, m)}
  BY <1>0 DEF MaskInv, Within
<1>2. CASE Match
  <2>1. sorted' = matches' /\ masked' = masked /\ pc = "match"
    BY <1>1, <1>2 DEF Match
  <2> QED  BY <1>0, <2>1 DEF PhaseInv
<1>3. ASSUME NEW m \in sorted, MaskNext(m)
      PROVE  masked' = {i \in 0..(Len(normalized') - 1) :
                          \E n \in matches' \ sorted' : Within(i, n)}
  <2>1. /\ masked' = masked \cup Positions(m) /\ matches' = matches /\ sorted' = sorted \ {m}
        /\ normalized' = normalized /\ pc = "mask" /\ m \in matches
    BY <1>0, <1>3 DEF MaskNext, TypeOK
  <2>2. m.Position \in Nat /\ m.EndPos \in Nat
    BY <1>0, <2>1 DEF TypeOK, Spans
  <2>3. Positions(m) = {i \in 0..(Len(normalized) - 1) : Within(i, m)}
    BY <1>0, <2>2 DEF Positions, Within
  <2>4. masked = {i \in 0..(Len(normalized) - 1) : \E n \in matches \ sorted : Within(i, n)}
    BY <1>0, <1>1, <2>1 DEF MaskInv
  <2>5. matches' \ sorted' = (matches \ sorted) \cup {m}
    BY <2>1
  <2> QED  BY <2>1, <2>3, <2>4, <2>5
<1>4. ASSUME UNCHANGED <<matches, sorted, masked, normalized>>, pc \in {"mask", "write"}
      PROVE  masked' = {i \in 0..(Len(normalized') - 1) :
                          \E n \in matches' \ sorted' : Within(i, n)}
  BY <1>0, <1>1, <1>4 DEF MaskInv
<1>5. CASE LoopDone
  <2>1. pc = "mask"
    BY <1>0, <1>1, <1>5 DEF LoopDone, PhaseInv
  <2> QED  BY <1>4, <1>5, <2>1 DEF LoopDone
<1>6. CASE UNCHANGED vars
  BY <1>1, <1>4, <1>6 DEF vars
<1>7. ~NormalizeRune /\ ~NormalizeDone /\ ~WriteMasked /\ ~WriteInterval /\ ~WriteRest
      /\ \A m \in sorted : ~MergeNext(m)
  BY <1>0, <1>1 DEF NormalizeRune, NormalizeDone, WriteMasked, WriteInterval, WriteRest,
     MergeNext, PhaseInv
<1> QED  BY <1>2, <1>3, <1>5, <1>6, <1>7 DEF Next

-----------------------------------------------------------------------------
(***************************************************************************)
(* Highlighting.                                                           *)
(***************************************************************************)
\* A round of mergeIntervals keeps the intervals apart and covers one match
\* more.
LEMMA MergeKeeps ==
  ASSUME Inv, NEW m \in sorted, MergeNext(m)
  PROVE  OrderInv' /\ MergeInv'
<1> DEFINE L == Len(intervals)
           N == Len(normalized)
           new == intervals'
           p == m.Position
           q == m.EndPos
<1>0. /\ pc = "merge" /\ new = Merged(intervals, m) /\ IsNext(m) /\ sorted' = sorted \ {m}
      /\ UNCHANGED <<pc, matches, normalized>>
  BY DEF MergeNext
<1>1. /\ TypeOK /\ intervals \in Seq(Spans) /\ m \in Spans /\ m \in matches /\ N \in Nat /\ L \in Nat
      /\ matches = Occurrences(normalized) /\ sorted \subseteq matches /\ normalized \in Seq(Runes)
  BY <1>0, Texts DEF Inv, TypeOK, PhaseInv
<1>2. p \in Nat /\ q \in Nat /\ p < q /\ q <= N
  BY <1>1, OccurrenceSpan
<1>3. \A k \in 1..L : /\ intervals[k].Position \in Nat /\ intervals[k].EndPos \in Nat
                      /\ intervals[k].Position < intervals[k].EndPos
                      /\ intervals[k].EndPos <= N
                      /\ \A j \in 1..(k - 1) : intervals[j].EndPos < intervals[k].Position
  <2>1. \A k \in 1..L : intervals[k] \in Spans
    BY <1>1
  <2>2. \A k \in 1..L : intervals[k].Position \in Nat /\ intervals[k].EndPos \in Nat
    BY <2>1 DEF Spans
  <2> QED  BY <1>1, <2>2 DEF Inv, OrderInv
<1>4. /\ \A i \in 0..N : (\E k \in 1..L : Within(i, intervals[k]))
                         <=> \E n \in matches \ sorted : Within(i, n)
      /\ \A n \in sorted : intervals # <<>> => intervals[L].Position <= n.Position
  <2>1. DOMAIN intervals = 1..L
    BY <1>1
  <2> QED  BY <1>0, <2>1 DEF Inv, MergeInv, Last
<1>5. matches' \ sorted' = (matches \ sorted) \cup {m} /\ sorted' \subseteq sorted
      /\ \A n \in sorted : p <= n.Position
  BY <1>0, <1>1 DEF IsNext
<1>6. /\ new \in Seq(Spans)
      /\ \/ /\ intervals # <<>> /\ p <= intervals[L].EndPos
            /\ Len(new) = L
            /\ \A k \in 1..(L - 1) : new[k] = intervals[k]
            /\ new[L].Position = intervals[L].Position
            /\ new[L].EndPos = IF q > intervals[L].EndPos THEN q ELSE intervals[L].EndPos
         \/ /\ intervals # <<>> => p > intervals[L].EndPos
            /\ Len(new) = L + 1
            /\ \A k \in 1..L : new[k] = intervals[k]
            /\ new[L + 1] = m
  <2>1. new \in Seq(Spans) /\ IsMerged(intervals, m, new)
    BY <1>0, <1>1, MergedIntervals
  <2> QED  BY <2>1 DEF IsMerged, Last
<1>7. SUFFICES
        /\ \A k \in 1..Len(new) :
             /\ new[k].Position < new[k].EndPos /\ new[k].EndPos <= N
             /\ \A j \in 1..(k - 1) : new[j].EndPos < new[k].Position
        /\ \A i \in 0..N :
             (\E k \in 1..Len(new) : Within(i, new[k]))
             <=> Within(i, m) \/ \E k \in 1..L : Within(i, intervals[k])
        /\ \A n \in sorted : new[Len(new)].Position <= n.Position
  <2>1. DOMAIN new = 1..Len(new) /\ normalized' = normalized
    BY <1>0, <1>6
  <2>2. OrderInv'
    BY <1>7, <2>1 DEF OrderInv
  <2>3. \A i \in 0..N : (\E k \in 1..Len(new) : Within(i, new[k]))
                        <=> \E n \in matches' \ sorted' : Within(i, n)
    BY <1>4, <1>5, <1>7
  <2>4. MergeInv'
    BY <1>5, <1>7, <2>1, <2>3 DEF MergeInv, Last, Within
  <2> QED  BY <2>2, <2>4
<1> HIDE DEF new, p, q, L, N
<1>8. \A i : Within(i, m) <=> p <= i /\ i < q
  BY DEF Within, p, q
<1>9. CASE Len(new) = L
  <2>1. /\ L \in 1..L /\ p <= intervals[L].EndPos /\ L > 0
        /\ \A k \in 1..(L - 1) : new[k] = intervals[k]
        /\ new[L].Position = intervals[L].Position
        /\ new[L].EndPos = IF q > intervals[L].EndPos THEN q ELSE intervals[L].EndPos
        /\ intervals[L].Position <= p
    BY <1>1, <1>4, <1>6, <1>9 DEF L, p
  <2>2. /\ intervals[L].Position \in Nat /\ intervals[L].EndPos \in Nat
        /\ intervals[L].Position < intervals[L].EndPos /\ intervals[L].EndPos <= N
        /\ new[L].EndPos \in Nat /\ new[L].EndPos <= N
        /\ q <= new[L].EndPos /\ intervals[L].EndPos <= new[L].EndPos
    BY <1>1, <1>2, <1>3, <2>1
  <2>3. ASSUME NEW k \in 1..L
        PROVE  /\ new[k].Position < new[k].EndPos /\ new[k].EndPos <= N
               /\ \A j \in 1..(k - 1) : new[j].EndPos < new[k].Position
    <3>1. \A j \in 1..(k - 1) : j \in 1..(L - 1) /\ new[j] = intervals[j]
      BY <1>1, <2>1 DEF L
    <3>2. CASE k = L
      BY <1>3, <2>1, <2>2, <3>1, <3>2 DEF N, L
    <3>3. CASE k # L
      <4>1. k \in 1..(L - 1)
        BY <1>1, <3>3 DEF L
      <4> QED  BY <1>3, <2>1, <3>1, <4>1
    <3> QED  BY <3>2, <3>3
  <2>4. ASSUME NEW i \in 0..N, NEW k \in 1..L, Within(i, new[k])
        PROVE  Within(i, m) \/ \E x \in 1..L : Within(i, intervals[x])
    <3>1. CASE k = L
      <4>1. intervals[L].Position <= i /\ i < new[L].EndPos
        BY <2>1, <2>4, <3>1 DEF Within
      <4>2. CASE i < intervals[L].EndPos
        BY <2>1, <4>1, <4>2 DEF Within
      <4>3. CASE ~(i < intervals[L].EndPos)
        BY <1>1, <1>2, <1>8, <2>1, <2>2, <4>1, <4>3
      <4> QED  BY <4>2, <4>3
    <3>2. CASE k # L
      <4>1. k \in 1..(L - 1)
        BY <1>1, <3>2 DEF L
      <4> QED  BY <2>1, <2>4, <4>1
    <3> QED  BY <3>1, <3>2
  <2>5. ASSUME NEW i \in 0..N, Within(i, m) PROVE Within(i, new[L])
    BY <1>1, <1>2, <1>8, <2>1, <2>2, <2>5 DEF Within, N
  <2>6. ASSUME NEW i \in 0..N, NEW k \in 1..L, Within(i, intervals[k]) PROVE Within(i, new[k])
    <3>1. CASE k = L
      BY <1>1, <2>1, <2>2, <2>6, <3>1 DEF Within, N
    <3>2. CASE k # L
      <4>1. k \in 1..(L - 1)
        BY <1>1, <3>2 DEF L
      <4> QED  BY <2>1, <2>6, <4>1
    <3> QED  BY <3>1, <3>2
  <2>7. \A n \in sorted : new[Len(new)].Position <= n.Position
    BY <1>1, <1>4, <1>9, <2>1 DEF L
  <2> QED  BY <1>9, <2>1, <2>3, <2>4, <2>5, <2>6, <2>7
<1>10. CASE Len(new) = L + 1
  <2>1. /\ intervals # <<>> => p > intervals[L].EndPos
        /\ \A k \in 1..L : new[k] = intervals[k]
        /\ new[L + 1] = m
    BY <1>1, <1>6, <1>10 DEF L
  <2>2. \A k \in 1..L : intervals[k].EndPos < p
    <3> SUFFICES ASSUME NEW k \in 1..L PROVE intervals[k].EndPos < p
      OBVIOUS
    <3>1. intervals # <<>> /\ L \in 1..L /\ p > intervals[L].EndPos
      BY <1>1, <2>1 DEF L
    <3>2. CASE k = L
      BY <1>2, <1>3, <3>1, <3>2
    <3>3. CASE k # L
      <4>1. k \in 1..(L - 1)
        BY <1>1, <3>3 DEF L
      <4>2. intervals[k].EndPos < intervals[L].Position /\ intervals[L].Position < intervals[L].EndPos
        BY <1>3, <3>1, <4>1
      <4> QED  BY <1>2, <1>3, <3>1, <4>2
    <3> QED  BY <3>2, <3>3
  <2>3. ASSUME NEW k \in 1..(L + 1)
        PROVE  /\ new[k].Position < new[k].EndPos /\ new[k].EndPos <= N
               /\ \A j \in 1..(k - 1) : new[j].EndPos < new[k].Position
    <3>1. \A j \in 1..(k - 1) : j \in 1..L /\ new[j] = intervals[j]
      BY <1>1, <2>1 DEF L
    <3>2. CASE k = L + 1
      BY <1>2, <2>1, <2>2, <3>1, <3>2 DEF p, q
    <3>3. CASE k # L + 1
      <4>1. k \in 1..L
        BY <1>1, <3>3 DEF L
      <4> QED  BY <1>3, <2>1, <3>1, <4>1
    <3> QED  BY <3>2, <3>3
  <2>4. /\ L + 1 \in 1..(L + 1)
        /\ \A k \in 1..(L + 1) : k \in 1..L \/ k = L + 1
        /\ \A k \in 1..L : k \in 1..(L + 1)
    BY <1>1 DEF L
  <2>5. \A i \in 0..N : (\E k \in 1..(L + 1) : Within(i, new[k]))
                        <=> Within(i, m) \/ \E k \in 1..L : Within(i, intervals[k])
    BY <2>1, <2>4
  <2>6. \A n \in sorted : new[L + 1].Position <= n.Position
    BY <1>5, <2>1 DEF p
  <2> QED  BY <1>10, <2>3, <2>5, <2>6
<1> QED  BY <1>6, <1>9, <1>10

\* Writing an interval moves it from those that are left to the marks.
LEMMA WriteKeeps ==
  ASSUME Inv, WriteInterval
  PROVE  OrderInv' /\ WriteInv'
<1> DEFINE L == Len(intervals)
           N == Len(normalized)
           iv == intervals[1]
           a == iv.Position
           b == iv.EndPos
<1>0. /\ pc = "write" /\ strategy = "highlight" /\ intervals # <<>>
      /\ intervals' = Tail(intervals) /\ UNCHANGED <<pc, strategy, original, normalized, matches>>
  BY DEF WriteInterval, input
<1>1. /\ TypeOK /\ intervals \in Seq(Spans) /\ N \in Nat /\ L \in Nat /\ L >= 1 /\ idx \in Nat
      /\ Len(Target) = N /\ filtered \in Seq(Shown) /\ Len(filtered) = idx
      /\ DOMAIN intervals = 1..L /\ DOMAIN filtered = 1..idx
  <2>1. TypeOK /\ intervals \in Seq(Spans) /\ idx \in Nat /\ filtered \in Seq(Shown)
    BY DEF Inv, TypeOK
  <2>2. Len(filtered) = idx
    BY <1>0 DEF Inv, WriteInv
  <2> QED  BY <1>0, <2>1, <2>2, Texts
<1>2. /\ a \in Nat /\ b \in Nat /\ idx <= a /\ a < b /\ b <= N
      /\ Len(intervals') = L - 1 /\ intervals' \in Seq(Spans)
      /\ \A k \in 1..(L - 1) : intervals'[k] = intervals[k + 1]
  <2> HIDE DEF iv, L, N
  <2>1. /\ iv.Position \in Nat /\ iv.EndPos \in Nat
        /\ idx <= iv.Position /\ iv.Position < iv.EndPos /\ iv.EndPos <= Len(Target)
        /\ Tail(intervals) \in Seq(Spans)
        /\ Len(Tail(intervals)) = Len(intervals) - 1
        /\ \A k \in 1..(Len(intervals) - 1) : Tail(intervals)[k] = intervals[k + 1]
    BY <1>0, NextInterval DEF iv
  <2> QED  BY <1>0, <1>1, <2>1 DEF L
<1>3. /\ filtered' \in Seq(Shown) /\ Len(filtered') = b /\ idx' = b
      /\ \A k \in 1..idx : filtered'[k] = filtered[k]
      /\ \A k \in (idx + 1)..a : filtered'[k].rune = Target[k] /\ filtered'[k].mark = 0
      /\ \A k \in (a + 1)..b : filtered'[k].rune = Target[k] /\ filtered'[k].mark = b
  <2> HIDE DEF iv
  <2> QED  BY IntervalWritten DEF iv
<1>4. \A k \in 1..(L - 1) : k + 1 \in 1..L
  BY <1>1
<1>5. OrderInv'
  <2> SUFFICES ASSUME NEW k \in 1..(L - 1)
               PROVE  /\ intervals'[k].Position < intervals'[k].EndPos
                      /\ intervals'[k].EndPos <= N
                      /\ \A j \in 1..(k - 1) : intervals'[j].EndPos < intervals'[k].Position
    <3>1. DOMAIN intervals' = 1..(L - 1)
      BY <1>2
    <3> QED  BY <1>0, <3>1 DEF OrderInv
  <2>1. intervals'[k] = intervals[k + 1] /\ k + 1 \in 1..L
    BY <1>2, <1>4
  <2>2. \A j \in 1..(k - 1) : intervals'[j] = intervals[j + 1] /\ j + 1 \in 1..((k + 1) - 1)
    BY <1>1, <1>2
  <2> QED  BY <1>1, <2>1, <2>2 DEF Inv, OrderInv
<1>6. \A k \in 1..b : filtered'[k].rune = Target[k]
  <2>1. \A k \in 1..idx : filtered[k].rune = Target[k]
    BY <1>0, <1>1 DEF Inv, WriteInv
  <2>2. \A k \in 1..b : k \in 1..idx \/ k \in (idx + 1)..a \/ k \in (a + 1)..b
    BY <1>1, <1>2
  <2> QED  BY <1>3, <2>1, <2>2
<1>7. \A k \in 1..(L - 1) : b < intervals'[k].Position
  <2> SUFFICES ASSUME NEW k \in 1..(L - 1) PROVE b < intervals[k + 1].Position
    BY <1>2
  <2>1. k + 1 \in 1..L /\ 1 \in 1..((k + 1) - 1)
    BY <1>1
  <2> QED  BY <1>1, <2>1 DEF Inv, OrderInv
<1>8. ASSUME NEW i \in 0..N
      PROVE  (i < b /\ filtered'[i + 1].mark # 0)
             <=> (i < idx /\ filtered[i + 1].mark # 0) \/ Within(i, iv)
  <2>1. Within(i, iv) <=> a <= i /\ i < b
    BY DEF Within
  <2> HIDE DEF a, b, iv
  <2>2. CASE i < idx
    <3>1. i + 1 \in 1..idx /\ i < b /\ ~(a <= i)
      BY <1>1, <1>2, <2>2
    <3> QED  BY <1>3, <2>1, <2>2, <3>1
  <2>3. CASE idx <= i /\ i < a
    <3>1. i + 1 \in (idx + 1)..a /\ ~(i < idx) /\ ~(a <= i)
      BY <1>1, <1>2, <2>3
    <3> QED  BY <1>3, <2>1, <3>1
  <2>4. CASE a <= i /\ i < b
    <3>1. i + 1 \in (a + 1)..b /\ b # 0
      BY <1>1, <1>2, <2>4
    <3> QED  BY <1>3, <2>1, <2>4, <3>1
  <2>5. CASE b <= i
    BY <1>1, <1>2, <2>1, <2>5
  <2>6. i < idx \/ (idx <= i /\ i < a) \/ (a <= i /\ i < b) \/ b <= i
    BY <1>1, <1>2
  <2> QED  BY <2>2, <2>3, <2>4, <2>5, <2>6
<1>9. ASSUME NEW i \in 0..N
      PROVE  Covered(i) <=> \/ i < b /\ filtered'[i + 1].mark # 0
                            \/ \E k \in 1..(L - 1) : Within(i, intervals'[k])
  <2>1. Covered(i) <=> \/ i < idx /\ filtered[i + 1].mark # 0
                       \/ \E k \in 1..L : Within(i, intervals[k])
    BY <1>0, <1>1 DEF Inv, WriteInv
  <2>2. (\E k \in 1..L : Within(i, intervals[k]))
          <=> Within(i, iv) \/ \E k \in 1..(L - 1) : Within(i, intervals[k + 1])
    <3>1. \A k \in 1..L : k = 1 \/ (k - 1 \in 1..(L - 1) /\ k = (k - 1) + 1)
      BY <1>1
    <3>2. 1 \in 1..L
      BY <1>1
    <3> QED  BY <1>4, <3>1, <3>2
  <2> QED  BY <1>2, <1>8, <2>1, <2>2
<1>10. ASSUME NEW j \in 1..b, j + 1 \in 1..b, filtered'[j].mark # 0, filtered'[j + 1].mark # 0
       PROVE  filtered'[j].mark = filtered'[j + 1].mark
  <2>1. idx # 0 => idx < a
    BY <1>0, <1>1 DEF Inv, WriteInv
  <2> HIDE DEF a, b, iv
  <2>2. CASE j + 1 <= idx
    <3>1. j \in 1..idx /\ j + 1 \in 1..idx
      BY <1>1, <1>2, <2>2
    <3>2. \A x, y \in 1..idx : y = x + 1 /\ filtered[x].mark # 0 /\ filtered[y].mark # 0
                                => filtered[x].mark = filtered[y].mark
      BY <1>0, <1>1 DEF Inv, WriteInv
    <3>3. filtered'[j] = filtered[j] /\ filtered'[j + 1] = filtered[j + 1]
      BY <1>3, <3>1
    <3> QED  BY <1>10, <3>1, <3>2, <3>3
  <2>3. CASE ~(j + 1 <= idx)
    <3>1. ~(j + 1 \in (idx + 1)..a)
      BY <1>3, <1>10
    <3>2. j + 1 > a
      BY <1>1, <1>2, <2>3, <3>1
    <3>3. ~(j \in (idx + 1)..a)
      BY <1>3, <1>10
    <3>4. j > a
      BY <1>1, <1>2, <2>1, <2>3, <3>2, <3>3
    <3>5. j \in (a + 1)..b /\ j + 1 \in (a + 1)..b
      BY <1>2, <1>10, <3>4
    <3> QED  BY <1>3, <3>5
  <2> QED  BY <2>2, <2>3
<1>11. WriteInv'
  <2>1. DOMAIN filtered' = 1..b /\ DOMAIN intervals' = 1..(L - 1)
    BY <1>2, <1>3
  <2>2. Target' = Target /\ \A i : Covered(i)' <=> Covered(i)
    BY <1>0 DEF Target, Covered
  <2>3. \A j, k \in DOMAIN filtered' :
          k = j + 1 /\ filtered'[j].mark # 0 /\ filtered'[k].mark # 0
          => filtered'[j].mark = filtered'[k].mark
    BY <1>10, <2>1
  <2>4. Len(filtered') = idx' /\ idx' = b
    BY <1>3
  <2>5. \A i \in 0..Len(normalized') :
          Covered(i)' <=> \/ i < idx' /\ filtered'[i + 1].mark # 0
                          \/ \E k \in DOMAIN intervals' : Within(i, intervals'[k])
    BY <1>0, <1>9, <2>1, <2>2, <2>4
  <2>6. \A k \in DOMAIN filtered' : filtered'[k].rune = Target'[k]
    BY <1>6, <2>1, <2>2
  <2>7. \A k \in DOMAIN intervals' : idx' < intervals'[k].Position
    BY <1>7, <2>1, <2>4
  <2> HIDE DEF a, b, iv
  <2> QED  BY <2>3, <2>4, <2>5, <2>6, <2>7 DEF WriteInv, Within
<1> QED  BY <1>5, <1>11

\* The other steps leave the intervals and the written text alone.
LEMMA HighlightInvStep ==
  ASSUME Inv, [Next]_vars
  PROVE  OrderInv' /\ MergeInv' /\ WriteInv'
<1>0. /\ UNCHANGED <<strategy, words, original>>
      /\ pc # "normalize" => normalized' = normalized
      /\ TypeOK /\ PhaseInv /\ OrderInv /\ MergeInv /\ WriteInv
  BY InputKept DEF Inv
<1>1. CASE pc = "normalize"
  <2>1. intervals' = <<>> /\ pc' \in {"normalize", "match"}
    BY <1>0, <1>1 DEF Next, vars, NormalizeRune, NormalizeDone, Match, MaskNext, MergeNext,
       LoopDone, WriteMasked, WriteInterval, WriteRest, PhaseInv
  <2> QED  BY <2>1 DEF OrderInv, MergeInv, WriteInv
<1>2. CASE Match
  <2>1. /\ intervals' = <<>> /\ pc' \in {"done", "mask", "merge"}
        /\ pc' = "merge" => sorted' = matches'
    BY <1>0, <1>2 DEF Match, PhaseInv
  <2>2. DOMAIN intervals' = {}
    BY <2>1
  <2> QED  BY <2>1, <2>2 DEF OrderInv, MergeInv, WriteInv
<1>3. ASSUME NEW m \in sorted, MaskNext(m)
      PROVE  OrderInv' /\ MergeInv' /\ WriteInv'
  <2>1. UNCHANGED <<intervals, normalized>> /\ pc' = "mask"
    BY <1>3 DEF MaskNext
  <2> QED  BY <1>0, <2>1 DEF OrderInv, MergeInv, WriteInv
<1>4. ASSUME NEW m \in sorted, MergeNext(m)
      PROVE  OrderInv' /\ MergeInv' /\ WriteInv'
  <2>1. pc' = "merge"
    BY <1>4 DEF MergeNext
  <2> QED  BY <1>4, <2>1, MergeKeeps DEF WriteInv
<1>5. CASE LoopDone
  <2>1. /\ UNCHANGED <<normalized, idx, matches, intervals, filtered>>
        /\ pc \in {"mask", "merge"} /\ sorted = {} /\ pc' = "write"
    BY <1>5 DEF LoopDone
  <2>2. OrderInv' /\ MergeInv'
    BY <1>0, <2>1 DEF OrderInv, MergeInv
  <2>3. CASE strategy = "highlight"
    <3>1. pc = "merge" /\ idx = 0 /\ filtered = <<>>
      BY <1>0, <2>1, <2>3 DEF PhaseInv
    <3>2. \A i \in 0..Len(normalized) :
            (\E k \in DOMAIN intervals : Within(i, intervals[k])) <=> Covered(i)
      BY <1>0, <2>1, <3>1 DEF MergeInv, Covered, Within
    <3>3. \A i \in 0..Len(normalized) :
            Covered(i)' <=> \E k \in DOMAIN intervals' : Within(i, intervals'[k])
      BY <2>1, <3>2 DEF Covered
    <3>4. filtered' = <<>> /\ idx' = 0 /\ Len(filtered') = 0 /\ DOMAIN filtered' = {}
          /\ \A i \in 0..Len(normalized') : ~(i < idx')
      BY <1>0, <2>1, <3>1, Texts
    <3> QED  BY <1>0, <2>1, <2>2, <3>3, <3>4 DEF WriteInv, Within
  <2>4. CASE strategy # "highlight"
    BY <1>0, <2>2, <2>4 DEF WriteInv
  <2> QED  BY <2>3, <2>4
<1>6. CASE WriteMasked \/ WriteRest
  <2>1. UNCHANGED <<intervals, normalized>> /\ pc' = "done"
    BY <1>6 DEF WriteMasked, WriteRest
  <2> QED  BY <1>0, <2>1 DEF OrderInv, MergeInv, WriteInv
<1>7. CASE WriteInterval
  <2>1. pc' = "write"
    BY <1>7 DEF WriteInterval
  <2> QED  BY <1>7, <2>1, WriteKeeps DEF MergeInv
<1>8. CASE UNCHANGED vars
  BY <1>0, <1>8 DEF vars, OrderInv, MergeInv, WriteInv, Covered, Within, Target, Last
<1>9. pc # "normalize" => ~NormalizeRune /\ ~NormalizeDone
  BY DEF NormalizeRune, NormalizeDone
<1> QED  BY <1>1, <1>2, <1>3, <1>4, <1>5, <1>6, <1>7, <1>8, <1>9 DEF Next

\* The rune shown at a position is one that becomes the rune of the normalised
\* text there, and it is no mask.
LEMMA AlignedTarget ==
  ASSUME TypeOK, NormalizeInv, pc # "normalize", Aligned, NEW k \in 1..Len(normalized)
  PROVE  Becomes[Target[k]] = <<normalized[k]>> /\ Target[k] # Mask
<1>1. Target[k] \in Runes /\ k \in DOMAIN normalized
  BY Texts
<1>2. Target[k] # Mask
  BY <1>1, StrategiesAssumption DEF Mask
<1>3. CASE Len(original) # Len(normalized)
  <2>1. Target[k] = normalized[k]
    BY <1>3 DEF Target
  <2> QED  BY <1>1, <1>2, <2>1 DEF NormalizeInv
<1>4. CASE Len(original) = Len(normalized)
  <2>1. Target[k] = original[k]
    BY <1>4 DEF Target
  <2>2. \A j \in DOMAIN original : Len(Becomes[original[j]]) = 1
    BY <1>4 DEF Aligned
  <2> QED  BY <1>1, <1>2, <2>1, <2>2 DEF NormalizeInv
<1> QED  BY <1>3, <1>4

\* With the last runes written the text is complete and the marks are those of
\* the matches.
LEMMA HighlightStep ==
  ASSUME Inv, HighlightExact, [Next]_vars
  PROVE  HighlightExact'
<1>0. UNCHANGED <<strategy, words, original>> /\ (pc # "normalize" => normalized' = normalized)
  BY InputKept
<1>1. CASE WriteRest
  <2> DEFINE n == Len(Target)
  <2>1. /\ pc = "write" /\ strategy = "highlight" /\ intervals = <<>> /\ matches' = matches
        /\ normalized' = normalized
    BY <1>1 DEF WriteRest
  <2>2. /\ filtered' \in Seq(Shown) /\ Len(filtered') = n /\ idx \in Nat /\ idx <= n /\ n \in Nat
        /\ \A k \in 1..idx : filtered'[k] = filtered[k]
        /\ \A k \in (idx + 1)..n : filtered'[k].rune = Target[k] /\ filtered'[k].mark = 0
        /\ Target \in Seq(Runes) /\ Len(normalized) = n
    BY <1>1, RestWritten, Texts DEF Inv
  <2>3. Target' = Target /\ \A i : Covered(i)' <=> Covered(i)
    BY <1>0, <2>1 DEF Target, Covered
  <2>4. /\ filtered \in Seq(Shown) /\ Len(filtered) = idx /\ DOMAIN filtered = 1..idx
        /\ DOMAIN intervals = {} /\ DOMAIN filtered' = 1..n /\ DOMAIN Target = 1..n
    BY <2>1, <2>2 DEF Inv, TypeOK, WriteInv
  <2>5. /\ \A k \in 1..idx : filtered[k].rune = Target[k]
        /\ \A i \in 0..n : Covered(i) <=> i < idx /\ filtered[i + 1].mark # 0
        /\ \A j, k \in 1..idx :
             k = j + 1 /\ filtered[j].mark # 0 /\ filtered[k].mark # 0
             => filtered[j].mark = filtered[k].mark
    <3> HIDE DEF n
    <3>1. /\ \A k \in DOMAIN filtered : filtered[k].rune = Target[k]
          /\ \A i \in 0..Len(normalized) :
               Covered(i) <=> \/ i < idx /\ filtered[i + 1].mark # 0
                              \/ \E k \in DOMAIN intervals : Within(i, intervals[k])
          /\ \A j, k \in DOMAIN filtered :
               k = j + 1 /\ filtered[j].mark # 0 /\ filtered[k].mark # 0
               => filtered[j].mark = filtered[k].mark
      BY <2>1 DEF Inv, WriteInv
    <3>2. Len(normalized) = n /\ DOMAIN filtered = 1..idx
      BY <2>2, <2>4
    <3>3. ~\E k \in DOMAIN intervals : TRUE
      BY <2>4
    <3> QED  BY <3>1, <3>2, <3>3, Zenon
  <2> HIDE DEF n
  <2>6. \A k \in 1..n : k \in 1..idx \/ k \in (idx + 1)..n
    BY <2>2
  <2>7. RunesOf(filtered') = Target
    <3>1. \A k \in 1..n : filtered'[k].rune = Target[k]
      BY <2>2, <2>5, <2>6
    <3> QED  BY <2>2, <2>4, <3>1 DEF RunesOf
  <2>8. \A k \in 1..n : (filtered'[k].mark # 0) <=> Covered(k - 1)
    <3> SUFFICES ASSUME NEW k \in 1..n PROVE (filtered'[k].mark # 0) <=> Covered(k - 1)
      OBVIOUS
    <3>1. k - 1 \in 0..n /\ (k - 1) + 1 = k
      BY <2>2
    <3>2. Covered(k - 1) <=> k - 1 < idx /\ filtered[k].mark # 0
      BY <2>5, <3>1
    <3>3. CASE k \in 1..idx
      BY <2>2, <3>2, <3>3
    <3>4. CASE k \in (idx + 1)..n
      BY <2>2, <3>2, <3>4
    <3> QED  BY <2>6, <3>3, <3>4
  <2>9. \A j, k \in 1..n :
          k = j + 1 /\ filtered'[j].mark # 0 /\ filtered'[k].mark # 0
          => filtered'[j].mark = filtered'[k].mark
    <3> SUFFICES ASSUME NEW j \in 1..n, NEW k \in 1..n, k = j + 1, filtered'[j].mark # 0,
                        filtered'[k].mark # 0
                 PROVE  filtered'[j].mark = filtered'[k].mark
      OBVIOUS
    <3>1. j \in 1..idx /\ k \in 1..idx
      BY <2>2, <2>6
    <3> QED  BY <2>2, <2>5, <3>1
  <2>10. ASSUME Aligned, NEW k \in 1..n PROVE Becomes[filtered'[k].rune] = <<normalized[k]>>
    <3>1. filtered'[k].rune = Target[k]
      BY <2>2, <2>5, <2>6
    <3>2. TypeOK /\ NormalizeInv /\ k \in 1..Len(normalized)
      BY <2>2 DEF Inv
    <3> QED  BY <2>1, <2>10, <3>1, <3>2, AlignedTarget
  <2>11. Aligned' <=> Aligned
    BY <1>0, <2>1 DEF Aligned
  <2>12. RunesOf(filtered)' = RunesOf(filtered')
    BY DEF RunesOf
  <2> QED  BY <2>1, <2>3, <2>4, <2>7, <2>8, <2>9, <2>10, <2>11, <2>12, Zenon DEF HighlightExact
<1>2. CASE Match
  <2>1. pc' = "done" => strategy = "detect" \/ matches' = {}
    BY <1>2 DEF Match
  <2> QED  BY <1>0, <2>1 DEF HighlightExact
<1>3. CASE WriteMasked
  BY <1>0, <1>3 DEF WriteMasked, HighlightExact
<1>4. CASE UNCHANGED vars
  <2>1. /\ (Aligned' <=> Aligned) /\ Target' = Target /\ \A i : Covered(i)' <=> Covered(i)
        /\ RunesOf(filtered)' = RunesOf(filtered)
        /\ UNCHANGED <<pc, strategy, matches, filtered, normalized>>
    BY <1>4 DEF vars, Aligned, Target, Covered, RunesOf
  <2> QED  BY <2>1 DEF HighlightExact
<1>5. CASE NormalizeRune \/ NormalizeDone \/ LoopDone \/ WriteInterval
           \/ \E m \in sorted : MaskNext(m) \/ MergeNext(m)
  <2>1. pc' # "done"
    BY <1>5 DEF NormalizeRune, NormalizeDone, LoopDone, WriteInterval, MaskNext, MergeNext
  <2> QED  BY <2>1 DEF HighlightExact
<1> QED  BY <1>1, <1>2, <1>3, <1>4, <1>5 DEF Next

-----------------------------------------------------------------------------
(***************************************************************************)
(* Replacing.                                                              *)
(***************************************************************************)
\* Every set of numbers has a least one: induction for what the folds of the
\* library compute.
LEMMA LeastNumber ==
  ASSUME NEW B \in SUBSET Nat, B # {}
  PROVE  \E n \in B : \A k \in B : n <= k
<1> DEFINE T == {1..n : n \in B}
<1>1. IsWellFoundedOn(StrictSubsetOrdering(Nat), FiniteSubsetsOf(Nat))
  BY FS_StrictSubsetOrderingWellFounded
<1>2. T \subseteq FiniteSubsetsOf(Nat) /\ T # {}
  <2>1. ASSUME NEW n \in B PROVE IsFiniteSet(1..n) /\ 1..n \in SUBSET Nat
    BY FS_Interval
  <2> QED  BY <2>1 DEF FiniteSubsetsOf
<1>3. \E x \in T : \A y \in T : ~(<<y, x>> \in StrictSubsetOrdering(Nat))
  <2> HIDE DEF T
  <2> QED  BY <1>1, <1>2, WFMin
<1>4. PICK n \in B : \A k \in B : ~(<<1..k, 1..n>> \in StrictSubsetOrdering(Nat))
  BY <1>3
<1>5. ASSUME NEW k \in B, k < n PROVE FALSE
  <2>1. 1..k \subseteq 1..n /\ n \in 1..n /\ n \notin 1..k
    BY <1>5
  <2>2. <<1..k, 1..n>> \in (SUBSET Nat) \X (SUBSET Nat)
    OBVIOUS
  <2>3. 1..k # 1..n
    BY <2>1
  <2> DEFINE A == 1..k
             C == 1..n
  <2>4. <<A, C>> \in StrictSubsetOrdering(Nat)
    <3> HIDE DEF A, C
    <3>1. A \in SUBSET Nat /\ C \in SUBSET Nat /\ A \subseteq C /\ A # C
      BY <2>1, <2>2, <2>3 DEF A, C
    <3> QED  BY <3>1 DEF StrictSubsetOrdering
  <2> QED  BY <1>4, <2>4
<1> QED  BY <1>5

\* Sequences of one element each, one after the other, are their elements.
LEMMA FlattenSingles ==
  ASSUME NEW S, NEW y \in Seq(S), y # <<>>, NEW seqs, seqs = [k \in 1..Len(y) |-> <<y[k]>>]
  PROVE  FlattenSeq(seqs) = y
<1> DEFINE n == Len(y)
           Def(g) == [i \in 1..n |-> IF i = 1 THEN seqs[i] ELSE g[i - 1] \o seqs[i]]
           f == [i \in 1..n |-> SubSeq(y, 1, i)]
           g == CHOOSE g : g = Def(g)
<1>1. n \in Nat /\ n > 0 /\ Len(seqs) = n /\ seqs \in Seq(Seq(S)) /\ n \in 1..n
      /\ \A k \in 1..n : seqs[k] = <<y[k]>>
  OBVIOUS
<1>2. FlattenSeq(seqs) = g[n]
  BY <1>1 DEF FlattenSeq
<1>3. \A h : DOMAIN Def(h) = 1..n
             /\ \A i \in 1..n : Def(h)[i] = IF i = 1 THEN seqs[i] ELSE h[i - 1] \o seqs[i]
  OBVIOUS
<1>4. f[1] = seqs[1] /\ \A i \in 1..n : i # 1 => f[i] = f[i - 1] \o seqs[i]
  <2>1. f[1] = seqs[1]
    <3>1. SubSeq(y, 1, 0) = <<>> /\ SubSeq(y, 1, 1) = SubSeq(y, 1, 1 - 1) \o <<y[1]>>
      BY <1>1, SubSeqRecursiveSecond, SubSeqEmpty
    <3>2. <<>> \o <<y[1]>> = <<y[1]>>
      OBVIOUS
    <3>3. 1 \in 1..n /\ 1 - 1 = 0
      BY <1>1
    <3>4. f[1] = SubSeq(y, 1, 1) /\ seqs[1] = <<y[1]>>
      BY <1>1, <3>3
    <3> QED  BY <3>1, <3>2, <3>3, <3>4
  <2>2. ASSUME NEW i \in 1..n, i # 1 PROVE f[i] = f[i - 1] \o seqs[i]
    <3>1. i - 1 \in 1..n /\ i \in 1..Len(y) /\ 1 \in 1..Len(y)
      BY <1>1, <2>2
    <3>2. SubSeq(y, 1, i) = SubSeq(y, 1, i - 1) \o <<y[i]>>
      BY <3>1, SubSeqRecursiveSecond
    <3> QED  BY <1>1, <3>1, <3>2
  <2> QED  BY <2>1, <2>2
<1>5. DOMAIN f = 1..n /\ f = [i \in 1..n |-> f[i]]
  OBVIOUS
<1> HIDE DEF f
<1>6. f = Def(f)
  <2>1. \A i \in 1..n : f[i] = IF i = 1 THEN seqs[i] ELSE f[i - 1] \o seqs[i]
    BY <1>4
  <2> QED  BY <1>5, <2>1
<1> HIDE DEF Def
<1>7. g = Def(g)
  BY <1>6
<1> HIDE DEF g
<1>8. g[1] = seqs[1] /\ \A i \in 1..n : i # 1 => g[i] = g[i - 1] \o seqs[i]
  <2>1. 1 \in 1..n
    BY <1>1
  <2>2. \A i \in 1..n : Def(g)[i] = IF i = 1 THEN seqs[i] ELSE g[i - 1] \o seqs[i]
    BY <1>3
  <2>3. \A i \in 1..n : g[i] = Def(g)[i]
    BY <1>7
  <2>4. \A i \in 1..n : g[i] = IF i = 1 THEN seqs[i] ELSE g[i - 1] \o seqs[i]
    BY <2>2, <2>3
  <2> QED  BY <2>1, <2>4
<1> DEFINE Bad == {i \in 1..n : g[i] # f[i]}
<1>9. Bad = {}
  <2> SUFFICES ASSUME Bad # {} PROVE FALSE
    OBVIOUS
  <2>1. Bad \in SUBSET Nat
    BY <1>1
  <2>2. PICK i \in Bad : \A k \in Bad : i <= k
    <3> HIDE DEF Bad
    <3> QED  BY <2>1, LeastNumber
  <2>3. i \in 1..n /\ g[i] # f[i] /\ i # 1
    BY <1>4, <1>8, <2>2
  <2>4. i - 1 \in 1..n /\ ~(i <= i - 1)
    BY <1>1, <2>3
  <2>5. g[i - 1] = f[i - 1]
    BY <2>2, <2>4
  <2> QED  BY <1>4, <1>8, <2>3, <2>5
<1>10. g[n] = SubSeq(y, 1, n)
  BY <1>1, <1>9 DEF f
<1> QED  BY <1>2, <1>10, SubSeqFull

\* The text with its masks, normalised again: at each position the mask or the
\* rune of the normalised text.
LEMMA MaskedAgain ==
  ASSUME Inv, WriteMasked, Aligned, normalized # <<>>, NEW y,
         y = [k \in 1..Len(normalized) |-> IF k - 1 \in masked THEN Mask ELSE normalized[k]]
  PROVE  /\ y \in Seq(Runes \cup {Mask}) /\ Len(y) = Len(normalized)
         /\ NormalizedAgain' = y
<1> DEFINE N == Len(normalized)
<1>0. /\ original \in Seq(Runes) /\ normalized \in Seq(Runes) /\ N \in Nat /\ N > 0
      /\ Target \in Seq(Runes) /\ Len(Target) = N
  BY Texts DEF Inv
<1>1. y \in Seq(Runes \cup {Mask}) /\ Len(y) = N /\ y # <<>>
      /\ \A k \in 1..N : y[k] = IF k - 1 \in masked THEN Mask ELSE normalized[k]
  <2>1. \A k \in 1..N : (IF k - 1 \in masked THEN Mask ELSE normalized[k]) \in Runes \cup {Mask}
    BY <1>0
  <2> QED  BY <1>0, <2>1
<1>2. DOMAIN filtered' = 1..N
      /\ \A k \in 1..N : filtered'[k].rune = IF k - 1 \in masked THEN Mask ELSE Target[k]
  BY <1>0 DEF WriteMasked
<1>3. \A k \in 1..N : Becomes[Target[k]] = <<normalized[k]>> /\ Target[k] # Mask
  <2>1. TypeOK /\ NormalizeInv /\ pc # "normalize"
    BY DEF Inv, WriteMasked
  <2> QED  BY <2>1, AlignedTarget
<1>4. \A k \in 1..N : (IF filtered'[k].rune = Mask THEN <<Mask>> ELSE Becomes[filtered'[k].rune])
                        = <<y[k]>>
  BY <1>1, <1>2, <1>3
<1>5. [k \in DOMAIN filtered' |->
         IF filtered'[k].rune = Mask THEN <<Mask>> ELSE Becomes[filtered'[k].rune]]
        = [k \in 1..Len(y) |-> <<y[k]>>]
  BY <1>1, <1>2, <1>4
<1>6. FlattenSeq([k \in 1..Len(y) |-> <<y[k]>>]) = y
  BY <1>1, FlattenSingles
<1> QED  BY <1>1, <1>5, <1>6 DEF NormalizedAgain

\* The runes from i + 1 to j of a text
LEMMA Segment ==
  ASSUME NEW S, NEW s \in Seq(S), NEW i \in Nat, NEW j \in Nat, i < j, j <= Len(s)
  PROVE  /\ SubSeq(s, i + 1, j) \in Seq(S) /\ Len(SubSeq(s, i + 1, j)) = j - i
         /\ \A x \in 1..(j - i) : SubSeq(s, i + 1, j)[x] = s[i + x]
<1>1. i + 1 \in Int /\ j \in Int /\ \A x \in (i + 1)..j : s[x] \in S
  OBVIOUS
<1>2. /\ SubSeq(s, i + 1, j) \in Seq(S)
      /\ Len(SubSeq(s, i + 1, j)) = IF i + 1 <= j THEN j - (i + 1) + 1 ELSE 0
      /\ \A x \in 1..(j - (i + 1) + 1) : SubSeq(s, i + 1, j)[x] = s[(i + 1) + x - 1]
  BY <1>1, SubSeqProperties
<1>3. i + 1 <= j /\ j - (i + 1) + 1 = j - i /\ \A x \in 1..(j - i) : (i + 1) + x - 1 = i + x
  OBVIOUS
<1> QED  BY <1>2, <1>3

\* A word in that text would consist of unmasked runes, and would have been
\* found and masked.
LEMMA NoneLeft ==
  ASSUME Inv, pc = "write", strategy = "replace", NEW y \in Seq(Runes \cup {Mask}),
         Len(y) = Len(normalized),
         \A k \in 1..Len(normalized) :
           y[k] = IF k - 1 \in masked THEN Mask ELSE normalized[k]
  PROVE  Occurrences(y) = {}
<1> SUFFICES ASSUME NEW m \in Occurrences(y) PROVE FALSE
  OBVIOUS
<1> DEFINE N == Len(normalized)
           i == m.Position
           j == m.EndPos
<1>1. /\ TypeOK /\ normalized \in Seq(Runes) /\ N \in Nat /\ words \subseteq Seq(Runes)
      /\ matches = Occurrences(normalized) /\ sorted = {}
      /\ masked = {x \in 0..(N - 1) : \E n \in matches : Within(x, n)}
  <2>1. sorted = {} /\ TypeOK /\ matches = Occurrences(normalized)
    BY DEF Inv, PhaseInv
  <2>2. masked = {x \in 0..(N - 1) : \E n \in matches \ sorted : Within(x, n)}
    BY DEF Inv, MaskInv
  <2>3. matches \ sorted = matches
    BY <2>1
  <2> QED  BY <2>1, <2>2, <2>3, Texts
<1>2. i \in Nat /\ j \in Nat /\ i < j /\ j <= N /\ SubSeq(y, i + 1, j) \in words
  BY <1>1, OccurrenceSpan
<1> HIDE DEF i, j, N
<1>3. /\ SubSeq(y, i + 1, j) \in Seq(Runes) /\ Len(SubSeq(y, i + 1, j)) = j - i
      /\ \A x \in 1..(j - i) : SubSeq(y, i + 1, j)[x] = y[i + x]
  <2>1. j <= Len(y)
    BY <1>2 DEF N
  <2>2. /\ Len(SubSeq(y, i + 1, j)) = j - i
        /\ \A x \in 1..(j - i) : SubSeq(y, i + 1, j)[x] = y[i + x]
    BY <1>2, <2>1, Segment
  <2> QED  BY <1>1, <1>2, <2>2
<1>4. ASSUME NEW x \in 1..(j - i)
      PROVE  i + x \in 1..N /\ (i + x) - 1 \notin masked /\ y[i + x] = normalized[i + x]
  <2>1. i + x \in 1..N
    BY <1>1, <1>2
  <2>2. y[i + x] \in Runes
    <3>1. SubSeq(y, i + 1, j)[x] \in Runes
      <4> DEFINE s == SubSeq(y, i + 1, j)
      <4>1. s \in Seq(Runes) /\ x \in 1..Len(s)
        BY <1>3
      <4> HIDE DEF s
      <4>2. s[x] \in Runes
        BY <4>1
      <4> QED  BY <4>2 DEF s
    <3> QED  BY <1>3, <3>1
  <2> QED  BY <2>1, <2>2, StrategiesAssumption DEF Mask, N
<1>5. SubSeq(y, i + 1, j) = SubSeq(normalized, i + 1, j)
  <2>1. /\ SubSeq(normalized, i + 1, j) \in Seq(Runes) /\ Len(SubSeq(normalized, i + 1, j)) = j - i
        /\ \A x \in 1..(j - i) : SubSeq(normalized, i + 1, j)[x] = normalized[i + x]
    BY <1>1, <1>2, Segment DEF N
  <2> DEFINE s == SubSeq(y, i + 1, j)
             t == SubSeq(normalized, i + 1, j)
  <2>2. s \in Seq(Runes) /\ t \in Seq(Runes) /\ Len(s) = Len(t)
        /\ \A x \in 1..Len(s) : s[x] = t[x]
    BY <1>3, <1>4, <2>1
  <2> HIDE DEF s, t
  <2>3. s = t
    BY <2>2, SeqEqual
  <2> QED  BY <2>3 DEF s, t
<1>6. m \in Occurrences(normalized)
  <2>1. m \in [Position : 0..N, EndPos : 1..N]
    BY DEF Occurrences, N
  <2> QED  BY <1>2, <1>5, <2>1 DEF Occurrences, i, j, N
<1>7. i \in 0..(N - 1) /\ Within(i, m)
  BY <1>1, <1>2 DEF Within, i, j
<1>8. 1 \in 1..(j - i) /\ (i + 1) - 1 = i
  BY <1>2
<1> QED  BY <1>1, <1>4, <1>6, <1>7, <1>8

\* Every step keeps that a replaced text has no word left.
LEMMA ReplaceStep ==
  ASSUME Inv, NoWordLeft, [Next]_vars
  PROVE  NoWordLeft'
<1>0. UNCHANGED <<strategy, words, original>> /\ (pc # "normalize" => normalized' = normalized)
  BY InputKept
<1>1. CASE WriteMasked
  <2> DEFINE N == Len(normalized)
             y == [k \in 1..N |-> IF k - 1 \in masked THEN Mask ELSE normalized[k]]
  <2>1. pc = "write" /\ strategy = "replace" /\ matches' = matches /\ normalized' = normalized
    BY <1>1 DEF WriteMasked
  <2>2. SUFFICES ASSUME matches # {}, Aligned
                 PROVE  /\ Occurrences(NormalizedAgain)' = {}
                        /\ \A k \in DOMAIN filtered' :
                             ~Covered(k - 1) => filtered'[k].rune = Target[k]
    <3>1. (Aligned' <=> Aligned) /\ Target' = Target /\ \A i : Covered(i)' <=> Covered(i)
      BY <1>0, <2>1 DEF Aligned, Target, Covered
    <3> QED  BY <2>1, <2>2, <3>1 DEF NoWordLeft
  <2>3. TypeOK /\ normalized \in Seq(Runes) /\ N \in Nat /\ matches = Occurrences(normalized)
        /\ Target \in Seq(Runes) /\ Len(Target) = N
    BY <2>1, Texts DEF Inv, PhaseInv
  <2>4. normalized # <<>>
    <3>1. PICK m \in Occurrences(normalized) : TRUE
      BY <2>2, <2>3
    <3>2. m.Position \in Nat /\ m.Position < m.EndPos /\ m.EndPos <= N /\ m.EndPos \in Nat
      BY <2>3, OccurrenceSpan
    <3> QED  BY <2>3, <3>2
  <2>5. y \in Seq(Runes \cup {Mask}) /\ Len(y) = N /\ NormalizedAgain' = y
    <3> HIDE DEF N
    <3>1. y = [k \in 1..Len(normalized) |-> IF k - 1 \in masked THEN Mask ELSE normalized[k]]
      BY DEF N
    <3> HIDE DEF y
    <3> QED  BY <1>1, <2>2, <2>4, <3>1, MaskedAgain DEF N
  <2>6. \A k \in 1..N : y[k] = IF k - 1 \in masked THEN Mask ELSE normalized[k]
    OBVIOUS
  <2> HIDE DEF y
  <2>7. Occurrences(y) = {}
    BY <2>1, <2>5, <2>6, NoneLeft
  <2>8. Occurrences(NormalizedAgain)' = {}
    BY <1>0, <2>5, <2>7 DEF Occurrences
  <2>9. \A k \in DOMAIN filtered' : ~Covered(k - 1) => filtered'[k].rune = Target[k]
    <3>1. /\ DOMAIN filtered' = DOMAIN Target
          /\ \A k \in DOMAIN Target :
               filtered'[k].rune = IF k - 1 \in masked THEN Mask ELSE Target[k]
      BY <1>1 DEF WriteMasked
    <3>2. \A i \in masked : Covered(i)
      BY <2>1 DEF Inv, MaskInv, Covered, Within
    <3> QED  BY <3>1, <3>2
  <2> QED  BY <2>8, <2>9
<1>2. CASE Match
  <2>1. pc' = "done" => strategy = "detect" \/ matches' = {}
    BY <1>2 DEF Match
  <2> QED  BY <1>0, <2>1 DEF NoWordLeft
<1>3. CASE WriteRest
  BY <1>0, <1>3 DEF WriteRest, NoWordLeft
<1>4. CASE UNCHANGED vars
  <2>1. /\ (Aligned' <=> Aligned) /\ Target' = Target /\ \A i : Covered(i)' <=> Covered(i)
        /\ Occurrences(NormalizedAgain)' = Occurrences(NormalizedAgain)
        /\ UNCHANGED <<pc, strategy, matches, filtered>>
    BY <1>4 DEF vars, Aligned, Target, Covered, Occurrences, NormalizedAgain
  <2> QED  BY <2>1 DEF NoWordLeft
<1>5. CASE NormalizeRune \/ NormalizeDone \/ LoopDone \/ WriteInterval
           \/ \E m \in sorted : MaskNext(m) \/ MergeNext(m)
  <2>1. pc' # "done"
    BY <1>5 DEF NormalizeRune, NormalizeDone, LoopDone, WriteInterval, MaskNext, MergeNext
  <2> QED  BY <2>1 DEF NoWordLeft
<1> QED  BY <1>1, <1>2, <1>3, <1>4, <1>5 DEF Next

-----------------------------------------------------------------------------
(***************************************************************************)
(* The theorems.                                                           *)
(***************************************************************************)
LEMMA InvInit == Init => Inv
<1> SUFFICES ASSUME Init PROVE Inv
  OBVIOUS
<1>0. original \in Seq(Runes) /\ normalized = <<>> /\ <<>> \in Seq(Runes) /\ <<>> \in Seq(Spans)
      /\ <<>> \in Seq(Shown) /\ Len(<<>>) = 0 /\ DOMAIN <<>> = {}
  BY StrategiesAssumption DEF Init
<1>1. TypeOK
  BY <1>0 DEF Init, TypeOK
<1>2. NormalizeInv /\ PhaseInv
  BY <1>0 DEF Init, NormalizeInv, PhaseInv
<1>3. MaskInv /\ OrderInv /\ MergeInv /\ WriteInv
  BY <1>0 DEF Init, MaskInv, OrderInv, MergeInv, WriteInv
<1> QED  BY <1>1, <1>2, <1>3 DEF Inv

\* Every step keeps the invariant.
LEMMA InvStep == Inv /\ [Next]_vars => Inv'
  BY TypeStep, NormalizeStep, PhaseStep, MaskStep, HighlightInvStep DEF Inv

\* Positions stay within the text, for any normalisation, texts and words: no
\* match, mask or interval reaches beyond the runes that there are.
THEOREM TypeCorrect == Spec => []TypeOK
<1>1. Inv => TypeOK
  BY DEF Inv
<1> QED  BY <1>1, InvInit, InvStep, PTL DEF Spec

\* HighlightStrategy shows every text once and in order and marks exactly the
\* runes that the normaliser turned into the matches, whatever words and texts
\* there are, if each rune of the original stands for one of the normalised
\* text or the normalised text is shown.
THEOREM HighlightCorrect == Spec => []HighlightExact
<1>1. Init => HighlightExact
  BY DEF Init, HighlightExact
<1>2. Inv /\ HighlightExact /\ [Next]_vars => HighlightExact'
  BY HighlightStep
<1> QED  BY <1>1, <1>2, InvInit, InvStep, PTL DEF Spec

\* In what ReplaceStrategy returns no word can be found any more, and no rune
\* outside of the matches is lost, whatever words and texts there are, under
\* the same condition.
THEOREM ReplaceCorrect == Spec => []NoWordLeft
<1>1. Init => NoWordLeft
  BY DEF Init, NoWordLeft
<1>2. Inv /\ NoWordLeft /\ [Next]_vars => NoWordLeft'
  BY ReplaceStep
<1> QED  BY <1>1, <1>2, InvInit, InvStep, PTL DEF Spec
=============================================================================
