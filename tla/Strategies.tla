----------------------------- MODULE Strategies -----------------------------
(***************************************************************************)
(* What a response shows of a text (strategy_detect.go, strategy_replace.go,*)
(* strategy_highlight.go, text_normalizer.go).                             *)
(*                                                                         *)
(* The text is normalised rune by rune: a rune becomes a sequence of runes *)
(* (Becomes), empty for the zero-width ones, longer for the ligatures NFKC *)
(* takes apart.  The words are found in the normalised text, so matches    *)
(* have positions there; Replace and Highlight apply them to the original  *)
(* when both texts have the same length and to the normalised text         *)
(* otherwise.  Positions count from 0 and ends are exclusive, as in the    *)
(* code.  A rune of a highlighted text stands for its HTML-escaped form.   *)
(***************************************************************************)
EXTENDS Naturals, Sequences, FiniteSets, SequencesExt

CONSTANTS Runes,        \* runes of texts, not 0
          Becomes,      \* what NFKC, folding and removal make of each rune
          InputTexts,   \* texts
          Lexicons      \* sets of normalised words

Mask == 0

ASSUME StrategiesAssumption ==
  /\ 0 \notin Runes
  /\ Becomes \in [Runes -> Seq(Runes)]
  /\ \A r \in Runes : \A k \in DOMAIN Becomes[r] : Becomes[Becomes[r][k]] = <<Becomes[r][k]>>
  /\ InputTexts \subseteq Seq(Runes)
  /\ Lexicons \subseteq SUBSET (Seq(Runes) \ {<<>>})

VARIABLES
  strategy,    \* "detect", "replace" or "highlight"
  words,       \* the lexicon of the automaton
  original, normalized,
  pc,
  idx,         \* runes of the original read, then of the target written
  matches,     \* the matches of the normalised text
  sorted,      \* those the loop over the sorted matches has not visited
  masked,      \* Replace: positions marked
  intervals,   \* Highlight: merged intervals
  filtered     \* the result; mark is the end of a rune's <mark>, or 0

vars == <<strategy, words, original, normalized, pc, idx, matches, sorted,
          masked, intervals, filtered>>
input == <<strategy, words, original>>

Spans == [Position : Nat, EndPos : Nat]
Shown == [rune : Runes \cup {Mask}, mark : Nat]

TypeOK ==
  /\ strategy \in {"detect", "replace", "highlight"}
  /\ words \in Lexicons /\ original \in InputTexts
  /\ normalized \in Seq(Runes)
  /\ pc \in {"normalize", "match", "mask", "merge", "write", "done"}
  /\ idx \in 0..(Len(original) + Len(normalized))
  /\ matches \subseteq Spans /\ sorted \subseteq matches
  /\ masked \subseteq 0..(Len(normalized) - 1)
  /\ intervals \in Seq(Spans)
  /\ filtered \in Seq(Shown)

Init ==
  /\ strategy \in {"detect", "replace", "highlight"}
  /\ words \in Lexicons /\ original \in InputTexts
  /\ normalized = <<>> /\ pc = "normalize" /\ idx = 0
  /\ matches = {} /\ sorted = {} /\ masked = {}
  /\ intervals = <<>> /\ filtered = <<>>

-----------------------------------------------------------------------------
\* Normalize, one rune of the original
NormalizeRune ==
  /\ pc = "normalize" /\ idx < Len(original)
  /\ normalized' = normalized \o Becomes[original[idx + 1]]
  /\ idx' = idx + 1
  /\ UNCHANGED <<input, pc, matches, sorted, masked, intervals, filtered>>

NormalizeDone ==
  /\ pc = "normalize" /\ idx = Len(original)
  /\ pc' = "match" /\ idx' = 0
  /\ UNCHANGED <<input, normalized, matches, sorted, masked, intervals, filtered>>

\* The places of the words in a text; AhoCorasick.tla shows that the
\* automaton finds exactly these.
Occurrences(t) ==
  {m \in [Position : 0..Len(t), EndPos : 1..Len(t)] :
     SubSeq(t, m.Position + 1, m.EndPos) \in words}

Plain(t) == [k \in DOMAIN t |-> [rune |-> t[k], mark |-> 0]]

\* Match, and the early returns: Detect shows the original, and so do the
\* others without a match.
Match ==
  LET found == Occurrences(normalized) IN
  /\ pc = "match"
  /\ matches' = found
  /\ \/ /\ strategy = "detect" \/ found = {}
        /\ filtered' = Plain(original)
        /\ pc' = "done"
        /\ UNCHANGED sorted
     \/ /\ strategy # "detect" /\ found # {}
        /\ sorted' = found
        /\ pc' = IF strategy = "replace" THEN "mask" ELSE "merge"
        /\ UNCHANGED filtered
  /\ UNCHANGED <<input, normalized, idx, masked, intervals>>

\* The next match of the sorted ones; sort.Slice is not stable.
IsNext(m) == m \in sorted /\ \A n \in sorted : m.Position <= n.Position

\* Mutant: the end of a match is taken to be inclusive, without the guard.
PositionsInclusive(m) == m.Position..m.EndPos

\* The positions a match marks, never beyond the text.
Positions(m) == {i \in m.Position..(m.EndPos - 1) : i < Len(normalized)}

\* replaceMatches, one round of the loop that fills masked
MaskNext(m) ==
  /\ pc = "mask" /\ IsNext(m)
  /\ masked' = masked \cup Positions(m)
  /\ sorted' = sorted \ {m}
  /\ UNCHANGED <<input, normalized, pc, idx, matches, intervals, filtered>>

\* Mutant: a match inside the last interval cuts it short.
MergedShrinking(ivs, m) ==
  IF ivs # <<>> /\ m.Position <= Last(ivs).EndPos
  THEN [ivs EXCEPT ![Len(ivs)].EndPos = m.EndPos]
  ELSE Append(ivs, m)

\* mergeIntervals, one round: the match extends the last interval if it
\* begins inside or right behind it.
Merged(ivs, m) ==
  IF ivs # <<>> /\ m.Position <= Last(ivs).EndPos
  THEN IF m.EndPos > Last(ivs).EndPos
       THEN [ivs EXCEPT ![Len(ivs)].EndPos = m.EndPos] ELSE ivs
  ELSE Append(ivs, m)

MergeNext(m) ==
  /\ pc = "merge" /\ IsNext(m)
  /\ intervals' = Merged(intervals, m)
  /\ sorted' = sorted \ {m}
  /\ UNCHANGED <<input, normalized, pc, idx, matches, masked, filtered>>

LoopDone ==
  /\ pc \in {"mask", "merge"} /\ sorted = {}
  /\ pc' = "write"
  /\ UNCHANGED <<input, normalized, idx, matches, sorted, masked, intervals, filtered>>

\* Mutant: the masks are applied to the original whatever its length.
TargetOriginal == original

\* The text that is shown: the original, if the lengths agree.
Target == IF Len(original) = Len(normalized) THEN original ELSE normalized

\* Replace writes the target with masks.
WriteMasked ==
  /\ pc = "write" /\ strategy = "replace"
  /\ filtered' = [k \in DOMAIN Target |->
       [rune |-> IF k - 1 \in masked THEN Mask ELSE Target[k], mark |-> 0]]
  /\ pc' = "done"
  /\ UNCHANGED <<input, normalized, idx, matches, sorted, masked, intervals>>

\* The runes of positions from..to-1, as far as there are any
Part(from, to) ==
  SubSeq(Target, from + 1, IF to < Len(Target) THEN to ELSE Len(Target))
Marked(t, n) == [k \in DOMAIN t |-> [rune |-> t[k], mark |-> n]]

\* Highlight writes what lies before the next interval, and the interval.
WriteInterval ==
  /\ pc = "write" /\ strategy = "highlight" /\ intervals # <<>>
  /\ LET iv == Head(intervals) IN
       /\ filtered' = filtered \o Plain(Part(idx, iv.Position))
                               \o Marked(Part(iv.Position, iv.EndPos), iv.EndPos)
       /\ idx' = iv.EndPos
  /\ intervals' = Tail(intervals)
  /\ UNCHANGED <<input, normalized, pc, matches, sorted, masked>>

WriteRest ==
  /\ pc = "write" /\ strategy = "highlight" /\ intervals = <<>>
  /\ filtered' = filtered \o Plain(Part(idx, Len(Target)))
  /\ pc' = "done"
  /\ UNCHANGED <<input, normalized, idx, matches, sorted, masked, intervals>>

Next ==
  \/ NormalizeRune
  \/ NormalizeDone
  \/ Match
  \/ \E m \in sorted : MaskNext(m) \/ MergeNext(m)
  \/ LoopDone
  \/ WriteMasked
  \/ WriteInterval
  \/ WriteRest

Spec == Init /\ [][Next]_vars

-----------------------------------------------------------------------------
RunesOf(f) == [k \in DOMAIN f |-> f[k].rune]

Covered(i) == \E m \in matches : m.Position <= i /\ i < m.EndPos

\* Every rune of the original stands for one of the normalised text, or the
\* normalised text is the one shown.
Aligned ==
  \/ Len(original) # Len(normalized)
  \/ \A k \in DOMAIN original : Len(Becomes[original[k]]) = 1

\* What Filter would find in the text it returns
NormalizedAgain ==
  FlattenSeq([k \in DOMAIN filtered |->
    IF filtered[k].rune = Mask THEN <<Mask>> ELSE Becomes[filtered[k].rune]])

\* ReplaceStrategy ("replaces matched words by *"): in the text it returns no
\* word of the lexicon can be found any more, however matches overlap, and no
\* rune outside of the matches is lost.
NoWordLeft ==
  pc = "done" /\ strategy = "replace" /\ matches # {} /\ Aligned =>
    /\ Occurrences(NormalizedAgain) = {}
    /\ \A k \in DOMAIN filtered : ~Covered(k - 1) => filtered[k].rune = Target[k]

\* HighlightStrategy ("wraps matched words in <mark></mark>"), for texts whose
\* runes stand for those of the normalised text one by one: the text is shown
\* once and in order; the runes marked are exactly those that became a match,
\* each the one the normaliser turned into the rune matched at its position;
\* overlapping, nested and adjoining matches share one mark.
HighlightExact ==
  pc = "done" /\ strategy = "highlight" /\ matches # {} /\ Aligned =>
    /\ RunesOf(filtered) = Target
    /\ \A k \in DOMAIN filtered : Becomes[filtered[k].rune] = <<normalized[k]>>
    /\ \A k \in DOMAIN filtered : (filtered[k].mark # 0) <=> Covered(k - 1)
    /\ \A j, k \in DOMAIN filtered :
         k = j + 1 /\ filtered[j].mark # 0 /\ filtered[k].mark # 0
         => filtered[j].mark = filtered[k].mark

-----------------------------------------------------------------------------
(***************************************************************************)
(* The inductive invariants behind NoWordLeft and HighlightExact.          *)
(***************************************************************************)
Within(i, m) == m.Position <= i /\ i < m.EndPos

\* Normalising a normalised rune changes nothing; without zero-width runes and
\* ligatures each rune of the original becomes the one at its position.
NormalizeInv ==
  /\ \A k \in DOMAIN normalized : Becomes[normalized[k]] = <<normalized[k]>>
  /\ (\A k \in DOMAIN original : Len(Becomes[original[k]]) = 1) =>
       /\ Len(normalized) = IF pc = "normalize" THEN idx ELSE Len(original)
       /\ \A k \in DOMAIN normalized : <<normalized[k]>> = Becomes[original[k]]

\* What is set in which state
PhaseInv ==
  /\ pc \in {"normalize", "match"} =>
       matches = {} /\ masked = {} /\ intervals = <<>> /\ filtered = <<>>
  /\ pc \notin {"normalize", "match"} => matches = Occurrences(normalized)
  /\ pc \in {"match", "mask", "merge"} => idx = 0 /\ filtered = <<>>
  /\ pc \in {"mask", "merge"} => strategy = IF pc = "mask" THEN "replace" ELSE "highlight"
  /\ pc = "write" => sorted = {} /\ strategy # "detect"
  /\ idx <= IF pc = "normalize" THEN Len(original) ELSE Len(normalized)

\* The positions of the matches that the loop has visited are masked.
MaskInv ==
  pc \in {"mask", "write"} /\ strategy = "replace" =>
    masked = {i \in 0..(Len(normalized) - 1) : \E m \in matches \ sorted : Within(i, m)}

\* The intervals are in order and apart from each other.
OrderInv ==
  \A k \in DOMAIN intervals :
    /\ intervals[k].Position < intervals[k].EndPos
    /\ intervals[k].EndPos <= Len(normalized)
    /\ \A j \in 1..(k - 1) : intervals[j].EndPos < intervals[k].Position

\* They cover the matches the loop has visited; no later match begins before
\* the last one.
MergeInv ==
  pc = "merge" =>
    /\ \A i \in 0..Len(normalized) :
         (\E k \in DOMAIN intervals : Within(i, intervals[k]))
         <=> \E m \in matches \ sorted : Within(i, m)
    /\ \A m \in sorted : intervals # <<>> => Last(intervals).Position <= m.Position

\* The target is written up to idx, which lies before all intervals that are
\* left, and not right before one; the marks and those intervals cover the
\* matches.
WriteInv ==
  pc = "write" /\ strategy = "highlight" =>
    /\ Len(filtered) = idx
    /\ \A k \in DOMAIN filtered : filtered[k].rune = Target[k]
    /\ idx # 0 => \A k \in DOMAIN intervals : idx < intervals[k].Position
    /\ \A i \in 0..Len(normalized) :
         Covered(i) <=> \/ i < idx /\ filtered[i + 1].mark # 0
                        \/ \E k \in DOMAIN intervals : Within(i, intervals[k])
    /\ \A j, k \in DOMAIN filtered :
         k = j + 1 /\ filtered[j].mark # 0 /\ filtered[k].mark # 0
         => filtered[j].mark = filtered[k].mark
=============================================================================
