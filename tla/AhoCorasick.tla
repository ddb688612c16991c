---------------------------- MODULE AhoCorasick ----------------------------
(***************************************************************************)
(* The multi-pattern automaton (ac_automaton.go): the trie is filled word  *)
(* by word, fail pointers and merged outputs are built breadth first, and  *)
(* a text is searched rune by rune.                                        *)
(*                                                                         *)
(* A node is the sequence of runes on its path.  Go iterates a node's      *)
(* children map in any order, so the order in which children are queued is *)
(* a choice.  Words and texts are already normalised.                      *)
(***************************************************************************)
EXTENDS Naturals, Sequences, FiniteSets, SequencesExt

CONSTANTS Runes,        \* runes, not 0
          Dictionary,   \* words an automaton may be built from
          MaxWords,     \* bound: words of one automaton
          SearchTexts   \* texts that are searched

ASSUME AutomatonAssumption ==
  /\ Dictionary \subseteq Seq(Runes) /\ SearchTexts \subseteq Seq(Runes)
  /\ 0 \notin Runes /\ IsFiniteSet(Runes) /\ MaxWords \in Nat

Root == <<>>
Nil == <<0>>    \* the nil pointer

\* The nodes on a word's path; the root has no word of its own.
Path(w) == {SubSeq(w, 1, k) : k \in 0..Len(w)}
AllNodes == {Root} \cup UNION {Path(w) : w \in Dictionary}

VARIABLES
  words,    \* the entries NewAhoCorasick is given
  phase,    \* "insert", "fail", "ready", "search"
  nodes,    \* the nodes of the trie
  fail,     \* fail pointers
  output,   \* output tables
  queue,    \* the queue of buildFailPointers
  text, pos, curr, results   \* Search: input, runes read, node, matches

vars == <<words, phase, nodes, fail, output, queue, text, pos, curr, results>>
searchVars == <<text, pos, curr, results>>

Matches == [word : Dictionary, position : Nat, endPos : Nat]

TypeOK ==
  /\ words \subseteq Dictionary
  /\ phase \in {"insert", "fail", "ready", "search"}
  /\ nodes \subseteq AllNodes
  /\ fail \in [AllNodes -> AllNodes \cup {Nil}]
  /\ output \in [AllNodes -> Seq(Dictionary)]
  /\ queue \in Seq(AllNodes)
  /\ text \in SearchTexts \cup {<<>>} /\ pos \in 0..Len(text)
  /\ curr \in AllNodes
  /\ results \in Seq(Matches)

Init ==
  /\ words \in {W \in SUBSET Dictionary : Cardinality(W) <= MaxWords}
  /\ phase = "insert"
  /\ nodes = {Root}
  /\ fail = [n \in AllNodes |-> Nil]
  /\ output = [n \in AllNodes |-> <<>>]
  /\ queue = <<>>
  /\ text = <<>> /\ pos = 0 /\ curr = Root /\ results = <<>>

HasChild(n, r) == Append(n, r) \in nodes
Children(n) == {Append(n, r) : r \in {r \in Runes : HasChild(n, r)}}

-----------------------------------------------------------------------------
\* The words the trie has: the entry is in the output of its own node.
Inserted == {w \in words : output[w] # <<>>}

\* insert; a word that normalises to nothing is ignored
Insert(w) ==
  /\ phase = "insert" /\ w \in words \ Inserted /\ w # <<>>
  /\ nodes' = nodes \cup Path(w)
  /\ output' = [output EXCEPT ![w] = Append(@, w)]
  /\ UNCHANGED <<words, phase, fail, queue, searchVars>>

\* buildFailPointers: the children of the root fail to the root.
QueueRoot ==
  /\ phase = "insert" /\ words \ Inserted \subseteq {<<>>}
  /\ fail' = [n \in AllNodes |-> IF n \in Children(Root) THEN Root ELSE fail[n]]
  /\ queue' \in SetToSeqs(Children(Root))
  /\ phase' = "fail"
  /\ UNCHANGED <<words, nodes, output, searchVars>>

\* Mutant: the fail chain is followed for one step only.
FirstAcceptingShort(n, r) ==
  IF n = Nil \/ HasChild(n, r) THEN n ELSE Nil

\* The first node on the fail chain from n that has a child for r, or nil.
FirstAccepting(n, r) ==
  LET walk[m \in nodes \cup {Nil}] ==
        IF m = Nil \/ HasChild(m, r) THEN m ELSE walk[fail[m]]
  IN  walk[n]

\* Where the fail pointer of curr's child for r goes.
FailTarget(c, r) ==
  LET failNode == FirstAccepting(fail[c], r)
  IN  IF failNode = Nil \/ Append(failNode, r) = Append(c, r)
      THEN Root ELSE Append(failNode, r)

\* The child's own output followed by that of the node it fails to.
Merged(n, target) == output[n] \o output[target]

\* Mutant: the children go to the front of the queue, which makes the
\* traversal depth first.
EnqueueFront(q, children) == children \o q

Enqueue(q, children) == q \o children

\* One round of the breadth-first loop: the children of the queue's head.
FailStep ==
  /\ phase = "fail" /\ queue # <<>>
  /\ LET c == Head(queue)
         target == [n \in Children(c) |-> FailTarget(c, Last(n))]
     IN  /\ \E order \in SetToSeqs(Children(c)) : queue' = Enqueue(Tail(queue), order)
         /\ fail' = [n \in AllNodes |->
                       IF n \in Children(c) THEN target[n] ELSE fail[n]]
         /\ output' = [n \in AllNodes |->
                         IF n \in Children(c) THEN Merged(n, target[n]) ELSE output[n]]
  /\ UNCHANGED <<words, phase, nodes, searchVars>>

FailDone ==
  /\ phase = "fail" /\ queue = <<>>
  /\ phase' = "ready"
  /\ UNCHANGED <<words, nodes, fail, output, queue, searchVars>>

-----------------------------------------------------------------------------
\* SearchNormalized; an automaton without words returns without reading.
SearchBegin(t) ==
  /\ phase = "ready"
  /\ phase' = "search"
  /\ text' = t /\ curr' = Root /\ results' = <<>>
  /\ pos' = IF words \subseteq {<<>>} THEN Len(t) ELSE 0
  /\ UNCHANGED <<words, nodes, fail, output, queue>>

\* The root stops the walk: it reads every rune.
Accepting(n, r) ==
  LET walk[m \in nodes] ==
        IF m = Root \/ HasChild(m, r) THEN m ELSE walk[fail[m]]
  IN  walk[n]

\* Mutant: after a mismatch the search starts over at the root.
FollowFromRoot(n, r) ==
  IF HasChild(n, r) THEN Append(n, r) ELSE Root

\* The node reached from n by reading r.
Follow(n, r) ==
  LET m == Accepting(n, r)
  IN  IF HasChild(m, r) THEN Append(m, r) ELSE m

\* Mutant: the position is off by one.
MatchAtOffByOne(w, i) == [word |-> w, position |-> i - Len(w), endPos |-> i + 1]

\* The match of w that ends with the rune of index i.
MatchAt(w, i) == [word |-> w, position |-> (i + 1) - Len(w), endPos |-> i + 1]

\* One rune
SearchStep ==
  /\ phase = "search" /\ pos < Len(text)
  /\ curr' = Follow(curr, text[pos + 1])
  /\ results' = results \o
       [k \in DOMAIN output[curr'] |-> MatchAt(output[curr'][k], pos)]
  /\ pos' = pos + 1
  /\ UNCHANGED <<words, phase, nodes, fail, output, queue, text>>

\* The result is returned; the automaton is never changed again.
SearchEnd ==
  /\ phase = "search" /\ pos = Len(text)
  /\ phase' = "ready"
  /\ text' = <<>> /\ pos' = 0 /\ curr' = Root /\ results' = <<>>
  /\ UNCHANGED <<words, nodes, fail, output, queue>>

Next ==
  \/ \E w \in words : Insert(w)
  \/ QueueRoot
  \/ FailStep
  \/ FailDone
  \/ \E t \in SearchTexts : SearchBegin(t)
  \/ SearchStep
  \/ SearchEnd

Spec == Init /\ [][Next]_vars

-----------------------------------------------------------------------------
Built == phase \in {"ready", "search"}

\* buildFailPointers: the fail pointer of a node is its longest proper suffix
\* that is a node, whatever the order of the words and of the children maps.
FailIsLongestSuffix ==
  Built => \A n \in nodes \ {Root} :
    /\ fail[n] \in nodes /\ Len(fail[n]) < Len(n) /\ IsSuffix(fail[n], n)
    /\ \A m \in nodes : Len(m) < Len(n) /\ IsSuffix(m, n) => Len(m) <= Len(fail[n])

\* The merged output table of a node has every word that ends there, once.
OutputComplete ==
  Built => \A n \in nodes :
    /\ ToSet(output[n]) = {w \in words \ {<<>>} : IsSuffix(w, n)}
    /\ IsInjective(output[n])

\* The occurrences of the words in the first k runes of the text
Occurrences(k) ==
  UNION {{[word |-> w, position |-> e - Len(w), endPos |-> e] :
            w \in {w \in words \ {<<>>} : IsSuffix(w, SubSeq(text, 1, e))}} :
         e \in 1..k}

\* SearchNormalized reports every occurrence of every word exactly once, with
\* its position, overlapping and nested ones included.
SearchExact ==
  phase = "search" =>
    ToSet(results) = Occurrences(pos) /\ IsInjective(results)

-----------------------------------------------------------------------------
(***************************************************************************)
(* The inductive invariant behind these properties.                        *)
(***************************************************************************)
\* m is the longest of the nodes that the text t ends with and that are
\* shorter than n runes.
IsLongest(m, t, n) ==
  /\ m \in nodes /\ Len(m) < n /\ IsSuffix(m, t)
  /\ \A x \in nodes : Len(x) < n /\ IsSuffix(x, t) => Len(x) <= Len(m)

\* The words that end with the node n
Ending(n) == {w \in words \ {<<>>} : IsSuffix(w, n)}

\* The fail pointer of n is set.
Linked(n) == fail[n] # Nil

\* Every node has its parent, every inserted word its node.
TrieInv ==
  /\ Root \in nodes /\ \A n \in nodes \ {Root} : Front(n) \in nodes
  /\ words \subseteq {<<>>} => nodes = {Root}
  /\ phase # "insert" => words \ {<<>>} \subseteq nodes

\* Until a node is linked, its output is its own word.
OwnInv ==
  \A n \in AllNodes : ~Linked(n) =>
    \/ output[n] = <<>> /\ (phase = "insert" \/ n \notin words \ {<<>>})
    \/ output[n] = <<n>> /\ n \in (nodes \cap words) \ {<<>>}

\* Before the root's children are queued nothing is linked.
InsertInv ==
  phase = "insert" => queue = <<>> /\ \A n \in AllNodes : ~Linked(n)

\* What is linked is linked to its longest proper suffix and has all the words
\* that end there; so is what it is linked to, and its parent.
LinkInv ==
  \A n \in AllNodes : Linked(n) =>
    /\ n \in nodes \ {Root}
    /\ IsLongest(fail[n], n, Len(n))
    /\ fail[n] = Root \/ Linked(fail[n])
    /\ Front(n) = Root \/ Linked(Front(n))
    /\ ToSet(output[n]) = Ending(n) /\ IsInjective(output[n])

\* The queue holds the linked nodes whose children are not linked yet, ordered
\* by their length; all nodes that are not longer than its head are linked.
QueueInv ==
  phase # "insert" =>
    /\ \A n \in Children(Root) : Linked(n)
    /\ \A n \in nodes \ {Root} : Linked(n) /\ n \notin ToSet(queue) =>
         \A x \in Children(n) : Linked(x)
    /\ IsInjective(queue)
    /\ \A i \in DOMAIN queue :
         /\ queue[i] \in nodes /\ Linked(queue[i])
         /\ \A x \in Children(queue[i]) : ~Linked(x)
         /\ \A j \in i..Len(queue) :
              Len(queue[i]) <= Len(queue[j]) /\ Len(queue[j]) <= Len(queue[i]) + 1
    /\ queue # <<>> => \A n \in nodes \ {Root} : Len(n) <= Len(queue[1]) => Linked(n)

ReadyInv == Built => queue = <<>>

\* curr is the longest node that the runes read so far end with.
SearchInv ==
  IF phase = "search"
  THEN IsLongest(curr, SubSeq(text, 1, pos), pos + 1)
  ELSE text = <<>> /\ pos = 0 /\ curr = Root /\ results = <<>>
=============================================================================
