----------------------------- MODULE WordExport -----------------------------
(***************************************************************************)
(* The CSV export (ExportToWriter and wordRepo.FindInBatches) over a table  *)
(* that is being written to.  A batch is one query and one flush to the    *)
(* client; the table may change between two batches.                       *)
(*                                                                         *)
(* A row is its id and its status.  The rows of other categories than the  *)
(* one asked for are left out.  Server.tla says when an export runs.       *)
(***************************************************************************)
EXTENDS Naturals, FiniteSets

CONSTANTS HttpSlots,    \* the HTTP requests that may be served at once
          IdLimit,      \* bound: the rows ever inserted
          BatchSize     \* batchSize

ASSUME ExportAssumption == IdLimit \in Nat /\ BatchSize \in Nat \ {0}

VARIABLES
  table,    \* status of the row of each id; "free" ids were never used
  export    \* the export each request is making

exportVars == <<table, export>>

Ids == 1..IdLimit
NoExport == [at |-> "none"]
Exports == {NoExport} \cup
  [at : {"query", "complete", "truncated"}, category : BOOLEAN,
   last : 0..IdLimit, out : SUBSET Ids, twice : SUBSET Ids, due : SUBSET Ids]

ExportTypeOK ==
  /\ table \in [Ids -> {"free", "active", "inactive", "deleted"}]
  /\ export \in [HttpSlots -> Exports]

ExportInit ==
  /\ table \in [Ids -> {"free", "active", "inactive"}]
  /\ export = [h \in HttpSlots |-> NoExport]

-----------------------------------------------------------------------------
\* category = ?, whatever the status, or status = 1
Qualifies(tab, id, category) ==
  IF category THEN tab[id] \in {"active", "inactive"} ELSE tab[id] = "active"

\* due remembers the rows that have qualified from the beginning.
KeepDue(h) ==
  IF export[h].at # "query" THEN export[h]
  ELSE [export[h] EXCEPT
          !.due = {id \in @ : Qualifies(table', id, export[h].category)}]

\* One statement, of this process or of another one: Create and Import insert
\* rows, Update changes a status, Delete removes a row; an Update that read the
\* row before a Delete brings it back, active (Save's second statement).  A row
\* that enters or leaves the category is like one inserted or deleted.  Ids are
\* handed out in order, their rows appear in any order.
Write ==
  /\ \/ \E rows \in SUBSET {id \in Ids : table[id] = "free"} :
          /\ rows # {}
          /\ table' = [id \in Ids |-> IF id \in rows THEN "active" ELSE table[id]]
     \/ \E id \in {i \in Ids : table[i] # "free"} :
          \E s \in {"active", "inactive", "deleted"} \ {table[id]} :
            /\ table[id] = "deleted" => s = "active"
            /\ table' = [table EXCEPT ![id] = s]
  /\ export' = [h \in HttpSlots |-> KeepDue(h)]

\* Export and ExportToWriter up to the first query: the header, with status
\* 200, is on its way.
ExportBegin(h) ==
  /\ export[h].at = "none"
  /\ \E category \in BOOLEAN :
       export' = [export EXCEPT ![h] =
         [at |-> "query", category |-> category, last |-> 0,
          out |-> {}, twice |-> {},
          due |-> {id \in Ids : Qualifies(table, id, category)}]]
  /\ UNCHANGED table

Matching(x) == {id \in Ids : Qualifies(table, id, x.category)}

\* rows are the n smallest ids of S, or all there are.
AreFirst(rows, S, n) ==
  /\ rows \subseteq S
  /\ \A i \in rows, j \in S \ rows : i < j
  /\ Cardinality(rows) = n \/ (Cardinality(rows) < n /\ rows = S)

\* Mutant: the next batch is found by the number of rows already read.
IsBatchByOffset(x, rows) ==
  \E read \in SUBSET Matching(x) :
    /\ AreFirst(read, Matching(x), Cardinality(x.out))
    /\ AreFirst(rows, Matching(x) \ read, BatchSize)

\* LIMIT BatchSize, ORDER BY id, behind the last id of the batch before
IsBatch(x, rows) ==
  AreFirst(rows, {id \in Matching(x) : id > x.last}, BatchSize)

\* A batch is read, written and flushed; a short one is the last.
ExportBatch(h) ==
  LET x == export[h] IN
  /\ x.at = "query"
  /\ \E rows \in SUBSET Ids, last \in 0..IdLimit :
       /\ IsBatch(x, rows)
       /\ IF rows = {} THEN last = x.last
          ELSE last \in rows /\ \A id \in rows : id <= last
       /\ export' = [export EXCEPT ![h] =
            [x EXCEPT !.out = @ \cup rows, !.twice = @ \cup (x.out \cap rows),
                      !.last = last,
                      !.at = IF Cardinality(rows) < BatchSize THEN "complete" ELSE @]]
  /\ UNCHANGED table

\* The query, the write to the client or its context fails: the response ends
\* where it is, with the status it has.
ExportFail(h) ==
  /\ export[h].at = "query"
  /\ export' = [export EXCEPT ![h].at = "truncated"]
  /\ UNCHANGED table

ExportReturn(h) ==
  /\ export[h].at \in {"complete", "truncated"}
  /\ export' = [export EXCEPT ![h] = NoExport]
  /\ UNCHANGED table

-----------------------------------------------------------------------------
\* An export that met no error holds every row that was in the table and
\* matched all the time, and holds no row twice, whatever other requests and
\* processes insert, update or delete between its batches.
ExportComplete ==
  \A h \in HttpSlots :
    /\ export[h].at # "none" => export[h].twice = {}
    /\ export[h].at = "complete" => export[h].due \subseteq export[h].out

\* The inductive invariant behind ExportComplete: the rows sent are behind the
\* last id, those still due and not sent are ahead of it, and due rows match.
ExportInv ==
  \A h \in HttpSlots : LET x == export[h] IN
    /\ x.at # "none" => x.twice = {}
    /\ x.at = "complete" => x.due \subseteq x.out
    /\ x.at = "query" =>
         /\ \A id \in x.out : id <= x.last
         /\ \A id \in x.due : id > x.last \/ id \in x.out
         /\ x.due \subseteq Matching(x)
=============================================================================
