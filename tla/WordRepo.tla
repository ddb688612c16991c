------------------------------ MODULE WordRepo ------------------------------
(***************************************************************************)
(* The sensitive_words table as the hot-update poll and the management API *)
(* see it (internal/infrastructure/persistence/mysql).  A table is a set   *)
(* of rows; category, level and tag are one opaque value "meta", a text is *)
(* the normalised word (the code stores NormalizeForIndex of the input).   *)
(* Everything here is a state function of the table: the modules that      *)
(* EXTEND it own the variable.                                             *)
(***************************************************************************)
EXTENDS Naturals, FiniteSets

CONSTANTS Texts,   \* normalised word texts
          Metas    \* category / level values

ASSUME TextsAssumption == IsFiniteSet(Texts)

WordStatusInactive == 0
WordStatusActive == 1

\* What a handler hands to the repository: the entity without its timestamp.
Drafts == [id : Nat, text : Texts, meta : Metas,
           status : {WordStatusInactive, WordStatusActive}]

\* SensitiveWordModel; upd is updated_at, as a reading of the clock.
Rows == [id : Nat, text : Texts, meta : Metas,
         status : {WordStatusInactive, WordStatusActive}, upd : Nat]

Fingerprints == [Count : Nat, MaxID : Nat, MaxUpd : Nat]

\* FromEntity, stamped by autoUpdateTime
RowOf(d, id, upd) == [id |-> id, text |-> d.text, meta |-> d.meta,
                      status |-> d.status, upd |-> upd]

\* CreateDTOToEntity: a new word is active and has no id yet.
NewDraft(t, m) == [id |-> 0, text |-> t, meta |-> m, status |-> WordStatusActive]

HasID(table, id) == \E r \in table : r.id = id
HasText(table, t) == \E r \in table : r.text = t

\* The unique index on text: another row already holds this text.
TextClash(table, id, t) == \E r \in table : r.text = t /\ r.id # id

\* WHERE status = 1
ActiveRows(table) == {r \in table : r.status = WordStatusActive}

\* MAX(column), with the NULL of an empty set read as 0
MaxOf(S) == IF S = {} THEN 0 ELSE CHOOSE x \in S : \A y \in S : y <= x

\* Mutant: the fingerprint leaves updated_at out.
FingerprintWithoutUpdated(A) == [Count  |-> Cardinality(A),
                                 MaxID  |-> MaxOf({r.id : r \in A}),
                                 MaxUpd |-> 0]

\* ActiveFingerprint of the set of active rows A
Fingerprint(A) == [Count  |-> Cardinality(A),
                   MaxID  |-> MaxOf({r.id : r \in A}),
                   MaxUpd |-> MaxOf({r.upd : r \in A})]

ZeroFingerprint == [Count |-> 0, MaxID |-> 0, MaxUpd |-> 0]

\* The WordEntry list Rebuild makes of the rows it was given.
EntryOf(r) == [text |-> r.text, meta |-> r.meta]
Entries(rows) == {EntryOf(r) : r \in rows}

\* The statements.  Insert gives the drafts D the ids of the function ids;
\* duplicates were removed by the caller.
Insert(table, D, ids, upd) == table \cup {RowOf(d, ids[d], upd) : d \in D}

\* UPDATE ... WHERE id = d.id
Overwrite(table, d, upd) ==
  {r \in table : r.id # d.id} \cup {RowOf(d, d.id, upd)}

\* gorm's Create writes the column default for a zero value, so an inactive
\* draft comes back active.
Defaulted(d) == [d EXCEPT !.status = WordStatusActive]

\* INSERT ... ON DUPLICATE KEY UPDATE of all columns but the id, the second
\* statement of Save when the UPDATE touched no row.
Upsert(table, d, upd) ==
  LET holder == {r \in table : r.id = d.id \/ r.text = d.text}
  IN  (table \ holder) \cup
      (IF holder = {} THEN {RowOf(Defaulted(d), d.id, upd)}
                      ELSE {RowOf(Defaulted(d), r.id, upd) : r \in holder})

DeleteByID(table, id) == {r \in table : r.id # id}
=============================================================================
