------------------------------ MODULE ErdTables ------------------------------
(***************************************************************************)
(* The ERD as the data structure agent holds it, and the rules that        *)
(* normalise, complete and inspect it: table_builder.py,                   *)
(* relationship_inferer.py and erd_quality.py.                             *)
(*                                                                         *)
(* A table has its physical name (without the "tbl_" all share), its       *)
(* entity name and its key columns; the other columns decide nothing here. *)
(* A column's name is a stem and a suffix: <<"user", "sn">> is user_sn.    *)
(* A relation that misses a column has NoColumn there.                     *)
(***************************************************************************)
EXTENDS Integers, Sequences, FiniteSets, Positions

Seqs == INSTANCE SequencesExt
Sets == INSTANCE FiniteSetsExt

CONSTANTS
  Stems,        \* physical names of tables, and stems of column names
  Entities,     \* entity names a model or a template may write
  Sentences,    \* those that are sentences, categories or too long
  Generic,      \* those that name nothing: "table", "item"
  StandardName(_),  \* the standard physical name of a table's raw name
  Base(_),      \* the stem of the primary key named after an entity
  Kin(_, _)     \* the score of the words a column stem shares with a table

NoColumn == <<>>
KeyOf(n) == <<n, "sn">>

Pk(n)    == [name |-> KeyOf(n), pk |-> TRUE, fk |-> FALSE]

Members(s) == {s[i] : i \in DOMAIN s}

IsKeyed(c) == c.name[2] = "sn"

Names(ts)  == {ts[i].name : i \in DOMAIN ts}
\* table_by_name: a later table of a name hides an earlier one.
IndexOf(ts, n) == Sets!Max({i \in DOMAIN ts : ts[i].name = n})
At(ts, n)      == ts[IndexOf(ts, n)]
ColumnNames(t) == {t.cols[i].name : i \in DOMAIN t.cols}
ColumnIndex(t, c) == Sets!Min({i \in DOMAIN t.cols : t.cols[i].name = c})
PkIndices(t)   == {i \in DOMAIN t.cols : t.cols[i].pk}

\* A design is a sequence of tables, which have at least what an ERD's have.
IsSeq(s) == s \in Seq(Members(s))
IsRecord(r, fields) == fields \subseteq DOMAIN r /\ r = [f \in DOMAIN r |-> r[f]]
IsColumns(cols) == IsSeq(cols) /\ \A k \in DOMAIN cols : IsRecord(cols[k], {"name", "pk", "fk"})
IsTable(t)      == IsRecord(t, {"name", "entity", "cols"}) /\ IsColumns(t.cols)
IsDesign(ts)    == IsSeq(ts) /\ \A i \in DOMAIN ts : IsTable(ts[i])

\* Sets a key flag of a column of the table that has the name.
Flagged(ts, n, c, flag) ==
  LET i == IndexOf(ts, n)
      k == ColumnIndex(ts[i], c)
  IN  [ts EXCEPT ![i].cols[k][flag] = TRUE]

-----------------------------------------------------------------------------
(* normalize_erd_tables *)

\* A primary key that is not named like one gets the name of the entity's; an entity
\* without a name has none to give, and the column goes.
StandardColumns(entity, cols) ==
  LET all  == IF cols = <<>> /\ entity # "" THEN <<Pk(Base(entity))>> ELSE cols
      kept == Pick(all, {i \in DOMAIN all : ~all[i].pk \/ IsKeyed(all[i]) \/ entity # ""})
  IN  [i \in DOMAIN kept |-> IF kept[i].pk /\ ~IsKeyed(kept[i])
                             THEN [kept[i] EXCEPT !.name = KeyOf(Base(entity))]
                             ELSE kept[i]]

Standardized(t) ==
  LET entity == IF t.entity \in Generic THEN "" ELSE t.entity
  IN  [t EXCEPT !.name = StandardName(t.name),
                !.entity = entity,
                !.cols = StandardColumns(entity, t.cols)]

\* _merge_duplicate_tables: the tables of a name are one, where the first of them is.
FirstOfName(ts) == {i \in DOMAIN ts : \A k \in 1..(i - 1) : ts[k].name # ts[i].name}

\* It has the columns of all of them, of one name the first.  A place is <<table, column>>.
Places(ts, n) ==
  UNION {{i} \X DOMAIN ts[i].cols : i \in {k \in DOMAIN ts : ts[k].name = n}}
ColumnAt(ts, p) == ts[p[1]].cols[p[2]]
PlaceOrder(P) ==
  {x \in P \X P : x[1][1] < x[2][1] \/ (x[1][1] = x[2][1] /\ x[1][2] < x[2][2])}

FirstPlaces(ts, n) ==
  LET all == Places(ts, n)
  IN  {p \in all : \A x \in PlaceOrder(all) :
         x[2] = p => ColumnAt(ts, x[1]).name # ColumnAt(ts, p).name}

ColumnsOfAll(ts, n) ==
  LET places == Sorted(FirstPlaces(ts, n), PlaceOrder(FirstPlaces(ts, n)))
  IN  [k \in DOMAIN places |-> ColumnAt(ts, places[k])]

Normal(ts) ==
  LET own == [i \in DOMAIN ts |-> Standardized(ts[i])]
      one == Pick(own, FirstOfName(own))
  IN  [j \in DOMAIN one |-> [one[j] EXCEPT !.cols = ColumnsOfAll(own, one[j].name)]]

-----------------------------------------------------------------------------
(* infer_relationships *)

\* The owner of a primary key: the last table whose first primary key has the name.
PkOwners(ts, c) ==
  {i \in DOMAIN ts : PkIndices(ts[i]) # {} /\ ts[i].cols[Sets!Min(PkIndices(ts[i]))].name = c}

PkName(t) == t.cols[Sets!Min(PkIndices(t))].name

\* rank_parent_candidates: the score of a table as the parent of a column.
Score(t, c) ==
  LET pk == PkName(t)
  IN  (IF c = pk THEN 100 ELSE 0)
      + (IF c \in {pk, KeyOf(t.name)} THEN 85 ELSE 0)
      + Kin(c[1], t.name) + 10

Candidates(ts, child, c) ==
  {t \in Members(ts) : /\ t.name # child
                       /\ PkIndices(t) # {}
                       /\ Score(t, c) > 10}

\* The best score, and how far the next one is behind.
AutoSelected(ts, child, c) ==
  LET all == Candidates(ts, child, c)
  IN  {t \in all : /\ Score(t, c) >= 60
                   /\ \A u \in all \ {t} : Score(t, c) - Score(u, c) >= 20}

\* The parents inferred for a column: at most one, [name, column].
ParentsOf(ts, t, c) ==
  IF PkOwners(ts, c.name) # {}
  THEN LET owner == ts[Sets!Max(PkOwners(ts, c.name))].name
       IN  IF owner = t.name THEN {} ELSE {<<owner, c.name>>}
  ELSE IF c.fk \/ IsKeyed(c)
       THEN {<<p.name, PkName(p)>> : p \in AutoSelected(ts, t.name, c.name)}
       ELSE {}

Relation(p, pc, c, cc, kind) ==
  [parent |-> p, pcol |-> pc, child |-> c, ccol |-> cc, kind |-> kind, label |-> <<>>]

\* One relation for each column with a parent, in the order of the columns.
Inferable(ts) ==
  {p \in UNION {{i} \X DOMAIN ts[i].cols : i \in DOMAIN ts} :
     ParentsOf(ts, ts[p[1]], ColumnAt(ts, p)) # {}}

Inferred(ts, p) ==
  LET parent == CHOOSE x \in ParentsOf(ts, ts[p[1]], ColumnAt(ts, p)) : TRUE
  IN  Relation(parent[1], parent[2], ts[p[1]].name, ColumnAt(ts, p).name, "N:1")

Infer(ts) ==
  LET places == Sorted(Inferable(ts), PlaceOrder(Inferable(ts)))
  IN  [k \in DOMAIN places |-> Inferred(ts, places[k])]

-----------------------------------------------------------------------------
(* prepare_erd_quality *)

\* _ensure_primary_key: a table without one takes its first column named like a key.
WithPk(t) ==
  LET keyed == {i \in DOMAIN t.cols : IsKeyed(t.cols[i])}
  IN  IF PkIndices(t) # {} \/ keyed = {} THEN t
      ELSE [t EXCEPT !.cols[Sets!Min(keyed)].pk = TRUE]

\* ensure_primary_keys, on the tables named.
EnsurePks(ts, names) ==
  [i \in DOMAIN ts |-> IF ts[i].name \in names THEN WithPk(ts[i]) ELSE ts[i]]

KeyOfRelation(r) == <<r.parent, r.pcol, r.child, r.ccol>>

\* _complete_inferable_relationships: the first relation of the pair that misses a column
\* gets them, else a relation with a new key is added.
Completed(rels, r) ==
  LET pair == {i \in DOMAIN rels : rels[i].parent = r.parent /\ rels[i].child = r.child}
      i    == Sets!Min(pair)
  IN  IF pair # {} /\ (rels[i].pcol = NoColumn \/ rels[i].ccol = NoColumn)
      THEN [rels EXCEPT ![i].pcol = r.pcol, ![i].ccol = r.ccol]
      ELSE IF \E k \in DOMAIN rels : KeyOfRelation(rels[k]) = KeyOfRelation(r)
           THEN rels
           ELSE Append(rels, r)

Completing == INSTANCE Loops WITH Turn <- Completed
Complete(ts, rels) == Completing!Loop(rels, Infer(ts))

\* The columns a relation means: those it names, else the only primary key and the
\* column named after it or after the parent.
ParentColumn(parent, r) ==
  IF r.pcol \in ColumnNames(parent) THEN {r.pcol}
  ELSE IF Cardinality(PkIndices(parent)) = 1 THEN {PkName(parent)}
  ELSE {}

ChildColumn(parent, child, pc, r) ==
  IF r.ccol \in ColumnNames(child) THEN {r.ccol}
  ELSE IF pc \in ColumnNames(child) THEN {pc}
  ELSE {KeyOf(parent.name)} \cap ColumnNames(child)

\* _synchronize_relationship_flags, for one relation.
Synced(doc, i) ==
  LET r == doc.rels[i]
  IN  IF {r.parent, r.child} \subseteq Names(doc.tables)
      THEN LET parent == At(doc.tables, r.parent)
               child  == At(doc.tables, r.child)
               ends   == {e \in ParentColumn(parent, r) \X ColumnNames(child) :
                            e[2] \in ChildColumn(parent, child, e[1], r)}
           IN  IF ends = {} THEN doc
               ELSE LET e == CHOOSE x \in ends : TRUE
                    IN  [tables |-> Flagged(Flagged(doc.tables, r.parent, e[1], "pk"),
                                            r.child, e[2], "fk"),
                         rels   |-> [doc.rels EXCEPT ![i].pcol = e[1], ![i].ccol = e[2],
                                       ![i].label = <<parent.entity, child.entity>>]]
      ELSE doc

Syncing == INSTANCE Loops WITH Turn <- Synced
Sync(doc) == Syncing!Loop(doc, [i \in DOMAIN doc.rels |-> i])

\* prepare_erd_quality.
Prepared(doc) ==
  LET ts == EnsurePks(doc.tables, Names(doc.tables))
  IN  Sync([tables |-> ts, rels |-> Complete(ts, doc.rels)])

\* The corrections of prepare_erd_quality whose type starts with RELATION.
RelationsCorrected(doc) ==
  Prepared(doc) # [doc EXCEPT !.tables = EnsurePks(@, Names(doc.tables))]

-----------------------------------------------------------------------------
(* inspect_erd_quality *)

\* What is wrong, and with which tables; "rel" is the relation, when it is one.
Issue(type, names, rel) == [type |-> type, on |-> names, rel |-> rel]

\* entity_name_needs_llm_review.
NeedsReview(entity) == entity \in Sentences \cup Generic \cup {""}

NameIssues(ts) ==
  {Issue("ENTITY_NAME_MISSING", {t.name}, <<>>) : t \in {u \in Members(ts) : u.entity = ""}}
  \cup {Issue("ENTITY_NAME_SENTENCE", {t.name}, <<>>) :
          t \in {u \in Members(ts) : u.entity # "" /\ NeedsReview(u.entity)}}

SameEntity(ts, e) == {t.name : t \in {u \in Members(ts) : u.entity = e}}
Repeated(ts) ==
  {e \in {ts[i].entity : i \in DOMAIN ts} \ {""} : Cardinality(SameEntity(ts, e)) > 1}

DuplicateIssues(ts) ==
  {Issue("ENTITY_SEMANTIC_DUPLICATED", SameEntity(ts, e), <<>>) : e \in Repeated(ts)}

RelationIssue(ts, r) ==
  IF ~({r.parent, r.child} \subseteq Names(ts)) THEN {"RELATION_TABLE_MISSING"}
  ELSE LET p == At(ts, r.parent)
           c == At(ts, r.child)
       IN  IF r.pcol \notin ColumnNames(p) \/ r.ccol \notin ColumnNames(c)
           THEN {"RELATION_COLUMN_MISSING"}
           ELSE IF /\ p.cols[ColumnIndex(p, r.pcol)].pk
                   /\ c.cols[ColumnIndex(c, r.ccol)].fk
                THEN {} ELSE {"RELATION_KEY_MISMATCH"}

RelationIssues(doc) ==
  UNION {{Issue(y, {}, KeyOfRelation(r)) : y \in RelationIssue(doc.tables, r)} :
           r \in Members(doc.rels)}

\* The foreign keys no relation is about.
ForeignKeys(t) == {<<t.name, c.name>> : c \in {d \in Members(t.cols) : d.fk}}
Unmapped(doc) ==
  UNION {ForeignKeys(At(doc.tables, n)) : n \in Names(doc.tables)}
    \ {<<r.child, r.ccol>> : r \in Members(doc.rels)}

\* Its scope is the column, which is none of the tables' identifiers.
UnmappedIssues(doc) == {Issue("FK_RELATION_MISSING", {}, u) : u \in Unmapped(doc)}

Inspect(doc) ==
  NameIssues(doc.tables) \cup DuplicateIssues(doc.tables)
    \cup RelationIssues(doc) \cup UnmappedIssues(doc)

=============================================================================
