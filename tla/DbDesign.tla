------------------------------ MODULE DbDesign ------------------------------
(***************************************************************************)
(* How the data structure agent makes a database design of an ERD, or      *)
(* updates one: agent.py (_create_db, _update_db and the merges they use), *)
(* db_quality.py, db_validator.py and the export's gate.  A design's table *)
(* is one of ErdTables with "refs", the columns its constraints and        *)
(* indexes name.                                                           *)
(***************************************************************************)
EXTENDS ErdTables

CONSTANTS
  Erds,           \* the ERDs, and existing designs, a run may start from
  Specs,          \* the designs a model may write
  DbNames,        \* the table names a model may give
  NoIdentifier,   \* the names that are no meaningful identifier
  Foreign(_, _),  \* whether an English entity name has no word of the table's
  Spoken(_),      \* the entity name made of a table's words
  Similar(_, _),  \* whether two table names are nearly the same
  MaxReruns       \* bound: how often a refused design is made again

\* What valid_table_identifier accepts _standard_table_name leaves as it is.
ASSUME DbAssumption ==
  /\ Erds # {} /\ <<>> \notin Erds
  /\ \A ts \in Erds : IsDesign(ts)
  /\ \A n \in Stems \ NoIdentifier : StandardName(n) = n
  /\ MaxReruns \in Nat

VARIABLES
  dbStage,    \* the step that comes next
  dbMode,     \* "N" a new design, "Y" an update
  source,     \* the ERD, or the design to update, as the run was given it
  reference,  \* reference_erd_json_list, which the agent writes to
  design,     \* db_design_json
  reruns      \* how often it was refused and made again

dbVars == <<dbStage, dbMode, source, reference, design, reruns>>

Valid(n) == n \notin NoIdentifier

-----------------------------------------------------------------------------
(* Table names *)

\* _best_db_table_identifier: after the entity, else after the primary key.
Evidence(t) ==
  SelectSeq(<<Base(t.entity)>> \o [i \in 1..Cardinality(PkIndices(t)) |-> PkName(t)[1]], Valid)

\* The names a table may get: a valid one stays, else the model's, if valid, or the best
\* there is evidence for, if any.
NamesFor(t) ==
  IF Valid(t.name) THEN {t.name}
  ELSE {n \in DbNames : Valid(n)}
       \cup {IF Evidence(t) = <<>> THEN t.name ELSE Evidence(t)[1]}

\* _resolve_db_table_identifiers.
Identified(ts) ==
  {[i \in DOMAIN ts |-> [ts[i] EXCEPT !.name = f[i]]] :
     f \in {g \in [DOMAIN ts -> Stems] : \A i \in DOMAIN ts : g[i] \in NamesFor(ts[i])}}

-----------------------------------------------------------------------------
(* The design *)

PkNames(t) == {t.cols[i].name : i \in PkIndices(t)}

\* _normalize_db_table: a table without columns gets a key, one without an entity name has
\* its own.
Tabled(t) ==
  LET cols == IF t.cols = <<>> THEN <<Pk(t.name)>> ELSE t.cols
  IN  [name |-> t.name,
       entity |-> IF t.entity = "" THEN t.name ELSE t.entity,
       cols |-> cols,
       refs |-> IF "refs" \in DOMAIN t THEN t.refs ELSE PkNames([t EXCEPT !.cols = cols])]

Tables(ts) == [i \in DOMAIN ts |-> Tabled(ts[i])]

\* _merge_db_column: what a model's constraints call a key becomes one.
MergedColumn(c, model) ==
  LET own == {i \in DOMAIN model.cols : model.cols[i].name = c.name}
  IN  IF own = {} THEN c
      ELSE [c EXCEPT !.pk = @ \/ model.cols[Sets!Max(own)].pk,
                     !.fk = @ \/ model.cols[Sets!Max(own)].fk]

\* Variant: the columns of a model's table are the columns.
MergedTaking(base, model) ==
  [i \in DOMAIN base |->
    IF base[i].name \in Names(model) THEN [At(model, base[i].name) EXCEPT !.entity = base[i].entity]
    ELSE base[i]]

\* _merge_db_design: tables and columns are those of the base.
MergedDesign(base, model) ==
  [i \in DOMAIN base |->
    IF base[i].name \in Names(model)
    THEN LET m == At(model, base[i].name)
         IN  [base[i] EXCEPT !.cols = [k \in DOMAIN @ |-> MergedColumn(@[k], m)],
                             !.refs = m.refs]
    ELSE base[i]]

\* prepare_db_quality: an entity name that contradicts its table's name goes.
Aligned(ts) ==
  [i \in DOMAIN ts |-> IF Valid(ts[i].name) /\ Foreign(ts[i].entity, ts[i].name)
                       THEN [ts[i] EXCEPT !.entity = Spoken(ts[i].name)] ELSE ts[i]]

\* inspect_db_quality: the types of what is wrong.
Type(bad, type) == IF bad THEN {type} ELSE {}

DbErrors(ts) ==
  LET two == {p \in (DOMAIN ts) \X (DOMAIN ts) : p[1] # p[2]}
  IN  Type(\E i \in DOMAIN ts : ~Valid(ts[i].name), "DB_TABLE_ID_UNRESOLVED")
      \cup Type(\E i \in DOMAIN ts : Valid(ts[i].name) /\ Foreign(ts[i].entity, ts[i].name),
                "DB_TABLE_ENTITY_MAPPING_INVALID")
      \cup Type(\E p \in two : ts[p[1]].name = ts[p[2]].name, "DB_TABLE_NAME_DUPLICATED")
      \cup Type(\E p \in two : \/ ts[p[1]].entity = ts[p[2]].entity
                               \/ /\ Valid(ts[p[1]].name) /\ Valid(ts[p[2]].name)
                                  /\ ts[p[1]].name # ts[p[2]].name
                                  /\ Similar(ts[p[1]].name, ts[p[2]].name),
                "DB_TABLE_SEMANTIC_DUPLICATED")

-----------------------------------------------------------------------------
(* The validator *)

\* _reference_tables: what the agent left there, normalised once more; a table whose name
\* that changes is left out.
ReferenceTables == {t \in Members(Normal(reference)) : t.name \in Names(reference)}

ColumnsOf(t) == {<<t.name, t.cols[i]>> : i \in DOMAIN t.cols}
AllColumns(ts) == UNION {ColumnsOf(t) : t \in ts}
Named(columns) == {<<x[1], x[2].name>> : x \in columns}

\* db_validator.validate: nothing of the reference is missing, and what is there has the
\* same keys.
DbFailing ==
  LET ts   == Members(design)
      refs == AllColumns(ReferenceTables)
      own  == AllColumns(ts)
  IN  DbErrors(design)
      \cup Type(\E t \in ts : ~(t.refs \subseteq ColumnNames(t)), "DB_CONSTRAINT_INVALID")
      \cup Type(~({t.name : t \in ReferenceTables} \subseteq Names(design)), "DB_TABLE_MISSING")
      \cup Type(~(Named(refs) \subseteq Named(own)), "DB_COLUMN_MISSING")
      \cup Type(\E r \in refs, d \in own : /\ r[1] = d[1] /\ r[2].name = d[2].name
                                           /\ r[2] # d[2], "DB_KEY_MISMATCH")

-----------------------------------------------------------------------------
DbOff ==
  /\ dbStage = "off" /\ dbMode = "N" /\ source = <<>> /\ reference = <<>>
  /\ design = <<>> /\ reruns = 0

\* An update has no reference.
DbBegun ==
  /\ dbStage = "begin"
  /\ dbMode \in {"N", "Y"}
  /\ source \in Erds
  /\ reference = IF dbMode = "N" THEN source ELSE <<>>
  /\ design = <<>> /\ reruns = 0

DbGoes(from, to, ts) ==
  /\ dbStage = from
  /\ dbStage' = to
  /\ design' = ts
  /\ UNCHANGED <<dbMode, source, reruns>>

\* _create_db: the tables with their identifiers replace the reference.
CreateDb ==
  /\ dbMode = "N"
  /\ \E ts \in Identified(Normal(reference)) :
       /\ reference' = ts
       /\ DbGoes("begin", "specify", Tables(ts))

\* _update_db: an existing design that looks like one is taken as it is, and what the meeting
\* decided reaches only models whose answers are not used.  Else the design is what a model
\* analysed, or what it may be made of: the artifacts, if there is no analysis.
LooksLikeDesign(ts) == \E i \in DOMAIN ts : ts[i].cols # <<>>

DesignToUpdate(analyzed, artifacts) ==
  IF LooksLikeDesign(source) THEN source
  ELSE IF LooksLikeDesign(analyzed) THEN analyzed
  ELSE Normal(IF analyzed # <<>> THEN analyzed ELSE artifacts)

UpdateDb ==
  /\ dbMode = "Y"
  /\ \E analyzed \in Specs \cup {<<>>}, artifacts \in Erds :
       \E ts \in Identified(Tables(DesignToUpdate(analyzed, artifacts))) :
         DbGoes("begin", "finalize", Tables(ts))
  /\ UNCHANGED reference

\* _build_db_specifications.
Specify ==
  /\ \E model \in Specs \cup {<<>>} :
       DbGoes("specify", "finalize", MergedDesign(design, Tables(model)))
  /\ UNCHANGED reference

\* _finalize_db_design and prepare_db_quality.
Finalize ==
  /\ \E model \in Specs \cup {<<>>} :
       DbGoes("finalize", "check", Aligned(MergedDesign(design, Tables(model))))
  /\ UNCHANGED reference

\* A refused design is made again from the reference the agent left.
CheckDb ==
  /\ dbStage = "check"
  /\ IF DbFailing = {} THEN dbStage' = "validated" /\ UNCHANGED <<design, reruns>>
     ELSE IF reruns < MaxReruns
          THEN dbStage' = "begin" /\ design' = <<>> /\ reruns' = reruns + 1
          ELSE dbStage' = "rejected" /\ UNCHANGED <<design, reruns>>
  /\ UNCHANGED <<dbMode, source, reference>>

DbNext == CreateDb \/ UpdateDb \/ Specify \/ Finalize \/ CheckDb
DbSpec == (DbOff \/ DbBegun) /\ [][DbNext]_dbVars

-----------------------------------------------------------------------------
(* Properties *)

\* A new design that is accepted has every table with columns of the ERD, with the same
\* columns and keys and no other, whatever names and columns the models wrote.  A design that
\* was refused and made again is excepted where it was given tables of one name: the second
\* time they are one.  Nothing is claimed of an update.
SameKeys(t, d) == Members(t.cols) = Members(d.cols)

DbKeepsErd ==
  dbMode = "N" /\ dbStage = "validated" =>
    /\ \A t \in {u \in Members(Normal(source)) : u.cols # <<>>} : \E d \in Members(design) :
         /\ ColumnNames(t) \subseteq ColumnNames(d)
         /\ reruns = 0 => SameKeys(t, d)
    /\ reruns = 0 => Len(design) = Len(Normal(source))

=============================================================================
