------------------------------ MODULE ErdDesign ------------------------------
(***************************************************************************)
(* How the data structure agent makes an ERD, updates one with what a      *)
(* meeting decided, and repairs the one the validator refused: agent.py,   *)
(* meeting_erd_requirements.py, erd_validator.py and repair_planner.py.    *)
(* What a language model answers is any of the drafts, lists and names of  *)
(* the constants; whatever it answers, the rules between its answers run.  *)
(***************************************************************************)
EXTENDS ErdTables

CONSTANTS
  Drafts,       \* the table lists a model or the rule pipeline may write
  Links,        \* the relation lists a model may write
  Minutes,      \* the lists of changes meetings may have led to
  Definitions,  \* the requirements known by their words, each with an id
  Called(_),    \* the table a word of the minutes is known to mean, or the word
  Grounded(_),  \* the entity names a table's own words support, best first
  Misfit(_, _), \* whether an entity name contradicts a table's words
  Title(_),     \* the entity name of a table made from a requirement
  Alias(_),     \* one name for all physical names that mean the same
  MaxReviews,   \* bound: the tables one review of the catalogue renames
  MaxRepairs    \* how often a refused ERD is repaired

\* All it reads is lists: what is none it refuses, or takes something else instead.
ASSUME ErdAssumption ==
  /\ Drafts # {}
  /\ \A d \in Drafts : /\ IsDesign(d) /\ d # <<>>
                      /\ \A i \in DOMAIN d : d[i].name \in Stems
  /\ \A rels \in Links : IsSeq(rels)
  /\ \A m \in Minutes :
       /\ IsSeq(m)
       /\ \A i \in DOMAIN m :
            /\ IsSeq(m[i].entities) /\ IsSeq(m[i].cols) /\ IsSeq(m[i].rels)
            /\ \A k \in DOMAIN m[i].entities : IsSeq(m[i].entities[k].cols)
  /\ IsSeq(Definitions)
  /\ \A i \in DOMAIN Definitions :
       IsSeq(Definitions[i].tables) /\ IsSeq(Definitions[i].cols) /\ IsSeq(Definitions[i].rels)
  /\ MaxReviews \in Nat
  /\ MaxRepairs \in Nat

VARIABLES
  stage,    \* the step of the agent, or of the validator, that comes next
  mode,     \* "N" a new ERD, "Y" an update
  erd,      \* tables and relations
  wishes,   \* what the meeting requires of an update
  failing,  \* what the validator found
  repairs,  \* the repairs so far
  pass,     \* the rounds of the consistency repair
  prepared  \* history: the quality rules ran after the last change and marked no key

erdVars == <<stage, mode, erd, wishes, failing, repairs, pass, prepared>>

ValidNames == {e \in Entities : ~NeedsReview(e)}

EmptyErd == [tables |-> <<>>, rels |-> <<>>]
With(ts) == [erd EXCEPT !.tables = ts]

-----------------------------------------------------------------------------
(* Entity names *)

\* Gives the tables of f the names of f.
Renamed(ts, f) ==
  [i \in DOMAIN ts |-> IF i \in DOMAIN f THEN [ts[i] EXCEPT !.entity = f[i]] ELSE ts[i]]

Used(ts) == {ts[i].entity : i \in DOMAIN ts} \ {""}
Fresh(n, used) == SelectSeq(Grounded(n), LAMBDA e : e \notin used)

\* The table at x.at takes the first name its words support that no table has, nor had.
Regrounding(ts, x) ==
  LET names == Fresh(ts[x.at].name, Used(ts) \cup x.taken)
  IN  IF names = <<>> THEN ts ELSE [ts EXCEPT ![x.at].entity = names[1]]

\* One after the other the tables of is do.
Grounding == INSTANCE Loops WITH Turn <- Regrounding
Regrounded(ts, is) ==
  Grounding!Loop(ts, Pick([i \in DOMAIN ts |-> [at |-> i, taken |-> Used(ts)]], is))

\* _resolve_remaining_semantic_duplicates: the first table of a name in scope keeps it.
Distinct(ts, scope) ==
  Regrounded(ts, {i \in DOMAIN ts :
    /\ ts[i].entity # "" /\ ts[i].name \in scope
    /\ \E k \in 1..(i - 1) : ts[k].name \in scope /\ ts[k].entity = ts[i].entity})

\* inspect_entity_consistency: the tables whose name says nothing or something else.
Mismatched(ts) == {i \in DOMAIN ts : Misfit(ts[i].entity, ts[i].name)}
Inconsistent(ts) == Mismatched(ts) \cup {i \in DOMAIN ts : ts[i].entity \in Generic}

\* _resolve_remaining_name_description_mismatches.
Matched(ts, scope) == Regrounded(ts, {i \in Mismatched(ts) : ts[i].name \in scope})

Unnamed(ts) == {i \in DOMAIN ts : NeedsReview(ts[i].entity)}

-----------------------------------------------------------------------------
(* Relations *)

\* _normalize_relation_table_name: a relation may name a table by its entity or as a model wrote it.
TableNamed(ts, v) ==
  LET named == {i \in DOMAIN ts : ts[i].entity = v}
  IN  IF v \in Names(ts) THEN v
      ELSE IF named # {} THEN ts[Sets!Max(named)].name
      ELSE IF StandardName(v) \in Names(ts) THEN StandardName(v) ELSE v

\* _normalize_relationship_names: a relation to a table there is not is left out.
RelationsNamed(rels, ts) ==
  LET Named(r) == [r EXCEPT !.parent = TableNamed(ts, r.parent), !.child = TableNamed(ts, r.child)]
      all == [i \in DOMAIN rels |-> Named(rels[i])]
  IN  Pick(all, {i \in DOMAIN all : {all[i].parent, all[i].child} \subseteq Names(ts)})

\* _merge_relationship_lists: of the relations with one key, the first.
RelationsMerged(one, two) ==
  LET all == one \o two
  IN  Pick(all, {i \in DOMAIN all :
                   \A k \in 1..(i - 1) : KeyOfRelation(all[k]) # KeyOfRelation(all[i])})

\* The candidate parents a model is asked to choose from: the five best.
ParentChoices(ts, n, c) ==
  LET all == Candidates(ts, n, c)
  IN  {t \in all : Cardinality({u \in all : Score(u, c) > Score(t, c)}) < 5}

\* A foreign key no table is a likely parent of loses its flag.
Likely(ts, n, c) == \E t \in Candidates(ts, n, c) : Score(t, c) >= 50
Cleared(doc) ==
  LET ts     == doc.tables
      orphan == {u \in Unmapped(doc) : ~Likely(ts, u[1], u[2])}
      Clear(t, c) == IF <<t.name, c.name>> \in orphan THEN [c EXCEPT !.fk = FALSE] ELSE c
      Rest(t) == [k \in DOMAIN t.cols |-> Clear(t, t.cols[k])]
  IN  [doc EXCEPT !.tables = [i \in DOMAIN ts |-> [ts[i] EXCEPT !.cols = Rest(ts[i])]]]

\* _resolve_unmapped_fk_relationships: each of the others gets one of its candidates, or
\* none, when the model gives none or is not sure of it.
Resolved(doc) ==
  LET d    == Prepared(doc)
      open == {u \in Unmapped(d) : Likely(d.tables, u[1], u[2])}
      offered == [u \in open |->
                    {<<>>} \cup {<<t.name, PkName(t)>> : t \in ParentChoices(d.tables, u[1], u[2])}]
      picks == {f \in [open -> UNION {offered[u] : u \in open}] :
                  \A u \in open : f[u] \in offered[u]}
      rest  == Cleared(d)
      News(f) == Seqs!SetToSeq({Relation(f[u][1], f[u][2], u[1], u[2], "N:1") :
                             u \in {v \in open : f[v] # <<>>}})
  IN  {[rest EXCEPT !.rels = @ \o News(f)] : f \in picks}

-----------------------------------------------------------------------------
(* What a meeting requires of the ERD *)

\* A requirement: tables, columns [table, name, fk] and relations <<parent, child>>; "instead"
\* holds the tables that do as well.  A change of the minutes has an id, the ids of the
\* definitions it has words of, and may have entities, which are bare words or not, with
\* columns, further columns, and relations [from, to, via], via "" if they are not N:M.
Requirement(id, tables, cols, rels, instead) ==
  [id |-> id, tables |-> tables, cols |-> cols, rels |-> rels, instead |-> instead]

\* _normalize_required_entities: a bare word stays as it is.
EntityTable(e) == IF e.bare THEN e.name ELSE Called(e.name)

ColumnsAsked(n, cols) == [i \in DOMAIN cols |-> [table |-> n, name |-> cols[i].name, fk |-> cols[i].fk]]

RelationsAsked(r) ==
  IF r.via = "" THEN <<<<Called(r.from), Called(r.to)>>>>
  ELSE <<<<Called(r.from), Called(r.via)>>, <<Called(r.to), Called(r.via)>>>>

Then(s, t) == s \o t
Joining == INSTANCE Loops WITH Turn <- Then
All(seqs) == Joining!Loop(<<>>, seqs)

\* _extract_structured_requirements, for one change.
Structured(c) ==
  LET named  == [i \in DOMAIN c.entities |-> EntityTable(c.entities[i])]
      tables == Pick(named, {i \in DOMAIN named : \A k \in 1..(i - 1) : named[k] # named[i]})
      own    == All([i \in DOMAIN c.entities |-> ColumnsAsked(named[i], c.entities[i].cols)])
      others == All([i \in DOMAIN c.cols |-> ColumnsAsked(Called(c.cols[i].table), <<c.cols[i]>>)])
      rels   == All([i \in DOMAIN c.rels |-> RelationsAsked(c.rels[i])])
  IN  Requirement(c.id, tables, own \o others, rels, {})

\* extract_meeting_erd_requirements: after them the definitions the minutes have words of,
\* unless a change has its id.
Wanted(changes) ==
  LET given == Pick(changes, {i \in DOMAIN changes :
                                <<changes[i].entities, changes[i].cols, changes[i].rels>>
                                  # <<<<>>, <<>>, <<>>>>})
      ids   == {given[i].id : i \in DOMAIN given}
      words == UNION {changes[i].words : i \in DOMAIN changes}
  IN  [i \in DOMAIN given |-> Structured(given[i])]
      \o Pick(Definitions, {i \in DOMAIN Definitions : Definitions[i].id \in words \ ids})

Alike(ts, n) == {i \in DOMAIN ts : Alias(ts[i].name) = Alias(n)}
\* _find_table: the first table of the name or of one that means the same.
Found(ts, n) == Sets!Min(Alike(ts, n))
\* _resolve_existing_table_name.
Existing(ts, n) == IF Alike(ts, n) = {} THEN n ELSE ts[Found(ts, n)].name

\* _template_table.
Template(n) == [name |-> n, entity |-> Title(n), cols |-> <<Pk(n)>>]
TableEnsured(ts, n) == IF Alike(ts, n) = {} THEN Append(ts, Template(n)) ELSE ts

ColumnEnsured(ts, c) ==
  LET us == TableEnsured(ts, c.table)
      i  == Found(us, c.table)
  IN  IF c.name \in ColumnNames(us[i]) THEN us
      ELSE [us EXCEPT ![i].cols = Append(@, [name |-> c.name, pk |-> FALSE, fk |-> c.fk])]

\* _ensure_primary_key of the meeting's rules: a new first column.
KeyEnsured(t) == IF PkIndices(t) # {} THEN t ELSE [t EXCEPT !.cols = <<Pk(t.name)>> \o @]

\* _ensure_foreign_key: the column has the name of the parent's key.
ForeignKeyEnsured(t, c) ==
  IF c \in ColumnNames(t) THEN [t EXCEPT !.cols[ColumnIndex(t, c)].fk = TRUE]
  ELSE [t EXCEPT !.cols = Append(@, [name |-> c, pk |-> FALSE, fk |-> TRUE])]

Pairs(rels) == {<<rels[i].parent, rels[i].child>> : i \in DOMAIN rels}

RelationEnsured(doc, pair) ==
  LET ts  == TableEnsured(TableEnsured(doc.tables, pair[1]), pair[2])
      us  == [ts EXCEPT ![Found(ts, pair[1])] = KeyEnsured(@)]
      p   == us[Found(us, pair[1])]
      vs  == [us EXCEPT ![Found(us, pair[2])] = ForeignKeyEnsured(@, PkName(p))]
      ch  == vs[Found(vs, pair[2])].name
  IN  [tables |-> vs,
       rels   |-> IF <<p.name, ch>> \in Pairs(doc.rels) THEN doc.rels
                  ELSE Append(doc.rels, Relation(p.name, PkName(p), ch, PkName(p), "1:N"))]

\* One requirement: its tables, its columns, its relations.
Tabling   == INSTANCE Loops WITH Turn <- TableEnsured
Columning == INSTANCE Loops WITH Turn <- ColumnEnsured
Relating  == INSTANCE Loops WITH Turn <- RelationEnsured
WishGranted(doc, w) ==
  LET ts == Columning!Loop(Tabling!Loop(doc.tables, w.tables), w.cols)
  IN  Relating!Loop([doc EXCEPT !.tables = ts], w.rels)

\* _dedupe_relationships: of the relations of one kind between two tables, the first.
OnePerPair(rels) ==
  LET Same(k, i) == <<rels[k].parent, rels[k].child, rels[k].kind>>
                      = <<rels[i].parent, rels[i].child, rels[i].kind>>
  IN  Pick(rels, {i \in DOMAIN rels : \A k \in 1..(i - 1) : ~Same(k, i)})

\* apply_meeting_erd_requirements; without requirements it is not called.
Granting == INSTANCE Loops WITH Turn <- WishGranted
Granted(doc, ws) ==
  IF ws = <<>> THEN doc ELSE [Granting!Loop(doc, ws) EXCEPT !.rels = OnePerPair(@)]

\* evaluate_meeting_erd_requirements, for one requirement.
Reflected(doc, w) ==
  LET ts == doc.tables
      instead == w.instead \cap Names(ts) # {}
  IN  /\ \A n \in Members(w.tables) : Alike(ts, n) # {} \/ instead
      /\ \A c \in Members(w.cols) :
           \/ Alike(ts, c.table) # {} /\ c.name \in ColumnNames(At(ts, Existing(ts, c.table)))
           \/ instead
      /\ \A p \in Members(w.rels) : <<Existing(ts, p[1]), Existing(ts, p[2])>> \in Pairs(doc.rels)

AllReflected(doc, ws) == \A i \in DOMAIN ws : Reflected(doc, ws[i])

-----------------------------------------------------------------------------
(* The validator *)

Repairable == {"ERD_PK_MISSING", "ENTITY_GENERIC_NAME", "ENTITY_NAME_MISMATCH",
               "ENTITY_NAME_SENTENCE", "ENTITY_SEMANTIC_DUPLICATED", "FK_RELATION_MISSING"}
NameTypes  == Repairable \ {"ERD_PK_MISSING", "FK_RELATION_MISSING"}

TablesAt(ts, is) == {ts[i].name : i \in is}

\* erd_validator.validate: what makes it refuse the ERD.
Failing(doc, ws) ==
  LET ts == doc.tables
  IN  Inspect(doc)
      \cup {Issue("ERD_PK_MISSING", {t.name}, <<>>) : t \in {u \in Members(ts) : PkIndices(u) = {}}}
      \cup {Issue("ENTITY_GENERIC_NAME", {n}, <<>>) :
              n \in TablesAt(ts, Inconsistent(ts) \ Mismatched(ts))}
      \cup {Issue("ENTITY_NAME_MISMATCH", {n}, <<>>) : n \in TablesAt(ts, Mismatched(ts))}
      \cup (IF AllReflected(doc, ws) THEN {} ELSE {Issue("ERD_MEETING_CHANGE_MISSING", {}, <<>>)})

\* build_repair_instruction: what a repair may change.
Repaired    == {x \in failing : x.type \in Repairable}
FailedTypes == {x.type : x \in Repaired}
ScopeOf(types) == UNION {x.on : x \in {y \in Repaired : y.type \in types}}
EntityScope == ScopeOf(NameTypes)
TableScope  == ScopeOf({"ERD_PK_MISSING"})
Scope       == EntityScope \cup TableScope

-----------------------------------------------------------------------------
(* Making an ERD and updating one *)

ErdOff ==
  /\ stage = "off" /\ mode = "N" /\ erd = EmptyErd /\ wishes = <<>>
  /\ failing = {} /\ repairs = 0 /\ pass = 0 /\ prepared = FALSE

ErdBegun ==
  /\ stage = "tables"
  /\ mode \in {"N", "Y"}
  /\ erd = EmptyErd
  /\ wishes \in IF mode = "Y" THEN {Wanted(m) : m \in Minutes} ELSE {<<>>}
  /\ failing = {} /\ repairs = 0 /\ pass = 0 /\ prepared = FALSE

\* A stage that changes the tables and relations and nothing else.
Goes(to, doc) ==
  /\ stage' = to
  /\ erd' = doc
  /\ UNCHANGED <<mode, wishes, failing, repairs, pass, prepared>>

OrNone(S) == S \cup {<<>>}

\* _merge_rule_and_llm_tables: a table of the rules stays if the model has no entity like it.
RuleAndModel(rule, model) ==
  LET own == {model[i].entity : i \in DOMAIN model} \ {""}
  IN  Normal(Pick(rule, {i \in DOMAIN rule : rule[i].entity \notin own}) \o model)

\* _create_erd: the rule pipeline and the models propose tables.
ProposeTables ==
  /\ stage = "tables" /\ mode = "N"
  /\ \E rule \in Drafts, model \in OrNone(Drafts) :
       Goes("columns", With(RuleAndModel(Normal(rule), model)))

\* _repair_update_table_contracts: a table without a primary key gets the one of the table
\* that had its number, else of the one of its entity, else one named after the entity.
SourceOf(t, i, src) ==
  LET alike == {k \in DOMAIN src : src[k].entity = t.entity /\ t.entity # ""}
  IN  IF i \in DOMAIN src THEN {i} ELSE IF alike = {} THEN {} ELSE {Sets!Max(alike)}

SourceKey(t, i, src) ==
  LET with == {k \in SourceOf(t, i, src) : PkIndices(src[k]) # {}}
  IN  IF with # {} THEN src[Sets!Max(with)].cols[Sets!Min(PkIndices(src[Sets!Max(with)]))]
      ELSE IF t.entity # "" THEN Pk(Base(t.entity)) ELSE Pk(t.name)

ContractsKept(ts, src) ==
  Normal([i \in DOMAIN ts |->
    IF PkIndices(ts[i]) # {} THEN ts[i]
    ELSE [ts[i] EXCEPT !.cols = <<SourceKey(ts[i], i, src)>> \o @]])

\* _update_erd: what is asked for, else what there was, with the tables the meeting adds;
\* the model may redesign it.
RedesignTables ==
  /\ stage = "tables" /\ mode = "Y"
  /\ \E source \in Drafts, added \in OrNone(Drafts), model \in OrNone(Drafts) :
     \E asked \in {Normal(Normal(source) \o Normal(added))} :
     \E new \in {Normal(IF model = <<>> THEN asked ELSE model)} :
       Goes("relate", With(ContractsKept(new, Normal(source))))

\* _build_column_candidates: the tables a model returns are the tables; those without
\* columns keep the ones they had.
DesignColumns ==
  /\ stage = "columns"
  /\ \E model \in OrNone(Drafts) :
       LET Based(t) == IF t.cols = <<>> /\ t.name \in Names(erd.tables)
                       THEN [t EXCEPT !.cols = At(erd.tables, t.name).cols] ELSE t
       IN  Goes("relate", With(Normal(IF model = <<>> THEN erd.tables
                                      ELSE [i \in DOMAIN model |-> Based(model[i])])))

\* _build_relationships; an update adds those asked for before, and what the meeting wants.
Relate ==
  /\ stage = "relate"
  /\ \E model \in OrNone(Links), asked \in IF mode = "Y" THEN OrNone(Links) ELSE {<<>>} :
       LET own  == IF model = <<>> THEN Infer(erd.tables) ELSE model
           rels == IF asked = <<>> THEN own ELSE RelationsMerged(asked, own)
       IN  Goes("final", Granted([erd EXCEPT !.rels = rels], wishes))

\* _build_final_erd_json.
FinalJson ==
  /\ stage = "final"
  /\ \E model \in OrNone(Drafts) :
     \E links \in IF model = <<>> THEN {<<>>} ELSE OrNone(Links) :
     \E ts \in {Normal(IF model = <<>> THEN erd.tables ELSE model)} :
       LET rels == IF links = <<>> THEN erd.rels ELSE links
       IN  Goes("names", [tables |-> ts, rels |-> RelationsNamed(rels, ts)])

-----------------------------------------------------------------------------
(* Naming the entities *)

NamesOf(is, names) == [is -> names]

\* _resolve_entity_names: of the entities a name is missing for; what is invalid twice is none.
NameEntities(from, to) ==
  /\ stage = from
  /\ \/ Goes(to, erd)
     \/ \E f \in NamesOf(Unnamed(erd.tables), ValidNames \cup {""}) :
          Goes(to, With(Renamed(erd.tables, f)))

NameFirst == NameEntities("names", "catalog")
NameAgain ==
  NameEntities("names again", IF mode = "N" THEN "distinct" ELSE "resolve")

\* _review_entity_catalog: any valid name replaces the entity's.
ReviewCatalog ==
  /\ stage = "catalog"
  /\ \E is \in SUBSET DOMAIN erd.tables :
       /\ Cardinality(is) <= MaxReviews
       /\ \E f \in NamesOf(is, ValidNames) :
            Goes("names again", With(Renamed(erd.tables, f)))

AllNames == Names(erd.tables)

TellApart ==
  /\ stage = "distinct"
  /\ Goes("consistent", With(Distinct(erd.tables, AllNames)))

\* _repair_initial_entity_consistency: at most three rounds, as long as they change what
\* is inconsistent; the model answers for some of the entities.
RepairConsistency ==
  /\ stage = "consistent"
  /\ Inconsistent(erd.tables) # {} /\ pass < 3
  /\ \E is \in SUBSET Inconsistent(erd.tables) : \E f \in NamesOf(is, ValidNames) :
       LET ts == Distinct(Renamed(erd.tables, f), AllNames)
       IN  /\ erd' = With(ts)
           /\ pass' = IF Inconsistent(ts) = Inconsistent(erd.tables) THEN 3 ELSE pass + 1
  /\ UNCHANGED <<stage, mode, wishes, failing, repairs, prepared>>

SettleConsistency ==
  /\ stage = "consistent"
  /\ Inconsistent(erd.tables) = {} \/ pass = 3
  /\ Goes("resolve", With(Distinct(Matched(erd.tables, AllNames), AllNames)))

-----------------------------------------------------------------------------
(* Relations, and what the meeting requires once more *)

\* An entity without a name fails the run; else the relations are resolved, the meeting's
\* requirements are granted again and the quality rules run.
NamelessFails ==
  /\ stage = "resolve"
  /\ Unnamed(erd.tables) # {}
  /\ Goes("failed", EmptyErd)

\* Variant: they are granted the first time only.
GrantedOnce(doc) == doc

GrantedAgain(doc) ==
  IF wishes = <<>> THEN doc ELSE [Granted(doc, wishes) EXCEPT !.tables = Normal(@)]

\* Variant: the quality rules have run before.
HandedUnchecked(doc) == doc

\* What the validator is handed.
Handed(doc) == Prepared(doc)

Finish ==
  /\ stage = "resolve"
  /\ Unnamed(erd.tables) = {}
  /\ \E d \in {GrantedAgain(e) : e \in Resolved(erd)} :
       /\ erd' = Handed(d)
       /\ prepared' = (Handed(d).tables = d.tables)
  /\ stage' = "validate"
  /\ UNCHANGED <<mode, wishes, failing, repairs, pass>>

-----------------------------------------------------------------------------
(* Validation and repair *)

MayRepair == repairs < MaxRepairs

Validate ==
  /\ stage = "validate"
  /\ failing' = Failing(erd, wishes)
  /\ stage' = IF failing' = {} THEN "validated"
              ELSE IF (\E x \in failing' : x.type \in Repairable) /\ MayRepair
                   THEN "repair" ELSE "rejected"
  /\ UNCHANGED <<mode, erd, wishes, repairs, pass, prepared>>

\* The tables whose own failures ask for a new name.
Misnamed(ts) == {i \in DOMAIN ts : ts[i].name \in EntityScope}

\* ensure_primary_keys on the tables that miss one.
KeysRepaired ==
  IF "ERD_PK_MISSING" \in FailedTypes
  THEN With(EnsurePks(erd.tables, IF TableScope # {} THEN TableScope ELSE EntityScope))
  ELSE erd

KeysMissing(doc) ==
  {i \in DOMAIN doc.tables : doc.tables[i].name \in TableScope /\ PkIndices(doc.tables[i]) = {}}

\* _merge_scoped_erd_repair: only the names of the tables that failed for their name.
Patched(doc) ==
  IF Scope = {} \/ FailedTypes = {"ERD_PK_MISSING"} THEN {doc}
  ELSE {[doc EXCEPT !.tables = Renamed(@, f)] : f \in NamesOf(Misnamed(doc.tables), ValidNames)}

\* The foreign keys the validator found without a relation.
OpenKeys == {x.rel : x \in {y \in Repaired : y.type = "FK_RELATION_MISSING"}}

Reconnected(docs) ==
  IF OpenKeys = {} THEN docs
  ELSE {d \in UNION {Resolved(e) : e \in docs} : OpenKeys \cap Unmapped(d) = {}}

\* The duplicates, the mismatches and the duplicates again, in the scope of the repair.
Untangled(doc) ==
  LET one   == IF "ENTITY_SEMANTIC_DUPLICATED" \in FailedTypes
               THEN Distinct(doc.tables, Scope) ELSE doc.tables
      two   == IF FailedTypes \cap {"ENTITY_GENERIC_NAME", "ENTITY_NAME_MISMATCH"} # {}
               THEN Matched(one, Scope) ELSE one
      three == IF FailedTypes \cap {"ENTITY_GENERIC_NAME", "ENTITY_NAME_MISMATCH",
                                    "ENTITY_SEMANTIC_DUPLICATED"} # {}
               THEN Distinct(two, Scope) ELSE two
  IN  [doc EXCEPT !.tables = three]

\* Variant: the quality rules run after every repair.
CheckedAlways(doc) == Prepared(doc)

\* The quality rules run only after a repair of the relations.
Checked(doc) == IF OpenKeys = {} THEN doc ELSE Prepared(doc)

\* _remaining_repair_quality_issues.
Remaining(doc) ==
  {x \in Failing(doc, <<>>) : /\ x.type \in FailedTypes
                              /\ Scope = {} \/ x.on \cap Scope # {}}

RepairedErds ==
  IF KeysMissing(KeysRepaired) # {} THEN {}
  ELSE {Untangled(d) : d \in Reconnected(Patched(KeysRepaired))}

\* _repair_erd_output.  A repair that fails keeps the ERD it was to repair.
Repair ==
  /\ stage = "repair"
  /\ \/ \E d \in RepairedErds :
          /\ Remaining(Checked(d)) = {}
          /\ erd' = Checked(d)
          /\ prepared' = (OpenKeys # {} /\ Checked(d).tables = d.tables)
     \/ UNCHANGED <<erd, prepared>>
  /\ repairs' = repairs + 1
  /\ stage' = "validate"
  /\ UNCHANGED <<mode, wishes, failing, pass>>

ErdNext ==
  \/ ProposeTables \/ RedesignTables \/ DesignColumns \/ Relate \/ FinalJson
  \/ NameFirst \/ ReviewCatalog \/ NameAgain
  \/ TellApart \/ RepairConsistency \/ SettleConsistency
  \/ NamelessFails \/ Finish \/ Validate \/ Repair

ErdSpec == (ErdOff \/ ErdBegun) /\ [][ErdNext]_erdVars

-----------------------------------------------------------------------------
(* Properties *)

\* _validate_and_prepare_erd_export: refuses an ERD with errors, and one whose relations
\* the quality rules would still correct.
GateTakes(doc) == Inspect(Prepared(doc)) = {} /\ ~RelationsCorrected(doc)

\* What the validator lets through the export's own gate takes as well: a document that
\* passed every check is not lost at the last step because the same rules, run once more,
\* find something to correct.  It does not hold of an ERD whose last change was a repair
\* that ended without the quality rules, nor of one in which their last run marked a key:
\* from a key that is new they would infer another relation.
ExportTakesIt == stage = "validated" /\ prepared => GateTakes(erd)

\* What an update hands to the validator has all the meeting requires, and no relation
\* without its tables, whatever the models made of the tables and relations meanwhile: as
\* long as the meeting names tables by their standard names and asks for columns named like
\* keys.  Another column a relation may make a primary key, and then it gets a key's name.
StandardWishes ==
  \A w \in Members(wishes) :
    /\ \A n \in Members(w.tables) \cup {w.cols[i].table : i \in DOMAIN w.cols}
               \cup UNION {{w.rels[i][1], w.rels[i][2]} : i \in DOMAIN w.rels} :
         StandardName(n) = n
    /\ \A i \in DOMAIN w.cols : IsKeyed(w.cols[i])

WishesHold ==
  stage = "validate" /\ repairs = 0 /\ mode = "Y" /\ StandardWishes
    => /\ AllReflected(erd, wishes)
       /\ \A x \in Inspect(erd) : x.type # "RELATION_TABLE_MISSING"

\* A repair stays in its scope, as must_preserve and forbidden_changes say: no table comes,
\* goes or changes its physical name, no entity outside the scope gets another name, and no
\* relation changes unless relations are what is repaired.
StaysInScope ==
  stage = "repair" =>
    /\ DOMAIN erd.tables' = DOMAIN erd.tables
    /\ \A i \in DOMAIN erd.tables :
         /\ erd.tables[i].name = erd'.tables[i].name
         /\ erd.tables[i].entity # erd'.tables[i].entity => erd.tables[i].name \in EntityScope
         /\ {erd.tables[i].cols[k].name : k \in DOMAIN erd.tables[i].cols}
              = {erd'.tables[i].cols[k].name : k \in DOMAIN erd'.tables[i].cols}
    /\ OpenKeys = {} => erd.rels = erd'.rels

RepairInScope == [][StaysInScope]_erdVars

=============================================================================
