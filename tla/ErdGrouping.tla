----------------------------- MODULE ErdGrouping -----------------------------
(***************************************************************************)
(* How an ERD is drawn in several pictures: the groups its tables are put  *)
(* into (mermaid_generation/erd_grouping.py) and the files that hold their *)
(* pictures (mermaid_generation/agent.py).                                 *)
(*                                                                         *)
(* AllTables are numbered in the order of their names; 0 is a table that   *)
(* is not there.  A table's score is its importance, then its number of    *)
(* relations.  The sets a component or a domain is held in have no order,  *)
(* and need none: the groups are sorted before they are merged, one after  *)
(* the other, which are the steps here.                                    *)
(***************************************************************************)
EXTENDS Integers, Sequences, FiniteSets, Positions

CONSTANTS
  DrawnTables,   \* how many tables there are
  Relations,     \* sets of pairs of tables an ERD may relate
  Sortings,      \* the domains and scores the tables may have
  MaxTables,     \* the tables of one picture, 6 in the code
  Few,           \* a group of fewer is merged into another, 3 in the code
  OrphanTables   \* the tables without relations of one picture, 4 in the code

ASSUME DrawingAssumption ==
  /\ DrawnTables \in Nat \ {0} /\ MaxTables \in Nat \ {0} /\ OrphanTables \in Nat \ {0}
  /\ Few \in 0..MaxTables
  /\ \A r \in Relations : r \subseteq (0..DrawnTables) \X (0..DrawnTables)
  /\ \A s \in Sortings : \A t \in 1..DrawnTables : s.domain[t] \in Int /\ s.score[t] \in Int
  /\ Sortings # {}

VARIABLES
  drawStage,  \* the step that comes next, or how the run ended
  related,    \* relationships
  sorting,    \* the domain and the score of each table
  left,       \* the groups _merge_small_groups has yet to look at
  merged,     \* merged: those it has
  pictures,   \* mermaid_groups
  files       \* what each picture file shows

drawVars == <<drawStage, related, sorting, left, merged, pictures, files>>

AllTables == 1..DrawnTables
Domain(t) == sorting.domain[t]
Weight(t) == sorting.score[t]

-----------------------------------------------------------------------------
(* Detail groups *)

TablesOf(g) == {g[i] : i \in DOMAIN g}

\* The orders tables are put in, as pairs of an earlier and a later one.
TablePairs == AllTables \X AllTables

\* _sort_names: by score, then by name.
ByScore ==
  {p \in TablePairs : \/ Weight(p[1]) > Weight(p[2])
                 \/ (Weight(p[1]) = Weight(p[2]) /\ p[1] < p[2])}

\* _chunk_by_importance: by score too, but with the last name first.
ByImportance ==
  {p \in TablePairs : \/ Weight(p[1]) > Weight(p[2])
                 \/ (Weight(p[1]) = Weight(p[2]) /\ p[1] > p[2])}

\* _chunks.
Pieces(s, size) ==
  [k \in 1..((Len(s) + size - 1) \div size) |->
    SubSeq(s, (k - 1) * size + 1, IF k * size <= Len(s) THEN k * size ELSE Len(s))]

\* A relation counts if it is between tables that are there.
Edges == related \cap TablePairs

\* nx.connected_components: with a table are all that no set apart from the rest divides
\* from it.
Apart(S)     == \A e \in Edges : e[1] \in S <=> e[2] \in S
Component(t) == {u \in AllTables : \A S \in SUBSET AllTables : t \in S /\ u \notin S => ~Apart(S)}

\* The components with a relation, be it of a table with itself.
Components == {Component(t) : t \in {e[1] : e \in Edges}}

\* _split_large_component: by domains, and those by importance.
InDomain(C, d) == {t \in C : Domain(t) = d}

SplitDomain(S) ==
  IF Cardinality(S) <= MaxTables THEN {Sorted(S, ByScore)}
  ELSE TablesOf(Pieces(Sorted(S, ByImportance), MaxTables))

Split(C) ==
  IF Cardinality(C) <= MaxTables THEN {Sorted(C, ByScore)}
  ELSE UNION {SplitDomain(InDomain(C, d)) : d \in {Domain(t) : t \in C}}

\* The larger group first, then the one whose first name is: no table is in two.
Before(g, h) == Len(g) > Len(h) \/ (Len(g) = Len(h) /\ g[1] < h[1])

\* Variant: room for one table is enough.
RoomForOne(g) == {i \in DOMAIN merged : Len(merged[i]) < MaxTables}

\* _find_merge_target: the first group with room of the domain of the first table, or any.
Room(g)     == {i \in DOMAIN merged : Len(merged[i]) + Len(g) <= MaxTables}
SameRoom(g) == {i \in Room(g) : Domain(merged[i][1]) = Domain(g[1])}
Targets(g)  == IF SameRoom(g) # {} THEN SameRoom(g) ELSE Room(g)

\* One turn of _merge_small_groups.
Absorbed(g) ==
  IF Len(g) >= Few \/ Targets(g) = {} THEN Append(merged, g)
  ELSE [merged EXCEPT ![Position(Targets(g), 1)] = Sorted(TablesOf(@) \cup TablesOf(g), ByScore)]

-----------------------------------------------------------------------------
(* The other tables *)

\* _related_table_names: those a relation names, even with one that is not there.
Mentioned == {e[1] : e \in related} \cup {e[2] : e \in related}

\* _orphan_groups: by domain, importance and name.  What no relation names has no relations
\* counted, so its score is its importance.
ByDomain ==
  {p \in TablePairs : \/ Domain(p[1]) < Domain(p[2])
                 \/ (Domain(p[1]) = Domain(p[2]) /\ p \in ByScore)}

OrphanGroups == Pieces(Sorted(AllTables \ Mentioned, ByDomain), OrphanTables)

\* _ensure_all_tables_rendered: what the groups have missed, by name.
Missed(gs)        == AllTables \ UNION {TablesOf(gs[i]) : i \in DOMAIN gs}
MissingGroups(gs) == Pieces([k \in 1..Cardinality(Missed(gs)) |-> Position(Missed(gs), k)], OrphanTables)

\* The number in its id: a detail group's and an orphan group's is its place, a missing
\* one's is counted anew.
Group(type, no, tables) == [type |-> type, no |-> no, tables |-> tables]

Numbered(type, from, gs) == [i \in DOMAIN gs |-> Group(type, from + i, gs[i])]

AllGroups ==
  LET orphans == OrphanGroups
  IN  Numbered("detail", 0, merged) \o Numbered("orphan", Len(merged), orphans)
        \o Numbered("orphan", 0, MissingGroups(merged \o orphans))

\* _coverage_result.
Covers(gs) == AllTables = UNION {TablesOf(gs[i].tables) : i \in DOMAIN gs}

\* The name of a group's file: erd_group_n or erd_orphan_n.
FileOf(g) == <<g.type, g.no>>

-----------------------------------------------------------------------------
DrawOff ==
  /\ drawStage = "off" /\ related = {}
  /\ left = {} /\ merged = <<>> /\ pictures = <<>> /\ files = <<>>
  /\ sorting \in {CHOOSE s \in Sortings : TRUE}

DrawBegun ==
  /\ drawStage = "split" /\ related \in Relations /\ sorting \in Sortings
  /\ left = {} /\ merged = <<>> /\ pictures = <<>> /\ files = <<>>

SplitComponents ==
  /\ drawStage = "split"
  /\ left' = UNION {Split(C) : C \in Components}
  /\ drawStage' = "merge"
  /\ UNCHANGED <<related, sorting, merged, pictures, files>>

MergeGroup ==
  /\ drawStage = "merge"
  /\ \E g \in left :
       /\ \A h \in left \ {g} : Before(g, h)
       /\ merged' = Absorbed(g)
       /\ left' = left \ {g}
  /\ UNCHANGED <<drawStage, related, sorting, pictures, files>>

GroupTables ==
  /\ drawStage = "merge" /\ left = {}
  /\ pictures' = AllGroups
  /\ drawStage' = IF Covers(pictures') THEN "draw" ELSE "failed"
  /\ UNCHANGED <<related, sorting, left, merged, files>>

\* One picture for each group, in their order; files has a later one of a name.
DrawGroups ==
  /\ drawStage = "draw"
  /\ files' = [f \in {FileOf(pictures[i]) : i \in DOMAIN pictures} |->
                LET Of == {i \in DOMAIN pictures : FileOf(pictures[i]) = f}
                IN  TablesOf(pictures[Position(Of, Cardinality(Of))].tables)]
  /\ drawStage' = "drawn"
  /\ UNCHANGED <<related, sorting, left, merged, pictures>>

DrawNext == SplitComponents \/ MergeGroup \/ GroupTables \/ DrawGroups

DrawSpec == (DrawOff \/ DrawBegun) /\ [][DrawNext]_drawVars

-----------------------------------------------------------------------------
(* Properties *)

Shown(e) == \E f \in DOMAIN files : {e[1], e[2]} \subseteq files[f]

\* The pictures of an ERD that was validated show it: every table is in exactly one, none
\* is fuller than its kind may be, no picture overwrites another, and a relation is left
\* out only if the tables connected with it are too many for one picture.  A relation
\* with a table that is not there, which validation refuses, may let two pictures have
\* one file.
DrawnOnce ==
  drawStage \in {"drawn", "failed"} /\ related = Edges =>
    /\ drawStage = "drawn"
    /\ \A t \in AllTables : Cardinality({f \in DOMAIN files : t \in files[f]}) = 1
    /\ \A i \in DOMAIN pictures :
         /\ files[FileOf(pictures[i])] = TablesOf(pictures[i].tables)
         /\ Len(pictures[i].tables) <= IF pictures[i].type = "detail" THEN MaxTables ELSE OrphanTables
    /\ \A e \in related : Shown(e) \/ Cardinality(Component(e[1])) > MaxTables

=============================================================================
