-------------------------- MODULE GoldRequirements --------------------------
(***************************************************************************)
(* How the fine-tuned agent turns functional requirements into the         *)
(* requirement specification: pipeline.py, task1.py, task2.py, task3.py,   *)
(* output_validation.py and similarity.py of requirements_gold_agent.      *)
(*                                                                         *)
(* Every requirement is cut into atoms, the atoms of a requirement are     *)
(* merged into candidates, similar candidates of the document into final   *)
(* requirements.  Each of the three is a model's answer, which may lose,   *)
(* repeat or invent what it was given; the rules after it repair that.     *)
(* An atom is <<requirement, local>>; a candidate is its position.         *)
(***************************************************************************)
EXTENDS Integers, Sequences, FiniteSets, Positions

CONSTANTS
  NumFurs,    \* the functional requirements of a document
  MaxAtoms,   \* bound: the atoms of one requirement, which are numbered
  MaxGroup,   \* TASK3_MAX_GROUP_SIZE
  MaxItems    \* bound: the candidates or finals of one answer

ASSUME GoldAssumption ==
  /\ NumFurs \in Nat \ {0}
  /\ MaxAtoms \in Nat \ {0}
  /\ MaxGroup \in Nat \ {0}
  /\ MaxItems \in Nat \ {0}

VARIABLES
  goldStage,   \* the task that runs next, or how the run ended
  fur,         \* the requirement it runs for
  atoms,       \* all_atomics_by_fur: the atoms of each requirement
  candidates,  \* candidate_requirements, each the set of the atoms merged in it
  groups,      \* the groups of candidates that are still to be made final
  finals,      \* combined_finals: candidates and atoms each is traced to
  blamed       \* history: an answer was no answer, or named a candidate it was not given

goldVars == <<goldStage, fur, atoms, candidates, groups, finals, blamed>>

Furs == 1..NumFurs

AtomsOf(f) == {<<f, l>> : l \in atoms[f]}
AllAtoms   == UNION {AtomsOf(f) : f \in Furs}

-----------------------------------------------------------------------------
(* TASK2: the repairs of a model's candidates for requirement f.  An item  *)
(* has the atoms it merges and those it refers to.                         *)

\* What a model may call an atom: of this requirement or of another, known or not.
References == Furs \X (1..MaxAtoms)

\* repair_task2_unknown_atomic_references: an atom of another requirement is taken for this
\* one's of the same number; what names none is left out.
Known(f, refs) == {<<f, r[2]>> : r \in refs} \cap AtomsOf(f)

KnownItems(f, items) ==
  [i \in DOMAIN items |-> [merged |-> Known(f, items[i].merged),
                           context |-> Known(f, items[i].context)]]

MergedAtoms(items) == UNION {items[i].merged : i \in DOMAIN items}
Holders(items, a)  == {i \in DOMAIN items : a \in items[i].merged}

\* The turns in which the atoms are repaired: by the first item that merges them, within an
\* item in the order it lists them.
Turns(items) ==
  {turn \in [MergedAtoms(items) -> 1..Cardinality(MergedAtoms(items))] :
     \A a, b \in MergedAtoms(items) : a # b =>
       /\ turn[a] # turn[b]
       /\ Position(Holders(items, a), 1) < Position(Holders(items, b), 1) => turn[a] < turn[b]}

\* Who keeps an atom several items merge: one that merges nothing else any more when it is
\* the atom's turn, or else the one whose words are nearest.
Owners(items) ==
  {owner \in [MergedAtoms(items) -> DOMAIN items] :
     \E turn \in Turns(items) : \A a \in MergedAtoms(items) :
       LET left(i) == {b \in items[i].merged : turn[b] < turn[a] => owner[b] = i}
           alone   == {i \in Holders(items, a) : left(i) = {a}}
       IN  owner[a] \in IF alone # {} THEN alone ELSE Holders(items, a)}

\* The others only refer to it; an item that is left without any is dropped.
OwnedBy(items, owner) ==
  LET own(i) == {a \in items[i].merged : owner[a] = i}
  IN  Pick([i \in DOMAIN items |-> [merged  |-> own(i),
                                    context |-> items[i].context \cup (items[i].merged \ own(i))]],
           {i \in DOMAIN items : own(i) # {}})

\* repair_task2_primary_assignments.
PrimaryRepaired(items) == {OwnedBy(items, owner) : owner \in Owners(items)}

\* repair_task2_missing_atomic_assignments: an item of its own for an atom nobody merges.
MissingRepaired(f, items) ==
  LET missing == {l \in atoms[f] : <<f, l>> \notin MergedAtoms(items)}
  IN  items \o [k \in 1..Cardinality(missing) |->
                  [merged |-> {<<f, Position(missing, k)>>}, context |-> {}]]

\* Variant: what is called wrongly is repaired last.
RepairedLate(f, items) ==
  {KnownItems(f, MissingRepaired(f, s)) : s \in PrimaryRepaired(items)}

Repaired2(f, items) ==
  {MissingRepaired(f, s) : s \in PrimaryRepaired(KnownItems(f, items))}

\* validate_task2_atomic_coverage.
CoversAtoms(expected, items) ==
  /\ \A i \in DOMAIN items : items[i].merged \cup items[i].context \subseteq expected
  /\ \A a \in expected : Cardinality(Holders(items, a)) = 1

-----------------------------------------------------------------------------
(* TASK3: the repairs of a model's final requirements for the candidates   *)
(* of a group.  A final has the candidates it is made of and the atoms     *)
(* it is known to have; a relation names a final and candidates.           *)

Final(ids, from) == [ids |-> ids, from |-> from]

\* resolve_stage3_lineage: what a relation names is part of its final.
Related(fs, rels) ==
  [i \in DOMAIN fs |->
    [fs[i] EXCEPT !.ids = @ \cup UNION {r.ids : r \in {x \in rels : x.gold = i}}]]

\* restore_missing_group_coverage: a candidate that is lost is kept as it is.
CoverageRestored(group, fs) ==
  LET lost == group \ UNION {fs[i].ids : i \in DOMAIN fs}
  IN  fs \o [k \in 1..Cardinality(lost) |->
               LET c == Position(lost, k) IN Final({c}, candidates[c])]

\* repair_duplicate_final_task2_assignment: of the finals a candidate is part of, the one
\* with the fewest keeps it; a final that keeps none is dropped.
Keeper(fs, c) ==
  LET having == {i \in DOMAIN fs : c \in fs[i].ids}
  IN  CHOOSE i \in having : \A k \in having :
        \/ Cardinality(fs[i].ids) < Cardinality(fs[k].ids)
        \/ Cardinality(fs[i].ids) = Cardinality(fs[k].ids) /\ i <= k

DuplicatesRepaired(fs) ==
  LET kept(i) == {c \in fs[i].ids : Keeper(fs, c) = i}
  IN  Pick([i \in DOMAIN fs |-> Final(kept(i), fs[i].from)], {i \in DOMAIN fs : kept(i) # {}})

\* validate_group_coverage and validate_final_task2_assignment.
CoversGroup(group, fs) ==
  /\ UNION {fs[i].ids : i \in DOMAIN fs} = group
  /\ \A i, k \in DOMAIN fs : i # k => fs[i].ids \cap fs[k].ids = {}

\* enrich_final_lineage: those of its candidates besides.
Enriched(final) == [final EXCEPT !.from = @ \cup UNION {candidates[c] : c \in final.ids}]

-----------------------------------------------------------------------------
GoldOff ==
  /\ goldStage = "off" /\ fur = 1
  /\ atoms = [f \in Furs |-> {}] /\ candidates = <<>>
  /\ groups = {} /\ finals = <<>> /\ blamed = FALSE

GoldBegun ==
  /\ goldStage = "task1" /\ fur = 1
  /\ atoms = [f \in Furs |-> {}] /\ candidates = <<>>
  /\ groups = {} /\ finals = <<>> /\ blamed = FALSE

Following(next) ==
  /\ goldStage' = IF fur = NumFurs THEN next ELSE goldStage
  /\ fur' = IF fur = NumFurs THEN 1 ELSE fur + 1

\* run_task: the second answer that is none ends the run.
NoAnswer ==
  /\ goldStage \in {"task1", "task2", "task3"}
  /\ goldStage' = "refused"
  /\ blamed' = TRUE
  /\ UNCHANGED <<fur, atoms, candidates, groups, finals>>

\* stage_task1: at least one atom, no number twice.
Decompose ==
  /\ goldStage = "task1"
  /\ \E ls \in (SUBSET (1..MaxAtoms)) \ {{}} : atoms' = [atoms EXCEPT ![fur] = ls]
  /\ Following("task2")
  /\ UNCHANGED <<candidates, groups, finals, blamed>>

\* What a model answers for a requirement: at least one item; all refer to nothing or to
\* whatever there is.
Answers2 ==
  UNION {{[i \in 1..n |-> [merged |-> m[i], context |-> c]] :
            m \in [1..n -> SUBSET References], c \in {{}, References}} :
           n \in 1..MaxItems}

\* stage_task2.
Normalize ==
  /\ goldStage = "task2"
  /\ \E answer \in Answers2 : \E items \in Repaired2(fur, answer) :
       IF CoversAtoms(AtomsOf(fur), items)
       THEN /\ candidates' = candidates \o [i \in DOMAIN items |-> items[i].merged]
            /\ Following("group")
       ELSE goldStage' = "refused" /\ UNCHANGED <<fur, candidates>>
  /\ UNCHANGED <<atoms, groups, finals, blamed>>

\* build_similarity_groups: some groups of candidates that are pairwise similar, none
\* larger than allowed, and those similar to none, which are final as they are unless a
\* scope concerns all.
Groups ==
  /\ goldStage = "group"
  /\ \E similar \in SUBSET (SUBSET (DOMAIN candidates)), scoped \in BOOLEAN :
       LET rest == DOMAIN candidates \ UNION similar
       IN  /\ \A g \in similar : Cardinality(g) \in 2..MaxGroup
           /\ \A g, h \in similar : g # h => g \cap h = {}
           /\ groups' = similar \cup (IF scoped THEN {{c} : c \in rest} ELSE {})
           /\ finals' = IF scoped THEN <<>>
                        ELSE [i \in 1..Cardinality(rest) |->
                                LET c == Position(rest, i) IN Final({c}, candidates[c])]
  /\ goldStage' = "task3"
  /\ UNCHANGED <<fur, atoms, candidates, blamed>>

\* What a model answers for a group: no finals, or some, and at most one relation, of one
\* final and one candidate; 0 stands for what is no candidate of the group.
Answers3(group) ==
  LET named == group \cup {0}
  IN  {[finals |-> fs, rels |-> rels] :
         fs \in UNION {[1..n -> (SUBSET named) \ {{}}] : n \in 0..MaxItems},
         rels \in {{}} \cup {{[gold |-> g, ids |-> {c}]} : g \in 1..MaxItems, c \in named}}

\* A relation names one of the finals.  The atoms a model says a final has are never
\* looked at again, and left out.
WellFormed(answer) == \A r \in answer.rels : r.gold \in DOMAIN answer.finals
Said(answer) == [i \in DOMAIN answer.finals |-> Final(answer.finals[i], {})]
NamesOf3(answer) ==
  (UNION {answer.finals[i] : i \in DOMAIN answer.finals}) \cup UNION {r.ids : r \in answer.rels}

Repaired3(group, fs) == DuplicatesRepaired(CoverageRestored(group, fs))

\* run_stage3_group, and what run_document does with what it returns.
Finalize3(group) ==
  \E answer \in {a \in Answers3(group) : WellFormed(a)} :
    LET fs == Repaired3(group, Related(Said(answer), answer.rels))
    IN  /\ blamed' = (blamed \/ 0 \in NamesOf3(answer))
        /\ IF CoversGroup(group, fs)
           THEN /\ finals' = finals \o [i \in DOMAIN fs |-> Enriched(fs[i])]
                /\ groups' = groups \ {group}
                /\ UNCHANGED goldStage
           ELSE goldStage' = "refused" /\ UNCHANGED <<finals, groups>>

DedupGroup ==
  /\ goldStage = "task3" /\ groups # {}
  /\ Finalize3(CHOOSE g \in groups : \A h \in groups : Position(g, 1) <= Position(h, 1))
  /\ UNCHANGED <<fur, atoms, candidates>>

\* The last checks of run_document.
Specify3 ==
  /\ goldStage = "task3" /\ groups = {}
  /\ goldStage' = IF CoversGroup(DOMAIN candidates, finals) THEN "accepted" ELSE "refused"
  /\ UNCHANGED <<fur, atoms, candidates, groups, finals, blamed>>

GoldNext == NoAnswer \/ Decompose \/ Normalize \/ Groups \/ DedupGroup \/ Specify3

GoldSpec == (GoldOff \/ GoldBegun) /\ [][GoldNext]_goldVars

-----------------------------------------------------------------------------
(* Properties *)

\* Whatever the three answers lost, repeated or invented: in a specification that is
\* accepted every candidate, and so every atom of every functional requirement, is traced
\* by exactly one final requirement, which names the atoms.  And the repairs suffice: no
\* answer makes the checks after them refuse the document unless it is none, or the last
\* model names a candidate it was not given, which nothing repairs.
GoldTraces ==
  /\ goldStage = "accepted" =>
       /\ \A c \in DOMAIN candidates : \E i \in DOMAIN finals :
            /\ candidates[c] \subseteq finals[i].from
            /\ \A k \in DOMAIN finals : c \in finals[k].ids <=> k = i
       /\ \A a \in AllAtoms : Cardinality({c \in DOMAIN candidates : a \in candidates[c]}) = 1
  /\ goldStage = "refused" => blamed

=============================================================================
