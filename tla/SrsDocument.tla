---------------------------- MODULE SrsDocument ----------------------------
(***************************************************************************)
(* How requirements are merged with what a meeting decided, and how the    *)
(* requirement specification is made of them: document_merge (agent.py,    *)
(* requirement_merger.py), requirement_generation and srs_validator.py.    *)
(*                                                                         *)
(* An item has an id (0: none), a type and a body, which stands for its    *)
(* name, detail and source; what is no object at all is Text.  An id n is  *)
(* also the nth that is made up (FUR-00n).  The changes are applied one    *)
(* after the other, which are the steps here.                              *)
(***************************************************************************)
EXTENDS Integers, Sequences, FiniteSets, Positions

CONSTANTS
  Bodies,     \* what an item may say; "" is nothing
  Contents,   \* what may be written to an item: some of its fields
  Rfps,       \* the requirements a new document may start from
  Documents,  \* the requirements an existing document may have
  Meetings,   \* the changes that may be read from the minutes
  Rewritings, \* the fields a model may write to a change when it sees what was found for it
  Replies,    \* what a model may answer for an item, besides nothing
  RowNames,   \* the names a model may give final requirements
  MaxRows     \* bound: the final requirements

Kinds == {"functional", "other", "text"}
Items == [id : Nat, type : Kinds, body : Bodies]

\* A change of the meeting: an operation, the id of its target (0: none), the fields it
\* writes, and whether it says what to search for.
Operations == {"ADD", "UPDATE", "DELETE"}
Demands    == [op : Operations, target : Nat, content : Contents, search : BOOLEAN]

\* What is no object at all.
Text == [id |-> 0, type |-> "text", body |-> "text"]

\* The fields an answer has, else the old ones.
Or(answer, k, old) == IF k \in DOMAIN answer THEN answer[k] ELSE old

ASSUME SrsAssumption ==
  /\ "" \in Bodies /\ Text \in Contents
  /\ \A c \in Contents : /\ "id" \in DOMAIN c => c["id"] \in Nat
                         /\ "type" \in DOMAIN c => c["type"] \in Kinds
                         /\ "body" \in DOMAIN c => c["body"] \in Bodies
  /\ Rfps \cup Documents \subseteq Seq(Items) \ {<<>>}
  /\ <<>> \in Meetings /\ Meetings \subseteq Seq(Demands)
  /\ \A r \in Rewritings : /\ "op" \in DOMAIN r => r["op"] \in Operations
                           /\ "target" \in DOMAIN r => r["target"] \in Nat
                           /\ "content" \in DOMAIN r => r["content"] \in Contents
  /\ Replies \subseteq [op : Operations, content : Contents]
  /\ MaxRows \in Nat \ {0}

VARIABLES
  srsStage,  \* the step that comes next, or how the run ended
  srsMode,   \* "N" a new document, "Y" an update
  base,      \* the items it started from
  told,      \* the meeting's changes
  said,      \* history: the answers for the items, if they were used
  items,     \* integrated_requirement_json_list, integrated_artifact_json_list
  applied,   \* how many changes have been applied to them
  rows       \* final_requirement_json_list

srsVars == <<srsStage, srsMode, base, told, said, items, applied, rows>>

-----------------------------------------------------------------------------
(* Merging *)

Blank == [id |-> 0, type |-> "other", body |-> ""]

\* The fields of x are those of content, if it has them.
Written(x, content) ==
  [id |-> Or(content, "id", x.id), type |-> Or(content, "type", x.type),
   body |-> Or(content, "body", x.body)]

Over(x, content) ==
  IF x.type = "text" \/ content = Text THEN Written(Blank, content) ELSE Written(x, content)

\* _merge_search_results_with_llm: the change keeps what the answer does not write.
Reworded(c, answer) ==
  [op |-> Or(answer, "op", c.op), target |-> Or(answer, "target", c.target),
   content |-> Or(answer, "content", c.content), search |-> c.search]

\* _find_index: the first item with the id.
WithId(s, id)    == {i \in DOMAIN s : id # 0 /\ s[i].id = id}
FindIndex(s, id) == Position(WithId(s, id), 1)

\* One turn of merge_items.  A change without a target changes nothing.
Applied(s, c) ==
  LET there == WithId(s, c.target) # {}
      at    == FindIndex(s, c.target)
  IN  CASE c.op = "DELETE" /\ there -> Pick(s, DOMAIN s \ {at})
        [] c.op = "ADD" -> Append(s, Written(Blank, c.content))
        [] c.op = "UPDATE" /\ there -> [s EXCEPT ![at] = Over(@, c.content)]
        [] c.op = "UPDATE" /\ ~there /\ c.target # 0 -> Append(s, Written(Blank, c.content))
        [] OTHER -> s

Answered(answers) == {i \in DOMAIN answers : answers[i].op # "NONE"}

\* Variant: an answer is taken for the item of its place among the answers.
ReducedByPlace(answers) ==
  LET at == Pick([i \in DOMAIN base |-> i], Answered(answers))
  IN  [k \in DOMAIN at |-> [op |-> answers[at[k]].op, target |-> base[k].id,
                            content |-> answers[at[k]].content]]

\* What the answers come to: changes of the items they are about.
Reduced(answers) ==
  LET at == Pick([i \in DOMAIN base |-> i], Answered(answers))
  IN  [k \in DOMAIN at |-> [op |-> answers[at[k]].op, target |-> base[at[k]].id,
                            content |-> answers[at[k]].content]]

Additions == Pick(told, {i \in DOMAIN told : told[i].op = "ADD"})

\* _apply_changes_to_items: the changes as the meeting has them, or those the answers for the
\* items come to and what the meeting adds.
Changes == IF said = <<>> THEN told ELSE Reduced(said) \o Additions

-----------------------------------------------------------------------------
(* The final requirements *)

\* filter_function_requirements.
Functional(s) == Pick(s, {i \in DOMAIN s : s[i].type = "functional"})

\* _build_gold_input: a requirement without an id gets one of its place.
GoldId(s, i) == IF s[i].id = 0 THEN i ELSE s[i].id
GoldIds(s)   == {GoldId(s, i) : i \in DOMAIN s}

\* validate_user_input.
GoldTakes(s) ==
  /\ s # <<>>
  /\ \A i \in DOMAIN s : s[i].body # ""
  /\ Cardinality(GoldIds(s)) = Len(s)

\* What the fine-tuned agent makes of requirements, by GoldTraces: some rows that are
\* traced to all of them, numbered.
Specifications(ids) ==
  UNION {{[i \in 1..n |-> [id |-> i, name |-> f[i].name, source |-> f[i].source]] :
            f \in {g \in [1..n -> [name : RowNames, source : SUBSET ids \ {{}}]] :
                    UNION {g[i].source : i \in 1..n} = ids}} :
         n \in 1..MaxRows}

\* _dedupe_requirement_names: all but the first row of a name have their id in it.
NamesDiffer(s) ==
  [i \in DOMAIN s |->
    IF s[i].name # <<>> /\ \E k \in 1..(i - 1) : s[k].name = s[i].name
    THEN [s[i] EXCEPT !.name = Append(@, s[i].id)] ELSE s[i]]

\* Evidence that is found is a source too.
Supplemented(s, found) == [i \in DOMAIN s |-> [s[i] EXCEPT !.source = @ \cup found]]

-----------------------------------------------------------------------------
(* srs_validator.validate *)

RowsPass ==
  /\ rows # <<>>
  /\ \A i \in DOMAIN rows : rows[i].name # <<>>
  /\ \A i, k \in DOMAIN rows : i # k => rows[i].id # rows[k].id /\ rows[i].name # rows[k].name

ItemsPass ==
  /\ items # <<>>
  /\ \A i \in DOMAIN items : items[i].type # "text" /\ items[i].id # 0 /\ items[i].body # ""
  /\ \A i, k \in DOMAIN items :
       i # k => items[i].id # items[k].id /\ items[i].body # items[k].body
  /\ Functional(items) # <<>>

-----------------------------------------------------------------------------
SrsOff ==
  /\ srsStage = "off" /\ srsMode = "N" /\ base = <<>> /\ told = <<>> /\ said = <<>>
  /\ items = <<>> /\ applied = 0 /\ rows = <<>>

SrsBegun ==
  /\ srsStage = "meeting"
  /\ srsMode \in {"N", "Y"}
  /\ base \in IF srsMode = "N" THEN Rfps ELSE Documents
  /\ told = <<>> /\ said = <<>> /\ items = <<>> /\ applied = 0 /\ rows = <<>>

\* _meeting_changes.
ReadMeeting ==
  /\ srsStage = "meeting"
  /\ told' \in Meetings
  /\ srsStage' = "search"
  /\ UNCHANGED <<srsMode, base, said, items, applied, rows>>

\* _enrich_changes_with_search: with what is found for a change a model may write it anew,
\* its target and operation too, but it stays one change in its place.  No answer writes
\* nothing.
EnrichChanges ==
  /\ srsStage = "search"
  /\ \E answers \in [{i \in DOMAIN told : told[i].search} -> Rewritings \cup {<<>>}] :
       told' = [i \in DOMAIN told |->
                  IF told[i].search THEN Reworded(told[i], answers[i]) ELSE told[i]]
  /\ srsStage' = "merge"
  /\ UNCHANGED <<srsMode, base, said, items, applied, rows>>

MergeBegins ==
  /\ srsStage = "merge"
  /\ srsStage' = "apply"
  /\ items' = base
  /\ UNCHANGED <<srsMode, base, told, applied, rows>>

\* Without changes, or without answers.
TakeChanges == MergeBegins /\ UNCHANGED said

\* With answers for the items.
AskForAnswers ==
  /\ MergeBegins
  /\ told # <<>>
  /\ said' \in [DOMAIN base -> Replies \cup {[op |-> "NONE", content |-> Text]}]

ApplyChange ==
  /\ srsStage = "apply" /\ applied < Len(Changes)
  /\ items' = Applied(items, Changes[applied + 1])
  /\ applied' = applied + 1
  /\ UNCHANGED <<srsStage, srsMode, base, told, said, rows>>

EndMerge ==
  /\ srsStage = "apply" /\ applied = Len(Changes)
  /\ srsStage' = IF srsMode = "N" THEN "specify" ELSE "check"
  /\ UNCHANGED <<srsMode, base, told, said, items, applied, rows>>

\* RequirementGenerationAgent.execute.
SpecifyRows ==
  /\ srsStage = "specify"
  /\ LET s == Functional(items)
     IN  IF GoldTakes(s)
         THEN /\ \E spec \in Specifications(GoldIds(s)), found \in {{}, {0}} :
                   rows' = NamesDiffer(Supplemented(spec, found))
              /\ srsStage' = "check"
         ELSE srsStage' = "failed" /\ UNCHANGED rows
  /\ UNCHANGED <<srsMode, base, told, said, items, applied>>

CheckSrs ==
  /\ srsStage = "check"
  /\ srsStage' = IF (IF srsMode = "N" THEN RowsPass ELSE ItemsPass)
                 THEN "validated" ELSE "rejected"
  /\ UNCHANGED <<srsMode, base, told, said, items, applied, rows>>

SrsNext ==
  \/ ReadMeeting \/ EnrichChanges \/ TakeChanges \/ AskForAnswers \/ ApplyChange \/ EndMerge
  \/ SpecifyRows \/ CheckSrs

SrsSpec == (SrsOff \/ SrsBegun) /\ [][SrsNext]_srsVars

-----------------------------------------------------------------------------
(* Properties *)

\* What the items would be if every answer were applied to the item it is about: it is as it
\* was, gone or overwritten; what answers and meeting add comes after.  Nothing is written
\* to an item without an id.
Gone    == {i \in DOMAIN base : said[i].op = "DELETE" /\ base[i].id # 0}
Kept(i) ==
  IF said[i].op = "UPDATE" /\ base[i].id # 0 THEN Over(base[i], said[i].content) ELSE base[i]

New(changes) == [i \in DOMAIN changes |-> Written(Blank, changes[i].content)]
Adding       == {i \in DOMAIN said : said[i].op = "ADD"}

Expected ==
  Pick([i \in DOMAIN base |-> Kept(i)], DOMAIN base \ Gone) \o Pick(New(said), Adding)
    \o New(Additions)

\* An answer writes an id that is not its item's.
Reidentified ==
  \E i \in DOMAIN said : /\ said[i].op = "UPDATE" /\ "id" \in DOMAIN said[i].content
                         /\ said[i].content["id"] # base[i].id

IdsDiffer == \A i, k \in DOMAIN base : i # k /\ base[i].id # 0 => base[i].id # base[k].id

\* Every change hits the requirement it is about and no other, and nothing is lost on the
\* way to the document: answers merged by id are what they would be merged one by one, as
\* long as the ids differ and no answer rewrites its item's id.  What nobody changed is
\* there, and every functional requirement left is a source of a final requirement, of
\* which no two have one name.
ChangesHitTheirOwn ==
  /\ said # <<>> /\ ~Reidentified /\ IdsDiffer /\ srsStage # "apply" => items = Expected
  /\ srsStage = "validated" /\ told = <<>> => items = base
  /\ srsStage = "validated" /\ srsMode = "N" =>
       /\ \A k \in DOMAIN items : items[k].type = "functional" /\ items[k].id # 0 =>
            \E i \in DOMAIN rows : items[k].id \in rows[i].source
       /\ Cardinality({rows[i].name : i \in DOMAIN rows}) = Len(rows)

=============================================================================
