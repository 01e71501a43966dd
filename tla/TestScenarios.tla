---------------------------- MODULE TestScenarios ----------------------------
(***************************************************************************)
(* How the integration test scenarios are made of requirements, or         *)
(* updated: agents/test_scenario (scenario_generator.py,                   *)
(* testcase_generator.py, step_generator.py) and ts_validator.py.          *)
(*                                                                         *)
(* Scenarios trace requirements 1..TsReqs, cases name their scenario, and  *)
(* steps their case, by ids that models may write.  A scenario's id is its *)
(* place; a case's is a prefix (0: none) and what it had or was given.  No *)
(* number of an id is 0, which marks a prefix that an id had before.       *)
(***************************************************************************)
EXTENDS Integers, Sequences, FiniteSets, Positions

CONSTANTS
  TsReqs,       \* the functional requirements
  CaseTypes,    \* the types of cases each scenario needs, in order
  Traces,       \* the requirements a model may trace a scenario to; 0 is none of them
  CaseAnswers,  \* the cases a model may write for a scenario
  StepAnswers,  \* the steps a model may write for a case
  OldDocuments,  \* the documents that may be updated
  Rewritten,     \* what a model may make of one
  MaxHeard       \* bound: how often a model's answer decides about steps

\* CASE_TYPES, and every other word for a type.
TypeNames == {"NORMAL", "EXCEPTION", "AUTHORIZATION", "INPUT_VALIDATION", "STATE_CHANGE",
              "DATA_INTEGRITY", "OTHER"}

CaseIds == [prefix : Nat, raw : Seq(Nat)]
CaseRecords == [id : CaseIds, scenario : Nat, type : TypeNames, procedures : Nat]
StepRecords == [case : CaseIds, no : Nat]
CaseAnswerRecords == [scenario : Nat, type : TypeNames, number : Nat, procedures : Nat]
StepAnswerRecords == [case : Nat, no : Nat]

DifferentIds(s)   == \A i, k \in DOMAIN s : i # k => s[i].id # s[k].id
DifferentSteps(s) == \A i, k \in DOMAIN s : i # k => s[i] # s[k]

\* Two of the numbers a list was given may be made one: two that a model wrote, or one that
\* was left to the agent (0) or kept (Echo) and one that was not.
Echo == -1
MayClash(given) ==
  \E i, k \in DOMAIN given :
    i # k /\ \/ given[i] = given[k] /\ given[i] > 0
             \/ given[i] > given[k] /\ given[k] <= 0

Plain(id) == id.prefix = 0 => \A j \in DOMAIN id.raw : id.raw[j] # 0

\* A document to be updated passed ts_validator.py: its ids and numbers differ.
ASSUME TsAssumption ==
  /\ TsReqs \in Nat \ {0} /\ MaxHeard \in Nat
  /\ CaseTypes \in Seq(TypeNames)
  /\ {"NORMAL", "EXCEPTION"} \subseteq {CaseTypes[i] : i \in DOMAIN CaseTypes}
  /\ Traces \subseteq SUBSET Nat
  /\ CaseAnswers \subseteq Seq(CaseAnswerRecords)
  /\ StepAnswers \subseteq Seq(StepAnswerRecords)
  /\ <<>> \in CaseAnswers /\ <<>> \in StepAnswers
  /\ \A d \in OldDocuments \cup Rewritten :
       /\ d.scenarios \in Seq(SUBSET Nat)
       /\ d.cases \in Seq(CaseRecords) /\ d.steps \in Seq(StepRecords)
       /\ \A i \in DOMAIN d.cases : Plain(d.cases[i].id)
  /\ \A d \in OldDocuments : DifferentIds(d.cases) /\ DifferentSteps(d.steps)

VARIABLES
  tsStage,    \* the step that comes next, or how the run ended
  tsMode,     \* "N" a new document, "Y" an update
  scenarios,  \* scenario_json_list: the requirements each traces
  answered,   \* cases in generate_test_cases, before the types are covered
  cases,      \* test_case_json_list
  steps,      \* step_json_list
  turn,       \* the turns the loop over scenarios or cases has had
  heard,      \* how often a model's answer decided about steps
  astray      \* history: what models may have made clash or be lost

tsVars == <<tsStage, tsMode, scenarios, answered, cases, steps, turn, heard, astray>>

\* "id": ids of cases; "case": the cases of steps; "no": the numbers of steps.
AstrayKinds == {"id", "case", "no"}
Marks(condition, kind) == IF condition THEN {kind} ELSE {}

\* One turn of a loop over a list; the last leads to the next stage.
LastTurn(list) == turn + 1 = Len(list)
Turn(list, next) ==
  /\ turn' = IF LastTurn(list) THEN 0 ELSE turn + 1
  /\ tsStage' = IF LastTurn(list) THEN next ELSE tsStage

-----------------------------------------------------------------------------
(* Scenarios *)

\* ensure_requirement_coverage: a scenario of its own for a requirement none traces.
Untraced(s) == {r \in 1..TsReqs : \A i \in DOMAIN s : r \notin s[i]}
Covered(s)  == s \o [k \in 1..Cardinality(Untraced(s)) |-> {Position(Untraced(s), k)}]

-----------------------------------------------------------------------------
(* Cases: an answer's has the scenario, type and number it was written     *)
(* with, 0 for none, and how many procedures it has.                       *)

Case(id, scenario, type, procedures) ==
  [id |-> id, scenario |-> scenario, type |-> type, procedures |-> procedures]

\* _fallback_cases_for_scenario.
Fallback(s) ==
  [c \in DOMAIN CaseTypes |->
    Case([prefix |-> 0, raw |-> <<s, c>>], s, CaseTypes[c], 0)]

\* Variant: every scenario's prefix is the first one's.
Unprefixed(s, raw) == [prefix |-> 1, raw |-> raw]

Prefixed(s, raw) == [prefix |-> s, raw |-> raw]

\* _normalize_case: what a case does not name it gets of its scenario and its index.
Filled(c, id, s) == Case(id, IF c.scenario # 0 THEN c.scenario ELSE s, c.type, c.procedures)
NormalCase(c, index, s) ==
  Filled(c, Prefixed(s, <<IF c.number # 0 THEN c.number ELSE index>>), s)

\* The cases of one answer; without one the fallback's, which are prefixed as well.  The
\* index goes up by two, for the document grows while its length is read.
CasesOf(s, answer, before) ==
  IF answer = <<>> THEN [c \in DOMAIN CaseTypes |->
                          [Fallback(s)[c] EXCEPT !.id = Prefixed(s, @.raw)]]
  ELSE [k \in DOMAIN answer |-> NormalCase(answer[k], before + 2 * k - 1, s)]

\* _ensure_case_type_coverage, for one scenario: the cases that name it, in their order, and
\* those of the types it lacks.  A case that names none is dropped.
Naming(s)  == {i \in DOMAIN answered : answered[i].scenario = s}
Lacking(s) == {c \in DOMAIN CaseTypes : \A i \in Naming(s) : answered[i].type # CaseTypes[c]}
CasesFor(s) == Pick(answered, Naming(s)) \o Pick(Fallback(s), Lacking(s))

\* refine_test_cases: the answer for a case replaces it, the id too unless it repeats it;
\* without an answer the case is its own.  A scenario it does not name is the first.
Drawings == UNION {{answer[k] : k \in DOMAIN answer} : answer \in CaseAnswers}
CaseReplies == Drawings \cup {[c EXCEPT !.number = Echo] : c \in Drawings}
Own(case) == [scenario |-> case.scenario, type |-> case.type, number |-> Echo,
              procedures |-> case.procedures]

Whole(id) == IF id.prefix = 0 THEN id.raw ELSE <<0, id.prefix>> \o id.raw

RefinedCase(case, place, reply) ==
  IF reply.number = Echo THEN Filled(reply, Prefixed(1, Whole(case.id)), 1)
  ELSE NormalCase(reply, place, 1)

-----------------------------------------------------------------------------
(* Steps: one has the case it names and a number.                          *)

\* _ensure_steps_for_procedure: a case with procedures has a step for each, the one of its
\* number if there is one.
OrPlace(step, place) == IF step.no = 0 THEN place ELSE step.no

LastNumbered(answer, n) ==
  LET at == {k \in DOMAIN answer : OrPlace(answer[k], k) = n}
  IN  {k \in at : \A j \in at : j <= k}

ForProcedures(answer, case) ==
  IF case.procedures = 0 THEN answer
  ELSE [n \in 1..case.procedures |->
         [case |-> IF LastNumbered(answer, n) = {} THEN 0
                   ELSE answer[Position(LastNumbered(answer, n), 1)].case,
          no   |-> n]]

\* _normalize_step in _generate_step_skeletons: a step without a case is this one's, one
\* without a number has its place in the document.
NormalStep(step, place, case) ==
  [case |-> IF step.case = 0 THEN case.id ELSE cases[1].id,
   no   |-> OrPlace(step, place)]

StepsOf(answer, case, before) ==
  LET given == ForProcedures(IF answer = <<>> THEN <<[case |-> 0, no |-> 0]>> ELSE answer, case)
  IN  [k \in DOMAIN given |-> NormalStep(given[k], before + k, case)]

\* _fallback_steps.
StepForEach == [k \in DOMAIN cases |-> [case |-> cases[k].id, no |-> k]]

-----------------------------------------------------------------------------
(* ts_validator.validate *)

TypesOf(cs)     == {cs[i].type : i \in DOMAIN cs}
Traced(s)       == UNION {s[i] : i \in DOMAIN s}

TsPasses ==
  /\ scenarios # <<>> /\ cases # <<>> /\ steps # <<>>
  /\ DifferentIds(cases) /\ DifferentSteps(steps)
  /\ {"NORMAL", "EXCEPTION"} \subseteq TypesOf(cases)
  /\ tsMode = "N" => 1..TsReqs \subseteq Traced(scenarios)

-----------------------------------------------------------------------------
TsOff ==
  /\ tsStage = "off" /\ tsMode = "N"
  /\ scenarios = <<>> /\ answered = <<>> /\ cases = <<>> /\ steps = <<>>
  /\ turn = 0 /\ heard = 0 /\ astray = {}

TsBegun ==
  /\ tsMode \in {"N", "Y"}
  /\ tsStage = IF tsMode = "N" THEN "scenarios" ELSE "update"
  /\ scenarios = <<>> /\ answered = <<>> /\ cases = <<>> /\ steps = <<>>
  /\ turn = 0 /\ heard = 0 /\ astray = {}

\* generate_scenarios: what the model traces, or the requirement itself.
GenerateScenarios ==
  /\ tsStage = "scenarios"
  /\ \E traces \in [1..TsReqs -> Traces \cup {{}}] :
       scenarios' = Covered([r \in 1..TsReqs |-> IF traces[r] = {} THEN {r} ELSE traces[r]])
  /\ tsStage' = "cases"
  /\ UNCHANGED <<tsMode, answered, cases, steps, turn, heard, astray>>

\* generate_test_cases: the call fails or is answered.
AskForCases ==
  /\ tsStage = "cases" /\ cases = <<>>
  /\ tsStage' \in {"fallback", "answers"}
  /\ UNCHANGED <<tsMode, scenarios, answered, cases, steps, turn, heard, astray>>

\* One turn of _fallback_cases_for_scenarios.
FallbackCases ==
  /\ tsStage = "fallback"
  /\ cases' = cases \o Fallback(turn + 1)
  /\ Turn(scenarios, "steps")
  /\ UNCHANGED <<tsMode, scenarios, answered, steps, heard, astray>>

\* One turn of the loop over the answers.
NormalizeCases ==
  /\ tsStage = "answers"
  /\ \E answer \in CaseAnswers :
       /\ answered' = answered \o CasesOf(turn + 1, answer, Len(answered))
       /\ astray' = astray \cup
            Marks(MayClash([k \in DOMAIN answer |-> answer[k].number]), "id")
  /\ Turn(scenarios, "coverage")
  /\ UNCHANGED <<tsMode, scenarios, cases, steps, heard>>

\* One turn of _ensure_case_type_coverage.
CoverTypes ==
  /\ tsStage = "coverage"
  /\ cases' = cases \o CasesFor(turn + 1)
  /\ answered' = IF LastTurn(scenarios) THEN <<>> ELSE answered
  /\ Turn(scenarios, "steps")
  /\ UNCHANGED <<tsMode, scenarios, steps, heard, astray>>

\* _generate_step_skeletons, without answers.
FallbackSteps ==
  /\ tsStage = "steps" /\ tsMode = "N" /\ turn = 0
  /\ steps' = StepForEach
  /\ tsStage' = "details"
  /\ UNCHANGED <<tsMode, scenarios, answered, cases, turn, heard, astray>>

\* What an answer's steps name: another case, or numbers where procedures give none.
NamesCase(answer) == \E k \in DOMAIN answer : answer[k].case # 0
NumbersClash(answer, case) ==
  case.procedures = 0 /\ MayClash([k \in DOMAIN answer |-> answer[k].no])

\* One turn of its loop over the answers.
GenerateSteps ==
  /\ tsStage = "steps" /\ tsMode = "N"
  /\ \E answer \in StepAnswers :
       /\ answer # <<>> => heard < MaxHeard
       /\ steps' = steps \o StepsOf(answer, cases[turn + 1], Len(steps))
       /\ heard' = IF answer = <<>> THEN heard ELSE heard + 1
       /\ astray' = astray \cup Marks(NamesCase(answer), "case")
                            \cup Marks(NumbersClash(answer, cases[turn + 1]), "no")
  /\ Turn(cases, "details")
  /\ UNCHANGED <<tsMode, scenarios, answered, cases>>

\* An answer for a step may name its case and number anew, or none: the number is its place
\* then, and the case, where only an update is refined, one of the agent's own.
AgentsId(i) == [prefix |-> 0, raw |-> <<i>>]
CasesNamed(i) ==
  {steps[i].case, cases[1].id} \cup (IF tsMode = "Y" THEN {AgentsId(i)} ELSE {})

RewriteStep ==
  /\ heard < MaxHeard
  /\ \E i \in DOMAIN steps : \E case \in CasesNamed(i), no \in {steps[i].no, i} \cup 1..2 :
       /\ steps' = [steps EXCEPT ![i] = [case |-> case, no |-> no]]
       /\ astray' = astray \cup Marks(case # steps[i].case, "case")
                            \cup Marks(no # steps[i].no, "no")
  /\ heard' = heard + 1

\* _generate_step_details: every step may be rewritten.
DetailSteps ==
  /\ tsStage = "details"
  /\ \/ RewriteStep /\ UNCHANGED tsStage
     \/ tsStage' = "check" /\ UNCHANGED <<steps, heard, astray>>
  /\ UNCHANGED <<tsMode, scenarios, answered, cases, turn>>

\* _update, apply_scenario_rules: a model may rewrite the whole document first, and lose its
\* scenarios (then each part is one), its cases or its steps.
ApplyRules ==
  /\ tsStage = "update"
  /\ \E doc \in OldDocuments \cup Rewritten :
       /\ scenarios' = IF doc.scenarios = <<>> THEN <<{1}>> ELSE doc.scenarios
       /\ cases' = doc.cases /\ steps' = doc.steps
       /\ astray' = Marks(~DifferentIds(doc.cases), "id")
                       \cup Marks(~DifferentSteps(doc.steps), "no")
  /\ tsStage' = "refine"
  /\ UNCHANGED <<tsMode, answered, turn, heard>>

\* refine_scenarios: numbered by their place; a model may trace one to other requirements.
RefineScenarios ==
  /\ tsStage = "refine"
  /\ \/ UNCHANGED scenarios
     \/ \E i \in DOMAIN scenarios, trace \in Traces : scenarios' = [scenarios EXCEPT ![i] = trace]
  /\ tsStage' = "cases"
  /\ UNCHANGED <<tsMode, answered, cases, steps, turn, heard, astray>>

\* refine_test_cases: whatever scenario it is of, a case is prefixed as the first one's.
RefineCases ==
  /\ tsStage = "cases" /\ cases # <<>>
  /\ \E replies \in [DOMAIN cases -> CaseReplies \cup {Own(cases[i]) : i \in DOMAIN cases}] :
       /\ cases' = [i \in DOMAIN cases |-> RefinedCase(cases[i], i, replies[i])]
       /\ astray' = astray \cup
            Marks(MayClash([i \in DOMAIN cases |-> replies[i].number]), "id")
  /\ tsStage' = "steps"
  /\ UNCHANGED <<tsMode, scenarios, answered, steps, turn, heard>>

\* refine_steps: a step keeps the case and number it names unless it is answered for; a
\* document without steps gets one for each case.
RefineSteps ==
  /\ tsStage = "steps" /\ tsMode = "Y"
  /\ \/ RewriteStep /\ UNCHANGED tsStage
     \/ /\ steps' = IF steps = <<>> THEN StepForEach ELSE steps
        /\ tsStage' = "types"
        /\ UNCHANGED <<heard, astray>>
  /\ UNCHANGED <<tsMode, scenarios, answered, cases, turn>>

\* _infer_case_type_from_text: the type each case has is forgotten, and one guessed from
\* its name and description.
GuessTypes ==
  /\ tsStage = "types"
  /\ \E types \in [DOMAIN cases -> {"NORMAL", "EXCEPTION", "OTHER"}] :
       cases' = [i \in DOMAIN cases |-> [cases[i] EXCEPT !.type = types[i]]]
  /\ tsStage' = "check"
  /\ UNCHANGED <<tsMode, scenarios, answered, steps, turn, heard, astray>>

CheckTs ==
  /\ tsStage = "check"
  /\ tsStage' = IF TsPasses THEN "validated" ELSE "rejected"
  /\ UNCHANGED <<tsMode, scenarios, answered, cases, steps, turn, heard, astray>>

TsNext ==
  \/ GenerateScenarios \/ AskForCases \/ FallbackCases \/ NormalizeCases \/ CoverTypes
  \/ FallbackSteps \/ GenerateSteps \/ DetailSteps
  \/ ApplyRules \/ RefineScenarios \/ RefineCases \/ RefineSteps \/ GuessTypes
  \/ CheckTs

TsSpec == TsBegun /\ [][TsNext]_tsVars

-----------------------------------------------------------------------------
(* Properties *)

\* Whatever the models write or fail to write: in a new document every requirement is
\* traced, every scenario has a case of every type, every case belongs to a scenario and,
\* unless a model named another case for a step, has a step of its own.  The ids the agent
\* gives to cases never clash, with each other or with those of other answers; they do only
\* where a model wrote one twice, or wrote or kept some of a list and left others to the
\* agent, or merged an updated document into clashing ids.  The same holds for the numbers of
\* steps, and nothing else refuses a document but an update's guesses which leave no normal
\* case or no exception.
EverythingIsTested ==
  /\ tsMode = "N" /\ tsStage \in {"check", "validated", "rejected"} =>
       /\ 1..TsReqs \subseteq Traced(scenarios)
       /\ \A i \in DOMAIN cases : cases[i].scenario \in DOMAIN scenarios
       /\ \A s \in DOMAIN scenarios : \A t \in DOMAIN CaseTypes :
            \E i \in DOMAIN cases : cases[i].scenario = s /\ cases[i].type = CaseTypes[t]
       /\ "case" \notin astray =>
            \A i \in DOMAIN cases : \E k \in DOMAIN steps : steps[k].case = cases[i].id
  /\ "id" \notin astray => DifferentIds(cases)
  /\ tsStage = "rejected" =>
       \/ astray # {}
       \/ tsMode = "Y" /\ ~({"NORMAL", "EXCEPTION"} \subseteq TypesOf(cases))

=============================================================================
