----------------------------- MODULE Supervisor -----------------------------
(***************************************************************************)
(* The generation supervisor: it runs the agents of an execution plan one  *)
(* after the other, retries a failed agent once, and, when an agent or the *)
(* validation of the document fails, plans another round with the agents   *)
(* the failure is blamed on.                                               *)
(*                                                                         *)
(* One step runs one agent, evaluates its result and does everything the   *)
(* supervisor does about it.  What an agent produces is abstracted to      *)
(* whether its entry of agent_outputs holds what the others read, and the  *)
(* verdict of the validators to the set of kinds of checks that failed.    *)
(***************************************************************************)
EXTENDS Naturals, Sequences, FiniteSets, Positions

CONSTANTS
  Documents,   \* the docs_cd values served
  MaxRound     \* settings.max_round, also used as max_repair_round

DocsCds == {"SRS", "INTERFACE", "TS", "ARCH", "ERD", "DB"}

ASSUME ConstantsAssumption ==
  /\ Documents \subseteq DocsCds
  /\ MaxRound \in Nat \ {0}

MaxRetry == 1     \* DEFAULT_MAX_STEP_RETRY

Merge        == "document_merge_agent"
Requirement  == "requirement_generation_agent"
Image        == "image_analysis_agent"
Scenario     == "test_scenario_generation_agent"
Architecture == "architecture_analysis_agent"
Data         == "data_structure_design_agent"
Mermaid      == "mermaid_generation_agent"
Validation   == "validation_agent"

Agents == {Merge, Requirement, Image, Scenario, Architecture, Data, Mermaid, Validation}

VARIABLES
  docs,      \* docs_cd of the request
  udt,       \* udt_yn: is an existing document updated?
  round,     \* current_round
  plan,      \* the agents of the current execution plan
  step,      \* the step of the plan that runs next
  retry,     \* retry_count of that step
  outputs,   \* agent_outputs: what each agent's latest run left there
  current,   \* history: is an agent's latest output made from what is there now?
  failing,   \* the checks that failed in the latest validation
  repair,    \* current_repair_instruction, by its number; 0 for None
  repairs,   \* repair_history: the status of each repair
  status     \* status and next_action of the workflow state

vars == <<docs, udt, round, plan, step, retry, outputs, current, failing,
          repair, repairs, status>>

-----------------------------------------------------------------------------
(* The execution plans *)

\* The agent that writes the document's content from the merged input.
Generator == [d \in DocsCds |-> CASE d = "SRS"       -> Requirement
                                  [] d = "INTERFACE" -> Image
                                  [] d = "TS"        -> Scenario
                                  [] d = "ARCH"      -> Architecture
                                  [] OTHER           -> Data]

Drawn == {"ARCH", "ERD"}     \* documents with a Mermaid diagram

\* EXECUTION_HARNESS.
Harness(d, u) ==
  <<Merge>> \o (IF d = "SRS" /\ u THEN <<>> ELSE <<Generator[d]>>)
            \o (IF d \in Drawn THEN <<Mermaid>> ELSE <<>>) \o <<Validation>>

\* The agent whose output is the document's content, and is validated.
Author == IF docs = "SRS" /\ udt THEN Merge ELSE Generator[docs]

-----------------------------------------------------------------------------
(* The validators *)

\* Whom a failed check blames, by kind: <<kind of check, agent>>, the agents of one
\* check in the order of FAILURE_AGENT_MAP.
OfGenerator(d) == << <<"output", Generator[d]>>, <<"content", Generator[d]>> >>
OfSource(kind, d) == << <<kind, Merge>>, <<kind, Generator[d]>> >>
OfDrawing == << <<"drawing", Mermaid>> >>

\* The checks of each validator, in its order.  Checks that blame the same agents for
\* the same reason are one kind: the traces of a requirement, and of a meeting's
\* changes in an SRS, are "trace"; whether the merge has a meeting's changes at all is
\* "meeting"; what a repair can mend is "semantic".  A check that only warns is left
\* out.
SrsChecks       == OfGenerator("SRS") \o OfSource("trace", "SRS")
InterfaceChecks == OfGenerator("INTERFACE") \o OfSource("trace", "INTERFACE")
                     \o OfSource("meeting", "INTERFACE")
TsChecks        == OfGenerator("TS") \o OfSource("trace", "TS") \o OfSource("meeting", "TS")
ArchChecks      == OfGenerator("ARCH") \o OfSource("meeting", "ARCH") \o OfDrawing
ErdChecks       == OfGenerator("ERD")
                     \o << <<"semantic", Data>>, <<"naming", Data>>, <<"naming", Mermaid>> >>
                     \o OfDrawing
DbChecks        == OfGenerator("DB") \o OfSource("meeting", "DB")

\* VALIDATORS.
Blame == [d \in DocsCds |-> CASE d = "SRS"       -> SrsChecks
                              [] d = "INTERFACE" -> InterfaceChecks
                              [] d = "TS"        -> TsChecks
                              [] d = "ARCH"      -> ArchChecks
                              [] d = "ERD"       -> ErdChecks
                              [] d = "DB"        -> DbChecks]

Checks == {"output", "content", "trace", "meeting", "semantic", "naming", "drawing"}

\* The checks that depend on what was written, as opposed to whether it is there.
OfContent == {"content", "trace", "semantic", "naming"}

ChecksOf(d) == {Blame[d][i][1] : i \in DOMAIN Blame[d]}

Readable(a) == outputs[a] \in {"made", "kept"}

\* Variant: no check looks for the diagram.
AbsentUndrawn ==
  {c \in ChecksOf(docs) : \/ c = "output" /\ ~Readable(Author)
                          \/ c = "meeting" /\ udt /\ Readable(Author) /\ outputs[Merge] # "made"}

\* The checks that fail because something is not there.  Without the content
\* nothing else is looked at but the diagram.
Absent ==
  {c \in ChecksOf(docs) : \/ c = "output" /\ ~Readable(Author)
                          \/ c = "meeting" /\ udt /\ Readable(Author) /\ outputs[Merge] # "made"
                          \/ c = "drawing" /\ outputs[Mermaid] # "made"}

\* The verdicts possible now; the same document gets the same verdict again.
Verdicts ==
  IF current[Validation] THEN {failing}
  ELSE {Absent \cup c : c \in SUBSET (IF Readable(Author) THEN ChecksOf(docs) \cap OfContent
                                      ELSE {})}

-----------------------------------------------------------------------------
(* build_replan *)

\* list(dict.fromkeys(s)).
Distinct(s) ==
  Pick(s, {i \in DOMAIN s : \A j \in DOMAIN s : s[j] = s[i] => i <= j})

\* _extract_targets: whom the failed checks are blamed on.
Blamed(F) ==
  LET b == Blame[docs]
  IN  Distinct(Pick([i \in DOMAIN b |-> b[i][2]], {i \in DOMAIN b : b[i][1] \in F}))

\* An updated SRS is written by the merge.
Rewritten(s) ==
  IF docs = "SRS" /\ udt
  THEN [i \in DOMAIN s |-> IF s[i] = Requirement THEN Merge ELSE s[i]]
  ELSE s

\* Variant: an ERD that was rewritten is not drawn again.
NotRedrawn(s) == s

\* An ERD that is rewritten is drawn again.
Redrawn(s) ==
  IF docs = "ERD" /\ (\E i \in DOMAIN s : s[i] = Data) /\ (\A i \in DOMAIN s : s[i] # Mermaid)
  THEN LET i == CHOOSE k \in DOMAIN s : s[k] = Data
       IN  SubSeq(s, 1, i) \o <<Mermaid>> \o SubSeq(s, i + 1, Len(s))
  ELSE s

\* Variant: the blamed agents alone are planned again.
ReplanUnvalidated(targets) ==
  IF targets = <<>> THEN <<Validation>> ELSE Distinct(Redrawn(Rewritten(targets)))

Replan(targets) ==
  LET s == Distinct(Redrawn(Rewritten(targets)) \o <<Validation>>)
  IN  IF s[Len(s)] = Validation THEN s ELSE Append(s, Validation)

-----------------------------------------------------------------------------
(* Repairs of an ERD *)

\* build_repair_instruction makes something of these checks only.
Repairable(F) == "semantic" \in F

\* Variant: the status of the entry is not written.
NotFinished(result) == repairs

\* _finish_repair.
Finished(result) ==
  IF repair = 0 THEN repairs ELSE [repairs EXCEPT ![repair] = result]

\* _prepare_repair, after h has become the history.
Prepared(h, F) == IF Repairable(F) /\ Len(h) < MaxRound THEN Len(h) + 1 ELSE 0

-----------------------------------------------------------------------------
(* The end of a round *)

Init ==
  /\ docs \in Documents
  /\ udt \in BOOLEAN
  /\ round = 1
  /\ plan = Harness(docs, udt)
  /\ step = 1
  /\ retry = 0
  /\ outputs = [a \in Agents |-> "none"]
  /\ current = [a \in Agents |-> FALSE]
  /\ failing = {}
  /\ repair = 0
  /\ repairs = <<>>
  /\ status = "RUNNING"

\* The step is done: the next one, or, after the last, reduce_outputs.
Advance ==
  IF step < Len(plan)
  THEN /\ step' = step + 1
       /\ retry' = 0
       /\ UNCHANGED <<repair, repairs, status>>
  ELSE /\ status' = "EXPORT"
       /\ repairs' = Finished("PASS")
       /\ repair' = 0
       /\ UNCHANGED <<step, retry>>

\* Variant: one round more than the settings allow.
CanReplanOnceMore == round <= MaxRound

CanReplan == round < MaxRound

\* Variant: the new plan is numbered like the one that failed.
SameRound == round

NextRound == round + 1

\* The round has failed: another one if the settings allow it.
GiveUp(targets, F) ==
  IF CanReplan
  THEN /\ round' = NextRound
       /\ plan' = Replan(targets)
       /\ step' = 1
       /\ retry' = 0
       /\ repair' = Prepared(Finished("FAILED"), F)
       /\ repairs' = IF repair' = 0 THEN Finished("FAILED")
                     ELSE Append(Finished("FAILED"), "PENDING")
       /\ UNCHANGED status
  ELSE /\ status' = "FAILED"
       /\ repairs' = Finished("FAILED")
       /\ repair' = 0
       /\ UNCHANGED <<round, plan, step, retry>>

\* action END: the run ends at once, whatever is open stays open.
End ==
  /\ status' = "FAILED"
  /\ UNCHANGED <<round, plan, step, retry, repair, repairs>>

-----------------------------------------------------------------------------
(* Running an agent *)

Now(a) == status = "RUNNING" /\ plan[step] = a

\* Does agent a read the output of agent b?
Reads(a, b) ==
  \/ a = Validation /\ b # Validation
  \/ a = Generator[docs] /\ b = Merge
  \/ a = Mermaid /\ b = Generator[docs]

\* The output of a is replaced, by result.
Stores(a, result) ==
  /\ outputs' = [outputs EXCEPT ![a] = result]
  /\ current' = [b \in Agents |-> IF b = a THEN result = "made"
                                  ELSE current[b] /\ ~Reads(b, a)]

\* A repair starts from the ERD of the previous round, a diagram from the structure
\* it shows, everything else from the merged input.
RepairSource    == docs = "ERD" /\ Readable(Data)
DrawingSource   == docs \in Drawn /\ Readable(Generator[docs])
MergedSource(a) == /\ a = Generator[docs]
                   /\ outputs[Merge] = "made"
                   /\ a = Requirement => ~udt

\* Is what agent a reads of the outputs of the others there?
InputsThere(a) == CASE a = Merge                -> TRUE
                    [] a = Data /\ repair # 0   -> RepairSource
                    [] a = Mermaid              -> DrawingSource
                    [] OTHER                    -> MergedSource(a)

Workers == Agents \ {Validation}

AgentSucceeds(a) ==
  /\ Now(a)
  /\ InputsThere(a)
  /\ Stores(a, "made")
  /\ Advance
  /\ UNCHANGED <<docs, udt, round, plan, failing>>

\* A failure type with MISSING, INVALID, NOT_FOUND or REQUIRED_INPUT in it.
AgentFailsForGood(a) ==
  /\ Now(a)
  /\ Stores(a, "lost")
  /\ End
  /\ UNCHANGED <<docs, udt, failing>>

\* Any other failure: once more, and then another round.
RetryOr(targets) ==
  IF retry < MaxRetry
  THEN retry' = retry + 1 /\ UNCHANGED <<round, plan, step, repair, repairs, status>>
  ELSE GiveUp(targets, {})

\* _infer_agents_from_failure_type of the failures agent a may report: its own
\* X_EXECUTION_FAILED, the X_PARSE_FAILED of the merge, which name what could not be
\* parsed, and NEED_SUPERVISOR_DECISION.  Any other missing input is final.
Inferred(a) ==
  IF InputsThere(a)
  THEN {<<a>>} \cup CASE a = Merge /\ udt -> {<<>>}
                      [] a = Merge /\ ~udt ->
                           {<<Requirement>>} \cup (IF docs = "DB" THEN {<<Data>>} ELSE {})
                                             \cup (IF docs = "TS" THEN {<<Image>>} ELSE {})
                      [] OTHER -> {}
  ELSE IF a = Image /\ docs = "INTERFACE" /\ udt THEN {<<>>} ELSE {}

\* The agent raises or reports the failure; its output holds nothing to read.
AgentFails(a) ==
  /\ Now(a)
  /\ Stores(a, "lost")
  /\ \E targets \in Inferred(a) : RetryOr(targets)
  /\ UNCHANGED <<docs, udt, failing>>

\* _repair_failed: the failure carries the ERD that was to be repaired.  The type
\* ERD_REPAIR_VALIDATION_FAILED is inferred to concern nobody but the validation.
RepairFails ==
  /\ Now(Data)
  /\ repair # 0
  /\ InputsThere(Data)
  /\ outputs' = [outputs EXCEPT ![Data] = "kept"]
  /\ \E targets \in {<<Data>>, <<>>} : RetryOr(targets)
  /\ UNCHANGED <<docs, udt, current, failing>>

-----------------------------------------------------------------------------
(* Running the validation *)

Judged(F) ==
  /\ Now(Validation)
  /\ F \in Verdicts
  /\ Stores(Validation, "made")
  /\ failing' = F

ValidationPasses ==
  /\ Judged({})
  /\ Advance
  /\ UNCHANGED <<docs, udt, round, plan>>

ValidationFails ==
  /\ \E F \in SUBSET Checks : /\ F # {}
                              /\ Judged(F)
                              /\ GiveUp(Blamed(F), F)
  /\ UNCHANGED <<docs, udt>>

\* The validator raises: never retried, and blamed on nobody.
ValidationRaises ==
  /\ Now(Validation)
  /\ outputs' = [outputs EXCEPT ![Validation] = "lost"]
  /\ GiveUp(<<>>, {})
  /\ UNCHANGED <<docs, udt, current, failing>>

-----------------------------------------------------------------------------

Next ==
  \/ \E a \in Workers : AgentSucceeds(a) \/ AgentFailsForGood(a) \/ AgentFails(a)
  \/ RepairFails
  \/ ValidationPasses \/ ValidationFails \/ ValidationRaises

Spec == Init /\ [][Next]_vars

\* One thread; every agent returns or raises, its calls being bounded by timeouts.
FairSpec == Spec /\ WF_vars(Next)

-----------------------------------------------------------------------------
(* Properties *)

\* Type invariant: every variable has its type, the step is one of the plan, and
\* neither the rounds nor the repairs exceed max_round.
TypeOK ==
  /\ docs \in Documents
  /\ udt \in BOOLEAN
  /\ round \in 1 .. MaxRound
  /\ plan \in Seq(Agents) /\ plan # <<>>
  /\ step \in 1 .. Len(plan)
  /\ retry \in 0 .. MaxRetry
  /\ outputs \in [Agents -> {"none", "lost", "kept", "made"}]
  /\ current \in [Agents -> BOOLEAN]
  /\ failing \subseteq Checks
  /\ repairs \in Seq({"PENDING", "PASS", "FAILED"}) /\ Len(repairs) <= MaxRound
  /\ repair \in 0 .. Len(repairs)
  /\ status \in {"RUNNING", "EXPORT", "FAILED"}

\* What is exported is exactly what the last validation approved: it found nothing,
\* and no output has changed since.
ExportIsValidated ==
  status = "EXPORT" => /\ outputs[Validation] = "made"
                       /\ current[Validation]
                       /\ failing = {}

\* An exported document has its content and, if it is to have one, its diagram,
\* both from runs that succeeded.
ExportIsComplete ==
  status = "EXPORT" => /\ outputs[Author] = "made"
                       /\ docs \in Drawn => outputs[Mermaid] = "made"

\* The diagrams of an exported ERD were drawn from the ERD exported with them,
\* however often either was made again.  (build_replan sees to it for the ERD only.)
ErdIsDrawn == status = "EXPORT" /\ docs = "ERD" => current[Mermaid]

\* At most one repair is open and it is the one in force; an export leaves none
\* open; and a repair passes only when the document does.
RepairsSettle ==
  /\ \A i \in DOMAIN repairs : repairs[i] = "PENDING" <=> i = repair
  /\ status = "EXPORT" => repair = 0
  /\ \A i \in DOMAIN repairs : repairs[i] = "PASS" => status = "EXPORT" /\ i = Len(repairs)

\* Whatever fails, the supervisor comes to an end.
Terminates == <>(status # "RUNNING")

\* The merge is always the first step of the plans it is part of.
MergeIsFirst == \A i \in DOMAIN plan : plan[i] = Merge => i = 1

\* A repair that is tried again still finds the ERD it is to repair.
RepairKeepsItsSource == Now(Data) /\ repair # 0 => Readable(Data)

=============================================================================
