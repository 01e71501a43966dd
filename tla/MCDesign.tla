------------------------------ MODULE MCDesign ------------------------------
(* Small instances of the document pipelines.                              *)
EXTENDS ErdDesign, ErdGrouping, DbDesign, GoldRequirements, SrsDocument, TestScenarios, TLC

\* Three tables: users, orders and payments, which refer to each other by key columns, and
\* "docs", which means the same as "document".
MCStandardName(n) == IF n = "raw_order" THEN "order" ELSE n
MCBase(e) == CASE e = "User" -> "user" [] e = "Order" -> "order" [] e = "Pay" -> "pay"
               [] OTHER -> "order"
\* The words of a key and a table: "buyer" means a user, "log" may.
MCKin(c, n) == CASE c = n -> 55
                 [] c = "buyer" /\ n = "user" -> 55
                 [] c = "buyer" /\ n = "order" -> 44
                 [] c = "log" /\ n = "user" -> 44
                 [] OTHER -> 0
MCGrounded(n) == CASE n = "user" -> <<"User", "Buyer">>
                   [] n = "order" -> <<"Order">>
                   [] OTHER -> <<"Pay", "Order">>
MCMisfit(e, n) == <<e, n>> \in {<<"Order", "user">>, <<"User", "order">>}
MCTitle(n) == IF n = "order" THEN "Order" ELSE "Pay"
MCAlias(n) == IF n = "docs" THEN "document" ELSE n

Key(n)  == [name |-> <<n, "sn">>, pk |-> TRUE, fk |-> FALSE]
Ref(n)  == [name |-> <<n, "sn">>, pk |-> FALSE, fk |-> TRUE]
Part(n) == [name |-> <<n, "sn">>, pk |-> FALSE, fk |-> FALSE]
Table(n, e, cols) == [name |-> n, entity |-> e, cols |-> cols]

MCDrafts ==
  { <<Table("user", "User", <<Key("user")>>),
      Table("raw_order", "table", <<Key("order"), Ref("buyer")>>)>>,
    <<Table("user", "we must manage users", <<Key("user"), Part("order")>>),
      Table("order", "Order", <<Key("order"), Ref("log")>>)>>,
    <<Table("user", "User", <<Part("log"), Key("user"), Ref("cart")>>),
      Table("pay", "Order", <<[name |-> <<"buyer", "nm">>, pk |-> FALSE, fk |-> FALSE]>>)>> }

Lnk(p, pc, c, cc) == [parent |-> p, pcol |-> pc, child |-> c, ccol |-> cc, kind |-> "N:1",
                      label |-> <<>>]
MCLinks ==
  { <<Lnk("User", <<>>, "order", <<>>), Lnk("user", <<"log", "sn">>, "pay", <<"buyer", "nm">>)>>,
    <<Lnk("order", <<"order", "sn">>, "user", <<"user", "sn">>),
      Lnk("order", <<"order", "sn">>, "user", <<"order", "sn">>),
      Lnk("user", <<"user", "sn">>, "cart", <<"user", "sn">>)>> }

\* Words that mean a table and words that do not; a relation through a third table; words
\* of a definition, once in a change that has its id.
MCCalled(w) == CASE w = "member" -> "user" [] w = "file" -> "document" [] OTHER -> w
Change(id, words, entities, cols, rels) ==
  [id |-> id, words |-> words, entities |-> entities, cols |-> cols, rels |-> rels]
MCDefinitions ==
  << Requirement("D1", <<"pay">>, <<>>, <<>>, {"order"}),
     Requirement("D2", <<"log">>, <<>>, <<<<"user", "log">>>>, {}) >>
MCMinutes ==
  { <<>>,
    << Change("C1", {}, <<[name |-> "file", bare |-> FALSE, cols |-> <<>>]>>,
              <<[table |-> "member", name |-> <<"pay", "sn">>, fk |-> FALSE]>>, <<>>),
       Change("D2", {"D2"}, <<>>, <<>>, <<[from |-> "member", to |-> "docs", via |-> ""]>>) >>,
    << Change("C1", {"D1"}, <<[name |-> "order", bare |-> TRUE, cols |-> <<>>]>>, <<>>,
              <<[from |-> "member", to |-> "order", via |-> "pay"]>>) >>,
    << Change("C1", {}, <<>>, <<>>, <<[from |-> "raw_order", to |-> "pay", via |-> ""]>>) >> }

-----------------------------------------------------------------------------
\* Two tables of which the models name none, one or both; a table whose entity name is
\* another's, and one without any; two with nearly the same name.
MCForeign(e, n) == <<e, n>> \in {<<"Order", "user">>, <<"User", "order">>}
MCSpoken(n) == IF n = "user" THEN "User" ELSE "Order"
MCSimilar(n, m) == {n, m} = {"pay", "cart"}

MCErds ==
  { <<Table("x1", "User", <<Key("user"), Part("log")>>),
      Table("x2", "Order", <<Key("x2"), Ref("user")>>)>>,
    <<Table("user", "Order", <<Key("user"), Part("pay")>>), Table("order", "", <<>>)>>,
    <<Table("pay", "Pay", <<Key("pay")>>), Table("cart", "Cart", <<Key("cart"), Ref("pay")>>)>>,
    <<Table("order", "Order", <<>>), Table("raw_order", "", <<>>)>> }

MCSpecs ==
  { <<Table("user", "Buyer", <<Key("log"), Key("user"), Ref("pay")>>),
      Table("order", "Order", <<Key("order")>>), Table("log", "Log", <<>>)>>,
    <<[refs |-> {<<"cart", "sn">>}] @@ Table("user", "User", <<Key("user"), Part("log")>>)>>,
    <<Table("user", "User", <<Key("user"), Part("log"), Ref("pay")>>)>>,
    <<Table("cart", "Cart", <<>>)>> }

-----------------------------------------------------------------------------
\* Requirements with ids, with one that is missing, with one that is there twice; an old
\* document whose first line is no object.
Item(n, t, b) == [id |-> n, type |-> t, body |-> b]
MCBodies == {"", "text", "a", "b", "c", "d", "e", "u", "v", "w"}
MCRfps ==
  { <<Item(1, "functional", "a"), Item(2, "other", "b"), Item(3, "functional", "c")>>,
    <<Item(2, "functional", "a"), Item(0, "functional", "b")>>,
    <<Item(1, "functional", "a"), Item(1, "functional", "b")>> }
MCDocuments ==
  { <<Item(1, "functional", "a"), Item(2, "functional", "b"), Item(3, "other", "c")>>,
    <<Text, Item(2, "functional", "b")>> }

\* What _fallback_changes makes of minutes no model has read; changes with a target and without.
Told(op, target, content, search) ==
  [op |-> op, target |-> target, content |-> content, search |-> search]
MCMeetings ==
  { <<>>,
    <<Told("UPDATE", 0, Text, FALSE)>>,
    <<Told("ADD", 0, [type |-> "functional", body |-> "d"], FALSE), Told("DELETE", 2, Text, TRUE)>>,
    <<Told("ADD", 0, Text, FALSE), Told("UPDATE", 4, Item(4, "functional", "e"), FALSE)>> }
MCRewritings == {[target |-> 1]}
MCReplies ==
  { [op |-> "DELETE", content |-> Text],
    [op |-> "UPDATE", content |-> [body |-> "u"]],
    [op |-> "UPDATE", content |-> [id |-> 2, body |-> "v"]],
    [op |-> "ADD", content |-> Item(2, "functional", "w")] }
MCContents ==
  {Text} \cup {r.content : r \in MCReplies}
    \cup UNION {{m[i].content : i \in DOMAIN m} : m \in MCMeetings}
MCRowNames == {<<>>, <<"a">>, <<"a", 2>>}

-----------------------------------------------------------------------------
\* Cases with and without numbers, procedures and a scenario of their own, which may be
\* another's or none's; steps that name their number or another case.
MCCaseTypes == <<"NORMAL", "EXCEPTION">>
MCTraces == {{0}, {1, 2}}
Drawn(s, t, n, p) == [scenario |-> s, type |-> t, number |-> n, procedures |-> p]
MCCaseAnswers ==
  { <<>>,
    <<Drawn(0, "NORMAL", 0, 2), Drawn(0, "OTHER", 0, 0)>>,
    <<Drawn(0, "EXCEPTION", 1, 0), Drawn(1, "NORMAL", 1, 1)>>,
    <<Drawn(9, "NORMAL", 2, 0), Drawn(0, "NORMAL", 1, 1)>> }
MCStepAnswers ==
  { <<>>,
    <<[case |-> 0, no |-> 0], [case |-> 0, no |-> 1]>>,
    <<[case |-> 1, no |-> 0]>> }

OldId(s, n) == [prefix |-> s, raw |-> <<n>>]
OldCases == <<Case(OldId(1, 1), 1, "NORMAL", 0), Case(OldId(2, 1), 2, "EXCEPTION", 1)>>
OldSteps == <<[case |-> OldId(1, 1), no |-> 1], [case |-> OldId(2, 1), no |-> 1]>>
\* An old document's ids may lack the prefix of a refinement.
Unrefined == <<Case(OldId(0, 2), 1, "NORMAL", 0), Case(OldId(1, 2), 1, "EXCEPTION", 0)>>
MCOldDocuments ==
  { [scenarios |-> <<{1}, {2}>>, cases |-> OldCases, steps |-> OldSteps],
    [scenarios |-> <<{1}>>, cases |-> Unrefined, steps |-> <<[case |-> OldId(0, 2), no |-> 1]>>] }
\* A model may drop the scenarios or the steps, give every case one id, or drop the cases.
MCRewritten ==
  { [scenarios |-> <<>>, cases |-> OldCases, steps |-> <<>>],
    [scenarios |-> <<{1}>>, cases |-> <<>>, steps |-> OldSteps],
    [scenarios |-> <<{2}>>, cases |-> <<OldCases[1], OldCases[1]>>, steps |-> OldSteps] }

-----------------------------------------------------------------------------
\* Any relations of five tables, with a table of itself or one that is not there.
MCRelations ==
  {r \cup x : r \in SUBSET {e \in (1..5) \X (1..5) : e[1] < e[2]},
             x \in {{}, {<<4, 4>>}, {<<5, 0>>}}}
MCSortings ==
  { [domain |-> <<1, 1, 1, 1, 1>>, score |-> <<0, 1, 0, 1, 0>>],
    [domain |-> <<1, 2, 1, 2, 3>>, score |-> <<0, 0, 1, 1, 0>>] }

-----------------------------------------------------------------------------
vars == <<erdVars, drawVars, dbVars, goldVars, srsVars, tsVars>>

\* One document is made at a time.
Init == \/ ErdBegun /\ DrawOff /\ DbOff /\ GoldOff /\ SrsOff /\ TsOff
        \/ ErdOff /\ DrawBegun /\ DbOff /\ GoldOff /\ SrsOff /\ TsOff
        \/ ErdOff /\ DrawOff /\ DbBegun /\ GoldOff /\ SrsOff /\ TsOff
        \/ ErdOff /\ DrawOff /\ DbOff /\ GoldBegun /\ SrsOff /\ TsOff
        \/ ErdOff /\ DrawOff /\ DbOff /\ GoldOff /\ SrsBegun /\ TsOff
        \/ ErdOff /\ DrawOff /\ DbOff /\ GoldOff /\ SrsOff /\ TsBegun

Ended == {"validated", "rejected", "failed", "accepted", "refused", "drawn"}
Quiet == {stage, drawStage, dbStage, goldStage, srsStage, tsStage} \cap Ended # {} /\ UNCHANGED vars

Next == \/ ErdNext /\ UNCHANGED <<drawVars, dbVars, goldVars, srsVars, tsVars>>
        \/ DrawNext /\ UNCHANGED <<erdVars, dbVars, goldVars, srsVars, tsVars>>
        \/ DbNext /\ UNCHANGED <<erdVars, drawVars, goldVars, srsVars, tsVars>>
        \/ GoldNext /\ UNCHANGED <<erdVars, drawVars, dbVars, srsVars, tsVars>>
        \/ SrsNext /\ UNCHANGED <<erdVars, drawVars, dbVars, goldVars, tsVars>>
        \/ TsNext /\ UNCHANGED <<erdVars, drawVars, dbVars, goldVars, srsVars>>
        \/ Quiet
Spec == Init /\ [][Next]_vars
=============================================================================
