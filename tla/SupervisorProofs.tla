--------------------------- MODULE SupervisorProofs ---------------------------
(* Theorems about the generation supervisor, for every set of document codes and every *)
(* number of rounds. *)
EXTENDS Supervisor, NaturalLemmas, FiniteSetTheorems, SequenceTheorems, TLAPS

(* What holds in every reachable state. *)

\* Every plan ends with the validation.  An ERD is drawn right after it was designed, and
\* its repair, if there is one, comes first.
PlanInv ==
  /\ plan[Len(plan)] = Validation
  /\ docs = "ERD" => \A i \in DOMAIN plan :
                       plan[i] = Data => i < Len(plan) /\ plan[i + 1] = Mermaid
  /\ docs = "ERD" /\ repair # 0 => \A i \in DOMAIN plan : plan[i] = Data => i = 1

\* The ERD a repair starts from, and a failed one leaves, is the one the latest validation
\* was not content with.
KeptInv ==
  /\ \A a \in Agents :
       outputs[a] = "kept" =>
         /\ a = Data /\ docs = "ERD"
         /\ step = 1 /\ plan[1] \in {Data, Validation}
         /\ current[Validation] /\ "semantic" \in failing
  /\ docs = "ERD" /\ repair # 0 /\ plan[step] = Data /\ Readable(Data) =>
       current[Validation] /\ "semantic" \in failing

\* What the latest validation has seen, as long as nothing has changed.
VerdictInv ==
  current[Validation] =>
    /\ failing = {} => /\ outputs[Author] = "made"
                       /\ docs \in Drawn => outputs[Mermaid] = "made"
    /\ docs = "ERD" /\ outputs[Mermaid] = "made" => current[Mermaid]

\* An ERD that differs from its diagram is being designed or about to be drawn.
DrawingInv ==
  docs = "ERD" /\ status = "RUNNING" /\ outputs[Mermaid] = "made" /\ ~current[Mermaid] =>
    plan[step] \in {Data, Mermaid}

\* The repair in force is the latest one.
RepairInv == RepairsSettle /\ (repair # 0 => repair = Len(repairs))

\* The inductive invariant.
SupervisorInv ==
  TypeOK /\ PlanInv /\ KeptInv /\ VerdictInv /\ DrawingInv /\ RepairInv /\ ExportIsValidated

-----------------------------------------------------------------------------
(* Distinct *)

Firsts(s) == {i \in DOMAIN s : \A j \in DOMAIN s : s[j] = s[i] => i <= j}

\* list(dict.fromkeys(s)): the elements of s, in their order, each once.
LEMMA DistinctProperties ==
  ASSUME NEW S, NEW s \in Seq(S)
  PROVE  /\ Distinct(s) \in Seq(S)
         /\ \A k \in DOMAIN Distinct(s) : \E i \in DOMAIN s : Distinct(s)[k] = s[i]
         /\ \A i \in DOMAIN s : \E k \in DOMAIN Distinct(s) : Distinct(s)[k] = s[i]
         /\ \A k, m \in DOMAIN Distinct(s) : k # m => Distinct(s)[k] # Distinct(s)[m]
         /\ \A u, v : InOrder(s, u, v) => InOrder(Distinct(s), u, v)
<1> DEFINE P == Firsts(s)
           d == Distinct(s)
           e == Enumeration(P)
<1>1. d = Pick(s, P) /\ P \in SUBSET (1 .. Len(s)) /\ Len(s) \in Nat /\ DOMAIN s = 1 .. Len(s)
  BY DEF Distinct, Firsts
<1>2. /\ d \in Seq(S) /\ Len(d) = Cardinality(P) /\ Cardinality(P) \in Nat
      /\ DOMAIN d = 1 .. Cardinality(P)
      /\ \A k \in 1 .. Cardinality(P) : e[k] \in P /\ d[k] = s[e[k]]
  BY <1>1, PickProperties
<1>3. /\ \A i \in P : \E k \in DOMAIN d : d[k] = s[i]
      /\ \A u, v : InOrder(s, u, v) => InOrder(d, u, v)
  BY <1>1, PickKeeps
<1>4. ASSUME NEW i \in DOMAIN s PROVE \E k \in DOMAIN d : d[k] = s[i]
  <2> DEFINE T == {j \in DOMAIN s : s[j] = s[i]}
  <2>1. T \in SUBSET Nat /\ i \in T
    BY <1>1
  <2>2. PICK f \in T : \A j \in T : f <= j
    BY <2>1, LeastNatural
  <2>3. f \in P /\ s[f] = s[i]
    BY <2>2 DEF Firsts
  <2> QED BY <1>3, <2>3
<1>5. ASSUME NEW k \in DOMAIN d, NEW m \in DOMAIN d, k < m PROVE d[k] # d[m]
  <2>1. e[k] < e[m]
    BY <1>1, <1>2, <1>5, EnumerationProperties
  <2>2. /\ e[k] \in P /\ e[m] \in P /\ d[k] = s[e[k]] /\ d[m] = s[e[m]]
        /\ e[k] \in DOMAIN s /\ e[m] \in DOMAIN s /\ e[k] \in Nat /\ e[m] \in Nat
    BY <1>1, <1>2
  <2> HIDE DEF e, d
  <2>3. s[e[k]] = s[e[m]] => e[m] <= e[k]
    BY <2>2 DEF Firsts
  <2> QED BY <2>1, <2>2, <2>3
<1>6. ASSUME NEW k \in DOMAIN d, NEW m \in DOMAIN d, k # m PROVE d[k] # d[m]
  <2>1. k \in Nat /\ m \in Nat
    BY <1>2
  <2> QED BY <1>5, <1>6, <2>1
<1>7. ASSUME NEW k \in DOMAIN d PROVE \E i \in DOMAIN s : d[k] = s[i]
  BY <1>1, <1>2
<1> QED BY <1>2, <1>3, <1>4, <1>6, <1>7

LEMMA DistinctOfDistinct ==
  ASSUME NEW S, NEW s \in Seq(S), \A i, j \in DOMAIN s : i # j => s[i] # s[j]
  PROVE  Distinct(s) = s
<1> DEFINE n == Len(s)
           P == 1 .. Len(s)
<1>1. n \in Nat /\ DOMAIN s = P /\ Firsts(s) = P
  BY DEF Firsts
<1>2. Distinct(s) = Pick(s, P)
  BY <1>1 DEF Distinct, Firsts
<1>3. Cardinality(P) = n
  <2>1. 1 \in Int /\ n \in Int /\ (1 > n => n = 0) /\ n - 1 + 1 = n
    BY <1>1
  <2>2. Cardinality(1 .. n) = IF 1 > n THEN 0 ELSE n - 1 + 1
    BY <2>1, FS_Interval
  <2> QED BY <2>1, <2>2
<1>4. /\ Pick(s, P) \in Seq(S) /\ Len(Pick(s, P)) = n
      /\ \A k \in 1 .. n : Pick(s, P)[k] = s[Enumeration(P)[k]]
  BY <1>1, <1>3, PickProperties
<1>5. ASSUME NEW k \in 1 .. n PROVE Enumeration(P)[k] = k
  <2>1. {j \in P : j <= k} = 1 .. k
    BY <1>1
  <2>2. Cardinality(1 .. k) = k
    BY FS_Interval
  <2>3. Rank(P, k) = k
    BY <2>1, <2>2 DEF Rank
  <2>4. P \in SUBSET (1 .. n) /\ k \in P
    OBVIOUS
  <2>5. \A i \in P : Enumeration(P)[Rank(P, i)] = i
    BY <1>1, <2>4, EnumerationProperties
  <2> QED BY <2>3, <2>4, <2>5
<1> QED BY <1>2, <1>4, <1>5, SeqEqual

-----------------------------------------------------------------------------
(* The plans *)

LEMMA AgentNames ==
  /\ Agents = {Merge, Requirement, Image, Scenario, Architecture, Data, Mermaid, Validation}
  /\ Data # Mermaid /\ Data # Validation /\ Mermaid # Validation /\ Merge # Data
  /\ Merge # Mermaid /\ Merge # Validation /\ Requirement # Data /\ Requirement # Validation
BY DEF Agents, Merge, Requirement, Image, Scenario, Architecture, Data, Mermaid, Validation

LEMMA Generators ==
  /\ \A d \in DocsCds : Generator[d] \in Workers \ {Merge, Mermaid}
  /\ Generator["ERD"] = Data
BY DEF DocsCds, Generator, Workers, Agents, Merge, Requirement, Image, Scenario, Architecture,
       Data, Mermaid, Validation

LEMMA EndsWithValidation ==
  ASSUME NEW s \in Seq(Agents)
  PROVE  /\ s \o <<Validation>> \in Seq(Agents)
         /\ Len(s \o <<Validation>>) = Len(s) + 1
         /\ (s \o <<Validation>>)[Len(s) + 1] = Validation
         /\ \A i \in 1 .. Len(s) : (s \o <<Validation>>)[i] = s[i]
<1>1. <<Validation>> \in Seq(Agents) /\ Len(<<Validation>>) = 1
  BY DEF Agents
<1> QED BY <1>1, ConcatProperties

\* Concatenations that are written out.
LEMMA Pairs ==
  ASSUME NEW a \in Agents, NEW b \in Agents
  PROVE  <<a>> \o <<b>> = <<a, b>> /\ <<a, b>> \in Seq(Agents) /\ <<a>> \in Seq(Agents)
<1>1. <<a>> \in Seq(Agents) /\ <<b>> \in Seq(Agents) /\ <<a, b>> \in Seq(Agents)
  OBVIOUS
<1>2. /\ <<a>> \o <<b>> \in Seq(Agents) /\ Len(<<a>> \o <<b>>) = 2
      /\ (<<a>> \o <<b>>)[1] = a /\ (<<a>> \o <<b>>)[2] = b
  BY <1>1, ConcatProperties
<1>3. \A i \in 1 .. 2 : (<<a>> \o <<b>>)[i] = <<a, b>>[i]
  BY <1>2
<1> QED BY <1>1, <1>2, <1>3, SeqEqual

LEMMA Triples ==
  ASSUME NEW a \in Agents, NEW b \in Agents, NEW c \in Agents
  PROVE  <<a, b>> \o <<c>> = <<a, b, c>> /\ <<a, b, c>> \in Seq(Agents)
<1>1. <<a, b>> \in Seq(Agents) /\ <<c>> \in Seq(Agents) /\ <<a, b, c>> \in Seq(Agents)
  OBVIOUS
<1> DEFINE s == <<a, b>> \o <<c>>
<1>2. s \in Seq(Agents) /\ Len(s) = 3 /\ s[1] = a /\ s[2] = b /\ s[3] = c
  BY <1>1, ConcatProperties
<1>3. \A i \in 1 .. 3 : s[i] = <<a, b, c>>[i]
  BY <1>2
<1> HIDE DEF s
<1>4. s = <<a, b, c>>
  BY <1>1, <1>2, <1>3, SeqEqual
<1> QED BY <1>1, <1>4 DEF s

LEMMA HarnessPlan ==
  ASSUME NEW d \in DocsCds, NEW u \in BOOLEAN
  PROVE  /\ Harness(d, u) \in Seq(Agents) /\ Harness(d, u) # <<>>
         /\ Harness(d, u)[Len(Harness(d, u))] = Validation
<1> DEFINE x == IF d = "SRS" /\ u THEN <<>> ELSE <<Generator[d]>>
           y == IF d \in Drawn THEN <<Mermaid>> ELSE <<>>
           s == <<Merge>> \o x \o y
<1>1. <<Merge>> \in Seq(Agents) /\ x \in Seq(Agents) /\ y \in Seq(Agents)
  <2>1. Merge \in Agents /\ Mermaid \in Agents /\ Generator[d] \in Agents
    BY Generators DEF Agents, Workers
  <2>2. /\ <<Merge>> \in Seq(Agents) /\ <<Mermaid>> \in Seq(Agents)
        /\ <<Generator[d]>> \in Seq(Agents) /\ <<>> \in Seq(Agents)
    BY <2>1
  <2> QED BY <2>2
<1>2. <<Merge>> \o x \in Seq(Agents)
  BY <1>1, ConcatProperties
<1>3. s \in Seq(Agents)
  BY <1>1, <1>2, ConcatProperties
<1>4. Harness(d, u) = s \o <<Validation>>
  BY DEF Harness
<1> HIDE DEF s
<1> QED BY <1>3, <1>4, EndsWithValidation

\* The plan an ERD is made by.
LEMMA ErdHarness ==
  ASSUME NEW u \in BOOLEAN
  PROVE  /\ Len(Harness("ERD", u)) = 4 /\ DOMAIN Harness("ERD", u) = 1 .. 4
         /\ Harness("ERD", u)[1] = Merge /\ Harness("ERD", u)[2] = Data
         /\ Harness("ERD", u)[3] = Mermaid /\ Harness("ERD", u)[4] = Validation
<1>1. Harness("ERD", u) = <<Merge>> \o <<Data>> \o <<Mermaid>> \o <<Validation>>
  BY Generators DEF Harness, Drawn
<1>2. <<Merge>> \o <<Data>> \o <<Mermaid>> = <<Merge, Data, Mermaid>>
  <2>1. Merge \in Agents /\ Data \in Agents /\ Mermaid \in Agents
    BY DEF Agents
  <2>2. <<Merge>> \o <<Data>> = <<Merge, Data>>
    BY <2>1, Pairs
  <2>3. <<Merge, Data>> \o <<Mermaid>> = <<Merge, Data, Mermaid>>
    BY <2>1, Triples
  <2> QED BY <2>2, <2>3
<1> DEFINE s == <<Merge, Data, Mermaid>>
           h == s \o <<Validation>>
<1>3. s \in Seq(Agents) /\ Len(s) = 3 /\ s[1] = Merge /\ s[2] = Data /\ s[3] = Mermaid
  BY Triples DEF Agents
<1>4. Harness("ERD", u) = h
  BY <1>1, <1>2
<1> HIDE DEF s
<1>5. /\ h \in Seq(Agents) /\ Len(h) = Len(s) + 1 /\ h[Len(s) + 1] = Validation
      /\ \A i \in 1 .. Len(s) : h[i] = s[i]
  BY <1>3, EndsWithValidation
<1> HIDE DEF h
<1>6. Len(h) = 4 /\ DOMAIN h = 1 .. 4 /\ h[4] = Validation
  BY <1>3, <1>5
<1> QED BY <1>3, <1>4, <1>5, <1>6

\* Whatever is blamed, another round ends with the validation.
LEMMA ReplanPlan ==
  ASSUME NEW t \in Seq(Agents)
  PROVE  /\ Replan(t) \in Seq(Agents) /\ Replan(t) # <<>>
         /\ Replan(t)[Len(Replan(t))] = Validation
<1> DEFINE r == Rewritten(t)
           q == Redrawn(r)
           s == Distinct(q \o <<Validation>>)
<1>0. Merge \in Agents /\ Mermaid \in Agents /\ Validation \in Agents
  BY DEF Agents
<1>1. r \in Seq(Agents)
  BY <1>0 DEF Rewritten
<1> HIDE DEF r
<1>2. q \in Seq(Agents)
  <2>1. CASE docs = "ERD" /\ (\E i \in DOMAIN r : r[i] = Data) /\ (\A i \in DOMAIN r : r[i] # Mermaid)
    <3> DEFINE i == CHOOSE k \in DOMAIN r : r[k] = Data
    <3>1. i \in 1 .. Len(r) /\ Len(r) \in Nat
      BY <1>1, <2>1
    <3>2. q = SubSeq(r, 1, i) \o <<Mermaid>> \o SubSeq(r, i + 1, Len(r))
      BY <2>1 DEF Redrawn
    <3> HIDE DEF i
    <3>3. SubSeq(r, 1, i) \in Seq(Agents) /\ SubSeq(r, i + 1, Len(r)) \in Seq(Agents)
      BY <1>1, <3>1, SubSeqProperties, ElementOfSeq
    <3>4. <<Mermaid>> \in Seq(Agents)
      BY <1>0
    <3>5. SubSeq(r, 1, i) \o <<Mermaid>> \in Seq(Agents)
      BY <3>3, <3>4, ConcatProperties
    <3> QED BY <3>2, <3>3, <3>5, ConcatProperties
  <2>2. CASE ~(/\ docs = "ERD" /\ (\E i \in DOMAIN r : r[i] = Data)
               /\ (\A i \in DOMAIN r : r[i] # Mermaid))
    BY <1>1, <2>2 DEF Redrawn
  <2> QED BY <2>1, <2>2
<1> HIDE DEF q
<1>3. q \o <<Validation>> \in Seq(Agents) /\ Len(q \o <<Validation>>) = Len(q) + 1
  BY <1>2, EndsWithValidation
<1>4. s \in Seq(Agents) /\ s # <<>>
  <2>1. Len(q) + 1 \in DOMAIN (q \o <<Validation>>)
    BY <1>2, <1>3
  <2>2. DOMAIN s # {} /\ s \in Seq(Agents)
    BY <1>3, <2>1, DistinctProperties
  <2> QED BY <2>2
<1>5. Replan(t) = IF s[Len(s)] = Validation THEN s ELSE Append(s, Validation)
  BY DEF Replan, r, q
<1> HIDE DEF s
<1> QED BY <1>0, <1>4, <1>5, AppendProperties

\* A plan with nothing blamed twice, and no validation among the blamed.
LEMMA PlainReplan ==
  ASSUME NEW t \in Seq(Agents), NEW q \in Seq(Agents), Redrawn(Rewritten(t)) = q,
         \A i, j \in DOMAIN q : i # j => q[i] # q[j],
         \A i \in DOMAIN q : q[i] # Validation
  PROVE  Replan(t) = q \o <<Validation>>
<1> DEFINE s == q \o <<Validation>>
<1>1. /\ s \in Seq(Agents) /\ Len(s) = Len(q) + 1 /\ s[Len(q) + 1] = Validation
      /\ \A i \in 1 .. Len(q) : s[i] = q[i]
  BY EndsWithValidation
<1> HIDE DEF s
<1>2. \A i, j \in DOMAIN s : i # j => s[i] # s[j]
  <2>1. DOMAIN s = 1 .. Len(q) + 1 /\ DOMAIN q = 1 .. Len(q) /\ Len(q) \in Nat
    BY <1>1
  <2>2. ASSUME NEW i \in DOMAIN s, NEW j \in DOMAIN s, i < j PROVE s[i] # s[j]
    <3>1. i \in DOMAIN q /\ s[i] = q[i]
      BY <1>1, <2>1, <2>2
    <3>2. CASE j = Len(q) + 1
      BY <1>1, <3>1, <3>2
    <3>3. CASE j # Len(q) + 1
      <4>1. j \in DOMAIN q /\ s[j] = q[j]
        BY <1>1, <2>1, <3>3
      <4> QED BY <2>1, <2>2, <3>1, <4>1
    <3> QED BY <3>2, <3>3
  <2> QED BY <2>1, <2>2
<1>3. Distinct(s) = s /\ s[Len(s)] = Validation
  BY <1>1, <1>2, DistinctOfDistinct
<1>4. Replan(t) = IF Distinct(s)[Len(Distinct(s))] = Validation THEN Distinct(s)
                  ELSE Append(Distinct(s), Validation)
  BY DEF Replan, s
<1> QED BY <1>3, <1>4 DEF s

\* Another round for an ERD: one agent, or the design and the drawing.
LEMMA ErdReplan ==
  ASSUME docs = "ERD"
  PROVE  /\ Replan(<<>>) = <<Validation>>
         /\ \A a \in Workers \ {Data} : Replan(<<a>>) = <<a, Validation>>
         /\ Replan(<<Data>>) = <<Data, Mermaid, Validation>>
         /\ Replan(<<Data, Mermaid>>) = <<Data, Mermaid, Validation>>
<1>1. Data \in Agents /\ Mermaid \in Agents /\ Validation \in Agents /\ Workers \subseteq Agents
  BY DEF Agents, Workers
<1>2. \A t : Rewritten(t) = t
  BY DEF Rewritten
<1>3. Replan(<<>>) = <<Validation>>
  <2>1. Redrawn(<<>>) = <<>> /\ <<>> \in Seq(Agents) /\ DOMAIN <<>> = {}
    BY DEF Redrawn
  <2>2. Replan(<<>>) = <<>> \o <<Validation>>
    BY <1>2, <2>1, PlainReplan
  <2>3. <<Validation>> \in Seq(Agents)
    BY <1>1
  <2> QED BY <2>2, <2>3, ConcatEmptySeq
<1>4. ASSUME NEW a \in Workers \ {Data} PROVE Replan(<<a>>) = <<a, Validation>>
  <2>1. <<a>> \in Seq(Agents) /\ DOMAIN <<a>> = {1} /\ <<a>>[1] = a
    BY <1>1
  <2>2. Redrawn(<<a>>) = <<a>>
    BY <2>1 DEF Redrawn
  <2>3. Replan(<<a>>) = <<a>> \o <<Validation>>
    BY <1>2, <2>1, <2>2, PlainReplan DEF Workers
  <2> QED BY <1>1, <2>3, Pairs
<1>5. ASSUME NEW t \in {<<Data>>, <<Data, Mermaid>>} PROVE Replan(t) = <<Data, Mermaid, Validation>>
  <2> DEFINE q == <<Data, Mermaid>>
  <2>1. t \in Seq(Agents) /\ q \in Seq(Agents) /\ DOMAIN q = 1 .. 2 /\ q[1] = Data /\ q[2] = Mermaid
    <3>1. <<Data>> \in Seq(Agents) /\ q \in Seq(Agents)
      BY <1>1, Pairs
    <3>2. Len(q) = 2 /\ q[1] = Data /\ q[2] = Mermaid
      OBVIOUS
    <3> HIDE DEF q
    <3>3. DOMAIN q = 1 .. 2
      BY <3>1, <3>2
    <3>4. t \in Seq(Agents)
      BY <3>1 DEF q
    <3> QED BY <3>1, <3>2, <3>3, <3>4
  <2>2. Redrawn(t) = q
    <3>1. CASE t = q
      BY <2>1, <3>1 DEF Redrawn
    <3>2. CASE t = <<Data>>
      <4>1. DOMAIN t = {1} /\ t[1] = Data /\ Len(t) = 1
        BY <3>2
      <4>2. (CHOOSE k \in DOMAIN t : t[k] = Data) = 1
        BY <4>1
      <4>3. Redrawn(t) = SubSeq(t, 1, 1) \o <<Mermaid>> \o SubSeq(t, 2, 1)
        BY <4>1, <4>2, AgentNames DEF Redrawn
      <4>4. SubSeq(t, 1, 1) = <<Data>> /\ SubSeq(t, 2, 1) = <<>>
        <5>1. SubSeq(t, 1, Len(t)) = t
          BY <2>1, SubSeqFull
        <5>2. SubSeq(t, 2, 1) = <<>>
          BY SubSeqEmpty
        <5> QED BY <3>2, <4>1, <5>1, <5>2
      <4>5. <<Data>> \o <<Mermaid>> = q
        BY <1>1, Pairs
      <4> QED BY <2>1, <4>3, <4>4, <4>5, ConcatEmptySeq
    <3> QED BY <3>1, <3>2
  <2>3. Replan(t) = q \o <<Validation>>
    <3>1. \A i, j \in DOMAIN q : i # j => q[i] # q[j]
      BY <2>1, AgentNames
    <3>2. \A i \in DOMAIN q : q[i] # Validation
      BY <2>1, AgentNames
    <3> HIDE DEF q
    <3> QED BY <1>2, <2>1, <2>2, <3>1, <3>2, PlainReplan
  <2> QED BY <1>1, <2>3, Triples
<1> QED BY <1>3, <1>4, <1>5

-----------------------------------------------------------------------------
(* The checks and whom they blame *)

Blames == Checks \X Agents

LEMMA BlamesJoin ==
  ASSUME NEW s \in Seq(Blames), NEW t \in Seq(Blames)
  PROVE  /\ s \o t \in Seq(Blames) /\ Len(s \o t) = Len(s) + Len(t)
         /\ \A i \in 1 .. Len(s) : (s \o t)[i] = s[i]
         /\ \A i \in 1 .. Len(t) : (s \o t)[Len(s) + i] = t[i]
<1> DEFINE u == s \o t
<1>1. /\ u \in Seq(Blames) /\ Len(u) = Len(s) + Len(t)
      /\ \A i \in 1 .. Len(s) + Len(t) : u[i] = IF i <= Len(s) THEN s[i] ELSE t[i - Len(s)]
  BY ConcatProperties
<1> HIDE DEF u
<1>2. Len(s) \in Nat /\ Len(t) \in Nat
  OBVIOUS
<1>3. ASSUME NEW i \in 1 .. Len(s) PROVE u[i] = s[i]
  BY <1>1, <1>2
<1>4. ASSUME NEW i \in 1 .. Len(t) PROVE u[Len(s) + i] = t[i]
  <2>1. Len(s) + i \in 1 .. Len(s) + Len(t) /\ ~(Len(s) + i <= Len(s)) /\ (Len(s) + i) - Len(s) = i
    BY <1>2
  <2> QED BY <1>1, <2>1
<1> QED BY <1>1, <1>3, <1>4 DEF u

LEMMA BlameParts ==
  /\ \A d \in DocsCds : /\ OfGenerator(d) \in Seq(Blames) /\ Len(OfGenerator(d)) = 2
                        /\ OfGenerator(d)[1] = <<"output", Generator[d]>>
                        /\ OfGenerator(d)[2] = <<"content", Generator[d]>>
  /\ \A d \in DocsCds, c \in Checks : OfSource(c, d) \in Seq(Blames)
  /\ /\ OfDrawing \in Seq(Blames) /\ Len(OfDrawing) = 1
     /\ OfDrawing[1] = <<"drawing", Mermaid>>
<1>1. Merge \in Agents /\ Mermaid \in Agents /\ \A d \in DocsCds : Generator[d] \in Agents
  BY Generators DEF Agents, Workers
<1>2. ASSUME NEW d \in DocsCds
      PROVE  /\ OfGenerator(d) \in Seq(Blames) /\ Len(OfGenerator(d)) = 2
             /\ OfGenerator(d)[1] = <<"output", Generator[d]>>
             /\ OfGenerator(d)[2] = <<"content", Generator[d]>>
  <2>1. <<"output", Generator[d]>> \in Blames /\ <<"content", Generator[d]>> \in Blames
    BY <1>1 DEF Blames, Checks
  <2> QED BY <2>1 DEF OfGenerator
<1>3. ASSUME NEW d \in DocsCds, NEW c \in Checks PROVE OfSource(c, d) \in Seq(Blames)
  <2>1. <<c, Merge>> \in Blames /\ <<c, Generator[d]>> \in Blames
    BY <1>1 DEF Blames
  <2> QED BY <2>1 DEF OfSource
<1>4. OfDrawing \in Seq(Blames) /\ Len(OfDrawing) = 1 /\ OfDrawing[1] = <<"drawing", Mermaid>>
  <2>1. <<"drawing", Mermaid>> \in Blames
    BY <1>1 DEF Blames, Checks
  <2> QED BY <2>1 DEF OfDrawing
<1> QED BY <1>2, <1>3, <1>4

\* The checks of an ERD, in their order.
LEMMA ErdBlame ==
  /\ Blame["ERD"] \in Seq(Blames) /\ Len(Blame["ERD"]) = 6
  /\ \A i \in 1 .. 4 : Blame["ERD"][i][2] = Data
  /\ \A i \in 5 .. 6 : Blame["ERD"][i][2] = Mermaid
  /\ Blame["ERD"][1][1] = "output" /\ Blame["ERD"][3][1] = "semantic"
  /\ Blame["ERD"][6][1] = "drawing"
<1> DEFINE a == OfGenerator("ERD")
           b == << <<"semantic", Data>>, <<"naming", Data>>, <<"naming", Mermaid>> >>
           s == a \o b
           t == s \o OfDrawing
<1>1. "ERD" \in DocsCds /\ Generator["ERD"] = Data
  BY Generators DEF DocsCds
<1>2. /\ a \in Seq(Blames) /\ Len(a) = 2
      /\ a[1] = <<"output", Data>> /\ a[2] = <<"content", Data>>
  BY <1>1, BlameParts
<1>3. /\ b \in Seq(Blames) /\ Len(b) = 3 /\ b[1] = <<"semantic", Data>>
      /\ b[2] = <<"naming", Data>> /\ b[3] = <<"naming", Mermaid>>
  <2>1. /\ <<"semantic", Data>> \in Blames /\ <<"naming", Data>> \in Blames
        /\ <<"naming", Mermaid>> \in Blames
    BY AgentNames DEF Blames, Checks
  <2> QED BY <2>1
<1>4. /\ OfDrawing \in Seq(Blames) /\ Len(OfDrawing) = 1
      /\ OfDrawing[1] = <<"drawing", Mermaid>>
  BY BlameParts
<1>5. Blame["ERD"] = t
  BY <1>1 DEF Blame, ErdChecks
<1> HIDE DEF a, b
<1>6. /\ s \in Seq(Blames) /\ Len(s) = 5 /\ s[1] = a[1] /\ s[2] = a[2]
      /\ s[3] = b[1] /\ s[4] = b[2] /\ s[5] = b[3]
  <2>1. /\ s \in Seq(Blames) /\ Len(s) = Len(a) + Len(b)
        /\ \A i \in 1 .. Len(a) : s[i] = a[i]
        /\ \A i \in 1 .. Len(b) : s[Len(a) + i] = b[i]
    BY <1>2, <1>3, BlamesJoin
  <2> HIDE DEF s
  <2>2. s[2 + 1] = b[1] /\ s[2 + 2] = b[2] /\ s[2 + 3] = b[3]
    BY <1>2, <1>3, <2>1
  <2> QED BY <1>2, <1>3, <2>1, <2>2
<1> HIDE DEF s
<1>7. /\ t \in Seq(Blames) /\ Len(t) = 6 /\ \A i \in 1 .. 5 : t[i] = s[i]
      /\ t[6] = OfDrawing[1]
  <2>1. /\ t \in Seq(Blames) /\ Len(t) = Len(s) + Len(OfDrawing)
        /\ \A i \in 1 .. Len(s) : t[i] = s[i]
        /\ \A i \in 1 .. Len(OfDrawing) : t[Len(s) + i] = OfDrawing[i]
    BY <1>4, <1>6, BlamesJoin
  <2> HIDE DEF t
  <2>2. t[5 + 1] = OfDrawing[1]
    BY <1>4, <1>6, <2>1
  <2> QED BY <1>4, <1>6, <2>1, <2>2
<1> HIDE DEF t
<1>8. /\ t[1] = <<"output", Data>> /\ t[2] = <<"content", Data>> /\ t[3] = <<"semantic", Data>>
      /\ t[4] = <<"naming", Data>> /\ t[5] = <<"naming", Mermaid>> /\ t[6] = <<"drawing", Mermaid>>
  BY <1>2, <1>3, <1>4, <1>6, <1>7
<1>9. /\ \A i \in 1 .. 4 : i = 1 \/ i = 2 \/ i = 3 \/ i = 4
      /\ \A i \in 5 .. 6 : i = 5 \/ i = 6
  OBVIOUS
<1> QED BY <1>5, <1>7, <1>8, <1>9

\* Every document is checked for its output, and one that is drawn for its diagram.
LEMMA Checked ==
  ASSUME NEW d \in DocsCds
  PROVE  /\ Blame[d] \in Seq(Blames) /\ "output" \in ChecksOf(d)
         /\ d \in Drawn => "drawing" \in ChecksOf(d)
<1> DEFINE g == OfGenerator(d)
<1>0. /\ g \in Seq(Blames) /\ Len(g) = 2 /\ g[1][1] = "output"
      /\ "trace" \in Checks /\ "meeting" \in Checks
  BY BlameParts DEF Checks
<1>1. ASSUME NEW s \in Seq(Blames), Blame[d] = g \o s
      PROVE  Blame[d] \in Seq(Blames) /\ "output" \in ChecksOf(d)
  <2>1. /\ g \o s \in Seq(Blames) /\ Len(g \o s) = Len(g) + Len(s)
        /\ \A i \in 1 .. Len(g) : (g \o s)[i] = g[i]
    BY <1>0, BlamesJoin
  <2>2. 1 \in DOMAIN Blame[d] /\ Blame[d][1] = g[1]
    BY <1>0, <1>1, <2>1
  <2> QED BY <1>0, <1>1, <2>1, <2>2 DEF ChecksOf
<1>2. ASSUME NEW s \in Seq(Blames), Blame[d] = s \o OfDrawing PROVE "drawing" \in ChecksOf(d)
  <2>1. /\ s \o OfDrawing \in Seq(Blames) /\ Len(s \o OfDrawing) = Len(s) + 1
        /\ (s \o OfDrawing)[Len(s) + 1] = OfDrawing[1] /\ OfDrawing[1][1] = "drawing"
    <3>1. OfDrawing \in Seq(Blames) /\ Len(OfDrawing) = 1 /\ OfDrawing[1][1] = "drawing"
      BY BlameParts
    <3>2. /\ s \o OfDrawing \in Seq(Blames) /\ Len(s \o OfDrawing) = Len(s) + Len(OfDrawing)
          /\ \A i \in 1 .. Len(OfDrawing) : (s \o OfDrawing)[Len(s) + i] = OfDrawing[i]
      BY <3>1, BlamesJoin
    <3>3. 1 \in 1 .. Len(OfDrawing)
      BY <3>1
    <3> QED BY <3>1, <3>2, <3>3
  <2>2. Len(s) + 1 \in DOMAIN Blame[d]
    BY <1>2, <2>1
  <2> QED BY <1>2, <2>1, <2>2 DEF ChecksOf
<1>3. ASSUME NEW s \in Seq(Blames), NEW t \in Seq(Blames) PROVE (g \o s) \o t = g \o (s \o t)
  BY <1>0, ConcatAssociative
<1>4. \A c \in {"trace", "meeting"} : OfSource(c, d) \in Seq(Blames)
  BY <1>0, BlameParts
<1>5. OfSource("trace", d) \o OfSource("meeting", d) \in Seq(Blames)
  BY <1>4, BlamesJoin
<1>6. CASE d = "SRS"
  <2>1. Blame[d] = g \o OfSource("trace", d) /\ d \notin Drawn
    BY <1>6 DEF Blame, SrsChecks, Drawn
  <2> QED BY <1>1, <1>4, <2>1
<1>7. CASE d \in {"INTERFACE", "TS"}
  <2>1. Blame[d] = g \o OfSource("trace", d) \o OfSource("meeting", d) /\ d \notin Drawn
    BY <1>7 DEF Blame, InterfaceChecks, TsChecks, Drawn
  <2> HIDE DEF g
  <2>2. Blame[d] = g \o (OfSource("trace", d) \o OfSource("meeting", d))
    BY <1>3, <1>4, <2>1
  <2> QED BY <1>1, <1>5, <2>1, <2>2
<1>8. CASE d = "ARCH"
  <2> DEFINE m == OfSource("meeting", d)
  <2>1. Blame[d] = (g \o m) \o OfDrawing
    BY <1>8 DEF Blame, ArchChecks
  <2>2. m \in Seq(Blames) /\ OfDrawing \in Seq(Blames)
    BY <1>4, BlameParts
  <2> HIDE DEF m, g
  <2>3. g \o m \in Seq(Blames) /\ m \o OfDrawing \in Seq(Blames)
    BY <1>0, <2>2, BlamesJoin
  <2>4. Blame[d] = g \o (m \o OfDrawing)
    BY <1>3, <2>1, <2>2
  <2> QED BY <1>1, <1>2, <2>1, <2>3, <2>4
<1>9. CASE d = "ERD"
  <2>1. 1 \in DOMAIN Blame["ERD"] /\ 6 \in DOMAIN Blame["ERD"]
    BY ErdBlame
  <2> QED BY <1>9, <2>1, ErdBlame DEF ChecksOf
<1>10. CASE d = "DB"
  <2>1. Blame[d] = g \o OfSource("meeting", d) /\ d \notin Drawn
    BY <1>10 DEF Blame, DbChecks, Drawn
  <2> QED BY <1>1, <1>4, <2>1
<1> QED BY <1>6, <1>7, <1>8, <1>9, <1>10 DEF DocsCds

\* The blamed are agents.
LEMMA BlamedType ==
  ASSUME docs \in DocsCds, NEW F
  PROVE  Blamed(F) \in Seq(Agents)
<1> DEFINE b == Blame[docs]
           who == [i \in DOMAIN b |-> b[i][2]]
           P == {i \in DOMAIN b : b[i][1] \in F}
<1>1. b \in Seq(Blames)
  BY Checked
<1>2. \A i \in DOMAIN b : b[i][2] \in Agents
  BY <1>1 DEF Blames
<1> HIDE DEF b
<1>3. who \in Seq(Agents) /\ Len(who) = Len(b)
  BY <1>1, <1>2
<1>4. P \in SUBSET (1 .. Len(who))
  BY <1>1, <1>3
<1>5. Blamed(F) = Distinct(Pick(who, P))
  BY DEF Blamed, b
<1> HIDE DEF who, P
<1>6. Pick(who, P) \in Seq(Agents)
  BY <1>3, <1>4, PickProperties
<1> QED BY <1>5, <1>6, DistinctProperties

\* Of an ERD, the design, the drawing, or one after the other; a meaning that was missed
\* is blamed on the design.
LEMMA ErdBlamed ==
  ASSUME docs = "ERD", NEW F
  PROVE  /\ Blamed(F) \in {<<>>, <<Data>>, <<Mermaid>>, <<Data, Mermaid>>}
         /\ "semantic" \in F => Blamed(F) \in {<<Data>>, <<Data, Mermaid>>}
<1> DEFINE b == Blame["ERD"]
           who == [i \in DOMAIN b |-> b[i][2]]
           P == {i \in DOMAIN b : b[i][1] \in F}
           p == Pick(who, P)
           d == Distinct(p)
<1>0. Data \in Agents /\ Mermaid \in Agents /\ Data # Mermaid
  BY AgentNames
<1>1. /\ b \in Seq(Blames) /\ Len(b) = 6 /\ DOMAIN b = 1 .. 6
      /\ \A i \in 1 .. 4 : b[i][2] = Data
      /\ \A i \in 5 .. 6 : b[i][2] = Mermaid
      /\ b[3][1] = "semantic"
  BY ErdBlame
<1> HIDE DEF b
<1>2. /\ DOMAIN who = 1 .. 6 /\ \A i \in 1 .. 4 : who[i] = Data
      /\ \A i \in 5 .. 6 : who[i] = Mermaid
  BY <1>1
<1>3. Blamed(F) = d
  BY DEF Blamed, b
<1>4. P \in SUBSET (1 .. 6) /\ ("semantic" \in F => 3 \in P)
  BY <1>1
<1> HIDE DEF who, P
<1>6. \A i \in 1 .. 6 : /\ who[i] \in {Data, Mermaid}
                        /\ who[i] = Data => i <= 4
                        /\ who[i] = Mermaid => 5 <= i
  <2>1. \A i \in 1 .. 6 : i \in 1 .. 4 \/ i \in 5 .. 6
    OBVIOUS
  <2> QED BY <1>0, <1>2, <2>1
<1>7. who \in Seq({Data, Mermaid}) /\ Len(who) = 6
  <2> DEFINE T == {Data, Mermaid}
  <2>1. \A i \in DOMAIN b : b[i][2] \in T
    BY <1>1, <1>6 DEF who
  <2> HIDE DEF T
  <2>2. who \in Seq(T) /\ Len(who) = Len(b)
    BY <1>1, <2>1 DEF who
  <2> QED BY <1>1, <2>2 DEF T
<1>8. InOrder(who, Data, Mermaid)
  BY <1>2, <1>6 DEF InOrder
<1>9. /\ p \in Seq({Data, Mermaid}) /\ InOrder(p, Data, Mermaid)
      /\ "semantic" \in F => \E k \in DOMAIN p : p[k] = Data
  <2>1. p \in Seq({Data, Mermaid})
    BY <1>4, <1>7, PickProperties
  <2>2. InOrder(p, Data, Mermaid)
    BY <1>4, <1>7, <1>8, PickKeeps
  <2>3. ASSUME "semantic" \in F PROVE \E k \in DOMAIN p : p[k] = Data
    <3>1. 3 \in P /\ who[3] = Data
      BY <1>2, <1>4, <2>3
    <3> QED BY <1>4, <1>7, <3>1, PickKeeps
  <2> QED BY <2>1, <2>2, <2>3
<1> HIDE DEF p
<1>10. /\ d \in Seq({Data, Mermaid}) /\ InOrder(d, Data, Mermaid)
       /\ \A k, m \in DOMAIN d : k # m => d[k] # d[m]
       /\ "semantic" \in F => \E k \in DOMAIN d : d[k] = Data
  <2>1. /\ d \in Seq({Data, Mermaid})
        /\ \A i \in DOMAIN p : \E k \in DOMAIN d : d[k] = p[i]
        /\ \A k, m \in DOMAIN d : k # m => d[k] # d[m]
        /\ \A u, v : InOrder(p, u, v) => InOrder(d, u, v)
    BY <1>9, DistinctProperties
  <2> HIDE DEF d
  <2> QED BY <1>9, <2>1
<1> HIDE DEF d
<1>11. Len(d) \in Nat /\ DOMAIN d = 1 .. Len(d) /\ \A k \in 1 .. Len(d) : d[k] \in {Data, Mermaid}
  BY <1>10
<1>12. Len(d) <= 2
  <2> SUFFICES ASSUME 3 <= Len(d) PROVE FALSE
    BY <1>11
  <2>1. 1 \in DOMAIN d /\ 2 \in DOMAIN d /\ 3 \in DOMAIN d
    BY <1>11
  <2>2. d[1] # d[2] /\ d[1] # d[3] /\ d[2] # d[3]
    BY <1>10, <2>1
  <2> QED BY <1>11, <2>1, <2>2
<1>13. CASE Len(d) = 0
  <2>1. d = <<>>
    BY <1>10, <1>13, EmptySeq
  <2> QED BY <1>3, <1>10, <1>11, <1>13, <2>1
<1>14. CASE Len(d) = 1
  <2>1. d[1] \in {Data, Mermaid} /\ d = <<d[1]>>
    BY <1>10, <1>11, <1>14
  <2>2. "semantic" \in F => d[1] = Data
    BY <1>10, <1>11, <1>14
  <2> QED BY <1>3, <2>1, <2>2
<1>15. CASE Len(d) = 2
  <2>1. 1 \in DOMAIN d /\ 2 \in DOMAIN d
    BY <1>11, <1>15
  <2>2. d[1] # d[2] /\ ~(d[1] = Mermaid /\ d[2] = Data)
    BY <1>10, <2>1 DEF InOrder
  <2>3. d[1] = Data /\ d[2] = Mermaid
    BY <1>11, <2>1, <2>2
  <2>4. d = <<Data, Mermaid>>
    BY <1>10, <1>15, <2>3
  <2> QED BY <1>3, <2>4
<1> QED BY <1>11, <1>12, <1>13, <1>14, <1>15

-----------------------------------------------------------------------------
(* What the parts of a step do *)

Results == {"none", "lost", "kept", "made"}
Ends    == {"PENDING", "PASS", "FAILED"}

LEMMA StoresType ==
  ASSUME TypeOK, NEW a \in Agents, NEW result \in Results, Stores(a, result)
  PROVE  /\ outputs' \in [Agents -> Results] /\ current' \in [Agents -> BOOLEAN]
         /\ outputs'[a] = result /\ (current'[a] <=> result = "made")
         /\ \A b \in Agents \ {a} : /\ outputs'[b] = outputs[b]
                                    /\ current'[b] <=> current[b] /\ ~Reads(b, a)
<1>1. outputs' = [outputs EXCEPT ![a] = result] /\ outputs \in [Agents -> Results]
  BY DEF Stores, TypeOK, Results
<1>2. current' = [b \in Agents |-> IF b = a THEN result = "made"
                                   ELSE current[b] /\ ~Reads(b, a)]
  BY DEF Stores
<1>3. /\ outputs' \in [Agents -> Results] /\ outputs'[a] = result
      /\ \A b \in Agents \ {a} : outputs'[b] = outputs[b]
  BY <1>1
<1>4. current' \in [Agents -> BOOLEAN]
  <2>1. \A b \in Agents : (IF b = a THEN result = "made" ELSE current[b] /\ ~Reads(b, a)) \in BOOLEAN
    OBVIOUS
  <2> QED BY <1>2, <2>1
<1>5. current'[a] <=> result = "made"
  BY <1>2
<1>6. \A b \in Agents \ {a} : current'[b] <=> current[b] /\ ~Reads(b, a)
  BY <1>2
<1> QED BY <1>3, <1>4, <1>5, <1>6

LEMMA FinishedType ==
  ASSUME TypeOK, NEW result \in {"PASS", "FAILED"}
  PROVE  /\ Finished(result) \in Seq(Ends) /\ Len(Finished(result)) = Len(repairs)
         /\ DOMAIN Finished(result) = DOMAIN repairs
         /\ \A i \in DOMAIN repairs :
              Finished(result)[i] = IF i = repair THEN result ELSE repairs[i]
<1>1. repairs \in Seq(Ends) /\ repair \in 0 .. Len(repairs)
  BY DEF TypeOK, Ends
<1>2. CASE repair = 0
  <2>1. \A i \in DOMAIN repairs : i # repair
    BY <1>1, <1>2
  <2> QED BY <1>1, <1>2, <2>1 DEF Finished
<1>3. CASE repair # 0
  <2>1. Finished(result) = [repairs EXCEPT ![repair] = result]
    BY <1>3 DEF Finished
  <2>2. repair \in 1 .. Len(repairs) /\ result \in Ends
    BY <1>1, <1>3 DEF Ends
  <2> HIDE DEF Finished
  <2>3. /\ Finished(result) \in Seq(Ends) /\ Len(Finished(result)) = Len(repairs)
        /\ \A i \in 1 .. Len(repairs) :
             Finished(result)[i] = IF i = repair THEN result ELSE repairs[i]
    BY <1>1, <2>1, <2>2, ExceptSeq
  <2> QED BY <1>1, <2>3
<1> QED BY <1>2, <1>3

LEMMA PreparedType ==
  ASSUME NEW h \in Seq(Ends), NEW F
  PROVE  /\ Prepared(h, F) \in {0, Len(h) + 1}
         /\ Prepared(h, F) # 0 => "semantic" \in F /\ Len(h) < MaxRound
BY DEF Prepared, Repairable

\* The queue of repairs after a round that has failed.
LEMMA GivenUpRepairs ==
  ASSUME TypeOK, NEW t, NEW F, GiveUp(t, F)
  PROVE  /\ repairs' \in Seq(Ends) /\ Len(repairs') <= MaxRound /\ repair' \in 0 .. Len(repairs')
         /\ repair' # 0 => /\ "semantic" \in F /\ CanReplan
                           /\ repair' = Len(repairs') /\ Len(repairs') = Len(repairs) + 1
                           /\ repairs'[repair'] = "PENDING"
         /\ repair' = 0 => Len(repairs') = Len(repairs)
         /\ \A i \in DOMAIN repairs :
              repairs'[i] = IF i = repair THEN "FAILED" ELSE repairs[i]
<1> DEFINE h == Finished("FAILED")
<1>1. /\ h \in Seq(Ends) /\ Len(h) = Len(repairs) /\ DOMAIN h = DOMAIN repairs
      /\ \A i \in DOMAIN repairs : h[i] = IF i = repair THEN "FAILED" ELSE repairs[i]
      /\ Len(repairs) \in Nat /\ Len(repairs) <= MaxRound /\ DOMAIN repairs = 1 .. Len(repairs)
  BY FinishedType DEF TypeOK
<1>2. \/ /\ CanReplan /\ repair' = Prepared(h, F)
         /\ repairs' = IF repair' = 0 THEN h ELSE Append(h, "PENDING")
      \/ /\ repairs' = h /\ repair' = 0
  BY DEF GiveUp
<1> HIDE DEF h
<1>3. CASE repair' = 0
  <2>1. repairs' = h
    BY <1>2, <1>3
  <2> QED BY <1>1, <1>3, <2>1
<1>4. CASE repair' # 0
  <2>1. /\ CanReplan /\ repair' = Len(h) + 1 /\ repairs' = Append(h, "PENDING")
        /\ "semantic" \in F /\ Len(h) < MaxRound
    BY <1>1, <1>2, <1>4, PreparedType
  <2>2. /\ repairs' \in Seq(Ends) /\ Len(repairs') = Len(h) + 1
        /\ repairs'[Len(h) + 1] = "PENDING"
        /\ \A i \in 1 .. Len(h) : repairs'[i] = h[i]
    BY <1>1, <2>1, AppendProperties DEF Ends
  <2>3. Len(h) + 1 <= MaxRound
    BY <1>1, <2>1, ConstantsAssumption
  <2>4. \A i \in DOMAIN repairs : repairs'[i] = h[i]
    BY <1>1, <2>2
  <2>5. /\ Len(repairs') = Len(repairs) + 1 /\ repair' = Len(repairs')
        /\ repair' \in 0 .. Len(repairs')
    BY <1>1, <2>1, <2>2
  <2> QED BY <1>1, <1>4, <2>1, <2>2, <2>3, <2>4, <2>5
<1> QED BY <1>3, <1>4

\* The other variables after a round that has failed.
LEMMA GivenUpPlan ==
  ASSUME TypeOK, status = "RUNNING", NEW t \in Seq(Agents), NEW F, GiveUp(t, F)
  PROVE  /\ round' \in 1 .. MaxRound /\ plan' \in Seq(Agents) /\ plan' # <<>>
         /\ step' \in 1 .. Len(plan') /\ retry' \in 0 .. MaxRetry
         /\ \/ CanReplan /\ plan' = Replan(t) /\ step' = 1 /\ status' = "RUNNING"
            \/ ~CanReplan /\ UNCHANGED <<plan, step>> /\ status' = "FAILED" /\ repair' = 0
<1>1. CASE CanReplan
  <2>1. plan' = Replan(t) /\ step' = 1 /\ status' = "RUNNING" /\ retry' = 0 /\ round' = round + 1
    BY <1>1 DEF GiveUp, NextRound
  <2>2. round' \in 1 .. MaxRound
    BY <1>1, <2>1, ConstantsAssumption DEF CanReplan, TypeOK
  <2>3. plan' \in Seq(Agents) /\ plan' # <<>>
    BY <2>1, ReplanPlan
  <2>4. 1 \in 1 .. Len(plan')
    BY <2>3
  <2> QED BY <1>1, <2>1, <2>2, <2>3, <2>4 DEF MaxRetry
<1>2. CASE ~CanReplan
  BY <1>2 DEF GiveUp, TypeOK
<1> QED BY <1>1, <1>2

\* What a failing agent may blame.
LEMMA InferredType ==
  ASSUME NEW a \in Workers, NEW t \in Inferred(a)
  PROVE  /\ t \in {<<>>} \cup {<<b>> : b \in Workers}
         /\ t \in Seq(Agents)
         /\ a = Data => t = <<Data>>
<1>1. {Requirement, Data, Image} \subseteq Workers /\ Data # Merge /\ Data # Image
  BY DEF Workers, Agents, Merge, Requirement, Image, Scenario, Architecture, Data, Mermaid,
         Validation
<1>2. CASE InputsThere(a)
  <2>1. \/ t = <<a>>
        \/ a = Merge /\ t \in {<<>>, <<Requirement>>, <<Data>>, <<Image>>}
    <3>1. t \in {<<a>>} \cup CASE a = Merge /\ udt -> {<<>>}
                      [] a = Merge /\ ~udt ->
                           {<<Requirement>>} \cup (IF docs = "DB" THEN {<<Data>>} ELSE {})
                                             \cup (IF docs = "TS" THEN {<<Image>>} ELSE {})
                      [] OTHER -> {}
      BY <1>2 DEF Inferred
    <3> QED BY <3>1
  <2>2. t \in {<<>>} \cup {<<b>> : b \in Workers}
    BY <1>1, <2>1
  <2>3. a = Data => t = <<Data>>
    BY <1>1, <2>1
  <2>4. t \in Seq(Agents)
    <3>1. <<>> \in Seq(Agents) /\ \A b \in Workers : <<b>> \in Seq(Agents)
      BY DEF Workers
    <3> QED BY <2>2, <3>1
  <2> QED BY <2>2, <2>3, <2>4
<1>3. CASE ~InputsThere(a)
  <2>1. a = Image /\ t = <<>>
    BY <1>3 DEF Inferred
  <2> QED BY <1>1, <2>1
<1> QED BY <1>2, <1>3

LEMMA AdvanceType ==
  ASSUME TypeOK, plan' = plan, Advance
  PROVE  /\ step' \in 1 .. Len(plan') /\ retry' \in 0 .. MaxRetry
         /\ repairs' \in Seq(Ends) /\ Len(repairs') = Len(repairs)
         /\ repair' \in 0 .. Len(repairs') /\ status' \in {"EXPORT", status}
BY FinishedType DEF Advance, TypeOK, MaxRetry, Ends

LEMMA RetryType ==
  ASSUME TypeOK, status = "RUNNING", NEW t \in Seq(Agents), RetryOr(t)
  PROVE  /\ round' \in 1 .. MaxRound /\ plan' \in Seq(Agents) /\ plan' # <<>>
         /\ step' \in 1 .. Len(plan') /\ retry' \in 0 .. MaxRetry
         /\ repairs' \in Seq(Ends) /\ Len(repairs') <= MaxRound /\ repair' \in 0 .. Len(repairs')
         /\ status' \in {"RUNNING", "FAILED"}
<1>1. CASE retry < MaxRetry
  BY <1>1 DEF RetryOr, TypeOK, MaxRetry, Ends
<1>2. CASE ~(retry < MaxRetry)
  <2>1. GiveUp(t, {})
    BY <1>2 DEF RetryOr
  <2> QED BY <2>1, GivenUpPlan, GivenUpRepairs
<1> QED BY <1>1, <1>2

LEMMA InitTypeOK == Init => TypeOK
<1> SUFFICES ASSUME Init PROVE TypeOK
  OBVIOUS
<1>1. docs \in DocsCds /\ udt \in BOOLEAN /\ plan = Harness(docs, udt) /\ step = 1
  BY ConstantsAssumption DEF Init
<1>2. plan \in Seq(Agents) /\ plan # <<>>
  BY <1>1, HarnessPlan
<1>3. step \in 1 .. Len(plan)
  BY <1>1, <1>2
<1>4. repairs = <<>> /\ repairs \in Seq(Ends) /\ Len(repairs) = 0
  BY DEF Init
<1>5. round \in 1 .. MaxRound /\ Len(repairs) <= MaxRound
  BY <1>4, ConstantsAssumption DEF Init
<1> QED BY <1>2, <1>3, <1>4, <1>5 DEF Init, TypeOK, MaxRetry, Ends

LEMMA NextTypeOK == TypeOK /\ [Next]_vars => TypeOK'
<1> SUFFICES ASSUME TypeOK, [Next]_vars PROVE TypeOK'
  OBVIOUS
<1>0. docs \in DocsCds /\ Workers \subseteq Agents /\ Validation \in Agents /\ Data \in Agents
  BY ConstantsAssumption DEF TypeOK, Workers, Agents
<1>1. ASSUME NEW a \in Workers, AgentSucceeds(a) PROVE TypeOK'
  <2>1. outputs' \in [Agents -> Results] /\ current' \in [Agents -> BOOLEAN]
    BY <1>0, <1>1, StoresType DEF AgentSucceeds, Results
  <2> QED BY <1>1, <2>1, AdvanceType DEF AgentSucceeds, Now, TypeOK, Results, Ends
<1>2. ASSUME NEW a \in Workers, AgentFailsForGood(a) PROVE TypeOK'
  <2>1. outputs' \in [Agents -> Results] /\ current' \in [Agents -> BOOLEAN]
    BY <1>0, <1>2, StoresType DEF AgentFailsForGood, Results
  <2> QED BY <1>2, <2>1 DEF AgentFailsForGood, End, TypeOK, Results
<1>3. ASSUME NEW a \in Workers, AgentFails(a) PROVE TypeOK'
  <2>1. outputs' \in [Agents -> Results] /\ current' \in [Agents -> BOOLEAN]
    BY <1>0, <1>3, StoresType DEF AgentFails, Results
  <2>2. PICK t \in Seq(Agents) : RetryOr(t)
    BY <1>3, InferredType DEF AgentFails
  <2>3. status = "RUNNING" /\ UNCHANGED <<docs, udt, failing>>
    BY <1>3 DEF AgentFails, Now
  <2> QED BY <2>1, <2>2, <2>3, RetryType DEF TypeOK, Results, Ends
<1>4. ASSUME RepairFails PROVE TypeOK'
  <2>1. outputs' \in [Agents -> Results]
    BY <1>0, <1>4 DEF RepairFails, Results, TypeOK
  <2>2. PICK t \in {<<Data>>, <<>>} : RetryOr(t)
    BY <1>4 DEF RepairFails
  <2>a. <<Data>> \in Seq(Agents)
    BY <1>0, Pairs
  <2>b. <<>> \in Seq(Agents)
    OBVIOUS
  <2>3. t \in Seq(Agents)
    BY <2>2, <2>a, <2>b
  <2>4. status = "RUNNING" /\ UNCHANGED <<docs, udt, current, failing>>
    BY <1>4 DEF RepairFails, Now
  <2> QED BY <2>1, <2>2, <2>3, <2>4, RetryType DEF TypeOK, Results, Ends
<1>5. ASSUME ValidationPasses PROVE TypeOK'
  <2>1. outputs' \in [Agents -> Results] /\ current' \in [Agents -> BOOLEAN]
    BY <1>0, <1>5, StoresType DEF ValidationPasses, Judged, Results
  <2> QED BY <1>5, <2>1, AdvanceType DEF ValidationPasses, Judged, Now, TypeOK, Results, Ends
<1>6. ASSUME ValidationFails PROVE TypeOK'
  <2>1. PICK F \in SUBSET Checks : Judged(F) /\ GiveUp(Blamed(F), F)
    BY <1>6 DEF ValidationFails
  <2>2. outputs' \in [Agents -> Results] /\ current' \in [Agents -> BOOLEAN]
    BY <1>0, <2>1, StoresType DEF Judged, Results
  <2>3. Blamed(F) \in Seq(Agents) /\ status = "RUNNING"
    BY <1>0, <2>1, BlamedType DEF Judged, Now
  <2>4. UNCHANGED <<docs, udt>> /\ failing' = F
    BY <1>6, <2>1 DEF ValidationFails, Judged
  <2>5. /\ round' \in 1 .. MaxRound /\ plan' \in Seq(Agents) /\ plan' # <<>>
        /\ step' \in 1 .. Len(plan') /\ retry' \in 0 .. MaxRetry
        /\ status' \in {"RUNNING", "FAILED"}
    BY <2>1, <2>3, GivenUpPlan
  <2>6. repairs' \in Seq(Ends) /\ Len(repairs') <= MaxRound /\ repair' \in 0 .. Len(repairs')
    BY <2>1, GivenUpRepairs
  <2> QED BY <2>2, <2>4, <2>5, <2>6 DEF TypeOK, Results, Ends
<1>7. ASSUME ValidationRaises PROVE TypeOK'
  <2>1. outputs' \in [Agents -> Results]
    BY <1>0, <1>7 DEF ValidationRaises, Results, TypeOK
  <2>2. status = "RUNNING" /\ GiveUp(<<>>, {}) /\ UNCHANGED <<docs, udt, current, failing>>
    BY <1>7 DEF ValidationRaises, Now
  <2>3. <<>> \in Seq(Agents)
    OBVIOUS
  <2> QED BY <2>1, <2>2, <2>3, GivenUpPlan, GivenUpRepairs DEF TypeOK, Results, Ends
<1>8. CASE UNCHANGED vars
  BY <1>8 DEF vars, TypeOK
<1> QED BY <1>1, <1>2, <1>3, <1>4, <1>5, <1>6, <1>7, <1>8 DEF Next

-----------------------------------------------------------------------------
(* What every step does *)

\* The plans another round of an ERD may have, and whom it may be blamed on.
ErdPlans == {<<Validation>>, <<Data, Mermaid, Validation>>}
              \cup {<<a, Validation>> : a \in Workers \ {Data}}
ErdTargets == {<<>>, <<Data, Mermaid>>} \cup {<<a>> : a \in Workers}

LEMMA ErdPlan ==
  ASSUME NEW p \in ErdPlans
  PROVE  /\ p[Len(p)] = Validation
         /\ \A i \in DOMAIN p : p[i] = Data => i = 1 /\ i < Len(p) /\ p[i + 1] = Mermaid
<1>1. CASE p = <<Validation>>
  BY <1>1, AgentNames
<1>2. CASE p = <<Data, Mermaid, Validation>>
  <2>1. /\ DOMAIN p = 1 .. 3 /\ Len(p) = 3
        /\ p[1] = Data /\ p[2] = Mermaid /\ p[3] = Validation
    BY <1>2
  <2> QED BY <2>1, AgentNames
<1>3. ASSUME NEW a \in Workers \ {Data}, p = <<a, Validation>>
      PROVE  /\ p[Len(p)] = Validation
             /\ \A i \in DOMAIN p : p[i] = Data => i = 1 /\ i < Len(p) /\ p[i + 1] = Mermaid
  <2>1. DOMAIN p = 1 .. 2 /\ Len(p) = 2 /\ p[1] = a /\ p[2] = Validation
    BY <1>3
  <2> QED BY <2>1, AgentNames
<1> QED BY <1>1, <1>2, <1>3 DEF ErdPlans

\* The next round of an ERD.
LEMMA ErdRound ==
  ASSUME TypeOK, status = "RUNNING", docs = "ERD", NEW t \in ErdTargets, NEW F, GiveUp(t, F)
  PROVE  \/ /\ plan' \in ErdPlans /\ step' = 1
            /\ t \in {<<Data>>, <<Data, Mermaid>>} => plan'[1] = Data
            /\ t = <<>> => plan'[1] = Validation
         \/ UNCHANGED <<plan, step>> /\ status' = "FAILED" /\ repair' = 0
<1>1. CASE ~CanReplan
  BY <1>1 DEF GiveUp
<1>2. CASE CanReplan
  <2>1. plan' = Replan(t) /\ step' = 1
    BY <1>2 DEF GiveUp
  <2>2. CASE t = <<>>
    <3>1. plan' = <<Validation>>
      BY <2>1, <2>2, ErdReplan
    <3>2. plan'[1] = Validation
      BY <3>1
    <3>3. t # <<Data>> /\ t # <<Data, Mermaid>>
      BY <2>2
    <3> QED BY <2>1, <3>1, <3>2, <3>3 DEF ErdPlans
  <2>3. CASE t = <<Data, Mermaid>>
    <3>1. plan' = <<Data, Mermaid, Validation>>
      BY <2>1, <2>3, ErdReplan
    <3>2. plan'[1] = Data /\ t # <<>>
      BY <2>3, <3>1
    <3> QED BY <2>1, <3>1, <3>2 DEF ErdPlans
  <2>4. ASSUME NEW a \in Workers, t = <<a>>
        PROVE  /\ plan' \in ErdPlans /\ (t \in {<<Data>>, <<Data, Mermaid>>} => plan'[1] = Data)
               /\ t # <<>>
    <3>1. CASE a = Data
      <4>1. plan' = <<Data, Mermaid, Validation>>
        BY <2>1, <2>4, <3>1, ErdReplan
      <4>2. plan'[1] = Data /\ t # <<>>
        BY <2>4, <4>1
      <4> QED BY <4>1, <4>2 DEF ErdPlans
    <3>2. CASE a # Data
      <4>1. plan' = <<a, Validation>>
        BY <2>1, <2>4, <3>2, ErdReplan
      <4>2. t # <<Data>> /\ t # <<Data, Mermaid>> /\ t # <<>>
        BY <2>4, <3>2
      <4> QED BY <3>2, <4>1, <4>2 DEF ErdPlans
    <3> QED BY <3>1, <3>2
  <2> QED BY <2>1, <2>2, <2>3, <2>4 DEF ErdTargets
<1> QED BY <1>1, <1>2

\* An agent that succeeds is never the last of its plan.
LEMMA WorkerAdvances ==
  ASSUME TypeOK, PlanInv, NEW a \in Workers, AgentSucceeds(a)
  PROVE  /\ step < Len(plan) /\ step' = step + 1
         /\ UNCHANGED <<docs, udt, plan, failing, repair, repairs, status>>
         /\ status = "RUNNING" /\ plan[step] = a /\ Stores(a, "made")
<1>1. plan[step] = a /\ a # Validation /\ plan[Len(plan)] = Validation
  BY DEF AgentSucceeds, Now, Workers, PlanInv
<1>2. step < Len(plan)
  BY <1>1 DEF TypeOK
<1> QED BY <1>1, <1>2 DEF AgentSucceeds, Advance, Now

\* What an agent that fails leaves behind.
LEMMA WorkerFails ==
  ASSUME NEW a \in Workers, AgentFails(a) \/ AgentFailsForGood(a)
  PROVE  /\ status = "RUNNING" /\ plan[step] = a /\ Stores(a, "lost")
         /\ UNCHANGED <<docs, udt, failing>>
         /\ \/ UNCHANGED <<plan, step, repair, repairs, status>>
            \/ UNCHANGED <<plan, step, repair, repairs>> /\ status' = "FAILED"
            \/ \E t \in {<<>>} \cup {<<b>> : b \in Workers} :
                 GiveUp(t, {}) /\ (a = Data => t = <<Data>>)
<1>1. CASE AgentFailsForGood(a)
  BY <1>1 DEF AgentFailsForGood, Now, End
<1>2. CASE AgentFails(a)
  <2>1. PICK t \in Inferred(a) : RetryOr(t)
    BY <1>2 DEF AgentFails
  <2>2. \/ UNCHANGED <<plan, step, repair, repairs, status>>
        \/ GiveUp(t, {})
    BY <2>1 DEF RetryOr
  <2>3. t \in {<<>>} \cup {<<b>> : b \in Workers} /\ (a = Data => t = <<Data>>)
    BY <2>1, InferredType
  <2> QED BY <1>2, <2>2, <2>3 DEF AgentFails, Now
<1> QED BY <1>1, <1>2

\* What a repair that fails leaves behind.
LEMMA RepairLeaves ==
  ASSUME RepairFails
  PROVE  /\ status = "RUNNING" /\ plan[step] = Data /\ repair # 0
         /\ docs = "ERD" /\ Readable(Data)
         /\ outputs' = [outputs EXCEPT ![Data] = "kept"]
         /\ UNCHANGED <<docs, udt, current, failing>>
         /\ \/ UNCHANGED <<plan, step, repair, repairs, status>>
            \/ \E t \in {<<Data>>, <<>>} : GiveUp(t, {})
<1>1. InputsThere(Data) = RepairSource
  BY AgentNames DEF InputsThere, RepairFails
<1>2. PICK t \in {<<Data>>, <<>>} : RetryOr(t)
  BY DEF RepairFails
<1>3. \/ UNCHANGED <<plan, step, repair, repairs, status>>
      \/ GiveUp(t, {})
  BY <1>2 DEF RetryOr
<1>4. docs = "ERD" /\ Readable(Data)
  BY <1>1 DEF RepairFails, RepairSource
<1> QED BY <1>2, <1>3, <1>4 DEF RepairFails, Now

\* A round that is given up without a verdict prepares no repair.
LEMMA NothingToRepair == ASSUME TypeOK, NEW t, GiveUp(t, {}) PROVE repair' = 0
BY GivenUpRepairs

-----------------------------------------------------------------------------
(* The inductive invariant *)

LEMMA InitSupervisorInv == Init => SupervisorInv
<1> SUFFICES ASSUME Init PROVE SupervisorInv
  OBVIOUS
<1>1. TypeOK
  BY InitTypeOK
<1>2. PlanInv
  <2>1. docs \in DocsCds /\ udt \in BOOLEAN /\ plan = Harness(docs, udt) /\ repair = 0
    BY ConstantsAssumption DEF Init
  <2>2. plan[Len(plan)] = Validation
    BY <2>1, HarnessPlan
  <2>3. ASSUME docs = "ERD", NEW i \in DOMAIN plan, plan[i] = Data
        PROVE  i < Len(plan) /\ plan[i + 1] = Mermaid
    <3>1. /\ Len(plan) = 4 /\ DOMAIN plan = 1 .. 4
          /\ plan[1] = Merge /\ plan[2] = Data /\ plan[3] = Mermaid /\ plan[4] = Validation
      BY <2>1, <2>3, ErdHarness
    <3>2. i = 2
      BY <2>3, <3>1, AgentNames
    <3> QED BY <3>1, <3>2
  <2> QED BY <2>1, <2>2, <2>3 DEF PlanInv
<1>3. /\ outputs = [a \in Agents |-> "none"] /\ current = [a \in Agents |-> FALSE]
      /\ repair = 0 /\ repairs = <<>> /\ status = "RUNNING"
  BY DEF Init
<1>4. \A a \in Agents : outputs[a] = "none" /\ current[a] = FALSE
  BY <1>3
<1>5. Validation \in Agents /\ Mermaid \in Agents
  BY DEF Agents
<1>6. KeptInv /\ VerdictInv /\ DrawingInv
  BY <1>3, <1>4, <1>5 DEF KeptInv, VerdictInv, DrawingInv
<1>7. RepairInv /\ ExportIsValidated
  BY <1>3 DEF RepairInv, RepairsSettle, ExportIsValidated
<1> QED BY <1>1, <1>2, <1>6, <1>7 DEF SupervisorInv

\* The plan of another round keeps its shape.
LEMMA GivenUpKeepsPlan ==
  ASSUME TypeOK, PlanInv, status = "RUNNING", UNCHANGED docs, NEW t, NEW F, GiveUp(t, F),
         t \in Seq(Agents), docs = "ERD" => t \in ErdTargets
  PROVE  PlanInv'
<1>1. plan'[Len(plan')] = Validation
  BY GivenUpPlan, ReplanPlan DEF PlanInv
<1>2. CASE docs = "ERD" /\ plan' \in ErdPlans
  BY <1>1, <1>2, ErdPlan DEF PlanInv
<1>3. CASE docs = "ERD" /\ UNCHANGED plan /\ repair' = 0
  BY <1>1, <1>3 DEF PlanInv
<1> QED BY <1>1, <1>2, <1>3, ErdRound DEF PlanInv

LEMMA TargetsType ==
  /\ \A t \in {<<>>} \cup {<<a>> : a \in Workers} : t \in Seq(Agents) /\ t \in ErdTargets
  /\ \A t \in {<<>>, <<Data>>, <<Mermaid>>, <<Data, Mermaid>>} : t \in ErdTargets
<1>1. Workers \subseteq Agents /\ Data \in Workers /\ Mermaid \in Workers
  BY AgentNames DEF Workers, Agents
<1>2. \A a \in Workers : <<a>> \in Seq(Agents)
  BY <1>1, Pairs
<1>3. <<>> \in Seq(Agents)
  OBVIOUS
<1>4. \A t \in {<<>>} \cup {<<a>> : a \in Workers} : t \in Seq(Agents)
  BY <1>2, <1>3
<1> QED BY <1>1, <1>4 DEF ErdTargets

LEMMA NextPlanInv == TypeOK /\ PlanInv /\ [Next]_vars => PlanInv'
<1> SUFFICES ASSUME TypeOK, PlanInv, [Next]_vars PROVE PlanInv'
  OBVIOUS
<1>1. ASSUME NEW a \in Workers, AgentSucceeds(a) PROVE PlanInv'
  BY <1>1, WorkerAdvances DEF PlanInv
<1>2. ASSUME NEW a \in Workers, AgentFails(a) \/ AgentFailsForGood(a) PROVE PlanInv'
  <2>1. status = "RUNNING" /\ UNCHANGED docs
    BY <1>2, WorkerFails
  <2>2. CASE UNCHANGED <<plan, repair>>
    BY <2>1, <2>2 DEF PlanInv
  <2>3. ASSUME NEW t \in {<<>>} \cup {<<b>> : b \in Workers}, GiveUp(t, {}) PROVE PlanInv'
    BY <2>1, <2>3, TargetsType, GivenUpKeepsPlan
  <2> QED BY <1>2, <2>2, <2>3, WorkerFails
<1>3. ASSUME RepairFails PROVE PlanInv'
  <2>1. status = "RUNNING" /\ UNCHANGED docs
    BY <1>3, RepairLeaves
  <2>2. CASE UNCHANGED <<plan, repair>>
    BY <2>1, <2>2 DEF PlanInv
  <2>3. ASSUME NEW t \in {<<Data>>, <<>>}, GiveUp(t, {}) PROVE PlanInv'
    <3>1. t \in {<<>>} \cup {<<b>> : b \in Workers}
      BY AgentNames DEF Workers
    <3> QED BY <2>1, <2>3, <3>1, TargetsType, GivenUpKeepsPlan
  <2> QED BY <1>3, <2>2, <2>3, RepairLeaves
<1>4. ASSUME ValidationPasses PROVE PlanInv'
  BY <1>4 DEF ValidationPasses, Advance, PlanInv
<1>5. ASSUME ValidationFails PROVE PlanInv'
  <2>1. PICK F \in SUBSET Checks : Judged(F) /\ GiveUp(Blamed(F), F)
    BY <1>5 DEF ValidationFails
  <2>2. status = "RUNNING" /\ UNCHANGED docs /\ docs \in DocsCds
    BY <1>5, <2>1, ConstantsAssumption DEF ValidationFails, Judged, Now, TypeOK
  <2>3. Blamed(F) \in Seq(Agents) /\ (docs = "ERD" => Blamed(F) \in ErdTargets)
    BY <2>2, BlamedType, ErdBlamed, TargetsType
  <2> QED BY <2>1, <2>2, <2>3, GivenUpKeepsPlan
<1>6. ASSUME ValidationRaises PROVE PlanInv'
  <2>1. status = "RUNNING" /\ GiveUp(<<>>, {}) /\ UNCHANGED docs
    BY <1>6 DEF ValidationRaises, Now
  <2> QED BY <2>1, TargetsType, GivenUpKeepsPlan
<1>7. CASE UNCHANGED vars
  BY <1>7 DEF vars, PlanInv
<1> QED BY <1>1, <1>2, <1>3, <1>4, <1>5, <1>6, <1>7 DEF Next

LEMMA NextExportIsValidated ==
  SupervisorInv /\ [Next]_vars => ExportIsValidated'
<1> SUFFICES ASSUME SupervisorInv, [Next]_vars PROVE ExportIsValidated'
  OBVIOUS
<1>0. TypeOK /\ PlanInv /\ ExportIsValidated /\ Validation \in Agents
  BY DEF SupervisorInv, Agents
<1>1. ASSUME NEW a \in Workers, AgentSucceeds(a) PROVE status' # "EXPORT"
  BY <1>0, <1>1, WorkerAdvances
<1>2. ASSUME NEW a \in Workers, AgentFails(a) \/ AgentFailsForGood(a) PROVE status' # "EXPORT"
  BY <1>0, <1>2, WorkerFails DEF GiveUp
<1>3. ASSUME RepairFails PROVE status' # "EXPORT"
  BY <1>0, <1>3, RepairLeaves DEF GiveUp
<1>4. ASSUME ValidationPasses PROVE ExportIsValidated'
  <2>1. Stores(Validation, "made") /\ failing' = {}
    BY <1>4 DEF ValidationPasses, Judged
  <2>2. outputs'[Validation] = "made" /\ current'[Validation]
    BY <1>0, <2>1, StoresType DEF Results
  <2> QED BY <2>1, <2>2 DEF ExportIsValidated
<1>5. ASSUME ValidationFails PROVE status' # "EXPORT"
  BY <1>5 DEF ValidationFails, Judged, Now, GiveUp
<1>6. ASSUME ValidationRaises PROVE status' # "EXPORT"
  BY <1>6 DEF ValidationRaises, Now, GiveUp
<1>7. CASE UNCHANGED vars
  BY <1>0, <1>7 DEF vars, ExportIsValidated
<1> QED BY <1>1, <1>2, <1>3, <1>4, <1>5, <1>6, <1>7 DEF Next, ExportIsValidated

\* Only what was kept is not replaced, and only the validation has seen it.
LEMMA NothingKept ==
  ASSUME TypeOK, KeptInv, NEW a \in Workers, plan[step] = a, NEW result \in {"made", "lost"},
         Stores(a, result)
  PROVE  /\ \A b \in Agents : outputs'[b] # "kept"
         /\ ~current'[Validation]
<1>1. a \in Agents /\ a # Validation /\ result \in Results /\ Validation \in Agents
  BY DEF Workers, Results, Agents
<1>2. ASSUME NEW b \in Agents, outputs'[b] = "kept" PROVE FALSE
  <2>1. b # a /\ outputs[b] = "kept"
    BY <1>1, <1>2, StoresType
  <2>2. b = Data /\ step = 1 /\ plan[1] \in {Data, Validation}
    BY <2>1 DEF KeptInv
  <2> QED BY <1>1, <2>1, <2>2
<1>3. Reads(Validation, a)
  BY <1>1 DEF Reads
<1> QED BY <1>1, <1>2, <1>3, StoresType

LEMMA NextKeptInv == SupervisorInv /\ [Next]_vars => KeptInv'
<1> SUFFICES ASSUME SupervisorInv, [Next]_vars PROVE KeptInv'
  OBVIOUS
<1>0. /\ TypeOK /\ PlanInv /\ KeptInv
      /\ Validation \in Agents /\ Data \in Agents /\ Data # Validation
      /\ \A a \in Workers : a \in Agents /\ a # Validation
  BY AgentNames DEF SupervisorInv, Agents, Workers
<1>1. ASSUME NEW a \in Workers, AgentSucceeds(a) PROVE KeptInv'
  <2>1. \A b \in Agents : outputs'[b] # "kept"
    BY <1>0, <1>1, WorkerAdvances, NothingKept
  <2>2. ASSUME docs' = "ERD", repair' # 0, plan'[step'] = Data PROVE FALSE
    <3>1. /\ docs = "ERD" /\ repair # 0 /\ plan[step + 1] = Data
          /\ step \in 1 .. Len(plan) /\ step < Len(plan) /\ Len(plan) \in Nat
          /\ DOMAIN plan = 1 .. Len(plan)
      BY <1>0, <1>1, <2>2, WorkerAdvances DEF TypeOK
    <3>2. step + 1 \in DOMAIN plan /\ step + 1 # 1
      BY <3>1
    <3> QED BY <1>0, <3>1, <3>2 DEF PlanInv
  <2> QED BY <2>1, <2>2 DEF KeptInv
<1>2. ASSUME NEW a \in Workers, AgentFails(a) \/ AgentFailsForGood(a) PROVE KeptInv'
  <2>1. /\ status = "RUNNING" /\ plan[step] = a /\ Stores(a, "lost")
        /\ UNCHANGED <<docs, udt, failing>>
    BY <1>2, WorkerFails
  <2>2. \A b \in Agents : outputs'[b] # "kept"
    BY <1>0, <2>1, NothingKept
  <2>3. outputs'[a] = "lost"
    BY <1>0, <2>1, StoresType DEF Results
  <2>4. CASE UNCHANGED <<plan, step>>
    <3>1. plan'[step'] = Data => ~Readable(Data)'
      BY <2>1, <2>3, <2>4 DEF Readable
    <3> QED BY <2>2, <3>1 DEF KeptInv
  <2>5. ASSUME NEW t, GiveUp(t, {}) PROVE KeptInv'
    BY <1>0, <2>2, <2>5, NothingToRepair DEF KeptInv
  <2> QED BY <1>2, <2>4, <2>5, WorkerFails
<1>3. ASSUME RepairFails PROVE KeptInv'
  <2>1. /\ status = "RUNNING" /\ plan[step] = Data /\ repair # 0 /\ docs = "ERD"
        /\ Readable(Data) /\ outputs' = [outputs EXCEPT ![Data] = "kept"]
        /\ UNCHANGED <<docs, udt, current, failing>>
    BY <1>3, RepairLeaves
  <2>2. current[Validation] /\ "semantic" \in failing
    BY <1>0, <2>1 DEF KeptInv
  <2>3. step = 1 /\ plan[1] = Data
    BY <1>0, <2>1 DEF PlanInv, TypeOK
  <2>4. step' = 1 /\ plan'[1] \in {Data, Validation}
    <3>1. CASE UNCHANGED <<plan, step>>
      BY <2>3, <3>1
    <3>2. ASSUME NEW t \in {<<Data>>, <<>>}, GiveUp(t, {})
          PROVE  step' = 1 /\ plan'[1] \in {Data, Validation}
      <4>1. t \in ErdTargets
        BY <3>2, TargetsType
      <4> QED BY <1>0, <2>1, <2>3, <3>2, <4>1, ErdRound
    <3> QED BY <1>3, <3>1, <3>2, RepairLeaves
  <2>5. \A a \in Agents : outputs'[a] = "kept" => a = Data
    <3>1. \A a \in Agents \ {Data} : outputs'[a] = outputs[a]
      BY <1>0, <2>1 DEF TypeOK
    <3> QED BY <1>0, <3>1 DEF KeptInv
  <2> QED BY <2>1, <2>2, <2>4, <2>5 DEF KeptInv
<1>4. ASSUME NEW F, Judged(F)
      PROVE  /\ status = "RUNNING" /\ plan[step] = Validation
             /\ current'[Validation] /\ failing' = F
             /\ \A b \in Agents : outputs'[b] = "kept" =>
                  /\ b = Data /\ docs = "ERD" /\ step = 1 /\ plan[1] = Validation
                  /\ "semantic" \in F
  <2>1. /\ status = "RUNNING" /\ plan[step] = Validation /\ F \in Verdicts
        /\ Stores(Validation, "made") /\ failing' = F
    BY <1>4 DEF Judged, Now
  <2>2. /\ outputs'[Validation] = "made" /\ current'[Validation]
        /\ \A b \in Agents \ {Validation} : outputs'[b] = outputs[b]
    BY <1>0, <2>1, StoresType DEF Results
  <2>3. ASSUME NEW b \in Agents, outputs'[b] = "kept"
        PROVE  /\ b = Data /\ docs = "ERD" /\ step = 1 /\ plan[1] = Validation
               /\ "semantic" \in F
    <3>1. outputs[b] = "kept"
      BY <2>2, <2>3
    <3>2. b = Data /\ docs = "ERD" /\ step = 1 /\ current[Validation] /\ "semantic" \in failing
      BY <1>0, <3>1 DEF KeptInv
    <3>3. F = failing
      BY <2>1, <3>2 DEF Verdicts
    <3> QED BY <2>1, <3>2, <3>3
  <2> QED BY <2>1, <2>2, <2>3
<1>5. ASSUME ValidationPasses PROVE KeptInv'
  <2>1. \A b \in Agents : outputs'[b] # "kept"
    BY <1>4, <1>5 DEF ValidationPasses
  <2>2. ASSUME docs' = "ERD", repair' # 0, plan'[step'] = Data PROVE FALSE
    <3>1. docs = "ERD" /\ plan' = plan /\ Advance
      BY <1>5, <2>2 DEF ValidationPasses
    <3>2. step < Len(plan) /\ step' = step + 1 /\ repair # 0
      BY <2>2, <3>1 DEF Advance
    <3>3. step + 1 \in DOMAIN plan /\ step + 1 # 1
      BY <1>0, <3>2 DEF TypeOK
    <3>4. plan[step + 1] = Data
      BY <2>2, <3>1, <3>2
    <3> QED BY <1>0, <3>1, <3>2, <3>3, <3>4 DEF PlanInv
  <2> QED BY <2>1, <2>2 DEF KeptInv
<1>6. ASSUME ValidationFails PROVE KeptInv'
  <2>1. PICK F \in SUBSET Checks : Judged(F) /\ GiveUp(Blamed(F), F)
    BY <1>6 DEF ValidationFails
  <2>2. /\ status = "RUNNING" /\ plan[step] = Validation
        /\ current'[Validation] /\ failing' = F /\ docs' = docs
        /\ \A b \in Agents : outputs'[b] = "kept" =>
             /\ b = Data /\ docs = "ERD" /\ step = 1 /\ plan[1] = Validation
             /\ "semantic" \in F
    BY <1>4, <1>6, <2>1 DEF ValidationFails
  <2>3. repair' # 0 => "semantic" \in F
    BY <1>0, <2>1, GivenUpRepairs
  <2>4. ASSUME NEW b \in Agents, outputs'[b] = "kept"
        PROVE  step' = 1 /\ plan'[1] \in {Data, Validation}
    <3>1. docs = "ERD" /\ step = 1 /\ plan[1] = Validation /\ "semantic" \in F
      BY <2>2, <2>4
    <3>2. Blamed(F) \in {<<Data>>, <<Data, Mermaid>>}
      BY <3>1, ErdBlamed
    <3>3. Blamed(F) \in ErdTargets
      BY <3>2, TargetsType
    <3> QED BY <1>0, <2>1, <2>2, <3>1, <3>2, <3>3, ErdRound
  <2> QED BY <2>2, <2>3, <2>4 DEF KeptInv
<1>7. ASSUME ValidationRaises PROVE KeptInv'
  <2>1. /\ status = "RUNNING" /\ plan[step] = Validation /\ GiveUp(<<>>, {})
        /\ outputs' = [outputs EXCEPT ![Validation] = "lost"]
        /\ UNCHANGED <<docs, udt, current, failing>>
    BY <1>7 DEF ValidationRaises, Now
  <2>2. repair' = 0
    BY <1>0, <2>1, NothingToRepair
  <2>3. ASSUME NEW b \in Agents, outputs'[b] = "kept" PROVE outputs[b] = "kept"
    BY <1>0, <2>1, <2>3 DEF TypeOK
  <2>4. ASSUME docs = "ERD", step = 1, plan[1] \in {Data, Validation}
        PROVE  step' = 1 /\ plan'[1] \in {Data, Validation}
    <3>1. <<>> \in ErdTargets
      BY TargetsType
    <3> QED BY <1>0, <2>1, <2>4, <3>1, ErdRound
  <2>5. ASSUME NEW b \in Agents, outputs'[b] = "kept"
        PROVE  /\ b = Data /\ docs = "ERD" /\ step' = 1 /\ plan'[1] \in {Data, Validation}
               /\ current[Validation] /\ "semantic" \in failing
    BY <1>0, <2>3, <2>4, <2>5 DEF KeptInv
  <2> QED BY <2>1, <2>2, <2>5 DEF KeptInv
<1>8. CASE UNCHANGED vars
  BY <1>0, <1>8 DEF vars, KeptInv, Readable
<1> QED BY <1>1, <1>2, <1>3, <1>5, <1>6, <1>7, <1>8 DEF Next

\* Author and the diagram agent are two of the agents.
LEMMA Authors ==
  ASSUME TypeOK
  PROVE  /\ Author \in Workers \ {Mermaid} /\ Author # Validation
         /\ Mermaid \in Workers /\ Mermaid # Validation
         /\ ~Reads(Mermaid, Validation)
         /\ docs = "ERD" => \A a \in Agents : Reads(Mermaid, a) => a = Data
<1>1. docs \in DocsCds
  BY ConstantsAssumption DEF TypeOK
<1>2. Merge \in Workers /\ Mermaid \in Workers /\ Merge # Mermaid
  BY AgentNames DEF Workers, Agents
<1>3. Generator[docs] \in Workers \ {Merge, Mermaid}
  BY <1>1, Generators
<1> QED BY <1>2, <1>3, AgentNames, Generators DEF Author, Reads, Workers

LEMMA NextVerdictInv == SupervisorInv /\ [Next]_vars => VerdictInv'
<1> SUFFICES ASSUME SupervisorInv, [Next]_vars PROVE VerdictInv'
  OBVIOUS
<1>0. /\ TypeOK /\ KeptInv /\ VerdictInv /\ DrawingInv
      /\ Validation \in Agents /\ Data \in Agents /\ Data # Validation /\ Data # Mermaid
      /\ \A a \in Workers : a \in Agents /\ a # Validation
      /\ docs \in DocsCds
  BY AgentNames, ConstantsAssumption DEF SupervisorInv, Agents, Workers, TypeOK
<1>a. /\ Author \in Agents /\ Author # Validation /\ Mermaid \in Agents /\ Mermaid # Validation
      /\ ~Reads(Mermaid, Validation)
  BY <1>0, Authors
<1>1. ASSUME NEW a \in Workers, AgentSucceeds(a) PROVE VerdictInv'
  <2>1. plan[step] = a /\ Stores(a, "made")
    BY <1>1 DEF AgentSucceeds, Now
  <2> QED BY <1>0, <2>1, NothingKept DEF VerdictInv
<1>2. ASSUME NEW a \in Workers, AgentFails(a) \/ AgentFailsForGood(a) PROVE VerdictInv'
  <2>1. plan[step] = a /\ Stores(a, "lost")
    BY <1>2, WorkerFails
  <2> QED BY <1>0, <2>1, NothingKept DEF VerdictInv
<1>3. ASSUME RepairFails PROVE VerdictInv'
  <2>1. /\ status = "RUNNING" /\ plan[step] = Data /\ repair # 0 /\ docs = "ERD"
        /\ Readable(Data) /\ outputs' = [outputs EXCEPT ![Data] = "kept"]
        /\ UNCHANGED <<docs, udt, current, failing>>
    BY <1>3, RepairLeaves
  <2>2. "semantic" \in failing'
    BY <1>0, <2>1 DEF KeptInv
  <2>3. outputs'[Mermaid] = outputs[Mermaid]
    BY <1>0, <1>a, <2>1 DEF TypeOK
  <2> QED BY <1>0, <2>1, <2>2, <2>3 DEF VerdictInv
<1>4. ASSUME NEW F, Judged(F), UNCHANGED <<docs, udt>> PROVE VerdictInv'
  <2>1. /\ plan[step] = Validation /\ F \in Verdicts /\ status = "RUNNING"
        /\ Stores(Validation, "made") /\ failing' = F
    BY <1>4 DEF Judged, Now
  <2>2. /\ \A b \in Agents \ {Validation} : outputs'[b] = outputs[b]
        /\ current'[Mermaid] <=> current[Mermaid]
    BY <1>0, <1>a, <2>1, StoresType DEF Results
  <2>3. Author' = Author
    BY <1>4 DEF Author
  <2>4. ASSUME docs = "ERD", outputs[Mermaid] = "made" PROVE current[Mermaid]
    BY <1>0, <1>a, <2>1, <2>4 DEF DrawingInv
  <2>5. ASSUME F = {}
        PROVE outputs[Author] = "made" /\ (docs \in Drawn => outputs[Mermaid] = "made")
    <3>1. CASE current[Validation]
      <4>1. failing = {}
        BY <2>1, <2>5, <3>1 DEF Verdicts
      <4> QED BY <1>0, <3>1, <4>1 DEF VerdictInv
    <3>2. CASE ~current[Validation]
      <4>1. Absent = {}
        BY <2>1, <2>5, <3>2 DEF Verdicts
      <4>2. "output" \in ChecksOf(docs) /\ (docs \in Drawn => "drawing" \in ChecksOf(docs))
        BY <1>0, Checked
      <4>3. Readable(Author) /\ (docs \in Drawn => outputs[Mermaid] = "made")
        BY <4>1, <4>2 DEF Absent
      <4>4. outputs[Author] # "kept"
        BY <1>0, <1>a, <3>2 DEF KeptInv
      <4> QED BY <4>3, <4>4 DEF Readable
    <3> QED BY <3>1, <3>2
  <2> QED BY <1>a, <1>4, <2>1, <2>2, <2>3, <2>4, <2>5 DEF VerdictInv
<1>5. ASSUME ValidationPasses PROVE VerdictInv'
  BY <1>4, <1>5 DEF ValidationPasses
<1>6. ASSUME ValidationFails PROVE VerdictInv'
  BY <1>4, <1>6 DEF ValidationFails
<1>7. ASSUME ValidationRaises PROVE VerdictInv'
  <2>1. /\ outputs' = [outputs EXCEPT ![Validation] = "lost"]
        /\ UNCHANGED <<docs, udt, current, failing>>
    BY <1>7 DEF ValidationRaises
  <2>2. outputs'[Mermaid] = outputs[Mermaid] /\ outputs'[Author] = outputs[Author]
    BY <1>0, <1>a, <2>1 DEF TypeOK
  <2>3. Author' = Author
    BY <2>1 DEF Author
  <2> QED BY <1>0, <2>1, <2>2, <2>3 DEF VerdictInv
<1>8. CASE UNCHANGED vars
  <2>1. Author' = Author
    BY <1>8 DEF Author, vars
  <2> QED BY <1>0, <1>8, <2>1 DEF vars, VerdictInv
<1> QED BY <1>1, <1>2, <1>3, <1>5, <1>6, <1>7, <1>8 DEF Next

LEMMA NextDrawingInv == SupervisorInv /\ [Next]_vars => DrawingInv'
<1> SUFFICES ASSUME SupervisorInv, [Next]_vars,
                    docs' = "ERD", status' = "RUNNING", outputs'[Mermaid] = "made",
                    ~current'[Mermaid]
             PROVE  plan'[step'] \in {Data, Mermaid}
  BY DEF DrawingInv
<1>0. /\ TypeOK /\ PlanInv /\ KeptInv /\ VerdictInv /\ DrawingInv
      /\ Validation \in Agents /\ Data \in Agents /\ Data # Validation /\ Data # Mermaid
      /\ \A a \in Workers : a \in Agents /\ a # Validation
      /\ Data \in Workers
  BY AgentNames DEF SupervisorInv, Agents, Workers
<1>a. /\ Mermaid \in Agents /\ Mermaid # Validation /\ ~Reads(Mermaid, Validation)
      /\ docs = "ERD" => \A a \in Agents : Reads(Mermaid, a) => a = Data
  BY <1>0, Authors
<1>b. ASSUME NEW a \in Workers, plan[step] = a, NEW result \in {"made", "lost"},
             Stores(a, result), docs = "ERD", status = "RUNNING"
      PROVE  a = Data
  <2>1. result \in Results /\ a \in Agents
    BY <1>0 DEF Results
  <2>2. a # Mermaid
    BY <1>0, <1>b, <2>1, StoresType
  <2>3. /\ outputs'[Mermaid] = outputs[Mermaid]
        /\ current'[Mermaid] <=> current[Mermaid] /\ ~Reads(Mermaid, a)
    BY <1>0, <1>a, <1>b, <2>1, <2>2, StoresType
  <2>4. Reads(Mermaid, a) => a = Data
    BY <1>a, <1>b, <2>1
  <2>5. outputs[Mermaid] = "made" /\ (current[Mermaid] => a = Data)
    BY <2>3, <2>4
  <2> QED BY <1>0, <1>b, <2>2, <2>5 DEF DrawingInv
<1>1. ASSUME NEW a \in Workers, AgentSucceeds(a) PROVE plan'[step'] \in {Data, Mermaid}
  <2>1. /\ step < Len(plan) /\ step' = step + 1 /\ plan' = plan /\ docs' = docs
        /\ status = "RUNNING" /\ plan[step] = a /\ Stores(a, "made")
    BY <1>0, <1>1, WorkerAdvances
  <2>2. plan[step] = Data
    BY <1>b, <2>1
  <2>3. step \in DOMAIN plan
    BY <1>0 DEF TypeOK
  <2> QED BY <1>0, <2>1, <2>2, <2>3 DEF PlanInv
<1>2. ASSUME NEW a \in Workers, AgentFails(a) \/ AgentFailsForGood(a)
      PROVE  plan'[step'] \in {Data, Mermaid}
  <2>1. /\ status = "RUNNING" /\ plan[step] = a /\ Stores(a, "lost") /\ docs = "ERD"
    BY <1>2, WorkerFails
  <2>2. a = Data
    BY <1>b, <2>1
  <2>3. CASE UNCHANGED <<plan, step>>
    BY <2>1, <2>2, <2>3
  <2>4. ASSUME GiveUp(<<Data>>, {}) PROVE plan'[step'] \in {Data, Mermaid}
    <3>1. <<Data>> \in ErdTargets
      BY <1>0, TargetsType
    <3> QED BY <1>0, <2>1, <2>4, <3>1, ErdRound
  <2> QED BY <1>2, <2>2, <2>3, <2>4, WorkerFails
<1>3. ASSUME RepairFails PROVE plan'[step'] \in {Data, Mermaid}
  <2>1. /\ status = "RUNNING" /\ plan[step] = Data /\ repair # 0 /\ docs = "ERD"
        /\ Readable(Data) /\ outputs' = [outputs EXCEPT ![Data] = "kept"]
        /\ UNCHANGED <<docs, udt, current, failing>>
    BY <1>3, RepairLeaves
  <2>2. current[Validation] /\ outputs[Mermaid] = "made"
    BY <1>0, <1>a, <2>1 DEF KeptInv, TypeOK
  <2> QED BY <1>0, <2>1, <2>2 DEF VerdictInv
<1>4. ASSUME plan[step] = Validation, status = "RUNNING", docs' = docs,
             outputs'[Mermaid] = outputs[Mermaid], current'[Mermaid] <=> current[Mermaid]
      PROVE  FALSE
  BY <1>0, <1>a, <1>4 DEF DrawingInv
<1>5. ASSUME NEW F, Judged(F), UNCHANGED docs PROVE FALSE
  <2>1. /\ plan[step] = Validation /\ status = "RUNNING" /\ Stores(Validation, "made")
    BY <1>5 DEF Judged, Now
  <2>2. outputs'[Mermaid] = outputs[Mermaid] /\ (current'[Mermaid] <=> current[Mermaid])
    BY <1>0, <1>a, <2>1, StoresType DEF Results
  <2> QED BY <1>4, <1>5, <2>1, <2>2
<1>6. ASSUME ValidationPasses \/ ValidationFails PROVE FALSE
  BY <1>5, <1>6 DEF ValidationPasses, ValidationFails
<1>7. ASSUME ValidationRaises PROVE FALSE
  <2>1. /\ plan[step] = Validation /\ status = "RUNNING"
        /\ outputs' = [outputs EXCEPT ![Validation] = "lost"] /\ UNCHANGED <<docs, current>>
    BY <1>7 DEF ValidationRaises, Now
  <2>2. outputs'[Mermaid] = outputs[Mermaid]
    BY <1>0, <1>a, <2>1 DEF TypeOK
  <2> QED BY <1>4, <2>1, <2>2
<1>8. CASE UNCHANGED vars
  BY <1>0, <1>8 DEF vars, DrawingInv
<1> QED BY <1>1, <1>2, <1>3, <1>6, <1>7, <1>8 DEF Next

\* A repair is decided when the round it belongs to ends.
LEMMA GivenUpSettles ==
  ASSUME TypeOK, RepairInv, status = "RUNNING", NEW t, NEW F, GiveUp(t, F)
  PROVE  RepairInv'
<1>1. /\ DOMAIN repairs = 1 .. Len(repairs) /\ Len(repairs) \in Nat
      /\ \A i \in DOMAIN repairs : /\ repairs[i] = "PENDING" <=> i = repair
                                   /\ repairs[i] # "PASS"
  BY DEF RepairInv, RepairsSettle, TypeOK
<1>2. /\ repairs' \in Seq(Ends) /\ repair' \in 0 .. Len(repairs')
      /\ repair' # 0 => /\ repair' = Len(repairs') /\ Len(repairs') = Len(repairs) + 1
                        /\ repairs'[repair'] = "PENDING"
      /\ repair' = 0 => Len(repairs') = Len(repairs)
      /\ \A i \in DOMAIN repairs : repairs'[i] = IF i = repair THEN "FAILED" ELSE repairs[i]
  BY GivenUpRepairs
<1>3. DOMAIN repairs' = 1 .. Len(repairs') /\ status' # "EXPORT"
  BY <1>2 DEF GiveUp
<1>4. \A i \in DOMAIN repairs : repairs'[i] # "PENDING" /\ repairs'[i] # "PASS"
  BY <1>1, <1>2
<1>5. ASSUME NEW i \in DOMAIN repairs'
      PROVE  (repairs'[i] = "PENDING" <=> i = repair') /\ repairs'[i] # "PASS"
  <2>1. CASE repair' = 0
    BY <1>1, <1>2, <1>3, <1>4, <2>1
  <2>2. CASE repair' # 0
    <3>1. i \in DOMAIN repairs \/ i = repair'
      BY <1>1, <1>2, <1>3, <2>2
    <3>2. repair' \notin DOMAIN repairs
      BY <1>1, <1>2, <2>2
    <3>3. CASE i = repair'
      BY <1>2, <2>2, <3>3
    <3>4. CASE i \in DOMAIN repairs
      BY <1>4, <3>2, <3>4
    <3> QED BY <3>1, <3>3, <3>4
  <2> QED BY <2>1, <2>2
<1> QED BY <1>2, <1>3, <1>5 DEF RepairInv, RepairsSettle

LEMMA NextRepairInv == SupervisorInv /\ [Next]_vars => RepairInv'
<1> SUFFICES ASSUME SupervisorInv, [Next]_vars PROVE RepairInv'
  OBVIOUS
<1>0. TypeOK /\ PlanInv /\ RepairInv
  BY DEF SupervisorInv
<1>a. ASSUME status = "RUNNING", UNCHANGED <<repair, repairs>>, status' \in {"RUNNING", "FAILED"}
      PROVE  RepairInv'
  BY <1>0, <1>a DEF RepairInv, RepairsSettle
<1>1. ASSUME NEW a \in Workers, AgentSucceeds(a) PROVE RepairInv'
  BY <1>0, <1>1, <1>a, WorkerAdvances
<1>2. ASSUME NEW a \in Workers, AgentFails(a) \/ AgentFailsForGood(a) PROVE RepairInv'
  BY <1>0, <1>2, <1>a, WorkerFails, GivenUpSettles
<1>3. ASSUME RepairFails PROVE RepairInv'
  BY <1>0, <1>3, <1>a, RepairLeaves, GivenUpSettles
<1>4. ASSUME ValidationPasses PROVE RepairInv'
  <2>1. Advance /\ status = "RUNNING"
    BY <1>4 DEF ValidationPasses, Judged, Now
  <2>2. CASE step < Len(plan)
    BY <1>a, <2>1, <2>2 DEF Advance
  <2>3. CASE ~(step < Len(plan))
    <3>1. status' = "EXPORT" /\ repairs' = Finished("PASS") /\ repair' = 0
      BY <2>1, <2>3 DEF Advance
    <3>2. /\ DOMAIN repairs = 1 .. Len(repairs) /\ Len(repairs) \in Nat /\ 0 \notin DOMAIN repairs
          /\ \A i \in DOMAIN repairs : /\ repairs[i] = "PENDING" <=> i = repair
                                       /\ repairs[i] # "PASS"
          /\ repair # 0 => repair = Len(repairs)
      BY <1>0, <2>1 DEF RepairInv, RepairsSettle, TypeOK
    <3>3. /\ Len(repairs') = Len(repairs) /\ DOMAIN repairs' = DOMAIN repairs
          /\ \A i \in DOMAIN repairs : repairs'[i] = IF i = repair THEN "PASS" ELSE repairs[i]
      BY <1>0, <3>1, FinishedType
    <3>4. \A i \in DOMAIN repairs' : repairs'[i] # "PENDING" /\ i # 0
      BY <3>2, <3>3
    <3>5. \A i \in DOMAIN repairs' : repairs'[i] = "PASS" => i = repair /\ repair # 0
      BY <3>2, <3>3
    <3>6. \A i \in DOMAIN repairs' : repairs'[i] = "PASS" => i = Len(repairs')
      BY <3>2, <3>3, <3>5
    <3> QED BY <3>1, <3>4, <3>6 DEF RepairInv, RepairsSettle
  <2> QED BY <2>2, <2>3
<1>5. ASSUME ValidationFails PROVE RepairInv'
  BY <1>0, <1>5, GivenUpSettles DEF ValidationFails, Judged, Now
<1>6. ASSUME ValidationRaises PROVE RepairInv'
  BY <1>0, <1>6, GivenUpSettles DEF ValidationRaises, Now
<1>7. CASE UNCHANGED vars
  BY <1>0, <1>7 DEF vars, RepairInv, RepairsSettle
<1> QED BY <1>1, <1>2, <1>3, <1>4, <1>5, <1>6, <1>7 DEF Next

-----------------------------------------------------------------------------
(* What the supervisor promises *)

\* The inductive invariant holds in every reachable state.
THEOREM SupervisorInvariant == Spec => []SupervisorInv
<1>1. Init => SupervisorInv
  BY InitSupervisorInv
<1>2. SupervisorInv /\ [Next]_vars => SupervisorInv'
  <2> SUFFICES ASSUME SupervisorInv, [Next]_vars PROVE SupervisorInv'
    OBVIOUS
  <2>1. TypeOK' /\ PlanInv' /\ ExportIsValidated'
    BY NextTypeOK, NextPlanInv, NextExportIsValidated DEF SupervisorInv
  <2>2. KeptInv' /\ VerdictInv' /\ DrawingInv' /\ RepairInv'
    BY NextKeptInv, NextVerdictInv, NextDrawingInv, NextRepairInv
  <2> QED BY <2>1, <2>2 DEF SupervisorInv
<1> QED BY <1>1, <1>2, PTL DEF Spec

\* Every variable keeps its type, for any set of documents and any number of rounds: the
\* step is one of the plan, and neither the rounds nor the repairs exceed max_round.
THEOREM TypeCorrect == Spec => []TypeOK
<1>1. SupervisorInv => TypeOK
  BY DEF SupervisorInv
<1> QED BY <1>1, SupervisorInvariant, PTL

\* What is exported is what the last validation approved: nothing was found, and no agent's
\* output has changed since.
THEOREM ExportsAreValidated == Spec => []ExportIsValidated
<1>1. SupervisorInv => ExportIsValidated
  BY DEF SupervisorInv
<1> QED BY <1>1, SupervisorInvariant, PTL

\* An exported document has its content and, if it is to have one, its diagram.
THEOREM ExportsAreComplete == Spec => []ExportIsComplete
<1>1. SupervisorInv => ExportIsComplete
  BY DEF SupervisorInv, VerdictInv, ExportIsValidated, ExportIsComplete
<1> QED BY <1>1, SupervisorInvariant, PTL

\* The diagrams of an exported ERD show the ERD exported with them, however often either was
\* made again.
THEOREM ErdsAreDrawn == Spec => []ErdIsDrawn
<1>1. SupervisorInv => ErdIsDrawn
  <2> SUFFICES ASSUME SupervisorInv, status = "EXPORT", docs = "ERD" PROVE current[Mermaid]
    BY DEF ErdIsDrawn
  <2>1. current[Validation] /\ failing = {} /\ docs \in Drawn
    BY DEF SupervisorInv, ExportIsValidated, Drawn
  <2> QED BY <2>1 DEF SupervisorInv, VerdictInv
<1> QED BY <1>1, SupervisorInvariant, PTL

\* At most one repair is open and it is the latest one; an export leaves none open; and a
\* repair passes only when the document does.
THEOREM RepairsAreSettled == Spec => []RepairsSettle
<1>1. SupervisorInv => RepairsSettle
  BY DEF SupervisorInv, RepairInv
<1> QED BY <1>1, SupervisorInvariant, PTL

=============================================================================
